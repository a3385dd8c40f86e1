--------------------------- MODULE MCServicesLive ---------------------------
(* Liveness of the request pipeline and of the services, each on its own,     *)
(* under the fairness its module states.                                      *)
EXTENDS Integers, TLC

CONSTANT None

VARIABLE part   \* the component this behaviour is about

\* GovernedDispatch
VARIABLES
  approvals, dispatchNow, dispatchLog, attached, ledger, resolutions, stream,
  witnessReceipts, witnessHead, task, orphans, effects

\* Loom
VARIABLES
  workflow, refused, deps, run, step, retry, overdue, loomPc, queue, inlined, captured, loomCrashes,
  executed, verdicts

\* DurableAxon
VARIABLES
  axonLog, sequence, cursor, fanning, ring, batch, axonCrashes, appended, handed, pruned,
  axonSeen

\* CronRuntime
VARIABLES
  cronNow, leader, paused, disk, mem, cronPc, pending, current, results, cronFaults,
  injected, decided, cut

\* StripeBilling
VARIABLES
  customers, prices, tier, quota, entitlement, eventLog, worker, acked, billingFaults,
  landed

\* AgentSession
VARIABLES
  next, open, row, ctx, handle, status, tasks, store, agentFaults, agentLost, sound

\* HephaestusTask
VARIABLES
  rec, sender, reply, taskPc, turn, done, question, skip, client, mirrors, saved, asked,
  taskCrashes, taskLost, alerts, cutShort, threads, stale

\* CircuitBreaker
VARIABLES
  state, fails, half, age, up, breakerPc, breakerSeen, unheard

Handlers == {"h1", "h2"}
Procs == {"p1", "p2"}

\* A payment missed before its sale is known, and a sale.
Sales == [missed |-> [type |-> "payment_failed", status |-> None, customer |-> "c1",
                      sub |-> "s1", price |-> None],
          trial |-> [type |-> "updated", status |-> "trialing", customer |-> "c2",
                     sub |-> "s2", price |-> "p2"]]

Dispatch == INSTANCE GovernedDispatch WITH
  Requests <- {"r1"}, Actors <- {"alice"}, NoActor <- "nobody", ApprovalIds <- {},
  ApprovalTtl <- 1, MaxLag <- 0, MaxTime <- 0, Slots <- {"s1"},
  SlotOf <- [r \in {"r1"} |-> "s1"], Results <- {"ok", "huge"}, Oversized <- {"huge"},
  NoResult <- "null", Tasks <- Handlers, NoRequest <- "none",
  PrincipalOf <- [s \in {"s1"} |-> "alice"], NeedsApproval <- {}, Witnessed <- TRUE,
  Failures <- {}, now <- dispatchNow, log <- dispatchLog

\* The same request when it needs an approval, which may expire before it is
\* consumed; two generations of it, without the witness.
Approved == INSTANCE GovernedDispatch WITH
  Requests <- {"r1"}, Actors <- {"alice"}, NoActor <- "nobody", ApprovalIds <- {1, 2},
  ApprovalTtl <- 1, MaxLag <- 0, MaxTime <- 1, Slots <- {"s1"},
  SlotOf <- [r \in {"r1"} |-> "s1"], Results <- {"ok"}, Oversized <- {},
  NoResult <- "null", Tasks <- {"h1"}, NoRequest <- "none",
  PrincipalOf <- [s \in {"s1"} |-> "alice"], NeedsApproval <- {"r1"}, Witnessed <- FALSE,
  Failures <- {}, now <- dispatchNow, log <- dispatchLog

LoomRun == INSTANCE Loom WITH
  Steps <- 1 .. 2, Definitions <- {<<{}, {1}>>}, Inline <- {1}, Handlers <- {"h1"},
  MaxRetries <- 1, MaxDepth <- 3, MaxCrashes <- 0, pc <- loomPc, crashes <- loomCrashes

Axon == INSTANCE DurableAxon WITH
  Events <- 1 .. 2, Topics <- {"a", "b"}, Consumers <- {"c1"}, TopicOf <- <<"a", "b">>,
  RingSize <- 1, BatchLimit <- 2, MaxBusCrashes <- 1, log <- axonLog, busCrashes <- axonCrashes,
  seen <- axonSeen

Cron == INSTANCE CronRuntime WITH
  Runtimes <- Procs, Nobody <- "nobody", Jobs <- {"often"}, Period <- [often |-> 1],
  Start <- 1, MaxClock <- 2, MaxFaults <- 1, clock <- cronNow, loop <- cronPc,
  faults <- cronFaults

Billing == INSTANCE StripeBilling WITH
  Events <- DOMAIN Sales, Workers <- {"w1"}, Tenants <- {"t1", "t2"},
  Subscriptions <- {"s1", "s2"}, Body <- Sales, PriceMap <- [p2 |-> "team"],
  CustomerMap <- [c1 |-> "t1", c2 |-> "t2"], Orgs <- {"t1", "t2"}, MaxFaults <- 1,
  faults <- billingFaults

Turns == INSTANCE AgentSession WITH
  MaxRounds <- 1, MaxCalls <- 1, Compression <- TRUE, KeepRecent <- 1, MaxSessions <- 1,
  MaxTasks <- 2, MaxFaults <- 0, faults <- agentFaults, unsaved <- agentLost

Task == INSTANCE HephaestusTask WITH
  Clients <- {"c1"}, MaxTurns <- 1, MaxQuestions <- 1, MaxCrashes <- 2, MaxLost <- 0,
  phase <- taskPc, crashes <- taskCrashes, lost <- taskLost

Breaker == INSTANCE CircuitBreaker WITH
  Calls <- Handlers, Threshold <- 1, Recovery <- 1, ProbeMax <- 1, Silent <- FALSE,
  pc <- breakerPc, seen <- breakerSeen

ASSUME LoomRun!LoomConstants
ASSUME Axon!AxonConstants
ASSUME Cron!CronConstants
ASSUME Billing!BillingConstants
ASSUME Turns!TurnConstants
ASSUME Task!HephaestusConstants
ASSUME Breaker!CircuitConstants

-----------------------------------------------------------------------------
(* A behaviour is about one part; the others stay where they begin.         *)

dispatchVars ==
  <<approvals, dispatchNow, dispatchLog, attached, ledger, resolutions, stream,
  witnessReceipts, witnessHead, task, orphans, effects>>
loomVars ==
  <<workflow, refused, deps, run, step, retry, overdue, loomPc, queue, inlined, captured,
  loomCrashes, executed, verdicts>>
axonVars ==
  <<axonLog, sequence, cursor, fanning, ring, batch, axonCrashes, appended, handed, pruned,
  axonSeen>>
cronVars ==
  <<cronNow, leader, paused, disk, mem, cronPc, pending, current, results, cronFaults,
  injected, decided, cut>>
billingVars ==
  <<customers, prices, tier, quota, entitlement, eventLog, worker, acked, billingFaults,
  landed>>
turnsVars ==
  <<next, open, row, ctx, handle, status, tasks, store, agentFaults, agentLost, sound>>
taskVars ==
  <<rec, sender, reply, taskPc, turn, done, question, skip, client, mirrors, saved, asked,
  taskCrashes, taskLost, alerts, cutShort, threads, stale>>
breakerVars ==
  <<state, fails, half, age, up, breakerPc, breakerSeen, unheard>>


DispatchStep ==
  /\ \/ part = "dispatch" /\ Dispatch!Next
     \/ part = "approved" /\ Approved!Next
  /\ UNCHANGED <<part, loomVars, axonVars, cronVars, billingVars, turnsVars, taskVars, breakerVars>>

LoomRunStep ==
  /\ part = "loom" /\ LoomRun!LoomNext
  /\ UNCHANGED <<part, dispatchVars, axonVars, cronVars, billingVars, turnsVars, taskVars, breakerVars>>

AxonStep ==
  /\ part = "axon" /\ Axon!AxonNext
  /\ UNCHANGED <<part, dispatchVars, loomVars, cronVars, billingVars, turnsVars, taskVars, breakerVars>>

CronStep ==
  /\ part = "cron" /\ Cron!CronNext
  /\ UNCHANGED <<part, dispatchVars, loomVars, axonVars, billingVars, turnsVars, taskVars, breakerVars>>

BillingStep ==
  /\ part = "billing" /\ Billing!BillingNext
  /\ UNCHANGED <<part, dispatchVars, loomVars, axonVars, cronVars, turnsVars, taskVars, breakerVars>>

TurnsStep ==
  /\ part = "turns" /\ Turns!SessionNext
  /\ UNCHANGED <<part, dispatchVars, loomVars, axonVars, cronVars, billingVars, taskVars, breakerVars>>

\* Kleos returns the newest memory first.
TaskStep ==
  /\ part = "task" /\ Task!TaskNext /\ ~stale'
  /\ UNCHANGED <<part, dispatchVars, loomVars, axonVars, cronVars, billingVars, turnsVars, breakerVars>>

BreakerStep ==
  /\ part = "breaker" /\ Breaker!BreakerNext
  /\ UNCHANGED <<part, dispatchVars, loomVars, axonVars, cronVars, billingVars, turnsVars, taskVars>>

partVars == <<part, dispatchVars, loomVars, axonVars, cronVars, billingVars, turnsVars, taskVars, breakerVars>>

\* These components may stop for good.
AtRest == part \in {"loom", "axon", "cron", "billing", "turns", "task"} /\ UNCHANGED partVars

PartsInit ==
  /\ part \in {"dispatch", "approved", "loom", "axon", "cron", "billing", "turns", "task", "breaker"}
  /\ Dispatch!Init
  /\ LoomRun!LoomInit
  /\ Axon!AxonInit
  /\ Cron!CronInit
  /\ Billing!BillingInit
  /\ Turns!SessionInit
  /\ Task!TaskInit
  /\ Breaker!CircuitInit
  /\ part = "breaker" \/ up

PartsNext ==
  \/ DispatchStep
  \/ LoomRunStep
  \/ AxonStep
  \/ CronStep
  \/ BillingStep
  \/ TurnsStep
  \/ TaskStep
  \/ BreakerStep
  \/ AtRest

PartsSpec == PartsInit /\ [][PartsNext]_partVars

-----------------------------------------------------------------------------
(* Fairness *)

HandlerStep(p) ==
  \/ part = "dispatch" /\ Dispatch!TaskStep(p)
  \/ part = "approved" /\ p = "h1" /\ Approved!TaskStep(p)

\* Handlers, engine tasks, turns, executors and runtimes are polled; executors,
\* providers and tools answer or time out; the sweeper and the clocks tick;
\* consumers consume again and again; Stripe delivers again what has no 200.
Fairness ==
  /\ \A p \in Handlers : WF_dispatchVars(HandlerStep(p))
  /\ \A t \in LoomRun!Tasks :
       /\ WF_loomVars(part = "loom" /\ LoomRun!Advance(t))
       /\ WF_loomVars(part = "loom" /\ LoomRun!ExecutorAnswers(t))
  /\ \A s \in 1 .. 2 : WF_loomVars(part = "loom" /\ LoomRun!Overdue(s))
  /\ WF_loomVars(part = "loom" /\ LoomRun!Sweep)
  /\ WF_axonVars(part = "axon" /\ Axon!Handle("c1"))
  /\ \A t \in {"a", "b"} : SF_axonVars(part = "axon" /\ Axon!Consume("c1", t))
  /\ \A r \in Procs : WF_cronVars(part = "cron" /\ Cron!Work(r))
  /\ WF_billingVars(part = "billing" /\ Billing!Step("w1"))
  /\ \A e \in DOMAIN Sales : WF_billingVars(part = "billing" /\ Billing!Deliver("w1", e))
  /\ \A t \in 1 .. 2 :
       WF_turnsVars(part = "turns" /\ t \in DOMAIN tasks /\ (Turns!TurnStep(t) \/ Turns!Stop(t)))
  /\ WF_taskVars(part = "task" /\ Task!Executor)
  /\ WF_taskVars(part = "task" /\ (Task!Recover \/ Task!NotFound))
  /\ WF_breakerVars(part = "breaker" /\ Breaker!Clock)
  /\ \A c \in Handlers : WF_breakerVars(part = "breaker" /\ Breaker!Step(c))

FairSpec == PartsSpec /\ Fairness

-----------------------------------------------------------------------------
(* Properties *)

(* A handler of the governed pipeline ends, and a claim does not stay claimed:  *)
(* it is completed, or handed to the operators, also when the approval it was   *)
(* made under expires before it is consumed.                                    *)
DispatchSettles ==
  /\ part = "dispatch" => Dispatch!HandlersFinish /\ Dispatch!ClaimsSettle
  /\ part = "approved" => Approved!HandlersFinish /\ Approved!ClaimsSettle

(* A workflow run ends, an event that the log keeps is handed to its consumer,  *)
(* a due job does not stay undecided while some runtime leads, and every event   *)
(* of Stripe settles in the log, also those nothing can be done about.           *)
ServicesProgress ==
  /\ part = "loom" => LoomRun!RunEnds
  /\ part = "axon" => Axon!KeptIsConsumed
  /\ part = "cron" => Cron!DueIsDecided
  /\ part = "billing" => Billing!EveryEventSettles

(* Every turn of an agent ends, a task of the executor comes to its end or to    *)
(* a question that waits for a person, crashes notwithstanding, and a breaker    *)
(* closes for good once its provider answers for good and every answer is        *)
(* recorded.                                                                     *)
AgentProgress ==
  /\ part = "turns" => Turns!TurnEnds
  /\ part = "task" => Task!TaskSettles
  /\ part = "breaker" => Breaker!Recovers
=============================================================================
