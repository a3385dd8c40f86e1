------------------------- MODULE ProposalExecution -------------------------
(***************************************************************************)
(* From an agent's execution proposal to its result in the Rift bridge.    *)
(* A proposal waits in the approval registry; a human approves it in the   *)
(* room or through the control server, or rejects it, or it expires.  The  *)
(* control server's approvals pass through a channel to the drain task,    *)
(* which holds them while the room is paused.  A dispatched proposal gets  *)
(* a permit, a health check, a sandbox and a supervised run of at most two *)
(* attempts, and its result is posted and written back to its task.        *)
(***************************************************************************)
EXTENDS Integers, FiniteSets

CONSTANTS
  Proposals,
  MaxAttempts,    \* supervisor.rs MAX_ATTEMPTS
  MaxConcurrent,  \* permits of exec_semaphore
  ChannelCap      \* capacity of the approved channel

(* What the constants are assumed to be, by the modules that give them values. *)
ExecutionConstants ==
  /\ IsFiniteSet(Proposals)
  /\ MaxAttempts \in Nat \ {0} /\ MaxConcurrent \in Nat \ {0} /\ ChannelCap \in Nat \ {0}

VARIABLES
  registry,   \* ApprovalRegistry: state of each entry
  sending,    \* control handlers waiting to put an approval on the channel
  channel,    \* approvals on their way to the drain task
  paused,     \* the watched pause state
  edge,       \* a change of it that the drain task has not seen
  swept,      \* expired proposals whose task is not yet written back
  stage,      \* progress of each dispatched proposal
  attempts,   \* attempts started
  result,     \* result of the last attempt
  status,     \* status of the proposal's task in Kleos
  managed,    \* whether the room has a leadership guard at all
  revoked,    \* that guard, monotonic
  fates,      \* history: what happened to each proposal
  starts,     \* history: supervised runs started
  partials,   \* history: attempts that left partial work
  posts       \* history: terminal results posted to the room

approvalVars == <<registry, sending, channel, paused, edge, swept>>
runVars      == <<stage, attempts, result, starts, partials, posts>>
guard        == <<managed, revoked>>
executionVars == <<approvalVars, runVars, status, guard, fates>>

Running == {"health", "sandbox", "start", "attempt", "judge", "post", "writeback"}

ExecutionTypeOK ==
  /\ registry \in [Proposals -> {"none", "pending", "approved", "out"}]
  /\ sending \in SUBSET Proposals /\ channel \in SUBSET Proposals /\ swept \in SUBSET Proposals
  /\ paused \in BOOLEAN /\ edge \in BOOLEAN /\ managed \in BOOLEAN /\ revoked \in BOOLEAN
  /\ stage \in [Proposals -> Running \cup {"none", "permit", "done"}]
  /\ attempts \in [Proposals -> Nat] /\ starts \in [Proposals -> Nat]
  /\ partials \in [Proposals -> Nat] /\ posts \in [Proposals -> Nat]
  /\ result \in [Proposals -> {"none", "success", "failed", "partial"}]
  /\ status \in [Proposals -> {"open", "completed", "blocked"}]
  /\ fates \in [Proposals -> SUBSET {"dispatched", "rejected", "expired"}]

ExecutionInit ==
  /\ registry = [p \in Proposals |-> "none"]
  /\ sending = {} /\ channel = {} /\ swept = {}
  /\ paused = FALSE /\ edge = FALSE /\ managed \in BOOLEAN /\ revoked = FALSE
  /\ stage = [p \in Proposals |-> "none"]
  /\ attempts = [p \in Proposals |-> 0] /\ starts = [p \in Proposals |-> 0]
  /\ partials = [p \in Proposals |-> 0] /\ posts = [p \in Proposals |-> 0]
  /\ result = [p \in Proposals |-> "none"]
  /\ status = [p \in Proposals |-> "open"]
  /\ fates = [p \in Proposals |-> {}]

---------------------------------------------------------------------------
(* Approval *)

\* Coordinator::handle_proposal, granted: the task exists, the entry is Pending.
Register(p) ==
  /\ registry[p] = "none"
  /\ registry' = [registry EXCEPT ![p] = "pending"]
  /\ UNCHANGED <<sending, channel, paused, edge, swept, runVars, status, guard, fates>>

\* dispatcher.execute_approved spawns the pipeline of every proposal of a set.
Dispatch(ps) ==
  /\ stage' = [p \in Proposals |-> IF p \in ps THEN "permit" ELSE stage[p]]
  /\ fates' = [p \in Proposals |-> IF p \in ps THEN fates[p] \cup {"dispatched"} ELSE fates[p]]

\* approve_and_take finds a Pending entry.
Takeable(p) == registry[p] = "pending"

\* !approve in the room, which only runs while not paused.
ApproveInRoom(p) ==
  /\ ~paused /\ Takeable(p)
  /\ registry' = [registry EXCEPT ![p] = "out"]
  /\ Dispatch({p})
  /\ UNCHANGED <<sending, channel, paused, edge, swept, attempts, result, starts, partials,
                 posts, status, guard>>

\* act_on_approval "approve": mark the entry, then send it.
ApproveByControl(p) ==
  /\ registry[p] = "pending"
  /\ registry' = [registry EXCEPT ![p] = "approved"]
  /\ sending' = sending \cup {p}
  /\ UNCHANGED <<channel, paused, edge, swept, runVars, status, guard, fates>>

Send(p) ==
  /\ p \in sending
  /\ Cardinality(channel) < ChannelCap
  /\ sending' = sending \ {p}
  /\ channel' = channel \cup {p}
  /\ UNCHANGED <<registry, paused, edge, swept, runVars, status, guard, fates>>

\* The operator's connection ends while the handler waits for a full channel.
HandlerDropped(p) ==
  /\ p \in sending
  /\ Cardinality(channel) >= ChannelCap
  /\ sending' = sending \ {p}
  /\ UNCHANGED <<registry, channel, paused, edge, swept, runVars, status, guard, fates>>

\* !reject in the room or "reject" at the control server, accepted.
Reject(p) ==
  /\ registry[p] \in {"pending", "approved"}
  /\ registry' = [registry EXCEPT ![p] = "out"]
  /\ fates' = [fates EXCEPT ![p] = @ \cup {"rejected"}]
  /\ UNCHANGED <<sending, channel, paused, edge, swept, runVars, status, guard>>

\* sweep_expired: the entries past their lifetime leave the registry at once.
Sweep ==
  /\ swept = {}
  /\ \E ps \in (SUBSET {p \in Proposals : registry[p] = "pending"}) \ {{}} :
       /\ registry' = [p \in Proposals |-> IF p \in ps THEN "out" ELSE registry[p]]
       /\ fates' = [p \in Proposals |-> IF p \in ps THEN fates[p] \cup {"expired"} ELSE fates[p]]
       /\ swept' = ps
  /\ UNCHANGED <<sending, channel, paused, edge, runVars, status, guard>>

\* sweep_expired_approvals writes one task back; a failing write is ignored.
SweepWriteback(p) ==
  /\ p \in swept /\ ~revoked
  /\ swept' = swept \ {p}
  /\ status' \in {status, [status EXCEPT ![p] = "blocked"]}
  /\ UNCHANGED <<registry, sending, channel, paused, edge, runVars, guard, fates>>

\* A revoked guard ends the sweep where it is.
SweepAborted ==
  /\ swept # {} /\ revoked
  /\ swept' = {}
  /\ UNCHANGED <<registry, sending, channel, paused, edge, runVars, status, guard, fates>>

---------------------------------------------------------------------------
(* The drain task *)

\* Variant: the drain task trusts the message and not the registry.
ClaimedUnchecked(p) == TRUE

\* registry.complete(id) finds the entry.
Claimed(p) == registry[p] \in {"pending", "approved"}

\* What a held approval leaves in the registry.
Held(p) == registry

\* decide_drain_action: Hold, Dispatch or Skip.
Drain(p) ==
  /\ p \in channel
  /\ channel' = channel \ {p}
  /\ \/ /\ paused
        /\ registry' = Held(p)
        /\ UNCHANGED <<stage, fates>>
     \/ /\ ~paused /\ Claimed(p)
        /\ registry' = [registry EXCEPT ![p] = "out"]
        /\ Dispatch({p})
     \/ /\ ~paused /\ ~Claimed(p)
        /\ UNCHANGED <<registry, stage, fates>>
  /\ UNCHANGED <<sending, paused, edge, swept, attempts, result, starts, partials, posts,
                 status, guard>>

\* take_approved: what the end of a pause releases.
Flushed == {p \in Proposals : registry[p] = "approved"}

\* The drain task sees a change of the pause state and flushes what was held.
Unpaused ==
  /\ edge
  /\ edge' = FALSE
  /\ IF paused
     THEN UNCHANGED <<registry, stage, fates>>
     ELSE /\ registry' = [p \in Proposals |-> IF p \in Flushed THEN "out" ELSE registry[p]]
          /\ Dispatch(Flushed)
  /\ UNCHANGED <<sending, channel, paused, swept, attempts, result, starts, partials, posts,
                 status, guard>>

\* The pause poller publishes a transition.
SetPause ==
  /\ paused' = ~paused
  /\ edge' = TRUE
  /\ UNCHANGED <<registry, sending, channel, swept, runVars, status, guard, fates>>

---------------------------------------------------------------------------
(* Dispatch *)

\* One pipeline moves from one stage to another under current leadership.
Move(p, from, to) ==
  /\ ~revoked
  /\ stage[p] = from
  /\ stage' = [stage EXCEPT ![p] = to]

InFlight == {p \in Proposals : stage[p] \in Running}

AcquirePermit(p) ==
  /\ Move(p, "permit", "health")
  /\ Cardinality(InFlight) < MaxConcurrent
  /\ UNCHANGED <<approvalVars, attempts, result, starts, partials, posts, status, guard, fates>>

Healthy(p) ==
  /\ Move(p, "health", "sandbox")
  /\ UNCHANGED <<approvalVars, attempts, result, starts, partials, posts, status, guard, fates>>

Sandboxed(p) ==
  /\ Move(p, "sandbox", "start")
  /\ UNCHANGED <<approvalVars, attempts, result, starts, partials, posts, status, guard, fates>>

\* Health check or sandbox fails: the task is blocked, if that write succeeds.
Blocked(p) ==
  /\ \E s \in {"health", "sandbox"} : Move(p, s, "done")
  /\ status' \in {status, [status EXCEPT ![p] = "blocked"]}
  /\ UNCHANGED <<approvalVars, attempts, result, starts, partials, posts, guard, fates>>

\* No executor or no workspace of that name: the pipeline just returns.
Unconfigured(p) ==
  /\ \E s \in {"health", "sandbox"} : Move(p, s, "done")
  /\ UNCHANGED <<approvalVars, attempts, result, starts, partials, posts, status, guard, fates>>

\* Supervisor::run begins with the first attempt.
StartRun(p) ==
  /\ Move(p, "start", "attempt")
  /\ starts' = [starts EXCEPT ![p] = @ + 1]
  /\ attempts' = [attempts EXCEPT ![p] = 1]
  /\ UNCHANGED <<approvalVars, result, partials, posts, status, guard, fates>>

\* run_attempt ends with a result; a deadline or a failure signal is "partial".
AttemptEnds(p, r) ==
  /\ Move(p, "attempt", "judge")
  /\ result' = [result EXCEPT ![p] = r]
  /\ partials' = [partials EXCEPT ![p] = IF r = "partial" THEN @ + 1 ELSE @]
  /\ UNCHANGED <<approvalVars, attempts, starts, posts, status, guard, fates>>

should_retry(p) == result[p] = "partial" /\ attempts[p] < MaxAttempts

\* The room is told, and the attempt is repeated on the same worktree.
Retry(p) ==
  /\ should_retry(p)
  /\ Move(p, "judge", "attempt")
  /\ attempts' = [attempts EXCEPT ![p] = @ + 1]
  /\ UNCHANGED <<approvalVars, result, starts, partials, posts, status, guard, fates>>

Judge(p) ==
  /\ ~should_retry(p)
  /\ Move(p, "judge", "post")
  /\ UNCHANGED <<approvalVars, attempts, result, starts, partials, posts, status, guard, fates>>

\* post_result reaches the room.
PostResult(p) ==
  /\ Move(p, "post", "writeback")
  /\ posts' = [posts EXCEPT ![p] = @ + 1]
  /\ UNCHANGED <<approvalVars, attempts, result, starts, partials, status, guard, fates>>

\* In a room without leadership the result is lost and the pipeline goes on.
PostLost(p) ==
  /\ ~managed
  /\ Move(p, "post", "writeback")
  /\ UNCHANGED <<approvalVars, attempts, result, starts, partials, posts, status, guard, fates>>

\* A notice fails: in a managed room leadership is revoked.
NotifyFails(p) ==
  /\ managed /\ ~revoked
  /\ stage[p] \in {"attempt", "judge", "post"}
  /\ revoked' = TRUE
  /\ UNCHANGED <<approvalVars, runVars, status, managed, fates>>

\* Success completes the task, anything else blocks it.
Final(p) == IF result[p] = "success" THEN "completed" ELSE "blocked"

\* Memory and task status are written back, best effort.
Writeback(p) ==
  /\ Move(p, "writeback", "done")
  /\ status' \in {status, [status EXCEPT ![p] = Final(p)]}
  /\ UNCHANGED <<approvalVars, attempts, result, starts, partials, posts, guard, fates>>

\* Verification of leadership fails anywhere in the process.
Revoke ==
  /\ managed /\ ~revoked
  /\ revoked' = TRUE
  /\ UNCHANGED <<approvalVars, runVars, status, managed, fates>>

\* Variant: a pipeline that still waits for its permit is not told.
CancellableRunning == Running

\* The stages that race the revocation.
Cancellable == Running \cup {"permit"}

\* await_while_current and the supervisor drop what they were waiting for.
Cancelled(p) ==
  /\ revoked
  /\ stage[p] \in Cancellable
  /\ stage' = [stage EXCEPT ![p] = "done"]
  /\ UNCHANGED <<approvalVars, attempts, result, starts, partials, posts, status, guard, fates>>

---------------------------------------------------------------------------
DrainStep == Unpaused \/ \E p \in Proposals : Drain(p)

PipelineStep(p) ==
  \/ AcquirePermit(p) \/ Healthy(p) \/ Sandboxed(p) \/ Blocked(p) \/ Unconfigured(p)
  \/ StartRun(p) \/ Retry(p) \/ Judge(p) \/ PostResult(p) \/ PostLost(p) \/ Writeback(p)
  \/ Cancelled(p)
  \/ \E r \in {"success", "failed", "partial"} : AttemptEnds(p, r)

ExecutionNext ==
  \/ \E p \in Proposals : Register(p)
  \/ \E p \in Proposals : ApproveInRoom(p)
  \/ \E p \in Proposals : ApproveByControl(p)
  \/ \E p \in Proposals : Send(p)
  \/ \E p \in Proposals : HandlerDropped(p)
  \/ \E p \in Proposals : Reject(p)
  \/ Sweep
  \/ \E p \in Proposals : SweepWriteback(p)
  \/ SweepAborted
  \/ DrainStep
  \/ SetPause
  \/ \E p \in Proposals : PipelineStep(p)
  \/ \E p \in Proposals : NotifyFails(p)
  \/ Revoke

ExecutionSpec == ExecutionInit /\ [][ExecutionNext]_executionVars

\* The drain task, each control handler and each spawned pipeline is polled;
\* permits are granted in order of arrival, hence strong fairness for them.
LiveExecutionSpec ==
  /\ ExecutionSpec
  /\ WF_executionVars(DrainStep)
  /\ \A p \in Proposals : WF_executionVars(Send(p)) /\ WF_executionVars(PipelineStep(p))
                          /\ SF_executionVars(AcquirePermit(p))

---------------------------------------------------------------------------
(* Properties *)

\* Approval in the room, approval at the control server, the flush after a
\* pause, the drain of a late message, rejection and expiry compete for a
\* proposal: exactly one of them decides it, and it is never run twice
\* (approval.rs, runtime.rs).
OneFate ==
  \A p \in Proposals : Cardinality(fates[p]) <= 1 /\ starts[p] <= 1

\* An approval that was given at the control server is still in the registry,
\* visible and rejectable, until something decides it (runtime.rs: the hold
\* lives in the registry).
HeldIsVisible ==
  \A p \in Proposals : registry[p] = "out" => fates[p] # {}

\* A second attempt is made only of partial work, and never a third
\* (supervisor.rs run, resume.rs should_retry).
AttemptsEarned ==
  \A p \in Proposals : attempts[p] <= MaxAttempts /\ attempts[p] <= partials[p] + 1

\* A task is completed only after a successful run, whose result a managed room
\* has seen, and never under a proposal that was rejected or expired.
CompletedIsTrue ==
  \A p \in Proposals : status[p] = "completed" =>
      result[p] = "success" /\ (managed => posts[p] = 1) /\ fates[p] = {"dispatched"}

\* A proposal has one fate, is visible until it has it, earns its attempts, and
\* its task says what became of it.
ExecutionSafety == ExecutionTypeOK /\ OneFate /\ HeldIsVisible /\ AttemptsEarned /\ CompletedIsTrue

\* An approval is not left behind: unless the room is paused it is dispatched,
\* or rejected meanwhile (runtime.rs: approvals are dispatched as they arrive).
ApprovalReleased ==
  \A p \in Proposals : (registry[p] = "approved") ~> (registry[p] = "out" \/ paused)

\* Every dispatched proposal comes to an end and gives its permit back.
DispatchEnds == \A p \in Proposals : (stage[p] = "permit") ~> (stage[p] = "done")

---------------------------------------------------------------------------
(* Why a proposal has one fate: the inductive invariant.                   *)

\* A proposal is undecided while the registry has it; then it has one fate, and
\* a pipeline exactly if that fate is to be dispatched.
FateOK(p) ==
  /\ (registry[p] # "out") => fates[p] = {}
  /\ (registry[p] = "out") => \E x \in {"dispatched", "rejected", "expired"} : fates[p] = {x}
  /\ (stage[p] # "none") <=> (fates[p] = {"dispatched"})
  /\ (p \in swept) => fates[p] = {"expired"}

\* What has happened in each stage of a pipeline: one run, begun once, whose
\* attempts follow partial results, and whose result is posted before it is
\* written back.
RunOK(p) ==
  /\ starts[p] <= 1
  /\ (stage[p] \in {"none", "permit", "health", "sandbox", "start"}) => starts[p] = 0
  /\ attempts[p] <= MaxAttempts /\ attempts[p] <= partials[p] + 1
  /\ (stage[p] = "judge" /\ result[p] = "partial") => attempts[p] <= partials[p]
  /\ (stage[p] \notin {"writeback", "done"}) => posts[p] = 0
  /\ (stage[p] = "writeback" /\ managed) => posts[p] = 1
  /\ (status[p] = "completed") =>
       stage[p] = "done" /\ result[p] = "success" /\ (managed => posts[p] = 1)

ExecutionInv == ExecutionTypeOK /\ \A p \in Proposals : FateOK(p) /\ RunOK(p)
=============================================================================
