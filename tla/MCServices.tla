----------------------------- MODULE MCServices -----------------------------
(* Safety of the services behind the API, each on its own: the workflow      *)
(* engine, the task store, the durable bus and the scheduled jobs.            *)
EXTENDS Loom, Chiasm, DurableAxon, CronRuntime

VARIABLE part   \* the component this behaviour is about

\* Workflows of three steps: one whose steps may race, and all there are.
Fork == <<{}, {1}, {1}>>
ThreeStepGraphs == [1 .. 3 -> SUBSET (1 .. 3)]

\* Tasks that wait for each other in a ring, and one that waits for two.
Ring == {<<"t1", "t2">>, <<"t2", "t3">>, <<"t3", "t1">>}
Join == {<<"t1", "t2">>, <<"t1", "t3">>}
AnyPlan == Ring \cup Join
OneOwner == [t \in TaskIds |-> "o"]
OneProject == [t \in TaskIds |-> "p"]

TwoTopics == [e \in Events |-> IF e % 2 = 1 THEN "a" ELSE "b"]
OftenAndRare == [often |-> 1, rare |-> 2]

ASSUME LoomConstants /\ ChiasmConstants /\ AxonConstants /\ CronConstants

-----------------------------------------------------------------------------
(* The services with fewer inputs, on the same state.                       *)

LoomRun == INSTANCE Loom WITH Definitions <- {Fork}

\* Two of the three steps have trouble, whichever they are.
TwoRetried == Cardinality({s \in Steps : retry'[s] # 0}) <= 2

Leases == INSTANCE Chiasm WITH Agents <- {}, Given <- {"active"}, Plan <- {}
Planned == INSTANCE Chiasm WITH
  Agents <- {}, Paths <- {}, Sweepers <- {}, Beating <- {}, Given <- {"blocked"},
  Plan <- Ring, MaxTime <- 0
Unblocking == INSTANCE Chiasm WITH
  Agents <- {}, Paths <- {}, Sweepers <- {}, Beating <- {}, Given <- {"blocked", "completed"},
  Plan <- Join, MaxTime <- 0
Queueing == INSTANCE Chiasm WITH
  Paths <- {}, Sweepers <- {}, Beating <- {}, Given <- {"queued", "completed"}, Plan <- {},
  MaxTime <- 0

\* A third task is not needed for leases and for the queue; two that differ in
\* nothing may as well be created in this order.
TwoTasks == used' \in {{}, {"t1"}, {"t1", "t2"}}

-----------------------------------------------------------------------------
(* A behaviour is about one part; the others stay where they begin.         *)

LoomStep ==
  /\ \/ part = "loom" /\ LoomRun!LoomNext /\ TwoRetried
     \/ part = "definitions" /\ refused = {} /\ DefinitionNext
  /\ UNCHANGED <<part, chiasmVars, axonVars, cronVars>>

ChiasmStep ==
  /\ \/ part = "leases" /\ Leases!ChiasmNext /\ TwoTasks
     \/ part = "plan" /\ Planned!ChiasmNext
     \/ part = "unblock" /\ Unblocking!ChiasmNext
     \/ part = "queue" /\ Queueing!ChiasmNext /\ TwoTasks
  /\ UNCHANGED <<part, loomVars, axonVars, cronVars>>

AxonStep ==
  /\ part = "axon" /\ AxonNext
  /\ UNCHANGED <<part, loomVars, chiasmVars, cronVars>>

CronStep ==
  /\ part = "cron" /\ CronNext
  /\ UNCHANGED <<part, loomVars, chiasmVars, axonVars>>

partVars == <<part, loomVars, chiasmVars, axonVars, cronVars>>

\* These components may stop for good.
AtRest == UNCHANGED partVars

PartsInit ==
  /\ part \in {"loom", "definitions", "leases", "plan", "unblock", "queue", "axon", "cron"}
  /\ LoomInit /\ ChiasmInit /\ AxonInit /\ CronInit

PartsNext ==
  \/ LoomStep
  \/ ChiasmStep
  \/ AxonStep
  \/ CronStep
  \/ AtRest

PartsSpec == PartsInit /\ [][PartsNext]_partVars
=============================================================================
