-------------------------------- MODULE Loom --------------------------------
(***************************************************************************)
(* The Loom workflow engine: a workflow definition, one run of it, the     *)
(* tasks that advance the run, outside workers that complete or fail its   *)
(* steps, and the sweeper that enforces the deadlines of attempts.  Every  *)
(* database transaction is one action; executors run between them.         *)
(* Timestamps identify an attempt together with its retry count, which     *)
(* alone tells the attempts of one step apart.                             *)
(***************************************************************************)
EXTENDS Integers, FiniteSets

CONSTANTS
  Steps,        \* step ids of the run, in definition order
  Definitions,  \* dependency lists a client may submit
  Inline,       \* steps whose type the attached executor handles
  Handlers,     \* tasks of API calls
  MaxRetries,   \* max_retries of every step
  MaxDepth,     \* MAX_WORKFLOW_DEPTH
  MaxCrashes    \* bound of the crashes explored

(* What the constants are assumed to be, by the modules that give them values. *)
LoomConstants ==
  /\ Steps \subseteq Nat /\ IsFiniteSet(Steps)
  /\ Definitions \subseteq [Steps -> SUBSET Steps]
  /\ Inline \subseteq Steps
  /\ "sweeper" \notin Handlers
  /\ MaxRetries \in Nat /\ MaxDepth \in Nat /\ MaxCrashes \in Nat

Tasks == Handlers \cup {"sweeper"}

VARIABLES
  workflow,  \* the stored definition, in a set of at most one
  refused,   \* history: the last definition refused, in a set of at most one
  deps,      \* the depends_on columns of the run's steps
  run,       \* status of the run row
  step,      \* status of each step row
  retry,     \* retry_count of each step row
  overdue,   \* running attempts that have outlived timeout_ms
  pc,        \* where each task is
  queue,     \* attempts a task still has to look at
  inlined,   \* made_inline_progress of each task
  captured,  \* timeout candidates the sweeper still has to fail
  crashes,
  executed,  \* history: attempts handed to an executor, with the task
  verdicts   \* history: <<step, attempt, outcome>> that took effect

rows  == <<workflow, refused, deps, run, step, retry, overdue>>
tasks == <<pc, queue, inlined, captured>>
loomVars == <<rows, tasks, crashes, executed, verdicts>>

Attempts == Steps \X (0 .. MaxRetries)
Active   == {"pending", "running"}

LoomTypeOK ==
  /\ workflow \in SUBSET Definitions /\ refused \in SUBSET Definitions
  /\ deps \in [Steps -> SUBSET Steps]
  /\ run \in {"none", "pending", "running", "completed", "failed", "cancelled", "deleted"}
  /\ step \in [Steps -> {"none", "pending", "running", "completed", "failed", "skipped"}]
  /\ retry \in [Steps -> 0 .. MaxRetries]
  /\ overdue \in SUBSET Steps
  /\ pc \in [Tasks -> {"idle", "sweep", "claim", "walk", "execute"}]
  /\ captured \in SUBSET Attempts
  /\ queue \in [Tasks -> SUBSET Attempts]
  /\ inlined \in [Tasks -> BOOLEAN]
  /\ crashes \in 0 .. MaxCrashes
  /\ executed \in SUBSET (Attempts \X Tasks)
  /\ verdicts \in SUBSET (Attempts \X {"completed", "failed"})

---------------------------------------------------------------------------
(* Definitions *)

\* Kahn's algorithm: what is consumed after n levels of the graph.
Consumed(d) ==
  LET level[n \in Nat] == IF n = 0 THEN {} ELSE {s \in Steps : d[s] \subseteq level[n - 1]}
  IN level

\* validate_steps: every step can be consumed.  (A repeated name in a list is
\* refused as a cycle, so that the lists of an accepted definition are sets.)
validate_steps(d) == Consumed(d)[Cardinality(Steps)] = Steps

\* longest_chain_depth of a definition without a cycle.
longest_chain_depth(d) ==
  CHOOSE n \in 0 .. Cardinality(Steps) :
    /\ Consumed(d)[n] = Steps
    /\ \A k \in 0 .. (n - 1) : Consumed(d)[k] # Steps

\* Variant: a definition of any depth.
AcceptedAnyDepth(d) == validate_steps(d)

Accepted(d) == validate_steps(d) /\ longest_chain_depth(d) <= MaxDepth

LoomInit ==
  /\ workflow = {} /\ refused = {} /\ run = "none"
  /\ deps = [s \in Steps |-> {}] /\ step = [s \in Steps |-> "none"]
  /\ retry = [s \in Steps |-> 0] /\ overdue = {}
  /\ pc = [t \in Tasks |-> "idle"] /\ queue = [t \in Tasks |-> {}]
  /\ inlined = [t \in Tasks |-> FALSE] /\ captured = {}
  /\ crashes = 0 /\ executed = {} /\ verdicts = {}

\* create_workflow, and update_workflow with new steps.
PutWorkflow(d) ==
  /\ run # "deleted"
  /\ d \in Definitions /\ d \notin workflow
  /\ \/ Accepted(d) /\ workflow' = {d} /\ UNCHANGED refused
     \/ ~Accepted(d) /\ refused' = {d} /\ UNCHANGED workflow
  /\ UNCHANGED <<deps, run, step, retry, overdue, tasks, crashes, executed, verdicts>>

\* delete_workflow: the run and its steps go with the definition.
DeleteWorkflow ==
  /\ workflow # {}
  /\ workflow' = {} /\ run' = "deleted"
  /\ step' = [s \in Steps |-> "none"]
  /\ overdue' = {}
  /\ UNCHANGED <<refused, deps, retry, tasks, crashes, executed, verdicts>>

\* create_run: the run row and its step rows in one transaction, then advance.
CreateRun(t) ==
  /\ t \in Handlers /\ pc[t] = "idle"
  /\ run = "none" /\ Steps # {}
  /\ \E d \in workflow : Accepted(d) /\ deps' = d
  /\ run' = "pending"
  /\ step' = [s \in Steps |-> "pending"]
  /\ pc' = [pc EXCEPT ![t] = "claim"]
  /\ UNCHANGED <<workflow, refused, retry, overdue, queue, inlined, captured, crashes, executed, verdicts>>

\* Variant: a run that has ended is cancelled, too.
CancelRunAnyStatus ==
  /\ run \notin {"none", "cancelled", "deleted"}
  /\ run' = "cancelled"
  /\ step' = [s \in Steps |-> IF step[s] \in Active THEN "skipped" ELSE step[s]]
  /\ overdue' = {}
  /\ UNCHANGED <<workflow, refused, deps, retry, tasks, crashes, executed, verdicts>>

\* cancel_run of a run that is not terminal.
CancelRun ==
  /\ run \in Active
  /\ run' = "cancelled"
  /\ step' = [s \in Steps |-> IF step[s] \in Active THEN "skipped" ELSE step[s]]
  /\ overdue' = {}
  /\ UNCHANGED <<workflow, refused, deps, retry, tasks, crashes, executed, verdicts>>

---------------------------------------------------------------------------
(* Transitions of an exact attempt *)

\* Variant: whatever attempt is running accepts the outcome.
CurrentAnyAttempt(s, k) == step[s] = "running" /\ run \in Active

\* The attempt the caller worked on is still the running one of an active run.
Current(s, k) == step[s] = "running" /\ retry[s] = k /\ run \in Active

\* complete_step_inner, not stale.
CompleteStep(s, k) ==
  /\ Current(s, k)
  /\ step' = [step EXCEPT ![s] = "completed"]
  /\ overdue' = overdue \ {s}
  /\ verdicts' = verdicts \cup {<<<<s, k>>, "completed">>}
  /\ UNCHANGED <<workflow, refused, deps, run, retry>>

\* The step rows after the failure of the last attempt of a step.
FailedRows(s) ==
  [r \in Steps |-> IF r = s THEN "failed" ELSE IF step[r] \in Active THEN "skipped" ELSE step[r]]

will_retry(k) == k < MaxRetries

\* fail_step_inner, not stale: back to pending, or the step and its run fail.
FailStep(s, k) ==
  /\ Current(s, k)
  /\ overdue' = IF will_retry(k) THEN overdue \ {s} ELSE {}
  /\ verdicts' = verdicts \cup {<<<<s, k>>, "failed">>}
  /\ \/ /\ will_retry(k)
        /\ step' = [step EXCEPT ![s] = "pending"]
        /\ retry' = [retry EXCEPT ![s] = @ + 1]
        /\ UNCHANGED run
     \/ /\ ~will_retry(k)
        /\ step' = FailedRows(s)
        /\ run' = "failed"
        /\ UNCHANGED retry
  /\ UNCHANGED <<workflow, refused, deps>>

\* complete_step or fail_step by an outside worker, then an advance.
Report(t, s, k) ==
  /\ t \in Handlers /\ pc[t] = "idle"
  /\ CompleteStep(s, k) \/ FailStep(s, k)
  /\ pc' = [pc EXCEPT ![t] = "claim"]
  /\ UNCHANGED <<queue, inlined, captured, crashes, executed>>

\* advance_run, the public nudge.
Nudge(t) ==
  /\ t \in Handlers /\ pc[t] = "idle"
  /\ run \in Active
  /\ pc' = [pc EXCEPT ![t] = "claim"]
  /\ UNCHANGED <<rows, queue, inlined, captured, crashes, executed, verdicts>>

---------------------------------------------------------------------------
(* advance_inner *)

\* A task whose advance is over: a call returns, the sweeper goes on sweeping.
Leave(t) == pc' = [pc EXCEPT ![t] = IF t = "sweeper" THEN "sweep" ELSE "idle"]

\* The pending steps all of whose dependencies are completed.
Ready == {s \in Steps : step[s] = "pending" /\ \A d \in deps[s] : step[d] = "completed"}

\* The run is terminal or gone: nothing to advance.
Finished(t) ==
  /\ pc[t] = "claim" /\ run \notin Active
  /\ Leave(t)
  /\ UNCHANGED <<rows, queue, inlined, captured, crashes, executed, verdicts>>

\* No step is pending or running: the run completes.
CompleteRun(t) ==
  /\ pc[t] = "claim" /\ run \in Active
  /\ \A s \in Steps : step[s] \notin Active
  /\ run' = "completed"
  /\ Leave(t)
  /\ UNCHANGED <<workflow, refused, deps, step, retry, overdue, queue, inlined, captured, crashes,
                 executed, verdicts>>

\* One pass: the ready steps become running, to be looked at one after the other.
Claim(t) ==
  /\ pc[t] = "claim" /\ run \in Active
  /\ \E s \in Steps : step[s] \in Active
  /\ run' = "running"
  /\ step' = [s \in Steps |-> IF s \in Ready THEN "running" ELSE step[s]]
  /\ queue' = [queue EXCEPT ![t] = {<<s, retry[s]>> : s \in Ready}]
  /\ inlined' = [inlined EXCEPT ![t] = FALSE]
  /\ pc' = [pc EXCEPT ![t] = "walk"]
  /\ UNCHANGED <<workflow, refused, deps, retry, overdue, captured, crashes, executed, verdicts>>

\* The attempt of a task's queue with the least step id.
First(t, a) == a \in queue[t] /\ \A b \in queue[t] : a[1] <= b[1]

attempt_is_current(a) == Current(a[1], a[2])

\* A claimed attempt that is stale by now, or of a type nobody handles inline.
Pass(t) ==
  /\ pc[t] = "walk"
  /\ \E a \in queue[t] :
       /\ First(t, a)
       /\ ~attempt_is_current(a) \/ a[1] \notin Inline
       /\ queue' = [queue EXCEPT ![t] = @ \ {a}]
  /\ UNCHANGED <<rows, pc, inlined, captured, crashes, executed, verdicts>>

\* A claimed attempt is handed to the executor.
Execute(t) ==
  /\ pc[t] = "walk"
  /\ \E a \in queue[t] :
       /\ First(t, a)
       /\ attempt_is_current(a) /\ a[1] \in Inline
       /\ executed' = executed \cup {<<a, t>>}
  /\ inlined' = [inlined EXCEPT ![t] = TRUE]
  /\ pc' = [pc EXCEPT ![t] = "execute"]
  /\ UNCHANGED <<rows, queue, captured, crashes, verdicts>>

\* The executor answers: the outcome is recorded unless the attempt is stale.
ExecutorAnswers(t) ==
  /\ pc[t] = "execute"
  /\ \E a \in queue[t] :
       /\ First(t, a)
       /\ queue' = [queue EXCEPT ![t] = @ \ {a}]
       /\ \/ CompleteStep(a[1], a[2]) /\ pc' = [pc EXCEPT ![t] = "walk"]
          \/ /\ FailStep(a[1], a[2])
             /\ IF will_retry(a[2]) THEN pc' = [pc EXCEPT ![t] = "walk"] ELSE Leave(t)
          \/ ~Current(a[1], a[2]) /\ pc' = [pc EXCEPT ![t] = "walk"] /\ UNCHANGED <<rows, verdicts>>
  /\ UNCHANGED <<inlined, captured, crashes, executed>>

\* The pass is over: another one if an executor ran, otherwise return.
EndPass(t) ==
  /\ pc[t] = "walk" /\ queue[t] = {}
  /\ IF inlined[t] THEN pc' = [pc EXCEPT ![t] = "claim"] ELSE Leave(t)
  /\ UNCHANGED <<rows, queue, inlined, captured, crashes, executed, verdicts>>

\* The client of a call goes away while an executor works for it.
CallDropped(t) ==
  /\ t \in Handlers /\ pc[t] = "execute"
  /\ pc' = [pc EXCEPT ![t] = "idle"]
  /\ queue' = [queue EXCEPT ![t] = {}]
  /\ UNCHANGED <<rows, inlined, captured, crashes, executed, verdicts>>

---------------------------------------------------------------------------
(* The sweeper *)

\* An attempt outlives its timeout.
Overdue(s) ==
  /\ step[s] = "running" /\ s \notin overdue
  /\ overdue' = overdue \cup {s}
  /\ UNCHANGED <<workflow, refused, deps, run, step, retry, tasks, crashes, executed, verdicts>>

\* sweep_timeouts reads its candidates.
Capture ==
  /\ pc["sweeper"] = "idle" /\ overdue # {}
  /\ captured' = {<<s, retry[s]>> : s \in overdue}
  /\ pc' = [pc EXCEPT !["sweeper"] = "sweep"]
  /\ UNCHANGED <<rows, queue, inlined, crashes, executed, verdicts>>

\* A candidate is failed, and its run advanced, unless it is stale.
SweepOne ==
  /\ pc["sweeper"] = "sweep"
  /\ \E a \in captured :
       /\ captured' = captured \ {a}
       /\ \/ FailStep(a[1], a[2]) /\ pc' = [pc EXCEPT !["sweeper"] = "claim"]
          \/ ~Current(a[1], a[2]) /\ UNCHANGED <<rows, verdicts, pc>>
  /\ UNCHANGED <<queue, inlined, crashes, executed>>

SweepEnds ==
  /\ pc["sweeper"] = "sweep" /\ captured = {}
  /\ pc' = [pc EXCEPT !["sweeper"] = "idle"]
  /\ UNCHANGED <<rows, queue, inlined, captured, crashes, executed, verdicts>>

\* The process dies: the rows stay, every task is gone.
Crash ==
  /\ crashes < MaxCrashes
  /\ crashes' = crashes + 1
  /\ pc' = [t \in Tasks |-> "idle"] /\ queue' = [t \in Tasks |-> {}]
  /\ inlined' = [t \in Tasks |-> FALSE] /\ captured' = {}
  /\ UNCHANGED <<rows, executed, verdicts>>

---------------------------------------------------------------------------
Advance(t) ==
  Finished(t) \/ CompleteRun(t) \/ Claim(t) \/ Pass(t) \/ Execute(t) \/ EndPass(t)

Sweep == Capture \/ SweepOne \/ SweepEnds

LoomNext ==
  \/ \E d \in Definitions : PutWorkflow(d)
  \/ DeleteWorkflow
  \/ \E t \in Handlers : CreateRun(t)
  \/ CancelRun
  \/ \E t \in Handlers, s \in Steps, k \in 0 .. MaxRetries : Report(t, s, k)
  \/ \E t \in Handlers : Nudge(t)
  \/ \E t \in Tasks : Advance(t)
  \/ \E t \in Tasks : ExecutorAnswers(t)
  \/ \E t \in Handlers : CallDropped(t)
  \/ \E s \in Steps : Overdue(s)
  \/ Sweep
  \/ Crash

LoomSpec == LoomInit /\ [][LoomNext]_loomVars

\* Definitions alone: stored and replaced, never run.
DefinitionNext == \E d \in Definitions : PutWorkflow(d)

\* Tasks are polled, the sweeper's interval ticks, time passes.
PolledSpec ==
  /\ LoomSpec
  /\ \A t \in Tasks : WF_loomVars(Advance(t))
  /\ \A s \in Steps : WF_loomVars(Overdue(s))
  /\ WF_loomVars(Sweep)

\* Executors answer, too.
AnsweredSpec == PolledSpec /\ \A t \in Tasks : WF_loomVars(ExecutorAnswers(t))

---------------------------------------------------------------------------
(* Properties *)

\* The status of a run and of its steps never disagree, whoever of several
\* tasks, outside workers, the sweeper and a cancelling client was last: a
\* completed run has all its steps completed, a failed one exactly one failed
\* step and nothing in progress, an active one nothing failed or skipped.
RunMatchesSteps ==
  /\ run \in Active => \A s \in Steps : step[s] \in Active \cup {"completed"}
  /\ run = "completed" => \A s \in Steps : step[s] = "completed"
  /\ run = "failed" => /\ Cardinality({s \in Steps : step[s] = "failed"}) = 1
                       /\ \A s \in Steps : step[s] \notin Active
  /\ run = "cancelled" => \A s \in Steps : step[s] \in {"completed", "skipped"}

\* No executor gets a step, and no step completes, before all the steps it
\* depends on have a completed attempt.
DependenciesFirst ==
  \A s \in Steps :
    (\E k \in 0 .. MaxRetries : (\E t \in Tasks : <<<<s, k>>, t>> \in executed)
                                \/ \E o \in {"completed", "failed"} : <<<<s, k>>, o>> \in verdicts)
      => \A d \in deps[s] : \E k \in 0 .. MaxRetries : <<<<d, k>>, "completed">> \in verdicts

\* One attempt goes to one executor once at most, although several tasks may
\* advance the run at the same time.
ExecutedOnce ==
  \A a \in Attempts : Cardinality({t \in Tasks : <<a, t>> \in executed}) <= 1

\* A timeout, an answer of an executor and a report from outside may race for
\* an attempt: only one takes effect, and a step is completed by one attempt.
OneVerdict ==
  \A a, b \in verdicts : a[1][1] = b[1][1] =>
     /\ a[1] = b[1] => a = b
     /\ a[2] = "completed" => b[1][2] <= a[1][2]

\* The guarantees of a run together.
LoomSafety == LoomTypeOK /\ RunMatchesSteps /\ DependenciesFirst /\ ExecutedOnce /\ OneVerdict

\* A terminal run stays as it is, with all its steps, until it is deleted.
TerminalStep ==
  run \in {"completed", "failed", "cancelled"} =>
    run' = "deleted" \/ UNCHANGED <<run, step, retry, deps>>

TerminalKept == [][TerminalStep]_loomVars

\* Every run ends by itself when executors answer: whatever is not completed
\* in time is failed by the sweeper, and retries are bounded.
RunEnds == (run = "pending") ~> (run \notin Active)

\* The steps can be put on MaxDepth levels, every dependency on a lower one.
Levelled(d) ==
  \E r \in [Steps -> 1 .. MaxDepth] : \A s \in Steps : \A e \in d[s] : r[e] < r[s]

\* validate_steps and longest_chain_depth against the meaning of their result:
\* a definition is refused exactly when it has a cycle or a chain longer than
\* the limit, so that none is stored, and no run was created from one.
DefinitionsSound ==
  /\ \A d \in workflow : Levelled(d)
  /\ \A d \in refused : ~Levelled(d)
  /\ run \notin {"none", "deleted"} => Levelled(deps)

---------------------------------------------------------------------------
(* The inductive invariant behind LoomSafety. *)

\* A run that does not exist yet has left no trace.
FreshOK ==
  run = "none" =>
    /\ verdicts = {} /\ executed = {} /\ overdue = {} /\ captured = {}
    /\ \A s \in Steps : step[s] = "none" /\ retry[s] = 0
    /\ \A t \in Tasks : queue[t] = {}

\* An outcome belongs to the row's attempt or to an earlier one: nothing is in
\* progress that has one, and a completed step has the one that completed it.
OutcomesOK ==
  /\ \A s \in Steps, k \in 0 .. MaxRetries :
       /\ <<<<s, k>>, "completed">> \in verdicts => k = retry[s] /\ step[s] \notin Active
       /\ <<<<s, k>>, "failed">> \in verdicts =>
            k < retry[s] \/ (k = retry[s] /\ step[s] \notin Active)
       /\ ~(<<<<s, k>>, "completed">> \in verdicts /\ <<<<s, k>>, "failed">> \in verdicts)
  /\ \A s \in Steps : step[s] = "completed" => <<<<s, retry[s]>>, "completed">> \in verdicts

DependenciesDone(s) ==
  \A d \in deps[s] : \E k \in 0 .. MaxRetries : <<<<d, k>>, "completed">> \in verdicts

\* What runs, was executed or has an outcome was ready.
StartedOK ==
  \A s \in Steps :
    (\/ step[s] = "running"
     \/ \E k \in 0 .. MaxRetries : \/ \E t \in Tasks : <<<<s, k>>, t>> \in executed
                                   \/ \E o \in {"completed", "failed"} : <<<<s, k>>, o>> \in verdicts)
      => DependenciesDone(s)

\* The attempt has been claimed by some pass.
Claimed(a) == a[2] < retry[a[1]] \/ (a[2] = retry[a[1]] /\ step[a[1]] # "pending")

\* A claimed attempt is in the queue of one task, which is the only one that
\* can hand it to an executor.
ClaimsOK ==
  /\ \A t \in Tasks : \A a \in queue[t] :
       Claimed(a) /\ \A u \in Tasks : a \in queue[u] => u = t
  /\ \A a \in Attempts, t \in Tasks : <<a, t>> \in executed =>
       Claimed(a) /\ \A u \in Tasks : (a \in queue[u] \/ <<a, u>> \in executed) => u = t

LoomInv ==
  LoomTypeOK /\ RunMatchesSteps /\ FreshOK /\ OutcomesOK /\ StartedOK /\ ClaimsOK
=============================================================================
