---------------------------- MODULE Tasks_proofs ----------------------------
(***************************************************************************)
(* Proofs about the two engines that hand out work: the Loom workflow      *)
(* engine (LoomSafety, a definition is stored exactly when it has no       *)
(* cycle, and a run that has ended stays as it is) and the Chiasm task     *)
(* store (ChiasmSafety, and no task of a live worker is staled).           *)
(***************************************************************************)
EXTENDS Loom, Chiasm, WellFoundedInduction, FiniteSetTheorems, TLAPS

-----------------------------------------------------------------------------
(* The Loom engine.                                                       *)

(* The type invariant, of the rows and of the tasks.                       *)
RowsTypeOK ==
  /\ workflow \in SUBSET Definitions /\ refused \in SUBSET Definitions
  /\ deps \in [Steps -> SUBSET Steps]
  /\ run \in {"none", "pending", "running", "completed", "failed", "cancelled", "deleted"}
  /\ step \in [Steps -> {"none", "pending", "running", "completed", "failed", "skipped"}]
  /\ retry \in [Steps -> 0 .. MaxRetries]
  /\ overdue \in SUBSET Steps
  /\ verdicts \in SUBSET (Attempts \X {"completed", "failed"})

TasksTypeOK ==
  /\ pc \in [Tasks -> {"idle", "sweep", "claim", "walk", "execute"}]
  /\ captured \in SUBSET Attempts
  /\ queue \in [Tasks -> SUBSET Attempts]
  /\ inlined \in [Tasks -> BOOLEAN]
  /\ crashes \in 0 .. MaxCrashes
  /\ executed \in SUBSET (Attempts \X Tasks)

LEMMA TypeParts == LoomTypeOK <=> RowsTypeOK /\ TasksTypeOK
BY DEF LoomTypeOK, RowsTypeOK, TasksTypeOK

(* A transition of an exact attempt: what it leaves of the rows.           *)
RowsInv == RowsTypeOK /\ RunMatchesSteps /\ OutcomesOK /\ StartedOK

(* An attempt stays claimed.                                                *)
ClaimsLast == \A a \in Attempts : Claimed(a) => Claimed(a)'

LEMMA AttemptFacts ==
  ASSUME NEW a \in Attempts
  PROVE  a[1] \in Steps /\ a[2] \in 0 .. MaxRetries /\ a = <<a[1], a[2]>>
BY DEF Attempts

(* More outcomes only settle more dependencies.                             *)
LEMMA DependenciesStay ==
  ASSUME deps' = deps, verdicts \subseteq verdicts', NEW s, DependenciesDone(s)
  PROVE  DependenciesDone(s)'
BY DEF DependenciesDone

LEMMA CompleteRows ==
  ASSUME LoomConstants, RowsInv, NEW s \in Steps, NEW k \in 0 .. MaxRetries, CompleteStep(s, k),
         executed' = executed
  PROVE  RowsInv' /\ ClaimsLast /\ run' # "none" /\ UNCHANGED run
<1> USE DEF RowsInv
<1>1. /\ step[s] = "running" /\ retry[s] = k /\ run \in Active
      /\ step' = [step EXCEPT ![s] = "completed"] /\ overdue' = overdue \ {s}
      /\ verdicts' = verdicts \cup {<<<<s, k>>, "completed">>}
      /\ UNCHANGED <<workflow, refused, deps, run, retry>>
  BY DEF CompleteStep, Current
<1>2. step'[s] = "completed" /\ \A r \in Steps : r # s => step'[r] = step[r]
  BY <1>1 DEF RowsTypeOK
<1>3. <<s, k>> \in Attempts
  BY DEF Attempts
<1>4. RowsTypeOK'
  BY <1>1, <1>3 DEF RowsTypeOK
<1>5. RunMatchesSteps'
  BY <1>1, <1>2 DEF RunMatchesSteps, Active
<1>6. \A r \in Steps, n \in 0 .. MaxRetries : \A o \in {"completed", "failed"} :
        <<<<r, n>>, o>> \in verdicts' <=>
          <<<<r, n>>, o>> \in verdicts \/ (r = s /\ n = k /\ o = "completed")
  BY <1>1
<1>7. OutcomesOK'
  <2>1. ASSUME NEW r \in Steps, NEW n \in 0 .. MaxRetries
        PROVE  /\ <<<<r, n>>, "completed">> \in verdicts' => n = retry[r] /\ step'[r] \notin Active
               /\ <<<<r, n>>, "failed">> \in verdicts' =>
                    n < retry[r] \/ (n = retry[r] /\ step'[r] \notin Active)
               /\ ~(<<<<r, n>>, "completed">> \in verdicts' /\ <<<<r, n>>, "failed">> \in verdicts')
    <3>1. CASE r = s
      <4>1. <<<<s, n>>, "completed">> \notin verdicts
        BY <3>1, <1>1 DEF OutcomesOK, Active
      <4>2. <<<<s, n>>, "failed">> \in verdicts => n < retry[s]
        BY <3>1, <1>1 DEF OutcomesOK, Active
      <4> QED
        BY <3>1, <4>1, <4>2, <1>1, <1>2, <1>6 DEF Active
    <3>2. CASE r # s
      BY <3>2, <1>2, <1>6 DEF OutcomesOK
    <3> QED
      BY <3>1, <3>2
  <2>2. ASSUME NEW r \in Steps, step'[r] = "completed"
        PROVE  <<<<r, retry[r]>>, "completed">> \in verdicts'
    BY <2>2, <1>1, <1>2 DEF OutcomesOK
  <2> QED
    BY <2>1, <2>2, <1>1 DEF OutcomesOK
<1>8. StartedOK'
  <2> SUFFICES ASSUME NEW r \in Steps,
                      \/ step'[r] = "running"
                      \/ \E n \in 0 .. MaxRetries :
                           \/ \E t \in Tasks : <<<<r, n>>, t>> \in executed
                           \/ \E o \in {"completed", "failed"} : <<<<r, n>>, o>> \in verdicts'
               PROVE  DependenciesDone(r)'
    BY DEF StartedOK, Tasks
  <2>1. DependenciesDone(r)
    <3>1. CASE r = s
      BY <3>1, <1>1 DEF StartedOK
    <3>2. CASE r # s
      BY <3>2, <1>2, <1>6 DEF StartedOK
    <3> QED
      BY <3>1, <3>2
  <2> QED
    BY <2>1, <1>1, DependenciesStay
<1>9. ClaimsLast
  BY <1>1, <1>2, AttemptFacts DEF ClaimsLast, Claimed
<1> QED
  BY <1>1, <1>4, <1>5, <1>7, <1>8, <1>9 DEF Active

LEMMA FailRows ==
  ASSUME LoomConstants, RowsInv, NEW s \in Steps, NEW k \in 0 .. MaxRetries, FailStep(s, k),
         executed' = executed
  PROVE  RowsInv' /\ ClaimsLast /\ run' # "none"
<1> USE DEF RowsInv
<1>1. /\ step[s] = "running" /\ retry[s] = k /\ run \in Active
      /\ overdue' \subseteq overdue
      /\ verdicts' = verdicts \cup {<<<<s, k>>, "failed">>}
      /\ UNCHANGED <<workflow, refused, deps>>
  BY DEF FailStep, Current
<1>2. \/ /\ k < MaxRetries /\ step' = [step EXCEPT ![s] = "pending"]
         /\ retry' = [retry EXCEPT ![s] = k + 1] /\ run' = run
      \/ /\ step' = FailedRows(s) /\ run' = "failed" /\ retry' = retry
  BY <1>1 DEF FailStep, will_retry
<1>3. <<s, k>> \in Attempts /\ MaxRetries \in Nat
  BY DEF Attempts, LoomConstants
<1>4. \A r \in Steps : retry[r] \in 0 .. MaxRetries
  BY DEF RowsTypeOK
<1>5. \A r \in Steps, n \in 0 .. MaxRetries : \A o \in {"completed", "failed"} :
        <<<<r, n>>, o>> \in verdicts' <=>
          <<<<r, n>>, o>> \in verdicts \/ (r = s /\ n = k /\ o = "failed")
  BY <1>1
<1>6. \A n \in 0 .. MaxRetries : /\ <<<<s, n>>, "completed">> \notin verdicts
                                 /\ <<<<s, n>>, "failed">> \in verdicts => n < k
  BY <1>1 DEF OutcomesOK, Active
<1>7. StartedOK'
  <2> SUFFICES ASSUME NEW r \in Steps,
                      \/ step'[r] = "running"
                      \/ \E n \in 0 .. MaxRetries :
                           \/ \E t \in Tasks : <<<<r, n>>, t>> \in executed
                           \/ \E o \in {"completed", "failed"} : <<<<r, n>>, o>> \in verdicts'
               PROVE  DependenciesDone(r)'
    BY DEF StartedOK, Tasks
  <2>0. step'[r] = "running" => step[r] = "running"
    BY <1>2 DEF FailedRows, RowsTypeOK
  <2>1. DependenciesDone(r)
    <3>1. CASE r = s
      BY <3>1, <1>1 DEF StartedOK
    <3>2. CASE r # s
      BY <3>2, <2>0, <1>5 DEF StartedOK
    <3> QED
      BY <3>1, <3>2
  <2> QED
    BY <2>1, <1>1, DependenciesStay
<1>8. CASE /\ k < MaxRetries /\ step' = [step EXCEPT ![s] = "pending"]
           /\ retry' = [retry EXCEPT ![s] = k + 1] /\ run' = run
  <2>1. /\ step'[s] = "pending" /\ retry'[s] = k + 1
        /\ \A r \in Steps : r # s => step'[r] = step[r] /\ retry'[r] = retry[r]
    BY <1>8 DEF RowsTypeOK
  <2>2. RowsTypeOK'
    BY <1>1, <1>3, <1>8 DEF RowsTypeOK
  <2>3. RunMatchesSteps'
    BY <1>1, <1>8, <2>1 DEF RunMatchesSteps, Active
  <2>4. OutcomesOK'
    <3>1. ASSUME NEW r \in Steps, NEW n \in 0 .. MaxRetries
          PROVE  /\ <<<<r, n>>, "completed">> \in verdicts' => n = retry'[r] /\ step'[r] \notin Active
                 /\ <<<<r, n>>, "failed">> \in verdicts' =>
                      n < retry'[r] \/ (n = retry'[r] /\ step'[r] \notin Active)
                 /\ ~(<<<<r, n>>, "completed">> \in verdicts' /\ <<<<r, n>>, "failed">> \in verdicts')
      <4>1. CASE r = s
        BY <4>1, <1>3, <1>5, <1>6, <2>1
      <4>2. CASE r # s
        BY <4>2, <1>5, <2>1 DEF OutcomesOK
      <4> QED
        BY <4>1, <4>2
    <3>2. ASSUME NEW r \in Steps, step'[r] = "completed"
          PROVE  <<<<r, retry'[r]>>, "completed">> \in verdicts'
      BY <3>2, <1>1, <2>1 DEF OutcomesOK
    <3> QED
      BY <3>1, <3>2 DEF OutcomesOK
  <2>5. ClaimsLast
    <3> SUFFICES ASSUME NEW a \in Attempts, Claimed(a)
                 PROVE  Claimed(a)'
      BY DEF ClaimsLast
    <3>1. a[1] \in Steps /\ a[2] \in Int
      BY AttemptFacts
    <3> QED
      BY <3>1, <2>1, <1>1, <1>4 DEF Claimed
  <2> QED
    BY <2>2, <2>3, <2>4, <2>5, <1>1, <1>7, <1>8 DEF Active
<1>9. CASE step' = FailedRows(s) /\ run' = "failed" /\ retry' = retry
  <2>1. /\ step'[s] = "failed"
        /\ \A r \in Steps : r # s => step'[r] = IF step[r] \in Active THEN "skipped" ELSE step[r]
        /\ \A r \in Steps : step'[r] \notin Active
    BY <1>9 DEF FailedRows, Active
  <2>2. RowsTypeOK'
    BY <1>1, <1>3, <1>9 DEF RowsTypeOK, FailedRows
  <2>3. RunMatchesSteps'
    <3>1. {r \in Steps : step'[r] = "failed"} = {s}
      BY <2>1, <1>1 DEF RunMatchesSteps, Active
    <3>2. Cardinality({r \in Steps : step'[r] = "failed"}) = 1
      BY <3>1, FS_Singleton
    <3> QED
      BY <3>2, <2>1, <1>9 DEF RunMatchesSteps, Active
  <2>4. OutcomesOK'
    <3>1. ASSUME NEW r \in Steps, NEW n \in 0 .. MaxRetries
          PROVE  /\ <<<<r, n>>, "completed">> \in verdicts' => n = retry'[r] /\ step'[r] \notin Active
                 /\ <<<<r, n>>, "failed">> \in verdicts' =>
                      n < retry'[r] \/ (n = retry'[r] /\ step'[r] \notin Active)
                 /\ ~(<<<<r, n>>, "completed">> \in verdicts' /\ <<<<r, n>>, "failed">> \in verdicts')
      <4>1. CASE r = s
        BY <4>1, <1>1, <1>3, <1>5, <1>6, <1>9, <2>1
      <4>2. CASE r # s
        BY <4>2, <1>5, <1>9, <2>1 DEF OutcomesOK
      <4> QED
        BY <4>1, <4>2
    <3>2. ASSUME NEW r \in Steps, step'[r] = "completed"
          PROVE  <<<<r, retry'[r]>>, "completed">> \in verdicts'
      BY <3>2, <1>1, <1>9, <2>1 DEF OutcomesOK
    <3> QED
      BY <3>1, <3>2 DEF OutcomesOK
  <2>5. ClaimsLast
    BY <2>1, <1>9, AttemptFacts DEF ClaimsLast, Claimed, Active
  <2> QED
    BY <2>2, <2>3, <2>4, <2>5, <1>7, <1>9
<1> QED
  BY <1>2, <1>8, <1>9

(* Rows that a step leaves alone keep what is known of them.                *)
LEMMA RowsKept ==
  ASSUME RowsInv, UNCHANGED <<deps, run, step, retry, verdicts, executed>>,
         workflow' \subseteq Definitions, refused' \subseteq Definitions, overdue' \subseteq Steps
  PROVE  RowsInv' /\ ClaimsLast
<1>1. RowsTypeOK' /\ RunMatchesSteps' /\ OutcomesOK'
  BY DEF RowsInv, RowsTypeOK, RunMatchesSteps, OutcomesOK, Active, Attempts
<1>2. StartedOK'
  BY DEF RowsInv, StartedOK, DependenciesDone, Tasks
<1>3. ClaimsLast
  BY DEF ClaimsLast, Claimed
<1> QED
  BY <1>1, <1>2, <1>3 DEF RowsInv

(* Queues that only shrink keep the claims.                                 *)
LEMMA ClaimsKept ==
  ASSUME TasksTypeOK, ClaimsOK, ClaimsLast, executed' = executed,
         \A t \in Tasks : queue'[t] \subseteq queue[t]
  PROVE  ClaimsOK'
<1>1. \A t \in Tasks : queue[t] \subseteq Attempts
  BY DEF TasksTypeOK
<1>2. \A t \in Tasks : \A a \in queue'[t] : Claimed(a)' /\ \A u \in Tasks : a \in queue'[u] => u = t
  BY <1>1 DEF ClaimsOK, ClaimsLast
<1>3. \A a \in Attempts, t \in Tasks : <<a, t>> \in executed' =>
        Claimed(a)' /\ \A u \in Tasks : (a \in queue'[u] \/ <<a, u>> \in executed') => u = t
  BY DEF ClaimsOK, ClaimsLast
<1> QED
  BY <1>2, <1>3 DEF ClaimsOK, Tasks, Attempts

(* A run whose status is not none needs no fresh start.                     *)
LEMMA NotFresh == ASSUME run' # "none" PROVE FreshOK'
BY DEF FreshOK

(* A step of a task on rows that are kept, or transformed by one outcome.   *)
LEMMA TaskStep ==
  ASSUME LoomConstants, LoomInv, RowsInv', ClaimsLast, TasksTypeOK', executed' = executed,
         \A t \in Tasks : queue'[t] \subseteq queue[t],
         \/ run' # "none"
         \/ /\ UNCHANGED <<run, step, retry, verdicts, overdue>>
            /\ captured' \subseteq captured
  PROVE  LoomInv'
<1>1. ClaimsOK'
  BY TypeParts, ClaimsKept DEF LoomInv
<1>2. FreshOK'
  <2>1. CASE run' # "none"
    BY <2>1, NotFresh
  <2>2. CASE UNCHANGED <<run, step, retry, verdicts, overdue>> /\ captured' \subseteq captured
    BY <2>2 DEF LoomInv, FreshOK, Tasks
  <2> QED
    BY <2>1, <2>2
<1>3. LoomTypeOK'
  BY TypeParts DEF RowsInv, LoomTypeOK, RowsTypeOK, TasksTypeOK, Attempts, Tasks
<1> QED
  BY <1>1, <1>2, <1>3 DEF LoomInv, RowsInv

LEMMA LoomInvParts ==
  LoomInv <=> RowsInv /\ TasksTypeOK /\ FreshOK /\ ClaimsOK
BY TypeParts DEF LoomInv, RowsInv

(* What tasks do to themselves.                                             *)
LEMMA TypesOfTasks ==
  ASSUME LoomConstants, TasksTypeOK, NEW t \in Tasks
  PROVE  /\ \A place \in {"idle", "sweep", "claim", "walk", "execute"} :
              [pc EXCEPT ![t] = place] \in [Tasks -> {"idle", "sweep", "claim", "walk", "execute"}]
         /\ \A q \in SUBSET Attempts : [queue EXCEPT ![t] = q] \in [Tasks -> SUBSET Attempts]
         /\ Leave(t) => pc' \in [Tasks -> {"idle", "sweep", "claim", "walk", "execute"}]
BY DEF TasksTypeOK, Leave

(* An outcome reported by whoever has the attempt, followed by a change of  *)
(* the tasks.                                                               *)
LEMMA OutcomeStep ==
  ASSUME LoomConstants, LoomInv, NEW a \in Attempts,
         CompleteStep(a[1], a[2]) \/ FailStep(a[1], a[2]),
         pc' \in [Tasks -> {"idle", "sweep", "claim", "walk", "execute"}],
         queue' \in [Tasks -> SUBSET Attempts], \A t \in Tasks : queue'[t] \subseteq queue[t],
         captured' \subseteq captured, UNCHANGED <<inlined, crashes, executed>>
  PROVE  LoomInv'
<1>1. a[1] \in Steps /\ a[2] \in 0 .. MaxRetries
  BY AttemptFacts
<1>2. RowsInv' /\ ClaimsLast /\ run' # "none"
  BY <1>1, CompleteRows, FailRows, LoomInvParts
<1>3. TasksTypeOK'
  BY LoomInvParts DEF TasksTypeOK, Attempts, Tasks
<1> QED
  BY <1>2, <1>3, TaskStep

(* A step that moves a task and leaves the rows.                            *)
LEMMA MoveStep ==
  ASSUME LoomConstants, LoomInv, UNCHANGED <<rows, executed, verdicts>>,
         pc' \in [Tasks -> {"idle", "sweep", "claim", "walk", "execute"}],
         queue' \in [Tasks -> SUBSET Attempts], \A t \in Tasks : queue'[t] \subseteq queue[t],
         inlined' \in [Tasks -> BOOLEAN], crashes' \in 0 .. MaxCrashes,
         captured' \subseteq captured \/ (captured' \subseteq Attempts /\ run # "none")
  PROVE  LoomInv'
<1>1. RowsInv' /\ ClaimsLast
  BY RowsKept, LoomInvParts DEF rows, RowsInv, RowsTypeOK
<1>2. TasksTypeOK'
  BY LoomInvParts DEF TasksTypeOK, Attempts, Tasks
<1> QED
  BY <1>1, <1>2, TaskStep DEF rows

LEMMA PutStep ==
  ASSUME LoomConstants, LoomInv, NEW d \in Definitions, PutWorkflow(d)
  PROVE  LoomInv'
<1>1. /\ UNCHANGED <<deps, run, step, retry, overdue, pc, queue, inlined, captured, crashes, executed, verdicts>>
      /\ workflow' \subseteq Definitions /\ refused' \subseteq Definitions
  BY DEF PutWorkflow, tasks, LoomInv, LoomTypeOK
<1>2. RowsInv' /\ ClaimsLast
  BY <1>1, RowsKept, LoomInvParts DEF RowsInv, RowsTypeOK
<1>3. TasksTypeOK'
  BY <1>1, LoomInvParts DEF TasksTypeOK, Attempts, Tasks
<1> QED
  BY <1>1, <1>2, <1>3, TaskStep

LEMMA DeleteStep ==
  ASSUME LoomConstants, LoomInv, DeleteWorkflow
  PROVE  LoomInv'
<1>0. RowsInv /\ TasksTypeOK
  BY LoomInvParts
<1>1. /\ workflow' = {} /\ run' = "deleted" /\ step' = [s \in Steps |-> "none"] /\ overdue' = {}
      /\ UNCHANGED <<refused, deps, retry, pc, queue, inlined, captured, crashes, executed, verdicts>>
  BY DEF DeleteWorkflow, tasks
<1>2. RowsTypeOK' /\ RunMatchesSteps'
  BY <1>0, <1>1 DEF RowsInv, RowsTypeOK, RunMatchesSteps, Active, Attempts
<1>3. OutcomesOK'
  BY <1>0, <1>1 DEF RowsInv, OutcomesOK, Active
<1>4. StartedOK'
  BY <1>0, <1>1 DEF RowsInv, StartedOK, DependenciesDone, Tasks
<1>5. ClaimsLast
  BY <1>1, AttemptFacts DEF ClaimsLast, Claimed
<1>6. TasksTypeOK'
  BY <1>0, <1>1 DEF TasksTypeOK, Attempts, Tasks
<1> QED
  BY <1>1, <1>2, <1>3, <1>4, <1>5, <1>6, TaskStep DEF RowsInv

LEMMA CreateRunStep ==
  ASSUME LoomConstants, LoomInv, NEW t \in Handlers, CreateRun(t)
  PROVE  LoomInv'
<1>0. RowsInv /\ TasksTypeOK /\ FreshOK /\ t \in Tasks
  BY LoomInvParts DEF Tasks
<1>1. /\ run = "none" /\ run' = "pending" /\ step' = [s \in Steps |-> "pending"]
      /\ deps' \in workflow /\ pc' = [pc EXCEPT ![t] = "claim"]
      /\ UNCHANGED <<workflow, refused, retry, overdue, queue, inlined, captured, crashes, executed, verdicts>>
  BY DEF CreateRun
<1>2. verdicts = {} /\ executed = {} /\ \A u \in Tasks : queue[u] = {}
  BY <1>0, <1>1 DEF FreshOK
<1>3. RowsTypeOK' /\ RunMatchesSteps'
  BY <1>0, <1>1 DEF RowsInv, RowsTypeOK, RunMatchesSteps, Active, Attempts, LoomConstants
<1>4. OutcomesOK' /\ StartedOK'
  BY <1>1, <1>2 DEF OutcomesOK, StartedOK
<1>5. ClaimsOK'
  BY <1>1, <1>2 DEF ClaimsOK, Tasks
<1>6. TasksTypeOK'
  BY <1>0, <1>1, TypesOfTasks DEF TasksTypeOK, Attempts, Tasks
<1> QED
  BY <1>1, <1>3, <1>4, <1>5, <1>6, NotFresh, TypeParts DEF LoomInv, LoomTypeOK, RowsTypeOK, TasksTypeOK

LEMMA CancelStep ==
  ASSUME LoomConstants, LoomInv, CancelRun
  PROVE  LoomInv'
<1>0. RowsInv /\ TasksTypeOK
  BY LoomInvParts
<1>1. /\ run \in Active /\ run' = "cancelled" /\ overdue' = {}
      /\ step' = [s \in Steps |-> IF step[s] \in Active THEN "skipped" ELSE step[s]]
      /\ UNCHANGED <<workflow, refused, deps, retry, pc, queue, inlined, captured, crashes, executed, verdicts>>
  BY DEF CancelRun, tasks
<1>2. RowsTypeOK' /\ RunMatchesSteps'
  BY <1>0, <1>1 DEF RowsInv, RowsTypeOK, RunMatchesSteps, Active, Attempts
<1>3. OutcomesOK'
  BY <1>0, <1>1 DEF RowsInv, OutcomesOK, Active
<1>4. StartedOK'
  <2>1. \A s \in Steps : step'[s] # "running"
    BY <1>1 DEF Active
  <2> QED
    BY <2>1, <1>0, <1>1 DEF RowsInv, StartedOK, DependenciesDone, Tasks
<1>5. ClaimsLast
  BY <1>1, AttemptFacts DEF ClaimsLast, Claimed, Active
<1>6. TasksTypeOK'
  BY <1>0, <1>1 DEF TasksTypeOK, Attempts, Tasks
<1> QED
  BY <1>1, <1>2, <1>3, <1>4, <1>5, <1>6, TaskStep DEF RowsInv

LEMMA CompleteRunStep ==
  ASSUME LoomConstants, LoomInv, NEW t \in Tasks, CompleteRun(t)
  PROVE  LoomInv'
<1>0. RowsInv /\ TasksTypeOK
  BY LoomInvParts
<1>1. /\ run \in Active /\ run' = "completed" /\ \A s \in Steps : step[s] \notin Active
      /\ UNCHANGED <<workflow, refused, deps, step, retry, overdue, queue, inlined, captured, crashes,
                     executed, verdicts>>
      /\ Leave(t)
  BY DEF CompleteRun
<1>2. RowsTypeOK' /\ RunMatchesSteps'
  BY <1>0, <1>1 DEF RowsInv, RowsTypeOK, RunMatchesSteps, Active, Attempts
<1>3. OutcomesOK' /\ StartedOK' /\ ClaimsLast
  BY <1>0, <1>1 DEF RowsInv, OutcomesOK, StartedOK, DependenciesDone, ClaimsLast, Claimed, Active, Tasks
<1>4. TasksTypeOK'
  BY <1>0, <1>1, TypesOfTasks DEF TasksTypeOK, Attempts, Tasks
<1> QED
  BY <1>1, <1>2, <1>3, <1>4, TaskStep DEF RowsInv

(* A pass claims the ready steps: nobody else has them.                     *)
LEMMA ClaimStep ==
  ASSUME LoomConstants, LoomInv, NEW t \in Tasks, Claim(t)
  PROVE  LoomInv'
<1>0. RowsInv /\ TasksTypeOK /\ ClaimsOK
  BY LoomInvParts
<1>1. /\ run \in Active /\ run' = "running"
      /\ step' = [s \in Steps |-> IF s \in Ready THEN "running" ELSE step[s]]
      /\ queue' = [queue EXCEPT ![t] = {<<s, retry[s]>> : s \in Ready}]
      /\ inlined' = [inlined EXCEPT ![t] = FALSE]
      /\ pc' = [pc EXCEPT ![t] = "walk"]
      /\ UNCHANGED <<workflow, refused, deps, retry, overdue, captured, crashes, executed, verdicts>>
  BY DEF Claim
<1>2. \A s \in Steps : s \in Ready <=> (step[s] = "pending" /\ \A d \in deps[s] : step[d] = "completed")
  BY DEF Ready
<1>3. Ready \subseteq Steps /\ \A s \in Steps : deps[s] \subseteq Steps /\ retry[s] \in 0 .. MaxRetries
  BY <1>0 DEF Ready, RowsInv, RowsTypeOK
<1>4. {<<s, retry[s]>> : s \in Ready} \subseteq Attempts
  BY <1>3 DEF Attempts
<1>5. RowsTypeOK' /\ RunMatchesSteps'
  BY <1>0, <1>1, <1>2 DEF RowsInv, RowsTypeOK, RunMatchesSteps, Active, Attempts
<1>6. \A s \in Steps : (step'[s] \in Active <=> step[s] \in Active)
                       /\ (step'[s] = "completed" <=> step[s] = "completed")
  BY <1>1, <1>2 DEF Active
<1>7. OutcomesOK'
  BY <1>0, <1>1, <1>6 DEF RowsInv, OutcomesOK
<1>8. StartedOK'
  <2>1. ASSUME NEW s \in Ready
        PROVE  DependenciesDone(s)
    <3>1. \A d \in deps[s] : d \in Steps /\ step[d] = "completed"
      BY <1>2, <1>3
    <3> QED
      BY <3>1, <1>0, <1>3 DEF RowsInv, OutcomesOK, DependenciesDone
  <2>2. \A s \in Steps : DependenciesDone(s)' <=> DependenciesDone(s)
    BY <1>1 DEF DependenciesDone
  <2> QED
    BY <2>1, <2>2, <1>0, <1>1 DEF RowsInv, StartedOK, Tasks
<1>9. TasksTypeOK'
  BY <1>0, <1>1, <1>4, TypesOfTasks DEF TasksTypeOK, Attempts, Tasks
<1>10. /\ queue'[t] = {<<s, retry[s]>> : s \in Ready}
       /\ \A u \in Tasks : u # t => queue'[u] = queue[u]
  BY <1>0, <1>1 DEF TasksTypeOK
<1>11. \A a \in queue'[t] : a \in Attempts /\ ~Claimed(a) /\ Claimed(a)'
  <2> SUFFICES ASSUME NEW a \in queue'[t]
               PROVE  a \in Attempts /\ ~Claimed(a) /\ Claimed(a)'
    OBVIOUS
  <2>1. PICK s \in Ready : a = <<s, retry[s]>>
    BY <1>10
  <2>2. s \in Steps /\ retry[s] \in Int /\ step[s] = "pending" /\ step'[s] = "running" /\ retry' = retry
    BY <1>1, <1>2, <1>3
  <2>3. a[1] = s /\ a[2] = retry[s] /\ a \in Attempts
    BY <2>1, <1>4
  <2>4. ~Claimed(a)
    BY <2>2, <2>3 DEF Claimed
  <2>5. Claimed(a)'
    BY <2>2, <2>3 DEF Claimed
  <2> QED
    BY <2>3, <2>4, <2>5
<1>12. ClaimsLast
  BY <1>1, <1>2, AttemptFacts DEF ClaimsLast, Claimed
<1>13. \A u \in Tasks : queue[u] \subseteq Attempts
  BY <1>0 DEF TasksTypeOK
<1>14. ClaimsOK'
  <2>1. \A u \in Tasks : \A a \in queue'[u] :
          Claimed(a)' /\ \A v \in Tasks : a \in queue'[v] => v = u
    BY <1>0, <1>10, <1>11, <1>12, <1>13 DEF ClaimsOK, ClaimsLast
  <2>2. \A a \in Attempts, u \in Tasks : <<a, u>> \in executed =>
          Claimed(a)' /\ \A v \in Tasks : (a \in queue'[v] \/ <<a, v>> \in executed) => v = u
    BY <1>0, <1>10, <1>11, <1>12 DEF ClaimsOK, ClaimsLast
  <2> QED
    BY <2>1, <2>2, <1>1 DEF ClaimsOK, Tasks, Attempts
<1> QED
  BY <1>1, <1>5, <1>7, <1>8, <1>9, <1>14, NotFresh, LoomInvParts, TypeParts
     DEF LoomInv, LoomTypeOK, RowsTypeOK, TasksTypeOK

(* The attempt is handed to an executor by the one task that has it.        *)
LEMMA ExecuteStep ==
  ASSUME LoomConstants, LoomInv, NEW t \in Tasks, Execute(t)
  PROVE  LoomInv'
<1>0. RowsInv /\ TasksTypeOK /\ ClaimsOK
  BY LoomInvParts
<1>1. PICK a \in queue[t] : attempt_is_current(a) /\ executed' = executed \cup {<<a, t>>}
  BY DEF Execute
<1>2. /\ UNCHANGED <<workflow, refused, deps, run, step, retry, overdue, queue, captured, crashes, verdicts>>
      /\ inlined' = [inlined EXCEPT ![t] = TRUE] /\ pc' = [pc EXCEPT ![t] = "execute"]
  BY DEF Execute, rows
<1>3. a \in Attempts /\ a[1] \in Steps /\ a[2] \in 0 .. MaxRetries /\ a = <<a[1], a[2]>>
  BY <1>0, <1>1, AttemptFacts DEF TasksTypeOK
<1>4. step[a[1]] = "running" /\ run \in Active
  BY <1>1 DEF attempt_is_current, Current
<1>5. RowsTypeOK' /\ RunMatchesSteps' /\ OutcomesOK'
  BY <1>0, <1>2 DEF RowsInv, RowsTypeOK, RunMatchesSteps, OutcomesOK, Active, Attempts
<1>6. StartedOK'
  <2> SUFFICES ASSUME NEW s \in Steps,
                      \/ step[s] = "running"
                      \/ \E k \in 0 .. MaxRetries :
                           \/ \E u \in Tasks : <<<<s, k>>, u>> \in executed'
                           \/ \E o \in {"completed", "failed"} : <<<<s, k>>, o>> \in verdicts
               PROVE  DependenciesDone(s)
    BY <1>2 DEF StartedOK, DependenciesDone, Tasks
  <2>1. CASE s = a[1]
    BY <2>1, <1>0, <1>4 DEF RowsInv, StartedOK
  <2>2. CASE s # a[1]
    <3>1. \A k \in 0 .. MaxRetries, u \in Tasks :
            <<<<s, k>>, u>> \in executed' => <<<<s, k>>, u>> \in executed
      BY <2>2, <1>1, <1>3
    <3> QED
      BY <3>1, <1>0 DEF RowsInv, StartedOK
  <2> QED
    BY <2>1, <2>2
<1>7. TasksTypeOK'
  BY <1>0, <1>1, <1>2, <1>3, TypesOfTasks DEF TasksTypeOK, Attempts, Tasks
<1>8. ClaimsOK'
  <2>0. \A b \in Attempts : Claimed(b)' <=> Claimed(b)
    BY <1>2 DEF Claimed
  <2>00. \A u \in Tasks : queue[u] \subseteq Attempts
    BY <1>0 DEF TasksTypeOK
  <2>1. \A u \in Tasks : \A b \in queue'[u] :
          Claimed(b)' /\ \A v \in Tasks : b \in queue'[v] => v = u
    BY <2>0, <2>00, <1>0, <1>2 DEF ClaimsOK
  <2>2. ASSUME NEW b \in Attempts, NEW u \in Tasks, <<b, u>> \in executed'
        PROVE  Claimed(b)' /\ \A v \in Tasks : (b \in queue'[v] \/ <<b, v>> \in executed') => v = u
    <3>1. CASE b = a
      <4>1. Claimed(a) /\ \A v \in Tasks : a \in queue[v] => v = t
        BY <1>0, <1>1 DEF ClaimsOK
      <4>2. \A v \in Tasks : <<a, v>> \in executed => v = t
        BY <1>0, <1>1, <1>3 DEF ClaimsOK
      <4>3. \A v \in Tasks : <<a, v>> \in executed' => v = t
        BY <4>2, <1>1
      <4> QED
        BY <3>1, <4>1, <4>3, <2>0, <2>2, <1>2
    <3>2. CASE b # a
      <4>1. \A v \in Tasks : <<b, v>> \in executed' => <<b, v>> \in executed
        BY <3>2, <1>1
      <4> QED
        BY <4>1, <2>0, <2>2, <1>0, <1>2 DEF ClaimsOK
    <3> QED
      BY <3>1, <3>2
  <2> QED
    BY <2>1, <2>2 DEF ClaimsOK, Tasks, Attempts
<1>9. run' # "none"
  BY <1>2, <1>4 DEF Active
<1> QED
  BY <1>5, <1>6, <1>7, <1>8, <1>9, NotFresh, TypeParts
     DEF LoomInv, LoomTypeOK, RowsTypeOK, TasksTypeOK

(* The steps of a task on its way through advance_inner.                    *)
LEMMA AdvanceStep ==
  ASSUME LoomConstants, LoomInv, NEW t \in Tasks, Advance(t)
  PROVE  LoomInv'
<1>0. TasksTypeOK
  BY LoomInvParts
<1>1. CASE Finished(t)
  BY <1>0, <1>1, MoveStep, TypesOfTasks DEF Finished, TasksTypeOK
<1>2. CASE CompleteRun(t)
  BY <1>2, CompleteRunStep
<1>3. CASE Claim(t)
  BY <1>3, ClaimStep
<1>4. CASE Pass(t)
  <2>1. PICK a \in queue[t] : queue' = [queue EXCEPT ![t] = @ \ {a}]
    BY <1>4 DEF Pass
  <2>2. queue' \in [Tasks -> SUBSET Attempts] /\ \A u \in Tasks : queue'[u] \subseteq queue[u]
    BY <2>1, <1>0 DEF TasksTypeOK
  <2> QED
    BY <2>2, <1>0, <1>4, MoveStep DEF Pass, TasksTypeOK
<1>5. CASE Execute(t)
  BY <1>5, ExecuteStep
<1>6. CASE EndPass(t)
  <2>1. pc' \in [Tasks -> {"idle", "sweep", "claim", "walk", "execute"}]
    BY <1>0, <1>6, TypesOfTasks DEF EndPass
  <2> QED
    BY <2>1, <1>0, <1>6, MoveStep DEF EndPass, TasksTypeOK
<1> QED
  BY <1>1, <1>2, <1>3, <1>4, <1>5, <1>6 DEF Advance

(* What an executor answers counts for the attempt it was given.            *)
LEMMA AnswerStep ==
  ASSUME LoomConstants, LoomInv, NEW t \in Tasks, ExecutorAnswers(t)
  PROVE  LoomInv'
<1>0. TasksTypeOK
  BY LoomInvParts
<1>1. PICK a \in queue[t] :
        /\ queue' = [queue EXCEPT ![t] = @ \ {a}]
        /\ \/ CompleteStep(a[1], a[2]) /\ pc' = [pc EXCEPT ![t] = "walk"]
           \/ /\ FailStep(a[1], a[2])
              /\ IF will_retry(a[2]) THEN pc' = [pc EXCEPT ![t] = "walk"] ELSE Leave(t)
           \/ ~Current(a[1], a[2]) /\ pc' = [pc EXCEPT ![t] = "walk"] /\ UNCHANGED <<rows, verdicts>>
  BY DEF ExecutorAnswers
<1>2. a \in Attempts
  BY <1>0 DEF TasksTypeOK
<1>3. queue' \in [Tasks -> SUBSET Attempts] /\ \A u \in Tasks : queue'[u] \subseteq queue[u]
  BY <1>0, <1>1 DEF TasksTypeOK
<1>4. pc' \in [Tasks -> {"idle", "sweep", "claim", "walk", "execute"}]
  BY <1>0, <1>1, TypesOfTasks
<1>5. UNCHANGED <<inlined, captured, crashes, executed>>
  BY DEF ExecutorAnswers
<1>6. CASE CompleteStep(a[1], a[2]) \/ FailStep(a[1], a[2])
  BY <1>2, <1>3, <1>4, <1>5, <1>6, OutcomeStep
<1>7. CASE UNCHANGED <<rows, verdicts>>
  BY <1>0, <1>3, <1>4, <1>5, <1>7, MoveStep DEF TasksTypeOK
<1> QED
  BY <1>1, <1>6, <1>7

(* The sweeper fails the attempts it has captured, unless they are stale.   *)
LEMMA SweepStep ==
  ASSUME LoomConstants, LoomInv, Sweep
  PROVE  LoomInv'
<1>0. TasksTypeOK /\ RowsInv /\ FreshOK /\ "sweeper" \in Tasks
  BY LoomInvParts DEF Tasks
<1>00. \A t \in Tasks : queue[t] \subseteq queue[t]
  OBVIOUS
<1>1. CASE Capture
  <2>1. run # "none"
    BY <1>0, <1>1 DEF Capture, FreshOK
  <2>2. captured' \subseteq Attempts
    BY <1>0, <1>1 DEF Capture, RowsInv, RowsTypeOK, Attempts
  <2>3. pc' \in [Tasks -> {"idle", "sweep", "claim", "walk", "execute"}]
    BY <1>0, <1>1, TypesOfTasks DEF Capture
  <2> QED
    BY <2>1, <2>2, <2>3, <1>0, <1>1, MoveStep DEF Capture, TasksTypeOK
<1>2. CASE SweepOne
  <2>1. PICK a \in captured :
          /\ captured' = captured \ {a}
          /\ \/ FailStep(a[1], a[2]) /\ pc' = [pc EXCEPT !["sweeper"] = "claim"]
             \/ ~Current(a[1], a[2]) /\ UNCHANGED <<rows, verdicts, pc>>
    BY <1>2 DEF SweepOne
  <2>2. a \in Attempts
    BY <1>0 DEF TasksTypeOK
  <2>3. pc' \in [Tasks -> {"idle", "sweep", "claim", "walk", "execute"}]
    BY <2>1, <1>0, TypesOfTasks DEF TasksTypeOK
  <2>4. UNCHANGED <<queue, inlined, crashes, executed>>
    BY <1>2 DEF SweepOne
  <2>5. CASE FailStep(a[1], a[2])
    BY <2>1, <2>2, <2>3, <2>4, <2>5, <1>0, OutcomeStep DEF TasksTypeOK
  <2>6. CASE UNCHANGED <<rows, verdicts, pc>>
    BY <2>1, <2>3, <2>4, <2>6, <1>0, MoveStep DEF TasksTypeOK
  <2> QED
    BY <2>1, <2>5, <2>6
<1>3. CASE SweepEnds
  <2>1. pc' \in [Tasks -> {"idle", "sweep", "claim", "walk", "execute"}]
    BY <1>0, <1>3, TypesOfTasks DEF SweepEnds
  <2> QED
    BY <2>1, <1>0, <1>3, MoveStep DEF SweepEnds, TasksTypeOK
<1> QED
  BY <1>1, <1>2, <1>3 DEF Sweep

LEMMA OverdueStep ==
  ASSUME LoomConstants, LoomInv, NEW s \in Steps, Overdue(s)
  PROVE  LoomInv'
<1>0. RowsInv /\ TasksTypeOK /\ FreshOK
  BY LoomInvParts
<1>1. /\ step[s] = "running" /\ overdue' = overdue \cup {s}
      /\ UNCHANGED <<workflow, refused, deps, run, step, retry, pc, queue, inlined, captured, crashes, executed, verdicts>>
  BY DEF Overdue, tasks
<1>2. RowsInv' /\ ClaimsLast
  BY <1>0, <1>1, RowsKept DEF RowsInv, RowsTypeOK
<1>3. TasksTypeOK'
  BY <1>0, <1>1 DEF TasksTypeOK, Attempts, Tasks
<1>4. run' # "none"
  BY <1>0, <1>1 DEF FreshOK
<1> QED
  BY <1>1, <1>2, <1>3, <1>4, TaskStep

(* The steps of clients, and a crash.                                       *)
LEMMA ClientStep ==
  ASSUME LoomConstants, LoomInv,
         \/ \E t \in Handlers, s \in Steps, k \in 0 .. MaxRetries : Report(t, s, k)
         \/ \E t \in Handlers : Nudge(t) \/ CallDropped(t)
         \/ Crash
  PROVE  LoomInv'
<1>0. TasksTypeOK /\ Handlers \subseteq Tasks
  BY LoomInvParts DEF Tasks
<1>1. ASSUME NEW t \in Handlers, NEW s \in Steps, NEW k \in 0 .. MaxRetries, Report(t, s, k)
      PROVE  LoomInv'
  <2>1. <<s, k>> \in Attempts /\ <<s, k>>[1] = s /\ <<s, k>>[2] = k
    BY DEF Attempts
  <2>2. CompleteStep(s, k) \/ FailStep(s, k)
    BY <1>1 DEF Report
  <2>3. /\ UNCHANGED <<queue, inlined, captured, crashes, executed>>
        /\ pc' \in [Tasks -> {"idle", "sweep", "claim", "walk", "execute"}]
    BY <1>0, <1>1, TypesOfTasks DEF Report
  <2>4. queue' \in [Tasks -> SUBSET Attempts] /\ \A u \in Tasks : queue'[u] \subseteq queue[u]
    BY <2>3, <1>0 DEF TasksTypeOK
  <2>5. CompleteStep(<<s, k>>[1], <<s, k>>[2]) \/ FailStep(<<s, k>>[1], <<s, k>>[2])
    BY <2>1, <2>2
  <2> HIDE DEF Attempts
  <2> QED
    BY <2>1, <2>3, <2>4, <2>5, OutcomeStep
<1>2. ASSUME NEW t \in Handlers, Nudge(t)
      PROVE  LoomInv'
  BY <1>0, <1>2, MoveStep, TypesOfTasks DEF Nudge, TasksTypeOK
<1>3. ASSUME NEW t \in Handlers, CallDropped(t)
      PROVE  LoomInv'
  <2>1. queue' \in [Tasks -> SUBSET Attempts] /\ \A u \in Tasks : queue'[u] \subseteq queue[u]
    BY <1>0, <1>3 DEF CallDropped, TasksTypeOK
  <2>2. pc' \in [Tasks -> {"idle", "sweep", "claim", "walk", "execute"}]
    BY <1>0, <1>3, TypesOfTasks DEF CallDropped
  <2> QED
    BY <2>1, <2>2, <1>0, <1>3, MoveStep DEF CallDropped, TasksTypeOK
<1>4. CASE Crash
  <2>1. /\ queue' \in [Tasks -> SUBSET Attempts] /\ \A u \in Tasks : queue'[u] \subseteq queue[u]
        /\ pc' \in [Tasks -> {"idle", "sweep", "claim", "walk", "execute"}]
        /\ inlined' \in [Tasks -> BOOLEAN] /\ captured' \subseteq captured
    BY <1>4 DEF Crash
  <2>2. crashes' \in 0 .. MaxCrashes
    BY <1>0, <1>4 DEF Crash, TasksTypeOK, LoomConstants
  <2> QED
    BY <2>1, <2>2, <1>4, MoveStep DEF Crash
<1> QED
  BY <1>1, <1>2, <1>3, <1>4

LEMMA LoomInvInit ==
  ASSUME LoomConstants, LoomInit
  PROVE  LoomInv
<1>1. LoomTypeOK
  BY DEF LoomInit, LoomTypeOK, LoomConstants
<1>2. RunMatchesSteps /\ FreshOK /\ OutcomesOK /\ StartedOK /\ ClaimsOK
  BY DEF LoomInit, RunMatchesSteps, FreshOK, OutcomesOK, StartedOK, ClaimsOK, Active
<1> QED
  BY <1>1, <1>2 DEF LoomInv

LEMMA LoomInvStep ==
  ASSUME LoomConstants, LoomInv, [LoomNext]_loomVars
  PROVE  LoomInv'
<1>1. CASE UNCHANGED loomVars
  BY <1>1, MoveStep, LoomInvParts DEF loomVars, tasks, TasksTypeOK
<1>2. CASE LoomNext
  <2>1. CASE \E d \in Definitions : PutWorkflow(d)
    BY <2>1, PutStep
  <2>2. CASE DeleteWorkflow \/ CancelRun \/ Sweep
    BY <2>2, DeleteStep, CancelStep, SweepStep
  <2>3. CASE \E t \in Handlers : CreateRun(t)
    BY <2>3, CreateRunStep
  <2>4. CASE \E t \in Tasks : Advance(t) \/ ExecutorAnswers(t)
    BY <2>4, AdvanceStep, AnswerStep
  <2>5. CASE \E s \in Steps : Overdue(s)
    BY <2>5, OverdueStep
  <2>6. CASE \/ \E t \in Handlers, s \in Steps, k \in 0 .. MaxRetries : Report(t, s, k)
             \/ \E t \in Handlers : Nudge(t) \/ CallDropped(t)
             \/ Crash
    BY <2>6, ClientStep
  <2> QED
    BY <1>2, <2>1, <2>2, <2>3, <2>4, <2>5, <2>6 DEF LoomNext
<1> QED
  BY <1>1, <1>2

(* What the invariant says of outcomes and executors.                       *)
LEMMA LoomInvSafety ==
  ASSUME LoomConstants, LoomInv
  PROVE  LoomSafety
<1>0. LoomTypeOK /\ RunMatchesSteps /\ OutcomesOK /\ StartedOK /\ ClaimsOK
  BY DEF LoomInv
<1>1. DependenciesFirst
  BY <1>0 DEF StartedOK, DependenciesFirst, DependenciesDone
<1>2. ExecutedOnce
  <2> SUFFICES ASSUME NEW a \in Attempts
               PROVE  Cardinality({t \in Tasks : <<a, t>> \in executed}) <= 1
    BY DEF ExecutedOnce
  <2>1. \A t, u \in Tasks : <<a, t>> \in executed /\ <<a, u>> \in executed => t = u
    BY <1>0 DEF ClaimsOK
  <2> DEFINE E == {t \in Tasks : <<a, t>> \in executed}
  <2>2. E = {} \/ \E t \in Tasks : E = {t}
    BY <2>1
  <2> HIDE DEF E
  <2>3. Cardinality({}) = 0
    BY FS_EmptySet
  <2>4. \A t : Cardinality({t}) = 1
    BY FS_Singleton
  <2>5. Cardinality(E) = 0 \/ Cardinality(E) = 1
    BY <2>2, <2>3, <2>4, Zenon
  <2>6. Cardinality(E) <= 1
    BY <2>5
  <2> QED
    BY <2>6 DEF E
<1>3. OneVerdict
  <2> SUFFICES ASSUME NEW a \in verdicts, NEW b \in verdicts, a[1][1] = b[1][1]
               PROVE  /\ a[1] = b[1] => a = b
                      /\ a[2] = "completed" => b[1][2] <= a[1][2]
    BY DEF OneVerdict
  <2>1. /\ a[1] \in Attempts /\ a[2] \in {"completed", "failed"} /\ a = <<a[1], a[2]>>
        /\ b[1] \in Attempts /\ b[2] \in {"completed", "failed"} /\ b = <<b[1], b[2]>>
    BY <1>0 DEF LoomTypeOK
  <2> DEFINE s == a[1][1]
             m == a[1][2]
             n == b[1][2]
  <2>2. /\ s \in Steps /\ m \in 0 .. MaxRetries /\ n \in 0 .. MaxRetries
        /\ a = <<<<s, m>>, a[2]>> /\ b = <<<<s, n>>, b[2]>> /\ a[1] = <<s, m>> /\ b[1] = <<s, n>>
    BY <2>1, AttemptFacts
  <2>3. retry[s] \in Nat
    BY <2>2, <1>0 DEF LoomTypeOK
  <2> HIDE DEF s, m, n
  <2>4. a[1] = b[1] => a = b
    <3> SUFFICES ASSUME a[1] = b[1], a[2] # b[2]
                 PROVE  FALSE
      BY <2>1
    <3>1. m = n
      BY DEF m, n
    <3>2. <<<<s, m>>, "completed">> \in verdicts /\ <<<<s, m>>, "failed">> \in verdicts
      BY <3>1, <2>1, <2>2
    <3> QED
      BY <3>2, <2>2, <1>0 DEF OutcomesOK
  <2>5. a[2] = "completed" => n <= m
    <3> SUFFICES ASSUME a[2] = "completed"
                 PROVE  n <= m
      OBVIOUS
    <3>1. m = retry[s]
      BY <2>2, <1>0 DEF OutcomesOK
    <3>2. \/ <<<<s, n>>, "completed">> \in verdicts
          \/ <<<<s, n>>, "failed">> \in verdicts
      BY <2>1, <2>2
    <3>3. n <= retry[s]
      BY <3>2, <2>2, <2>3, <1>0 DEF OutcomesOK
    <3> QED
      BY <3>1, <3>3
  <2> QED
    BY <2>4, <2>5 DEF m, n
<1> QED
  BY <1>0, <1>1, <1>2, <1>3 DEF LoomSafety

(* For every definition, number of tasks and of retries: the status of a   *)
(* run agrees with its steps, no step starts before its dependencies have  *)
(* completed, an attempt goes to one executor at most and has one outcome. *)
THEOREM LoomSafetyTheorem ==
  ASSUME LoomConstants
  PROVE  LoomSpec => []LoomSafety
<1>1. LoomInit => LoomInv
  BY LoomInvInit
<1>2. LoomInv /\ [LoomNext]_loomVars => LoomInv'
  BY LoomInvStep
<1>3. LoomInv => LoomSafety
  BY LoomInvSafety
<1> QED
  BY <1>1, <1>2, <1>3, PTL DEF LoomSpec

(* A run that has completed, failed or been cancelled stays as it is, with *)
(* all its steps, until its workflow is deleted: no late report, timeout,  *)
(* answer of an executor or pass of a task touches it.                     *)
THEOREM TerminalTheorem ==
  LoomSpec => TerminalKept
<1>1. ASSUME LoomNext, run \in {"completed", "failed", "cancelled"}
      PROVE  run' = "deleted" \/ UNCHANGED <<run, step, retry, deps>>
  <2>0. run \notin Active /\ run # "none"
    BY <1>1 DEF Active
  <2>1. \A s, k : ~Current(s, k)
    BY <2>0 DEF Current
  <2>2. \A s, k : ~CompleteStep(s, k) /\ ~FailStep(s, k)
    BY <2>1 DEF CompleteStep, FailStep
  <2>3. ASSUME NEW t, Advance(t)
        PROVE  UNCHANGED rows
    BY <2>0, <2>3, <2>1 DEF Advance, Finished, CompleteRun, Claim, Pass, Execute, attempt_is_current, EndPass
  <2>4. ASSUME NEW t, ExecutorAnswers(t)
        PROVE  UNCHANGED rows
    BY <2>2, <2>4 DEF ExecutorAnswers
  <2>5. ASSUME Sweep
        PROVE  UNCHANGED rows
    BY <2>2, <2>5 DEF Sweep, Capture, SweepOne, SweepEnds
  <2>6. ASSUME \/ \E t \in Handlers : CreateRun(t)
               \/ CancelRun
               \/ \E t \in Handlers, s \in Steps, k \in 0 .. MaxRetries : Report(t, s, k)
        PROVE  FALSE
    BY <2>0, <2>2, <2>6 DEF CreateRun, CancelRun, Report
  <2>7. ASSUME (\E t \in Handlers : Nudge(t) \/ CallDropped(t)) \/ Crash
        PROVE  UNCHANGED rows
    BY <2>7 DEF Nudge, CallDropped, Crash
  <2>8. ASSUME (\E d \in Definitions : PutWorkflow(d)) \/ \E s \in Steps : Overdue(s)
        PROVE  UNCHANGED <<run, step, retry, deps>>
    BY <2>8 DEF PutWorkflow, Overdue
  <2>9. ASSUME DeleteWorkflow
        PROVE  run' = "deleted"
    BY <2>9 DEF DeleteWorkflow
  <2> QED
    BY <1>1, <2>3, <2>4, <2>5, <2>6, <2>7, <2>8, <2>9 DEF LoomNext, rows
<1>2. [LoomNext]_loomVars => [TerminalStep]_loomVars
  BY <1>1 DEF TerminalStep
<1> QED
  BY <1>2, PTL DEF LoomSpec, TerminalKept

-----------------------------------------------------------------------------
(* Definitions: what the recursion of Consumed computes, by induction over  *)
(* its levels.                                                              *)

(* The least element of a set of numbers, and induction over a set.         *)
LEMMA LeastNumber ==
  ASSUME NEW S \in SUBSET Nat, S # {}
  PROVE  \E n \in S : \A m \in S : n <= m
<1>1. PICK n \in S : \A m \in S : ~(<<m, n>> \in OpToRel(<, Nat))
  BY WFMin, NatLessThanWellFounded
<1>2. ASSUME NEW m \in S PROVE n <= m
  <2>1. m < n => <<m, n>> \in OpToRel(<, Nat)
    BY DEF OpToRel
  <2>2. ~(m < n)
    BY <1>1, <2>1, Zenon
  <2>3. m \in Nat /\ n \in Nat
    OBVIOUS
  <2> QED
    BY <2>2, <2>3
<1> QED
  BY <1>2

LEMMA NumbersFromZero ==
  ASSUME NEW S \in SUBSET Nat, 0 \in S, \A n \in S : n + 1 \in S
  PROVE  S = Nat
<1>1. ASSUME NEW m \in Nat \ S PROVE FALSE
  <2>1. PICK n \in Nat \ S : \A k \in Nat \ S : n <= k
    BY <1>1, LeastNumber
  <2>2. n # 0 /\ n - 1 \in Nat /\ n - 1 \in S
    BY <2>1
  <2> QED
    BY <2>1, <2>2
<1> QED
  BY <1>1

(* One level of the graph after the next, as far as n.                      *)
LevelsTo(d, n, g) ==
  /\ g \in [0 .. n -> SUBSET Steps] /\ g[0] = {}
  /\ \A k \in 1 .. n : g[k] = {s \in Steps : d[s] \subseteq g[k - 1]}

LEMMA LevelsExist ==
  ASSUME NEW d
  PROVE  \A n \in Nat : \E g : LevelsTo(d, n, g)
<1> DEFINE S == {n \in Nat : \E g : LevelsTo(d, n, g)}
<1>1. 0 \in S
  <2>1. LevelsTo(d, 0, [i \in 0 .. 0 |-> {}])
    BY DEF LevelsTo
  <2> QED
    BY <2>1
<1>2. ASSUME NEW n \in S PROVE n + 1 \in S
  <2>1. PICK g : LevelsTo(d, n, g)
    BY <1>2
  <2> DEFINE h == [k \in 0 .. n + 1 |-> IF k = n + 1 THEN {s \in Steps : d[s] \subseteq g[n]} ELSE g[k]]
  <2>2. n \in Nat /\ n + 1 \in Nat
    BY <1>2
  <2>3. h \in [0 .. n + 1 -> SUBSET Steps]
    BY <2>1, <2>2 DEF LevelsTo
  <2>4. h[0] = {}
    BY <2>1, <2>2 DEF LevelsTo
  <2>5. ASSUME NEW k \in 1 .. n + 1 PROVE h[k] = {s \in Steps : d[s] \subseteq h[k - 1]}
    <3>1. k - 1 \in 0 .. n /\ k - 1 # n + 1 /\ h[k - 1] = g[k - 1]
      BY <2>2
    <3>2. CASE k = n + 1
      <4>1. h[k] = {s \in Steps : d[s] \subseteq g[n]} /\ k - 1 = n
        BY <2>2, <3>2
      <4> QED
        BY <3>1, <4>1
    <3>3. CASE k # n + 1
      <4>1. k \in 1 .. n /\ h[k] = g[k]
        BY <2>2, <3>3
      <4> QED
        BY <2>1, <3>1, <4>1 DEF LevelsTo
    <3> QED
      BY <3>2, <3>3
  <2>6. LevelsTo(d, n + 1, h)
    BY <2>3, <2>4, <2>5 DEF LevelsTo
  <2> QED
    BY <2>2, <2>6
<1> HIDE DEF S
<1>3. S \in SUBSET Nat
  BY DEF S
<1>4. S = Nat
  BY <1>1, <1>2, <1>3, NumbersFromZero
<1> QED
  BY <1>4 DEF S

LEMMA LevelsUnique ==
  ASSUME NEW d, NEW n \in Nat, NEW m \in Nat, NEW g, NEW h, LevelsTo(d, n, g), LevelsTo(d, m, h), n <= m
  PROVE  \A k \in 0 .. n : g[k] = h[k]
<1> DEFINE S == {k \in Nat : k <= n => g[k] = h[k]}
<1>1. 0 \in S
  BY DEF LevelsTo
<1>2. ASSUME NEW k \in S PROVE k + 1 \in S
  <2>1. CASE k + 1 <= n
    <3>1. k + 1 \in 1 .. n /\ k + 1 \in 1 .. m /\ (k + 1) - 1 = k /\ g[k] = h[k]
      BY <1>2, <2>1
    <3>2. g[k + 1] = {s \in Steps : d[s] \subseteq g[k]} /\ h[k + 1] = {s \in Steps : d[s] \subseteq h[k]}
      BY <3>1 DEF LevelsTo
    <3>3. g[k + 1] = h[k + 1]
      BY <3>1, <3>2, Zenon
    <3> QED
      BY <3>3, <1>2
  <2> QED
    BY <2>1, <1>2
<1> HIDE DEF S
<1>3. S = Nat
  <2>1. S \in SUBSET Nat
    BY DEF S
  <2> QED
    BY <1>1, <1>2, <2>1, NumbersFromZero
<1> QED
  BY <1>3 DEF S

(* What Consumed computes: nothing at first, then level after level.        *)
LEMMA ConsumedLevels ==
  ASSUME NEW d
  PROVE  /\ Consumed(d) \in [Nat -> SUBSET Steps] /\ Consumed(d)[0] = {}
         /\ \A n \in Nat : Consumed(d)[n + 1] = {s \in Steps : d[s] \subseteq Consumed(d)[n]}
<1> DEFINE G(n) == CHOOSE g : LevelsTo(d, n, g)
           f == [n \in Nat |-> G(n)[n]]
           E(e) == e = [n \in Nat |-> IF n = 0 THEN {} ELSE {s \in Steps : d[s] \subseteq e[n - 1]}]
<1>1. \A n \in Nat : LevelsTo(d, n, G(n))
  BY LevelsExist
<1> HIDE DEF G
<1>2. ASSUME NEW n \in Nat
      PROVE  f[n] = IF n = 0 THEN {} ELSE {s \in Steps : d[s] \subseteq f[n - 1]}
  <2>1. CASE n = 0
    BY <1>1, <2>1 DEF LevelsTo
  <2>2. CASE n # 0
    <3>1. n - 1 \in Nat /\ n \in 1 .. n /\ n - 1 \in 0 .. n - 1 /\ n - 1 <= n
      BY <2>2
    <3>2. G(n)[n] = {s \in Steps : d[s] \subseteq G(n)[n - 1]}
      BY <1>1, <3>1 DEF LevelsTo
    <3>3. LevelsTo(d, n, G(n)) /\ LevelsTo(d, n - 1, G(n - 1))
      BY <1>1, <3>1
    <3>4. G(n - 1)[n - 1] = G(n)[n - 1]
      BY <3>1, <3>3, LevelsUnique
    <3> QED
      BY <2>2, <3>1, <3>2, <3>4
  <2> QED
    BY <2>1, <2>2
<1>3. E(f)
  <2>1. f = [n \in Nat |-> f[n]]
    OBVIOUS
  <2> HIDE DEF f
  <2> QED
    BY <1>2, <2>1
<1>4. E(Consumed(d))
  <2> HIDE DEF f
  <2>1. \E e : E(e)
    BY <1>3
  <2>2. Consumed(d) = CHOOSE e : E(e)
    BY DEF Consumed
  <2> QED
    BY <2>1, <2>2
<1>5. ASSUME NEW n \in Nat
      PROVE  Consumed(d)[n] = IF n = 0 THEN {} ELSE {s \in Steps : d[s] \subseteq Consumed(d)[n - 1]}
  BY <1>4
<1>6. Consumed(d) = [n \in Nat |-> Consumed(d)[n]]
  BY <1>4
<1>7. Consumed(d)[0] = {}
  BY <1>5
<1>8. ASSUME NEW n \in Nat PROVE Consumed(d)[n + 1] = {s \in Steps : d[s] \subseteq Consumed(d)[n]}
  <2>1. n + 1 \in Nat /\ n + 1 # 0 /\ (n + 1) - 1 = n
    OBVIOUS
  <2> QED
    BY <1>5, <2>1
<1>9. \A n \in Nat : Consumed(d)[n] \in SUBSET Steps
  BY <1>5
<1> QED
  BY <1>6, <1>7, <1>8, <1>9

(* The levels grow, as long as they do: once a level adds nothing, none     *)
(* after it does, so that the last of them is reached after as many levels  *)
(* as there are steps.                                                      *)
LEMMA LevelsGrow ==
  ASSUME NEW d
  PROVE  \A n \in Nat : Consumed(d)[n] \subseteq Consumed(d)[n + 1]
<1> DEFINE L == Consumed(d)
           S == {n \in Nat : L[n] \subseteq L[n + 1]}
<1>1. L[0] = {} /\ \A n \in Nat : L[n + 1] = {s \in Steps : d[s] \subseteq L[n]}
  BY ConsumedLevels
<1> HIDE DEF L
<1>2. 0 \in S
  BY <1>1
<1>3. ASSUME NEW n \in S PROVE n + 1 \in S
  <2>1. n \in Nat /\ n + 1 \in Nat /\ L[n] \subseteq L[n + 1]
    BY <1>3
  <2>2. L[n + 1] = {s \in Steps : d[s] \subseteq L[n]} /\ L[(n + 1) + 1] = {s \in Steps : d[s] \subseteq L[n + 1]}
    BY <1>1, <2>1
  <2>3. L[n + 1] \subseteq L[(n + 1) + 1]
    BY <2>1, <2>2
  <2> QED
    BY <2>1, <2>3
<1>4. S \in SUBSET Nat
  OBVIOUS
<1> HIDE DEF S
<1>5. S = Nat
  BY <1>2, <1>3, <1>4, NumbersFromZero
<1> QED
  BY <1>5 DEF S, L

LEMMA LevelsMonotone ==
  ASSUME NEW d, NEW m \in Nat
  PROVE  \A n \in Nat : m <= n => Consumed(d)[m] \subseteq Consumed(d)[n]
<1> DEFINE L == Consumed(d)
           S == {n \in Nat : m <= n => L[m] \subseteq L[n]}
<1>1. \A n \in Nat : L[n] \subseteq L[n + 1]
  BY LevelsGrow
<1> HIDE DEF L
<1>2. 0 \in S
  OBVIOUS
<1>3. ASSUME NEW n \in S PROVE n + 1 \in S
  <2>1. CASE m = n + 1
    BY <2>1, <1>3
  <2>2. CASE m <= n
    BY <2>2, <1>1, <1>3
  <2> QED
    BY <2>1, <2>2, <1>3
<1>4. S \in SUBSET Nat
  OBVIOUS
<1> HIDE DEF S
<1>5. S = Nat
  BY <1>2, <1>3, <1>4, NumbersFromZero
<1> QED
  BY <1>5 DEF S, L

LEMMA LevelsStay ==
  ASSUME NEW d, NEW m \in Nat, Consumed(d)[m] = Consumed(d)[m + 1]
  PROVE  \A n \in Nat : m <= n => Consumed(d)[n] = Consumed(d)[m]
<1> DEFINE L == Consumed(d)
           S == {n \in Nat : m <= n => L[n] = L[m]}
<1>1. \A n \in Nat : L[n + 1] = {s \in Steps : d[s] \subseteq L[n]}
  BY ConsumedLevels
<1>2. L[m] = L[m + 1]
  OBVIOUS
<1> HIDE DEF L
<1>3. 0 \in S
  OBVIOUS
<1>4. ASSUME NEW n \in S PROVE n + 1 \in S
  <2>0. n \in Nat
    BY <1>4
  <2>1. CASE m = n + 1
    BY <2>0, <2>1
  <2>2. CASE m <= n
    <3>1. L[n] = L[m]
      BY <2>2, <1>4
    <3>2. L[n + 1] = {s \in Steps : d[s] \subseteq L[n]} /\ L[m + 1] = {s \in Steps : d[s] \subseteq L[m]}
      BY <1>1, <2>0
    <3>3. L[n + 1] = L[m]
      BY <1>2, <3>1, <3>2, Zenon
    <3> QED
      BY <2>0, <3>3
  <2>3. CASE n + 1 < m
    BY <2>0, <2>3
  <2> QED
    BY <2>0, <2>1, <2>2, <2>3
<1>5. S \in SUBSET Nat
  OBVIOUS
<1> HIDE DEF S
<1>6. S = Nat
  BY <1>3, <1>4, <1>5, NumbersFromZero
<1> QED
  BY <1>6 DEF S, L

LEMMA LevelsEnough ==
  ASSUME NEW d, IsFiniteSet(Steps), NEW m \in Nat
  PROVE  Consumed(d)[m] \subseteq Consumed(d)[Cardinality(Steps)]
<1> DEFINE L == Consumed(d)
           c == Cardinality(Steps)
           S == {n \in Nat : n <= Cardinality(L[n]) \/ L[n] = L[n + 1]}
<1>1. /\ L \in [Nat -> SUBSET Steps] /\ L[0] = {}
      /\ \A n \in Nat : L[n + 1] = {s \in Steps : d[s] \subseteq L[n]}
  BY ConsumedLevels
<1>2. \A n \in Nat : L[n] \subseteq L[n + 1]
  BY LevelsGrow
<1>3. c \in Nat
  BY FS_CardinalityType
<1>4. \A n \in Nat : m <= c => L[m] \subseteq L[c]
  BY <1>3, LevelsMonotone
<1>5. L[c] = L[c + 1] /\ c <= m => L[m] = L[c]
  BY <1>3, LevelsStay
<1> HIDE DEF L, c
<1>6. 0 \in S
  BY <1>1, FS_EmptySet
<1>7. ASSUME NEW n \in S PROVE n + 1 \in S
  <2>1. n \in Nat /\ n + 1 \in Nat
    BY <1>7
  <2>2. L[n + 1] = {s \in Steps : d[s] \subseteq L[n]} /\ L[(n + 1) + 1] = {s \in Steps : d[s] \subseteq L[n + 1]}
    BY <1>1, <2>1
  <2>3. CASE L[n] = L[n + 1]
    <3>1. L[n + 1] = L[(n + 1) + 1]
      BY <2>2, <2>3, Zenon
    <3> QED
      BY <2>1, <3>1
  <2>4. CASE L[n] # L[n + 1]
    <3>1. n <= Cardinality(L[n]) /\ L[n] \in SUBSET Steps /\ L[n + 1] \in SUBSET Steps
      BY <1>1, <1>7, <2>1, <2>4
    <3>2. IsFiniteSet(L[n + 1])
      BY <3>1, FS_Subset
    <3>3. L[n] \in SUBSET L[n + 1]
      BY <1>2, <2>1
    <3>4. /\ IsFiniteSet(L[n]) /\ Cardinality(L[n]) <= Cardinality(L[n + 1])
          /\ Cardinality(L[n + 1]) = Cardinality(L[n]) => L[n + 1] = L[n]
      BY <3>2, <3>3, FS_Subset
    <3>5. Cardinality(L[n]) \in Nat /\ Cardinality(L[n + 1]) \in Nat
      BY <3>2, <3>4, FS_CardinalityType
    <3>6. n + 1 <= Cardinality(L[n + 1])
      BY <2>1, <2>4, <3>1, <3>4, <3>5
    <3> QED
      BY <2>1, <3>6
  <2> QED
    BY <2>3, <2>4
<1>8. S \in SUBSET Nat
  OBVIOUS
<1> HIDE DEF S
<1>9. S = Nat
  BY <1>6, <1>7, <1>8, NumbersFromZero
<1>10. c <= Cardinality(L[c]) \/ L[c] = L[c + 1]
  BY <1>3, <1>9 DEF S
<1>11. CASE c <= Cardinality(L[c])
  <2>1. L[c] \in SUBSET Steps
    BY <1>1, <1>3
  <2>2. Cardinality(L[c]) <= c /\ (c = Cardinality(L[c]) => Steps = L[c])
    BY <2>1, FS_Subset DEF c
  <2>3. Cardinality(L[c]) \in Nat
    BY <2>1, FS_Subset, FS_CardinalityType
  <2>4. Steps = L[c]
    BY <1>3, <1>11, <2>2, <2>3
  <2> QED
    BY <1>1, <2>4 DEF L, c
<1>12. CASE L[c] = L[c + 1]
  BY <1>3, <1>4, <1>5, <1>12 DEF L, c
<1> QED
  BY <1>10, <1>11, <1>12

(* validate_steps and longest_chain_depth together accept exactly the       *)
(* definitions whose steps can be put on MaxDepth levels.                   *)
LEMMA AcceptedLevelled ==
  ASSUME LoomConstants, NEW d \in [Steps -> SUBSET Steps], Accepted(d)
  PROVE  Levelled(d)
<1> DEFINE L == Consumed(d)
           c == Cardinality(Steps)
           k == longest_chain_depth(d)
           Depth(n) == L[n] = Steps /\ \A i \in 0 .. (n - 1) : L[i] # Steps
<1>1. c \in Nat /\ L[c] = Steps /\ k <= MaxDepth /\ MaxDepth \in Nat
  BY FS_CardinalityType DEF LoomConstants, Accepted, validate_steps
<1>2. k = CHOOSE n \in 0 .. c : Depth(n)
  BY DEF longest_chain_depth
<1>3. /\ L \in [Nat -> SUBSET Steps] /\ L[0] = {}
      /\ \A n \in Nat : L[n + 1] = {s \in Steps : d[s] \subseteq L[n]}
  BY ConsumedLevels
<1> HIDE DEF L, c, k
<1>4. \E n \in 0 .. c : Depth(n)
  <2> DEFINE S == {n \in Nat : L[n] = Steps}
  <2>1. S \in SUBSET Nat /\ c \in S
    BY <1>1
  <2>2. PICK n \in S : \A i \in S : n <= i
    BY <2>1, LeastNumber
  <2>3. n \in 0 .. c /\ L[n] = Steps
    BY <1>1, <2>1, <2>2
  <2>4. ASSUME NEW i \in 0 .. (n - 1) PROVE L[i] # Steps
    BY <2>2, <2>3, <2>4
  <2> QED
    BY <2>3, <2>4
<1>5. k \in 0 .. c /\ Depth(k)
  <2> HIDE DEF Depth
  <2> QED
    BY <1>2, <1>4, Zenon
<1> DEFINE At(s) == {n \in Nat : s \in L[n]}
           r == [s \in Steps |-> CHOOSE n \in At(s) : \A i \in At(s) : n <= i]
<1>6. ASSUME NEW s \in Steps
      PROVE  r[s] \in At(s) /\ \A i \in At(s) : r[s] <= i
  <2>1. k \in At(s) /\ At(s) \in SUBSET Nat
    BY <1>1, <1>5
  <2>2. r[s] = CHOOSE n \in At(s) : \A i \in At(s) : n <= i
    OBVIOUS
  <2> HIDE DEF At, r
  <2>3. \E n \in At(s) : \A i \in At(s) : n <= i
    BY <2>1, LeastNumber
  <2> QED
    BY <2>2, <2>3, Zenon
<1>7. DOMAIN r = Steps /\ r = [s \in Steps |-> r[s]]
  OBVIOUS
<1> HIDE DEF r
<1>8. ASSUME NEW s \in Steps PROVE r[s] \in 1 .. MaxDepth /\ s \in L[r[s]]
  <2>1. k \in At(s) /\ r[s] \in Nat /\ s \in L[r[s]]
    BY <1>1, <1>5, <1>6
  <2>2. r[s] <= k
    BY <1>6, <2>1
  <2>3. r[s] # 0
    BY <1>3, <2>1
  <2> QED
    BY <1>1, <1>5, <2>1, <2>2, <2>3
<1>9. ASSUME NEW s \in Steps, NEW e \in d[s] PROVE r[e] < r[s]
  <2>1. e \in Steps
    OBVIOUS
  <2>2. r[s] - 1 \in Nat /\ (r[s] - 1) + 1 = r[s]
    BY <1>1, <1>8
  <2>3. s \in L[(r[s] - 1) + 1]
    BY <1>8, <2>2
  <2>4. e \in L[r[s] - 1]
    BY <1>3, <2>2, <2>3
  <2>5. r[s] - 1 \in At(e)
    BY <2>2, <2>4
  <2>6. r[e] <= r[s] - 1 /\ r[e] \in Nat
    BY <1>6, <2>1, <2>5
  <2> QED
    BY <2>2, <2>6, <1>8
<1>10. r \in [Steps -> 1 .. MaxDepth]
  BY <1>7, <1>8
<1> QED
  BY <1>9, <1>10 DEF Levelled

LEMMA LevelledAccepted ==
  ASSUME LoomConstants, NEW d \in [Steps -> SUBSET Steps], Levelled(d)
  PROVE  Accepted(d)
<1> DEFINE L == Consumed(d)
           c == Cardinality(Steps)
           k == longest_chain_depth(d)
           Depth(n) == L[n] = Steps /\ \A i \in 0 .. (n - 1) : L[i] # Steps
<1>1. PICK r \in [Steps -> 1 .. MaxDepth] : \A s \in Steps : \A e \in d[s] : r[e] < r[s]
  BY DEF Levelled
<1>2. /\ L \in [Nat -> SUBSET Steps] /\ L[0] = {}
      /\ \A n \in Nat : L[n + 1] = {s \in Steps : d[s] \subseteq L[n]}
  BY ConsumedLevels
<1>3. c \in Nat /\ MaxDepth \in Nat
  BY FS_CardinalityType DEF LoomConstants
<1>4. L[MaxDepth] \subseteq L[c]
  BY <1>3, LevelsEnough DEF LoomConstants
<1>5. k = CHOOSE n \in 0 .. c : Depth(n)
  BY DEF longest_chain_depth
<1>6. Accepted(d) <=> (L[c] = Steps /\ k <= MaxDepth)
  BY DEF Accepted, validate_steps
<1> HIDE DEF L, c, k
<1> DEFINE S == {n \in Nat : \A s \in Steps : r[s] <= n => s \in L[n]}
<1>7. 0 \in S
  BY <1>1, <1>3
<1>8. ASSUME NEW n \in S PROVE n + 1 \in S
  <2>1. n \in Nat /\ n + 1 \in Nat
    BY <1>8
  <2>2. ASSUME NEW s \in Steps, r[s] <= n + 1 PROVE s \in L[n + 1]
    <3>1. ASSUME NEW e \in d[s] PROVE e \in L[n]
      <4>1. e \in Steps /\ r[e] < r[s] /\ r[e] \in 1 .. MaxDepth /\ r[s] \in 1 .. MaxDepth
        BY <1>1
      <4>2. r[e] <= n
        BY <1>3, <2>1, <2>2, <4>1
      <4> QED
        BY <1>8, <4>1, <4>2
    <3> QED
      BY <1>2, <2>1, <3>1
  <2> QED
    BY <2>1, <2>2
<1>9. S \in SUBSET Nat
  OBVIOUS
<1> HIDE DEF S
<1>10. S = Nat
  BY <1>7, <1>8, <1>9, NumbersFromZero
<1>11. L[MaxDepth] = Steps
  <2>1. ASSUME NEW s \in Steps PROVE s \in L[MaxDepth]
    <3>1. MaxDepth \in S /\ r[s] <= MaxDepth
      BY <1>1, <1>3, <1>10
    <3> QED
      BY <3>1 DEF S
  <2> QED
    BY <1>2, <1>3, <2>1
<1>12. L[c] = Steps
  BY <1>2, <1>3, <1>4, <1>11
<1>13. \E n \in 0 .. c : Depth(n)
  <2> DEFINE T == {n \in Nat : L[n] = Steps}
  <2>1. T \in SUBSET Nat /\ c \in T
    BY <1>3, <1>12
  <2>2. PICK n \in T : \A i \in T : n <= i
    BY <2>1, LeastNumber
  <2>3. n \in 0 .. c /\ L[n] = Steps
    BY <1>3, <2>1, <2>2
  <2>4. ASSUME NEW i \in 0 .. (n - 1) PROVE L[i] # Steps
    BY <2>2, <2>3, <2>4
  <2> QED
    BY <2>3, <2>4
<1>14. k \in 0 .. c /\ Depth(k)
  <2> HIDE DEF Depth
  <2> QED
    BY <1>5, <1>13, Zenon
<1>15. k <= MaxDepth
  <2>1. ASSUME MaxDepth < k PROVE FALSE
    <3>1. MaxDepth \in 0 .. (k - 1)
      BY <1>3, <1>14, <2>1
    <3> QED
      BY <1>11, <1>14, <3>1
  <2> QED
    BY <1>3, <1>14, <2>1
<1> QED
  BY <1>6, <1>12, <1>15

(* For every number of steps and every limit MAX_WORKFLOW_DEPTH: a          *)
(* definition is accepted exactly when its steps can be put on that many    *)
(* levels, every dependency on a lower one.                                 *)
THEOREM AcceptedExactly ==
  ASSUME LoomConstants
  PROVE  \A d \in [Steps -> SUBSET Steps] : Accepted(d) <=> Levelled(d)
BY AcceptedLevelled, LevelledAccepted

(* Whatever definitions clients submit and whatever runs and tasks do in    *)
(* between: create_workflow and update_workflow refuse exactly those that   *)
(* have a cycle or a chain longer than the limit, and no run was ever       *)
(* created from such a definition.                                          *)
THEOREM DefinitionsTheorem ==
  ASSUME LoomConstants
  PROVE  LoomSpec => []DefinitionsSound
<1>1. \A d \in Definitions : Accepted(d) <=> Levelled(d)
  BY AcceptedExactly DEF LoomConstants
<1>2. LoomInit => DefinitionsSound
  BY DEF LoomInit, DefinitionsSound
<1>3. ASSUME DefinitionsSound, [LoomNext]_loomVars
      PROVE  DefinitionsSound'
  <2>1. ASSUME UNCHANGED <<workflow, refused, deps>>, run \in Active \/ UNCHANGED run
        PROVE  DefinitionsSound'
    BY <1>3, <2>1 DEF DefinitionsSound, Active
  <2>2. ASSUME NEW d \in Definitions, PutWorkflow(d)
        PROVE  DefinitionsSound'
    <3>1. /\ UNCHANGED <<deps, run>>
          /\ \/ workflow' = {d} /\ Accepted(d) /\ UNCHANGED refused
             \/ refused' = {d} /\ ~Accepted(d) /\ UNCHANGED workflow
      BY <2>2 DEF PutWorkflow
    <3> QED
      BY <1>1, <1>3, <3>1 DEF DefinitionsSound
  <2>3. ASSUME DeleteWorkflow
        PROVE  DefinitionsSound'
    <3>1. workflow' = {} /\ UNCHANGED refused /\ run' = "deleted"
      BY <2>3 DEF DeleteWorkflow
    <3> QED
      BY <1>3, <3>1 DEF DefinitionsSound
  <2>4. ASSUME NEW t \in Handlers, CreateRun(t)
        PROVE  DefinitionsSound'
    <3>1. deps' \in workflow /\ UNCHANGED <<workflow, refused>>
      BY <2>4 DEF CreateRun
    <3> QED
      BY <1>3, <3>1 DEF DefinitionsSound
  <2>5. ASSUME NEW s, NEW k, CompleteStep(s, k) \/ FailStep(s, k)
        PROVE  UNCHANGED <<workflow, refused, deps>> /\ run \in Active
    BY <2>5 DEF CompleteStep, FailStep, Current
  <2>6. ASSUME NEW t, Advance(t) \/ Nudge(t) \/ CallDropped(t)
        PROVE  UNCHANGED <<workflow, refused, deps>> /\ (run \in Active \/ UNCHANGED run)
    BY <2>6 DEF Advance, Finished, CompleteRun, Claim, Pass, Execute, EndPass, Nudge, CallDropped, rows
  <2>7. ASSUME NEW t, ExecutorAnswers(t) \/ (\E s \in Steps, k \in 0 .. MaxRetries : Report(t, s, k))
        PROVE  UNCHANGED <<workflow, refused, deps>> /\ (run \in Active \/ UNCHANGED run)
    BY <2>5, <2>7 DEF ExecutorAnswers, Report, rows
  <2>8. ASSUME Sweep
        PROVE  UNCHANGED <<workflow, refused, deps>> /\ (run \in Active \/ UNCHANGED run)
    BY <2>5, <2>8 DEF Sweep, Capture, SweepOne, SweepEnds, rows
  <2>9. ASSUME CancelRun \/ Crash \/ (\E s \in Steps : Overdue(s)) \/ UNCHANGED loomVars
        PROVE  UNCHANGED <<workflow, refused, deps>> /\ (run \in Active \/ UNCHANGED run)
    BY <2>9 DEF CancelRun, Crash, Overdue, rows, loomVars
  <2> QED
    BY <1>3, <2>1, <2>2, <2>3, <2>4, <2>6, <2>7, <2>8, <2>9 DEF LoomNext
<1> QED
  BY <1>2, <1>3, PTL DEF LoomSpec

-----------------------------------------------------------------------------
(* The Chiasm task store.                                                  *)

LEMMA StampFacts ==
  ASSUME ChiasmConstants, ChiasmTypeOK, NEW stamp \in Stamps
  PROVE  /\ stamp \in 0 .. MaxTime /\ stamp <= now /\ now - stamp <= MaxSkew
         /\ now \in Nat /\ MaxSkew \in Nat /\ MaxTime \in Nat /\ Ttl \in Nat /\ Refresh \in Nat
BY DEF ChiasmConstants, ChiasmTypeOK, Stamps

(* The types, one action at a time.                                        *)
LEMMA ChiasmTypeStep ==
  ASSUME ChiasmConstants, ChiasmTypeOK, RowsUsed, [ChiasmNext]_chiasmVars
  PROVE  ChiasmTypeOK'
<1> USE DEF task, sweep
<1>0. /\ MaxTime \in Nat /\ now \in 0 .. MaxTime /\ Given \subseteq Status /\ Beating \subseteq TaskIds
      /\ Plan \subseteq TaskIds \X TaskIds
  BY DEF ChiasmConstants, ChiasmTypeOK
<1>1. ASSUME NEW t \in TaskIds, NEW st \in Given, NEW a \in Agents \cup {None}, Create(t, st, a)
      PROVE  ChiasmTypeOK'
  <2>1. Cardinality(used) \in Nat
    BY FS_CardinalityType DEF RowsUsed
  <2>2. rowid' \in [TaskIds -> Nat] /\ status' \in [TaskIds -> Status]
        /\ assignee' \in [TaskIds -> Agents \cup {None}] /\ used' \subseteq TaskIds
    BY <1>0, <1>1, <2>1 DEF Create, ChiasmTypeOK
  <2> QED
    BY <1>1, <2>2 DEF Create, ChiasmTypeOK, Lease, Candidate, Status, Never
<1>2. ASSUME NEW o, NEW p, NEW a \in Agents, NEW stamp \in Stamps, ClaimNext(o, p, a, stamp)
      PROVE  ChiasmTypeOK'
  <2>1. stamp \in 0 .. MaxTime
    BY StampFacts
  <2>2. PICK t \in TaskRows : /\ status' = [status EXCEPT ![t] = "active"]
                          /\ assignee' = [assignee EXCEPT ![t] = a]
                          /\ heartbeat' = [heartbeat EXCEPT ![t] = stamp]
                          /\ beat' = [beat EXCEPT ![t] = now]
                          /\ takers' = [takers EXCEPT ![t] = @ \cup {a}]
    BY <1>2 DEF ClaimNext
  <2>3. t \in TaskIds
    BY DEF TaskRows
  <2>4. /\ status' \in [TaskIds -> Status] /\ assignee' \in [TaskIds -> Agents \cup {None}]
        /\ heartbeat' \in [TaskIds -> {Never} \cup 0 .. MaxTime]
        /\ beat' \in [TaskIds -> {Never} \cup 0 .. MaxTime] /\ takers' \in [TaskIds -> SUBSET Agents]
    BY <1>0, <2>1, <2>2, <2>3 DEF ChiasmTypeOK, Status
  <2> QED
    BY <1>2, <2>4 DEF ClaimNext, ChiasmTypeOK, Lease, Candidate, Status, Never
<1>3. ASSUME NEW t \in TaskIds, NEW st \in Given, NEW a \in Agents \cup {None}, Update(t, st, a)
      PROVE  ChiasmTypeOK'
  <2>1. /\ status' \in [TaskIds -> Status] /\ assignee' \in [TaskIds -> Agents \cup {None}]
        /\ owed' \subseteq TaskIds
    BY <1>0, <1>3 DEF Update, ChiasmTypeOK
  <2>2. stranded' \subseteq TaskIds
    BY <1>3 DEF Update, ChiasmTypeOK, Strands
  <2> QED
    BY <1>3, <2>1, <2>2 DEF Update, ChiasmTypeOK, Lease, Candidate, Status, Never
<1>4. ASSUME NEW t \in TaskIds, Delete(t)
      PROVE  ChiasmTypeOK'
  <2>1. /\ rowid' \in [TaskIds -> Nat] /\ claims' \subseteq Lease /\ edges' \subseteq TaskIds \X TaskIds
        /\ stranded' \subseteq TaskIds
    BY <1>4 DEF Delete, ChiasmTypeOK, Strands
  <2> QED
    BY <1>4, <2>1 DEF Delete, ChiasmTypeOK, Lease, Candidate, Status, Never
<1>5. ASSUME NEW t \in TaskIds, ReleaseClaims(t)
      PROVE  ChiasmTypeOK'
  <2>1. claims' \subseteq Lease
    BY <1>5 DEF ReleaseClaims, ChiasmTypeOK
  <2> QED
    BY <1>5, <2>1 DEF ReleaseClaims, ChiasmTypeOK, Lease, Candidate, Status, Never
<1>6. ASSUME NEW t \in TaskIds, CheckAndUnblock(t)
      PROVE  ChiasmTypeOK'
  <2>1. status' \in [TaskIds -> Status] /\ owed' \subseteq TaskIds
    BY <1>6 DEF CheckAndUnblock, ChiasmTypeOK, Status
  <2> QED
    BY <1>6, <2>1 DEF CheckAndUnblock, ChiasmTypeOK, Lease, Candidate, Status, Never
<1>7. ASSUME NEW t \in Beating, NEW stamp \in Stamps, RecordHeartbeat(t, stamp)
      PROVE  ChiasmTypeOK'
  <2>1. stamp \in 0 .. MaxTime /\ stamp + Refresh \in Int
    BY StampFacts
  <2>2. /\ heartbeat' \in [TaskIds -> {Never} \cup 0 .. MaxTime]
        /\ beat' \in [TaskIds -> {Never} \cup 0 .. MaxTime]
    BY <1>0, <1>7, <2>1 DEF RecordHeartbeat, ChiasmTypeOK
  <2>3. \A c \in claims : c \in Lease /\ Renewed(c, stamp) \in Lease
    BY <2>1 DEF ChiasmTypeOK, Lease, Renewed
  <2>4. claims' \subseteq Lease
    BY <1>7, <2>3 DEF RecordHeartbeat
  <2> QED
    BY <1>7, <2>2, <2>4 DEF RecordHeartbeat, ChiasmTypeOK, Lease, Candidate, Status, Never
<1>8. ASSUME NEW s \in Sweepers, SelectStale(s)
      PROVE  ChiasmTypeOK'
  <2> DEFINE beating == {t \in TaskRows : status[t] \in {"active", "paused"} /\ heartbeat[t] # Never}
             found == {[task |-> t, status |-> status[t], heartbeat |-> heartbeat[t]] : t \in beating}
  <2>1. \A t \in beating : [task |-> t, status |-> status[t], heartbeat |-> heartbeat[t]] \in Candidate
    BY DEF ChiasmTypeOK, Candidate, TaskRows
  <2>2. found \subseteq Candidate
    BY <2>1
  <2>3. sweeping' = [sweeping EXCEPT ![s] = found] /\ sweptAt' = [sweptAt EXCEPT ![s] = now]
    BY <1>8 DEF SelectStale
  <2> HIDE DEF beating, found
  <2>4. sweeping' \in [Sweepers -> SUBSET Candidate] /\ sweptAt' \in [Sweepers -> 0 .. MaxTime]
    BY <1>0, <2>2, <2>3 DEF ChiasmTypeOK
  <2> QED
    BY <1>8, <2>4 DEF SelectStale, ChiasmTypeOK, Lease, Candidate, Status, Never
<1>9. ASSUME NEW s \in Sweepers, NEW c \in sweeping[s], MarkStale(s, c)
      PROVE  ChiasmTypeOK'
  <2>1. c.task \in TaskIds /\ sweeping' \in [Sweepers -> SUBSET Candidate]
    BY <1>9 DEF MarkStale, ChiasmTypeOK, Candidate
  <2>2. status' \in [TaskIds -> Status] /\ claims' \subseteq Lease
    BY <1>9, <2>1 DEF MarkStale, ChiasmTypeOK, Status
  <2> QED
    BY <1>9, <2>1, <2>2 DEF MarkStale, ChiasmTypeOK, Lease, Candidate, Status, Never
<1>10. ASSUME NEW t \in TaskIds, NEW ps \in SUBSET Paths, NEW stamp \in Stamps, CreateClaims(t, ps, stamp)
       PROVE  ChiasmTypeOK'
  <2>1. stamp + Ttl \in Int
    BY StampFacts
  <2>2. \A p \in ps : [task |-> t, path |-> p, expires |-> stamp + Ttl, revived |-> FALSE] \in Lease
    BY <2>1 DEF Lease
  <2>3. claims' \subseteq Lease
    BY <1>10, <2>2 DEF CreateClaims, ChiasmTypeOK
  <2> QED
    BY <1>10, <2>3 DEF CreateClaims, ChiasmTypeOK, Lease, Candidate, Status, Never
<1>11. ASSUME NEW t \in TaskIds, NEW ds \in SUBSET Deps(t, Plan), AddDependencies(t, ds)
       PROVE  ChiasmTypeOK'
  <2>1. edges' \subseteq TaskIds \X TaskIds /\ stranded' \subseteq TaskIds
    BY <1>11 DEF AddDependencies, ChiasmTypeOK, Strands, Deps
  <2> QED
    BY <1>11, <2>1 DEF AddDependencies, ChiasmTypeOK, Lease, Candidate, Status, Never
<1>12. ASSUME NEW t \in TaskIds, NEW d \in TaskIds, RemoveDependency(t, d)
       PROVE  ChiasmTypeOK'
  <2>1. edges' \subseteq TaskIds \X TaskIds /\ stranded' \subseteq TaskIds
    BY <1>12 DEF RemoveDependency, ChiasmTypeOK, Strands
  <2> QED
    BY <1>12, <2>1 DEF RemoveDependency, ChiasmTypeOK, Lease, Candidate, Status, Never
<1>13. CASE TimePasses
  <2>1. now' \in 0 .. MaxTime
    BY <1>0, <1>13 DEF TimePasses
  <2> QED
    BY <1>13, <2>1 DEF TimePasses, ChiasmTypeOK, Lease, Candidate, Status, Never
<1>14. CASE UNCHANGED chiasmVars
  BY <1>14 DEF chiasmVars, ChiasmTypeOK, Lease, Candidate, Status, Never
<1> QED
  BY <1>1, <1>2, <1>3, <1>4, <1>5, <1>6, <1>7, <1>8, <1>9, <1>10, <1>11, <1>12, <1>13, <1>14 DEF ChiasmNext

(* Which rows there are, and what the queue has handed out.                *)
LEMMA RowsStep ==
  ASSUME ChiasmConstants, ChiasmTypeOK, RowsUsed, [ChiasmNext]_chiasmVars
  PROVE  RowsUsed' /\ used \subseteq used'
<1> USE DEF task, sweep
<1>1. ASSUME NEW t \in TaskIds, NEW st, NEW a, Create(t, st, a)
      PROVE  RowsUsed' /\ used \subseteq used'
  <2>1. IsFiniteSet(used') /\ used' = used \cup {t}
    BY <1>1, FS_AddElement DEF Create, RowsUsed
  <2>2. TaskRows' \subseteq TaskRows \cup {t}
    BY <1>1 DEF Create, TaskRows, ChiasmTypeOK
  <2> QED
    BY <2>1, <2>2 DEF RowsUsed
<1>2. ASSUME NEW t \in TaskIds, Delete(t)
      PROVE  RowsUsed' /\ used \subseteq used'
  <2>1. used' = used /\ TaskRows' \subseteq TaskRows
    BY <1>2 DEF Delete, TaskRows, ChiasmTypeOK
  <2> QED
    BY <2>1 DEF RowsUsed
<1>3. CASE UNCHANGED <<rowid, used>>
  BY <1>3 DEF RowsUsed, TaskRows
<1> QED
  BY <1>1, <1>2, <1>3 DEF ChiasmNext, chiasmVars, ClaimNext, Update, ReleaseClaims, CheckAndUnblock,
     RecordHeartbeat, SelectStale, MarkStale, CreateClaims, AddDependencies, RemoveDependency, TimePasses

LEMMA TakenStep ==
  ASSUME ChiasmConstants, ChiasmTypeOK, RowsUsed, TakenOnce, [ChiasmNext]_chiasmVars
  PROVE  TakenOnce'
<1> USE DEF task, sweep
<1>1. ASSUME NEW t \in TaskIds, NEW st, NEW a, Create(t, st, a)
      PROVE  TakenOnce'
  BY <1>1 DEF Create, TakenOnce, ChiasmTypeOK
<1>2. ASSUME NEW o, NEW p, NEW a \in Agents, NEW stamp, ClaimNext(o, p, a, stamp)
      PROVE  TakenOnce'
  <2>1. PICK t \in TaskRows : /\ Queue(o, p, t)
                          /\ assignee' = [assignee EXCEPT ![t] = a]
                          /\ takers' = [takers EXCEPT ![t] = @ \cup {a}]
    BY <1>2 DEF ClaimNext
  <2>2. t \in TaskIds /\ t \in used /\ takers[t] = {} /\ a # None /\ used' = used
    BY <1>2, <2>1 DEF ClaimNext, TaskRows, RowsUsed, Queue, Claimable, TakenOnce, ChiasmConstants
  <2>3. takers'[t] = {a} /\ assignee'[t] = a
    BY <2>1, <2>2 DEF ChiasmTypeOK
  <2>4. \A u \in TaskIds \ {t} : takers'[u] = takers[u] /\ assignee'[u] = assignee[u]
    BY <2>1 DEF ChiasmTypeOK
  <2> QED
    BY <2>2, <2>3, <2>4 DEF TakenOnce
<1>3. ASSUME NEW t \in TaskIds, NEW st, NEW a, Update(t, st, a)
      PROVE  TakenOnce'
  <2>1. takers' = takers /\ used' = used /\ \A u \in TaskIds : assignee[u] # None => assignee'[u] # None
    BY <1>3 DEF Update, ChiasmTypeOK
  <2> QED
    BY <2>1 DEF TakenOnce
<1>4. CASE UNCHANGED <<assignee, takers, used>>
  BY <1>4 DEF TakenOnce
<1> QED
  BY <1>1, <1>2, <1>3, <1>4 DEF ChiasmNext, chiasmVars, Delete, ReleaseClaims, CheckAndUnblock,
     RecordHeartbeat, SelectStale, MarkStale, CreateClaims, AddDependencies, RemoveDependency, TimePasses

(* How old heartbeats are, and what that says of a sweep.                  *)
LEMMA BeatsStep ==
  ASSUME ChiasmConstants, ChiasmTypeOK, BeatsKnown, [ChiasmNext]_chiasmVars
  PROVE  BeatsKnown'
<1> USE DEF task, sweep
<1>0. /\ now \in 0 .. MaxTime /\ MaxTime \in Nat /\ MaxSkew \in Nat
      /\ \A t \in TaskIds : beat[t] \in Int /\ heartbeat[t] \in Int
      /\ \A s \in Sweepers : sweptAt[s] \in 0 .. MaxTime
  BY DEF ChiasmConstants, ChiasmTypeOK, Never
<1>1. ASSUME NEW o, NEW p, NEW a, NEW stamp \in Stamps, ClaimNext(o, p, a, stamp)
      PROVE  BeatsKnown'
  <2>1. PICK t \in TaskRows : /\ heartbeat' = [heartbeat EXCEPT ![t] = stamp]
                          /\ beat' = [beat EXCEPT ![t] = now]
    BY <1>1 DEF ClaimNext
  <2>2. stamp \in Nat /\ now - stamp <= MaxSkew
    BY StampFacts
  <2>3. now <= stamp + MaxSkew
    BY <1>0, <2>2
  <2> QED
    BY <1>1, <2>1, <2>3 DEF ClaimNext, BeatsKnown, ChiasmTypeOK
<1>2. ASSUME NEW t, NEW stamp \in Stamps, RecordHeartbeat(t, stamp)
      PROVE  BeatsKnown'
  <2>2. stamp \in Nat /\ now - stamp <= MaxSkew
    BY StampFacts
  <2>3. now <= stamp + MaxSkew
    BY <1>0, <2>2
  <2> QED
    BY <1>2, <2>3 DEF RecordHeartbeat, BeatsKnown, ChiasmTypeOK
<1>3. ASSUME NEW s \in Sweepers, SelectStale(s)
      PROVE  BeatsKnown'
  BY <1>0, <1>3 DEF SelectStale, BeatsKnown, ChiasmTypeOK
<1>4. CASE TimePasses
  BY <1>0, <1>4 DEF TimePasses, BeatsKnown
<1>5. CASE UNCHANGED <<beat, heartbeat, sweptAt, now>>
  BY <1>5 DEF BeatsKnown
<1> QED
  BY <1>1, <1>2, <1>3, <1>4, <1>5 DEF ChiasmNext, chiasmVars, Create, Update, Delete, ReleaseClaims,
     CheckAndUnblock, MarkStale, CreateClaims, AddDependencies, RemoveDependency

LEMMA StaleLemma ==
  ASSUME ChiasmConstants, ChiasmTypeOK, BeatsKnown, [ChiasmNext]_chiasmVars
  PROVE  StaleStep
<1> USE DEF task, sweep
<1> SUFFICES ASSUME NEW t \in TaskIds, NEW s \in Sweepers, NEW c \in sweeping[s], c.task = t,
                    c \notin sweeping'[s], status[t] # "stale", status'[t] = "stale"
             PROVE  now - beat[t] > Interval - MaxSkew
  BY DEF StaleStep
<1>0. /\ now \in Nat /\ MaxSkew \in Nat /\ Interval \in Nat /\ beat[t] \in Int /\ heartbeat[t] \in Int
      /\ sweptAt[s] \in Nat /\ sweptAt[s] <= now /\ beat[t] <= heartbeat[t] + MaxSkew
  BY DEF ChiasmConstants, ChiasmTypeOK, Never, BeatsKnown
<1>1. PICK z \in Sweepers : \E k \in sweeping[z] : MarkStale(z, k)
  BY DEF ChiasmNext, chiasmVars, Create, ClaimNext, Update, Delete, ReleaseClaims, CheckAndUnblock,
     RecordHeartbeat, SelectStale, CreateClaims, AddDependencies, RemoveDependency, TimePasses
<1>5. PICK k \in sweeping[z] : MarkStale(z, k)
  BY <1>1
<1>2. z = s /\ k = c
  BY <1>5 DEF MarkStale, ChiasmTypeOK
<1>3. Staled(s, c)
  BY <1>2, <1>5 DEF MarkStale
<1>4. heartbeat[t] = c.heartbeat /\ sweptAt[s] - c.heartbeat > Interval
  BY <1>3 DEF Staled, SilentAt, UnchangedSince
<1> QED
  BY <1>0, <1>4

(* Leases: one that is created conflicts with none that is active, and a   *)
(* lease that lapsed comes back only as a revived one.                     *)
LEMMA LeasesStep ==
  ASSUME ChiasmConstants, ChiasmTypeOK, SharedOnlyByRevival, [ChiasmNext]_chiasmVars
  PROVE  SharedOnlyByRevival'
<1> USE DEF task, sweep
<1>0. /\ now \in Nat /\ \A c \in claims : c \in Lease /\ c.expires \in Int
      /\ OwnerOf \in [TaskIds -> Owners]
  BY DEF ChiasmTypeOK, ChiasmConstants, Lease
<1>1. ASSUME NEW t \in TaskIds, NEW ps \in SUBSET Paths, NEW stamp \in Stamps, CreateClaims(t, ps, stamp)
      PROVE  SharedOnlyByRevival'
  <2>1. stamp \in Nat /\ stamp <= now /\ now' = now
    BY <1>1, StampFacts DEF CreateClaims
  <2>2. claims' = claims \cup {[task |-> t, path |-> p, expires |-> stamp + Ttl, revived |-> FALSE] : p \in ps}
    BY <1>1 DEF CreateClaims
  <2>3. \A c \in claims' : c \in claims \/ (c.task = t /\ c.path \in ps)
    BY <2>2
  <2>4. ASSUME NEW c \in claims, NEW p \in ps, c.task # t, c.path = p, ActiveAt(c, now),
               SamePlace(c.task, t)
        PROVE  FALSE
    <3>1. ActiveAt(c, stamp)
      BY <1>0, <2>1, <2>4 DEF ActiveAt
    <3>2. c \in Conflicts(t, p, stamp)
      BY <2>4, <3>1 DEF Conflicts
    <3> QED
      BY <1>1, <3>2 DEF CreateClaims
  <2>5. SUFFICES ASSUME NEW c \in claims', NEW k \in claims', c.task # k.task, c.path = k.path,
                        SamePlace(c.task, k.task), ActiveAt(c, now), ActiveAt(k, now)
                 PROVE  c.revived \/ k.revived
    BY <2>1 DEF SharedOnlyByRevival, SamePlace, ActiveAt
  <2>6. SamePlace(k.task, c.task)
    BY <2>5 DEF SamePlace
  <2>7. CASE c \in claims /\ k \in claims
    BY <2>5, <2>7 DEF SharedOnlyByRevival
  <2>8. CASE c.task = t /\ c.path \in ps /\ k \in claims
    BY <2>4, <2>5, <2>6, <2>8
  <2>9. CASE k.task = t /\ k.path \in ps /\ c \in claims
    BY <2>4, <2>5, <2>9
  <2> QED
    BY <2>3, <2>5, <2>7, <2>8, <2>9
<1>2. ASSUME NEW t, NEW stamp \in Stamps, RecordHeartbeat(t, stamp)
      PROVE  SharedOnlyByRevival'
  <2>1. now' = now /\ \A c \in claims' : \E b \in claims : c = b \/ (b.task = t /\ c = Renewed(b, stamp))
    BY <1>2 DEF RecordHeartbeat
  <2>2. ASSUME NEW c \in claims'
        PROVE  \E b \in claims : b.task = c.task /\ b.path = c.path /\ (~c.revived => ActiveAt(b, now) \/ b = c)
                                 /\ (b.revived => c.revived)
    <3>1. PICK b \in claims : c = b \/ (b.task = t /\ c = Renewed(b, stamp))
      BY <2>1
    <3>2. CASE c # b
      <4>1. c.task = b.task /\ c.path = b.path /\ c.revived = (b.revived \/ b.expires <= now)
        BY <3>1, <3>2 DEF Renewed
      <4>2. ~(b.expires <= now) => ActiveAt(b, now)
        BY <1>0 DEF ActiveAt
      <4> QED
        BY <4>1, <4>2
    <3>3. CASE c = b
      BY <3>3
    <3> QED
      BY <3>2, <3>3
  <2>3. SUFFICES ASSUME NEW c \in claims', NEW k \in claims', c.task # k.task, c.path = k.path,
                        SamePlace(c.task, k.task), ActiveAt(c, now), ActiveAt(k, now),
                        ~c.revived, ~k.revived
                 PROVE  FALSE
    BY <2>1 DEF SharedOnlyByRevival, SamePlace, ActiveAt
  <2>4. PICK b \in claims : b.task = c.task /\ b.path = c.path /\ ActiveAt(b, now) /\ ~b.revived
    BY <2>2, <2>3
  <2>5. PICK d \in claims : d.task = k.task /\ d.path = k.path /\ ActiveAt(d, now) /\ ~d.revived
    BY <2>2, <2>3
  <2> QED
    BY <2>3, <2>4, <2>5 DEF SharedOnlyByRevival
<1>3. CASE claims' \subseteq claims /\ now' = now
  BY <1>3 DEF SharedOnlyByRevival, SamePlace, ActiveAt
<1>4. CASE TimePasses
  <2>1. claims' = claims /\ now' = now + 1
    BY <1>4 DEF TimePasses
  <2>2. \A c \in claims : ActiveAt(c, now') => ActiveAt(c, now)
    BY <1>0, <2>1 DEF ActiveAt
  <2>3. SUFFICES ASSUME NEW c \in claims, NEW k \in claims, c.task # k.task, c.path = k.path,
                        SamePlace(c.task, k.task), ActiveAt(c, now'), ActiveAt(k, now')
                 PROVE  c.revived \/ k.revived
    BY <2>1 DEF SharedOnlyByRevival, SamePlace, ActiveAt
  <2> QED
    BY <2>2, <2>3 DEF SharedOnlyByRevival
<1>5. CASE UNCHANGED <<claims, now>>
  BY <1>3, <1>5
<1> QED
  BY <1>1, <1>2, <1>3, <1>4, <1>5 DEF ChiasmNext, chiasmVars, Create, ClaimNext, Update, Delete, ReleaseClaims,
     CheckAndUnblock, SelectStale, MarkStale, AddDependencies, RemoveDependency

(* The plan: fewer edges make no cycle, and neither do edges to tasks from *)
(* which no walk comes back.                                               *)
LEMMA FewerEdges ==
  ASSUME NEW es, NEW es2, es2 \subseteq es,
         \A S \in SUBSET TaskIds : S # {} => \E t \in S : Deps(t, es) \cap S = {}
  PROVE  \A S \in SUBSET TaskIds : S # {} => \E t \in S : Deps(t, es2) \cap S = {}
<1>1. \A t : Deps(t, es2) \subseteq Deps(t, es)
  BY DEF Deps
<1> QED
  BY <1>1

LEMMA EdgesWithoutReturn ==
  \A es, more, t, ds :
     /\ t \in TaskIds /\ ds \in SUBSET TaskIds
     /\ \A d \in ds : ~Reaches(d, t, es)
     /\ \A S \in SUBSET TaskIds : S # {} => \E u \in S : Deps(u, es) \cap S = {}
     /\ Deps(t, more) = Deps(t, es) \cup ds
     /\ \A u \in TaskIds \ {t} : Deps(u, more) = Deps(u, es)
     => \A S \in SUBSET TaskIds : S # {} => \E u \in S : Deps(u, more) \cap S = {}
<1> SUFFICES ASSUME NEW es, NEW more, NEW t \in TaskIds, NEW ds \in SUBSET TaskIds,
                    \A d \in ds : ~Reaches(d, t, es),
                    \A S \in SUBSET TaskIds : S # {} => \E u \in S : Deps(u, es) \cap S = {},
                    Deps(t, more) = Deps(t, es) \cup ds,
                    \A u \in TaskIds \ {t} : Deps(u, more) = Deps(u, es)
             PROVE  \A S \in SUBSET TaskIds : S # {} => \E u \in S : Deps(u, more) \cap S = {}
  OBVIOUS
<1> SUFFICES ASSUME NEW S \in SUBSET TaskIds, S # {}
             PROVE  \E u \in S : Deps(u, more) \cap S = {}
  OBVIOUS
<1> SUFFICES ASSUME \A u \in S : Deps(u, more) \cap S # {}
             PROVE  FALSE
  OBVIOUS
<1>2. PICK w \in S : Deps(w, es) \cap S = {}
  OBVIOUS
<1>8. \A u \in S : \E x \in S : x \in Deps(u, more)
  OBVIOUS
<1>3. w = t
  BY <1>2, <1>8
<1>9. PICK x \in S : x \in Deps(t, more)
  BY <1>3, <1>8
<1>4. PICK d \in ds : d \in S
  BY <1>2, <1>3, <1>9
<1>5. PICK C \in SUBSET TaskIds : d \in C /\ Closed(C, es) /\ t \notin C
  BY <1>4 DEF Reaches
<1>6. PICK v \in S \cap C : Deps(v, es) \cap (S \cap C) = {}
  BY <1>4, <1>5
<1>7. v # t /\ Deps(v, es) \subseteq C
  BY <1>5, <1>6 DEF Closed, Deps
<1>10. PICK y \in S : y \in Deps(v, more)
  BY <1>6, <1>8
<1>11. y \in Deps(v, es)
  BY <1>7, <1>10
<1> QED
  BY <1>6, <1>7, <1>11

LEMMA PlanStep ==
  ASSUME ChiasmConstants, ChiasmTypeOK, RowsUsed, Acyclic, [ChiasmNext]_chiasmVars
  PROVE  Acyclic'
<1> USE DEF task, sweep
<1>1. ASSUME NEW t \in TaskIds, NEW st, NEW a, Create(t, st, a)
      PROVE  Acyclic'
  <2>1. edges' = edges /\ t \notin used
    BY <1>1 DEF Create
  <2>2. TaskRows \subseteq TaskRows'
    BY <1>1, <2>1 DEF Create, TaskRows, RowsUsed, ChiasmTypeOK
  <2> QED
    BY <2>1, <2>2 DEF Acyclic, Deps
<1>2. ASSUME NEW t \in TaskIds, Delete(t)
      PROVE  Acyclic'
  <2>1. edges' = {e \in edges : e[1] # t /\ e[2] # t}
    BY <1>2 DEF Delete
  <2>2. \A u \in TaskRows \ {t} : u \in TaskRows'
    BY <1>2 DEF Delete, TaskRows, ChiasmTypeOK
  <2>3. \A e \in edges' : {e[1], e[2]} \subseteq TaskRows' /\ OwnerOf[e[1]] = OwnerOf[e[2]]
    BY <2>1, <2>2 DEF Acyclic
  <2>4. \A S \in SUBSET TaskIds : S # {} => \E u \in S : Deps(u, edges') \cap S = {}
    BY <2>1, FewerEdges DEF Acyclic
  <2> QED
    BY <2>3, <2>4 DEF Acyclic, Deps
<1>3. ASSUME NEW t \in TaskIds, NEW ds \in SUBSET Deps(t, Plan), AddDependencies(t, ds)
      PROVE  Acyclic'
  <2>1. /\ edges' = edges \cup {<<t, d>> : d \in ds} /\ rowid' = rowid /\ t \in TaskRows /\ ds \subseteq TaskRows
        /\ \A d \in ds : OwnerOf[d] = OwnerOf[t] /\ ~Reaches(d, t, edges)
    BY <1>3 DEF AddDependencies
  <2>2. TaskRows' = TaskRows /\ ds \in SUBSET TaskIds /\ edges \subseteq TaskIds \X TaskIds
    BY <2>1 DEF TaskRows, ChiasmTypeOK
  <2>3. \A e \in edges' : {e[1], e[2]} \subseteq TaskRows' /\ OwnerOf[e[1]] = OwnerOf[e[2]]
    BY <2>1, <2>2 DEF Acyclic
  <2>4. \A S \in SUBSET TaskIds : S # {} => \E u \in S : Deps(u, edges') \cap S = {}
    <3>1. /\ \A S \in SUBSET TaskIds : S # {} => \E u \in S : Deps(u, edges) \cap S = {}
          /\ \A d \in ds : ~Reaches(d, t, edges)
      BY <2>1 DEF Acyclic
    <3>2. /\ Deps(t, edges') = Deps(t, edges) \cup ds
          /\ \A u \in TaskIds \ {t} : Deps(u, edges') = Deps(u, edges)
      BY <2>1, <2>2 DEF Deps
    <3>3. t \in TaskIds /\ ds \in SUBSET TaskIds
      BY <2>2
    <3> QED
      BY <3>1, <3>2, <3>3, EdgesWithoutReturn, ZenonT(30)
  <2> QED
    BY <2>3, <2>4 DEF Acyclic, Deps
<1>4. ASSUME NEW t \in TaskIds, NEW d \in TaskIds, RemoveDependency(t, d)
      PROVE  Acyclic'
  <2>1. edges' \subseteq edges /\ TaskRows' = TaskRows
    BY <1>4 DEF RemoveDependency, TaskRows
  <2>2. \A S \in SUBSET TaskIds : S # {} => \E u \in S : Deps(u, edges') \cap S = {}
    BY <2>1, FewerEdges DEF Acyclic
  <2> QED
    BY <2>1, <2>2 DEF Acyclic, Deps
<1>5. CASE UNCHANGED <<rowid, edges>>
  BY <1>5 DEF Acyclic, TaskRows, Deps
<1> QED
  BY <1>1, <1>2, <1>3, <1>4, <1>5 DEF ChiasmNext, chiasmVars, ClaimNext, Update, ReleaseClaims, CheckAndUnblock,
     RecordHeartbeat, SelectStale, MarkStale, CreateClaims, TimePasses

(* The wake-ups.  Outside of changes of the plan, a task becomes           *)
(* unblockable only when one of its dependencies is completed, and that    *)
(* one's call is then owed.                                                *)
LEMMA WakeUpStep ==
  ASSUME ChiasmConstants, ChiasmTypeOK, RowsUsed, Acyclic, NoLostUnblock, [ChiasmNext]_chiasmVars
  PROVE  NoLostUnblock'
<1> USE DEF task, sweep
<1>0. \A u \in TaskRows \ stranded : Unblockable(u, status, edges) => \E d \in Deps(u, edges) : d \in owed
  BY DEF NoLostUnblock
<1>a. status \in [TaskIds -> Status] /\ stranded \subseteq TaskIds /\ TaskRows \subseteq TaskIds
  BY DEF ChiasmTypeOK, TaskRows
<1>b. /\ \A u : Deps(u, edges)' = Deps(u, edges')
      /\ \A u : Unblockable(u, status, edges)' = Unblockable(u, status', edges')
  BY DEF Deps, Unblockable
(* Steps that touch neither the plan nor a status.                         *)
<1>1. CASE UNCHANGED <<rowid, status, edges, owed, stranded>>
  BY <1>1 DEF NoLostUnblock, TaskRows, Unblockable, Deps
(* Steps that record whom they strand.                                     *)
<1>2. CASE TaskRows' \subseteq TaskRows /\ owed' = owed /\ stranded' = Strands(status', edges')
  <2> SUFFICES ASSUME NEW u \in TaskRows' \ stranded', Unblockable(u, status', edges')
               PROVE  \E d \in Deps(u, edges') : d \in owed'
    BY <1>b DEF NoLostUnblock
  <2>1. u \in TaskIds /\ u \in TaskRows /\ u \notin stranded
    BY <1>2, <1>a DEF Strands
  <2>2. Unblockable(u, status, edges) /\ Deps(u, edges') = Deps(u, edges)
    BY <1>2, <2>1 DEF Strands
  <2> QED
    BY <1>0, <1>2, <2>1, <2>2
(* Steps that complete nothing and block nobody.                           *)
<1>3. CASE /\ UNCHANGED <<edges, owed, stranded>> /\ TaskRows' \subseteq TaskRows
           /\ \A u \in TaskIds : status'[u] = status[u] \/ status'[u] \notin {"blocked", "completed"}
  <2> SUFFICES ASSUME NEW u \in TaskRows' \ stranded', Unblockable(u, status', edges')
               PROVE  \E d \in Deps(u, edges') : d \in owed'
    BY <1>b DEF NoLostUnblock
  <2>1. u \in TaskIds /\ u \in TaskRows \ stranded
    BY <1>3, <1>a
  <2>2. Unblockable(u, status, edges)
    BY <1>3, <2>1 DEF Unblockable, Deps
  <2> QED
    BY <1>0, <1>3, <2>1, <2>2
<1>4. ASSUME NEW t \in TaskIds, NEW st, NEW a, Create(t, st, a)
      PROVE  NoLostUnblock'
  <2>1. /\ UNCHANGED <<edges, owed, stranded>> /\ t \notin used
        /\ \A u \in TaskIds \ {t} : status'[u] = status[u] /\ rowid'[u] = rowid[u]
    BY <1>4 DEF Create, ChiasmTypeOK
  <2>2. t \notin TaskRows /\ Deps(t, edges) = {} /\ \A u : t \notin Deps(u, edges)
    BY <2>1 DEF RowsUsed, Acyclic, Deps
  <2> SUFFICES ASSUME NEW u \in TaskRows' \ stranded', Unblockable(u, status', edges')
               PROVE  \E d \in Deps(u, edges') : d \in owed'
    BY <1>b DEF NoLostUnblock
  <2>3. u # t /\ u \in TaskIds
    BY <2>1, <2>2 DEF Unblockable, TaskRows
  <2>4. u \in TaskRows \ stranded
    BY <2>1, <2>3 DEF TaskRows
  <2>5. Unblockable(u, status, edges)
    <3>1. status[u] = status'[u] /\ \A d \in Deps(u, edges) : d \in TaskIds /\ status'[d] = status[d]
      BY <2>1, <2>2, <2>3 DEF Deps
    <3> QED
      BY <2>1, <3>1 DEF Unblockable
  <2> QED
    BY <1>0, <2>1, <2>4, <2>5
<1>5. ASSUME NEW t \in TaskIds, NEW st, NEW a, Update(t, st, a)
      PROVE  NoLostUnblock'
  <2>1. /\ UNCHANGED <<edges, rowid>> /\ status' = [status EXCEPT ![t] = st] /\ TaskRows' = TaskRows
        /\ owed' = IF st = "completed" THEN owed \cup {t} ELSE owed
        /\ stranded' = IF st = "completed" THEN stranded ELSE Strands(status', edges)
    BY <1>5 DEF Update, TaskRows
  <2>2. CASE st # "completed"
    BY <1>2, <2>1, <2>2
  <2>3. CASE st = "completed"
    <3> SUFFICES ASSUME NEW u \in TaskRows' \ stranded', Unblockable(u, status', edges')
                 PROVE  \E d \in Deps(u, edges') : d \in owed'
      BY <1>b DEF NoLostUnblock
    <3>1. u \in TaskRows \ stranded /\ u \in TaskIds /\ t \in owed' /\ owed \subseteq owed'
      BY <1>a, <2>1, <2>3
    <3>2. CASE t \in Deps(u, edges)
      BY <2>1, <3>1, <3>2
    <3>3. CASE t \notin Deps(u, edges)
      <4>1. u # t /\ status'[u] = status[u]
        BY <1>a, <2>1, <2>3, <3>1 DEF Unblockable
      <4>2. \A d \in Deps(u, edges) : status'[d] = status[d]
        BY <1>a, <2>1, <3>3 DEF Deps
      <4>3. Unblockable(u, status, edges)
        BY <2>1, <4>1, <4>2 DEF Unblockable
      <4> QED
        BY <1>0, <2>1, <3>1, <4>3
    <3> QED
      BY <3>2, <3>3
  <2> QED
    BY <2>2, <2>3
<1>6. ASSUME NEW t \in TaskIds, CheckAndUnblock(t)
      PROVE  NoLostUnblock'
  <2>1. /\ UNCHANGED <<edges, rowid, stranded>> /\ owed' = owed \ {t} /\ TaskRows' = TaskRows
        /\ \A u \in TaskIds : status'[u] = IF t \in TaskRows /\ status[t] = "completed" /\ u \in Unblocks(t)
                                         THEN "active" ELSE status[u]
    BY <1>6 DEF CheckAndUnblock, TaskRows
  <2> SUFFICES ASSUME NEW u \in TaskRows' \ stranded', Unblockable(u, status', edges')
               PROVE  \E d \in Deps(u, edges') : d \in owed'
    BY <1>b DEF NoLostUnblock
  <2>2. u \in TaskIds /\ u \in TaskRows \ stranded
    BY <1>a, <2>1
  <2>3. Unblockable(u, status, edges)
    BY <2>1, <2>2 DEF Unblockable, Deps
  <2>4. ~(t \in TaskRows /\ status[t] = "completed" /\ u \in Unblocks(t))
    BY <2>1, <2>2 DEF Unblockable
  <2>5. t \notin Deps(u, edges)
    <3>1. SUFFICES ASSUME t \in Deps(u, edges) PROVE FALSE
      OBVIOUS
    <3>2. t \in TaskRows
      BY <3>1 DEF Acyclic, Deps
    <3>3. status[t] = "completed" /\ u \in Unblocks(t)
      BY <2>2, <2>3, <3>1 DEF Unblockable, Unblocks
    <3> QED
      BY <2>4, <3>2, <3>3
  <2> QED
    BY <1>0, <2>1, <2>2, <2>3, <2>5
<1>7. ASSUME NEW t \in TaskIds, Delete(t)
      PROVE  NoLostUnblock'
  <2>1. status' = status /\ owed' = owed /\ stranded' = Strands(status, edges') /\ TaskRows' \subseteq TaskRows
    BY <1>7 DEF Delete, TaskRows, ChiasmTypeOK
  <2> QED
    BY <1>2, <2>1
<1>8. ASSUME NEW t \in TaskIds, (\E ds \in SUBSET Deps(t, Plan) : AddDependencies(t, ds))
                                \/ (\E d \in TaskIds : RemoveDependency(t, d))
      PROVE  NoLostUnblock'
  <2>1. status' = status /\ owed' = owed /\ stranded' = Strands(status, edges') /\ TaskRows' = TaskRows
    BY <1>8 DEF AddDependencies, RemoveDependency, TaskRows
  <2> QED
    BY <1>2, <2>1
<1>9. ASSUME NEW o, NEW p, NEW a, NEW stamp, ClaimNext(o, p, a, stamp)
      PROVE  NoLostUnblock'
  <2>1. /\ UNCHANGED <<rowid, edges, owed, stranded>> /\ TaskRows' = TaskRows
        /\ \A u \in TaskIds : status'[u] = status[u] \/ status'[u] = "active"
    BY <1>9, <1>a DEF ClaimNext, TaskRows
  <2> QED
    BY <1>3, <2>1
<1>10. ASSUME NEW z \in Sweepers, NEW c \in sweeping[z], MarkStale(z, c)
       PROVE  NoLostUnblock'
  <2>1. /\ UNCHANGED <<rowid, edges, owed, stranded>> /\ TaskRows' = TaskRows
        /\ \A u \in TaskIds : status'[u] = status[u] \/ status'[u] = "stale"
    BY <1>10, <1>a DEF MarkStale, TaskRows
  <2> QED
    BY <1>3, <2>1
<1> QED
  BY <1>1, <1>4, <1>5, <1>6, <1>7, <1>8, <1>9, <1>10 DEF ChiasmNext, chiasmVars, ReleaseClaims,
     RecordHeartbeat, SelectStale, CreateClaims, TimePasses

LEMMA ChiasmInitial ==
  ASSUME ChiasmConstants, ChiasmInit
  PROVE  ChiasmInv
<1>1. ChiasmTypeOK
  BY DEF ChiasmConstants, ChiasmInit, ChiasmTypeOK, Status
<1>2. TaskRows = {} /\ RowsUsed
  BY FS_EmptySet DEF ChiasmInit, TaskRows, RowsUsed
<1>3. TakenOnce /\ SharedOnlyByRevival
  BY DEF ChiasmInit, TakenOnce, SharedOnlyByRevival
<1>4. BeatsKnown
  BY DEF ChiasmConstants, ChiasmInit, BeatsKnown, Never
<1>5. Acyclic /\ NoLostUnblock
  BY <1>2 DEF ChiasmInit, Acyclic, NoLostUnblock, Deps
<1> QED
  BY <1>1, <1>2, <1>3, <1>4, <1>5 DEF ChiasmInv

LEMMA ChiasmInvariant ==
  ASSUME ChiasmConstants
  PROVE  ChiasmSpec => []ChiasmInv
<1>1. ChiasmInit => ChiasmInv
  BY ChiasmInitial
<1>2. ChiasmInv /\ [ChiasmNext]_chiasmVars => ChiasmInv'
  BY ChiasmTypeStep, RowsStep, TakenStep, BeatsStep, LeasesStep, PlanStep, WakeUpStep DEF ChiasmInv
<1> QED
  BY <1>1, <1>2, PTL DEF ChiasmSpec

(* Whatever planners, workers and sweepers do and however old their clocks *)
(* are: two tasks share a path only where a heartbeat revived a lapsed     *)
(* lease, claim_next hands a task to one agent in its whole life, the      *)
(* dependencies of any number of tasks stay acyclic under add_dependencies,*)
(* and no interleaving of completions and calls of check_and_unblock       *)
(* leaves a task blocked that has nothing left to wait for, unless the     *)
(* plan was changed under it.                                              *)
THEOREM ChiasmSafetyTheorem ==
  ASSUME ChiasmConstants
  PROVE  ChiasmSpec => []ChiasmSafety
<1>1. TakenOnce => OneTaker
  <2>1. ASSUME NEW t \in TaskIds, TakenOnce PROVE Cardinality(takers[t]) <= 1
    <3>1. CASE takers[t] = {}
      BY <3>1, FS_EmptySet
    <3>2. CASE \E a \in Agents : takers[t] = {a}
      <4>1. PICK a \in Agents : takers[t] = {a}
        BY <3>2
      <4>2. Cardinality({a}) = 1
        BY FS_Singleton
      <4> QED
        BY <4>1, <4>2
    <3> QED
      BY <2>1, <3>1, <3>2 DEF TakenOnce
  <2> QED
    BY <2>1 DEF OneTaker
<1>2. ChiasmInv => ChiasmSafety
  BY <1>1 DEF ChiasmInv, ChiasmSafety
<1> QED
  BY <1>2, ChiasmInvariant, PTL

(* mark_stale stales no task of which a heartbeat was recorded within the  *)
(* interval, less the skew of the clocks, also when the heartbeat came     *)
(* between the selection of the candidates and their staling.              *)
THEOREM StaleTheorem ==
  ASSUME ChiasmConstants
  PROVE  ChiasmSpec => StaleKept
<1>1. ChiasmInv /\ [ChiasmNext]_chiasmVars => [StaleStep]_chiasmVars
  BY StaleLemma DEF ChiasmInv
<1> QED
  BY <1>1, ChiasmInvariant, PTL DEF ChiasmSpec, StaleKept
=============================================================================
