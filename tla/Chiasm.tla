------------------------------- MODULE Chiasm -------------------------------
(***************************************************************************)
(* The task store of Chiasm: lifecycle, work queue, heartbeats and the     *)
(* stale sweep, path leases, and the dependency graph.  Every operation is *)
(* one transaction; what spans several is a sweep, which selects           *)
(* candidates in one transaction and stales each in its own, and a caller  *)
(* that completes a task and then calls check_and_unblock.  An operation   *)
(* reads the clock before it takes the lock, so its stamp may be old.  An  *)
(* owner stands for a tenant and an owner of it.                           *)
(***************************************************************************)
EXTENDS Integers, FiniteSets

CONSTANTS
  TaskIds, Agents, Paths, Owners, Projects, Sweepers,
  OwnerOf, ProjectOf,  \* what each task is created in
  Interval,    \* heartbeat_interval_secs times the grace multiplier, in ticks
  Ttl,         \* ttl_seconds of a claim, in ticks
  Refresh,     \* HEARTBEAT_CLAIM_REFRESH_SECS, in ticks
  Given,       \* inputs: the statuses callers of create and update give
  Plan,        \* inputs: the dependencies callers ask for
  Beating,     \* inputs: the tasks whose agents send heartbeats
  MaxSkew,     \* bound: how old a stamp is when the lock is taken
  MaxTime      \* bound of the clock

Status == {"active", "paused", "blocked", "completed", "blocked_on_human", "stale", "queued"}

None == "none"
Never == -1

(* What the constants are assumed to be, by the modules that give them values. *)
ChiasmConstants ==
  /\ OwnerOf \in [TaskIds -> Owners] /\ ProjectOf \in [TaskIds -> Projects]
  /\ None \notin Agents /\ Given \subseteq Status /\ Beating \subseteq TaskIds /\ Plan \subseteq TaskIds \X TaskIds
  /\ {Interval, Ttl, Refresh, MaxSkew, MaxTime} \subseteq Nat

VARIABLES
  rowid,      \* the place of a task's row in the order of the rowids, 0 without a row
  status, assignee, heartbeat,
  claims,     \* chiasm_path_claims: the rows with released = 0
  edges,      \* chiasm_task_dependencies: <<task_id, depends_on>>
  now,
  sweeping,   \* candidates each sweep has selected and not yet looked at
  sweptAt,    \* the time a sweep compares heartbeats with
  owed,       \* completed tasks whose caller has not called check_and_unblock yet
  used,       \* history: ids that were given out
  beat,       \* history: when the last heartbeat of a task was recorded
  takers,     \* history: the agents that got each task from the queue
  stranded    \* history: blocked tasks that became ready by a change of the plan

task == <<rowid, status, assignee, heartbeat>>
sweep == <<sweeping, sweptAt>>
chiasmVars == <<task, claims, edges, now, sweep, owed, used, beat, takers, stranded>>

Lease == [task : TaskIds, path : Paths, expires : Int, revived : BOOLEAN]
Candidate == [task : TaskIds, status : {"active", "paused"}, heartbeat : 0 .. MaxTime]

ChiasmTypeOK ==
  /\ rowid \in [TaskIds -> Nat] /\ status \in [TaskIds -> Status] /\ assignee \in [TaskIds -> Agents \cup {None}]
  /\ heartbeat \in [TaskIds -> {Never} \cup 0 .. MaxTime]
  /\ claims \subseteq Lease /\ edges \subseteq TaskIds \X TaskIds /\ now \in 0 .. MaxTime
  /\ sweeping \in [Sweepers -> SUBSET Candidate] /\ sweptAt \in [Sweepers -> 0 .. MaxTime]
  /\ owed \subseteq TaskIds /\ used \subseteq TaskIds /\ stranded \subseteq TaskIds
  /\ beat \in [TaskIds -> {Never} \cup 0 .. MaxTime] /\ takers \in [TaskIds -> SUBSET Agents]

TaskRows == {t \in TaskIds : rowid[t] # 0}

ChiasmInit ==
  /\ rowid = [t \in TaskIds |-> 0] /\ status = [t \in TaskIds |-> "queued"]
  /\ assignee = [t \in TaskIds |-> None] /\ heartbeat = [t \in TaskIds |-> Never]
  /\ claims = {} /\ edges = {} /\ now = 0
  /\ sweeping = [s \in Sweepers |-> {}] /\ sweptAt = [s \in Sweepers |-> 0]
  /\ owed = {} /\ used = {} /\ stranded = {}
  /\ beat = [t \in TaskIds |-> Never] /\ takers = [t \in TaskIds |-> {}]

\* What Timestamp::now() may have returned to an operation that now has the lock.
Stamps == {s \in 0 .. now : now - s <= MaxSkew}

Deps(t, es) == {d \in TaskIds : <<t, d>> \in es}

\* A blocked task all of whose dependencies are completed.
Unblockable(t, st, es) ==
  st[t] = "blocked" /\ Deps(t, es) # {} /\ \A d \in Deps(t, es) : st[d] = "completed"

\* The tasks that a change of the plan, not a completion, leaves ready.
Strands(st, es) ==
  stranded \cup {t \in TaskIds :
    Unblockable(t, st, es) /\ ~(Unblockable(t, status, edges) /\ Deps(t, es) = Deps(t, edges))}

---------------------------------------------------------------------------
(* Lifecycle and queue *)

\* create and enqueue: a row under a fresh id.  A created task may have any
\* status and assignee; a queued one has no assignee.
Create(t, st, a) ==
  /\ t \notin used
  /\ rowid' = [rowid EXCEPT ![t] = Cardinality(used) + 1] /\ used' = used \cup {t}
  /\ status' = [status EXCEPT ![t] = st] /\ assignee' = [assignee EXCEPT ![t] = a]
  /\ UNCHANGED <<heartbeat, claims, edges, now, sweep, owed, beat, takers, stranded>>

Claimable(t) == status[t] = "queued" /\ assignee[t] = None

\* The rows claim_next looks through: of an owner, and of a project when one is given.
Queue(o, p, t) == OwnerOf[t] = o /\ p \in {None, ProjectOf[t]} /\ Claimable(t)

\* claim_next: the oldest row of the queue, in one UPDATE.
ClaimNext(o, p, a, stamp) ==
  /\ \E t \in TaskRows :
       /\ Queue(o, p, t) /\ \A u \in TaskRows : Queue(o, p, u) => rowid[t] <= rowid[u]
       /\ status' = [status EXCEPT ![t] = "active"]
       /\ assignee' = [assignee EXCEPT ![t] = a]
       /\ heartbeat' = [heartbeat EXCEPT ![t] = stamp]
       /\ beat' = [beat EXCEPT ![t] = now]
       /\ takers' = [takers EXCEPT ![t] = @ \cup {a}]
  /\ UNCHANGED <<rowid, claims, edges, now, sweep, owed, used, stranded>>

\* update: any status, and an assignee that can be changed but not taken away.
\* Whoever completes a task calls check_and_unblock next.
Update(t, st, a) ==
  /\ t \in TaskRows
  /\ status' = [status EXCEPT ![t] = st]
  /\ assignee' = [assignee EXCEPT ![t] = IF a = None THEN @ ELSE a]
  /\ owed' = IF st = "completed" THEN owed \cup {t} ELSE owed
  /\ stranded' = IF st = "completed" THEN stranded ELSE Strands(status', edges)
  /\ UNCHANGED <<rowid, heartbeat, claims, edges, now, sweep, used, beat, takers>>

\* delete: claims and edges go with the row.
Delete(t) ==
  /\ t \in TaskRows
  /\ rowid' = [rowid EXCEPT ![t] = 0]
  /\ claims' = {c \in claims : c.task # t}
  /\ edges' = {e \in edges : e[1] # t /\ e[2] # t}
  /\ stranded' = Strands(status, edges')
  /\ UNCHANGED <<status, assignee, heartbeat, now, sweep, owed, used, beat, takers>>

---------------------------------------------------------------------------
(* Heartbeats and the stale sweep *)

\* A lease after the heartbeat of its task: extended, also when it had lapsed.
Renewed(c, stamp) ==
  [task |-> c.task, path |-> c.path, expires |-> stamp + Refresh, revived |-> c.revived \/ c.expires <= now]

\* record_heartbeat: every unreleased lease is extended; when that statement
\* fails, the heartbeat counts all the same.
RecordHeartbeat(t, stamp) ==
  /\ t \in TaskRows
  /\ heartbeat' = [heartbeat EXCEPT ![t] = stamp]
  /\ beat' = [beat EXCEPT ![t] = now]
  /\ \/ claims' = {IF c.task = t THEN Renewed(c, stamp) ELSE c : c \in claims}
     \/ claims' = claims
  /\ UNCHANGED <<rowid, status, assignee, edges, now, sweep, owed, used, takers, stranded>>

\* mark_stale begins: stale_candidates, and the clock.
SelectStale(s) ==
  /\ sweeping[s] = {}
  /\ LET beating == {t \in TaskRows : status[t] \in {"active", "paused"} /\ heartbeat[t] # Never} IN
     /\ beating # {}
     /\ sweeping' = [sweeping EXCEPT ![s] =
          {[task |-> t, status |-> status[t], heartbeat |-> heartbeat[t]] : t \in beating}]
  /\ sweptAt' = [sweptAt EXCEPT ![s] = now]
  /\ UNCHANGED <<task, claims, edges, now, owed, used, beat, takers, stranded>>

SilentAt(s, c) == sweptAt[s] - c.heartbeat > Interval

\* Variant: the row only has to have its status still.
UnchangedByStatus(c) == c.task \in TaskRows /\ status[c.task] = c.status

\* The row is still as the sweep selected it.
UnchangedSince(c) ==
  c.task \in TaskRows /\ status[c.task] = c.status /\ heartbeat[c.task] = c.heartbeat

Staled(s, c) == SilentAt(s, c) /\ UnchangedSince(c)

\* mark_stale_candidates, one candidate.
MarkStale(s, c) ==
  /\ sweeping' = [sweeping EXCEPT ![s] = @ \ {c}]
  /\ \/ /\ Staled(s, c)
        /\ status' = [status EXCEPT ![c.task] = "stale"]
        /\ claims' = {k \in claims : k.task # c.task}
     \/ ~Staled(s, c) /\ UNCHANGED <<status, claims>>
  /\ UNCHANGED <<rowid, assignee, heartbeat, edges, now, sweptAt, owed, used, beat, takers, stranded>>

---------------------------------------------------------------------------
(* Path leases *)

ActiveAt(c, at) == c.expires > at

SamePlace(t, u) == OwnerOf[t] = OwnerOf[u] /\ ProjectOf[t] = ProjectOf[u]

\* The active claims of other tasks on a path of the project.
Conflicts(t, p, at) ==
  {c \in claims : c.task # t /\ c.path = p /\ SamePlace(c.task, t) /\ ActiveAt(c, at)}

\* create_claims: the whole batch or nothing.
CreateClaims(t, ps, stamp) ==
  /\ t \in TaskRows /\ ps # {}
  /\ \A p \in ps : Conflicts(t, p, stamp) = {}
  /\ claims' = claims \cup
       {[task |-> t, path |-> p, expires |-> stamp + Ttl, revived |-> FALSE] : p \in ps}
  /\ UNCHANGED <<task, edges, now, sweep, owed, used, beat, takers, stranded>>

\* release_claims.
ReleaseClaims(t) ==
  /\ t \in TaskRows /\ \E c \in claims : c.task = t
  /\ claims' = {c \in claims : c.task # t}
  /\ UNCHANGED <<task, edges, now, sweep, owed, used, beat, takers, stranded>>

---------------------------------------------------------------------------
(* Dependencies *)

\* reaches: a walk along the edges.  It finds the tasks that are in every set
\* it cannot leave.
Closed(S, es) == \A e \in es : e[1] \in S => e[2] \in S

Reaches(from, needle, es) == \A S \in SUBSET TaskIds : from \in S /\ Closed(S, es) => needle \in S

\* add_dependencies: every target has the same owner and reaches the task by no
\* edge.  All the edges of a batch leave the task, so that the earlier ones of
\* the batch make no target reach it.
AddDependencies(t, ds) ==
  /\ t \in TaskRows /\ ds # {} /\ ds \subseteq TaskRows
  /\ \A d \in ds : d # t /\ OwnerOf[d] = OwnerOf[t] /\ ~Reaches(d, t, edges)
  /\ edges' = edges \cup {<<t, d>> : d \in ds}
  /\ stranded' = Strands(status, edges')
  /\ UNCHANGED <<task, claims, now, sweep, owed, used, beat, takers>>

\* remove_dependency.
RemoveDependency(t, d) ==
  /\ <<t, d>> \in edges
  /\ edges' = edges \ {<<t, d>>}
  /\ stranded' = Strands(status, edges')
  /\ UNCHANGED <<task, claims, now, sweep, owed, used, beat, takers>>

\* Variant: only a dependent of this one task is activated.
UnblocksOnly(t) == {u \in TaskIds : Deps(u, edges) = {t} /\ Unblockable(u, status, edges)}

\* The dependents a completed task lets go.
Unblocks(t) == {u \in TaskIds : t \in Deps(u, edges) /\ Unblockable(u, status, edges)}

\* check_and_unblock: nothing when the trigger is not completed any more.
CheckAndUnblock(t) ==
  /\ t \in owed
  /\ owed' = owed \ {t}
  /\ status' = [u \in TaskIds |-> IF t \in TaskRows /\ status[t] = "completed" /\ u \in Unblocks(t)
                                  THEN "active" ELSE status[u]]
  /\ UNCHANGED <<rowid, assignee, heartbeat, claims, edges, now, sweep, used, beat, takers, stranded>>

---------------------------------------------------------------------------
TimePasses ==
  /\ now < MaxTime
  /\ now' = now + 1
  /\ UNCHANGED <<task, claims, edges, sweep, owed, used, beat, takers, stranded>>

ChiasmNext ==
  \/ \E t \in TaskIds, st \in Given, a \in Agents \cup {None} : Create(t, st, a)
  \/ \E o \in Owners, p \in Projects \cup {None}, a \in Agents, stamp \in Stamps : ClaimNext(o, p, a, stamp)
  \/ \E t \in TaskIds, st \in Given, a \in Agents \cup {None} : Update(t, st, a)
  \/ \E t \in TaskIds : Delete(t) \/ ReleaseClaims(t) \/ CheckAndUnblock(t)
  \/ \E t \in Beating, stamp \in Stamps : RecordHeartbeat(t, stamp)
  \/ \E s \in Sweepers : SelectStale(s)
  \/ \E s \in Sweepers : \E c \in sweeping[s] : MarkStale(s, c)
  \/ \E t \in TaskIds, ps \in SUBSET Paths, stamp \in Stamps : CreateClaims(t, ps, stamp)
  \/ \E t \in TaskIds : \E ds \in SUBSET Deps(t, Plan) : AddDependencies(t, ds)
  \/ \E t, d \in TaskIds : RemoveDependency(t, d)
  \/ TimePasses

ChiasmSpec == ChiasmInit /\ [][ChiasmNext]_chiasmVars

---------------------------------------------------------------------------
(* Properties *)

\* A task is staled only when its holder has been silent: no heartbeat of it was
\* recorded within the interval, apart from the age a stamp may have, also when
\* heartbeats arrive between the selection of the candidates and their staling.
StaleStep ==
  \A t \in TaskIds :
    (\E s \in Sweepers : \E c \in sweeping[s] : c.task = t /\ c \notin sweeping'[s]
       /\ status[t] # "stale" /\ status'[t] = "stale")
      => now - beat[t] > Interval - MaxSkew

StaleKept == [][StaleStep]_chiasmVars

\* claim_next gives a task to one agent in its whole life, also when an update
\* puts a claimed task back to queued.
OneTaker == \A t \in TaskIds : Cardinality(takers[t]) <= 1

\* Two tasks hold active leases on one path only after a heartbeat revived a
\* lease that had lapsed: whatever the age of the stamps, creation alone never
\* lets two tasks have a path.
SharedOnlyByRevival ==
  \A c, k \in claims :
    ( /\ c.task # k.task /\ c.path = k.path /\ SamePlace(c.task, k.task)
      /\ ActiveAt(c, now) /\ ActiveAt(k, now) ) => (c.revived \/ k.revived)

\* The dependency graph stays inside the table and an owner, and acyclic: among
\* any tasks there is one that waits for none of them.
Acyclic ==
  /\ \A e \in edges : {e[1], e[2]} \subseteq TaskRows /\ OwnerOf[e[1]] = OwnerOf[e[2]]
  /\ \A S \in SUBSET TaskIds : S # {} => \E t \in S : Deps(t, edges) \cap S = {}

\* No lost wake-up: however the completions of a task's dependencies and the
\* calls of check_and_unblock that follow them interleave, a blocked task with
\* nothing left to wait for has a call coming, unless the plan was changed
\* under it.
NoLostUnblock ==
  \A t \in TaskRows \ stranded :
    Unblockable(t, status, edges) => \E d \in Deps(t, edges) : d \in owed

\* What planners, workers and sweepers rely on: leases, one taker for a task, an
\* acyclic plan and no lost wake-up.
ChiasmSafety == ChiasmTypeOK /\ SharedOnlyByRevival /\ OneTaker /\ Acyclic /\ NoLostUnblock

---------------------------------------------------------------------------
(* The inductive invariant behind ChiasmSafety and StaleStep.              *)

RowsUsed == IsFiniteSet(used) /\ TaskRows \subseteq used

\* A task that was handed out has an assignee, so that it is not handed out again.
TakenOnce ==
  \A t \in TaskIds :
    takers[t] = {} \/ (t \in used /\ assignee[t] # None /\ \E a \in Agents : takers[t] = {a})

\* A stored heartbeat is older than its recording by no more than the skew.
BeatsKnown ==
  /\ \A t \in TaskIds : beat[t] <= heartbeat[t] + MaxSkew
  /\ \A s \in Sweepers : sweptAt[s] <= now

ChiasmInv ==
  ChiasmTypeOK /\ RowsUsed /\ TakenOnce /\ BeatsKnown /\ SharedOnlyByRevival /\ Acyclic /\ NoLostUnblock
=============================================================================
