---------------------------- MODULE CronRuntime -----------------------------
(***************************************************************************)
(* The scheduled jobs of a managed room.  The runtime that leads the room  *)
(* loads jobs.json when it starts, decides on every tick which jobs are    *)
(* due, saves the decisions before it acts on them and injects the jobs    *)
(* one by one into the room.  Leadership is checked before each step that  *)
(* matters, by a query that may be stale when the step is taken, so that   *)
(* two runtimes can work on one directory for a while.  A decision is the  *)
(* job and the time it covers: everything after the last run up to now.    *)
(***************************************************************************)
EXTENDS Integers, Sequences, SequencesExt, FiniteSets

CONSTANTS
  Runtimes,      \* runs of the bridge of one room
  Nobody,        \* no run leads it
  Jobs,          \* the enabled jobs of jobs.json
  Period,        \* each job's schedule: the times it divides
  Start,         \* the time at which the model begins
  MaxClock, MaxFaults   \* bounds of the clock and the failures

(* What the constants are assumed to be, by the modules that give them values. *)
CronConstants ==
  /\ Nobody \notin Runtimes /\ IsFiniteSet(Jobs) /\ Period \in [Jobs -> Nat \ {0}]
  /\ Start \in Nat /\ MaxClock \in Nat /\ MaxFaults \in Nat

VARIABLES
  clock,     \* the clock, in seconds
  leader,    \* the run that holds the leadership of the room, or Nobody
  paused,    \* the pause of the room
  disk,      \* last_run of each job in jobs.json, 0 for never
  mem,       \* last_run of each job in the scheduler of each runtime
  loop,      \* what each runtime is doing
  pending,   \* pending_cron_jobs
  current,   \* the decision that is being dispatched
  results,   \* results.json: the decisions reported on
  faults,
  injected,  \* history: the decisions injected into the room
  decided,   \* history: the decisions handed to a runtime
  cut        \* history: decisions whose runtime ended or failed to write

runtime == <<mem, loop, pending, current>>
environment == <<clock, leader, paused>>
cronVars == <<environment, disk, runtime, results, faults, injected, decided, cut>>

CronSteps == {"down", "loop", "tick", "dispatch", "cascade", "record"}
NoRuns == [j \in Jobs |-> 0]
NoDecision == [job |-> "none"]

CronInit ==
  /\ clock = Start /\ leader = Nobody /\ paused = FALSE
  /\ disk = NoRuns /\ mem = [r \in Runtimes |-> NoRuns]
  /\ loop = [r \in Runtimes |-> "down"] /\ pending = [r \in Runtimes |-> <<>>]
  /\ current = [r \in Runtimes |-> NoDecision]
  /\ results = {} /\ faults = 0 /\ injected = <<>> /\ decided = {} /\ cut = {}

Fault == faults < MaxFaults /\ faults' = faults + 1

-----------------------------------------------------------------------------
(* The surroundings.                                                       *)

Clock == clock < MaxClock /\ clock' = clock + 1
         /\ UNCHANGED <<leader, paused, disk, runtime, results, faults, injected, decided, cut>>

\* The lease of the leader ends, or a runtime is to start in a free room.  A
\* runtime that has lost its lease never gets it back.
Lead(l) ==
  /\ leader # l /\ leader' = l
  /\ l = Nobody \/ (leader = Nobody /\ loop[l] = "down")
  /\ (IF l = Nobody THEN Fault ELSE UNCHANGED faults)
  /\ UNCHANGED <<clock, paused, disk, runtime, results, injected, decided, cut>>

Pause == paused' = ~paused
         /\ UNCHANGED <<clock, leader, disk, runtime, results, faults, injected, decided, cut>>

-----------------------------------------------------------------------------
(* The scheduler.                                                          *)

\* The first time after t that the schedule names.
NextAfter(j, t) == (t \div Period[j] + 1) * Period[j]

IsDue(j, last) == NextAfter(j, last) <= clock

\* tick moves last_run of every due job, and hands the jobs out one after
\* the other.
Due(r) == {j \in Jobs : IsDue(j, mem[r][j])}
Advanced(r) == [j \in Jobs |-> IF j \in Due(r) THEN clock ELSE mem[r][j]]
Decision(r, j) == [job |-> j, from |-> mem[r][j], to |-> clock]

\* Variant: the due jobs are handed out although they could not be saved.
TickHandsOutUnsaved(r) ==
  /\ loop[r] = "tick" /\ loop' = [loop EXCEPT ![r] = "loop"]
  /\ \E order \in SetToSeqs({Decision(r, j) : j \in Due(r)}) :
       /\ pending' = [pending EXCEPT ![r] = order]
       /\ decided' = decided \cup ToSet(order)
  /\ \/ mem' = [mem EXCEPT ![r] = Advanced(r)] /\ disk' = Advanced(r) /\ UNCHANGED faults
     \/ mem' = [mem EXCEPT ![r] = Advanced(r)] /\ Fault /\ UNCHANGED disk
  /\ UNCHANGED <<environment, current, results, injected, cut>>

\* poll_due_jobs and tick: nothing while the room is paused; a save that fails
\* restores the memory and hands out nothing, although it may have failed only
\* after the new file was in place.
Tick(r) ==
  /\ loop[r] = "tick" /\ loop' = [loop EXCEPT ![r] = "loop"]
  /\ \/ /\ paused \/ Due(r) = {}
        /\ UNCHANGED <<mem, disk, pending, decided, faults>>
     \/ /\ ~paused /\ Due(r) # {} /\ Fault /\ disk' \in {disk, Advanced(r)}
        /\ UNCHANGED <<mem, pending, decided>>
     \/ /\ ~paused /\ Due(r) # {} /\ UNCHANGED faults
        /\ mem' = [mem EXCEPT ![r] = Advanced(r)] /\ disk' = Advanced(r)
        /\ \E order \in SetToSeqs({Decision(r, j) : j \in Due(r)}) :
             /\ pending' = [pending EXCEPT ![r] = order]
             /\ decided' = decided \cup ToSet(order)
  /\ UNCHANGED <<environment, current, results, injected, cut>>

-----------------------------------------------------------------------------
(* The runtime's loop.                                                     *)

Outstanding(r) == ToSet(pending[r]) \cup ({current[r]} \ {NoDecision})

\* The runtime ends; what it had not yet accounted for stays without a result.
End(r) ==
  /\ loop' = [loop EXCEPT ![r] = "down"] /\ pending' = [pending EXCEPT ![r] = <<>>]
  /\ current' = [current EXCEPT ![r] = NoDecision] /\ cut' = cut \cup Outstanding(r)

\* CronScheduler::open: the new leader loads the file.
Open(r) ==
  /\ loop[r] = "down" /\ leader = r
  /\ mem' = [mem EXCEPT ![r] = disk] /\ loop' = [loop EXCEPT ![r] = "loop"]
  /\ UNCHANGED <<environment, disk, pending, current, results, faults, injected, decided, cut>>

\* require_current before a step: without the leadership the runtime ends.
Checked(r, step) ==
  IF leader = r THEN loop' = [loop EXCEPT ![r] = step] /\ UNCHANGED <<pending, current, cut>>
                ELSE End(r)

Poll(r) ==
  /\ loop[r] = "loop" /\ pending[r] = <<>> /\ Checked(r, "tick")
  /\ UNCHANGED <<environment, disk, mem, results, faults, injected, decided>>

Begin(r) ==
  /\ loop[r] = "loop" /\ pending[r] # <<>> /\ ~paused /\ Checked(r, "dispatch")
  /\ UNCHANGED <<environment, disk, mem, results, faults, injected, decided>>

\* The watch of the leadership tells the loop that it was revoked.
Revoked(r) ==
  /\ loop[r] = "loop" /\ leader # r /\ End(r)
  /\ UNCHANGED <<environment, disk, mem, results, faults, injected, decided>>

\* The job leaves the queue and enters the room as a stimulus.
Inject(r) ==
  /\ loop[r] = "dispatch" /\ loop' = [loop EXCEPT ![r] = "cascade"]
  /\ current' = [current EXCEPT ![r] = Head(pending[r])]
  /\ pending' = [pending EXCEPT ![r] = Tail(@)]
  /\ injected' = Append(injected, Head(pending[r]))
  /\ UNCHANGED <<environment, disk, mem, results, faults, decided, cut>>

\* The cascade ends; a fatal error ends the runtime, and so does a lost
\* leadership, before the result is written.
Cascade(r) ==
  /\ loop[r] = "cascade"
  /\ \/ Checked(r, "record") /\ UNCHANGED faults
     \/ Fault /\ End(r)
  /\ UNCHANGED <<environment, disk, mem, results, injected, decided>>

\* record_job_result: a result that cannot be written is logged.
RecordResult(r) ==
  /\ loop[r] = "record" /\ loop' = [loop EXCEPT ![r] = "loop"]
  /\ current' = [current EXCEPT ![r] = NoDecision]
  /\ \/ results' = results \cup {current[r]} /\ UNCHANGED <<faults, cut>>
     \/ Fault /\ cut' = cut \cup {current[r]} /\ UNCHANGED results
  /\ UNCHANGED <<environment, disk, mem, pending, injected, decided>>

\* A requested stop: the leader reports what it will not run any more, as far as
\* the results can be written, and gives up the leadership.
Stop(r) ==
  /\ loop[r] = "loop"
  /\ loop' = [loop EXCEPT ![r] = "down"] /\ pending' = [pending EXCEPT ![r] = <<>>]
  /\ leader' = (IF leader = r THEN Nobody ELSE leader)
  /\ IF leader = r
       THEN \E unwritten \in SUBSET ToSet(pending[r]) :
              /\ results' = results \cup (ToSet(pending[r]) \ unwritten)
              /\ cut' = cut \cup unwritten
              /\ IF unwritten = {} THEN UNCHANGED faults ELSE Fault
       ELSE cut' = cut \cup ToSet(pending[r]) /\ UNCHANGED <<results, faults>>
  /\ UNCHANGED <<clock, paused, disk, mem, current, injected, decided>>

RuntimeCrash(r) ==
  /\ loop[r] # "down" /\ Fault /\ End(r)
  /\ UNCHANGED <<environment, disk, mem, results, injected, decided>>

Work(r) ==
  \/ Open(r) \/ Poll(r) \/ Tick(r) \/ Begin(r) \/ Inject(r) \/ Cascade(r) \/ RecordResult(r)
  \/ Revoked(r)

CronNext ==
  \/ Clock \/ Pause \/ \E l \in Runtimes \cup {Nobody} : Lead(l)
  \/ \E r \in Runtimes : Work(r) \/ Stop(r) \/ RuntimeCrash(r)

CronSpec == CronInit /\ [][CronNext]_cronVars

\* The runtime's loop is polled, whichever of its branches are ready.
CronPolledSpec == CronSpec /\ \A r \in Runtimes : WF_cronVars(Work(r))

-----------------------------------------------------------------------------
\* No scheduled time is injected twice: two injections of a job cover disjoint
\* times, whatever runtimes decided them, also when a runtime that has lost
\* the room saves its older view over the file of its successor.
OccurrenceOnce ==
  \A i, k \in DOMAIN injected :
    (i # k /\ injected[i].job = injected[k].job) =>
      injected[i].to <= injected[k].from \/ injected[k].to <= injected[i].from

\* A job is injected only after its decision is in the file, where it stays:
\* a restart never decides it again.
DecidedOnDisk == \A i \in DOMAIN injected : disk[injected[i].job] >= injected[i].to

\* Every decision is in hand, has its result, or was cut off by a crash, a lost
\* leadership or a failed write: a stop and a failed cascade alone lose none.
Accounted ==
  \A d \in decided :
    \/ d \in cut
    \/ d \in results
    \/ \E r \in Runtimes : d \in Outstanding(r)

\* Occurrences are injected once, after they are on disk, and none is forgotten.
CronSafety == OccurrenceOnce /\ DecidedOnDisk /\ Accounted

\* What is due is decided, in the file and by the runtime that leads the room,
\* once one leads it for good and nobody pauses it: a failed save is tried again,
\* also when the file was replaced.
DueIsDecided ==
  <>[](leader # Nobody /\ ~paused) =>
    \A j \in Jobs : []<>( /\ ~IsDue(j, disk[j])
                         /\ \A r \in Runtimes : leader = r => loop[r] # "down" /\ ~IsDue(j, mem[r][j]) )

-----------------------------------------------------------------------------
(* The inductive invariant behind CronSafety.  Of the decisions handed out, *)
(* those stand that were injected or are still in the queue of a runtime    *)
(* that may inject them: the leader, or one that has passed its last check. *)

DecisionSet == {d \in [job : Jobs, from : Nat, to : Nat] : d.from < d.to}

CronTypeOK ==
  /\ clock \in Nat /\ leader \in Runtimes \cup {Nobody} /\ paused \in BOOLEAN
  /\ disk \in [Jobs -> Nat] /\ mem \in [Runtimes -> [Jobs -> Nat]]
  /\ loop \in [Runtimes -> CronSteps] /\ pending \in [Runtimes -> Seq(DecisionSet)]
  /\ current \in [Runtimes -> DecisionSet \cup {NoDecision}]
  /\ injected \in Seq(DecisionSet)

(* What the place of a runtime in its loop says of its queue.               *)
PlacesOK ==
  \A r \in Runtimes :
    /\ loop[r] \in {"down", "tick"} => pending[r] = <<>>
    /\ loop[r] = "dispatch" => pending[r] # <<>>
    /\ (loop[r] \in {"cascade", "record"}) <=> (current[r] # NoDecision)

(* No time that was saved lies in the future.                               *)
ClockOK ==
  \A j \in Jobs :
    /\ disk[j] <= clock
    /\ \A r \in Runtimes : mem[r][j] <= clock

MayInject(r) == leader = r \/ loop[r] = "dispatch"
Leads(r) == leader = r /\ loop[r] # "down"

Apart(d, e) == d.job = e.job => d.to <= e.from \/ e.to <= d.from

(* The decisions that stand are apart: those in the room, those in the      *)
(* queues, and the former from the latter.                                  *)
QueuesApart ==
  \A r \in Runtimes : MayInject(r) =>
    \A i \in DOMAIN pending[r] :
      /\ \A k \in DOMAIN injected : Apart(pending[r][i], injected[k])
      /\ \A q \in Runtimes : MayInject(q) =>
           \A k \in DOMAIN pending[q] : <<r, i>> # <<q, k>> => Apart(pending[r][i], pending[q][k])

Stands(d) ==
  \/ \E k \in DOMAIN injected : injected[k] = d
  \/ \E r \in Runtimes : MayInject(r) /\ \E i \in DOMAIN pending[r] : pending[r][i] = d

(* A decision that stands is in the file and known to the leader; a runtime *)
(* about to tick either knows it, or has an older time from which the       *)
(* schedule has come round again.                                           *)
StandingKnown ==
  \A d \in DecisionSet : Stands(d) =>
    /\ d.to <= disk[d.job]
    /\ \A r \in Runtimes :
         /\ Leads(r) => d.to <= mem[r][d.job]
         /\ loop[r] = "tick" => \/ d.to <= mem[r][d.job]
                             \/ NextAfter(d.job, mem[r][d.job]) < NextAfter(d.job, d.to)

(* The schedule of the file is never behind the one in memory of the leader *)
(* or of a runtime about to tick, and the leader's is never behind theirs.  *)
ScheduleOK ==
  \A j \in Jobs, r \in Runtimes :
    /\ (Leads(r) \/ loop[r] = "tick") => NextAfter(j, mem[r][j]) <= NextAfter(j, disk[j])
    /\ \A q \in Runtimes : (Leads(q) /\ loop[r] = "tick") =>
         NextAfter(j, mem[r][j]) <= NextAfter(j, mem[q][j])

CronInv ==
  /\ CronTypeOK /\ PlacesOK /\ ClockOK /\ OccurrenceOnce /\ QueuesApart
  /\ StandingKnown /\ ScheduleOK /\ Accounted
=============================================================================
