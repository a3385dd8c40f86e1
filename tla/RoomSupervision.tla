-------------------------- MODULE RoomSupervision --------------------------
(***************************************************************************)
(* The processes that may supervise the bridge of one managed room, with   *)
(* managed agent control on.  A process holds an advisory lock through a   *)
(* database session it can lose without knowing, takes a fence of a fresh  *)
(* epoch, starts a bridge from its deployment file, imports that roster    *)
(* when the room has none, and then converges on the desired revision:     *)
(* read the roster, materialise and preflight the revision, stop the       *)
(* bridge, start the candidate, fall back on the last good one.            *)
(***************************************************************************)
EXTENDS Integers, FiniteSets

CONSTANTS
  Procs,
  MaxRev,          \* bound of the revisions managers write
  MaxRetries,      \* bound of the retries managers ask for
  MaxFaults,       \* bound of crashes, lost sessions, stops and failed reads and starts
  MaxStatusFaults  \* bound of status writes that fail

(* What the constants are assumed to be, by the modules that give them values. *)
SupervisionConstants ==
  MaxRev \in Nat \ {0} /\ {MaxRetries, MaxFaults, MaxStatusFaults} \subseteq Nat

Nobody == "nobody"
NoRev == 0        \* an absent revision; as a bridge's: the deployment file
NoBridge == -1

VARIABLES
  lock,      \* the process whose session holds the advisory lock
  epoch,     \* fencing_epoch
  room,      \* bridge_server_state: desired, active and last good revision, apply_state
  same,      \* revisions whose seats are those of the deployment file
  fence,     \* the epoch each process was given
  pc, kind,  \* where a supervisor is, and which bridge it is starting
  loss,      \* the monitor of the session has reported its loss
  handle,    \* revision of the bridge a supervisor holds
  alive,     \* that bridge is running
  mem,       \* last_good, failed_revision, durable_last_good, and the revision in hand
  hint,      \* the single notification slot
  faults, statusFaults, retries,
  proven,    \* history: revisions whose bridge was ready
  spoke      \* history: epoch of the last effect of a bridge

db == <<lock, epoch, room, same>>
super == <<fence, pc, kind, loss, handle, alive, mem, hint>>
bounds == <<faults, statusFaults, retries>>
supervisionVars == <<db, super, bounds, proven, spoke>>

Revs == NoRev .. MaxRev
ApplyState == {"idle", "pending", "active", "failed"}
RoomRow == [desired : Revs, active : Revs, good : Revs, state : ApplyState]
Memory == [good : Revs, failed : Revs, durable : Revs, target : Revs]
Hints == {<<"none", 0>>} \cup {<<k, r>> : k \in {"desired", "retry"}, r \in 1 .. MaxRev}

Where == {"down", "start", "provisioned", "import", "compare", "imported", "top", "read",
          "apply", "report", "fail", "unavailable", "idle", "end"}

SupervisionTypeOK ==
  /\ lock \in Procs \cup {Nobody} /\ epoch \in Nat /\ room \in RoomRow /\ same \subseteq Revs
  /\ fence \in [Procs -> Nat] /\ pc \in [Procs -> Where]
  /\ kind \in [Procs -> {"initial", "restore", "candidate", "fallback"}]
  /\ loss \in [Procs -> BOOLEAN] /\ alive \in [Procs -> BOOLEAN]
  /\ handle \in [Procs -> Revs \cup {NoBridge}] /\ mem \in [Procs -> Memory]
  /\ hint \in [Procs -> Hints]
  /\ faults \in 0 .. MaxFaults /\ statusFaults \in 0 .. MaxStatusFaults /\ retries \in 0 .. MaxRetries
  /\ proven \subseteq Revs /\ spoke \in Nat

Blank == [good |-> NoRev, failed |-> NoRev, durable |-> NoRev, target |-> NoRev]

SupervisionInit ==
  /\ lock = Nobody /\ epoch = 0 /\ same = {} /\ proven = {} /\ spoke = 0
  /\ room = [desired |-> NoRev, active |-> NoRev, good |-> NoRev, state |-> "idle"]
  /\ fence = [p \in Procs |-> 0] /\ pc = [p \in Procs |-> "down"]
  /\ kind = [p \in Procs |-> "initial"] /\ loss = [p \in Procs |-> FALSE]
  /\ handle = [p \in Procs |-> NoBridge] /\ alive = [p \in Procs |-> FALSE]
  /\ mem = [p \in Procs |-> Blank] /\ hint = [p \in Procs |-> <<"none", 0>>]
  /\ faults = 0 /\ statusFaults = 0 /\ retries = 0

\* Option::or.
Or(a, b) == IF a # NoRev THEN a ELSE b

Fault == faults < MaxFaults /\ faults' = faults + 1
Goto(p, l) == pc' = [pc EXCEPT ![p] = l]

---------------------------------------------------------------------------
(* Leadership *)

NextEpoch == epoch + 1

\* acquire_leadership: the lock, and a fence through the same session.
AcquireLeadership(p) ==
  /\ pc[p] = "down" /\ lock = Nobody
  /\ lock' = p /\ epoch' = NextEpoch /\ fence' = [fence EXCEPT ![p] = NextEpoch]
  /\ Goto(p, "start") /\ kind' = [kind EXCEPT ![p] = "initial"]
  /\ loss' = [loss EXCEPT ![p] = FALSE] /\ handle' = [handle EXCEPT ![p] = NoBridge]
  /\ mem' = [mem EXCEPT ![p] = Blank] /\ hint' = [hint EXCEPT ![p] = <<"none", 0>>]
  /\ UNCHANGED <<room, same, alive, bounds, proven, spoke>>

\* The session ends, and the lock with it: for a dead process in any case.
SessionEnds ==
  /\ lock # Nobody
  /\ IF pc[lock] = "down" THEN UNCHANGED faults ELSE Fault
  /\ lock' = Nobody
  /\ UNCHANGED <<epoch, room, same, super, statusFaults, retries, proven, spoke>>

\* The heartbeat of the monitor fails.
ObserveLoss(p) ==
  /\ pc[p] # "down" /\ lock # p /\ ~loss[p]
  /\ loss' = [loss EXCEPT ![p] = TRUE]
  /\ UNCHANGED <<db, fence, pc, kind, handle, alive, mem, hint, bounds, proven, spoke>>

\* The supervisor meets the loss where it looks for it.
LeadershipLost(p) ==
  /\ loss[p]
  /\ pc[p] \in {"start", "provisioned", "imported", "top", "read", "apply", "idle"}
  /\ Goto(p, "end")
  /\ UNCHANGED <<db, fence, kind, loss, handle, alive, mem, hint, bounds, proven, spoke>>

\* The parent asks for a stop.
Stop(p) ==
  /\ pc[p] \in {"start", "provisioned", "idle"} /\ Fault
  /\ Goto(p, "end")
  /\ UNCHANGED <<db, fence, kind, loss, handle, alive, mem, hint, statusFaults, retries, proven, spoke>>

\* The end of run: the bridge is stopped, the session closed, and the process exits.
Release(p) ==
  /\ pc[p] = "end"
  /\ Goto(p, "down")
  /\ handle' = [handle EXCEPT ![p] = NoBridge] /\ alive' = [alive EXCEPT ![p] = FALSE]
  /\ lock' = IF lock = p THEN Nobody ELSE lock
  /\ UNCHANGED <<epoch, room, same, fence, kind, loss, mem, hint, bounds, proven, spoke>>

\* The process dies; its session outlives it for a while.
Crash(p) ==
  /\ pc[p] # "down" /\ Fault
  /\ Goto(p, "down")
  /\ handle' = [handle EXCEPT ![p] = NoBridge] /\ alive' = [alive EXCEPT ![p] = FALSE]
  /\ UNCHANGED <<db, fence, kind, loss, mem, hint, statusFaults, retries, proven, spoke>>

---------------------------------------------------------------------------
(* Fenced writes *)

\* The fence a process presents is the current one.
Fenced(p) == fence[p] = epoch

\* Variant: the status is written whatever revision is desired by now.
AcceptsAny(p, expected) == Fenced(p)

\* set_room_apply_status changes the row only for the current leader, and only
\* while the revision it reports on is still desired.
Accepts(p, expected) == Fenced(p) /\ room.desired = expected

\* persist_status: a refused or failed write is logged and forgotten.
Persist(p, expected, active, good, state) ==
  \/ /\ room' = IF Accepts(p, expected)
                  THEN [room EXCEPT !.active = active, !.good = good, !.state = state]
                  ELSE room
     /\ UNCHANGED statusFaults
  \/ /\ statusFaults < MaxStatusFaults
     /\ statusFaults' = statusFaults + 1 /\ UNCHANGED room

\* What a bridge does to the room, under the share lock on the fence.
Speak(p) ==
  /\ alive[p] /\ Fenced(p)
  /\ spoke' = fence[p]
  /\ UNCHANGED <<db, super, bounds, proven>>

---------------------------------------------------------------------------
(* Starting a bridge *)

\* The bridge provisions its agents, which needs the current fence.
Provision(p) ==
  /\ pc[p] = "start" /\ Fenced(p)
  /\ Goto(p, "provisioned")
  /\ UNCHANGED <<db, fence, kind, loss, handle, alive, mem, hint, bounds, proven, spoke>>

\* The revision a bridge of each kind is started from.
Starting(p) ==
  CASE kind[p] = "initial" -> NoRev
    [] kind[p] = "candidate" -> mem[p].target
    [] OTHER -> mem[p].good

\* wait_ready ends with Ready.  A candidate that is ready becomes the last good one.
BridgeReady(p) ==
  /\ pc[p] = "provisioned" /\ ~loss[p]
  /\ Goto(p, CASE kind[p] = "initial" -> "import" [] kind[p] = "restore" -> "read"
               [] kind[p] = "candidate" -> "report" [] OTHER -> "fail")
  /\ handle' = [handle EXCEPT ![p] = Starting(p)] /\ alive' = [alive EXCEPT ![p] = TRUE]
  /\ proven' = proven \cup {Starting(p)}
  /\ mem' = IF kind[p] = "candidate"
              THEN [mem EXCEPT ![p] = [good |-> @.target, failed |-> NoRev,
                                       durable |-> @.target, target |-> @.target]]
              ELSE mem
  /\ UNCHANGED <<db, fence, kind, loss, hint, bounds, spoke>>

\* wait_ready ends with Failed: the bridge exits, is refused, or takes too long.
BridgeFails(p) ==
  /\ pc[p] \in {"start", "provisioned"} /\ ~loss[p]
  /\ IF kind[p] = "candidate" \/ ~Fenced(p) THEN UNCHANGED faults ELSE Fault
  /\ Goto(p, CASE kind[p] = "initial" -> "end" [] kind[p] = "restore" -> "unavailable"
               [] kind[p] = "candidate" -> "start" [] OTHER -> "fail")
  /\ kind' = IF kind[p] = "candidate" THEN [kind EXCEPT ![p] = "fallback"] ELSE kind
  /\ UNCHANGED <<db, fence, loss, handle, alive, mem, hint, statusFaults, retries, proven, spoke>>

\* A running bridge exits.
BridgeExits(p) ==
  /\ alive[p] /\ Fault
  /\ alive' = [alive EXCEPT ![p] = FALSE]
  /\ UNCHANGED <<db, fence, pc, kind, loss, handle, mem, hint, statusFaults, retries, proven, spoke>>

---------------------------------------------------------------------------
(* The initial roster *)

\* import_initial_agent_roster: an existing desired revision wins.
Import(p) ==
  /\ pc[p] = "import"
  /\ \/ /\ room.desired = NoRev
        /\ room' = [desired |-> 1, active |-> 1, good |-> 1, state |-> "active"]
        /\ same' = same \cup {1} /\ proven' = proven \cup {1}
        /\ mem' = [mem EXCEPT ![p].target = 1]
        /\ Goto(p, "imported") /\ UNCHANGED faults
     \/ /\ room.desired # NoRev
        /\ mem' = [mem EXCEPT ![p].target = room.desired]
        /\ Goto(p, "compare") /\ UNCHANGED <<room, same, faults, proven>>
     \/ Fault /\ Goto(p, "end") /\ UNCHANGED <<room, same, mem, proven>>
  /\ UNCHANGED <<lock, epoch, fence, kind, loss, handle, alive, hint, statusFaults, retries, spoke>>

\* import_ready_roster: the running bridge is the desired revision when that
\* revision is still desired and has the seats of the deployment file.
Compare(p) ==
  /\ pc[p] = "compare"
  /\ LET is == room.desired = mem[p].target /\ mem[p].target \in same IN
     \/ /\ mem' = [mem EXCEPT ![p].target = IF is THEN @ ELSE NoRev]
        /\ proven' = IF is THEN proven \cup {room.desired} ELSE proven
        /\ UNCHANGED faults
     \/ Fault /\ mem' = [mem EXCEPT ![p].target = NoRev] /\ UNCHANGED proven
  /\ Goto(p, "imported")
  /\ UNCHANGED <<db, fence, kind, loss, handle, alive, hint, statusFaults, retries, spoke>>

\* activate_control, and the state the supervision starts with.
Activate(p) ==
  /\ pc[p] = "imported" /\ ~loss[p]
  /\ handle' = [handle EXCEPT ![p] = mem[p].target]
  /\ mem' = [mem EXCEPT ![p] = [Blank EXCEPT !.good = mem[p].target, !.durable = mem[p].target]]
  /\ kind' = [kind EXCEPT ![p] = "restore"]
  /\ Goto(p, "top")
  /\ UNCHANGED <<db, fence, loss, alive, hint, bounds, proven, spoke>>

---------------------------------------------------------------------------
(* Convergence *)

\* converge begins: a bridge that exited is collected and the last good one restarted.
Converge(p) ==
  /\ pc[p] = "top" /\ ~loss[p]
  /\ IF alive[p] THEN Goto(p, "read") /\ UNCHANGED <<handle, kind>>
     ELSE /\ handle' = [handle EXCEPT ![p] = NoBridge]
          /\ kind' = [kind EXCEPT ![p] = "restore"] /\ Goto(p, "start")
  /\ UNCHANGED <<db, fence, loss, alive, mem, hint, bounds, proven, spoke>>

\* Variant: the last good revision is the one of this process alone.
LastGoodOwn(p) == mem[p].good

\* The last good revision a failure is recorded with.
LastGood(p) == Or(mem[p].good, mem[p].durable)

\* The last good bridge could not be restarted; the next poll tries again.
ReportUnavailable(p) ==
  /\ pc[p] = "unavailable"
  /\ Persist(p, Or(mem[p].failed, mem[p].good), NoRev, LastGood(p), "failed")
  /\ Goto(p, "idle")
  /\ UNCHANGED <<lock, epoch, same, fence, kind, loss, handle, alive, mem, hint, faults, retries, proven, spoke>>

\* converge reads the roster and decides.  A failed revision waits for a retry.
ReadRoster(p) ==
  /\ pc[p] = "read" /\ ~loss[p]
  /\ \/ Fault /\ Goto(p, "idle") /\ UNCHANGED mem
     \/ /\ mem' = [mem EXCEPT ![p].durable = Or(room.good, @), ![p].target = room.desired]
        /\ Goto(p, IF handle[p] = room.desired
                     THEN IF room.active = room.desired /\ room.state = "active" THEN "idle" ELSE "report"
                   ELSE IF mem[p].failed = room.desired THEN "idle" ELSE "apply")
        /\ UNCHANGED faults
  /\ UNCHANGED <<db, fence, kind, loss, handle, alive, hint, statusFaults, retries, proven, spoke>>

\* The running bridge is reported active, after a swap or to heal the status.
ReportActive(p) ==
  /\ pc[p] = "report"
  /\ Persist(p, mem[p].target, mem[p].target, mem[p].target, "active")
  /\ Goto(p, "idle")
  /\ UNCHANGED <<lock, epoch, same, fence, kind, loss, handle, alive, mem, hint, faults, retries, proven, spoke>>

\* apply_revision up to the swap: the seats are read, materialised and
\* preflighted beside the running bridge, which is then stopped.
ApplyRevision(p) ==
  /\ pc[p] = "apply" /\ ~loss[p]
  /\ \/ Fault /\ Goto(p, "idle") /\ UNCHANGED <<kind, handle, alive>>
     \/ Goto(p, "fail") /\ UNCHANGED <<kind, handle, alive, faults>>
     \/ /\ kind' = [kind EXCEPT ![p] = "candidate"] /\ Goto(p, "start")
        /\ handle' = [handle EXCEPT ![p] = NoBridge] /\ alive' = [alive EXCEPT ![p] = FALSE]
        /\ UNCHANGED faults
  /\ UNCHANGED <<db, fence, loss, mem, hint, statusFaults, retries, proven, spoke>>

\* record_apply_failure: the revision is latched and the failure written.
RecordFailure(p) ==
  /\ pc[p] = "fail"
  /\ mem' = [mem EXCEPT ![p].failed = mem[p].target]
  /\ Persist(p, mem[p].target, IF handle[p] = NoBridge THEN NoRev ELSE handle[p], LastGood(p), "failed")
  /\ Goto(p, "idle")
  /\ UNCHANGED <<lock, epoch, same, fence, kind, loss, handle, alive, hint, faults, retries, proven, spoke>>

\* Variant: only a hint ends the wait.
WakesOnHint(p) == hint[p][1] # "none"

\* A poll, or the exit of the bridge, ends the wait as well as a hint.
Wakes(p) == TRUE

\* wait_for_event.  A retry hint unlatches the revision it names.
Wake(p) ==
  /\ pc[p] = "idle" /\ ~loss[p] /\ Wakes(p)
  /\ mem' = IF hint[p] = <<"retry", mem[p].failed>> THEN [mem EXCEPT ![p].failed = NoRev] ELSE mem
  /\ hint' = [hint EXCEPT ![p] = <<"none", 0>>]
  /\ Goto(p, "top")
  /\ UNCHANGED <<db, fence, kind, loss, handle, alive, bounds, proven, spoke>>

---------------------------------------------------------------------------
(* Managers *)

ControlActive(p) == pc[p] # "down" /\ kind[p] # "initial"

\* put_agent_roster through the server of a process: write_room_agent_roster
\* and the hint, which is lost when the slot's reader is another process.
PutRoster(p, is) ==
  /\ ControlActive(p) /\ room.desired < MaxRev
  /\ LET r == room.desired + 1 IN
     /\ room' = [room EXCEPT !.desired = r, !.state = "pending"]
     /\ same' = IF is THEN same \cup {r} ELSE same
     /\ hint' = [hint EXCEPT ![p] = <<"desired", r>>]
  /\ UNCHANGED <<lock, epoch, fence, pc, kind, loss, handle, alive, mem, bounds, proven, spoke>>

\* reconcile_agent_roster.
RetryRoster(p) ==
  /\ ControlActive(p) /\ room.desired # NoRev /\ retries < MaxRetries
  /\ retries' = retries + 1
  /\ hint' = [hint EXCEPT ![p] = <<"retry", room.desired>>]
  /\ UNCHANGED <<db, fence, pc, kind, loss, handle, alive, mem, faults, statusFaults, proven, spoke>>

---------------------------------------------------------------------------
Supervise(p) ==
  \/ ObserveLoss(p) \/ LeadershipLost(p) \/ Release(p)
  \/ Provision(p) \/ BridgeReady(p) \/ BridgeFails(p)
  \/ Import(p) \/ Compare(p) \/ Activate(p)
  \/ Converge(p) \/ ReportUnavailable(p) \/ ReadRoster(p) \/ ReportActive(p)
  \/ ApplyRevision(p) \/ RecordFailure(p) \/ Wake(p)

\* Everything but what bridges say, which no supervisor looks at.
SilentNext ==
  \/ SessionEnds
  \/ \E p \in Procs :
       \/ AcquireLeadership(p) \/ Supervise(p) \/ Stop(p) \/ Crash(p) \/ BridgeExits(p)
       \/ RetryRoster(p) \/ \E is \in BOOLEAN : PutRoster(p, is)

SupervisionNext == SilentNext \/ \E p \in Procs : Speak(p)

SupervisionSpec == SupervisionInit /\ [][SupervisionNext]_supervisionVars

\* Supervisors keep running, the database drops the sessions of dead processes,
\* and a process that exited is started again by its service manager.
SupervisedSpec ==
  /\ SupervisionSpec
  /\ WF_supervisionVars(SessionEnds /\ pc[lock] = "down")
  /\ \A p \in Procs : WF_supervisionVars(Supervise(p) \/ AcquireLeadership(p))

---------------------------------------------------------------------------
(* Properties *)

\* However many processes believe they lead and have a running bridge, only one
\* bridge can have an effect on the room.
OneVoice ==
  \A p, q \in Procs : (alive[p] /\ alive[q] /\ {fence[p], fence[q]} = {epoch}) => p = q

\* What the roster reports active is what managers want, and it was proven:
\* a report that meets a newer desired revision changes nothing.
ActiveIsDesired ==
  (room.state = "active") =>
    /\ room.active = room.desired /\ room.good = room.desired
    /\ room.desired \in proven

\* Effects follow the generations: once a later generation has spoken, no
\* bridge of an earlier one does.  And history proven good by any process
\* lifetime survives: no failure write of a later process erases or turns back
\* the durable last-good revision.
HistoryStep ==
  /\ spoke' >= spoke
  /\ room'.good >= room.good /\ room'.good \in proven' \cup {NoRev}

HistoryKept == [][HistoryStep]_supervisionVars

\* What the epochs and the reports of several processes promise of the room.
SupervisionSafety == SupervisionTypeOK /\ OneVoice /\ ActiveIsDesired

\* A revision managers ask for is decided, active or failed, whatever hints are
\* lost and whichever process leads.
PendingIsDecided == (room.state = "pending") ~> (room.state # "pending")

---------------------------------------------------------------------------
(* Why one bridge speaks and history is kept: the inductive invariant.     *)

\* Epochs are given out once, and only a process that has one runs a bridge.
EpochsOK ==
  /\ \A p \in Procs :
       /\ fence[p] <= epoch
       /\ (pc[p] = "down") => ~alive[p]
       /\ (pc[p] # "down") => fence[p] # 0
  /\ \A p, q \in Procs : (fence[p] = fence[q] /\ fence[p] # 0) => p = q
  /\ spoke <= epoch

\* Convergence follows the import, after which a roster is desired for ever.
StageOK(p) ==
  /\ (pc[p] \in {"import", "compare", "imported"}) => kind[p] = "initial"
  /\ (pc[p] \in {"top", "read", "apply", "report", "fail", "unavailable", "idle"}) => kind[p] # "initial"
  /\ (kind[p] # "initial" \/ pc[p] \in {"compare", "imported"}) => room.desired # NoRev

\* What a process remembers was desired, and what it calls good was proven.
MemoryOK(p) ==
  /\ mem[p].good <= room.desired /\ mem[p].durable <= room.desired
  /\ mem[p].failed <= room.desired /\ mem[p].target <= room.desired
  /\ {mem[p].good, mem[p].durable} \subseteq proven \cup {NoRev}
  /\ (kind[p] = "initial") => mem[p].good = NoRev
  /\ (handle[p] # NoBridge) => handle[p] = mem[p].good
  /\ (pc[p] = "imported") => mem[p].target \in proven \cup {NoRev}
  /\ (pc[p] = "report") => mem[p].target \in proven /\ mem[p].target = mem[p].good

RoomOK ==
  /\ room.good \in proven \cup {NoRev}
  /\ room.good <= room.desired
  /\ ActiveIsDesired

\* A process that applies a revision, or has failed to, has read the roster.
IsApplying(p) == pc[p] = "apply" \/ (pc[p] \in {"start", "provisioned"} /\ kind[p] = "candidate")
HasRead(p) ==
  \/ pc[p] \in {"apply", "fail"} \/ mem[p].failed # NoRev
  \/ pc[p] \in {"start", "provisioned"} /\ kind[p] \in {"candidate", "fallback"}

\* What the leader may yet report as good is no older than what the room has:
\* nobody else moves the room's last good revision while its epoch is the current.
LeaderOK(p) ==
  Fenced(p) =>
    /\ (pc[p] = "imported" /\ mem[p].target # NoRev) => mem[p].target >= room.good
    /\ IsApplying(p) => mem[p].target >= room.good
    /\ (kind[p] # "initial" /\ mem[p].good # NoRev) => mem[p].good >= room.good
    /\ (kind[p] # "initial" /\ mem[p].good = NoRev /\ HasRead(p)) => mem[p].durable >= room.good

SupervisionInv ==
  /\ SupervisionTypeOK
  /\ EpochsOK
  /\ RoomOK
  /\ \A p \in Procs : StageOK(p) /\ MemoryOK(p) /\ LeaderOK(p)
=============================================================================
