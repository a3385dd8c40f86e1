---------------------------- MODULE Rooms_proofs ----------------------------
(***************************************************************************)
(* Proofs about the rooms: one bridge speaks for a room, its roster keeps  *)
(* its history, a proposal has one fate, and a conversation keeps to its   *)
(* bounds.                                                                 *)
(***************************************************************************)
EXTENDS RoomSupervision, ProposalExecution, RoomCascade, FiniteSetTheorems,
        SequenceTheorems, TLAPS

-----------------------------------------------------------------------------
(* Supervision: types.                                                     *)

\* A fault is counted.
LEMMA FaultType ==
  ASSUME SupervisionConstants, SupervisionTypeOK, Fault \/ UNCHANGED faults
  PROVE  faults' \in 0 .. MaxFaults
BY DEF SupervisionConstants, SupervisionTypeOK, Fault

\* A status write leaves a row of the table.
LEMMA PersistType ==
  ASSUME SupervisionConstants, SupervisionTypeOK, NEW p \in Procs, NEW expected, NEW act \in Revs,
         NEW good \in Revs, NEW st \in ApplyState, Persist(p, expected, act, good, st)
  PROVE  room' \in RoomRow /\ statusFaults' \in 0 .. MaxStatusFaults
<1>1. room \in RoomRow /\ statusFaults \in 0 .. MaxStatusFaults /\ MaxStatusFaults \in Nat
  BY DEF SupervisionTypeOK, SupervisionConstants
<1>2. [room EXCEPT !.active = act, !.good = good, !.state = st] \in RoomRow
  BY <1>1 DEF RoomRow
<1>3. room' \in RoomRow
  BY <1>1, <1>2 DEF Persist
<1> QED
  BY <1>1, <1>3 DEF Persist

LEMMA RevsFacts ==
  ASSUME SupervisionConstants
  PROVE  NoRev \in Revs /\ 1 \in Revs /\ Revs \subseteq Nat /\ NoBridge \notin Revs /\ Blank \in Memory
BY DEF SupervisionConstants, Revs, NoRev, NoBridge, Blank, Memory

\* One process changes its mind.
Remembers(p, g, f, d, t) ==
  /\ mem' \in [Procs -> Memory]
  /\ mem'[p].good = g /\ mem'[p].failed = f /\ mem'[p].durable = d /\ mem'[p].target = t
  /\ \A q \in Procs \ {p} : mem'[q] = mem[q]

LEMMA MemoryFields ==
  ASSUME SupervisionTypeOK, NEW p \in Procs
  PROVE  /\ mem \in [Procs -> Memory]
         /\ mem[p].good \in Revs /\ mem[p].failed \in Revs /\ mem[p].durable \in Revs
         /\ mem[p].target \in Revs /\ LastGood(p) \in Revs
         /\ room \in RoomRow /\ room.desired \in Revs /\ room.good \in Revs /\ room.active \in Revs
BY DEF SupervisionTypeOK, Memory, LastGood, Or, RoomRow

LEMMA MemoryChange ==
  ASSUME SupervisionTypeOK, NEW p \in Procs, NEW m \in Memory, mem' = [mem EXCEPT ![p] = m]
  PROVE  Remembers(p, m.good, m.failed, m.durable, m.target)
BY DEF SupervisionTypeOK, Remembers

LEMMA MemorySame ==
  ASSUME SupervisionTypeOK, NEW p \in Procs, UNCHANGED mem
  PROVE  Remembers(p, mem[p].good, mem[p].failed, mem[p].durable, mem[p].target)
BY DEF SupervisionTypeOK, Remembers

\* Only the revision in hand is replaced.
LEMMA NewTarget ==
  ASSUME SupervisionTypeOK, NEW p \in Procs, NEW t \in Revs, mem' = [mem EXCEPT ![p].target = t]
  PROVE  Remembers(p, mem[p].good, mem[p].failed, mem[p].durable, t)
<1> DEFINE m == [mem[p] EXCEPT !.target = t]
<1>1. mem[p] \in Memory /\ mem' = [mem EXCEPT ![p] = m]
  BY DEF SupervisionTypeOK
<1>2. /\ m \in Memory /\ m.target = t
      /\ m.good = mem[p].good /\ m.failed = mem[p].failed /\ m.durable = mem[p].durable
  BY <1>1 DEF Memory
<1> HIDE DEF m
<1>3. Remembers(p, m.good, m.failed, m.durable, m.target)
  BY <1>1, <1>2, MemoryChange
<1> QED
  BY <1>2, <1>3

\* Only the failed revision is replaced.
LEMMA NewFailed ==
  ASSUME SupervisionTypeOK, NEW p \in Procs, NEW f \in Revs, mem' = [mem EXCEPT ![p].failed = f]
  PROVE  Remembers(p, mem[p].good, f, mem[p].durable, mem[p].target)
<1> DEFINE m == [mem[p] EXCEPT !.failed = f]
<1>1. mem[p] \in Memory /\ mem' = [mem EXCEPT ![p] = m]
  BY DEF SupervisionTypeOK
<1>2. /\ m \in Memory /\ m.failed = f
      /\ m.good = mem[p].good /\ m.durable = mem[p].durable /\ m.target = mem[p].target
  BY <1>1 DEF Memory
<1> HIDE DEF m
<1>3. Remembers(p, m.good, m.failed, m.durable, m.target)
  BY <1>1, <1>2, MemoryChange
<1> QED
  BY <1>2, <1>3

\* What each step does to the memory of the process that takes it.
LEMMA ImportMemory ==
  ASSUME SupervisionConstants, SupervisionTypeOK, NEW p \in Procs, Import(p)
  PROVE  \E t \in Revs : /\ Remembers(p, mem[p].good, mem[p].failed, mem[p].durable, t)
                         /\ t \in {1, room.desired, mem[p].target}
                         /\ pc'[p] = "compare" => t = room.desired
                         /\ pc'[p] = "imported" => t = 1
<1>1. 1 \in Revs
  BY RevsFacts
<1> QED
  BY <1>1, NewTarget, MemorySame, MemoryFields DEF Import, Goto, SupervisionTypeOK

LEMMA CompareMemory ==
  ASSUME SupervisionConstants, SupervisionTypeOK, NEW p \in Procs, Compare(p)
  PROVE  \E t \in Revs : /\ Remembers(p, mem[p].good, mem[p].failed, mem[p].durable, t)
                         /\ t # NoRev => t = mem[p].target /\ t = room.desired /\ t \in proven'
<1>1. NoRev \in Revs
  BY RevsFacts
<1>2. PICK t \in Revs : /\ mem' = [mem EXCEPT ![p].target = t]
                        /\ t # NoRev => t = mem[p].target /\ t = room.desired /\ t \in proven'
  BY <1>1, MemoryFields DEF Compare
<1> QED
  BY <1>2, NewTarget

LEMMA ActivateMemory ==
  ASSUME SupervisionConstants, SupervisionTypeOK, NEW p \in Procs, Activate(p)
  PROVE  Remembers(p, mem[p].target, NoRev, mem[p].target, NoRev)
<1> DEFINE m == [Blank EXCEPT !.good = mem[p].target, !.durable = mem[p].target]
<1>1. mem' = [mem EXCEPT ![p] = m]
  BY DEF Activate
<1>2. /\ m \in Memory
      /\ m.good = mem[p].target /\ m.failed = NoRev /\ m.durable = mem[p].target /\ m.target = NoRev
  BY MemoryFields, RevsFacts DEF Memory, Blank
<1> HIDE DEF m
<1>3. Remembers(p, m.good, m.failed, m.durable, m.target)
  BY <1>1, <1>2, MemoryChange
<1> QED
  BY <1>2, <1>3

LEMMA ReadyMemory ==
  ASSUME SupervisionConstants, SupervisionTypeOK, NEW p \in Procs, BridgeReady(p)
  PROVE  IF kind[p] = "candidate" THEN Remembers(p, mem[p].target, NoRev, mem[p].target, mem[p].target)
         ELSE Remembers(p, mem[p].good, mem[p].failed, mem[p].durable, mem[p].target)
<1>1. CASE kind[p] = "candidate"
  <2> DEFINE m == [good |-> mem[p].target, failed |-> NoRev,
                   durable |-> mem[p].target, target |-> mem[p].target]
  <2>1. mem' = [mem EXCEPT ![p] = m]
    BY <1>1 DEF BridgeReady
  <2>2. /\ m \in Memory /\ m.good = mem[p].target /\ m.failed = NoRev
        /\ m.durable = mem[p].target /\ m.target = mem[p].target
    BY MemoryFields, RevsFacts DEF Memory
  <2> HIDE DEF m
  <2>3. Remembers(p, m.good, m.failed, m.durable, m.target)
    BY <2>1, <2>2, MemoryChange
  <2> QED
    BY <1>1, <2>2, <2>3
<1>2. CASE kind[p] # "candidate"
  BY <1>2, MemorySame DEF BridgeReady
<1> QED
  BY <1>1, <1>2

LEMMA ReadMemory ==
  ASSUME SupervisionTypeOK, NEW p \in Procs, ReadRoster(p)
  PROVE  \/ pc'[p] = "idle" /\ Remembers(p, mem[p].good, mem[p].failed, mem[p].durable, mem[p].target)
         \/ Remembers(p, mem[p].good, mem[p].failed, Or(room.good, mem[p].durable), room.desired)
<1>1. CASE mem' = mem /\ pc' = [pc EXCEPT ![p] = "idle"]
  BY <1>1, MemorySame DEF SupervisionTypeOK
<1>2. CASE mem' = [mem EXCEPT ![p].durable = Or(room.good, @), ![p].target = room.desired]
  <2> DEFINE d == Or(room.good, mem[p].durable)
             m == [mem[p] EXCEPT !.durable = d, !.target = room.desired]
  <2>1. mem[p] \in Memory /\ mem' = [mem EXCEPT ![p] = m]
    BY <1>2 DEF SupervisionTypeOK
  <2>2. d \in Revs /\ room.desired \in Revs
    BY MemoryFields DEF Or
  <2> HIDE DEF d
  <2>3. /\ m \in Memory /\ m.good = mem[p].good /\ m.failed = mem[p].failed
        /\ m.durable = d /\ m.target = room.desired
    BY <2>1, <2>2 DEF Memory
  <2> HIDE DEF m
  <2>4. Remembers(p, m.good, m.failed, m.durable, m.target)
    BY <2>1, <2>3, MemoryChange
  <2> QED
    BY <2>3, <2>4 DEF d
<1> QED
  BY <1>1, <1>2 DEF ReadRoster, Goto

LEMMA FailureMemory ==
  ASSUME SupervisionTypeOK, NEW p \in Procs, RecordFailure(p)
  PROVE  Remembers(p, mem[p].good, mem[p].target, mem[p].durable, mem[p].target)
<1>1. mem' = [mem EXCEPT ![p].failed = mem[p].target]
  BY DEF RecordFailure
<1> QED
  BY <1>1, NewFailed, MemoryFields

LEMMA WakeMemory ==
  ASSUME SupervisionConstants, SupervisionTypeOK, NEW p \in Procs, Wake(p)
  PROVE  \E f \in {NoRev, mem[p].failed} :
            Remembers(p, mem[p].good, f, mem[p].durable, mem[p].target)
<1>1. CASE mem' = [mem EXCEPT ![p].failed = NoRev]
  BY <1>1, NewFailed, RevsFacts
<1>2. CASE mem' = mem
  BY <1>2, MemorySame
<1> QED
  BY <1>1, <1>2 DEF Wake

LEMMA SupervisionTypeStep ==
  ASSUME SupervisionConstants, SupervisionTypeOK, [SupervisionNext]_supervisionVars
  PROVE  SupervisionTypeOK'
<1> USE RevsFacts DEF SupervisionTypeOK
<1>1. ASSUME NEW p \in Procs, AcquireLeadership(p)
      PROVE  SupervisionTypeOK'
  BY <1>1 DEF AcquireLeadership, NextEpoch, Goto, Where, Hints, bounds
<1>2. CASE SessionEnds
  BY <1>2, FaultType DEF SessionEnds, super
<1>3. ASSUME NEW p \in Procs, ObserveLoss(p) \/ LeadershipLost(p) \/ Stop(p) \/ Release(p) \/ Crash(p)
      PROVE  SupervisionTypeOK'
  BY <1>3, FaultType
  DEF ObserveLoss, LeadershipLost, Stop, Release, Crash, Goto, Where, db, bounds
<1>4. ASSUME NEW p \in Procs, Provision(p) \/ BridgeExits(p) \/ Speak(p)
      PROVE  SupervisionTypeOK'
  BY <1>4, FaultType
  DEF Provision, BridgeExits, Speak, Fenced, Goto, Where, db, super, bounds
<1>5. ASSUME NEW p \in Procs, BridgeReady(p)
      PROVE  SupervisionTypeOK'
  BY <1>5 DEF BridgeReady, Starting, Memory, Goto, Where, db, bounds
<1>6. ASSUME NEW p \in Procs, BridgeFails(p)
      PROVE  SupervisionTypeOK'
  BY <1>6, FaultType DEF BridgeFails, Goto, Where, db
<1>7. ASSUME NEW p \in Procs, Import(p)
      PROVE  SupervisionTypeOK'
  <2>1. mem' \in [Procs -> Memory]
    BY <1>7, ImportMemory DEF Remembers
  <2>2. room' \in RoomRow
    BY <1>7 DEF Import, RoomRow, ApplyState
  <2> QED
    BY <1>7, <2>1, <2>2, FaultType DEF Import, Goto, Where
<1>8. ASSUME NEW p \in Procs, Compare(p)
      PROVE  SupervisionTypeOK'
  <2>1. mem' \in [Procs -> Memory]
    BY <1>8, CompareMemory DEF Remembers
  <2> QED
    BY <1>8, <2>1, MemoryFields, FaultType DEF Compare, Goto, Where, db
<1>9. ASSUME NEW p \in Procs, Activate(p) \/ Converge(p)
      PROVE  SupervisionTypeOK'
  <2>1. Activate(p) => mem' \in [Procs -> Memory]
    BY ActivateMemory DEF Remembers
  <2> QED
    BY <1>9, <2>1, MemoryFields DEF Activate, Converge, Goto, Where, db, bounds
<1>10. ASSUME NEW p \in Procs, ReportUnavailable(p) \/ ReportActive(p) \/ RecordFailure(p)
      PROVE  SupervisionTypeOK'
  <2>1. LastGood(p) \in Revs /\ mem[p].target \in Revs
    BY MemoryFields
  <2>2. room' \in RoomRow /\ statusFaults' \in 0 .. MaxStatusFaults
    BY <1>10, <2>1, PersistType DEF ReportUnavailable, ReportActive, RecordFailure, ApplyState
  <2>3. mem' \in [Procs -> Memory]
    BY <1>10, FailureMemory DEF Remembers, ReportUnavailable, ReportActive
  <2> QED
    BY <1>10, <2>2, <2>3 DEF ReportUnavailable, ReportActive, RecordFailure, Goto, Where
<1>11. ASSUME NEW p \in Procs, ReadRoster(p)
      PROVE  SupervisionTypeOK'
  <2>1. mem' \in [Procs -> Memory]
    BY <1>11, ReadMemory DEF Remembers
  <2> QED
    BY <1>11, <2>1, FaultType DEF ReadRoster, Goto, Where, db
<1>12. ASSUME NEW p \in Procs, ApplyRevision(p)
      PROVE  SupervisionTypeOK'
  BY <1>12, FaultType DEF ApplyRevision, Goto, Where, db
<1>13. ASSUME NEW p \in Procs, Wake(p)
      PROVE  SupervisionTypeOK'
  BY <1>13 DEF Wake, Goto, Where, Memory, Hints, db, bounds
<1>14. ASSUME NEW p \in Procs, NEW is \in BOOLEAN, PutRoster(p, is)
      PROVE  SupervisionTypeOK'
  <2>1. room.desired + 1 \in 1 .. MaxRev /\ room.desired + 1 \in Revs
    BY <1>14, MemoryFields DEF PutRoster, Revs, NoRev, SupervisionConstants
  <2>2. room' \in RoomRow
    BY <1>14, <2>1 DEF PutRoster, RoomRow, ApplyState
  <2>3. hint' \in [Procs -> Hints]
    BY <1>14, <2>1 DEF PutRoster, Hints
  <2>4. same' \subseteq Revs
    BY <1>14, <2>1 DEF PutRoster
  <2> QED
    BY <1>14, <2>2, <2>3, <2>4 DEF PutRoster, bounds
<1>15. ASSUME NEW p \in Procs, RetryRoster(p)
      PROVE  SupervisionTypeOK'
  BY <1>15 DEF RetryRoster, RoomRow, Revs, NoRev, Hints, db, SupervisionConstants
<1>16. CASE UNCHANGED supervisionVars
  BY <1>16 DEF supervisionVars, db, super, bounds
<1> QED
  BY <1>1, <1>2, <1>3, <1>4, <1>5, <1>6, <1>7, <1>8, <1>9, <1>10, <1>11, <1>12, <1>13, <1>14,
     <1>15, <1>16 DEF SupervisionNext, SilentNext, Supervise

-----------------------------------------------------------------------------
(* Supervision: epochs, and what a step leaves alone.                      *)

\* Every step but the end of a session is one process's.
ProcStep(p) ==
  \/ AcquireLeadership(p) \/ Supervise(p) \/ Stop(p) \/ Crash(p) \/ BridgeExits(p)
  \/ RetryRoster(p) \/ (\E is \in BOOLEAN : PutRoster(p, is)) \/ Speak(p)

\* A status write is the leader's, for the desired revision, or changes nothing.
LEMMA PersistFacts ==
  ASSUME SupervisionTypeOK, NEW p \in Procs, NEW expected, NEW act, NEW good, NEW st,
         Persist(p, expected, act, good, st)
  PROVE  /\ room'.desired = room.desired
         /\ \/ room' = room
            \/ /\ Fenced(p) /\ room.desired = expected
               /\ room'.active = act /\ room'.good = good /\ room'.state = st
BY MemoryFields DEF Persist, Accepts, RoomRow

\* No epoch is given out twice.
LEMMA EpochStep ==
  ASSUME SupervisionConstants, SupervisionInv, [SupervisionNext]_supervisionVars
  PROVE  EpochsOK'
<1> USE DEF EpochsOK, SupervisionInv, SupervisionTypeOK
<1>1. ASSUME NEW p \in Procs, AcquireLeadership(p)
      PROVE  EpochsOK'
  BY <1>1 DEF AcquireLeadership, NextEpoch, Goto
<1>2. ASSUME NEW p \in Procs, Release(p) \/ Crash(p)
      PROVE  EpochsOK'
  BY <1>2 DEF Release, Crash, Goto, db
<1>3. ASSUME NEW p \in Procs, BridgeReady(p)
      PROVE  EpochsOK'
  BY <1>3 DEF BridgeReady, Goto, db
<1>4. ASSUME NEW p \in Procs, BridgeExits(p)
      PROVE  EpochsOK'
  BY <1>4 DEF BridgeExits, db
<1>5. ASSUME NEW p \in Procs, Speak(p)
      PROVE  EpochsOK'
  BY <1>5 DEF Speak, Fenced, db, super
<1>6. ASSUME NEW p \in Procs, ApplyRevision(p)
      PROVE  EpochsOK'
  BY <1>6 DEF ApplyRevision, Goto, db
<1>7. ASSUME NEW p \in Procs,
             \/ LeadershipLost(p) \/ Stop(p) \/ Provision(p) \/ BridgeFails(p) \/ Import(p)
             \/ Compare(p) \/ Activate(p) \/ Converge(p) \/ ReportUnavailable(p) \/ ReadRoster(p)
             \/ ReportActive(p) \/ RecordFailure(p) \/ Wake(p)
      PROVE  EpochsOK'
  <2>1. UNCHANGED <<epoch, fence, alive, spoke>>
    BY <1>7 DEF LeadershipLost, Stop, Provision, BridgeFails, Import, Compare, Activate, Converge,
                ReportUnavailable, ReadRoster, ReportActive, RecordFailure, Wake, db
  <2>2. pc[p] # "down" /\ \E l \in Where \ {"down"} : pc' = [pc EXCEPT ![p] = l]
    BY <1>7 DEF LeadershipLost, Stop, Provision, BridgeFails, Import, Compare, Activate, Converge,
                ReportUnavailable, ReadRoster, ReportActive, RecordFailure, Wake, Goto, Where
  <2> QED
    BY <2>1, <2>2
<1>8. CASE UNCHANGED <<epoch, fence, alive, spoke, pc>>
  BY <1>8
<1> QED
  BY <1>1, <1>2, <1>3, <1>4, <1>5, <1>6, <1>7, <1>8
  DEF SupervisionNext, SilentNext, Supervise, SessionEnds, ObserveLoss, RetryRoster, PutRoster,
      supervisionVars, db, super, bounds

\* What other processes see of a step: the desired revision and the proven ones
\* only grow, and the last good one is the leader's, or the first import's.
LEMMA StepFrame ==
  ASSUME SupervisionConstants, SupervisionInv, NEW p \in Procs, ProcStep(p)
  PROVE  /\ proven \subseteq proven' /\ room'.desired >= room.desired
         /\ \A q \in Procs \ {p} :
              /\ fence'[q] = fence[q] /\ pc'[q] = pc[q] /\ kind'[q] = kind[q]
              /\ handle'[q] = handle[q] /\ mem'[q] = mem[q]
              /\ Fenced(q)' => Fenced(q) /\ (room'.good = room.good \/ room.desired = NoRev)
<1> USE MemoryFields, RevsFacts
<1>0. SupervisionTypeOK /\ EpochsOK
  BY DEF SupervisionInv
<1>1. CASE AcquireLeadership(p)
  BY <1>0, <1>1 DEF AcquireLeadership, NextEpoch, Goto, Fenced, EpochsOK, SupervisionTypeOK
<1>2. CASE Import(p)
  <2>1. \A q \in Procs \ {p} : mem'[q] = mem[q]
    BY <1>0, <1>2, ImportMemory DEF Remembers
  <2> QED
    BY <1>0, <1>2, <2>1 DEF Import, Goto, Fenced, SupervisionTypeOK, NoRev
<1>3. CASE ReportUnavailable(p) \/ ReportActive(p) \/ RecordFailure(p)
  <2>1. \A q \in Procs \ {p} : mem'[q] = mem[q]
    BY <1>0, <1>3, FailureMemory DEF Remembers, ReportUnavailable, ReportActive
  <2>2. room'.desired = room.desired /\ (room' = room \/ Fenced(p))
    BY <1>0, <1>3, PersistFacts DEF ReportUnavailable, ReportActive, RecordFailure
  <2>3. fence[p] # 0 /\ UNCHANGED <<epoch, fence, kind, handle, proven>> /\ pc' = [pc EXCEPT ![p] = "idle"]
    BY <1>0, <1>3 DEF ReportUnavailable, ReportActive, RecordFailure, Goto, EpochsOK
  <2>4. \A q \in Procs \ {p} : Fenced(q) => ~Fenced(p)
    BY <1>0, <2>3 DEF EpochsOK, Fenced
  <2> QED
    BY <1>0, <2>1, <2>2, <2>3, <2>4 DEF Fenced, SupervisionTypeOK
<1>4. ASSUME NEW is \in BOOLEAN, PutRoster(p, is)
      PROVE  /\ room'.desired = room.desired + 1 /\ room'.good = room.good
             /\ UNCHANGED <<epoch, fence, pc, kind, handle, mem, proven>>
  BY <1>0, <1>4 DEF PutRoster, RoomRow
<1>5. CASE \E is \in BOOLEAN : PutRoster(p, is)
  <2>1. /\ room'.desired = room.desired + 1 /\ room'.good = room.good
        /\ UNCHANGED <<epoch, fence, pc, kind, handle, mem, proven>>
    BY <1>4, <1>5
  <2> QED
    BY <1>0, <2>1 DEF Fenced
<1>6. ASSUME UNCHANGED <<room, epoch, fence>>, proven \subseteq proven',
             \A q \in Procs \ {p} : /\ pc'[q] = pc[q] /\ kind'[q] = kind[q]
                                     /\ handle'[q] = handle[q] /\ mem'[q] = mem[q]
      PROVE  /\ proven \subseteq proven' /\ room'.desired >= room.desired
             /\ \A q \in Procs \ {p} :
                  /\ fence'[q] = fence[q] /\ pc'[q] = pc[q] /\ kind'[q] = kind[q]
                  /\ handle'[q] = handle[q] /\ mem'[q] = mem[q]
                  /\ Fenced(q)' => Fenced(q) /\ (room'.good = room.good \/ room.desired = NoRev)
  BY <1>0, <1>6 DEF Fenced
<1>7. CASE BridgeReady(p) \/ Compare(p) \/ Activate(p) \/ ReadRoster(p) \/ Wake(p)
  <2>1. \A q \in Procs \ {p} : mem'[q] = mem[q]
    BY <1>0, <1>7, ReadyMemory, CompareMemory, ActivateMemory, ReadMemory, WakeMemory DEF Remembers
  <2> QED
    BY <1>0, <1>6, <1>7, <2>1
    DEF BridgeReady, Compare, Activate, ReadRoster, Wake, Goto, SupervisionTypeOK, db
<1>8. CASE \/ ObserveLoss(p) \/ LeadershipLost(p) \/ Release(p) \/ Provision(p) \/ BridgeFails(p)
           \/ Converge(p) \/ ApplyRevision(p) \/ Stop(p) \/ Crash(p) \/ BridgeExits(p)
           \/ RetryRoster(p) \/ Speak(p)
  BY <1>0, <1>6, <1>8
  DEF ObserveLoss, LeadershipLost, Release, Provision, BridgeFails, Converge, ApplyRevision, Stop,
      Crash, BridgeExits, RetryRoster, Speak, Goto, SupervisionTypeOK, db, super
<1> QED
  BY <1>1, <1>2, <1>3, <1>5, <1>7, <1>8 DEF ProcStep, Supervise

\* A process that does nothing keeps what it knows.
LEMMA Bystanders ==
  ASSUME SupervisionConstants, SupervisionInv, SupervisionTypeOK', NEW q \in Procs,
         proven \subseteq proven', room'.desired >= room.desired,
         fence'[q] = fence[q], pc'[q] = pc[q], kind'[q] = kind[q],
         handle'[q] = handle[q], mem'[q] = mem[q],
         Fenced(q)' => Fenced(q) /\ (room'.good = room.good \/ room.desired = NoRev)
  PROVE  StageOK(q)' /\ MemoryOK(q)' /\ LeaderOK(q)'
<1>1. SupervisionTypeOK /\ StageOK(q) /\ MemoryOK(q) /\ LeaderOK(q)
  BY DEF SupervisionInv
<1>2. /\ mem[q].good \in Nat /\ mem[q].failed \in Nat /\ mem[q].durable \in Nat /\ mem[q].target \in Nat
      /\ room.desired \in Nat /\ room'.desired \in Nat /\ NoRev = 0
  BY <1>1, MemoryFields, RevsFacts DEF SupervisionTypeOK, RoomRow, NoRev
<1>3. StageOK(q)'
  BY <1>1, <1>2 DEF StageOK
<1>4. MemoryOK(q)'
  BY <1>1, <1>2 DEF MemoryOK
<1>5. LeaderOK(q)'
  BY <1>1, <1>2 DEF LeaderOK, StageOK, IsApplying, HasRead
<1> QED
  BY <1>3, <1>4, <1>5

-----------------------------------------------------------------------------
(* Supervision: the process that takes a step.                             *)

\* What a process may know of itself.
ActorOK(p) == StageOK(p) /\ MemoryOK(p) /\ LeaderOK(p)

LEMMA ActorFacts ==
  ASSUME SupervisionConstants, SupervisionInv, NEW p \in Procs
  PROVE  /\ SupervisionTypeOK /\ EpochsOK /\ RoomOK /\ StageOK(p) /\ MemoryOK(p) /\ LeaderOK(p)
         /\ mem[p].good \in Nat /\ mem[p].failed \in Nat /\ mem[p].durable \in Nat
         /\ mem[p].target \in Nat /\ room.desired \in Nat /\ room.good \in Nat /\ NoRev = 0
BY MemoryFields, RevsFacts DEF SupervisionInv, NoRev

LEMMA AcquireActor ==
  ASSUME SupervisionConstants, SupervisionInv, NEW p \in Procs, AcquireLeadership(p)
  PROVE  ActorOK(p)'
<1>1. mem'[p] = Blank /\ pc'[p] = "start" /\ kind'[p] = "initial" /\ handle'[p] = NoBridge
      /\ UNCHANGED <<room, proven>>
  BY ActorFacts DEF AcquireLeadership, Goto, SupervisionTypeOK
<1>2. mem'[p].good = 0 /\ mem'[p].failed = 0 /\ mem'[p].durable = 0 /\ mem'[p].target = 0
  BY <1>1 DEF Blank, NoRev
<1> QED
  BY <1>1, <1>2, ActorFacts
  DEF ActorOK, StageOK, MemoryOK, LeaderOK, IsApplying, HasRead, NoRev

\* Steps that change neither the room nor what the process remembers.
LEMMA QuietActor ==
  ASSUME SupervisionConstants, SupervisionInv, NEW p \in Procs,
         \/ ObserveLoss(p) \/ LeadershipLost(p) \/ Release(p) \/ Provision(p) \/ BridgeFails(p)
         \/ Converge(p) \/ ApplyRevision(p) \/ Stop(p) \/ Crash(p) \/ BridgeExits(p)
         \/ RetryRoster(p) \/ Speak(p)
  PROVE  ActorOK(p)'
<1> USE ActorFacts DEF ActorOK, StageOK, MemoryOK, LeaderOK, IsApplying, HasRead, SupervisionTypeOK, Fenced
<1>1. CASE ObserveLoss(p) \/ BridgeExits(p) \/ RetryRoster(p) \/ Speak(p)
  BY <1>1 DEF ObserveLoss, BridgeExits, RetryRoster, Speak, db, super
<1>2. CASE LeadershipLost(p) \/ Stop(p) \/ Release(p) \/ Crash(p)
  BY <1>2 DEF LeadershipLost, Stop, Release, Crash, Goto, db
<1>3. CASE Provision(p)
  BY <1>3 DEF Provision, Goto, db
<1>4. CASE BridgeFails(p)
  BY <1>4 DEF BridgeFails, Goto, db
<1>5. CASE Converge(p)
  BY <1>5 DEF Converge, Goto, db
<1>6. CASE ApplyRevision(p)
  BY <1>6 DEF ApplyRevision, Goto, db
<1> QED
  BY <1>1, <1>2, <1>3, <1>4, <1>5, <1>6

LEMMA ReadyActor ==
  ASSUME SupervisionConstants, SupervisionInv, NEW p \in Procs, BridgeReady(p)
  PROVE  ActorOK(p)'
<1>1. /\ pc[p] = "provisioned" /\ UNCHANGED <<room, epoch, fence, kind>>
      /\ handle'[p] = Starting(p) /\ proven' = proven \cup {Starting(p)}
      /\ kind[p] \in {"initial", "restore", "candidate", "fallback"}
      /\ pc'[p] = CASE kind[p] = "initial" -> "import" [] kind[p] = "restore" -> "read"
                    [] kind[p] = "candidate" -> "report" [] OTHER -> "fail"
  BY ActorFacts DEF BridgeReady, Goto, SupervisionTypeOK, db
<1>2. CASE kind[p] = "candidate"
  <2>1. Remembers(p, mem[p].target, NoRev, mem[p].target, mem[p].target)
    BY <1>2, ReadyMemory, ActorFacts
  <2>2. Starting(p) = mem[p].target /\ pc'[p] = "report"
    BY <1>1, <1>2 DEF Starting
  <2> QED
    BY <1>1, <1>2, <2>1, <2>2, ActorFacts
    DEF Remembers, ActorOK, StageOK, MemoryOK, LeaderOK, IsApplying, HasRead, Fenced
<1>3. CASE kind[p] # "candidate"
  <2>1. Remembers(p, mem[p].good, mem[p].failed, mem[p].durable, mem[p].target)
    BY <1>3, ReadyMemory, ActorFacts
  <2>2. Starting(p) \in {mem[p].good, NoRev} /\ (kind[p] # "initial" => Starting(p) = mem[p].good)
    BY <1>1, <1>3 DEF Starting
  <2> QED
    BY <1>1, <1>3, <2>1, <2>2, ActorFacts
    DEF Remembers, ActorOK, StageOK, MemoryOK, LeaderOK, IsApplying, HasRead, Fenced
<1> QED
  BY <1>2, <1>3

LEMMA ImportActor ==
  ASSUME SupervisionConstants, SupervisionInv, NEW p \in Procs, Import(p)
  PROVE  ActorOK(p)'
<1>1. /\ pc[p] = "import" /\ UNCHANGED <<epoch, fence, kind, handle>> /\ kind[p] = "initial"
      /\ pc'[p] \in {"imported", "compare", "end"} /\ proven \subseteq proven'
      /\ pc'[p] = "imported" => room'.desired = 1 /\ room'.good = 1 /\ 1 \in proven' /\ room.desired = NoRev
      /\ pc'[p] # "imported" => room' = room
      /\ pc'[p] = "compare" => room.desired # NoRev
  BY ActorFacts DEF Import, Goto, StageOK, SupervisionTypeOK
<1>2. PICK t \in Revs : /\ Remembers(p, mem[p].good, mem[p].failed, mem[p].durable, t)
                        /\ t \in {1, room.desired, mem[p].target}
                        /\ pc'[p] = "compare" => t = room.desired
                        /\ pc'[p] = "imported" => t = 1
  BY ImportMemory, ActorFacts
<1>3. pc'[p] = "end" => t = mem[p].target
  BY <1>2, ActorFacts DEF Import, Goto, Remembers, SupervisionTypeOK
<1>4. CASE pc'[p] = "imported"
  BY <1>1, <1>2, <1>4, ActorFacts
  DEF Remembers, ActorOK, StageOK, MemoryOK, LeaderOK, IsApplying, HasRead, Fenced
<1>5. CASE pc'[p] # "imported"
  BY <1>1, <1>2, <1>3, <1>5, ActorFacts
  DEF Remembers, ActorOK, StageOK, MemoryOK, LeaderOK, IsApplying, HasRead, Fenced
<1> QED
  BY <1>4, <1>5

LEMMA CompareActor ==
  ASSUME SupervisionConstants, SupervisionInv, NEW p \in Procs, Compare(p)
  PROVE  ActorOK(p)'
<1>1. /\ pc[p] = "compare" /\ UNCHANGED <<room, epoch, fence, kind, handle>> /\ kind[p] = "initial"
      /\ pc'[p] = "imported" /\ proven \subseteq proven'
  BY ActorFacts DEF Compare, Goto, StageOK, SupervisionTypeOK, db
<1>2. PICK t \in Revs : /\ Remembers(p, mem[p].good, mem[p].failed, mem[p].durable, t)
                        /\ t # NoRev => t = mem[p].target /\ t = room.desired /\ t \in proven'
  BY CompareMemory, ActorFacts
<1> QED
  BY <1>1, <1>2, ActorFacts
  DEF Remembers, ActorOK, StageOK, MemoryOK, LeaderOK, RoomOK, IsApplying, HasRead, Fenced

LEMMA ActivateActor ==
  ASSUME SupervisionConstants, SupervisionInv, NEW p \in Procs, Activate(p)
  PROVE  ActorOK(p)'
<1>1. /\ pc[p] = "imported" /\ UNCHANGED <<room, epoch, fence, proven>>
      /\ kind'[p] = "restore" /\ handle'[p] = mem[p].target /\ pc'[p] = "top"
  BY ActorFacts DEF Activate, Goto, SupervisionTypeOK, db
<1>2. Remembers(p, mem[p].target, NoRev, mem[p].target, NoRev)
  BY ActivateMemory, ActorFacts
<1> QED
  BY <1>1, <1>2, ActorFacts
  DEF Remembers, ActorOK, StageOK, MemoryOK, LeaderOK, IsApplying, HasRead, Fenced

LEMMA ReadActor ==
  ASSUME SupervisionConstants, SupervisionInv, NEW p \in Procs, ReadRoster(p)
  PROVE  ActorOK(p)'
<1>1. /\ pc[p] = "read" /\ UNCHANGED <<room, epoch, fence, kind, handle, proven>>
      /\ pc'[p] \in {"idle", "report", "apply"}
      /\ pc'[p] = "report" => handle[p] = room.desired
  BY ActorFacts DEF ReadRoster, Goto, SupervisionTypeOK, db
<1>2. CASE pc'[p] = "idle" /\ Remembers(p, mem[p].good, mem[p].failed, mem[p].durable, mem[p].target)
  BY <1>1, <1>2, ActorFacts
  DEF Remembers, ActorOK, StageOK, MemoryOK, LeaderOK, IsApplying, HasRead, Fenced
<1>3. CASE Remembers(p, mem[p].good, mem[p].failed, Or(room.good, mem[p].durable), room.desired)
  <2>1. handle[p] = room.desired => handle[p] # NoBridge
    BY MemoryFields, RevsFacts, ActorFacts
  <2>2. pc'[p] = "report" => room.desired \in proven /\ room.desired = mem[p].good
    BY <1>1, <2>1, ActorFacts DEF MemoryOK, StageOK
  <2>3. /\ Or(room.good, mem[p].durable) \in proven \cup {NoRev}
        /\ Or(room.good, mem[p].durable) \in Nat
        /\ Or(room.good, mem[p].durable) >= room.good
        /\ Or(room.good, mem[p].durable) <= room.desired
    BY ActorFacts DEF Or, MemoryOK, RoomOK
  <2> QED
    BY <1>1, <1>3, <2>2, <2>3, ActorFacts
    DEF Remembers, ActorOK, StageOK, MemoryOK, LeaderOK, RoomOK, IsApplying, HasRead, Fenced
<1> QED
  BY <1>2, <1>3, ReadMemory, ActorFacts

LEMMA WakeActor ==
  ASSUME SupervisionConstants, SupervisionInv, NEW p \in Procs, Wake(p)
  PROVE  ActorOK(p)'
<1>1. /\ pc[p] = "idle" /\ UNCHANGED <<room, epoch, fence, kind, handle, proven>> /\ pc'[p] = "top"
  BY ActorFacts DEF Wake, Goto, SupervisionTypeOK, db
<1>2. PICK f \in {NoRev, mem[p].failed} : Remembers(p, mem[p].good, f, mem[p].durable, mem[p].target)
  BY WakeMemory, ActorFacts
<1> QED
  BY <1>1, <1>2, ActorFacts
  DEF Remembers, ActorOK, StageOK, MemoryOK, LeaderOK, IsApplying, HasRead, Fenced

LEMMA PutActor ==
  ASSUME SupervisionConstants, SupervisionInv, NEW p \in Procs, NEW is \in BOOLEAN, PutRoster(p, is)
  PROVE  ActorOK(p)'
<1>1. /\ room'.desired = room.desired + 1 /\ room'.good = room.good
      /\ UNCHANGED <<epoch, fence, pc, kind, handle, mem, proven>>
  BY MemoryFields, ActorFacts DEF PutRoster, RoomRow
<1> QED
  BY <1>1, ActorFacts DEF ActorOK, StageOK, MemoryOK, LeaderOK, IsApplying, HasRead, Fenced

\* A report of the leader leaves the room with what the leader itself calls good.
LEMMA ReportActor ==
  ASSUME SupervisionConstants, SupervisionInv, NEW p \in Procs,
         ReportUnavailable(p) \/ ReportActive(p) \/ RecordFailure(p)
  PROVE  /\ ActorOK(p)' /\ RoomOK'
         /\ room'.good >= room.good
<1> USE ActorFacts
<1>1. /\ pc[p] \in {"unavailable", "report", "fail"} /\ pc'[p] = "idle"
      /\ UNCHANGED <<epoch, fence, kind, handle, proven>>
      /\ kind[p] # "initial" /\ room.desired # NoRev
  BY DEF ReportUnavailable, ReportActive, RecordFailure, Goto, SupervisionTypeOK, StageOK
<1>2. /\ ~RecordFailure(p) => Remembers(p, mem[p].good, mem[p].failed, mem[p].durable, mem[p].target)
      /\ RecordFailure(p) => Remembers(p, mem[p].good, mem[p].target, mem[p].durable, mem[p].target)
  BY FailureMemory, MemorySame DEF ReportUnavailable, ReportActive
<1>3. LastGood(p) \in proven \cup {NoRev} /\ LastGood(p) <= room.desired /\ LastGood(p) \in Nat
  BY DEF LastGood, Or, MemoryOK
<1>4. CASE ReportActive(p)
  <2>1. mem[p].target \in proven /\ mem[p].target = mem[p].good /\ ~RecordFailure(p)
    BY <1>4 DEF ReportActive, RecordFailure, MemoryOK
  <2>2. /\ room'.desired = room.desired
        /\ \/ room' = room
           \/ /\ Fenced(p) /\ room.desired = mem[p].target /\ room'.active = mem[p].target
              /\ room'.good = mem[p].target /\ room'.state = "active"
    BY <1>4, PersistFacts DEF ReportActive
  <2> QED
    BY <1>1, <1>2, <1>4, <2>1, <2>2
    DEF Remembers, ActorOK, StageOK, MemoryOK, LeaderOK, RoomOK, ActiveIsDesired, IsApplying,
        HasRead, Fenced
<1>5. CASE ReportUnavailable(p) \/ RecordFailure(p)
  <2>1. /\ room'.desired = room.desired
        /\ \/ room' = room
           \/ /\ Fenced(p) /\ room'.good = LastGood(p) /\ room'.state = "failed"
              /\ ReportUnavailable(p) => room.desired = Or(mem[p].failed, mem[p].good)
    BY <1>5, PersistFacts DEF ReportUnavailable, RecordFailure
  <2>2. room' # room => LastGood(p) >= room.good
    BY <1>1, <1>5, <2>1
    DEF ReportUnavailable, RecordFailure, LastGood, Or, LeaderOK, HasRead
  <2>3. RoomOK' /\ room'.good >= room.good
    BY <1>1, <1>3, <2>1, <2>2 DEF RoomOK, ActiveIsDesired
  <2>4. \E f \in {mem[p].failed, mem[p].target} :
           Remembers(p, mem[p].good, f, mem[p].durable, mem[p].target)
    BY <1>2
  <2>5. StageOK(p)' /\ MemoryOK(p)'
    BY <1>1, <2>1, <2>4 DEF Remembers, StageOK, MemoryOK
  <2>6. LeaderOK(p)'
    <3>1. CASE room' = room
      BY <1>1, <1>2, <1>5, <3>1
      DEF Remembers, LeaderOK, IsApplying, HasRead, Fenced, ReportUnavailable, RecordFailure
    <3>2. CASE room' # room
      BY <1>1, <2>1, <2>4, <3>2
      DEF Remembers, LeaderOK, IsApplying, HasRead, Fenced, LastGood, Or
    <3> QED
      BY <3>1, <3>2
  <2> QED
    BY <2>3, <2>5, <2>6 DEF ActorOK
<1> QED
  BY <1>4, <1>5

-----------------------------------------------------------------------------
(* Supervision: the theorems.                                              *)

\* No step turns back the room's last good revision, or makes one up.
LEMMA RoomRowStep ==
  ASSUME SupervisionConstants, SupervisionInv, NEW p \in Procs, ProcStep(p)
  PROVE  RoomOK' /\ room'.good >= room.good
<1> USE ActorFacts
<1>1. CASE Import(p)
  BY <1>1 DEF Import, RoomOK, ActiveIsDesired
<1>2. CASE ReportUnavailable(p) \/ ReportActive(p) \/ RecordFailure(p)
  BY <1>2, ReportActor
<1>3. ASSUME NEW is \in BOOLEAN, PutRoster(p, is)
      PROVE  RoomOK' /\ room'.good >= room.good
  <2>1. /\ room'.desired = room.desired + 1 /\ room'.good = room.good /\ room'.state = "pending"
        /\ proven' = proven
    BY <1>3, MemoryFields DEF PutRoster, RoomRow
  <2> QED
    BY <2>1 DEF RoomOK, ActiveIsDesired
<1>4. CASE room' = room /\ proven \subseteq proven'
  BY <1>4 DEF RoomOK, ActiveIsDesired
<1> QED
  BY <1>1, <1>2, <1>3, <1>4
  DEF ProcStep, Supervise, AcquireLeadership, ObserveLoss, LeadershipLost, Release, Provision,
      BridgeReady, BridgeFails, Compare, Activate, Converge, ReadRoster, ApplyRevision, Wake, Stop,
      Crash, BridgeExits, RetryRoster, Speak, db, super

LEMMA ActorStep ==
  ASSUME SupervisionConstants, SupervisionInv, NEW p \in Procs, ProcStep(p)
  PROVE  ActorOK(p)'
BY AcquireActor, QuietActor, ReadyActor, ImportActor, CompareActor, ActivateActor, ReadActor,
   WakeActor, PutActor, ReportActor
DEF ProcStep, Supervise

LEMMA SupervisionStep ==
  ASSUME SupervisionConstants, SupervisionInv, [SupervisionNext]_supervisionVars
  PROVE  SupervisionInv' /\ HistoryStep
<1>1. SupervisionTypeOK /\ SupervisionTypeOK' /\ EpochsOK /\ EpochsOK' /\ RoomOK
  BY SupervisionTypeStep, EpochStep DEF SupervisionInv
<1>2. ASSUME NEW p \in Procs, ProcStep(p)
      PROVE  SupervisionInv' /\ HistoryStep
  <2>1. \A q \in Procs \ {p} : StageOK(q)' /\ MemoryOK(q)' /\ LeaderOK(q)'
    BY <1>1, <1>2, StepFrame, Bystanders
  <2>2. \A q \in Procs : StageOK(q)' /\ MemoryOK(q)' /\ LeaderOK(q)'
    BY <1>2, <2>1, ActorStep DEF ActorOK
  <2>3. RoomOK' /\ room'.good >= room.good
    BY <1>2, RoomRowStep
  <2>4. spoke' >= spoke
    <3>1. CASE Speak(p)
      BY <1>1, <3>1 DEF Speak, Fenced, EpochsOK, SupervisionTypeOK
    <3>2. CASE spoke' = spoke
      BY <1>1, <3>2 DEF SupervisionTypeOK
    <3> QED
      BY <1>2, <3>1, <3>2
      DEF ProcStep, Supervise, AcquireLeadership, ObserveLoss, LeadershipLost, Release, Provision,
          BridgeReady, BridgeFails, Import, Compare, Activate, Converge, ReportUnavailable,
          ReadRoster, ReportActive, ApplyRevision, RecordFailure, Wake, Stop, Crash, BridgeExits,
          RetryRoster, PutRoster
  <2> QED
    BY <1>1, <2>2, <2>3, <2>4 DEF SupervisionInv, HistoryStep, RoomOK
<1>3. CASE UNCHANGED <<epoch, room, same, super, proven, spoke>>
  <2>1. \A q \in Procs : StageOK(q)' /\ MemoryOK(q)' /\ LeaderOK(q)'
    BY <1>3 DEF SupervisionInv, super, StageOK, MemoryOK, LeaderOK, IsApplying, HasRead, Fenced
  <2>2. RoomOK'
    BY <1>1, <1>3 DEF RoomOK, ActiveIsDesired
  <2>3. HistoryStep
    BY <1>1, <1>3 DEF HistoryStep, RoomOK, SupervisionTypeOK, RoomRow, Revs, NoRev
  <2> QED
    BY <1>1, <2>1, <2>2, <2>3 DEF SupervisionInv
<1> QED
  BY <1>2, <1>3
  DEF SupervisionNext, SilentNext, SessionEnds, ProcStep, supervisionVars, db

LEMMA SupervisionInitial ==
  ASSUME SupervisionConstants, SupervisionInit
  PROVE  SupervisionInv
<1>1. SupervisionTypeOK
  BY RevsFacts DEF SupervisionConstants, SupervisionInit, SupervisionTypeOK, RoomRow, ApplyState, Where, Hints
<1>2. EpochsOK
  BY DEF SupervisionInit, EpochsOK
<1>3. RoomOK
  BY DEF SupervisionInit, RoomOK, ActiveIsDesired, NoRev
<1>4. ASSUME NEW p \in Procs
      PROVE  StageOK(p) /\ MemoryOK(p) /\ LeaderOK(p)
  BY DEF SupervisionInit, StageOK, MemoryOK, LeaderOK, IsApplying, HasRead, Blank, NoRev
<1> QED
  BY <1>1, <1>2, <1>3, <1>4 DEF SupervisionInv

LEMMA SupervisionInvariant ==
  ASSUME SupervisionConstants
  PROVE  SupervisionSpec => []SupervisionInv
<1>1. SupervisionInit => SupervisionInv
  BY SupervisionInitial
<1>2. SupervisionInv /\ [SupervisionNext]_supervisionVars => SupervisionInv'
  BY SupervisionStep
<1> QED
  BY <1>1, <1>2, PTL DEF SupervisionSpec

\* However many processes believe they lead a room, whatever sessions they lose
\* and whenever they stop, one bridge can have an effect; and the roster reports
\* as active only a revision that is desired and was proven by a ready bridge
\* (supervisor.rs, set_room_apply_status).
THEOREM SupervisionSafetyTheorem ==
  ASSUME SupervisionConstants
  PROVE  SupervisionSpec => []SupervisionSafety
<1>1. SupervisionInv => SupervisionSafety
  BY DEF SupervisionInv, SupervisionSafety, OneVoice, EpochsOK, RoomOK, SupervisionTypeOK
<1> QED
  BY <1>1, SupervisionInvariant, PTL

\* Effects follow the epochs, and no write of a later process erases or turns
\* back the last good revision that an earlier one proved.
THEOREM HistoryKeptTheorem ==
  ASSUME SupervisionConstants
  PROVE  SupervisionSpec => HistoryKept
<1>1. SupervisionInv /\ [SupervisionNext]_supervisionVars => [HistoryStep]_supervisionVars
  BY SupervisionStep
<1> QED
  BY <1>1, SupervisionInvariant, PTL DEF SupervisionSpec, HistoryKept

-----------------------------------------------------------------------------
(* Execution.                                                              *)

\* A proposal that a step leaves alone.
LEMMA Untouched ==
  ASSUME ExecutionInv, NEW p \in Proposals, managed' = managed, (p \in swept') => (p \in swept),
         registry'[p] = registry[p], fates'[p] = fates[p], stage'[p] = stage[p],
         starts'[p] = starts[p], attempts'[p] = attempts[p], partials'[p] = partials[p],
         result'[p] = result[p], posts'[p] = posts[p], status'[p] = status[p]
  PROVE  FateOK(p)' /\ RunOK(p)'
BY DEF ExecutionInv, FateOK, RunOK

\* A decision about proposals that were undecided, whose pipelines start with it.
LEMMA Decisions ==
  ASSUME ExecutionInv, NEW ps \in SUBSET Proposals, \A p \in ps : registry[p] # "out",
         NEW x \in {"dispatched", "rejected", "expired"},
         \A p \in Proposals : registry'[p] = IF p \in ps THEN "out" ELSE registry[p],
         \A p \in Proposals : fates'[p] = IF p \in ps THEN fates[p] \cup {x} ELSE fates[p],
         \A p \in Proposals : stage'[p] = IF p \in ps /\ x = "dispatched" THEN "permit" ELSE stage[p],
         \A p \in Proposals : p \in swept' => p \in swept \/ (p \in ps /\ x = "expired"),
         UNCHANGED <<starts, attempts, partials, result, posts, status, managed>>
  PROVE  \A p \in Proposals : FateOK(p)' /\ RunOK(p)'
<1> SUFFICES ASSUME NEW p \in Proposals PROVE FateOK(p)' /\ RunOK(p)'
  OBVIOUS
<1>1. CASE p \in ps
  <2>1. fates[p] = {} /\ stage[p] = "none" /\ p \notin swept
    BY <1>1 DEF ExecutionInv, FateOK
  <2>2. fates'[p] = {x} /\ registry'[p] = "out" /\ stage'[p] = IF x = "dispatched" THEN "permit" ELSE "none"
    BY <1>1, <2>1
  <2> QED
    BY <1>1, <2>1, <2>2 DEF ExecutionInv, FateOK, RunOK
<1>2. CASE p \notin ps
  BY <1>2, Untouched
<1> QED
  BY <1>1, <1>2

LEMMA ExecutionTypeStep ==
  ASSUME ExecutionConstants, ExecutionTypeOK, [ExecutionNext]_executionVars
  PROVE  ExecutionTypeOK'
<1> USE DEF ExecutionTypeOK, Running
<1>1. ASSUME NEW p \in Proposals, Register(p) \/ ApproveInRoom(p) \/ ApproveByControl(p) \/ Reject(p)
      PROVE  ExecutionTypeOK'
  BY <1>1 DEF Register, ApproveInRoom, ApproveByControl, Reject, Dispatch, runVars, guard
<1>2. ASSUME NEW p \in Proposals, Send(p) \/ HandlerDropped(p) \/ SweepWriteback(p)
      PROVE  ExecutionTypeOK'
  BY <1>2 DEF Send, HandlerDropped, SweepWriteback, runVars, guard
<1>3. CASE Sweep
  BY <1>3 DEF Sweep, runVars, guard
<1>11. CASE SweepAborted
  BY <1>11 DEF SweepAborted, runVars, guard
<1>12. CASE Unpaused
  <2>1. CASE paused
    BY <1>12, <2>1 DEF Unpaused, guard
  <2>2. CASE ~paused
    <3>1. /\ registry' \in [Proposals -> {"none", "pending", "approved", "out"}]
          /\ stage' \in [Proposals -> Running \cup {"none", "permit", "done"}]
          /\ fates' \in [Proposals -> SUBSET {"dispatched", "rejected", "expired"}]
      BY <1>12, <2>2 DEF Unpaused, Dispatch
    <3>2. edge' = FALSE /\ UNCHANGED <<sending, channel, paused, swept, attempts, result, starts,
                                      partials, posts, status, managed, revoked>>
      BY <1>12 DEF Unpaused, guard
    <3> QED
      BY <3>1, <3>2
  <2> QED
    BY <2>1, <2>2
<1>10. CASE SetPause
  <2>1. paused' \in BOOLEAN
    BY <1>10 DEF SetPause
  <2> QED
    BY <1>10, <2>1 DEF SetPause, runVars, guard
<1>4. ASSUME NEW p \in Proposals, Drain(p)
      PROVE  ExecutionTypeOK'
  BY <1>4 DEF Drain, Held, Dispatch, guard
<1>5. ASSUME NEW p \in Proposals,
             \/ AcquirePermit(p) \/ Healthy(p) \/ Sandboxed(p) \/ Blocked(p) \/ Unconfigured(p)
             \/ Judge(p) \/ PostLost(p) \/ Cancelled(p)
      PROVE  ExecutionTypeOK'
  BY <1>5 DEF AcquirePermit, Healthy, Sandboxed, Blocked, Unconfigured, Judge, PostLost, Cancelled,
              Move, approvalVars, guard
<1>6. ASSUME NEW p \in Proposals, StartRun(p) \/ Retry(p) \/ PostResult(p) \/ Writeback(p)
      PROVE  ExecutionTypeOK'
  BY <1>6 DEF StartRun, Retry, PostResult, Writeback, Final, Move, approvalVars, guard
<1>7. ASSUME NEW p \in Proposals, NEW r \in {"success", "failed", "partial"}, AttemptEnds(p, r)
      PROVE  ExecutionTypeOK'
  BY <1>7 DEF AttemptEnds, Move, approvalVars, guard
<1>8. CASE Revoke \/ \E p \in Proposals : NotifyFails(p)
  BY <1>8 DEF Revoke, NotifyFails, approvalVars, runVars
<1>9. CASE UNCHANGED executionVars
  BY <1>9 DEF executionVars, approvalVars, runVars, guard
<1> QED
  BY <1>1, <1>2, <1>3, <1>4, <1>5, <1>6, <1>7, <1>8, <1>9, <1>10, <1>11, <1>12
  DEF ExecutionNext, DrainStep, PipelineStep

LEMMA ExecutionStep ==
  ASSUME ExecutionConstants, ExecutionInv, [ExecutionNext]_executionVars
  PROVE  ExecutionInv'
<1>0. ExecutionTypeOK /\ ExecutionTypeOK'
  BY ExecutionTypeStep DEF ExecutionInv
<1> SUFFICES \A q \in Proposals : FateOK(q)' /\ RunOK(q)'
  BY <1>0 DEF ExecutionInv
<1>1. ASSUME NEW p \in Proposals, ApproveInRoom(p)
      PROVE  \A q \in Proposals : FateOK(q)' /\ RunOK(q)'
  <2>1. /\ \A q \in {p} : registry[q] # "out"
        /\ \A q \in Proposals : registry'[q] = IF q \in {p} THEN "out" ELSE registry[q]
        /\ \A q \in Proposals : fates'[q] = IF q \in {p} THEN fates[q] \cup {"dispatched"} ELSE fates[q]
        /\ \A q \in Proposals : stage'[q] = IF q \in {p} THEN "permit" ELSE stage[q]
        /\ UNCHANGED <<swept, starts, attempts, partials, result, posts, status, managed>>
    BY <1>0, <1>1 DEF ApproveInRoom, Takeable, Dispatch, guard, ExecutionTypeOK
  <2> QED
    BY <2>1, Decisions
<1>2. ASSUME NEW p \in Proposals, Reject(p)
      PROVE  \A q \in Proposals : FateOK(q)' /\ RunOK(q)'
  <2>1. /\ \A q \in {p} : registry[q] # "out"
        /\ \A q \in Proposals : registry'[q] = IF q \in {p} THEN "out" ELSE registry[q]
        /\ \A q \in Proposals : fates'[q] = IF q \in {p} THEN fates[q] \cup {"rejected"} ELSE fates[q]
        /\ UNCHANGED <<stage, swept, starts, attempts, partials, result, posts, status, managed>>
    BY <1>0, <1>2 DEF Reject, runVars, guard, ExecutionTypeOK
  <2> QED
    BY <2>1, Decisions
<1>3. CASE Sweep
  BY <1>0, <1>3, Decisions DEF Sweep, runVars, guard, ExecutionTypeOK
<1>4. ASSUME NEW p \in Proposals, Drain(p), registry' # registry \/ stage' # stage \/ fates' # fates
      PROVE  \A q \in Proposals : FateOK(q)' /\ RunOK(q)'
  <2>1. /\ \A q \in {p} : registry[q] # "out"
        /\ \A q \in Proposals : registry'[q] = IF q \in {p} THEN "out" ELSE registry[q]
        /\ \A q \in Proposals : fates'[q] = IF q \in {p} THEN fates[q] \cup {"dispatched"} ELSE fates[q]
        /\ \A q \in Proposals : stage'[q] = IF q \in {p} THEN "permit" ELSE stage[q]
        /\ UNCHANGED <<swept, starts, attempts, partials, result, posts, status, managed>>
    BY <1>0, <1>4 DEF Drain, Claimed, Held, Dispatch, guard, ExecutionTypeOK
  <2> QED
    BY <2>1, Decisions
<1>5. CASE Unpaused /\ ~paused
  <2>1. /\ Flushed \in SUBSET Proposals /\ \A q \in Flushed : registry[q] # "out"
        /\ \A q \in Proposals : registry'[q] = IF q \in Flushed THEN "out" ELSE registry[q]
        /\ \A q \in Proposals : fates'[q] = IF q \in Flushed THEN fates[q] \cup {"dispatched"} ELSE fates[q]
        /\ \A q \in Proposals : stage'[q] = IF q \in Flushed THEN "permit" ELSE stage[q]
        /\ UNCHANGED <<swept, starts, attempts, partials, result, posts, status, managed>>
    BY <1>0, <1>5 DEF Unpaused, Flushed, Dispatch, guard, ExecutionTypeOK
  <2> QED
    BY <2>1, Decisions
<1>6. ASSUME NEW p \in Proposals, PipelineStep(p)
      PROVE  \A q \in Proposals : FateOK(q)' /\ RunOK(q)'
  <2>1. FateOK(p)' /\ RunOK(p)'
    BY <1>0, <1>6
    DEF PipelineStep, AcquirePermit, Healthy, Sandboxed, Blocked, Unconfigured, StartRun,
        AttemptEnds, Retry, should_retry, Judge, PostResult, PostLost, Writeback, Final, Cancelled,
        Cancellable, Running, Move, approvalVars, guard, ExecutionTypeOK, ExecutionInv, FateOK,
        RunOK, ExecutionConstants
  <2>2. ASSUME NEW q \in Proposals \ {p}
        PROVE  FateOK(q)' /\ RunOK(q)'
    BY <1>0, <1>6, <2>2, Untouched
    DEF PipelineStep, AcquirePermit, Healthy, Sandboxed, Blocked, Unconfigured, StartRun,
        AttemptEnds, Retry, Judge, PostResult, PostLost, Writeback, Cancelled, Move, approvalVars,
        guard, ExecutionTypeOK
  <2> QED
    BY <2>1, <2>2
<1>7. ASSUME NEW p \in Proposals, Register(p) \/ SweepWriteback(p) \/ ApproveByControl(p)
      PROVE  \A q \in Proposals : FateOK(q)' /\ RunOK(q)'
  BY <1>0, <1>7
  DEF Register, SweepWriteback, ApproveByControl, runVars, guard, ExecutionTypeOK, ExecutionInv,
      FateOK, RunOK
<1>8. CASE UNCHANGED <<registry, stage, fates, starts, attempts, partials, result, posts, status, managed>>
           /\ swept' \subseteq swept
  BY <1>8, Untouched
<1> QED
  BY <1>1, <1>2, <1>3, <1>4, <1>5, <1>6, <1>7, <1>8
  DEF ExecutionNext, DrainStep, Send, HandlerDropped, SweepAborted, Drain, Unpaused, SetPause,
      NotifyFails, Revoke, executionVars, approvalVars, runVars, guard

LEMMA ExecutionInvariant ==
  ASSUME ExecutionConstants
  PROVE  ExecutionSpec => []ExecutionInv
<1>1. ExecutionInit => ExecutionInv
  <2> SUFFICES ASSUME ExecutionInit PROVE ExecutionInv
    OBVIOUS
  <2>1. ExecutionTypeOK
    BY DEF ExecutionInit, ExecutionTypeOK
  <2>2. \A p \in Proposals : FateOK(p)
    BY DEF ExecutionInit, FateOK
  <2>3. \A p \in Proposals : RunOK(p)
    BY DEF ExecutionConstants, ExecutionInit, RunOK
  <2> QED
    BY <2>1, <2>2, <2>3 DEF ExecutionInv
<1>2. ExecutionInv /\ [ExecutionNext]_executionVars => ExecutionInv'
  BY ExecutionStep
<1> QED
  BY <1>1, <1>2, PTL DEF ExecutionSpec

\* Approval in the room, approval at the control server, the flush after a pause,
\* the drain of a late message, rejection and expiry decide a proposal once; a
\* held approval stays visible, attempts are earned, and what is reported
\* completed has completed and was posted (approval.rs, runtime.rs, supervisor.rs).
THEOREM ExecutionSafetyTheorem ==
  ASSUME ExecutionConstants
  PROVE  ExecutionSpec => []ExecutionSafety
<1>1. ExecutionInv => ExecutionSafety
  <2> SUFFICES ASSUME ExecutionInv PROVE ExecutionSafety
    OBVIOUS
  <2>1. OneFate
    <3> SUFFICES ASSUME NEW p \in Proposals PROVE Cardinality(fates[p]) <= 1
      BY DEF OneFate, ExecutionInv, RunOK
    <3>1. fates[p] = {} \/ \E x : fates[p] = {x}
      BY DEF ExecutionInv, FateOK, ExecutionTypeOK
    <3> QED
      <4>1. CASE fates[p] = {}
        BY <4>1, FS_EmptySet
      <4>2. ASSUME NEW x, fates[p] = {x}
            PROVE  Cardinality(fates[p]) <= 1
        <5>1. Cardinality({x}) = 1
          BY FS_Singleton
        <5> QED
          BY <4>2, <5>1
      <4> QED
        BY <3>1, <4>1, <4>2
  <2>2. HeldIsVisible
    BY DEF HeldIsVisible, ExecutionInv, FateOK
  <2>3. AttemptsEarned
    BY DEF AttemptsEarned, ExecutionInv, RunOK
  <2>4. CompletedIsTrue
    BY DEF CompletedIsTrue, ExecutionInv, RunOK, FateOK
  <2> QED
    BY <2>1, <2>2, <2>3, <2>4 DEF ExecutionSafety, ExecutionInv
<1> QED
  BY <1>1, ExecutionInvariant, PTL

-----------------------------------------------------------------------------
(* The conversation: the memory of clusters.                               *)

\* A suffix of a sequence.
LEMMA Suffix ==
  ASSUME NEW S, NEW s \in Seq(S), NEW e \in 0..Len(s)
  PROVE  LET sub == SubSeq(s, e + 1, Len(s)) IN
         /\ sub \in Seq(S) /\ Len(sub) = Len(s) - e
         /\ \A i \in 1..Len(sub) : i + e \in 1..Len(s) /\ sub[i] = s[i + e]
<1> DEFINE sub == SubSeq(s, e + 1, Len(s))
<1>1. Len(s) \in Nat /\ e \in Nat /\ e <= Len(s) /\ \A i \in e + 1 .. Len(s) : s[i] \in S
  OBVIOUS
<1>2. /\ sub \in Seq(S)
      /\ Len(sub) = (IF e + 1 <= Len(s) THEN Len(s) - (e + 1) + 1 ELSE 0)
      /\ \A i \in 1 .. Len(s) - (e + 1) + 1 : sub[i] = s[e + 1 + i - 1]
  BY <1>1, SubSeqProperties
<1> QED
  BY <1>1, <1>2

\* A suffix of a memory is one, whose clusters have moved up.
LEMMA SuffixOK ==
  ASSUME CascadeConstants, NEW ms, ClustersOK(ms), NEW e \in 0..Len(ms)
  PROVE  LET sub == SubSeq(ms, e + 1, Len(ms)) IN
         /\ ClustersOK(sub) /\ Len(sub) = Len(ms) - e
         /\ \A i \in 1..Len(sub) : sub[i] = ms[i + e]
<1> DEFINE sub == SubSeq(ms, e + 1, Len(ms))
<1>1. ms \in Seq(Clusters) /\ Len(ms) \in Nat /\ TopicsCap \in Nat
  BY DEF ClustersOK, CascadeConstants
<1>2. /\ sub \in Seq(Clusters) /\ Len(sub) = Len(ms) - e
      /\ \A i \in 1..Len(sub) : i + e \in 1..Len(ms) /\ sub[i] = ms[i + e]
  BY <1>1, Suffix
<1> HIDE DEF sub
<1>3. \A i \in 1..Len(sub) : WithinBudget(sub[i].turns, sub[i].total)
  BY <1>1, <1>2 DEF ClustersOK
<1>4. \A i, j \in 1..Len(sub) : sub[i].topic = sub[j].topic => i = j
  <2> SUFFICES ASSUME NEW i \in 1..Len(sub), NEW j \in 1..Len(sub), sub[i].topic = sub[j].topic
               PROVE  i = j
    OBVIOUS
  <2>1. i + e = j + e
    BY <1>1, <1>2 DEF ClustersOK
  <2> QED
    BY <2>1, <1>1
<1>5. Len(sub) <= TopicsCap
  BY <1>1, <1>2 DEF ClustersOK
<1>6. ClustersOK(sub)
  BY <1>2, <1>3, <1>4, <1>5 DEF ClustersOK
<1> QED
  BY <1>2, <1>6 DEF sub

\* What retain leaves: other topics, each once, each within its bounds.
LEMMA OthersOK ==
  ASSUME CascadeConstants, NEW ms, ClustersOK(ms), NEW rest \in Others(ms)
  PROVE  /\ rest \in Seq(Clusters)
         /\ \A i \in 1..Len(rest) :
              rest[i].topic # topic /\ WithinBudget(rest[i].turns, rest[i].total)
         /\ \A i, j \in 1..Len(rest) : rest[i].topic = rest[j].topic => i = j
<1> DEFINE S == {i \in 1..Len(ms) : ms[i].topic # topic}
<1>1. ms \in Seq(Clusters) /\ Len(ms) \in Nat
  BY DEF ClustersOK
<1>2. Cardinality(S) \in Nat
  <2>1. IsFiniteSet(1..Len(ms)) /\ S \in SUBSET (1..Len(ms))
    BY <1>1, FS_Interval
  <2>2. IsFiniteSet(S)
    BY <2>1, FS_Subset
  <2> QED
    BY <2>2, FS_CardinalityType
<1>3. PICK f \in Orders(S) : rest = [k \in DOMAIN f |-> ms[f[k]]]
  BY DEF Others
<1> DEFINE n == Cardinality(S)
<1>4. f \in [1..n -> S] /\ \A i, j \in 1..n : i < j => f[i] < f[j]
  BY <1>3 DEF Orders
<1> HIDE DEF n
<1>5. n \in Nat
  BY <1>2 DEF n
<1>6. \A i \in 1..n : f[i] \in 1..Len(ms) /\ ms[f[i]].topic # topic
  BY <1>4
<1> HIDE DEF S
<1>7. rest = [k \in 1..n |-> ms[f[k]]] /\ \A k \in 1..n : ms[f[k]] \in Clusters
  BY <1>1, <1>3, <1>4, <1>6
<1>8. rest \in [1..n -> Clusters]
  BY <1>7
<1>9. rest \in Seq(Clusters) /\ Len(rest) = n
  BY <1>5, <1>8
<1>10. \A i \in 1..n : rest[i] = ms[f[i]]
  BY <1>7
<1>11. \A i, j \in 1..n : f[i] = f[j] => i = j
  BY <1>1, <1>4, <1>5, <1>6
<1>12. \A i, j \in 1..n : rest[i].topic = rest[j].topic => i = j
  BY <1>6, <1>10, <1>11 DEF ClustersOK
<1>13. \A i \in 1..n : rest[i].topic # topic /\ WithinBudget(rest[i].turns, rest[i].total)
  BY <1>6, <1>10 DEF ClustersOK
<1> QED
  BY <1>9, <1>12, <1>13

\* A topic that is remembered leaves a memory.
LEMMA RecordOK ==
  ASSUME CascadeConstants, CascadeInv, topic \in Topics, RecordExhausted
  PROVE  ClustersOK(exhausted') /\ active' \in Nat
<1>1. PICK expired \in 0..Len(exhausted), embedded \in {TRUE} \cup {~EmbedFails} :
        LET ms == SubSeq(exhausted, expired + 1, Len(exhausted)) IN
        \/ /\ embedded
           /\ \E rest \in Others(ms) :
                LET all  == Append(rest, [topic |-> topic, turns |-> agentTurns, total |-> totalTurns])
                    drop == IF Len(all) > TopicsCap THEN Len(all) - TopicsCap ELSE 0
                IN  /\ exhausted' = SubSeq(all, drop + 1, Len(all))
                    /\ active' = Len(all) - drop
        \/ /\ ~embedded
           /\ exhausted' = ms
           /\ active' = active
  BY DEF RecordExhausted
<1> DEFINE ms == SubSeq(exhausted, expired + 1, Len(exhausted))
<1>2. ClustersOK(exhausted) /\ active \in Nat /\ WithinBudget(agentTurns, totalTurns)
  BY DEF CascadeInv, CascadeTypeOK
<1>3. ClustersOK(ms)
  BY <1>2, SuffixOK
<1>4. CASE embedded
  <2> DEFINE c == [topic |-> topic, turns |-> agentTurns, total |-> totalTurns]
  <2>1. PICK rest \in Others(ms) :
          LET all  == Append(rest, c)
              drop == IF Len(all) > TopicsCap THEN Len(all) - TopicsCap ELSE 0
          IN  /\ exhausted' = SubSeq(all, drop + 1, Len(all))
              /\ active' = Len(all) - drop
    BY <1>1, <1>4
  <2> DEFINE all  == Append(rest, c)
             drop == IF Len(all) > TopicsCap THEN Len(all) - TopicsCap ELSE 0
  <2>2. exhausted' = SubSeq(all, drop + 1, Len(all)) /\ active' = Len(all) - drop
    BY <2>1
  <2>3. c \in Clusters /\ c.topic = topic /\ WithinBudget(c.turns, c.total)
    BY <1>2 DEF CascadeInv, CascadeTypeOK, Clusters
  <2> HIDE DEF ms, c
  <2>4. /\ rest \in Seq(Clusters)
        /\ \A i \in 1..Len(rest) :
             rest[i].topic # topic /\ WithinBudget(rest[i].turns, rest[i].total)
        /\ \A i, j \in 1..Len(rest) : rest[i].topic = rest[j].topic => i = j
    BY <1>3, OthersOK
  <2>5. /\ all \in Seq(Clusters) /\ Len(all) = Len(rest) + 1 /\ Len(all) \in Nat
        /\ \A i \in 1..Len(rest) : all[i] = rest[i]
        /\ all[Len(rest) + 1] = c
    BY <2>3, <2>4, AppendProperties
  <2> HIDE DEF all
  <2>6. /\ \A i \in 1..Len(all) : WithinBudget(all[i].turns, all[i].total)
        /\ \A i, j \in 1..Len(all) : all[i].topic = all[j].topic => i = j
    BY <2>3, <2>4, <2>5
  <2>7. drop \in 0..Len(all) /\ Len(all) - drop <= TopicsCap /\ TopicsCap \in Nat
    BY <2>5 DEF CascadeConstants
  <2> HIDE DEF drop
  <2> DEFINE sub == SubSeq(all, drop + 1, Len(all))
  <2>8. /\ sub \in Seq(Clusters) /\ Len(sub) = Len(all) - drop
        /\ \A i \in 1..Len(sub) : i + drop \in 1..Len(all) /\ sub[i] = all[i + drop]
    BY <2>5, <2>7, Suffix
  <2>9. exhausted' = sub
    BY <2>2
  <2> HIDE DEF sub
  <2>10. /\ exhausted' \in Seq(Clusters) /\ Len(exhausted') = Len(all) - drop
         /\ \A i \in 1..Len(exhausted') : i + drop \in 1..Len(all) /\ exhausted'[i] = all[i + drop]
    BY <2>8, <2>9
  <2>11. \A i \in 1..Len(exhausted') : WithinBudget(exhausted'[i].turns, exhausted'[i].total)
    BY <2>6, <2>10
  <2>12. \A i, j \in 1..Len(exhausted') : exhausted'[i].topic = exhausted'[j].topic => i = j
    <3> SUFFICES ASSUME NEW i \in 1..Len(exhausted'), NEW j \in 1..Len(exhausted'),
                        exhausted'[i].topic = exhausted'[j].topic
                 PROVE  i = j
      OBVIOUS
    <3>1. i + drop = j + drop
      BY <2>6, <2>10
    <3> QED
      BY <3>1, <2>7
  <2>13. Len(exhausted') <= TopicsCap /\ active' \in Nat
    BY <2>2, <2>5, <2>7, <2>10
  <2> QED
    BY <2>10, <2>11, <2>12, <2>13 DEF ClustersOK
<1>5. CASE ~embedded
  BY <1>1, <1>2, <1>3, <1>5
<1> QED
  BY <1>4, <1>5

\* Nobody has taken a turn.
LEMMA ZeroWithinBudget ==
  ASSUME CascadeConstants
  PROVE  WithinBudget(Zero, 0) /\ Zero \in [Agents -> Nat]
<1>1. TurnsTaken(Zero) = {}
  BY DEF TurnsTaken, Zero
<1> QED
  BY <1>1, FS_EmptySet DEF WithinBudget, Zero, CascadeConstants

\* A topic that is taken up has its debt or none, and the cluster of it or none.
LEMMA ReigniteOK ==
  ASSUME CascadeConstants, CascadeInv, NEW t \in Topics, Reignite(t)
  PROVE  /\ ClustersOK(exhausted') /\ active' \in Nat /\ agreed' = {}
         /\ agentTurns' \in [Agents -> Nat] /\ totalTurns' \in Nat
         /\ WithinBudget(agentTurns', totalTurns')
         /\ active' # 0 =>
              /\ active' \in DOMAIN exhausted' /\ exhausted'[active'].topic = t
              /\ exhausted'[active'].turns = agentTurns' /\ exhausted'[active'].total = totalTurns'
<1>1. PICK expired \in 0..Len(exhausted), embedded \in {TRUE} \cup {~EmbedFails} :
        LET ms  == SubSeq(exhausted, expired + 1, Len(exhausted))
            hit == IF embedded THEN Matches(ms, t) ELSE {}
        IN  /\ exhausted' = ms
            /\ agreed' = {}
            /\ \/ /\ hit = {}
                  /\ active' = Unmatched
                  /\ agentTurns' = Zero /\ totalTurns' = 0
               \/ \E i \in hit :
                  /\ active' = i
                  /\ agentTurns' = ms[i].turns /\ totalTurns' = ms[i].total
  BY DEF Reignite
<1>2. ClustersOK(exhausted')
  BY <1>1, SuffixOK DEF CascadeInv
<1>3. \/ active' = 0 /\ agentTurns' = Zero /\ totalTurns' = 0
      \/ \E i \in Matches(exhausted', t) :
           active' = i /\ agentTurns' = exhausted'[i].turns /\ totalTurns' = exhausted'[i].total
  BY <1>1 DEF Unmatched
<1>4. CASE active' = 0 /\ agentTurns' = Zero /\ totalTurns' = 0
  BY <1>1, <1>2, <1>4, ZeroWithinBudget
<1>5. ASSUME NEW i \in Matches(exhausted', t),
             active' = i, agentTurns' = exhausted'[i].turns, totalTurns' = exhausted'[i].total
      PROVE  /\ active' \in Nat /\ active' \in DOMAIN exhausted' /\ exhausted'[active'].topic = t
             /\ agentTurns' \in [Agents -> Nat] /\ totalTurns' \in Nat
             /\ WithinBudget(agentTurns', totalTurns')
  <2>1. exhausted' \in Seq(Clusters) /\ i \in 1..Len(exhausted') /\ exhausted'[i].topic = t
    BY <1>2 DEF ClustersOK, Matches
  <2>2. exhausted'[i] \in Clusters
    BY <2>1
  <2> QED
    BY <1>2, <1>5, <2>1, <2>2 DEF ClustersOK, Clusters
<1> QED
  BY <1>1, <1>2, <1>3, <1>4, <1>5

-----------------------------------------------------------------------------
(* The conversation: steps.                                                *)

\* A turn more is a turn taken more.
LEMMA TurnTaken ==
  ASSUME CascadeConstants, NEW turns \in [Agents -> Nat], NEW total \in Nat,
         WithinBudget(turns, total), NEW a \in Agents, turns[a] < TurnBudget, total < ThreadCeiling
  PROVE  WithinBudget([turns EXCEPT ![a] = @ + 1], total + 1)
<1> DEFINE more == [turns EXCEPT ![a] = @ + 1]
           x == <<a, turns[a] + 1>>
<1>1. more \in [Agents -> Nat] /\ more[a] = turns[a] + 1 /\ \A b \in Agents \ {a} : more[b] = turns[b]
  OBVIOUS
<1>2. \A b \in Agents : more[b] <= TurnBudget
  BY <1>1 DEF WithinBudget, CascadeConstants
<1>3. total + 1 <= ThreadCeiling
  BY DEF CascadeConstants
<1> HIDE DEF more
<1>4. 1 .. more[a] = (1 .. turns[a]) \cup {turns[a] + 1}
  BY <1>1
<1>5. TurnsTaken(more) = TurnsTaken(turns) \cup {x}
  <2>1. \A b, k : <<b, k>> \in TurnsTaken(more) <=> b \in Agents /\ k \in 1 .. more[b]
    BY DEF TurnsTaken
  <2>2. \A b, k : <<b, k>> \in TurnsTaken(turns) <=> b \in Agents /\ k \in 1 .. turns[b]
    BY DEF TurnsTaken
  <2>3. \A y \in TurnsTaken(more) : \E b, k : y = <<b, k>>
    BY DEF TurnsTaken
  <2>4. \A y \in TurnsTaken(turns) : \E b, k : y = <<b, k>>
    BY DEF TurnsTaken
  <2>5. TurnsTaken(more) \subseteq TurnsTaken(turns) \cup {x}
    <3> SUFFICES ASSUME NEW y \in TurnsTaken(more) PROVE y \in TurnsTaken(turns) \cup {x}
      OBVIOUS
    <3>1. PICK b, k : y = <<b, k>>
      BY <2>3
    <3>2. b \in Agents /\ k \in 1 .. more[b]
      BY <2>1, <3>1
    <3>3. CASE b = a
      BY <1>4, <2>2, <3>1, <3>2, <3>3
    <3>4. CASE b # a
      BY <1>1, <2>2, <3>1, <3>2, <3>4
    <3> QED
      BY <3>3, <3>4
  <2>6. TurnsTaken(turns) \cup {x} \subseteq TurnsTaken(more)
    <3>1. x \in TurnsTaken(more)
      BY <1>4, <2>1
    <3>2. ASSUME NEW y \in TurnsTaken(turns) PROVE y \in TurnsTaken(more)
      <4>1. PICK b, k : y = <<b, k>>
        BY <2>4
      <4>2. b \in Agents /\ k \in 1 .. turns[b]
        BY <2>2, <4>1
      <4>3. k \in 1 .. more[b]
        BY <1>1, <1>4, <4>2
      <4> QED
        BY <2>1, <4>1, <4>2, <4>3
    <3> QED
      BY <3>1, <3>2
  <2> QED
    BY <2>5, <2>6
<1>6. x \notin TurnsTaken(turns)
  <2> SUFFICES ASSUME x \in TurnsTaken(turns) PROVE FALSE
    OBVIOUS
  <2>1. turns[a] + 1 \in 1 .. turns[a]
    BY DEF TurnsTaken
  <2> QED
    BY <2>1
<1>7. IsFiniteSet(TurnsTaken(turns)) /\ total = Cardinality(TurnsTaken(turns))
  BY DEF WithinBudget
<1>8. IsFiniteSet(TurnsTaken(more)) /\ Cardinality(TurnsTaken(more)) = total + 1
  <2> HIDE DEF x
  <2>1. IsFiniteSet(TurnsTaken(turns) \cup {x})
        /\ Cardinality(TurnsTaken(turns) \cup {x}) = Cardinality(TurnsTaken(turns)) + 1
    BY <1>6, <1>7, FS_AddElement
  <2> QED
    BY <1>5, <1>7, <2>1
<1>9. WithinBudget(more, total + 1)
  BY <1>2, <1>3, <1>8 DEF WithinBudget
<1> QED
  BY <1>9 DEF more

LEMMA CascadeInitial == ASSUME CascadeConstants PROVE CascadeInit => CascadeInv
<1> SUFFICES ASSUME CascadeInit PROVE CascadeInv
  OBVIOUS
<1>1. CascadeTypeOK
  <2>1. agrees \in BOOLEAN /\ peers \in BOOLEAN /\ roomPaused \in BOOLEAN
    BY Zenon DEF CascadeInit
  <2>2. exhausted \in Seq(Clusters) /\ agentTurns \in [Agents -> Nat]
    BY ZeroWithinBudget DEF CascadeInit
  <2> QED
    BY <2>1, <2>2 DEF CascadeInit, CascadeTypeOK
<1>2. WithinBudget(agentTurns, totalTurns)
  BY ZeroWithinBudget DEF CascadeInit
<1>3. ClustersOK(exhausted)
  BY DEF CascadeInit, ClustersOK, CascadeConstants
<1> QED
  BY <1>1, <1>2, <1>3 DEF CascadeInit, CascadeInv, SpeakerMayPost, DebtFollowsTopic, VotesSeen,
     NobodyWedged

\* Steps that leave the topic, its turns and the memory alone.
LEMMA TalkKept ==
  ASSUME CascadeInv, CascadeTypeOK', UNCHANGED <<topic, loopGuard, memory>>,
         roomPc' \notin {"idle", "stopped"} => roomPc \notin {"idle", "stopped"},
         roomPc' \in {"compose", "send"} => speaker' \in Agents /\ can_contribute(speaker'),
         votes \subseteq votes', NobodyWedged'
  PROVE  CascadeInv'
<1>1. UNCHANGED <<topic, agentTurns, totalTurns, agreed, exhausted, active>>
  BY DEF loopGuard, memory
<1>2. WithinBudget(agentTurns, totalTurns)' /\ ClustersOK(exhausted)'
  BY <1>1 DEF CascadeInv
<1>3. SpeakerMayPost'
  BY <1>1 DEF CascadeInv, SpeakerMayPost, can_contribute
<1>4. DebtFollowsTopic'
  BY <1>1 DEF CascadeInv, DebtFollowsTopic
<1>5. VotesSeen'
  BY <1>1 DEF CascadeInv, VotesSeen
<1> QED
  BY <1>2, <1>3, <1>4, <1>5 DEF CascadeInv

LEMMA EndQuietlyInv == ASSUME CascadeInv, PausedAbort \/ RoundCap PROVE CascadeInv'
<1>1. CascadeTypeOK' /\ NobodyWedged'
  BY DEF CascadeInv, CascadeTypeOK, NobodyWedged, PausedAbort, RoundCap, EndQuietly, round, loopGuard, memory
<1> QED
  BY <1>1, TalkKept DEF PausedAbort, RoundCap, EndQuietly

LEMMA PlanRoundInv == ASSUME CascadeInv, PlanRound PROVE CascadeInv'
<1>1. CascadeTypeOK' /\ NobodyWedged'
  BY DEF CascadeInv, CascadeTypeOK, NobodyWedged, PlanRound, loopGuard, memory
<1> QED
  BY <1>1, TalkKept DEF PlanRound

LEMMA SlotInv ==
  ASSUME CascadeInv, NEW a \in Agents, TakeSlot(a) \/ SkipSlot(a)
  PROVE  CascadeInv'
<1>1. CASE TakeSlot(a)
  <2>1. CascadeTypeOK' /\ NobodyWedged'
    BY <1>1 DEF CascadeInv, CascadeTypeOK, NobodyWedged, TakeSlot, loopGuard, memory
  <2> QED
    BY <1>1, <2>1, TalkKept DEF TakeSlot
<1>2. CASE SkipSlot(a)
  <2>1. CascadeTypeOK' /\ NobodyWedged'
    BY <1>2 DEF CascadeInv, CascadeTypeOK, NobodyWedged, SkipSlot, loopGuard, memory
  <2> QED
    BY <1>2, <2>1, TalkKept DEF SkipSlot
<1> QED
  BY <1>1, <1>2

LEMMA EndRoundInv == ASSUME CascadeInv, EndRound PROVE CascadeInv'
<1>1. CascadeTypeOK' /\ NobodyWedged'
  BY DEF CascadeInv, CascadeTypeOK, NobodyWedged, EndRound, loopGuard, memory
<1>2. roomPc' \in {"finish", "round"} /\ UNCHANGED <<topic, loopGuard, memory, votes>>
  BY DEF EndRound
<1> QED
  BY <1>1, <1>2, TalkKept DEF EndRound

LEMMA ComposeInv == ASSUME CascadeInv, NoPost \/ Generate \/ PostUnanswered PROVE CascadeInv'
<1>1. speaker \in Agents /\ can_contribute(speaker)
  BY DEF CascadeInv, SpeakerMayPost, NoPost, Generate, PostUnanswered
<1>2. CascadeTypeOK' /\ NobodyWedged'
  BY <1>1 DEF CascadeInv, CascadeTypeOK, NobodyWedged, NoPost, Generate, PostUnanswered, BackToIdle,
     round, loopGuard, memory
<1> QED
  BY <1>1, <1>2, TalkKept DEF NoPost, Generate, PostUnanswered

LEMMA PostInv == ASSUME CascadeConstants, CascadeInv, Post PROVE CascadeInv'
<1>1. roomPc = "send" /\ speaker \in Agents /\ can_contribute(speaker) /\ topic \in Topics
  BY DEF CascadeInv, SpeakerMayPost, Post
<1>2. agentTurns \in [Agents -> Nat] /\ totalTurns \in Nat /\ active \in Nat
  BY DEF CascadeInv, CascadeTypeOK
<1>3. WithinBudget(agentTurns', totalTurns')
  BY <1>1, <1>2, TurnTaken DEF CascadeInv, Post, can_contribute
<1>4. agentTurns' \in [Agents -> Nat] /\ totalTurns' \in Nat
  BY <1>1, <1>2 DEF Post
<1>5. ClustersOK(exhausted)
  BY DEF CascadeInv
<1>6. ASSUME active \in DOMAIN exhausted
      PROVE  ClustersOK(exhausted') /\ active' \in Nat /\ DebtFollowsTopic'
  <2> DEFINE c == [topic |-> exhausted[active].topic, turns |-> agentTurns', total |-> totalTurns']
  <2>1. active' = active /\ exhausted' = [exhausted EXCEPT ![active] = c]
    BY <1>6 DEF Post, Charged
  <2>2. exhausted \in Seq(Clusters) /\ active \in 1..Len(exhausted) /\ active # 0
    BY <1>5, <1>6 DEF ClustersOK
  <2>3. exhausted[active] \in Clusters
    BY <2>2
  <2>4. c \in Clusters /\ c.topic = exhausted[active].topic /\ c.turns = agentTurns' /\ c.total = totalTurns'
    BY <1>4, <2>3 DEF Clusters
  <2> HIDE DEF c
  <2>5. /\ exhausted' \in Seq(Clusters) /\ Len(exhausted') = Len(exhausted)
        /\ exhausted'[active] = c /\ DOMAIN exhausted' = DOMAIN exhausted
        /\ \A i \in 1..Len(exhausted) : i # active => exhausted'[i] = exhausted[i]
    BY <2>1, <2>2, <2>4
  <2>6. \A i \in 1..Len(exhausted') : exhausted'[i].topic = exhausted[i].topic
    BY <2>4, <2>5
  <2>7. \A i \in 1..Len(exhausted') : WithinBudget(exhausted'[i].turns, exhausted'[i].total)
    BY <1>3, <1>5, <2>4, <2>5 DEF ClustersOK
  <2>8. ClustersOK(exhausted')
    BY <1>5, <2>5, <2>6, <2>7 DEF ClustersOK
  <2>9. exhausted[active].topic = topic
    BY <1>1, <2>2 DEF CascadeInv, DebtFollowsTopic
  <2> QED
    BY <1>2, <1>6, <2>1, <2>2, <2>4, <2>5, <2>8, <2>9 DEF Post, DebtFollowsTopic
<1>7. ASSUME active \notin DOMAIN exhausted
      PROVE  ClustersOK(exhausted') /\ active' \in Nat /\ DebtFollowsTopic'
  BY <1>5, <1>7 DEF Post, Charged, DebtFollowsTopic
<1>8. ClustersOK(exhausted)' /\ active' \in Nat /\ DebtFollowsTopic'
  BY <1>6, <1>7
<1>9. CascadeTypeOK'
  BY <1>1, <1>4, <1>8 DEF CascadeInv, CascadeTypeOK, Post, BackToIdle, ClustersOK
<1>10. SpeakerMayPost' /\ NobodyWedged' /\ VotesSeen'
  BY <1>1 DEF CascadeInv, CascadeTypeOK, SpeakerMayPost, NobodyWedged, VotesSeen, Post, BackToIdle
<1> QED
  BY <1>3, <1>8, <1>9, <1>10 DEF CascadeInv

LEMMA SeedInv ==
  ASSUME CascadeConstants, CascadeInv, NEW t \in Topics, Seed(t) \/ Interrupt(t)
  PROVE  CascadeInv'
<1>1. SeedTopic(t) /\ UNCHANGED <<speaker, agrees, state, roomPaused>> /\ roomPc \in {"idle", "slot"}
  BY DEF Seed, Interrupt
<1>2. /\ ClustersOK(exhausted') /\ active' \in Nat /\ agreed' = {}
      /\ agentTurns' \in [Agents -> Nat] /\ totalTurns' \in Nat
      /\ WithinBudget(agentTurns', totalTurns')
      /\ active' # 0 =>
           /\ active' \in DOMAIN exhausted' /\ exhausted'[active'].topic = t
           /\ exhausted'[active'].turns = agentTurns' /\ exhausted'[active'].total = totalTurns'
  BY <1>1, ReigniteOK DEF SeedTopic
<1>3. CascadeTypeOK'
  <2>1. agrees' \in BOOLEAN /\ peers' \in BOOLEAN /\ roomPaused' \in BOOLEAN
    BY <1>1, Zenon DEF CascadeInv, CascadeTypeOK, SeedTopic
  <2>2. exhausted' \in Seq(Clusters)
    BY <1>2 DEF ClustersOK
  <2>3. /\ roomPc' = "round" /\ topic' \in Topics /\ rounds' \in Nat /\ trigger' = NoAgent
        /\ plan' = {} /\ lastPost' = NoAgent /\ lastPoster' = NoAgent /\ votes' = {} /\ seeds' \in Nat
    BY <1>1 DEF CascadeInv, CascadeTypeOK, SeedTopic
  <2>4. speaker' \in Agents \cup {NoAgent} /\ state' \in [Agents -> {"Idle", "Thinking"}]
    BY <1>1 DEF CascadeInv, CascadeTypeOK
  <2> QED
    BY <1>2, <2>1, <2>2, <2>3, <2>4 DEF CascadeTypeOK
<1>4. SpeakerMayPost' /\ DebtFollowsTopic' /\ NobodyWedged' /\ VotesSeen'
  BY <1>1, <1>2 DEF CascadeInv, SpeakerMayPost, DebtFollowsTopic, NobodyWedged, VotesSeen, SeedTopic
<1> QED
  BY <1>2, <1>3, <1>4 DEF CascadeInv

LEMMA RememberInv == ASSUME CascadeConstants, CascadeInv, AfterSlot \/ Finish PROVE CascadeInv'
<1>1. /\ UNCHANGED <<topic, round, speaker, agrees, loopGuard, lastPoster, state, roomPaused, votes, seeds>>
      /\ roomPc \in {"recorded", "finish"} /\ roomPc' \in {"idle", "slot"}
      /\ \/ RecordExhausted /\ roomPc' = "idle"
         \/ UNCHANGED memory
  BY DEF AfterSlot, Finish
<1>2. CASE UNCHANGED memory
  <2>1. CascadeTypeOK' /\ NobodyWedged'
    BY <1>1, <1>2 DEF CascadeInv, CascadeTypeOK, NobodyWedged, round, loopGuard, memory
  <2> QED
    BY <1>1, <1>2, <2>1, TalkKept
<1>3. CASE RecordExhausted /\ roomPc' = "idle"
  <2>1. ClustersOK(exhausted') /\ active' \in Nat
    BY <1>1, <1>3, RecordOK DEF CascadeInv, SpeakerMayPost
  <2>2. CascadeTypeOK' /\ NobodyWedged' /\ SpeakerMayPost' /\ DebtFollowsTopic' /\ VotesSeen'
    BY <1>1, <1>3, <2>1 DEF CascadeInv, CascadeTypeOK, NobodyWedged, SpeakerMayPost, DebtFollowsTopic,
       VotesSeen, ClustersOK, round, loopGuard
  <2>3. WithinBudget(agentTurns, totalTurns)'
    BY <1>1 DEF CascadeInv, loopGuard
  <2> QED
    BY <2>1, <2>2, <2>3 DEF CascadeInv
<1> QED
  BY <1>1, <1>2, <1>3

LEMMA OutsideInv ==
  ASSUME CascadeConstants, CascadeInv, SetRoomPause \/ StaleLeadership \/ Restart
  PROVE  CascadeInv'
<1>1. CASE SetRoomPause
  <2>1. CascadeTypeOK' /\ NobodyWedged'
    BY <1>1 DEF CascadeInv, CascadeTypeOK, NobodyWedged, SetRoomPause, round, loopGuard, memory
  <2> QED
    BY <1>1, <2>1, TalkKept DEF SetRoomPause, CascadeInv, SpeakerMayPost
<1>2. CASE StaleLeadership
  <2>1. CascadeTypeOK' /\ NobodyWedged'
    BY <1>2 DEF CascadeInv, CascadeTypeOK, NobodyWedged, StaleLeadership, BackToIdle, round, loopGuard,
       memory
  <2> QED
    BY <1>2, <2>1, TalkKept DEF StaleLeadership
<1>3. CASE Restart
  <2>1. CascadeTypeOK'
    <3>1. agrees' \in BOOLEAN /\ peers' \in BOOLEAN /\ roomPaused' \in BOOLEAN
      BY <1>3, Zenon DEF Restart, CascadeInv, CascadeTypeOK
    <3>2. exhausted' \in Seq(Clusters) /\ agentTurns' \in [Agents -> Nat]
      BY <1>3, ZeroWithinBudget DEF Restart
    <3> QED
      BY <1>3, <3>1, <3>2 DEF Restart, CascadeInv, CascadeTypeOK
  <2>2. WithinBudget(agentTurns, totalTurns)'
    BY <1>3, ZeroWithinBudget DEF Restart
  <2>3. ClustersOK(exhausted)'
    BY <1>3 DEF Restart, ClustersOK, CascadeConstants
  <2> QED
    BY <1>3, <2>1, <2>2, <2>3 DEF Restart, CascadeInv, SpeakerMayPost, DebtFollowsTopic, VotesSeen,
       NobodyWedged
<1> QED
  BY <1>1, <1>2, <1>3

LEMMA CascadeStep ==
  ASSUME CascadeConstants, CascadeInv, [CascadeNext]_cascadeVars
  PROVE  CascadeInv'
<1>1. CASE UNCHANGED cascadeVars
  BY <1>1 DEF cascadeVars, round, loopGuard, memory, CascadeInv, CascadeTypeOK, WithinBudget, ClustersOK,
     SpeakerMayPost, can_contribute, DebtFollowsTopic, VotesSeen, NobodyWedged
<1> QED
  BY <1>1, EndQuietlyInv, PlanRoundInv, SlotInv, EndRoundInv, ComposeInv, PostInv, SeedInv, RememberInv,
     OutsideInv DEF CascadeNext, RoomStep

\* No topic passes its ceiling and no agent its budget, however topics are
\* interrupted, exhausted, remembered, forgotten and taken up again; the active
\* cluster is charged with the topic's own turns, a topic has one cluster, a
\* counted vote was seen by the room, and no agent stays marked busy
\* (room.rs, loop_prevention.rs).
THEOREM CascadeSafetyTheorem ==
  ASSUME CascadeConstants
  PROVE  CascadeSpec => []CascadeSafety
<1>1. CascadeInv => CascadeSafety
  BY DEF CascadeInv, CascadeSafety, BudgetHeld, WithinBudget, ClustersOK, OneClusterPerTopic
<1>2. CascadeInit => CascadeInv
  BY CascadeInitial
<1>3. CascadeInv /\ [CascadeNext]_cascadeVars => CascadeInv'
  BY CascadeStep
<1> QED
  BY <1>1, <1>2, <1>3, PTL DEF CascadeSpec
=============================================================================
