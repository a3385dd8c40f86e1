--------------------------- MODULE Agents_proofs ---------------------------
(***************************************************************************)
(* Proofs about agents and what they run on: the circuit breaker of a      *)
(* provider, the Plutus gate of an organisation, a Hephaestus task through *)
(* crashes, and the sessions of the agents (SessionSafety).                *)
(***************************************************************************)
EXTENDS AgentSession, CircuitBreaker, PlutusGate, HephaestusTask, FiniteSetTheorems,
  WellFoundedInduction, TLAPS

-----------------------------------------------------------------------------
(* The circuit breaker: BreakerSpec => []NoWedge.                          *)

(* Counters are counted up to their cap.                                   *)
LEMMA CappedFacts ==
  ASSUME NEW n \in Nat, NEW cap \in Nat
  PROVE  Capped(n, cap) = IF n <= cap THEN n ELSE cap
<1>1. \A x \in {n, cap} : (\A y \in {n, cap} : x <= y) <=> x = IF n <= cap THEN n ELSE cap
  OBVIOUS
<1>2. Min({n, cap}) = CHOOSE x \in {n, cap} : \A y \in {n, cap} : x <= y
  BY DEF Min
<1>3. PICK x \in {n, cap} : x = IF n <= cap THEN n ELSE cap
  OBVIOUS
<1> QED
  BY <1>1, <1>2, <1>3 DEF Capped

(* A call that takes a step: where it was and where it is.                 *)
LEMMA BreakerGo ==
  ASSUME BreakerTypeOK, NEW c \in Calls, NEW step \in Steps, Go(c, step)
  PROVE  /\ pc' \in [Calls -> Steps] /\ pc'[c] = step
         /\ \A d \in Calls : d # c => pc'[d] = pc[d]
BY DEF BreakerTypeOK, Go

LEMMA BreakerCallStep ==
  ASSUME CircuitConstants, BreakerInv, NEW c \in Calls, Step(c)
  PROVE  BreakerInv'
<1>0. BreakerTypeOK /\ NoWedge /\ ProbeMax \in Nat
  BY DEF BreakerInv, CircuitConstants
<1>1. CASE Decide(c)
  <2>1. \E step \in {"running", "probe", "elapsed"} : Go(c, step)
    BY <1>0, <1>1 DEF Decide, BreakerTypeOK
  <2>2. pc[c] = "idle" /\ UNCHANGED <<state, half, unheard>>
    BY <1>1 DEF Decide, At, breaker
  <2> QED
    BY <2>1, <2>2, <1>0, BreakerGo DEF BreakerInv, BreakerTypeOK, NoWedge, Steps
<1>2. CASE Elapsed(c)
  <2>1. Go(c, "exchange") \/ Go(c, "idle")
    BY <1>2 DEF Elapsed
  <2>2. pc[c] = "elapsed" /\ UNCHANGED <<state, half, unheard>>
    BY <1>2 DEF Elapsed, At, breaker
  <2> QED
    BY <2>1, <2>2, <1>0, BreakerGo DEF BreakerInv, BreakerTypeOK, NoWedge, Steps
<1>3. CASE Exchange(c)
  <2>1. CASE state = "open"
    BY <1>0, <1>3, <2>1, BreakerGo DEF Exchange, BreakerInv, BreakerTypeOK, NoWedge, Steps
  <2>2. CASE state # "open"
    <3>1. pc[c] = "exchange" /\ UNCHANGED <<state, half, unheard>> /\ Go(c, "probe")
      BY <1>3, <2>2 DEF Exchange, At
    <3> QED
      BY <3>1, <1>0, BreakerGo DEF BreakerInv, BreakerTypeOK, NoWedge, Steps
  <2> QED
    BY <2>1, <2>2
<1>4. CASE ResetProbes(c) \/ FreeProbes(c)
  <2>1. Go(c, "probe") \/ Go(c, "closing")
    BY <1>4 DEF ResetProbes, FreeProbes
  <2>2. half' = 0 /\ state' = state
    BY <1>4 DEF ResetProbes, FreeProbes
  <2>3. unheard' \in BOOLEAN
    BY <1>4, Zenon DEF ResetProbes, FreeProbes
  <2>4. BreakerTypeOK'
    BY <2>1, <2>2, <2>3, <1>0, BreakerGo DEF BreakerTypeOK, Steps
  <2>5. NoWedge'
    BY <2>2, <1>0 DEF NoWedge, CircuitConstants
  <2> QED
    BY <2>4, <2>5 DEF BreakerInv
<1>5. CASE Probe(c)
  <2>1. half' = IF half < ProbeMax THEN half + 1 ELSE half
    BY <1>0, <1>5, CappedFacts DEF Probe, BreakerTypeOK
  <2>2. pc[c] = "probe" /\ UNCHANGED <<state, unheard>>
    BY <1>5 DEF Probe, At
  <2>3. CASE half < ProbeMax
    BY <1>0, <1>5, <2>1, <2>2, <2>3, BreakerGo DEF Probe, BreakerInv, BreakerTypeOK, NoWedge, Steps
  <2>4. CASE half >= ProbeMax
    <3>1. Go(c, "idle") /\ half' = half
      BY <1>0, <1>5, <2>1, <2>4 DEF Probe, BreakerTypeOK
    <3> QED
      BY <3>1, <1>0, <2>2, BreakerGo DEF BreakerInv, BreakerTypeOK, NoWedge, Steps
  <2> QED
    BY <1>0, <2>3, <2>4 DEF BreakerTypeOK
<1>6. CASE Invoked(c)
  <2>1. /\ Go(c, "cleared") \/ Go(c, "failed")
        /\ UNCHANGED <<state, half, unheard>>
    BY <1>6 DEF Invoked, Answered, breaker
  <2> QED
    BY <2>1, <1>0, BreakerGo DEF BreakerInv, BreakerTypeOK, NoWedge, Steps
<1>7. CASE Unrecorded(c)
  BY <1>0, <1>7, BreakerGo DEF Unrecorded, Answered, breaker, BreakerInv, BreakerTypeOK, NoWedge, Steps
<1>8. CASE ClearFails(c) \/ Stamp(c) \/ Count(c)
  <2>1. /\ Go(c, "freed") \/ Go(c, "stamped") \/ Go(c, "counted")
        /\ UNCHANGED <<state, half, unheard>>
    BY <1>8 DEF ClearFails, Stamp, Count
  <2> QED
    BY <2>1, <1>0, BreakerGo DEF BreakerInv, BreakerTypeOK, NoWedge, Steps
<1>9. CASE Close(c) \/ Trip(c)
  <2>1. Go(c, "idle") /\ state' \in {"closed", "open"} /\ UNCHANGED <<half, unheard>>
    BY <1>9 DEF Close, Trip
  <2> QED
    BY <2>1, <1>0, BreakerGo DEF BreakerInv, BreakerTypeOK, NoWedge, Steps
<1>10. CASE Judge(c)
  <2>1. /\ Go(c, "opening") \/ (state # "half_open" /\ Go(c, "idle"))
        /\ UNCHANGED <<state, half, unheard>>
    BY <1>10 DEF Judge, breaker
  <2> QED
    BY <2>1, <1>0, BreakerGo DEF BreakerInv, BreakerTypeOK, NoWedge, Steps
<1> QED
  BY <1>1, <1>2, <1>3, <1>4, <1>5, <1>6, <1>7, <1>8, <1>9, <1>10 DEF Step

(* The atomics keep their ranges, and the breaker waits for nobody in vain. *)
LEMMA BreakerInvariant ==
  ASSUME CircuitConstants
  PROVE  BreakerSpec => []BreakerInv
<1>1. CircuitInit => BreakerInv
  <2> SUFFICES ASSUME CircuitInit
               PROVE  BreakerInv
    OBVIOUS
  <2>1. unheard \in BOOLEAN
    BY Zenon DEF CircuitInit
  <2>2. /\ state = "closed" /\ half \in 0 .. ProbeMax
        /\ pc \in [Calls -> Steps]
    BY DEF CircuitInit, CircuitConstants, Steps
  <2> QED
    BY <2>1, <2>2 DEF BreakerInv, BreakerTypeOK, NoWedge
<1>2. BreakerInv /\ [BreakerNext]_breakerVars => BreakerInv'
  <2> SUFFICES ASSUME BreakerInv, [BreakerNext]_breakerVars
               PROVE  BreakerInv'
    OBVIOUS
  <2>1. CASE UNCHANGED <<state, half, pc, unheard>>
    BY <2>1 DEF BreakerInv, BreakerTypeOK, NoWedge, Steps
  <2> QED
    BY <2>1, BreakerCallStep DEF BreakerNext, Clock, Provider, breakerVars, breaker
<1> QED
  BY <1>1, <1>2, PTL DEF BreakerSpec

(* For any number of calls and any threshold, window and number of probes   *)
(* the environment sets: a half-open breaker that lets nobody in waits for *)
(* a call that will tell its result, unless a call ended unrecorded or the  *)
(* number of probes is 0, although its four atomics are never written      *)
(* together.                                                                *)
THEOREM NoWedgeTheorem ==
  ASSUME CircuitConstants
  PROVE  BreakerSpec => []NoWedge
<1>1. BreakerInv => NoWedge
  BY DEF BreakerInv
<1> QED
  BY <1>1, BreakerInvariant, PTL

(* With a half_open_max of 0 the probe lets nobody in, so that a half-open  *)
(* breaker whose last admitted call is over stays half open and rejects     *)
(* every call, whatever the provider and the clock do.                      *)
THEOREM NoProbesTheorem ==
  ASSUME CircuitConstants, ProbeMax = 0
  PROVE  BreakerSpec => [][Stuck => Stuck']_breakerVars
<1> DEFINE Outside == {"idle", "elapsed", "exchange", "reset", "probe"}
<1>1. BreakerInv /\ [BreakerNext]_breakerVars => (Stuck => Stuck')
  <2> SUFFICES ASSUME BreakerInv, [BreakerNext]_breakerVars, Stuck PROVE Stuck'
    OBVIOUS
  <2>0. half = 0 /\ BreakerTypeOK
    BY DEF BreakerInv, BreakerTypeOK
  <2>1. CASE UNCHANGED <<state, pc>>
    BY <2>1 DEF Stuck
  <2>2. ASSUME NEW c \in Calls, Step(c) PROVE Stuck'
    <3>1. pc[c] \in Outside /\ state = "half_open"
      BY DEF Stuck
    <3>2. state' = state /\ \E step \in Outside : Go(c, step)
      <4>1. CASE Decide(c)
        BY <3>1, <4>1 DEF Decide, breaker
      <4>2. CASE Elapsed(c)
        BY <4>2 DEF Elapsed, breaker
      <4>3. CASE Exchange(c) \/ ResetProbes(c)
        BY <3>1, <4>3 DEF Exchange, ResetProbes
      <4>4. CASE Probe(c)
        BY <2>0, <4>4 DEF Probe
      <4>5. pc[c] \notin {"running", "cleared", "freed", "closing", "failed", "stamped", "counted", "opening"}
        BY <3>1
      <4> QED
        BY <2>2, <4>1, <4>2, <4>3, <4>4, <4>5
        DEF Step, Invoked, Unrecorded, Answered, ClearFails, FreeProbes, Close, Stamp, Count, Judge, Trip, At
    <3> QED
      BY <2>0, <3>1, <3>2 DEF Stuck, Go, BreakerTypeOK
  <2> QED
    BY <2>1, <2>2 DEF BreakerNext, Clock, Provider, breakerVars, breaker
<1> QED
  BY <1>1, BreakerInvariant, PTL DEF BreakerSpec

-----------------------------------------------------------------------------
(* The Plutus gate: GateSpec => []GateSafety.                              *)

LEMMA ClassFacts ==
  ASSUME NEW i
  PROVE  ActionClass(i).dim \in Dimensions \cup {None}
BY DEF ActionClass, Dimensions

LEMMA DayFacts ==
  ASSUME GateConstants, NEW n \in 0 .. MaxTime
  PROVE  n \div DayTicks \in Days /\ 0 \in Days
<1>1. MaxTime \in Nat /\ DayTicks \in Nat \ {0}
  BY DEF GateConstants
<1>2. n \div DayTicks <= MaxTime \div DayTicks /\ n \div DayTicks \in Nat /\ MaxTime \div DayTicks \in Nat
  BY <1>1
<1> QED
  BY <1>2 DEF Days

(* The requests that are past the counter: finitely many.                  *)
LEMMA PastFinite ==
  ASSUME GateConstants, NEW d
  PROVE  /\ IsFiniteSet(Past(d)) /\ Cardinality(Past(d)) \in Nat
         /\ IsFiniteSet(Chargeable(d)) /\ Cardinality(Chargeable(d)) \in Nat
         /\ Cardinality(Past(d)) <= Cardinality(Chargeable(d))
<1>1. Past(d) \subseteq Chargeable(d) /\ Chargeable(d) \subseteq Requests
  BY DEF Past, Chargeable
<1>2. IsFiniteSet(Requests)
  BY DEF GateConstants
<1>3. IsFiniteSet(Chargeable(d))
  BY <1>1, <1>2, FS_Subset
<1> QED
  BY <1>1, <1>3, FS_Subset, FS_CardinalityType

(* A request on its way: it keeps what it has read, or starts anew with    *)
(* its answer.                                                             *)
LEMMA AnswerFacts ==
  ASSUME GateConstants, GateInv, NEW r \in Requests, NEW p \in Places
  PROVE  /\ Answer(r, p) \in Request /\ Answer(r, p).pc = p /\ Answer(r, p).at <= peak
         /\ p \notin {"allowed", "denied"} => Answer(r, p) = [req[r] EXCEPT !.pc = p]
<1>1. req[r] \in Request /\ req[r].at <= peak /\ peak \in Nat /\ MaxTime \in Nat
  BY DEF GateInv, RequestsOK, RequestOK, BucketOK, GateConstants
<1>2. 0 \in Days
  BY DayFacts DEF GateInv, GateTypeOK
<1>3. CASE p \in {"allowed", "denied"}
  <2>1. Answer(r, p) = [Waiting EXCEPT !.pc = p]
    BY <1>3 DEF Answer
  <2> QED
    BY <2>1, <1>1, <1>2, <1>3 DEF Waiting, Request
<1>4. CASE p \notin {"allowed", "denied"}
  <2>1. Answer(r, p) = [req[r] EXCEPT !.pc = p]
    BY <1>4 DEF Answer
  <2> QED
    BY <2>1, <1>1, <1>4 DEF Request
<1> QED
  BY <1>3, <1>4

(* One request moves on: the others stay, and those past the counter stay  *)
(* past it.                                                                *)
LEMMA RequestMoves ==
  ASSUME GateConstants, GateInv, NEW r \in Requests, NEW q \in Request, RequestOK(r, q),
         req' = [req EXCEPT ![r] = q], UNCHANGED <<local, tier, peak>>,
         req[r].pc \notin Uncounted => q.pc \notin Uncounted
  PROVE  /\ RequestsOK'
         /\ req'[r] = q /\ \A u \in Requests : u # r => req'[u] = req[u]
         /\ \A d : Past(d) \subseteq Past(d)' /\ Cardinality(Past(d)) <= Cardinality(Past(d)')
         /\ \A d : Past(d)' \subseteq Past(d) \cup {r}
         /\ \A u \in Requests : req'[u].pc \in Places
<1>0. RequestsOK
  BY DEF GateInv
<1>1. /\ req' \in [Requests -> Request]
      /\ req'[r] = q /\ \A u \in Requests : u # r => req'[u] = req[u]
  BY <1>0 DEF RequestsOK
<1>2. \A u \in Requests : RequestOK(u, req'[u])
  BY <1>0, <1>1 DEF RequestsOK
<1>3. RequestsOK'
  BY <1>1, <1>2 DEF RequestsOK, RequestOK, Request, Chargeable, ClassOf
<1>4. ASSUME NEW d
      PROVE  Past(d) \subseteq Past(d)' /\ Past(d)' \subseteq Past(d) \cup {r} /\ Cardinality(Past(d)) <= Cardinality(Past(d)')
  <2>1. Past(d) \subseteq Past(d)' /\ Past(d)' \subseteq Past(d) \cup {r}
    BY <1>1 DEF Past, Chargeable, ClassOf
  <2>2. IsFiniteSet(Past(d) \cup {r})
    BY PastFinite, FS_AddElement
  <2>3. IsFiniteSet(Past(d)')
    BY <2>1, <2>2, FS_Subset
  <2> QED
    BY <2>1, <2>3, FS_Subset
<1> QED
  BY <1>1, <1>3, <1>4 DEF Request

(* A step that leaves the counters and the bucket, too.                    *)
LEMMA GotoStep ==
  ASSUME GateConstants, GateInv, NEW r \in Requests, NEW q \in Request, RequestOK(r, q),
         Goto(r, q), req[r].pc \notin Uncounted => q.pc \notin Uncounted
  PROVE  GateInv'
<1>1. /\ UNCHANGED <<local, org, tier, used, bucket, now, setbacks, changes, counted, admitted, peak>>
      /\ req' = [req EXCEPT ![r] = q]
  BY DEF Goto, counters, history
<1>2. /\ RequestsOK' /\ \A u \in Requests : req'[u].pc \in Places
      /\ \A d : Cardinality(Past(d)) <= Cardinality(Past(d)')
  BY <1>1, RequestMoves
<1>3. GateTypeOK' /\ QuotaHonoured'
  BY <1>1, <1>2 DEF GateInv, GateTypeOK, QuotaHonoured, Places, Days
<1>4. CountersOK'
  <2>1. \A d : Cardinality(Past(d)) \in Nat /\ Cardinality(Past(d)') \in Nat
    <3>1. \A d : IsFiniteSet(Past(d)')
      <4>1. \A d : Past(d)' \subseteq Requests
        BY DEF Past, Chargeable
      <4> QED
        BY <4>1, FS_Subset DEF GateConstants
    <3> QED
      BY <3>1, PastFinite, FS_CardinalityType
  <2>2. \A d \in Dimensions, y \in Days : used[d][y] \in Nat /\ counted[d][y] \in Nat
    BY DEF GateInv, GateTypeOK, CountersOK
  <2>3. \A d \in Dimensions, y \in Days : counted[d][y] <= used[d][y] /\ used[d][y] <= Cardinality(Past(d)')
    BY <1>2, <2>1, <2>2 DEF GateInv, CountersOK
  <2> QED
    BY <1>1, <2>3 DEF GateInv, CountersOK, Days
<1>5. BucketOK'
  BY <1>1 DEF GateInv, BucketOK
<1> QED
  BY <1>2, <1>3, <1>4, <1>5 DEF GateInv

(* The steps that only read.                                               *)
LEMMA ReadStep ==
  ASSUME GateConstants, GateInv, NEW r \in Requests,
         \/ CheckOrg(r) \/ CheckRole(r) \/ ReadLimit(r) \/ ReadClock(r) \/ ReadRpm(r)
         \/ FindNoBucket(r) \/ Fail(r)
  PROVE  GateInv'
<1>0. /\ RequestsOK /\ req[r] \in Request /\ RequestOK(r, req[r])
      /\ tier \in TierNames /\ now \in 0 .. MaxTime /\ now <= peak /\ peak \in Nat
      /\ Limits[tier] \in Nat /\ Rpm[tier] \in Nat
  BY DEF GateInv, GateTypeOK, RequestsOK, BucketOK, GateConstants
<1>1. \A p \in Places : /\ Answer(r, p) \in Request /\ Answer(r, p).pc = p /\ Answer(r, p).at <= peak
                        /\ p \notin {"allowed", "denied"} => Answer(r, p) = [req[r] EXCEPT !.pc = p]
  BY AnswerFacts
<1>2. ASSUME NEW p \in {"role", "denied", "clock"}, Goto(r, Answer(r, p)),
             req[r].pc \notin Uncounted => p \notin Uncounted
      PROVE  GateInv'
  <2>1. Answer(r, p) \in Request /\ RequestOK(r, Answer(r, p)) /\ Answer(r, p).pc = p
    BY <1>1, <1>2 DEF RequestOK, Places
  <2> QED
    BY <1>2, <2>1, GotoStep
<1>3. CASE CheckOrg(r)
  BY <1>2, <1>3 DEF CheckOrg, Uncounted
<1>4. CASE CheckRole(r)
  <2>1. CASE ~Permitted(r) \/ ClassOf(r).dim = None
    <3>1. Goto(r, Answer(r, "denied")) \/ Goto(r, Answer(r, "clock"))
      BY <1>4, <2>1 DEF CheckRole
    <3> QED
      BY <1>2, <3>1 DEF Uncounted
  <2>2. CASE Permitted(r) /\ ClassOf(r).dim # None
    <3> DEFINE q == [Answer(r, "quota") EXCEPT !.day = now \div DayTicks]
    <3>1. Goto(r, q) /\ req[r].pc = "role"
      BY <1>4, <2>2 DEF CheckRole
    <3>2. now \div DayTicks \in Days
      BY <1>0, DayFacts
    <3>3. q \in Request /\ q.pc = "quota" /\ q.at <= peak
      BY <1>1, <3>2 DEF Request, Places
    <3>4. ClassOf(r).dim \in Dimensions
      BY <2>2, ClassFacts DEF ClassOf
    <3>5. r \in Chargeable(ClassOf(r).dim)
      BY <2>2 DEF Chargeable, Permitted
    <3>6. RequestOK(r, q)
      <4> HIDE DEF q
      <4> QED
        BY <3>3, <3>4, <3>5 DEF RequestOK
    <3> HIDE DEF q
    <3> QED
      BY <3>1, <3>3, <3>6, GotoStep DEF Uncounted
  <2> QED
    BY <2>1, <2>2
<1>5. CASE ReadLimit(r)
  <2> DEFINE q == [Answer(r, "count") EXCEPT !.limit = Limits[tier]]
  <2>1. Goto(r, q) /\ req[r].pc = "quota"
    BY <1>5 DEF ReadLimit
  <2>2. q \in Request /\ q.pc = "count" /\ q.at <= peak /\ q.limit = Limits[tier]
    BY <1>0, <1>1 DEF Request, Places
  <2> HIDE DEF q
  <2>3. RequestOK(r, q)
    BY <1>0, <2>1, <2>2 DEF RequestOK
  <2> QED
    BY <2>1, <2>2, <2>3, GotoStep DEF Uncounted
<1>6. CASE ReadClock(r)
  <2> DEFINE q == [Answer(r, "rpm") EXCEPT !.at = now]
  <2>1. Goto(r, q) /\ req[r].pc = "clock"
    BY <1>6 DEF ReadClock
  <2>2. q \in Request /\ q.pc = "rpm" /\ q.at <= peak
    BY <1>0, <1>1 DEF Request, Places
  <2> HIDE DEF q
  <2>3. RequestOK(r, q)
    BY <2>2 DEF RequestOK
  <2> QED
    BY <2>1, <2>2, <2>3, GotoStep DEF Uncounted
<1>7. CASE ReadRpm(r)
  <2> DEFINE q == [Answer(r, "bucket") EXCEPT !.rpm = Rpm[tier]]
  <2>1. Goto(r, q) /\ req[r].pc = "rpm"
    BY <1>7 DEF ReadRpm
  <2>2. q \in Request /\ q.pc = "bucket" /\ q.at <= peak /\ q.rpm = Rpm[tier]
    BY <1>0, <1>1 DEF Request, Places
  <2> HIDE DEF q
  <2>3. RequestOK(r, q)
    BY <2>2 DEF RequestOK
  <2> QED
    BY <2>1, <2>2, <2>3, GotoStep DEF Uncounted
<1>8. CASE FindNoBucket(r)
  <2>1. Answer(r, "insert") \in Request /\ RequestOK(r, Answer(r, "insert")) /\ Answer(r, "insert").pc = "insert"
    BY <1>1, <1>8 DEF RequestOK, Places, FindNoBucket
  <2> QED
    BY <1>8, <2>1, GotoStep DEF FindNoBucket, Uncounted
<1>9. CASE Fail(r)
  BY <1>2, <1>9 DEF Fail, Uncounted
<1> QED
  BY <1>3, <1>4, <1>5, <1>6, <1>7, <1>8, <1>9

(* The counter: the request is counted once, and passes only within a      *)
(* limit.                                                                  *)
LEMMA CountStep ==
  ASSUME GateConstants, GateInv, NEW r \in Requests, CheckAndIncrement(r)
  PROVE  GateInv'
<1> DEFINE e == ClassOf(r).dim
           z == req[r].day
           n == used[e][z] + 1
           ok == Within(n, req[r].limit)
<1>0. /\ RequestsOK /\ req[r] \in Request /\ RequestOK(r, req[r]) /\ req[r].pc = "count"
      /\ CountersOK /\ GateTypeOK /\ QuotaHonoured /\ BucketOK
  BY DEF GateInv, RequestsOK, CheckAndIncrement
<1>1. /\ e \in Dimensions /\ z \in Days /\ r \in Chargeable(e)
      /\ \E t \in TierNames : req[r].limit = Limits[t]
  BY <1>0 DEF RequestOK, Request
<1>2. \A d \in Dimensions, y \in Days : used[d][y] \in Nat /\ counted[d][y] \in Nat
  BY <1>0 DEF GateTypeOK, CountersOK
<1>3. /\ used' = [used EXCEPT ![e][z] = n]
      /\ counted' = IF ok THEN [counted EXCEPT ![e][z] = @ + 1] ELSE counted
      /\ req' = [req EXCEPT ![r] = Answer(r, IF ok THEN "clock" ELSE "denied")]
      /\ UNCHANGED <<local, org, tier, bucket, now, setbacks, changes, admitted, peak>>
  BY DEF CheckAndIncrement
<1> HIDE DEF e, z, ok
<1>4. PICK p \in {"clock", "denied"} : req' = [req EXCEPT ![r] = Answer(r, p)]
  BY <1>3
<1>5. Answer(r, p) \in Request /\ RequestOK(r, Answer(r, p)) /\ Answer(r, p).pc = p
  BY AnswerFacts DEF RequestOK, Places
<1>6. /\ RequestsOK' /\ \A u \in Requests : req'[u].pc \in Places
      /\ req'[r].pc = p
      /\ \A d : Past(d) \subseteq Past(d)' /\ Cardinality(Past(d)) <= Cardinality(Past(d)')
      /\ \A d : Past(d)' \subseteq Past(d) \cup {r}
  BY <1>0, <1>3, <1>4, <1>5, RequestMoves DEF Uncounted
<1>7. Cardinality(Past(e)') = Cardinality(Past(e)) + 1
  <2>1. r \notin Past(e)
    BY <1>0 DEF Past, Uncounted
  <2>2. r \in Past(e)'
    BY <1>1, <1>6 DEF Past, Chargeable, ClassOf, Uncounted, e
  <2>3. Past(e)' = Past(e) \cup {r}
    BY <2>2, <1>6
  <2> QED
    BY <2>1, <2>3, PastFinite, FS_AddElement
<1>8. /\ used'[e][z] = used[e][z] + 1
      /\ \A d \in Dimensions, y \in Days : (d # e \/ y # z) => used'[d][y] = used[d][y]
      /\ used' \in [Dimensions -> [Days -> Nat]]
  BY <1>0, <1>1, <1>2, <1>3 DEF GateTypeOK
<1>9. /\ counted'[e][z] = IF ok THEN counted[e][z] + 1 ELSE counted[e][z]
      /\ \A d \in Dimensions, y \in Days : (d # e \/ y # z) => counted'[d][y] = counted[d][y]
      /\ counted' \in [Dimensions -> [Days -> Nat]]
  <2>1. CASE ok
    BY <2>1, <1>0, <1>1, <1>2, <1>3 DEF CountersOK
  <2>2. CASE ~ok
    BY <2>2, <1>0, <1>1, <1>2, <1>3 DEF CountersOK
  <2> QED
    BY <2>1, <2>2
<1>10. QuotaHonoured'
  <2>1. ASSUME NEW d \in Dimensions, NEW y \in Days
        PROVE  \E t \in TierNames : counted'[d][y] <= Limits[t]
    <3>1. CASE d = e /\ y = z /\ ok
      <4>1. PICK t \in TierNames : req[r].limit = Limits[t]
        BY <1>1
      <4>2. counted[e][z] <= used[e][z] /\ used[e][z] + 1 <= Limits[t] /\ Limits[t] \in Nat
        BY <3>1, <4>1, <1>0, <1>1 DEF CountersOK, ok, Within, GateConstants
      <4>3. counted'[d][y] <= Limits[t]
        BY <3>1, <4>2, <1>1, <1>2, <1>9
      <4> QED
        BY <4>3
    <3>2. CASE ~(d = e /\ y = z /\ ok)
      <4>1. counted'[d][y] = counted[d][y]
        BY <3>2, <1>9
      <4> QED
        BY <4>1, <1>0 DEF QuotaHonoured
    <3> QED
      BY <3>1, <3>2
  <2> QED
    BY <2>1 DEF QuotaHonoured, Days
<1>11. CountersOK'
  <2>1. ASSUME NEW d \in Dimensions, NEW y \in Days
        PROVE  counted'[d][y] <= used'[d][y] /\ used'[d][y] <= Cardinality(Past(d)')
    <3>1. /\ Cardinality(Past(d)) \in Nat /\ counted[d][y] <= used[d][y] /\ used[d][y] <= Cardinality(Past(d))
          /\ used[d][y] \in Nat /\ counted[d][y] \in Nat
      BY <1>0, <1>2, PastFinite DEF CountersOK
    <3>2. CASE d = e /\ y = z
      <4>1. Cardinality(Past(d)') = Cardinality(Past(d)) + 1
        BY <3>2, <1>7
      <4> QED
        BY <3>1, <3>2, <4>1, <1>8, <1>9
    <3>3. CASE ~(d = e /\ y = z)
      <4>1. Cardinality(Past(d)') \in Nat /\ Cardinality(Past(d)) <= Cardinality(Past(d)')
        <5>1. Past(d)' \subseteq Requests
          BY DEF Past, Chargeable
        <5>2. IsFiniteSet(Past(d)')
          BY <5>1, FS_Subset DEF GateConstants
        <5> QED
          BY <5>2, <1>6, FS_CardinalityType
      <4>2. used'[d][y] = used[d][y] /\ counted'[d][y] = counted[d][y]
        BY <3>3, <1>8, <1>9
      <4> QED
        BY <3>1, <4>1, <4>2
    <3> QED
      BY <3>2, <3>3
  <2> QED
    BY <2>1, <1>9 DEF CountersOK, Days
<1>12. GateTypeOK' /\ BucketOK'
  BY <1>0, <1>3, <1>6, <1>8 DEF GateTypeOK, BucketOK, Places, Days
<1> QED
  BY <1>6, <1>10, <1>11, <1>12 DEF GateInv

(* A step at the bucket: only the bucket and the request change, and the    *)
(* request is answered.                                                    *)
LEMMA AtBucket ==
  ASSUME GateConstants, GateInv, NEW r \in Requests, NEW p \in {"allowed", "denied"},
         req[r].pc \notin Uncounted, req' = [req EXCEPT ![r] = Answer(r, p)],
         UNCHANGED <<local, org, tier, used, now, setbacks, changes, counted, peak>>,
         bucket' \in [shares : Nat, at : 0 .. MaxTime], BucketOK'
  PROVE  GateInv'
<1>1. Answer(r, p) \in Request /\ RequestOK(r, Answer(r, p)) /\ Answer(r, p).pc = p
  BY AnswerFacts DEF RequestOK, Places
<1>2. /\ RequestsOK' /\ \A u \in Requests : req'[u].pc \in Places
      /\ \A d : Cardinality(Past(d)) <= Cardinality(Past(d)') /\ Past(d) \subseteq Past(d)'
  BY <1>1, RequestMoves DEF Uncounted
<1>3. GateTypeOK' /\ QuotaHonoured'
  BY <1>2 DEF GateInv, GateTypeOK, QuotaHonoured, Places, Days
<1>4. CountersOK'
  <2>1. \A d : Cardinality(Past(d)) \in Nat /\ Cardinality(Past(d)') \in Nat
    <3>1. \A d : Past(d)' \subseteq Requests
      BY DEF Past, Chargeable
    <3>2. \A d : IsFiniteSet(Past(d)')
      BY <3>1, FS_Subset DEF GateConstants
    <3> QED
      BY <3>2, PastFinite, FS_CardinalityType
  <2>2. \A d \in Dimensions, y \in Days : used[d][y] \in Nat /\ counted[d][y] \in Nat
    BY DEF GateInv, GateTypeOK, CountersOK
  <2>3. \A d \in Dimensions, y \in Days : counted[d][y] <= used[d][y] /\ used[d][y] <= Cardinality(Past(d)')
    BY <1>2, <2>1, <2>2 DEF GateInv, CountersOK
  <2> QED
    BY <2>3 DEF GateInv, CountersOK, Days
<1> QED
  BY <1>2, <1>3, <1>4 DEF GateInv

(* A full bucket and its refill: what a request takes and what it leaves   *)
(* come out of the time up to the new base.                                *)
LEMMA Refilled ==
  ASSUME NEW A \in Nat, NEW S \in Nat, NEW R \in Nat, NEW left \in Nat, NEW old \in Nat,
         NEW at \in Nat, A * S + left <= R * (S + old)
  PROVE  /\ A * S + (left + Most(0, at - old) * R) <= R * (S + Most(old, at))
         /\ Most(0, at - old) \in Nat /\ Most(old, at) \in Nat
<1>1. CASE at > old
  <2>1. Most(0, at - old) = at - old /\ Most(old, at) = at /\ at - old \in Nat
    BY <1>1 DEF Most
  <2>2. R * (S + at) = R * (S + old) + (at - old) * R
    BY <2>1
  <2> QED
    BY <2>1, <2>2
<1>2. CASE ~(at > old)
  <2>1. Most(0, at - old) = 0 /\ Most(old, at) = old
    BY <1>2 DEF Most
  <2> QED
    BY <2>1
<1> QED
  BY <1>1, <1>2

(* consume_local_rate_token.                                               *)
LEMMA LocalStep ==
  ASSUME GateConstants, GateInv, NEW r \in Requests, TakeLocal(r)
  PROVE  GateInv'
<1> DEFINE R == Rpm[tier]
           b == IF bucket = None THEN [shares |-> Share * R, at |-> req[r].at] ELSE bucket
           elapsed == Most(0, req[r].at - b.at)
           have == Least(Share * R, b.shares + elapsed * R)
           base == Most(b.at, req[r].at)
           ok == have >= Share
<1>0. /\ req[r] \in Request /\ req[r].at \in 0 .. MaxTime /\ req[r].at <= peak /\ req[r].pc = "bucket"
      /\ req[r].rpm = R /\ R \in Nat /\ Share \in Nat \ {0} /\ MaxTime \in Nat /\ peak \in 0 .. MaxTime
      /\ admitted \in Nat /\ now <= peak /\ local
  BY DEF GateInv, GateTypeOK, RequestsOK, RequestOK, Request, BucketOK, GateConstants, TakeLocal
<1>1. Take(r, have, base)
  BY <1>0 DEF TakeLocal, RefillBase
<1>2. /\ b.shares \in Nat /\ b.at \in 0 .. MaxTime /\ b.at <= peak
      /\ admitted * Share + b.shares <= R * (Share + b.at)
  <2>1. CASE bucket = None
    <3>1. b = [shares |-> Share * R, at |-> req[r].at] /\ admitted = 0
      BY <2>1, <1>0 DEF GateInv, BucketOK
    <3>2. b.shares = Share * R /\ b.at = req[r].at /\ Share * R \in Nat
      BY <3>1, <1>0
    <3>3. R * (Share + req[r].at) = Share * R + R * req[r].at /\ R * req[r].at \in Nat
      BY <1>0
    <3> QED
      BY <3>1, <3>2, <3>3, <1>0
  <2>2. CASE bucket # None
    BY <2>2, <1>0 DEF GateInv, BucketOK
  <2> QED
    BY <2>1, <2>2
<1> HIDE DEF b, R
<1>3. /\ admitted * Share + (b.shares + elapsed * R) <= R * (Share + base)
      /\ elapsed \in Nat /\ base \in Nat
  <2>1. b.shares \in Nat /\ b.at \in Nat /\ req[r].at \in Nat /\ Share \in Nat /\ R \in Nat /\ admitted \in Nat
    BY <1>0, <1>2
  <2> QED
    BY ONLY <2>1, <1>2, Refilled DEF elapsed, base
<1>4. base \in 0 .. MaxTime /\ base <= peak
  BY <1>0, <1>2 DEF Most
<1> HIDE DEF elapsed, base
<1>5. have \in Nat /\ admitted * Share + have <= R * (Share + base)
  <2>1. elapsed * R \in Nat /\ Share * R \in Nat /\ R * (Share + base) \in Nat /\ admitted * Share \in Nat
    BY <1>0, <1>3
  <2> QED
    BY <2>1, <1>2, <1>3 DEF Least
<1> HIDE DEF have
<1>6. /\ bucket' = [shares |-> IF ok THEN have - Share ELSE have, at |-> base]
      /\ admitted' = IF ok THEN admitted + 1 ELSE admitted
      /\ UNCHANGED <<local, org, tier, used, now, setbacks, changes, counted, peak>>
      /\ req' = [req EXCEPT ![r] = Answer(r, IF ok THEN "allowed" ELSE "denied")]
  BY <1>1 DEF Take
<1>7. /\ bucket' \in [shares : Nat, at : 0 .. MaxTime] /\ bucket'.at = base /\ admitted' \in Nat
      /\ bucket'.shares = IF ok THEN have - Share ELSE have
  BY <1>0, <1>4, <1>5, <1>6
<1>8. admitted' * Share + bucket'.shares = admitted * Share + have
  <2>1. (admitted + 1) * Share = admitted * Share + Share
    BY <1>0
  <2> QED
    BY <2>1, <1>0, <1>5, <1>6, <1>7
<1>9. BucketOK'
  <2>1. bucket' # None
    BY <1>7 DEF GateConstants
  <2>2. admitted' * Share + bucket'.shares <= Rpm[tier'] * (Share + bucket'.at)
    BY <1>5, <1>6, <1>7, <1>8 DEF R
  <2> QED
    BY <2>1, <2>2, <1>0, <1>4, <1>6, <1>7 DEF BucketOK
<1> QED
  BY <1>0, <1>6, <1>7, <1>9, AtBucket DEF Uncounted

(* The store's statements, which promise nothing of the rate.              *)
LEMMA StoredStep ==
  ASSUME GateConstants, GateInv, NEW r \in Requests, TakeStored(r) \/ InsertBucket(r)
  PROVE  GateInv'
<1>0. /\ req[r] \in Request /\ req[r].at \in 0 .. MaxTime /\ req[r].rpm \in Nat /\ req[r].pc \in {"bucket", "insert"}
      /\ ~local /\ Share \in Nat /\ admitted \in Nat
  BY DEF GateInv, RequestsOK, RequestOK, Request, BucketOK, GateConstants, TakeStored, InsertBucket
<1>1. ASSUME NEW p \in {"allowed", "denied"}, req' = [req EXCEPT ![r] = Answer(r, p)],
             UNCHANGED <<local, org, tier, used, now, setbacks, changes, counted, peak>>,
             bucket' \in [shares : Nat, at : 0 .. MaxTime], admitted' \in Nat
      PROVE  GateInv'
  <2>1. BucketOK'
    BY <1>0, <1>1 DEF GateInv, BucketOK
  <2> QED
    BY <1>0, <1>1, <2>1, AtBucket DEF Uncounted
<1>2. CASE TakeStored(r)
  <2> DEFINE elapsed == Most(0, req[r].at - bucket.at)
             have == Least(req[r].rpm * Share, bucket.shares + elapsed * req[r].rpm)
             ok == have >= Share
  <2>1. Take(r, have, req[r].at) /\ bucket \in [shares : Nat, at : 0 .. MaxTime]
    BY <1>2 DEF TakeStored, GateInv, BucketOK
  <2>2. elapsed \in Nat
    BY <1>0, <2>1 DEF Most
  <2> HIDE DEF elapsed
  <2>3. have \in Nat
    BY <1>0, <2>1, <2>2 DEF Least
  <2> HIDE DEF have
  <2>4. /\ bucket' = [shares |-> IF ok THEN have - Share ELSE have, at |-> req[r].at]
        /\ admitted' = IF ok THEN admitted + 1 ELSE admitted
        /\ UNCHANGED <<local, org, tier, used, now, setbacks, changes, counted, peak>>
        /\ req' = [req EXCEPT ![r] = Answer(r, IF ok THEN "allowed" ELSE "denied")]
    BY <2>1 DEF Take
  <2>5. PICK p \in {"allowed", "denied"} : req' = [req EXCEPT ![r] = Answer(r, p)]
    BY <2>4
  <2>6. bucket' \in [shares : Nat, at : 0 .. MaxTime] /\ admitted' \in Nat
    BY <1>0, <2>3, <2>4
  <2> QED
    BY <1>1, <2>4, <2>5, <2>6
<1>3. CASE InsertBucket(r)
  <2>1. Most(0, (req[r].rpm - 1) * Share) \in Nat
    BY <1>0 DEF Most
  <2>2. /\ bucket' = [shares |-> Most(0, (req[r].rpm - 1) * Share), at |-> req[r].at]
        /\ admitted' = admitted + 1
        /\ UNCHANGED <<local, org, tier, used, now, setbacks, changes, counted, peak>>
        /\ req' = [req EXCEPT ![r] = Answer(r, "allowed")]
    BY <1>3 DEF InsertBucket
  <2> QED
    BY <1>0, <1>1, <2>1, <2>2
<1> QED
  BY <1>2, <1>3

(* The clock and the administration, while no request moves.               *)
LEMMA SurroundingStep ==
  ASSUME GateConstants, GateInv,
         (\E s \in Statuses : SetOrgStatus(s)) \/ (\E t \in TierNames : ApplyTier(t)) \/ Tick \/ SetBack
         \/ UNCHANGED gateVars
  PROVE  GateInv'
<1>0. GateTypeOK /\ QuotaHonoured /\ RequestsOK /\ CountersOK /\ BucketOK
  BY DEF GateInv
<1>1. /\ UNCHANGED <<local, used, bucket, req, counted, admitted>> /\ (local => tier' = tier)
      /\ peak' \in 0 .. MaxTime /\ now' \in 0 .. MaxTime /\ now' <= peak' /\ peak <= peak' /\ peak \in Nat
      /\ org' \in Statuses /\ tier' \in TierNames
      /\ setbacks' \in 0 .. MaxSetbacks /\ changes' \in 0 .. MaxChanges
  BY <1>0 DEF GateTypeOK, BucketOK, SetOrgStatus, ApplyTier, Tick, SetBack, gateVars, counters, history, Most, GateConstants
<1>2. GateTypeOK' /\ QuotaHonoured'
  BY <1>0, <1>1 DEF GateTypeOK, QuotaHonoured, Days
<1>3. RequestsOK'
  <2>1. ASSUME NEW r \in Requests
        PROVE  req[r].at \in Nat
    BY <1>0 DEF RequestsOK, Request
  <2> QED
    BY <1>0, <1>1, <2>1 DEF RequestsOK, RequestOK, Request, Chargeable, ClassOf, Days
<1>4. CountersOK'
  <2>1. \A d : Past(d)' = Past(d)
    BY <1>1 DEF Past, Chargeable, ClassOf
  <2> QED
    BY <1>0, <1>1, <2>1 DEF CountersOK, Days
<1>5. BucketOK'
  BY <1>0, <1>1 DEF BucketOK
<1> QED
  BY <1>2, <1>3, <1>4, <1>5 DEF GateInv

LEMMA GateInitial ==
  ASSUME GateConstants, GateInit
  PROVE  GateInv
<1>1. 0 \in Days /\ MaxTime \in Nat
  BY DayFacts DEF GateConstants
<1>2. Waiting \in Request /\ req = [r \in Requests |-> Waiting]
  BY <1>1 DEF Waiting, Request, Places, GateInit
<1>3. GateTypeOK
  BY <1>1, <1>2 DEF GateTypeOK, GateInit, Statuses, Waiting, GateConstants
<1>4. QuotaHonoured
  BY DEF QuotaHonoured, GateInit, GateConstants
<1>5. RequestsOK
  BY <1>2 DEF RequestsOK, RequestOK, Waiting, GateInit
<1>6. CountersOK
  BY PastFinite DEF CountersOK, GateInit
<1>7. BucketOK
  BY <1>1 DEF BucketOK, GateInit
<1> QED
  BY <1>3, <1>4, <1>5, <1>6, <1>7 DEF GateInv

LEMMA GateImplies ==
  ASSUME GateConstants, GateInv
  PROVE  GateSafety
<1>1. OnlyPermittedCharged
  <2>1. ASSUME NEW d \in Dimensions, NEW y \in Days
        PROVE  used[d][y] <= Cardinality(Chargeable(d))
    <3>1. used[d][y] \in Nat /\ used[d][y] <= Cardinality(Past(d))
      BY DEF GateInv, GateTypeOK, CountersOK
    <3> QED
      BY <3>1, PastFinite
  <2> QED
    BY <2>1 DEF OnlyPermittedCharged
<1>2. RateHonoured
  <2> SUFFICES ASSUME local PROVE admitted * Share <= Rpm[tier] * (Share + peak)
    BY DEF RateHonoured
  <2>1. Rpm[tier] \in Nat /\ Share \in Nat /\ peak \in Nat /\ admitted \in Nat
    BY DEF GateInv, GateTypeOK, BucketOK, GateConstants
  <2>2. CASE bucket = None /\ admitted = 0
    BY <2>1, <2>2
  <2>3. CASE /\ bucket # None /\ bucket.at <= peak
             /\ admitted * Share + bucket.shares <= Rpm[tier] * (Share + bucket.at)
    <3>1. bucket.shares \in Nat /\ bucket.at \in Nat
      BY <2>3 DEF GateInv, BucketOK
    <3>2. Rpm[tier] * (Share + bucket.at) <= Rpm[tier] * (Share + peak)
      BY <2>1, <2>3, <3>1
    <3>3. admitted * Share \in Nat /\ Rpm[tier] * (Share + bucket.at) \in Nat /\ Rpm[tier] * (Share + peak) \in Nat
      BY <2>1, <3>1
    <3> QED
      BY <2>3, <3>1, <3>2, <3>3
  <2> QED
    BY <2>2, <2>3 DEF GateInv, BucketOK
<1> QED
  BY <1>1, <1>2 DEF GateSafety, GateInv

(* The quota of no dimension is passed by more than a tier's limit on a    *)
(* day, nobody's quota is spent without the right to, and the local bucket *)
(* lets through no more than its first filling and the refill of the time  *)
(* that passed, whatever requests overlap in check_policy, however the     *)
(* clock is set and the tier changed.                                      *)
THEOREM GateSafetyTheorem ==
  ASSUME GateConstants
  PROVE  GateSpec => []GateSafety
<1>1. GateInit => GateInv
  BY GateInitial
<1>2. GateInv /\ [GateNext]_gateVars => GateInv'
  <2> SUFFICES ASSUME GateInv, [GateNext]_gateVars PROVE GateInv'
    OBVIOUS
  <2> QED
    BY ReadStep, CountStep, LocalStep, StoredStep, SurroundingStep DEF GateNext, Handle
<1>3. GateInv => GateSafety
  BY GateImplies
<1> QED
  BY <1>1, <1>2, <1>3, PTL DEF GateSpec

-----------------------------------------------------------------------------
(* A Hephaestus task.                                                      *)

(* mirror_to_kleos: where the executor goes on after each mirror.          *)
LEMMA AfterFacts ==
  /\ DOMAIN After = {"setup", "running", "paused", "resumed", "completed", "failed"}
  /\ After["setup"] = "run" /\ After["running"] = "turn" /\ After["paused"] = "marked"
  /\ After["resumed"] = "turn" /\ After["completed"] = "thread" /\ After["failed"] = "done"
BY DEF After

(* A write to Kleos that is made puts its entry last.                      *)
LEMMA WrittenFacts ==
  ASSUME NEW S, NEW log \in Seq(S), NEW log2, NEW entry \in S, Written(log, log2, entry),
         HephaestusConstants, lost \in 0 .. MaxLost
  PROVE  /\ log2 \in Seq(S) /\ lost' \in 0 .. MaxLost
         /\ \/ log2 = log /\ lost' # 0
            \/ /\ log2 # <<>> /\ Last(log2) = entry /\ DOMAIN log2 = 1 .. Len(log) + 1
               /\ log2[Len(log) + 1] = entry
               /\ \A i \in 1 .. Len(log) : log2[i] = log[i]
<1>1. CASE log2 = Append(log, entry) /\ lost' = lost
  BY <1>1 DEF Last
<1>2. CASE lost < MaxLost /\ lost' = lost + 1 /\ log2 = log
  BY <1>2 DEF HephaestusConstants
<1> QED
  BY <1>1, <1>2 DEF Written

(* What a search for the task returns.                                     *)
LEMMA FoundFacts ==
  ASSUME TaskTypeOK, NEW mark \in Marks, Found(mark)
  PROVE  /\ mirrors # <<>> /\ stale' \in BOOLEAN
         /\ ~stale' => ~stale /\ mark = Last(mirrors)
<1>1. mirrors # <<>>
  BY DEF Found, ToSet
<1> QED
  BY <1>1 DEF Found, TaskTypeOK

LEMMA LatestFacts ==
  ASSUME TaskTypeOK, saved # <<>>
  PROVE  /\ Latest \in Checkpoints /\ Latest = saved[Len(saved)] /\ Len(saved) \in DOMAIN saved
         /\ Latest.done \in Nat /\ Latest.ask \in Nat
<1>1. saved \in Seq(Checkpoints)
  BY DEF TaskTypeOK
<1>2. Latest = saved[Len(saved)] /\ Len(saved) \in DOMAIN saved /\ Latest \in Checkpoints
  BY <1>1 DEF Latest, Last
<1> QED
  BY <1>2 DEF Checkpoints

(* A restart, case by case: the task is over, starts afresh, or goes on    *)
(* from its latest checkpoint.                                             *)
LEMMA RecoverFacts ==
  ASSUME HephaestusConstants, TaskTypeOK, Recover
  PROVE  /\ phase = "down" /\ lost' \in 0 .. MaxLost
         /\ UNCHANGED <<sender, reply, client, mirrors, saved, asked, crashes, alerts, cutShort, threads>>
         /\ mirrors # <<>> /\ stale' \in BOOLEAN /\ (~stale' => ~stale) /\ lost <= lost'
         /\ \/ phase' = "done" /\ UNCHANGED <<rec, turn, done, question, skip>>
            \/ /\ phase' = "run" /\ UNCHANGED <<turn, done, question, skip>>
               /\ rec' \in Marks
               /\ ~stale' /\ lost' = 0 => saved = <<>> \/ Last(mirrors) = "accepted"
               /\ ~stale' => Last(mirrors) # "completed"
            \/ /\ saved # <<>> /\ done' = Latest.done /\ question' = Latest.ask
               /\ skip' = (Latest.ask # 0) /\ phase' = (IF Latest.ask # 0 THEN "ask" ELSE "turn")
               /\ rec' \in Marks /\ (~stale' => Last(mirrors) \notin {"accepted", "completed"})
<1>1. PICK mark \in Marks :
        /\ Found(mark)
        /\ IF mark \in {"completed", "failed"}
           THEN phase' = "done" /\ UNCHANGED <<rec, loop, lost>>
           ELSE ResumeFromKleos(mark)
  BY DEF Recover
<1>2. /\ phase = "down" /\ lost \in 0 .. MaxLost /\ MaxLost \in Nat
      /\ UNCHANGED <<sender, reply, client, mirrors, saved, asked, crashes, alerts, cutShort, threads>>
  BY DEF Recover, kleos, told, TaskTypeOK, HephaestusConstants
<1>3. /\ mirrors # <<>> /\ stale' \in BOOLEAN
      /\ ~stale' => ~stale /\ mark = Last(mirrors)
  BY <1>1, FoundFacts
<1>4. CASE mark \in {"completed", "failed"}
  BY <1>1, <1>2, <1>3, <1>4 DEF loop
<1>5. CASE mark \notin {"completed", "failed"}
  <2>1. CASE mark = "accepted" \/ saved = <<>>
    BY <1>1, <1>2, <1>3, <1>5, <2>1 DEF ResumeFromKleos, Fresh, loop
  <2>2. CASE ~(mark = "accepted" \/ saved = <<>>)
    <3>1. CASE lost < MaxLost /\ lost' = lost + 1 /\ Fresh /\ rec' = mark
      BY <1>2, <1>3, <1>5, <3>1 DEF Fresh, loop
    <3>2. CASE /\ FromCheckpoint(Latest) /\ lost' = lost
               /\ rec' = IF Latest.ask # 0 THEN mark ELSE "running"
      BY <1>2, <1>3, <1>5, <2>2, <3>2 DEF FromCheckpoint, Marks
    <3> QED
      BY <1>1, <1>5, <2>2, <3>1, <3>2 DEF ResumeFromKleos
  <2> QED
    BY <2>1, <2>2
<1> QED
  BY <1>4, <1>5

LEMMA TaskTypeStep ==
  ASSUME HephaestusConstants, TaskTypeOK, [TaskNext]_taskVars
  PROVE  TaskTypeOK'
<1> USE DEF memory, loop, kleos, told, bounds
<1>0. MaxLost \in Nat /\ MaxCrashes \in Nat /\ lost \in 0 .. MaxLost
  BY DEF HephaestusConstants, TaskTypeOK
<1>1. CASE Create \/ Run \/ Model \/ Pause \/ TaskFails \/ UNCHANGED taskVars
  <2>1. CASE Create
    BY <2>1 DEF TaskTypeOK, Create, Marks, Phases, Checkpoints
  <2>2. CASE Run
    BY <2>2 DEF TaskTypeOK, Run, Marks, Phases, Checkpoints
  <2>3. CASE Model
    BY <2>3 DEF TaskTypeOK, Model, Marks, Phases, Working, Asking, Checkpoints
  <2>4. CASE Pause
    BY <2>4 DEF TaskTypeOK, Pause, Marks, Phases, Working, Asking, Checkpoints
  <2>5. CASE TaskFails
    BY <2>5 DEF TaskTypeOK, TaskFails, Marks, Phases, Checkpoints
  <2>6. CASE UNCHANGED taskVars
    BY <2>6 DEF TaskTypeOK, taskVars, Marks, Phases, Checkpoints
  <2> QED
    BY <1>1, <2>1, <2>2, <2>3, <2>4, <2>5, <2>6
<1>9. CASE Tools \/ Stage \/ Resumed
  <2>1. CASE Tools
    BY <2>1 DEF TaskTypeOK, Tools, Marks, Phases, Working, Asking, Checkpoints
  <2>2. CASE Stage
    BY <2>2 DEF TaskTypeOK, Stage, Marks, Phases, Working, Asking, Checkpoints
  <2>3. CASE Resumed
    BY <2>3 DEF TaskTypeOK, Resumed, Marks, Phases, Working, Asking, Checkpoints
  <2> QED
    BY <1>9, <2>1, <2>2, <2>3
<1>2. CASE Mirror
  <2>1. rec \in Marks /\ mirrors \in Seq(Marks)
    BY <1>2, AfterFacts DEF TaskTypeOK, Mirror
  <2>2. mirrors' \in Seq(Marks) /\ lost' \in 0 .. MaxLost
    BY <1>0, <1>2, <2>1, WrittenFacts DEF Mirror
  <2> QED
    BY <1>2, <2>1, <2>2, AfterFacts DEF TaskTypeOK, Mirror, Marks, Phases, Working, Asking, Checkpoints
<1>3. CASE SaveTurn \/ SavePaused
  <2>1. /\ saved \in Seq(Checkpoints) /\ [done |-> done, ask |-> 0] \in Checkpoints
        /\ [done |-> done, ask |-> question] \in Checkpoints
    BY DEF TaskTypeOK, Checkpoints
  <2>2. saved' \in Seq(Checkpoints) /\ lost' \in 0 .. MaxLost
    BY <1>0, <1>3, <2>1, WrittenFacts DEF SaveTurn, SavePaused
  <2> QED
    BY <1>3, <2>2 DEF TaskTypeOK, SaveTurn, SavePaused, Marks, Phases, Working, Asking, Checkpoints
<1>4. CASE Alert
  <2>1. alerts' \in Seq(Nat)
    BY <1>4 DEF TaskTypeOK, Alert
  <2> QED
    BY <1>4, <2>1 DEF TaskTypeOK, Alert, Marks, Phases, Working, Asking, Checkpoints
<1>5. ASSUME NEW ok \in BOOLEAN, Verify(ok)
      PROVE  TaskTypeOK'
  BY <1>5 DEF TaskTypeOK, Verify, Marks, Phases, Working, Asking, Checkpoints
<1>6. CASE Thread \/ NotFound \/ Crash
  <2>1. CASE Thread
    BY <1>0, <2>1 DEF TaskTypeOK, Thread, Marks, Phases, Checkpoints
  <2>2. CASE NotFound
    BY <1>0, <2>2 DEF TaskTypeOK, NotFound, Marks, Phases, Checkpoints
  <2>3. CASE Crash
    <3>1. /\ crashes' \in 0 .. MaxCrashes /\ cutShort' \subseteq Nat
          /\ UNCHANGED <<mirrors, saved, asked, lost, alerts, threads, stale>>
      BY <1>0, <2>3 DEF TaskTypeOK, Crash
    <3>2. /\ phase' = "down" /\ rec' = "none" /\ sender' = 0 /\ reply' = 0
          /\ done' = 0 /\ question' = 0 /\ skip' = FALSE
      BY <2>3 DEF Crash
    <3> QED
      BY <3>1, <3>2 DEF TaskTypeOK, Marks, Phases, Checkpoints
  <2> QED
    BY <1>6, <2>1, <2>2, <2>3
<1>7. ASSUME NEW c \in Clients, Look(c) \/ TakeSender(c)
      PROVE  TaskTypeOK'
  <2>1. /\ UNCHANGED <<rec, phase, done, question, asked, skip, mirrors, saved>>
        /\ UNCHANGED <<alerts, cutShort, threads, stale, lost, crashes>>
    BY <1>7 DEF Look, TakeSender
  <2>2. sender' \in Nat /\ reply' \in Nat
    BY <1>7 DEF TaskTypeOK, Look, TakeSender
  <2> QED
    BY <2>1, <2>2 DEF TaskTypeOK, Marks, Phases, Working, Asking, Checkpoints
<1>8. CASE Recover
  BY <1>8, RecoverFacts, LatestFacts DEF TaskTypeOK, Marks, Phases, Working, Asking, Checkpoints
<1> QED
  BY <1>1, <1>2, <1>3, <1>4, <1>5, <1>6, <1>7, <1>8, <1>9 DEF TaskNext, Executor

(* The bounds only grow: a crash, a loss and a stale search are not        *)
(* forgotten.                                                              *)
LEMMA CrashesGrow ==
  ASSUME HephaestusConstants, TaskTypeOK, [TaskNext]_taskVars
  PROVE  crashes' = crashes \/ (Crash /\ crashes' = crashes + 1 /\ crashes' # 0)
<1> USE DEF memory, loop, kleos, told, bounds
<1>0. crashes \in Nat
  BY DEF TaskTypeOK, HephaestusConstants
<1>1. CASE Create \/ Run \/ Mirror \/ SaveTurn \/ Model \/ Tools \/ Stage \/ Pause
  BY <1>1 DEF Create, Run, Mirror, SaveTurn, Model, Tools, Stage, Pause
<1>2. CASE SavePaused \/ Alert \/ Resumed \/ Thread \/ TaskFails \/ (\E ok \in BOOLEAN : Verify(ok))
  BY <1>2 DEF SavePaused, Alert, Resumed, Thread, TaskFails, Verify
<1>3. CASE Crash
  BY <1>0, <1>3 DEF Crash
<1>4. CASE Recover \/ NotFound \/ (\E c \in Clients : Look(c) \/ TakeSender(c)) \/ UNCHANGED taskVars
  BY <1>4 DEF Recover, NotFound, Look, TakeSender, taskVars
<1> QED
  BY <1>1, <1>2, <1>3, <1>4 DEF TaskNext, Executor

LEMMA LostGrows ==
  ASSUME HephaestusConstants, TaskTypeOK, [TaskNext]_taskVars, lost' = 0, ~stale'
  PROVE  lost = 0 /\ ~stale
<1> USE DEF memory, loop, kleos, told, bounds
<1>0. lost \in Nat
  BY DEF TaskTypeOK, HephaestusConstants
<1>1. CASE Create \/ Run \/ Model \/ Tools \/ Stage \/ Pause \/ Alert \/ Resumed
  BY <1>1 DEF Create, Run, Model, Tools, Stage, Pause, Alert, Resumed
<1>2. CASE Mirror \/ SaveTurn \/ SavePaused
  BY <1>0, <1>2 DEF Mirror, SaveTurn, SavePaused, Written
<1>3. CASE Thread \/ TaskFails \/ Crash \/ NotFound \/ (\E ok \in BOOLEAN : Verify(ok))
  BY <1>0, <1>3 DEF Thread, TaskFails, Crash, NotFound, Verify
<1>4. CASE Recover
  BY <1>0, <1>4, RecoverFacts DEF TaskTypeOK
<1>5. CASE (\E c \in Clients : Look(c) \/ TakeSender(c)) \/ UNCHANGED taskVars
  BY <1>5 DEF Look, TakeSender, taskVars
<1> QED
  BY <1>1, <1>2, <1>3, <1>4, <1>5 DEF TaskNext, Executor

(* A new question has a number of its own, and only a question that was    *)
(* not restored from a checkpoint is alerted.                              *)
LEMMA QuestionsStep ==
  ASSUME HephaestusConstants, TaskTypeOK, QuestionsNew, [TaskNext]_taskVars
  PROVE  QuestionsNew'
<1> USE DEF memory, loop, kleos, told, bounds
<1>0. alerts \in Seq(Nat) /\ asked \in Nat /\ question \in Nat
  BY DEF TaskTypeOK
<1>1. CASE Alert
  <2>1. phase = "alerting" /\ phase' = "waiting" /\ UNCHANGED <<question, skip, asked>>
    BY <1>1 DEF Alert
  <2>2. CASE skip
    BY <1>1, <2>1, <2>2 DEF Alert, QuestionsNew, AlertedOnce, Asking
  <2>3. CASE ~skip
    <3>1. alerts' = Append(alerts, question)
      BY <1>1, <2>3 DEF Alert
    <3>2. /\ question <= asked /\ \A i \in 1 .. Len(alerts) : alerts[i] # question
          /\ \A i \in 1 .. Len(alerts) : alerts[i] <= asked
          /\ \A i, j \in 1 .. Len(alerts) : alerts[i] = alerts[j] => i = j
      BY <1>0, <2>1, <2>3 DEF QuestionsNew, AlertedOnce, IsInjective, Asking
    <3>3. /\ DOMAIN alerts' = 1 .. Len(alerts) + 1 /\ alerts'[Len(alerts) + 1] = question
          /\ \A i \in 1 .. Len(alerts) : alerts'[i] = alerts[i]
          /\ Len(alerts) \in Nat
      BY <1>0, <3>1
    <3>4. \A i \in DOMAIN alerts' : alerts'[i] <= asked'
      BY <2>1, <3>2, <3>3
    <3>5. \A i, j \in DOMAIN alerts' : alerts'[i] = alerts'[j] => i = j
      BY <3>2, <3>3
    <3> QED
      BY <2>1, <3>4, <3>5 DEF QuestionsNew, AlertedOnce, IsInjective, Asking
  <2> QED
    BY <2>2, <2>3
<1>2. CASE Tools
  <2>1. alerts' = alerts /\ phase = "tools"
    BY <1>2 DEF Tools
  <2>2. CASE asked' = asked
    BY <1>2, <2>1, <2>2, <1>0 DEF Tools, QuestionsNew, AlertedOnce, Asking
  <2>3. CASE asked' = asked + 1 /\ question' = asked'
    BY <2>1, <2>3, <1>0 DEF QuestionsNew, AlertedOnce
  <2> QED
    BY <1>2, <2>2, <2>3 DEF Tools
<1>3. CASE UNCHANGED <<alerts, asked>> /\ (phase' \in Asking /\ ~skip' =>
             phase \in Asking /\ ~skip /\ question' = question)
  BY <1>3 DEF QuestionsNew, AlertedOnce
<1>4. CASE Stage \/ Pause \/ SavePaused \/ Mirror
  BY <1>3, <1>4, AfterFacts DEF Stage, Pause, SavePaused, Mirror, Asking
<1>5. CASE Create \/ Run \/ SaveTurn \/ Model \/ Resumed \/ (\E ok \in BOOLEAN : Verify(ok))
  BY <1>3, <1>5 DEF Create, Run, SaveTurn, Model, Resumed, Verify, Asking
<1>6. CASE Thread \/ TaskFails \/ Crash \/ NotFound
  BY <1>3, <1>6 DEF Thread, TaskFails, Crash, NotFound, Asking
<1>7. CASE Recover
  BY <1>3, <1>7, RecoverFacts DEF Asking
<1>8. CASE (\E c \in Clients : Look(c) \/ TakeSender(c)) \/ UNCHANGED taskVars
  BY <1>3, <1>8 DEF Look, TakeSender, taskVars
<1> QED
  BY <1>1, <1>2, <1>4, <1>5, <1>6, <1>7, <1>8 DEF TaskNext, Executor

(* What is alerted stays alerted, and an alert adds the question.          *)
LEMMA AlertedFacts ==
  ASSUME NEW s \in Seq(Nat), NEW q \in Nat
  PROVE  ToSet(Append(s, q)) = ToSet(s) \cup {q}
<1>1. /\ DOMAIN s = 1 .. Len(s) /\ DOMAIN Append(s, q) = 1 .. Len(s) + 1 /\ Len(s) \in Nat
      /\ \A i \in 1 .. Len(s) : Append(s, q)[i] = s[i]
      /\ Append(s, q)[Len(s) + 1] = q
  OBVIOUS
<1>2. ASSUME NEW d \in ToSet(Append(s, q)) PROVE d \in ToSet(s) \cup {q}
  BY <1>1 DEF ToSet
<1>3. ASSUME NEW d \in ToSet(s) \cup {q} PROVE d \in ToSet(Append(s, q))
  <2>1. CASE d = q
    <3>1. Len(s) + 1 \in DOMAIN Append(s, q)
      BY <1>1
    <3> QED
      BY <1>1, <2>1, <3>1 DEF ToSet
  <2>2. CASE d \in ToSet(s)
    <3>1. PICK i \in DOMAIN s : d = s[i]
      BY <2>2 DEF ToSet
    <3>2. i \in DOMAIN Append(s, q) /\ Append(s, q)[i] = d
      BY <1>1, <3>1
    <3> QED
      BY <3>2 DEF ToSet
  <2> QED
    BY <1>3, <2>1, <2>2
<1> QED
  BY <1>2, <1>3

(* A silent question, and one on record, was alerted or cut off.           *)
LEMMA ToldStep ==
  ASSUME HephaestusConstants, TaskTypeOK, QuestionsTold, [TaskNext]_taskVars
  PROVE  QuestionsTold'
<1> USE DEF memory, loop, kleos, told, bounds
<1>0. /\ alerts \in Seq(Nat) /\ question \in Nat /\ done \in Nat /\ saved \in Seq(Checkpoints)
      /\ lost \in 0 .. MaxLost
  BY DEF TaskTypeOK
<1>1. CASE Alert
  <2>1. /\ phase = "alerting" /\ phase' = "waiting"
        /\ UNCHANGED <<question, skip, saved, cutShort>>
    BY <1>1 DEF Alert
  <2>2. Alerted' = IF skip THEN Alerted ELSE Alerted \cup {question}
    BY <1>0, <1>1, <2>1, AlertedFacts DEF Alert, Alerted
  <2>3. question \in Alerted'
    BY <2>2 DEF QuestionsTold
  <2>4. \A i \in DOMAIN saved' : saved'[i].ask \in Alerted' \cup {0}
    BY <2>1, <2>2 DEF QuestionsTold
  <2> QED
    BY <2>1, <2>3, <2>4 DEF QuestionsTold, WaitingAlerted
<1>2. CASE Crash
  <2>1. /\ phase' = "down" /\ skip' = FALSE /\ saved' = saved /\ alerts' = alerts
        /\ cutShort' = cutShort \cup (IF phase = "alerting" /\ ~skip THEN {question} ELSE {})
    BY <1>2 DEF Crash
  <2>2. Alerted' = Alerted \cup (IF phase = "alerting" /\ ~skip THEN {question} ELSE {})
    BY <2>1 DEF Alerted
  <2>3. \A i \in DOMAIN saved' : saved'[i].ask \in Alerted' \cup {0}
    BY <2>1, <2>2 DEF QuestionsTold
  <2> QED
    BY <2>1, <2>3 DEF QuestionsTold, WaitingAlerted
<1>a. CASE UNCHANGED <<alerts, cutShort, saved>> /\ phase # "alerting" /\ phase' # "waiting"
           /\ (skip' => phase' \in Asking /\ question' = question /\ skip)
  <2>1. Alerted' = Alerted
    BY <1>a DEF Alerted
  <2>2. \A i \in DOMAIN saved' : saved'[i].ask \in Alerted' \cup {0}
    BY <1>a, <2>1 DEF QuestionsTold
  <2> QED
    BY <1>a, <2>1, <2>2 DEF QuestionsTold, WaitingAlerted
<1>3. CASE Stage \/ Pause \/ Create \/ Run \/ Model \/ Tools \/ Resumed \/ Thread
           \/ TaskFails \/ NotFound \/ (\E ok \in BOOLEAN : Verify(ok))
  <2>1. CASE Stage \/ Pause
    BY <1>a, <2>1 DEF Stage, Pause, Asking, QuestionsTold
  <2>2. CASE Create \/ Run \/ Model \/ Resumed \/ Thread
    BY <1>a, <2>2 DEF Create, Run, Model, Resumed, Thread, Asking, QuestionsTold
  <2>3. CASE TaskFails \/ NotFound \/ (\E ok \in BOOLEAN : Verify(ok))
    BY <1>a, <2>3 DEF TaskFails, NotFound, Verify, Asking, QuestionsTold
  <2>4. CASE Tools
    BY <1>a, <2>4 DEF Tools, Asking, QuestionsTold
  <2> QED
    BY <1>3, <2>1, <2>2, <2>3, <2>4
<1>4. CASE Mirror
  <2>1. /\ phase \in DOMAIN After /\ phase' = After[phase]
        /\ UNCHANGED <<alerts, cutShort, saved, skip, question>>
    BY <1>4 DEF Mirror
  <2> QED
    BY <1>a, <2>1, AfterFacts DEF Asking, QuestionsTold
<1>5. CASE SaveTurn
  <2>1. /\ phase = "turn" /\ phase' \in {"model", "failing"} /\ skip = FALSE
        /\ UNCHANGED <<alerts, cutShort, skip>> /\ Alerted' = Alerted
    BY <1>5 DEF SaveTurn, QuestionsTold, Asking, Alerted
  <2>2. \A i \in DOMAIN saved' : saved'[i].ask \in Alerted' \cup {0}
    <3>1. CASE saved' = saved
      BY <2>1, <3>1 DEF QuestionsTold
    <3>2. CASE Written(saved, saved', [done |-> done, ask |-> 0])
      <4>1. [done |-> done, ask |-> 0] \in Checkpoints
        BY <1>0 DEF Checkpoints
      <4> QED
        BY <1>0, <2>1, <3>1, <3>2, <4>1, WrittenFacts DEF QuestionsTold
    <3> QED
      BY <1>5, <3>1, <3>2 DEF SaveTurn
  <2> QED
    BY <2>1, <2>2 DEF QuestionsTold, WaitingAlerted
<1>6. CASE SavePaused
  <2>1. /\ phase = "marked" /\ phase' = "alerting"
        /\ UNCHANGED <<alerts, cutShort, skip, question>> /\ Alerted' = Alerted
    BY <1>6 DEF SavePaused, Alerted
  <2>2. skip => question \in Alerted
    BY DEF QuestionsTold
  <2>3. [done |-> done, ask |-> question] \in Checkpoints
    BY <1>0 DEF Checkpoints
  <2>4. /\ Written(saved, saved', [done |-> done, ask |-> question])
        /\ \A i \in DOMAIN saved : saved[i].ask \in Alerted \cup {0}
    BY <1>6, <2>1 DEF SavePaused, QuestionsTold
  <2>5. \A i \in DOMAIN saved' : saved'[i].ask \in Alerted \cup {0, question}
    <3>1. \/ saved' = saved
          \/ /\ DOMAIN saved' = 1 .. Len(saved) + 1
             /\ saved'[Len(saved) + 1] = [done |-> done, ask |-> question]
             /\ \A i \in 1 .. Len(saved) : saved'[i] = saved[i]
      BY <1>0, <2>3, <2>4, WrittenFacts
    <3>2. DOMAIN saved = 1 .. Len(saved) /\ Len(saved) \in Nat
      BY <1>0
    <3>3. \A i \in 1 .. Len(saved) + 1 : i \in 1 .. Len(saved) \/ i = Len(saved) + 1
      BY <3>2
    <3> QED
      BY <2>4, <3>1, <3>2, <3>3
  <2>6. \A i \in DOMAIN saved' :
          saved'[i].ask \in Alerted' \cup {0}
            \/ (phase' = "alerting" /\ ~skip' /\ saved'[i].ask = question')
    BY <2>1, <2>2, <2>5
  <2> QED
    BY <2>1, <2>2, <2>6 DEF QuestionsTold, WaitingAlerted, Asking
<1>7. CASE Recover
  <2>1. /\ phase = "down" /\ UNCHANGED <<saved, alerts, cutShort>> /\ phase' # "waiting"
        /\ \/ skip' = skip /\ phase' \in {"done", "run"}
           \/ /\ saved # <<>> /\ question' = Latest.ask /\ skip' = (Latest.ask # 0)
              /\ phase' = (IF Latest.ask # 0 THEN "ask" ELSE "turn")
    BY <1>7, RecoverFacts
  <2>2. Alerted' = Alerted /\ skip = FALSE
    BY <2>1 DEF Alerted, QuestionsTold, Asking, TaskTypeOK
  <2>3. \A i \in DOMAIN saved : saved[i].ask \in Alerted \cup {0}
    BY <2>1 DEF QuestionsTold
  <2>4. skip' => phase' \in Asking \cup {"waiting"} /\ question' \in Alerted'
    BY <2>1, <2>2, <2>3, LatestFacts DEF Asking
  <2>5. \A i \in DOMAIN saved' : saved'[i].ask \in Alerted' \cup {0}
    BY <2>1, <2>2, <2>3
  <2> QED
    BY <2>1, <2>4, <2>5 DEF QuestionsTold, WaitingAlerted
<1>8. CASE (\E c \in Clients : Look(c) \/ TakeSender(c)) \/ UNCHANGED taskVars
  <2>1. UNCHANGED <<alerts, cutShort, saved, skip, question, phase>>
    BY <1>8 DEF Look, TakeSender, taskVars
  <2> QED
    BY <2>1 DEF QuestionsTold, WaitingAlerted, Alerted
<1> QED
  BY <1>1, <1>2, <1>3, <1>4, <1>5, <1>6, <1>7, <1>8 DEF TaskNext, Executor

(* Without a crash a paused task has its sender staged or its reply on the *)
(* way.                                                                    *)
LEMMA AnswerableStep ==
  ASSUME HephaestusConstants, TaskTypeOK, crashes = 0 => Answerable, [TaskNext]_taskVars, crashes' = 0
  PROVE  Answerable'
<1> USE DEF memory, loop, kleos, told, bounds
<1>a. crashes = 0 /\ ~Crash
  BY CrashesGrow DEF Crash
<1>0. Answerable /\ asked \in Nat /\ question \in Nat /\ sender \in Nat /\ phase # "down"
  BY <1>a DEF TaskTypeOK, Answerable
<1>1. CASE Tools
  BY <1>0, <1>1 DEF Tools, Answerable, Asking
<1>2. CASE Mirror
  BY <1>2, AfterFacts DEF Mirror, Answerable, Asking
<1>3. CASE Create \/ Run \/ SaveTurn \/ Model
  BY <1>3 DEF Create, Run, SaveTurn, Model, Answerable, Asking
<1>4. CASE Stage \/ Pause \/ SavePaused \/ Alert
  BY <1>4 DEF Stage, Pause, SavePaused, Alert, Answerable, Asking
<1>5. CASE Resumed \/ Thread \/ TaskFails \/ (\E ok \in BOOLEAN : Verify(ok))
  BY <1>5 DEF Resumed, Thread, TaskFails, Verify, Answerable, Asking
<1>6. ~Crash /\ ~Recover /\ ~NotFound
  BY <1>0, <1>a DEF Recover, NotFound
<1>7. CASE (\E c \in Clients : Look(c) \/ TakeSender(c)) \/ UNCHANGED taskVars
  BY <1>0, <1>7 DEF Look, TakeSender, taskVars, Answerable, Asking
<1> QED
  BY <1>1, <1>2, <1>3, <1>4, <1>5, <1>6, <1>7 DEF TaskNext, Executor

(* What Kleos tells of the task is true, newest first, as long as nothing  *)
(* is lost on the way: first the mirrors, then the checkpoints.            *)
LEMMA MirrorsStep ==
  ASSUME HephaestusConstants, TaskTypeOK, MirrorsTell, [TaskNext]_taskVars, lost' = 0, ~stale'
  PROVE  MirrorsTell'
<1> USE DEF memory, loop, kleos, told, bounds
<1>0. lost \in 0 .. MaxLost /\ MaxLost \in Nat /\ threads \in Nat /\ mirrors \in Seq(Marks)
  BY DEF TaskTypeOK, HephaestusConstants
<1>1. CASE Mirror
  <2>1. rec \in Marks /\ Written(mirrors, mirrors', rec)
    BY <1>1, AfterFacts DEF Mirror, TaskTypeOK
  <2>2. mirrors' # <<>> /\ Last(mirrors') = rec
    BY <1>0, <2>1, WrittenFacts
  <2>3. threads' = 0
    BY <1>1, AfterFacts DEF Mirror, MirrorsTell
  <2>4. saved' = saved /\ rec' = rec
    BY <1>1 DEF Mirror
  <2>5. CASE phase = "setup"
    BY <1>1, <2>2, <2>3, <2>4, <2>5, AfterFacts DEF Mirror, MirrorsTell, Working, Asking
  <2>6. CASE phase \in {"running", "paused", "resumed", "failed"}
    BY <1>1, <2>2, <2>3, <2>4, <2>6, AfterFacts DEF Mirror, MirrorsTell
  <2>7. CASE phase = "completed"
    BY <1>1, <2>2, <2>3, <2>4, <2>7, AfterFacts DEF Mirror, MirrorsTell
  <2> QED
    BY <1>1, <2>5, <2>6, <2>7, AfterFacts DEF Mirror
<1>2. CASE SaveTurn \/ SavePaused
  BY <1>2 DEF SaveTurn, SavePaused, MirrorsTell, Working, Asking
<1>3. CASE Create \/ Run
  BY <1>3 DEF Create, Run, MirrorsTell, Working, Asking
<1>4. CASE Model \/ Tools
  BY <1>4 DEF Model, Tools, MirrorsTell, Working, Asking
<1>5. CASE Stage \/ Pause \/ Alert \/ Resumed
  BY <1>5 DEF Stage, Pause, Alert, Resumed, MirrorsTell, Working, Asking
<1>6. CASE TaskFails \/ (\E ok \in BOOLEAN : Verify(ok))
  BY <1>6 DEF TaskFails, Verify, MirrorsTell, Working, Asking
<1>7. CASE Thread
  BY <1>0, <1>7 DEF Thread, MirrorsTell, Working, Asking
<1>8. CASE Crash \/ NotFound
  BY <1>8 DEF Crash, NotFound, MirrorsTell, Working, Asking
<1>9. CASE Recover
  <2>1. phase = "down" /\ UNCHANGED <<mirrors, saved, threads>>
    BY <1>9, RecoverFacts
  <2>2. CASE phase' = "done"
    BY <2>1, <2>2 DEF MirrorsTell, Working, Asking
  <2>3. CASE phase' = "run" /\ saved = <<>> /\ Last(mirrors) # "completed"
    BY <2>1, <2>3 DEF MirrorsTell, Working, Asking
  <2>4. CASE phase' \in {"ask", "turn"} /\ Last(mirrors) \notin {"accepted", "completed"}
    BY <2>1, <2>4 DEF MirrorsTell, Working, Asking
  <2>5. mirrors # <<>> /\ Last(mirrors) = "accepted" => saved = <<>>
    BY DEF MirrorsTell
  <2> QED
    BY <1>9, <2>2, <2>3, <2>4, <2>5, RecoverFacts
<1>10. CASE (\E c \in Clients : Look(c) \/ TakeSender(c)) \/ UNCHANGED taskVars
  BY <1>10 DEF Look, TakeSender, taskVars, MirrorsTell
<1> QED
  BY <1>1, <1>2, <1>3, <1>4, <1>5, <1>6, <1>7, <1>8, <1>9, <1>10 DEF TaskNext, Executor

LEMMA TurnsStep ==
  ASSUME HephaestusConstants, TaskTypeOK, MirrorsTell, TurnsGrow, [TaskNext]_taskVars, lost' = 0, ~stale'
  PROVE  TurnsGrow'
<1> USE DEF memory, loop, kleos, told, bounds
<1>0. lost \in 0 .. MaxLost /\ saved \in Seq(Checkpoints) /\ done \in Nat /\ question \in Nat
  BY DEF TaskTypeOK
<1>1. \A i \in DOMAIN saved : saved[i].done \in Nat
  <2>1. ASSUME NEW i \in DOMAIN saved PROVE saved[i].done \in Nat
    <3>1. saved[i] \in Checkpoints
      BY <1>0
    <3> QED
      BY <3>1 DEF Checkpoints
  <2> QED
    BY <2>1
<1>2. CASE (phase = "turn" /\ turn < MaxTurns /\ SaveTurn) \/ SavePaused
  <2>1. /\ phase \in Working /\ done' = done
        /\ \/ Written(saved, saved', [done |-> done, ask |-> 0])
           \/ Written(saved, saved', [done |-> done, ask |-> question])
    BY <1>2 DEF SaveTurn, SavePaused, Working, Asking
  <2>2. [done |-> done, ask |-> 0] \in Checkpoints /\ [done |-> done, ask |-> question] \in Checkpoints
    BY <1>0 DEF Checkpoints
  <2>3. \E entry \in Checkpoints : entry.done = done /\ Written(saved, saved', entry)
    BY <2>1, <2>2
  <2>4. PICK entry \in Checkpoints : entry.done = done /\ Written(saved, saved', entry)
    BY <2>3
  <2>5. /\ saved' # <<>> /\ Last(saved') = entry /\ DOMAIN saved' = 1 .. Len(saved) + 1
        /\ saved'[Len(saved) + 1] = entry
        /\ \A i \in 1 .. Len(saved) : saved'[i] = saved[i]
    BY <1>0, <2>4, WrittenFacts
  <2>6. \A i \in 1 .. Len(saved) : saved[i].done <= done
    BY <1>0, <2>1 DEF TurnsGrow
  <2>7. \A i \in DOMAIN saved' : saved'[i].done <= done
    BY <1>0, <2>4, <2>5, <2>6
  <2> QED
    BY <2>1, <2>4, <2>5, <2>7 DEF TurnsGrow
<1>3. CASE saved' = saved /\ (phase' \in Working => phase \in Working /\ done' \in {done, done + 1})
  BY <1>0, <1>1, <1>3 DEF TurnsGrow
<1>4. CASE saved = <<>> /\ saved' = <<>>
  BY <1>4 DEF TurnsGrow
<1>5. CASE Mirror
  BY <1>3, <1>4, <1>5, AfterFacts DEF Mirror, MirrorsTell, Working, Asking
<1>6. CASE Create \/ Run \/ Model \/ Tools \/ SaveTurn
  BY <1>2, <1>3, <1>6 DEF Create, Run, Model, Tools, SaveTurn, Working, Asking
<1>7. CASE Stage \/ Pause \/ Alert \/ Resumed
  BY <1>3, <1>7 DEF Stage, Pause, Alert, Resumed, Working, Asking
<1>8. CASE Thread \/ TaskFails \/ Crash \/ NotFound \/ (\E ok \in BOOLEAN : Verify(ok))
  BY <1>3, <1>8 DEF Thread, TaskFails, Crash, NotFound, Verify, Working, Asking
<1>9. CASE Recover
  <2>1. saved' = saved
    BY <1>9, RecoverFacts
  <2>2. CASE phase' \in {"done", "run"}
    BY <1>3, <2>1, <2>2 DEF Working, Asking
  <2>3. CASE done' = Latest.done
    BY <2>1, <2>3 DEF TurnsGrow, Latest
  <2> QED
    BY <1>9, <2>2, <2>3, RecoverFacts
<1>10. CASE (\E c \in Clients : Look(c) \/ TakeSender(c)) \/ UNCHANGED taskVars
  BY <1>3, <1>10 DEF Look, TakeSender, taskVars
<1> QED
  BY <1>2, <1>5, <1>6, <1>7, <1>8, <1>9, <1>10 DEF TaskNext, Executor

(* The inductive invariant, and what it says of the two properties.        *)
LEMMA TaskInvariant ==
  ASSUME HephaestusConstants
  PROVE  TaskSpec => []TaskInv
<1>1. TaskInit => TaskInv
  <2> SUFFICES ASSUME TaskInit PROVE TaskInv
    OBVIOUS
  <2>1. TaskTypeOK
    <3>1. /\ mirrors \in Seq(Marks) /\ saved \in Seq(Checkpoints) /\ alerts \in Seq(Nat)
          /\ lost \in 0 .. MaxLost /\ crashes \in 0 .. MaxCrashes
      BY DEF HephaestusConstants, TaskInit
    <3> QED
      BY <3>1 DEF TaskInit, TaskTypeOK, Phases
  <2>2. QuestionsNew
    BY DEF TaskInit, QuestionsNew, AlertedOnce, IsInjective, Asking
  <2>5. QuestionsTold
    BY DEF TaskInit, QuestionsTold, WaitingAlerted
  <2>3. Answerable
    BY DEF TaskInit, Answerable, Asking
  <2>4. MirrorsTell /\ TurnsGrow
    BY DEF TaskInit, MirrorsTell, TurnsGrow, Working, Asking
  <2> QED
    BY <2>1, <2>2, <2>3, <2>4, <2>5 DEF TaskInv
<1>2. TaskInv /\ [TaskNext]_taskVars => TaskInv'
  <2> SUFFICES ASSUME TaskInv, [TaskNext]_taskVars PROVE TaskInv'
    OBVIOUS
  <2>1. TaskTypeOK' /\ QuestionsNew' /\ QuestionsTold'
    BY TaskTypeStep, QuestionsStep, ToldStep DEF TaskInv
  <2>2. crashes' = 0 => Answerable'
    BY AnswerableStep DEF TaskInv
  <2>3. ASSUME lost' = 0, ~stale' PROVE MirrorsTell' /\ TurnsGrow'
    <3>1. lost = 0 /\ ~stale
      BY <2>3, LostGrows DEF TaskInv
    <3> QED
      BY <2>3, <3>1, MirrorsStep, TurnsStep DEF TaskInv
  <2> QED
    BY <2>1, <2>2, <2>3 DEF TaskInv
<1> QED
  BY <1>1, <1>2, PTL DEF TaskSpec

(* The operator is never alerted twice to a question, whatever crashes and *)
(* whatever writes are lost, and was alerted to every question the task    *)
(* waits with, but those whose alert a crash cut off right after their     *)
(* checkpoint.  As long as the server has not crashed, a task that shows   *)
(* as paused has a sender to take or a reply under way, so that            *)
(* resume_task's 409 never turns away the only answer.                     *)
THEOREM QuestionsReachTheorem ==
  ASSUME HephaestusConstants
  PROVE  TaskSpec => []QuestionsReach
<1>1. TaskInv => QuestionsReach
  <2>1. TaskInv /\ crashes = 0 => PausedCanResume
    BY DEF TaskInv, Answerable, PausedCanResume, Asking
  <2> QED
    BY <2>1 DEF TaskInv, QuestionsNew, QuestionsTold, QuestionsReach
<1> QED
  BY <1>1, TaskInvariant, PTL

(* While Kleos returns the newest memory first and loses none of them, no   *)
(* number of crashes makes recover_in_flight_tasks store a task's thread   *)
(* twice, or run the tools of a turn whose results a checkpoint holds.     *)
THEOREM NothingRepeatedTheorem ==
  ASSUME HephaestusConstants
  PROVE  TaskSpec => []NothingRepeated
<1>1. TaskInv => NothingRepeated
  BY DEF TaskInv, TaskTypeOK, MirrorsTell, TurnsGrow, NothingRepeated, ThreadOnce, NoToolTwice, Working
<1> QED
  BY <1>1, TaskInvariant, PTL

-----------------------------------------------------------------------------
(* Agent sessions: SessionSpec => []SessionSafety.                         *)

(* One place of a sequence is replaced.                                    *)
LEMMA SeqReplace ==
  ASSUME NEW T, NEW q \in Seq(T), NEW t \in DOMAIN q, NEW v \in T
  PROVE  /\ [q EXCEPT ![t] = v] \in Seq(T) /\ DOMAIN [q EXCEPT ![t] = v] = DOMAIN q
         /\ Len([q EXCEPT ![t] = v]) = Len(q) /\ [q EXCEPT ![t] = v][t] = v
         /\ \A u \in DOMAIN q : u # t => [q EXCEPT ![t] = v][u] = q[u]
OBVIOUS

(* The fields of a turn have their types.                                  *)
LEMMA TurnFields ==
  ASSUME NEW tn \in Turns
  PROVE  /\ tn.sid \in Sids /\ tn.pc \in TurnSteps /\ tn.round \in 0 .. MaxRounds
         /\ tn.calls \in 0 .. MaxCalls /\ tn.todo \subseteq 1 .. MaxCalls
BY DEF Turns

(* A turn that was sent is a turn of a session that has existed.           *)
LEMMA TurnFacts ==
  ASSUME TurnConstants, SessionTypeOK, NEW t \in DOMAIN tasks
  PROVE  /\ tasks[t] \in Turns /\ t \in Nat /\ t # 0 /\ t <= Len(tasks) /\ Len(tasks) \in Nat
         /\ tasks[t].sid \in Sids /\ Session(t) = tasks[t].sid /\ Session(t) < next
         /\ tasks[t].pc \in TurnSteps /\ tasks[t].round \in Nat /\ tasks[t].calls \in Nat
         /\ tasks[t].todo \subseteq Nat
<1>1. tasks \in Seq(Turns) /\ Session(t) < next
  BY DEF SessionTypeOK, Session
<1>2. tasks[t] \in Turns /\ t \in Nat /\ t # 0 /\ t <= Len(tasks) /\ Len(tasks) \in Nat
  BY <1>1
<1>3. tasks[t].round \in Nat /\ tasks[t].calls \in Nat /\ tasks[t].todo \subseteq Nat
  BY <1>2, TurnFields DEF TurnConstants
<1> QED
  BY <1>1, <1>2, <1>3, TurnFields DEF Session

(* A step of turn t: the other turns stay.                                 *)
OneMoves(t) ==
  /\ tasks' \in Seq(Turns) /\ DOMAIN tasks' = DOMAIN tasks /\ Len(tasks') = Len(tasks)
  /\ \A u \in DOMAIN tasks : u # t => tasks'[u] = tasks[u]
  /\ tasks'[t].sid = tasks[t].sid

(* A step that replaces the record of one turn moves that turn only.       *)
LEMMA MoveFacts ==
  ASSUME SessionTypeOK, NEW t \in DOMAIN tasks, NEW tn \in Turns, tn.sid = tasks[t].sid,
         tasks' = [tasks EXCEPT ![t] = tn]
  PROVE  OneMoves(t) /\ tasks'[t] = tn
<1>1. tasks \in Seq(Turns)
  BY DEF SessionTypeOK
<1> HIDE DEF Turns
<1> QED
  BY <1>1, SeqReplace DEF OneMoves

(* A step to another place keeps what the turn knows.                      *)
LEMMA TurnToFacts ==
  ASSUME SessionTypeOK, NEW t \in DOMAIN tasks, NEW x \in TurnSteps, TurnTo(t, x)
  PROVE  /\ OneMoves(t) /\ tasks'[t].pc = x /\ tasks'[t].round = tasks[t].round
         /\ tasks'[t].calls = tasks[t].calls /\ tasks'[t].todo = tasks[t].todo
<1> DEFINE v == [tasks[t] EXCEPT !.pc = x]
<1>1. tasks[t] \in Turns
  BY DEF SessionTypeOK
<1>2. /\ v \in Turns /\ v.sid = tasks[t].sid /\ v.pc = x /\ v.round = tasks[t].round
      /\ v.calls = tasks[t].calls /\ v.todo = tasks[t].todo
  BY <1>1 DEF Turns
<1>3. tasks' = [tasks EXCEPT ![t] = v]
  BY DEF TurnTo
<1> HIDE DEF v
<1> QED
  BY <1>2, <1>3, MoveFacts

(* The next round.                                                         *)
LEMMA RoundFacts ==
  ASSUME TurnConstants, SessionTypeOK, NEW t \in DOMAIN tasks, NEW x \in TurnSteps, tasks[t].round < MaxRounds,
         tasks' = [tasks EXCEPT ![t].round = @ + 1, ![t].pc = x]
  PROVE  /\ OneMoves(t) /\ tasks'[t].pc = x /\ tasks'[t].round = tasks[t].round + 1
         /\ tasks'[t].calls = tasks[t].calls /\ tasks'[t].todo = tasks[t].todo
<1> DEFINE k == tasks[t].round + 1
           v == [tasks[t] EXCEPT !.round = k, !.pc = x]
<1>1. tasks[t] \in Turns
  BY DEF SessionTypeOK
<1>2. k \in 0 .. MaxRounds
  BY <1>1, TurnFields DEF TurnConstants
<1>3. tasks' = [tasks EXCEPT ![t] = v]
  BY <1>1
<1> HIDE DEF k
<1>4. /\ v \in Turns /\ v.sid = tasks[t].sid /\ v.pc = x /\ v.round = k
      /\ v.calls = tasks[t].calls /\ v.todo = tasks[t].todo
  BY <1>1, <1>2 DEF Turns
<1> HIDE DEF v
<1> QED
  BY <1>3, <1>4, MoveFacts DEF k

(* An answer with tool calls.                                              *)
LEMMA CallsFacts ==
  ASSUME TurnConstants, SessionTypeOK, NEW t \in DOMAIN tasks, NEW n \in 1 .. MaxCalls, NEW b \in BOOLEAN,
         tasks' = [tasks EXCEPT ![t].pc = "tools", ![t].calls = n, ![t].stop = b]
  PROVE  /\ OneMoves(t) /\ tasks'[t].pc = "tools" /\ tasks'[t].round = tasks[t].round
         /\ tasks'[t].calls = n /\ tasks'[t].todo = tasks[t].todo
<1> DEFINE w == [tasks[t] EXCEPT !.pc = "tools", !.calls = n]
           v == [tasks[t] EXCEPT !.pc = "tools", !.calls = n, !.stop = b]
<1>1. tasks[t] \in Turns
  BY DEF SessionTypeOK
<1>2. "tools" \in TurnSteps /\ n \in 0 .. MaxCalls
  BY DEF TurnSteps, Awaits, TurnConstants
<1>3. tasks' = [tasks EXCEPT ![t] = v]
  BY <1>1
<1>4. w \in Turns
  BY <1>1, <1>2 DEF Turns
<1>5. v = [w EXCEPT !.stop = b]
  BY <1>1 DEF Turns
<1>6. v \in Turns
  <2> HIDE DEF v, w
  <2> QED
    BY <1>4, <1>5 DEF Turns
<1>7. /\ v.sid = tasks[t].sid /\ v.pc = "tools" /\ v.round = tasks[t].round
      /\ v.calls = n /\ v.todo = tasks[t].todo
  BY <1>1, <1>2 DEF Turns
<1> HIDE DEF v, w
<1> QED
  BY <1>3, <1>6, <1>7, MoveFacts

LEMMA MessageFacts ==
  ASSUME NEW kind \in Kinds, NEW t \in Nat, NEW round \in Nat, NEW of \in SUBSET Nat
  PROVE  /\ Message(kind, t, round, of) \in Messages
         /\ Message(kind, t, round, of).kind = kind /\ Message(kind, t, round, of).turn = t
         /\ Message(kind, t, round, of).round = round /\ Message(kind, t, round, of).of = of
BY DEF Message, Messages

(* Ranks are numbers.                                                      *)
LEMMA RankType ==
  ASSUME NEW m \in Messages
  PROVE  /\ Rank(m) \in Nat /\ m.kind \in Kinds /\ m.turn \in Nat /\ m.round \in Nat /\ m.of \in SUBSET Nat
         /\ m.kind = "user" => Rank(m) = 0
         /\ m.kind = "text" => Rank(m) = 3 * m.round
         /\ m.kind = "calls" => Rank(m) = 3 * m.round + 1
         /\ m.kind = "result" => Rank(m) = 3 * m.round + 2
BY DEF Rank, Messages, Kinds

LEMMA RankValues ==
  ASSUME TurnConstants, SessionTypeOK, NEW t \in DOMAIN tasks
  PROVE  LET k == tasks[t].round IN
         /\ RowRank(t) \in Nat /\ ContextRank(t) \in Nat /\ k \in Nat
         /\ tasks[t].pc = "start" => RowRank(t) = 0 /\ ContextRank(t) = 0
         /\ tasks[t].pc = "user" => RowRank(t) = 1 /\ ContextRank(t) = 0
         /\ tasks[t].pc = "loop" => RowRank(t) = 3 * k + 3 /\ ContextRank(t) = 3 * k + 3
         /\ tasks[t].pc \in {"compress", "answer"} => RowRank(t) = 3 * k /\ ContextRank(t) = 3 * k
         /\ tasks[t].pc \in {"text", "tools"} => RowRank(t) = 3 * k + 1 /\ ContextRank(t) = 3 * k
         /\ tasks[t].pc = "calls" => RowRank(t) = 3 * k + 2 /\ ContextRank(t) = 3 * k + 1
         /\ tasks[t].pc = "persist" => RowRank(t) = 3 * k + 2 /\ ContextRank(t) = 3 * k + 3
<1>1. tasks[t].round \in Nat /\ tasks[t].pc \in TurnSteps
  BY TurnFacts
<1> QED
  BY <1>1 DEF RowRank, ContextRank, TurnAt, TurnSteps, Awaits

(* A turn only gets on with its messages.                                   *)
Onward(u) ==
  /\ u \in DOMAIN tasks' /\ Session(u)' = Session(u)
  /\ \A m \in Messages : (InRow(u, m) => InRow(u, m)') /\ (InContext(u, m) => InContext(u, m)')

LEMMA SameOnward ==
  ASSUME NEW u \in DOMAIN tasks', tasks'[u] = tasks[u]
  PROVE  Onward(u)
BY DEF Onward, Session, InRow, InContext, Finished, RowRank, ContextRank, TurnAt

LEMMA FinishedOnward ==
  ASSUME NEW u \in DOMAIN tasks', tasks'[u].sid = tasks[u].sid, tasks'[u].pc = "finished"
  PROVE  Onward(u)
BY DEF Onward, Session, InRow, InContext, Finished

(* A step of a turn never takes its ranks back.                            *)
LEMMA RankOnward ==
  ASSUME TurnConstants, SessionTypeOK, NEW t \in DOMAIN tasks, OneMoves(t),
         tasks[t].pc # "finished",
         RowRank(t) <= RowRank(t)', ContextRank(t) <= ContextRank(t)',
         tasks[t].pc = "persist" =>
           \/ RowRank(t) < RowRank(t)'
           \/ tasks'[t].pc = "persist" /\ RowRank(t)' = RowRank(t) /\ tasks'[t].todo \subseteq tasks[t].todo
  PROVE  Onward(t)
<1>1. RowRank(t) \in Nat /\ ContextRank(t) \in Nat
  BY RankValues
<1>2. RowRank(t)' \in Nat /\ ContextRank(t)' \in Nat
  <2>1. t \in DOMAIN tasks'
    BY DEF OneMoves
  <2>2. tasks'[t] \in Turns
    BY <2>1 DEF OneMoves
  <2>3. tasks'[t].round \in Nat
    BY <2>2, TurnFields DEF TurnConstants
  <2> QED
    BY <2>3 DEF RowRank, ContextRank
<1>3. t \in DOMAIN tasks' /\ Session(t)' = Session(t)
  BY DEF OneMoves, Session
<1>4. ASSUME NEW m \in Messages, InRow(t, m)
      PROVE  InRow(t, m)'
  <2>1. Rank(m) \in Nat
    BY RankType
  <2>2. Rank(m) < RowRank(t) \/ (tasks[t].pc = "persist" /\ Rank(m) = RowRank(t) /\ m.of \cap tasks[t].todo = {})
    BY <1>4 DEF InRow, Finished, TurnAt
  <2>3. \/ Rank(m) < RowRank(t)'
        \/ tasks'[t].pc = "persist" /\ Rank(m) = RowRank(t)' /\ m.of \cap tasks'[t].todo = {}
    <3>1. CASE Rank(m) < RowRank(t)
      BY <1>1, <1>2, <2>1, <3>1
    <3>2. CASE tasks[t].pc = "persist" /\ Rank(m) = RowRank(t) /\ m.of \cap tasks[t].todo = {}
      BY <1>1, <1>2, <2>1, <3>2
    <3> QED
      BY <2>2, <3>1, <3>2
  <2> QED
    BY <2>3 DEF InRow, TurnAt
<1>5. ASSUME NEW m \in Messages, InContext(t, m)
      PROVE  InContext(t, m)'
  <2>1. Rank(m) \in Nat
    BY RankType
  <2>2. Rank(m) < ContextRank(t)
    BY <1>5 DEF InContext, Finished
  <2>3. Rank(m) < ContextRank(t)'
    BY <1>1, <1>2, <2>1, <2>2
  <2> QED
    BY <2>3 DEF InContext
<1> QED
  BY <1>3, <1>4, <1>5 DEF Onward

(* Every entry of a message has its turn and its rank.                      *)
LEMMA EntryFacts ==
  ASSUME NEW m \in Messages, NEW e \in Entries(m)
  PROVE  /\ e \in Messages /\ e.turn = m.turn /\ e.kind = m.kind /\ e.round = m.round /\ Rank(e) = Rank(m)
         /\ e.of \subseteq m.of /\ (m.kind # "result" => e = m)
         /\ m.kind = "result" => \E k \in m.of : e = Message("result", m.turn, m.round, {k})
<1>1. CASE m.kind # "result"
  BY <1>1 DEF Entries
<1>2. CASE m.kind = "result"
  <2>1. PICK k \in m.of : e = Message("result", m.turn, m.round, {k})
    BY <1>2 DEF Entries
  <2>2. k \in Nat /\ {k} \in SUBSET Nat /\ m.turn \in Nat /\ m.round \in Nat /\ "result" \in Kinds
    BY RankType DEF Kinds
  <2>3. e \in Messages /\ e.turn = m.turn /\ e.kind = "result" /\ e.round = m.round /\ e.of = {k}
    BY <2>1, <2>2, MessageFacts
  <2> QED
    BY <1>2, <2>1, <2>3, RankType
<1> QED
  BY <1>1, <1>2

LEMMA EntryInContext ==
  ASSUME NEW m \in Messages, NEW e \in Entries(m), NEW t
  PROVE  InContext(t, e) <=> InContext(t, m)
BY EntryFacts DEF InContext

(* A row of the store is the only entry of itself.                          *)
LEMMA RowEntry ==
  ASSUME NEW m \in Messages, m.kind = "result" => \E k \in m.of : m.of = {k}
  PROVE  Entries(m) = {m}
<1>1. CASE m.kind # "result"
  BY <1>1 DEF Entries
<1>2. CASE m.kind = "result"
  <2>1. PICK k \in m.of : m.of = {k}
    BY <1>2
  <2>2. m = Message("result", m.turn, m.round, {k})
    BY <1>2, <2>1 DEF Message, Messages
  <2>3. \A j \in m.of : j = k
    BY <2>1
  <2>4. Entries(m) = {Message("result", m.turn, m.round, {j}) : j \in m.of}
    BY <1>2 DEF Entries
  <2>5. ASSUME NEW e \in Entries(m) PROVE e = m
    BY <2>2, <2>3, <2>4, <2>5
  <2>6. m \in Entries(m)
    BY <2>1, <2>2, <2>4
  <2> QED
    BY <2>5, <2>6
<1> QED
  BY <1>1, <1>2

LEMMA AppendFacts ==
  ASSUME NEW T, NEW q \in Seq(T), NEW v \in T
  PROVE  /\ Append(q, v) \in Seq(T) /\ DOMAIN Append(q, v) = DOMAIN q \cup {Len(q) + 1}
         /\ Len(Append(q, v)) = Len(q) + 1 /\ Append(q, v)[Len(q) + 1] = v
         /\ \A i \in DOMAIN q : Append(q, v)[i] = q[i] /\ i \in Nat /\ i < Len(q) + 1
         /\ Len(q) \in Nat /\ Len(q) + 1 \notin DOMAIN q
OBVIOUS

LEMMA ConcatFacts ==
  ASSUME NEW T, NEW q \in Seq(T), NEW v \in Seq(T)
  PROVE  /\ q \o v \in Seq(T) /\ Len(q \o v) = Len(q) + Len(v) /\ Len(q) \in Nat /\ Len(v) \in Nat
         /\ \A i \in 1 .. Len(q) : (q \o v)[i] = q[i]
         /\ \A i \in Len(q) + 1 .. Len(q) + Len(v) : (q \o v)[i] = v[i - Len(q)]
OBVIOUS

LEMMA ConcatOne ==
  ASSUME NEW T, NEW q \in Seq(T), NEW v \in T
  PROVE  q \o <<v>> = Append(q, v)
OBVIOUS

LEMMA ConcatTwo ==
  ASSUME NEW T, NEW q \in Seq(T), NEW v \in T, NEW w \in T
  PROVE  q \o <<v, w>> = Append(Append(q, v), w)
OBVIOUS

(* The order of rows and messages, as either grows.                        *)
LEMMA OrderOfRows ==
  ASSUME NEW ms \in Seq(Messages), NEW rows \in Seq(Messages), NEW m \in Messages, SameOrder(ms, rows),
         \A p \in DOMAIN rows : \A i, j \in DOMAIN ms :
           (rows[p] \in Entries(ms[i]) /\ m \in Entries(ms[j])) =>
             i < j \/ (i = j /\ ms[i].kind = "result" /\ \A a \in rows[p].of, b \in m.of : a < b)
  PROVE  SameOrder(ms, Append(rows, m))
<1> DEFINE more == Append(rows, m)
           last == Len(rows) + 1
<1>1. /\ DOMAIN more = DOMAIN rows \cup {last} /\ more[last] = m
      /\ \A p \in DOMAIN rows : more[p] = rows[p] /\ p \in Nat /\ p < last
      /\ last \in Nat
  BY AppendFacts
<1> HIDE DEF more, last
<1>2. ASSUME NEW p \in DOMAIN more, NEW q \in DOMAIN more, NEW i \in DOMAIN ms, NEW j \in DOMAIN ms,
             p < q, more[p] \in Entries(ms[i]), more[q] \in Entries(ms[j])
      PROVE  i < j \/ (i = j /\ ms[i].kind = "result" /\ \A a \in more[p].of, b \in more[q].of : a < b)
  <2>1. p \in DOMAIN rows
    BY <1>1, <1>2
  <2>2. CASE q = last
    BY <1>1, <1>2, <2>1, <2>2
  <2>3. CASE q # last
    BY <1>1, <1>2, <2>1, <2>3 DEF SameOrder
  <2> QED
    BY <2>2, <2>3
<1> QED
  BY <1>2 DEF SameOrder, more

(* Adding a message at the end keeps the order, if the row has it last.    *)
LEMMA OrderOfMessages ==
  ASSUME NEW ms \in Seq(Messages), NEW rows \in Seq(Messages), NEW m \in Messages, SameOrder(ms, rows),
         \A p, q \in DOMAIN rows : (p < q /\ rows[p] \in Entries(m)) =>
            /\ \A i \in DOMAIN ms : rows[q] \notin Entries(ms[i])
            /\ rows[q] \notin Entries(m)
  PROVE  SameOrder(Append(ms, m), rows)
<1> DEFINE more == Append(ms, m)
           last == Len(ms) + 1
<1>1. /\ DOMAIN more = DOMAIN ms \cup {last} /\ more[last] = m
      /\ \A p \in DOMAIN ms : more[p] = ms[p] /\ p \in Nat /\ p < last
      /\ last \in Nat
  BY AppendFacts
<1> HIDE DEF more, last
<1>2. ASSUME NEW p \in DOMAIN rows, NEW q \in DOMAIN rows, NEW i \in DOMAIN more, NEW j \in DOMAIN more,
             p < q, rows[p] \in Entries(more[i]), rows[q] \in Entries(more[j])
      PROVE  i < j \/ (i = j /\ more[i].kind = "result" /\ \A a \in rows[p].of, b \in rows[q].of : a < b)
  <2>1. i # last
    BY <1>1, <1>2
  <2>2. CASE j = last
    BY <1>1, <2>1, <2>2
  <2>3. CASE j # last
    BY <1>1, <1>2, <2>1, <2>3 DEF SameOrder
  <2> QED
    BY <2>2, <2>3
<1> QED
  BY <1>2 DEF SameOrder, more

(* A message that was not in the context may be added.                     *)
LEMMA OnceMore ==
  ASSUME NEW ms \in Seq(Messages), NEW m \in Messages, Once(ms),
         \A i \in DOMAIN ms : Entries(ms[i]) \cap Entries(m) = {}
  PROVE  Once(Append(ms, m))
<1> DEFINE more == Append(ms, m)
           last == Len(ms) + 1
<1>1. /\ DOMAIN more = DOMAIN ms \cup {last} /\ more[last] = m
      /\ \A p \in DOMAIN ms : more[p] = ms[p]
  BY AppendFacts
<1> HIDE DEF more, last
<1>2. ASSUME NEW i \in DOMAIN more, NEW j \in DOMAIN more, i # j, more[i].turn # 0
      PROVE  Entries(more[i]) \cap Entries(more[j]) = {}
  <2>1. CASE i = last
    BY <1>1, <1>2, <2>1
  <2>2. CASE j = last
    BY <1>1, <1>2, <2>2
  <2>3. CASE i # last /\ j # last
    BY <1>1, <1>2, <2>3 DEF Once
  <2> QED
    BY <2>1, <2>2, <2>3
<1> QED
  BY <1>2 DEF Once, more

(* A row loaded as a context.                                               *)
LEMMA LoadedRow ==
  ASSUME NEW rows \in Seq(Messages), RowOK(rows)
  PROVE  SameOrder(rows, rows) /\ Once(rows)
<1>1. \A i \in DOMAIN rows : rows[i] \in Messages /\ i \in Nat
  OBVIOUS
<1>2. \A i \in DOMAIN rows : Entries(rows[i]) = {rows[i]}
  BY <1>1, RowEntry DEF RowOK
<1>3. ASSUME NEW p \in DOMAIN rows, NEW i \in DOMAIN rows, rows[p] \in Entries(rows[i])
      PROVE  p = i
  BY <1>2, <1>3 DEF RowOK
<1>4. SameOrder(rows, rows)
  BY <1>3 DEF SameOrder
<1>5. Once(rows)
  BY <1>2, <1>3 DEF Once
<1> QED
  BY <1>4, <1>5

(* Compression: the summary and the last messages.                          *)
LEMMA SummaryFacts ==
  /\ Summary \in Seq(Messages) /\ Len(Summary) = 2
  /\ Summary[1] = Message("user", 0, 0, {}) /\ Summary[2] = Message("text", 0, 0, {})
  /\ Summary[1].kind = "user" /\ Summary[2].kind = "text" /\ Summary[1].turn = 0 /\ Summary[2].turn = 0
<1>1. Message("user", 0, 0, {}) \in Messages /\ Message("text", 0, 0, {}) \in Messages
  BY MessageFacts DEF Kinds
<1>2. /\ Message("user", 0, 0, {}).kind = "user" /\ Message("user", 0, 0, {}).turn = 0
      /\ Message("text", 0, 0, {}).kind = "text" /\ Message("text", 0, 0, {}).turn = 0
  BY MessageFacts DEF Kinds
<1> QED
  BY <1>1, <1>2 DEF Summary

LEMMA TailFacts ==
  ASSUME NEW T, NEW q \in Seq(T), NEW a \in 1 .. Len(q) + 1
  PROVE  /\ SubSeq(q, a, Len(q)) \in Seq(T) /\ Len(SubSeq(q, a, Len(q))) = Len(q) - a + 1
         /\ \A i \in 1 .. Len(q) - a + 1 : SubSeq(q, a, Len(q))[i] = q[a + i - 1] /\ a + i - 1 \in DOMAIN q
OBVIOUS

(* What compression leaves: the summary and the last messages.             *)
LEMMA CompressedFacts ==
  ASSUME TurnConstants, NEW ms \in Seq(Messages), Len(ms) > KeepRecent + 2
  PROVE  LET off == Len(ms) - KeepRecent - 2 IN
         /\ off \in Nat /\ off > 0
         /\ Compressed(ms) \in Seq(Messages) /\ Len(Compressed(ms)) = KeepRecent + 2
         /\ Compressed(ms)[1] = Summary[1] /\ Compressed(ms)[2] = Summary[2]
         /\ \A i \in 3 .. KeepRecent + 2 : i + off \in DOMAIN ms /\ Compressed(ms)[i] = ms[i + off]
<1> DEFINE off == Len(ms) - KeepRecent - 2
           tail == SubSeq(ms, Len(ms) - KeepRecent + 1, Len(ms))
<1>1. KeepRecent \in Nat /\ Len(ms) \in Nat /\ off \in Nat /\ off > 0
  BY DEF TurnConstants
<1>a1. PICK a : a = Len(ms) - KeepRecent + 1
  OBVIOUS
<1>a2. a \in 1 .. Len(ms) + 1 /\ Len(ms) - a + 1 = KeepRecent /\ \A i \in 1 .. KeepRecent : a + i - 1 = i + off + 2
  BY <1>1, <1>a1
<1>a3. tail = SubSeq(ms, a, Len(ms))
  BY <1>a1
<1> HIDE DEF tail, off
<1>a4. /\ tail \in Seq(Messages) /\ Len(tail) = Len(ms) - a + 1
      /\ \A i \in 1 .. Len(ms) - a + 1 : tail[i] = ms[a + i - 1] /\ a + i - 1 \in DOMAIN ms
  BY <1>a2, <1>a3, TailFacts
<1>2. tail \in Seq(Messages) /\ Len(tail) = KeepRecent
  BY <1>a2, <1>a4
<1>3. \A i \in 1 .. KeepRecent : tail[i] = ms[i + off + 2] /\ i + off + 2 \in DOMAIN ms
  BY <1>a2, <1>a4
<1>4. /\ Summary \o tail \in Seq(Messages) /\ Len(Summary \o tail) = KeepRecent + 2
      /\ (Summary \o tail)[1] = Summary[1] /\ (Summary \o tail)[2] = Summary[2]
      /\ \A i \in 3 .. KeepRecent + 2 : (Summary \o tail)[i] = tail[i - 2]
  <2>0. Summary \in Seq(Messages) /\ Len(Summary) = 2
    BY SummaryFacts
  <2>1. /\ Summary \o tail \in Seq(Messages) /\ Len(Summary \o tail) = Len(Summary) + Len(tail)
        /\ \A i \in 1 .. Len(Summary) : (Summary \o tail)[i] = Summary[i]
        /\ \A i \in Len(Summary) + 1 .. Len(Summary) + Len(tail) :
             (Summary \o tail)[i] = tail[i - Len(Summary)]
    BY <1>2, <2>0, ConcatFacts
  <2> QED
    BY <1>1, <1>2, <2>0, <2>1
<1>5. Compressed(ms) = Summary \o tail
  BY DEF Compressed, tail
<1>6. ASSUME NEW i \in 3 .. KeepRecent + 2
      PROVE  i + off \in DOMAIN ms /\ Compressed(ms)[i] = ms[i + off]
  <2>1. i - 2 \in 1 .. KeepRecent /\ (i - 2) + off + 2 = i + off
    BY <1>1
  <2> QED
    BY <1>3, <1>4, <1>5, <2>1
<1> QED
  BY <1>1, <1>4, <1>5, <1>6 DEF off

(* Compression brings in nothing but the summary, and keeps the order.     *)
LEMMA CompressedKeeps ==
  ASSUME TurnConstants, NEW ms \in Seq(Messages), Len(ms) > KeepRecent + 2,
         NEW rows \in Seq(Messages), \A p \in DOMAIN rows : rows[p].turn # 0
  PROVE  /\ SameOrder(ms, rows) => SameOrder(Compressed(ms), rows)
         /\ Once(ms) => Once(Compressed(ms))
         /\ \A i \in DOMAIN Compressed(ms) :
              Compressed(ms)[i].turn = 0 \/ \E j \in DOMAIN ms : Compressed(ms)[i] = ms[j]
<1> DEFINE cs == Compressed(ms)
           off == Len(ms) - KeepRecent - 2
<1>1. /\ KeepRecent \in Nat /\ off \in Nat /\ cs \in Seq(Messages) /\ DOMAIN cs = 1 .. KeepRecent + 2
      /\ cs[1] = Summary[1] /\ cs[2] = Summary[2]
      /\ \A i \in 3 .. KeepRecent + 2 : i + off \in DOMAIN ms /\ cs[i] = ms[i + off]
  BY CompressedFacts DEF TurnConstants
<1>2. cs[1].turn = 0 /\ cs[2].turn = 0 /\ cs[1].kind # "result" /\ cs[2].kind # "result"
  BY <1>1, SummaryFacts
<1> HIDE DEF cs, off
<1>3. ASSUME NEW i \in DOMAIN cs
      PROVE  cs[i].turn = 0 \/ (i + off \in DOMAIN ms /\ cs[i] = ms[i + off])
  <2>1. i = 1 \/ i = 2 \/ i \in 3 .. KeepRecent + 2
    BY <1>1
  <2> QED
    BY <1>1, <1>2, <2>1
<1>4. ASSUME SameOrder(ms, rows)
      PROVE  SameOrder(cs, rows)
  <2>1. ASSUME NEW p \in DOMAIN rows, NEW i \in DOMAIN cs, rows[p] \in Entries(cs[i])
        PROVE  i + off \in DOMAIN ms /\ cs[i] = ms[i + off]
    <3>1. rows[p].turn = cs[i].turn /\ rows[p].turn # 0
      BY <1>1, <2>1, EntryFacts
    <3> QED
      BY <1>3, <3>1
  <2>2. ASSUME NEW p \in DOMAIN rows, NEW q \in DOMAIN rows, NEW i \in DOMAIN cs, NEW j \in DOMAIN cs,
               p < q, rows[p] \in Entries(cs[i]), rows[q] \in Entries(cs[j])
        PROVE  i < j \/ (i = j /\ cs[i].kind = "result" /\ \A a \in rows[p].of, b \in rows[q].of : a < b)
    <3>1. i + off \in DOMAIN ms /\ cs[i] = ms[i + off] /\ j + off \in DOMAIN ms /\ cs[j] = ms[j + off]
      BY <2>1, <2>2
    <3>2. \/ i + off < j + off
          \/ i + off = j + off /\ cs[i].kind = "result" /\ \A a \in rows[p].of, b \in rows[q].of : a < b
      BY <1>4, <2>2, <3>1 DEF SameOrder
    <3>3. i \in Nat /\ j \in Nat /\ off \in Nat
      BY <1>1
    <3> QED
      BY <3>2, <3>3
  <2> QED
    BY <2>2 DEF SameOrder
<1>5. ASSUME Once(ms)
      PROVE  Once(cs)
  <2>1. ASSUME NEW i \in DOMAIN cs, NEW j \in DOMAIN cs, i # j, cs[i].turn # 0
        PROVE  Entries(cs[i]) \cap Entries(cs[j]) = {}
    <3>1. i + off \in DOMAIN ms /\ cs[i] = ms[i + off]
      BY <1>3, <2>1
    <3>2. CASE cs[j].turn = 0
      <4>1. cs[i] \in Messages /\ cs[j] \in Messages
        BY <1>1
      <4>2. \A e \in Entries(cs[i]) : e.turn # 0
        BY <2>1, <4>1, EntryFacts
      <4>3. \A e \in Entries(cs[j]) : e.turn = 0
        BY <3>2, <4>1, EntryFacts
      <4> QED
        BY <4>2, <4>3
    <3>3. CASE cs[j].turn # 0
      <4>1. j + off \in DOMAIN ms /\ cs[j] = ms[j + off]
        BY <1>3, <3>3
      <4>2. i + off # j + off
        BY <1>1, <2>1
      <4> QED
        BY <1>5, <2>1, <3>1, <4>1, <4>2 DEF Once
    <3> QED
      BY <3>2, <3>3
  <2> QED
    BY <2>1 DEF Once
<1> QED
  BY <1>3, <1>4, <1>5 DEF cs

(* Calls and results match, as the context grows or is compressed.          *)
LEMMA MatchedMore ==
  ASSUME NEW ms \in Seq(Messages), NEW m \in Messages, CallsMatched(ms), m.kind \notin {"calls", "result"}
  PROVE  CallsMatched(Append(ms, m))
<1> DEFINE more == Append(ms, m)
           last == Len(ms) + 1
<1>1. /\ DOMAIN more = DOMAIN ms \cup {last} /\ more[last] = m /\ Len(more) = last
      /\ \A p \in DOMAIN ms : more[p] = ms[p] /\ p \in Nat /\ p < last
      /\ last \in Nat /\ Len(ms) \in Nat
  BY AppendFacts
<1>2. DOMAIN ms = 1 .. Len(ms) /\ last = Len(ms) + 1
  OBVIOUS
<1> HIDE DEF more, last
<1>3. ASSUME NEW i \in DOMAIN ms, NEW j \in 1 .. Len(ms), ResultsOf(ms, i, j)
      PROVE  ResultsOf(more, i, j) /\ {more[k].of : k \in i + 1 .. j} = {ms[k].of : k \in i + 1 .. j}
  <2>1. \A k \in i + 1 .. j : k \in DOMAIN ms /\ more[k] = ms[k]
    BY <1>1, <1>2
  <2> QED
    BY <1>1, <1>3, <2>1 DEF ResultsOf
<1>4. ASSUME NEW i \in DOMAIN ms, CutOff(ms, i)
      PROVE  CutOff(more, i)
  <2>1. 1 \in DOMAIN ms /\ \A k \in 3 .. i : k \in DOMAIN ms
    BY <1>2
  <2> QED
    BY <1>1, <1>4, <2>1 DEF CutOff
<1>5. ASSUME NEW i \in DOMAIN more
      PROVE  /\ more[i].kind = "calls" =>
                  \E j \in i + 1 .. Len(more) :
                    ResultsOf(more, i, j) /\ UNION {more[k].of : k \in i + 1 .. j} = more[i].of
             /\ more[i].kind = "result" => CutOff(more, i) \/ \E j \in 1 .. i - 1 : ResultsOf(more, j, i)
  <2>1. CASE i = last
    BY <1>1, <2>1
  <2>2. CASE i \in DOMAIN ms
    <3>1. ASSUME more[i].kind = "calls"
          PROVE  \E j \in i + 1 .. Len(more) :
                    ResultsOf(more, i, j) /\ UNION {more[k].of : k \in i + 1 .. j} = more[i].of
      <4>1. PICK j \in i + 1 .. Len(ms) :
              ResultsOf(ms, i, j) /\ UNION {ms[k].of : k \in i + 1 .. j} = ms[i].of
        BY <1>1, <2>2, <3>1 DEF CallsMatched
      <4>2. j \in 1 .. Len(ms) /\ j \in i + 1 .. Len(more)
        BY <1>1, <1>2, <2>2
      <4>3. ResultsOf(more, i, j) /\ {more[k].of : k \in i + 1 .. j} = {ms[k].of : k \in i + 1 .. j}
        BY <1>3, <2>2, <4>1, <4>2
      <4> QED
        BY <1>1, <2>2, <4>1, <4>2, <4>3
    <3>2. ASSUME more[i].kind = "result"
          PROVE  CutOff(more, i) \/ \E j \in 1 .. i - 1 : ResultsOf(more, j, i)
      <4>1. CutOff(ms, i) \/ \E j \in 1 .. i - 1 : ResultsOf(ms, j, i)
        BY <1>1, <2>2, <3>2 DEF CallsMatched
      <4>2. \A j \in 1 .. i - 1 : j \in DOMAIN ms
        BY <1>2, <2>2
      <4> QED
        BY <1>2, <1>3, <1>4, <2>2, <4>1, <4>2
    <3> QED
      BY <3>1, <3>2
  <2> QED
    BY <1>1, <2>1, <2>2
<1> QED
  BY <1>5 DEF CallsMatched, more

(* Calls with all their results may be added to a complete history.        *)
LEMMA MatchedExchange ==
  ASSUME NEW ms \in Seq(Messages), NEW c \in Messages, NEW r \in Messages, CallsMatched(ms),
         c.kind = "calls", r.kind = "result", r.turn = c.turn, r.round = c.round, r.of = c.of
  PROVE  CallsMatched(Append(Append(ms, c), r))
<1> DEFINE more == Append(Append(ms, c), r)
           n == Len(ms)
<1>1. /\ DOMAIN more = 1 .. n + 2 /\ more[n + 1] = c /\ more[n + 2] = r /\ Len(more) = n + 2
      /\ n \in Nat /\ DOMAIN ms = 1 .. n
      /\ \A p \in DOMAIN ms : more[p] = ms[p]
  OBVIOUS
<1> HIDE DEF more, n
<1>3. ASSUME NEW i \in DOMAIN ms, NEW j \in 1 .. n, ResultsOf(ms, i, j)
      PROVE  ResultsOf(more, i, j) /\ {more[k].of : k \in i + 1 .. j} = {ms[k].of : k \in i + 1 .. j}
  <2>1. \A k \in i + 1 .. j : k \in DOMAIN ms /\ more[k] = ms[k]
    BY <1>1
  <2> QED
    BY <1>1, <1>3, <2>1 DEF ResultsOf
<1>4. ASSUME NEW i \in DOMAIN ms, CutOff(ms, i)
      PROVE  CutOff(more, i)
  <2>1. 1 \in DOMAIN ms /\ \A k \in 3 .. i : k \in DOMAIN ms
    BY <1>1
  <2> QED
    BY <1>1, <1>4, <2>1 DEF CutOff
<1>5. ASSUME NEW i \in DOMAIN more
      PROVE  /\ more[i].kind = "calls" =>
                  \E j \in i + 1 .. Len(more) :
                    ResultsOf(more, i, j) /\ UNION {more[k].of : k \in i + 1 .. j} = more[i].of
             /\ more[i].kind = "result" => CutOff(more, i) \/ \E j \in 1 .. i - 1 : ResultsOf(more, j, i)
  <2>0. \A k \in (n + 1) + 1 .. n + 2 : k = n + 2
    BY <1>1
  <2>1. CASE i = n + 1
    <3>1. ResultsOf(more, i, n + 2)
      BY <1>1, <2>0, <2>1 DEF ResultsOf
    <3>2. {more[k].of : k \in i + 1 .. n + 2} = {r.of}
      BY <1>1, <2>0, <2>1
    <3>3. UNION {r.of} = c.of
      OBVIOUS
    <3>4. n + 2 \in i + 1 .. Len(more)
      BY <1>1, <2>1
    <3> QED
      BY <1>1, <2>1, <3>1, <3>2, <3>3, <3>4
  <2>2. CASE i = n + 2
    <3>1. ResultsOf(more, n + 1, i) /\ n + 1 \in 1 .. i - 1
      BY <1>1, <2>0, <2>2 DEF ResultsOf
    <3> QED
      BY <1>1, <2>2, <3>1
  <2>3. CASE i \in DOMAIN ms
    <3>1. ASSUME more[i].kind = "calls"
          PROVE  \E j \in i + 1 .. Len(more) :
                    ResultsOf(more, i, j) /\ UNION {more[k].of : k \in i + 1 .. j} = more[i].of
      <4>1. PICK j \in i + 1 .. Len(ms) :
              ResultsOf(ms, i, j) /\ UNION {ms[k].of : k \in i + 1 .. j} = ms[i].of
        BY <1>1, <2>3, <3>1 DEF CallsMatched
      <4>2. j \in 1 .. n /\ j \in i + 1 .. Len(more)
        BY <1>1, <2>3 DEF n
      <4>3. ResultsOf(more, i, j) /\ {more[k].of : k \in i + 1 .. j} = {ms[k].of : k \in i + 1 .. j}
        BY <1>3, <2>3, <4>1, <4>2
      <4> QED
        BY <1>1, <2>3, <4>1, <4>2, <4>3
    <3>2. ASSUME more[i].kind = "result"
          PROVE  CutOff(more, i) \/ \E j \in 1 .. i - 1 : ResultsOf(more, j, i)
      <4>1. CutOff(ms, i) \/ \E j \in 1 .. i - 1 : ResultsOf(ms, j, i)
        BY <1>1, <2>3, <3>2 DEF CallsMatched
      <4>2. \A j \in 1 .. i - 1 : j \in DOMAIN ms
        BY <1>1, <2>3
      <4> QED
        BY <1>1, <1>3, <1>4, <2>3, <4>1, <4>2
    <3> QED
      BY <3>1, <3>2
  <2> QED
    BY <1>1, <2>1, <2>2, <2>3
<1> QED
  BY <1>5 DEF CallsMatched, more

(* Compression cuts calls from results only behind the summary.            *)
LEMMA MatchedCompressed ==
  ASSUME TurnConstants, NEW ms \in Seq(Messages), Len(ms) > KeepRecent + 2, CallsMatched(ms)
  PROVE  CallsMatched(Compressed(ms))
<1> DEFINE cs == Compressed(ms)
           off == Len(ms) - KeepRecent - 2
           n == KeepRecent + 2
<1>1. /\ n \in Nat /\ off \in Nat /\ off > 0 /\ cs \in Seq(Messages) /\ DOMAIN cs = 1 .. n /\ Len(cs) = n
      /\ cs[1] = Summary[1] /\ cs[2] = Summary[2] /\ n + off = Len(ms) /\ DOMAIN ms = 1 .. n + off
      /\ \A i \in 3 .. n : i + off \in DOMAIN ms /\ cs[i] = ms[i + off]
  BY CompressedFacts DEF TurnConstants
<1>2. cs[1].kind = "user" /\ cs[2].kind = "text"
  BY <1>1, SummaryFacts
<1> HIDE DEF cs, off, n
<1>3. ASSUME NEW i \in DOMAIN cs
      PROVE  /\ cs[i].kind = "calls" =>
                  \E j \in i + 1 .. Len(cs) :
                    ResultsOf(cs, i, j) /\ UNION {cs[k].of : k \in i + 1 .. j} = cs[i].of
             /\ cs[i].kind = "result" => CutOff(cs, i) \/ \E j \in 1 .. i - 1 : ResultsOf(cs, j, i)
  <2>1. CASE i = 1 \/ i = 2
    BY <1>2, <2>1
  <2>2. CASE i \in 3 .. n
    <3>0. i + off \in DOMAIN ms /\ cs[i] = ms[i + off]
      BY <1>1, <2>2
    <3>1. ASSUME cs[i].kind = "calls"
          PROVE  \E j \in i + 1 .. Len(cs) :
                    ResultsOf(cs, i, j) /\ UNION {cs[k].of : k \in i + 1 .. j} = cs[i].of
      <4>1. PICK j \in (i + off) + 1 .. Len(ms) :
              ResultsOf(ms, i + off, j) /\ UNION {ms[k].of : k \in (i + off) + 1 .. j} = ms[i + off].of
        BY <3>0, <3>1 DEF CallsMatched
      <4> DEFINE h == j - off
      <4>2. h \in i + 1 .. Len(cs) /\ h + off = j
        BY <1>1, <2>2
      <4>3. \A k \in i + 1 .. h : k + off \in (i + off) + 1 .. j /\ cs[k] = ms[k + off]
        BY <1>1, <2>2, <4>2
      <4>4. \A k \in (i + off) + 1 .. j : k - off \in i + 1 .. h /\ cs[k - off] = ms[k]
        BY <1>1, <2>2, <4>2
      <4> HIDE DEF h
      <4>5. ResultsOf(cs, i, h)
        BY <3>0, <4>1, <4>3 DEF ResultsOf
      <4>6. {cs[k].of : k \in i + 1 .. h} = {ms[k].of : k \in (i + off) + 1 .. j}
        <5>1. ASSUME NEW k \in i + 1 .. h
              PROVE  cs[k].of \in {ms[l].of : l \in (i + off) + 1 .. j}
          BY <4>3
        <5>2. ASSUME NEW l \in (i + off) + 1 .. j
              PROVE  ms[l].of \in {cs[k].of : k \in i + 1 .. h}
          BY <4>4
        <5> QED
          BY <5>1, <5>2
      <4> QED
        BY <3>0, <4>1, <4>2, <4>5, <4>6
    <3>2. ASSUME cs[i].kind = "result"
          PROVE  CutOff(cs, i) \/ \E j \in 1 .. i - 1 : ResultsOf(cs, j, i)
      <4>0. i > 2 /\ i \in Nat
        BY <1>1, <2>2
      <4>1. ASSUME NEW j \in 1 .. (i + off) - 1, ResultsOf(ms, j, i + off), j < 3 + off
            PROVE  CutOff(cs, i)
        <5>1. \A k \in 3 .. i : k + off \in j + 1 .. i + off /\ cs[k] = ms[k + off]
          BY <1>1, <2>2, <4>1
        <5> QED
          BY <1>1, <4>0, <4>1, <5>1 DEF CutOff, ResultsOf
      <4>2. ASSUME NEW j \in 1 .. (i + off) - 1, ResultsOf(ms, j, i + off), j >= 3 + off
            PROVE  \E h \in 1 .. i - 1 : ResultsOf(cs, h, i)
        <5> DEFINE h == j - off
        <5>1. h \in 1 .. i - 1 /\ h \in 3 .. n /\ h + off = j /\ cs[h] = ms[j]
          BY <1>1, <2>2, <4>2
        <5>2. \A k \in h + 1 .. i : k + off \in j + 1 .. i + off /\ cs[k] = ms[k + off]
          BY <1>1, <2>2, <4>2, <5>1
        <5> HIDE DEF h
        <5>3. ResultsOf(cs, h, i)
          BY <4>2, <5>1, <5>2 DEF ResultsOf
        <5> QED
          BY <5>1, <5>3
      <4>3. ASSUME CutOff(ms, i + off)
            PROVE  CutOff(cs, i)
        <5>1. \A k \in 3 .. i : k + off \in 3 .. i + off /\ cs[k] = ms[k + off]
          BY <1>1, <2>2
        <5> QED
          BY <1>1, <4>0, <4>3, <5>1 DEF CutOff
      <4>4. CutOff(ms, i + off) \/ \E j \in 1 .. (i + off) - 1 : ResultsOf(ms, j, i + off)
        BY <3>0, <3>2 DEF CallsMatched
      <4>5. \A j \in 1 .. (i + off) - 1 : j < 3 + off \/ j >= 3 + off
        BY <1>1
      <4> QED
        BY <4>1, <4>2, <4>3, <4>4, <4>5
    <3> QED
      BY <3>1, <3>2
  <2>3. i = 1 \/ i = 2 \/ i \in 3 .. n
    BY <1>1
  <2> QED
    BY <2>1, <2>2, <2>3
<1> QED
  BY <1>1, <1>3 DEF CallsMatched, cs

(* Every turn only gets on with its messages.                               *)
AllOnward == \A u \in DOMAIN tasks : Onward(u)

LEMMA RowStays ==
  ASSUME AllOnward, NEW rows \in Seq(Messages), RowOK(rows)
  PROVE  RowOK(rows)'
<1>1. ASSUME NEW p \in DOMAIN rows
      PROVE  /\ rows[p].turn \in DOMAIN tasks' /\ InRow(rows[p].turn, rows[p])'
             /\ rows[p].kind = "result" => \E k \in rows[p].of : rows[p].of = {k}
  <2>1. rows[p] \in Messages /\ rows[p].turn \in DOMAIN tasks /\ InRow(rows[p].turn, rows[p])
    BY DEF RowOK
  <2>2. Onward(rows[p].turn)
    BY <2>1 DEF AllOnward
  <2> QED
    BY <2>1, <2>2 DEF RowOK, Onward
<1> QED
  BY <1>1 DEF RowOK

(* What a turn has not written yet is not in a row.                         *)
LEMMA RowFresh ==
  ASSUME NEW rows \in Seq(Messages), RowOK(rows), NEW m \in Messages, ~InRow(m.turn, m)
  PROVE  \A p \in DOMAIN rows : rows[p] # m
BY DEF RowOK

(* A row gets the next message of a turn.                                  *)
LEMMA RowGrows ==
  ASSUME AllOnward, NEW rows \in Seq(Messages), RowOK(rows), NEW m \in Messages, m.turn \in DOMAIN tasks,
         ~InRow(m.turn, m), InRow(m.turn, m)', m.kind = "result" => \E k \in m.of : m.of = {k}
  PROVE  RowOK(Append(rows, m))'
<1> DEFINE more == Append(rows, m)
           last == Len(rows) + 1
<1>1. /\ DOMAIN more = DOMAIN rows \cup {last} /\ more[last] = m
      /\ \A p \in DOMAIN rows : more[p] = rows[p]
  BY AppendFacts
<1>2. RowOK(rows)'
  BY RowStays
<1>3. \A p \in DOMAIN rows : rows[p] # m
  BY RowFresh
<1>4. m.turn \in DOMAIN tasks'
  BY DEF AllOnward, Onward
<1> HIDE DEF more, last
<1>5. ASSUME NEW p \in DOMAIN more
      PROVE  /\ more[p].turn \in DOMAIN tasks' /\ InRow(more[p].turn, more[p])'
             /\ more[p].kind = "result" => \E k \in more[p].of : more[p].of = {k}
  <2>1. CASE p = last
    BY <1>1, <1>4, <2>1
  <2>2. CASE p # last
    BY <1>1, <1>2, <2>2 DEF RowOK
  <2> QED
    BY <2>1, <2>2
<1>6. ASSUME NEW p \in DOMAIN more, NEW q \in DOMAIN more, more[p] = more[q]
      PROVE  p = q
  BY <1>1, <1>3, <1>6 DEF RowOK
<1> QED
  BY <1>5, <1>6 DEF RowOK, more

LEMMA ContextStays ==
  ASSUME AllOnward, NEW s, NEW ms \in Seq(Messages), ContextOK(s, ms)
  PROVE  ContextOK(s, ms)'
<1>1. ASSUME NEW i \in DOMAIN ms, ms[i].turn # 0
      PROVE  Sourced(ms[i], s)'
  <2> DEFINE m == ms[i]
  <2>1. m \in Messages /\ Sourced(m, s)
    BY <1>1 DEF ContextOK
  <2> HIDE DEF m
  <2>2. m.turn \in DOMAIN tasks /\ Onward(m.turn)
    BY <2>1 DEF Sourced, AllOnward
  <2>3. \A e \in Entries(m) : e \in Messages
    BY <2>1, EntryFacts
  <2>4. Sourced(m, s)'
    BY <2>1, <2>2, <2>3 DEF Sourced, Onward
  <2> QED
    BY <2>4 DEF m
<1> QED
  BY <1>1 DEF ContextOK

(* What a turn has not said yet is not in its context.                      *)
LEMMA ContextFresh ==
  ASSUME NEW ms \in Seq(Messages), NEW m \in Messages, m.turn # 0, ContextOK(Session(m.turn), ms), ~InContext(m.turn, m)
  PROVE  \A i \in DOMAIN ms : Entries(ms[i]) \cap Entries(m) = {}
<1> SUFFICES ASSUME NEW i \in DOMAIN ms, NEW e, e \in Entries(ms[i]), e \in Entries(m)
             PROVE  FALSE
  OBVIOUS
<1> DEFINE o == ms[i]
<1>1. o \in Messages /\ e \in Entries(o)
  OBVIOUS
<1>2. o.turn # 0 => Sourced(o, Session(m.turn))
  BY DEF ContextOK
<1> HIDE DEF o
<1>3. o.turn = m.turn /\ (InContext(m.turn, e) <=> InContext(m.turn, m)) /\ (InContext(m.turn, e) <=> InContext(m.turn, o))
  BY <1>1, EntryFacts, EntryInContext
<1>4. InContext(m.turn, o)
  BY <1>2, <1>3 DEF Sourced
<1> QED
  BY <1>3, <1>4

(* Nor in another session's, when it is not in a row.                       *)
LEMMA ContextFreshElsewhere ==
  ASSUME NEW s, NEW ms \in Seq(Messages), NEW m \in Messages, m.turn # 0, Session(m.turn) # s, ContextOK(s, ms),
         ~InRow(m.turn, m)
  PROVE  \A i \in DOMAIN ms : m \notin Entries(ms[i])
<1> SUFFICES ASSUME NEW i \in DOMAIN ms, m \in Entries(ms[i])
             PROVE  FALSE
  OBVIOUS
<1> DEFINE o == ms[i]
<1>1. o \in Messages /\ m \in Entries(o)
  OBVIOUS
<1>2. o.turn # 0 => Sourced(o, s)
  BY DEF ContextOK
<1> HIDE DEF o
<1>3. o.turn = m.turn
  BY <1>1, EntryFacts
<1> QED
  BY <1>1, <1>2, <1>3 DEF Sourced

(* A context gets the next message of its turn.                            *)
LEMMA ContextGrows ==
  ASSUME AllOnward, NEW s, NEW ms \in Seq(Messages), NEW m \in Messages, m.turn # 0, m.turn \in DOMAIN tasks,
         Session(m.turn) = s, ContextOK(s, ms), ~InContext(m.turn, m), InContext(m.turn, m)'
  PROVE  ContextOK(s, Append(ms, m))'
<1> DEFINE more == Append(ms, m)
           last == Len(ms) + 1
<1>1. /\ DOMAIN more = DOMAIN ms \cup {last} /\ more[last] = m
      /\ \A p \in DOMAIN ms : more[p] = ms[p]
  BY AppendFacts
<1>2. m.turn \in DOMAIN tasks' /\ Session(m.turn)' = s
  BY DEF AllOnward, Onward
<1>3. Once(more)
  BY OnceMore, ContextFresh DEF ContextOK
<1> HIDE DEF more, last
<1>4. ContextOK(s, ms)'
  BY ContextStays
<1>5. Sourced(m, s)'
  BY <1>2 DEF Sourced
<1>6. ASSUME NEW i \in DOMAIN more, more[i].turn # 0
      PROVE  Sourced(more[i], s)'
  BY <1>1, <1>2, <1>4, <1>5, <1>6 DEF ContextOK
<1> QED
  BY <1>3, <1>6 DEF ContextOK, more

(* What a session has of its messages in the row stays, as the row grows.   *)
LEMMA StoredKeeps ==
  ASSUME NEW s, NEW ms \in Seq(Messages), NEW rows \in Seq(Messages), NEW more \in Seq(Messages),
         StoredAs(s, ms, rows), unsaved \subseteq unsaved', SameOrder(ms, more),
         \A p \in DOMAIN rows : \E q \in DOMAIN more : more[q] = rows[p],
         \A e \in Pending(s) : e \in Pending(s)' \/ e \in unsaved' \/ \E q \in DOMAIN more : more[q] = e
  PROVE  StoredAs(s, ms, more)'
<1>1. ASSUME NEW i \in DOMAIN ms, NEW e \in Kept(s, ms[i])'
      PROVE  \E p \in DOMAIN more : more[p] = e
  <2>1. e \in Entries(ms[i]) /\ e.turn # 0 /\ e \notin unsaved' /\ e \notin Pending(s)'
    BY <1>1 DEF Kept
  <2>2. CASE e \in Pending(s)
    BY <2>1, <2>2
  <2>3. CASE e \notin Pending(s)
    <3>1. e \in Kept(s, ms[i])
      BY <2>1, <2>3 DEF Kept
    <3> QED
      BY <3>1 DEF StoredAs
  <2> QED
    BY <2>2, <2>3
<1> QED
  BY <1>1 DEF StoredAs

(* A message that is written ahead of the context stays ahead of it.        *)
LEMMA AheadStays ==
  ASSUME NEW w, NEW ms, NEW rows, Ahead(w, ms, rows), unsaved \subseteq unsaved'
  PROVE  Ahead(w, ms, rows)'
BY DEF Ahead

LEMMA AheadMore ==
  ASSUME NEW w, NEW ms, NEW rows \in Seq(Messages), NEW m \in Messages, Ahead(w, ms, rows),
         unsaved \subseteq unsaved', \A i \in DOMAIN ms : m \notin Entries(ms[i])
  PROVE  Ahead(w, ms, Append(rows, m))'
<1> DEFINE more == Append(rows, m)
           last == Len(rows) + 1
<1>1. /\ DOMAIN more = DOMAIN rows \cup {last} /\ more[last] = m
      /\ \A p \in DOMAIN rows : more[p] = rows[p] /\ p \in Nat /\ p < last
      /\ last \in Nat
  BY AppendFacts
<1> HIDE DEF more, last
<1>2. w \in unsaved' \/ \E p \in DOMAIN more : more[p] = w
  BY <1>1 DEF Ahead
<1>3. ASSUME NEW p \in DOMAIN more, NEW q \in DOMAIN more, p < q, more[p] = w, NEW i \in DOMAIN ms
      PROVE  more[q] \notin Entries(ms[i])
  <2>1. p \in DOMAIN rows
    BY <1>1, <1>3
  <2>2. CASE q = last
    BY <1>1, <2>2
  <2>3. CASE q # last
    BY <1>1, <1>3, <2>1, <2>3 DEF Ahead
  <2> QED
    BY <2>2, <2>3
<1> QED
  BY <1>2, <1>3 DEF Ahead, more

(* What was just written is after everything in the context.               *)
LEMMA AheadNew ==
  ASSUME NEW ms, NEW rows \in Seq(Messages), NEW m \in Messages, \A p \in DOMAIN rows : rows[p] # m
  PROVE  Ahead(m, ms, Append(rows, m))' /\ (m \in unsaved' => Ahead(m, ms, rows)')
<1> DEFINE more == Append(rows, m)
           last == Len(rows) + 1
<1>1. /\ DOMAIN more = DOMAIN rows \cup {last} /\ more[last] = m
      /\ \A p \in DOMAIN rows : more[p] = rows[p] /\ p \in Nat /\ p < last
      /\ last \in Nat
  BY AppendFacts
<1> HIDE DEF more, last
<1>2. \A p, q \in DOMAIN more : (p < q /\ more[p] = m) => FALSE
  BY <1>1
<1>3. Ahead(m, ms, more)'
  BY <1>1, <1>2 DEF Ahead
<1>4. m \in unsaved' => Ahead(m, ms, rows)'
  BY DEF Ahead
<1> QED
  BY <1>3, <1>4 DEF more

(* What the steps of a turn t have in common.                               *)
StepOf(t) ==
  /\ OneMoves(t) /\ ~Finished(t) /\ Onward(t) /\ TodoAt(t)'
  /\ next' = next /\ open' = open /\ row' = row /\ handle' = handle /\ sound' = sound
  /\ status' \in [Sids -> SessionStatuses] /\ faults' \in 0 .. MaxFaults
  /\ unsaved \subseteq unsaved' /\ unsaved' \subseteq Messages

LEMMA StepType ==
  ASSUME SessionTypeOK, NEW t \in DOMAIN tasks, StepOf(t), ctx' \in [Sids -> Seq(Messages)],
         store' \in Seq(Seq(Messages)), Len(store') = Len(store)
  PROVE  SessionTypeOK'
<1>1. tasks' \in Seq(Turns) /\ Len(tasks') = Len(tasks) /\ DOMAIN tasks' = DOMAIN tasks
  BY DEF StepOf, OneMoves
<1>2. \A u \in DOMAIN tasks' : tasks'[u].sid = tasks[u].sid
  BY <1>1 DEF StepOf, OneMoves
<1>3. \A u \in DOMAIN tasks' : tasks'[u].sid < next
  BY <1>1, <1>2 DEF SessionTypeOK
<1>4. /\ next \in 1 .. MaxSessions + 1 /\ open \subseteq 1 .. next - 1 /\ Len(store) < next
      /\ row \in [Sids -> 0 .. Len(store)] /\ handle \in [Sids -> 0 .. Len(tasks)] /\ sound \subseteq 1 .. next - 1
  BY DEF SessionTypeOK
<1> QED
  BY <1>1, <1>3, <1>4 DEF SessionTypeOK, StepOf

LEMMA StepHandles ==
  ASSUME SessionTypeOK, HandlesOK, NEW t \in DOMAIN tasks, StepOf(t)
  PROVE  HandlesOK'
<1>1. handle \in [Sids -> 0 .. Len(tasks)] /\ tasks \in Seq(Turns)
  BY DEF SessionTypeOK
<1>2. \A s \in Sids : handle[s] # 0 => handle[s] \in DOMAIN tasks
  BY <1>1
<1>3. \A u \in DOMAIN tasks : tasks'[u].sid = tasks[u].sid /\ (~Finished(u)' => ~Finished(u))
  BY DEF StepOf, OneMoves, Finished
<1>4. DOMAIN tasks' = DOMAIN tasks /\ handle' = handle
  BY DEF StepOf, OneMoves
<1> QED
  BY <1>2, <1>3, <1>4 DEF HandlesOK, Session

LEMMA StepOnward ==
  ASSUME NEW t \in DOMAIN tasks, StepOf(t)
  PROVE  AllOnward
BY SameOnward DEF AllOnward, StepOf, OneMoves

(* Two unfinished turns have two sessions.                                  *)
LEMMA TurnsApart ==
  ASSUME HandlesOK, NEW t \in DOMAIN tasks, NEW u \in DOMAIN tasks, ~Finished(t), ~Finished(u), u # t
  PROVE  Session(u) # Session(t)
BY DEF HandlesOK

LEMMA PendingElsewhere ==
  ASSUME SessionTypeOK, HandlesOK, NEW t \in DOMAIN tasks, StepOf(t), NEW s \in Sids, s # Session(t)
  PROVE  Pending(s)' = Pending(s)
<1>1. handle \in [Sids -> 0 .. Len(tasks)] /\ tasks \in Seq(Turns) /\ handle' = handle
  BY DEF SessionTypeOK, StepOf
<1>2. CASE handle[s] = 0
  BY <1>1, <1>2 DEF Pending, Running
<1>3. CASE handle[s] # 0
  <2>1. handle[s] \in DOMAIN tasks /\ handle[s] # t
    BY <1>1, <1>3 DEF HandlesOK
  <2>2. tasks'[handle[s]] = tasks[handle[s]]
    BY <2>1 DEF StepOf, OneMoves
  <2> QED
    BY <1>1, <2>2 DEF Pending, Running, Finished
<1> QED
  BY <1>2, <1>3

Results(t, td) == {Message("result", t, tasks[t].round, {k}) : k \in td}

LEMMA PendingHere ==
  ASSUME TurnConstants, SessionTypeOK, HandlesOK, NEW t \in DOMAIN tasks, ~Finished(t), NEW s, s = Session(t)
  PROVE  handle[s] = t /\ Pending(s) = Results(t, tasks[t].todo)
<1>1. handle[s] = t /\ t # 0
  BY TurnFacts DEF HandlesOK
<1> QED
  BY <1>1 DEF Pending, Running, Results

LEMMA PendingNext ==
  ASSUME TurnConstants, SessionTypeOK, HandlesOK, NEW t \in DOMAIN tasks, StepOf(t), NEW s, s = Session(t)
  PROVE  Pending(s)' = IF tasks'[t].pc = "finished" THEN {} ELSE Results(t, tasks[t].todo)'
<1>1. handle[s] = t /\ t # 0 /\ handle' = handle
  BY TurnFacts DEF HandlesOK, StepOf
<1> QED
  BY <1>1 DEF Pending, Running, Results, Finished

(* The rows after an insert.                                                *)
LEMMA StoreWrite ==
  ASSUME SessionTypeOK, NEW r \in DOMAIN store, NEW m \in Messages, store' = [store EXCEPT ![r] = Append(@, m)]
  PROVE  /\ store' \in Seq(Seq(Messages)) /\ Len(store') = Len(store) /\ DOMAIN store' = DOMAIN store
         /\ store'[r] = Append(store[r], m) /\ store[r] \in Seq(Messages)
         /\ \A q \in DOMAIN store : q # r => store'[q] = store[q]
<1>1. store \in Seq(Seq(Messages))
  BY DEF SessionTypeOK
<1>2. store[r] \in Seq(Messages)
  BY <1>1
<1>3. Append(store[r], m) \in Seq(Messages)
  BY <1>2, AppendFacts
<1> DEFINE v == Append(store[r], m)
           T == Seq(Messages)
           w == [store EXCEPT ![r] = v]
<1>4. store' = w /\ v \in T /\ store \in Seq(T)
  BY <1>1, <1>3
<1>5. /\ w \in Seq(T) /\ DOMAIN w = DOMAIN store /\ Len(w) = Len(store) /\ w[r] = v
      /\ \A q \in DOMAIN store : q # r => w[q] = store[q]
  <2> HIDE DEF v, T
  <2> QED
    BY ONLY <1>4, r \in DOMAIN store, SeqReplace
<1> HIDE DEF w
<1> QED
  BY <1>2, <1>4, <1>5 DEF v, T

(* The rows of the sessions.                                                *)
LEMMA RowOf ==
  ASSUME SessionTypeOK, NEW s \in Sids
  PROVE  /\ ctx[s] \in Seq(Messages) /\ row[s] \in Nat
         /\ row[s] # 0 => row[s] \in DOMAIN store /\ store[row[s]] \in Seq(Messages)
<1>1. ctx \in [Sids -> Seq(Messages)] /\ row \in [Sids -> 0 .. Len(store)] /\ store \in Seq(Seq(Messages))
  BY DEF SessionTypeOK
<1>2. row[s] # 0 => row[s] \in DOMAIN store
  BY <1>1
<1> QED
  BY <1>1, <1>2

LEMMA OpenSids ==
  ASSUME TurnConstants, SessionTypeOK
  PROVE  open \subseteq Sids /\ sound \subseteq Sids /\ \A s \in open \cup sound : s # next /\ s < next
BY DEF TurnConstants, SessionTypeOK, Sids

(* A step of turn t that leaves the store alone and changes the context of  *)
(* its session to ms.                                                       *)
ContextStep(t, s, ms) ==
  /\ StepOf(t) /\ s = Session(t) /\ store' = store /\ unsaved' = unsaved
  /\ ctx' = [ctx EXCEPT ![s] = ms]
  /\ tasks'[t].pc \notin {"user", "text", "calls"}
  /\ tasks'[t].pc = "persist" => LastSaid(t, ms)'
  /\ s \in open => ContextOK(s, ms)'
  /\ (s \in open /\ row[s] # 0) => StoredAs(s, ms, store[row[s]])'
  /\ s \in sound => CallsMatched(ms)

(* A step that changes a context and no row keeps the invariant, if it keeps that context. *)
LEMMA ContextStepKeeps ==
  ASSUME TurnConstants, SessionInv, NEW t \in DOMAIN tasks, NEW s, NEW ms \in Seq(Messages),
         ContextStep(t, s, ms)
  PROVE  SessionInv'
<1>0. /\ SessionTypeOK /\ HandlesOK /\ RowsOK /\ ContextsOK /\ InHandOK /\ TodoOK /\ StoredOK /\ SoundOK
      /\ StepOf(t) /\ s = Session(t) /\ store' = store /\ unsaved' = unsaved /\ open' = open /\ row' = row
      /\ handle' = handle /\ sound' = sound /\ DOMAIN tasks' = DOMAIN tasks
      /\ \A u \in DOMAIN tasks : u # t => tasks'[u] = tasks[u]
  BY DEF SessionInv, ContextStep, StepOf, OneMoves
<1>1. s \in Sids /\ ctx \in [Sids -> Seq(Messages)] /\ store \in Seq(Seq(Messages))
  BY <1>0, TurnFacts DEF SessionTypeOK
<1>2. ctx' \in [Sids -> Seq(Messages)] /\ ctx'[s] = ms /\ \A z \in Sids : z # s => ctx'[z] = ctx[z]
  BY <1>1 DEF ContextStep
<1>3. SessionTypeOK'
  BY <1>0, <1>1, <1>2, StepType
<1>4. HandlesOK'
  BY <1>0, StepHandles
<1>5. AllOnward /\ open \subseteq Sids /\ sound \subseteq Sids
  BY <1>0, StepOnward, OpenSids
<1>6. \A z \in Sids : z # s => Pending(z)' = Pending(z)
  BY <1>0, PendingElsewhere
<1>7. RowsOK'
  <2>1. \A r \in DOMAIN store : store[r] \in Seq(Messages) /\ RowOK(store[r])
    BY <1>0, <1>1 DEF RowsOK
  <2>2. \A x \in Seq(Messages) : RowOK(x) => RowOK(x)'
    BY <1>5, RowStays
  <2> QED
    BY <1>0, <2>1, <2>2 DEF RowsOK
<1>8. ContextsOK'
  <2>1. ASSUME NEW z \in open
        PROVE  ContextOK(z, ctx[z])'
    <3>1. CASE z = s
      BY <1>2, <2>1, <3>1 DEF ContextStep
    <3>2. CASE z # s
      <4>1. z \in Sids /\ ctx[z] \in Seq(Messages) /\ ctx'[z] = ctx[z] /\ ContextOK(z, ctx[z])
        BY <1>0, <1>1, <1>2, <1>5, <3>2 DEF ContextsOK
      <4>2. \A x \in Seq(Messages) : ContextOK(z, x) => ContextOK(z, x)'
        BY <1>5, ContextStays
      <4> QED
        BY <4>1, <4>2
    <3> QED
      BY <3>1, <3>2
  <2> QED
    BY <1>0, <2>1 DEF ContextsOK
<1>9. ASSUME NEW u \in DOMAIN tasks, u # t
      PROVE  /\ tasks'[u] = tasks[u] /\ Session(u)' = Session(u) /\ Session(u) \in Sids
             /\ InHand(u)' = InHand(u) /\ (TodoAt(u) => TodoAt(u)')
             /\ tasks[u].pc # "finished" => Session(u) # s /\ ctx'[Session(u)] = ctx[Session(u)]
  <2>1. tasks'[u] = tasks[u]
    BY <1>0, <1>9
  <2>2. Session(u)' = Session(u) /\ Session(u) \in Sids
    BY <1>0, <2>1, TurnFacts DEF Session
  <2>3. InHand(u)' = InHand(u) /\ (TodoAt(u) => TodoAt(u)')
    BY <2>1 DEF InHand, TodoAt, TurnAt
  <2>4. tasks[u].pc # "finished" => Session(u) # s
    BY <1>0, <1>9, TurnsApart DEF StepOf, Finished
  <2> QED
    BY <1>2, <2>1, <2>2, <2>3, <2>4
<1>10. InHandOK'
  <2>1. ASSUME NEW u \in DOMAIN tasks, Session(u)' \in open, row[Session(u)'] # 0,
               tasks'[u].pc \in {"user", "text", "calls"}
        PROVE  Ahead(InHand(u), ctx[Session(u)], store[row[Session(u)]])'
    <3>1. u # t
      BY <2>1 DEF ContextStep
    <3>2. Ahead(InHand(u), ctx[Session(u)], store[row[Session(u)]])
      BY <1>0, <1>9, <2>1, <3>1 DEF InHandOK
    <3>3. \A w, x, rows : Ahead(w, x, rows) => Ahead(w, x, rows)'
      BY <1>0, AheadStays
    <3> QED
      BY <1>0, <1>9, <2>1, <3>1, <3>2, <3>3
  <2> QED
    BY <1>0, <2>1 DEF InHandOK
<1>11. TodoOK'
  <2>1. ASSUME NEW u \in DOMAIN tasks
        PROVE  TodoAt(u)' /\ (TurnAt(u, "persist")' /\ Session(u)' \in open => LastSaid(u, ctx[Session(u)])')
    <3>1. CASE u = t
      <4>1. Session(u)' = s
        BY <1>0, <3>1 DEF StepOf, OneMoves, Session
      <4> QED
        BY <1>0, <1>2, <3>1, <4>1 DEF ContextStep, StepOf, TurnAt
    <3>2. CASE u # t
      <4>1. TurnAt(u, "persist")' => TurnAt(u, "persist") /\ tasks[u].pc # "finished"
        BY <1>9, <3>2 DEF TurnAt
      <4>2. \A x : LastSaid(u, x) => LastSaid(u, x)'
        BY <1>9, <3>2 DEF LastSaid
      <4> QED
        BY <1>0, <1>9, <3>2, <4>1, <4>2 DEF TodoOK
    <3> QED
      BY <3>1, <3>2
  <2> QED
    BY <1>0, <2>1 DEF TodoOK
<1>12. StoredOK'
  <2>1. ASSUME NEW z \in open, row[z] # 0
        PROVE  StoredAs(z, ctx[z], store[row[z]])'
    <3>1. CASE z = s
      BY <1>0, <1>2, <2>1, <3>1 DEF ContextStep
    <3>2. CASE z # s
      <4>1. /\ z \in Sids /\ ctx[z] \in Seq(Messages) /\ ctx'[z] = ctx[z] /\ Pending(z)' = Pending(z)
            /\ StoredAs(z, ctx[z], store[row[z]])
        BY <1>0, <1>1, <1>2, <1>5, <1>6, <2>1, <3>2 DEF StoredOK
      <4>2. \A x, rows : StoredAs(z, x, rows) => StoredAs(z, x, rows)'
        BY <1>0, <4>1 DEF StoredAs, Kept
      <4> QED
        BY <1>0, <4>1, <4>2
    <3> QED
      BY <3>1, <3>2
  <2> QED
    BY <1>0, <2>1 DEF StoredOK
<1>13. SoundOK'
  <2>1. ASSUME NEW z \in sound
        PROVE  CallsMatched(ctx'[z])
    <3>1. CASE z = s
      BY <1>0, <1>2, <2>1, <3>1 DEF ContextStep
    <3>2. CASE z # s
      BY <1>0, <1>2, <1>5, <2>1, <3>2 DEF SoundOK
    <3> QED
      BY <3>1, <3>2
  <2> QED
    BY <1>0, <2>1 DEF SoundOK
<1> QED
  BY <1>3, <1>4, <1>7, <1>8, <1>10, <1>11, <1>12, <1>13 DEF SessionInv

(* A step of turn t that writes the message m to the row of its session.    *)
WriteStep(t, s, m) ==
  /\ StepOf(t) /\ s = Session(t) /\ Persist(t, m) /\ ctx' = ctx
  /\ m.turn = t /\ ~InRow(t, m) /\ InRow(t, m)' /\ (m.kind = "result" => \E k \in m.of : m.of = {k})
  /\ tasks'[t].pc \in {"user", "text", "calls"} => InHand(t)' = m
  /\ tasks'[t].pc = "persist" =>
       TurnAt(t, "persist") /\ tasks'[t].round = tasks[t].round /\ tasks'[t].calls = tasks[t].calls
  /\ (s \in open /\ row[s] # 0) => SameOrder(ctx[s], Append(store[row[s]], m))
  /\ \A e \in Pending(s) : e \in Pending(s)' \/ e = m

(* What the insert may have done to the store.                              *)
LEMMA PersistFacts ==
  ASSUME TurnConstants, SessionTypeOK, NEW t \in DOMAIN tasks, NEW m \in Messages, Persist(t, m), NEW s, s = Session(t)
  PROVE  /\ store' \in Seq(Seq(Messages)) /\ Len(store') = Len(store) /\ DOMAIN store' = DOMAIN store
         /\ \A r \in DOMAIN store : store'[r] = store[r] \/ (r = row[s] /\ store'[r] = Append(store[r], m))
         /\ faults' \in 0 .. MaxFaults /\ unsaved \subseteq unsaved' /\ unsaved' \subseteq Messages
         /\ row[s] # 0 => m \in unsaved' \/ store'[row[s]] = Append(store[row[s]], m)
<1>1. /\ store \in Seq(Seq(Messages)) /\ faults \in 0 .. MaxFaults /\ unsaved \subseteq Messages /\ MaxFaults \in Nat
      /\ s \in Sids /\ (row[s] # 0 => row[s] \in DOMAIN store)
  BY TurnFacts, RowOf DEF SessionTypeOK, TurnConstants
<1>2. CASE row[s] = 0 /\ UNCHANGED <<store, faults, unsaved>>
  BY <1>1, <1>2
<1>3. CASE row[s] # 0 /\ store' = [store EXCEPT ![row[s]] = Append(@, m)] /\ UNCHANGED <<faults, unsaved>>
  <2>1. /\ store' \in Seq(Seq(Messages)) /\ Len(store') = Len(store) /\ DOMAIN store' = DOMAIN store
        /\ store'[row[s]] = Append(store[row[s]], m)
        /\ \A q \in DOMAIN store : q # row[s] => store'[q] = store[q]
    BY <1>1, <1>3, StoreWrite
  <2> QED
    BY <1>1, <1>3, <2>1
<1>4. CASE row[s] # 0 /\ faults < MaxFaults /\ faults' = faults + 1 /\ unsaved' = unsaved \cup {m} /\ UNCHANGED store
  BY <1>1, <1>4
<1> QED
  BY <1>2, <1>3, <1>4 DEF Persist

(* A step that writes one message to the row keeps the invariant.          *)
LEMMA WriteStepKeeps ==
  ASSUME TurnConstants, SessionInv, NEW t \in DOMAIN tasks, NEW s, NEW m \in Messages, WriteStep(t, s, m)
  PROVE  SessionInv'
<1>0. /\ SessionTypeOK /\ HandlesOK /\ RowsOK /\ ContextsOK /\ InHandOK /\ TodoOK /\ StoredOK /\ SoundOK
      /\ StepOf(t) /\ s = Session(t) /\ ctx' = ctx /\ open' = open /\ row' = row
      /\ handle' = handle /\ sound' = sound /\ DOMAIN tasks' = DOMAIN tasks /\ unsaved \subseteq unsaved'
      /\ \A u \in DOMAIN tasks : u # t => tasks'[u] = tasks[u]
  BY DEF SessionInv, WriteStep, StepOf, OneMoves
<1>1. /\ s \in Sids /\ ctx \in [Sids -> Seq(Messages)] /\ store \in Seq(Seq(Messages)) /\ t # 0
      /\ m.turn = t /\ ~InRow(t, m) /\ InRow(t, m)'
  BY <1>0, TurnFacts DEF SessionTypeOK, WriteStep
<1>2. /\ store' \in Seq(Seq(Messages)) /\ Len(store') = Len(store) /\ DOMAIN store' = DOMAIN store
      /\ \A r \in DOMAIN store : store'[r] = store[r] \/ (r = row[s] /\ store'[r] = Append(store[r], m))
      /\ row[s] # 0 => m \in unsaved' \/ store'[row[s]] = Append(store[row[s]], m)
  BY <1>0, PersistFacts DEF WriteStep
<1>3. SessionTypeOK'
  BY <1>0, <1>1, <1>2, StepType
<1>4. HandlesOK'
  BY <1>0, StepHandles
<1>5. AllOnward /\ open \subseteq Sids /\ sound \subseteq Sids
  BY <1>0, StepOnward, OpenSids
<1>6. \A z \in Sids : z # s => Pending(z)' = Pending(z)
  BY <1>0, PendingElsewhere
<1>7. \A r \in DOMAIN store : store[r] \in Seq(Messages) /\ RowOK(store[r]) /\ \A p \in DOMAIN store[r] : store[r][p] # m
  <2>1. \A r \in DOMAIN store : store[r] \in Seq(Messages) /\ RowOK(store[r])
    BY <1>0, <1>1 DEF RowsOK
  <2> QED
    BY <1>1, <2>1, RowFresh
<1>8. RowsOK'
  <2>1. \A x \in Seq(Messages) : RowOK(x) => RowOK(x)' /\ RowOK(Append(x, m))'
    BY <1>1, <1>5, RowStays, RowGrows DEF WriteStep
  <2> QED
    BY <1>2, <1>7, <2>1 DEF RowsOK
<1>9. ContextsOK'
  <2>1. \A z : \A x \in Seq(Messages) : ContextOK(z, x) => ContextOK(z, x)'
    BY <1>5, ContextStays
  <2> QED
    BY <1>0, <1>1, <1>5, <2>1 DEF ContextsOK
<1>10. \A z \in open : z # s => \A i \in DOMAIN ctx[z] : m \notin Entries(ctx[z][i])
  <2>1. \A z \in open : ctx[z] \in Seq(Messages) /\ ContextOK(z, ctx[z])
    BY <1>0, <1>1, <1>5 DEF ContextsOK
  <2> QED
    BY <1>0, <1>1, <2>1, ContextFreshElsewhere
<1>11. ASSUME NEW u \in DOMAIN tasks, u # t
      PROVE  /\ tasks'[u] = tasks[u] /\ Session(u)' = Session(u) /\ Session(u) \in Sids
             /\ InHand(u)' = InHand(u) /\ (TodoAt(u) => TodoAt(u)')
             /\ tasks[u].pc # "finished" => Session(u) # s
  <2>1. tasks'[u] = tasks[u]
    BY <1>0, <1>11
  <2>2. Session(u)' = Session(u) /\ Session(u) \in Sids
    BY <1>0, <2>1, TurnFacts DEF Session
  <2>3. InHand(u)' = InHand(u) /\ (TodoAt(u) => TodoAt(u)')
    BY <2>1 DEF InHand, TodoAt, TurnAt
  <2>4. tasks[u].pc # "finished" => Session(u) # s
    BY <1>0, <1>11, TurnsApart DEF StepOf, Finished
  <2> QED
    BY <2>1, <2>2, <2>3, <2>4
<1>12. Session(t)' = s
  BY <1>0 DEF StepOf, OneMoves, Session
<1>13. InHandOK'
  <2>1. ASSUME NEW u \in DOMAIN tasks, Session(u)' \in open, row[Session(u)'] # 0,
               tasks'[u].pc \in {"user", "text", "calls"}
        PROVE  Ahead(InHand(u), ctx[Session(u)], store[row[Session(u)]])'
    <3>1. CASE u = t
      <4>1. InHand(u)' = m /\ row[s] # 0 /\ row[s] \in DOMAIN store
        BY <1>0, <1>1, <1>12, <2>1, <3>1, RowOf DEF WriteStep
      <4>2. \A x : \A rows \in Seq(Messages) : (\A p \in DOMAIN rows : rows[p] # m) =>
              Ahead(m, x, Append(rows, m))' /\ (m \in unsaved' => Ahead(m, x, rows)')
        BY AheadNew
      <4>3. PICK x, y, w : x = ctx[s] /\ y = store[row[s]] /\ w = store'[row[s]]
        OBVIOUS
      <4>4. y \in Seq(Messages) /\ (\A p \in DOMAIN y : y[p] # m) /\ (w = Append(y, m) \/ (w = y /\ m \in unsaved'))
        BY <1>2, <1>7, <4>1, <4>3
      <4>5. Ahead(m, x, w)'
        BY <4>2, <4>4
      <4> QED
        BY <1>0, <1>12, <3>1, <4>1, <4>3, <4>5
    <3>2. CASE u # t
      <4>1. /\ Session(u)' = Session(u) /\ Session(u) # s /\ Session(u) \in open /\ row[Session(u)] # 0
            /\ row[Session(u)] \in DOMAIN store
        BY <1>0, <1>11, <2>1, <3>2, RowOf
      <4>2. Ahead(InHand(u), ctx[Session(u)], store[row[Session(u)]])
        BY <1>0, <1>11, <2>1, <3>2, <4>1 DEF InHandOK
      <4>3. \A w, x, rows : Ahead(w, x, rows) => Ahead(w, x, rows)'
        BY <1>0, AheadStays
      <4>4. \A w, x : \A rows \in Seq(Messages) :
              (Ahead(w, x, rows) /\ \A i \in DOMAIN x : m \notin Entries(x[i])) => Ahead(w, x, Append(rows, m))'
        BY <1>0, AheadMore
      <4>5. \A i \in DOMAIN ctx[Session(u)] : m \notin Entries(ctx[Session(u)][i])
        BY <1>10, <4>1
      <4>6. PICK h, x, y, w : /\ h = InHand(u) /\ x = ctx[Session(u)] /\ y = store[row[Session(u)]]
                              /\ w = store'[row[Session(u)]]
        OBVIOUS
      <4>7. Ahead(h, x, y) /\ y \in Seq(Messages) /\ (w = y \/ w = Append(y, m))
        BY <1>2, <1>7, <4>1, <4>2, <4>6
      <4>8. Ahead(h, x, w)'
        BY <4>3, <4>4, <4>5, <4>6, <4>7
      <4> QED
        BY <1>0, <1>11, <3>2, <4>1, <4>6, <4>8
    <3> QED
      BY <3>1, <3>2
  <2> QED
    BY <1>0, <2>1 DEF InHandOK
<1>14. TodoOK'
  <2>1. ASSUME NEW u \in DOMAIN tasks
        PROVE  TodoAt(u)' /\ (TurnAt(u, "persist")' /\ Session(u)' \in open => LastSaid(u, ctx[Session(u)])')
    <3>1. CASE u = t
      <4>1. TodoAt(t)'
        BY <1>0 DEF StepOf
      <4>2. TurnAt(t, "persist")' => /\ TurnAt(t, "persist") /\ tasks'[t].round = tasks[t].round
                                     /\ tasks'[t].calls = tasks[t].calls
        BY DEF WriteStep, TurnAt
      <4>3. TurnAt(t, "persist")' => \A x : LastSaid(t, x) => LastSaid(t, x)'
        BY <4>2 DEF LastSaid
      <4> QED
        BY <1>0, <1>12, <3>1, <4>1, <4>2, <4>3 DEF TodoOK
    <3>2. CASE u # t
      <4>1. TurnAt(u, "persist")' => TurnAt(u, "persist")
        BY <1>11, <3>2 DEF TurnAt
      <4>2. \A x : LastSaid(u, x) => LastSaid(u, x)'
        BY <1>11, <3>2 DEF LastSaid
      <4> QED
        BY <1>0, <1>11, <3>2, <4>1, <4>2 DEF TodoOK
    <3> QED
      BY <3>1, <3>2
  <2> QED
    BY <1>0, <2>1 DEF TodoOK
<1>15. StoredOK'
  <2>1. ASSUME NEW z \in open, row[z] # 0
        PROVE  StoredAs(z, ctx[z], store[row[z]])'
    <3>0. PICK ms, rows, more : ms = ctx[z] /\ rows = store[row[z]] /\ more = store'[row[z]]
      OBVIOUS
    <3>1. /\ z \in Sids /\ ms \in Seq(Messages) /\ row[z] \in DOMAIN store /\ rows \in Seq(Messages)
          /\ StoredAs(z, ms, rows) /\ more \in Seq(Messages)
          /\ more = rows \/ (row[z] = row[s] /\ more = Append(rows, m))
          /\ SameOrder(ms, rows)
      <4>1. z \in Sids /\ ms \in Seq(Messages) /\ row[z] \in DOMAIN store /\ rows \in Seq(Messages)
        BY <1>0, <1>5, <2>1, <3>0, RowOf
      <4>2. more = rows \/ (row[z] = row[s] /\ more = Append(rows, m))
        BY <1>2, <3>0, <4>1
      <4>3. more \in Seq(Messages)
        BY <4>1, <4>2, AppendFacts
      <4>4. StoredAs(z, ms, rows)
        BY <1>0, <2>1, <3>0 DEF StoredOK
      <4> QED
        BY <4>1, <4>2, <4>3, <4>4 DEF StoredAs
    <3>2. SameOrder(ms, more)
      <4>1. CASE more = rows
        BY <3>1, <4>1
      <4>2. CASE z = s /\ more = Append(rows, m)
        BY <2>1, <3>0, <4>2 DEF WriteStep
      <4>3. CASE z # s /\ more = Append(rows, m)
        <5>1. \A i \in DOMAIN ms : m \notin Entries(ms[i])
          BY <1>10, <2>1, <3>0, <4>3
        <5> QED
          BY <3>1, <4>3, <5>1, OrderOfRows
      <4> QED
        BY <3>1, <4>1, <4>2, <4>3
    <3>3. \A p \in DOMAIN rows : \E q \in DOMAIN more : more[q] = rows[p]
      <4>1. CASE more = rows
        BY <4>1
      <4>2. CASE more = Append(rows, m)
        BY <3>1, <4>2, AppendFacts
      <4> QED
        BY <3>1, <4>1, <4>2
    <3>4. \A e \in Pending(z) : e \in Pending(z)' \/ e \in unsaved' \/ \E q \in DOMAIN more : more[q] = e
      <4>1. CASE z # s
        BY <1>6, <3>1, <4>1
      <4>2. CASE z = s
        <5>1. m \in unsaved' \/ more = Append(rows, m)
          BY <1>2, <2>1, <3>0, <4>2
        <5>2. m \in unsaved' \/ \E q \in DOMAIN more : more[q] = m
          BY <3>1, <5>1, AppendFacts
        <5> QED
          BY <4>2, <5>2 DEF WriteStep
      <4> QED
        BY <4>1, <4>2
    <3>5. StoredAs(z, ms, more)'
      BY <1>0, <3>1, <3>2, <3>3, <3>4, StoredKeeps
    <3> QED
      BY <1>0, <3>0, <3>5
  <2> QED
    BY <1>0, <2>1 DEF StoredOK
<1>16. SoundOK'
  BY <1>0 DEF SoundOK
<1> QED
  BY <1>3, <1>4, <1>8, <1>9, <1>13, <1>14, <1>15, <1>16 DEF SessionInv

LEMMA ShowType ==
  ASSUME SessionTypeOK, NEW t, NEW x \in SessionStatuses, Show(t, x)
  PROVE  status' \in [Sids -> SessionStatuses]
BY DEF SessionTypeOK, Show

LEMMA TodoNow ==
  ASSUME TurnConstants, SessionInv, NEW t \in DOMAIN tasks
  PROVE  /\ SessionTypeOK /\ TodoAt(t)
         /\ tasks[t].pc \notin {"persist", "finished"} => tasks[t].todo = {}
         /\ status \in [Sids -> SessionStatuses] /\ faults \in 0 .. MaxFaults /\ unsaved \subseteq Messages
         /\ faults < MaxFaults => faults + 1 \in 0 .. MaxFaults
         /\ faults \in Nat /\ MaxFaults \in Nat
BY DEF SessionInv, TodoOK, TodoAt, SessionTypeOK, TurnConstants

LEMMA SummaryNow ==
  ASSUME TurnConstants, SessionInv, NEW t \in DOMAIN tasks, ~Finished(t), tasks[t].pc # "persist", NEW s, s = Session(t)
  PROVE  /\ Pending(s) = {} /\ s \in Sids /\ ctx[s] \in Seq(Messages)
         /\ s \in open => ContextOK(s, ctx[s])
         /\ (s \in open /\ row[s] # 0) => StoredAs(s, ctx[s], store[row[s]])
         /\ row[s] # 0 => row[s] \in DOMAIN store /\ store[row[s]] \in Seq(Messages) /\ RowOK(store[row[s]])
         /\ s \in sound => CallsMatched(ctx[s])
<1>1. SessionTypeOK /\ HandlesOK /\ tasks[t].todo = {} /\ s \in Sids
  BY TodoNow, TurnFacts DEF SessionInv, Finished
<1>2. Pending(s) = {}
  <2>1. Pending(s) = Results(t, tasks[t].todo)
    BY <1>1, PendingHere
  <2>2. Results(t, {}) = {}
    BY DEF Results
  <2> QED
    BY <1>1, <2>1, <2>2
<1>3. /\ ctx[s] \in Seq(Messages)
      /\ row[s] # 0 => row[s] \in DOMAIN store /\ store[row[s]] \in Seq(Messages)
  BY <1>1, RowOf
<1> QED
  BY <1>1, <1>2, <1>3 DEF SessionInv, ContextsOK, StoredOK, RowsOK, SoundOK

(* A step of a turn that touches neither the context nor the store.         *)
LEMMA QuietTurn ==
  ASSUME TurnConstants, SessionInv, NEW t \in DOMAIN tasks, StepOf(t), tasks[t].pc # "persist",
         tasks'[t].pc \notin {"user", "text", "calls", "persist"},
         ctx' = ctx, store' = store, unsaved' = unsaved
  PROVE  SessionInv'
<1>1. PICK s, ms : s = Session(t) /\ ms = ctx[s]
  OBVIOUS
<1>2. /\ Pending(s) = {} /\ s \in Sids /\ ms \in Seq(Messages)
      /\ s \in open => ContextOK(s, ms)
      /\ (s \in open /\ row[s] # 0) => StoredAs(s, ms, store[row[s]])
      /\ row[s] # 0 => row[s] \in DOMAIN store /\ store[row[s]] \in Seq(Messages)
      /\ s \in sound => CallsMatched(ms)
  BY <1>1, SummaryNow DEF StepOf
<1>3. ctx' = [ctx EXCEPT ![s] = ms] /\ row' = row
  BY <1>1, <1>2 DEF SessionInv, SessionTypeOK, StepOf
<1>4. s \in open => ContextOK(s, ms)'
  BY <1>2, StepOnward, ContextStays
<1>5. (s \in open /\ row[s] # 0) => StoredAs(s, ms, store[row[s]])'
  <2>1. PICK rows : rows = store[row[s]]
    OBVIOUS
  <2>2. (s \in open /\ row[s] # 0) => StoredAs(s, ms, rows)'
    <3>1. SUFFICES ASSUME s \in open, row[s] # 0 PROVE StoredAs(s, ms, rows)'
      OBVIOUS
    <3>2. StoredAs(s, ms, rows) /\ rows \in Seq(Messages) /\ SameOrder(ms, rows) /\ ms \in Seq(Messages)
      BY <1>2, <2>1, <3>1 DEF StoredAs
    <3>3. \A e \in Pending(s) : e \in Pending(s)' \/ e \in unsaved' \/ \E q \in DOMAIN rows : rows[q] = e
      BY <1>2
    <3>4. \A p \in DOMAIN rows : \E q \in DOMAIN rows : rows[q] = rows[p]
      OBVIOUS
    <3> QED
      BY <3>2, <3>3, <3>4, StoredKeeps
  <2> QED
    BY <1>3, <2>1, <2>2
<1>6. ContextStep(t, s, ms)
  BY <1>1, <1>2, <1>3, <1>4, <1>5 DEF ContextStep
<1> QED
  BY <1>2, <1>6, ContextStepKeeps

(* The steps of a turn, one by one: first those that move it and say nothing. *)
LEMMA StopKeeps ==
  ASSUME TurnConstants, SessionInv, NEW t \in DOMAIN tasks, Stop(t)
  PROVE  SessionInv'
<1>1. tasks[t].pc \in Awaits /\ TurnTo(t, "finished") /\ UNCHANGED <<live, status, store, faults, unsaved, sound>>
  BY DEF Stop
<1>2. SessionTypeOK /\ ~Finished(t) /\ tasks[t].pc # "persist" /\ "finished" \in TurnSteps
  BY <1>1, TodoNow DEF Finished, Awaits, TurnSteps
<1>3. OneMoves(t) /\ tasks'[t].pc = "finished"
  BY <1>1, <1>2, TurnToFacts
<1>4. Onward(t) /\ TodoAt(t)'
  BY <1>3, FinishedOnward DEF OneMoves, TodoAt, TurnAt
<1>5. StepOf(t) /\ ctx' = ctx
  BY <1>1, <1>2, <1>3, <1>4, TodoNow DEF StepOf, live
<1> QED
  BY <1>1, <1>2, <1>3, <1>5, QuietTurn

LEMMA NoRootKeeps ==
  ASSUME TurnConstants, SessionInv, NEW t \in DOMAIN tasks, NoRoot(t)
  PROVE  SessionInv'
<1>1. /\ tasks[t].pc = "start" /\ TurnTo(t, "finished") /\ Show(t, "error") /\ faults < MaxFaults /\ faults' = faults + 1
      /\ UNCHANGED <<live, store, unsaved, sound>>
  BY DEF NoRoot, TurnAt
<1>2. SessionTypeOK /\ ~Finished(t) /\ tasks[t].pc # "persist" /\ "finished" \in TurnSteps /\ "error" \in SessionStatuses
  BY <1>1, TodoNow DEF Finished, TurnSteps, SessionStatuses
<1>3. OneMoves(t) /\ tasks'[t].pc = "finished"
  BY <1>1, <1>2, TurnToFacts
<1>4. Onward(t) /\ TodoAt(t)'
  BY <1>3, FinishedOnward DEF OneMoves, TodoAt, TurnAt
<1>5. status' \in [Sids -> SessionStatuses]
  BY <1>1, <1>2, ShowType
<1>6. StepOf(t) /\ ctx' = ctx
  BY <1>1, <1>2, <1>3, <1>4, <1>5, TodoNow DEF StepOf, live
<1> QED
  BY <1>1, <1>2, <1>3, <1>6, QuietTurn

LEMMA RoundKeeps ==
  ASSUME TurnConstants, SessionInv, NEW t \in DOMAIN tasks, Round(t)
  PROVE  SessionInv'
<1>1. tasks[t].pc = "loop" /\ UNCHANGED <<live, store, faults, unsaved, sound>>
  BY DEF Round, TurnAt
<1>2. /\ SessionTypeOK /\ ~Finished(t) /\ tasks[t].pc # "persist" /\ tasks[t].todo = {} /\ "finished" \in TurnSteps
      /\ "error" \in SessionStatuses /\ "thinking" \in SessionStatuses
  BY <1>1, TodoNow DEF Finished, TurnSteps, SessionStatuses
<1>3. /\ OneMoves(t) /\ tasks'[t].pc \in {"finished", "compress", "answer"} /\ Onward(t) /\ TodoAt(t)'
      /\ status' \in [Sids -> SessionStatuses]
  <2>1. CASE tasks[t].round >= MaxRounds
    <3>1. TurnTo(t, "finished") /\ Show(t, "error")
      BY <2>1 DEF Round
    <3>2. OneMoves(t) /\ tasks'[t].pc = "finished"
      BY <1>2, <3>1, TurnToFacts
    <3>3. Onward(t) /\ TodoAt(t)'
      BY <3>2, FinishedOnward DEF OneMoves, TodoAt, TurnAt
    <3> QED
      BY <1>2, <3>1, <3>2, <3>3, ShowType
  <2>2. CASE ~(tasks[t].round >= MaxRounds)
    <3> DEFINE x == IF tasks[t].aborted THEN "finished" ELSE IF Compression THEN "compress" ELSE "answer"
    <3>1. tasks' = [tasks EXCEPT ![t].round = @ + 1, ![t].pc = x] /\ Show(t, "thinking")
      BY <2>2 DEF Round
    <3>2. x \in {"finished", "compress", "answer"} /\ x \in TurnSteps
      BY DEF TurnSteps, Awaits
    <3>3. tasks[t].round < MaxRounds /\ tasks[t].round \in Nat
      BY <1>2, <2>2, TurnFacts DEF TurnConstants
    <3> HIDE DEF x
    <3>4. /\ OneMoves(t) /\ tasks'[t].pc = x /\ tasks'[t].round = tasks[t].round + 1
          /\ tasks'[t].calls = tasks[t].calls /\ tasks'[t].todo = {}
      BY <1>2, <3>1, <3>2, <3>3, RoundFacts
    <3>5. TodoAt(t)'
      BY <3>2, <3>3, <3>4 DEF TodoAt, TurnAt
    <3>6. Onward(t)
      <4>1. CASE x = "finished"
        BY <3>4, <4>1, FinishedOnward DEF OneMoves
      <4>2. CASE x \in {"compress", "answer"}
        <5>1. RowRank(t) = 3 * tasks[t].round + 3 /\ ContextRank(t) = 3 * tasks[t].round + 3
          BY <1>1, <1>2, RankValues
        <5>2. RowRank(t)' = 3 * (tasks[t].round + 1) /\ ContextRank(t)' = 3 * (tasks[t].round + 1)
          BY <3>4, <4>2 DEF RowRank, ContextRank, TurnAt
        <5> QED
          BY <1>1, <1>2, <3>3, <3>4, <5>1, <5>2, RankOnward
      <4> QED
        BY <3>2, <4>1, <4>2
    <3> QED
      BY <1>2, <3>1, <3>2, <3>4, <3>5, <3>6, ShowType
  <2> QED
    BY <2>1, <2>2
<1>4. StepOf(t) /\ ctx' = ctx
  BY <1>1, <1>2, <1>3, TodoNow DEF StepOf, live
<1> QED
  BY <1>1, <1>2, <1>3, <1>4, QuietTurn

LEMMA AnswersCallsKeeps ==
  ASSUME TurnConstants, SessionInv, NEW t \in DOMAIN tasks, NEW n \in 1 .. MaxCalls, NEW b \in BOOLEAN, NEW err \in BOOLEAN,
         AnswersCalls(t, n, b, err)
  PROVE  SessionInv'
<1>1. /\ tasks[t].pc = "answer" /\ tasks' = [tasks EXCEPT ![t].pc = "tools", ![t].calls = n, ![t].stop = b]
      /\ Show(t, IF err THEN "error" ELSE "tool") /\ UNCHANGED <<live, store, faults, unsaved, sound>>
  BY DEF AnswersCalls, TurnAt
<1>2. /\ SessionTypeOK /\ ~Finished(t) /\ tasks[t].pc # "persist" /\ tasks[t].todo = {} /\ tasks[t].round > 0
      /\ (IF err THEN "error" ELSE "tool") \in SessionStatuses
  BY <1>1, TodoNow DEF Finished, SessionStatuses, TodoAt
<1>3. /\ OneMoves(t) /\ tasks'[t].pc = "tools" /\ tasks'[t].round = tasks[t].round
      /\ tasks'[t].calls = n /\ tasks'[t].todo = {}
  BY <1>1, <1>2, CallsFacts
<1>4. TodoAt(t)'
  BY <1>2, <1>3 DEF TodoAt, TurnAt
<1>5. Onward(t)
  <2>1. RowRank(t) = 3 * tasks[t].round /\ ContextRank(t) = 3 * tasks[t].round /\ tasks[t].round \in Nat
    BY <1>1, <1>2, RankValues
  <2>2. RowRank(t)' = 3 * tasks[t].round + 1 /\ ContextRank(t)' = 3 * tasks[t].round
    BY <1>3 DEF RowRank, ContextRank, TurnAt
  <2> QED
    BY <1>1, <1>2, <1>3, <2>1, <2>2, RankOnward
<1>6. status' \in [Sids -> SessionStatuses]
  BY <1>1, <1>2, ShowType
<1>7. StepOf(t) /\ ctx' = ctx
  BY <1>1, <1>2, <1>3, <1>4, <1>5, <1>6, TodoNow DEF StepOf, live
<1> QED
  BY <1>1, <1>2, <1>3, <1>7, QuietTurn

(* The row has a message that is written ahead, once the context has it.    *)
LEMMA StoredGrows ==
  ASSUME NEW s, NEW ms \in Seq(Messages), NEW rows \in Seq(Messages), NEW m \in Messages,
         StoredAs(s, ms, rows), Pending(s) = {}, unsaved' = unsaved, Ahead(m, ms, rows), RowOK(rows), m.kind # "result"
  PROVE  StoredAs(s, Append(ms, m), rows)'
<1> DEFINE more == Append(ms, m)
           last == Len(ms) + 1
<1>1. /\ DOMAIN more = DOMAIN ms \cup {last} /\ more[last] = m
      /\ \A p \in DOMAIN ms : more[p] = ms[p]
  BY AppendFacts
<1>2. Entries(m) = {m}
  BY DEF Entries
<1>3. ASSUME NEW p \in DOMAIN rows, NEW q \in DOMAIN rows, p < q, rows[p] \in Entries(m)
      PROVE  (\A i \in DOMAIN ms : rows[q] \notin Entries(ms[i])) /\ rows[q] \notin Entries(m)
  <2>1. rows[p] = m
    BY <1>2, <1>3
  <2>2. p \in Nat /\ q \in Nat /\ p # q
    BY <1>3
  <2>3. rows[q] # m
    BY <2>1, <2>2 DEF RowOK
  <2> QED
    BY <1>2, <1>3, <2>1, <2>3 DEF Ahead
<1>4. SameOrder(more, rows)
  BY <1>3, OrderOfMessages DEF StoredAs
<1> HIDE DEF more, last
<1>5. ASSUME NEW i \in DOMAIN more, NEW e \in Kept(s, more[i])'
      PROVE  \E p \in DOMAIN rows : rows[p] = e
  <2>1. e \in Entries(more[i]) /\ e.turn # 0 /\ e \notin unsaved
    BY <1>5 DEF Kept
  <2>2. CASE i = last
    BY <1>1, <1>2, <2>1, <2>2 DEF Ahead
  <2>3. CASE i \in DOMAIN ms
    <3>1. e \in Kept(s, ms[i])
      BY <1>1, <2>1, <2>3 DEF Kept
    <3> QED
      BY <2>3, <3>1 DEF StoredAs
  <2> QED
    BY <1>1, <2>2, <2>3
<1> QED
  BY <1>4, <1>5 DEF StoredAs, more

LEMMA AddedOne ==
  ASSUME TurnConstants, SessionInv, NEW t \in DOMAIN tasks, StepOf(t), NEW m \in Messages, InHand(t) = m,
         tasks[t].pc \in {"user", "text"}, tasks'[t].pc \in {"loop", "finished"},
         m.turn = t, m.kind \in {"user", "text"}, ~InContext(t, m), InContext(t, m)',
         Add(t, <<m>>), store' = store, unsaved' = unsaved
  PROVE  SessionInv'
<1>1. PICK s, ms : s = Session(t) /\ ms = ctx[s]
  OBVIOUS
<1>2. /\ Pending(s) = {} /\ s \in Sids /\ ms \in Seq(Messages)
      /\ s \in open => ContextOK(s, ms)
      /\ (s \in open /\ row[s] # 0) => StoredAs(s, ms, store[row[s]])
      /\ row[s] # 0 => row[s] \in DOMAIN store /\ store[row[s]] \in Seq(Messages) /\ RowOK(store[row[s]])
      /\ s \in sound => CallsMatched(ms)
  BY <1>1, SummaryNow DEF StepOf
<1>3. SessionTypeOK /\ t # 0 /\ AllOnward
  BY TurnFacts, StepOnward DEF SessionInv
<1> DEFINE more == Append(ms, m)
<1>4. more \in Seq(Messages) /\ ctx' = [ctx EXCEPT ![s] = more] /\ row' = row
  <2>1. ms \o <<m>> = more /\ more \in Seq(Messages)
    BY <1>2, AppendFacts, ConcatOne
  <2>2. ctx' = [ctx EXCEPT ![s] = ms \o <<m>>]
    BY <1>1 DEF Add
  <2> QED
    BY <2>1, <2>2 DEF StepOf
<1>5. s \in open => ContextOK(s, more)'
  BY <1>1, <1>2, <1>3, ContextGrows
<1>6. (s \in open /\ row[s] # 0) => StoredAs(s, more, store[row[s]])'
  <2>1. SUFFICES ASSUME s \in open, row[s] # 0
                 PROVE  StoredAs(s, more, store[row[s]])'
    OBVIOUS
  <2>2. PICK rows : rows = store[row[s]]
    OBVIOUS
  <2>3. Ahead(m, ms, rows)
    BY <1>1, <2>1, <2>2 DEF SessionInv, InHandOK
  <2>4. StoredAs(s, more, rows)'
    BY <1>2, <2>1, <2>2, <2>3, StoredGrows
  <2> QED
    BY <1>4, <2>2, <2>4
<1>7. s \in sound => CallsMatched(more)
  BY <1>2, MatchedMore
<1> HIDE DEF more
<1>8. ContextStep(t, s, more)
  BY <1>1, <1>4, <1>5, <1>6, <1>7 DEF ContextStep
<1> QED
  BY <1>4, <1>8, ContextStepKeeps

(* The steps that put something into the context.                          *)
LEMMA AddUserKeeps ==
  ASSUME TurnConstants, SessionInv, NEW t \in DOMAIN tasks, AddUser(t)
  PROVE  SessionInv'
<1> DEFINE m == Message("user", t, 0, {})
<1>1. /\ tasks[t].pc = "user" /\ TurnTo(t, "loop") /\ Add(t, <<m>>)
      /\ UNCHANGED <<next, open, row, handle, status, store, faults, unsaved, sound>>
  BY DEF AddUser, TurnAt
<1>2. /\ SessionTypeOK /\ ~Finished(t) /\ tasks[t].todo = {} /\ "loop" \in TurnSteps /\ t \in Nat
      /\ tasks[t].round \in Nat
  BY <1>1, TodoNow, TurnFacts DEF Finished, TurnSteps
<1>3. m \in Messages /\ m.kind = "user" /\ m.turn = t /\ InHand(t) = m
  BY <1>1, <1>2, MessageFacts DEF Kinds, InHand, TurnAt
<1>4. Rank(m) = 0
  BY <1>3 DEF Rank
<1> HIDE DEF m
<1>5. /\ OneMoves(t) /\ tasks'[t].pc = "loop" /\ tasks'[t].round = tasks[t].round /\ tasks'[t].todo = {}
  BY <1>1, <1>2, TurnToFacts
<1>6. TodoAt(t)'
  BY <1>5 DEF TodoAt, TurnAt
<1>7. RowRank(t) = 1 /\ ContextRank(t) = 0
  BY <1>1, <1>2, RankValues
<1>8. RowRank(t)' = 3 * tasks[t].round + 3 /\ ContextRank(t)' = 3 * tasks[t].round + 3
  BY <1>5 DEF RowRank, ContextRank, TurnAt
<1>9. Onward(t)
  BY <1>1, <1>2, <1>5, <1>7, <1>8, RankOnward
<1>10. ~InContext(t, m) /\ InContext(t, m)'
  BY <1>2, <1>4, <1>7, <1>8 DEF InContext
<1>11. StepOf(t)
  BY <1>1, <1>2, <1>5, <1>6, <1>9, TodoNow DEF StepOf
<1> QED
  BY <1>1, <1>3, <1>5, <1>10, <1>11, AddedOne

LEMMA AddTextKeeps ==
  ASSUME TurnConstants, SessionInv, NEW t \in DOMAIN tasks, AddText(t)
  PROVE  SessionInv'
<1> DEFINE m == Message("text", t, tasks[t].round, {})
<1>1. /\ tasks[t].pc = "text" /\ TurnTo(t, "finished") /\ Show(t, "done") /\ Add(t, <<m>>)
      /\ UNCHANGED <<next, open, row, handle, store, faults, unsaved, sound>>
  BY DEF AddText, TurnAt
<1>2. /\ SessionTypeOK /\ ~Finished(t) /\ tasks[t].todo = {} /\ "finished" \in TurnSteps /\ t \in Nat
      /\ tasks[t].round \in Nat /\ "done" \in SessionStatuses
  BY <1>1, TodoNow, TurnFacts DEF Finished, TurnSteps, SessionStatuses
<1>3. PICK x : x = m
  OBVIOUS
<1>4. x \in Messages /\ x.kind = "text" /\ x.turn = t /\ x.round = tasks[t].round /\ InHand(t) = x
  BY <1>1, <1>2, <1>3, MessageFacts DEF Kinds, InHand, TurnAt
<1>5. Rank(x) = 3 * tasks[t].round
  BY <1>4, RankType
<1>6. OneMoves(t) /\ tasks'[t].pc = "finished"
  BY <1>1, <1>2, TurnToFacts
<1>7. TodoAt(t)' /\ Onward(t) /\ InContext(t, x)'
  BY <1>6, FinishedOnward DEF TodoAt, TurnAt, OneMoves, InContext, Finished
<1>8. ContextRank(t) = 3 * tasks[t].round
  BY <1>1, <1>2, RankValues
<1>9. ~InContext(t, x)
  BY <1>2, <1>5, <1>8 DEF InContext
<1>10. status' \in [Sids -> SessionStatuses]
  BY <1>1, <1>2, ShowType
<1>11. StepOf(t)
  BY <1>1, <1>2, <1>6, <1>7, <1>10, TodoNow DEF StepOf
<1> QED
  BY <1>1, <1>3, <1>4, <1>6, <1>7, <1>9, <1>11, AddedOne

LEMMA CompressKeeps ==
  ASSUME TurnConstants, SessionInv, NEW t \in DOMAIN tasks, Compress(t)
  PROVE  SessionInv'
<1>1. PICK s, ms : s = Session(t) /\ ms = ctx[s]
  OBVIOUS
<1>2. /\ tasks[t].pc = "compress" /\ TurnTo(t, "answer")
      /\ ctx' = ctx \/ (Len(ms) > KeepRecent + 2 /\ ctx' = [ctx EXCEPT ![s] = Compressed(ms)])
      /\ UNCHANGED <<next, open, row, handle, status, store, faults, unsaved, sound>>
  BY <1>1 DEF Compress, TurnAt
<1>3. /\ SessionTypeOK /\ ~Finished(t) /\ tasks[t].pc # "persist" /\ tasks[t].todo = {} /\ tasks[t].round > 0
      /\ "answer" \in TurnSteps
  BY <1>2, TodoNow DEF Finished, TodoAt, TurnSteps, Awaits
<1>4. OneMoves(t) /\ tasks'[t].pc = "answer" /\ tasks'[t].round = tasks[t].round /\ tasks'[t].todo = {}
  BY <1>2, <1>3, TurnToFacts
<1>5. TodoAt(t)'
  BY <1>3, <1>4 DEF TodoAt, TurnAt
<1>6. Onward(t)
  <2>1. RowRank(t) = 3 * tasks[t].round /\ ContextRank(t) = 3 * tasks[t].round /\ tasks[t].round \in Nat
    BY <1>2, <1>3, RankValues
  <2>2. RowRank(t)' = 3 * tasks[t].round /\ ContextRank(t)' = 3 * tasks[t].round
    BY <1>4 DEF RowRank, ContextRank, TurnAt
  <2> QED
    BY <1>2, <1>3, <1>4, <2>1, <2>2, RankOnward
<1>7. StepOf(t)
  BY <1>2, <1>3, <1>4, <1>5, <1>6, TodoNow DEF StepOf
<1>8. CASE ctx' = ctx
  BY <1>2, <1>3, <1>4, <1>7, <1>8, QuietTurn
<1>9. CASE Len(ms) > KeepRecent + 2 /\ ctx' = [ctx EXCEPT ![s] = Compressed(ms)]
  <2>1. /\ Pending(s) = {} /\ s \in Sids /\ ms \in Seq(Messages)
        /\ s \in open => ContextOK(s, ms)
        /\ (s \in open /\ row[s] # 0) => StoredAs(s, ms, store[row[s]])
        /\ row[s] # 0 => row[s] \in DOMAIN store /\ store[row[s]] \in Seq(Messages) /\ RowOK(store[row[s]])
        /\ s \in sound => CallsMatched(ms)
    BY <1>1, <1>3, SummaryNow
  <2>2. PICK cs : cs = Compressed(ms)
    OBVIOUS
  <2>3. cs \in Seq(Messages) /\ AllOnward
    BY <1>7, <1>9, <2>1, <2>2, CompressedFacts, StepOnward
  <2>4. \A rows \in Seq(Messages) : (\A p \in DOMAIN rows : rows[p].turn # 0) =>
          /\ SameOrder(ms, rows) => SameOrder(cs, rows)
          /\ Once(ms) => Once(cs)
          /\ \A i \in DOMAIN cs : cs[i].turn = 0 \/ \E j \in DOMAIN ms : cs[i] = ms[j]
    BY <1>9, <2>1, <2>2, CompressedKeeps
  <2>5. /\ Once(ms) => Once(cs)
        /\ \A i \in DOMAIN cs : cs[i].turn = 0 \/ \E j \in DOMAIN ms : cs[i] = ms[j]
    <3>1. <<>> \in Seq(Messages) /\ \A p \in DOMAIN <<>> : <<>>[p].turn # 0
      OBVIOUS
    <3> QED
      BY <2>4, <3>1
  <2>6. s \in open => ContextOK(s, cs)'
    <3>1. s \in open => ContextOK(s, ms)'
      BY <2>1, <2>3, ContextStays
    <3> QED
      BY <2>5, <3>1 DEF ContextOK
  <2>7. (s \in open /\ row[s] # 0) => StoredAs(s, cs, store[row[s]])'
    <3>1. SUFFICES ASSUME s \in open, row[s] # 0
                   PROVE  StoredAs(s, cs, store[row[s]])'
      OBVIOUS
    <3>2. PICK rows : rows = store[row[s]]
      OBVIOUS
    <3>3. rows \in Seq(Messages) /\ RowOK(rows) /\ StoredAs(s, ms, rows)
      BY <2>1, <3>1, <3>2
    <3>4. \A p \in DOMAIN rows : rows[p].turn # 0
      BY <1>3, <3>3, TurnFacts DEF RowOK
    <3>5. SameOrder(cs, rows)
      BY <2>4, <3>3, <3>4 DEF StoredAs
    <3>6. ASSUME NEW i \in DOMAIN cs, NEW e \in Kept(s, cs[i])'
          PROVE  \E p \in DOMAIN rows : rows[p] = e
      <4>1. e \in Entries(cs[i]) /\ e.turn # 0 /\ e \notin unsaved
        BY <1>2, <3>6 DEF Kept
      <4>2. cs[i].turn # 0
        <5>1. cs[i] \in Messages
          BY <2>3
        <5> QED
          BY <4>1, <5>1, EntryFacts
      <4>3. PICK j \in DOMAIN ms : cs[i] = ms[j]
        BY <2>5, <4>2
      <4>4. e \in Kept(s, ms[j])
        BY <2>1, <4>1, <4>3 DEF Kept
      <4> QED
        BY <3>3, <4>4 DEF StoredAs
    <3>7. StoredAs(s, cs, rows)'
      BY <3>5, <3>6 DEF StoredAs
    <3> QED
      BY <1>2, <3>2, <3>7
  <2>8. s \in sound => CallsMatched(cs)
    BY <1>9, <2>1, <2>2, MatchedCompressed
  <2>9. ContextStep(t, s, cs)
    BY <1>1, <1>2, <1>4, <1>7, <1>9, <2>2, <2>6, <2>7, <2>8 DEF ContextStep
  <2> QED
    BY <2>3, <2>9, ContextStepKeeps
<1> QED
  BY <1>2, <1>8, <1>9

LEMMA AddCallsKeeps ==
  ASSUME TurnConstants, SessionInv, NEW t \in DOMAIN tasks, AddCalls(t)
  PROVE  SessionInv'
<1>1. PICK s, ms, n, k : s = Session(t) /\ ms = ctx[s] /\ n = 1 .. tasks[t].calls /\ k = tasks[t].round
  OBVIOUS
<1>2. PICK c, r : c = Message("calls", t, k, n) /\ r = Message("result", t, k, n)
  OBVIOUS
<1>3. /\ tasks[t].pc = "calls" /\ ctx' = [ctx EXCEPT ![s] = ms \o <<c, r>>]
      /\ tasks' = [tasks EXCEPT ![t].pc = "persist", ![t].todo = n]
      /\ UNCHANGED <<next, open, row, handle, status, store, faults, unsaved, sound>>
  BY <1>1, <1>2 DEF AddCalls, TurnAt, Add, ToolExchange
<1>4. /\ SessionTypeOK /\ HandlesOK /\ ~Finished(t) /\ tasks[t].pc # "persist" /\ tasks[t].calls > 0 /\ k > 0 /\ k \in Nat
      /\ "persist" \in TurnSteps /\ t \in Nat /\ t # 0 /\ tasks[t].calls \in Nat
  BY <1>1, <1>3, TodoNow, TurnFacts DEF Finished, TodoAt, TurnSteps, SessionInv
<1>5. n \subseteq 1 .. MaxCalls /\ n \subseteq Nat /\ n # {}
  <2>1. tasks[t].calls \in 0 .. MaxCalls
    BY <1>4, TurnFacts, TurnFields
  <2>2. \A i \in n : i \in 1 .. MaxCalls /\ i \in Nat
    BY <1>1, <2>1 DEF TurnConstants
  <2>3. 1 \in n
    BY <1>1, <1>4
  <2> QED
    BY <2>2, <2>3
<1>6. /\ OneMoves(t) /\ tasks'[t].pc = "persist" /\ tasks'[t].round = k
      /\ tasks'[t].calls = tasks[t].calls /\ tasks'[t].todo = n
  <2>1. PICK v : v = [tasks[t] EXCEPT !.pc = "persist", !.todo = n]
    OBVIOUS
  <2>2. tasks' = [tasks EXCEPT ![t] = v]
    BY <1>3, <2>1
  <2>3. tasks[t] \in Turns
    BY <1>4 DEF SessionTypeOK
  <2>4. /\ v \in Turns /\ v.sid = tasks[t].sid /\ v.pc = "persist" /\ v.round = tasks[t].round
        /\ v.calls = tasks[t].calls /\ v.todo = n
    BY <1>4, <1>5, <2>1, <2>3 DEF Turns
  <2>5. OneMoves(t) /\ tasks'[t] = v
    BY <1>4, <2>2, <2>4, MoveFacts
  <2> QED
    BY <1>1, <2>4, <2>5
<1>7. TodoAt(t)'
  BY <1>1, <1>4, <1>5, <1>6 DEF TodoAt, TurnAt
<1>8. RowRank(t) = 3 * k + 2 /\ ContextRank(t) = 3 * k + 1
  BY <1>1, <1>3, <1>4, RankValues
<1>9. RowRank(t)' = 3 * k + 2 /\ ContextRank(t)' = 3 * k + 3
  BY <1>6 DEF RowRank, ContextRank, TurnAt
<1>10. Onward(t)
  <2>1. tasks[t].pc # "finished" /\ tasks[t].pc # "persist"
    BY <1>3
  <2>2. RowRank(t) <= RowRank(t)' /\ ContextRank(t) <= ContextRank(t)'
    BY <1>4, <1>8, <1>9
  <2> QED
    BY <1>4, <1>6, <2>1, <2>2, RankOnward
<1>11. StepOf(t)
  BY <1>3, <1>4, <1>6, <1>7, <1>10, TodoNow DEF StepOf
<1>12. /\ c \in Messages /\ c.kind = "calls" /\ c.turn = t /\ c.round = k /\ c.of = n
       /\ r \in Messages /\ r.kind = "result" /\ r.turn = t /\ r.round = k /\ r.of = n
  BY <1>2, <1>4, <1>5, MessageFacts DEF Kinds
<1>13. Rank(c) = 3 * k + 1 /\ Rank(r) = 3 * k + 2
  BY <1>12, RankType
<1>14. ~InContext(t, c) /\ ~InContext(t, r) /\ InContext(t, c)' /\ InContext(t, r)'
  BY <1>4, <1>8, <1>9, <1>13 DEF InContext
<1>15. /\ Pending(s) = {} /\ s \in Sids /\ ms \in Seq(Messages)
       /\ s \in open => ContextOK(s, ms)
       /\ (s \in open /\ row[s] # 0) => StoredAs(s, ms, store[row[s]])
       /\ row[s] # 0 => row[s] \in DOMAIN store /\ store[row[s]] \in Seq(Messages) /\ RowOK(store[row[s]])
       /\ s \in sound => CallsMatched(ms)
  BY <1>1, <1>4, SummaryNow
<1>16. PICK one, two : one = Append(ms, c) /\ two = Append(one, r)
  OBVIOUS
<1>17. one \in Seq(Messages) /\ two \in Seq(Messages) /\ ctx' = [ctx EXCEPT ![s] = two]
  <2>1. one \in Seq(Messages)
    BY <1>12, <1>15, <1>16, AppendFacts
  <2>2. two \in Seq(Messages)
    BY <1>12, <1>16, <2>1, AppendFacts
  <2>3. ms \o <<c, r>> = two
    BY <1>12, <1>15, <1>16, ConcatTwo
  <2> QED
    BY <1>3, <2>1, <2>2, <2>3
<1>18. AllOnward
  BY <1>11, StepOnward
<1>19. s \in open => ContextOK(s, two)'
  <2>1. SUFFICES ASSUME s \in open PROVE ContextOK(s, two)'
    OBVIOUS
  <2>2. ContextOK(s, one)'
    BY <1>1, <1>4, <1>12, <1>14, <1>15, <1>16, <1>18, <2>1, ContextGrows
  <2>3. \A i \in DOMAIN one : Entries(one[i]) \cap Entries(r) = {}
    <3>1. \A i \in DOMAIN ms : Entries(ms[i]) \cap Entries(r) = {}
      BY <1>1, <1>4, <1>12, <1>14, <1>15, <2>1, ContextFresh
    <3>2. Entries(c) \cap Entries(r) = {}
      BY <1>12, EntryFacts
    <3>3. \A i \in DOMAIN one : (i \in DOMAIN ms /\ one[i] = ms[i]) \/ one[i] = c
      BY <1>12, <1>15, <1>16, AppendFacts
    <3> QED
      BY <3>1, <3>2, <3>3
  <2>4. Once(two)
    BY <1>12, <1>16, <1>17, <2>2, <2>3, OnceMore DEF ContextOK
  <2>5. Session(t)' = s /\ t \in DOMAIN tasks'
    BY <1>1, <1>6 DEF OneMoves, Session
  <2>6. Sourced(r, s)'
    BY <1>12, <1>14, <2>5 DEF Sourced
  <2>7. \A i \in DOMAIN two : (i \in DOMAIN one /\ two[i] = one[i]) \/ two[i] = r
    BY <1>12, <1>16, <1>17, AppendFacts
  <2> QED
    BY <2>2, <2>4, <2>6, <2>7 DEF ContextOK
<1>20. (s \in open /\ row[s] # 0) => StoredAs(s, two, store[row[s]])'
  <2>1. SUFFICES ASSUME s \in open, row[s] # 0
                 PROVE  StoredAs(s, two, store[row[s]])'
    OBVIOUS
  <2>2. PICK rows : rows = store[row[s]]
    OBVIOUS
  <2>3. rows \in Seq(Messages) /\ RowOK(rows) /\ StoredAs(s, ms, rows)
    BY <1>15, <2>1, <2>2
  <2>4. InHand(t) = c
    BY <1>1, <1>2, <1>3 DEF InHand, TurnAt
  <2>5. Ahead(c, ms, rows)
    BY <1>1, <1>3, <2>1, <2>2, <2>4 DEF SessionInv, InHandOK
  <2>6. StoredAs(s, one, rows)'
    BY <1>3, <1>12, <1>15, <1>16, <2>3, <2>5, StoredGrows
  <2>7. ASSUME NEW p \in DOMAIN rows PROVE rows[p] \notin Entries(r)
    <3>1. SUFFICES ASSUME rows[p] \in Entries(r) PROVE FALSE
      OBVIOUS
    <3>2. rows[p].turn = t /\ Rank(rows[p]) = 3 * k + 2
      BY <1>12, <1>13, <3>1, EntryFacts
    <3>3. InRow(t, rows[p])
      BY <2>3, <3>2 DEF RowOK
    <3> QED
      BY <1>3, <1>4, <1>8, <3>2, <3>3 DEF InRow, TurnAt, Finished
  <2>8. SameOrder(two, rows)
    BY <1>12, <1>16, <1>17, <2>3, <2>6, <2>7, OrderOfMessages DEF StoredAs
  <2>9. Entries(r) = {Message("result", t, k, {i}) : i \in n}
    BY <1>12 DEF Entries
  <2>10. Pending(s)' = Entries(r)
    <3>1. Pending(s)' = Results(t, tasks[t].todo)'
      BY <1>1, <1>4, <1>6, <1>11, PendingNext
    <3>2. Results(t, tasks[t].todo)' = {Message("result", t, k, {i}) : i \in n}
      BY <1>6 DEF Results
    <3> QED
      BY <2>9, <3>1, <3>2
  <2>11. ASSUME NEW i \in DOMAIN two, NEW e \in Kept(s, two[i])'
         PROVE  \E p \in DOMAIN rows : rows[p] = e
    <3>1. i \in DOMAIN one /\ two[i] = one[i]
      <4>1. two[i] # r
        BY <2>10, <2>11 DEF Kept
      <4> QED
        BY <1>12, <1>16, <1>17, <4>1, AppendFacts
    <3> QED
      BY <2>6, <2>11, <3>1 DEF StoredAs
  <2>12. StoredAs(s, two, rows)'
    BY <2>8, <2>11 DEF StoredAs
  <2> QED
    BY <1>3, <2>2, <2>12
<1>21. s \in sound => CallsMatched(two)
  BY <1>12, <1>15, <1>16, MatchedExchange
<1>22. LastSaid(t, two)'
  <2>1. two # <<>> /\ two[Len(two)] = r
    BY <1>12, <1>16, <1>17, AppendFacts
  <2> QED
    BY <1>1, <1>2, <1>6, <2>1 DEF LastSaid
<1>23. ContextStep(t, s, two)
  BY <1>1, <1>3, <1>6, <1>11, <1>17, <1>19, <1>20, <1>21, <1>22 DEF ContextStep
<1> QED
  BY <1>17, <1>23, ContextStepKeeps

(* The turn writes a message that waits for the context.                    *)
LEMMA WrittenAhead ==
  ASSUME TurnConstants, SessionInv, NEW t \in DOMAIN tasks, StepOf(t), NEW m \in Messages, Persist(t, m),
         tasks[t].pc # "persist", tasks'[t].pc \in {"user", "text", "calls"}, InHand(t)' = m,
         m.turn = t, m.kind # "result", ~InRow(t, m), InRow(t, m)', ~InContext(t, m), ctx' = ctx
  PROVE  SessionInv'
<1>1. PICK s : s = Session(t)
  OBVIOUS
<1>2. /\ Pending(s) = {} /\ s \in Sids /\ ctx[s] \in Seq(Messages) /\ t # 0
      /\ s \in open => ContextOK(s, ctx[s])
      /\ (s \in open /\ row[s] # 0) => StoredAs(s, ctx[s], store[row[s]])
      /\ row[s] # 0 => store[row[s]] \in Seq(Messages)
  BY <1>1, SummaryNow, TurnFacts DEF StepOf, SessionInv
<1>3. (s \in open /\ row[s] # 0) => SameOrder(ctx[s], Append(store[row[s]], m))
  <2>1. SUFFICES ASSUME s \in open, row[s] # 0
                 PROVE  SameOrder(ctx[s], Append(store[row[s]], m))
    OBVIOUS
  <2>2. \A i \in DOMAIN ctx[s] : Entries(ctx[s][i]) \cap Entries(m) = {}
    BY <1>1, <1>2, <2>1, ContextFresh
  <2>3. m \in Entries(m)
    BY DEF Entries
  <2>4. \A i \in DOMAIN ctx[s] : m \notin Entries(ctx[s][i])
    BY <2>2, <2>3
  <2>5. SameOrder(ctx[s], store[row[s]])
    BY <1>2, <2>1 DEF StoredAs
  <2> QED
    BY <1>2, <2>1, <2>4, <2>5, OrderOfRows
<1>4. WriteStep(t, s, m)
  BY <1>1, <1>2, <1>3 DEF WriteStep
<1> QED
  BY <1>4, WriteStepKeeps

(* The steps that write to the row.                                        *)
LEMMA PersistUserKeeps ==
  ASSUME TurnConstants, SessionInv, NEW t \in DOMAIN tasks, PersistUser(t)
  PROVE  SessionInv'
<1>1. PICK m : m = Message("user", t, 0, {})
  OBVIOUS
<1>2. tasks[t].pc = "start" /\ TurnTo(t, "user") /\ Persist(t, m) /\ UNCHANGED <<live, status, sound>>
  BY <1>1 DEF PersistUser, TurnAt
<1>3. /\ SessionTypeOK /\ ~Finished(t) /\ tasks[t].todo = {} /\ "user" \in TurnSteps /\ t \in Nat
  BY <1>2, TodoNow, TurnFacts DEF Finished, TurnSteps, Awaits
<1>4. m \in Messages /\ m.kind = "user" /\ m.turn = t
  BY <1>1, <1>3 DEF Kinds, Message, Messages
<1>5. Rank(m) = 0
  BY <1>4 DEF Rank
<1>6. /\ OneMoves(t) /\ tasks'[t].pc = "user" /\ tasks'[t].todo = {}
  BY <1>2, <1>3, TurnToFacts
<1>7. TodoAt(t)' /\ InHand(t)' = m
  BY <1>1, <1>6 DEF TodoAt, TurnAt, InHand
<1>8. RowRank(t) = 0 /\ ContextRank(t) = 0
  BY <1>2, <1>3, RankValues
<1>9. RowRank(t)' = 1 /\ ContextRank(t)' = 0
  BY <1>6 DEF RowRank, ContextRank, TurnAt
<1>10. Onward(t)
  BY <1>2, <1>3, <1>6, <1>8, <1>9, RankOnward
<1>11. ~InContext(t, m) /\ ~InRow(t, m) /\ InRow(t, m)'
  BY <1>2, <1>3, <1>5, <1>8, <1>9 DEF InContext, InRow, TurnAt
<1>12. faults' \in 0 .. MaxFaults /\ unsaved \subseteq unsaved' /\ unsaved' \subseteq Messages
  BY <1>2, <1>3, <1>4, PersistFacts
<1>13. StepOf(t) /\ ctx' = ctx
  BY <1>2, <1>3, <1>6, <1>7, <1>10, <1>12, TodoNow DEF StepOf, live
<1> QED
  BY <1>2, <1>4, <1>6, <1>7, <1>11, <1>13, WrittenAhead

LEMMA TextKeeps ==
  ASSUME TurnConstants, SessionInv, NEW t \in DOMAIN tasks, NEW err \in BOOLEAN, Text(t, err)
  PROVE  SessionInv'
<1>1. PICK k, m : k = tasks[t].round /\ m = Message("text", t, k, {})
  OBVIOUS
<1>2. /\ tasks[t].pc = "answer" /\ TurnTo(t, "text") /\ Persist(t, m) /\ UNCHANGED <<live, sound>>
      /\ IF err THEN Show(t, "error") ELSE UNCHANGED status
  BY <1>1 DEF Text, TurnAt
<1>3. /\ SessionTypeOK /\ ~Finished(t) /\ tasks[t].todo = {} /\ "text" \in TurnSteps /\ t \in Nat /\ k \in Nat
      /\ k > 0 /\ "error" \in SessionStatuses
  BY <1>1, <1>2, TodoNow, TurnFacts DEF Finished, TurnSteps, Awaits, SessionStatuses, TodoAt
<1>4. m \in Messages /\ m.kind = "text" /\ m.turn = t /\ m.round = k
  BY <1>1, <1>3, MessageFacts DEF Kinds
<1>5. Rank(m) = 3 * k
  BY <1>4, RankType
<1>6. /\ OneMoves(t) /\ tasks'[t].pc = "text" /\ tasks'[t].todo = {} /\ tasks'[t].round = k
  BY <1>1, <1>2, <1>3, TurnToFacts
<1>7. TodoAt(t)' /\ InHand(t)' = m
  BY <1>1, <1>3, <1>6 DEF TodoAt, TurnAt, InHand
<1>8. RowRank(t) = 3 * k /\ ContextRank(t) = 3 * k
  BY <1>1, <1>2, <1>3, RankValues
<1>9. RowRank(t)' = 3 * k + 1 /\ ContextRank(t)' = 3 * k
  BY <1>6 DEF RowRank, ContextRank, TurnAt
<1>10. Onward(t)
  BY <1>2, <1>3, <1>6, <1>8, <1>9, RankOnward
<1>11. ~InContext(t, m) /\ ~InRow(t, m) /\ InRow(t, m)'
  BY <1>2, <1>3, <1>5, <1>8, <1>9 DEF InContext, InRow, TurnAt
<1>12. faults' \in 0 .. MaxFaults /\ unsaved \subseteq unsaved' /\ unsaved' \subseteq Messages
  BY <1>2, <1>3, <1>4, PersistFacts
<1>13. status' \in [Sids -> SessionStatuses]
  BY <1>2, <1>3, TodoNow, ShowType
<1>14. StepOf(t) /\ ctx' = ctx
  BY <1>2, <1>3, <1>6, <1>7, <1>10, <1>12, <1>13 DEF StepOf, live
<1> QED
  BY <1>2, <1>4, <1>6, <1>7, <1>11, <1>14, WrittenAhead

LEMMA ToolsDoneKeeps ==
  ASSUME TurnConstants, SessionInv, NEW t \in DOMAIN tasks, ToolsDone(t)
  PROVE  SessionInv'
<1>1. PICK k, n, m : k = tasks[t].round /\ n = 1 .. tasks[t].calls /\ m = Message("calls", t, k, n)
  OBVIOUS
<1>2. tasks[t].pc = "tools" /\ TurnTo(t, "calls") /\ Persist(t, m) /\ UNCHANGED <<live, status, sound>>
  BY <1>1 DEF ToolsDone, TurnAt
<1>3. /\ SessionTypeOK /\ ~Finished(t) /\ tasks[t].todo = {} /\ "calls" \in TurnSteps /\ t \in Nat /\ k \in Nat
      /\ k > 0 /\ tasks[t].calls > 0 /\ tasks[t].calls \in Nat
  BY <1>1, <1>2, TodoNow, TurnFacts DEF Finished, TurnSteps, Awaits, TodoAt
<1>4. m \in Messages /\ m.kind = "calls" /\ m.turn = t /\ m.round = k
  <2>1. n \in SUBSET Nat
    BY <1>1, <1>3
  <2> QED
    BY <1>1, <1>3, <2>1, MessageFacts DEF Kinds
<1>5. Rank(m) = 3 * k + 1
  BY <1>4, RankType
<1>6. /\ OneMoves(t) /\ tasks'[t].pc = "calls" /\ tasks'[t].todo = {} /\ tasks'[t].round = k
      /\ tasks'[t].calls = tasks[t].calls
  BY <1>1, <1>2, <1>3, TurnToFacts
<1>7. TodoAt(t)' /\ InHand(t)' = m
  BY <1>1, <1>3, <1>6 DEF TodoAt, TurnAt, InHand
<1>8. RowRank(t) = 3 * k + 1 /\ ContextRank(t) = 3 * k
  BY <1>1, <1>2, <1>3, RankValues
<1>9. RowRank(t)' = 3 * k + 2 /\ ContextRank(t)' = 3 * k + 1
  BY <1>6 DEF RowRank, ContextRank, TurnAt
<1>10. Onward(t)
  BY <1>2, <1>3, <1>6, <1>8, <1>9, RankOnward
<1>11. ~InContext(t, m) /\ ~InRow(t, m) /\ InRow(t, m)'
  BY <1>2, <1>3, <1>5, <1>8, <1>9 DEF InContext, InRow, TurnAt
<1>12. faults' \in 0 .. MaxFaults /\ unsaved \subseteq unsaved' /\ unsaved' \subseteq Messages
  BY <1>2, <1>3, <1>4, PersistFacts
<1>13. StepOf(t) /\ ctx' = ctx
  BY <1>2, <1>3, <1>6, <1>7, <1>10, <1>12, TodoNow DEF StepOf, live
<1> QED
  BY <1>2, <1>4, <1>6, <1>7, <1>11, <1>13, WrittenAhead

(* The least of the results still to be written exists.                    *)
LEMMA LeastNumber ==
  ASSUME NEW S \in SUBSET Nat, S # {}
  PROVE  \E n \in S : \A m \in S : n <= m
<1>1. PICK n \in S : \A m \in S : ~(<<m, n>> \in OpToRel(<, Nat))
  BY WFMin, NatLessThanWellFounded
<1>2. ASSUME NEW m \in S PROVE n <= m
  <2>1. m < n => <<m, n>> \in OpToRel(<, Nat)
    BY DEF OpToRel
  <2>2. ~(m < n)
    BY <1>1, <2>1, Zenon
  <2>3. m \in Nat /\ n \in Nat
    OBVIOUS
  <2> QED
    BY <2>2, <2>3
<1> QED
  BY <1>2

(* Results are written from the least call on, after the calls they answer. *)
LEMMA PersistResultKeeps ==
  ASSUME TurnConstants, SessionInv, NEW t \in DOMAIN tasks, PersistResult(t)
  PROVE  SessionInv'
<1>1. PICK s, k, n, td : s = Session(t) /\ k = tasks[t].round /\ n = tasks[t].calls /\ td = tasks[t].todo
  OBVIOUS
<1>2. PICK i : i = CHOOSE l \in td : \A j \in td : l <= j
  OBVIOUS
<1>3. PICK m, x : /\ m = Message("result", t, k, {i})
                  /\ x = IF td # {i} THEN "persist" ELSE IF tasks[t].stop THEN "finished" ELSE "loop"
  OBVIOUS
<1>4. /\ tasks[t].pc = "persist" /\ Persist(t, m) /\ UNCHANGED <<live, sound>>
      /\ tasks' = [tasks EXCEPT ![t].todo = @ \ {i},
                                ![t].pc = IF ~(td = {i}) THEN @ ELSE IF tasks[t].stop THEN "finished" ELSE "loop"]
      /\ IF td = {i} THEN Show(t, IF tasks[t].stop THEN "done" ELSE "thinking") ELSE UNCHANGED status
  BY <1>1, <1>2, <1>3 DEF PersistResult, TurnAt
<1>4a. tasks[t].pc = "persist" /\ td = tasks[t].todo
  BY <1>1, <1>4
<1>5. /\ SessionTypeOK /\ HandlesOK /\ ~Finished(t) /\ t \in Nat /\ t # 0 /\ k \in Nat /\ k > 0 /\ n > 0 /\ n \in Nat
      /\ tasks[t] \in Turns
  BY <1>1, <1>4, TodoNow, TurnFacts DEF Finished, TodoAt, SessionInv
<1>6. /\ td # {} /\ td \subseteq 1 .. n /\ \A a \in td, b \in 1 .. n : a < b => b \in td
  BY <1>1, <1>4, TodoNow DEF TodoAt, TurnAt
<1>7. i \in td /\ (\A j \in td : i <= j) /\ i \in 1 .. n /\ i \in Nat
  <2>1. td \in SUBSET Nat
    BY <1>5, <1>6
  <2>2. \E j \in td : \A l \in td : j <= l
    BY <1>6, <2>1, LeastNumber
  <2>3. i \in td /\ (\A j \in td : i <= j)
    BY <1>2, <2>2
  <2> QED
    BY <1>6, <2>1, <2>3
<1>8. /\ x \in {"persist", "finished", "loop"} /\ (x = "persist" <=> td # {i}) /\ x \in TurnSteps
  BY <1>3 DEF TurnSteps, Awaits
<1>9. OneMoves(t) /\ tasks'[t].pc = x /\ tasks'[t].round = k /\ tasks'[t].calls = n /\ tasks'[t].todo = td \ {i}
  <2>1. PICK v : v = [tasks[t] EXCEPT !.todo = td \ {i}, !.pc = x]
    OBVIOUS
  <2>2. tasks' = [tasks EXCEPT ![t] = v]
    BY <1>1, <1>3, <1>4, <1>5, <2>1 DEF Turns
  <2>3. td \ {i} \subseteq 1 .. MaxCalls
    BY <1>1, <1>5, TurnFields
  <2>4. /\ v \in Turns /\ v.sid = tasks[t].sid /\ v.pc = x /\ v.round = k /\ v.calls = n /\ v.todo = td \ {i}
    BY <1>1, <1>5, <1>8, <2>1, <2>3 DEF Turns
  <2> QED
    BY <1>5, <2>2, <2>4, MoveFacts
<1>10. TodoAt(t)'
  <2>1. CASE x = "persist"
    <3>1. td \ {i} # {} /\ td \ {i} \subseteq 1 .. n
      BY <1>6, <1>7, <1>8, <2>1
    <3>2. \A a \in td \ {i}, b \in 1 .. n : a < b => b \in td \ {i}
      <4>1. \A a \in td \ {i} : i < a /\ a \in Nat
        BY <1>5, <1>6, <1>7
      <4> QED
        BY <1>5, <1>6, <1>7, <4>1
    <3> QED
      BY <1>5, <1>9, <2>1, <3>1, <3>2 DEF TodoAt, TurnAt
  <2>2. CASE x = "loop"
    <3>1. td \ {i} = {}
      BY <1>8, <2>2
    <3> QED
      BY <1>9, <2>2, <3>1 DEF TodoAt, TurnAt
  <2>3. CASE x = "finished"
    BY <1>9, <2>3 DEF TodoAt, TurnAt
  <2> QED
    BY <1>8, <2>1, <2>2, <2>3
<1>11. RowRank(t) = 3 * k + 2 /\ ContextRank(t) = 3 * k + 3
  BY <1>1, <1>4, <1>5, RankValues
<1>12. /\ x = "persist" => RowRank(t)' = 3 * k + 2 /\ ContextRank(t)' = 3 * k + 3
       /\ x = "loop" => RowRank(t)' = 3 * k + 3 /\ ContextRank(t)' = 3 * k + 3
  BY <1>9 DEF RowRank, ContextRank, TurnAt
<1>13. Onward(t)
  <2>1. CASE x = "finished"
    BY <1>9, <2>1, FinishedOnward DEF OneMoves
  <2>2. CASE x = "persist" \/ x = "loop"
    <3>1. RowRank(t) <= RowRank(t)' /\ ContextRank(t) <= ContextRank(t)' /\ tasks[t].pc # "finished"
      BY <1>4a, <1>5, <1>11, <1>12, <2>2
    <3>2. \/ RowRank(t) < RowRank(t)'
          \/ tasks'[t].pc = "persist" /\ RowRank(t)' = RowRank(t) /\ tasks'[t].todo \subseteq tasks[t].todo
      BY <1>1, <1>5, <1>9, <1>11, <1>12, <2>2
    <3> QED
      BY <1>5, <1>9, <3>1, <3>2, RankOnward
  <2> QED
    BY <1>8, <2>1, <2>2
<1>14. /\ m \in Messages /\ m.kind = "result" /\ m.turn = t /\ m.round = k /\ m.of = {i} /\ Rank(m) = 3 * k + 2
  <2>1. {i} \in SUBSET Nat
    BY <1>7
  <2>2. m \in Messages /\ m.kind = "result" /\ m.turn = t /\ m.round = k /\ m.of = {i}
    BY <1>3, <1>5, <2>1, MessageFacts DEF Kinds
  <2> QED
    BY <2>2, RankType
<1>15. ~InRow(t, m)
  <2>1. i \in m.of \cap tasks[t].todo
    BY <1>4a, <1>7, <1>14
  <2>2. ~(Rank(m) < RowRank(t))
    BY <1>5, <1>11, <1>14
  <2> QED
    BY <1>5, <2>1, <2>2 DEF InRow
<1>16. InRow(t, m)'
  <2>1. CASE x = "finished"
    BY <1>9, <2>1 DEF InRow, Finished
  <2>2. CASE x = "loop"
    BY <1>5, <1>9, <1>12, <1>14, <2>2 DEF InRow
  <2>3. CASE x = "persist"
    BY <1>5, <1>9, <1>12, <1>14, <2>3 DEF InRow, TurnAt
  <2> QED
    BY <1>8, <2>1, <2>2, <2>3
<1>17. faults' \in 0 .. MaxFaults /\ unsaved \subseteq unsaved' /\ unsaved' \subseteq Messages
  BY <1>4, <1>5, <1>14, PersistFacts
<1>18. status' \in [Sids -> SessionStatuses]
  <2>1. (IF tasks[t].stop THEN "done" ELSE "thinking") \in SessionStatuses
    BY DEF SessionStatuses
  <2> QED
    BY <1>4, <1>5, <2>1, TodoNow, ShowType
<1>19. StepOf(t) /\ ctx' = ctx
  BY <1>4, <1>5, <1>9, <1>10, <1>13, <1>17, <1>18 DEF StepOf, live
<1>20. \A e \in Pending(s) : e \in Pending(s)' \/ e = m
  <2>1. Pending(s) = {Message("result", t, k, {j}) : j \in td}
    <3>1. Pending(s) = Results(t, tasks[t].todo)
      BY <1>1, <1>5, PendingHere
    <3>2. Results(t, tasks[t].todo) = {Message("result", t, k, {j}) : j \in td}
      BY <1>1 DEF Results
    <3> QED
      BY <3>1, <3>2
  <2>2. CASE td = {i}
    BY <1>3, <2>1, <2>2
  <2>3. CASE td # {i}
    <3>1. Pending(s)' = Results(t, tasks[t].todo)'
      BY <1>1, <1>5, <1>8, <1>9, <1>19, <2>3, PendingNext
    <3>2. Results(t, tasks[t].todo)' = {Message("result", t, k, {j}) : j \in td \ {i}}
      BY <1>9 DEF Results
    <3> QED
      BY <1>3, <2>1, <3>1, <3>2
  <2> QED
    BY <2>2, <2>3
<1>21. (s \in open /\ row[s] # 0) => SameOrder(ctx[s], Append(store[row[s]], m))
  <2>1. SUFFICES ASSUME s \in open, row[s] # 0
                 PROVE  SameOrder(ctx[s], Append(store[row[s]], m))
    OBVIOUS
  <2>2. PICK ms, rows : ms = ctx[s] /\ rows = store[row[s]]
    OBVIOUS
  <2>3. s \in Sids
    BY <1>1, <1>5, TurnFacts
  <2>4. /\ ms \in Seq(Messages) /\ rows \in Seq(Messages) /\ ContextOK(s, ms) /\ StoredAs(s, ms, rows) /\ RowOK(rows)
        /\ LastSaid(t, ms)
    BY <1>1, <1>4, <1>5, <2>1, <2>2, <2>3, RowOf
    DEF SessionInv, ContextsOK, StoredOK, RowsOK, TodoOK, TurnAt
  <2>5. PICK last, all : last = Len(ms) /\ all = Message("result", t, k, 1 .. n)
    OBVIOUS
  <2>6. last \in DOMAIN ms /\ ms[last] = all /\ \A j \in DOMAIN ms : j \in Nat /\ j <= last
    BY <1>1, <2>4, <2>5 DEF LastSaid
  <2>7. all \in Messages /\ all.kind = "result" /\ all.turn = t /\ all.round = k /\ all.of = 1 .. n
    <3>1. 1 .. n \in SUBSET Nat
      BY <1>5
    <3> QED
      BY <1>5, <2>5, <3>1, MessageFacts DEF Kinds
  <2>8. m \in Entries(all)
    BY <1>3, <1>7, <2>7 DEF Entries
  <2>9. ASSUME NEW p \in DOMAIN rows, rows[p] \in Entries(all)
        PROVE  \A a \in rows[p].of, b \in m.of : a < b
    <3>1. PICK a \in 1 .. n : rows[p] = Message("result", t, k, {a})
      BY <2>7, <2>9, EntryFacts
    <3>2. rows[p].of = {a} /\ rows[p].turn = t /\ Rank(rows[p]) = 3 * k + 2
      <4>1. {a} \in SUBSET Nat
        BY <1>5, <3>1
      <4>2. rows[p] \in Messages /\ rows[p].of = {a} /\ rows[p].turn = t /\ rows[p].kind = "result" /\ rows[p].round = k
        BY <1>5, <3>1, <4>1, MessageFacts DEF Kinds
      <4> QED
        BY <4>2, RankType
    <3>3. InRow(t, rows[p])
      BY <2>4, <3>2 DEF RowOK
    <3>4. a \notin td
      <4>1. ~(Rank(rows[p]) < RowRank(t))
        BY <1>5, <1>11, <3>2
      <4>2. rows[p].of \cap td = {}
        BY <1>4a, <1>5, <3>3, <4>1 DEF InRow
      <4> QED
        BY <3>2, <4>2
    <3>5. a < i
      BY <1>5, <1>6, <1>7, <3>1, <3>4
    <3> QED
      BY <1>14, <3>2, <3>5
  <2>10. ASSUME NEW p \in DOMAIN rows, NEW h \in DOMAIN ms, NEW j \in DOMAIN ms,
                rows[p] \in Entries(ms[h]), m \in Entries(ms[j])
         PROVE  h < j \/ (h = j /\ ms[h].kind = "result" /\ \A a \in rows[p].of, b \in m.of : a < b)
    <3>1. j = last
      <4>1. ms[last].turn # 0 /\ m \in Entries(ms[last])
        BY <1>5, <2>6, <2>7, <2>8
      <4> QED
        BY <2>4, <2>6, <2>10, <4>1 DEF ContextOK, Once
    <3>2. CASE h = last
      BY <2>6, <2>7, <2>9, <2>10, <3>1, <3>2
    <3>3. CASE h # last
      BY <2>6, <3>1, <3>3
    <3> QED
      BY <3>2, <3>3
  <2>11. SameOrder(ms, Append(rows, m))
    BY <1>14, <2>4, <2>10, OrderOfRows DEF StoredAs
  <2> QED
    BY <2>2, <2>11
<1>22. WriteStep(t, s, m)
  BY <1>1, <1>4, <1>8, <1>9, <1>14, <1>15, <1>16, <1>19, <1>20, <1>21 DEF WriteStep, TurnAt
<1> QED
  BY <1>14, <1>22, WriteStepKeeps

(* A step of the manager that touches neither contexts nor rows.            *)
LEMMA QuietManager ==
  ASSUME TurnConstants, SessionInv, SessionTypeOK', HandlesOK', AllOnward, open' \subseteq open,
         row' = row, ctx' = ctx, store' = store, unsaved' = unsaved, sound' = sound,
         \A u \in DOMAIN tasks' : TodoAt(u)',
         \A u \in DOMAIN tasks' : tasks'[u].pc \in {"user", "text", "calls", "persist"} =>
           /\ u \in DOMAIN tasks /\ tasks'[u].pc = tasks[u].pc /\ tasks'[u].sid = tasks[u].sid
           /\ tasks'[u].round = tasks[u].round /\ tasks'[u].calls = tasks[u].calls,
         \A s \in open' : Pending(s) \subseteq Pending(s)'
  PROVE  SessionInv'
<1>0. /\ SessionTypeOK /\ HandlesOK /\ RowsOK /\ ContextsOK /\ InHandOK /\ TodoOK /\ StoredOK /\ SoundOK
      /\ open \subseteq Sids
  BY OpenSids DEF SessionInv
<1>1. \A s \in open : /\ ctx[s] \in Seq(Messages)
                      /\ row[s] # 0 => row[s] \in DOMAIN store /\ store[row[s]] \in Seq(Messages)
  BY <1>0, RowOf
<1>2. RowsOK'
  <2>1. \A r \in DOMAIN store : store[r] \in Seq(Messages) /\ RowOK(store[r])
    BY <1>0 DEF RowsOK, SessionTypeOK
  <2>2. \A x \in Seq(Messages) : RowOK(x) => RowOK(x)'
    BY RowStays
  <2> QED
    BY <2>1, <2>2 DEF RowsOK
<1>3. ContextsOK'
  <2>1. \A z : \A x \in Seq(Messages) : ContextOK(z, x) => ContextOK(z, x)'
    BY ContextStays
  <2> QED
    BY <1>0, <1>1, <2>1 DEF ContextsOK
<1>4. InHandOK'
  <2>1. ASSUME NEW u \in DOMAIN tasks', Session(u)' \in open', row[Session(u)'] # 0,
               tasks'[u].pc \in {"user", "text", "calls"}
        PROVE  Ahead(InHand(u), ctx[Session(u)], store[row[Session(u)]])'
    <3>1. /\ u \in DOMAIN tasks /\ tasks'[u].pc = tasks[u].pc /\ tasks'[u].sid = tasks[u].sid
          /\ tasks'[u].round = tasks[u].round /\ tasks'[u].calls = tasks[u].calls
      BY <2>1
    <3>2. Session(u)' = Session(u) /\ InHand(u)' = InHand(u)
      BY <3>1 DEF Session, InHand, TurnAt
    <3>3. Ahead(InHand(u), ctx[Session(u)], store[row[Session(u)]])
      BY <1>0, <2>1, <3>1, <3>2 DEF InHandOK
    <3>4. \A w, x, rows : Ahead(w, x, rows) => Ahead(w, x, rows)'
      BY AheadStays
    <3> QED
      BY <3>2, <3>3, <3>4
  <2> QED
    BY <2>1 DEF InHandOK
<1>5. TodoOK'
  <2>1. ASSUME NEW u \in DOMAIN tasks', TurnAt(u, "persist")', Session(u)' \in open'
        PROVE  LastSaid(u, ctx[Session(u)])'
    <3>1. /\ u \in DOMAIN tasks /\ tasks'[u].pc = tasks[u].pc /\ tasks'[u].sid = tasks[u].sid
          /\ tasks'[u].round = tasks[u].round /\ tasks'[u].calls = tasks[u].calls
      BY <2>1 DEF TurnAt
    <3>2. Session(u)' = Session(u) /\ TurnAt(u, "persist")
      BY <2>1, <3>1 DEF Session, TurnAt
    <3>3. LastSaid(u, ctx[Session(u)])
      BY <1>0, <2>1, <3>1, <3>2 DEF TodoOK
    <3>4. \A x : LastSaid(u, x) => LastSaid(u, x)'
      BY <3>1 DEF LastSaid
    <3> QED
      BY <3>2, <3>3, <3>4
  <2> QED
    BY <2>1 DEF TodoOK
<1>6. StoredOK'
  <2>1. ASSUME NEW z \in open', row[z] # 0
        PROVE  StoredAs(z, ctx[z], store[row[z]])'
    <3>1. StoredAs(z, ctx[z], store[row[z]])
      BY <1>0, <2>1 DEF StoredOK
    <3>2. \A x, rows : StoredAs(z, x, rows) => StoredAs(z, x, rows)'
      BY <2>1 DEF StoredAs, Kept
    <3> QED
      BY <3>1, <3>2
  <2> QED
    BY <2>1 DEF StoredOK
<1>7. SoundOK'
  BY <1>0 DEF SoundOK
<1> QED
  BY <1>2, <1>3, <1>4, <1>5, <1>6, <1>7 DEF SessionInv

LEMMA NewTurn ==
  ASSUME NEW s \in Sids, TurnConstants
  PROVE  [sid |-> s, pc |-> "start", round |-> 0, calls |-> 0,
          stop |-> FALSE, todo |-> {}, aborted |-> FALSE] \in Turns
<1>1. "start" \in TurnSteps /\ 0 \in 0 .. MaxRounds /\ 0 \in 0 .. MaxCalls /\ {} \in SUBSET (1 .. MaxCalls)
  BY DEF TurnSteps, Awaits, TurnConstants
<1>2. FALSE \in BOOLEAN
  OBVIOUS
<1> QED
  BY <1>1, <1>2 DEF Turns

(* The operations of the manager. A new turn starts with nothing said.     *)
LEMMA SendToKeeps ==
  ASSUME TurnConstants, SessionInv, NEW s \in Sids, SendTo(s)
  PROVE  SessionInv'
<1>1. PICK v, n : /\ v = [sid |-> s, pc |-> "start", round |-> 0, calls |-> 0,
                          stop |-> FALSE, todo |-> {}, aborted |-> FALSE]
                  /\ n = Len(tasks) + 1
  OBVIOUS
<1>2. /\ s \in open /\ ~Running(s) /\ tasks' = Append(tasks, v) /\ handle' = [handle EXCEPT ![s] = n]
      /\ UNCHANGED <<next, open, row, ctx, status, store, faults, unsaved, sound>>
  BY <1>1 DEF SendTo
<1>3. /\ SessionTypeOK /\ HandlesOK /\ TodoOK /\ tasks \in Seq(Turns) /\ handle \in [Sids -> 0 .. Len(tasks)]
      /\ v \in Turns /\ s < next
  BY <1>1, <1>2, NewTurn, OpenSids DEF SessionInv, SessionTypeOK
<1>4. v.sid = s /\ v.pc = "start" /\ v.todo = {}
  BY <1>1
<1>5. /\ tasks' \in Seq(Turns) /\ DOMAIN tasks' = DOMAIN tasks \cup {n} /\ Len(tasks') = n /\ tasks'[n] = v
      /\ \A u \in DOMAIN tasks : tasks'[u] = tasks[u] /\ u # n
      /\ Len(tasks) \in Nat /\ n \notin DOMAIN tasks
  BY <1>1, <1>2, <1>3, AppendFacts
<1>6. /\ handle' \in [Sids -> 0 .. n] /\ handle'[s] = n /\ \A z \in Sids : z # s => handle'[z] = handle[z]
      /\ n # 0 /\ \A z \in Sids : handle[z] # 0 => handle[z] \in DOMAIN tasks
  BY <1>1, <1>2, <1>3, <1>5
<1>7. SessionTypeOK'
  <2>1. \A u \in DOMAIN tasks' : tasks'[u].sid < next
    BY <1>3, <1>4, <1>5 DEF SessionTypeOK
  <2> QED
    BY <1>2, <1>3, <1>5, <1>6, <2>1 DEF SessionTypeOK
<1>8. HandlesOK'
  <2>1. ASSUME NEW u \in DOMAIN tasks', tasks'[u].pc # "finished"
        PROVE  handle'[tasks'[u].sid] = u
    <3>1. CASE u = n
      BY <1>4, <1>5, <1>6, <3>1
    <3>2. CASE u \in DOMAIN tasks
      <4>1. tasks'[u] = tasks[u] /\ handle[tasks[u].sid] = u /\ tasks[u].sid \in Sids /\ u # 0
        BY <1>3, <1>5, <2>1, <3>2, TurnFacts DEF HandlesOK, Finished, Session
      <4>2. tasks[u].sid # s
        BY <1>2, <2>1, <4>1 DEF Running, Finished
      <4> QED
        BY <1>6, <4>1, <4>2
    <3> QED
      BY <1>5, <3>1, <3>2
  <2>2. ASSUME NEW z \in Sids, handle'[z] # 0
        PROVE  tasks'[handle'[z]].sid = z
    <3>1. CASE z = s
      BY <1>4, <1>5, <1>6, <3>1
    <3>2. CASE z # s
      BY <1>3, <1>5, <1>6, <2>2, <3>2 DEF HandlesOK, Session
    <3> QED
      BY <3>1, <3>2
  <2> QED
    BY <2>1, <2>2 DEF HandlesOK, Finished, Session
<1>9. AllOnward
  BY <1>5, SameOnward DEF AllOnward
<1>10. \A u \in DOMAIN tasks' : TodoAt(u)'
  <2>1. TodoAt(n)'
    BY <1>4, <1>5 DEF TodoAt, TurnAt
  <2>2. ASSUME NEW u \in DOMAIN tasks PROVE TodoAt(u)'
    <3>1. TodoAt(u) /\ tasks'[u] = tasks[u]
      BY <1>3, <1>5 DEF TodoOK
    <3> QED
      BY <3>1 DEF TodoAt, TurnAt
  <2> QED
    BY <1>5, <2>1, <2>2
<1>11. \A u \in DOMAIN tasks' : tasks'[u].pc \in {"user", "text", "calls", "persist"} =>
         /\ u \in DOMAIN tasks /\ tasks'[u].pc = tasks[u].pc /\ tasks'[u].sid = tasks[u].sid
         /\ tasks'[u].round = tasks[u].round /\ tasks'[u].calls = tasks[u].calls
  BY <1>4, <1>5
<1>12. ASSUME NEW z \in open'
       PROVE  Pending(z) \subseteq Pending(z)'
  <2>1. CASE z = s
    BY <1>2, <2>1 DEF Pending
  <2>2. CASE z # s
    <3>1. z \in Sids /\ handle'[z] = handle[z]
      BY <1>2, <1>3, <1>6, <2>2, OpenSids
    <3>2. handle[z] # 0 => tasks'[handle[z]] = tasks[handle[z]]
      BY <1>5, <1>6, <3>1
    <3> QED
      BY <3>1, <3>2 DEF Pending, Running, Finished
  <2> QED
    BY <2>1, <2>2
<1> QED
  BY <1>2, <1>7, <1>8, <1>9, <1>10, <1>11, <1>12, QuietManager

(* An abort is asked for, and changes nothing else yet.                     *)
LEMMA AbortFacts ==
  ASSUME TurnConstants, SessionInv, NEW s \in Sids, AbortTurn(s)
  PROVE  /\ tasks' \in Seq(Turns) /\ Len(tasks') = Len(tasks) /\ DOMAIN tasks' = DOMAIN tasks
         /\ handle' = handle /\ status' \in [Sids -> SessionStatuses]
         /\ \A u \in DOMAIN tasks :
              /\ tasks'[u].sid = tasks[u].sid /\ tasks'[u].pc = tasks[u].pc /\ tasks'[u].round = tasks[u].round
              /\ tasks'[u].calls = tasks[u].calls /\ tasks'[u].todo = tasks[u].todo
<1>1. /\ tasks \in Seq(Turns) /\ status \in [Sids -> SessionStatuses] /\ handle \in [Sids -> 0 .. Len(tasks)]
      /\ SessionTypeOK
  BY DEF SessionInv, SessionTypeOK
<1>2. CASE ~Running(s)
  BY <1>1, <1>2 DEF AbortTurn
<1>3. CASE Running(s)
  <2>1. PICK h : h = handle[s]
    OBVIOUS
  <2>2. h \in DOMAIN tasks /\ tasks[h] \in Turns
    BY <1>1, <1>3, <2>1 DEF Running
  <2>3. PICK v : v = [tasks[h] EXCEPT !.aborted = TRUE]
    OBVIOUS
  <2>4. v \in Turns
    BY <2>2, <2>3 DEF Turns
  <2>5. /\ v.sid = tasks[h].sid /\ v.pc = tasks[h].pc /\ v.round = tasks[h].round
        /\ v.calls = tasks[h].calls /\ v.todo = tasks[h].todo
    BY <2>2, <2>3 DEF Turns
  <2>6. /\ tasks' = [tasks EXCEPT ![h] = v] /\ status' = [status EXCEPT ![s] = "cancelled"] /\ handle' = handle
    BY <1>3, <2>1, <2>3 DEF AbortTurn
  <2>7. OneMoves(h) /\ tasks'[h] = v
    BY <1>1, <2>2, <2>4, <2>5, <2>6, MoveFacts
  <2>8. status' \in [Sids -> SessionStatuses]
    BY <1>1, <2>6 DEF SessionStatuses
  <2> QED
    BY <2>5, <2>6, <2>7, <2>8 DEF OneMoves
<1> QED
  BY <1>2, <1>3

(* An abort marks the turn and changes nothing of what it has said.        *)
LEMMA AbortKeeps ==
  ASSUME TurnConstants, SessionInv, NEW s \in Sids, AbortTurn(s), open' \subseteq open,
         next' = next, row' = row, ctx' = ctx, store' = store, faults' = faults, unsaved' = unsaved, sound' = sound
  PROVE  SessionInv'
<1>1. /\ tasks' \in Seq(Turns) /\ Len(tasks') = Len(tasks) /\ DOMAIN tasks' = DOMAIN tasks
      /\ handle' = handle /\ status' \in [Sids -> SessionStatuses]
      /\ \A u \in DOMAIN tasks :
           /\ tasks'[u].sid = tasks[u].sid /\ tasks'[u].pc = tasks[u].pc /\ tasks'[u].round = tasks[u].round
           /\ tasks'[u].calls = tasks[u].calls /\ tasks'[u].todo = tasks[u].todo
  BY AbortFacts
<1>2. SessionTypeOK /\ HandlesOK /\ TodoOK /\ handle \in [Sids -> 0 .. Len(tasks)] /\ tasks \in Seq(Turns)
  BY DEF SessionInv, SessionTypeOK
<1>3. \A z \in Sids : handle[z] # 0 => handle[z] \in DOMAIN tasks
  BY <1>2
<1>4. SessionTypeOK'
  BY <1>1, <1>2 DEF SessionTypeOK
<1>5. HandlesOK'
  BY <1>1, <1>2, <1>3 DEF HandlesOK, Session, Finished
<1>6. AllOnward
  <2>1. ASSUME NEW u \in DOMAIN tasks PROVE Onward(u)
    BY <1>1 DEF Onward, Session, InRow, InContext, Finished, RowRank, ContextRank, TurnAt
  <2> QED
    BY <2>1 DEF AllOnward
<1>7. ASSUME NEW u \in DOMAIN tasks' PROVE TodoAt(u)'
  <2>1. TodoAt(u)
    BY <1>1, <1>2 DEF TodoOK
  <2> QED
    BY <1>1, <2>1 DEF TodoAt, TurnAt
<1>8. ASSUME NEW z \in open' PROVE Pending(z) \subseteq Pending(z)'
  <2>1. z \in Sids
    BY <1>2, OpenSids
  <2>2. CASE handle[z] = 0
    BY <2>2 DEF Pending, Running
  <2>3. CASE handle[z] # 0
    <3>1. PICK h : h = handle[z]
      OBVIOUS
    <3>2. h \in DOMAIN tasks /\ handle'[z] = h
      BY <1>1, <1>3, <2>1, <2>3, <3>1
    <3>3. tasks'[h].pc = tasks[h].pc /\ tasks'[h].round = tasks[h].round /\ tasks'[h].todo = tasks[h].todo
      BY <1>1, <3>2
    <3>4. Running(z)' = Running(z)
      BY <3>1, <3>2, <3>3 DEF Running, Finished
    <3> QED
      BY <3>1, <3>2, <3>3, <3>4 DEF Pending
  <2> QED
    BY <2>2, <2>3
<1> QED
  BY <1>1, <1>4, <1>5, <1>6, <1>7, <1>8, QuietManager

LEMMA CancelKeeps ==
  ASSUME TurnConstants, SessionInv, NEW s \in Sids, Cancel(s) \/ CloseSession(s)
  PROVE  SessionInv'
<1>1. CASE Cancel(s)
  BY <1>1, AbortKeeps DEF Cancel
<1>2. CASE CloseSession(s)
  BY <1>2, AbortKeeps DEF CloseSession
<1> QED
  BY <1>1, <1>2

(* After a crash nothing is open, and the rows are as they were.           *)
LEMMA ManagerCrashKeeps ==
  ASSUME TurnConstants, SessionInv, ManagerCrash
  PROVE  SessionInv'
<1>1. /\ faults < MaxFaults /\ faults' = faults + 1 /\ open' = {} /\ handle' = [z \in DOMAIN handle |-> 0]
      /\ tasks' = [u \in DOMAIN tasks |-> [tasks[u] EXCEPT !.pc = "finished"]]
      /\ UNCHANGED <<next, row, ctx, status, store, unsaved, sound>>
  BY DEF ManagerCrash
<1>2. /\ SessionTypeOK /\ tasks \in Seq(Turns) /\ handle \in [Sids -> 0 .. Len(tasks)] /\ faults \in 0 .. MaxFaults
      /\ MaxFaults \in Nat
  BY DEF SessionInv, SessionTypeOK, TurnConstants
<1>3. "finished" \in TurnSteps
  BY DEF TurnSteps
<1>4. ASSUME NEW u \in DOMAIN tasks
      PROVE  tasks'[u] \in Turns /\ tasks'[u].pc = "finished" /\ tasks'[u].sid = tasks[u].sid
  <2>1. tasks[u] \in Turns /\ tasks'[u] = [tasks[u] EXCEPT !.pc = "finished"]
    BY <1>1, <1>2
  <2> QED
    BY <1>3, <2>1 DEF Turns
<1>5. tasks' \in Seq(Turns) /\ Len(tasks') = Len(tasks) /\ DOMAIN tasks' = DOMAIN tasks
  <2>1. DOMAIN tasks = 1 .. Len(tasks) /\ Len(tasks) \in Nat
    BY <1>2
  <2>2. DOMAIN tasks' = DOMAIN tasks /\ tasks' = [u \in 1 .. Len(tasks) |-> tasks'[u]]
    BY <1>1, <2>1
  <2>3. tasks' \in [1 .. Len(tasks) -> Turns]
    BY <1>4, <2>1, <2>2
  <2> QED
    BY <2>1, <2>2, <2>3
<1>6. SessionTypeOK'
  <2>1. handle' \in [Sids -> 0 .. Len(tasks')]
    BY <1>1, <1>2, <1>5
  <2>2. \A u \in DOMAIN tasks' : tasks'[u].sid < next
    BY <1>2, <1>4, <1>5 DEF SessionTypeOK
  <2> QED
    BY <1>1, <1>2, <1>5, <2>1, <2>2 DEF SessionTypeOK
<1>7. HandlesOK'
  BY <1>1, <1>2, <1>4, <1>5 DEF HandlesOK, Finished
<1>8. AllOnward
  BY <1>4, <1>5, FinishedOnward DEF AllOnward
<1>9. ASSUME NEW u \in DOMAIN tasks' PROVE TodoAt(u)'
  BY <1>4, <1>5 DEF TodoAt, TurnAt
<1>10. \A u \in DOMAIN tasks' : tasks'[u].pc = "finished"
  BY <1>4, <1>5
<1> QED
  BY <1>1, <1>6, <1>7, <1>8, <1>9, <1>10, QuietManager

(* A session enters the map: what the turns and the other sessions have     *)
(* stays, and the new one has no turn.                                      *)
InsertStep(r, ms) ==
  /\ Insert(r, ms) /\ ms \in Seq(Messages)
  /\ store' \in Seq(Seq(Messages)) /\ Len(store) <= Len(store') /\ Len(store') <= next /\ r \in 0 .. Len(store')
  /\ \A q \in DOMAIN store : store'[q] = store[q]
  /\ \A q \in DOMAIN store' : q \in DOMAIN store \/ store'[q] = <<>>
  /\ faults' \in 0 .. MaxFaults /\ sound \subseteq sound' /\ sound' \subseteq sound \cup {next}
  /\ (next \in sound' => CallsMatched(ms)) /\ ContextOK(next, ms)

Covers(ms, rows) ==
  SameOrder(ms, rows) /\ \A i \in DOMAIN ms : \A e \in Entries(ms[i]) : \E p \in DOMAIN rows : rows[p] = e

(* A session that begins with nothing, or with what a row has.             *)
LEMMA InsertKeeps ==
  ASSUME TurnConstants, SessionInv, NEW r, NEW ms, InsertStep(r, ms), r # 0 => Covers(ms, store'[r])
  PROVE  SessionInv'
<1>0. /\ SessionTypeOK /\ HandlesOK /\ RowsOK /\ ContextsOK /\ InHandOK /\ TodoOK /\ StoredOK /\ SoundOK
      /\ open \subseteq Sids /\ sound \subseteq Sids /\ \A z \in open \cup sound : z # next
  BY OpenSids DEF SessionInv
<1>a. /\ store' \in Seq(Seq(Messages)) /\ Len(store) <= Len(store') /\ Len(store') <= next /\ r \in 0 .. Len(store')
      /\ \A q \in DOMAIN store : store'[q] = store[q]
      /\ \A q \in DOMAIN store' : q \in DOMAIN store \/ store'[q] = <<>>
  BY DEF InsertStep
<1>b. /\ ms \in Seq(Messages) /\ (next \in sound' => CallsMatched(ms)) /\ ContextOK(next, ms)
      /\ faults' \in 0 .. MaxFaults /\ sound \subseteq sound' /\ sound' \subseteq sound \cup {next}
  BY DEF InsertStep
<1>1. /\ next \in Sids /\ next' = next + 1 /\ open' = open \cup {next}
      /\ row' = [row EXCEPT ![next] = r] /\ ctx' = [ctx EXCEPT ![next] = ms]
      /\ handle' = handle /\ status' = status /\ tasks' = tasks /\ unsaved' = unsaved
  BY DEF InsertStep, Insert
<1>2. PICK n : n = next
  OBVIOUS
<1>3. /\ next \in 1 .. MaxSessions + 1 /\ next \in Nat /\ open \subseteq 1 .. next - 1 /\ sound \subseteq 1 .. next - 1
      /\ store \in Seq(Seq(Messages)) /\ row \in [Sids -> 0 .. Len(store)] /\ ctx \in [Sids -> Seq(Messages)]
      /\ Len(store) \in Nat /\ Len(store') \in Nat /\ MaxSessions \in Nat
      /\ tasks \in Seq(Turns) /\ handle \in [Sids -> 0 .. Len(tasks)]
  BY <1>0, <1>a DEF SessionTypeOK, TurnConstants
<1>4. /\ row' \in [Sids -> 0 .. Len(store')] /\ row'[n] = r /\ \A z \in Sids : z # n => row'[z] = row[z]
      /\ ctx' \in [Sids -> Seq(Messages)] /\ ctx'[n] = ms /\ \A z \in Sids : z # n => ctx'[z] = ctx[z]
  <2>1. 0 .. Len(store) \subseteq 0 .. Len(store')
    BY <1>a, <1>3
  <2>2. row' \in [Sids -> 0 .. Len(store')] /\ row'[n] = r /\ \A z \in Sids : z # n => row'[z] = row[z]
    BY <1>a, <1>1, <1>2, <1>3, <2>1
  <2>3. ctx' \in [Sids -> Seq(Messages)] /\ ctx'[n] = ms /\ \A z \in Sids : z # n => ctx'[z] = ctx[z]
    BY <1>b, <1>1, <1>2, <1>3
  <2> QED
    BY <2>2, <2>3
<1>5. SessionTypeOK'
  <2>1. next' \in 1 .. MaxSessions + 1 /\ open' \subseteq 1 .. next' - 1 /\ sound' \subseteq 1 .. next' - 1
    <3>1. next' \in 1 .. MaxSessions + 1 /\ next' - 1 = next
      BY <1>1, <1>3 DEF Sids
    <3>2. \A z \in 1 .. next - 1 : z \in 1 .. next
      BY <1>3
    <3>3. next \in 1 .. next
      BY <1>1, <1>3 DEF Sids
    <3> QED
      BY <1>b, <1>1, <1>3, <3>1, <3>2, <3>3
  <2>2. \A u \in DOMAIN tasks : tasks[u].sid < next'
    <3>1. \A u \in DOMAIN tasks : tasks[u].sid < next /\ tasks[u].sid \in Sids
      BY <1>0, TurnFacts DEF SessionTypeOK
    <3>2. next \in Nat /\ next' = next + 1 /\ \A z \in Sids : z \in Nat
      BY <1>1, <1>3 DEF Sids
    <3> QED
      BY <3>1, <3>2
  <2>3. Len(store') < next'
    BY <1>a, <1>1, <1>3
  <2>4. /\ status' \in [Sids -> SessionStatuses] /\ tasks' \in Seq(Turns) /\ handle' \in [Sids -> 0 .. Len(tasks')]
        /\ unsaved' \subseteq Messages
    BY <1>0, <1>1 DEF SessionTypeOK
  <2> QED
    BY <1>a, <1>b, <1>1, <1>4, <2>1, <2>2, <2>3, <2>4 DEF SessionTypeOK
<1>6. HandlesOK'
  BY <1>0, <1>1 DEF HandlesOK, Session, Finished
<1>7. \A u \in DOMAIN tasks : Session(u) # n /\ Session(u) \in Sids /\ Session(u)' = Session(u)
  <2>1. \A u \in DOMAIN tasks : Session(u) < next /\ Session(u) \in Sids
    BY <1>0, TurnFacts
  <2> QED
    BY <1>1, <1>2, <1>3, <2>1 DEF Session, Sids
<1>8. AllOnward
  BY <1>1, SameOnward DEF AllOnward
<1>9. /\ \A z : Pending(z)' = Pending(z)
      /\ Pending(n) = {}
  <2>1. \A z : Pending(z)' = Pending(z)
    BY <1>1 DEF Pending, Running, Finished
  <2>2. handle[n] = 0
    <3>1. handle[n] # 0 => handle[n] \in DOMAIN tasks
      BY <1>1, <1>2, <1>3
    <3> QED
      BY <1>0, <1>1, <1>2, <1>7, <3>1 DEF HandlesOK
  <2> QED
    BY <2>1, <2>2 DEF Pending, Running
<1>10. RowsOK'
  <2>1. \A q \in DOMAIN store : store[q] \in Seq(Messages) /\ RowOK(store[q])
    BY <1>0, <1>3 DEF RowsOK
  <2>2. \A x \in Seq(Messages) : RowOK(x) => RowOK(x)'
    BY <1>8, RowStays
  <2>3. RowOK(<<>>)'
    BY DEF RowOK
  <2> QED
    BY <1>a, <2>1, <2>2, <2>3 DEF RowsOK
<1>11. ContextsOK'
  <2>1. \A z : \A x \in Seq(Messages) : ContextOK(z, x) => ContextOK(z, x)'
    BY <1>8, ContextStays
  <2>2. ContextOK(n, ms)'
    BY <1>b, <1>2, <2>1
  <2>3. ASSUME NEW z \in open PROVE ContextOK(z, ctx[z])'
    <3>1. ctx'[z] = ctx[z] /\ ctx[z] \in Seq(Messages) /\ ContextOK(z, ctx[z])
      BY <1>0, <1>2, <1>3, <1>4 DEF ContextsOK
    <3> QED
      BY <2>1, <3>1
  <2> QED
    BY <1>1, <1>2, <1>4, <2>2, <2>3 DEF ContextsOK
<1>12. \A z \in open : row[z] # 0 => row'[z] = row[z] /\ row[z] \in DOMAIN store /\ store'[row[z]] = store[row[z]]
  BY <1>0, <1>a, <1>2, <1>4, RowOf
<1>13. InHandOK'
  <2>1. ASSUME NEW u \in DOMAIN tasks, Session(u)' \in open', row'[Session(u)'] # 0,
               tasks'[u].pc \in {"user", "text", "calls"}
        PROVE  Ahead(InHand(u), ctx[Session(u)], store[row[Session(u)]])'
    <3>1. /\ Session(u)' = Session(u) /\ Session(u) \in open /\ row'[Session(u)] = row[Session(u)]
          /\ ctx'[Session(u)] = ctx[Session(u)]
      BY <1>1, <1>2, <1>4, <1>7, <2>1
    <3>2. store'[row[Session(u)]] = store[row[Session(u)]]
      BY <1>12, <2>1, <3>1
    <3>3. InHand(u)' = InHand(u)
      BY <1>1 DEF InHand, TurnAt
    <3>4. Ahead(InHand(u), ctx[Session(u)], store[row[Session(u)]])
      BY <1>0, <1>1, <2>1, <3>1 DEF InHandOK
    <3>5. \A w, x, rows : Ahead(w, x, rows) => Ahead(w, x, rows)'
      BY <1>1, AheadStays
    <3> QED
      BY <3>1, <3>2, <3>3, <3>4, <3>5
  <2> QED
    BY <1>1, <2>1 DEF InHandOK
<1>14. TodoOK'
  <2>1. ASSUME NEW u \in DOMAIN tasks
        PROVE  TodoAt(u)' /\ (TurnAt(u, "persist")' /\ Session(u)' \in open' => LastSaid(u, ctx[Session(u)])')
    <3>1. TodoAt(u)' = TodoAt(u) /\ TurnAt(u, "persist")' = TurnAt(u, "persist")
      BY <1>1 DEF TodoAt, TurnAt
    <3>2. \A x : LastSaid(u, x) => LastSaid(u, x)'
      BY <1>1 DEF LastSaid
    <3>3. Session(u)' \in open' => Session(u) \in open /\ ctx'[Session(u)] = ctx[Session(u)]
      BY <1>1, <1>2, <1>4, <1>7
    <3> QED
      BY <1>0, <1>7, <3>1, <3>2, <3>3 DEF TodoOK
  <2> QED
    BY <1>1, <2>1 DEF TodoOK
<1>15. StoredOK'
  <2>1. ASSUME NEW z \in open, row'[z] # 0
        PROVE  StoredAs(z, ctx[z], store[row[z]])'
    <3>1. row'[z] = row[z] /\ ctx'[z] = ctx[z] /\ store'[row[z]] = store[row[z]] /\ StoredAs(z, ctx[z], store[row[z]])
      BY <1>0, <1>2, <1>4, <1>12, <2>1 DEF StoredOK
    <3>2. \A x, rows : StoredAs(z, x, rows) => StoredAs(z, x, rows)'
      BY <1>1, <1>9 DEF StoredAs, Kept
    <3> QED
      BY <3>1, <3>2
  <2>2. ASSUME r # 0 PROVE StoredAs(n, ctx[n], store[row[n]])'
    <3>1. PICK x : x = store'[r]
      OBVIOUS
    <3>3. Covers(ms, x)
      BY <2>2, <3>1
    <3>4. StoredAs(n, ms, x)'
      BY <3>3 DEF StoredAs, Kept, Covers
    <3> QED
      BY <1>4, <3>1, <3>4
  <2> QED
    BY <1>1, <1>2, <1>4, <2>1, <2>2 DEF StoredOK
<1>16. SoundOK'
  <2>1. ASSUME NEW z \in sound' PROVE CallsMatched(ctx'[z])
    <3>1. CASE z = n
      BY <1>b, <1>2, <1>4, <2>1, <3>1
    <3>2. CASE z # n
      BY <1>0, <1>b, <1>2, <1>4, <2>1, <3>2 DEF SoundOK
    <3> QED
      BY <3>1, <3>2
  <2> QED
    BY <2>1 DEF SoundOK
<1> QED
  BY <1>5, <1>6, <1>10, <1>11, <1>13, <1>14, <1>15, <1>16 DEF SessionInv

LEMMA EmptyContext ==
  /\ <<>> \in Seq(Messages) /\ CallsMatched(<<>>) /\ \A s : ContextOK(s, <<>>)
  /\ \A x : Covers(<<>>, x)
BY DEF CallsMatched, ContextOK, Once, SameOrder, Covers

LEMMA SpawnKeeps ==
  ASSUME TurnConstants, SessionInv, Spawn
  PROVE  SessionInv'
<1>1. /\ store \in Seq(Seq(Messages)) /\ Len(store) < next /\ next \in Nat /\ Len(store) \in Nat
      /\ faults \in 0 .. MaxFaults /\ MaxFaults \in Nat /\ <<>> \in Seq(Messages)
  BY DEF SessionInv, SessionTypeOK, TurnConstants
<1>2. CASE store' = Append(store, <<>>) /\ UNCHANGED faults /\ Insert(Len(store) + 1, <<>>) /\ sound' = sound \cup {next}
  <2>1. PICK n, T : n = Len(store) + 1 /\ T = Seq(Messages)
    OBVIOUS
  <2>2. /\ store' \in Seq(T) /\ DOMAIN store' = DOMAIN store \cup {n} /\ Len(store') = n /\ store'[n] = <<>>
        /\ \A q \in DOMAIN store : store'[q] = store[q]
    <3>1. store \in Seq(T) /\ <<>> \in T
      BY <1>1, <2>1
    <3> QED
      BY <1>2, <2>1, <3>1, AppendFacts
  <2>3. Len(store) <= n /\ n <= next /\ n \in 0 .. n
    BY <1>1, <2>1
  <2>4. InsertStep(n, <<>>)
    BY <1>1, <1>2, <2>1, <2>2, <2>3, EmptyContext DEF InsertStep
  <2>5. Covers(<<>>, store'[n])
    BY EmptyContext
  <2> QED
    BY <2>4, <2>5, InsertKeeps
<1>3. CASE /\ faults < MaxFaults /\ faults' = faults + 1 /\ UNCHANGED store
           /\ Insert(0, <<>>) /\ sound' = sound \cup {next}
  <2>1. InsertStep(0, <<>>)
    BY <1>1, <1>3, EmptyContext DEF InsertStep
  <2> QED
    BY <2>1, InsertKeeps
<1> QED
  BY <1>2, <1>3 DEF Spawn

LEMMA ResumeKeeps ==
  ASSUME TurnConstants, SessionInv, NEW r \in DOMAIN store, Resume(r)
  PROVE  SessionInv'
<1>1. PICK ms : ms = store[r]
  OBVIOUS
<1>2. /\ store \in Seq(Seq(Messages)) /\ Len(store) < next /\ next \in Nat /\ Len(store) \in Nat
      /\ faults \in 0 .. MaxFaults /\ ms \in Seq(Messages) /\ RowOK(ms) /\ SessionTypeOK
  BY <1>1 DEF SessionInv, SessionTypeOK, RowsOK
<1>3. /\ Insert(r, ms) /\ store' = store /\ faults' = faults
      /\ sound \subseteq sound' /\ sound' \subseteq sound \cup {next} /\ (next \in sound' => CallsMatched(ms))
  <2>1. next \notin sound
    BY <1>2, OpenSids
  <2> QED
    BY <1>1, <2>1 DEF Resume
<1>4. ASSUME NEW i \in DOMAIN ms PROVE ms[i] \in Messages /\ Entries(ms[i]) = {ms[i]}
  <2>1. PICK m : m = ms[i]
    OBVIOUS
  <2>2. m \in Messages /\ (m.kind = "result" => \E k \in m.of : m.of = {k})
    <3>1. m \in Messages
      BY <1>2, <2>1
    <3>2. ms[i].kind = "result" => \E k \in ms[i].of : ms[i].of = {k}
      BY <1>2 DEF RowOK
    <3> QED
      BY <2>1, <3>1, <3>2
  <2> QED
    BY <2>1, <2>2, RowEntry
<1>5. SameOrder(ms, ms) /\ Once(ms)
  BY <1>2, LoadedRow
<1>6. ContextOK(next, ms)
  <2>1. ASSUME NEW i \in DOMAIN ms PROVE Sourced(ms[i], next)
    <3>1. ms[i].turn \in DOMAIN tasks /\ InRow(ms[i].turn, ms[i])
      BY <1>2 DEF RowOK
    <3>2. Session(ms[i].turn) # next
      BY <1>2, <3>1, TurnFacts DEF Sids
    <3> QED
      BY <1>4, <3>1, <3>2 DEF Sourced
  <2> QED
    BY <1>5, <2>1 DEF ContextOK
<1>7. Covers(ms, ms)
  BY <1>4, <1>5 DEF Covers
<1>8. r \in 0 .. Len(store) /\ Len(store) <= Len(store) /\ Len(store) <= next
  BY <1>2
<1>9. InsertStep(r, ms)
  BY <1>2, <1>3, <1>6, <1>8 DEF InsertStep
<1> QED
  BY <1>1, <1>3, <1>7, <1>9, InsertKeeps

(* Every step keeps the invariant.                                         *)
LEMMA TurnStepKeeps ==
  ASSUME TurnConstants, SessionInv, NEW t \in DOMAIN tasks, TurnStep(t) \/ Stop(t) \/ NoRoot(t)
  PROVE  SessionInv'
BY PersistUserKeeps, AddUserKeeps, RoundKeeps, CompressKeeps, AnswersCallsKeeps, TextKeeps, AddTextKeeps,
   ToolsDoneKeeps, AddCallsKeeps, PersistResultKeeps, StopKeeps, NoRootKeeps
DEF TurnStep, Answers

LEMMA ManagerKeeps ==
  ASSUME TurnConstants, SessionInv, Manager
  PROVE  SessionInv'
BY SpawnKeeps, ManagerCrashKeeps, ResumeKeeps, SendToKeeps, CancelKeeps DEF Manager

LEMMA SessionStutter ==
  ASSUME SessionInv, UNCHANGED sessionVars
  PROVE  SessionInv'
<1>1. /\ next' = next /\ open' = open /\ row' = row /\ ctx' = ctx /\ handle' = handle /\ status' = status
      /\ tasks' = tasks /\ store' = store /\ faults' = faults /\ unsaved' = unsaved /\ sound' = sound
  BY DEF sessionVars, live
<1>2. SessionTypeOK' /\ HandlesOK' /\ SoundOK'
  BY <1>1 DEF SessionInv, SessionTypeOK, HandlesOK, SoundOK, Session, Finished
<1>3. \A x : RowOK(x) => RowOK(x)'
  BY <1>1 DEF RowOK, InRow, Finished, RowRank, TurnAt
<1>4. \A z, x : Sourced(x, z) => Sourced(x, z)'
  BY <1>1 DEF Sourced, Session, InContext, InRow, Finished, RowRank, ContextRank, TurnAt
<1>5. \A z, x : ContextOK(z, x) => ContextOK(z, x)'
  BY <1>4 DEF ContextOK
<1>6. \A w, x, y : Ahead(w, x, y) => Ahead(w, x, y)'
  BY <1>1 DEF Ahead
<1>7. \A u : InHand(u)' = InHand(u) /\ Session(u)' = Session(u)
  BY <1>1 DEF InHand, Session, TurnAt
<1>8. \A u : TodoAt(u)' = TodoAt(u) /\ TurnAt(u, "persist")' = TurnAt(u, "persist")
  BY <1>1 DEF TodoAt, TurnAt
<1>9. \A u, x : LastSaid(u, x) => LastSaid(u, x)'
  BY <1>1 DEF LastSaid
<1>10. \A z, x, y : StoredAs(z, x, y) => StoredAs(z, x, y)'
  <2>1. \A z : Pending(z)' = Pending(z)
    BY <1>1 DEF Pending, Running, Finished
  <2> QED
    BY <1>1, <2>1 DEF StoredAs, Kept
<1>11. RowsOK' /\ ContextsOK'
  BY <1>1, <1>3, <1>5 DEF SessionInv, RowsOK, ContextsOK
<1>12. InHandOK'
  BY <1>1, <1>6, <1>7 DEF SessionInv, InHandOK
<1>13. TodoOK'
  BY <1>1, <1>7, <1>8, <1>9 DEF SessionInv, TodoOK
<1>14. StoredOK'
  BY <1>1, <1>10 DEF SessionInv, StoredOK
<1> QED
  BY <1>2, <1>11, <1>12, <1>13, <1>14 DEF SessionInv

(* The invariant holds at the start, and SessionSafety follows from it.    *)
LEMMA SessionStarts ==
  ASSUME TurnConstants, SessionInit
  PROVE  SessionInv
<1>1. SessionTypeOK
  <2>1. tasks \in Seq(Turns) /\ DOMAIN tasks = {} /\ store \in Seq(Seq(Messages)) /\ Len(store) = 0 /\ Len(tasks) = 0
    BY DEF SessionInit
  <2>2. "idle" \in SessionStatuses /\ <<>> \in Seq(Messages)
    BY DEF SessionStatuses
  <2>3. status \in [Sids -> SessionStatuses] /\ ctx \in [Sids -> Seq(Messages)]
    BY <2>2 DEF SessionInit
  <2>4. /\ row \in [Sids -> 0 .. 0] /\ handle \in [Sids -> 0 .. 0] /\ next = 1 /\ open = {} /\ sound = {}
        /\ unsaved = {} /\ faults = 0
    BY DEF SessionInit
  <2>5. 1 \in 1 .. MaxSessions + 1 /\ 0 \in 0 .. MaxFaults
    BY DEF TurnConstants
  <2> QED
    BY <2>1, <2>3, <2>4, <2>5 DEF SessionTypeOK
<1>2. DOMAIN tasks = {} /\ DOMAIN store = {} /\ open = {} /\ sound = {} /\ \A s \in Sids : handle[s] = 0
  BY DEF SessionInit
<1> QED
  BY <1>1, <1>2 DEF SessionInv, HandlesOK, RowsOK, ContextsOK, InHandOK, TodoOK, StoredOK, SoundOK

LEMMA SessionSound ==
  ASSUME TurnConstants, SessionInv
  PROVE  SessionSafety
<1>0. /\ SessionTypeOK /\ HandlesOK /\ ContextsOK /\ StoredOK /\ SoundOK
  BY DEF SessionInv
<1>1. OneTurn
  BY <1>0 DEF OneTurn, HandlesOK, Session
<1>2. KeptIsStored
  <2>1. ASSUME NEW s \in open, NEW i \in DOMAIN ctx[s], NEW j \in DOMAIN ctx[s], i # j
        PROVE  Kept(s, ctx[s][i]) \cap Kept(s, ctx[s][j]) = {}
    <3>1. PICK ms : ms = ctx[s]
      OBVIOUS
    <3>2. ms \in Seq(Messages) /\ Once(ms)
      BY <1>0, <3>1, OpenSids, RowOf DEF ContextsOK, ContextOK
    <3>3. CASE ms[i].turn # 0
      <4>1. Entries(ms[i]) \cap Entries(ms[j]) = {}
        BY <2>1, <3>1, <3>2, <3>3 DEF Once
      <4> QED
        BY <3>1, <4>1 DEF Kept
    <3>4. CASE ms[i].turn = 0
      <4>1. ms[i] \in Messages
        BY <3>1, <3>2
      <4>2. \A e \in Entries(ms[i]) : e.turn = 0
        BY <3>4, <4>1, EntryFacts
      <4> QED
        BY <3>1, <4>2 DEF Kept
    <3> QED
      BY <3>3, <3>4
  <2> QED
    BY <1>0, <2>1 DEF KeptIsStored, StoredOK
<1>3. CallsAnswered
  BY <1>0 DEF CallsAnswered, SoundOK
<1> QED
  BY <1>0, <1>1, <1>2, <1>3 DEF SessionSafety

(* One turn at a time, what the context holds is in the row once and in its order, and every tool    *)
(* call that is sent to the provider is answered, whatever is cancelled, closed, resumed or fails.   *)
THEOREM SessionSafetyTheorem == ASSUME TurnConstants PROVE SessionSpec => []SessionSafety
<1>1. SessionInit => SessionInv
  BY SessionStarts
<1>2. SessionInv /\ [SessionNext]_sessionVars => SessionInv'
  BY TurnStepKeeps, ManagerKeeps, SessionStutter DEF SessionNext
<1>3. SessionInv => SessionSafety
  BY SessionSound
<1> QED
  BY <1>1, <1>2, <1>3, PTL DEF SessionSpec
=============================================================================
