--------------------------- MODULE Services_proofs ---------------------------
(***************************************************************************)
(* Proofs about services that stand alone: the scheduled jobs, the durable *)
(* event bus and the witness.                                              *)
(***************************************************************************)
EXTENDS CronRuntime, DurableAxon, Witness, FiniteSetTheorems, SequenceTheorems, TLAPS

-----------------------------------------------------------------------------
(* Scheduled jobs: CronSpec => []CronSafety.                               *)

(* The schedule: the next time after t lies after t, does not go back, and *)
(* is the same for all the times before it.                                *)
LEMMA NextAfterFacts ==
  ASSUME CronConstants, NEW j \in Jobs, NEW t \in Nat
  PROVE  /\ NextAfter(j, t) \in Nat
         /\ t < NextAfter(j, t)
         /\ \A u \in Nat : t <= u => NextAfter(j, t) <= NextAfter(j, u)
         /\ \A u \in Nat : (t <= u /\ u < NextAfter(j, t)) => NextAfter(j, u) = NextAfter(j, t)
<1>0. /\ Period[j] \in Nat /\ Period[j] > 0
  BY DEF CronConstants
<1> DEFINE p == Period[j]
<1>1. p \in Nat \ {0}
  BY <1>0
<1> HIDE DEF p
<1>2. /\ t \div p \in Nat
      /\ (t \div p + 1) * p \in Nat
      /\ t < (t \div p + 1) * p
  BY <1>1
<1>3. ASSUME NEW u \in Nat, t <= u
      PROVE  (t \div p + 1) * p <= (u \div p + 1) * p
  <2>1. t \div p <= u \div p /\ u \div p \in Nat /\ t \div p \in Nat
    BY <1>1, <1>3
  <2> QED
    BY <2>1, <1>1
<1>4. ASSUME NEW u \in Nat, t <= u, u < (t \div p + 1) * p
      PROVE  (u \div p + 1) * p = (t \div p + 1) * p
  <2>1. t \div p = u \div p
    BY <1>1, <1>4
  <2> QED
    BY <2>1
<1> QED
  BY <1>2, <1>3, <1>4 DEF NextAfter, p

(* The elements of a sequence, and of what is left of it.                  *)
LEMMA QueueFacts ==
  ASSUME NEW S, NEW s \in Seq(S)
  PROVE  /\ ToSet(<<>>) = {}
         /\ s # <<>> => /\ Head(s) \in S /\ Tail(s) \in Seq(S) /\ 1 \in DOMAIN s
                        /\ Head(s) = s[1]
                        /\ ToSet(s) = {Head(s)} \cup ToSet(Tail(s))
                        /\ \A i \in DOMAIN Tail(s) :
                             i + 1 \in DOMAIN s /\ i \in Nat /\ i > 0 /\ Tail(s)[i] = s[i + 1]
<1>1. ToSet(<<>>) = {}
  BY DEF ToSet
<1>2. ASSUME s # <<>>
      PROVE  /\ Head(s) \in S /\ Tail(s) \in Seq(S) /\ 1 \in DOMAIN s /\ Head(s) = s[1]
             /\ DOMAIN s = 1 .. Len(s) /\ DOMAIN Tail(s) = 1 .. (Len(s) - 1)
             /\ Len(s) \in Nat /\ Len(s) > 0
             /\ \A i \in DOMAIN Tail(s) :
                             i + 1 \in DOMAIN s /\ i \in Nat /\ i > 0 /\ Tail(s)[i] = s[i + 1]
  BY <1>2
<1>3. ASSUME s # <<>>
      PROVE  ToSet(s) = {Head(s)} \cup ToSet(Tail(s))
  <2>1. ASSUME NEW d \in ToSet(s)
        PROVE  d \in {Head(s)} \cup ToSet(Tail(s))
    <3>1. PICK i \in DOMAIN s : d = s[i]
      BY <2>1 DEF ToSet
    <3>2. CASE i = 1
      BY <3>1, <3>2, <1>2, <1>3
    <3>3. CASE i # 1
      <4>1. i - 1 \in DOMAIN Tail(s) /\ i \in Int
        BY <3>3, <1>2, <1>3
      <4>2. Tail(s)[i - 1] = s[i]
        BY <4>1, <1>2, <1>3
      <4> QED
        BY <4>1, <4>2, <3>1 DEF ToSet
    <3> QED
      BY <3>2, <3>3
  <2>2. ASSUME NEW d \in {Head(s)} \cup ToSet(Tail(s))
        PROVE  d \in ToSet(s)
    BY <2>2, <1>2, <1>3 DEF ToSet
  <2> QED
    BY <2>1, <2>2
<1> QED
  BY <1>1, <1>2, <1>3

(* A decision is not the absence of one.                                    *)
LEMMA DecisionIsSome == \A d \in DecisionSet : d # NoDecision
<1> SUFFICES ASSUME NEW d \in DecisionSet, d = NoDecision
             PROVE  FALSE
  OBVIOUS
<1>1. DOMAIN d = {"job", "from", "to"}
  BY DEF DecisionSet
<1>2. DOMAIN d = {"job"}
  BY DEF NoDecision
<1> QED
  BY <1>1, <1>2

(* A step that adds no decision to those that stand keeps them apart.       *)
LEMMA QuietApart ==
  ASSUME OccurrenceOnce, QueuesApart, injected' = injected,
         \A q \in Runtimes : (MayInject(q)' /\ pending'[q] # <<>>) =>
                               MayInject(q) /\ pending'[q] = pending[q],
         \A d : Stands(d)' => Stands(d)
  PROVE  OccurrenceOnce' /\ QueuesApart'
<1>0. \A q \in Runtimes : \A i \in DOMAIN pending'[q] : pending'[q] # <<>>
  OBVIOUS
<1>1. OccurrenceOnce'
  BY DEF OccurrenceOnce
<1>2. QueuesApart'
  BY <1>0 DEF QueuesApart, Apart
<1> QED
  BY <1>1, <1>2

LEMMA QuietStands ==
  ASSUME injected' = injected,
         \A q \in Runtimes : (MayInject(q)' /\ pending'[q] # <<>>) =>
                               MayInject(q) /\ pending'[q] = pending[q]
  PROVE  \A d : Stands(d)' => Stands(d)
<1>0. \A q \in Runtimes : \A i \in DOMAIN pending'[q] : pending'[q] # <<>>
  OBVIOUS
<1> QED
  BY <1>0 DEF Stands

(* ... and what is known of them, as long as a runtime begins to lead with  *)
(* what is in the file and only the leader goes on to tick.                 *)
LEMMA QuietKnown ==
  ASSUME CronConstants, CronTypeOK, CronTypeOK', StandingKnown, ScheduleOK, disk' = disk,
         \A d : Stands(d)' => Stands(d),
         \A r \in Runtimes : Leads(r)' => (Leads(r) /\ mem'[r] = mem[r]) \/ mem'[r] = disk,
         \A r \in Runtimes : loop'[r] = "tick" => (loop[r] = "tick" \/ Leads(r)) /\ mem'[r] = mem[r]
  PROVE  StandingKnown' /\ ScheduleOK'
<1>1. \A d \in DecisionSet : d.job \in Jobs
  BY DEF DecisionSet
<1>2. StandingKnown'
  <2> SUFFICES ASSUME NEW d \in DecisionSet, Stands(d)'
               PROVE  /\ d.to <= disk'[d.job]
                      /\ \A r \in Runtimes :
                           /\ Leads(r)' => d.to <= mem'[r][d.job]
                           /\ loop'[r] = "tick" =>
                                \/ d.to <= mem'[r][d.job]
                                \/ NextAfter(d.job, mem'[r][d.job]) < NextAfter(d.job, d.to)
    BY DEF StandingKnown, NextAfter
  <2>1. Stands(d)
    OBVIOUS
  <2> QED
    BY <2>1 DEF StandingKnown
<1>3. ScheduleOK'
  <2> SUFFICES ASSUME NEW j \in Jobs, NEW r \in Runtimes
               PROVE  /\ (Leads(r)' \/ loop'[r] = "tick") =>
                           NextAfter(j, mem'[r][j]) <= NextAfter(j, disk'[j])
                      /\ \A q \in Runtimes : (Leads(q)' /\ loop'[r] = "tick") =>
                           NextAfter(j, mem'[r][j]) <= NextAfter(j, mem'[q][j])
    BY DEF ScheduleOK, NextAfter
  <2>0. /\ NextAfter(j, disk[j]) \in Nat
        /\ \A q \in Runtimes : NextAfter(j, mem'[q][j]) \in Nat /\ NextAfter(j, mem[q][j]) \in Nat
    <3>1. disk[j] \in Nat /\ \A q \in Runtimes : mem'[q][j] \in Nat /\ mem[q][j] \in Nat
      BY DEF CronTypeOK
    <3> QED
      BY <3>1, NextAfterFacts
  <2>1. (Leads(r)' \/ loop'[r] = "tick") => NextAfter(j, mem'[r][j]) <= NextAfter(j, disk'[j])
    BY <2>0 DEF ScheduleOK
  <2>2. ASSUME NEW q \in Runtimes, Leads(q)', loop'[r] = "tick"
        PROVE  NextAfter(j, mem'[r][j]) <= NextAfter(j, mem'[q][j])
    <3>1. CASE mem'[q] = disk
      BY <3>1, <2>1, <2>2
    <3>2. CASE Leads(q) /\ mem'[q] = mem[q] /\ loop[r] = "tick"
      BY <3>2, <2>2 DEF ScheduleOK
    <3>3. CASE Leads(q) /\ mem'[q] = mem[q] /\ Leads(r)
      BY <3>3, <2>2, <2>0 DEF Leads
    <3> QED
      BY <3>1, <3>2, <3>3, <2>2
  <2> QED
    BY <2>1, <2>2
<1> QED
  BY <1>2, <1>3

(* No decision is lost by a step that keeps each one in hand or accounts    *)
(* for it.                                                                  *)
LEMMA AccountedKept ==
  ASSUME Accounted, decided' = decided, cut \subseteq cut', results \subseteq results',
         \A q \in Runtimes : \A d \in Outstanding(q) :
           d \in Outstanding(q)' \/ d \in cut' \/ d \in results'
  PROVE  Accounted'
BY DEF Accounted

(* The surroundings.                                                        *)
LEMMA SurroundingsStep ==
  ASSUME CronConstants, CronInv,
         Clock \/ Pause \/ \E l \in Runtimes \cup {Nobody} : Lead(l)
  PROVE  CronInv'
<1> USE DEF CronInv
<1>0. /\ UNCHANGED <<disk, mem, loop, pending, current, results, injected, decided, cut>>
      /\ clock' \in Nat /\ clock' >= clock /\ paused' \in BOOLEAN
      /\ leader' \in Runtimes \cup {Nobody}
      /\ leader' # leader => leader' = Nobody \/ loop[leader'] = "down"
  <2>1. CASE Clock
    BY <2>1 DEF Clock, CronTypeOK, runtime
  <2>2. CASE Pause
    BY <2>2 DEF Pause, CronTypeOK, runtime
  <2>3. CASE \E l \in Runtimes \cup {Nobody} : Lead(l)
    BY <2>3 DEF Lead, CronTypeOK, runtime
  <2> QED
    BY <2>1, <2>2, <2>3
<1>1. CronTypeOK'
  BY <1>0 DEF CronTypeOK
<1>2. PlacesOK'
  BY <1>0 DEF PlacesOK
<1>3. ClockOK'
  <2>1. \A j \in Jobs : disk[j] \in Nat /\ \A r \in Runtimes : mem[r][j] \in Nat
    BY DEF CronTypeOK
  <2> QED
    BY <1>0, <2>1 DEF ClockOK, CronTypeOK
<1>4. \A q \in Runtimes : (MayInject(q)' /\ pending'[q] # <<>>) =>
                               MayInject(q) /\ pending'[q] = pending[q]
  BY <1>0 DEF MayInject, PlacesOK, CronConstants
<1>5. \A d : Stands(d)' => Stands(d)
  BY <1>0, <1>4, QuietStands
<1>6. OccurrenceOnce' /\ QueuesApart'
  BY <1>0, <1>4, <1>5, QuietApart
<1>7. \A r \in Runtimes : Leads(r)' => (Leads(r) /\ mem'[r] = mem[r])
  BY <1>0 DEF Leads, CronConstants
<1>8. StandingKnown' /\ ScheduleOK'
  BY <1>0, <1>1, <1>5, <1>7, QuietKnown
<1>9. Accounted'
  BY <1>0 DEF Accounted, Outstanding
<1> QED
  BY <1>1, <1>2, <1>3, <1>6, <1>8, <1>9

(* A runtime goes on, or ends: its queue is kept or given up, and only the  *)
(* leader goes on to tick or to dispatch.                                   *)
LEMMA RuntimeMoves ==
  ASSUME CronConstants, CronInv, NEW r \in Runtimes, NEW place \in CronSteps,
         UNCHANGED <<clock, paused, disk, injected, decided>>,
         leader' = leader \/ (leader' = Nobody /\ leader = r),
         loop' = [loop EXCEPT ![r] = place],
         \/ pending' = pending
         \/ pending' = [pending EXCEPT ![r] = <<>>],
         \/ current' = current
         \/ current' = [current EXCEPT ![r] = NoDecision],
         \/ mem' = mem
         \/ mem' = [mem EXCEPT ![r] = disk],
         place \in {"down", "tick"} => pending'[r] = <<>>,
         place \in {"tick", "dispatch"} => loop[r] = "loop" /\ leader = r /\ UNCHANGED <<mem, leader>>,
         place = "dispatch" => pending'[r] # <<>>,
         (place \in {"cascade", "record"}) <=> (current'[r] # NoDecision),
         (mem' = mem /\ loop[r] # "down") \/ (mem' = [mem EXCEPT ![r] = disk] /\ place = "loop"),
         cut \subseteq cut', results \subseteq results',
         \A d \in Outstanding(r) : d \in Outstanding(r)' \/ d \in cut' \/ d \in results'
  PROVE  CronInv'
<1> USE DEF CronInv
<1>a. /\ <<>> \in Seq(DecisionSet)
      /\ pending \in [Runtimes -> Seq(DecisionSet)] /\ mem \in [Runtimes -> [Jobs -> Nat]]
      /\ current \in [Runtimes -> DecisionSet \cup {NoDecision}]
      /\ loop \in [Runtimes -> CronSteps] /\ disk \in [Jobs -> Nat] /\ clock \in Nat
  BY DEF CronTypeOK
<1>b. /\ loop' \in [Runtimes -> CronSteps] /\ pending' \in [Runtimes -> Seq(DecisionSet)]
      /\ current' \in [Runtimes -> DecisionSet \cup {NoDecision}]
      /\ mem' \in [Runtimes -> [Jobs -> Nat]]
  BY <1>a
<1>c. \A q \in Runtimes : q # r => /\ loop'[q] = loop[q] /\ pending'[q] = pending[q]
                                  /\ current'[q] = current[q] /\ mem'[q] = mem[q]
  BY <1>a
<1>d. /\ loop'[r] = place /\ pending'[r] \in {pending[r], <<>>}
      /\ mem'[r] = mem[r] \/ (mem'[r] = disk /\ place = "loop")
  BY <1>a
<1>1. CronTypeOK'
  BY <1>b DEF CronTypeOK
<1>2. PlacesOK'
  <2>1. \A q \in Runtimes : q # r =>
          /\ loop'[q] \in {"down", "tick"} => pending'[q] = <<>>
          /\ loop'[q] = "dispatch" => pending'[q] # <<>>
          /\ (loop'[q] \in {"cascade", "record"}) <=> (current'[q] # NoDecision)
    BY <1>c DEF PlacesOK
  <2>2. /\ loop'[r] \in {"down", "tick"} => pending'[r] = <<>>
        /\ loop'[r] = "dispatch" => pending'[r] # <<>>
        /\ (loop'[r] \in {"cascade", "record"}) <=> (current'[r] # NoDecision)
    BY <1>d
  <2>3. NoDecision' = NoDecision
    BY DEF NoDecision
  <2> QED
    BY <2>1, <2>2, <2>3 DEF PlacesOK
<1>3. ClockOK'
  BY <1>c, <1>d DEF ClockOK
<1>4. \A q \in Runtimes : (MayInject(q)' /\ pending'[q] # <<>>) =>
                               MayInject(q) /\ pending'[q] = pending[q]
  BY <1>c, <1>d DEF MayInject, CronConstants
<1>5. \A d : Stands(d)' => Stands(d)
  BY <1>4, QuietStands
<1>6. OccurrenceOnce' /\ QueuesApart'
  BY <1>4, <1>5, QuietApart
<1>7. \A q \in Runtimes : Leads(q)' => (Leads(q) /\ mem'[q] = mem[q]) \/ mem'[q] = disk
  BY <1>a, <1>c, <1>d DEF Leads, CronConstants
<1>8. \A q \in Runtimes : loop'[q] = "tick" => (loop[q] = "tick" \/ Leads(q)) /\ mem'[q] = mem[q]
  BY <1>c, <1>d DEF Leads
<1>9. StandingKnown' /\ ScheduleOK'
  BY <1>1, <1>5, <1>7, <1>8, QuietKnown
<1>10. Accounted'
  <2>1. \A q \in Runtimes : q # r => Outstanding(q)' = Outstanding(q)
    BY <1>c DEF Outstanding, NoDecision
  <2> QED
    BY <2>1, AccountedKept
<1> QED
  BY <1>1, <1>2, <1>3, <1>6, <1>9, <1>10

(* A runtime that ends leaves what it had in hand among the decisions cut   *)
(* off.                                                                     *)
LEMMA EndStep ==
  ASSUME CronConstants, CronInv, NEW r \in Runtimes, loop[r] # "down", End(r),
         UNCHANGED <<environment, disk, mem, results, injected, decided>>
  PROVE  CronInv'
<1>1. current'[r] = NoDecision /\ pending'[r] = <<>>
  BY DEF End, CronInv, CronTypeOK
<1>2. "down" \in CronSteps
  BY DEF CronSteps
<1> QED
  BY <1>1, <1>2, RuntimeMoves DEF End, environment

(* The check of the leadership that lets the leader go on.                  *)
LEMMA CheckedStep ==
  ASSUME CronConstants, CronInv, NEW r \in Runtimes, NEW place \in {"tick", "dispatch", "record"},
         Checked(r, place), loop[r] # "down",
         place = "tick" => loop[r] = "loop" /\ pending[r] = <<>>,
         place = "dispatch" => loop[r] = "loop" /\ pending[r] # <<>>,
         place = "record" => loop[r] = "cascade",
         UNCHANGED <<environment, disk, mem, results, injected, decided>>
  PROVE  CronInv'
<1>1. CASE leader = r
  <2>1. loop' = [loop EXCEPT ![r] = place] /\ UNCHANGED <<pending, current, cut>> /\ leader' = leader
    BY <1>1 DEF Checked, environment
  <2>2. place \in CronSteps
    BY DEF CronSteps
  <2>3. Outstanding(r)' = Outstanding(r)
    BY <2>1 DEF Outstanding, NoDecision
  <2>4. (place \in {"cascade", "record"}) <=> (current'[r] # NoDecision)
    <3>1. (loop[r] \in {"cascade", "record"}) <=> (current[r] # NoDecision)
      BY DEF CronInv, PlacesOK
    <3> QED
      BY <3>1, <2>1
  <2> QED
    BY <1>1, <2>1, <2>2, <2>3, <2>4, RuntimeMoves DEF environment
<1>2. CASE leader # r
  BY <1>2, EndStep DEF Checked
<1> QED
  BY <1>1, <1>2

LEMMA OpenStep ==
  ASSUME CronConstants, CronInv, NEW r \in Runtimes, Open(r)
  PROVE  CronInv'
<1>1. "loop" \in CronSteps
  BY DEF CronSteps
<1>2. Outstanding(r)' = Outstanding(r)
  BY DEF Open, Outstanding, NoDecision
<1>3. current[r] = NoDecision
  BY DEF Open, CronInv, PlacesOK
<1> QED
  BY <1>1, <1>2, <1>3, RuntimeMoves DEF Open, environment

LEMMA RecordStep ==
  ASSUME CronConstants, CronInv, NEW r \in Runtimes, RecordResult(r)
  PROVE  CronInv'
<1>1. "loop" \in CronSteps
  BY DEF CronSteps
<1>2. current'[r] = NoDecision /\ pending' = pending
  BY DEF RecordResult, CronInv, CronTypeOK
<1>3. \A d \in Outstanding(r) : d \in Outstanding(r)' \/ d \in cut' \/ d \in results'
  BY <1>2 DEF RecordResult, Outstanding
<1>4. cut \subseteq cut' /\ results \subseteq results'
  BY DEF RecordResult
<1> QED
  BY <1>1, <1>2, <1>3, <1>4, RuntimeMoves DEF RecordResult, environment

LEMMA StopStep ==
  ASSUME CronConstants, CronInv, NEW r \in Runtimes, Stop(r)
  PROVE  CronInv'
<1>1. "down" \in CronSteps
  BY DEF CronSteps
<1>2. pending'[r] = <<>> /\ current' = current /\ current[r] = NoDecision
  BY DEF Stop, CronInv, CronTypeOK, PlacesOK
<1>3. \A d \in Outstanding(r) : d \in Outstanding(r)' \/ d \in cut' \/ d \in results'
  BY <1>2 DEF Stop, Outstanding
<1>4. cut \subseteq cut' /\ results \subseteq results'
  BY DEF Stop
<1> QED
  BY <1>1, <1>2, <1>3, <1>4, RuntimeMoves DEF Stop

(* The job at the head of a queue that stands enters the room.              *)
LEMMA InjectStep ==
  ASSUME CronConstants, CronInv, NEW r \in Runtimes, Inject(r)
  PROVE  CronInv'
<1> USE DEF CronInv
<1> DEFINE h == Head(pending[r])
           n == Len(injected)
<1>a. /\ pending \in [Runtimes -> Seq(DecisionSet)] /\ injected \in Seq(DecisionSet)
      /\ current \in [Runtimes -> DecisionSet \cup {NoDecision}] /\ loop \in [Runtimes -> CronSteps]
      /\ mem \in [Runtimes -> [Jobs -> Nat]] /\ disk \in [Jobs -> Nat]
  BY DEF CronTypeOK
<1>b. loop[r] = "dispatch" /\ pending[r] # <<>> /\ pending[r] \in Seq(DecisionSet) /\ MayInject(r)
  BY <1>a DEF Inject, PlacesOK, MayInject
<1>c. /\ h \in DecisionSet /\ Tail(pending[r]) \in Seq(DecisionSet) /\ 1 \in DOMAIN pending[r]
      /\ h = pending[r][1]
      /\ ToSet(pending[r]) = {h} \cup ToSet(Tail(pending[r]))
      /\ \A i \in DOMAIN Tail(pending[r]) :
            /\ i + 1 \in DOMAIN pending[r] /\ i + 1 # 1
            /\ Tail(pending[r])[i] = pending[r][i + 1]
  BY <1>b, QueueFacts
<1>d. /\ UNCHANGED <<clock, leader, paused, disk, mem, results, decided, cut>>
      /\ loop' = [loop EXCEPT ![r] = "cascade"] /\ current' = [current EXCEPT ![r] = h]
      /\ pending' = [pending EXCEPT ![r] = Tail(pending[r])]
      /\ injected' = Append(injected, h)
  BY DEF Inject, environment
<1>e. /\ injected' \in Seq(DecisionSet) /\ n \in Nat
      /\ DOMAIN injected = 1 .. n /\ DOMAIN injected' = 1 .. (n + 1)
      /\ injected'[n + 1] = h
      /\ \A k \in 1 .. n : injected'[k] = injected[k]
  BY <1>a, <1>c, <1>d
<1> HIDE DEF h, n
<1>f. /\ \A q \in Runtimes : q # r => /\ loop'[q] = loop[q] /\ pending'[q] = pending[q]
                                     /\ current'[q] = current[q]
      /\ loop'[r] = "cascade" /\ pending'[r] = Tail(pending[r]) /\ current'[r] = h
  BY <1>a, <1>d
<1>g. h # NoDecision
  BY <1>c, DecisionIsSome
<1>1. CronTypeOK'
  BY <1>a, <1>c, <1>d, <1>e DEF CronTypeOK, CronSteps
<1>2. PlacesOK'
  BY <1>f, <1>g DEF PlacesOK, NoDecision
<1>3. ClockOK'
  BY <1>d DEF ClockOK
<1>4. \A q \in Runtimes : MayInject(q)' => MayInject(q)
  BY <1>b, <1>d, <1>f DEF MayInject
<1>5. \A q \in Runtimes : \A i \in DOMAIN pending'[q] :
        \E k \in DOMAIN pending[q] : /\ pending[q][k] = pending'[q][i]
                                     /\ <<q, k>> # <<r, 1>>
                                     /\ k = IF q = r THEN i + 1 ELSE i
  BY <1>c, <1>f
<1>6. \A d : Stands(d)' => Stands(d)
  <2> SUFFICES ASSUME NEW d, Stands(d)'
               PROVE  Stands(d)
    OBVIOUS
  <2>1. CASE \E k \in DOMAIN injected' : injected'[k] = d
    BY <2>1, <1>b, <1>c, <1>e DEF Stands
  <2>2. CASE \E q \in Runtimes : MayInject(q)' /\ \E i \in DOMAIN pending'[q] : pending'[q][i] = d
    BY <2>2, <1>4, <1>5 DEF Stands
  <2> QED
    BY <2>1, <2>2 DEF Stands
<1>7. \A q \in Runtimes : MayInject(q)' => \A i \in DOMAIN pending'[q] : Apart(pending'[q][i], h)
  BY <1>4, <1>5, <1>b, <1>c DEF QueuesApart
<1>8. \A k \in DOMAIN injected : Apart(h, injected[k])
  BY <1>b, <1>c DEF QueuesApart
<1>9. OccurrenceOnce'
  BY <1>e, <1>8 DEF OccurrenceOnce, Apart
<1>10. QueuesApart'
  <2> SUFFICES ASSUME NEW q \in Runtimes, MayInject(q)', NEW i \in DOMAIN pending'[q]
               PROVE  /\ \A k \in DOMAIN injected' : Apart(pending'[q][i], injected'[k])
                      /\ \A p \in Runtimes : MayInject(p)' => \A k \in DOMAIN pending'[p] :
                           <<q, i>> # <<p, k>> => Apart(pending'[q][i], pending'[p][k])
    BY DEF QueuesApart, Apart
  <2>1. PICK l \in DOMAIN pending[q] : /\ pending[q][l] = pending'[q][i]
                                      /\ l = IF q = r THEN i + 1 ELSE i
    BY <1>5
  <2>2. \A k \in DOMAIN injected' : Apart(pending'[q][i], injected'[k])
    BY <2>1, <1>4, <1>7, <1>e DEF QueuesApart
  <2>3. ASSUME NEW p \in Runtimes, MayInject(p)', NEW k \in DOMAIN pending'[p], <<q, i>> # <<p, k>>
        PROVE  Apart(pending'[q][i], pending'[p][k])
    <3>1. PICK m \in DOMAIN pending[p] : /\ pending[p][m] = pending'[p][k]
                                        /\ m = IF p = r THEN k + 1 ELSE k
      BY <1>5
    <3>2. DOMAIN pending'[q] \subseteq Nat /\ DOMAIN pending'[p] \subseteq Nat
      <4>1. pending'[q] \in Seq(DecisionSet) /\ pending'[p] \in Seq(DecisionSet)
        BY <1>1 DEF CronTypeOK
      <4> QED
        BY <4>1
    <3>3. <<q, l>> # <<p, m>>
      BY <2>1, <3>1, <2>3, <3>2
    <3> QED
      BY <2>1, <3>1, <3>3, <2>3, <1>4 DEF QueuesApart
  <2> QED
    BY <2>2, <2>3
<1>11. StandingKnown' /\ ScheduleOK'
  <2>1. \A q \in Runtimes : Leads(q)' => Leads(q) /\ mem'[q] = mem[q]
    BY <1>b, <1>d, <1>f DEF Leads
  <2>2. \A q \in Runtimes : loop'[q] = "tick" => loop[q] = "tick" /\ mem'[q] = mem[q]
    BY <1>d, <1>f
  <2> QED
    BY <1>1, <1>6, <1>d, <2>1, <2>2, QuietKnown
<1>12. Accounted'
  <2>1. \A q \in Runtimes : q # r => Outstanding(q)' = Outstanding(q)
    BY <1>f DEF Outstanding, NoDecision
  <2>2. current[r] = NoDecision
    BY <1>b DEF PlacesOK
  <2>3. \A d \in Outstanding(r) : d \in Outstanding(r)'
    BY <2>2, <1>c, <1>f, <1>g DEF Outstanding, NoDecision
  <2> QED
    BY <2>1, <2>3, <1>d, AccountedKept
<1> QED
  BY <1>1, <1>2, <1>3, <1>9, <1>10, <1>11, <1>12

(* What tick writes: the schedule it names is not behind any time so far.   *)
LEMMA AdvancedFacts ==
  ASSUME CronConstants, CronTypeOK, ClockOK, NEW r \in Runtimes, NEW j \in Jobs
  PROVE  /\ Advanced(r)[j] \in Nat /\ mem[r][j] <= Advanced(r)[j] /\ Advanced(r)[j] <= clock
         /\ j \in Due(r) => /\ Advanced(r)[j] = clock /\ mem[r][j] < clock
                           /\ NextAfter(j, mem[r][j]) < NextAfter(j, clock)
         /\ \A t \in Nat : t <= clock => NextAfter(j, t) <= NextAfter(j, Advanced(r)[j])
         /\ \A t \in Nat : (t <= clock /\ NextAfter(j, mem[r][j]) < NextAfter(j, t)) =>
              t <= Advanced(r)[j]
<1>1. mem[r][j] \in Nat /\ clock \in Nat /\ mem[r][j] <= clock
  BY DEF CronTypeOK, ClockOK
<1>2. /\ Advanced(r)[j] = IF j \in Due(r) THEN clock ELSE mem[r][j]
      /\ j \in Due(r) <=> NextAfter(j, mem[r][j]) <= clock
  BY DEF Advanced, Due, IsDue
<1>3. /\ NextAfter(j, mem[r][j]) \in Nat /\ mem[r][j] < NextAfter(j, mem[r][j])
      /\ NextAfter(j, clock) \in Nat /\ clock < NextAfter(j, clock)
      /\ clock < NextAfter(j, mem[r][j]) => NextAfter(j, clock) = NextAfter(j, mem[r][j])
  BY <1>1, NextAfterFacts
<1>4. \A t \in Nat : t <= clock => NextAfter(j, t) \in Nat /\ NextAfter(j, t) <= NextAfter(j, clock)
  BY <1>1, NextAfterFacts
<1>5. CASE j \in Due(r)
  BY <1>1, <1>2, <1>3, <1>4, <1>5
<1>6. CASE j \notin Due(r)
  BY <1>1, <1>2, <1>3, <1>4, <1>6
<1> QED
  BY <1>5, <1>6

(* The decisions of a tick, in whatever order they are handed out.          *)
LEMMA OrderFacts ==
  ASSUME CronConstants, CronTypeOK, ClockOK, NEW r \in Runtimes,
         NEW order \in SetToSeqs({Decision(r, j) : j \in Due(r)})
  PROVE  /\ order \in Seq(DecisionSet)
         /\ \A i \in DOMAIN order : \E j \in Due(r) : order[i] = Decision(r, j)
         /\ \A i, k \in DOMAIN order : i # k => order[i].job # order[k].job
<1> DEFINE S == {Decision(r, j) : j \in Due(r)}
           n == Cardinality(S)
<1>1. \A j \in Due(r) : Decision(r, j) \in DecisionSet /\ j \in Jobs
  <2> SUFFICES ASSUME NEW j \in Due(r)
               PROVE  Decision(r, j) \in DecisionSet /\ j \in Jobs
    OBVIOUS
  <2>1. j \in Jobs
    BY DEF Due
  <2>2. mem[r][j] \in Nat /\ clock \in Nat /\ mem[r][j] < clock
    BY <2>1, AdvancedFacts DEF CronTypeOK
  <2> QED
    BY <2>1, <2>2 DEF Decision, DecisionSet
<1>2. n \in Nat
  <2>1. IsFiniteSet(Due(r))
    BY FS_Subset DEF CronConstants, Due
  <2>2. IsFiniteSet(S)
    <3> DEFINE f == [j \in Due(r) |-> Decision(r, j)]
    <3>1. f \in Surjection(Due(r), S)
      BY DEF Surjection
    <3> QED
      BY <2>1, <3>1, FS_Surjection
  <2> QED
    BY <2>2, FS_CardinalityType
<1>3. order \in [1 .. n -> S] /\ \A i, k \in 1 .. n : i # k => order[i] # order[k]
  BY DEF SetToSeqs
<1> HIDE DEF n
<1>4. order \in Seq(DecisionSet)
  BY <1>1, <1>2, <1>3
<1>5. \A i \in DOMAIN order : \E j \in Due(r) : order[i] = Decision(r, j)
  BY <1>3
<1>6. ASSUME NEW i \in DOMAIN order, NEW k \in DOMAIN order, order[i].job = order[k].job
      PROVE  order[i] = order[k]
  <2>1. PICK a \in Due(r) : order[i] = Decision(r, a)
    BY <1>5
  <2>2. PICK b \in Due(r) : order[k] = Decision(r, b)
    BY <1>5
  <2>3. a = b
    BY <2>1, <2>2, <1>6 DEF Decision
  <2> QED
    BY <2>1, <2>2, <2>3
<1> QED
  BY <1>3, <1>4, <1>5, <1>6

(* A tick that hands out jobs.  One of the leader adds decisions that begin *)
(* where the ones that stand end; one of a runtime that no longer leads     *)
(* adds none that stands, and what it writes over the file of its successor *)
(* is not behind any of them.                                               *)
LEMMA HandOutStep ==
  ASSUME CronConstants, CronInv, NEW r \in Runtimes, loop[r] = "tick",
         NEW order \in SetToSeqs({Decision(r, j) : j \in Due(r)}),
         loop' = [loop EXCEPT ![r] = "loop"], mem' = [mem EXCEPT ![r] = Advanced(r)],
         disk' = Advanced(r), pending' = [pending EXCEPT ![r] = order],
         decided' = decided \cup ToSet(order),
         UNCHANGED <<clock, leader, paused, current, results, injected, cut>>
  PROVE  CronInv'
<1> USE DEF CronInv
<1>a. /\ pending \in [Runtimes -> Seq(DecisionSet)] /\ loop \in [Runtimes -> CronSteps]
      /\ mem \in [Runtimes -> [Jobs -> Nat]] /\ disk \in [Jobs -> Nat] /\ clock \in Nat
  BY DEF CronTypeOK
<1>b. /\ order \in Seq(DecisionSet)
      /\ \A i \in DOMAIN order : \E j \in Due(r) : order[i] = Decision(r, j)
      /\ \A i, k \in DOMAIN order : i # k => order[i].job # order[k].job
  BY OrderFacts
<1> DEFINE adv == Advanced(r)
<1>c. adv \in [Jobs -> Nat]
  <2>1. \A j \in Jobs : adv[j] \in Nat
    BY AdvancedFacts
  <2>2. adv = [j \in Jobs |-> adv[j]]
    BY DEF Advanced
  <2> QED
    BY <2>1, <2>2
<1>d. \A j \in Jobs :
        /\ mem[r][j] <= adv[j] /\ adv[j] <= clock
        /\ j \in Due(r) => /\ adv[j] = clock /\ mem[r][j] < clock
                          /\ NextAfter(j, mem[r][j]) < NextAfter(j, clock)
        /\ \A t \in Nat : t <= clock => NextAfter(j, t) <= NextAfter(j, adv[j])
        /\ \A t \in Nat : (t <= clock /\ NextAfter(j, mem[r][j]) < NextAfter(j, t)) => t <= adv[j]
  BY AdvancedFacts
<1> HIDE DEF adv
<1>e. /\ disk' = adv
      /\ loop'[r] = "loop" /\ mem'[r] = adv /\ pending'[r] = order
      /\ \A q \in Runtimes : q # r =>
           loop'[q] = loop[q] /\ mem'[q] = mem[q] /\ pending'[q] = pending[q]
  BY <1>a DEF adv
<1>1. CronTypeOK'
  BY <1>a, <1>b, <1>c, <1>e DEF CronTypeOK, CronSteps, adv
<1>2. PlacesOK'
  BY <1>e DEF PlacesOK, NoDecision
<1>3. ClockOK'
  BY <1>d, <1>e DEF ClockOK
<1>4. /\ \A q \in Runtimes : q # r => MayInject(q)' = MayInject(q) /\ Leads(q)' = Leads(q)
      /\ MayInject(r)' => Leads(r)
      /\ Leads(r)' => Leads(r)
  BY <1>e DEF MayInject, Leads
<1>5. \A i \in DOMAIN order : /\ order[i] \in DecisionSet /\ order[i].job \in Due(r)
                              /\ order[i].job \in Jobs
                              /\ order[i].from = mem[r][order[i].job] /\ order[i].to = clock
  <2> SUFFICES ASSUME NEW i \in DOMAIN order
               PROVE  /\ order[i] \in DecisionSet /\ order[i].job \in Due(r)
                      /\ order[i].job \in Jobs
                      /\ order[i].from = mem[r][order[i].job] /\ order[i].to = clock
    OBVIOUS
  <2>1. PICK j \in Due(r) : order[i] = Decision(r, j)
    BY <1>b
  <2> QED
    BY <1>b, <2>1 DEF Decision, Due
<1>6. \A d : Stands(d)' => Stands(d) \/ (Leads(r) /\ \E i \in DOMAIN order : d = order[i])
  BY <1>4, <1>e DEF Stands
<1>7. \A d \in DecisionSet : d.job \in Jobs /\ d.to \in Nat /\ d.from \in Nat /\ d.from < d.to
  BY DEF DecisionSet
<1>8. ASSUME Leads(r), NEW d \in DecisionSet, Stands(d), NEW i \in DOMAIN order
      PROVE  Apart(order[i], d) /\ Apart(d, order[i])
  BY <1>5, <1>7, <1>8 DEF StandingKnown, Apart
<1>9. OccurrenceOnce'
  BY DEF OccurrenceOnce
<1>10. QueuesApart'
  <2>0. \A q \in Runtimes : \A i \in DOMAIN pending[q] : pending[q][i] \in DecisionSet
    <3>1. \A q \in Runtimes : pending[q] \in Seq(DecisionSet)
      BY <1>a
    <3> QED
      BY <3>1
  <2>00. \A k \in DOMAIN injected : injected[k] \in DecisionSet
    BY DEF CronTypeOK
  <2> SUFFICES ASSUME NEW q \in Runtimes, MayInject(q)', NEW i \in DOMAIN pending'[q]
               PROVE  /\ \A k \in DOMAIN injected : Apart(pending'[q][i], injected[k])
                      /\ \A p \in Runtimes : MayInject(p)' => \A k \in DOMAIN pending'[p] :
                           <<q, i>> # <<p, k>> => Apart(pending'[q][i], pending'[p][k])
    BY DEF QueuesApart, Apart
  <2>1. \A k \in DOMAIN injected : Apart(pending'[q][i], injected[k])
    <3>1. CASE q = r
      BY <3>1, <2>00, <1>e, <1>4, <1>8 DEF Stands
    <3>2. CASE q # r
      BY <3>2, <1>e, <1>4 DEF QueuesApart
    <3> QED
      BY <3>1, <3>2
  <2>2. ASSUME NEW p \in Runtimes, MayInject(p)', NEW k \in DOMAIN pending'[p], <<q, i>> # <<p, k>>
        PROVE  Apart(pending'[q][i], pending'[p][k])
    <3>1. CASE q = r /\ p = r
      BY <3>1, <2>2, <1>b, <1>e DEF Apart
    <3>2. CASE q = r /\ p # r
      <4>1. MayInject(p) /\ pending'[p] = pending[p] /\ Stands(pending[p][k])
        BY <3>2, <2>2, <1>e, <1>4 DEF Stands
      <4> QED
        BY <4>1, <3>2, <2>0, <1>e, <1>4, <1>8
    <3>3. CASE q # r /\ p = r
      <4>1. MayInject(q) /\ pending'[q] = pending[q] /\ Stands(pending[q][i])
        BY <3>3, <2>2, <1>e, <1>4 DEF Stands
      <4> QED
        BY <4>1, <3>3, <2>0, <2>2, <1>e, <1>4, <1>8
    <3>4. CASE q # r /\ p # r
      BY <3>4, <2>2, <1>e, <1>4 DEF QueuesApart
    <3> QED
      BY <3>1, <3>2, <3>3, <3>4
  <2> QED
    BY <2>1, <2>2
<1>11. StandingKnown'
  <2> SUFFICES ASSUME NEW d \in DecisionSet, Stands(d)'
               PROVE  /\ d.to <= adv[d.job]
                      /\ \A q \in Runtimes :
                           /\ Leads(q)' => d.to <= mem'[q][d.job]
                           /\ loop'[q] = "tick" =>
                                \/ d.to <= mem'[q][d.job]
                                \/ NextAfter(d.job, mem'[q][d.job]) < NextAfter(d.job, d.to)
    BY <1>e DEF StandingKnown, NextAfter
  <2>0. d.job \in Jobs /\ d.to \in Nat /\ adv[d.job] \in Nat /\ mem[r][d.job] \in Nat
    BY <1>7, <1>c, <1>a
  <2>1. CASE Stands(d)
    <3>1. d.to <= disk[d.job] /\ disk[d.job] \in Nat /\ disk[d.job] <= clock
      BY <2>1, <2>0, <1>a DEF StandingKnown, ClockOK
    <3>2. \/ d.to <= mem[r][d.job]
          \/ NextAfter(d.job, mem[r][d.job]) < NextAfter(d.job, d.to)
      BY <2>1 DEF StandingKnown
    <3>3. d.to <= adv[d.job]
      BY <2>0, <3>1, <3>2, <1>a, <1>d
    <3> QED
      BY <2>1, <3>3, <1>4, <1>e DEF StandingKnown
  <2>2. CASE Leads(r) /\ \E i \in DOMAIN order : d = order[i]
    <3>1. d.job \in Due(r) /\ d.to = clock /\ adv[d.job] = clock
      BY <2>2, <1>5, <1>d
    <3>2. \A q \in Runtimes : Leads(q)' => q = r
      BY <2>2, <1>4 DEF Leads
    <3>3. ASSUME NEW q \in Runtimes, loop'[q] = "tick"
          PROVE  NextAfter(d.job, mem'[q][d.job]) < NextAfter(d.job, d.to)
      <4>1. q # r /\ loop[q] = "tick" /\ mem'[q] = mem[q]
        BY <3>3, <1>e
      <4>2. NextAfter(d.job, mem[q][d.job]) <= NextAfter(d.job, mem[r][d.job])
        BY <4>1, <2>2, <2>0 DEF ScheduleOK
      <4>3. NextAfter(d.job, mem[r][d.job]) < NextAfter(d.job, clock)
        BY <3>1, <2>0, <1>d
      <4>4. /\ NextAfter(d.job, mem[q][d.job]) \in Nat /\ NextAfter(d.job, clock) \in Nat
            /\ NextAfter(d.job, mem[r][d.job]) \in Nat
        <5>1. mem[q][d.job] \in Nat
          BY <2>0, <1>a
        <5> QED
          BY <5>1, <2>0, <1>a, NextAfterFacts
      <4> QED
        BY <4>1, <4>2, <4>3, <4>4, <3>1
    <3> QED
      BY <3>1, <3>2, <3>3, <1>e, <1>a
  <2> QED
    BY <1>6, <2>1, <2>2
<1>12. ScheduleOK'
  <2>0. \A j \in Jobs, q \in Runtimes : mem'[q][j] \in Nat /\ mem'[q][j] <= clock
    BY <1>1, <1>3 DEF CronTypeOK, ClockOK
  <2> SUFFICES ASSUME NEW j \in Jobs, NEW p \in Runtimes
               PROVE  /\ NextAfter(j, mem'[p][j]) <= NextAfter(j, adv[j])
                      /\ \A q \in Runtimes : (Leads(q)' /\ loop'[p] = "tick") =>
                           NextAfter(j, mem'[p][j]) <= NextAfter(j, mem'[q][j])
    BY <1>e DEF ScheduleOK, NextAfter
  <2>1. NextAfter(j, mem'[p][j]) <= NextAfter(j, adv[j])
    BY <2>0, <1>d
  <2>2. ASSUME NEW q \in Runtimes, Leads(q)', loop'[p] = "tick"
        PROVE  NextAfter(j, mem'[p][j]) <= NextAfter(j, mem'[q][j])
    <3>1. p # r /\ loop[p] = "tick" /\ mem'[p] = mem[p]
      BY <2>2, <1>e
    <3>2. CASE q = r
      BY <3>2, <2>1, <1>e
    <3>3. CASE q # r
      BY <3>1, <3>3, <2>2, <1>4, <1>e DEF ScheduleOK
    <3> QED
      BY <3>2, <3>3
  <2> QED
    BY <2>1, <2>2
<1>13. Accounted'
  <2>1. \A q \in Runtimes : q # r => Outstanding(q)' = Outstanding(q)
    BY <1>e DEF Outstanding, NoDecision
  <2>2. pending[r] = <<>> /\ current[r] = NoDecision
    BY DEF PlacesOK
  <2>3. Outstanding(r) = {}
    BY <2>2 DEF Outstanding, ToSet
  <2>4. ToSet(order) \subseteq Outstanding(r)'
    BY <1>e DEF Outstanding
  <2> QED
    BY <2>1, <2>3, <2>4 DEF Accounted
<1> QED
  BY <1>1, <1>2, <1>3, <1>9, <1>10, <1>11, <1>12, <1>13

(* A save that fails after the file was replaced: nothing is handed out, and *)
(* what it wrote is not behind any decision nor any view that was loaded.    *)
LEMMA UnsavedStep ==
  ASSUME CronConstants, CronInv, NEW r \in Runtimes, loop[r] = "tick",
         loop' = [loop EXCEPT ![r] = "loop"], disk' = Advanced(r),
         UNCHANGED <<clock, leader, paused, mem, pending, current, results, injected, decided, cut>>
  PROVE  CronInv'
<1> USE DEF CronInv
<1>a. /\ loop \in [Runtimes -> CronSteps] /\ mem \in [Runtimes -> [Jobs -> Nat]]
      /\ disk \in [Jobs -> Nat] /\ clock \in Nat
  BY DEF CronTypeOK
<1> DEFINE adv == Advanced(r)
<1>b. adv \in [Jobs -> Nat]
  <2>1. \A j \in Jobs : adv[j] \in Nat
    BY AdvancedFacts
  <2>2. adv = [j \in Jobs |-> adv[j]]
    BY DEF Advanced
  <2> QED
    BY <2>1, <2>2
<1>c. \A j \in Jobs :
        /\ mem[r][j] <= adv[j] /\ adv[j] <= clock
        /\ \A t \in Nat : t <= clock => NextAfter(j, t) <= NextAfter(j, adv[j])
        /\ \A t \in Nat : (t <= clock /\ NextAfter(j, mem[r][j]) < NextAfter(j, t)) => t <= adv[j]
  BY AdvancedFacts
<1> HIDE DEF adv
<1>d. disk' = adv /\ loop'[r] = "loop" /\ \A q \in Runtimes : q # r => loop'[q] = loop[q]
  BY <1>a DEF adv
<1>e. \A q \in Runtimes : /\ MayInject(q)' = MayInject(q) /\ Leads(q)' = Leads(q)
                          /\ loop'[q] = "tick" => loop[q] = "tick"
  BY <1>d DEF MayInject, Leads
<1>1. CronTypeOK'
  BY <1>a, <1>b, <1>d DEF CronTypeOK, CronSteps
<1>2. PlacesOK'
  BY <1>d DEF PlacesOK, NoDecision
<1>3. ClockOK'
  BY <1>c, <1>d DEF ClockOK
<1>4. \A d : Stands(d)' => Stands(d)
  BY <1>e DEF Stands
<1>5. OccurrenceOnce' /\ QueuesApart'
  BY <1>e, <1>4, QuietApart
<1>6. StandingKnown'
  <2> SUFFICES ASSUME NEW d \in DecisionSet, Stands(d)
               PROVE  /\ d.to <= adv[d.job]
                      /\ \A q \in Runtimes :
                           /\ Leads(q) => d.to <= mem[q][d.job]
                           /\ loop[q] = "tick" =>
                                \/ d.to <= mem[q][d.job]
                                \/ NextAfter(d.job, mem[q][d.job]) < NextAfter(d.job, d.to)
    BY <1>d, <1>e, <1>4 DEF StandingKnown, NextAfter
  <2>1. d.job \in Jobs /\ d.to \in Nat
    BY DEF DecisionSet
  <2>2. adv[d.job] \in Nat /\ mem[r][d.job] \in Nat /\ disk[d.job] \in Nat
    BY <1>a, <1>b, <2>1
  <2>3. d.to <= disk[d.job] /\ disk[d.job] <= clock
    BY <2>1 DEF StandingKnown, ClockOK
  <2>4. \/ d.to <= mem[r][d.job]
        \/ NextAfter(d.job, mem[r][d.job]) < NextAfter(d.job, d.to)
    BY DEF StandingKnown
  <2>5. d.to <= adv[d.job]
    BY <2>1, <2>2, <2>3, <2>4, <1>a, <1>c
  <2> QED
    BY <2>5 DEF StandingKnown
<1>7. ScheduleOK'
  <2> SUFFICES ASSUME NEW j \in Jobs, NEW p \in Runtimes
               PROVE  /\ NextAfter(j, mem[p][j]) <= NextAfter(j, adv[j])
                      /\ \A q \in Runtimes : (Leads(q) /\ loop[p] = "tick") =>
                           NextAfter(j, mem[p][j]) <= NextAfter(j, mem[q][j])
    BY <1>d, <1>e DEF ScheduleOK, NextAfter
  <2>1. mem[p][j] \in Nat /\ mem[p][j] <= clock
    BY <1>a DEF ClockOK
  <2>2. NextAfter(j, mem[p][j]) <= NextAfter(j, adv[j])
    BY <1>c, <2>1
  <2> QED
    BY <2>2 DEF ScheduleOK
<1>8. Accounted'
  BY DEF Accounted, Outstanding
<1> QED
  BY <1>1, <1>2, <1>3, <1>5, <1>6, <1>7, <1>8

LEMMA TickStep ==
  ASSUME CronConstants, CronInv, NEW r \in Runtimes, Tick(r)
  PROVE  CronInv'
<1>1. CASE UNCHANGED <<mem, disk, pending, decided>>
  <2>1. "loop" \in CronSteps
    BY DEF CronSteps
  <2>2. Outstanding(r)' = Outstanding(r)
    BY <1>1 DEF Tick, Outstanding, NoDecision
  <2>3. current[r] = NoDecision
    BY DEF Tick, CronInv, PlacesOK
  <2> QED
    BY <1>1, <2>1, <2>2, <2>3, RuntimeMoves DEF Tick, environment
<1>2. CASE /\ mem' = [mem EXCEPT ![r] = Advanced(r)] /\ disk' = Advanced(r)
           /\ \E order \in SetToSeqs({Decision(r, j) : j \in Due(r)}) :
                /\ pending' = [pending EXCEPT ![r] = order]
                /\ decided' = decided \cup ToSet(order)
  BY <1>2, HandOutStep DEF Tick, environment
<1>3. CASE UNCHANGED <<mem, pending, decided>> /\ disk' = Advanced(r)
  BY <1>3, UnsavedStep DEF Tick, environment
<1> QED
  BY <1>1, <1>2, <1>3 DEF Tick

(* Every step keeps the invariant.                                          *)
LEMMA CronStepInv ==
  ASSUME CronConstants, CronInv, [CronNext]_cronVars
  PROVE  CronInv'
<1>1. CASE UNCHANGED cronVars
  BY <1>1 DEF cronVars, environment, runtime, CronInv, CronTypeOK, PlacesOK, ClockOK, OccurrenceOnce,
              QueuesApart, StandingKnown, ScheduleOK, Accounted, Stands, MayInject, Leads, Apart,
              Outstanding, NoDecision, NextAfter
<1>2. CASE Clock \/ Pause \/ \E l \in Runtimes \cup {Nobody} : Lead(l)
  BY <1>2, SurroundingsStep
<1>3. ASSUME NEW r \in Runtimes, Work(r)
      PROVE  CronInv'
  <2>1. CASE Open(r)
    BY <2>1, OpenStep
  <2>2. CASE Poll(r)
    BY <2>2, CheckedStep DEF Poll
  <2>3. CASE Tick(r)
    BY <2>3, TickStep
  <2>4. CASE Begin(r)
    BY <2>4, CheckedStep DEF Begin
  <2>5. CASE Inject(r)
    BY <2>5, InjectStep
  <2>6. CASE Cascade(r)
    <3>1. CASE Checked(r, "record")
      BY <3>1, <2>6, CheckedStep DEF Cascade
    <3>2. CASE End(r)
      BY <3>2, <2>6, EndStep DEF Cascade
    <3> QED
      BY <3>1, <3>2, <2>6 DEF Cascade
  <2>7. CASE RecordResult(r)
    BY <2>7, RecordStep
  <2>8. CASE Revoked(r)
    BY <2>8, EndStep DEF Revoked
  <2> QED
    BY <1>3, <2>1, <2>2, <2>3, <2>4, <2>5, <2>6, <2>7, <2>8 DEF Work
<1>4. ASSUME NEW r \in Runtimes, Stop(r)
      PROVE  CronInv'
  BY <1>4, StopStep
<1>5. ASSUME NEW r \in Runtimes, RuntimeCrash(r)
      PROVE  CronInv'
  BY <1>5, EndStep DEF RuntimeCrash
<1> QED
  BY <1>1, <1>2, <1>3, <1>4, <1>5 DEF CronNext

LEMMA CronInitInv ==
  ASSUME CronConstants, CronInit
  PROVE  CronInv
<1>1. /\ clock \in Nat /\ leader = Nobody /\ disk = [j \in Jobs |-> 0]
      /\ mem = [r \in Runtimes |-> [j \in Jobs |-> 0]] /\ loop = [r \in Runtimes |-> "down"]
      /\ pending = [r \in Runtimes |-> <<>>] /\ current = [r \in Runtimes |-> NoDecision]
      /\ injected = <<>> /\ decided = {} /\ paused = FALSE
  BY DEF CronInit, NoRuns, CronConstants
<1>2. \A r \in Runtimes : ~MayInject(r) /\ ~Leads(r) /\ loop[r] # "tick"
  BY <1>1 DEF MayInject, Leads, CronConstants
<1>3. CronTypeOK
  <2>1. <<>> \in Seq(DecisionSet) /\ 0 \in Nat /\ "down" \in CronSteps
    BY DEF CronSteps
  <2> QED
    BY <1>1, <2>1 DEF CronTypeOK
<1>4. PlacesOK /\ ClockOK
  BY <1>1 DEF PlacesOK, ClockOK
<1>5. OccurrenceOnce /\ QueuesApart /\ Accounted
  BY <1>1, <1>2 DEF OccurrenceOnce, QueuesApart, Accounted
<1>6. \A d : ~Stands(d)
  BY <1>1, <1>2 DEF Stands
<1>7. StandingKnown /\ ScheduleOK
  BY <1>2, <1>6 DEF StandingKnown, ScheduleOK
<1> QED
  BY <1>3, <1>4, <1>5, <1>7 DEF CronInv

(* Scheduled jobs, for any number of runtimes, jobs and schedules: no time  *)
(* of a schedule is injected twice, whatever runtimes overlap on one        *)
(* directory (OccurrenceOnce); what was injected is in the file             *)
(* (DecidedOnDisk); and every decision is in hand, reported on or cut off   *)
(* by a fault (Accounted).                                                  *)
THEOREM CronSafetyTheorem ==
  ASSUME CronConstants
  PROVE  CronSpec => []CronSafety
<1>1. CronInit => CronInv
  BY CronInitInv
<1>2. CronInv /\ [CronNext]_cronVars => CronInv'
  BY CronStepInv
<1>3. CronInv => CronSafety
  <2> SUFFICES ASSUME CronInv
               PROVE  DecidedOnDisk
    BY DEF CronInv, CronSafety
  <2>1. \A i \in DOMAIN injected : injected[i] \in DecisionSet /\ Stands(injected[i])
    BY DEF CronInv, CronTypeOK, Stands
  <2>2. \A i \in DOMAIN injected : injected[i].to <= disk[injected[i].job]
    BY <2>1 DEF CronInv, StandingKnown
  <2>3. \A i \in DOMAIN injected : injected[i].to \in Nat /\ disk[injected[i].job] \in Nat
    BY <2>1 DEF CronInv, CronTypeOK, DecisionSet
  <2> QED
    BY <2>2, <2>3 DEF DecidedOnDisk
<1> QED
  BY <1>1, <1>2, <1>3, PTL DEF CronSpec

-----------------------------------------------------------------------------
(* The durable Axon bus: AxonSpec => []AxonSafety.                         *)

(* A finite set of numbers that is not empty has a greatest and a least     *)
(* element.                                                                 *)
LEMMA ExtremesExist ==
  ASSUME NEW S \in SUBSET Nat, IsFiniteSet(S), S # {}
  PROVE  /\ \E x \in S : \A y \in S : y <= x
         /\ \E x \in S : \A y \in S : x <= y
<1> DEFINE above(x) == {y \in S : x < y}
           below(x) == {y \in S : y < x}
           R == StrictSubsetOrdering(S)
           F == FiniteSubsetsOf(S)
<1>1. IsWellFoundedOn(R, F)
  BY FS_StrictSubsetOrderingWellFounded
<1>2. \A x \in S : above(x) \in F /\ below(x) \in F
  <2>1. \A x \in S : above(x) \in SUBSET S /\ below(x) \in SUBSET S
    OBVIOUS
  <2>2. \A T \in SUBSET S : IsFiniteSet(T)
    BY FS_Subset
  <2> QED
    BY <2>1, <2>2 DEF FiniteSubsetsOf
<1>3. \E x \in S : \A y \in S : y <= x
  <2> DEFINE A == {above(x) : x \in S}
  <2>1. A \subseteq F /\ A # {}
    BY <1>2
  <2>2. PICK m \in A : \A T \in A : <<T, m>> \notin R
    <3> HIDE DEF A, R, F
    <3> QED
      BY <1>1, <2>1, WFMin
  <2>3. PICK x \in S : m = above(x)
    OBVIOUS
  <2>4. above(x) = {}
    <3> SUFFICES ASSUME NEW z \in above(x)
                 PROVE  FALSE
      OBVIOUS
    <3>1. z \in S /\ x < z /\ x \in Nat /\ z \in Nat
      OBVIOUS
    <3>2. above(z) \subseteq above(x) /\ z \notin above(z)
      <4>1. ASSUME NEW y \in above(z)
            PROVE  y \in above(x)
        <5>1. y \in S /\ z < y /\ y \in Nat
          OBVIOUS
        <5> QED
          BY <5>1, <3>1
      <4>2. z \notin above(z)
        BY <3>1
      <4> QED
        BY <4>1, <4>2
    <3>3. <<above(z), above(x)>> \in R
      BY <3>1, <3>2, <1>2 DEF StrictSubsetOrdering
    <3> QED
      BY <3>1, <3>3, <2>2, <2>3
  <2>5. \A y \in S : y <= x
    BY <2>4
  <2> QED
    BY <2>5
<1>4. \E x \in S : \A y \in S : x <= y
  <2> DEFINE B == {below(x) : x \in S}
  <2>1. B \subseteq F /\ B # {}
    BY <1>2
  <2>2. PICK m \in B : \A T \in B : <<T, m>> \notin R
    <3> HIDE DEF B, R, F
    <3> QED
      BY <1>1, <2>1, WFMin
  <2>3. PICK x \in S : m = below(x)
    OBVIOUS
  <2>4. below(x) = {}
    <3> SUFFICES ASSUME NEW z \in below(x)
                 PROVE  FALSE
      OBVIOUS
    <3>1. z \in S /\ z < x /\ x \in Nat /\ z \in Nat
      OBVIOUS
    <3>2. below(z) \subseteq below(x) /\ z \notin below(z)
      <4>1. ASSUME NEW y \in below(z)
            PROVE  y \in below(x)
        <5>1. y \in S /\ y < z /\ y \in Nat
          OBVIOUS
        <5> QED
          BY <5>1, <3>1
      <4>2. z \notin below(z)
        BY <3>1
      <4> QED
        BY <4>1, <4>2
    <3>3. <<below(z), below(x)>> \in R
      BY <3>1, <3>2, <1>2 DEF StrictSubsetOrdering
    <3> QED
      BY <3>1, <3>3, <2>2, <2>3
  <2>5. \A y \in S : x <= y
    BY <2>4
  <2> QED
    BY <2>5
<1> QED
  BY <1>3, <1>4

(* The seqs of a finite set of rows have a greatest and a least one.        *)
LEMMA RowExtremes ==
  ASSUME NEW rs \in SUBSET Rows, IsFiniteSet(rs), rs # {}
  PROVE  /\ \E m \in rs : m.seq = Position(rs)
         /\ Position(rs) \in Nat
         /\ \A r \in rs : r.seq <= Position(rs)
         /\ \E m \in rs : \A r \in rs : m.seq <= r.seq
<1> DEFINE S == {r.seq : r \in rs}
           f == [r \in rs |-> r.seq]
<1>1. S \in SUBSET Nat /\ S # {}
  BY DEF Rows
<1>2. IsFiniteSet(S)
  <2>1. f \in Surjection(rs, S)
    BY DEF Surjection
  <2> QED
    BY <2>1, FS_Surjection
<1>3. /\ \E x \in S : \A y \in S : y <= x
      /\ \E x \in S : \A y \in S : x <= y
  <2> HIDE DEF S
  <2> QED
    BY <1>1, <1>2, ExtremesExist
<1>4. \E n \in S : \A r \in rs : r.seq <= n
  BY <1>3
<1>5. Position(rs) \in S /\ \A r \in rs : r.seq <= Position(rs)
  BY <1>4 DEF Position
<1> QED
  BY <1>1, <1>3, <1>5

(* A batch is a beginning of what is unread: a row that is not beyond its   *)
(* last one belongs to it.                                                  *)
LEMMA BatchFacts ==
  ASSUME AxonConstants, NEW U \in SUBSET Rows, IsFiniteSet(U), U # {}
  PROVE  /\ FirstRows(U) \subseteq U /\ FirstRows(U) # {}
         /\ Position(FirstRows(U)) \in Nat
         /\ \E m \in FirstRows(U) : m.seq = Position(FirstRows(U))
         /\ \A r \in FirstRows(U) : r.seq <= Position(FirstRows(U))
         /\ \A r \in U : r.seq <= Position(FirstRows(U)) => r \in FirstRows(U)
<1> DEFINE before(n) == {q \in U : q.seq < n}
           rs == FirstRows(U)
<1>0. \A r \in U : r.seq \in Nat
  BY DEF Rows
<1>1. \A n : IsFiniteSet(before(n)) /\ Cardinality(before(n)) \in Nat
  BY FS_Subset, FS_CardinalityType
<1>2. rs = {r \in U : Cardinality(before(r.seq)) < BatchLimit}
  BY DEF FirstRows
<1>3. rs # {}
  <2>1. PICK m \in U : \A r \in U : m.seq <= r.seq
    BY RowExtremes
  <2>2. before(m.seq) = {}
    BY <2>1, <1>0
  <2>3. Cardinality(before(m.seq)) < BatchLimit
    <3>1. Cardinality(before(m.seq)) = 0
      BY <2>2, FS_EmptySet
    <3>2. 0 < BatchLimit
      BY DEF AxonConstants
    <3> QED
      BY <3>1, <3>2
  <2> QED
    BY <2>1, <2>3, <1>2
<1>4. rs \subseteq U /\ IsFiniteSet(rs) /\ rs \in SUBSET Rows
  BY <1>2, FS_Subset
<1> HIDE DEF rs
<1>5. /\ Position(rs) \in Nat /\ \E m \in rs : m.seq = Position(rs)
      /\ \A r \in rs : r.seq <= Position(rs)
  BY <1>3, <1>4, RowExtremes
<1>6. ASSUME NEW r \in U, r.seq <= Position(rs)
      PROVE  r \in rs
  <2>1. PICK m \in rs : m.seq = Position(rs)
    BY <1>5
  <2>2. before(r.seq) \subseteq before(m.seq)
    BY <1>6, <2>1, <1>0, <1>4, <1>5
  <2>3. Cardinality(before(r.seq)) <= Cardinality(before(m.seq))
    BY <2>2, <1>1, FS_Subset
  <2>4. Cardinality(before(m.seq)) < BatchLimit
    BY <2>1, <1>2
  <2>5. Cardinality(before(r.seq)) < BatchLimit
    <3> DEFINE a == Cardinality(before(r.seq))
               b == Cardinality(before(m.seq))
    <3>1. a \in Nat /\ b \in Nat /\ BatchLimit \in Nat /\ a <= b /\ b < BatchLimit
      BY <2>3, <2>4, <1>1 DEF AxonConstants
    <3> HIDE DEF a, b
    <3>2. a < BatchLimit
      BY <3>1
    <3> QED
      BY <3>2 DEF a
  <2> QED
    BY <2>5, <1>2
<1> QED
  BY <1>3, <1>4, <1>5, <1>6 DEF rs

(* publish, the append: the new row lies beyond every cursor.               *)
LEMMA AppendStep ==
  ASSUME AxonConstants, AxonInv, NEW e \in Events, Record(e)
  PROVE  AxonInv'
<1> USE DEF AxonInv, AxonSafety
<1> DEFINE row == [seq |-> sequence + 1, event |-> e]
<1>0. sequence \in Nat
  BY DEF AxonTypeOK
<1>1. /\ log' = log \cup {row} /\ appended' = appended \cup {row} /\ sequence' = sequence + 1
      /\ fanning' = fanning \cup {e}
      /\ UNCHANGED <<cursor, ring, batch, busCrashes, handed, pruned, seen>>
  BY <1>0 DEF Record, NextSeq
<1>2. row \in Rows /\ row.seq = sequence + 1 /\ row.event = e
  BY <1>0 DEF Rows
<1> HIDE DEF row
<1>3. AxonTypeOK'
  BY <1>0, <1>1, <1>2 DEF AxonTypeOK
<1>4. /\ \A c \in Consumers, t \in Topics : cursor[c][t] \in Nat /\ cursor[c][t] <= sequence
      /\ \A r \in appended : r \in Rows /\ r.seq \in Nat /\ r.seq <= sequence
  BY DEF AxonTypeOK, LogOK, Rows
<1>5. LogOK'
  BY <1>0, <1>1, <1>2, <1>4, FS_AddElement DEF LogOK
<1>6. NothingSkipped'
  <2>1. TopicOf[e] \in Topics
    BY DEF AxonConstants
  <2> QED
    BY <2>1, <1>0, <1>1, <1>2, <1>4 DEF NothingSkipped
<1>7. HandedBehindCursor'
  BY <1>1 DEF HandedBehindCursor
<1>8. \A f : IsRecorded(f) => IsRecorded(f)'
  BY <1>1 DEF IsRecorded
<1>9. IsRecorded(e)'
  BY <1>1, <1>2 DEF IsRecorded
<1>10. LiveWasRecorded' /\ BusOK'
  BY <1>1, <1>8, <1>9 DEF LiveWasRecorded, BusOK, IsRecorded
<1> QED
  BY <1>3, <1>5, <1>6, <1>7, <1>10

(* consume: the rows between the two positions are handed over, or gone.    *)
LEMMA ConsumeStep ==
  ASSUME AxonConstants, AxonInv, NEW c \in Consumers, NEW t \in Topics, Consume(c, t)
  PROVE  AxonInv'
<1> USE DEF AxonInv, AxonSafety
<1> DEFINE U == Unread(c, t)
           rs == FirstRows(U)
           p == Position(rs)
<1>0. /\ cursor \in [Consumers -> [Topics -> Nat]] /\ sequence \in Nat
      /\ batch \in [Consumers -> SUBSET Rows] /\ handed \in [Consumers -> SUBSET Rows]
      /\ log \in SUBSET Rows /\ appended \in SUBSET Rows
  BY DEF AxonTypeOK
<1>1. U = {r \in log : TopicOf[r.event] = t /\ r.seq > cursor[c][t]}
  BY DEF Unread
<1>2. U \in SUBSET Rows /\ IsFiniteSet(U) /\ U # {}
  <2>1. U \in SUBSET log
    BY <1>1
  <2> QED
    BY <2>1, <1>0, FS_Subset DEF LogOK, Consume
<1>3. /\ batch' = [batch EXCEPT ![c] = rs] /\ handed' = [handed EXCEPT ![c] = handed[c] \cup rs]
      /\ cursor' = [cursor EXCEPT ![c][t] = p]
      /\ UNCHANGED <<log, sequence, fanning, ring, busCrashes, appended, pruned, seen>>
  BY DEF Consume
<1> HIDE DEF U
<1>4. /\ rs \subseteq U /\ p \in Nat
      /\ \E m \in rs : m.seq = p
      /\ \A r \in rs : r.seq <= p
      /\ \A r \in U : r.seq <= p => r \in rs
  BY <1>2, BatchFacts
<1> HIDE DEF rs, p
<1>5. /\ handed'[c] = handed[c] \cup rs /\ cursor'[c][t] = p
      /\ \A u \in Topics : u # t => cursor'[c][u] = cursor[c][u]
      /\ \A d \in Consumers : d # c => handed'[d] = handed[d] /\ cursor'[d] = cursor[d]
  BY <1>0, <1>3
<1>6. cursor[c][t] <= p /\ p <= sequence /\ cursor[c][t] \in Nat
  <2>1. PICK m \in rs : m.seq = p
    BY <1>4
  <2>2. m \in log /\ m.seq > cursor[c][t] /\ m \in appended
    BY <2>1, <1>1, <1>4 DEF LogOK
  <2> QED
    BY <2>1, <2>2, <1>0, <1>4 DEF LogOK
<1>7. AxonTypeOK'
  <2>1. cursor' \in [Consumers -> [Topics -> Nat]]
    BY <1>0, <1>3, <1>4
  <2>2. batch' \in [Consumers -> SUBSET Rows] /\ handed' \in [Consumers -> SUBSET Rows]
    BY <1>0, <1>2, <1>3, <1>4
  <2> QED
    BY <2>1, <2>2, <1>3 DEF AxonTypeOK
<1>8. LogOK'
  <2>1. \A d \in Consumers, u \in Topics : cursor'[d][u] <= sequence
    BY <1>5, <1>6 DEF LogOK
  <2> QED
    BY <2>1, <1>3 DEF LogOK
<1>9. \A r \in appended : r.seq \in Nat /\ TopicOf[r.event] \in Topics
  BY <1>0 DEF Rows, AxonConstants
<1>10. NothingSkipped'
  <2> SUFFICES ASSUME NEW d \in Consumers, NEW r \in appended,
                      r.seq <= cursor'[d][TopicOf[r.event]]
               PROVE  r \in handed'[d] \cup pruned
    BY <1>3 DEF NothingSkipped
  <2>1. CASE d = c /\ TopicOf[r.event] = t /\ ~(r.seq <= cursor[c][t])
    <3>1. r \in pruned \/ r \in log
      BY DEF LogOK
    <3>2. r \in log => r \in U
      BY <2>1, <1>1, <1>6, <1>9
    <3> QED
      BY <3>1, <3>2, <2>1, <1>4, <1>5
  <2>2. CASE ~(d = c /\ TopicOf[r.event] = t /\ ~(r.seq <= cursor[c][t]))
    <3>1. r.seq <= cursor[d][TopicOf[r.event]]
      BY <2>2, <1>5, <1>9
    <3> QED
      BY <3>1, <1>5 DEF NothingSkipped
  <2> QED
    BY <2>1, <2>2
<1>11. HandedBehindCursor'
  <2> SUFFICES ASSUME NEW d \in Consumers, NEW r \in handed'[d]
               PROVE  r.seq <= cursor'[d][TopicOf[r.event]]
    BY DEF HandedBehindCursor
  <2>1. CASE d = c /\ r \in rs
    <3>1. TopicOf[r.event] = t
      BY <2>1, <1>1, <1>4
    <3> QED
      BY <2>1, <3>1, <1>4, <1>5
  <2>2. CASE r \in handed[d]
    <3>1. r.seq <= cursor[d][TopicOf[r.event]] /\ r.seq \in Nat /\ TopicOf[r.event] \in Topics
      BY <2>2, <1>0 DEF HandedBehindCursor, Rows, AxonConstants
    <3> QED
      BY <3>1, <1>4, <1>5, <1>6
  <2> QED
    BY <2>1, <2>2, <1>5
<1>12. LiveWasRecorded' /\ BusOK'
  BY <1>3 DEF LiveWasRecorded, BusOK, IsRecorded
<1> QED
  BY <1>7, <1>8, <1>10, <1>11, <1>12

(* The in-process bus carries what was appended.                            *)
LEMMA BusStep ==
  ASSUME AxonConstants, AxonInv,
         \/ \E e \in Events : FanOut(e)
         \/ \E t \in Topics : Receive(t)
  PROVE  AxonInv'
<1> USE DEF AxonInv, AxonSafety
<1>0. /\ UNCHANGED <<log, sequence, cursor, batch, busCrashes, appended, handed, pruned>>
  BY DEF FanOut, Receive, durable, history
<1>1. ring \in [Topics -> Seq(Events)] /\ fanning \in SUBSET Events /\ seen \in SUBSET Events
  BY DEF AxonTypeOK
<1>2. /\ ring' \in [Topics -> Seq(Events)] /\ fanning' \in SUBSET Events
      /\ seen' \in SUBSET Events /\ LiveWasRecorded' /\ BusOK'
  <2>1. ASSUME NEW e \in Events, FanOut(e)
        PROVE  <1>2!:
    <3> DEFINE t == TopicOf[e]
               q == Append(ring[t], e)
               s == IF Len(q) > RingSize THEN Tail(q) ELSE q
    <3>1. t \in Topics /\ ring[t] \in Seq(Events)
      BY <1>1 DEF AxonConstants
    <3>2. /\ fanning' = fanning \ {e} /\ ring' = [ring EXCEPT ![t] = s] /\ UNCHANGED seen
          /\ e \in fanning
      BY <2>1 DEF FanOut, FansOut, history
    <3> HIDE DEF t
    <3>3. /\ s \in Seq(Events)
          /\ \A i \in DOMAIN s : s[i] = e \/ \E k \in DOMAIN ring[t] : s[i] = ring[t][k]
      <4>1. /\ q \in Seq(Events) /\ q # <<>>
            /\ \A i \in DOMAIN q : q[i] = e \/ \E k \in DOMAIN ring[t] : q[i] = ring[t][k]
        BY <3>1
      <4> HIDE DEF q
      <4>2. /\ Tail(q) \in Seq(Events)
            /\ \A i \in DOMAIN Tail(q) : i + 1 \in DOMAIN q /\ Tail(q)[i] = q[i + 1]
        BY <4>1, QueueFacts
      <4> QED
        BY <4>1, <4>2
    <3> HIDE DEF s
    <3>4. \A f : IsRecorded(f)' = IsRecorded(f)
      BY <1>0 DEF IsRecorded
    <3>5. IsRecorded(e)
      BY <3>2 DEF BusOK
    <3>6. \A u \in Topics : \A i \in DOMAIN ring'[u] : IsRecorded(ring'[u][i])
      <4>1. \A u \in Topics : u # t => ring'[u] = ring[u]
        BY <3>2, <1>1
      <4>2. ring'[t] = s
        BY <3>1, <3>2, <1>1
      <4>3. \A i \in DOMAIN s : IsRecorded(s[i])
        BY <3>1, <3>3, <3>5 DEF BusOK
      <4> QED
        BY <4>1, <4>2, <4>3 DEF BusOK
    <3>7. BusOK'
      BY <3>2, <3>4, <3>6 DEF BusOK
    <3>8. LiveWasRecorded'
      BY <3>2, <1>0 DEF LiveWasRecorded
    <3> QED
      BY <3>1, <3>2, <3>3, <3>7, <3>8, <1>1
  <2>2. ASSUME NEW t \in Topics, Receive(t)
        PROVE  <1>2!:
    <3>1. /\ ring[t] # <<>> /\ ring[t] \in Seq(Events)
          /\ seen' = seen \cup {Head(ring[t])} /\ ring' = [ring EXCEPT ![t] = Tail(ring[t])]
          /\ fanning' = fanning
      BY <2>2, <1>1 DEF Receive
    <3>2. /\ Head(ring[t]) \in Events /\ Tail(ring[t]) \in Seq(Events) /\ 1 \in DOMAIN ring[t]
          /\ Head(ring[t]) = ring[t][1]
          /\ \A i \in DOMAIN Tail(ring[t]) :
               i + 1 \in DOMAIN ring[t] /\ Tail(ring[t])[i] = ring[t][i + 1]
      BY <3>1, QueueFacts
    <3>3. \A f : IsRecorded(f)' = IsRecorded(f)
      BY <1>0 DEF IsRecorded
    <3>4. IsRecorded(Head(ring[t]))
      BY <3>2 DEF BusOK
    <3>5. \A u \in Topics : \A i \in DOMAIN ring'[u] : IsRecorded(ring'[u][i])
      <4>1. \A u \in Topics : u # t => ring'[u] = ring[u]
        BY <3>1, <1>1
      <4>2. ring'[t] = Tail(ring[t])
        BY <3>1, <1>1
      <4>3. \A i \in DOMAIN Tail(ring[t]) : IsRecorded(Tail(ring[t])[i])
        BY <3>2 DEF BusOK
      <4> QED
        BY <4>1, <4>2, <4>3 DEF BusOK
    <3>6. BusOK'
      BY <3>1, <3>3, <3>5 DEF BusOK
    <3>7. LiveWasRecorded'
      BY <3>1, <3>4, <1>0 DEF LiveWasRecorded, IsRecorded
    <3> QED
      BY <3>1, <3>2, <3>6, <3>7, <1>1
  <2> QED
    BY <2>1, <2>2
<1>3. AxonTypeOK'
  BY <1>0, <1>2 DEF AxonTypeOK
<1>4. LogOK' /\ NothingSkipped' /\ HandedBehindCursor'
  BY <1>0 DEF LogOK, NothingSkipped, HandedBehindCursor
<1> QED
  BY <1>2, <1>3, <1>4

(* The consumer is done with its batch, rows are deleted, or the process    *)
(* dies.                                                                    *)
LEMMA HandleStep ==
  ASSUME AxonConstants, AxonInv, NEW c \in Consumers, Handle(c)
  PROVE  AxonInv'
BY DEF Handle, durable, history, AxonInv, AxonSafety, AxonTypeOK, LogOK, BusOK, IsRecorded,
       NothingSkipped, HandedBehindCursor, LiveWasRecorded

LEMMA PruneStep ==
  ASSUME AxonConstants, AxonInv, NEW n \in Nat, Prune(n)
  PROVE  AxonInv'
<1> USE DEF AxonInv, AxonSafety
<1>1. /\ log' = {r \in log : r.seq >= n} /\ pruned' = pruned \cup {r \in log : r.seq < n}
      /\ UNCHANGED <<sequence, cursor, fanning, ring, batch, busCrashes, appended, handed, seen>>
  BY DEF Prune
<1>2. AxonTypeOK'
  BY <1>1 DEF AxonTypeOK
<1>3. LogOK'
  <2>1. \A r \in log : r.seq \in Nat
    BY DEF AxonTypeOK, Rows
  <2>2. IsFiniteSet(log') /\ log' \subseteq log
    BY <1>1, FS_Subset DEF LogOK
  <2> QED
    BY <1>1, <2>1, <2>2 DEF LogOK
<1>4. NothingSkipped' /\ HandedBehindCursor' /\ LiveWasRecorded' /\ BusOK'
  BY <1>1 DEF NothingSkipped, HandedBehindCursor, LiveWasRecorded, BusOK, IsRecorded
<1> QED
  BY <1>2, <1>3, <1>4

LEMMA AxonCrashStep ==
  ASSUME AxonConstants, AxonInv, BusCrash
  PROVE  AxonInv'
<1> USE DEF AxonInv, AxonSafety
<1>1. /\ fanning' = {} /\ ring' = [t \in Topics |-> <<>>] /\ batch' = [c \in Consumers |-> {}]
      /\ busCrashes' \in 0 .. MaxBusCrashes
      /\ UNCHANGED <<log, sequence, cursor, appended, handed, pruned, seen>>
  BY DEF BusCrash, durable, history, AxonTypeOK, AxonConstants
<1>2. AxonTypeOK'
  <2>1. <<>> \in Seq(Events)
    OBVIOUS
  <2>2. ring' \in [Topics -> Seq(Events)] /\ batch' \in [Consumers -> SUBSET Rows]
    BY <1>1, <2>1
  <2> QED
    BY <1>1, <2>2 DEF AxonTypeOK
<1>3. LogOK' /\ NothingSkipped' /\ HandedBehindCursor' /\ LiveWasRecorded'
  BY <1>1 DEF LogOK, NothingSkipped, HandedBehindCursor, LiveWasRecorded
<1>4. BusOK'
  BY <1>1 DEF BusOK
<1> QED
  BY <1>2, <1>3, <1>4

LEMMA AxonStepInv ==
  ASSUME AxonConstants, AxonInv, [AxonNext]_axonVars
  PROVE  AxonInv'
<1>1. CASE UNCHANGED axonVars
  BY <1>1 DEF axonVars, durable, history, AxonInv, AxonSafety, AxonTypeOK, LogOK, BusOK, IsRecorded,
              NothingSkipped, HandedBehindCursor, LiveWasRecorded
<1>2. CASE AxonNext
  <2>1. 1 .. (sequence + 1) \subseteq Nat
    BY DEF AxonInv, AxonSafety, AxonTypeOK
  <2> QED
    BY <1>2, <2>1, AppendStep, BusStep, ConsumeStep, HandleStep, PruneStep, AxonCrashStep
       DEF AxonNext, ConsumerStep
<1> QED
  BY <1>1, <1>2

LEMMA AxonInitInv ==
  ASSUME AxonConstants, AxonInit
  PROVE  AxonInv
<1>1. AxonTypeOK
  <2>1. <<>> \in Seq(Events)
    OBVIOUS
  <2> QED
    BY <2>1 DEF AxonInit, AxonTypeOK, AxonConstants
<1>2. LogOK
  BY FS_EmptySet DEF AxonInit, LogOK
<1>3. BusOK /\ NothingSkipped /\ HandedBehindCursor /\ LiveWasRecorded
  BY DEF AxonInit, BusOK, NothingSkipped, HandedBehindCursor, LiveWasRecorded
<1> QED
  BY <1>1, <1>2, <1>3 DEF AxonInv, AxonSafety

(* The durable bus, for any events, topics, consumers, batch and ring       *)
(* sizes: a consumer's position accounts for every row before it            *)
(* (NothingSkipped) and for no row twice (HandedBehindCursor), also across  *)
(* retention and crashes, and no live subscriber sees an event without a    *)
(* row (LiveWasRecorded).                                                   *)
THEOREM AxonSafetyTheorem ==
  ASSUME AxonConstants
  PROVE  AxonSpec => []AxonSafety
<1>1. AxonInit => AxonInv
  BY AxonInitInv
<1>2. AxonInv /\ [AxonNext]_axonVars => AxonInv'
  BY AxonStepInv
<1>3. AxonInv => AxonSafety
  BY DEF AxonInv
<1> QED
  BY <1>1, <1>2, <1>3, PTL DEF AxonSpec

-----------------------------------------------------------------------------
(* The witness: WitnessSpec => [](WitnessInv) and receipts that never      *)
(* change, for every set of hashes and checkpoints.                        *)

\* The empty witness satisfies the invariant.
LEMMA WitnessInit_Inv == WitnessInit => WitnessInv
  BY WitnessConstants
  DEF WitnessInit, WitnessInv, WitnessTypeOK, ReceiptsDense, ReceiptsLinked, NoReceipts

\* A new receipt extends the chain at its head and leaves the others alone.
LEMMA WitnessAccept_Inv ==
    ASSUME WitnessInv, NEW c \in AuthenticCheckpoints, Accept(c)
    PROVE  WitnessInv' /\ ReceiptStep
<1> USE WitnessConstants DEF Checkpoint
<1>1. CASE IsReplay(c)
  BY <1>1
  DEF Accept, witnessVars, WitnessInv, WitnessTypeOK, ReceiptsDense, ReceiptsLinked, ReceiptStep
<1>2. CASE ~IsReplay(c)
  <2>1. /\ c.seq = witnessHead.seq + 1
        /\ c.prev = witnessHead.hash
        /\ c.seq \notin DOMAIN witnessReceipts
    BY <1>2 DEF Accept, IsAcceptable, IsNext, IsPreserved
  <2>2. /\ DOMAIN witnessReceipts = 1..witnessHead.seq
        /\ witnessHead.seq \in Nat
    BY DEF WitnessInv, ReceiptsDense, WitnessTypeOK
  <2>3. /\ DOMAIN witnessReceipts' = 1..c.seq
        /\ witnessReceipts'[c.seq] = c.hash
        /\ \A n \in 1..witnessHead.seq : witnessReceipts'[n] = witnessReceipts[n]
        /\ witnessHead' = [seq |-> c.seq, hash |-> c.hash]
    BY <1>2, <2>1, <2>2 DEF Accept
  <2>4. WitnessTypeOK'
    BY <1>2, <2>1, <2>2, <2>3 DEF Accept, WitnessInv, WitnessTypeOK
  <2>5. ReceiptsDense'
    BY <2>1, <2>2, <2>3 DEF ReceiptsDense
  <2>6. ReceiptsLinked'
    <3> SUFFICES ASSUME NEW n \in 1..c.seq
                 PROVE  \E d \in AuthenticCheckpoints :
                           /\ d.seq = n
                           /\ d.hash = witnessReceipts'[n]
                           /\ d.prev = IF n = 1 THEN GenesisHash ELSE witnessReceipts'[n - 1]
      BY <2>3 DEF ReceiptsLinked
    <3>1. CASE n = c.seq
      BY <3>1, <2>1, <2>2, <2>3 DEF WitnessInv, ReceiptsDense
    <3>2. CASE n # c.seq
      BY <3>2, <2>1, <2>2, <2>3 DEF WitnessInv, ReceiptsLinked
    <3> QED
      BY <3>1, <3>2
  <2> QED
    BY <2>2, <2>3, <2>1, <2>4, <2>5, <2>6 DEF WitnessInv, ReceiptStep
<1> QED
  BY <1>1, <1>2

\* Every step of the witness preserves its invariant and its receipts.
LEMMA WitnessNext_Inv ==
    WitnessInv /\ [WitnessNext]_witnessVars => WitnessInv' /\ ReceiptStep
<1> SUFFICES ASSUME WitnessInv, [WitnessNext]_witnessVars
             PROVE  WitnessInv' /\ ReceiptStep
  OBVIOUS
<1>1. CASE UNCHANGED witnessVars
  BY <1>1
  DEF witnessVars, WitnessInv, WitnessTypeOK, ReceiptsDense, ReceiptsLinked, ReceiptStep
<1> QED
  BY <1>1, WitnessAccept_Inv DEF WitnessNext, Refuse, witnessVars

\* Receipts are dense up to the head and form one chain in every reachable state.
THEOREM WitnessInvariant == WitnessSpec => []WitnessInv
  BY WitnessInit_Inv, WitnessNext_Inv, PTL DEF WitnessSpec

\* What the witness preserved is one chain, whatever forks were submitted.
THEOREM ReceiptsLinkedTheorem == WitnessSpec => []ReceiptsLinked
<1>1. WitnessInv => ReceiptsLinked
  BY DEF WitnessInv
<1> QED
  BY <1>1, WitnessInvariant, PTL

\* A preserved receipt is never withdrawn or replaced.
THEOREM ReceiptsImmutableTheorem == WitnessSpec => ReceiptsImmutable
<1>1. WitnessInv /\ [WitnessNext]_witnessVars => [ReceiptStep]_witnessVars
  BY WitnessNext_Inv
<1> QED
  BY <1>1, WitnessInvariant, PTL DEF WitnessSpec, ReceiptsImmutable
=============================================================================
