---------------------------- MODULE DurableAxon ----------------------------
(***************************************************************************)
(* The durable Axon bus.  A publish appends a row to the log and then fans *)
(* the event out on the in-process bus, whose ring overwrites what a slow  *)
(* subscriber has not read.  Named consumers read the log in batches and   *)
(* move their cursor in the same transaction; retention deletes old rows.  *)
(* A topic stands for a pair of tenant and channel.                        *)
(***************************************************************************)
EXTENDS Integers, Sequences, FiniteSets

CONSTANTS
  Events, Topics, Consumers,
  TopicOf,     \* the topic of each event
  RingSize,    \* capacity of a channel of the in-process bus
  BatchLimit,  \* the limit a consumer asks for
  MaxBusCrashes   \* bound of the crashes explored

(* What the constants are assumed to be, by the modules that give them values. *)
AxonConstants ==
  /\ TopicOf \in [Events -> Topics]
  /\ RingSize \in Nat \ {0} /\ BatchLimit \in Nat \ {0} /\ MaxBusCrashes \in Nat

VARIABLES
  log,       \* axon_events: rows [seq, event]
  sequence,  \* sqlite_sequence: the highest seq ever given
  cursor,    \* axon_cursors: last_seq of each consumer and topic
  fanning,   \* events that are in the log and not yet on the bus
  ring,      \* what the live subscriber of a topic can still read
  batch,     \* rows a consumer was given and has not handled yet
  busCrashes,
  appended,  \* history: all rows there ever were
  handed,    \* history: rows given to each consumer
  pruned,    \* history: rows deleted by retention
  seen       \* history: events the live subscriber got

durable == <<log, sequence, cursor>>
history == <<appended, handed, pruned, seen>>
axonVars == <<durable, fanning, ring, batch, busCrashes, history>>

Rows == [seq : Nat, event : Events]

AxonTypeOK ==
  /\ log \in SUBSET Rows /\ sequence \in Nat
  /\ cursor \in [Consumers -> [Topics -> Nat]]
  /\ fanning \in SUBSET Events /\ ring \in [Topics -> Seq(Events)]
  /\ batch \in [Consumers -> SUBSET Rows] /\ busCrashes \in 0 .. MaxBusCrashes
  /\ appended \in SUBSET Rows /\ pruned \in SUBSET Rows /\ seen \in SUBSET Events
  /\ handed \in [Consumers -> SUBSET Rows]

AxonInit ==
  /\ log = {} /\ sequence = 0 /\ cursor = [c \in Consumers |-> [t \in Topics |-> 0]]
  /\ fanning = {} /\ ring = [t \in Topics |-> <<>>] /\ batch = [c \in Consumers |-> {}]
  /\ busCrashes = 0 /\ appended = {} /\ handed = [c \in Consumers |-> {}]
  /\ pruned = {} /\ seen = {}

\* Variant: a rowid without AUTOINCREMENT.
NextRowid == IF log = {} THEN 1
             ELSE (CHOOSE n \in {r.seq : r \in log} : \A r \in log : r.seq <= n) + 1

\* AUTOINCREMENT: above every seq that was ever given.
NextSeq == sequence + 1

\* publish, the append.  Event ids are fresh and UNIQUE.
Record(e) ==
  /\ e \notin {r.event : r \in appended}
  /\ LET row == [seq |-> NextSeq, event |-> e] IN
     /\ log' = log \cup {row} /\ appended' = appended \cup {row}
  /\ sequence' = IF NextSeq > sequence THEN NextSeq ELSE sequence
  /\ fanning' = fanning \cup {e}
  /\ UNCHANGED <<cursor, ring, batch, busCrashes, handed, pruned, seen>>

\* An event is fanned out by the publish that appended it.
FansOut(e) == e \in fanning

\* publish, the fan-out: after the lock is released, so that the fan-outs of two
\* publishers may happen in either order.  The ring forgets its oldest event.
FanOut(e) ==
  /\ FansOut(e)
  /\ fanning' = fanning \ {e}
  /\ LET t == TopicOf[e]
         q == Append(ring[t], e)
     IN ring' = [ring EXCEPT ![t] = IF Len(q) > RingSize THEN Tail(q) ELSE q]
  /\ UNCHANGED <<durable, batch, busCrashes, history>>

\* The live subscriber of a topic receives.
Receive(t) ==
  /\ ring[t] # <<>>
  /\ seen' = seen \cup {Head(ring[t])}
  /\ ring' = [ring EXCEPT ![t] = Tail(@)]
  /\ UNCHANGED <<durable, fanning, batch, busCrashes, appended, handed, pruned>>

\* Variant: rows are compared with the cursor of any topic.
UnreadOfConsumer(c, t) ==
  {r \in log : TopicOf[r.event] = t /\ \A u \in Topics : r.seq > cursor[c][u]}

\* read_after: the rows of a topic beyond the consumer's cursor.
Unread(c, t) == {r \in log : TopicOf[r.event] = t /\ r.seq > cursor[c][t]}

\* The first rows of a set, in the order of seq, at most BatchLimit of them.
FirstRows(rs) == {r \in rs : Cardinality({q \in rs : q.seq < r.seq}) < BatchLimit}

\* The seq of the last row of a batch.
Position(rs) == CHOOSE n \in {r.seq : r \in rs} : \A r \in rs : r.seq <= n

\* consume: the batch is read and the cursor moved in one transaction.
Consume(c, t) ==
  /\ batch[c] = {} /\ Unread(c, t) # {}
  /\ LET rs == FirstRows(Unread(c, t)) IN
     /\ batch' = [batch EXCEPT ![c] = rs]
     /\ handed' = [handed EXCEPT ![c] = @ \cup rs]
     /\ cursor' = [cursor EXCEPT ![c][t] = Position(rs)]
  /\ UNCHANGED <<log, sequence, fanning, ring, busCrashes, appended, pruned, seen>>

\* The consumer is done with its batch.
Handle(c) ==
  /\ batch[c] # {}
  /\ batch' = [batch EXCEPT ![c] = {}]
  /\ UNCHANGED <<durable, fanning, ring, busCrashes, history>>

\* prune_before, whether or not anybody has read the rows.
Prune(n) ==
  /\ \E r \in log : r.seq < n
  /\ log' = {r \in log : r.seq >= n}
  /\ pruned' = pruned \cup {r \in log : r.seq < n}
  /\ UNCHANGED <<sequence, cursor, fanning, ring, batch, busCrashes, appended, handed, seen>>

\* The process dies: fan-outs, rings and batches in memory are lost.
BusCrash ==
  /\ busCrashes < MaxBusCrashes
  /\ busCrashes' = busCrashes + 1
  /\ fanning' = {} /\ ring' = [t \in Topics |-> <<>>] /\ batch' = [c \in Consumers |-> {}]
  /\ UNCHANGED <<durable, history>>

ConsumerStep(c) == Handle(c) \/ \E t \in Topics : Consume(c, t)

AxonNext ==
  \/ \E e \in Events : Record(e)
  \/ \E e \in Events : FanOut(e)
  \/ \E t \in Topics : Receive(t)
  \/ \E c \in Consumers : ConsumerStep(c)
  \/ \E n \in 1 .. (sequence + 1) : Prune(n)
  \/ BusCrash

AxonSpec == AxonInit /\ [][AxonNext]_axonVars

\* Every consumer keeps consuming every topic.
LiveAxonSpec ==
  AxonSpec /\ \A c \in Consumers : WF_axonVars(Handle(c)) /\ \A t \in Topics : SF_axonVars(Consume(c, t))

---------------------------------------------------------------------------
(* Properties *)

\* A consumer's position accounts for everything before it: each row up to the
\* cursor was handed to it, or retention deleted the row first.  Positions stay
\* valid across retention, even when the log was emptied (lib.rs).
NothingSkipped ==
  \A c \in Consumers : \A r \in appended :
    r.seq <= cursor[c][TopicOf[r.event]] => r \in handed[c] \cup pruned

\* No row is handed out twice: what a consumer was given lies behind its cursor.
HandedBehindCursor ==
  \A c \in Consumers : \A r \in handed[c] : r.seq <= cursor[c][TopicOf[r.event]]

\* Nobody sees an event on the bus that was never in the log (lib.rs: an audit
\* consumer must never observe an event that has no durable row).
LiveWasRecorded ==
  \A e \in seen : \E r \in appended : r.event = e

\* The log, the cursors and the live bus agree on every row.
AxonSafety == AxonTypeOK /\ NothingSkipped /\ HandedBehindCursor /\ LiveWasRecorded

\* A row that is kept reaches every consumer, also past crashes.
KeptIsConsumed ==
  \A c \in Consumers, e \in Events :
    (e \in {r.event : r \in log}) ~>
      (e \in {r.event : r \in handed[c]} \/ e \in {r.event : r \in pruned})

-----------------------------------------------------------------------------
(* The inductive invariant behind AxonSafety.                              *)

(* A row is in the log until retention deletes it, and no seq or cursor is  *)
(* beyond what sqlite_sequence holds.                                       *)
LogOK ==
  /\ IsFiniteSet(log) /\ log \subseteq appended /\ appended \subseteq log \cup pruned
  /\ \A r \in appended : r.seq <= sequence
  /\ \A c \in Consumers, t \in Topics : cursor[c][t] <= sequence

IsRecorded(e) == \E r \in appended : r.event = e

(* What is on its way to a live subscriber is in the log.                   *)
BusOK ==
  /\ \A e \in fanning : IsRecorded(e)
  /\ \A t \in Topics : \A i \in DOMAIN ring[t] : IsRecorded(ring[t][i])

AxonInv == AxonSafety /\ LogOK /\ BusOK
=============================================================================
