---------------------------- MODULE RiftDelivery ----------------------------
(***************************************************************************)
(* Delivery of one channel's messages to one bridge.  The Rift server      *)
(* writes a message and its outbox row in one transaction; a dispatcher    *)
(* publishes pending rows to the in-process gateway and acknowledges them; *)
(* a forwarder carries them over a WebSocket into the bridge, whose durable*)
(* ledger admits each event to the room at most once.                      *)
(***************************************************************************)
EXTENDS Integers, Sequences, FiniteSets, Functions

CONSTANTS
  Events,       \* message events of the channel
  None,         \* no event
  WireCap,      \* events a connection may queue before its forwarder gives up
  InboxCap,     \* events the bridge buffers between socket and room
  MaxRetained,  \* claims the ledger keeps before it refuses new events
  MaxCrashes    \* bound: stops of the server and of the bridge

ASSUME DeliveryConstants ==
  /\ None \notin Events
  /\ IsFiniteSet(Events)
  /\ WireCap \in Nat \ {0} /\ InboxCap \in Nat \ {0}
  /\ MaxRetained \in Nat /\ MaxCrashes \in Nat

VARIABLES
  writer,      \* the posting transaction of each event
  began,       \* events in the order their transactions began (outbox.created_at)
  preceded,    \* history: events already committed when each transaction began
  outbox,      \* row of each event in event_outbox
  dispatch,    \* the dispatcher's open transaction: its row and how far it got
  published,   \* history: every publication, in order
  link,        \* the bridge's connection: "none", "live", or "deaf"
  since,       \* history: publications since the connection was subscribed
  wire,        \* events queued on the connection
  heard,       \* history: how many events of this connection reached the bridge
  inbox,       \* events buffered in the bridge
  bridge,      \* "up" or "down"
  ledger,      \* row of each event in processed_rift_events
  retained,    \* event_ledger_metadata.retained_events
  guards,      \* what the running bridge holds of each event
  acts,        \* history: times the room acted on each event
  crashes      \* bound

serverVars == <<writer, began, preceded, outbox, dispatch, published>>
linkVars   == <<link, since, wire, heard>>
ledgerVars == <<ledger, retained>>
roomVars   == <<guards, acts>>
vars == <<serverVars, linkVars, inbox, bridge, ledgerVars, roomVars, crashes>>

Idle == [event |-> None, step |-> "idle"]

DeliveryTypeOK ==
  /\ writer \in [Events -> {"idle", "open", "committed"}]
  /\ began \in Seq(Events)
  /\ preceded \in [Events -> SUBSET Events]
  /\ outbox \in [Events -> {"absent", "pending", "delivered", "pruned"}]
  /\ dispatch \in [event : Events \cup {None}, step : {"idle", "claimed", "published"}]
  /\ dispatch.step # "idle" => dispatch.event \in Events
  /\ published \in Seq(Events)
  /\ link \in {"none", "live", "deaf"}
  /\ since \in Seq(Events) /\ wire \in Seq(Events) /\ heard \in Nat
  /\ inbox \in Seq(Events)
  /\ bridge \in {"up", "down"}
  /\ ledger \in [Events -> {"absent", "processing", "completed"}]
  /\ retained \in 0..MaxRetained
  /\ guards \in [Events -> {"none", "admitted", "acted"}]
  /\ acts \in [Events -> Nat]
  /\ crashes \in 0..MaxCrashes

DeliveryInit ==
  /\ writer = [e \in Events |-> "idle"]
  /\ began = <<>>
  /\ preceded = [e \in Events |-> {}]
  /\ outbox = [e \in Events |-> "absent"]
  /\ dispatch = Idle
  /\ published = <<>>
  /\ link = "none" /\ since = <<>> /\ wire = <<>> /\ heard = 0
  /\ inbox = <<>>
  /\ bridge = "up"
  /\ ledger = [e \in Events |-> "absent"]
  /\ retained = 0
  /\ guards = [e \in Events |-> "none"]
  /\ acts = [e \in Events |-> 0]
  /\ crashes = 0

---------------------------------------------------------------------------
(* The server: posting a message *)

\* A message route begins its transaction; NOW() of the outbox row is this moment.
BeginPost(e) ==
  /\ writer[e] = "idle"
  /\ e \notin Range(began)
  /\ writer' = [writer EXCEPT ![e] = "open"]
  /\ began' = Append(began, e)
  /\ preceded' = [preceded EXCEPT ![e] = {d \in Events : writer[d] = "committed"}]
  /\ UNCHANGED <<outbox, dispatch, published, linkVars, inbox, bridge, ledgerVars, roomVars, crashes>>

\* Message and outbox row commit together.
CommitPost(e) ==
  /\ writer[e] = "open"
  /\ writer' = [writer EXCEPT ![e] = "committed"]
  /\ outbox' = [outbox EXCEPT ![e] = "pending"]
  /\ UNCHANGED <<began, preceded, dispatch, published, linkVars, inbox, bridge, ledgerVars, roomVars, crashes>>

---------------------------------------------------------------------------
(* The server: the outbox dispatcher *)

Before(d, e) == \E i, j \in 1..Len(began) : i < j /\ began[i] = d /\ began[j] = e

\* ORDER BY created_at LIMIT 1 over the pending rows.
IsOldestPending(e) ==
  /\ outbox[e] = "pending"
  /\ \A d \in Events : outbox[d] = "pending" => ~Before(d, e)

\* Lock the oldest pending row; the transaction stays open.
Claim(e) ==
  /\ dispatch.step = "idle"
  /\ IsOldestPending(e)
  /\ dispatch' = [event |-> e, step |-> "claimed"]
  /\ UNCHANGED <<writer, began, preceded, outbox, published, linkVars, inbox, bridge, ledgerVars, roomVars, crashes>>

\* Variant: the forwarder drops the event and goes on.
AfterDropSkips == "live"

\* A forwarder that lags, meets a full queue or is refused its lease ends, and
\* with it what it has not yet queued; the socket stays open.
AfterDrop == "deaf"

\* What the bridge's connection makes of one publication.
Deliver(e) ==
  \/ /\ link = "live" /\ Len(wire) < WireCap
     /\ wire' = Append(wire, e) /\ link' = link
  \/ /\ link = "live"
     /\ \E n \in 0..Len(wire) + 1 : n <= WireCap /\ wire' = SubSeq(Append(wire, e), 1, n)
     /\ link' = AfterDrop
  \/ /\ link # "live"
     /\ UNCHANGED <<wire, link>>

\* broadcast_to_channel: publish to whoever is subscribed now.
Publish ==
  /\ dispatch.step = "claimed"
  /\ published' = Append(published, dispatch.event)
  /\ since' = IF link = "none" THEN since ELSE Append(since, dispatch.event)
  /\ Deliver(dispatch.event)
  /\ dispatch' = [dispatch EXCEPT !.step = "published"]
  /\ UNCHANGED <<writer, began, preceded, outbox, heard, inbox, bridge, ledgerVars, roomVars, crashes>>

\* delivered_at is set and the dispatcher's transaction commits.
Acknowledge ==
  /\ dispatch.step = "published"
  /\ outbox' = [outbox EXCEPT ![dispatch.event] = "delivered"]
  /\ dispatch' = Idle
  /\ UNCHANGED <<writer, began, preceded, published, linkVars, inbox, bridge, ledgerVars, roomVars, crashes>>

\* The retention pass deletes rows delivered long ago.
Cleanup(e) ==
  /\ dispatch.step = "idle"
  /\ outbox[e] = "delivered"
  /\ outbox' = [outbox EXCEPT ![e] = "pruned"]
  /\ UNCHANGED <<writer, began, preceded, dispatch, published, linkVars, inbox, bridge, ledgerVars, roomVars, crashes>>

\* Variant: the stop loses the outbox rows that were not yet acknowledged.
ServerCrashLoses ==
  /\ crashes < MaxCrashes
  /\ crashes' = crashes + 1
  /\ writer' = [e \in Events |-> IF writer[e] = "open" THEN "idle" ELSE writer[e]]
  /\ outbox' = [e \in Events |-> IF outbox[e] = "pending" THEN "absent" ELSE outbox[e]]
  /\ dispatch' = Idle
  /\ link' = "none" /\ since' = <<>> /\ wire' = <<>> /\ heard' = 0
  /\ UNCHANGED <<began, preceded, published, inbox, bridge, ledgerVars, roomVars>>

\* The server stops: open transactions roll back, connections break.
ServerCrash ==
  /\ crashes < MaxCrashes
  /\ crashes' = crashes + 1
  /\ writer' = [e \in Events |-> IF writer[e] = "open" THEN "idle" ELSE writer[e]]
  /\ dispatch' = Idle
  /\ link' = "none" /\ since' = <<>> /\ wire' = <<>> /\ heard' = 0
  /\ UNCHANGED <<began, preceded, outbox, published, inbox, bridge, ledgerVars, roomVars>>

---------------------------------------------------------------------------
(* The connection *)

\* ws_listen connects and subscribes.
Connect ==
  /\ bridge = "up" /\ link = "none"
  /\ link' = "live"
  /\ UNCHANGED <<serverVars, since, wire, heard, inbox, bridge, ledgerVars, roomVars, crashes>>

\* The socket breaks; what it had queued is gone.
Disconnect ==
  /\ link # "none"
  /\ link' = "none" /\ since' = <<>> /\ wire' = <<>> /\ heard' = 0
  /\ UNCHANGED <<serverVars, inbox, bridge, ledgerVars, roomVars, crashes>>

\* One event crosses the socket; a full inbox holds the reader back.
Forward ==
  /\ bridge = "up" /\ wire # <<>>
  /\ Len(inbox) < InboxCap
  /\ inbox' = Append(inbox, Head(wire))
  /\ wire' = Tail(wire)
  /\ heard' = heard + 1
  /\ UNCHANGED <<serverVars, link, since, bridge, ledgerVars, roomVars, crashes>>

---------------------------------------------------------------------------
(* The bridge: durable admission *)

\* read_claim finds a row; its fingerprint matches, as an event's payload is fixed.
Known(e) == ledger[e] # "absent"

\* Variant: a claim that an earlier process left open is taken over.
AdmitTakeover ==
  /\ bridge = "up" /\ inbox # <<>>
  /\ LET e == Head(inbox) IN
       /\ ledger[e] # "completed" /\ guards[e] = "none"
       /\ ledger' = [ledger EXCEPT ![e] = "processing"]
       /\ retained' = IF Known(e) THEN retained ELSE retained + 1
       /\ retained' <= MaxRetained
       /\ guards' = [guards EXCEPT ![e] = "admitted"]
  /\ inbox' = Tail(inbox)
  /\ UNCHANGED <<serverVars, linkVars, bridge, acts, crashes>>

\* admit_blocking, new event: the claim is durable before the room sees it.
AdmitFresh ==
  /\ bridge = "up" /\ inbox # <<>>
  /\ LET e == Head(inbox) IN
       /\ ~Known(e)
       /\ retained < MaxRetained
       /\ ledger' = [ledger EXCEPT ![e] = "processing"]
       /\ retained' = retained + 1
       /\ guards' = [guards EXCEPT ![e] = "admitted"]
  /\ inbox' = Tail(inbox)
  /\ UNCHANGED <<serverVars, linkVars, bridge, acts, crashes>>

\* admit_blocking, replay: completed and quarantined events are dropped.
AdmitDuplicate ==
  /\ bridge = "up" /\ inbox # <<>>
  /\ Known(Head(inbox))
  /\ inbox' = Tail(inbox)
  /\ UNCHANGED <<serverVars, linkVars, bridge, ledgerVars, roomVars, crashes>>

\* What a stopped bridge process loses.
BridgeStops ==
  /\ bridge' = "down"
  /\ inbox' = <<>>
  /\ link' = "none" /\ since' = <<>> /\ wire' = <<>> /\ heard' = 0
  /\ guards' = [e \in Events |-> "none"]

\* admit_blocking at capacity: EventState errors stop the runtime.
AdmitFull ==
  /\ bridge = "up" /\ inbox # <<>>
  /\ ~Known(Head(inbox))
  /\ retained = MaxRetained
  /\ BridgeStops
  /\ UNCHANGED <<serverVars, ledgerVars, acts, crashes>>

---------------------------------------------------------------------------
(* The bridge: the room *)

\* A cascade or a control command acts on an admitted event.
Act(e) ==
  /\ guards[e] = "admitted"
  /\ guards' = [guards EXCEPT ![e] = "acted"]
  /\ acts' = [acts EXCEPT ![e] = @ + 1]
  /\ UNCHANGED <<serverVars, linkVars, inbox, bridge, ledgerVars, crashes>>

\* EventGuard::complete of one ignored, paused or control event.
Complete(e) ==
  /\ guards[e] # "none"
  /\ ledger' = [ledger EXCEPT ![e] = "completed"]
  /\ guards' = [guards EXCEPT ![e] = "none"]
  /\ UNCHANGED <<serverVars, linkVars, inbox, bridge, retained, acts, crashes>>

\* EventGuard::complete_all: a finished cascade settles every event it holds.
CompleteAll ==
  /\ \E e \in Events : guards[e] = "acted"
  /\ ledger' = [e \in Events |-> IF guards[e] # "none" THEN "completed" ELSE ledger[e]]
  /\ guards' = [e \in Events |-> "none"]
  /\ UNCHANGED <<serverVars, linkVars, inbox, bridge, retained, acts, crashes>>

\* A cascade ends with an error: its guards are dropped and their claims stay open.
CascadeFails ==
  /\ \E e \in Events : guards[e] # "none"
  /\ guards' = [e \in Events |-> "none"]
  /\ UNCHANGED <<serverVars, linkVars, inbox, bridge, ledgerVars, acts, crashes>>

\* The bridge stops: a crash, a stop request, or stale leadership.
BridgeCrash ==
  /\ bridge = "up"
  /\ crashes < MaxCrashes
  /\ crashes' = crashes + 1
  /\ BridgeStops
  /\ UNCHANGED <<serverVars, ledgerVars, acts>>

\* DurableEventLedger::open refuses a ledger whose counter and rows disagree.
LedgerOpens == retained = Cardinality({e \in Events : ledger[e] # "absent"})

\* A new process opens the ledger and starts.
BridgeStart ==
  /\ bridge = "down"
  /\ LedgerOpens
  /\ bridge' = "up"
  /\ UNCHANGED <<serverVars, linkVars, inbox, ledgerVars, roomVars, crashes>>

---------------------------------------------------------------------------
DispatchStep == (\E e \in Events : Claim(e)) \/ Publish \/ Acknowledge

DeliveryNext ==
  \/ \E e \in Events : BeginPost(e)
  \/ \E e \in Events : CommitPost(e)
  \/ \E e \in Events : Claim(e)
  \/ Publish
  \/ Acknowledge
  \/ \E e \in Events : Cleanup(e)
  \/ ServerCrash
  \/ Connect
  \/ Disconnect
  \/ Forward
  \/ AdmitFresh
  \/ AdmitDuplicate
  \/ AdmitFull
  \/ \E e \in Events : Act(e)
  \/ \E e \in Events : Complete(e)
  \/ CompleteAll
  \/ CascadeFails
  \/ BridgeCrash
  \/ BridgeStart

DeliverySpec == DeliveryInit /\ [][DeliveryNext]_vars

\* The dispatcher is a supervised task that always polls again.
LiveDeliverySpec == DeliverySpec /\ WF_vars(DispatchStep)

---------------------------------------------------------------------------
(* Properties *)

\* The room acts on an event at most once, whatever is redelivered after a
\* server crash between publication and acknowledgement, and whatever the
\* bridge loses between its claim and its completion (event_dedupe.rs).
ActedOnce == \A e \in Events : acts[e] <= 1

\* An outbox row is acknowledged, and later pruned, only after its event was
\* published (outbox.rs): a crash can repeat a publication but not skip one.
DeliveredWasPublished ==
  \A e \in Events : outbox[e] \in {"delivered", "pruned"} => e \in Range(published)

\* A message is published only after every message that was already committed
\* when its transaction began, in spite of crashes, republication and commits
\* that overtake each other (outbox.rs, ORDER BY created_at).
PublishedInOrder ==
  \A i \in 1..Len(published) :
    \A d \in preceded[published[i]] : \E j \in 1..(i - 1) : published[j] = d

\* Within one connection the bridge hears a gap-free prefix of what was
\* published since it subscribed: an event that cannot be queued ends the
\* forwarder instead of being skipped (gateway.rs).
GapFree ==
  link # "none" =>
    /\ heard + Len(wire) <= Len(since)
    /\ wire = SubSeq(since, heard + 1, heard + Len(wire))

\* The ledger can always be opened again: the counter kept beside the rows
\* equals their number at every commit point (event_dedupe.rs open).
LedgerReopens == LedgerOpens

\* A completed claim is never reopened and no claim disappears, so a replay is
\* suppressed for ever.
ClaimsMonotone ==
  [][\A e \in Events :
       /\ ledger[e] = "completed" => ledger'[e] = "completed"
       /\ ledger[e] = "processing" => ledger'[e] # "absent"]_vars

\* Every committed message is eventually acknowledged as published: a stop of
\* the server rolls the row back to pending and the next process takes it.
CommittedIsDelivered ==
  \A e \in Events : (outbox[e] = "pending") ~> (outbox[e] \in {"delivered", "pruned"})
=============================================================================
