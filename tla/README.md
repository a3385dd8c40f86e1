# Henosis: a TLA+ verification project

Henosis is governed infrastructure for persistent AI agents. Every consequential
action of an agent goes through one pipeline: *identity -> policy -> approval ->
bounded execution -> filtered result -> audit and witness*. Around it stand the
rooms in which agents talk and propose, the services they work with (workflows,
tasks, an event bus, scheduled jobs), the accounts of those who pay and sign in,
and the runtimes of the agents themselves. This directory keeps TLA+ models of
these parts beside the code, checks them with TLC on small instances and proves
the properties that matter most with TLAPS.

## 1. Inventory of the system

### 1.1 The governed pipeline (modelled first)

| Part | Source | State it keeps | Operations | What makes it correct |
| --- | --- | --- | --- | --- |
| Dispatcher | `crates/syntheos-dispatch` | none of its own; the order of the gate chain | `Dispatcher::dispatch`: gates in canonical order, execution guard, executor, output filter | nothing executes unless every gate allowed it; a gate error or an unknown verdict denies; an outcome is reported only after the guard accepted it |
| Approval store | `crates/henosis-approval` | table `approval`: request binding, status, deadline, actor | `create_or_get_pending`, `decide`, `expire`, `consume_approved`, reads | an approval is used once, in its lifetime, for the exact request a human approved; a denial is final |
| Audit store | `crates/henosis-audit` (`AuditStore`) | per-tenant hash-chained `audit_events`, `execution_records` (claimed, completed, indeterminate), `execution_resolutions`, `audit_stream_state` | `append`, `claim_execution`, `complete_execution`, `mark_execution_indeterminate`, resolution, stream block and recovery | one execution per key, results immutable, intent on record before the effect, conclusions immutable |
| Witness client | `crates/henosis-audit` (`WitnessedAudit`, `WitnessClient`) | receipts attached to audit rows | checkpoint one row, attach its receipt, the witnessed forms of append, claim, complete, resolve, recover | a receipt exists only for what the witness preserved; recovery clears a block only when the witness holds the whole local chain |
| Witness service | `crates/henosis-witness` | `witness_receipts`, `witness_heads` | `accept` a signed checkpoint | one hash per sequence number, no gaps, the original receipt on an exact retry |
| Authority API | `crates/syntheos-server/src/authority.rs` | none of its own; composes the stores | dispatch, approve and deny, list, resolve an indeterminate execution, verify and recover the audit stream; `DurableHumanGate`, `AuditExecutionGuard`, `AuditBoundary` | the end-to-end guarantees above under concurrent requests, crashes and lost or late witness answers |

A request runs through them as follows. The HTTP handler `dispatch` builds a
`GateRequest` and awaits `Dispatcher::dispatch`. The chain is exactly `pistis`,
`plutus`, `eidolon`, `human`, `phylaxd`; the `human` gate reads or creates a row of
the approval store. After the last gate the `AuditExecutionGuard` claims the
idempotency key in the audit store (in witnessed mode it first appends the
intent, sends it to the witness and attaches the receipt), consumes the
approval, and lets the executor run. Afterwards it records the outcome (again
through the witness), marks the record completed, and the handler answers. Every
`await` on that path is a point where other requests run, where the client may
go away (the handler's future is dropped) and where the process may stop.

### 1.2 The rest of the system

| Part | Source | State and operations | Hard behaviour | Correct when |
| --- | --- | --- | --- | --- |
| Rift server | `crates/henosis-rift-server` | PostgreSQL rooms and messages, transactional outbox, WebSocket gateway | rows published, then acknowledged: redelivery after a crash between both; slow subscribers | every committed message is published, a connection sees no gap |
| Rift bridge: deduplication | `crates/henosis-rift-bridge/src/event_dedupe.rs` | SQLite claims with a capacity bound | duplicate deliveries, a stop while processing | an event is acted on once |
| Rift bridge: room | `.../room.rs`, `loop_prevention.rs`, `turn_manager.rs` | topic, rounds, turn budgets, votes, exhausted topics | gates stale when a slot comes, interruptions, failed sends | conversations are bounded, debts follow topics, nobody is wedged |
| Rift bridge: execution | `.../approval_dispatch.rs`, `execution/*`, `runtime.rs`, `control.rs` | registry of proposals, channel, pause watch, pipelines | approval against rejection, expiry, flush and pause | a proposal is decided once, attempts are earned, results are true |
| Room reconciler | `crates/syntheos-server/src/room_reconciler.rs` | fencing epoch, roster revisions, supervisors | sessions lost unnoticed, two leaders, swaps that fail | one bridge has an effect, the roster tells the truth, revisions are decided |
| Loom | `crates/henosis-loom` | workflow definitions, runs, steps | several tasks advance one run; timeouts against late answers | a step runs after its dependencies, an attempt settles once |
| Chiasm | `crates/henosis-chiasm` | tasks, queue, leases, dependency graph | sweeps over stale candidates, simultaneous completions | one taker, no cycle, no lost wake-up |
| Axon, durable Axon | `crates/syntheos-axon`, `-durable` | ring, log, cursors, retention | lag, crashes, rows deleted under a cursor | a cursor accounts for every row before it |
| Scheduled jobs | `crates/synapse-cron`, `runtime.rs` of the bridge | `jobs.json`, queue | two runtimes on one directory, failed saves | an occurrence is injected at most once, due jobs are decided |
| Stripe billing | `crates/henosis-plutus/src/billing`, `syntheos-server/src/billing.rs` | entitlements, tiers, event log | overlapping, repeated and reordered webhooks | a tier follows what was sold; every event settles |
| Plutus gate | `crates/henosis-plutus` | quotas, token bucket, status, roles | counters moved by several statements | no dimension passes its quota |
| Operator sessions and login limiter | `crates/syntheos-server/src/operator/auth.rs`, `crates/syntheos-identity` | refresh families, attempts per identity | policy read between two transactions; slow verification | one usable credential per family, a bounded number of guesses |
| Agent sessions | `crates/synapse-core` | contexts, turns, stored rows | asynchronous aborts, compression | one turn per context, calls have their results |
| Hephaestus tasks | `crates/henosis-hephaestus` | records, resume channel, mirrors and checkpoints in Kleos | crashes around questions and ends | no question alerted twice, nothing repeated |
| Hermes circuit breakers | `crates/henosis-hermes/src/circuit.rs` | four atomics | no lock: every access interleaves | it opens, lets probes in and closes again |
| Operator console, credential bindings, action reactor; Pistis, Eidolon; Soma, Thymus, Broca, cognition, memory; Hermes adapters, component host, credential store; Synapse providers and tools, Crucible; desktop; vendored code | `crates/*`, `apps/desktop`, `vendor` | see section 7 | - | not modelled |

## 2. Plan and status

The order follows importance: first the pipeline every consequential action goes
through, then the delivery of messages and events, then the workers.

1. *(done)* the three stores of the pipeline, each under arbitrary callers, with proofs;
2. *(done)* `OnceExecution`, the promise of the execution guard, and `GovernedDispatch`,
   which composes stores, wire and handlers and implements it, with proofs;
3. *(done)* Rift delivery from outbox to deduplication, with proofs;
4. *(done)* the rooms: `RoomCascade`, `ProposalExecution`, `RoomSupervision`, with proofs;
5. *(done)* the services: `Loom`, `Chiasm`, `DurableAxon`, `CronRuntime`, with proofs;
6. *(done)* the accounts: `StripeBilling`, `OperatorSessions`, `LoginLimiter`, with proofs;
7. *(done)* the agents: `AgentSession`, `PlutusGate`, `HephaestusTask` and
   `CircuitBreaker`, with proofs;
8. *(done)* the safety of every part as theorems, section 5: every invariant and every
   action property that a passing run checks is proved for all values of the constants;
9. next to model: the workspace and permission model of the Rift server, machine
   tokens, the reconnecting client of the desktop.

## 3. The modules and the code

### 3.1 The pipeline

`GovernedRequests` holds what the stores share. A *request* is the canonical hash
of the request envelope; a *slot* is a principal's idempotency key. Everything is
for one tenant, since every table is keyed by tenant and no operation relates two.

| Module | Variables | Code |
| --- | --- | --- |
| `ApprovalStore` | `approvals`, `now` | table `approval`; the wall clock. Actions are the methods of `ApprovalStore`; the time each is given was read up to `MaxLag` before its transaction, because callers read the clock before they take the mutex |
| `AuditStore` | `log`, `attached`, `ledger`, `resolutions`, `stream` | `audit_events`, its receipt column, `execution_records`, `execution_resolutions`, `audit_stream_state`. Each action is one immediate transaction. The row number stands for the row's hash: hashes are collision free and cover the previous hash |
| `Witness` | `witnessReceipts`, `witnessHead` | the tables of the witness; `Accept` and `Refuse` are the outcomes of `accept` |
| `OnceExecution` | `record`, `effects` | the contract in `syntheos-dispatch/src/guard.rs` |
| `GovernedDispatch` | the above, `task`, `orphans`, `effects` | a task is one HTTP handler; `pc` names its next call, `row` and `wire` the checkpoint it waits for. `orphans` are checkpoints in flight whose sender is gone. `effects` counts side effects and is a history variable |

The calls of a dispatch are: `human` (gates), then in witnessed mode `lookup`,
`append_intent`, `await_intent`; `acquire`, `consume`, `execute`; then
`append_outcome`, `await_outcome`, `complete`, or after an executor error
`append_failure`, `await_failure`, `mark`; at last `executed`, the answer. `OnError`
gives the error path of each call. Store calls are synchronous and atomic; everything
else interleaves. Choices made on the way:

- pistis, plutus and eidolon precede the human gate and touch none of this state, so
  a request they deny never shows; phylaxd, after it, is the choice to end there.
- A failing `mark_execution_indeterminate` in the failed-outcome path is tried a
  second time by the dispatcher; a failed first try followed by a successful second
  is, up to stuttering, the successful one, and two failures end the handler.
- A result above the storage limit (`Oversized`) fails the completion after its
  outcome has been appended and witnessed, as in the code.
- A conclusion stands for the operator's verdict together with its evidence digest.
- The gate's own, earlier clock reading can expire nothing that `get`, which reads
  the clock later, does not already show as expired; clocks do not run backwards here.
- An executor call dropped with its handler may or may not take effect, at once. An
  executor that reports an error and takes effect much later is not modelled.

### 3.2 The other parts

Each module below is about one instance of its component: one channel and one
bridge, one room, one run, one org, one task, one breaker. What the code keys by
tenant, room or id is independent per key.

| Module | State and what cuts a step | Abstracted |
| --- | --- | --- |
| `RiftDelivery` | rows, outbox, the gateway's ring, a connection's queue, the bridge's inbox and ledger; steps are transactions, publications, hops and admissions; both processes crash | payloads; an event id has one fingerprint |
| `RoomCascade` | one room's topic, plan, budgets, votes and memory of topics; steps are the awaits of `run_cascade` | engagement probabilities, embeddings and drafts are choices |
| `ProposalExecution` | registry, channel, pause edge, drain, permits and pipelines of the proposals; steps are lock scopes and awaits | prompts, sandboxes and git are outcomes |
| `RoomSupervision` | lock, epoch, roster row, and per process its fence, supervisor, bridge, memory and hint; steps are queries and waits | materialisation, preflight and start are outcomes |
| `Loom` | definitions, one run, its steps and attempts, the tasks that advance it, the sweeper; steps are transactions, executors run between them | inputs and outputs |
| `Chiasm` | tasks with their `rowid`, leases, edges, sweeps in progress, owed unblock calls; steps are transactions with clock readings taken earlier | notes, history, statistics; the walk of `reaches` is "in every set of tasks closed under the edges" |
| `DurableAxon` | log, ring, cursors, batches in hand | payloads |
| `CronRuntime` | `jobs.json`, the runtimes' copies and queues, leadership as last read | cron expressions are periods |
| `StripeBilling` | tables, deliveries in progress, acknowledgements; each statement a step | signatures |
| `PlutusGate` | org row, counters, bucket, requests in progress, clock; local backend atomic, hosted backend statement by statement | names of dimensions and roles |
| `OperatorSessions` | families, sessions, policy, requests in progress; steps are transactions and policy calls | hashing, signing |
| `LoginLimiter` | entries per identity, reservations, verification jobs | passwords are a choice |
| `AgentSession` | contexts, turns cut at their awaits, stored rows; `unsaved` and `sound` are history variables: messages whose insert failed, sessions that began with a complete history. `send` is one step although it looks at the handle (`manager.rs:331`) and stores the new one (`:369`) under two locks: its only caller, the loop of the TUI (`synapse-tui/src/main.rs:239`), sends one message at a time | a message is its kind, turn and round, and the calls it makes or answers |
| `HephaestusTask` | record, resume channel, executor, mirrors and checkpoints; `cutShort` is a history variable: the questions whose alert a crash came before | model, tools and gate are outcomes |
| `CircuitBreaker` | four atomics and the place of every call; every atomic access is a step | latencies |

Wherever a definition is marked *Variant*, it is a plausible mistake in the code
beside the definition it is a variant of; the runs reject each of them.

## 4. Runs

All bounds are constants of the `.cfg` files or of the `MC` modules. Deadlock is
checked in every passing run; a component that may really stop for good has an
explicit `AtRest` step.

The pipeline and Rift delivery are checked as compositions of what interacts. The
other parts share no state with each other, so several of them are checked in one
run as a *sum*: the variable `part` is chosen at the start, one component then
takes all the steps and the others stay at their initial values. A sum has the
behaviours of its parts and no others; nothing of one part is assumed by another.

The `MC` modules of the safety runs extend the components, so that an invariant of a
run is the very definition that a theorem of section 5 proves. Where one set of
constants would be too much, a part takes the steps of an instance with fewer inputs
on the same state (`OneLife`, `TaskSteady`, `GateLocal`, ...), which only leaves out
behaviours of the component. The liveness runs are instances with variables of their own.

| Run | Instance | Shows |
| --- | --- | --- |
| `stores` | approvals: 2 requests, 2 actors, 3 rows, lifetime 2, lag 1, time to 4; audit: 2 requests on 1 slot, 3 results of which 1 is oversized; witness: histories of 2 contents up to length 6 | finality and deadlines with stale clock readings; receipts under every order of every fork; the ledger on the log under every order of transactions |
| `dispatch_local` | 2 handlers, 2 requests on 1 slot, one needs approval, 2 approval rows, time to 2, crashes, dropped handlers, failing transactions | at most one effect per key, effects and claims only under an approval, and the refinement of `OnceExecution` |
| `dispatch_witnessed` | 2 handlers, 2 requests on 1 slot, one needs approval, 2 operators, all failures | intents before effects, reported results durable, receipts truthful, four eyes, conclusions final |
| `rift` | 2 events, queues of 1, 2 crashes, a ledger with room for both events or for one | acted on once; no gap on a connection; a committed message is published and acknowledged |
| `rooms` | cascade: 3 agents, 2 topics, budget 2, ceiling 3, 2 rounds, 2 seeds; execution: 2 proposals, 2 attempts, 1 permit, channel of 1; supervision: 2 processes with 3 revisions, or 2 revisions, 1 fault and 1 lost status write, each with 1 retry | safety of the rooms |
| `services` | Loom: 3 steps (a fork and a cyclic definition), 1 retry of up to 2 steps, 1 crash, and all graphs of 3 steps; Chiasm: 2 tasks with leases and a sweeper to time 2, 3 tasks with plans, 2 agents at the queue; Axon: 3 events, 2 topics, ring of 1, 1 crash; cron: 2 runtimes, 2 jobs, 2 faults, time to 3 | safety of the services; an ended run and the task of a live worker are left alone by late steps (`TerminalKept`, `StaleKept`); definitions are refused exactly when they should be (`DefinitionsSound`; `refused` is the last refused definition, a history variable) |
| `accounts` | billing: two sets of events, 2 deliveries at a time, 1 fault; sessions: 2 requests, 3 credentials; limiter: 2 logins, 2 identities, room for 1 | safety of the accounts |
| `agents` | 2 turns, three times: of 2 calls with 1 failure (`TurnsOne`), of 2 rounds with what compression cuts off (`TurnsCut`), and in 2 sessions of which one may resume the row of the other (`TurnsTwo`); task: 2 crashes with a lost write and stale searches, 2 crashes with 2 questions over 2 turns, or 3 clients; breaker: 2 calls at a time, threshold 2, unrecorded calls; gate: 4 requests of an operator on the local backend with a clock that is set back, 3 members on the hosted one | safety of the agents |
| `rooms_live` | cascade: 2 agents; execution: 2 proposals, 1 attempt, channel of 2, with a leadership guard; supervision: 2 processes, 2 revisions, 1 fault, without what bridges say, which no supervisor looks at | a cascade ends, an approved proposal is released and its dispatch ends, a revision is decided |
| `services_live` | smaller instances; the pipeline twice: 2 handlers with a witness, and 1 handler whose request needs an approval that may expire between the gate and its consumption | handlers and claims settle; runs end, kept events are consumed, due jobs are decided; Stripe's events settle; turns and tasks end; a breaker closes again |
| `doc_recoverable`, `doc_canceled` | the smallest instance that shows it | findings, section 6 |

**Why these bounds.** Two handlers, two processes or two requests are enough for the
races: each hazard is between one actor and another, an operator or a failure, and
finished handlers are reused, so sequences of requests are unbounded. One fault
makes every step meet a failure once; a second where recovery from recovery
matters (Rift, the executor's task, cron). Three revisions let a newer one arrive
while an older is being applied; four requests are what it takes to refill one tick
of the bucket twice. In the composed pipeline the clock lag
is 0: stale readings are checked in `ApprovalStore`. Handlers, processes and calls
are symmetric in the safety runs, where four requests of one operator differ in nothing
and one of them may as well come last; no liveness run uses symmetry.

**Where a property is about part of the behaviour**, its comment says so. A path is
shared only after a lease was *revived* by a heartbeat. `CallsAnswered` leaves out
results whose calls compression has cut off. `NoWedge` allows a breaker that waits
for nobody only after a call that ended unrecorded or with a `half_open_max` of 0, and
`Recovers` (in `AgentProgress`) is checked with every answer recorded and probes let in.
`QuestionsReach` states that no question is alerted twice, that a question the task waits
with was alerted unless a crash came between its checkpoint and its alert (`cutShort`),
and that a paused task can be resumed as long as the server has not crashed; it does not
state that every question is alerted. `DueIsDecided` (in `ServicesProgress`) is about the
file and about what the leading runtime holds in memory, since a failed save may have
replaced the file. And `NothingRepeated` that nothing is
repeated until a write is lost or a search returns an older record first (`stale`);
`TaskSettles` is checked without such searches. The rate of the token bucket is claimed for
the local backend only. Section 6 says what the code does outside these limits.

**Fairness.** Always of the system's own steps, never of people:

- handlers of the pipeline: weak fairness of each started handler, which includes the
  request timeout of the witness client;
- the room's future, the drain, the control handlers and each pipeline are polled; a
  permit is granted under strong fairness, as the semaphore is first come, first served;
- supervisors run and take the free lock, and the database drops the session of a dead
  process;
- Loom: tasks advance, inline executors answer, deadlines come and the sweeper runs;
- consumers consume each topic again and again (strong, since a handler in progress
  excludes the next consume); Stripe delivers again what has no 200; runtimes of cron work;
- agents: turns are polled and providers and tools answer or fail; the executor of a task
  runs and the service is started again after a crash;
- breakers: time passes and calls come and end;
- Rift: the outbox dispatcher of a running server takes its next step; connections, bridge
  and clients owe nothing.

`ClaimsSettle` is checked without crashes, dropped handlers and failing transactions
because the code does not claim it with them; `RunEnds` without crashes because a
crash between a completed step and the claim of its successors waits for an outside
call; `ApprovalReleased` with room in the channel, see section 6.

## 5. Proofs

TLAPS checks these for all values of the constants, from named assumptions on them. Of
the pipeline and Rift delivery these are `RequestConstants`, `ApprovalConstants`,
`AuditConstants`, `WitnessConstants`, `DispatchConstants`, `DeliveryConstants`; the
only one that is not about types is that a clock reading is younger than the lifetime of
an approval, 15 minutes in the code. Each other module has one predicate
(`LoomConstants`, `ChiasmConstants`, ...) that the theorems assume and that the `MC`
modules check of every instance: types, limits and capacities above zero where the code
has them so, finitely many requests, jobs, steps and proposals, and marks for "nobody" and
"nothing" that are no names.

| Module | Theorems about |
| --- | --- |
| `Stores_proofs` | `ApprovalStore`, `AuditStore` |
| `GovernedDispatch_proofs` | the pipeline |
| `RiftDelivery_proofs` | Rift delivery |
| `Rooms_proofs` | `RoomSupervision`, `ProposalExecution`, `RoomCascade` |
| `Services_proofs` | `CronRuntime`, `DurableAxon`, `Witness` |
| `Tasks_proofs` | `Loom`, `Chiasm` |
| `Accounts_proofs` | `StripeBilling`, `OperatorSessions`, `LoginLimiter` |
| `Agents_proofs` | `CircuitBreaker`, `PlutusGate`, `HephaestusTask`, `AgentSession` |

### 5.1 The pipeline and Rift delivery

- **Approval store** (`ApprovalInv`: types, `RowHistory`, `GenerationsOrdered`).
  `create_or_get_pending` looks at the latest row only; that an older row cannot be
  alive needs that generations do not overlap by more than the lag, which needs that
  a row is expired only after its deadline. `DecisionIsFinal`, the lifecycle and
  `DecidedInTime` follow.
- **Witness** (`WitnessInv`). Receipts are dense up to the head and each cites the one
  before; so a new one can only extend the chain.
- **Audit store** (`AuditInv`: types, unique events, ledger and conclusions on the
  log). Every operation is shown to keep it, and `LedgerStep` and `LogStep` with it.
- **Pipeline, claims** (`ClaimInv`). A handler past `acquire` *owns* an open claim
  (`OwnerOK`), a claim has one owner (`OneOwner`), and an effect belongs to the holder
  of its slot (`EffectsHeld`). `AtMostOnce` alone is not inductive: that `Execute`
  finds no earlier effect is known only because the owner is unique and had none.
  `AtMostOnceTheorem` follows, and `RefinesOnceTheorem` by mapping `record` to the
  ledger without its intent rows: `Acquire` is `Claim`, `Execute` and `Abandon` are
  `Happen`, `Complete` is `Settle`, `Mark` is `GiveUp`, all else stutters.
- **Pipeline, receipts** (`WireInv`). A checkpoint in flight is for a row of the log,
  an accepted one is preserved; hence receipts are truthful and recovery is sound.
- **Pipeline, evidence** (`EvidenceInv`). What a handler has read is still true when it
  acts: `EvidenceOK` relates its `pc` and `row` to the log, the ledger and the approval it
  cites, for every place between two awaits. That an approval read as approved is still
  the one that is consumed needs `ClaimedUnderApproval` of the claims made meanwhile, and
  a replayed answer needs that a completed record has its outcome on the log
  (`LedgerOnRecord`). `ApprovedEffect`, `ClaimedUnderApproval`, `IntentBeforeEffect`,
  `ReportedDurable` and, from `NoSelfApproval`, `FourEyes` follow.
- **Composition** (`UsesAuditStore`, `UsesApprovalStore`). The pipeline implements the
  specifications of its stores, so their theorems hold in it, `DecidedInTime` among them.
- `ConcludedIsOverTheorem` combines the claims with the audit store: a concluded
  execution is indeterminate, so nobody owns its slot any more.
- **Rift delivery.** The ledger and the guards in memory together remember every effect
  (`ActedOnce`); a row that the dispatcher has claimed is pending and everything older
  was published before it (`DeliveredWasPublished`, `PublishedInOrder`); the counter of
  the ledger equals its rows, so that it can be reopened (`LedgerReopens`); claims are
  never lost or reopened (`ClaimsMonotone`). `GapFree` follows from `StreamOK`: what was
  heard, what is on the wire and what waits in the ring are consecutive parts of what was
  published since the subscription, and a forwarder that cannot queue an event ends.

### 5.2 The other parts

Each theorem is `Spec => []Safety` through an inductive invariant stated at the end of the
module, which TLC has checked on the instances of the runs.

- **Supervision** (`SupervisionInv`). Epochs are given out once and only a process that has
  one runs a bridge (`EpochsOK`): a process that lost its session unnoticed still has a
  bridge, but under an epoch that is over. `HistoryKept` needs `LeaderOK`, that whatever
  the current leader may yet report as good is no older than what the room has, which in
  turn needs what a process has read at each of its places (`StageOK`, `MemoryOK`).
- **Execution** (`ExecutionInv`). `FateOK` and `RunOK` say for one proposal how its place in
  the registry, its fate, its stage, attempts, result and posts belong together; steps
  about one proposal leave the others alone.
- **Cascade** (`CascadeInv`). The total of a topic is the number of pairs of an agent and a
  turn it has taken (`WithinBudget`), so that one more turn of one agent is one more in
  total, without a sum to unfold; the clusters that are remembered keep to the same bounds
  and have distinct topics, in whatever order one of them is taken out, put back or evicted
  (`ClustersOK`); and the gates that the speaker passed before it composed still let it
  through when it posts, since nobody else is charged in between (`SpeakerMayPost`).
- **Loom** (`LoomInv`). A claimed attempt is in the queue of one task, the only one that can
  hand it to an executor (`ClaimsOK`), so tasks that captured the same steps execute each
  attempt once. An outcome belongs to the row's attempt or an earlier one (`OutcomesOK`),
  and transitions demand the exact attempt, so late answers find nothing. `TerminalTheorem`
  says that an ended run stays as it is.
- **Loom's definitions** (`AcceptedExactly`, `DefinitionsTheorem`). The code consumes, level
  after level, the steps all of whose dependencies are consumed; what that should mean is
  `Levelled`: the steps fit on as many levels as the limit allows, every dependency on a lower
  one. The levels of the recursion grow until one adds nothing and are the same from then on
  (`LevelsStay`), so as many of them as there are steps are enough (`LevelsEnough`). The level
  on which a step is first consumed is a place for it; and a step with a place is consumed by
  that level. Both are by induction over the levels, which a least counterexample gives
  (`LeastNumber`, from `WFMin` and `NatLessThanWellFounded`).
- **Chiasm** (`ChiasmInv`). A task that was handed out keeps an assignee, whatever updates
  do to its status (`TakenOnce`); a stored heartbeat is older than its recording by no more
  than the skew (`BeatsKnown`), which gives `StaleTheorem`. The plan is acyclic when among
  any tasks one depends on none of them; if `add_dependencies` broke that for some tasks,
  one of them would walk back to the source of the new edges. No lost wake-up: outside of
  changes of the plan a task becomes ready only when a dependency completes, whose call is
  then owed, and a call wakes all ready dependents of its task.
- **Durable bus** (`AxonInv`). No row or cursor is beyond `sqlite_sequence` (`LogOK`), so a
  row appended after a deletion is ahead of every cursor; what is on its way to a live
  subscriber is in the log (`BusOK`).
- **Scheduled jobs** (`CronInv`). The decisions that *stand*, injected or in the queue of a
  runtime that may still inject them, are apart from each other (`QueuesApart`), in the file
  and known to the leader (`StandingKnown`); a runtime about to tick that does not know one
  has a schedule that is behind (`ScheduleOK`), so that it decides nothing twice. A save that
  fails after the file was replaced moves the file ahead of the decisions (`UnsavedStep`).
- **Billing** (`BillingInv`). `DeliveryOK` says what a delivery knows before each of its
  statements; nothing of it can change any more, since it is about its own event.
- **Gate** (`GateInv`). Every count belongs to a request that is past the counter
  (`CountersOK`), and what the bucket let through and still holds comes from its first
  filling and the time up to the base of the refill, which no clock runs ahead of.
- **Sessions** (`AccessInv`). A handler that has not noticed an end began before it
  (`Began`), so the token it mints ends within a lifetime of it.
- **Limiter** (`LimiterInv`). Each attempt has a number of its own (`AttemptsDistinct`), so the
  charges of a window can be counted; a window that is not over and has no entry has no
  charge (`WindowsOK`), which is why a refund must be for the window that was charged.
- **Breakers** (`BreakerInv`). With the values of the atomics, `NoWedge` is inductive. No
  constant is assumed to be above 0, since the environment sets them unchecked; `NoWedge`
  itself has the premise that probes are let in, and `NoProbesTheorem` is about the other
  case: with none, a half-open breaker stays `Stuck`.
- **Hephaestus** (`TaskInv`). A new question is numbered above every alert (`QuestionsNew`);
  a question is asked in silence only if its alert was made or cut off, and every question
  on record but the one about to be alerted is one of those (`QuestionsTold`);
  without a crash the sender is staged before the task shows as paused (`Answerable`); the
  newest mirror tells where the executor was (`MirrorsTell`), and no checkpoint has more
  turns than the executor that goes on from it (`TurnsGrow`).

- **Agent sessions** (`SessionInv`). `SessionSafety` relates three things that move at
  different moments: a turn writes to its row before the context gets the message, or after,
  and may be stopped in between; a row may be loaded into another session while its turn still
  runs. The messages of a turn have a `Rank`, and `RowRank` and `ContextRank` say how far the
  turn has come in each; neither ever goes back (`RankOnward`), which is why nothing is written
  or said twice (`RowOK`, `ContextOK`). What is written and not yet said is *ahead* of the
  context (`InHandOK`: everything the context has is before it in the row), so that saying it
  keeps the order; what is said and not yet written are the last results of the last message
  (`TodoOK`), so that writing them from the least call on keeps it, too. A resumed context has
  what other turns had written when it was loaded (`Sourced`), and those may write on. Without
  this the order in the row is not inductive. `CallsAnswered` follows from `SoundOK`: a
  complete history stays complete when a whole exchange is added (`MatchedExchange`), and
  compression takes calls from their results only at its cut, where the results follow the
  summary (`MatchedCompressed`). One turn at a time needs that an aborted turn keeps its handle
  until it is finished (`HandlesOK`).

Some theorems are about properties no run lists any more, because the proof says
more than the instance did: `RecoverySound`, `LedgerMonotone`, `LogAppendOnly`,
`EventsUnique`, the generations and the lifecycle of approvals, and the Rift theorems
other than `ActedOnce`.

Only model-checked: liveness (`CommittedIsDelivered`, `RoomProgress`, `DispatchSettles`,
`ServicesProgress`, `AgentProgress`), which needs fairness and ENABLED, and the
counterexamples of section 6. Where a proof needs induction over data, as for the levels of a
definition, it takes a least counterexample with `WFMin` instead of the library's induction theorems, whose operator parameter the provers cannot instantiate.

## 6. Findings

Two runs show a disagreement between the code and what the repository says of it:

1. `doc_recoverable`: the README says that a blocked stream can be restored once the
   witness is healthy. Recovery retries the head only; when the witness is more than
   one row behind, it refuses the head as out of sequence, for ever.
2. `doc_canceled`: a comment says of the recorded outcome that the entitlement was
   canceled and the org was downgraded to Free. The tier is written after the
   entitlement and outside its transaction; a cancellation that commits between the
   two leaves the row canceled and the org on the paid tier.

### 6.1 Other disagreements met while modelling

Each was seen as a counterexample in the model of its part. The passing properties
are stated so that they exclude exactly these (section 4).

| Where | What the code does | What is said of it |
| --- | --- | --- |
| `syntheos-dispatch/src/dispatcher.rs:262` | an execution cut off by a crash or a dropped client stays *claimed*: not replayed, but not in the operators' queue either | README: it is kept *indeterminate* |
| `syntheos-server/src/authority.rs:837` | an ambiguous checkpoint of a *failed* outcome leaves the stream open | README: it blocks later audit writes |
| `henosis-rift-bridge/src/room.rs:594` | a cascade interrupted after the post that reached the ceiling leaves no record of its topic | `room.rs:591`: hitting the ceiling exhausts the topic |
| `henosis-loom/src/store.rs:1691` | the sweeper runs retries of inline steps itself, without a limit; one that hangs ends the enforcement of all timeouts | `model.rs:322`: timeouts are enforced by the sweep |
| `syntheos-server/src/room_reconciler.rs:1300` | a failure is latched before its status is written; when that write fails, nobody writes it again | `:1516`: the poll loop will heal it |
| `henosis-plutus/src/billing/pipeline.rs:294` | gate and log row are separate statements: overlapping deliveries are both applied | `0002_plutus_billing.sql:48`: at most once |
| `henosis-plutus/src/store.rs:791` | `FOR UPDATE` locks nothing before the bucket row exists, and an older clock reading refills time twice | `:762`: concurrent takes are serialised |
| `synapse-core/src/context.rs:143` | compression can cut between a call and its result | `compression.rs:4`: recent context stays intact |
| `synapse-core/src/session_runtime/manager.rs:211` | a closed session's turn may still write its row when the row is resumed | `:280`: threads must not interleave in a row |
| `synapse-core/src/agent.rs:210` | a failed stream ends as `Done` | `types.rs:28`: the last turn completed cleanly |
| `synapse-core/src/session_runtime/manager.rs:199` | events of an aborted turn are applied over `Cancelled` and may leave `Thinking` | `:182`: `Cancelled` is terminal |
| `henosis-hermes/src/circuit.rs:440` | a probe that ends in a client error, or is dropped, is counted and never recorded: the breaker stays half open | `:104`: it recovers in about `recovery_eta_ms` |
| `henosis-hermes/src/circuit.rs:94` | a `half_open_max` of 0 is accepted: a half-open breaker lets nobody in and stays half open | `:104`: as above |
| `henosis-hermes/src/circuit.rs:191` | the count of probes is cleared after the exchange, so one probe more may run | `:71`: maximum of concurrent probes |
| `henosis-hephaestus/src/lib.rs:137` | an older record returned first restarts a finished task | `tasks.rs:733`: the scan skips it |
| `henosis-hephaestus/src/tasks.rs:808` | after a crash between the paused checkpoint and the alert nobody is alerted | `:806`: skipped only to avoid a double alert |
| `henosis-hephaestus/src/lib.rs:144` | a recovered record is paused before its channel exists: 409 | `:778`: the channel is staged first |

### 6.2 What a reader of the code should know

- An approval whose handler is dropped while the channel to the drain is full waits for
  the next unpause or rejection.
- Durable consumers are at most once after the transaction that moves the cursor: a crash
  while a batch is in hand loses the batch for them.
- Leases of Chiasm that a heartbeat revives may share a path; a blocked task whose last
  dependency is removed from the plan, rather than completed, is not woken.
- The initial roster is imported without a fence, while the room has no desired revision.
- A crash between the insert of a call and of its results leaves a row that resume loads
  as it is.
- A reply to Hephaestus that was answered 200 is lost by a crash before the next checkpoint;
  its searches return at most 50 checkpoints and 200 records.
- A save of `jobs.json` that fails after the rename (`scheduler.rs:103`) has moved the file on;
  when the runtime then ends before it saves again, the occurrence is skipped.
- A lost response to a refresh costs the operator the session. Identities evicted from the
  full map of the login limiter start again at zero.

## 7. Not modelled

- **No state to check, or input and output only**: context and personas of the bridge,
  the SQLite path guard, provider clients and tools of Synapse, Crucible, the adapters of
  Hermes, the component host, the credential store, Soma, Thymus, Broca, cognition and memory
  clients, vendored code and packaging.
- **Thin layers over modelled stores**: the operator console, credential bindings and the
  action reactor. Pistis and Eidolon decide without state of their own and appear as
  requests that never reach the human gate.
- **Left for later**: the workspace, membership and permission model of the Rift server,
  machine tokens, the desktop's reconnecting client, and the command line.
- **Inside modelled parts**: signatures and hashing (assumed collision free and
  unforgeable), input validation, JSON, schema migrations, the databases' own locking and
  durability (a transaction is atomic and durable), best-effort notifications,
  authentication of requests, and read-only queries. `add_job` and `remove_job` of the
  scheduler have no caller in the running system.

The repository has about 175,000 lines of implementation, most of it request parsing,
rendering, clients, command lines and user interface. The models cover the state
machines; a large share of the lines has none.
