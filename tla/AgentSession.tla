---------------------------- MODULE AgentSession ----------------------------
(***************************************************************************)
(* Agent sessions. A SessionManager holds live sessions; send runs one     *)
(* turn of the agent loop on a task of its own, cancel and close abort it, *)
(* resume reopens a stored row as a new session. A turn is cut at its      *)
(* awaits: an abort takes effect at the next of them, and a task that is   *)
(* being polled runs on until then. What the turn writes to the row is     *)
(* written before or after the context, without a transaction around the   *)
(* two. A message is its kind and the turn and round it comes from.        *)
(***************************************************************************)
EXTENDS Integers, Sequences

CONSTANTS
  MaxRounds,      \* AgentConfig::max_turns: rounds of one turn
  MaxCalls,      \* tool calls of one answer
  Compression,   \* whether AgentConfig::compression is set
  KeepRecent,    \* CompressionConfig::preserve_recent
  MaxSessions, MaxTasks, MaxFaults   \* bounds: sessions opened, turns sent, failures

(* What the constants are assumed to be, by the modules that give them values. *)
TurnConstants ==
  /\ MaxRounds \in Nat /\ MaxCalls \in Nat /\ KeepRecent \in Nat /\ Compression \in BOOLEAN
  /\ MaxSessions \in Nat /\ MaxTasks \in Nat /\ MaxFaults \in Nat

Sids == 1 .. MaxSessions
Tids == 1 .. MaxTasks

VARIABLES
  next,     \* next_id: the sessions 1 .. next - 1 have existed
  open,     \* the keys of the sessions map
  row,      \* config.session_id, 0 for a session without persistence
  ctx,      \* ConversationContext::messages
  handle,   \* the turn whose JoinHandle the session holds, 0 for none
  status,   \* SessionSnapshot::status
  tasks,    \* the turns sent so far
  store,    \* the turns table, by session row
  faults,
  unsaved,     \* history: messages whose insert failed
  sound     \* history: sessions whose history was complete when it was loaded

live == <<next, open, row, ctx, handle>>
sessionVars == <<live, status, tasks, store, faults, unsaved, sound>>

Message(kind, t, round, of) == [kind |-> kind, turn |-> t, round |-> round, of |-> of]
Summary == <<Message("user", 0, 0, {}), Message("text", 0, 0, {})>>
Kinds == {"user", "text", "calls", "result"}
Messages == [kind : Kinds, turn : Nat, round : Nat, of : SUBSET Nat]

\* The awaits of a turn at which it really gives way, and the rest of its steps.
Awaits == {"start", "user", "compress", "answer", "tools", "calls", "text"}
TurnSteps == Awaits \cup {"loop", "persist", "finished"}
SessionStatuses == {"idle", "thinking", "tool", "done", "error", "cancelled"}

Finished(t) == tasks[t].pc = "finished"
Running(s) == handle[s] # 0 /\ ~Finished(handle[s])

Turns ==
  [sid : Sids, pc : TurnSteps, round : 0 .. MaxRounds, calls : 0 .. MaxCalls,
   stop : BOOLEAN, todo : SUBSET (1 .. MaxCalls), aborted : BOOLEAN]

SessionTypeOK ==
  /\ next \in 1 .. MaxSessions + 1 /\ open \subseteq 1 .. next - 1
  /\ tasks \in Seq(Turns) /\ \A t \in DOMAIN tasks : tasks[t].sid < next
  /\ store \in Seq(Seq(Messages)) /\ Len(store) < next
  /\ row \in [Sids -> 0 .. Len(store)] /\ handle \in [Sids -> 0 .. Len(tasks)]
  /\ ctx \in [Sids -> Seq(Messages)] /\ status \in [Sids -> SessionStatuses]
  /\ faults \in 0 .. MaxFaults /\ unsaved \subseteq Messages /\ sound \subseteq 1 .. next - 1

SessionInit ==
  /\ next = 1 /\ open = {} /\ row = [s \in Sids |-> 0] /\ ctx = [s \in Sids |-> <<>>]
  /\ handle = [s \in Sids |-> 0] /\ status = [s \in Sids |-> "idle"]
  /\ tasks = <<>> /\ store = <<>> /\ faults = 0
  /\ unsaved = {} /\ sound = {}

-----------------------------------------------------------------------------
(* The manager.                                                            *)

\* A session enters the map, idle.
Insert(r, messages) ==
  /\ next \in Sids
  /\ next' = next + 1 /\ open' = open \cup {next}
  /\ row' = [row EXCEPT ![next] = r] /\ ctx' = [ctx EXCEPT ![next] = messages]
  /\ UNCHANGED <<handle, status, tasks, unsaved>>

\* A store that cannot create the row leaves a session without persistence.
Spawn ==
  \/ /\ store' = Append(store, <<>>) /\ UNCHANGED faults
     /\ Insert(Len(store) + 1, <<>>) /\ sound' = sound \cup {next}
  \/ /\ faults < MaxFaults /\ faults' = faults + 1 /\ UNCHANGED store
     /\ Insert(0, <<>>) /\ sound' = sound \cup {next}

\* The messages i + 1 .. j are results of the calls at i.
ResultsOf(ms, i, j) ==
  /\ ms[i].kind = "calls"
  /\ \A k \in i + 1 .. j : /\ ms[k].kind = "result"
                           /\ ms[k].turn = ms[i].turn /\ ms[k].round = ms[i].round

\* A result whose calls compression has replaced by the summary before it.
CutOff(ms, i) == ms[1] = Summary[1] /\ i > 2 /\ \A k \in 3 .. i : ms[k].kind = "result"

\* Every call is answered by all its results before anything else is said, and
\* no result stands without its call, but where compression cut the two apart.
CallsMatched(ms) ==
  \A i \in DOMAIN ms :
    /\ ms[i].kind = "calls" =>
         \E j \in i + 1 .. Len(ms) :
           ResultsOf(ms, i, j) /\ UNION {ms[k].of : k \in i + 1 .. j} = ms[i].of
    /\ ms[i].kind = "result" => CutOff(ms, i) \/ \E j \in 1 .. i - 1 : ResultsOf(ms, j, i)

\* The browser resumes a row that find_by_stored_session_id finds in no session.
Resume(r) ==
  /\ \A s \in open : row[s] # r
  /\ Insert(r, store[r])
  /\ sound' = IF CallsMatched(store[r]) THEN sound \cup {next} ELSE sound
  /\ UNCHANGED <<store, faults>>

\* One turn at a time: a message is dropped while the last turn is unfinished. The
\* code looks at the handle and stores the new one under two locks; that is one
\* step because the loop of the TUI, the only caller, sends one message at a time.
SendTo(s) ==
  /\ s \in open /\ ~Running(s) /\ Len(tasks) < MaxTasks
  /\ tasks' = Append(tasks, [sid |-> s, pc |-> "start", round |-> 0, calls |-> 0,
                             stop |-> FALSE, todo |-> {}, aborted |-> FALSE])
  /\ handle' = [handle EXCEPT ![s] = Len(tasks) + 1]
  /\ UNCHANGED <<next, open, row, ctx, status, store, faults, unsaved, sound>>

\* cancel: the handle stays in place until the aborted task is finished.
AbortTurn(s) ==
  IF Running(s) THEN /\ tasks' = [tasks EXCEPT ![handle[s]].aborted = TRUE]
                     /\ status' = [status EXCEPT ![s] = "cancelled"]
                     /\ UNCHANGED handle
                ELSE UNCHANGED <<tasks, status, handle>>

Cancel(s) ==
  /\ s \in open /\ AbortTurn(s)
  /\ UNCHANGED <<next, open, row, ctx, store, faults, unsaved, sound>>

CloseSession(s) ==
  /\ s \in open /\ AbortTurn(s) /\ open' = open \ {s}
  /\ UNCHANGED <<next, row, ctx, store, faults, unsaved, sound>>

\* The process dies with its sessions and turns; the rows stay.
ManagerCrash ==
  /\ open # {} /\ faults < MaxFaults /\ faults' = faults + 1
  /\ open' = {} /\ handle' = [s \in DOMAIN handle |-> 0]
  /\ tasks' = [t \in DOMAIN tasks |-> [tasks[t] EXCEPT !.pc = "finished"]]
  /\ UNCHANGED <<next, row, ctx, status, store, unsaved, sound>>

-----------------------------------------------------------------------------
(* One turn.                                                               *)

TurnAt(t, pc) == tasks[t].pc = pc
TurnTo(t, pc) == tasks' = [tasks EXCEPT ![t].pc = pc]
Session(t) == tasks[t].sid
Show(t, s) == status' = [status EXCEPT ![Session(t)] = s]
Add(t, messages) == ctx' = [ctx EXCEPT ![Session(t)] = @ \o messages]

\* persist_turn: a failed insert is logged and the turn goes on without it.
Persist(t, message) ==
  LET r == row[Session(t)] IN
  \/ /\ r = 0 /\ UNCHANGED <<store, faults, unsaved>>
  \/ /\ r # 0 /\ store' = [store EXCEPT ![r] = Append(@, message)] /\ UNCHANGED <<faults, unsaved>>
  \/ /\ r # 0 /\ faults < MaxFaults /\ faults' = faults + 1
     /\ unsaved' = unsaved \cup {message} /\ UNCHANGED store

\* The abort of a cancelled turn takes effect at an await.
Stop(t) ==
  /\ tasks[t].aborted /\ tasks[t].pc \in Awaits /\ TurnTo(t, "finished")
  /\ UNCHANGED <<live, status, store, faults, unsaved, sound>>

\* The task root cannot be opened: the turn ends before it begins.
NoRoot(t) ==
  /\ TurnAt(t, "start") /\ faults < MaxFaults /\ faults' = faults + 1
  /\ TurnTo(t, "finished") /\ Show(t, "error")
  /\ UNCHANGED <<live, store, unsaved, sound>>

\* The message is persisted, and then waits for the lock of the context.
PersistUser(t) ==
  /\ TurnAt(t, "start") /\ Persist(t, Message("user", t, 0, {})) /\ TurnTo(t, "user")
  /\ UNCHANGED <<live, status, sound>>

AddUser(t) ==
  /\ TurnAt(t, "user") /\ Add(t, <<Message("user", t, 0, {})>>) /\ TurnTo(t, "loop")
  /\ UNCHANGED <<next, open, row, handle, status, store, faults, unsaved, sound>>

\* The top of the loop: out of rounds, or TurnStart and the next request, for
\* which an aborted turn waits in vain.
Round(t) ==
  /\ TurnAt(t, "loop")
  /\ IF tasks[t].round >= MaxRounds
       THEN TurnTo(t, "finished") /\ Show(t, "error")
       ELSE /\ tasks' = [tasks EXCEPT ![t].round = @ + 1,
                                      ![t].pc = IF tasks[t].aborted THEN "finished"
                                                ELSE IF Compression THEN "compress" ELSE "answer"]
            /\ Show(t, "thinking")
  /\ UNCHANGED <<live, store, faults, unsaved, sound>>

\* replace_with_summary: all but the most recent messages become a summary.
Compressed(ms) == Summary \o SubSeq(ms, Len(ms) - KeepRecent + 1, Len(ms))

\* maybe_compress: below the threshold, without a summary or with too little
\* to compress, the context stays as it is.
Compress(t) ==
  LET ms == ctx[Session(t)] IN
  /\ TurnAt(t, "compress") /\ TurnTo(t, "answer")
  /\ \/ UNCHANGED ctx
     \/ Len(ms) > KeepRecent + 2 /\ ctx' = [ctx EXCEPT ![Session(t)] = Compressed(ms)]
  /\ UNCHANGED <<next, open, row, handle, status, store, faults, unsaved, sound>>

\* The stream ends, with its stop reason or an error, after n tool calls.
AnswersCalls(t, n, stop, err) ==
  /\ TurnAt(t, "answer") /\ n \in 1 .. MaxCalls
  /\ tasks' = [tasks EXCEPT ![t].pc = "tools", ![t].calls = n, ![t].stop = stop]
  /\ Show(t, IF err THEN "error" ELSE "tool")
  /\ UNCHANGED <<live, store, faults, unsaved, sound>>

\* Without tool calls the text is persisted and the turn is about to end,
\* whatever the stop reason and after an error too.
Text(t, err) ==
  /\ TurnAt(t, "answer") /\ Persist(t, Message("text", t, tasks[t].round, {})) /\ TurnTo(t, "text")
  /\ (IF err THEN Show(t, "error") ELSE UNCHANGED status)
  /\ UNCHANGED <<live, sound>>

\* The text enters the context, and TurnEnd is the last event.
AddText(t) ==
  /\ TurnAt(t, "text") /\ Add(t, <<Message("text", t, tasks[t].round, {})>>)
  /\ TurnTo(t, "finished") /\ Show(t, "done")
  /\ UNCHANGED <<next, open, row, handle, store, faults, unsaved, sound>>

\* join_all is over: the calls are persisted, and wait for the context.
ToolsDone(t) ==
  /\ TurnAt(t, "tools") /\ TurnTo(t, "calls")
  /\ Persist(t, Message("calls", t, tasks[t].round, 1 .. tasks[t].calls))
  /\ UNCHANGED <<live, status, sound>>

\* Variant: a call that the gate denies gets no result.
ToolExchangeWithoutDenied(t) ==
  LET n == 1 .. tasks[t].calls IN
  <<Message("calls", t, tasks[t].round, n), Message("result", t, tasks[t].round, n \ {1})>>

\* Calls and results enter the context under one lock, the results merged.
ToolExchange(t) ==
  LET n == 1 .. tasks[t].calls IN
  <<Message("calls", t, tasks[t].round, n), Message("result", t, tasks[t].round, n)>>

AddCalls(t) ==
  /\ TurnAt(t, "calls") /\ Add(t, ToolExchange(t))
  /\ tasks' = [tasks EXCEPT ![t].pc = "persist", ![t].todo = 1 .. tasks[t].calls]
  /\ UNCHANGED <<next, open, row, handle, status, store, faults, unsaved, sound>>

\* Each result is persisted in order as a turn of its own; after the last one
\* the stop reason decides between another round and the end.
PersistResult(t) ==
  LET i == CHOOSE i \in tasks[t].todo : \A j \in tasks[t].todo : i <= j
      last == tasks[t].todo = {i} IN
  /\ TurnAt(t, "persist") /\ Persist(t, Message("result", t, tasks[t].round, {i}))
  /\ tasks' = [tasks EXCEPT ![t].todo = @ \ {i},
                            ![t].pc = IF ~last THEN @ ELSE IF tasks[t].stop THEN "finished" ELSE "loop"]
  /\ (IF last THEN Show(t, IF tasks[t].stop THEN "done" ELSE "thinking") ELSE UNCHANGED status)
  /\ UNCHANGED <<live, sound>>

Answers(t) ==
  \/ \E n \in 1 .. MaxCalls : \E stop, err \in BOOLEAN : AnswersCalls(t, n, stop, err)
  \/ \E err \in BOOLEAN : Text(t, err)

TurnStep(t) ==
  \/ PersistUser(t) \/ AddUser(t) \/ Round(t) \/ Compress(t) \/ Answers(t)
  \/ AddText(t) \/ ToolsDone(t) \/ AddCalls(t) \/ PersistResult(t)

Manager ==
  \/ Spawn \/ ManagerCrash
  \/ \E r \in DOMAIN store : Resume(r)
  \/ \E s \in Sids : SendTo(s) \/ Cancel(s) \/ CloseSession(s)

SessionNext ==
  \/ Manager
  \/ \E t \in DOMAIN tasks : TurnStep(t) \/ Stop(t) \/ NoRoot(t)

SessionSpec == SessionInit /\ [][SessionNext]_sessionVars

\* Tasks are polled, providers and tools answer or fail.
PolledSpec ==
  SessionSpec /\ \A t \in Tids : WF_sessionVars(t \in DOMAIN tasks /\ (TurnStep(t) \/ Stop(t)))

-----------------------------------------------------------------------------
\* Two unfinished turns never share a context: a message sent after a cancel
\* does not start while the aborted turn is still running.
OneTurn ==
  \A t, u \in DOMAIN tasks : (tasks[t].sid = tasks[u].sid /\ ~Finished(t) /\ ~Finished(u)) => t = u

\* One entry per result, as the rows have them.
Entries(m) ==
  IF m.kind = "result" THEN {Message("result", m.turn, m.round, {k}) : k \in m.of} ELSE {m}

\* The results that the turn of a session is just writing.
Pending(s) ==
  IF Running(s) THEN {Message("result", handle[s], tasks[handle[s]].round, {k}) :
                      k \in tasks[handle[s]].todo}
                ELSE {}

\* What the row of a session should have of a message.
Kept(s, m) == {e \in Entries(m) : e.turn # 0 /\ e \notin unsaved \cup Pending(s)}

\* What the rows have of the messages is in their order, by message and by call
\* within one.
SameOrder(ms, rows) ==
  \A p, q \in DOMAIN rows : \A i, j \in DOMAIN ms :
    (p < q /\ rows[p] \in Entries(ms[i]) /\ rows[q] \in Entries(ms[j])) =>
      i < j \/ (i = j /\ ms[i].kind = "result" /\ \A a \in rows[p].of, b \in rows[q].of : a < b)

StoredAs(s, ms, rows) ==
  /\ \A i \in DOMAIN ms : \A e \in Kept(s, ms[i]) : \E p \in DOMAIN rows : rows[p] = e
  /\ SameOrder(ms, rows)

\* What a session's context holds is in its row once, in the same order, but
\* for inserts that failed, the summaries of compression and the results that
\* the turn is just writing: a cancelled turn, a crash and a resume of the row
\* never leave the model with something the store has not kept.
KeptIsStored ==
  \A s \in open : row[s] # 0 =>
    /\ StoredAs(s, ctx[s], store[row[s]])
    /\ \A i, j \in DOMAIN ctx[s] : i # j => Kept(s, ctx[s][i]) \cap Kept(s, ctx[s][j]) = {}

\* What a turn sends to the provider answers every tool call and has no result
\* without its call, but where compression cut the two apart, wherever earlier
\* turns of the session were stopped, for a session that started empty or from
\* a complete history.
CallsAnswered ==
  \A t \in DOMAIN tasks :
    (tasks[t].pc = "answer" /\ Session(t) \in sound) => CallsMatched(ctx[Session(t)])

\* What a turn leaves behind for the turns after it.
SessionSafety == SessionTypeOK /\ OneTurn /\ KeptIsStored /\ CallsAnswered

\* Every turn that is sent ends, also when it is cancelled or its stream fails.
TurnEnds == \A t \in Tids : (t \in DOMAIN tasks) ~> (t \in DOMAIN tasks /\ Finished(t))

-----------------------------------------------------------------------------
(* The inductive invariant behind SessionSafety.                           *)

\* A session holds the handle of its unfinished turn, so that it has one, and no other's.
HandlesOK ==
  /\ \A t \in DOMAIN tasks : ~Finished(t) => handle[Session(t)] = t
  /\ \A s \in Sids : handle[s] # 0 => Session(handle[s]) = s

\* The place of a message among those of its turn.
Rank(m) ==
  IF m.kind = "user" THEN 0
  ELSE 3 * m.round + (IF m.kind = "text" THEN 0 ELSE IF m.kind = "calls" THEN 1 ELSE 2)

\* How far a turn has come with its messages, in the row and in the context.
RowRank(t) ==
  LET k == 3 * tasks[t].round IN
  CASE TurnAt(t, "start") -> 0 [] TurnAt(t, "user") -> 1 [] TurnAt(t, "loop") -> k + 3
    [] tasks[t].pc \in {"compress", "answer"} -> k
    [] tasks[t].pc \in {"text", "tools"} -> k + 1 [] OTHER -> k + 2

ContextRank(t) ==
  LET k == 3 * tasks[t].round IN
  CASE tasks[t].pc \in {"start", "user"} -> 0 [] tasks[t].pc \in {"loop", "persist"} -> k + 3
    [] TurnAt(t, "calls") -> k + 1 [] OTHER -> k

\* The turn may have written the message to its row, or put it into its context.
InRow(t, m) ==
  \/ Finished(t) \/ Rank(m) < RowRank(t)
  \/ TurnAt(t, "persist") /\ Rank(m) = RowRank(t) /\ m.of \cap tasks[t].todo = {}

InContext(t, m) == Finished(t) \/ Rank(m) < ContextRank(t)

\* A row has a message of a turn once, and results one by one.
RowOK(rows) ==
  /\ \A p \in DOMAIN rows :
       /\ rows[p].turn \in DOMAIN tasks /\ InRow(rows[p].turn, rows[p])
       /\ rows[p].kind = "result" => \E k \in rows[p].of : rows[p].of = {k}
  /\ \A p, q \in DOMAIN rows : rows[p] = rows[q] => p = q

RowsOK == \A r \in DOMAIN store : RowOK(store[r])

\* A context has what its own turns have put into it, and what other turns had
\* written when the row was loaded, once.
Sourced(m, s) ==
  /\ m.turn \in DOMAIN tasks
  /\ IF Session(m.turn) = s THEN InContext(m.turn, m)
                            ELSE \A e \in Entries(m) : InRow(m.turn, e)

Once(ms) ==
  \A i, j \in DOMAIN ms : (i # j /\ ms[i].turn # 0) => Entries(ms[i]) \cap Entries(ms[j]) = {}

ContextOK(s, ms) == Once(ms) /\ \A i \in DOMAIN ms : ms[i].turn # 0 => Sourced(ms[i], s)

ContextsOK == \A s \in open : ContextOK(s, ctx[s])

\* The message a turn has written and waits to put into the context.
InHand(t) ==
  CASE TurnAt(t, "user") -> Message("user", t, 0, {})
    [] TurnAt(t, "text") -> Message("text", t, tasks[t].round, {})
    [] OTHER -> Message("calls", t, tasks[t].round, 1 .. tasks[t].calls)

\* It is in the row, after everything that is in the context.
Ahead(m, ms, rows) ==
  /\ m \in unsaved \/ \E p \in DOMAIN rows : rows[p] = m
  /\ \A p, q \in DOMAIN rows : (p < q /\ rows[p] = m) =>
       \A i \in DOMAIN ms : rows[q] \notin Entries(ms[i])

InHandOK ==
  \A t \in DOMAIN tasks :
    (Session(t) \in open /\ row[Session(t)] # 0 /\ tasks[t].pc \in {"user", "text", "calls"}) =>
      Ahead(InHand(t), ctx[Session(t)], store[row[Session(t)]])

\* The results still to be written are the last ones of the last message.
TodoAt(t) ==
  /\ tasks[t].pc \in {"compress", "answer", "tools", "calls", "text", "persist"} => tasks[t].round > 0
  /\ tasks[t].pc \in {"tools", "calls", "persist"} => tasks[t].calls > 0
  /\ tasks[t].pc \notin {"persist", "finished"} => tasks[t].todo = {}
  /\ TurnAt(t, "persist") =>
       /\ tasks[t].todo # {} /\ tasks[t].todo \subseteq 1 .. tasks[t].calls
       /\ \A a \in tasks[t].todo, b \in 1 .. tasks[t].calls : a < b => b \in tasks[t].todo

LastSaid(t, ms) ==
  ms # <<>> /\ ms[Len(ms)] = Message("result", t, tasks[t].round, 1 .. tasks[t].calls)

TodoOK ==
  \A t \in DOMAIN tasks :
    TodoAt(t) /\ (TurnAt(t, "persist") /\ Session(t) \in open => LastSaid(t, ctx[Session(t)]))

StoredOK == \A s \in open : row[s] # 0 => StoredAs(s, ctx[s], store[row[s]])

\* The history of a sound session is complete at every moment.
SoundOK == \A s \in sound : CallsMatched(ctx[s])

SessionInv ==
  /\ SessionTypeOK /\ HandlesOK /\ RowsOK /\ ContextsOK /\ InHandOK /\ TodoOK
  /\ StoredOK /\ SoundOK
=============================================================================
