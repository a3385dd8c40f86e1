--------------------------- MODULE HephaestusTask ---------------------------
(***************************************************************************)
(* One Hephaestus task: its executor, the record and the resume channel in *)
(* memory, and the copies that are kept in Kleos for a restart.  Kleos     *)
(* only ever adds: every change of the status is mirrored as one more      *)
(* memory, and so is every checkpoint.  Both are best-effort writes.  A    *)
(* crash forgets everything in memory; the next start searches Kleos and   *)
(* goes on from what it finds.                                             *)
(***************************************************************************)
EXTENDS Integers, Sequences, SequencesExt

CONSTANTS
  Clients,       \* callers of POST /tasks/{id}/resume
  MaxTurns,      \* max_tool_turns
  MaxQuestions, MaxCrashes, MaxLost   \* bounds of the model

(* What the constants are assumed to be, by the modules that give them values. *)
HephaestusConstants ==
  /\ MaxTurns \in Nat \ {0} /\ MaxQuestions \in Nat /\ MaxCrashes \in Nat /\ MaxLost \in Nat

VARIABLES
  rec,       \* the status in the task store, or none
  sender,    \* the question whose one-shot sender is staged, or 0
  reply,     \* the question whose reply is in the channel, or 0
  phase,     \* where the executor is
  turn,      \* the turns of this pass of the orchestrator
  done,      \* the turns of the conversation whose tools have answered
  question,  \* the question the model asks
  skip,      \* skip_initial_chiasm
  client,    \* where each resume request is
  mirrors,   \* Kleos: the statuses stored for the task
  saved,     \* Kleos: its checkpoints
  asked, crashes, lost,
  alerts,    \* history: the questions the operator was alerted to
  cutShort,  \* history: the questions whose alert a crash came before
  threads,   \* history: the agent_thread memories stored
  stale      \* history: a search returned a memory older than the newest one

memory == <<rec, sender, reply, client>>
loop == <<turn, done, question, skip>>
kleos == <<mirrors, saved>>
told == <<alerts, cutShort, threads, stale>>
bounds == <<asked, crashes, lost>>
taskVars == <<memory, phase, loop, kleos, bounds, told>>

TaskInit ==
  /\ rec = "none" /\ sender = 0 /\ reply = 0 /\ client = [c \in Clients |-> "idle"]
  /\ phase = "none" /\ turn = 0 /\ done = 0 /\ question = 0 /\ skip = FALSE
  /\ mirrors = <<>> /\ saved = <<>> /\ asked = 0 /\ crashes = 0 /\ lost = 0
  /\ alerts = <<>> /\ cutShort = {} /\ threads = 0 /\ stale = FALSE

Marks == {"accepted", "running", "paused", "completed", "failed"}

(* A write to Kleos: made, or lost with a warning.                         *)
Written(log, log2, entry) ==
  \/ log2 = Append(log, entry) /\ lost' = lost
  \/ lost < MaxLost /\ lost' = lost + 1 /\ log2 = log

-----------------------------------------------------------------------------
(* setup_task, run_task, and mirror_to_kleos after each change of status.  *)

Create ==
  /\ phase = "none" /\ phase' = "setup" /\ rec' = "accepted"
  /\ UNCHANGED <<sender, reply, client, loop, kleos, bounds, told>>

Run ==
  /\ phase = "run" /\ phase' = "running" /\ rec' = "running"
  /\ turn' = 0 /\ done' = 0 /\ skip' = FALSE
  /\ UNCHANGED <<sender, reply, client, question, kleos, bounds, told>>

After == [setup |-> "run", running |-> "turn", paused |-> "marked", resumed |-> "turn",
          completed |-> "thread", failed |-> "done"]

Mirror ==
  /\ phase \in DOMAIN After /\ phase' = After[phase]
  /\ Written(mirrors, mirrors', rec)
  /\ UNCHANGED <<memory, loop, saved, asked, crashes, told>>

-----------------------------------------------------------------------------
(* loop_inner of the orchestrator: a checkpoint heading into each turn, the *)
(* model, the tools, and the gate around them.                              *)

SaveTurn ==
  /\ phase = "turn"
  /\ IF turn < MaxTurns
     THEN phase' = "model" /\ Written(saved, saved', [done |-> done, ask |-> 0])
     ELSE phase' = "failing" /\ UNCHANGED <<saved, lost>>
  /\ UNCHANGED <<memory, loop, mirrors, asked, crashes, told>>

(* The gate refuses or the provider fails; the model ends its turn; or it  *)
(* calls tools, ask_human possibly among them.                             *)
Model ==
  /\ phase = "model" /\ phase' \in {"failing", "verify", "tools"}
  /\ UNCHANGED <<memory, loop, kleos, bounds, told>>

Tools ==
  /\ phase = "tools" /\ done' = done + 1
  /\ \/ phase' = "turn" /\ turn' = turn + 1 /\ UNCHANGED <<question, asked>>
     \/ phase' = "failing" /\ UNCHANGED <<turn, question, asked>>
     \/ /\ asked < MaxQuestions /\ asked' = asked + 1
        /\ phase' = "ask" /\ question' = asked' /\ turn' = turn
  /\ UNCHANGED <<memory, skip, kleos, crashes, lost, told>>

-----------------------------------------------------------------------------
(* run_task_loop: a question.  The sender is staged before the task shows   *)
(* as paused.                                                               *)

Stage ==
  /\ phase = "ask" /\ phase' = "staged" /\ sender' = question /\ reply' = 0
  /\ UNCHANGED <<rec, client, loop, kleos, bounds, told>>

Pause ==
  /\ phase = "staged" /\ phase' = "paused" /\ rec' = "paused"
  /\ UNCHANGED <<sender, reply, client, loop, kleos, bounds, told>>

SavePaused ==
  /\ phase = "marked" /\ phase' = "alerting"
  /\ Written(saved, saved', [done |-> done, ask |-> question])
  /\ UNCHANGED <<memory, loop, mirrors, asked, crashes, told>>

Alert ==
  /\ phase = "alerting" /\ phase' = "waiting"
  /\ alerts' = IF skip THEN alerts ELSE Append(alerts, question)
  /\ UNCHANGED <<memory, loop, kleos, bounds, cutShort, threads, stale>>

\* Variant: what silenced a question on record silences every later one as well.
ResumedSilent ==
  /\ phase = "waiting" /\ reply = question
  /\ phase' = "resumed" /\ rec' = "running" /\ reply' = 0 /\ turn' = 0
  /\ UNCHANGED <<sender, client, done, question, skip, kleos, bounds, told>>

Resumed ==
  /\ phase = "waiting" /\ reply = question
  /\ phase' = "resumed" /\ rec' = "running" /\ reply' = 0
  /\ skip' = FALSE /\ turn' = 0
  /\ UNCHANGED <<sender, client, done, question, kleos, bounds, told>>

-----------------------------------------------------------------------------
(* run_task_loop: the end of a task.                                       *)

Verify(ok) ==
  /\ phase = "verify"
  /\ IF ok THEN phase' = "completed" /\ rec' = "completed"
           ELSE phase' = "failing" /\ rec' = rec
  /\ UNCHANGED <<sender, reply, client, loop, kleos, bounds, told>>

Thread ==
  /\ phase = "thread" /\ phase' = "done"
  /\ \/ threads' = threads + 1 /\ lost' = lost
     \/ threads' = threads /\ lost < MaxLost /\ lost' = lost + 1
  /\ UNCHANGED <<memory, loop, kleos, asked, crashes, alerts, cutShort, stale>>

TaskFails ==
  /\ phase = "failing" /\ phase' = "failed" /\ rec' = "failed"
  /\ UNCHANGED <<sender, reply, client, loop, kleos, bounds, told>>

-----------------------------------------------------------------------------
(* resume_task: the status is read, then the sender is taken.              *)

Look(c) ==
  /\ client[c] = "idle" /\ rec = "paused"
  /\ client' = [client EXCEPT ![c] = "looked"]
  /\ UNCHANGED <<rec, sender, reply, phase, loop, kleos, bounds, told>>

TakeSender(c) ==
  /\ client[c] = "looked" /\ client' = [client EXCEPT ![c] = "idle"]
  /\ IF sender # 0 THEN reply' = sender /\ sender' = 0
                   ELSE UNCHANGED <<reply, sender>>     \* 409
  /\ UNCHANGED <<rec, phase, loop, kleos, bounds, told>>

-----------------------------------------------------------------------------
(* A crash, and recover_in_flight_tasks at the next start.                 *)

Crash ==
  /\ phase \notin {"none", "down"} /\ crashes < MaxCrashes /\ crashes' = crashes + 1
  /\ phase' = "down" /\ rec' = "none" /\ sender' = 0 /\ reply' = 0
  /\ client' = [c \in Clients |-> "idle"]
  /\ turn' = 0 /\ done' = 0 /\ question' = 0 /\ skip' = FALSE
  /\ cutShort' = cutShort \cup (IF phase = "alerting" /\ ~skip THEN {question} ELSE {})
  /\ UNCHANGED <<kleos, asked, lost, alerts, threads, stale>>

(* The search: the first record per task counts, and it may be any of them. *)
Found(status) ==
  /\ status \in ToSet(mirrors)
  /\ stale' = (stale \/ status # Last(mirrors))

(* resume_task_from_kleos, without a checkpoint and with the latest one.    *)
Fresh == phase' = "run" /\ UNCHANGED loop

\* Variant: the first checkpoint found.
Earliest == Head(saved)

\* The latest checkpoint by created_at, among at most 50 hits in the code.
Latest == Last(saved)

\* Variant: a resumed question is asked and alerted once more.
FromAlerting(cp) ==
  /\ done' = cp.done /\ turn' = 0 /\ question' = cp.ask /\ skip' = FALSE
  /\ phase' = IF cp.ask # 0 THEN "ask" ELSE "turn"

\* The loop begins where the checkpoint left it; a question on record is not alerted again.
FromCheckpoint(cp) ==
  /\ done' = cp.done /\ turn' = 0 /\ question' = cp.ask
  /\ skip' = (cp.ask # 0)
  /\ phase' = IF cp.ask # 0 THEN "ask" ELSE "turn"

ResumeFromKleos(status) ==
  IF status = "accepted" \/ saved = <<>>
  THEN Fresh /\ rec' = status /\ lost' = lost
  ELSE \/ lost < MaxLost /\ lost' = lost + 1 /\ Fresh /\ rec' = status
       \/ /\ FromCheckpoint(Latest) /\ lost' = lost
          /\ rec' = IF Latest.ask # 0 THEN status ELSE "running"

\* Variant: a paused task is left alone like a finished one.
RecoverRunningOnly ==
  /\ phase = "down"
  /\ \E status \in Marks :
       /\ Found(status)
       /\ IF status \in {"completed", "failed", "paused"}
          THEN phase' = "done" /\ UNCHANGED <<rec, loop, lost>>
          ELSE ResumeFromKleos(status)
  /\ UNCHANGED <<sender, reply, client, kleos, asked, crashes, alerts, cutShort, threads>>

\* Startup recovery: every record that is not terminal is resumed.
Recover ==
  /\ phase = "down"
  /\ \E status \in Marks :
       /\ Found(status)
       /\ IF status \in {"completed", "failed"}
          THEN phase' = "done" /\ UNCHANGED <<rec, loop, lost>>
          ELSE ResumeFromKleos(status)
  /\ UNCHANGED <<sender, reply, client, kleos, asked, crashes, alerts, cutShort, threads>>

(* The search fails or knows nothing of the task, which stays as it is.     *)
NotFound ==
  /\ phase = "down" /\ phase' = "done"
  /\ IF mirrors = <<>> THEN lost' = lost ELSE lost < MaxLost /\ lost' = lost + 1
  /\ UNCHANGED <<memory, loop, kleos, asked, crashes, told>>

-----------------------------------------------------------------------------

Executor ==
  \/ Run \/ Mirror \/ SaveTurn \/ Model \/ Tools
  \/ Stage \/ Pause \/ SavePaused \/ Alert \/ Resumed
  \/ (\E ok \in BOOLEAN : Verify(ok)) \/ Thread \/ TaskFails

TaskNext ==
  \/ Create \/ Executor \/ Crash \/ Recover \/ NotFound
  \/ \E c \in Clients : Look(c) \/ TakeSender(c)

TaskSpec == TaskInit /\ [][TaskNext]_taskVars

(* The executor is a task of the runtime and the service is started again   *)
(* after a crash.  Nothing is assumed of the people who answer.             *)
StartedSpec == TaskSpec /\ WF_taskVars(Executor) /\ WF_taskVars(Recover \/ NotFound)

-----------------------------------------------------------------------------
(* Properties.                                                             *)

(* A client that sees a paused task can resume it: the sender is staged, or *)
(* another client's reply is already in the channel.                        *)
PausedCanResume == rec = "paused" => sender # 0 \/ reply # 0

(* The operator is never alerted twice to the same question, whatever       *)
(* crashes happen around it.                                                *)
AlertedOnce == IsInjective(alerts)

(* A question the task waits with was alerted, unless a crash came exactly  *)
(* between its checkpoint and its alert: a restart asks it in silence.      *)
Alerted == ToSet(alerts) \cup cutShort
WaitingAlerted == phase = "waiting" => question \in Alerted

(* A task's thread is stored at most once, whatever crashes happen around   *)
(* the end of the task.                                                     *)
ThreadOnce == threads <= 1

(* Tools are not run for a turn that a stored checkpoint already holds the  *)
(* results of.                                                              *)
NoToolTwice == phase = "tools" => \A i \in DOMAIN saved : saved[i].done <= done

(* The operator is never alerted twice to a question, whatever crashes; is  *)
(* alerted to every question the task waits with but those a crash cut off  *)
(* between checkpoint and alert; and can answer if the server never crashed. *)
QuestionsReach == AlertedOnce /\ WaitingAlerted /\ (crashes = 0 => PausedCanResume)

(* A task that was only ever recovered from its newest memories repeats     *)
(* nothing, as long as none of its writes to Kleos was lost.                *)
NothingRepeated == (lost = 0 /\ ~stale) => ThreadOnce /\ NoToolTwice

(* A task that Kleos knows of comes to its end or to a question that waits  *)
(* for a person, crashes notwithstanding.                                   *)
TaskSettles == mirrors # <<>> ~> (phase \in {"waiting", "done"} /\ rec # "none")
                                 \/ (mirrors # <<>> /\ Last(mirrors) \in {"completed", "failed"})

-----------------------------------------------------------------------------
(* The inductive invariants behind QuestionsReach and NothingRepeated.     *)

Checkpoints == [done : Nat, ask : Nat]
Asking == {"ask", "staged", "paused", "marked", "alerting"}
Working == Asking \cup {"turn", "model", "tools", "waiting", "resumed"}
Phases == Working \cup {"none", "setup", "run", "running", "verify", "completed", "thread",
                        "failing", "failed", "done", "down"}

TaskTypeOK ==
  /\ rec \in Marks \cup {"none"} /\ sender \in Nat /\ reply \in Nat
  /\ phase \in Phases /\ done \in Nat /\ question \in Nat /\ asked \in Nat /\ skip \in BOOLEAN
  /\ mirrors \in Seq(Marks) /\ saved \in Seq(Checkpoints) /\ alerts \in Seq(Nat) /\ cutShort \subseteq Nat /\ threads \in Nat
  /\ stale \in BOOLEAN
  /\ lost \in 0 .. MaxLost /\ crashes \in 0 .. MaxCrashes
  /\ rec = "none" => phase \in {"none", "down", "done"}

(* A question that is on its way to the operator is a new one, unless the   *)
(* executor came back to it from a checkpoint, and then it is silent.       *)
QuestionsNew ==
  /\ AlertedOnce /\ \A i \in DOMAIN alerts : alerts[i] <= asked
  /\ phase \in Asking /\ ~skip =>
       question <= asked /\ \A i \in DOMAIN alerts : alerts[i] # question

(* A question is silent only if its alert was made or cut off, and so is the *)
(* alert of every question on record but the one about to be alerted.        *)
QuestionsTold ==
  /\ skip => phase \in Asking \cup {"waiting"} /\ question \in Alerted
  /\ WaitingAlerted
  /\ \A i \in DOMAIN saved :
       saved[i].ask \in Alerted \cup {0} \/ (phase = "alerting" /\ ~skip /\ saved[i].ask = question)

(* Without a crash, the sender of the question is staged before the task    *)
(* shows as paused, and leaves its place only for the reply.                *)
Answerable ==
  /\ phase # "down"
  /\ phase \in Asking \cup {"waiting"} => question # 0
  /\ phase \in {"staged", "paused", "marked", "alerting", "waiting"} =>
       sender = question \/ (sender = 0 /\ reply = question)
  /\ rec = "paused" => phase \in {"paused", "marked", "alerting", "waiting"}

(* What Kleos has of the task, newest first: the newest mirror tells where  *)
(* the executor was, and no checkpoint has more turns than the newest one   *)
(* and the executor.                                                        *)
MirrorsTell ==
  /\ phase = "setup" => rec = "accepted"
  /\ phase \in {"running", "paused", "resumed", "failed"} => rec \notin {"accepted", "completed"}
  /\ phase = "completed" => rec = "completed"
  /\ phase \in {"none", "setup", "run", "running"} => saved = <<>>
  /\ mirrors # <<>> /\ Last(mirrors) = "accepted" => saved = <<>> /\ phase \notin Working
  /\ phase = "thread" => mirrors # <<>> /\ Last(mirrors) = "completed"
  /\ threads = 0 \/ ( /\ threads = 1 /\ phase \in {"done", "down"}
                      /\ mirrors # <<>> /\ Last(mirrors) = "completed" )

TurnsGrow ==
  /\ \A i \in DOMAIN saved : saved[i].done <= Last(saved).done
  /\ phase \in Working => \A i \in DOMAIN saved : saved[i].done <= done

TaskInv ==
  /\ TaskTypeOK /\ QuestionsNew /\ QuestionsTold
  /\ crashes = 0 => Answerable
  /\ lost = 0 /\ ~stale => MirrorsTell /\ TurnsGrow
=============================================================================
