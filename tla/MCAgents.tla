------------------------------ MODULE MCAgents ------------------------------
(* Safety of what runs an agent, each part on its own: the turns of a        *)
(* session, a task of the executor, the breaker before a provider and the     *)
(* policy gate before every governed request.                                 *)
EXTENDS AgentSession, CircuitBreaker, PlutusGate, HephaestusTask, TLC

CONSTANT
  Callers    \* clients or calls at work at the same time

VARIABLE part   \* the component this behaviour is about

Operators == Callers \cup {"last"}
Members == {"m1", "m2", "m3"}
AllRequests == Operators \cup Members

\* The operator and a member invoke tools, an admin reads a secret, and a viewer
\* asks for more than it may.
Invocations == [r \in AllRequests |-> IF r = "m2" THEN "secret_read" ELSE "tool_invoke"]
Roles == [r \in Operators |-> "owner"] @@ [m1 |-> "member", m2 |-> "admin", m3 |-> "viewer"]

TierLimits == [local |-> 2, free |-> 1, pro |-> 2]
TierRpm == [local |-> 1, free |-> 1, pro |-> 2]

Symmetry == Permutations(Callers)

ASSUME TurnConstants /\ CircuitConstants /\ GateConstants /\ HephaestusConstants

-----------------------------------------------------------------------------
(* The components with fewer inputs, on the same state.                     *)

\* Calls that fail in one session, two rounds and what compression cuts off, and
\* sessions that resume a row.
TurnsOne == INSTANCE AgentSession WITH MaxRounds <- 1, KeepRecent <- 1, MaxSessions <- 1
TurnsCut == INSTANCE AgentSession WITH MaxCalls <- 1, MaxSessions <- 1, MaxFaults <- 0
TurnsTwo == INSTANCE AgentSession WITH
  MaxRounds <- 1, MaxCalls <- 1, Compression <- FALSE, MaxFaults <- 0

\* Short tasks with crashes, long ones without, and long ones whose memories
\* are all kept.
TaskCrash == INSTANCE HephaestusTask WITH MaxTurns <- 1, MaxQuestions <- 1
TaskSteady == INSTANCE HephaestusTask WITH MaxCrashes <- 0
TaskOrder == INSTANCE HephaestusTask WITH MaxLost <- 0

OneClient == Cardinality({c \in Clients : client'[c] # "idle"}) <= 1

TwoCalls == Cardinality({c \in Calls : pc'[c] # "idle"}) <= 2

\* Requests that differ in nothing: one of them may as well come last.
InOrder == (\E c \in Callers : req'[c].pc = "arrived") => req'["last"].pc = "arrived"

\* The operator's own backend, and an org with members.
GateLocal == INSTANCE PlutusGate WITH Requests <- Operators, MaxTime <- 1
GateHosted == INSTANCE PlutusGate WITH
  Requests <- Members, TierNames <- {"free", "pro"}, MaxSetbacks <- 0

-----------------------------------------------------------------------------
(* A behaviour is about one part; the others stay where they begin.         *)

TurnsStep ==
  /\ \/ part = "turns" /\ TurnsOne!SessionNext
     \/ part = "compress" /\ TurnsCut!SessionNext
     \/ part = "resume" /\ TurnsTwo!SessionNext
  /\ UNCHANGED <<part, taskVars, breakerVars, gateVars>>

TaskStep ==
  /\ \/ part = "crash" /\ TaskCrash!TaskNext /\ OneClient
     \/ part = "steady" /\ TaskSteady!TaskNext
     \/ part = "order" /\ TaskOrder!TaskNext /\ OneClient /\ ~stale'
  /\ UNCHANGED <<part, sessionVars, breakerVars, gateVars>>

BreakerStep ==
  /\ part = "breaker" /\ BreakerNext /\ TwoCalls
  /\ UNCHANGED <<part, sessionVars, taskVars, gateVars>>

GateStep ==
  /\ \/ part = "local" /\ GateLocal!GateNext /\ InOrder
     \/ part = "hosted" /\ GateHosted!GateNext
  /\ UNCHANGED <<part, sessionVars, taskVars, breakerVars>>

partVars == <<part, sessionVars, taskVars, breakerVars, gateVars>>

\* All but the breaker, whose calls keep coming, may stop for good.
AtRest == part # "breaker" /\ UNCHANGED partVars

PartsInit ==
  /\ part \in {"turns", "compress", "resume", "crash", "steady", "order", "breaker", "local", "hosted"}
  /\ SessionInit
  /\ TaskInit
  /\ CircuitInit /\ (part # "breaker" => up)
  /\ GateInit /\ local = (part # "hosted") /\ (tier = "local" <=> local)

PartsNext ==
  \/ TurnsStep
  \/ TaskStep
  \/ BreakerStep
  \/ GateStep
  \/ AtRest

PartsSpec == PartsInit /\ [][PartsNext]_partVars
=============================================================================
