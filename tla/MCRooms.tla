------------------------------ MODULE MCRooms ------------------------------
(* Safety of the rooms' parts, each on its own: the conversation of a room,    *)
(* the execution of what it proposes, and the supervision of its bridge.      *)
EXTENDS RoomSupervision, ProposalExecution, RoomCascade, TLC

VARIABLE part   \* the component this behaviour is about

Symmetry == Permutations(Procs)

\* Agents speak in the order of their numbers.
InOrder == [a \in Agents |-> a]

ASSUME CascadeConstants /\ ExecutionConstants /\ SupervisionConstants

-----------------------------------------------------------------------------
(* A behaviour is about one part; the others stay where they begin.         *)

CascadeStep ==
  /\ part = "cascade" /\ CascadeNext
  /\ UNCHANGED <<part, executionVars, supervisionVars>>

ExecutionStep ==
  /\ part = "execution" /\ ExecutionNext
  /\ UNCHANGED <<part, cascadeVars, supervisionVars>>

\* Several revisions of a roster, and nothing fails but the candidates.
SupervisionStep ==
  /\ part = "supervision" /\ SupervisionNext /\ faults' + statusFaults' = 0
  /\ UNCHANGED <<part, cascadeVars, executionVars>>

\* Processes, sessions, bridges and status writes fail over two revisions.
UnreportedStep ==
  /\ part = "unreported" /\ SupervisionNext /\ room'.desired <= 2
  /\ UNCHANGED <<part, cascadeVars, executionVars>>

partVars == <<part, cascadeVars, executionVars, supervisionVars>>

\* These components may stop for good.
AtRest == part \in {"supervision", "unreported"} /\ UNCHANGED partVars

PartsInit ==
  /\ part \in {"cascade", "execution", "supervision", "unreported"}
  /\ CascadeInit /\ ExecutionInit /\ SupervisionInit
  /\ part = "execution" \/ managed

PartsNext ==
  \/ CascadeStep
  \/ ExecutionStep
  \/ SupervisionStep
  \/ UnreportedStep
  \/ AtRest

PartsSpec == PartsInit /\ [][PartsNext]_partVars
=============================================================================
