---------------------------- MODULE MCRoomsLive ----------------------------
(* Liveness of the rooms' parts, each on its own, under the fairness its      *)
(* module states.                                                             *)
EXTENDS Integers, TLC

VARIABLE part   \* the component this behaviour is about

\* RoomCascade
VARIABLES
  roomPc, topic, rounds, trigger, plan, speaker, agrees, peers, lastPost, agentTurns,
  totalTurns, agreed, lastPoster, state, exhausted, active, roomPaused, votes, seeds

\* ProposalExecution
VARIABLES
  registry, sending, channel, execPaused, edge, swept, stage, attempts, result, status,
  managed, revoked, fates, starts, partials, posts

\* RoomSupervision
VARIABLES
  lock, epoch, room, same, fence, supPc, kind, loss, handle, alive, mem, hint, faults,
  statusFaults, retries, proven, spoke

Proposals == {"p1", "p2"}
Procs == {"p1", "p2"}

Cascade == INSTANCE RoomCascade WITH
  Agents <- {1, 2}, SlotOf <- [a \in {1, 2} |-> a], NoAgent <- 0, Topics <- {"t1", "t2"},
  NoTopic <- "none", TurnBudget <- 2, ThreadCeiling <- 3, MaxRounds <- 2, TopicsCap <- 1,
  EmbedFails <- FALSE, MaxSeeds <- 2

Execution == INSTANCE ProposalExecution WITH
  Proposals <- Proposals, MaxAttempts <- 1, MaxConcurrent <- 1, ChannelCap <- 2,
  paused <- execPaused

Supervision == INSTANCE RoomSupervision WITH
  Procs <- Procs, MaxRev <- 2, MaxRetries <- 0, MaxFaults <- 1, MaxStatusFaults <- 0,
  pc <- supPc

ASSUME Cascade!CascadeConstants
ASSUME Execution!ExecutionConstants
ASSUME Supervision!SupervisionConstants

-----------------------------------------------------------------------------
(* A behaviour is about one part; the others stay where they begin.         *)

cascadeVars ==
  <<roomPc, topic, rounds, trigger, plan, speaker, agrees, peers, lastPost, agentTurns,
  totalTurns, agreed, lastPoster, state, exhausted, active, roomPaused, votes, seeds>>
executionVars ==
  <<registry, sending, channel, execPaused, edge, swept, stage, attempts, result, status,
  managed, revoked, fates, starts, partials, posts>>
supervisionVars ==
  <<lock, epoch, room, same, fence, supPc, kind, loss, handle, alive, mem, hint, faults,
  statusFaults, retries, proven, spoke>>


CascadeStep ==
  /\ part = "cascade" /\ Cascade!CascadeNext
  /\ UNCHANGED <<part, executionVars, supervisionVars>>

ExecutionStep ==
  /\ part = "execution" /\ Execution!ExecutionNext
  /\ UNCHANGED <<part, cascadeVars, supervisionVars>>

SupervisionStep ==
  /\ part = "supervision" /\ Supervision!SilentNext
  /\ UNCHANGED <<part, cascadeVars, executionVars>>

partVars == <<part, cascadeVars, executionVars, supervisionVars>>

\* These components may stop for good.
AtRest == part \in {"execution", "supervision"} /\ UNCHANGED partVars

PartsInit ==
  /\ part \in {"cascade", "execution", "supervision"}
  /\ Cascade!CascadeInit
  /\ Execution!ExecutionInit
  /\ Supervision!SupervisionInit
  /\ managed

PartsNext ==
  \/ CascadeStep
  \/ ExecutionStep
  \/ SupervisionStep
  \/ AtRest

PartsSpec == PartsInit /\ [][PartsNext]_partVars

-----------------------------------------------------------------------------
(* Fairness *)

\* The room's future is polled; the drain, the control handlers and the pipelines
\* are polled and permits are granted in order of arrival; supervisors run, and
\* the database drops the session of a dead process.
Fairness ==
  /\ WF_cascadeVars(part = "cascade" /\ Cascade!RoomStep)
  /\ WF_executionVars(part = "execution" /\ Execution!DrainStep)
  /\ \A p \in Proposals :
       /\ WF_executionVars(part = "execution" /\ Execution!Send(p))
       /\ WF_executionVars(part = "execution" /\ Execution!PipelineStep(p))
       /\ SF_executionVars(part = "execution" /\ Execution!AcquirePermit(p))
  /\ WF_supervisionVars(part = "supervision" /\ Supervision!SessionEnds /\ supPc[lock] = "down")
  /\ \A p \in Procs :
       WF_supervisionVars(/\ part = "supervision"
                          /\ Supervision!Supervise(p) \/ Supervision!AcquireLeadership(p))

FairSpec == PartsSpec /\ Fairness

-----------------------------------------------------------------------------
(* Properties *)

(* A cascade comes to its end, an approved proposal leaves the registry unless *)
(* execution is paused, a dispatched one is done, and a revision that an       *)
(* administrator stores is decided: it becomes active, or it is rejected and   *)
(* the last good one runs on.                                                  *)
RoomProgress ==
  /\ part = "cascade" => Cascade!CascadeEnds
  /\ part = "execution" => Execution!ApprovalReleased /\ Execution!DispatchEnds
  /\ part = "supervision" => Supervision!PendingIsDecided
=============================================================================
