---------------------------- MODULE RoomCascade ----------------------------
(***************************************************************************)
(* The room state machine of the Rift bridge: a human message or a         *)
(* stimulus seeds a topic, and the agents answer it and each other in      *)
(* rounds, bounded by turn budgets, a thread ceiling, a round cap and      *)
(* consensus.  Engagement is probabilistic in the code and a choice here.  *)
(* Exhausted topics are remembered with the turns they consumed, so that a *)
(* later trigger on the same topic starts with that debt.                  *)
(***************************************************************************)
EXTENDS Integers, Sequences, FiniteSets

CONSTANTS
  Agents,         \* roster
  SlotOf,         \* compose slot of each agent
  NoAgent,        \* no agent (a human, or nobody)
  Topics,         \* clusters of semantically equal triggers
  NoTopic,        \* before the first topic
  TurnBudget,     \* posts per agent and topic
  ThreadCeiling,  \* posts per topic
  MaxRounds,      \* max_cascade_rounds
  TopicsCap,      \* EXHAUSTED_TOPICS_CAP
  EmbedFails,     \* whether the embedding endpoint may fail
  MaxSeeds        \* bound: topics seeded

(* What the constants are assumed to be, by the modules that give them values. *)
CascadeConstants ==
  /\ IsFiniteSet(Agents) /\ NoAgent \notin Agents
  /\ SlotOf \in [Agents -> Nat]
  /\ \A a, b \in Agents : SlotOf[a] = SlotOf[b] => a = b
  /\ NoTopic \notin Topics
  /\ TurnBudget \in Nat /\ ThreadCeiling \in Nat /\ MaxRounds \in Nat
  /\ TopicsCap \in Nat \ {0} /\ EmbedFails \in BOOLEAN /\ MaxSeeds \in Nat

VARIABLES
  roomPc,     \* where the room is
  topic,      \* topic_seed
  rounds,     \* completed rounds of the cascade
  trigger,    \* trigger_author
  plan,       \* agents of this round that have not had their slot
  speaker,    \* the agent that composes
  agrees,     \* whether its reply carries the agreement marker
  peers,      \* whether somebody posted in this round
  lastPost,   \* author of the last post of this round
  agentTurns, totalTurns, agreed,   \* LoopGuard
  lastPoster, \* TurnManager
  state,      \* AgentState of each agent
  exhausted,  \* exhausted_topics: oldest first
  active,     \* active_topic_cluster, 0 when None
  roomPaused, \* operator pause
  votes,      \* history: agents whose agreement reached the room on this topic
  seeds       \* bound

loopGuard   == <<agentTurns, totalTurns, agreed>>
memory      == <<exhausted, active>>
round       == <<rounds, trigger, plan, peers, lastPost>>
cascadeVars == <<roomPc, topic, round, speaker, agrees, loopGuard, lastPoster, state, memory,
                 roomPaused, votes, seeds>>

Zero == [a \in Agents |-> 0]

Clusters == [topic : Topics, turns : [Agents -> Nat], total : Nat]

CascadeTypeOK ==
  /\ roomPc \in {"idle", "round", "slot", "compose", "send", "recorded", "finish", "stopped"}
  /\ topic \in Topics \cup {NoTopic}
  /\ rounds \in Nat
  /\ trigger \in Agents \cup {NoAgent}
  /\ plan \in SUBSET Agents
  /\ speaker \in Agents \cup {NoAgent}
  /\ agrees \in BOOLEAN /\ peers \in BOOLEAN
  /\ lastPost \in Agents \cup {NoAgent}
  /\ agentTurns \in [Agents -> Nat] /\ totalTurns \in Nat
  /\ agreed \in SUBSET Agents
  /\ lastPoster \in Agents \cup {NoAgent}
  /\ state \in [Agents -> {"Idle", "Thinking"}]
  /\ exhausted \in Seq(Clusters) /\ active \in Nat
  /\ roomPaused \in BOOLEAN
  /\ votes \in SUBSET Agents
  /\ seeds \in Nat

CascadeInit ==
  /\ roomPc = "idle" /\ topic = NoTopic
  /\ rounds = 0 /\ trigger = NoAgent /\ plan = {} /\ peers = FALSE /\ lastPost = NoAgent
  /\ speaker = NoAgent /\ agrees = FALSE
  /\ agentTurns = Zero /\ totalTurns = 0 /\ agreed = {}
  /\ lastPoster = NoAgent
  /\ state = [a \in Agents |-> "Idle"]
  /\ exhausted = <<>> /\ active = 0
  /\ roomPaused = FALSE
  /\ votes = {}
  /\ seeds = 0

---------------------------------------------------------------------------
(* LoopGuard and TurnManager *)

can_contribute(a) == totalTurns < ThreadCeiling /\ agentTurns[a] < TurnBudget

can_post_next(a) == lastPoster # a

\* An agent without an entry in agreed_agents has not voted.
has_consensus == Agents # {} /\ Agents \subseteq agreed

---------------------------------------------------------------------------
(* Memory of exhausted topics *)

Matches(mem, t) == {i \in 1..Len(mem) : mem[i].topic = t}

\* Variant: the cluster of the previous topic stays active.
UnmatchedKeeps == active

\* reignition_factor sets active_topic_cluster to None before it looks.
Unmatched == 0

\* reignition_factor after loop_guard.reset: a retained cluster of the topic
\* gives its debt back; without a match, or without an embedding, all is fresh.
Reignite(t) ==
  \E expired \in 0..Len(exhausted), embedded \in {TRUE} \cup {~EmbedFails} :
    LET mem == SubSeq(exhausted, expired + 1, Len(exhausted))
        hit == IF embedded THEN Matches(mem, t) ELSE {}
    IN  /\ exhausted' = mem
        /\ agreed' = {}
        /\ \/ /\ hit = {}
              /\ active' = Unmatched
              /\ agentTurns' = Zero /\ totalTurns' = 0
           \/ \E i \in hit :
              /\ active' = i
              /\ agentTurns' = mem[i].turns /\ totalTurns' = mem[i].total

\* The elements of a set of positions in their order.
Orders(S) == {f \in [1 .. Cardinality(S) -> S] : \A i, j \in DOMAIN f : i < j => f[i] < f[j]}

\* What retain leaves: the clusters that do not match the exhausted topic.
Others(mem) ==
  {[k \in DOMAIN f |-> mem[f[k]]] : f \in Orders({i \in 1..Len(mem) : mem[i].topic # topic})}

\* record_exhausted_topic: the cluster is replaced or added at the end, and the
\* oldest one leaves when there are too many.
RecordExhausted ==
  \E expired \in 0..Len(exhausted), embedded \in {TRUE} \cup {~EmbedFails} :
    LET mem == SubSeq(exhausted, expired + 1, Len(exhausted)) IN
    \/ /\ embedded
       /\ \E rest \in Others(mem) :
            LET all  == Append(rest, [topic |-> topic, turns |-> agentTurns, total |-> totalTurns])
                drop == IF Len(all) > TopicsCap THEN Len(all) - TopicsCap ELSE 0
            IN  /\ exhausted' = SubSeq(all, drop + 1, Len(all))
                /\ active' = Len(all) - drop
    \/ /\ ~embedded
       /\ exhausted' = mem
       /\ active' = active

\* record_topic_contribution: the active cluster follows the guard.
Charged(turns, total) ==
  IF active \in DOMAIN exhausted
  THEN [exhausted EXCEPT ![active] =
          [topic |-> exhausted[active].topic, turns |-> turns, total |-> total]]
  ELSE exhausted

---------------------------------------------------------------------------
(* Seeding *)

\* seed_topic and the start of run_cascade.
SeedTopic(t) ==
  /\ seeds < MaxSeeds
  /\ seeds' = seeds + 1
  /\ Reignite(t)
  /\ lastPoster' = NoAgent
  /\ topic' = t
  /\ rounds' = 0 /\ trigger' = NoAgent /\ plan' = {} /\ peers' = FALSE /\ lastPost' = NoAgent
  /\ votes' = {}
  /\ roomPc' = "round"

\* handle_message, handle_stimulus
Seed(t) ==
  /\ roomPc = "idle" /\ ~roomPaused
  /\ SeedTopic(t)
  /\ UNCHANGED <<speaker, agrees, state, roomPaused>>

---------------------------------------------------------------------------
(* Rounds *)

\* What ends the cascade without an error and without remembering the topic.
EndQuietly ==
  /\ roomPc' = "idle"
  /\ UNCHANGED <<topic, round, speaker, agrees, loopGuard, lastPoster, state, memory, roomPaused,
                 votes, seeds>>

PausedAbort ==
  /\ roomPc \in {"round", "slot"} /\ roomPaused
  /\ IF roomPc = "round" THEN rounds < MaxRounds ELSE plan # {}
  /\ EndQuietly

Eligible(a) ==
  /\ state[a] = "Idle"
  /\ a # trigger
  /\ can_contribute(a)
  /\ can_post_next(a)

\* plan_round: cooldown and engagement select any of the eligible agents.
PlanRound ==
  /\ roomPc = "round" /\ ~roomPaused /\ rounds < MaxRounds
  /\ plan' \in SUBSET {a \in Agents : Eligible(a)}
  /\ peers' = FALSE /\ lastPost' = NoAgent
  /\ roomPc' = IF plan' = {} THEN "finish" ELSE "slot"
  /\ UNCHANGED <<topic, rounds, trigger, speaker, agrees, loopGuard, lastPoster, state, memory,
                 roomPaused, votes, seeds>>

RoundCap ==
  /\ roomPc = "round" /\ rounds >= MaxRounds
  /\ roomPc' = "finish"
  /\ UNCHANGED <<topic, round, speaker, agrees, loopGuard, lastPoster, state, memory, roomPaused,
                 votes, seeds>>

\* Slot order is the speaking order.
Turn(a) == a \in plan /\ \A b \in plan : SlotOf[a] <= SlotOf[b]

\* wait_for_slot proceeds: after a reroll and the two gates the agent composes.
TakeSlot(a) ==
  /\ roomPc = "slot" /\ ~roomPaused /\ Turn(a)
  /\ can_post_next(a) /\ can_contribute(a)
  /\ plan' = plan \ {a}
  /\ speaker' = a
  /\ state' = [state EXCEPT ![a] = "Thinking"]
  /\ roomPc' = "compose"
  /\ UNCHANGED <<topic, rounds, trigger, peers, lastPost, agrees, loopGuard, lastPoster, memory,
                 roomPaused, votes, seeds>>

\* wait_for_slot proceeds and the agent loses its reroll or a gate.
SkipSlot(a) ==
  /\ roomPc = "slot" /\ ~roomPaused /\ Turn(a)
  /\ peers \/ ~can_post_next(a) \/ ~can_contribute(a)
  /\ plan' = plan \ {a}
  /\ UNCHANGED <<roomPc, topic, rounds, trigger, peers, lastPost, speaker, agrees, loopGuard,
                 lastPoster, state, memory, roomPaused, votes, seeds>>

\* wait_for_slot is interrupted by a fresh human message.
Interrupt(t) ==
  /\ roomPc = "slot" /\ ~roomPaused /\ plan # {}
  /\ SeedTopic(t)
  /\ UNCHANGED <<speaker, agrees, state, roomPaused>>

\* The last slot of the round is over.
EndRound ==
  /\ roomPc = "slot" /\ plan = {}
  /\ IF lastPost = NoAgent
     THEN roomPc' = "finish" /\ UNCHANGED <<trigger, rounds>>
     ELSE roomPc' = "round" /\ trigger' = lastPost /\ rounds' = rounds + 1
  /\ UNCHANGED <<topic, plan, peers, lastPost, speaker, agrees, loopGuard, lastPoster, state,
                 memory, roomPaused, votes, seeds>>

---------------------------------------------------------------------------
(* Composing *)

BackToIdle == [state EXCEPT ![speaker] = "Idle"]

\* A pass, an echo, an empty reply, or an error before or at the send: nothing
\* is recorded and the cascade goes on.
NoPost ==
  /\ roomPc \in {"compose", "send"}
  /\ state' = BackToIdle
  /\ roomPc' = "recorded"
  /\ UNCHANGED <<topic, round, speaker, agrees, loopGuard, lastPoster, memory, roomPaused,
                 votes, seeds>>

\* discuss returns a reply that is neither a pass nor an echo.
Generate ==
  /\ roomPc = "compose"
  /\ agrees' \in BOOLEAN
  /\ roomPc' = "send"
  /\ UNCHANGED <<topic, round, speaker, loopGuard, lastPoster, state, memory, roomPaused,
                 votes, seeds>>

\* send_message succeeded: vote, contribution, turn and recency are recorded.
Post ==
  /\ roomPc = "send"
  /\ agreed' = IF agrees THEN agreed \cup {speaker} ELSE agreed
  /\ votes' = IF agrees THEN votes \cup {speaker} ELSE votes
  /\ agentTurns' = [agentTurns EXCEPT ![speaker] = @ + 1]
  /\ totalTurns' = totalTurns + 1
  /\ exhausted' = Charged(agentTurns', totalTurns')
  /\ active' = IF active \in DOMAIN exhausted THEN active ELSE 0
  /\ lastPoster' = speaker
  /\ peers' = TRUE /\ lastPost' = speaker
  /\ state' = BackToIdle
  /\ roomPc' = "recorded"
  /\ UNCHANGED <<topic, rounds, trigger, plan, speaker, agrees, roomPaused, seeds>>

\* The message reached the room and its answer did not: an error to the bridge.
PostUnanswered ==
  /\ roomPc = "send"
  /\ votes' = IF agrees THEN votes \cup {speaker} ELSE votes
  /\ state' = BackToIdle
  /\ roomPc' = "recorded"
  /\ UNCHANGED <<topic, round, speaker, agrees, loopGuard, lastPoster, memory, roomPaused, seeds>>

\* After every slot: consensus ends the topic.
AfterSlot ==
  /\ roomPc = "recorded"
  /\ \/ /\ has_consensus
        /\ RecordExhausted
        /\ roomPc' = "idle"
     \/ /\ ~has_consensus
        /\ roomPc' = "slot"
        /\ UNCHANGED memory
  /\ UNCHANGED <<topic, round, speaker, agrees, loopGuard, lastPoster, state, roomPaused, votes,
                 seeds>>

\* The cascade ran out: a topic at the ceiling is remembered.
Finish ==
  /\ roomPc = "finish"
  /\ IF totalTurns >= ThreadCeiling THEN RecordExhausted ELSE UNCHANGED memory
  /\ roomPc' = "idle"
  /\ UNCHANGED <<topic, round, speaker, agrees, loopGuard, lastPoster, state, roomPaused, votes,
                 seeds>>

---------------------------------------------------------------------------
(* The environment *)

SetRoomPause ==
  /\ roomPaused' = ~roomPaused
  /\ UNCHANGED <<roomPc, topic, round, speaker, agrees, loopGuard, lastPoster, state, memory,
                 votes, seeds>>

\* require_current fails at one of its calls: the runtime stops.
StaleLeadership ==
  /\ roomPc \notin {"finish", "stopped"}
  /\ roomPc' = "stopped"
  /\ state' = IF roomPc \in {"compose", "send"} THEN BackToIdle ELSE state
  /\ UNCHANGED <<topic, round, speaker, agrees, loopGuard, lastPoster, memory, roomPaused, votes,
                 seeds>>

\* A new runtime builds a new room.
Restart ==
  /\ roomPc = "stopped"
  /\ roomPc' = "idle" /\ topic' = NoTopic
  /\ rounds' = 0 /\ trigger' = NoAgent /\ plan' = {} /\ peers' = FALSE /\ lastPost' = NoAgent
  /\ speaker' = NoAgent /\ agrees' = FALSE
  /\ agentTurns' = Zero /\ totalTurns' = 0 /\ agreed' = {}
  /\ lastPoster' = NoAgent
  /\ state' = [a \in Agents |-> "Idle"]
  /\ exhausted' = <<>> /\ active' = 0
  /\ votes' = {}
  /\ UNCHANGED <<roomPaused, seeds>>

---------------------------------------------------------------------------
RoomStep ==
  \/ PausedAbort \/ PlanRound \/ RoundCap \/ EndRound
  \/ \E a \in Agents : TakeSlot(a) \/ SkipSlot(a)
  \/ NoPost \/ Generate \/ Post \/ PostUnanswered
  \/ AfterSlot \/ Finish

CascadeNext ==
  \/ \E t \in Topics : Seed(t)
  \/ \E t \in Topics : Interrupt(t)
  \/ RoomStep
  \/ SetRoomPause
  \/ StaleLeadership
  \/ Restart

CascadeSpec == CascadeInit /\ [][CascadeNext]_cascadeVars

\* The room's own future is polled, and slot waits and generations end.
LiveCascadeSpec == CascadeSpec /\ WF_cascadeVars(RoomStep)

---------------------------------------------------------------------------
(* Properties *)

\* The turns that were taken, one by one.
TurnsTaken(turns) == UNION {{a} \X (1 .. turns[a]) : a \in Agents}

\* No topic gets more posts than its ceiling and no agent more than its budget,
\* through reseeding, re-ignition with debt, and gates that are checked at the
\* plan and again at the slot; and the total is the sum of the agents' turns,
\* so neither bound can be evaded through the other (loop_prevention.rs).
BudgetHeld ==
  /\ totalTurns <= ThreadCeiling
  /\ \A a \in Agents : agentTurns[a] <= TurnBudget
  /\ totalTurns = Cardinality(TurnsTaken(agentTurns))

\* While a cascade runs, the active cluster is the one of its topic and holds
\* exactly the turns consumed: posts are never charged to another topic, and a
\* re-ignited topic cannot get its budget back by ending early (room.rs).
DebtFollowsTopic ==
  roomPc \notin {"idle", "stopped"} /\ active # 0 =>
    /\ active \in DOMAIN exhausted
    /\ exhausted[active].topic = topic
    /\ exhausted[active].turns = agentTurns
    /\ exhausted[active].total = totalTurns

\* Memory holds at most its cap and one cluster per topic.
OneClusterPerTopic ==
  /\ Len(exhausted) <= TopicsCap
  /\ \A i, j \in 1..Len(exhausted) : exhausted[i].topic = exhausted[j].topic => i = j

\* A vote for consensus is counted only if the room has seen it on this topic
\* (room.rs: a failed send must not poison consensus).
VotesSeen == agreed \subseteq votes

\* Nobody is left Thinking when nobody composes, whatever failed: a wedged agent
\* would never be planned again (room.rs set_agent_idle).
NobodyWedged ==
  \A a \in Agents : state[a] = "Thinking" => a = speaker /\ roomPc \in {"compose", "send"}

\* What a room guarantees whatever its members say and whatever fails: budgets,
\* the debts of topics, the memory of clusters, votes and turns all hold together.
CascadeSafety ==
  CascadeTypeOK /\ BudgetHeld /\ DebtFollowsTopic /\ OneClusterPerTopic /\ VotesSeen /\ NobodyWedged

---------------------------------------------------------------------------
(* The inductive invariant behind CascadeSafety.                           *)

\* A count that keeps to the bounds, of a topic in hand or remembered.
WithinBudget(turns, total) ==
  /\ total <= ThreadCeiling /\ \A a \in Agents : turns[a] <= TurnBudget
  /\ IsFiniteSet(TurnsTaken(turns)) /\ total = Cardinality(TurnsTaken(turns))

\* A memory of clusters that keeps to the bounds, with one cluster per topic.
ClustersOK(mem) ==
  /\ mem \in Seq(Clusters) /\ Len(mem) <= TopicsCap
  /\ \A i \in 1..Len(mem) : WithinBudget(mem[i].turns, mem[i].total)
  /\ \A i, j \in 1..Len(mem) : mem[i].topic = mem[j].topic => i = j

\* A cascade has a topic, and the gates its speaker has passed still let it
\* through when it posts.
SpeakerMayPost ==
  /\ roomPc \notin {"idle", "stopped"} => topic \in Topics
  /\ roomPc \in {"compose", "send"} => speaker \in Agents /\ can_contribute(speaker)

CascadeInv ==
  /\ CascadeTypeOK
  /\ WithinBudget(agentTurns, totalTurns) /\ ClustersOK(exhausted)
  /\ SpeakerMayPost /\ DebtFollowsTopic /\ VotesSeen /\ NobodyWedged

---------------------------------------------------------------------------
\* Every cascade ends (room.rs: the conversation is bounded).
CascadeEnds == (roomPc = "round") ~> (roomPc \in {"idle", "stopped"})
=============================================================================
