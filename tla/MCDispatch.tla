------------------------------ MODULE MCDispatch ------------------------------
(* Model checking of the governed pipeline: all requests compete for one   *)
(* slot, or each has its own.                                              *)
EXTENDS GovernedDispatch, TLC

MCOneSlot == [r \in Requests |-> CHOOSE s \in Slots : TRUE]

MCOwnSlots == [r \in Requests |-> r]

\* Every slot belongs to one of the human operators, if there are any.
MCPrincipalOf ==
    LET owner == CHOOSE o \in Actors \union {NoActor} : Actors # {} => o \in Actors
    IN  [s \in Slots |-> owner]

TaskSymmetry == Permutations(Tasks)

=============================================================================
