-------------------------- MODULE GovernedRequests --------------------------
(***************************************************************************)
(* What the stores of the governed pipeline have in common, for one        *)
(* tenant.  A request stands for the canonical hash of its envelope, which *)
(* covers tenant, principal, token identity, idempotency key, tool, action *)
(* and arguments, and leaves out the approval it is sent with.             *)
(***************************************************************************)
EXTENDS Integers

CONSTANTS
    Requests,       \* canonical requests
    Actors,         \* principals of human operators
    NoActor,        \* an absent operator
    ApprovalIds     \* supply of approval identifiers

NoApproval == 0     \* an absent approval identifier

ASSUME RequestConstants ==
    /\ NoActor \notin Actors
    /\ ApprovalIds \subseteq Nat \ {NoApproval}

=============================================================================
