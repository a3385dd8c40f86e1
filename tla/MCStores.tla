------------------------------ MODULE MCStores ------------------------------
(***************************************************************************)
(* Model checking of the three stores of the governed pipeline under       *)
(* arbitrary callers.  A behaviour is about one of them; the others stay    *)
(* empty.  Requests compete for one slot.  Hashes are collision free, so    *)
(* the hash of a row is represented by the history of events it commits to; *)
(* origins submit the rows of every history, as diverging copies of a log   *)
(* would.                                                                   *)
(***************************************************************************)
EXTENDS ApprovalStore, AuditStore, Witness, SequencesExt

CONSTANTS
    Contents,       \* contents a row of the log may have
    MaxHistory      \* bound on the length of a history

VARIABLE store      \* the store a behaviour is about

MCSlotOf == [r \in Requests |-> CHOOSE s \in Slots : TRUE]

MCHashes == BoundedSeq(Contents, MaxHistory) \ {<<>>}

MCGenesis == <<>>

MCCheckpoints == {[seq |-> Len(h), prev |-> Front(h), hash |-> h] : h \in MCHashes}

StoresSymmetry ==
    Permutations(Requests) \union Permutations(Actors) \union Permutations(Results \ Oversized)

StoresInit ==
    /\ store \in {"approvals", "audit", "witness"}
    /\ ApprovalInit
    /\ AuditInit
    /\ WitnessInit

Approving ==
    /\ store = "approvals" /\ ApprovalNext
    /\ UNCHANGED <<store, auditVars, witnessVars>>

Auditing ==
    /\ store = "audit" /\ AuditNext
    /\ UNCHANGED <<store, approvalVars, witnessVars>>

Witnessing ==
    /\ store = "witness" /\ WitnessNext
    /\ UNCHANGED <<store, approvalVars, auditVars>>

StoresNext == Approving \/ Auditing \/ Witnessing

StoresSpec == StoresInit /\ [][StoresNext]_<<store, approvalVars, auditVars, witnessVars>>

=============================================================================
