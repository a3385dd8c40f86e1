------------------------------- MODULE Witness -------------------------------
(***************************************************************************)
(* The independent witness of henosis-witness, for one tenant.             *)
(*                                                                         *)
(* A checkpoint is one audit row as its origin signs it: sequence number,  *)
(* hash of the previous row and hash of the row.  The witness keeps the    *)
(* hash it accepted at each sequence number and the head of the stream.    *)
(* Each accept runs in one immediate transaction, so it is one step.       *)
(***************************************************************************)
EXTENDS Integers

CONSTANTS
    Hashes,                 \* event hashes
    GenesisHash,            \* the hash before the first row
    AuthenticCheckpoints    \* checkpoints signed by a trusted origin for this tenant

Checkpoint == [seq : Nat \ {0}, prev : Hashes \union {GenesisHash}, hash : Hashes]

\* The event hash covers the row's sequence number and the previous hash.
ASSUME WitnessConstants ==
    /\ AuthenticCheckpoints \subseteq Checkpoint
    /\ \A c, d \in AuthenticCheckpoints : c.hash = d.hash => c = d

VARIABLES
    witnessReceipts,    \* witness_receipts: sequence number -> accepted hash
    witnessHead         \* witness_heads: the last accepted checkpoint

witnessVars == <<witnessReceipts, witnessHead>>

WitnessTypeOK ==
    /\ DOMAIN witnessReceipts \subseteq Nat \ {0}
    /\ witnessReceipts \in [DOMAIN witnessReceipts -> Hashes]
    /\ witnessHead \in [seq : Nat, hash : Hashes \union {GenesisHash}]

-----------------------------------------------------------------------------
(* accept                                                                  *)

IsPreserved(c) == c.seq \in DOMAIN witnessReceipts

\* An exact retry, answered with the original receipt.
IsReplay(c) == IsPreserved(c) /\ witnessReceipts[c.seq] = c.hash

\* Variant: the previous hash is not compared with the head.
IsNextAnyParent(c) == ~IsPreserved(c) /\ c.seq = witnessHead.seq + 1

\* Variant: any later sequence number is accepted.
IsNextWithGaps(c) == ~IsPreserved(c) /\ c.seq > witnessHead.seq

\* The successor of the head.
IsNext(c) ==
    /\ ~IsPreserved(c)
    /\ c.seq = witnessHead.seq + 1
    /\ c.prev = witnessHead.hash

\* A checkpoint the witness signs a receipt for; any other is refused, as
\* unauthentic, conflicting or out of sequence, and changes nothing.
IsAcceptable(c) == c \in AuthenticCheckpoints /\ (IsReplay(c) \/ IsNext(c))

Accept(c) ==
    /\ IsAcceptable(c)
    /\ IF IsReplay(c)
       THEN UNCHANGED <<witnessReceipts, witnessHead>>
       ELSE /\ witnessReceipts' = [n \in DOMAIN witnessReceipts \union {c.seq} |->
                                      IF n = c.seq THEN c.hash ELSE witnessReceipts[n]]
            /\ witnessHead' = [seq |-> c.seq, hash |-> c.hash]

Refuse(c) == ~IsAcceptable(c) /\ UNCHANGED <<witnessReceipts, witnessHead>>

-----------------------------------------------------------------------------
(* The witness under arbitrary origins: copies of one tenant's log that    *)
(* were restored from a backup and diverged, retries, reordered arrivals.  *)

NoReceipts == [n \in {} |-> GenesisHash]

WitnessInit ==
    /\ witnessReceipts = NoReceipts
    /\ witnessHead = [seq |-> 0, hash |-> GenesisHash]

WitnessNext == \E c \in AuthenticCheckpoints : Accept(c) \/ Refuse(c)

WitnessSpec == WitnessInit /\ [][WitnessNext]_witnessVars

-----------------------------------------------------------------------------
(* Properties.                                                             *)

\* The witness preserves every sequence number up to its head and none above,
\* and the head repeats the last receipt: its two tables never disagree.
ReceiptsDense ==
    /\ DOMAIN witnessReceipts = 1..witnessHead.seq
    /\ witnessHead.hash = IF witnessHead.seq = 0 THEN GenesisHash
                                                 ELSE witnessReceipts[witnessHead.seq]

\* Whatever forks of a log its origins submit, what the witness preserved is one
\* chain: each receipt is for a checkpoint whose previous hash is the receipt
\* before it.  A log restored from a backup cannot be witnessed on another branch.
ReceiptsLinked ==
    \A n \in DOMAIN witnessReceipts :
        \E c \in AuthenticCheckpoints :
            /\ c.seq = n
            /\ c.hash = witnessReceipts[n]
            /\ c.prev = IF n = 1 THEN GenesisHash ELSE witnessReceipts[n - 1]

WitnessInv == WitnessTypeOK /\ ReceiptsDense /\ ReceiptsLinked

ReceiptStep ==
    \A n \in DOMAIN witnessReceipts :
        n \in DOMAIN witnessReceipts' /\ witnessReceipts'[n] = witnessReceipts[n]

\* A preserved receipt is never withdrawn or replaced.
ReceiptsImmutable == [][ReceiptStep]_witnessVars

=============================================================================
