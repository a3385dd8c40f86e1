---------------------------- MODULE MCRiftDelivery ----------------------------
(* Model checking of Rift delivery: a ledger that has room for every event, *)
(* and one that is full after the first.                                    *)
EXTENDS RiftDelivery

VARIABLE part   \* the ledger this behaviour is about

Full == INSTANCE RiftDelivery WITH MaxRetained <- 1

partVars == <<part, vars>>

PartsInit == part \in {"ample", "full"} /\ DeliveryInit

PartsNext ==
  /\ UNCHANGED part
  /\ \/ part = "ample" /\ DeliveryNext
     \/ part = "full" /\ Full!DeliveryNext

\* The outbox dispatcher of a running server takes its next step.
FairSpec == PartsInit /\ [][PartsNext]_partVars /\ WF_partVars(DispatchStep /\ UNCHANGED part)
=============================================================================
