---------------------------- MODULE MCShipments -----------------------------
(* Bounded instances of Shipments for TLC; the cfg files give the bounds.  *)
EXTENDS Shipments, TLC

AnyWorker == Permutations(Workers)
=============================================================================
