------------------------- MODULE MCStoreReplicaSet -------------------------
(* Small instances of StoreReplicaSet for TLC. *)
EXTENDS StoreReplicaSet
=============================================================================
