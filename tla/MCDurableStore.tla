--------------------------- MODULE MCDurableStore ---------------------------
(* A small instance of DurableStore for TLC. *)
EXTENDS DurableStore
=============================================================================
