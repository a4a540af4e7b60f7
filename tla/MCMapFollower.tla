--------------------------- MODULE MCMapFollower ---------------------------
(* A small instance of MapFollower for TLC. *)
EXTENDS MapFollower
=============================================================================
