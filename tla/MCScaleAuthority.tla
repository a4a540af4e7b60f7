--------------------------- MODULE MCScaleAuthority ---------------------------
(***************************************************************************)
(* One authority process and the other one, one account and one request.   *)
(***************************************************************************)
EXTENDS ScaleAuthority
=============================================================================
