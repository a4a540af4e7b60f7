----------------------------- MODULE MCRpcCalls -----------------------------
(* A small instance of RpcCalls for TLC. *)
EXTENDS RpcCalls
=============================================================================
