---------------------------- MODULE MCRpcEngine ----------------------------
(* Small instances of RpcEngine for TLC.                                      *)
EXTENDS RpcEngine

CONSTANT q1

One == {q1}
=============================================================================
