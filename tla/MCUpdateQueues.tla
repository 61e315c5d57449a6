-------------------------- MODULE MCUpdateQueues ---------------------------
(* Small instances of UpdateQueues for TLC.                                   *)
EXTENDS UpdateQueues

CONSTANTS c1, c2

Two == {c1, c2}
=============================================================================
