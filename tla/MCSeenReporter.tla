-------------------------- MODULE MCSeenReporter ----------------------------
(* Small instances of SeenReporter for TLC.                                   *)
EXTENDS SeenReporter

CONSTANTS u1, u2, c1, c2

Two == {u1, u2}
Both == {c1, c2}
=============================================================================
