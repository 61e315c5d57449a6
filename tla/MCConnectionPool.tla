-------------------------- MODULE MCConnectionPool -------------------------
(* Small instances of ConnectionPool for TLC.                                 *)
EXTENDS ConnectionPool

CONSTANTS r1, r2, r3

ThreeRequests == {r1, r2, r3}
=============================================================================
