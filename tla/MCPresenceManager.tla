------------------------ MODULE MCPresenceManager --------------------------
(* Small instances of PresenceManager for TLC.                                *)
EXTENDS PresenceManager

CONSTANTS u1, u2

Two == {u1, u2}

\* With room for one a fourth report evicts an entry whose request is running.
UpdatesBySize == [n \in {1, 2} |-> IF n = 1 THEN 4 ELSE 3]
=============================================================================
