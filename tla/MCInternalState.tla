-------------------------- MODULE MCInternalState --------------------------
(* Small instances of InternalState for TLC.                                  *)
EXTENDS InternalState

Message(n) == [kind |-> "message", start |-> n - 1, end |-> n]
Edit(n) == [kind |-> "edit", start |-> n - 1, end |-> n]
Secret(n) == [kind |-> "secret", start |-> n - 1, end |-> n]
Vote(n) == [kind |-> "vote", start |-> n - 1, end |-> n]
Plain == [kind |-> "plain", start |-> 0, end |-> 0]
Changed == [kind |-> "changed", start |-> 0, end |-> 0]

Container(seqStart, seqNo, at, items) ==
    [seqStart |-> seqStart, seq |-> seqNo, date |-> at, items |-> items]

\* Three pts updates and three qts updates in three containers.  Two containers are
\* numbered; one of these covers two numbers and asks for a difference.  The last
\* has a vote with a qts of 0.
MixedLog ==
    <<Container(1, 1, 1, {Message(1), Plain}),
      Container(2, 3, 2, {Edit(2), Secret(1), Changed}),
      Container(0, 0, 2, {Edit(3), Vote(2), Vote(0)})>>
=============================================================================
