--------------------------- MODULE MCChannelState ---------------------------
(* Small instances of ChannelState for TLC.                                   *)
EXTENDS ChannelState

Upd(a, b) == [start |-> a, end |-> b]

\* A message, a deletion of two messages, a read marker (no pts of its own),
\* and another message.
MCUpdates == {Upd(0, 1), Upd(1, 3), Upd(3, 3), Upd(3, 4)}
MCMessages == {Upd(0, 1), Upd(3, 4)}
MCAllFaults == AllFaults

=============================================================================
