------------------------ MODULE MCChannelRegistry --------------------------
(* Small instances of ChannelRegistry for TLC.                                *)
EXTENDS ChannelRegistry

CONSTANTS w1, w2

TwoWorkers == {w1, w2}
=============================================================================
