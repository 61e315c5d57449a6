---------------------------- MODULE MCBackfill ------------------------------
(* Small instances of Backfill for TLC.                                       *)
EXTENDS Backfill

Setting(ends, service, calls, album, sizes, forward, backward) ==
    [first |-> ends[1], last |-> ends[2], service |-> service, calls |-> calls,
     album |-> [m \in IDs |-> IF m \in album THEN 7 ELSE 0],
     initial |-> sizes[1], catchup |-> sizes[2], batch |-> sizes[3],
     takeout |-> [f \in Fetchers |-> IF f = "forward" THEN forward ELSE backward]]

\* Without takeout: an album at the end of a batch; a whole batch of service
\* messages, and a forward batch that may be too small; a call as the anchor; a
\* forward batch of two requests and a backward batch that is too large for one; a
\* first batch without anything to bridge, so that the room is still empty when the
\* next messages come.
\* With takeout in one direction and in both: short histories.
MCConfigs == {
    Setting(<<6, 7>>, {}, {}, {2, 3, 4}, <<1, 3, 3>>, FALSE, FALSE),
    Setting(<<5, 7>>, {2, 3, 4}, {}, {}, <<1, 1, 3>>, FALSE, FALSE),
    Setting(<<6, 6>>, {4}, {4}, {2, 3}, <<4, 4, 2>>, FALSE, FALSE),
    Setting(<<6, 7>>, {4}, {}, {2, 3}, <<4, 4, 4>>, FALSE, FALSE),
    Setting(<<2, 4>>, {2}, {}, {}, <<1, 1, 1>>, FALSE, FALSE),
    Setting(<<2, 2>>, {}, {}, {}, <<1, 1, 2>>, FALSE, TRUE),
    Setting(<<1, 1>>, {}, {}, {}, <<1, 1, 1>>, TRUE, TRUE)}
=============================================================================
