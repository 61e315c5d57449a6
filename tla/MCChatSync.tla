---------------------------- MODULE MCChatSync ------------------------------
(* Small instances of ChatSync for TLC.                                       *)
EXTENDS ChatSync

Setting(u, c, l, s, q) ==
    [update |-> u, create |-> c, login |-> l, dialogSync |-> s, silent |-> q]

\* Everything in one go; a limited crawl with the first part at the login; an
\* unlimited one behind a takeout; two with a dialog that has no date, in the
\* middle and at the end.
MCConfigs == {Setting(-1, 2, 1, FALSE, {}), Setting(2, 1, 1, TRUE, {}),
              Setting(-1, 2, 1, TRUE, {}), Setting(-1, 1, 2, FALSE, {2}),
              Setting(-1, -1, 2, FALSE, {1})}

=============================================================================
