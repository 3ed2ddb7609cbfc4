-------------------------------- MODULE MCBooks --------------------------------
(***************************************************************************)
(* Two purchases, a sale of ours and one of the operator's, in scenes of   *)
(* two or three tasks each.                                                *)
(***************************************************************************)
EXTENDS Books, FiniteSetsExt

CONSTANTS b1, b2, s1, m1

MCOrders == {b1, b2, s1}
MCManual == {m1}
MCSide == [x \in MCOrders \cup MCManual |-> IF x \in {b1, b2} THEN "BUY" ELSE "SELL"]
MCToken == [x \in MCOrders \cup MCManual |-> IF x = b2 THEN "NO" ELSE "YES"]
MCSize == [x \in MCOrders \cup MCManual |-> IF x = b1 THEN 2 ELSE 1]

MCShares(S) == MapThenSumSet(LAMBDA x : MCSize[x], S)

MCScene(made, awake, deaths, raises) ==
    [trades |-> made, tasks |-> awake, crashes |-> deaths, faults |-> raises]

MCScenes == {
    MCScene({b1, s1, m1}, {"pos"}, 0, 0),
    MCScene({b1, m1}, {"pos"}, 1, 1),
    MCScene({b1, s1}, {"pos"}, 1, 0),
    MCScene({b1, s1}, {"mon", "res"}, 0, 0),
    MCScene({b1, s1}, {"res"}, 1, 1),
    MCScene({b1, b2}, {"res"}, 1, 0),
    MCScene({b1}, {"mon", "res"}, 0, 1),
    MCScene({b1}, {"pos", "res"}, 1, 1),
    MCScene({b1}, {"pos", "mon", "res"}, 0, 0)}
=============================================================================
