--------------------------- MODULE MCTransferLedger ---------------------------
(***************************************************************************)
(* Two transfers, each within the bounds, of which only one fits under the *)
(* daily cap.                                                              *)
(***************************************************************************)
EXTENDS TransferLedger
LOCAL INSTANCE FiniteSetsExt

CONSTANTS c1, c2

MCCalls == {c1, c2}
MCAmount == [c \in MCCalls |-> IF c = c1 THEN 3 ELSE 1]
MCSpent(S) == MapThenSumSet(LAMBDA c : MCAmount[c], S)
=============================================================================
