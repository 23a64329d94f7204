----------------------------- MODULE MCMempool -----------------------------
(* Transaction 1 spends transaction 3, transaction 2 conflicts with 3, and 4  *)
(* stands alone.  The child has a smaller id than its parent, so a restart    *)
(* loads it first.                                                            *)
EXTENDS MempoolChain

MCTxs == 1..4
MCInputs == <<{"out3"}, {"coin1"}, {"coin1"}, {"coin2"}>>
MCCreator == [o \in {"coin1", "coin2", "out3"} |-> IF o = "out3" THEN 3 ELSE 0]
MCUnitSize == <<1, 1, 1, 1>>
MCSize == <<1, 3, 1, 1>>
MCRate == <<3, 1, 2, 4>>
MCBlocks == {<<3>>, <<1>>, <<3, 1>>, <<2, 4>>}
=============================================================================
