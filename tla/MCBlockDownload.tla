--------------------------- MODULE MCBlockDownload ---------------------------
(* BlockDownload for two blocks and two peers, of which peer 1 answers in     *)
(* time and peer 2 whenever it likes, or for three blocks and peer 1 alone.   *)
EXTENDS BlockDownload

TwoBlocks == 1 .. 2
HeightOfTwo == [h \in TwoBlocks |-> h]
ThreeBlocks == 1 .. 3
HeightOfThree == [h \in ThreeBlocks |-> h]
=============================================================================
