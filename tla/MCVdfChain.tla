----------------------------- MODULE MCVdfChain -----------------------------
(* VdfChain with three miners and one time each; times may go back.           *)
EXTENDS VdfChain

MCBlocks == {[mik |-> 1, time |-> 1], [mik |-> 2, time |-> 2], [mik |-> 3, time |-> 4]}
=============================================================================
