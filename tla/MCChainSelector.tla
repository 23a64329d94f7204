--------------------------- MODULE MCChainSelector ---------------------------
(* ChainSelector on a tree of two branches,                                   *)
(*        g --- a1 --- a2 --- c3                                              *)
(*          \-- b1 --- b2 --- b3                                              *)
(* where the blocks of the second have the lower VDF outputs and c3 is a      *)
(* checkpoint.                                                                *)
EXTENDS ChainSelector, TLC

CSGenesis == "g"
CSBlocks == {"g", "a1", "a2", "c3", "b1", "b2", "b3"}
CSParent == ("a1" :> "g") @@ ("a2" :> "a1") @@ ("c3" :> "a2")
            @@ ("b1" :> "g") @@ ("b2" :> "b1") @@ ("b3" :> "b2")
CSAnc ==
    LET anc[b \in CSBlocks] == IF b = "g" THEN {"g"} ELSE anc[CSParent[b]] \cup {b}
    IN  anc
CSHeight == [b \in CSBlocks |-> Cardinality(CSAnc[b]) - 1]
CSChainWork == [b \in CSBlocks |-> CSHeight[b] + 1]
CSVdfOutput == [b \in CSBlocks |->
    CASE b = "g" -> 0 [] b \in {"a1", "a2", "c3"} -> 2 [] OTHER -> 1]
CSAddress == ("g" :> 5) @@ ("a1" :> 4) @@ ("a2" :> 1) @@ ("b1" :> 3) @@ ("b2" :> 2)
             @@ ("c3" :> 6) @@ ("b3" :> 7)
CSCheckpoints == {"c3"}

NoOutpoints == [b \in CSBlocks |-> {}]
AllButB2 == CSBlocks \ {"b2"}
AllButA2 == CSBlocks \ {"a2"}
HeaderB1 == {"b1"}

=============================================================================
