---------------------------- MODULE MCChainState ----------------------------
(* ChainState on a tree of six blocks: two competing branches from genesis,   *)
(*        g --- a1 --- a2                                                     *)
(*          \-- b1 --- b2 --- b3                                              *)
(* Every block creates one outpoint, named after it.  a1 and b2 spend the     *)
(* genesis outpoint, a2 spends a1's, b3 spends b1's.  b1 is a lower-VDF       *)
(* sibling of a1, and b2 ends a lower-VDF chain as high as a2's.              *)
EXTENDS ChainState, TLC

MCGenesis == "g"
MCBlocks == {"g", "a1", "a2", "b1", "b2", "b3"}
MCParent == ("a1" :> "g") @@ ("a2" :> "a1") @@ ("b1" :> "g") @@ ("b2" :> "b1")
            @@ ("b3" :> "b2")

MCAnc ==
    LET anc[b \in MCBlocks] == IF b = "g" THEN {"g"} ELSE anc[MCParent[b]] \cup {b}
    IN  anc
MCHeight == [b \in MCBlocks |-> Cardinality(MCAnc[b]) - 1]
MCChainWork == [b \in MCBlocks |-> MCHeight[b] + 1]
MCCreates == [b \in MCBlocks |-> {b}]
MCSpends == [b \in MCBlocks |->
    CASE b \in {"a1", "b2"} -> {"g"}
      [] b = "a2" -> {"a1"}
      [] b = "b3" -> {"b1"}
      [] OTHER -> {}]
MCUtxoAt ==
    LET at[b \in MCBlocks] ==
            IF b = "g" THEN {"g"} ELSE (at[MCParent[b]] \ MCSpends[b]) \cup MCCreates[b]
    IN  at
MCVdfOutput == [b \in MCBlocks |->
    CASE b = "g" -> 0 [] b \in {"a1", "a2"} -> 2 [] OTHER -> 1]
NoVdf == [b \in MCBlocks |-> 0]

MCSpendsMissing == [MCSpends EXCEPT !["b2"] = {"a1"}]

GenesisOnly == {"g"}
None == {}
AllBlocks == MCBlocks
AllButB1 == MCBlocks \ {"b1"}
AllButB2 == MCBlocks \ {"b2"}
AllButB3 == MCBlocks \ {"b3"}
GenesisAndB3 == {"g", "b3"}
AllFaults == {"wal", "apply", "undo", "read", "best", "marker"}

=============================================================================
