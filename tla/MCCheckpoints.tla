---------------------------- MODULE MCCheckpoints ----------------------------
(* ChainState on a tree with a checkpointed trunk, a second checkpoint at the *)
(* end of one branch and a branch that leaves below the first:                *)
(*        g --- c1 --- a2 --- a3                                              *)
(*          \      \-- b2 --- b3 --- b4                                       *)
(*           \- x1 --- x2                                                     *)
(* with checkpoints c1 and b4.  No block spends anything.                     *)
EXTENDS ChainState, TLC

CPGenesis == "g"
CPBlocks == {"g", "c1", "a2", "a3", "b2", "b3", "b4", "x1", "x2"}
CPParent == ("c1" :> "g") @@ ("a2" :> "c1") @@ ("a3" :> "a2") @@ ("b2" :> "c1")
            @@ ("b3" :> "b2") @@ ("b4" :> "b3") @@ ("x1" :> "g") @@ ("x2" :> "x1")

CPAnc ==
    LET anc[b \in CPBlocks] == IF b = "g" THEN {"g"} ELSE anc[CPParent[b]] \cup {b}
    IN  anc
CPHeight == [b \in CPBlocks |-> Cardinality(CPAnc[b]) - 1]
CPChainWork == [b \in CPBlocks |-> CPHeight[b] + 1]
CPCreates == [b \in CPBlocks |-> {b}]
CPSpends == [b \in CPBlocks |-> {}]
CPUtxoAt == CPAnc
CPVdfOutput == [b \in CPBlocks |->
    CASE b = "g" -> 0 [] b \in {"a2", "a3", "c1"} -> 2 [] OTHER -> 1]
CPCheckpoints == {"c1", "b4"}
CPAllButB4 == CPBlocks \ {"b4"}
CPAllButB2 == CPBlocks \ {"b2"}

=============================================================================
