------------------------ MODULE MCIntegrityMonitor ------------------------
(* IntegrityMonitor on a tree of two branches,                                *)
(*        g --- a1 --- a2                                                     *)
(*          \-- b1 --- b2 --- b3                                              *)
(* where b2 never connects.  a1 spends nothing and can be undone without its  *)
(* record; the other blocks spend the output of their parent.                 *)
EXTENDS IntegrityMonitor, TLC

IMGenesis == "g"
IMBlocks == {"g", "a1", "a2", "b1", "b2", "b3"}
IMParent == ("a1" :> "g") @@ ("a2" :> "a1") @@ ("b1" :> "g") @@ ("b2" :> "b1")
            @@ ("b3" :> "b2")

IMAnc ==
    LET anc[b \in IMBlocks] == IF b = "g" THEN {"g"} ELSE anc[IMParent[b]] \cup {b}
    IN  anc
IMHeight == [b \in IMBlocks |-> Cardinality(IMAnc[b]) - 1]
IMChainWork == [b \in IMBlocks |-> IMHeight[b] + 1]
IMCreates == [b \in IMBlocks |-> {b}]
IMSpends == [b \in IMBlocks |-> IF b \in {"g", "a1"} THEN {} ELSE {IMParent[b]}]
IMUtxoAt == [b \in IMBlocks |-> IF b \in {"a1", "a2"} THEN {"g", b} ELSE {b}]
IMVdfOutput == [b \in IMBlocks |-> CASE b = "g" -> 0 [] b \in {"a1", "a2"} -> 2 [] OTHER -> 1]
IMAllBlocks == IMBlocks
IMAllButB2 == IMBlocks \ {"b2"}
None == {}

=============================================================================
