------------------------------ MODULE MCUTXOSet ------------------------------
(* UTXOSet on a tree of eight blocks.                                         *)
(*        g --- a1 --- a2         a1 and b2 both hold t, which spends the     *)
(*          \-- b1 --- b2         genesis coinbase; a2 holds u, which spends  *)
(*          \-- x                 t's output.  x holds w, which spends an     *)
(*          \-- y                 output that does not exist; y holds u       *)
(*          \-- s                 without t, and s holds t and u together.    *)
(* Transaction and output share a name; a coinbase is named after its block.  *)
EXTENDS UTXOSet, TLC

UGenesis == "g"
UBlocks  == {"g", "a1", "a2", "b1", "b2", "x", "y", "s"}
SBlocks  == {"g", "a1", "s"}
UParent  == ("a1" :> "g") @@ ("a2" :> "a1") @@ ("b1" :> "g") @@ ("b2" :> "b1") @@ ("x" :> "g")
            @@ ("y" :> "g") @@ ("s" :> "g")
SParent  == ("a1" :> "g") @@ ("s" :> "g")
AncIn(blocks, parent) ==
    LET anc[b \in blocks] == IF b = "g" THEN {"g"} ELSE anc[parent[b]] \cup {b}
    IN  anc
UAnc     == AncIn(UBlocks, UParent)
SAnc     == AncIn(SBlocks, SParent)
UHeight  == [b \in UBlocks |-> Cardinality(UAnc[b]) - 1]
SHeight  == [b \in SBlocks |-> Cardinality(SAnc[b]) - 1]
TxsOf(b) == CASE b = "a1" -> <<"a1", "t">> [] b = "b2" -> <<"b2", "t">>
              [] b = "a2" -> <<"a2", "u">> [] b = "x"  -> <<"x", "w">>
              [] b = "y"  -> <<"y", "u">>
              [] b = "s"  -> <<"s", "t", "u">> [] OTHER -> <<b>>
UTxs     == [b \in UBlocks |-> TxsOf(b)]
STxs     == [b \in SBlocks |-> TxsOf(b)]
TxNames  == {"g", "a1", "a2", "b1", "b2", "x", "y", "s", "t", "u", "w"}
UOuts    == [t \in TxNames |-> {t}]
UIns     == [t \in TxNames |-> CASE t = "t" -> {"g"} [] t = "u" -> {"t"}
                                 [] t = "w" -> {"missing"} [] OTHER -> {}]

=============================================================================
