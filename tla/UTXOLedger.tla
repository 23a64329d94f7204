----------------------------- MODULE UTXOLedger -----------------------------
(* What CUTXOSet promises to the chain state: a set of unspent outpoints that *)
(* whole blocks are applied to and undone from.  ConnectTip and DisconnectTip *)
(* of module ChainState change their UTXO set in this way.                    *)
EXTENDS Integers

CONSTANTS
    Blocks,
    Genesis,      \* applied when the database is created
    Creates(_),   \* outpoints a block adds
    Spends(_)     \* outpoints a block removes

VARIABLES
    unspent,      \* the outpoints GetUTXO finds
    undo          \* blocks that have an undo record

Init == unspent = Creates(Genesis) /\ undo = {Genesis}

(* ApplyBlock: every input is there, or is an output of the block. *)
Apply(b) ==
    /\ Spends(b) \subseteq unspent \cup Creates(b)
    /\ unspent' = (unspent \cup Creates(b)) \ Spends(b)
    /\ undo' = undo \cup {b}

(* UndoBlock: the exact inverse; only a block that spent nothing can do       *)
(* without its record.                                                        *)
Undo(b) ==
    /\ b \in undo \/ Spends(b) = {}
    /\ unspent' = (unspent \ Creates(b)) \cup (Spends(b) \ Creates(b))
    /\ undo' = undo \ {b}

Next == \E b \in Blocks : Apply(b) \/ Undo(b)

Spec == Init /\ [][Next]_<<unspent, undo>>

=============================================================================
