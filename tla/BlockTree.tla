------------------------------ MODULE BlockTree ------------------------------
(* The block index as a rooted tree, and what the blocks do to the UTXO set.  *)
(* CBlockIndex::pprev, nHeight and nChainWork are fixed when a block index is *)
(* linked (BuildChainWork), so they are constants here; which blocks a node   *)
(* knows is state of the modules that extend this one.                        *)
EXTENDS Integers, FiniteSets

CONSTANTS
    Blocks,       \* every block that may ever reach the node
    Genesis,      \* the block with no pprev
    Parent,       \* CBlockIndex::pprev
    Height,       \* CBlockIndex::nHeight
    ChainWork,    \* CBlockIndex::nChainWork
    Anc,          \* Anc[b]: the chain from Genesis to b, b included
    VdfOutput,    \* header.vdfOutput as a number; 0 is the null output
    Checkpoints,  \* the blocks the compiled-in checkpoints name
    Creates,      \* outpoints a block adds to the UTXO set
    Spends,       \* outpoints a block removes from it
    UtxoAt        \* UtxoAt[b]: the set after Genesis .. b were applied

NonGenesis == Blocks \ {Genesis}
Outpoints  == UNION {Creates[b] : b \in Blocks}

(* Heights count pprev links; every block adds a positive proof to the work   *)
(* of its parent.                                                             *)
ASSUME TreeAssumption ==
    /\ Genesis \in Blocks
    /\ Parent \in [NonGenesis -> Blocks]
    /\ Height \in [Blocks -> Nat]
    /\ ChainWork \in [Blocks -> Nat]
    /\ Height[Genesis] = 0
    /\ \A b \in NonGenesis : /\ Height[b] = Height[Parent[b]] + 1
                             /\ ChainWork[b] > ChainWork[Parent[b]]

(* Ancestor sets.  The last three conjuncts follow from the others by          *)
(* induction on the height: ancestry is transitive, ancestors are no higher,   *)
(* and a chain has a next block above each block but its last.                 *)
ASSUME AncAssumption ==
    /\ Anc \in [Blocks -> SUBSET Blocks]
    /\ Anc[Genesis] = {Genesis}
    /\ \A b \in NonGenesis : Anc[b] = Anc[Parent[b]] \cup {b}
    /\ \A b \in Blocks : \A a \in Anc[b] : Anc[a] \subseteq Anc[b]
    /\ \A b \in Blocks : \A a \in Anc[b] : Height[a] <= Height[b]
    /\ \A b \in Blocks : \A a \in Anc[b] \ {b} :
           \E c \in Anc[b] \ {Genesis} : Parent[c] = a

(* ... and so does this: two chains share exactly the chain of one block.      *)
ASSUME ForkAssumption ==
    \A a, b \in Blocks : \E f \in Blocks : Anc[a] \cap Anc[b] = Anc[f]

(* An outpoint is txid:n, and txids do not repeat, so a block never creates   *)
(* what its chain already holds.  Blocks that spend their own outputs are     *)
(* left to module UTXOSet, which has the transactions inside a block.         *)
ASSUME UtxoAssumption ==
    /\ Creates \in [Blocks -> SUBSET Outpoints]
    /\ Spends \in [Blocks -> SUBSET Outpoints]
    /\ UtxoAt \in [Blocks -> SUBSET Outpoints]
    /\ UtxoAt[Genesis] = Creates[Genesis]
    /\ \A b \in NonGenesis :
           /\ Creates[b] \cap UtxoAt[Parent[b]] = {}
           /\ Creates[b] \cap Spends[b] = {}
           /\ Spends[b] \subseteq UtxoAt[Parent[b]] =>
                  UtxoAt[b] = (UtxoAt[Parent[b]] \ Spends[b]) \cup Creates[b]

(* On a VDF chain nBits is fixed (pow.cpp, GetNextWorkRequired), so blocks    *)
(* with a VDF output at one height carry the same work.                       *)
ASSUME VdfAssumption ==
    /\ VdfOutput \in [Blocks -> Nat]
    /\ \A a, b \in Blocks :
           VdfOutput[a] > 0 /\ VdfOutput[b] > 0 /\ Height[a] = Height[b]
               => ChainWork[a] = ChainWork[b]

ASSUME CheckpointAssumption == Checkpoints \subseteq Blocks

-----------------------------------------------------------------------------
(* CChainState::FindFork: the last block two chains share. *)
FindFork(a, b) == CHOOSE f \in Blocks : Anc[a] \cap Anc[b] = Anc[f]

(* The block of target's chain whose pprev is c: the next entry of the        *)
(* connectBlocks list ActivateBestChain builds.                               *)
NextTowards(c, target) ==
    CHOOSE d \in Anc[target] \ {Genesis} : Parent[d] = c

(* CChainParams::GetLastCheckpoint(h) as a height; 0 when there is none. *)
LastCheckpoint(h) ==
    LET below == {Height[c] : c \in {x \in Checkpoints : Height[x] <= h}}
    IN  IF below = {} THEN 0 ELSE CHOOSE m \in below : \A n \in below : n <= m

IsHighestCheckpoint(c) == \A d \in Checkpoints : Height[d] <= Height[c]

(* The three checkpoint tiers at the top of ActivateBestChain, for a block b   *)
(* and the tip t; only a block that does not extend the tip has the            *)
(* checkpoints below it looked up one by one.                                  *)
CheckpointTiers(t, b) ==
    /\ \A c \in Checkpoints : Height[c] = Height[b] => c = b
    /\ \A c \in Checkpoints :
           IsHighestCheckpoint(c) /\ Height[b] > Height[c] => c \in Anc[b]
    /\ b # Genesis /\ Parent[b] # t =>
           \A c \in Checkpoints : Height[c] < Height[b] => c \in Anc[b]

=============================================================================
