-------------------------- MODULE ChainStateProofs --------------------------
(* Proofs about ChainState, for every tree of blocks, every assignment of      *)
(* outpoints to blocks and every value of the bounds: the inductive invariant, *)
(* kept by every action, what follows from it alone, and which blocks          *)
(* ActivateBestChain may bring the tip to.                                     *)
EXTENDS ChainState, FiniteSetTheorems, WellFoundedInduction, TLAPS

-----------------------------------------------------------------------------
(* The inductive invariant. *)

(* Where the handlers are, and what they may assume about their cursors.  A    *)
(* rewind keeps the WAL active also while it is unlocked, which is what keeps  *)
(* a reorganisation out of the gap.                                            *)
Cursors ==
    /\ pc \in ReorgPcs => walActive /\ dpc = "none"
    /\ dpc # "none" => walActive /\ pc # "down"
    /\ pc # "idle" => dpc \in {"none", "gap"}
    /\ dpc \in {"enter", "disc"} => Height[tip] > dtarget
    /\ dpc = "disc" => dn < BatchSize
    /\ dpc \notin {"disc", "best"} => dn = 0
    /\ pc = "extend" => target # Genesis /\ Parent[target] = tip
    /\ pc \in {"replDisc", "replConn"} =>
           /\ target # Genesis /\ tip # Genesis
           /\ Parent[target] = Parent[tip]
    /\ pc \in {"enterDisc"} => cur = tip
    /\ pc \in {"disc", "updDisc"} =>
           FindFork(tip, target) \in Anc[cur] /\ cur \in Anc[tip]
    /\ pc \in {"conn", "updConn", "rbDisc"} =>
           FindFork(tip, target) \in Anc[cur] /\ cur \in Anc[target]
    /\ pc = "rbConn" => cur \in Anc[tip]
    /\ pc \in {"reorgBest", "complete"} => cur = tip

(* The UTXO set and the undo records are those of one block, and every block   *)
(* with an undo record was applied on top of its parent.                       *)
Placed ==
    lost = {} =>
        /\ pc # "down" => utxo = UtxoAt[At] /\ undo = Anc[At]
        /\ \A b \in undo \ {Genesis} : Spends[b] \subseteq UtxoAt[Parent[b]]

(* Whether the best-block record is current, and what protects it when not. *)
Recorded ==
    lost = {} =>
        /\ pc = "down" =>
               \/ utxo = UtxoAt[bestBlock] /\ undo = Anc[bestBlock]
               \/ HasIncompleteReorg
               \/ marker
        /\ pc \notin {"down", "replConn", "best", "reorgBest"}
               /\ dpc # "best" /\ ~(dpc = "disc" /\ dn > 0) => bestBlock = tip
        /\ pc \in ReorgPcs \ {"enterDisc"} => HasIncompleteReorg
        /\ dpc \notin {"none", "enter"} => HasIncompleteReorg

IInv == TypeOK /\ Cursors /\ Placed /\ Recorded

-----------------------------------------------------------------------------
(* Facts about the tree. *)

(* A block is on its own chain. *)
LEMMA AncSelf == \A b \in Blocks : b \in Anc[b]
  <1> SUFFICES ASSUME NEW b \in Blocks PROVE b \in Anc[b]
    OBVIOUS
  <1>1. CASE b = Genesis
    BY <1>1, AncAssumption
  <1>2. CASE b # Genesis
    BY <1>2, AncAssumption DEF NonGenesis
  <1> QED BY <1>1, <1>2

(* The fork point lies on both chains, and shared blocks lie on its chain. *)
LEMMA ForkFacts ==
    ASSUME NEW a \in Blocks, NEW b \in Blocks
    PROVE  /\ FindFork(a, b) \in Blocks
           /\ FindFork(a, b) \in Anc[a] \cap Anc[b]
           /\ Anc[FindFork(a, b)] = Anc[a] \cap Anc[b]
  <1>1. \E f \in Blocks : Anc[a] \cap Anc[b] = Anc[f]
    BY ForkAssumption, Zenon
  <1>2. FindFork(a, b) \in Blocks /\ Anc[a] \cap Anc[b] = Anc[FindFork(a, b)]
    BY <1>1 DEF FindFork
  <1> QED BY <1>2, AncSelf

(* The next block towards a descendant is on its chain, one above c. *)
LEMMA NextFacts ==
    ASSUME NEW t \in Blocks, NEW c \in Anc[t], c # t
    PROVE  /\ NextTowards(c, t) \in Anc[t]
           /\ NextTowards(c, t) \in NonGenesis
           /\ Parent[NextTowards(c, t)] = c
  <1>1. \E d \in Anc[t] \ {Genesis} : Parent[d] = c
    BY AncAssumption
  <1>2. NextTowards(c, t) \in Anc[t] \ {Genesis} /\ Parent[NextTowards(c, t)] = c
    BY <1>1 DEF NextTowards
  <1> QED BY <1>2, AncAssumption DEF NonGenesis

(* One block down a chain: the parent is on it, and so is every lower block. *)
LEMMA ParentFacts ==
    ASSUME NEW b \in NonGenesis
    PROVE  /\ Parent[b] \in Blocks
           /\ Parent[b] \in Anc[b]
           /\ Anc[b] = Anc[Parent[b]] \cup {b}
           /\ \A f \in Anc[b] : f # b => f \in Anc[Parent[b]]
           /\ \A t \in Blocks : b \in Anc[t] => Parent[b] \in Anc[t]
  <1>1. Parent[b] \in Blocks
    BY TreeAssumption
  <1>2. Parent[b] \in Anc[Parent[b]]
    BY <1>1, AncSelf
  <1>3. Anc[b] = Anc[Parent[b]] \cup {b}
    BY AncAssumption
  <1>4. ASSUME NEW t \in Blocks, b \in Anc[t] PROVE Parent[b] \in Anc[t]
    <2>1. Anc[b] \subseteq Anc[t]
      BY <1>4, AncAssumption
    <2> QED BY <1>2, <1>3, <2>1
  <1> QED BY <1>1, <1>2, <1>3, <1>4

(* Only genesis is alone on its chain: a block above another on a chain has a  *)
(* parent.                                                                     *)
LEMMA AboveHasParent ==
    ASSUME NEW b \in Blocks, NEW f \in Anc[b], f # b
    PROVE  b \in NonGenesis
  BY AncAssumption DEF NonGenesis

(* ApplyBlock moves the UTXO set from the parent to the block, and UndoBlock   *)
(* moves it back: the two directions of every loop.                            *)
LEMMA ApplyFacts ==
    ASSUME NEW b \in NonGenesis, Spends[b] \subseteq UtxoAt[Parent[b]]
    PROVE  /\ (UtxoAt[Parent[b]] \ Spends[b]) \cup Creates[b] = UtxoAt[b]
           /\ (UtxoAt[b] \ Creates[b]) \cup Spends[b] = UtxoAt[Parent[b]]
  <1>1. /\ Creates[b] \cap UtxoAt[Parent[b]] = {}
        /\ Creates[b] \cap Spends[b] = {}
        /\ UtxoAt[b] = (UtxoAt[Parent[b]] \ Spends[b]) \cup Creates[b]
    BY UtxoAssumption
  <1> QED BY <1>1

(* Undoing a block removes exactly it from the chain's undo records. *)
LEMMA UndoRecords ==
    ASSUME NEW b \in NonGenesis
    PROVE  Anc[b] \ {b} = Anc[Parent[b]]
  <1>1. Height[b] = Height[Parent[b]] + 1 /\ Height[Parent[b]] \in Nat
    BY TreeAssumption DEF NonGenesis
  <1>2. \A a \in Anc[Parent[b]] : Height[a] <= Height[Parent[b]]
    BY ParentFacts, AncAssumption
  <1>3. b \notin Anc[Parent[b]]
    BY <1>1, <1>2
  <1> QED BY <1>3, ParentFacts

-----------------------------------------------------------------------------
(* What ConnectTip and DisconnectTip do to the types and to the UTXO set. *)

LEMMA ConnectType ==
    ASSUME TypeOK, NEW b \in Blocks, NEW s \in BOOLEAN, NEW f \in BOOLEAN,
           ConnectOK(b, s) \/ ConnectFails(b, s, f)
    PROVE  /\ utxo' \subseteq Outpoints /\ undo' \subseteq Blocks
           /\ failedValid' \subseteq Blocks
           /\ HealthTypeOK'
           /\ faults' \in 0..MaxFaults
  <1> USE DEF TypeOK, DiskTypeOK, MemoryTypeOK, HealthTypeOK, HistoryTypeOK,
          utxoVars, healthVars
  <1>1. CASE ConnectOK(b, s)
    BY <1>1, UtxoAssumption, ChainStateAssumption DEF ConnectOK
  <1>2. CASE ConnectInvalid(b, s, f)
    BY <1>2 DEF ConnectInvalid
  <1>3. CASE ConnectUtxoError(b, s, f)
    <2>1. UNCHANGED <<utxoVars, failedValid, undoFail>>
      BY <1>3 DEF ConnectUtxoError
    <2>2. utxoFailures' \in 0..UtxoFailureThreshold
      BY <1>3, ChainStateAssumption DEF ConnectUtxoError
    <2>3. faults' \in 0..MaxFaults
      BY <1>3, ChainStateAssumption DEF ConnectUtxoError, Outcome
    <2>4. rebuild' \in BOOLEAN
      BY <1>3 DEF ConnectUtxoError
    <2> QED BY <2>1, <2>2, <2>3, <2>4
  <1> QED BY <1>1, <1>2, <1>3 DEF ConnectFails

LEMMA DisconnectType ==
    ASSUME TypeOK, NEW b \in Blocks, DisconnectOK(b) \/ DisconnectFails(b)
    PROVE  /\ utxo' \subseteq Outpoints /\ undo' \subseteq Blocks
           /\ HealthTypeOK'
           /\ faults' \in 0..MaxFaults
  <1> USE DEF TypeOK, DiskTypeOK, HealthTypeOK, HistoryTypeOK, utxoVars, healthVars
  <1>1. CASE DisconnectOK(b)
    BY <1>1, UtxoAssumption, TreeAssumption, ChainStateAssumption
    DEF DisconnectOK, NoUndoFail
  <1>2. CASE DisconnectFails(b)
    <2>1. faults' \in 0..MaxFaults
      BY <1>2, ChainStateAssumption DEF DisconnectFails, Outcome
    <2>2. CASE UNCHANGED <<utxoVars, healthVars>>
      BY <2>1, <2>2
    <2>3. CASE RecordUndoFailure(b)
      <3>1. undoFail' \in [hash : Blocks, n : 0..UndoFailureThreshold]
        BY <2>3, ChainStateAssumption DEF RecordUndoFailure
      <3>2. rebuild' \in BOOLEAN
        BY <2>3 DEF RecordUndoFailure
      <3> QED BY <2>1, <2>3, <3>1, <3>2 DEF RecordUndoFailure
    <2> QED BY <1>2, <2>2, <2>3, Zenon DEF DisconnectFails
  <1> QED BY <1>1, <1>2

(* The data part of Placed, for the block the UTXO set is at. *)
PlacedAt(b) ==
    /\ utxo = UtxoAt[b]
    /\ undo = Anc[b]
    /\ \A x \in undo \ {Genesis} : Spends[x] \subseteq UtxoAt[Parent[x]]

LEMMA ConnectPlaced ==
    ASSUME NEW b \in NonGenesis, NEW s \in BOOLEAN, PlacedAt(Parent[b]), ConnectOK(b, s)
    PROVE  /\ utxo' = UtxoAt[b]
           /\ undo' = Anc[b]
           /\ \A x \in undo' \ {Genesis} : Spends[x] \subseteq UtxoAt[Parent[x]]
  <1>1. Spends[b] \subseteq UtxoAt[Parent[b]]
    BY DEF PlacedAt, ConnectOK
  <1>2. utxo' = UtxoAt[b]
    BY <1>1, ApplyFacts DEF PlacedAt, ConnectOK
  <1>3. undo' = Anc[b]
    BY ParentFacts DEF PlacedAt, ConnectOK
  <1> QED BY <1>1, <1>2, <1>3 DEF PlacedAt, ConnectOK

LEMMA DisconnectPlaced ==
    ASSUME NEW b \in NonGenesis, PlacedAt(b), DisconnectOK(b)
    PROVE  /\ utxo' = UtxoAt[Parent[b]]
           /\ undo' = Anc[Parent[b]]
           /\ \A x \in undo' \ {Genesis} : Spends[x] \subseteq UtxoAt[Parent[x]]
  <1>1. b \in undo
    BY AncSelf DEF PlacedAt, NonGenesis
  <1>2. Spends[b] \subseteq UtxoAt[Parent[b]]
    BY <1>1 DEF PlacedAt, NonGenesis
  <1>3. utxo' = UtxoAt[Parent[b]]
    BY <1>1, <1>2, ApplyFacts DEF PlacedAt, DisconnectOK
  <1>4. undo' = Anc[Parent[b]]
    BY UndoRecords DEF PlacedAt, DisconnectOK
  <1> QED BY <1>3, <1>4 DEF PlacedAt, DisconnectOK

(* Failures leave the data alone. *)
LEMMA FailureKeepsData ==
    /\ \A b \in Blocks, s \in BOOLEAN, f \in BOOLEAN :
           ConnectFails(b, s, f) => UNCHANGED <<utxo, undo>>
    /\ \A b \in Blocks : DisconnectFails(b) => UNCHANGED <<utxo, undo>>
  <1>1. ASSUME NEW b \in Blocks, NEW s \in BOOLEAN, NEW f \in BOOLEAN,
      ConnectFails(b, s, f)
        PROVE  UNCHANGED <<utxo, undo>>
    BY <1>1, Zenon DEF ConnectFails, ConnectInvalid, ConnectUtxoError, utxoVars
  <1>2. ASSUME NEW b \in Blocks, DisconnectFails(b)
        PROVE  UNCHANGED <<utxo, undo>>
    BY <1>2, Zenon DEF DisconnectFails, RecordUndoFailure, utxoVars
  <1> QED BY <1>1, <1>2

-----------------------------------------------------------------------------
(* Blocks arriving, Cases 2 and 2.5 of ActivateBestChain. *)

LEMMA AddBlockIndexStep ==
    ASSUME IInv, NEW b \in Blocks, AddBlockIndex(b)
    PROVE  IInv'
  <1> USE DEF IInv, walVars, utxoVars, indexVars, graceVars, healthVars, stepVars,
              rewindVars
  <1>1. TypeOK'
    BY ChainStateAssumption, TreeAssumption
    DEF TypeOK, WalTypeOK, DiskTypeOK, MemoryTypeOK, HealthTypeOK, StepTypeOK,
        HistoryTypeOK, ReorgPhase, ReorgPcs, ActivatePcs, RewindPcs, Exposures,
        AddBlockIndex, Unlocked
  <1>2. Cursors'
    BY ChainStateAssumption
    DEF TypeOK, StepTypeOK, Cursors, ReorgPcs, AddBlockIndex, Unlocked
  <1>3. Placed'
    BY DEF Cursors, Placed, At, ReorgPcs,
        AddBlockIndex, Unlocked
  <1>4. Recorded'
    BY DEF Cursors, Placed, At, Recorded, HasIncompleteReorg, ReorgPcs,
        AddBlockIndex, Unlocked
  <1> QED BY <1>1, <1>2, <1>3, <1>4

LEMMA ExtendTipStep ==
    ASSUME IInv, NEW b \in Blocks, ExtendTip(b)
    PROVE  IInv'
  <1> USE DEF IInv, walVars, utxoVars, indexVars, graceVars, healthVars, stepVars,
              rewindVars
  <1>1. TypeOK'
    BY ChainStateAssumption, TreeAssumption
    DEF TypeOK, WalTypeOK, DiskTypeOK, MemoryTypeOK, HealthTypeOK, StepTypeOK,
        HistoryTypeOK, ReorgPhase, ReorgPcs, ActivatePcs, RewindPcs, Exposures,
        ExtendTip, Unlocked
  <1>2. Cursors'
    BY ChainStateAssumption
    DEF TypeOK, StepTypeOK, Cursors, ReorgPcs, ExtendTip, Unlocked
  <1>3. Placed'
    BY DEF Cursors, Placed, At, ReorgPcs,
        ExtendTip, Unlocked
  <1>4. Recorded'
    BY DEF Cursors, Placed, At, Recorded, HasIncompleteReorg, ReorgPcs,
        ExtendTip, Unlocked
  <1> QED BY <1>1, <1>2, <1>3, <1>4

LEMMA ExtendConnectStep ==
    ASSUME IInv, ExtendConnect
    PROVE  IInv'
  <1> USE DEF IInv, walVars, utxoVars, indexVars, graceVars, healthVars, stepVars,
              rewindVars
  <1>0. target \in NonGenesis /\ Parent[target] = tip
    BY DEF TypeOK, StepTypeOK, Cursors, ExtendConnect, NonGenesis
  <1>1. TypeOK'
    <2>1. ConnectOK(target, FALSE) \/ ConnectFails(target, FALSE, FALSE)
      BY Zenon DEF ExtendConnect
    <2>2. /\ utxo' \subseteq Outpoints /\ undo' \subseteq Blocks
          /\ failedValid' \subseteq Blocks
          /\ HealthTypeOK'
          /\ faults' \in 0..MaxFaults
      BY <2>1, <1>0, ConnectType, Zenon DEF NonGenesis
    <2> QED
      BY <2>2, TreeAssumption, Zenon
      DEF TypeOK, WalTypeOK, DiskTypeOK, MemoryTypeOK, StepTypeOK, HistoryTypeOK,
          ReorgPcs, ActivatePcs, ExtendConnect, Return
  <1>2. Cursors'
    BY Zenon DEF Cursors, ReorgPcs, ExtendConnect, Return
  <1>3. Placed'
    <2> SUFFICES ASSUME lost = {} PROVE Placed'
      BY DEF Placed, ExtendConnect
    <2>1. PlacedAt(Parent[target])
      BY <1>0 DEF Placed, PlacedAt, At, ReorgPcs, ExtendConnect
    <2>2. CASE ConnectOK(target, FALSE) /\ tip' = target /\ pc' = "best"
      BY <1>0, <2>1, <2>2, ConnectPlaced, Zenon DEF Placed, At, ReorgPcs
    <2>3. CASE ConnectFails(target, FALSE, FALSE) /\ Return /\ UNCHANGED tip
      <3>1. UNCHANGED <<utxo, undo>>
        BY <1>0, <2>3, FailureKeepsData, Zenon DEF NonGenesis
      <3> QED BY <1>0, <2>1, <2>3, <3>1 DEF Placed, PlacedAt, At, ReorgPcs, Return
    <2> QED BY <2>2, <2>3, Zenon DEF ExtendConnect
  <1>4. Recorded'
    BY Zenon DEF Cursors, Recorded, HasIncompleteReorg, ReorgPcs, ExtendConnect, Return
  <1> QED BY <1>1, <1>2, <1>3, <1>4

LEMMA ReplaceTipStep ==
    ASSUME IInv, NEW b \in Blocks, ReplaceTip(b)
    PROVE  IInv'
  <1> USE DEF IInv, walVars, utxoVars, indexVars, graceVars, healthVars, stepVars,
              rewindVars
  <1>1. TypeOK'
    BY ChainStateAssumption, TreeAssumption
    DEF TypeOK, WalTypeOK, DiskTypeOK, MemoryTypeOK, HealthTypeOK, StepTypeOK,
        HistoryTypeOK, ReorgPhase, ReorgPcs, ActivatePcs, RewindPcs, Exposures,
        ReplaceTip, Unlocked, ShouldReplaceVDFTip
  <1>2. Cursors'
    BY ChainStateAssumption
    DEF TypeOK, StepTypeOK, Cursors, ReorgPcs, ReplaceTip, Unlocked,
        ShouldReplaceVDFTip
  <1>3. Placed'
    BY DEF Cursors, Placed, At, ReorgPcs,
        ReplaceTip, Unlocked, ShouldReplaceVDFTip
  <1>4. Recorded'
    BY DEF Cursors, Placed, At, Recorded, HasIncompleteReorg, ReorgPcs,
        ReplaceTip, Unlocked, ShouldReplaceVDFTip
  <1> QED BY <1>1, <1>2, <1>3, <1>4

LEMMA ReplaceDisconnectStep ==
    ASSUME IInv, ReplaceDisconnect
    PROVE  IInv'
  <1> USE DEF IInv, walVars, utxoVars, indexVars, graceVars, healthVars, stepVars,
              rewindVars
  <1>0. tip \in NonGenesis
    BY DEF TypeOK, MemoryTypeOK, Cursors, ReplaceDisconnect, NonGenesis
  <1>1. TypeOK'
    <2>1. DisconnectOK(tip) \/ DisconnectFails(tip)
      BY DEF ReplaceDisconnect
    <2>2. /\ utxo' \subseteq Outpoints /\ undo' \subseteq Blocks
          /\ HealthTypeOK'
          /\ faults' \in 0..MaxFaults
      BY <2>1, <1>0, DisconnectType DEF NonGenesis
    <2> QED
      BY <2>2, TreeAssumption
      DEF TypeOK, WalTypeOK, DiskTypeOK, MemoryTypeOK, StepTypeOK, HistoryTypeOK,
          ReorgPcs, ActivatePcs, ReplaceDisconnect, Return
  <1>2. Cursors'
    BY DEF Cursors, ReorgPcs, ReplaceDisconnect, Return
  <1>3. Placed'
    <2> SUFFICES ASSUME lost = {} PROVE Placed'
      BY DEF Placed, ReplaceDisconnect
    <2>1. PlacedAt(tip) /\ tip' = tip
      BY DEF Placed, PlacedAt, At, ReorgPcs, ReplaceDisconnect
    <2>2. CASE DisconnectOK(tip) /\ pc' = "replConn"
      BY <1>0, <2>1, <2>2, DisconnectPlaced DEF Placed, At, ReorgPcs
    <2>3. CASE DisconnectFails(tip) /\ Return
      <3>1. UNCHANGED <<utxo, undo>>
        BY <1>0, <2>3, FailureKeepsData DEF NonGenesis
      <3> QED BY <2>1, <2>3, <3>1 DEF Placed, PlacedAt, At, ReorgPcs, Return
    <2> QED BY <2>2, <2>3 DEF ReplaceDisconnect
  <1>4. Recorded'
    BY DEF Cursors, Recorded, HasIncompleteReorg, ReorgPcs, ReplaceDisconnect, Return
  <1> QED BY <1>1, <1>2, <1>3, <1>4

LEMMA ReplaceConnectStep ==
    ASSUME IInv, ReplaceConnect
    PROVE  IInv'
  <1> USE DEF IInv, walVars, utxoVars, indexVars, graceVars, healthVars, stepVars,
              rewindVars
  <1>0. target \in NonGenesis /\ Parent[target] = Parent[tip]
    BY DEF TypeOK, StepTypeOK, Cursors, ReplaceConnect, NonGenesis
  <1>1. TypeOK'
    <2>1. ConnectOK(target, FALSE) \/ ConnectFails(target, FALSE, TRUE)
      BY Zenon DEF ReplaceConnect
    <2>2. /\ utxo' \subseteq Outpoints /\ undo' \subseteq Blocks
          /\ failedValid' \subseteq Blocks
          /\ HealthTypeOK'
          /\ faults' \in 0..MaxFaults
      BY <2>1, <1>0, ConnectType, Zenon DEF NonGenesis
    <2> QED
      BY <2>2, TreeAssumption, Zenon
      DEF TypeOK, WalTypeOK, DiskTypeOK, MemoryTypeOK, StepTypeOK, HistoryTypeOK,
          ReorgPcs, ActivatePcs, Exposures, ReplaceConnect, Return, Expose
  <1>2. Cursors'
    BY Zenon DEF Cursors, ReorgPcs, ReplaceConnect, Return
  <1>3. Placed'
    <2>1. CASE ConnectOK(target,
        FALSE) /\ tip' = target /\ pc' = "best" /\ UNCHANGED lost
      <3> SUFFICES ASSUME lost = {} PROVE Placed'
        BY <2>1 DEF Placed
      <3>1. PlacedAt(Parent[target])
        BY <1>0, Zenon DEF Placed, PlacedAt, At, ReorgPcs, ReplaceConnect
      <3> QED BY <1>0, <2>1, <3>1, ConnectPlaced, Zenon DEF Placed, At, ReorgPcs
    <2>2. CASE Expose({"replaceFailed"})
      BY <2>2 DEF Placed, Expose
    <2> QED BY <2>1, <2>2, Zenon DEF ReplaceConnect
  <1>4. Recorded'
    BY Zenon DEF Cursors, Recorded, HasIncompleteReorg, ReorgPcs, ReplaceConnect,
        Return, Expose
  <1> QED BY <1>1, <1>2, <1>3, <1>4

LEMMA WriteBestStep ==
    ASSUME IInv, WriteBest
    PROVE  IInv'
  <1> USE DEF IInv, walVars, utxoVars, indexVars, graceVars, healthVars, stepVars,
              rewindVars
  <1>1. TypeOK'
    BY ChainStateAssumption, TreeAssumption
    DEF TypeOK, WalTypeOK, DiskTypeOK, MemoryTypeOK, HealthTypeOK, StepTypeOK,
        HistoryTypeOK, ReorgPhase, ReorgPcs, ActivatePcs, RewindPcs, Exposures,
        WriteBest, Outcome, Expose, Return
  <1>2. Cursors'
    BY ChainStateAssumption
    DEF TypeOK, StepTypeOK, Cursors, ReorgPcs, WriteBest, Outcome, Expose, Return
  <1>3. Placed'
    BY DEF Cursors, Placed, At, ReorgPcs,
        WriteBest, Outcome, Expose, Return
  <1>4. Recorded'
    BY DEF Cursors, Placed, At, Recorded, HasIncompleteReorg, ReorgPcs,
        WriteBest, Outcome, Expose, Return
  <1> QED BY <1>1, <1>2, <1>3, <1>4

-----------------------------------------------------------------------------
(* Case 3 of ActivateBestChain keeps the inductive invariant. *)
LEMMA StartReorgStep ==
    ASSUME IInv, NEW b \in Blocks, StartReorg(b)
    PROVE  IInv'
  <1> USE DEF IInv, walVars, utxoVars, indexVars, graceVars, healthVars, stepVars,
              rewindVars
  <1>1. TypeOK'
    BY ChainStateAssumption, TreeAssumption
    DEF TypeOK, WalTypeOK, DiskTypeOK, MemoryTypeOK, HealthTypeOK, StepTypeOK,
        HistoryTypeOK, ReorgPhase, ReorgPcs, ActivatePcs, RewindPcs, Exposures,
        StartReorg, Unlocked, BeginReorg, WriteWAL, Outcome
  <1>2. Cursors'
    BY ChainStateAssumption
    DEF TypeOK, StepTypeOK, Cursors, ReorgPcs, StartReorg, Unlocked, BeginReorg,
        WriteWAL, Outcome
  <1>3. Placed'
    BY DEF Cursors, Placed, At, ReorgPcs,
        StartReorg, Unlocked, BeginReorg, WriteWAL, Outcome
  <1>4. Recorded'
    BY DEF Cursors, Placed, At, Recorded, HasIncompleteReorg, ReorgPcs,
        StartReorg, Unlocked, BeginReorg, WriteWAL, Outcome
  <1> QED BY <1>1, <1>2, <1>3, <1>4

LEMMA ReorgEnterDisconnectStep ==
    ASSUME IInv, ReorgEnterDisconnect
    PROVE  IInv'
  <1> USE DEF IInv, walVars, utxoVars, indexVars, graceVars, healthVars, stepVars,
              rewindVars
  <1>1. TypeOK'
    BY ChainStateAssumption, TreeAssumption
    DEF TypeOK, WalTypeOK, DiskTypeOK, MemoryTypeOK, HealthTypeOK, StepTypeOK,
        HistoryTypeOK, ReorgPhase, ReorgPcs, ActivatePcs, RewindPcs, Exposures,
        ReorgEnterDisconnect, WalStep, EnterDisconnectPhase, EnterPhase, WriteWAL,
        Outcome, Expose
  <1>2. Cursors'
    BY AncSelf, ForkFacts
    DEF TypeOK, MemoryTypeOK, StepTypeOK, Cursors, ReorgPcs, ReorgEnterDisconnect,
        WalStep, EnterDisconnectPhase, EnterPhase, WriteWAL, Outcome, Expose
  <1>3. Placed'
    BY DEF Cursors, Placed, At, ReorgPcs,
        ReorgEnterDisconnect, WalStep, EnterDisconnectPhase, EnterPhase, WriteWAL,
        Outcome, Expose
  <1>4. Recorded'
    BY DEF Cursors, Placed, At, Recorded, HasIncompleteReorg, ReorgPcs,
        ReorgEnterDisconnect, WalStep, EnterDisconnectPhase, EnterPhase, WriteWAL,
        Outcome, Expose
  <1> QED BY <1>1, <1>2, <1>3, <1>4

LEMMA ReorgDisconnectStep ==
    ASSUME IInv, ReorgDisconnect
    PROVE  IInv'
  <1> USE DEF IInv, walVars, utxoVars, indexVars, graceVars, healthVars, stepVars,
              rewindVars
  <1>0. cur \in NonGenesis
    BY AboveHasParent DEF TypeOK, StepTypeOK, Cursors, ReorgDisconnect
  <1>1. TypeOK'
    <2>1. DisconnectOK(cur) \/ DisconnectFails(cur)
      BY DEF ReorgDisconnect
    <2>2. /\ utxo' \subseteq Outpoints /\ undo' \subseteq Blocks
          /\ HealthTypeOK'
          /\ faults' \in 0..MaxFaults
      BY <2>1, <1>0, DisconnectType DEF NonGenesis
    <2>3. cur' \in Blocks
      BY <1>0, ParentFacts, ZenonT(40) DEF TypeOK, StepTypeOK, ReorgDisconnect
    <2> QED
      BY <2>2, <2>3
      DEF TypeOK, WalTypeOK, DiskTypeOK, MemoryTypeOK, StepTypeOK, HistoryTypeOK,
          ReorgPcs, ActivatePcs, ReorgDisconnect
  <1>2. Cursors'
    <2>1. CASE cur' = Parent[cur] /\ pc' = "updDisc"
      <3>1. /\ FindFork(tip, target) \in Anc[Parent[cur]]
            /\ Parent[cur] \in Anc[tip]
        BY <1>0, ParentFacts DEF TypeOK, MemoryTypeOK, Cursors, ReorgDisconnect
      <3> QED BY <2>1, <3>1 DEF Cursors, ReorgPcs, ReorgDisconnect
    <2>2. CASE pc' = "rbConn" /\ UNCHANGED cur
      BY <2>2 DEF Cursors, ReorgPcs, ReorgDisconnect
    <2> QED BY <2>1, <2>2, ZenonT(40) DEF ReorgDisconnect
  <1>3. Placed'
    <2> SUFFICES ASSUME lost = {} PROVE Placed'
      BY Zenon DEF Placed, ReorgDisconnect
    <2>1. PlacedAt(cur)
      BY DEF Placed, PlacedAt, At, ReorgPcs, ReorgDisconnect
    <2>2. CASE DisconnectOK(cur) /\ cur' = Parent[cur] /\ pc' = "updDisc"
      BY <1>0, <2>1, <2>2, DisconnectPlaced DEF Placed, At, ReorgPcs
    <2>3. CASE DisconnectFails(cur) /\ pc' = "rbConn" /\ UNCHANGED cur
      <3>1. UNCHANGED <<utxo, undo>>
        BY <1>0, <2>3, FailureKeepsData DEF NonGenesis
      <3> QED BY <2>1, <2>3, <3>1 DEF Placed, PlacedAt, At, ReorgPcs
    <2> QED BY <2>2, <2>3, Zenon DEF ReorgDisconnect
  <1>4. Recorded'
    BY DEF Cursors, Recorded, HasIncompleteReorg, ReorgPcs, ReorgDisconnect
  <1> QED BY <1>1, <1>2, <1>3, <1>4

LEMMA ReorgUpdateDisconnectStep ==
    ASSUME IInv, ReorgUpdateDisconnect
    PROVE  IInv'
  <1> USE DEF IInv, walVars, utxoVars, indexVars, graceVars, healthVars, stepVars,
              rewindVars
  <1>1. TypeOK'
    BY ChainStateAssumption, TreeAssumption
    DEF TypeOK, WalTypeOK, DiskTypeOK, MemoryTypeOK, HealthTypeOK, StepTypeOK,
        HistoryTypeOK, ReorgPhase, ReorgPcs, ActivatePcs, RewindPcs, Exposures,
        ReorgUpdateDisconnect, WalStep, UpdateDisconnectProgress, UpdateProgress,
        WriteWAL, Outcome, Expose
  <1>2. Cursors'
    BY ChainStateAssumption, Zenon
    DEF TypeOK, StepTypeOK, Cursors, ReorgPcs, ReorgUpdateDisconnect, WalStep,
        UpdateDisconnectProgress, UpdateProgress, WriteWAL, Outcome, Expose
  <1>3. Placed'
    BY DEF Cursors, Placed, At, ReorgPcs,
        ReorgUpdateDisconnect, WalStep, UpdateDisconnectProgress, UpdateProgress,
        WriteWAL, Outcome, Expose
  <1>4. Recorded'
    BY Zenon DEF Cursors, Placed, At, Recorded, HasIncompleteReorg, ReorgPcs,
        ReorgUpdateDisconnect, WalStep, UpdateDisconnectProgress, UpdateProgress,
        WriteWAL, Outcome, Expose
  <1> QED BY <1>1, <1>2, <1>3, <1>4

LEMMA ReorgEnterConnectStep ==
    ASSUME IInv, ReorgEnterConnect
    PROVE  IInv'
  <1> USE DEF IInv, walVars, utxoVars, indexVars, graceVars, healthVars, stepVars,
              rewindVars
  <1>1. TypeOK'
    BY ChainStateAssumption, TreeAssumption
    DEF TypeOK, WalTypeOK, DiskTypeOK, MemoryTypeOK, HealthTypeOK, StepTypeOK,
        HistoryTypeOK, ReorgPhase, ReorgPcs, ActivatePcs, RewindPcs, Exposures,
        ReorgEnterConnect, WalStep, EnterConnectPhase, EnterPhase, WriteWAL,
        Outcome, Expose
  <1>2. Cursors'
    BY AncSelf, ForkFacts
    DEF TypeOK, MemoryTypeOK, StepTypeOK, Cursors, ReorgPcs, ReorgEnterConnect,
        WalStep, EnterConnectPhase, EnterPhase, WriteWAL, Outcome, Expose
  <1>3. Placed'
    BY Zenon DEF Cursors, Placed, At, ReorgPcs,
        ReorgEnterConnect, WalStep, EnterConnectPhase, EnterPhase, WriteWAL, Outcome,
        Expose
  <1>4. Recorded'
    BY DEF Cursors, Placed, At, Recorded, HasIncompleteReorg, ReorgPcs,
        ReorgEnterConnect, WalStep, EnterConnectPhase, EnterPhase, WriteWAL, Outcome,
        Expose
  <1> QED BY <1>1, <1>2, <1>3, <1>4

LEMMA ReorgConnectStep ==
    ASSUME IInv, ReorgConnect
    PROVE  IInv'
  <1> USE DEF IInv, walVars, utxoVars, indexVars, graceVars, healthVars, stepVars,
              rewindVars
  <1> DEFINE next == NextTowards(cur, target)
  <1>0. /\ target \in Blocks
        /\ next \in Anc[target]
        /\ next \in NonGenesis
        /\ Parent[next] = cur
    BY NextFacts, Zenon DEF TypeOK, StepTypeOK, Cursors, ReorgConnect
  <1>a. \/ /\ ConnectOK(next, TRUE) /\ pc' = "updConn"
           /\ cur' = next /\ UNCHANGED failedChild
        \/ /\ Outcome("read", FALSE) /\ pc' = "rbDisc"
           /\ UNCHANGED <<cur, utxoVars, healthVars, failedValid, failedChild>>
        \/ /\ ConnectFails(next, TRUE, FALSE) /\ pc' = "rbDisc"
           /\ failedChild' = failedChild \cup (Anc[target] \ Anc[next])
           /\ UNCHANGED cur
    BY Zenon DEF ReorgConnect
  <1>b. UNCHANGED <<bestBlock, marker, walVars, tip, index, graceVars, target,
                    rewindVars, crashes, lost>> /\ pc = "conn"
    BY Zenon DEF ReorgConnect
  <1> HIDE DEF next
  <1>1. TypeOK'
    <2>1. /\ utxo' \subseteq Outpoints /\ undo' \subseteq Blocks
          /\ failedValid' \subseteq Blocks
          /\ HealthTypeOK'
          /\ faults' \in 0..MaxFaults
      <3>1. CASE ConnectOK(next, TRUE) \/ ConnectFails(next, TRUE, FALSE)
        BY <1>0, <3>1, ConnectType, Zenon DEF NonGenesis
      <3>2. CASE Outcome("read", FALSE)
                 /\ UNCHANGED <<cur, utxoVars, healthVars, failedValid, failedChild>>
        BY <3>2, ChainStateAssumption
        DEF TypeOK, DiskTypeOK, MemoryTypeOK, HealthTypeOK, HistoryTypeOK, Outcome
      <3> QED BY <1>a, <3>1, <3>2, Zenon
    <2>2. cur' \in Blocks
      BY <1>0, <1>a, Zenon DEF TypeOK, StepTypeOK, NonGenesis
    <2>3. failedChild' \subseteq Blocks
      BY <1>0, <1>a, AncAssumption, Zenon DEF TypeOK, MemoryTypeOK
    <2> QED
      BY <1>a, <1>b, <2>1, <2>2, <2>3, Zenon
      DEF TypeOK, WalTypeOK, DiskTypeOK, MemoryTypeOK, StepTypeOK, HistoryTypeOK,
          ReorgPcs, ActivatePcs
  <1>2. Cursors'
    <2>1. CASE cur' = next /\ pc' = "updConn"
      <3>1. FindFork(tip, target) \in Anc[next]
        BY <1>0, <1>b, ParentFacts, ZenonT(40) DEF Cursors
      <3> QED BY <1>0, <1>b, <2>1, <3>1 DEF Cursors, ReorgPcs
    <2>2. CASE pc' = "rbDisc" /\ UNCHANGED cur
      BY <1>b, <2>2 DEF Cursors, ReorgPcs
    <2> QED BY <1>a, <2>1, <2>2, Zenon
  <1>3. Placed'
    <2> SUFFICES ASSUME lost = {} PROVE Placed'
      BY <1>b DEF Placed
    <2>1. PlacedAt(cur)
      BY <1>b DEF Placed, PlacedAt, At, ReorgPcs
    <2>2. CASE ConnectOK(next, TRUE) /\ cur' = next /\ pc' = "updConn"
      BY <1>0, <2>1, <2>2, ConnectPlaced, Zenon DEF Placed, At, ReorgPcs
    <2>3. CASE UNCHANGED <<utxo, undo, cur>> /\ pc' = "rbDisc"
      BY <2>1, <2>3 DEF Placed, PlacedAt, At, ReorgPcs
    <2> QED BY <1>0, <1>a, <2>2, <2>3, FailureKeepsData, Zenon DEF NonGenesis
  <1>4. Recorded'
    BY <1>a, <1>b DEF Cursors, Recorded, HasIncompleteReorg, ReorgPcs
  <1> QED BY <1>1, <1>2, <1>3, <1>4

LEMMA ReorgUpdateConnectStep ==
    ASSUME IInv, ReorgUpdateConnect
    PROVE  IInv'
  <1> USE DEF IInv, walVars, utxoVars, indexVars, graceVars, healthVars, stepVars,
              rewindVars
  <1>1. TypeOK'
    BY ChainStateAssumption, TreeAssumption
    DEF TypeOK, WalTypeOK, DiskTypeOK, MemoryTypeOK, HealthTypeOK, StepTypeOK,
        HistoryTypeOK, ReorgPhase, ReorgPcs, ActivatePcs, RewindPcs, Exposures,
        ReorgUpdateConnect, WalStep, UpdateConnectProgress, UpdateProgress,
        WriteWAL, Outcome, Expose
  <1>2. Cursors'
    BY ChainStateAssumption, Zenon
    DEF TypeOK, StepTypeOK, Cursors, ReorgPcs, ReorgUpdateConnect, WalStep,
        UpdateConnectProgress, UpdateProgress, WriteWAL, Outcome, Expose
  <1>3. Placed'
    BY Zenon DEF Cursors, Placed, At, ReorgPcs,
        ReorgUpdateConnect, WalStep, UpdateConnectProgress, UpdateProgress, WriteWAL,
        Outcome, Expose
  <1>4. Recorded'
    BY Zenon DEF Cursors, Placed, At, Recorded, HasIncompleteReorg, ReorgPcs,
        ReorgUpdateConnect, WalStep, UpdateConnectProgress, UpdateProgress, WriteWAL,
        Outcome, Expose
  <1> QED BY <1>1, <1>2, <1>3, <1>4

LEMMA ReorgSetTipStep ==
    ASSUME IInv, ReorgSetTip
    PROVE  IInv'
  <1> USE DEF IInv, walVars, utxoVars, indexVars, graceVars, healthVars, stepVars,
              rewindVars
  <1>1. TypeOK'
    BY ChainStateAssumption, TreeAssumption
    DEF TypeOK, WalTypeOK, DiskTypeOK, MemoryTypeOK, HealthTypeOK, StepTypeOK,
        HistoryTypeOK, ReorgPhase, ReorgPcs, ActivatePcs, RewindPcs, Exposures,
        ReorgSetTip
  <1>2. Cursors'
    BY ChainStateAssumption
    DEF TypeOK, StepTypeOK, Cursors, ReorgPcs, ReorgSetTip
  <1>3. Placed'
    BY DEF Cursors, Placed, At, ReorgPcs,
        ReorgSetTip
  <1>4. Recorded'
    BY DEF Cursors, Placed, At, Recorded, HasIncompleteReorg, ReorgPcs,
        ReorgSetTip
  <1> QED BY <1>1, <1>2, <1>3, <1>4

LEMMA ReorgWriteBestStep ==
    ASSUME IInv, ReorgWriteBest
    PROVE  IInv'
  <1> USE DEF IInv, walVars, utxoVars, indexVars, graceVars, healthVars, stepVars,
              rewindVars
  <1>1. TypeOK'
    BY ChainStateAssumption, TreeAssumption
    DEF TypeOK, WalTypeOK, DiskTypeOK, MemoryTypeOK, HealthTypeOK, StepTypeOK,
        HistoryTypeOK, ReorgPhase, ReorgPcs, ActivatePcs, RewindPcs, Exposures,
        ReorgWriteBest, Outcome, Expose
  <1>2. Cursors'
    BY ChainStateAssumption
    DEF TypeOK, StepTypeOK, Cursors, ReorgPcs, ReorgWriteBest, Outcome, Expose
  <1>3. Placed'
    BY DEF Cursors, Placed, At, ReorgPcs,
        ReorgWriteBest, Outcome, Expose
  <1>4. Recorded'
    BY DEF Cursors, Placed, At, Recorded, HasIncompleteReorg, ReorgPcs,
        ReorgWriteBest, Outcome, Expose
  <1> QED BY <1>1, <1>2, <1>3, <1>4

LEMMA ReorgCompleteStep ==
    ASSUME IInv, ReorgComplete
    PROVE  IInv'
  <1> USE DEF IInv, walVars, utxoVars, indexVars, graceVars, healthVars, stepVars,
              rewindVars
  <1>1. TypeOK'
    <2>1. WalTypeOK'
      BY Zenon DEF TypeOK, WalTypeOK, ReorgPhase,
          ReorgComplete, CompleteReorg, Outcome, Return
    <2>2. DiskTypeOK' /\ MemoryTypeOK' /\ HealthTypeOK'
      BY Zenon DEF TypeOK, DiskTypeOK, MemoryTypeOK, HealthTypeOK, ReorgComplete, CompleteReorg, Return
    <2>3. StepTypeOK'
      BY ChainStateAssumption, TreeAssumption
      DEF TypeOK, StepTypeOK, RewindPcs, ReorgComplete, CompleteReorg, Return
    <2>4. HistoryTypeOK'
      BY ChainStateAssumption DEF TypeOK, HistoryTypeOK, ReorgComplete, CompleteReorg, Return, Outcome
    <2> QED BY <2>1, <2>2, <2>3, <2>4 DEF TypeOK
  <1>2. Cursors'
    BY ChainStateAssumption
    DEF TypeOK, StepTypeOK, Cursors, ReorgPcs, ReorgComplete, CompleteReorg, Outcome,
        Return
  <1>3. Placed'
    BY DEF Cursors, Placed, At, ReorgPcs,
        ReorgComplete, CompleteReorg, Outcome, Return
  <1>4. Recorded'
    BY DEF Cursors, Placed, At, Recorded, HasIncompleteReorg, ReorgPcs,
        ReorgComplete, CompleteReorg, Outcome, Return
  <1> QED BY <1>1, <1>2, <1>3, <1>4

LEMMA RollbackDisconnectStep ==
    ASSUME IInv, RollbackDisconnect
    PROVE  IInv'
  <1> USE DEF IInv, walVars, utxoVars, indexVars, graceVars, healthVars, stepVars,
              rewindVars
  <1> DEFINE Undone == cur \in NonGenesis /\ DisconnectOK(cur) /\ cur' = Parent[cur]
                       /\ UNCHANGED <<pc, target, walVars, lost>>
             Failed == cur \in NonGenesis /\ DisconnectFails(cur) /\ AbortReorg(TRUE)
                       /\ Expose({"rollbackFailed"}) /\ Return
             Done == cur = FindFork(tip, target) /\ pc' = "rbConn"
                     /\ UNCHANGED <<utxoVars, healthVars, faults, target, cur,
                         walVars, lost>>
  <1>0. cur # FindFork(tip, target) => cur \in NonGenesis
    BY AboveHasParent, Zenon DEF TypeOK, StepTypeOK, Cursors, RollbackDisconnect
  <1>a. Undone \/ Failed \/ Done
    BY <1>0, Zenon DEF RollbackDisconnect
  <1>b. UNCHANGED <<bestBlock, marker, tip, indexVars, graceVars, rewindVars, crashes>>
        /\ pc = "rbDisc"
    BY Zenon DEF RollbackDisconnect
  <1>1. TypeOK'
    <2>1. /\ utxo' \subseteq Outpoints /\ undo' \subseteq Blocks
          /\ HealthTypeOK'
          /\ faults' \in 0..MaxFaults
      <3>1. CASE Undone \/ Failed
        BY <3>1, DisconnectType, Zenon DEF NonGenesis
      <3>2. CASE Done
        BY <3>2 DEF TypeOK, DiskTypeOK, HealthTypeOK, HistoryTypeOK
      <3> QED BY <1>a, <3>1, <3>2, Zenon
    <2>2. StepTypeOK'
      BY <1>a, <1>b, ParentFacts, TreeAssumption, Zenon
      DEF TypeOK, StepTypeOK, ReorgPcs, ActivatePcs, Return
    <2> QED
      BY <1>a, <1>b, <2>1, <2>2, Zenon
      DEF TypeOK, WalTypeOK, ReorgPhase, DiskTypeOK, MemoryTypeOK, HistoryTypeOK,
          Exposures, AbortReorg, CompleteReorg, Expose
  <1>2. Cursors'
    <2>1. CASE Undone
      <3>1. cur # FindFork(tip, target)
        BY <2>1, Zenon DEF RollbackDisconnect
      <3>2. /\ FindFork(tip, target) \in Anc[Parent[cur]]
            /\ Parent[cur] \in Anc[target]
        BY <1>b, <2>1, <3>1, ParentFacts, ZenonT(40) DEF TypeOK, StepTypeOK, Cursors
      <3> QED BY <1>b, <2>1, <3>2, Zenon DEF Cursors, ReorgPcs
    <2>2. CASE Failed
      BY <1>b, <2>2 DEF Cursors, ReorgPcs, Return
    <2>3. CASE Done
      <3>1. cur \in Anc[tip]
        BY <2>3, ForkFacts, Zenon DEF TypeOK, MemoryTypeOK, StepTypeOK
      <3> QED BY <1>b, <2>3, <3>1 DEF Cursors, ReorgPcs
    <2> QED BY <1>a, <2>1, <2>2, <2>3, Zenon
  <1>3. Placed'
    <2>1. CASE Failed
      BY <2>1, Zenon DEF Placed, Expose
    <2>2. CASE Undone
      <3> SUFFICES ASSUME lost = {} PROVE Placed'
        BY <2>2, Zenon DEF Placed
      <3>1. PlacedAt(cur)
        BY <1>b, Zenon DEF Placed, PlacedAt, At, ReorgPcs
      <3> QED BY <1>b, <2>2, <3>1, DisconnectPlaced, Zenon DEF Placed, At, ReorgPcs
    <2>3. CASE Done
      BY <1>b, <2>3 DEF Placed, At, ReorgPcs
    <2> QED BY <1>a, <2>1, <2>2, <2>3, Zenon
  <1>4. Recorded'
    BY <1>a, <1>b, Zenon DEF Cursors, Recorded, HasIncompleteReorg, ReorgPcs, Expose
  <1> QED BY <1>1, <1>2, <1>3, <1>4

LEMMA RollbackConnectStep ==
    ASSUME IInv, RollbackConnect
    PROVE  IInv'
  <1> USE DEF IInv, walVars, utxoVars, indexVars, graceVars, healthVars, stepVars,
              rewindVars
  <1> DEFINE next == NextTowards(cur, tip)
             Redone == ConnectOK(next, TRUE) /\ cur' = next
                       /\ UNCHANGED <<pc, target, walVars, lost>>
             Failed == AbortReorg(TRUE) /\ Expose({"rollbackFailed"}) /\ Return
  <1>0. /\ tip \in Blocks
        /\ next \in Anc[tip]
        /\ next \in NonGenesis
        /\ Parent[next] = cur
    BY NextFacts, Zenon DEF TypeOK, MemoryTypeOK, Cursors, RollbackConnect
  <1>a. \/ Redone
        \/ ConnectFails(next, TRUE, FALSE) /\ Failed
        \/ /\ Outcome("read", FALSE) /\ UNCHANGED <<utxoVars, healthVars, failedValid>>
           /\ Failed
    BY Zenon DEF RollbackConnect
  <1>b. UNCHANGED <<bestBlock, marker, tip, index, failedChild, graceVars, rewindVars,
                    crashes>> /\ pc = "rbConn"
    BY DEF RollbackConnect
  <1> HIDE DEF next
  <1>1. TypeOK'
    <2>1. /\ utxo' \subseteq Outpoints /\ undo' \subseteq Blocks
          /\ failedValid' \subseteq Blocks
          /\ HealthTypeOK'
          /\ faults' \in 0..MaxFaults
      <3>1. CASE ConnectOK(next, TRUE) \/ ConnectFails(next, TRUE, FALSE)
        BY <1>0, <3>1, ConnectType, Zenon DEF NonGenesis
      <3>2. CASE Outcome("read", FALSE) /\ UNCHANGED <<utxoVars, healthVars,
          failedValid>>
        BY <3>2, ChainStateAssumption
        DEF TypeOK, DiskTypeOK, MemoryTypeOK, HealthTypeOK, HistoryTypeOK, Outcome
      <3> QED BY <1>a, <3>1, <3>2, Zenon
    <2>2. StepTypeOK'
      BY <1>0, <1>a, <1>b, TreeAssumption, Zenon
      DEF TypeOK, StepTypeOK, ReorgPcs, ActivatePcs, Return, NonGenesis
    <2> QED
      BY <1>a, <1>b, <2>1, <2>2, Zenon
      DEF TypeOK, WalTypeOK, ReorgPhase, DiskTypeOK, MemoryTypeOK, HistoryTypeOK,
          Exposures, AbortReorg, CompleteReorg, Expose
  <1>2. Cursors'
    <2>1. CASE Redone
      BY <1>0, <1>b, <2>1, ZenonT(40) DEF Cursors, ReorgPcs
    <2>2. CASE Failed
      BY <1>b, <2>2, Zenon DEF Cursors, ReorgPcs, Return
    <2> QED BY <1>a, <2>1, <2>2, Zenon
  <1>3. Placed'
    <2>1. CASE Failed
      BY <2>1, Zenon DEF Placed, Expose
    <2>2. CASE Redone
      <3> SUFFICES ASSUME lost = {} PROVE Placed'
        BY <2>2, Zenon DEF Placed
      <3>1. PlacedAt(Parent[next])
        BY <1>0, <1>b, Zenon DEF Placed, PlacedAt, At, ReorgPcs
      <3> QED BY <1>0, <1>b, <2>2, <3>1, ConnectPlaced, Zenon DEF Placed, At, ReorgPcs
    <2> QED BY <1>a, <2>1, <2>2, Zenon
  <1>4. Recorded'
    BY <1>a, <1>b, Zenon DEF Cursors, Recorded, HasIncompleteReorg, ReorgPcs, Expose
  <1> QED BY <1>1, <1>2, <1>3, <1>4

LEMMA RollbackAbortStep ==
    ASSUME IInv, RollbackAbort
    PROVE  IInv'
  <1> USE DEF IInv, walVars, utxoVars, indexVars, graceVars, healthVars, stepVars,
              rewindVars
  <1>1. TypeOK'
    <2>1. WalTypeOK'
      BY Zenon DEF TypeOK, WalTypeOK, ReorgPhase,
          RollbackAbort, AbortReorg, CompleteReorg, Outcome, Return
    <2>2. DiskTypeOK' /\ MemoryTypeOK' /\ HealthTypeOK' /\ StepTypeOK' /\ HistoryTypeOK'
      BY ChainStateAssumption, TreeAssumption
      DEF TypeOK, DiskTypeOK, MemoryTypeOK, HealthTypeOK, StepTypeOK, HistoryTypeOK,
          RewindPcs, RollbackAbort, AbortReorg, CompleteReorg, Outcome, Return
    <2> QED BY <2>1, <2>2 DEF TypeOK
  <1>2. Cursors'
    BY ChainStateAssumption, Zenon
    DEF TypeOK, StepTypeOK, Cursors, ReorgPcs, RollbackAbort, AbortReorg,
        CompleteReorg, Outcome, Return
  <1>3. Placed'
    BY Zenon DEF Cursors, Placed, At, ReorgPcs,
        RollbackAbort, AbortReorg, CompleteReorg, Outcome, Return
  <1>4. Recorded'
    BY Zenon DEF Cursors, Placed, At, Recorded, HasIncompleteReorg, ReorgPcs,
        RollbackAbort, AbortReorg, CompleteReorg, Outcome, Return
  <1> QED BY <1>1, <1>2, <1>3, <1>4

-----------------------------------------------------------------------------
(* DisconnectToHeight, crashes and startups keep the inductive invariant. *)

LEMMA DownType ==
    ASSUME Down
    PROVE  HealthTypeOK' /\ StepTypeOK' /\ tip' \in Blocks /\ index' \subseteq Blocks
  <1>1. HealthTypeOK'
    <2>1. NoUndoFail \in [hash : Blocks, n : 0..UndoFailureThreshold]
      BY TreeAssumption, ChainStateAssumption DEF NoUndoFail
    <2>2. 0 \in 0..UtxoFailureThreshold
      BY ChainStateAssumption
    <2> QED BY <2>1, <2>2, Zenon DEF Down, HealthTypeOK
  <1>2. StepTypeOK'
    BY TreeAssumption, ChainStateAssumption DEF Down, StepTypeOK, RewindPcs
  <1> QED BY <1>1, <1>2, TreeAssumption DEF Down

LEMMA StartRewindStep ==
    ASSUME IInv, NEW h \in RewindHeights, StartRewind(h)
    PROVE  IInv'
  <1> USE DEF IInv, walVars, utxoVars, indexVars, graceVars, healthVars, stepVars,
              rewindVars
  <1>1. TypeOK'
    <2>1. WalTypeOK'
      BY Zenon DEF TypeOK, WalTypeOK, ReorgPhase,
          StartRewind, Unlocked, BeginReorg, WriteWAL, Outcome, RewindFrame
    <2>2. DiskTypeOK' /\ MemoryTypeOK' /\ HealthTypeOK'
      BY Zenon DEF TypeOK, DiskTypeOK, MemoryTypeOK, HealthTypeOK, StartRewind, RewindFrame
    <2>3. StepTypeOK'
      BY ChainStateAssumption, TreeAssumption
      DEF TypeOK, StepTypeOK, RewindPcs, StartRewind, RewindFrame
    <2>4. HistoryTypeOK'
      BY ChainStateAssumption DEF TypeOK, HistoryTypeOK, StartRewind, RewindFrame, Outcome
    <2> QED BY <2>1, <2>2, <2>3, <2>4 DEF TypeOK
  <1>2. Cursors'
    <2>1. /\ pc = "idle" /\ UNCHANGED <<pc, target, cur, tip>>
          /\ dpc' = "enter" /\ dtarget' = h /\ dn' = 0 /\ Height[tip] > h
      BY Zenon DEF StartRewind, Unlocked, RewindFrame
    <2>2. walActive' = TRUE \/ (walActive' = walActive /\ walActive)
      BY Zenon DEF StartRewind, BeginReorg
    <2>3. Height[tip'] > dtarget'
      BY <2>1
    <2>4. walActive'
      BY <2>2, Zenon
    <2> QED BY <2>1, <2>3, <2>4, Zenon DEF Cursors, ReorgPcs
  <1>3. Placed'
    BY ZenonT(40) DEF Cursors, Placed, At, ReorgPcs,
        StartRewind, Unlocked, BeginReorg, WriteWAL, Outcome, RewindFrame
  <1>4. Recorded'
    BY ZenonT(40) DEF Cursors, Placed, At, Recorded, HasIncompleteReorg, ReorgPcs,
        StartRewind, Unlocked, BeginReorg, WriteWAL, Outcome, RewindFrame
  <1> QED BY <1>1, <1>2, <1>3, <1>4

LEMMA RewindEnterStep ==
    ASSUME IInv, RewindEnter
    PROVE  IInv'
  <1> USE DEF IInv, walVars, utxoVars, indexVars, graceVars, healthVars, stepVars,
              rewindVars
  <1>1. TypeOK'
    BY ChainStateAssumption, TreeAssumption
    DEF TypeOK, WalTypeOK, DiskTypeOK, MemoryTypeOK, HealthTypeOK, StepTypeOK,
        HistoryTypeOK, ReorgPhase, ReorgPcs, ActivatePcs, RewindPcs, Exposures,
        RewindEnter, EnterDisconnectPhase, EnterPhase, WriteWAL, Outcome, Expose,
        RewindFrame
  <1>2. Cursors'
    <2>1. /\ dpc = "enter" /\ dpc' = "disc"
          /\ UNCHANGED <<pc, target, cur, tip, dtarget, dn>>
      BY Zenon DEF RewindEnter, RewindFrame
    <2>2. pc = "idle" /\ dn = 0 /\ Height[tip] > dtarget /\ walActive
      BY <2>1, Zenon DEF Cursors
    <2>3. walActive'
      BY <2>2, Zenon DEF RewindEnter, EnterDisconnectPhase, EnterPhase
    <2>4. dn' < BatchSize /\ Height[tip'] > dtarget'
      BY <2>1, <2>2, ChainStateAssumption
    <2> QED BY <2>1, <2>2, <2>3, <2>4, Zenon DEF Cursors, ReorgPcs
  <1>3. Placed'
    BY Zenon DEF Cursors, Placed, At, ReorgPcs,
        RewindEnter, EnterDisconnectPhase, EnterPhase, WriteWAL, Outcome, Expose,
        RewindFrame
  <1>4. Recorded'
    BY Zenon DEF Cursors, Placed, At, Recorded, HasIncompleteReorg, ReorgPcs,
        RewindEnter, EnterDisconnectPhase, EnterPhase, WriteWAL, Outcome, Expose,
        RewindFrame
  <1> QED BY <1>1, <1>2, <1>3, <1>4

LEMMA RewindDisconnectStep ==
    ASSUME IInv, RewindDisconnect
    PROVE  IInv'
  <1> USE DEF IInv, walVars, utxoVars, indexVars, graceVars, healthVars, stepVars,
              rewindVars
  <1> DEFINE Undone == /\ DisconnectOK(tip)
                       /\ tip' = Parent[tip]
                       /\ dn' = dn + 1
                       /\ dpc' = IF BatchDone(Height[tip'], dn') THEN "best" ELSE "disc"
                       /\ UNCHANGED <<dtarget, walVars, lost>>
             Failed == /\ DisconnectFails(tip)
                       /\ AbortReorg(TRUE)
                       /\ Expose(IF dn > 0 THEN {"rewindFailed"} ELSE {})
                       /\ dpc' = "none" /\ dtarget' = 0 /\ dn' = 0
                       /\ UNCHANGED tip
  <1>a. (Undone \/ Failed) /\ dpc = "disc" /\ RewindFrame /\ UNCHANGED bestBlock
    BY Zenon DEF RewindDisconnect
  <1>c. /\ tip \in Blocks /\ dtarget \in Nat /\ dn \in 0..BatchSize
        /\ pc = "idle" /\ dn < BatchSize /\ Height[tip] > dtarget
    BY <1>a, Zenon DEF TypeOK, MemoryTypeOK, StepTypeOK, Cursors
  <1> HIDE DEF Undone, Failed
  <1>b. pc = "idle" /\ dn \in Nat /\ dn < BatchSize
    BY <1>c
  <1>0. tip \in NonGenesis
    BY <1>c, TreeAssumption DEF NonGenesis
  <1> USE DEF Undone, Failed
  <1>1. TypeOK'
    <2>1. /\ utxo' \subseteq Outpoints /\ undo' \subseteq Blocks
          /\ HealthTypeOK'
          /\ faults' \in 0..MaxFaults
      BY <1>0, <1>a, DisconnectType, Zenon DEF NonGenesis
    <2>2. tip' \in Blocks
      BY <1>0, <1>a, ParentFacts, Zenon DEF NonGenesis
    <2>3. StepTypeOK'
      <3>1. dn' \in 0..BatchSize
        <4>1. CASE dn' = dn + 1
          BY <1>b, <4>1, ChainStateAssumption
        <4>2. CASE dn' = 0
          BY <4>2, ChainStateAssumption
        <4> QED BY <1>a, <4>1, <4>2, Zenon
      <3>2. dpc' \in {"none", "disc", "best"}
        BY <1>a, Zenon
      <3>3. dtarget' = dtarget \/ dtarget' = 0
        BY <1>a, Zenon
      <3>4. pc' \in {"down",
          "idle"} \cup ActivatePcs /\ target' \in Blocks /\ cur' \in Blocks
        BY <1>a, Zenon DEF TypeOK, StepTypeOK, RewindFrame
      <3> QED BY <3>1, <3>2, <3>3, <3>4 DEF TypeOK, StepTypeOK, RewindPcs
    <2> QED
      BY <1>a, <2>1, <2>2, <2>3, Zenon
      DEF TypeOK, WalTypeOK, ReorgPhase, DiskTypeOK, MemoryTypeOK, HistoryTypeOK,
          Exposures, RewindFrame, AbortReorg, CompleteReorg, Expose
  <1>2. Cursors'
    <2>1. CASE Failed
      BY <1>a, <1>b, <2>1, ZenonT(40) DEF Cursors, ReorgPcs, RewindFrame
    <2>2. CASE Undone
      <3>1. dpc' = "disc" => Height[tip'] > dtarget' /\ dn' < BatchSize
        <4>1. Height[tip'] \in Nat /\ dtarget \in Nat /\ dn' \in Nat /\ dn' <= BatchSize
          <5>1. tip' = Parent[tip] /\ dn' = dn + 1
            BY <2>2, Zenon
          <5> HIDE DEF Undone, Failed
          <5>2. Parent[tip] \in Blocks
            BY <1>0, ParentFacts
          <5> QED BY <1>c, <5>1, <5>2, TreeAssumption, ChainStateAssumption
        <4> QED BY <2>2, <4>1, ChainStateAssumption DEF BatchDone
      <3> QED BY <1>a, <1>b, <2>2, <3>1, Zenon DEF Cursors, ReorgPcs, RewindFrame
    <2> QED BY <1>a, <2>1, <2>2, Zenon
  <1>3. Placed'
    <2> SUFFICES ASSUME lost' = {} PROVE Placed'
      BY Zenon DEF Placed
    <2>0. lost = {}
      BY <1>a, Zenon DEF Expose
    <2>1. PlacedAt(tip)
      BY <1>b, <2>0 DEF Placed, PlacedAt, At, ReorgPcs
    <2>2. CASE Undone
      BY <1>0, <1>a, <1>b, <2>1, <2>2, DisconnectPlaced, ZenonT(40)
      DEF Placed, At, ReorgPcs, RewindFrame
    <2>3. CASE Failed
      <3>1. UNCHANGED <<utxo, undo>>
        BY <1>0, <2>3, FailureKeepsData DEF NonGenesis
      <3> QED BY <1>a, <1>b, <2>1, <2>3, <3>1, Zenon DEF Placed, PlacedAt, At, ReorgPcs,
          RewindFrame
    <2> QED BY <1>a, <2>2, <2>3, Zenon
  <1>4. Recorded'
    <2>1. CASE Undone
      <3>1. /\ dpc = "disc" /\ pc = "idle" /\ dn' = dn + 1 /\ dpc' \in {"best", "disc"}
            /\ UNCHANGED <<lost, pc, walFile>>
        BY <1>a, <1>b, <2>1, Zenon DEF RewindFrame
      <3> HIDE DEF Undone, Failed
      <3>2. dn' > 0
        BY <1>b, <3>1
      <3>3. lost = {} => HasIncompleteReorg
        BY <3>1 DEF Recorded
      <3> QED BY <3>1, <3>2, <3>3 DEF Recorded, HasIncompleteReorg, ReorgPcs
    <2>2. CASE Failed
      BY <1>a, <1>b, <2>2 DEF Recorded, HasIncompleteReorg, ReorgPcs, RewindFrame,
          Expose
    <2> QED BY <1>a, <2>1, <2>2, Zenon
  <1> QED BY <1>1, <1>2, <1>3, <1>4

LEMMA RewindWriteBestStep ==
    ASSUME IInv, RewindWriteBest
    PROVE  IInv'
  <1> USE DEF IInv, walVars, utxoVars, indexVars, graceVars, healthVars, stepVars,
              rewindVars
  <1>1. TypeOK'
    BY ChainStateAssumption, TreeAssumption
    DEF TypeOK, WalTypeOK, DiskTypeOK, MemoryTypeOK, HealthTypeOK, StepTypeOK,
        HistoryTypeOK, ReorgPhase, ReorgPcs, ActivatePcs, RewindPcs, Exposures,
        RewindWriteBest, Outcome, Expose, RewindFrame
  <1>2. Cursors'
    BY ChainStateAssumption, ZenonT(40)
    DEF TypeOK, StepTypeOK, Cursors, ReorgPcs, RewindWriteBest, Outcome, Expose,
        RewindFrame
  <1>3. Placed'
    BY ZenonT(40) DEF Cursors, Placed, At, ReorgPcs,
        RewindWriteBest, Outcome, Expose, RewindFrame
  <1>4. Recorded'
    BY ZenonT(40) DEF Cursors, Placed, At, Recorded, HasIncompleteReorg, ReorgPcs,
        RewindWriteBest, Outcome, Expose, RewindFrame
  <1> QED BY <1>1, <1>2, <1>3, <1>4

LEMMA RewindUpdateStep ==
    ASSUME IInv, RewindUpdate
    PROVE  IInv'
  <1> USE DEF IInv, walVars, utxoVars, indexVars, graceVars, healthVars, stepVars,
              rewindVars
  <1>1. TypeOK'
    BY ChainStateAssumption, TreeAssumption
    DEF TypeOK, WalTypeOK, DiskTypeOK, MemoryTypeOK, HealthTypeOK, StepTypeOK,
        HistoryTypeOK, ReorgPhase, ReorgPcs, ActivatePcs, RewindPcs, Exposures,
        RewindUpdate, UpdateDisconnectProgress, UpdateProgress, WriteWAL, Outcome,
        Expose, RewindFrame
  <1>2. Cursors'
    BY ChainStateAssumption, Zenon
    DEF TypeOK, StepTypeOK, Cursors, ReorgPcs, RewindUpdate, UpdateDisconnectProgress,
        UpdateProgress, WriteWAL, Outcome, Expose, RewindFrame
  <1>3. Placed'
    BY Zenon DEF Cursors, Placed, At, ReorgPcs,
        RewindUpdate, UpdateDisconnectProgress, UpdateProgress, WriteWAL, Outcome,
        Expose, RewindFrame
  <1>4. Recorded'
    BY Zenon DEF Cursors, Placed, At, Recorded, HasIncompleteReorg, ReorgPcs,
        RewindUpdate, UpdateDisconnectProgress, UpdateProgress, WriteWAL, Outcome,
        Expose, RewindFrame
  <1> QED BY <1>1, <1>2, <1>3, <1>4

LEMMA RewindResumeStep ==
    ASSUME IInv, RewindResume
    PROVE  IInv'
  <1> USE DEF IInv, walVars, utxoVars, indexVars, graceVars, healthVars, stepVars,
              rewindVars
  <1>1. TypeOK'
    BY ChainStateAssumption, TreeAssumption
    DEF TypeOK, WalTypeOK, DiskTypeOK, MemoryTypeOK, HealthTypeOK, StepTypeOK,
        HistoryTypeOK, ReorgPhase, ReorgPcs, ActivatePcs, RewindPcs, Exposures,
        RewindResume, RewindFrame
  <1>2. Cursors'
    <2>1. /\ dpc = "gap" /\ pc = "idle"
          /\ dpc' = IF Height[tip] > dtarget THEN "disc" ELSE "final"
          /\ UNCHANGED <<pc, target, cur, tip, dtarget, dn, walActive>>
      BY Zenon DEF RewindResume, RewindFrame
    <2>2. dn = 0 /\ walActive
      BY <2>1, Zenon DEF Cursors
    <2>3. dn' < BatchSize
      BY <2>1, <2>2, ChainStateAssumption
    <2>4. dpc' \in {"disc", "final"} /\ (dpc' = "disc" => Height[tip'] > dtarget')
      BY <2>1, Zenon
    <2> QED BY <2>1, <2>2, <2>3, <2>4, Zenon DEF Cursors, ReorgPcs
  <1>3. Placed'
    BY Zenon DEF Cursors, Placed, At, ReorgPcs,
        RewindResume, RewindFrame
  <1>4. Recorded'
    BY Zenon DEF Cursors, Placed, At, Recorded, HasIncompleteReorg, ReorgPcs,
        RewindResume, RewindFrame
  <1> QED BY <1>1, <1>2, <1>3, <1>4

LEMMA RewindCompleteStep ==
    ASSUME IInv, RewindComplete
    PROVE  IInv'
  <1> USE DEF IInv, walVars, utxoVars, indexVars, graceVars, healthVars, stepVars,
              rewindVars
  <1>1. TypeOK'
    <2>1. WalTypeOK'
      BY Zenon DEF TypeOK, WalTypeOK, ReorgPhase,
          RewindComplete, CompleteReorg, Outcome, RewindFrame
    <2>2. DiskTypeOK' /\ MemoryTypeOK' /\ HealthTypeOK' /\ StepTypeOK' /\ HistoryTypeOK'
      BY ChainStateAssumption, TreeAssumption
      DEF TypeOK, DiskTypeOK, MemoryTypeOK, HealthTypeOK, StepTypeOK, HistoryTypeOK,
          RewindPcs, RewindComplete, CompleteReorg, Outcome, RewindFrame
    <2> QED BY <2>1, <2>2 DEF TypeOK
  <1>2. Cursors'
    BY ChainStateAssumption, ZenonT(40)
    DEF TypeOK, StepTypeOK, Cursors, ReorgPcs, RewindComplete, CompleteReorg, Outcome,
        RewindFrame
  <1>3. Placed'
    BY ZenonT(40) DEF Cursors, Placed, At, ReorgPcs,
        RewindComplete, CompleteReorg, Outcome, RewindFrame
  <1>4. Recorded'
    BY Zenon DEF Cursors, Placed, At, Recorded, HasIncompleteReorg, ReorgPcs,
        RewindComplete, CompleteReorg, Outcome, RewindFrame
  <1> QED BY <1>1, <1>2, <1>3, <1>4

LEMMA ExpireGraceStep ==
    ASSUME IInv, ExpireGrace
    PROVE  IInv'
  <1> USE DEF IInv, walVars, utxoVars, indexVars, graceVars, healthVars, stepVars,
              rewindVars
  <1>1. WalTypeOK' /\ DiskTypeOK' /\ MemoryTypeOK'
    BY Zenon DEF TypeOK, WalTypeOK, DiskTypeOK, MemoryTypeOK, ExpireGrace
  <1>2. HealthTypeOK' /\ StepTypeOK' /\ HistoryTypeOK'
    BY Zenon DEF TypeOK, HealthTypeOK, StepTypeOK, HistoryTypeOK, ExpireGrace
  <1>3. Cursors'
    BY ZenonT(40) DEF Cursors, ExpireGrace
  <1>4. Placed' /\ Recorded'
    BY Zenon DEF Placed, At, Recorded, HasIncompleteReorg, ExpireGrace
  <1> QED BY <1>1, <1>2, <1>3, <1>4 DEF TypeOK

LEMMA CrashStep ==
    ASSUME IInv, Crash
    PROVE  IInv'
  <1> USE DEF IInv, walVars, utxoVars, indexVars, graceVars, healthVars, stepVars,
              rewindVars
  <1>1. TypeOK'
    <2>1. WalTypeOK' /\ DiskTypeOK' /\ MemoryTypeOK'
      BY DownType, Zenon
      DEF TypeOK, WalTypeOK, DiskTypeOK, MemoryTypeOK, ReorgPhase, Crash, Down,
          CrashInWriteWAL
    <2>2. HistoryTypeOK'
      <3>1. crashes' \in 0..MaxCrashes
        BY ChainStateAssumption DEF TypeOK, HistoryTypeOK, Crash
      <3>2. lost' \subseteq Exposures
        BY Zenon DEF TypeOK, HistoryTypeOK, Crash, Expose, Exposures
      <3> QED BY <3>1, <3>2 DEF TypeOK, HistoryTypeOK, Crash
    <2> QED BY <2>1, <2>2, DownType DEF TypeOK, Crash
  <1>2. Cursors'
    BY ChainStateAssumption, ZenonT(40)
    DEF TypeOK, StepTypeOK, Cursors, ReorgPcs, Crash, Down, Expose, CrashInWriteWAL,
        InWriteWAL, NoUndoFail
  <1>3. Placed'
    BY ZenonT(40) DEF Cursors, Placed, At, ReorgPcs,
        Crash, Down, Expose, CrashInWriteWAL, InWriteWAL, NoUndoFail
  <1>4. Recorded'
    BY Zenon DEF Cursors, Placed, At, Recorded, HasIncompleteReorg, ReorgPcs,
        Crash, Down, Expose, CrashInWriteWAL, InWriteWAL, NoUndoFail
  <1> QED BY <1>1, <1>2, <1>3, <1>4

LEMMA TriggerRebuildStep ==
    ASSUME IInv, TriggerRebuild
    PROVE  IInv'
  <1> USE DEF IInv, walVars, utxoVars, indexVars, graceVars, healthVars, stepVars,
              rewindVars
  <1>1. TypeOK'
    <2>1. WalTypeOK' /\ DiskTypeOK' /\ MemoryTypeOK'
      BY DownType, Zenon
      DEF TypeOK, WalTypeOK, DiskTypeOK, MemoryTypeOK, ReorgPhase, TriggerRebuild,
          Down
    <2>2. HistoryTypeOK'
      BY ChainStateAssumption DEF TypeOK, HistoryTypeOK, TriggerRebuild, Outcome
    <2> QED BY <2>1, <2>2, DownType DEF TypeOK, TriggerRebuild
  <1>2. Cursors'
    BY ChainStateAssumption, ZenonT(40)
    DEF TypeOK, StepTypeOK, Cursors, ReorgPcs, TriggerRebuild, Unlocked, Down, Outcome,
        NoUndoFail
  <1>3. Placed'
    BY ZenonT(40) DEF Cursors, Placed, At, ReorgPcs,
        TriggerRebuild, Unlocked, Down, Outcome, NoUndoFail
  <1>4. Recorded'
    BY Zenon DEF Cursors, Placed, At, Recorded, HasIncompleteReorg, ReorgPcs,
        TriggerRebuild, Unlocked, Down, Outcome, NoUndoFail
  <1> QED BY <1>1, <1>2, <1>3, <1>4

LEMMA StartupStep ==
    ASSUME IInv, Startup
    PROVE  IInv'
  <1> USE DEF IInv, walVars, utxoVars, indexVars, graceVars, healthVars, stepVars,
              rewindVars
  <1>1. TypeOK'
    <2>1. WalTypeOK'
      BY Zenon DEF TypeOK, WalTypeOK, ReorgPhase, Startup, Construct
    <2>2. DiskTypeOK'
      BY Zenon DEF TypeOK, DiskTypeOK, Startup
    <2>3. MemoryTypeOK'
      BY AncAssumption DEF TypeOK, DiskTypeOK, MemoryTypeOK, Startup, Load, StartupFrame
    <2>4. HealthTypeOK' /\ StepTypeOK' /\ HistoryTypeOK'
      BY ZenonT(40) DEF TypeOK, HealthTypeOK, StepTypeOK, HistoryTypeOK, Startup, Load,
          StartupFrame
    <2> QED BY <2>1, <2>2, <2>3, <2>4 DEF TypeOK
  <1>2. Cursors'
    BY ChainStateAssumption, ZenonT(40)
    DEF TypeOK, StepTypeOK, Cursors, ReorgPcs, Startup, Load, Construct,
        HasIncompleteReorg, StartupFrame
  <1>3. Placed'
    BY ZenonT(40) DEF Cursors, Placed, Recorded, At, ReorgPcs,
        Startup, Load, Construct, HasIncompleteReorg, StartupFrame
  <1>4. Recorded'
    BY Zenon DEF Cursors, Placed, At, Recorded, HasIncompleteReorg, ReorgPcs,
        Startup, Load, Construct, HasIncompleteReorg, StartupFrame
  <1> QED BY <1>1, <1>2, <1>3, <1>4

LEMMA StartupRebuildStep ==
    ASSUME IInv, StartupRebuild
    PROVE  IInv'
  <1> USE DEF IInv, walVars, utxoVars, indexVars, graceVars, healthVars, stepVars,
              rewindVars
  <1>1. TypeOK'
    <2>1. WalTypeOK' /\ DiskTypeOK' /\ MemoryTypeOK'
      BY UtxoAssumption, TreeAssumption, Zenon
      DEF TypeOK, WalTypeOK, DiskTypeOK, MemoryTypeOK, StartupRebuild, Wipe,
          FreshDisk, StartupFrame
    <2>2. HealthTypeOK' /\ StepTypeOK' /\ HistoryTypeOK'
      BY DEF TypeOK, HealthTypeOK, StepTypeOK, HistoryTypeOK, StartupRebuild, Wipe,
          StartupFrame
    <2> QED BY <2>1, <2>2 DEF TypeOK
  <1>2. Cursors'
    BY ChainStateAssumption, Zenon
    DEF TypeOK, StepTypeOK, Cursors, ReorgPcs, StartupRebuild, Wipe, FreshDisk,
        StartupFrame
  <1>3. Placed'
    BY Zenon DEF Cursors, Placed, At, ReorgPcs,
        StartupRebuild, Wipe, FreshDisk, StartupFrame
  <1>4. Recorded'
    BY AncAssumption, ZenonT(40)
    DEF Cursors, Placed, At, Recorded, HasIncompleteReorg, ReorgPcs, StartupRebuild,
        Wipe, FreshDisk, StartupFrame
  <1> QED BY <1>1, <1>2, <1>3, <1>4

LEMMA StartupReindexStep ==
    ASSUME IInv, StartupReindex
    PROVE  IInv'
  <1> USE DEF IInv, walVars, utxoVars, indexVars, graceVars, healthVars, stepVars,
              rewindVars
  <1>1. TypeOK'
    <2>1. WalTypeOK' /\ DiskTypeOK' /\ MemoryTypeOK'
      BY UtxoAssumption, TreeAssumption
      DEF TypeOK, WalTypeOK, DiskTypeOK, MemoryTypeOK, StartupReindex, Wipe,
          FreshDisk, StartupFrame
    <2>2. HealthTypeOK' /\ StepTypeOK' /\ HistoryTypeOK'
      BY DEF TypeOK, HealthTypeOK, StepTypeOK, HistoryTypeOK, StartupReindex, Wipe,
          StartupFrame
    <2> QED BY <2>1, <2>2 DEF TypeOK
  <1>2. Cursors'
    BY ChainStateAssumption, Zenon
    DEF TypeOK, StepTypeOK, Cursors, ReorgPcs, StartupReindex, Wipe, FreshDisk,
        StartupFrame
  <1>3. Placed'
    BY Zenon DEF Cursors, Placed, At, ReorgPcs,
        StartupReindex, Wipe, FreshDisk, StartupFrame
  <1>4. Recorded'
    BY AncAssumption, Zenon
    DEF Cursors, Placed, At, Recorded, HasIncompleteReorg, ReorgPcs, StartupReindex,
        Wipe, FreshDisk, StartupFrame
  <1> QED BY <1>1, <1>2, <1>3, <1>4

LEMMA StartupResetStep ==
    ASSUME IInv, StartupReset
    PROVE  IInv'
  <1> USE DEF IInv, walVars, utxoVars, indexVars, graceVars, healthVars, stepVars,
              rewindVars
  <1>1. TypeOK'
    <2>1. WalTypeOK' /\ DiskTypeOK' /\ MemoryTypeOK'
      BY UtxoAssumption, TreeAssumption, Zenon
      DEF TypeOK, WalTypeOK, DiskTypeOK, MemoryTypeOK, StartupReset, Wipe,
          FreshDisk, StartupFrame
    <2>2. HealthTypeOK' /\ StepTypeOK' /\ HistoryTypeOK'
      BY DEF TypeOK, HealthTypeOK, StepTypeOK, HistoryTypeOK, StartupReset, Wipe,
          StartupFrame
    <2> QED BY <2>1, <2>2 DEF TypeOK
  <1>2. Cursors'
    BY ChainStateAssumption, ZenonT(40)
    DEF TypeOK, StepTypeOK, Cursors, ReorgPcs, StartupReset, Wipe, FreshDisk,
        StartupFrame
  <1>3. Placed'
    BY ZenonT(40) DEF Cursors, Placed, At, ReorgPcs,
        StartupReset, Wipe, FreshDisk, StartupFrame
  <1>4. Recorded'
    BY AncAssumption, Zenon
    DEF Cursors, Placed, At, Recorded, HasIncompleteReorg, ReorgPcs, StartupReset,
        Wipe, FreshDisk, StartupFrame
  <1> QED BY <1>1, <1>2, <1>3, <1>4

LEMMA WipeDiesStep ==
    ASSUME IInv, WipeDies
    PROVE  IInv'
  <1> USE DEF IInv, walVars, utxoVars, indexVars, graceVars, healthVars, stepVars,
              rewindVars
  <1>1. TypeOK'
    <2>1. WalTypeOK' /\ DiskTypeOK' /\ MemoryTypeOK'
      BY UtxoAssumption, TreeAssumption, Zenon
      DEF TypeOK, WalTypeOK, DiskTypeOK, MemoryTypeOK, WipeDies, Wipe, FreshDisk
    <2>2. HealthTypeOK' /\ StepTypeOK'
      BY DEF TypeOK, HealthTypeOK, StepTypeOK, WipeDies
    <2>3. HistoryTypeOK'
      <3>1. crashes' \in 0..MaxCrashes /\ faults' = faults
        BY ChainStateAssumption DEF TypeOK, HistoryTypeOK, WipeDies
      <3>2. lost' \subseteq Exposures
        BY Zenon DEF TypeOK, HistoryTypeOK, WipeDies, Wipe, Expose, Exposures
      <3> QED BY <3>1, <3>2 DEF TypeOK, HistoryTypeOK
    <2> QED BY <2>1, <2>2, <2>3 DEF TypeOK
  <1>2. Cursors'
    BY Zenon DEF Cursors, ReorgPcs, WipeDies
  <1>3. Placed'
    BY DEF Placed, At, ReorgPcs, WipeDies, Wipe, FreshDisk, Expose
  <1>4. Recorded'
    BY AncAssumption, Zenon
    DEF Cursors, Recorded, HasIncompleteReorg, ReorgPcs, WipeDies, Wipe, FreshDisk, Expose
  <1> QED BY <1>1, <1>2, <1>3, <1>4

-----------------------------------------------------------------------------
LEMMA InitIInv == Init => IInv
  <1> SUFFICES ASSUME Init PROVE IInv
    OBVIOUS
  <1>1. TypeOK
    <2>1. HealthTypeOK
      <3>1. NoUndoFail \in [hash : Blocks, n : 0..UndoFailureThreshold]
        BY TreeAssumption, ChainStateAssumption DEF NoUndoFail
      <3>2. 0 \in 0..UtxoFailureThreshold
        BY ChainStateAssumption
      <3> QED BY <3>1, <3>2, Zenon DEF Init, HealthTypeOK
    <2>2. WalTypeOK /\ DiskTypeOK
      BY TreeAssumption, UtxoAssumption, Zenon
      DEF Init, FreshDisk, WalInit, WalTypeOK, ReorgPhase, DiskTypeOK
    <2>3. MemoryTypeOK
      BY TreeAssumption, Zenon DEF Init, MemoryTypeOK
    <2>4. StepTypeOK
      BY TreeAssumption, ChainStateAssumption DEF Init, StepTypeOK, RewindPcs
    <2>5. HistoryTypeOK
      BY ChainStateAssumption DEF Init, HistoryTypeOK
    <2> QED BY <2>1, <2>2, <2>3, <2>4, <2>5 DEF TypeOK
  <1>2. Cursors
    BY DEF Init, Cursors, ReorgPcs
  <1>3. Placed
    BY AncAssumption DEF Init, FreshDisk, Placed, At, ReorgPcs
  <1>4. Recorded
    BY DEF Init, FreshDisk, Recorded, ReorgPcs
  <1> QED BY <1>1, <1>2, <1>3, <1>4 DEF IInv

LEMMA StutterStep ==
    ASSUME IInv, UNCHANGED vars
    PROVE  IInv'
  <1> USE DEF vars, utxoVars, indexVars, graceVars, healthVars, stepVars, rewindVars,
      walVars
  <1>1. TypeOK'
    BY DEF IInv, TypeOK, WalTypeOK, DiskTypeOK, MemoryTypeOK, HealthTypeOK, StepTypeOK,
           HistoryTypeOK
  <1>2. Cursors'
    BY Zenon DEF IInv, Cursors
  <1>3. Placed'
    BY Zenon DEF IInv, Placed, At
  <1>4. Recorded'
    BY Zenon DEF IInv, Recorded, HasIncompleteReorg
  <1> QED BY <1>1, <1>2, <1>3, <1>4 DEF IInv

LEMMA NextIInv == IInv /\ [Next]_vars => IInv'
  <1> SUFFICES ASSUME IInv, [Next]_vars PROVE IInv'
    OBVIOUS
  <1>1. CASE \E b \in Blocks : AddBlockIndex(b) \/ ActivateBestChain(b)
    BY <1>1, AddBlockIndexStep, ExtendTipStep, ReplaceTipStep, StartReorgStep
    DEF ActivateBestChain
  <1>2. CASE \E h \in RewindHeights : StartRewind(h)
    BY <1>2, StartRewindStep
  <1>3. CASE ActivateStep
    BY <1>3, ExtendConnectStep, ReplaceDisconnectStep, ReplaceConnectStep,
        WriteBestStep,
       ReorgEnterDisconnectStep, ReorgDisconnectStep, ReorgUpdateDisconnectStep,
       ReorgEnterConnectStep, ReorgConnectStep, ReorgUpdateConnectStep, ReorgSetTipStep,
       ReorgWriteBestStep, ReorgCompleteStep, RollbackDisconnectStep,
       RollbackConnectStep,
       RollbackAbortStep
    DEF ActivateStep
  <1>4. CASE RewindStep
    BY <1>4, RewindEnterStep, RewindDisconnectStep, RewindWriteBestStep,
        RewindUpdateStep,
       RewindResumeStep, RewindCompleteStep
    DEF RewindStep
  <1>5. CASE ExpireGrace \/ Crash \/ WipeDies \/ TriggerRebuild
    BY <1>5, ExpireGraceStep, CrashStep, WipeDiesStep, TriggerRebuildStep
  <1>6. CASE Restart
    BY <1>6, StartupStep, StartupRebuildStep, StartupReindexStep, StartupResetStep
    DEF Restart
  <1>7. CASE UNCHANGED vars
    BY <1>7, StutterStep
  <1> QED BY <1>1, <1>2, <1>3, <1>4, <1>5, <1>6, <1>7 DEF Next

LEMMA Inductive == Spec => []IInv
  <1> QED BY InitIInv, NextIInv, PTL DEF Spec

-----------------------------------------------------------------------------
(* Types, among them the limits of the batch counter of DisconnectToHeight and *)
(* of the failure counters, for every tree and every setting of the limits.    *)
THEOREM TypeCorrect == Spec => []TypeOK
  <1>1. IInv => TypeOK
    BY DEF IInv
  <1> QED BY <1>1, Inductive, PTL

(* The write-ahead rule: whenever the UTXO set on disk is not the one of the   *)
(* best block on disk, the WAL or the marker says so or the node is in one of  *)
(* the windows without a WAL.                                                  *)
THEOREM WriteAheadHolds == Spec => []WriteAhead
  <1>1. IInv => WriteAhead
    <2> SUFFICES ASSUME IInv, lost = {}, ~HasIncompleteReorg,
                        pc \notin {"down", "replConn", "best"}
                 PROVE  utxo = UtxoAt[bestBlock] /\ undo = Anc[bestBlock]
      BY DEF IInv, Recorded, WriteAhead
    <2>1. bestBlock = tip
      BY DEF IInv, Cursors, Recorded, ReorgPcs
    <2>2. At = tip
      BY DEF IInv, Cursors, Recorded, ReorgPcs, At
    <2> QED BY <2>1, <2>2 DEF IInv, Placed
  <1> QED BY <1>1, Inductive, PTL

(* Whenever cs_main is free, the tip, the best-block record, the UTXO set and  *)
(* the undo records describe one chain.                                        *)
THEOREM ConsistentHolds == Spec => []Consistent
  <1>1. IInv => Consistent
    BY Zenon DEF IInv, Cursors, Placed, Recorded, At, Consistent, Unlocked, ReorgPcs
  <1> QED BY <1>1, Inductive, PTL

-----------------------------------------------------------------------------
(* A second invariant, on top of the first: which blocks ActivateBestChain may *)
(* bring the tip to.                                                           *)

(* No checkpoint contradicts the chain of b. *)
CheckpointOK(b) == \A c \in Checkpoints : Height[b] >= Height[c] => c \in Anc[b]

(* The steps of Case 3 that still lead to its target, and all the steps that   *)
(* lead to one.                                                                *)
ForwardPcs == {"enterDisc", "disc", "updDisc", "conn", "updConn"}
ChosenPcs  == {"extend", "replDisc", "replConn"} \cup ForwardPcs

(* The tip and the record agree with the checkpoints; a target was compared    *)
(* with the tip that is still there.                                           *)
Chosen ==
    /\ CheckpointOK(tip) /\ CheckpointOK(bestBlock)
    /\ pc \in ChosenPcs => CheckpointOK(target) /\ Improves(tip, target)
    /\ pc \in ForwardPcs =>
           /\ Height[tip] - Height[FindFork(tip, target)] <= MaxReorgDepth
           /\ Height[FindFork(tip, target)] >= LastCheckpoint(Height[tip])

LEMMA GenesisCheckpoint == CheckpointOK(Genesis)
  <1>1. ASSUME NEW c \in Checkpoints, Height[Genesis] >= Height[c]
        PROVE  c = Genesis
    <2>1. c \in Blocks /\ Height[c] = 0
      BY <1>1, CheckpointAssumption, TreeAssumption
    <2>2. ASSUME c # Genesis PROVE FALSE
      <3>1. c \in NonGenesis /\ Parent[c] \in Blocks
        BY <2>1, <2>2, TreeAssumption DEF NonGenesis
      <3> QED BY <2>1, <3>1, TreeAssumption
    <2> QED BY <2>2
  <1> QED BY <1>1, AncAssumption DEF CheckpointOK

LEMMA BlockHeights ==
    /\ \A b \in Blocks : Height[b] \in Nat
    /\ \A c \in Checkpoints : c \in Blocks /\ Height[c] \in Nat
    /\ \A b \in NonGenesis : /\ b \in Blocks /\ Parent[b] \in Blocks
                             /\ Height[b] = Height[Parent[b]] + 1
  BY CheckpointAssumption, TreeAssumption DEF NonGenesis

LEMMA NotItsAncestor ==
    ASSUME NEW b \in NonGenesis
    PROVE  b \notin Anc[Parent[b]]
  <1>1. /\ Parent[b] \in Blocks /\ Height[Parent[b]] \in Nat
        /\ Height[b] = Height[Parent[b]] + 1
    BY BlockHeights
  <1>2. \A a \in Anc[Parent[b]] : Height[a] <= Height[Parent[b]]
    BY <1>1, AncAssumption, Zenon
  <1> QED BY <1>1, <1>2

LEMMA ChildCheckpoint ==
    ASSUME NEW b \in NonGenesis, CheckpointOK(Parent[b]),
           \A c \in Checkpoints : Height[c] = Height[b] => c = b
    PROVE  CheckpointOK(b)
  <1> SUFFICES ASSUME NEW c \in Checkpoints, Height[b] >= Height[c]
               PROVE  c \in Anc[b]
    BY DEF CheckpointOK
  <1>1. CASE Height[c] = Height[b]
    BY <1>1, AncSelf, BlockHeights
  <1>2. CASE Height[c] # Height[b]
    <2>1. Height[Parent[b]] >= Height[c]
      BY <1>2, BlockHeights
    <2> QED BY <2>1, ParentFacts DEF CheckpointOK
  <1> QED BY <1>1, <1>2

LEMMA ParentCheckpoint ==
    ASSUME NEW b \in NonGenesis, CheckpointOK(b)
    PROVE  CheckpointOK(Parent[b])
  <1> SUFFICES ASSUME NEW c \in Checkpoints, Height[Parent[b]] >= Height[c]
               PROVE  c \in Anc[Parent[b]]
    BY DEF CheckpointOK
  <1>1. Height[b] >= Height[c] /\ c # b
    BY BlockHeights
  <1> QED BY <1>1, ParentFacts DEF CheckpointOK

LEMMA TiersCheckpoint ==
    ASSUME NEW t \in Blocks, NEW b \in NonGenesis, Parent[b] # t, CheckpointTiers(t, b)
    PROVE  CheckpointOK(b)
  <1> SUFFICES ASSUME NEW c \in Checkpoints, Height[b] >= Height[c]
               PROVE  c \in Anc[b]
    BY DEF CheckpointOK
  <1>1. CASE Height[c] = Height[b]
    BY <1>1, AncSelf, BlockHeights DEF CheckpointTiers
  <1>2. CASE Height[c] < Height[b]
    BY <1>2 DEF CheckpointTiers, NonGenesis
  <1> QED BY <1>1, <1>2, BlockHeights

(* A nonempty family of finite sets has a least member under inclusion. *)
LEMMA LeastFiniteSet ==
    ASSUME NEW S, NEW T \in SUBSET FiniteSubsetsOf(S), T # {}
    PROVE  \E m \in T : \A n \in T : n \subseteq m => n = m
  <1>1. \E m \in T : \A n \in T : ~(<<n, m>> \in StrictSubsetOrdering(S))
    BY WFMin, FS_StrictSubsetOrderingWellFounded
  <1>2. \A n \in T : n \in SUBSET S
    BY DEF FiniteSubsetsOf
  <1> QED BY <1>1, <1>2, Zenon DEF StrictSubsetOrdering

(* So a nonempty bounded set of heights has a greatest member. *)
LEMMA HighestExists ==
    ASSUME NEW h \in Nat, NEW S \in SUBSET (0..h), S # {}
    PROVE  \E m \in S : \A n \in S : n <= m
  <1> DEFINE Above(x) == {y \in S : y > x}
             T == {Above(x) : x \in S}
  <1>1. T \in SUBSET FiniteSubsetsOf(S)
    <2>1. IsFiniteSet(S)
      <3>1. IsFiniteSet(0..h)
        BY FS_Interval
      <3> QED BY <3>1, FS_Subset, Zenon
    <2> QED BY <2>1, FS_Subset DEF FiniteSubsetsOf
  <1>2. PICK x \in S : \A y \in S : Above(y) \subseteq Above(x) => Above(y) = Above(x)
    <2>1. T # {}
      BY Zenon
    <2>2. \E m \in T : \A n \in T : n \subseteq m => n = m
      <3> HIDE DEF T
      <3> QED BY <1>1, <2>1, LeastFiniteSet
    <2>3. PICK x \in S : \A n \in T : n \subseteq Above(x) => n = Above(x)
      BY <2>2, Zenon
    <2>4. \A y \in S : Above(y) \in T
      OBVIOUS
    <2> QED
      <3> HIDE DEF T, Above
      <3> QED BY <2>3, <2>4
  <1>3. \A z \in S : z \in Int
    OBVIOUS
  <1>4. ASSUME NEW y \in S, y > x
        PROVE  FALSE
    <2>1. Above(y) \subseteq Above(x)
      <3>1. ASSUME NEW z \in S, z > y PROVE z > x
        <4>1. z \in Int /\ y \in Int /\ x \in Int
          BY <1>3
        <4> QED BY <3>1, <4>1, <1>4
      <3> QED BY <3>1, Zenon
    <2>2. y \in Above(x) /\ y \notin Above(y)
      BY <1>3, <1>4
    <2> QED BY <2>1, <2>2, <1>2
  <1>5. \A y \in S : y <= x
    BY <1>3, <1>4
  <1> QED BY <1>5

(* GetLastCheckpoint(h) is at or above every checkpoint up to h. *)
LEMMA LastCheckpointFacts ==
    ASSUME NEW h \in Nat
    PROVE  /\ LastCheckpoint(h) \in Nat
           /\ \A c \in Checkpoints : Height[c] <= h => Height[c] <= LastCheckpoint(h)
  <1> DEFINE below == {Height[c] : c \in {x \in Checkpoints : Height[x] <= h}}
  <1>1. below \in SUBSET (0..h)
    BY BlockHeights
  <1>2. CASE below = {}
    <2>1. LastCheckpoint(h) = 0
      BY <1>2 DEF LastCheckpoint
    <2> QED BY <1>2, <2>1
  <1>3. CASE below # {}
    <2>1. LastCheckpoint(h) = CHOOSE m \in below : \A n \in below : n <= m
      BY <1>3 DEF LastCheckpoint
    <2>2. \A c \in Checkpoints : Height[c] <= h => Height[c] \in below
      OBVIOUS
    <2> HIDE DEF below
    <2>3. \E m \in below : \A n \in below : n <= m
      BY <1>1, <1>3, HighestExists, Zenon
    <2>4. LastCheckpoint(h) \in below /\ \A n \in below : n <= LastCheckpoint(h)
      BY <2>1, <2>3
    <2>5. LastCheckpoint(h) \in Nat
      <3>1. \A n \in 0..h : n \in Nat
        OBVIOUS
      <3> QED BY <1>1, <2>4, <3>1, Zenon
    <2> QED BY <2>2, <2>4, <2>5
  <1> QED BY <1>2, <1>3

-----------------------------------------------------------------------------
(* The steps that choose nothing and move no tip. *)
Quiet ==
    /\ tip' = tip /\ bestBlock' \in {bestBlock, tip}
    /\ pc' \in ChosenPcs => pc \in ChosenPcs /\ target' = target
    /\ pc' \in ForwardPcs => pc \in ForwardPcs

LEMMA QuietChosen ==
    ASSUME Chosen, Quiet
    PROVE  Chosen'
  <1>1. pc' \in ForwardPcs => pc' \in ChosenPcs
    BY DEF ForwardPcs, ChosenPcs
  <1>2. CheckpointOK(tip)' /\ CheckpointOK(bestBlock)'
    BY DEF Chosen, Quiet, CheckpointOK
  <1> QED BY <1>1, <1>2, Zenon DEF Chosen, Quiet, CheckpointOK, Improves

QuietStep ==
    \/ \E b \in Blocks : AddBlockIndex(b)
    \/ \E h \in RewindHeights : StartRewind(h)
    \/ ReplaceDisconnect \/ WriteBest
    \/ ReorgEnterDisconnect \/ ReorgDisconnect \/ ReorgUpdateDisconnect
    \/ ReorgEnterConnect \/ ReorgConnect \/ ReorgUpdateConnect
    \/ ReorgWriteBest \/ ReorgComplete
    \/ RollbackDisconnect \/ RollbackConnect \/ RollbackAbort
    \/ RewindEnter \/ RewindWriteBest \/ RewindUpdate \/ RewindResume \/ RewindComplete
    \/ ExpireGrace
    \/ UNCHANGED vars

LEMMA QuietStepIsQuiet ==
    ASSUME IInv, QuietStep
    PROVE  Quiet
  <1> USE DEF Quiet, ChosenPcs, ForwardPcs, indexVars, stepVars, Return
  <1>1. ASSUME NEW b \in Blocks, AddBlockIndex(b) PROVE Quiet
    BY <1>1 DEF AddBlockIndex
  <1>2. ASSUME NEW h \in RewindHeights, StartRewind(h) PROVE Quiet
    BY <1>2 DEF StartRewind, RewindFrame
  <1>3. CASE ReplaceDisconnect
    BY <1>3 DEF ReplaceDisconnect
  <1>4. CASE WriteBest
    BY <1>4 DEF WriteBest
  <1>5. CASE ReorgEnterDisconnect \/ ReorgUpdateDisconnect \/ ReorgEnterConnect
             \/ ReorgUpdateConnect
    BY <1>5, Zenon DEF ReorgEnterDisconnect, ReorgUpdateDisconnect, ReorgEnterConnect,
        ReorgUpdateConnect, WalStep
  <1>6. CASE ReorgDisconnect
    BY <1>6 DEF ReorgDisconnect
  <1>7. CASE ReorgConnect
    BY <1>7, Zenon DEF ReorgConnect
  <1>8. CASE ReorgWriteBest \/ ReorgComplete
    BY <1>8 DEF ReorgWriteBest, ReorgComplete
  <1>9. CASE RollbackDisconnect
    BY <1>9, Zenon DEF RollbackDisconnect
  <1>10. CASE RollbackConnect
    BY <1>10, Zenon DEF RollbackConnect
  <1>11. CASE RollbackAbort
    BY <1>11 DEF RollbackAbort
  <1>12. CASE RewindEnter \/ RewindWriteBest \/ RewindUpdate \/ RewindResume
              \/ RewindComplete
    BY <1>12 DEF RewindEnter, RewindWriteBest, RewindUpdate, RewindResume,
        RewindComplete, RewindFrame
  <1>13. CASE ExpireGrace \/ UNCHANGED vars
    BY <1>13 DEF ExpireGrace, vars
  <1> QED
    BY <1>1, <1>2, <1>3, <1>4, <1>5, <1>6, <1>7, <1>8, <1>9, <1>10, <1>11, <1>12,
       <1>13 DEF QuietStep

(* Case 2: the block has the tip's work and its own proof. *)
LEMMA ExtendTipChosen ==
    ASSUME IInv, Chosen, NEW b \in Blocks, ExtendTip(b)
    PROVE  Chosen'
  <1>1. b \in NonGenesis /\ Parent[b] = tip /\ CheckpointTiers(tip, b)
    BY ZenonT(40) DEF ExtendTip, CheckpointsAllow, NonGenesis
  <1>2. CheckpointOK(b)
    BY <1>1, ChildCheckpoint, Zenon DEF Chosen, CheckpointTiers
  <1>3. Improves(tip, b)
    BY Zenon DEF ExtendTip, Improves
  <1>4. /\ tip' = tip /\ bestBlock' = bestBlock /\ target' = b
        /\ pc' \notin ForwardPcs
    BY Zenon DEF ExtendTip, ForwardPcs
  <1> QED BY <1>2, <1>3, <1>4, Zenon DEF Chosen, CheckpointOK, Improves

(* Case 2.5: a sibling has the tip's height, and so its work. *)
LEMMA ReplaceTipChosen ==
    ASSUME IInv, Chosen, NEW b \in Blocks, ReplaceTip(b)
    PROVE  Chosen'
  <1>1. /\ b \in NonGenesis /\ tip \in NonGenesis /\ Parent[b] = Parent[tip]
        /\ Parent[b] # tip /\ CheckpointTiers(tip, b) /\ LowerVdf(b)
    BY ZenonT(40) DEF ReplaceTip, ShouldReplaceVDFTip, CheckpointsAllow, NonGenesis, IInv, TypeOK,
        MemoryTypeOK
  <1>2. tip \in Blocks /\ CheckpointOK(b)
    BY <1>1, TiersCheckpoint, Zenon DEF NonGenesis
  <1>3. Height[b] = Height[tip]
    BY <1>1, BlockHeights
  <1>4. Improves(tip, b)
    BY <1>1, <1>2, <1>3, VdfAssumption DEF LowerVdf, Improves
  <1>5. /\ tip' = tip /\ bestBlock' = bestBlock /\ target' = b
        /\ pc' \notin ForwardPcs
    BY DEF ReplaceTip, ForwardPcs
  <1> QED BY <1>2, <1>4, <1>5, Zenon DEF Chosen, CheckpointOK, Improves

(* Case 3. *)
LEMMA StartReorgChosen ==
    ASSUME IInv, Chosen, NEW b \in Blocks, StartReorg(b)
    PROVE  Chosen'
  <1>1. /\ b \in NonGenesis /\ tip \in Blocks
        /\ Parent[b] # tip /\ CheckpointTiers(tip, b) /\ BetterChain(b) /\ ReorgAllowed(b)
    BY ZenonT(40) DEF StartReorg, CheckpointsAllow, NonGenesis, IInv, TypeOK, MemoryTypeOK
  <1>2. CheckpointOK(b)
    BY <1>1, TiersCheckpoint, Zenon
  <1>3. Improves(tip, b)
    BY <1>1, VdfAssumption DEF BetterChain, LowerVdf, Improves
  <1>4. /\ Height[tip] - Height[FindFork(tip, b)] <= MaxReorgDepth
        /\ Height[FindFork(tip, b)] >= LastCheckpoint(Height[tip])
    BY <1>1, Zenon DEF ReorgAllowed
  <1>5. tip' = tip /\ bestBlock' = bestBlock
    BY DEF StartReorg
  <1>6. CASE target' = b
    BY <1>2, <1>3, <1>4, <1>5, <1>6, Zenon DEF Chosen, CheckpointOK, Improves
  <1>7. CASE UNCHANGED stepVars
    BY <1>5, <1>7, Zenon DEF Chosen, CheckpointOK, Improves, stepVars
  <1> QED BY <1>6, <1>7 DEF StartReorg

(* The steps that set pindexTip to the target. *)
LEMMA ArriveChosen ==
    ASSUME IInv, Chosen, ExtendConnect \/ ReplaceConnect \/ ReorgSetTip
    PROVE  Chosen'
  <1>1. pc \in ChosenPcs /\ pc' \notin ChosenPcs /\ pc' \notin ForwardPcs
        /\ bestBlock' = bestBlock /\ tip' \in {tip, target}
    <2>1. CASE ExtendConnect
      BY <2>1, Zenon DEF ExtendConnect, Return, ChosenPcs, ForwardPcs
    <2>2. CASE ReplaceConnect
      BY <2>2, Zenon DEF ReplaceConnect, Return, ChosenPcs, ForwardPcs
    <2>3. CASE ReorgSetTip
      BY <2>3 DEF ReorgSetTip, ChosenPcs, ForwardPcs
    <2> QED BY <2>1, <2>2, <2>3
  <1>2. CheckpointOK(tip)' /\ CheckpointOK(bestBlock)'
    BY <1>1 DEF Chosen, CheckpointOK
  <1> QED BY <1>1, <1>2 DEF Chosen

(* DisconnectToHeight moves the tip to its parent while no activation runs. *)
LEMMA RewindDisconnectChosen ==
    ASSUME IInv, Chosen, RewindDisconnect
    PROVE  Chosen'
  <1>1. /\ pc' = "idle" /\ bestBlock' = bestBlock
        /\ tip' = tip \/ tip' = Parent[tip]
        /\ tip \in NonGenesis
    <2>1. pc = "idle" /\ pc' = pc /\ bestBlock' = bestBlock
      BY Zenon DEF RewindDisconnect, RewindFrame, stepVars, IInv, Cursors
    <2>2. tip' = tip \/ tip' = Parent[tip]
      BY Zenon DEF RewindDisconnect
    <2>3. tip \in Blocks /\ Height[tip] > dtarget /\ dtarget \in Nat
      BY Zenon DEF RewindDisconnect, IInv, Cursors, TypeOK, MemoryTypeOK, StepTypeOK
    <2>4. tip # Genesis
      BY <2>3, TreeAssumption
    <2> QED BY <2>1, <2>2, <2>3, <2>4 DEF NonGenesis
  <1>2. CheckpointOK(Parent[tip])
    BY <1>1, ParentCheckpoint DEF Chosen
  <1>3. CheckpointOK(tip)' /\ CheckpointOK(bestBlock)'
    BY <1>1, <1>2 DEF Chosen, CheckpointOK
  <1> QED BY <1>1, <1>3 DEF Chosen, ChosenPcs, ForwardPcs

(* Death and startup: the tip is read back from the record. *)
LEMMA RestartChosen ==
    ASSUME IInv, Chosen, Crash \/ TriggerRebuild \/ WipeDies \/ Restart
    PROVE  Chosen'
  <1>1. /\ pc' \in {"down", "idle"}
        /\ tip' \in {tip, bestBlock, Genesis} /\ bestBlock' \in {bestBlock, Genesis}
    <2> USE DEF Down, Wipe, FreshDisk, Load, Return, StartupFrame, stepVars
    <2>1. CASE Crash \/ TriggerRebuild
      BY <2>1 DEF Crash, TriggerRebuild
    <2>2. CASE WipeDies
      BY <2>2 DEF WipeDies
    <2>3. CASE Startup
      BY <2>3, ZenonT(40) DEF Startup
    <2>4. CASE StartupRebuild \/ StartupReindex \/ StartupReset
      BY <2>4, Zenon DEF StartupRebuild, StartupReindex, StartupReset
    <2> QED BY <2>1, <2>2, <2>3, <2>4 DEF Restart
  <1>2. CheckpointOK(tip)' /\ CheckpointOK(bestBlock)'
    BY <1>1, GenesisCheckpoint DEF Chosen, CheckpointOK
  <1> QED BY <1>1, <1>2 DEF Chosen, ChosenPcs, ForwardPcs

LEMMA NextChosen == IInv /\ Chosen /\ [Next]_vars => Chosen'
  <1> SUFFICES ASSUME IInv, Chosen, [Next]_vars PROVE Chosen'
    OBVIOUS
  <1>1. CASE QuietStep
    BY <1>1, QuietStepIsQuiet, QuietChosen
  <1>2. CASE \E b \in Blocks : ActivateBestChain(b)
    BY <1>2, ExtendTipChosen, ReplaceTipChosen, StartReorgChosen DEF ActivateBestChain
  <1>3. CASE ExtendConnect \/ ReplaceConnect \/ ReorgSetTip
    BY <1>3, ArriveChosen
  <1>4. CASE RewindDisconnect
    BY <1>4, RewindDisconnectChosen
  <1>5. CASE Crash \/ TriggerRebuild \/ WipeDies \/ Restart
    BY <1>5, RestartChosen
  <1> QED BY <1>1, <1>2, <1>3, <1>4, <1>5 DEF Next, ActivateStep, RewindStep, QuietStep

LEMMA InitChosen == Init => Chosen
  BY GenesisCheckpoint DEF Init, FreshDisk, Chosen, CheckpointOK, ChosenPcs, ForwardPcs

LEMMA ChosenHolds == Spec => [](IInv /\ Chosen)
  <1> QED BY Inductive, InitChosen, NextChosen, PTL DEF Spec

(* No path of ActivateBestChain, no rewind and no restart brings the tip onto  *)
(* a chain that contradicts a checkpoint, for every tree and every set of      *)
(* checkpoints.                                                                *)
THEOREM CheckpointsHeldHolds == Spec => []CheckpointsHeld
  <1>1. Chosen => CheckpointsHeld
    BY DEF Chosen, CheckpointOK, CheckpointsHeld
  <1> QED BY <1>1, ChosenHolds, PTL

(* A call of ActivateBestChain moves the tip only to its target. *)
LEMMA ActivatedArrives ==
    ASSUME IInv, [Next]_vars, Activated
    PROVE  tip' = target /\ pc \in {"extend", "replConn", "conn"}
  <1> USE DEF Activated
  <1>1. CASE QuietStep
    BY <1>1, QuietStepIsQuiet DEF Quiet
  <1>2. ASSUME NEW b \in Blocks, ActivateBestChain(b) PROVE FALSE
    BY <1>2 DEF ActivateBestChain, ExtendTip, ReplaceTip, StartReorg
  <1>3. CASE ExtendConnect
    BY <1>3, Zenon DEF ExtendConnect
  <1>4. CASE ReplaceConnect
    BY <1>4, Zenon DEF ReplaceConnect
  <1>5. CASE ReorgSetTip
    BY <1>5 DEF ReorgSetTip
  <1>6. CASE RewindDisconnect
    BY <1>6 DEF RewindDisconnect, IInv, Cursors, ActivatePcs, ReorgPcs
  <1>7. CASE Crash \/ TriggerRebuild
    BY <1>7 DEF Crash, TriggerRebuild, Down
  <1>8. CASE WipeDies \/ Restart
    BY <1>8 DEF WipeDies, Restart, Startup, StartupRebuild, StartupReindex, StartupReset,
        ActivatePcs, ReorgPcs
  <1> QED
    BY <1>1, <1>2, <1>3, <1>4, <1>5, <1>6, <1>7, <1>8
    DEF Next, ActivateStep, RewindStep, QuietStep

(* ActivateBestChain moves the tip only to more work, or at equal work and     *)
(* height to a lower VDF output: the target was compared with the tip, and     *)
(* nothing moves the tip until the target is reached.                          *)
THEOREM TipImprovesHolds == Spec => TipImproves
  <1>1. IInv /\ Chosen /\ [Next]_vars => [Activated => Improves(tip, tip')]_vars
    <2> SUFFICES ASSUME IInv, Chosen, [Next]_vars, Activated
                 PROVE  Improves(tip, tip')
      OBVIOUS
    <2>1. tip' = target /\ pc \in ChosenPcs
      BY ActivatedArrives DEF ChosenPcs, ForwardPcs
    <2> QED BY <2>1 DEF Chosen
  <1> QED BY <1>1, ChosenHolds, PTL DEF Spec, TipImproves

(* The fork point of a chain and its extension is the chain's last block; of   *)
(* two siblings it is no lower than their parent.                              *)
LEMMA ForkHeight ==
    ASSUME NEW t \in Blocks, NEW b \in Blocks, NEW a \in Anc[t] \cap Anc[b]
    PROVE  Height[a] <= Height[FindFork(t, b)]
  <1>1. FindFork(t, b) \in Blocks /\ a \in Anc[FindFork(t, b)]
    BY ForkFacts, Zenon
  <1> QED BY <1>1, AncAssumption

(* The arithmetic of the three cases. *)
LEMMA ThroughFork ==
    ASSUME NEW x \in Nat, NEW y \in Nat, NEW z \in Nat, x <= y, y <= z
    PROVE  z >= x
  OBVIOUS

LEMMA AboveFork ==
    ASSUME NEW x \in Nat, NEW l \in Nat, NEW f \in Nat, NEW z \in Nat,
           x <= l, f >= l, f <= z
    PROVE  z >= x
  OBVIOUS

LEMMA NextHeight ==
    ASSUME NEW x \in Nat, NEW y \in Nat, y = x + 1
    PROVE  x <= y
  OBVIOUS

LEMMA NoneGivenUp ==
    ASSUME NEW x \in Nat, NEW f \in Nat, NEW m \in Nat, x <= f
    PROVE  x - f <= m
  OBVIOUS

LEMMA OneGivenUp ==
    ASSUME NEW x \in Nat, NEW p \in Nat, NEW f \in Nat, NEW m \in Nat, x = p + 1, p <= f, m >= 1
    PROVE  x - f <= m
  OBVIOUS

(* ActivateBestChain never gives up more than MAX_REORG_DEPTH blocks of the    *)
(* active chain, nor a checkpoint.  A checkpoint of the old chain is at or     *)
(* below GetLastCheckpoint, that is at or below the fork point and so no       *)
(* higher than the target, whose chain holds every checkpoint up to there.     *)
THEOREM ReorgBoundedHolds == Spec => ReorgBounded
  <1>1. IInv /\ Chosen /\ [Next]_vars => [Activated => GivesUpLittle(tip, tip')]_vars
    <2> SUFFICES ASSUME IInv, Chosen, [Next]_vars, Activated
                 PROVE  GivesUpLittle(tip, target)
      BY ActivatedArrives DEF GivesUpLittle
    <2>0. MaxReorgDepth \in Nat /\ MaxReorgDepth >= 1
      BY ChainStateAssumption
    <2>1. pc \in {"extend", "replConn", "conn"} /\ pc \in ChosenPcs
      BY ActivatedArrives DEF ChosenPcs, ForwardPcs
    <2>2. tip \in Blocks /\ target \in Blocks /\ CheckpointOK(target)
      BY <2>1 DEF Chosen, IInv, TypeOK, MemoryTypeOK, StepTypeOK
    <2>3. /\ Height[tip] \in Nat /\ Height[target] \in Nat
          /\ FindFork(tip, target) \in Blocks
          /\ FindFork(tip, target) \in Anc[tip] \cap Anc[target]
          /\ Height[FindFork(tip, target)] \in Nat
          /\ Height[FindFork(tip, target)] <= Height[target]
      BY <2>2, ForkFacts, BlockHeights, AncAssumption, Zenon
    <2>4. ASSUME Height[tip] <= Height[target]
          PROVE  (Anc[tip] \ Anc[target]) \cap Checkpoints = {}
      <3> SUFFICES ASSUME NEW c \in Anc[tip] \cap Checkpoints
                   PROVE  c \in Anc[target]
        OBVIOUS
      <3>1. Height[c] <= Height[tip] /\ Height[c] \in Nat
        BY <2>2, BlockHeights, AncAssumption
      <3>2. Height[target] >= Height[c]
        BY <2>3, <2>4, <3>1, ThroughFork, Zenon
      <3> QED BY <2>2, <3>2 DEF CheckpointOK
    <2>5. CASE pc = "extend"
      <3>1. target \in NonGenesis /\ Parent[target] = tip
        BY <2>2, <2>5, ZenonT(40) DEF IInv, Cursors, NonGenesis
      <3>2. tip \in Anc[tip] \cap Anc[target] /\ Height[target] = Height[tip] + 1
        BY <2>2, <3>1, AncSelf, ParentFacts, BlockHeights, ZenonT(40)
      <3>3. Height[tip] <= Height[FindFork(tip, target)]
        BY <2>2, <3>2, ForkHeight
      <3>4. Height[tip] - Height[FindFork(tip, target)] <= MaxReorgDepth
        BY <2>0, <2>3, <3>3, NoneGivenUp, Zenon
      <3>5. Height[tip] <= Height[target]
        BY <2>3, <3>2, NextHeight, Zenon
      <3> QED BY <2>4, <3>4, <3>5, Zenon DEF GivesUpLittle
    <2>6. CASE pc = "replConn"
      <3>1. target \in NonGenesis /\ tip \in NonGenesis /\ Parent[target] = Parent[tip]
        BY <2>2, <2>6, ZenonT(40) DEF IInv, Cursors, NonGenesis
      <3>2. Parent[tip] \in Anc[tip] \cap Anc[target]
        BY <3>1, ParentFacts, ZenonT(40)
      <3>3. /\ Height[tip] = Height[Parent[tip]] + 1 /\ Height[target] = Height[tip]
            /\ Height[Parent[tip]] \in Nat
        BY <3>1, BlockHeights
      <3>4. Height[Parent[tip]] <= Height[FindFork(tip, target)]
        BY <2>2, <3>2, ForkHeight
      <3>5. Height[tip] - Height[FindFork(tip, target)] <= MaxReorgDepth
        BY <2>0, <2>3, <3>3, <3>4, OneGivenUp, Zenon
      <3>6. Height[tip] <= Height[target]
        BY <2>3, <3>3
      <3> QED BY <2>4, <3>5, <3>6, Zenon DEF GivesUpLittle
    <2>7. CASE pc = "conn"
      <3>1. /\ Height[tip] - Height[FindFork(tip, target)] <= MaxReorgDepth
            /\ Height[FindFork(tip, target)] >= LastCheckpoint(Height[tip])
        BY <2>7 DEF Chosen, ForwardPcs
      <3>2. ASSUME NEW c \in Anc[tip] \cap Checkpoints
            PROVE  c \in Anc[target]
        <4>1. Height[c] <= Height[tip] /\ Height[c] \in Nat
          BY <2>2, BlockHeights, AncAssumption
        <4>2. Height[c] <= LastCheckpoint(Height[tip]) /\ LastCheckpoint(Height[tip]) \in Nat
          BY <2>3, <4>1, LastCheckpointFacts
        <4>3. Height[target] >= Height[c]
          BY <2>3, <3>1, <4>1, <4>2, AboveFork, Zenon
        <4> QED BY <2>2, <4>3 DEF CheckpointOK
      <3> QED BY <3>1, <3>2, Zenon DEF GivesUpLittle
    <2> QED BY <2>1, <2>5, <2>6, <2>7
  <1> QED BY <1>1, ChosenHolds, PTL DEF Spec, ReorgBounded
=============================================================================
