------------------------- MODULE ChainStateValidity -------------------------
(* What the active chain consists of, what the startup checks let through      *)
(* after a first crash, and what the integrity monitor fires on.               *)
EXTENDS ChainStateProofs, IntegrityMonitor

-----------------------------------------------------------------------------
(* What the tip's chain and the record's chain consist of.  Every mark is on a *)
(* block that fails a check; a reorg in progress leads over unmarked blocks;   *)
(* and while no write of the record was missed, the record is the tip but for  *)
(* the steps between moving one and writing the other, so that a mark cannot   *)
(* fall on the record's chain.                                                 *)
RecordCurrent ==
    ~StaleRecord /\ pc \notin {"down", "best", "reorgBest"} /\ dpc # "best"
        /\ ~(dpc = "disc" /\ dn > 0)
    => bestBlock = tip

ValidChain ==
    /\ Anc[tip] \subseteq ContextValid /\ Anc[bestBlock] \subseteq ContextValid
    /\ pc \in ReorgPcs => Anc[cur] \subseteq ContextValid
    /\ failedValid \subseteq NonGenesis \ (ContextValid \cap DfmpValid)
    /\ pc \in ForwardPcs =>
           (Anc[target] \ Anc[FindFork(tip, target)]) \cap failedValid = {}
    /\ ~StaleRecord =>
           Anc[tip] \cap failedValid = {} /\ Anc[bestBlock] \cap failedValid = {}

(* The quiet steps that also leave the marks alone. *)
QuietMarks ==
    /\ Quiet
    /\ failedValid' = failedValid /\ lost \subseteq lost'
    /\ pc' \in ReorgPcs => pc \in ReorgPcs /\ (cur' = cur \/ cur' \in Anc[cur])

LEMMA QuietValid ==
    ASSUME IInv, ValidChain, QuietMarks
    PROVE  ValidChain'
  <1>1. cur \in Blocks
    BY DEF IInv, TypeOK, StepTypeOK
  <1>2. pc' \in ReorgPcs => Anc[cur'] \subseteq ContextValid
    BY <1>1, AncAssumption DEF ValidChain, QuietMarks
  <1>3. /\ Anc[tip'] \subseteq ContextValid /\ Anc[bestBlock'] \subseteq ContextValid
        /\ failedValid' \subseteq NonGenesis \ (ContextValid \cap DfmpValid)
    BY DEF ValidChain, QuietMarks, Quiet
  <1>4. pc' \in ForwardPcs =>
            (Anc[target'] \ Anc[FindFork(tip', target')]) \cap failedValid' = {}
    <2>1. pc' \in ForwardPcs => pc' \in ChosenPcs
      BY DEF ForwardPcs, ChosenPcs
    <2> QED BY <2>1, Zenon DEF ValidChain, QuietMarks, Quiet
  <1>5. ~StaleRecord' => ~StaleRecord
    BY DEF StaleRecord, QuietMarks
  <1>6. ~StaleRecord' =>
            Anc[tip'] \cap failedValid' = {} /\ Anc[bestBlock'] \cap failedValid' = {}
    BY <1>5 DEF ValidChain, QuietMarks, Quiet
  <1> QED BY <1>2, <1>3, <1>4, <1>6, Zenon DEF ValidChain

MarkingStep == ReorgConnect \/ RollbackConnect

LEMMA QuietStepKeepsMarks ==
    ASSUME IInv, QuietStep, ~MarkingStep
    PROVE  QuietMarks
  <1> USE DEF QuietMarks, ReorgPcs, indexVars, stepVars, Return, Expose
  <1>0. Quiet
    BY QuietStepIsQuiet
  <1>1. ASSUME NEW b \in Blocks, AddBlockIndex(b) PROVE QuietMarks
    BY <1>0, <1>1 DEF AddBlockIndex
  <1>2. ASSUME NEW h \in RewindHeights, StartRewind(h) PROVE QuietMarks
    BY <1>0, <1>2 DEF StartRewind, RewindFrame
  <1>3. CASE ReplaceDisconnect
    BY <1>0, <1>3, Zenon DEF ReplaceDisconnect
  <1>4. CASE WriteBest
    BY <1>0, <1>4 DEF WriteBest
  <1>5. CASE ReorgEnterDisconnect \/ ReorgUpdateDisconnect \/ ReorgEnterConnect
             \/ ReorgUpdateConnect
    BY <1>0, <1>5, Zenon DEF ReorgEnterDisconnect, ReorgUpdateDisconnect,
        ReorgEnterConnect, ReorgUpdateConnect, WalStep
  <1>6. CASE ReorgDisconnect
    <2>1. cur \in NonGenesis
      BY <1>6, AboveHasParent DEF ReorgDisconnect, IInv, Cursors, TypeOK, StepTypeOK
    <2>2. Parent[cur] \in Anc[cur]
      BY <2>1, ParentFacts
    <2> QED BY <1>0, <1>6, <2>2 DEF ReorgDisconnect
  <1>7. CASE ReorgWriteBest \/ ReorgComplete
    BY <1>0, <1>7 DEF ReorgWriteBest, ReorgComplete
  <1>8. CASE RollbackDisconnect
    <2>1. cur # FindFork(tip, target) => Parent[cur] \in Anc[cur]
      BY <1>8, AboveHasParent, ParentFacts, Zenon
      DEF RollbackDisconnect, IInv, Cursors, TypeOK, StepTypeOK
    <2> QED BY <1>0, <1>8, <2>1, ZenonT(40) DEF RollbackDisconnect
  <1>9. CASE RollbackAbort
    BY <1>0, <1>9, ZenonT(40) DEF RollbackAbort
  <1>10. CASE RewindEnter \/ RewindWriteBest \/ RewindUpdate \/ RewindResume
              \/ RewindComplete
    BY <1>0, <1>10, ZenonT(40) DEF RewindEnter, RewindWriteBest, RewindUpdate, RewindResume,
        RewindComplete, RewindFrame
  <1>11. CASE ExpireGrace \/ UNCHANGED vars
    BY <1>0, <1>11, ZenonT(40) DEF ExpireGrace, vars
  <1> QED
    BY <1>1, <1>2, <1>3, <1>4, <1>5, <1>6, <1>7, <1>8, <1>9, <1>10, <1>11, Zenon
    DEF QuietStep, MarkingStep

LEMMA NextRecordCurrent == IInv /\ RecordCurrent /\ [Next]_vars => RecordCurrent'
  <1> SUFFICES ASSUME IInv, RecordCurrent, [Next]_vars PROVE RecordCurrent'
    OBVIOUS
  <1> USE DEF RecordCurrent, StaleRecord, Expose, rewindVars, stepVars, Return,
          RewindFrame
  <1>1. ASSUME NEW b \in Blocks, AddBlockIndex(b) \/ ActivateBestChain(b)
        PROVE  RecordCurrent'
    BY <1>1, Zenon DEF AddBlockIndex, ActivateBestChain, ExtendTip, ReplaceTip, StartReorg,
        Unlocked
  <1>2. ASSUME NEW h \in RewindHeights, StartRewind(h) PROVE RecordCurrent'
    BY <1>2 DEF StartRewind
  <1>3. CASE ExtendConnect
    BY <1>3, Zenon DEF ExtendConnect
  <1>4. CASE ReplaceDisconnect
    BY <1>4 DEF ReplaceDisconnect
  <1>5. CASE ReplaceConnect
    BY <1>5, Zenon DEF ReplaceConnect
  <1>6. CASE WriteBest \/ ReorgWriteBest
    BY <1>6 DEF WriteBest, ReorgWriteBest
  <1>7. CASE ReorgEnterDisconnect \/ ReorgUpdateDisconnect \/ ReorgEnterConnect
             \/ ReorgUpdateConnect
    <2>1. PICK next \in {"disc", "conn"} :
              /\ pc' = next /\ pc # "down" /\ pc # "best" /\ pc # "reorgBest"
              /\ UNCHANGED <<bestBlock, tip, rewindVars>> /\ lost \subseteq lost'
      BY <1>7, Zenon DEF ReorgEnterDisconnect, ReorgUpdateDisconnect, ReorgEnterConnect,
          ReorgUpdateConnect, WalStep
    <2> QED BY <2>1
  <1>8. CASE ReorgDisconnect
    BY <1>8 DEF ReorgDisconnect
  <1>9. CASE ReorgConnect
    BY <1>9, Zenon DEF ReorgConnect
  <1>10. CASE ReorgSetTip \/ ReorgComplete \/ RollbackAbort
    BY <1>10 DEF ReorgSetTip, ReorgComplete, RollbackAbort
  <1>11. CASE RollbackDisconnect
    BY <1>11, Zenon DEF RollbackDisconnect
  <1>12. CASE RollbackConnect
    <2>1. /\ pc = "rbConn" /\ UNCHANGED <<bestBlock, tip, rewindVars>>
          /\ lost \subseteq lost'
      BY <1>12, Zenon DEF RollbackConnect
    <2> QED BY <2>1
  <1>13. CASE RewindEnter \/ RewindUpdate \/ RewindResume \/ RewindComplete
    BY <1>13, Zenon
    DEF RewindEnter, RewindUpdate, RewindResume, RewindComplete, IInv, Cursors
  <1>14. CASE RewindWriteBest
    BY <1>14 DEF RewindWriteBest
  <1>15. CASE RewindDisconnect
    <2>1. dn \in Nat /\ dpc = "disc"
      <3>1. dn \in 0..BatchSize /\ dpc = "disc"
        BY <1>15, Zenon DEF RewindDisconnect, IInv, TypeOK, StepTypeOK
      <3> QED BY <3>1, ChainStateAssumption
    <2>2. CASE dn' = dn + 1 /\ dpc' \in {"best", "disc"}
      BY <2>1, <2>2
    <2>3. CASE /\ UNCHANGED <<tip, bestBlock>>
               /\ Expose(IF dn > 0 THEN {"rewindFailed"} ELSE {})
      <3>1. pc = "idle"
        BY <2>1 DEF IInv, Cursors
      <3> QED BY <2>1, <2>3, <3>1
    <2> QED BY <1>15, <2>2, <2>3, Zenon DEF RewindDisconnect
  <1>16. CASE Crash \/ TriggerRebuild
    BY <1>16 DEF Crash, TriggerRebuild, Down
  <1>17. CASE WipeDies \/ StartupRebuild \/ StartupReindex \/ StartupReset
    BY <1>17 DEF WipeDies, StartupRebuild, StartupReindex, StartupReset
  <1>18. CASE Startup
    BY <1>18 DEF Startup, Load
  <1>19. CASE ExpireGrace \/ UNCHANGED vars
    BY <1>19 DEF ExpireGrace, vars
  <1> QED
    BY <1>1, <1>2, <1>3, <1>4, <1>5, <1>6, <1>7, <1>8, <1>9, <1>10, <1>11, <1>12, <1>13,
       <1>14, <1>15, <1>16, <1>17, <1>18, <1>19, Zenon
    DEF Next, ActivateStep, RewindStep, Restart

(* A step that connects or refuses no block and goes no further than its       *)
(* parent, its record or genesis.                                              *)
LEMMA FewerBlocks ==
    ASSUME ValidChain, NEW t \in Blocks, NEW b \in Blocks,
           tip' = t, bestBlock' = b, failedValid' \subseteq failedValid,
           Anc[t] \subseteq Anc[tip] \/ Anc[t] \subseteq Anc[bestBlock] \/ t = Genesis,
           b = bestBlock \/ b = Genesis,
           pc' \notin ReorgPcs, ~StaleRecord' => ~StaleRecord \/ failedValid' = {}
    PROVE  ValidChain'
  <1>1. Anc[Genesis] \subseteq ContextValid /\ Anc[Genesis] \cap failedValid = {}
    BY ChainStateAssumption, AncAssumption DEF ValidChain, NonGenesis
  <1>2. Anc[t] \subseteq ContextValid /\ Anc[b] \subseteq ContextValid
    BY <1>1, Zenon DEF ValidChain
  <1>3. failedValid' \subseteq NonGenesis \ (ContextValid \cap DfmpValid)
    BY DEF ValidChain
  <1>4. ~StaleRecord' => Anc[t] \cap failedValid' = {} /\ Anc[b] \cap failedValid' = {}
    BY <1>1 DEF ValidChain
  <1>5. pc' \notin ForwardPcs
    BY DEF ForwardPcs, ReorgPcs
  <1> QED BY <1>2, <1>3, <1>4, <1>5 DEF ValidChain

LEMMA RewindDisconnectValid ==
    ASSUME IInv, ValidChain, RewindDisconnect
    PROVE  ValidChain'
  <1>1. /\ pc' = "idle" /\ bestBlock' = bestBlock /\ failedValid' = failedValid
        /\ tip' = tip \/ tip' = Parent[tip]
        /\ lost \subseteq lost'
    BY Zenon DEF RewindDisconnect, RewindFrame, stepVars, indexVars, IInv, Cursors, Expose
  <1>2. tip \in Blocks /\ tip # Genesis /\ bestBlock \in Blocks
    <2>1. tip \in Blocks /\ bestBlock \in Blocks /\ Height[tip] > dtarget /\ dtarget \in Nat
      BY Zenon
      DEF RewindDisconnect, IInv, Cursors, TypeOK, DiskTypeOK, MemoryTypeOK, StepTypeOK
    <2> QED BY <2>1, TreeAssumption
  <1>3. tip' \in Blocks /\ Anc[tip'] \subseteq Anc[tip]
    BY <1>1, <1>2, ParentFacts DEF NonGenesis
  <1>4. ~StaleRecord' => ~StaleRecord
    BY <1>1 DEF StaleRecord
  <1>5. pc' \notin ReorgPcs
    BY <1>1 DEF ReorgPcs
  <1> QED BY <1>1, <1>2, <1>3, <1>4, <1>5, FewerBlocks

LEMMA RestartValid ==
    ASSUME IInv, ValidChain, Crash \/ TriggerRebuild \/ WipeDies \/ Restart
    PROVE  ValidChain'
  <1>1. /\ pc' \in {"down", "idle"}
        /\ tip' \in {tip, bestBlock, Genesis} /\ bestBlock' \in {bestBlock, Genesis}
        /\ failedValid' \subseteq failedValid
        /\ lost \subseteq lost' \/ failedValid' = {}
    <2> USE DEF Down, Wipe, FreshDisk, Load, Return, StartupFrame, stepVars, indexVars,
                Expose
    <2>1. CASE Crash \/ TriggerRebuild
      BY <2>1 DEF Crash, TriggerRebuild
    <2>2. CASE WipeDies
      BY <2>2 DEF WipeDies
    <2>3. CASE Startup
      BY <2>3, ZenonT(40) DEF Startup
    <2>4. CASE StartupRebuild \/ StartupReindex \/ StartupReset
      BY <2>4, Zenon DEF StartupRebuild, StartupReindex, StartupReset
    <2> QED BY <2>1, <2>2, <2>3, <2>4 DEF Restart
  <1>2. tip' \in Blocks /\ bestBlock' \in Blocks
    BY <1>1, TreeAssumption DEF IInv, TypeOK, DiskTypeOK, MemoryTypeOK
  <1>3. ~StaleRecord' => ~StaleRecord \/ failedValid' = {}
    BY <1>1 DEF StaleRecord
  <1>4. pc' \notin ReorgPcs
    BY <1>1 DEF ReorgPcs
  <1> QED BY <1>1, <1>2, <1>3, <1>4, FewerBlocks

(* ConnectTip: what it connects passes, what it marks does not. *)
LEMMA ConnectMarks ==
    ASSUME NEW b \in NonGenesis, NEW s \in BOOLEAN, NEW f \in BOOLEAN, ValidChain
    PROVE  /\ ConnectOK(b, s) => /\ b \in ContextValid /\ failedValid' = failedValid
                                 /\ ~s => b \notin failedValid
           /\ ConnectFails(b, s, f) =>
                  \/ failedValid' = failedValid
                  \/ /\ failedValid' = failedValid \cup {b}
                     /\ b \notin ContextValid \cap DfmpValid
                     /\ s => b \notin ContextValid
  <1>1. ASSUME ConnectOK(b, s)
        PROVE  /\ b \in ContextValid /\ failedValid' = failedValid
               /\ ~s => b \notin failedValid
    BY <1>1 DEF ConnectOK, PassesChecks, ValidChain
  <1>2. ASSUME ConnectFails(b, s, f)
        PROVE  \/ failedValid' = failedValid
               \/ /\ failedValid' = failedValid \cup {b}
                  /\ b \notin ContextValid \cap DfmpValid
                  /\ s => b \notin ContextValid
    BY <1>2, Zenon DEF ConnectFails, ConnectInvalid, ConnectUtxoError, PassesChecks
  <1> QED BY <1>1, <1>2, Zenon

(* The tip moves to a connected block. *)
LEMMA ArriveValid ==
    ASSUME ValidChain, NEW b \in NonGenesis,
           tip' = b, bestBlock' = bestBlock, failedValid' = failedValid, lost' = lost,
           pc' \notin ForwardPcs, pc' \in ReorgPcs => cur' = b,
           Anc[b] \subseteq ContextValid, ~StaleRecord => Anc[b] \cap failedValid = {}
    PROVE  ValidChain'
  BY Zenon DEF ValidChain, StaleRecord

(* A block off both chains is marked. *)
LEMMA MarkValid ==
    ASSUME ValidChain, NEW b \in NonGenesis, UNCHANGED <<tip, bestBlock>>,
           failedValid' = failedValid \cup {b}, b \notin ContextValid \cap DfmpValid,
           lost \subseteq lost', b \notin Anc[tip],
           ~StaleRecord => bestBlock = tip,
           pc' \notin ForwardPcs, pc' \in ReorgPcs => Anc[cur'] \subseteq ContextValid
    PROVE  ValidChain'
  <1>1. ~StaleRecord' => ~StaleRecord
    BY DEF StaleRecord
  <1> QED BY <1>1 DEF ValidChain

LEMMA BeginValid ==
    ASSUME IInv, ValidChain, NEW b \in Blocks, ActivateBestChain(b)
    PROVE  ValidChain'
  <1>1. /\ UNCHANGED <<tip, bestBlock, failedValid, lost>>
        /\ pc = "idle"
    BY ZenonT(40)
    DEF ActivateBestChain, ExtendTip, ReplaceTip, StartReorg, indexVars, Unlocked
  <1>2. \/ pc' \notin ReorgPcs
        \/ /\ cur' = tip /\ target' = b
           /\ (Anc[b] \ Anc[FindFork(tip, b)]) \cap failedValid = {}
    <2>1. CASE ExtendTip(b) \/ ReplaceTip(b)
      BY <2>1 DEF ExtendTip, ReplaceTip, ReorgPcs
    <2>2. CASE StartReorg(b)
      <3>1. (Anc[b] \ Anc[FindFork(tip, b)]) \cap failedValid = {}
        BY <2>2, Zenon DEF StartReorg, ReorgAllowed
      <3>2. pc' = pc \/ (cur' = tip /\ target' = b)
        BY <2>2 DEF StartReorg, stepVars
      <3> QED BY <1>1, <3>1, <3>2 DEF ReorgPcs
    <2> QED BY <2>1, <2>2, ZenonT(40) DEF ActivateBestChain
  <1>3. pc' \in ForwardPcs => pc' \in ReorgPcs
    BY DEF ForwardPcs, ReorgPcs
  <1>4. pc' \in ReorgPcs => Anc[cur'] \subseteq ContextValid
    BY <1>2, Zenon DEF ValidChain
  <1>5. pc' \in ForwardPcs =>
            (Anc[target'] \ Anc[FindFork(tip', target')]) \cap failedValid' = {}
    BY <1>1, <1>2, <1>3, Zenon
  <1> QED BY <1>1, <1>4, <1>5, Zenon DEF ValidChain, StaleRecord

LEMMA ExtendConnectValid ==
    ASSUME IInv, ValidChain, RecordCurrent, ExtendConnect
    PROVE  ValidChain'
  <1>1. /\ target \in NonGenesis /\ Parent[target] = tip /\ pc = "extend"
        /\ tip \in Blocks /\ dpc \in {"none", "gap"}
    BY ZenonT(40)
    DEF ExtendConnect, IInv, Cursors, TypeOK, StepTypeOK, MemoryTypeOK, NonGenesis
  <1>2. Anc[target] = Anc[tip] \cup {target} /\ target \notin Anc[tip]
    <2>1. Anc[target] = Anc[Parent[target]] \cup {target}
      BY <1>1, ParentFacts
    <2>2. Height[target] = Height[tip] + 1 /\ Height[tip] \in Nat
      BY <1>1, BlockHeights
    <2>3. \A a \in Anc[tip] : Height[a] <= Height[tip]
      BY <1>1, AncAssumption
    <2>4. target \notin Anc[tip]
      BY <2>2, <2>3
    <2> QED BY <1>1, <2>1, <2>4
  <1>3. ~StaleRecord => bestBlock = tip
    BY <1>1 DEF RecordCurrent
  <1>4. UNCHANGED <<bestBlock, lost>>
    BY DEF ExtendConnect
  <1>5. CASE ConnectOK(target, FALSE) /\ tip' = target /\ pc' = "best"
    <2>1. target \in ContextValid /\ failedValid' = failedValid /\ target \notin failedValid
      BY <1>1, <1>5, ConnectMarks, Zenon
    <2>2. /\ Anc[target] \subseteq ContextValid
          /\ ~StaleRecord => Anc[target] \cap failedValid = {}
      BY <1>2, <2>1 DEF ValidChain
    <2>3. pc' \notin ForwardPcs /\ pc' \notin ReorgPcs
      BY <1>5 DEF ForwardPcs, ReorgPcs
    <2> QED BY <1>1, <1>4, <1>5, <2>1, <2>2, <2>3, ArriveValid
  <1>6. CASE ConnectFails(target, FALSE, FALSE) /\ Return /\ UNCHANGED tip
    <2>1. pc' \notin ForwardPcs /\ pc' \notin ReorgPcs
      BY <1>6 DEF ForwardPcs, ReorgPcs, Return
    <2>2. \/ failedValid' = failedValid
          \/ /\ failedValid' = failedValid \cup {target}
             /\ target \notin ContextValid \cap DfmpValid
      BY <1>1, <1>6, ConnectMarks, Zenon
    <2>3. CASE failedValid' = failedValid
      BY <1>4, <1>6, <2>1, <2>3, Zenon DEF ValidChain, StaleRecord
    <2>4. CASE /\ failedValid' = failedValid \cup {target}
               /\ target \notin ContextValid \cap DfmpValid
      BY <1>1, <1>2, <1>3, <1>4, <1>6, <2>1, <2>4, MarkValid
    <2> QED BY <2>2, <2>3, <2>4
  <1> QED BY <1>5, <1>6, Zenon DEF ExtendConnect

LEMMA ReplaceConnectValid ==
    ASSUME IInv, ValidChain, RecordCurrent, Chosen, ReplaceConnect
    PROVE  ValidChain'
  <1>1. /\ target \in NonGenesis /\ tip \in NonGenesis /\ Parent[target] = Parent[tip]
        /\ pc = "replConn" /\ dpc \in {"none", "gap"}
    BY Zenon DEF ReplaceConnect, IInv, Cursors, TypeOK, StepTypeOK, MemoryTypeOK, NonGenesis
  <1>2. target # tip
    <2>1. Improves(tip, target)
      BY <1>1, Zenon DEF Chosen, ChosenPcs
    <2>2. tip \in Blocks /\ ChainWork[tip] \in Nat /\ VdfOutput[tip] \in Nat
      BY <1>1, TreeAssumption, VdfAssumption DEF NonGenesis
    <2> QED BY <2>1, <2>2 DEF Improves
  <1>3. /\ Anc[target] = Anc[Parent[tip]] \cup {target}
        /\ Anc[tip] = Anc[Parent[tip]] \cup {tip}
    BY <1>1, ParentFacts, ZenonT(40)
  <1>4. target \notin Anc[Parent[tip]]
    BY <1>1, NotItsAncestor, Zenon
  <1>5. ~StaleRecord => bestBlock = tip
    BY <1>1 DEF RecordCurrent
  <1>6. bestBlock' = bestBlock
    BY DEF ReplaceConnect
  <1>7. CASE ConnectOK(target, FALSE) /\ tip' = target /\ pc' = "best" /\ lost' = lost
    <2>1. target \in ContextValid /\ failedValid' = failedValid /\ target \notin failedValid
      BY <1>1, <1>7, ConnectMarks, Zenon
    <2>2. /\ Anc[target] \subseteq ContextValid
          /\ ~StaleRecord => Anc[target] \cap failedValid = {}
      BY <1>3, <2>1 DEF ValidChain
    <2>3. pc' \notin ForwardPcs /\ pc' \notin ReorgPcs
      BY <1>7 DEF ForwardPcs, ReorgPcs
    <2> QED BY <1>1, <1>6, <1>7, <2>1, <2>2, <2>3, ArriveValid
  <1>8. CASE /\ ConnectFails(target, FALSE, TRUE) /\ Return /\ UNCHANGED tip
             /\ Expose({"replaceFailed"})
    <2>1. pc' \notin ForwardPcs /\ pc' \notin ReorgPcs
      BY <1>8 DEF ForwardPcs, ReorgPcs, Return
    <2>2. \/ failedValid' = failedValid
          \/ /\ failedValid' = failedValid \cup {target}
             /\ target \notin ContextValid \cap DfmpValid
      BY <1>1, <1>8, ConnectMarks, Zenon
    <2>3. lost \subseteq lost'
      BY <1>8 DEF Expose
    <2>4. CASE failedValid' = failedValid
      <3>1. ~StaleRecord' => ~StaleRecord
        BY <2>3 DEF StaleRecord
      <3> QED BY <1>6, <1>8, <2>1, <2>4, <3>1, Zenon DEF ValidChain
    <2>5. CASE /\ failedValid' = failedValid \cup {target}
               /\ target \notin ContextValid \cap DfmpValid
      BY <1>1, <1>2, <1>3, <1>4, <1>5, <1>6, <1>8, <2>1, <2>3, <2>5, MarkValid, Zenon
    <2> QED BY <2>2, <2>4, <2>5
  <1> QED BY <1>7, <1>8, Zenon DEF ReplaceConnect

LEMMA ReorgSetTipValid ==
    ASSUME IInv, ValidChain, ReorgSetTip
    PROVE  ValidChain'
  <1>1. /\ target \in Blocks /\ tip \in Blocks /\ cur = target /\ pc = "conn"
    BY DEF ReorgSetTip, IInv, TypeOK, StepTypeOK, MemoryTypeOK
  <1>2. Anc[target] \subseteq ContextValid
    BY <1>1 DEF ValidChain, ReorgPcs
  <1>3. ~StaleRecord => Anc[target] \cap failedValid = {}
    <2>1. Anc[FindFork(tip, target)] \subseteq Anc[tip]
      BY <1>1, ForkFacts
    <2> QED BY <1>1, <2>1 DEF ValidChain, ForwardPcs
  <1>4. /\ tip' = target /\ bestBlock' = bestBlock /\ failedValid' = failedValid
        /\ lost' = lost /\ pc' \notin ForwardPcs /\ cur' = target
    BY <1>1 DEF ReorgSetTip, indexVars, ForwardPcs
  <1> QED BY <1>2, <1>3, <1>4, Zenon DEF ValidChain, StaleRecord

(* The next block of the new chain is not on the old one. *)
LEMMA NextIsNew ==
    ASSUME NEW t \in Blocks, NEW g \in Blocks, NEW c \in Anc[g], c # g,
           FindFork(t, g) \in Anc[c]
    PROVE  NextTowards(c, g) \notin Anc[t]
  <1> DEFINE n == NextTowards(c, g)
  <1>1. n \in Anc[g] /\ n \in NonGenesis /\ Parent[n] = c
    BY NextFacts
  <1>2. c \in Blocks /\ FindFork(t, g) \in Blocks /\ Anc[FindFork(t, g)] = Anc[t] \cap Anc[g]
    BY AncAssumption, ForkFacts, ZenonT(40)
  <1>3. Height[n] = Height[c] + 1 /\ Height[c] \in Nat /\ Height[FindFork(t, g)] \in Nat
    BY <1>1, <1>2, BlockHeights
  <1>4. Height[FindFork(t, g)] <= Height[c]
    BY <1>2, AncAssumption
  <1>5. ASSUME n \in Anc[t] PROVE FALSE
    <2>1. n \in Anc[FindFork(t, g)]
      BY <1>1, <1>2, <1>5
    <2>2. Height[n] <= Height[FindFork(t, g)]
      BY <1>2, <2>1, AncAssumption, ZenonT(40)
    <2> QED BY <1>3, <1>4, <2>2
  <1> QED BY <1>5

LEMMA ReorgConnectValid ==
    ASSUME IInv, ValidChain, RecordCurrent, ReorgConnect
    PROVE  ValidChain'
  <1> DEFINE n == NextTowards(cur, target)
  <1>1. /\ target \in Blocks /\ tip \in Blocks /\ cur \in Anc[target] /\ cur # target
        /\ pc = "conn" /\ dpc = "none" /\ FindFork(tip, target) \in Anc[cur]
    BY Zenon DEF ReorgConnect, IInv, Cursors, ReorgPcs, TypeOK, StepTypeOK, MemoryTypeOK
  <1>2. n \in NonGenesis /\ Parent[n] = cur /\ n \notin Anc[tip]
    BY <1>1, NextFacts, NextIsNew, ZenonT(40)
  <1>3. Anc[n] = Anc[cur] \cup {n}
    BY <1>2, ParentFacts, ZenonT(40)
  <1>4. UNCHANGED <<tip, bestBlock, lost, target>>
    BY Zenon DEF ReorgConnect
  <1>5. ~StaleRecord => bestBlock = tip
    BY <1>1 DEF RecordCurrent
  <1>6. Anc[cur] \subseteq ContextValid
    BY <1>1, Zenon DEF ValidChain, ReorgPcs
  <1> HIDE DEF n
  <1>7. CASE ConnectOK(n, TRUE) /\ cur' = n /\ pc' = "updConn"
    <2>1. n \in ContextValid /\ failedValid' = failedValid
      BY <1>2, <1>7, ConnectMarks, Zenon
    <2>2. Anc[cur'] \subseteq ContextValid
      BY <1>3, <1>6, <1>7, <2>1
    <2>3. pc \in ForwardPcs
      BY <1>1 DEF ForwardPcs
    <2> QED BY <1>4, <2>1, <2>2, <2>3, Zenon DEF ValidChain, StaleRecord
  <1>8. CASE failedValid' = failedValid /\ pc' = "rbDisc" /\ UNCHANGED cur
    <2>1. pc' \notin ForwardPcs
      BY <1>8 DEF ForwardPcs
    <2> QED BY <1>4, <1>6, <1>8, <2>1, Zenon DEF ValidChain, StaleRecord
  <1>9. CASE ConnectFails(n, TRUE, FALSE) /\ pc' = "rbDisc" /\ UNCHANGED cur
    <2>1. \/ failedValid' = failedValid
          \/ /\ failedValid' = failedValid \cup {n}
             /\ n \notin ContextValid \cap DfmpValid
      BY <1>2, <1>9, ConnectMarks, Zenon
    <2>2. pc' \notin ForwardPcs
      BY <1>9 DEF ForwardPcs
    <2>3. CASE /\ failedValid' = failedValid \cup {n}
               /\ n \notin ContextValid \cap DfmpValid
      BY <1>2, <1>4, <1>5, <1>6, <1>9, <2>2, <2>3, MarkValid
    <2> QED BY <1>8, <1>9, <2>1, <2>3
  <1>10. \/ ConnectOK(n, TRUE) /\ cur' = n /\ pc' = "updConn"
         \/ failedValid' = failedValid /\ pc' = "rbDisc" /\ UNCHANGED cur
         \/ ConnectFails(n, TRUE, FALSE) /\ pc' = "rbDisc" /\ UNCHANGED cur
    BY Zenon DEF ReorgConnect, n
  <1> QED BY <1>7, <1>8, <1>9, <1>10, ZenonT(40)

(* A rollback marks nothing: the blocks of the old chain pass the checks that  *)
(* are made again.                                                             *)
LEMMA RollbackConnectValid ==
    ASSUME IInv, ValidChain, RollbackConnect
    PROVE  ValidChain'
  <1> DEFINE n == NextTowards(cur, tip)
  <1>1. tip \in Blocks /\ cur \in Anc[tip] /\ cur # tip /\ pc = "rbConn"
    BY Zenon DEF RollbackConnect, IInv, Cursors, TypeOK, MemoryTypeOK
  <1>2. n \in NonGenesis /\ n \in Anc[tip]
    BY <1>1, NextFacts
  <1>3. Anc[n] \subseteq ContextValid /\ n \in ContextValid
    BY <1>1, <1>2, AncAssumption, ZenonT(40) DEF ValidChain
  <1>4. UNCHANGED <<tip, bestBlock>>
    BY DEF RollbackConnect
  <1> HIDE DEF n
  <1>5. CASE ConnectOK(n, TRUE) /\ cur' = n /\ UNCHANGED <<pc, target, lost>>
    <2>1. failedValid' = failedValid
      BY <1>2, <1>5, ConnectMarks, Zenon
    <2>2. pc' \notin ForwardPcs
      BY <1>1, <1>5 DEF ForwardPcs
    <2> QED BY <1>3, <1>4, <1>5, <2>1, <2>2, Zenon DEF ValidChain, StaleRecord
  <1>6. CASE /\ ConnectFails(n, TRUE, FALSE) \/ failedValid' = failedValid
             /\ Return /\ Expose({"rollbackFailed"})
    <2>1. failedValid' = failedValid
      <3>1. CASE ConnectFails(n, TRUE, FALSE)
        BY <1>2, <1>3, <3>1, ConnectMarks, Zenon
      <3> QED BY <1>6, <3>1, Zenon
    <2>2. pc' \notin ForwardPcs /\ pc' \notin ReorgPcs
      BY <1>6 DEF ForwardPcs, ReorgPcs, Return
    <2>3. ~StaleRecord' => ~StaleRecord
      BY <1>6 DEF StaleRecord, Expose
    <2> QED BY <1>4, <2>1, <2>2, <2>3, Zenon DEF ValidChain
  <1>7. \/ ConnectOK(n, TRUE) /\ cur' = n /\ UNCHANGED <<pc, target, lost>>
        \/ /\ ConnectFails(n, TRUE, FALSE) \/ failedValid' = failedValid
           /\ Return /\ Expose({"rollbackFailed"})
    BY Zenon DEF RollbackConnect, n
  <1> QED BY <1>5, <1>6, <1>7, ZenonT(40)

LEMMA NextValid ==
    IInv /\ Chosen /\ RecordCurrent /\ ValidChain /\ [Next]_vars => ValidChain'
  <1> SUFFICES ASSUME IInv, Chosen, RecordCurrent, ValidChain, [Next]_vars
               PROVE  ValidChain'
    OBVIOUS
  <1>1. CASE ReorgConnect \/ RollbackConnect
    BY <1>1, ReorgConnectValid, RollbackConnectValid
  <1>2. CASE QuietStep /\ ~MarkingStep
    BY <1>2, QuietStepKeepsMarks, QuietValid
  <1>3. CASE \E b \in Blocks : ActivateBestChain(b)
    BY <1>3, BeginValid
  <1>4. CASE ExtendConnect \/ ReplaceConnect \/ ReorgSetTip
    BY <1>4, ExtendConnectValid, ReplaceConnectValid, ReorgSetTipValid
  <1>5. CASE RewindDisconnect
    BY <1>5, RewindDisconnectValid
  <1>6. CASE Crash \/ TriggerRebuild \/ WipeDies \/ Restart
    BY <1>6, RestartValid
  <1> QED
    BY <1>1, <1>2, <1>3, <1>4, <1>5, <1>6
    DEF Next, ActivateStep, RewindStep, QuietStep, MarkingStep

LEMMA InitValid == Init => RecordCurrent /\ ValidChain
  <1> SUFFICES ASSUME Init PROVE RecordCurrent /\ ValidChain
    OBVIOUS
  <1>1. tip = Genesis /\ bestBlock = Genesis /\ failedValid = {} /\ pc = "idle"
    BY Zenon DEF Init, FreshDisk
  <1>2. Anc[Genesis] = {Genesis} /\ Genesis \in ContextValid
    BY ChainStateAssumption, AncAssumption
  <1> QED BY <1>1, <1>2 DEF RecordCurrent, ValidChain, ReorgPcs, ForwardPcs

LEMMA ValidHolds == Spec => [](RecordCurrent /\ ValidChain)
  <1> QED BY ChosenHolds, InitValid, NextRecordCurrent, NextValid, PTL DEF Spec

(* No block that fails a check ConnectTip always makes is ever on the active   *)
(* chain, and none that is marked BLOCK_FAILED_VALID unless a write of the     *)
(* best-block record was missed, whichever case connected it and across        *)
(* rollbacks, rewinds, crashes and restarts.                                   *)
THEOREM NoInvalidInChainHolds == Spec => []NoInvalidInChain
  <1>1. ValidChain => NoInvalidInChain
    BY Zenon DEF ValidChain, NoInvalidInChain
  <1> QED BY <1>1, ValidHolds, PTL

-----------------------------------------------------------------------------
(* What the undo check of the startup lets through after a first crash. *)

(* Before the first crash, the first I/O failure and the first failed          *)
(* replacement of the tip.                                                     *)
Untroubled == crashes = 0 /\ faults = 0 /\ "replaceFailed" \notin lost

(* Then nothing has been exposed, every block of the tip's chain was applied   *)
(* on top of its parent (so a rollback can apply it again), the record is one  *)
(* block behind or at a sibling while it waits to be written, and a process    *)
(* that stopped without a marker left an empty chain.                          *)
Calm ==
    Untroubled =>
        /\ lost = {}
        /\ pc # "down" =>
               \A b \in Anc[tip] \ {Genesis} : Spends[b] \subseteq UtxoAt[Parent[b]]
        /\ pc = "best" =>
               /\ tip # Genesis
               /\ \/ bestBlock = Parent[tip]
                  \/ bestBlock # Genesis /\ Parent[bestBlock] = Parent[tip]
        /\ pc = "down" /\ ~marker => FreshDisk(bestBlock, utxo, undo)

LEMMA LowerAncestor ==
    ASSUME NEW b \in Blocks, NEW a \in Anc[b], a # b
    PROVE  Height[a] < Height[b]
  <1>1. b \in NonGenesis
    BY AboveHasParent
  <1>2. a \in Anc[Parent[b]] /\ Parent[b] \in Blocks
    BY <1>1, ParentFacts
  <1>3. Height[a] <= Height[Parent[b]] /\ a \in Blocks
    BY <1>2, AncAssumption
  <1> QED BY <1>1, <1>2, <1>3, BlockHeights

(* The steps of a process that stays up. *)
RunningStep ==
    \/ \E b \in Blocks : AddBlockIndex(b) \/ ActivateBestChain(b)
    \/ \E h \in RewindHeights : StartRewind(h)
    \/ ActivateStep \/ RewindStep \/ ExpireGrace

LEMMA RunningStepRuns ==
    ASSUME IInv, RunningStep
    PROVE  pc # "down" /\ pc' # "down" /\ UNCHANGED crashes
  <1>0. /\ pc \in {"down", "idle"} \cup ActivatePcs /\ TypeOK
        /\ dpc # "none" => pc # "down"
    BY DEF IInv, Cursors, TypeOK, StepTypeOK
  <1>1. ASSUME NEW b \in Blocks, AddBlockIndex(b) \/ ActivateBestChain(b)
        PROVE  pc # "down" /\ pc' # "down" /\ UNCHANGED crashes
    BY <1>1, Zenon DEF AddBlockIndex, ActivateBestChain, ExtendTip, ReplaceTip, StartReorg,
        Unlocked, stepVars
  <1>2. ASSUME NEW h \in RewindHeights, StartRewind(h)
        PROVE  pc # "down" /\ pc' # "down" /\ UNCHANGED crashes
    BY <1>2 DEF StartRewind, Unlocked, RewindFrame, stepVars
  <1>3. CASE ActivateStep
    <2> USE DEF Return
    <2>1. CASE ExtendConnect \/ ReplaceDisconnect \/ ReplaceConnect \/ WriteBest
      BY <2>1, Zenon DEF ExtendConnect, ReplaceDisconnect, ReplaceConnect, WriteBest
    <2>2. CASE ReorgEnterDisconnect \/ ReorgUpdateDisconnect \/ ReorgEnterConnect
               \/ ReorgUpdateConnect
      BY <2>2, Zenon DEF ReorgEnterDisconnect, ReorgUpdateDisconnect, ReorgEnterConnect,
          ReorgUpdateConnect, WalStep
    <2>3. CASE ReorgDisconnect \/ ReorgConnect
      BY <2>3, Zenon DEF ReorgDisconnect, ReorgConnect
    <2>4. CASE ReorgSetTip \/ ReorgWriteBest \/ ReorgComplete \/ RollbackAbort
      BY <2>4 DEF ReorgSetTip, ReorgWriteBest, ReorgComplete, RollbackAbort
    <2>5. CASE RollbackDisconnect \/ RollbackConnect
      BY <2>5, Zenon DEF RollbackDisconnect, RollbackConnect
    <2> QED BY <1>3, <2>1, <2>2, <2>3, <2>4, <2>5 DEF ActivateStep
  <1>4. CASE RewindStep
    BY <1>0, <1>4, Zenon DEF RewindStep, RewindEnter, RewindDisconnect, RewindWriteBest,
        RewindUpdate, RewindResume, RewindComplete, RewindFrame, stepVars
  <1>5. CASE ExpireGrace
    BY <1>5 DEF ExpireGrace, stepVars
  <1> QED BY <1>1, <1>2, <1>3, <1>4, <1>5 DEF RunningStep

(* A crash before any trouble: unless the WAL or the undo check tells, the     *)
(* UTXO set on disk is the record's or that of a block above it.               *)
LEMMA FirstCrash ==
    ASSUME IInv, Chosen, RecordCurrent, Calm, Untroubled, Crash, ~HasIncompleteReorg',
           UndoIntact', Checkpoints # {},
           \A c \in Checkpoints : Height[c] <= Height[bestBlock]
    PROVE  bestBlock \in Anc[At] /\ At \in Blocks /\ utxo = UtxoAt[At]
  <1>0. /\ pc # "down" /\ bestBlock' = bestBlock /\ undo' = undo
        /\ walFile' = walFile \/ InWriteWAL
    BY DEF Crash, utxoVars
  <1>1. lost = {} /\ ~StaleRecord
    BY DEF Calm, StaleRecord
  <1>2. tip \in Blocks /\ cur \in Blocks /\ bestBlock \in Blocks /\ target \in Blocks
    BY DEF IInv, TypeOK, DiskTypeOK, MemoryTypeOK, StepTypeOK
  <1>3. pc = "replConn" => tip \in NonGenesis /\ target \in NonGenesis
                           /\ Parent[target] = Parent[tip]
    BY <1>2 DEF IInv, Cursors, NonGenesis
  <1>4. At \in Blocks
    BY <1>2, <1>3, BlockHeights DEF At
  <1>5. utxo = UtxoAt[At] /\ undo = Anc[At]
    BY <1>0, <1>1 DEF IInv, Placed
  <1>6. SUFFICES ASSUME bestBlock \notin Anc[At]
                 PROVE  FALSE
    BY <1>4, <1>5
  <1>7. bestBlock \in Checkpoints
    <2>1. bestBlock \in Anc[bestBlock] \ undo
      BY <1>2, <1>5, <1>6, AncSelf
    <2>2. PICK c \in Checkpoints : Height[bestBlock] <= Height[c]
      BY <1>0, <2>1 DEF UndoIntact
    <2>3. Height[c] = Height[bestBlock]
      BY <1>2, <2>2, BlockHeights
    <2>4. c \in Anc[bestBlock]
      BY <1>2, <2>3, BlockHeights DEF Chosen, CheckpointOK
    <2>5. c = bestBlock
      BY <1>2, <2>3, <2>4, BlockHeights, LowerAncestor
    <2> QED BY <2>5
  <1>8. CASE pc = "best"
    <2>1. At = tip /\ tip # Genesis
      BY <1>8 DEF At, ReorgPcs, Calm
    <2>2. bestBlock # Parent[tip]
      BY <1>2, <1>6, <2>1, ParentFacts DEF NonGenesis
    <2>3. bestBlock # Genesis /\ Parent[bestBlock] = Parent[tip]
      BY <1>8, <2>2 DEF Calm
    <2>4. Height[bestBlock] = Height[tip]
      BY <1>2, <2>1, <2>3, BlockHeights DEF NonGenesis
    <2>5. bestBlock \in Anc[tip]
      BY <1>2, <1>7, <2>4, BlockHeights DEF Chosen, CheckpointOK
    <2> QED BY <1>6, <2>1, <2>5
  <1>9. CASE pc = "replConn"
    <2>1. bestBlock = tip
      BY <1>1, <1>9 DEF RecordCurrent, IInv, Cursors
    <2>2. Height[target] = Height[tip]
      BY <1>3, <1>9, BlockHeights
    <2>3. CheckpointOK(target) /\ Improves(tip, target)
      BY <1>9 DEF Chosen, ChosenPcs
    <2>4. tip \in Anc[target]
      BY <1>2, <1>7, <2>1, <2>2, <2>3, BlockHeights DEF CheckpointOK
    <2>5. tip = target
      BY <1>2, <2>2, <2>4, BlockHeights, LowerAncestor
    <2>6. ChainWork[tip] \in Nat /\ VdfOutput[tip] \in Nat
      BY <1>2, TreeAssumption, VdfAssumption
    <2> QED BY <2>3, <2>5, <2>6 DEF Improves
  <1>10. CASE pc \in {"idle", "extend", "replDisc", "enterDisc"}
    <2>1. At = tip
      BY <1>10 DEF At, ReorgPcs, IInv, Cursors
    <2>2. dpc \in {"none", "enter", "upd"} \/ HasIncompleteReorg
      BY <1>1 DEF IInv, Recorded
    <2>3. HasIncompleteReorg => InWriteWAL
      BY <1>0 DEF HasIncompleteReorg
    <2>4. bestBlock = tip
      BY <1>1, <1>10, <2>2, <2>3 DEF IInv, Cursors, Recorded, InWriteWAL
    <2> QED BY <1>2, <1>6, <2>1, <2>4, AncSelf
  <1>11. CASE pc \in ReorgPcs \ {"enterDisc"}
    <2>1. HasIncompleteReorg /\ dpc = "none"
      BY <1>1, <1>11 DEF IInv, Cursors, Recorded
    <2>2. pc \in {"disc", "updDisc", "updConn"}
      BY <1>0, <1>11, <2>1 DEF HasIncompleteReorg, InWriteWAL
    <2>3. bestBlock = tip /\ At = cur /\ FindFork(tip, target) \in Anc[cur]
      BY <1>1, <2>1, <2>2, ZenonT(40) DEF IInv, Cursors, Recorded, At, ReorgPcs
    <2>4. /\ FindFork(tip, target) \in Blocks /\ FindFork(tip, target) \in Anc[tip]
          /\ Height[FindFork(tip, target)] \in Nat /\ Height[tip] \in Nat
      BY <1>2, ForkFacts, BlockHeights
    <2>5. Height[FindFork(tip, target)] >= LastCheckpoint(Height[tip])
      BY <2>2 DEF Chosen, ForwardPcs
    <2>6. Height[tip] <= LastCheckpoint(Height[tip]) /\ LastCheckpoint(Height[tip]) \in Nat
      BY <1>7, <2>3, <2>4, LastCheckpointFacts
    <2>7. ~(Height[FindFork(tip, target)] < Height[tip])
      BY <2>4, <2>5, <2>6
    <2>8. FindFork(tip, target) = tip
      BY <1>2, <2>4, <2>7, LowerAncestor
    <2> QED BY <1>6, <2>3, <2>8
  <1> QED
    BY <1>0, <1>8, <1>9, <1>10, <1>11
    DEF IInv, TypeOK, StepTypeOK, ActivatePcs, ReorgPcs

(* Where the tip's chain is not the one applied, the tip stays. *)
AwayPcs == {"replConn", "enterDisc", "disc", "updDisc", "conn", "updConn", "rbDisc",
            "rbConn"}

LEMMA AwayKeepsTip ==
    ASSUME IInv, RunningStep, pc' \in AwayPcs
    PROVE  tip' = tip
  <1>1. CASE QuietStep
    BY <1>1, QuietStepIsQuiet DEF Quiet
  <1>2. ASSUME NEW b \in Blocks, ActivateBestChain(b) PROVE tip' = tip
    BY <1>2, Zenon DEF ActivateBestChain, ExtendTip, ReplaceTip, StartReorg
  <1>3. CASE ExtendConnect \/ ReplaceConnect
    BY <1>3, Zenon DEF ExtendConnect, ReplaceConnect, Return, AwayPcs
  <1>4. CASE ReorgSetTip
    BY <1>4 DEF ReorgSetTip, AwayPcs
  <1>5. CASE RewindDisconnect
    BY <1>5, ZenonT(40) DEF RewindDisconnect, RewindFrame, stepVars, IInv, Cursors, AwayPcs
  <1> QED
    BY <1>1, <1>2, <1>3, <1>4, <1>5 DEF RunningStep, ActivateStep, RewindStep, QuietStep

LEMMA AppliedNext ==
    ASSUME IInv, IInv', Calm, Untroubled, RunningStep, lost' = {}
    PROVE  \A b \in Anc[tip'] \ {Genesis} : Spends[b] \subseteq UtxoAt[Parent[b]]
  <1>1. pc # "down" /\ pc' # "down"
    BY RunningStepRuns
  <1>2. CASE pc' \in AwayPcs
    BY <1>1, <1>2, AwayKeepsTip DEF Calm
  <1>3. CASE pc' \notin AwayPcs
    <2>1. At' = tip'
      BY <1>3, ZenonT(40) DEF At, ReorgPcs, AwayPcs, IInv, Cursors
    <2>2. undo' = Anc[At'] /\ \A b \in undo' \ {Genesis} : Spends[b] \subseteq UtxoAt[Parent[b]]
      BY <1>1 DEF IInv, Placed
    <2> QED BY <2>1, <2>2
  <1> QED BY <1>2, <1>3

(* DisconnectTip fails on a block with an undo record, and ConnectTip on one   *)
(* that passes and finds its inputs, only through an I/O failure.              *)
LEMMA NoFault ==
    ASSUME faults \in Nat, faults' = faults
    PROVE  /\ \A kind : \A ok \in BOOLEAN : Outcome(kind, ok) => ok
           /\ \A b \in undo : ~DisconnectFails(b)
           /\ \A b \in ContextValid, f \in BOOLEAN :
                  Spends[b] \subseteq utxo => ~ConnectFails(b, TRUE, f)
  <1>1. \A kind : \A ok \in BOOLEAN : Outcome(kind, ok) => ok
    BY DEF Outcome
  <1>2. ~Outcome("read", FALSE) /\ ~Outcome("undo", FALSE) /\ ~Outcome("apply", FALSE)
    BY <1>1, Zenon
  <1>3. \A b \in undo : ~DisconnectFails(b)
    BY <1>2, Zenon DEF DisconnectFails
  <1>4. ASSUME NEW b \in ContextValid, NEW f \in BOOLEAN, Spends[b] \subseteq utxo
        PROVE  ~ConnectFails(b, TRUE, f)
    BY <1>2, <1>4, Zenon
    DEF ConnectFails, ConnectInvalid, ConnectUtxoError, PassesChecks
  <1> QED BY <1>1, <1>3, <1>4, Zenon

LEMMA RollbackSucceeds ==
    ASSUME IInv, ValidChain, Calm, Untroubled, faults' = 0,
           RollbackDisconnect \/ RollbackConnect \/ RewindDisconnect
    PROVE  lost' = lost
  <1>0. lost = {} /\ faults = 0 /\ faults \in Nat /\ faults' = faults
    BY DEF Calm, Untroubled
  <1>1. CASE RollbackDisconnect
    <2>1. cur \in Blocks /\ pc = "rbDisc"
      BY <1>1, ZenonT(40) DEF RollbackDisconnect, IInv, TypeOK, StepTypeOK
    <2>2. cur \in undo
      BY <1>0, <2>1, AncSelf, Zenon DEF IInv, Placed, At, ReorgPcs
    <2>3. ~DisconnectFails(cur)
      BY <1>0, <2>2, NoFault
    <2> QED BY <1>1, <2>3, Zenon DEF RollbackDisconnect
  <1>2. CASE RollbackConnect
    <2> DEFINE n == NextTowards(cur, tip)
    <2>1. tip \in Blocks /\ cur \in Anc[tip] /\ cur # tip /\ pc = "rbConn"
      BY <1>2, ZenonT(40) DEF RollbackConnect, IInv, Cursors, TypeOK, MemoryTypeOK
    <2>2. n \in Anc[tip] \ {Genesis} /\ Parent[n] = cur
      BY <2>1, NextFacts DEF NonGenesis
    <2>3. utxo = UtxoAt[cur]
      BY <1>0, <2>1 DEF IInv, Placed, At, ReorgPcs
    <2>4. n \in ContextValid /\ Spends[n] \subseteq utxo
      BY <2>1, <2>2, <2>3, Zenon DEF ValidChain, Calm
    <2> HIDE DEF n
    <2>5. ~ConnectFails(n, TRUE, FALSE) /\ ~Outcome("read", FALSE)
      BY <1>0, <2>4, NoFault, Zenon
    <2> QED BY <1>2, <2>5, Zenon DEF RollbackConnect, n
  <1>3. CASE RewindDisconnect
    <2>1. tip \in Blocks /\ pc = "idle"
      BY <1>3, Zenon DEF RewindDisconnect, IInv, Cursors, TypeOK, MemoryTypeOK
    <2>2. tip \in undo
      BY <1>0, <2>1, AncSelf DEF IInv, Placed, At, ReorgPcs
    <2>3. ~DisconnectFails(tip)
      BY <1>0, <2>2, NoFault
    <2> QED BY <1>3, <2>3, ZenonT(40) DEF RewindDisconnect
  <1> QED BY <1>1, <1>2, <1>3

LEMMA NothingExposed ==
    ASSUME IInv, ValidChain, Calm, Untroubled, Untroubled', RunningStep
    PROVE  lost' = {}
  <1>0. /\ lost = {} /\ "replaceFailed" \notin lost'
        /\ \A kind : \A ok \in BOOLEAN : Outcome(kind, ok) => ok
    <2>1. lost = {} /\ faults = 0 /\ faults' = 0 /\ "replaceFailed" \notin lost'
      BY DEF Calm, Untroubled
    <2>2. faults \in Nat /\ faults' = faults
      BY <2>1
    <2> QED BY <2>1, <2>2, NoFault
  <1> USE DEF Expose
  <1>1. ASSUME NEW b \in Blocks, AddBlockIndex(b) \/ ActivateBestChain(b)
        PROVE  lost' = {}
    BY <1>0, <1>1, Zenon
    DEF AddBlockIndex, ActivateBestChain, ExtendTip, ReplaceTip, StartReorg
  <1>2. ASSUME NEW h \in RewindHeights, StartRewind(h) PROVE lost' = {}
    BY <1>0, <1>2 DEF StartRewind
  <1>3. CASE RollbackDisconnect \/ RollbackConnect \/ RewindDisconnect
    BY <1>0, <1>3, RollbackSucceeds DEF Untroubled
  <1>4. CASE \/ ReorgEnterDisconnect \/ ReorgUpdateDisconnect \/ ReorgEnterConnect
             \/ ReorgUpdateConnect \/ RewindEnter \/ RewindUpdate
    <2>1. \E ok \in BOOLEAN : /\ Outcome("wal", ok)
                              /\ lost' = lost \cup IF ok THEN {} ELSE {"walFault"}
      BY <1>4, Zenon DEF ReorgEnterDisconnect, ReorgUpdateDisconnect, ReorgEnterConnect,
          ReorgUpdateConnect, RewindEnter, RewindUpdate, WalStep
    <2> QED BY <1>0, <2>1
  <1>5. CASE WriteBest \/ ReorgWriteBest \/ RewindWriteBest
    <2>1. \E ok \in BOOLEAN : /\ Outcome("best", ok)
                              /\ lost' = lost \cup IF ok THEN {} ELSE {"bestFault"}
      BY <1>5, Zenon DEF WriteBest, ReorgWriteBest, RewindWriteBest
    <2> QED BY <1>0, <2>1
  <1>6. CASE ReplaceConnect
    <2>1. lost' = lost \/ lost' = lost \cup {"replaceFailed"}
      BY <1>6, Zenon DEF ReplaceConnect
    <2> QED BY <1>0, <2>1
  <1>7. CASE ExtendConnect \/ ReplaceDisconnect \/ ReorgDisconnect \/ ReorgConnect
             \/ ReorgSetTip \/ ReorgComplete \/ RollbackAbort \/ RewindResume
             \/ RewindComplete \/ ExpireGrace
    <2>1. UNCHANGED lost
      BY <1>7, Zenon DEF ExtendConnect, ReplaceDisconnect, ReorgDisconnect, ReorgConnect,
          ReorgSetTip, ReorgComplete, RollbackAbort, RewindResume, RewindComplete,
          ExpireGrace
    <2> QED BY <1>0, <2>1
  <1> QED
    BY <1>1, <1>2, <1>3, <1>4, <1>5, <1>6, <1>7
    DEF RunningStep, ActivateStep, RewindStep

(* The record waits to be written only after Cases 2 and 2.5. *)
LEMMA WaitingRecord ==
    ASSUME IInv, RecordCurrent, lost = {}, RunningStep, pc' = "best"
    PROVE  /\ tip' # Genesis
           /\ \/ bestBlock' = Parent[tip']
              \/ bestBlock' # Genesis /\ Parent[bestBlock'] = Parent[tip']
  <1>1. ASSUME NEW b \in Blocks, AddBlockIndex(b) \/ ActivateBestChain(b) PROVE FALSE
    BY <1>1, Zenon DEF AddBlockIndex, ActivateBestChain, ExtendTip, ReplaceTip, StartReorg,
        Unlocked, stepVars
  <1>2. ASSUME NEW h \in RewindHeights, StartRewind(h) PROVE FALSE
    BY <1>2 DEF StartRewind, Unlocked, RewindFrame, stepVars
  <1>3. CASE ExtendConnect
    <2>1. /\ pc = "extend" /\ target # Genesis /\ Parent[target] = tip
          /\ dpc \in {"none", "gap"}
      BY <1>3, Zenon DEF ExtendConnect, IInv, Cursors
    <2>2. tip' = target /\ bestBlock' = bestBlock
      BY <1>3, Zenon DEF ExtendConnect, Return
    <2>3. bestBlock = tip
      BY <2>1 DEF RecordCurrent, StaleRecord
    <2> QED BY <2>1, <2>2, <2>3
  <1>4. CASE ReplaceConnect
    <2>1. /\ pc = "replConn" /\ target # Genesis /\ tip # Genesis
          /\ Parent[target] = Parent[tip] /\ dpc \in {"none", "gap"}
      BY <1>4, Zenon DEF ReplaceConnect, IInv, Cursors
    <2>2. tip' = target /\ bestBlock' = bestBlock
      BY <1>4, Zenon DEF ReplaceConnect, Return
    <2>3. bestBlock = tip
      BY <2>1 DEF RecordCurrent, StaleRecord
    <2> QED BY <2>1, <2>2, <2>3
  <1>5. CASE \/ ReplaceDisconnect \/ WriteBest \/ ReorgDisconnect \/ ReorgConnect
             \/ ReorgSetTip \/ ReorgWriteBest \/ ReorgComplete
             \/ RollbackDisconnect \/ RollbackConnect \/ RollbackAbort
    BY <1>5, Zenon DEF ReplaceDisconnect, WriteBest, ReorgDisconnect, ReorgConnect,
        ReorgSetTip, ReorgWriteBest, ReorgComplete, RollbackDisconnect, RollbackConnect,
        RollbackAbort, Return
  <1>6. CASE ReorgEnterDisconnect \/ ReorgUpdateDisconnect \/ ReorgEnterConnect
             \/ ReorgUpdateConnect
    BY <1>6, Zenon DEF ReorgEnterDisconnect, ReorgUpdateDisconnect, ReorgEnterConnect,
        ReorgUpdateConnect, WalStep
  <1>7. CASE RewindStep \/ ExpireGrace
    BY <1>7, Zenon DEF RewindStep, RewindEnter, RewindDisconnect, RewindWriteBest,
        RewindUpdate, RewindResume, RewindComplete, RewindFrame, stepVars, ExpireGrace,
        IInv, Cursors
  <1> QED
    BY <1>1, <1>2, <1>3, <1>4, <1>5, <1>6, <1>7 DEF RunningStep, ActivateStep

(* The history of a running process only grows. *)
Grows == lost \subseteq lost' /\ faults' \in {faults, faults + 1}

LEMMA RunningGrows ==
    ASSUME RunningStep
    PROVE  Grows
  <1> USE DEF Grows
  <1>0. \A kind : \A ok \in BOOLEAN : Outcome(kind, ok) => faults' \in {faults, faults + 1}
    BY DEF Outcome
  <1>1. \A b, s, f : ConnectOK(b, s) \/ ConnectFails(b, s, f) =>
                         faults' \in {faults, faults + 1}
    BY <1>0, Zenon DEF ConnectOK, ConnectFails, ConnectInvalid, ConnectUtxoError
  <1>2. \A b : DisconnectOK(b) \/ DisconnectFails(b) => faults' \in {faults, faults + 1}
    BY <1>0, Zenon DEF DisconnectOK, DisconnectFails
  <1>3. \A how : Expose(how) => lost \subseteq lost'
    BY DEF Expose
  <1>4. lost' = lost => lost \subseteq lost'
    OBVIOUS
  <1>5. faults' = faults => faults' \in {faults, faults + 1}
    OBVIOUS
  <1>6. ASSUME NEW b \in Blocks, AddBlockIndex(b) \/ ActivateBestChain(b) PROVE Grows
    BY <1>0, <1>4, <1>5, <1>6, Zenon
    DEF AddBlockIndex, ActivateBestChain, ExtendTip, ReplaceTip, StartReorg
  <1>7. ASSUME NEW h \in RewindHeights, StartRewind(h) PROVE Grows
    BY <1>0, <1>4, <1>5, <1>7, Zenon DEF StartRewind
  <1>8. CASE ExtendConnect \/ ReplaceDisconnect \/ ReplaceConnect \/ WriteBest
    BY <1>0, <1>1, <1>2, <1>3, <1>4, <1>8, Zenon
    DEF ExtendConnect, ReplaceDisconnect, ReplaceConnect, WriteBest
  <1>9. CASE \/ ReorgEnterDisconnect \/ ReorgUpdateDisconnect \/ ReorgEnterConnect
             \/ ReorgUpdateConnect
    BY <1>0, <1>3, <1>9, Zenon DEF ReorgEnterDisconnect, ReorgUpdateDisconnect,
        ReorgEnterConnect, ReorgUpdateConnect, WalStep
  <1>10. CASE ReorgDisconnect \/ ReorgConnect \/ ReorgSetTip
    BY <1>0, <1>1, <1>2, <1>4, <1>5, <1>10, Zenon
    DEF ReorgDisconnect, ReorgConnect, ReorgSetTip
  <1>11. CASE ReorgWriteBest \/ ReorgComplete \/ RollbackAbort
    BY <1>0, <1>3, <1>4, <1>11, Zenon DEF ReorgWriteBest, ReorgComplete, RollbackAbort
  <1>12. CASE RollbackDisconnect
    BY <1>2, <1>3, <1>4, <1>5, <1>12, Zenon DEF RollbackDisconnect
  <1>13. CASE RollbackConnect
    BY <1>0, <1>1, <1>3, <1>4, <1>13, Zenon DEF RollbackConnect
  <1>14. CASE RewindEnter \/ RewindUpdate \/ RewindWriteBest \/ RewindComplete
    BY <1>0, <1>3, <1>4, <1>14, Zenon
    DEF RewindEnter, RewindUpdate, RewindWriteBest, RewindComplete
  <1>15. CASE RewindDisconnect
    BY <1>2, <1>3, <1>4, <1>15, Zenon DEF RewindDisconnect
  <1>16. CASE RewindResume \/ ExpireGrace
    BY <1>4, <1>5, <1>16, Zenon DEF RewindResume, ExpireGrace
  <1> QED
    BY <1>6, <1>7, <1>8, <1>9, <1>10, <1>11, <1>12, <1>13, <1>14, <1>15, <1>16
    DEF RunningStep, ActivateStep, RewindStep

LEMMA RunningCalm ==
    ASSUME IInv, IInv', RecordCurrent, ValidChain, Calm, RunningStep
    PROVE  Calm'
  <1> SUFFICES ASSUME Untroubled' PROVE Calm'
    BY DEF Calm
  <1>1. faults \in Nat /\ crashes' = crashes
    BY ChainStateAssumption, RunningStepRuns DEF IInv, TypeOK, HistoryTypeOK
  <1>2. Untroubled
    BY <1>1, RunningGrows DEF Grows, Untroubled
  <1>3. lost = {} /\ lost' = {}
    BY <1>2, NothingExposed DEF Calm
  <1>4. pc' # "down"
    BY RunningStepRuns
  <1>5. \A b \in Anc[tip'] \ {Genesis} : Spends[b] \subseteq UtxoAt[Parent[b]]
    BY <1>2, <1>3, AppliedNext
  <1>6. pc' = "best" =>
            /\ tip' # Genesis
            /\ \/ bestBlock' = Parent[tip']
               \/ bestBlock' # Genesis /\ Parent[bestBlock'] = Parent[tip']
    BY <1>3, WaitingRecord
  <1> QED BY <1>3, <1>4, <1>5, <1>6 DEF Calm

(* Death, and the startups. *)
LEMMA StoppedCalm ==
    ASSUME IInv, IInv', Calm, Crash \/ TriggerRebuild \/ WipeDies \/ Restart
    PROVE  Calm'
  <1> SUFFICES ASSUME Untroubled' PROVE Calm'
    BY DEF Calm
  <1>0. crashes \in Nat /\ faults \in Nat /\ crashes' = 0 /\ faults' = 0
    BY ChainStateAssumption DEF IInv, TypeOK, HistoryTypeOK, Untroubled
  <1>1. ~Crash /\ ~WipeDies
    BY <1>0 DEF Crash, WipeDies
  <1>2. CASE TriggerRebuild
    <2>1. /\ pc' = "down" /\ lost' = lost /\ crashes' = crashes
          /\ (marker' /\ faults' = faults) \/ faults' = faults + 1
      BY <1>2 DEF TriggerRebuild, Outcome, Down
    <2>2. marker' /\ faults = 0 /\ crashes = 0
      BY <1>0, <2>1
    <2>3. lost = {}
      BY <2>1, <2>2 DEF Calm, Untroubled
    <2> QED BY <2>1, <2>2, <2>3, Zenon DEF Calm
  <1>3. CASE Startup
    <2>1. UNCHANGED <<faults, crashes, lost, utxo, undo>> /\ pc = "down" /\ ~marker
      BY <1>3 DEF Startup, StartupFrame, utxoVars
    <2>2. lost = {} /\ FreshDisk(bestBlock, utxo, undo)
      BY <2>1 DEF Calm, Untroubled
    <2>3. CASE Load
      <3>1. tip' = Genesis /\ pc' = "idle"
        BY <2>2, <2>3 DEF Load, FreshDisk
      <3> QED BY <2>1, <2>2, <3>1, AncAssumption DEF Calm
    <2>4. CASE marker' /\ UNCHANGED pc
      BY <2>1, <2>2, <2>4, ZenonT(40) DEF Calm
    <2> QED BY <1>3, <2>3, <2>4 DEF Startup
  <1>4. CASE StartupRebuild \/ StartupReindex \/ StartupReset
    <2>1. FreshDisk(bestBlock', utxo', undo') /\ lost' = {} /\ pc' = "down"
      BY <1>4 DEF StartupRebuild, StartupReindex, StartupReset, Wipe
    <2> QED BY <2>1, Zenon DEF Calm, FreshDisk
  <1> QED BY <1>1, <1>2, <1>3, <1>4 DEF Restart

LEMMA StutterCalm ==
    ASSUME Calm, UNCHANGED vars
    PROVE  Calm'
  BY DEF Calm, Untroubled, FreshDisk, vars, utxoVars, stepVars

LEMMA NextCalm ==
    IInv /\ IInv' /\ RecordCurrent /\ ValidChain /\ Calm /\ [Next]_vars => Calm'
  <1> SUFFICES ASSUME IInv, IInv', RecordCurrent, ValidChain, Calm, [Next]_vars
               PROVE  Calm'
    OBVIOUS
  <1> QED BY RunningCalm, StoppedCalm, StutterCalm DEF Next, RunningStep

LEMMA InitCalm == Init => Calm
  BY AncAssumption DEF Init, Calm, FreshDisk

(* A fresh disk is what the startup check promises. *)
LEMMA FreshIsSeen ==
    ASSUME FreshDisk(bestBlock', utxo', undo')
    PROVE  StartupSeesUndone'
  <1>1. Genesis \in Blocks /\ Genesis \in Anc[Genesis]
    BY ChainStateAssumption, AncAssumption
  <1>2. bestBlock' = Genesis /\ utxo' = UtxoAt[Genesis]
    BY DEF FreshDisk
  <1> QED BY <1>1, <1>2 DEF StartupSeesUndone

LEMMA NextSeesUndone ==
    IInv /\ Chosen /\ RecordCurrent /\ Calm /\ StartupSeesUndone /\ [Next]_vars
        => StartupSeesUndone'
  <1> SUFFICES ASSUME IInv, Chosen, RecordCurrent, Calm, StartupSeesUndone, [Next]_vars
               PROVE  StartupSeesUndone'
    OBVIOUS
  <1>0. crashes \in Nat /\ faults \in Nat
    BY ChainStateAssumption DEF IInv, TypeOK, HistoryTypeOK
  <1>1. CASE RunningStep
    BY <1>1, RunningStepRuns DEF StartupSeesUndone
  <1>2. CASE Crash
    <2> SUFFICES ASSUME ~HasIncompleteReorg', UndoIntact', crashes' <= 1, faults' = 0,
                        "replaceFailed" \notin lost', Checkpoints # {},
                        \A c \in Checkpoints : Height[c] <= Height[bestBlock']
                 PROVE  \E d \in Blocks : bestBlock' \in Anc[d] /\ utxo' = UtxoAt[d]
      BY DEF StartupSeesUndone
    <2>1. /\ crashes' = crashes + 1 /\ faults' = faults /\ lost \subseteq lost'
          /\ bestBlock' = bestBlock /\ utxo' = utxo
      BY <1>2 DEF Crash, Expose, utxoVars
    <2>2. Untroubled
      BY <1>0, <2>1 DEF Untroubled
    <2> QED BY <1>2, <2>1, <2>2, FirstCrash
  <1>3. CASE TriggerRebuild
    <2>1. marker' \/ faults' = faults + 1
      BY <1>3 DEF TriggerRebuild, Outcome
    <2> QED BY <1>0, <2>1 DEF StartupSeesUndone
  <1>4. CASE WipeDies
    <2>1. CASE Wipe
      BY <2>1, FreshIsSeen DEF Wipe
    <2>2. CASE ~Wipe
      <3> SUFFICES ASSUME ~marker', crashes' <= 1, faults' = 0, "replaceFailed" \notin lost'
                   PROVE  \E d \in Blocks : bestBlock' \in Anc[d] /\ utxo' = UtxoAt[d]
        BY DEF StartupSeesUndone
      <3>1. /\ crashes' = crashes + 1 /\ faults' = faults /\ lost \subseteq lost'
            /\ bestBlock' = Genesis /\ utxo' = utxo /\ marker' = marker /\ pc = "down"
        BY <1>4, <2>2 DEF WipeDies, Expose, utxoVars
      <3>2. Untroubled
        BY <1>0, <3>1 DEF Untroubled
      <3>3. utxo = UtxoAt[Genesis]
        BY <3>1, <3>2 DEF Calm, FreshDisk
      <3>4. Genesis \in Blocks /\ Genesis \in Anc[Genesis]
        BY ChainStateAssumption, AncAssumption
      <3> QED BY <3>1, <3>3, <3>4
    <2> QED BY <2>1, <2>2
  <1>5. CASE Startup
    BY <1>5 DEF Startup, Load, StartupSeesUndone
  <1>6. CASE StartupRebuild \/ StartupReindex \/ StartupReset
    BY <1>6, FreshIsSeen DEF StartupRebuild, StartupReindex, StartupReset, Wipe
  <1>7. CASE UNCHANGED vars
    BY <1>7 DEF StartupSeesUndone, HasIncompleteReorg, UndoIntact, vars, utxoVars, stepVars,
                walVars
  <1> QED
    BY <1>1, <1>2, <1>3, <1>4, <1>5, <1>6, <1>7 DEF Next, Restart, RunningStep

LEMMA InitSeesUndone == Init => StartupSeesUndone
  BY ChainStateAssumption, AncAssumption DEF Init, StartupSeesUndone, FreshDisk

(* The undo check of the startup: after a single crash without I/O failures,   *)
(* when the best chain has passed the last checkpoint, a UTXO set it accepts   *)
(* stands at the best block or above it.                                       *)
THEOREM StartupSeesUndoneHolds == Spec => []StartupSeesUndone
  <1>1. Init => Calm /\ StartupSeesUndone
    BY InitCalm, InitSeesUndone
  <1>2. /\ IInv /\ IInv' /\ Chosen /\ RecordCurrent /\ ValidChain
        /\ Calm /\ StartupSeesUndone /\ [Next]_vars
        => Calm' /\ StartupSeesUndone'
    BY NextCalm, NextSeesUndone
  <1> QED BY <1>1, <1>2, ChosenHolds, ValidHolds, PTL DEF Spec

-----------------------------------------------------------------------------
(* The integrity monitor beside the chain state. *)

(* What the monitor knows between its two locks: a block of the snapshot that  *)
(* has not been disconnected is still under the UTXO set, and the suspect      *)
(* has no record unless it has been disconnected.                              *)
Watched ==
    /\ pc = "down" => mpc = "wait"
    /\ mpc = "wait" => window = {} /\ undone = {}
    /\ window \ undone \subseteq Anc[At]
    /\ mpc = "revalidate" =>
           suspect \in window /\ (suspect \notin undo \/ suspect \in undone)

(* Only ConnectTip writes an undo record, and it writes that of a block on top *)
(* of the UTXO set: none of the blocks below gets its record back.             *)
LEMMA RecordsComeOnTop ==
    ASSUME IInv, Next, pc # "down", pc' # "down"
    PROVE  undo' \cap Anc[At] \subseteq undo
  <1> USE DEF utxoVars
  <1>0. tip \in Blocks /\ target \in Blocks /\ cur \in Blocks
    BY DEF IInv, TypeOK, MemoryTypeOK, StepTypeOK
  <1>1. ASSUME NEW b \in NonGenesis, Parent[b] = At, undo' \subseteq undo \cup {b}
        PROVE  undo' \cap Anc[At] \subseteq undo
    BY <1>1, NotItsAncestor, Zenon
  <1>2. CASE ExtendConnect
    <2>1. target \in NonGenesis /\ Parent[target] = At
      BY <1>0, <1>2 DEF ExtendConnect, IInv, Cursors, At, ReorgPcs, NonGenesis
    <2>2. undo' \subseteq undo \cup {target}
      BY <1>2, ZenonT(40)
      DEF ExtendConnect, ConnectOK, ConnectFails, ConnectInvalid, ConnectUtxoError
    <2> QED BY <1>1, <2>1, <2>2
  <1>3. CASE ReplaceConnect
    <2>1. target \in NonGenesis /\ Parent[target] = At
      BY <1>0, <1>3 DEF ReplaceConnect, IInv, Cursors, At, ReorgPcs, NonGenesis
    <2>2. undo' \subseteq undo \cup {target}
      BY <1>3, ZenonT(40)
      DEF ReplaceConnect, ConnectOK, ConnectFails, ConnectInvalid, ConnectUtxoError
    <2> QED BY <1>1, <2>1, <2>2
  <1>4. CASE ReorgConnect
    <2> DEFINE next == NextTowards(cur, target)
    <2>1. At = cur /\ cur \in Anc[target] /\ cur # target
      BY <1>4, Zenon DEF ReorgConnect, IInv, Cursors, At, ReorgPcs
    <2>2. next \in NonGenesis /\ Parent[next] = At
      BY <1>0, <2>1, NextFacts
    <2>3. undo' \subseteq undo \cup {next}
      BY <1>4, Zenon
      DEF ReorgConnect, ConnectOK, ConnectFails, ConnectInvalid, ConnectUtxoError
    <2> QED BY <1>1, <2>2, <2>3
  <1>5. CASE RollbackConnect
    <2> DEFINE next == NextTowards(cur, tip)
    <2>1. At = cur /\ cur \in Anc[tip] /\ cur # tip
      BY <1>5, Zenon DEF RollbackConnect, IInv, Cursors, At, ReorgPcs
    <2>2. next \in NonGenesis /\ Parent[next] = At
      BY <1>0, <2>1, NextFacts
    <2>3. undo' \subseteq undo \cup {next}
      BY <1>5, ZenonT(40)
      DEF RollbackConnect, ConnectOK, ConnectFails, ConnectInvalid, ConnectUtxoError
    <2> QED BY <1>1, <2>2, <2>3
  <1>6. CASE ReplaceDisconnect \/ ReorgDisconnect \/ RollbackDisconnect \/ RewindDisconnect
    BY <1>6, ZenonT(40)
    DEF ReplaceDisconnect, ReorgDisconnect, RollbackDisconnect, RewindDisconnect,
                DisconnectOK, DisconnectFails, RecordUndoFailure
  <1>7. CASE ReorgEnterDisconnect \/ ReorgUpdateDisconnect \/ ReorgEnterConnect
             \/ ReorgUpdateConnect
    BY <1>7, ZenonT(40) DEF ReorgEnterDisconnect, ReorgUpdateDisconnect, ReorgEnterConnect,
                ReorgUpdateConnect, WalStep
  <1>8. CASE WriteBest \/ ReorgSetTip \/ ReorgWriteBest \/ ReorgComplete \/ RollbackAbort
    BY <1>8, ZenonT(40)
    DEF WriteBest, ReorgSetTip, ReorgWriteBest, ReorgComplete, RollbackAbort
  <1>9. CASE RewindEnter \/ RewindWriteBest \/ RewindUpdate \/ RewindResume
             \/ RewindComplete \/ \E h \in RewindHeights : StartRewind(h)
    BY <1>9, ZenonT(40)
    DEF RewindEnter, RewindWriteBest, RewindUpdate, RewindResume, RewindComplete,
                StartRewind
  <1>10. CASE ExpireGrace \/ \E b \in Blocks : AddBlockIndex(b) \/ ActivateBestChain(b)
    BY <1>10, ZenonT(40)
    DEF ExpireGrace, AddBlockIndex, ActivateBestChain, ExtendTip, ReplaceTip,
                 StartReorg
  <1>11. ~(Crash \/ WipeDies \/ TriggerRebuild \/ Restart)
    BY DEF Crash, WipeDies, TriggerRebuild, Restart, Startup, StartupRebuild,
           StartupReindex, StartupReset, Down
  <1> QED
    BY <1>2, <1>3, <1>4, <1>5, <1>6, <1>7, <1>8, <1>9, <1>10, <1>11
    DEF Next, ActivateStep, RewindStep

LEMMA ChainStepWatched ==
    ASSUME IInv, Watched, ChainStep
    PROVE  IInv' /\ Watched'
  <1>1. IInv'
    BY NextIInv DEF ChainStep
  <1>2. CASE pc' = "down"
    BY <1>1, <1>2 DEF ChainStep, Waiting, Watched
  <1>3. CASE pc' # "down"
    <2>1. /\ mpc' = mpc /\ window' = window /\ suspect' = suspect
          /\ undone' = undone \cup (window \cap (Anc[At] \ Anc[At']))
      BY <1>3 DEF ChainStep
    <2>2. window' \ undone' \subseteq Anc[At']
      BY <2>1 DEF Watched
    <2>3. ASSUME mpc = "revalidate" PROVE suspect \notin undo' \/ suspect \in undone'
      <3>1. CASE suspect \in undone
        BY <2>1, <3>1
      <3>2. CASE suspect \notin undone
        <4>1. suspect \in Anc[At] /\ suspect \notin undo /\ pc # "down"
          BY <2>3, <3>2 DEF Watched
        <4>2. undo' \cap Anc[At] \subseteq undo
          BY <1>3, <4>1, RecordsComeOnTop DEF ChainStep
        <4> QED BY <4>1, <4>2
      <3> QED BY <3>1, <3>2
    <2>4. mpc' = "wait" => window' = {} /\ undone' = {}
      BY <2>1 DEF Watched
    <2> HIDE DEF At
    <2> QED BY <1>1, <1>3, <2>1, <2>2, <2>3, <2>4 DEF Watched
  <1> QED BY <1>2, <1>3

LEMMA MonitorStepWatched ==
    ASSUME IInv, Watched, MonitorStep
    PROVE  IInv' /\ Watched'
  <1> USE DEF walVars, utxoVars, indexVars, graceVars, healthVars, stepVars, rewindVars
  <1>1. CASE TakeSnapshot
    <2>1. IInv'
      BY <1>1, StutterStep DEF TakeSnapshot
    <2>2. At' = tip /\ tip' = tip /\ pc' = "idle"
      BY <1>1 DEF TakeSnapshot, vars, Unlocked, At, ReorgPcs
    <2>3. window' \subseteq Anc[tip] /\ mpc' = "walk"
      BY <1>1 DEF TakeSnapshot
    <2> QED BY <2>1, <2>2, <2>3 DEF Watched
  <1>2. CASE \E b \in window : Walk(b)
    <2> PICK b \in window : Walk(b)
      BY <1>2
    <2>1. IInv'
      BY StutterStep DEF Walk
    <2>2. At' = At
      BY DEF Walk, vars, At
    <2>3. /\ pc' # "down" /\ mpc' = "revalidate" /\ window' = window /\ undone' = undone
          /\ suspect' \in window /\ suspect' \notin undo /\ undo' = undo
      BY DEF Walk, vars
    <2> QED BY <2>1, <2>2, <2>3 DEF Watched
  <1>3. CASE WalkPasses \/ OrphanSkip
    <2>1. IInv'
      BY <1>3, StutterStep DEF WalkPasses, OrphanSkip
    <2> QED BY <1>3, <2>1 DEF WalkPasses, OrphanSkip, Waiting, Watched
  <1>4. CASE Revalidate
    <2>1. /\ pc = "idle" /\ mpc' = "fired" /\ UNCHANGED <<window, undone>>
          /\ UNCHANGED <<bestBlock, utxoVars, walVars, tip, indexVars, graceVars, healthVars,
                         stepVars, rewindVars, crashes, lost>>
      BY <1>4 DEF Revalidate, Unlocked
    <2>2. DiskTypeOK' /\ HistoryTypeOK'
      <3>1. marker' \in BOOLEAN
        BY <1>4, Zenon DEF IInv, TypeOK, DiskTypeOK, Revalidate
      <3>2. faults' = faults \/ (faults < MaxFaults /\ faults' = faults + 1)
        BY <1>4, Zenon DEF Revalidate, Outcome
      <3>3. faults \in 0..MaxFaults /\ MaxFaults \in Nat
        BY ChainStateAssumption DEF IInv, TypeOK, HistoryTypeOK
      <3>4. faults' \in 0..MaxFaults
        BY <3>2, <3>3
      <3> QED BY <2>1, <3>1, <3>4, Zenon DEF IInv, TypeOK, DiskTypeOK, HistoryTypeOK
    <2>3. TypeOK'
      BY <2>1, <2>2 DEF IInv, TypeOK, WalTypeOK, MemoryTypeOK, HealthTypeOK, StepTypeOK
    <2>4. Cursors'
      BY <2>1, Zenon DEF IInv, Cursors
    <2>5. Placed' /\ Recorded'
      BY <2>1, Zenon DEF IInv, Placed, Recorded, At, HasIncompleteReorg
    <2>6. At' = At
      BY <2>1, Zenon DEF At
    <2> QED BY <2>1, <2>3, <2>4, <2>5, <2>6, ZenonT(40) DEF IInv, Watched
  <1>5. CASE Shutdown
    <2>1. /\ pc = "idle" /\ dpc = "none" /\ Down
          /\ UNCHANGED <<bestBlock, utxoVars, marker, walFile, failedValid, failedChild,
                         faults, crashes, lost>>
      BY <1>5 DEF Shutdown, Unlocked
    <2>2. WalTypeOK' /\ DiskTypeOK' /\ MemoryTypeOK'
      BY <2>1, DownType, Zenon
      DEF IInv, TypeOK, WalTypeOK, DiskTypeOK, MemoryTypeOK, ReorgPhase, Down
    <2>3. HistoryTypeOK'
      BY <2>1 DEF IInv, TypeOK, HistoryTypeOK
    <2>4. TypeOK'
      BY <2>1, <2>2, <2>3, DownType DEF TypeOK
    <2>5. Cursors'
      BY <2>1, Zenon DEF Cursors, ReorgPcs, Down
    <2>6. Placed'
      BY <2>1, Zenon DEF IInv, Placed, Down
    <2>7. Recorded'
      BY <2>1, Zenon DEF IInv, Placed, At, Recorded, HasIncompleteReorg, ReorgPcs, Down
    <2>8. Watched'
      BY <1>5 DEF Shutdown, Waiting, Watched
    <2> QED BY <2>4, <2>5, <2>6, <2>7, <2>8 DEF IInv
  <1> QED BY <1>1, <1>2, <1>3, <1>4, <1>5 DEF MonitorStep

LEMMA LoseRecordWatched ==
    ASSUME IInv, Watched, NEW b \in undo, LoseRecord(b)
    PROVE  IInv' /\ Watched'
  <1> USE DEF walVars, utxoVars, indexVars, graceVars, healthVars, stepVars, rewindVars
  <1>1. /\ undo' = undo \ {b} /\ lost' = lost \cup {"lostRecord"}
        /\ UNCHANGED <<bestBlock, utxo, marker, walVars, tip, indexVars, graceVars, healthVars,
                       stepVars, rewindVars, faults, crashes, mpc, window, suspect, undone>>
    BY Zenon DEF LoseRecord, Expose
  <1>2. DiskTypeOK' /\ HistoryTypeOK'
    BY <1>1 DEF IInv, TypeOK, DiskTypeOK, HistoryTypeOK, Exposures
  <1>3. TypeOK'
    BY <1>1, <1>2 DEF IInv, TypeOK, WalTypeOK, MemoryTypeOK, HealthTypeOK, StepTypeOK
  <1>4. Cursors'
    BY <1>1, Zenon DEF IInv, Cursors
  <1>5. Placed' /\ Recorded'
    BY <1>1, ZenonT(40) DEF Placed, Recorded
  <1>6. At' = At
    BY <1>1, ZenonT(40) DEF At
  <1>7. Watched'
    BY <1>1, <1>6, Zenon DEF Watched
  <1> QED BY <1>3, <1>4, <1>5, <1>7 DEF IInv

LEMMA WatchedHolds == MonitorSpec => [](IInv /\ Watched)
  <1>1. MonitorInit => IInv /\ Watched
    BY InitIInv DEF MonitorInit, Watched
  <1>2. IInv /\ Watched /\ [MonitorNext]_mvars => IInv' /\ Watched'
    <2> SUFFICES ASSUME IInv, Watched, [MonitorNext]_mvars PROVE IInv' /\ Watched'
      OBVIOUS
    <2>1. CASE MonitorNext
      BY <2>1, ChainStepWatched, MonitorStepWatched, LoseRecordWatched DEF MonitorNext
    <2>2. CASE UNCHANGED mvars
      <3>1. IInv'
        BY <2>2, StutterStep DEF mvars
      <3>2. At' = At /\ pc' = pc /\ undo' = undo /\ UNCHANGED monitorVars
        BY <2>2 DEF mvars, vars, At, utxoVars, stepVars
      <3> QED BY <3>1, <3>2 DEF Watched, monitorVars
    <2> QED BY <2>1, <2>2
  <1> QED BY <1>1, <1>2, PTL DEF MonitorSpec

(* The alarm of the integrity monitor: RevalidateUnderCsMain writes the marker *)
(* only for a block of the active chain, and only when its record is missing   *)
(* or when the block has been disconnected since the snapshot, for every tree, *)
(* every length of the window, every crash and every failed read or write.     *)
THEOREM AlarmExplainedHolds == MonitorSpec => AlarmExplained
  <1>1. IInv /\ Watched /\ [MonitorNext]_mvars
        => [Fires => /\ suspect \in Anc[tip]
                     /\ suspect \notin undo \/ suspect \in undone]_mvars
    <2> SUFFICES ASSUME Watched, MonitorNext, Fires
                 PROVE  /\ suspect \in Anc[tip]
                        /\ suspect \notin undo \/ suspect \in undone
      OBVIOUS
    <2>1. mpc = "revalidate" /\ mpc' = "fired"
      BY DEF Fires
    <2>2. Revalidate
      BY <2>1, Zenon
      DEF MonitorNext, MonitorStep, ChainStep, Waiting, TakeSnapshot, Walk, WalkPasses,
                  OrphanSkip, Shutdown, LoseRecord
    <2> QED BY <2>1, <2>2, Zenon DEF Revalidate, OnActiveChain, Watched
  <1> QED BY <1>1, WatchedHolds, PTL DEF MonitorSpec, AlarmExplained
=============================================================================
