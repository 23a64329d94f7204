------------------------------ MODULE ChainState ------------------------------
(* CChainState with the stores it writes: the best-block record, the UTXO set  *)
(* with its undo records, and the reorganisation WAL.  A handler that makes    *)
(* several durable writes is a sequence of steps, one per durable write,       *)
(* because the process can die between any two; cs_main keeps two handlers     *)
(* from interleaving except where DisconnectToHeight unlocks it.               *)
(* A completed write survives the death of the process; loss of power is not   *)
(* modelled.                                                                   *)
EXTENDS BlockTree, ReorgWAL

CONSTANTS
    ContextValid,   \* blocks passing the checks ConnectTip always makes
    DfmpValid,      \* blocks passing CheckProofOfWorkDFMP, skipped in a reorg
    MaxReorgDepth,  \* MAX_REORG_DEPTH
    BatchSize,      \* batchSize of DisconnectToHeight
    RewindHeights,  \* the targetHeights DisconnectToHeight is called with
    UtxoFailureThreshold,  \* MAX_UTXO_FAILURES_BEFORE_REBUILD
    UndoFailureThreshold,  \* kPersistentUndoFailureThreshold
    FaultKinds,     \* the I/O operations that may fail
    MaxFaults,      \* bound on I/O failures in a behaviour
    MaxCrashes      \* bound on process deaths in a behaviour

(* The genesis block is compiled in and never goes through ConnectTip;         *)
(* MAX_REORG_DEPTH is 100.                                                     *)
ASSUME ChainStateAssumption ==
    /\ ContextValid \subseteq Blocks /\ Genesis \in ContextValid
    /\ DfmpValid \subseteq Blocks
    /\ MaxReorgDepth \in Nat \ {0}
    /\ MaxFaults \in Nat /\ MaxCrashes \in Nat
    /\ BatchSize \in Nat \ {0}
    /\ UtxoFailureThreshold \in Nat \ {0}
    /\ UndoFailureThreshold \in Nat \ {0}
    /\ RewindHeights \subseteq Nat
    /\ FaultKinds \subseteq {"wal", "apply", "undo", "read", "best", "marker"}

VARIABLES
    \* on disk
    bestBlock,     \* CBlockchainDB best-block record
    utxo,          \* the UTXO database
    undo,          \* blocks that have an undo record
    marker,        \* the auto_rebuild file exists
    \* in memory
    tip,           \* pindexTip
    index,         \* mapBlockIndex
    failedValid,   \* BLOCK_FAILED_VALID, also written to disk
    failedChild,   \* BLOCK_FAILED_CHILD, also written to disk
    graceHeight,   \* m_vdfTipAcceptHeight
    graceOpen,     \* m_vdfTipAcceptTime is within the grace period
    utxoFailures,  \* m_consecutive_utxo_failures
    undoFail,      \* m_lastUndoFailureHash and its consecutive count
    rebuild,       \* m_utxo_needs_rebuild or m_chain_needs_rebuild
    \* where the two handlers are
    pc,            \* ActivateBestChain; "down" when there is no process
    target,        \* pindexNew
    cur,           \* the block the UTXO set has been moved to
    dpc,           \* DisconnectToHeight
    dtarget,       \* targetHeight
    dn,            \* batchCount
    \* history
    faults, crashes,
    lost           \* ways in which crash protection has been given up

utxoVars   == <<utxo, undo>>
indexVars  == <<index, failedValid, failedChild>>
graceVars  == <<graceHeight, graceOpen>>
healthVars == <<utxoFailures, undoFail, rebuild>>
stepVars   == <<pc, target, cur>>
rewindVars == <<dpc, dtarget, dn>>
vars == <<bestBlock, utxoVars, marker, walVars, tip, indexVars, graceVars,
          healthVars, stepVars, rewindVars, faults, crashes, lost>>

NoUndoFail == [hash |-> Genesis, n |-> 0]

(* The steps that hold a Case 3 reorganisation open. *)
ReorgPcs == {"enterDisc", "disc", "updDisc", "conn", "updConn",
             "rbDisc", "rbConn", "reorgBest", "complete"}
ActivatePcs == {"extend", "replDisc", "replConn", "best"} \cup ReorgPcs
RewindPcs == {"none", "enter", "disc", "best", "upd", "gap", "final", "complete"}

(* The block whose UTXO set is on disk, unless a rollback has failed. *)
At == IF pc \in ReorgPcs THEN cur ELSE IF pc = "replConn" THEN Parent[tip] ELSE tip

Exposures == {"bestWindow", "replaceWindow", "tornWal", "walFault", "bestFault",
              "rollbackFailed", "replaceFailed", "rewindFailed", "resetWindow",
              "lostRecord"}

DiskTypeOK ==
    /\ bestBlock \in Blocks
    /\ utxo \subseteq Outpoints
    /\ undo \subseteq Blocks
    /\ marker \in BOOLEAN

MemoryTypeOK ==
    /\ tip \in Blocks
    /\ index \subseteq Blocks
    /\ failedValid \subseteq Blocks
    /\ failedChild \subseteq Blocks
    /\ graceHeight \in Nat \cup {-1}
    /\ graceOpen \in BOOLEAN

HealthTypeOK ==
    /\ utxoFailures \in 0..UtxoFailureThreshold
    /\ undoFail \in [hash : Blocks, n : 0..UndoFailureThreshold]
    /\ rebuild \in BOOLEAN

StepTypeOK ==
    /\ pc \in {"down", "idle"} \cup ActivatePcs
    /\ target \in Blocks
    /\ cur \in Blocks
    /\ dpc \in RewindPcs
    /\ dtarget \in Nat
    /\ dn \in 0..BatchSize

HistoryTypeOK ==
    /\ faults \in 0..MaxFaults
    /\ crashes \in 0..MaxCrashes
    /\ lost \subseteq Exposures

(* Every variable has its type; the batch counter, the failure counters and    *)
(* the budgets stay within their limits.                                       *)
TypeOK ==
    /\ WalTypeOK
    /\ DiskTypeOK
    /\ MemoryTypeOK
    /\ HealthTypeOK
    /\ StepTypeOK
    /\ HistoryTypeOK

(* A data directory just created or wiped: startup connects the genesis block. *)
FreshDisk(best, u, un) ==
    best = Genesis /\ u = UtxoAt[Genesis] /\ un = {Genesis}

Init ==
    /\ FreshDisk(bestBlock, utxo, undo)
    /\ WalInit
    /\ marker = FALSE
    /\ tip = Genesis
    /\ index = {Genesis}
    /\ failedValid = {} /\ failedChild = {}
    /\ graceHeight = -1 /\ graceOpen = FALSE
    /\ utxoFailures = 0 /\ undoFail = NoUndoFail /\ rebuild = FALSE
    /\ pc = "idle" /\ target = Genesis /\ cur = Genesis
    /\ dpc = "none" /\ dtarget = 0 /\ dn = 0
    /\ faults = 0 /\ crashes = 0
    /\ lost = {}

(* An I/O operation of the given kind succeeds, or fails within the bound. *)
Outcome(kind, ok) ==
    IF ok THEN UNCHANGED faults
          ELSE /\ kind \in FaultKinds
               /\ faults < MaxFaults
               /\ faults' = faults + 1

Expose(how) == lost' = lost \cup how

-----------------------------------------------------------------------------
(* ConnectTip(b): consensus checks, then CUTXOSet::ApplyBlock in one batch.    *)

PassesChecks_ReorgSkipsAll(b, skipValidation) ==
    skipValidation \/ b \in ContextValid \cap DfmpValid

PassesChecks(b, skipValidation) ==
    b \in ContextValid /\ (skipValidation \/ b \in DfmpValid)

ConnectOK(b, skipValidation) ==
    /\ PassesChecks(b, skipValidation)
    /\ Spends[b] \subseteq utxo
    /\ utxo' = (utxo \ Spends[b]) \cup Creates[b]
    /\ undo' = undo \cup {b}
    /\ utxoFailures' = 0
    /\ UNCHANGED <<failedValid, undoFail, rebuild, faults>>

(* A failed check marks the block.  "flag" says that the caller reacts to the  *)
(* failure with FlagChainRebuild.                                              *)
ConnectInvalid(b, skipValidation, flag) ==
    /\ ~PassesChecks(b, skipValidation)
    /\ failedValid' = failedValid \cup {b}
    /\ rebuild' = (rebuild \/ flag)
    /\ UNCHANGED <<utxoVars, utxoFailures, undoFail, faults>>

(* A missing input or a failed batch does not: it counts towards a rebuild. *)
ConnectUtxoError(b, skipValidation, flag) ==
    /\ PassesChecks(b, skipValidation)
    /\ \/ ~(Spends[b] \subseteq utxo) /\ UNCHANGED faults
       \/ Outcome("apply", FALSE)
    /\ utxoFailures' = IF utxoFailures < UtxoFailureThreshold
                       THEN utxoFailures + 1 ELSE utxoFailures
    /\ rebuild' = (rebuild \/ flag \/ utxoFailures' = UtxoFailureThreshold)
    /\ UNCHANGED <<utxoVars, failedValid, undoFail>>

ConnectFails(b, skipValidation, flag) ==
    \/ ConnectInvalid(b, skipValidation, flag)
    \/ ConnectUtxoError(b, skipValidation, flag)

(* DisconnectTip(b): CUTXOSet::UndoBlock in one batch.  Without an undo record *)
(* only a block that spends nothing can be undone.                             *)
DisconnectOK_KeepsOutputs(b) ==
    /\ b \in undo \/ Spends[b] = {}
    /\ utxo' = utxo \cup (IF b \in undo THEN Spends[b] ELSE {})
    /\ undo' = undo \ {b}
    /\ undoFail' = NoUndoFail
    /\ UNCHANGED <<utxoFailures, rebuild, faults>>

DisconnectOK(b) ==
    /\ b \in undo \/ Spends[b] = {}
    /\ utxo' = (utxo \ Creates[b]) \cup (IF b \in undo THEN Spends[b] ELSE {})
    /\ undo' = undo \ {b}
    /\ undoFail' = NoUndoFail
    /\ UNCHANGED <<utxoFailures, rebuild, faults>>

(* RecordUndoFailure counts consecutive failures on one block. *)
RecordUndoFailure(b) ==
    /\ undoFail' =
           [hash |-> b,
            n |-> IF undoFail.hash # b THEN 1
                  ELSE IF undoFail.n < UndoFailureThreshold THEN undoFail.n + 1
                  ELSE undoFail.n]
    /\ rebuild' = (rebuild \/ undoFail'.n = UndoFailureThreshold)
    /\ UNCHANGED <<utxoVars, utxoFailures>>

DisconnectFails(b) ==
    \/ /\ Outcome("read", FALSE)
       /\ UNCHANGED <<utxoVars, healthVars>>
    \/ /\ \/ b \notin undo /\ Spends[b] # {} /\ UNCHANGED faults
          \/ Outcome("undo", FALSE)
       /\ RecordUndoFailure(b)

-----------------------------------------------------------------------------
(* ActivateBestChain(b), legacy path, called for a block of the index.         *)

(* cs_main is free. *)
Unlocked == pc = "idle" /\ dpc \in {"none", "gap"}

CheckpointsAllow_OwnHeightOnly(b) ==
    \A c \in Checkpoints : Height[c] = Height[b] => c = b

CheckpointsAllow(b) == CheckpointTiers(tip, b)

(* Case 2: the block extends the tip. *)
ExtendTip(b) ==
    /\ Unlocked
    /\ b \in index \ {Genesis}
    /\ CheckpointsAllow(b)
    /\ Parent[b] = tip
    /\ ChainWork[b] > ChainWork[tip]
    /\ pc' = "extend" /\ target' = b
    /\ UNCHANGED <<bestBlock, utxoVars, marker, walVars, tip, indexVars, graceVars,
                   healthVars, cur, rewindVars, faults, crashes, lost>>

LowerVdf(b) == VdfOutput[b] > 0 /\ VdfOutput[tip] > 0 /\ VdfOutput[b] < VdfOutput[tip]

(* ShouldReplaceVDFTip: a sibling with a lower VDF output, in the grace period. *)
ShouldReplaceVDFTip(b) ==
    /\ b # Genesis /\ tip # Genesis
    /\ Parent[b] = Parent[tip]
    /\ LowerVdf(b)
    /\ graceHeight = Height[tip] /\ graceOpen

(* Case 2.5: replace the tip by a sibling. *)
ReplaceTip(b) ==
    /\ Unlocked
    /\ b \in index \ {Genesis}
    /\ CheckpointsAllow(b)
    /\ Parent[b] # tip
    /\ ShouldReplaceVDFTip(b)
    /\ pc' = "replDisc" /\ target' = b
    /\ UNCHANGED <<bestBlock, utxoVars, marker, walVars, tip, indexVars, graceVars,
                   healthVars, cur, rewindVars, faults, crashes, lost>>

(* The comparison of Case 3.  The grace period binds only when it was anchored *)
(* at the tip's height.                                                        *)
BetterChain_OrEqual(b) ==
    \/ ChainWork[b] >= ChainWork[tip]
    \/ /\ Height[b] = Height[tip]
       /\ LowerVdf(b)
       /\ graceHeight = Height[tip] => graceOpen

BetterChain(b) ==
    \/ ChainWork[b] > ChainWork[tip]
    \/ /\ Height[b] = Height[tip]
       /\ LowerVdf(b)
       /\ graceHeight = Height[tip] => graceOpen

ReorgAllowed_OneDeeper(b) ==
    LET fork == FindFork(tip, b) IN
    /\ Height[tip] - Height[fork] <= MaxReorgDepth + 1
    /\ Height[fork] >= LastCheckpoint(Height[tip])
    /\ (Anc[b] \ Anc[fork]) \cap (failedValid \cup failedChild) = {}

ReorgAllowed(b) ==
    LET fork == FindFork(tip, b) IN
    /\ Height[tip] - Height[fork] <= MaxReorgDepth
    /\ Height[fork] >= LastCheckpoint(Height[tip])
    /\ (Anc[b] \ Anc[fork]) \cap (failedValid \cup failedChild) = {}

(* Case 3: a competing chain.  BeginReorg writes the WAL; when it cannot, the  *)
(* reorg is given up with m_active left set.                                   *)
StartReorg(b) ==
    /\ Unlocked
    /\ b \in index \ {Genesis}
    /\ CheckpointsAllow(b)
    /\ Parent[b] # tip
    /\ ~ShouldReplaceVDFTip(b)
    /\ BetterChain(b)
    /\ ReorgAllowed(b)
    /\ \E ok \in BOOLEAN :
           /\ BeginReorg(ok)
           /\ Outcome("wal", ok)
           /\ IF ok THEN pc' = "enterDisc" /\ target' = b /\ cur' = tip
                    ELSE UNCHANGED stepVars
    /\ UNCHANGED <<bestBlock, utxoVars, marker, tip, indexVars, graceVars, healthVars,
                   rewindVars, crashes, lost>>

-----------------------------------------------------------------------------
(* The steps of the three cases. *)

Return == pc' = "idle" /\ target' = Genesis /\ cur' = Genesis

(* Case 2, ConnectTip; only this case anchors the grace period. *)
ExtendConnect ==
    /\ pc = "extend"
    /\ \/ /\ ConnectOK(target, FALSE)
          /\ tip' = target
          /\ IF VdfOutput[target] > 0
             THEN graceHeight' = Height[target] /\ graceOpen' = TRUE
             ELSE UNCHANGED graceVars
          /\ pc' = "best"
          /\ UNCHANGED <<target, cur>>
       \/ /\ ConnectFails(target, FALSE, FALSE)
          /\ Return
          /\ UNCHANGED <<tip, graceVars>>
    /\ UNCHANGED <<bestBlock, marker, walVars, index, failedChild, rewindVars, crashes,
                   lost>>

(* Case 2.5, DisconnectTip of the old tip: no WAL. *)
ReplaceDisconnect ==
    /\ pc = "replDisc"
    /\ \/ DisconnectOK(tip) /\ pc' = "replConn" /\ UNCHANGED <<target, cur>>
       \/ DisconnectFails(tip) /\ Return
    /\ UNCHANGED <<bestBlock, marker, walVars, tip, indexVars, graceVars, rewindVars,
                   crashes, lost>>

(* Case 2.5, ConnectTip of the new one; a failure leaves pindexTip at the      *)
(* block just disconnected and flags a rebuild.                                *)
ReplaceConnect ==
    /\ pc = "replConn"
    /\ \/ /\ ConnectOK(target, FALSE)
          /\ tip' = target
          /\ pc' = "best"
          /\ UNCHANGED <<target, cur, lost>>
       \/ /\ ConnectFails(target, FALSE, TRUE)
          /\ Expose({"replaceFailed"})
          /\ Return
          /\ UNCHANGED tip
    /\ UNCHANGED <<bestBlock, marker, walVars, index, failedChild, graceVars,
                   rewindVars, crashes>>

(* WriteBestBlock of Cases 2 and 2.5; its result is not looked at. *)
WriteBest ==
    /\ pc = "best"
    /\ \E ok \in BOOLEAN :
           /\ Outcome("best", ok)
           /\ bestBlock' = IF ok THEN tip ELSE bestBlock
           /\ Expose(IF ok THEN {} ELSE {"bestFault"})
    /\ Return
    /\ UNCHANGED <<utxoVars, marker, walVars, tip, indexVars, graceVars, healthVars,
                   rewindVars, crashes>>

(* Case 3.  The results of the WAL's phase changes and updates are not looked  *)
(* at either.                                                                  *)
WalStep(Write(_), next) ==
    /\ \E ok \in BOOLEAN :
           /\ Write(ok)
           /\ Outcome("wal", ok)
           /\ Expose(IF ok THEN {} ELSE {"walFault"})
    /\ pc' = next
    /\ UNCHANGED <<bestBlock, utxoVars, marker, tip, indexVars, graceVars, healthVars,
                   target, cur, rewindVars, crashes>>

ReorgEnterDisconnect == pc = "enterDisc" /\ WalStep(EnterDisconnectPhase, "disc")

ReorgDisconnect ==
    /\ pc = "disc"
    /\ cur # FindFork(tip, target)
    /\ \/ DisconnectOK(cur) /\ cur' = Parent[cur] /\ pc' = "updDisc"
       \/ DisconnectFails(cur) /\ pc' = "rbConn" /\ UNCHANGED cur
    /\ UNCHANGED <<bestBlock, marker, walVars, tip, indexVars, graceVars, target,
                   rewindVars, crashes, lost>>

ReorgUpdateDisconnect == pc = "updDisc" /\ WalStep(UpdateDisconnectProgress, "disc")

ReorgEnterConnect ==
    /\ pc = "disc"
    /\ cur = FindFork(tip, target)
    /\ WalStep(EnterConnectPhase, "conn")

(* ConnectTip of the next block.  When the block cannot be read the reorg is   *)
(* rolled back; when it does not connect the blocks above it are marked        *)
(* BLOCK_FAILED_CHILD as well.                                                 *)
ReorgConnect ==
    /\ pc = "conn"
    /\ cur # target
    /\ LET next == NextTowards(cur, target) IN
       \/ /\ ConnectOK(next, TRUE)
          /\ cur' = next /\ pc' = "updConn"
          /\ UNCHANGED failedChild
       \/ /\ next # target
          /\ Outcome("read", FALSE)
          /\ pc' = "rbDisc"
          /\ UNCHANGED <<cur, utxoVars, healthVars, failedValid, failedChild>>
       \/ /\ ConnectFails(next, TRUE, FALSE)
          /\ failedChild' = failedChild \cup (Anc[target] \ Anc[next])
          /\ pc' = "rbDisc"
          /\ UNCHANGED cur
    /\ UNCHANGED <<bestBlock, marker, walVars, tip, index, graceVars, target,
                   rewindVars, crashes, lost>>

ReorgUpdateConnect == pc = "updConn" /\ WalStep(UpdateConnectProgress, "conn")

ReorgSetTip ==
    /\ pc = "conn"
    /\ cur = target
    /\ tip' = target
    /\ pc' = "reorgBest"
    /\ UNCHANGED <<bestBlock, utxoVars, marker, walVars, indexVars, graceVars,
                   healthVars, target, cur, rewindVars, faults, crashes, lost>>

ReorgWriteBest ==
    /\ pc = "reorgBest"
    /\ \E ok \in BOOLEAN :
           /\ Outcome("best", ok)
           /\ bestBlock' = IF ok THEN tip ELSE bestBlock
           /\ Expose(IF ok THEN {} ELSE {"bestFault"})
    /\ pc' = "complete"
    /\ UNCHANGED <<utxoVars, marker, walVars, tip, indexVars, graceVars, healthVars,
                   target, cur, rewindVars, crashes>>

ReorgComplete ==
    /\ pc = "complete"
    /\ \E ok \in BOOLEAN : CompleteReorg(ok) /\ Outcome("wal", ok)
    /\ Return
    /\ UNCHANGED <<bestBlock, utxoVars, marker, tip, indexVars, graceVars, healthVars,
                   rewindVars, crashes, lost>>

(* Rollback, second half of the reorg undone: DisconnectTip of the blocks      *)
(* connected so far.                                                           *)
RollbackDisconnect ==
    /\ pc = "rbDisc"
    /\ \/ /\ cur # FindFork(tip, target)
          /\ DisconnectOK(cur)
          /\ cur' = Parent[cur]
          /\ UNCHANGED <<pc, target, walVars, lost>>
       \/ /\ cur # FindFork(tip, target)
          /\ DisconnectFails(cur)
          /\ AbortReorg(TRUE)
          /\ Expose({"rollbackFailed"})
          /\ Return
       \/ /\ cur = FindFork(tip, target)
          /\ pc' = "rbConn"
          /\ UNCHANGED <<utxoVars, healthVars, faults, target, cur, walVars, lost>>
    /\ UNCHANGED <<bestBlock, marker, tip, indexVars, graceVars, rewindVars, crashes>>

(* Rollback, first half undone: ConnectTip of the old chain's blocks, then     *)
(* AbortReorg.                                                                 *)
RollbackConnect ==
    /\ pc = "rbConn"
    /\ cur # tip
    /\ LET next == NextTowards(cur, tip) IN
       \/ /\ ConnectOK(next, TRUE)
          /\ cur' = next
          /\ UNCHANGED <<pc, target, walVars, lost>>
       \/ /\ \/ ConnectFails(next, TRUE, FALSE)
             \/ Outcome("read", FALSE) /\ UNCHANGED <<utxoVars, healthVars, failedValid>>
          /\ AbortReorg(TRUE)
          /\ Expose({"rollbackFailed"})
          /\ Return
    /\ UNCHANGED <<bestBlock, marker, tip, index, failedChild, graceVars, rewindVars,
                   crashes>>

RollbackAbort_Early ==
    /\ pc = "rbConn"
    /\ \E ok \in BOOLEAN : AbortReorg(ok) /\ Outcome("wal", ok)
    /\ Return
    /\ UNCHANGED <<bestBlock, utxoVars, marker, tip, indexVars, graceVars, healthVars,
                   rewindVars, crashes, lost>>

RollbackAbort_NoReturn ==
    /\ pc = "rbConn"
    /\ cur = tip
    /\ \E ok \in BOOLEAN : AbortReorg(ok) /\ Outcome("wal", ok)
    /\ UNCHANGED <<bestBlock, utxoVars, marker, tip, indexVars, graceVars, healthVars,
                   stepVars, rewindVars, crashes, lost>>

RollbackAbort ==
    /\ pc = "rbConn"
    /\ cur = tip
    /\ \E ok \in BOOLEAN : AbortReorg(ok) /\ Outcome("wal", ok)
    /\ Return
    /\ UNCHANGED <<bestBlock, utxoVars, marker, tip, indexVars, graceVars, healthVars,
                   rewindVars, crashes, lost>>

-----------------------------------------------------------------------------
(* DisconnectToHeight(h): rewind the tip, in batches with cs_main released     *)
(* between them.                                                               *)

RewindFrame == UNCHANGED <<marker, indexVars, graceVars, stepVars, crashes>>

(* BeginReorg's result is not looked at: a refusal leaves the old record. *)
StartRewind(h) ==
    /\ Unlocked /\ dpc = "none"
    /\ Height[tip] > h
    /\ h >= LastCheckpoint(Height[tip])
    /\ dpc' = "enter" /\ dtarget' = h /\ dn' = 0
    /\ \/ walActive /\ UNCHANGED <<walVars, faults>>
       \/ \E ok \in BOOLEAN : BeginReorg(ok) /\ Outcome("wal", ok)
    /\ RewindFrame
    /\ UNCHANGED <<bestBlock, utxoVars, tip, healthVars, lost>>

RewindEnter ==
    /\ dpc = "enter"
    /\ \E ok \in BOOLEAN :
           /\ EnterDisconnectPhase(ok)
           /\ Outcome("wal", ok)
           /\ Expose(IF ok THEN {} ELSE {"walFault"})
    /\ dpc' = "disc"
    /\ RewindFrame
    /\ UNCHANGED <<bestBlock, utxoVars, tip, healthVars, dtarget, dn>>

BatchDone_NoLimit(height, n) == height <= dtarget

(* The inner loop of DisconnectToHeight ends. *)
BatchDone(height, n) == height <= dtarget \/ n = BatchSize

(* A failed DisconnectTip aborts without recording the blocks of the batch     *)
(* already rewound.                                                            *)
RewindDisconnect ==
    /\ dpc = "disc"
    /\ \/ /\ DisconnectOK(tip)
          /\ tip' = Parent[tip]
          /\ dn' = dn + 1
          /\ dpc' = IF BatchDone(Height[tip'], dn') THEN "best" ELSE "disc"
          /\ UNCHANGED <<dtarget, walVars, lost>>
       \/ /\ DisconnectFails(tip)
          /\ AbortReorg(TRUE)
          /\ Expose(IF dn > 0 THEN {"rewindFailed"} ELSE {})
          /\ dpc' = "none" /\ dtarget' = 0 /\ dn' = 0
          /\ UNCHANGED tip
    /\ RewindFrame
    /\ UNCHANGED bestBlock

RewindWriteBest ==
    /\ dpc \in {"best", "final"}
    /\ \E ok \in BOOLEAN :
           /\ Outcome("best", ok)
           /\ bestBlock' = IF ok THEN tip ELSE bestBlock
           /\ Expose(IF ok THEN {} ELSE {"bestFault"})
    /\ dpc' = IF dpc = "best" THEN "upd" ELSE "complete"
    /\ dn' = 0
    /\ RewindFrame
    /\ UNCHANGED <<utxoVars, walVars, tip, healthVars, dtarget>>

RewindUpdate ==
    /\ dpc = "upd"
    /\ \E ok \in BOOLEAN :
           /\ UpdateDisconnectProgress(ok)
           /\ Outcome("wal", ok)
           /\ Expose(IF ok THEN {} ELSE {"walFault"})
    /\ dpc' = IF Height[tip] > dtarget THEN "gap" ELSE "final"
    /\ RewindFrame
    /\ UNCHANGED <<bestBlock, utxoVars, tip, healthVars, dtarget, dn>>

(* cs_main is taken again, whatever the tip is by now. *)
RewindResume ==
    /\ dpc = "gap" /\ pc = "idle"
    /\ dpc' = IF Height[tip] > dtarget THEN "disc" ELSE "final"
    /\ RewindFrame
    /\ UNCHANGED <<bestBlock, utxoVars, walVars, tip, healthVars, dtarget, dn, faults,
                   lost>>

RewindComplete ==
    /\ dpc = "complete"
    /\ \E ok \in BOOLEAN : CompleteReorg(ok) /\ Outcome("wal", ok)
    /\ dpc' = "none" /\ dtarget' = 0 /\ dn' = 0
    /\ RewindFrame
    /\ UNCHANGED <<bestBlock, utxoVars, tip, healthVars, lost>>

-----------------------------------------------------------------------------
(* Blocks arriving, time passing, death and restart of the process.            *)

(* AddBlockIndex: a block is linked under a parent that is already indexed. *)
AddBlockIndex(b) ==
    /\ Unlocked
    /\ b \in NonGenesis \ index
    /\ Parent[b] \in index
    /\ index' = index \cup {b}
    /\ UNCHANGED <<bestBlock, utxoVars, marker, walVars, tip, failedValid, failedChild,
                   graceVars, healthVars, stepVars, rewindVars, faults, crashes, lost>>

ExpireGrace ==
    /\ pc = "idle" /\ graceOpen
    /\ graceOpen' = FALSE
    /\ UNCHANGED <<bestBlock, utxoVars, marker, walVars, tip, indexVars, graceHeight,
                   healthVars, stepVars, rewindVars, faults, crashes, lost>>

(* Memory is gone. *)
Down ==
    /\ pc' = "down" /\ target' = Genesis /\ cur' = Genesis
    /\ dpc' = "none" /\ dtarget' = 0 /\ dn' = 0
    /\ walActive' = FALSE /\ walPhase' = "INITIALIZED"
    /\ tip' = Genesis /\ index' = {Genesis}
    /\ graceHeight' = -1 /\ graceOpen' = FALSE
    /\ utxoFailures' = 0 /\ undoFail' = NoUndoFail /\ rebuild' = FALSE

InWriteWAL == pc \in {"enterDisc", "disc", "updDisc", "updConn"} \/ dpc \in {"enter", "upd"}

(* The process dies between two durable writes, or inside WriteWAL. *)
Crash ==
    /\ pc # "down"
    /\ crashes < MaxCrashes
    /\ crashes' = crashes + 1
    /\ Down
    /\ \/ /\ UNCHANGED walFile
          /\ Expose(IF pc = "best" THEN {"bestWindow"}
                    ELSE IF pc = "replConn" THEN {"replaceWindow"} ELSE {})
       \/ /\ InWriteWAL
          /\ CrashInWriteWAL
          /\ Expose(IF pc \in {"disc", "updDisc", "updConn"} THEN {"tornWal"} ELSE {})
    /\ UNCHANGED <<bestBlock, utxoVars, marker, failedValid, failedChild, faults>>

(* MaybeTriggerChainRebuild, polled by the main loop: write the marker, stop.  *)
(* The node stops even when the marker could not be written.                   *)
TriggerRebuild ==
    /\ Unlocked /\ dpc = "none"
    /\ rebuild
    /\ \E ok \in BOOLEAN : Outcome("marker", ok) /\ marker' = (marker \/ ok)
    /\ Down
    /\ UNCHANGED <<bestBlock, utxoVars, walFile, failedValid, failedChild, crashes, lost>>

Wipe_KeepsChainstate ==
    /\ bestBlock' = Genesis
    /\ failedValid' = {} /\ failedChild' = {}
    /\ lost' = {}
    /\ UNCHANGED utxoVars

(* Removal of blocks/ and chainstate/. *)
Wipe ==
    /\ FreshDisk(bestBlock', utxo', undo')
    /\ failedValid' = {} /\ failedChild' = {}
    /\ lost' = {}

UndoIntact_SkipsTip ==
    \/ Checkpoints = {}
    \/ \A b \in Anc[bestBlock] \ (undo \cup {bestBlock}) :
           \E c \in Checkpoints : Height[b] <= Height[c]

(* The startup undo check covers the blocks above the highest checkpoint. *)
UndoIntact ==
    \/ Checkpoints = {}
    \/ \A b \in Anc[bestBlock] \ undo :
           \E c \in Checkpoints : Height[b] <= Height[c]

Load ==
    /\ tip' = bestBlock
    /\ index' = Anc[bestBlock]
    /\ failedValid' = failedValid \cap Anc[bestBlock]
    /\ failedChild' = failedChild \cap Anc[bestBlock]
    /\ pc' = "idle"

StartupFrame == UNCHANGED <<graceVars, healthVars, target, cur, rewindVars, faults, crashes>>

(* Startup with nothing to repair, or with undo records found missing: then    *)
(* the marker is written and the process exits.                                *)
Startup ==
    /\ pc = "down"
    /\ ~marker
    /\ ~HasIncompleteReorg
    /\ \/ UndoIntact /\ Load /\ Construct /\ UNCHANGED marker
       \/ /\ ~UndoIntact
          /\ marker' = TRUE
          /\ walFile' = IF walFile = "torn" THEN "absent" ELSE walFile
          /\ UNCHANGED <<tip, indexVars, pc, walActive, walPhase>>
    /\ StartupFrame
    /\ UNCHANGED <<bestBlock, utxoVars, lost>>

(* Startup with the marker: ResetChainState removes the chain and the WAL; the *)
(* marker is removed last.                                                     *)
StartupRebuild ==
    /\ pc = "down"
    /\ marker
    /\ Wipe
    /\ marker' = FALSE
    /\ walFile' = "absent"
    /\ StartupFrame
    /\ UNCHANGED <<tip, index, pc, walActive, walPhase>>

(* Startup with --reindex after an incomplete reorg: the databases are removed *)
(* but wal/ is a directory that is not empty, std::remove leaves it, the       *)
(* incomplete reorg is found again and the process exits.                      *)
StartupReindex ==
    /\ pc = "down"
    /\ ~marker
    /\ HasIncompleteReorg
    /\ Wipe
    /\ StartupFrame
    /\ UNCHANGED <<marker, walVars, tip, index, pc>>

(* Startup with --reset-chain. *)
StartupReset ==
    /\ pc = "down"
    /\ Wipe
    /\ marker' = FALSE
    /\ walFile' = "absent"
    /\ StartupFrame
    /\ UNCHANGED <<tip, index, pc, walActive, walPhase>>

WipeDies_MarkerFirst ==
    /\ pc = "down"
    /\ crashes < MaxCrashes
    /\ crashes' = crashes + 1
    /\ bestBlock' = Genesis
    /\ failedValid' = {} /\ failedChild' = {}
    /\ marker' = FALSE
    /\ UNCHANGED <<utxoVars, walVars, tip, index, graceVars, healthVars, stepVars, rewindVars,
                   faults, lost>>

(* The process dies inside ResetChainState, called for the marker or for       *)
(* --reset-chain, or inside the removals of --reindex: blocks/ is gone, or     *)
(* chainstate/ too, or wal/ too, but not yet the marker.  Only --reset-chain   *)
(* may find neither the marker nor an incomplete reorg to start over from.     *)
WipeDies ==
    /\ pc = "down"
    /\ crashes < MaxCrashes
    /\ crashes' = crashes + 1
    /\ \/ /\ bestBlock' = Genesis
          /\ failedValid' = {} /\ failedChild' = {}
          /\ Expose(IF marker \/ HasIncompleteReorg THEN {} ELSE {"resetWindow"})
          /\ UNCHANGED <<utxoVars, walFile>>
       \/ Wipe /\ UNCHANGED walFile
       \/ Wipe /\ walFile' = "absent"
    /\ UNCHANGED <<marker, walActive, walPhase, tip, index, graceVars, healthVars, stepVars,
                   rewindVars, faults>>

-----------------------------------------------------------------------------
ActivateBestChain(b) == ExtendTip(b) \/ ReplaceTip(b) \/ StartReorg(b)

ActivateStep ==
    \/ ExtendConnect \/ ReplaceDisconnect \/ ReplaceConnect \/ WriteBest
    \/ ReorgEnterDisconnect \/ ReorgDisconnect \/ ReorgUpdateDisconnect
    \/ ReorgEnterConnect \/ ReorgConnect \/ ReorgUpdateConnect
    \/ ReorgSetTip \/ ReorgWriteBest \/ ReorgComplete
    \/ RollbackDisconnect \/ RollbackConnect \/ RollbackAbort

RewindStep ==
    \/ RewindEnter \/ RewindDisconnect \/ RewindWriteBest
    \/ RewindUpdate \/ RewindResume \/ RewindComplete

Restart == Startup \/ StartupRebuild \/ StartupReindex \/ StartupReset

Next ==
    \/ \E b \in Blocks : AddBlockIndex(b) \/ ActivateBestChain(b)
    \/ \E h \in RewindHeights : StartRewind(h)
    \/ ActivateStep
    \/ RewindStep
    \/ ExpireGrace
    \/ Crash
    \/ WipeDies
    \/ TriggerRebuild
    \/ Restart

Spec == Init /\ [][Next]_vars

-----------------------------------------------------------------------------
(* Safety.                                                                     *)

(* The write-ahead rule of the WAL and of the order of writes in               *)
(* ActivateBestChain and DisconnectToHeight: whenever the UTXO set on disk is  *)
(* not the one of the best block on disk, a restart is told so by the WAL or   *)
(* the marker, or the node is in one of the two windows that have no WAL (the  *)
(* UTXO batch of Cases 2 and 2.5 is written and WriteBestBlock is next).       *)
WriteAhead ==
    lost = {} =>
        \/ utxo = UtxoAt[bestBlock] /\ undo = Anc[bestBlock]
        \/ HasIncompleteReorg
        \/ marker
        \/ pc \in {"replConn", "best"}

(* Whenever cs_main is free, the tip, the best-block record, the UTXO set and  *)
(* the undo records describe one chain, whatever reorganisations, failed       *)
(* reorganisations with their rollback, tip replacements, rewinds interleaved  *)
(* with other handlers, crashes and restarts came before.                      *)
Consistent ==
    lost = {} /\ Unlocked =>
        /\ bestBlock = tip
        /\ utxo = UtxoAt[tip]
        /\ undo = Anc[tip]

(* No path of ActivateBestChain, including the tiers that look only at some    *)
(* checkpoints, brings the tip onto a chain that contradicts a checkpoint.     *)
CheckpointsHeld ==
    pc # "down" =>
        \A c \in Checkpoints : Height[tip] >= Height[c] => c \in Anc[tip]

(* A best-block record was not written when it was due, so that a restart may  *)
(* go back to a chain the tip has left.                                        *)
StaleRecord == lost \cap {"bestFault", "rewindFailed"} # {}

(* A block that fails a check ConnectTip always makes is never part of the     *)
(* active chain, whichever of the three cases connected it, and across         *)
(* restarts; nor is a block marked BLOCK_FAILED_VALID.  The exception to the   *)
(* second half: a block that only the DFMP check refuses, connected by a       *)
(* reorg, rewound, then offered again and marked, returns with a best-block    *)
(* record that still names it.                                                 *)
NoInvalidInChain ==
    pc # "down" =>
        /\ Anc[tip] \subseteq ContextValid
        /\ ~StaleRecord => Anc[tip] \cap failedValid = {}

(* What the startup undo check lets through after one crash without I/O        *)
(* failures, when the best chain has passed the highest checkpoint: a UTXO set *)
(* that stands at the best block or at a descendant of it.  A crash that had   *)
(* undone a block of the best chain is always noticed, even where the WAL was  *)
(* torn or not written.  Left out is the block a failed replacement of the tip *)
(* had undone before: once a checkpoint lies above it the check passes it by.  *)
StartupSeesUndone ==
    /\ pc = "down" /\ ~marker /\ ~HasIncompleteReorg /\ UndoIntact
    /\ crashes <= 1 /\ faults = 0 /\ "replaceFailed" \notin lost
    /\ Checkpoints # {}
    /\ \A c \in Checkpoints : Height[c] <= Height[bestBlock]
    => \E d \in Blocks : bestBlock \in Anc[d] /\ utxo = UtxoAt[d]

(* Action properties: what a call of ActivateBestChain may do to the tip.      *)

Activated == pc \in ActivatePcs /\ pc' # "down" /\ tip' # tip

Improves(t, b) ==
    \/ ChainWork[b] > ChainWork[t]
    \/ /\ ChainWork[b] = ChainWork[t]
       /\ Height[b] = Height[t]
       /\ VdfOutput[b] < VdfOutput[t]

GivesUpLittle(t, b) ==
    /\ Height[t] - Height[FindFork(t, b)] <= MaxReorgDepth
    /\ (Anc[t] \ Anc[b]) \cap Checkpoints = {}

(* ActivateBestChain moves the tip only to more work, or at equal work and     *)
(* equal height to a lower VDF output, so no sequence of calls can cycle.      *)
TipImproves == [][Activated => Improves(tip, tip')]_vars

(* ActivateBestChain never gives up more than MAX_REORG_DEPTH blocks of the    *)
(* active chain, nor a checkpoint.                                             *)
ReorgBounded == [][Activated => GivesUpLittle(tip, tip')]_vars

-----------------------------------------------------------------------------
(* Liveness.  Handlers run to the end once started; the main loop polls the    *)
(* rebuild flags without cs_main; the operator restarts a node that stopped    *)
(* and resets the chain when the node refuses to start.                        *)

Fairness ==
    /\ WF_vars(ActivateStep)
    /\ WF_vars(RewindStep)
    /\ SF_vars(TriggerRebuild)
    /\ WF_vars(Startup \/ StartupRebuild)
    /\ WF_vars(HasIncompleteReorg /\ StartupReset)

FairSpec == Spec /\ Fairness

(* An activation comes to an end: the disconnect, connect and rollback loops   *)
(* terminate on every path.                                                    *)
ActivationEnds == pc \in ActivatePcs ~> pc \in {"idle", "down"}

(* A flagged rebuild ends with a running node whose UTXO set is the tip's. *)
RebuildHeals == rebuild ~> (pc = "idle" /\ ~rebuild /\ utxo = UtxoAt[tip])

-----------------------------------------------------------------------------
(* Statements of the code's comments that the code does not keep (README,      *)
(* "Findings").                                                                *)

(* reorg_wal.h: a WAL left in phase INITIALIZED is "Safe to ignore (reorg      *)
(* never started)": a node between handlers can start a reorganisation.        *)
InitializedIsIgnored == pc = "idle" /\ dpc = "none" => ~walActive

(* reorg_wal.h: the WAL "prevents database corruption if the node crashes      *)
(* during a reorg": when a node comes up after a crash inside a reorg, its     *)
(* UTXO set is the tip's.                                                      *)
CrashInReorgDetected == pc = "idle" /\ lost = {"tornWal"} => utxo = UtxoAt[tip]

(* block_processing.cpp: "Full validation happens in ConnectTip where the UTXO *)
(* set is guaranteed correct".                                                 *)
UtxoCorrectInConnectTip == pc = "extend" => utxo = UtxoAt[tip]

(* DisconnectToHeight refuses to "disconnect below checkpoint". *)
RewindKeepsCheckpoints ==
    [][dpc = "disc" /\ tip' # tip /\ pc' # "down" => tip \notin Checkpoints]_vars

(* reorg_wal.h: in phase DISCONNECTING or CONNECTING "Require -reindex         *)
(* (safest)": a node started with --reindex comes up.                          *)
ReindexSpec == Spec /\ WF_vars(Startup \/ StartupRebuild \/ StartupReindex)
ReindexRecovers == HasIncompleteReorg /\ pc = "down" ~> pc = "idle"

=============================================================================
