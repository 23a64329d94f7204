--------------------------- MODULE IntegrityMonitor ---------------------------
(* ChainstateIntegrityMonitor: a thread beside CChainState that looks for      *)
(* missing undo records.  It takes cs_main twice, to copy the window of blocks *)
(* and to confirm what it found, but not in between, so that every handler of  *)
(* ChainState may run while it reads the records.                              *)
EXTENDS ChainState

CONSTANTS
    WindowBlocks,   \* kWindowBlocks
    MaxLostRecords  \* bound on the undo records the disk loses in a behaviour

ASSUME MonitorAssumption == WindowBlocks \in Nat /\ MaxLostRecords \in Nat

VARIABLES
    mpc,       \* where ExecuteSingleCycle is
    window,    \* the snapshot
    suspect,   \* failure.blockHash
    undone,    \* history: blocks of the snapshot disconnected since it was taken
    lostRecords

monitorVars == <<mpc, window, suspect, undone, lostRecords>>
mvars == <<vars, monitorVars>>

MonitorInit ==
    /\ Init
    /\ mpc = "wait" /\ window = {} /\ suspect = Genesis /\ undone = {}
    /\ lostRecords = 0

Waiting ==
    /\ mpc' = "wait" /\ window' = {} /\ suspect' = Genesis /\ undone' = {}
    /\ UNCHANGED lostRecords

TakeSnapshot_BelowTip ==
    /\ mpc = "wait"
    /\ Unlocked
    /\ window' = {b \in Anc[tip] \ {Genesis, tip} : Height[tip] - Height[b] < WindowBlocks}
    /\ window' # {}
    /\ mpc' = "walk"
    /\ UNCHANGED <<vars, suspect, undone, lostRecords>>

(* SnapshotIntegrityWindow.  A chain of genesis alone gives an empty window    *)
(* and the cycle is over.                                                      *)
TakeSnapshot ==
    /\ mpc = "wait"
    /\ Unlocked
    /\ window' = {b \in Anc[tip] \ {Genesis} : Height[tip] - Height[b] < WindowBlocks}
    /\ window' # {}
    /\ mpc' = "walk"
    /\ UNCHANGED <<vars, suspect, undone, lostRecords>>

(* VerifyUndoDataFromSnapshot holds cs_utxo throughout, so the walk is one     *)
(* step; it stops at the highest block without a record.                       *)
Walk(b) ==
    /\ mpc = "walk"
    /\ pc # "down"
    /\ b \in window \ undo
    /\ \A a \in window \ undo : Height[a] <= Height[b]
    /\ suspect' = b
    /\ mpc' = "revalidate"
    /\ UNCHANGED <<vars, window, undone, lostRecords>>

WalkPasses ==
    /\ mpc = "walk"
    /\ pc # "down"
    /\ window \subseteq undo
    /\ Waiting
    /\ UNCHANGED vars

OnActiveChain(b) == b \in Anc[tip]

Revalidate_AnyHash ==
    /\ mpc = "revalidate"
    /\ Unlocked
    /\ Height[tip] >= Height[suspect]
    /\ \E ok \in BOOLEAN : Outcome("marker", ok) /\ marker' = (marker \/ ok)
    /\ mpc' = "fired"
    /\ UNCHANGED <<bestBlock, utxoVars, walVars, tip, indexVars, graceVars, healthVars,
                   stepVars, rewindVars, crashes, lost, window, suspect, undone, lostRecords>>

(* RevalidateUnderCsMain.  The block is looked up on the chain of the fresh    *)
(* tip; its record is not read again.                                          *)
Revalidate ==
    /\ mpc = "revalidate"
    /\ Unlocked
    /\ OnActiveChain(suspect)
    /\ \E ok \in BOOLEAN : Outcome("marker", ok) /\ marker' = (marker \/ ok)
    /\ mpc' = "fired"
    /\ UNCHANGED <<bestBlock, utxoVars, walVars, tip, indexVars, graceVars, healthVars,
                   stepVars, rewindVars, crashes, lost, window, suspect, undone, lostRecords>>

OrphanSkip ==
    /\ mpc = "revalidate"
    /\ Unlocked
    /\ ~OnActiveChain(suspect)
    /\ Waiting
    /\ UNCHANGED vars

(* running_flag is cleared and the main loop ends, after the handlers that     *)
(* were under way.                                                             *)
Shutdown ==
    /\ mpc = "fired"
    /\ Unlocked /\ dpc = "none"
    /\ Down
    /\ Waiting
    /\ UNCHANGED <<bestBlock, utxoVars, marker, walFile, failedValid, failedChild, faults,
                   crashes, lost>>

(* The disk loses the undo record of a block of the active chain. *)
LoseRecord(b) ==
    /\ Unlocked
    /\ lostRecords < MaxLostRecords
    /\ b \in (undo \cap Anc[tip]) \ {Genesis}
    /\ undo' = undo \ {b}
    /\ lostRecords' = lostRecords + 1
    /\ Expose({"lostRecord"})
    /\ UNCHANGED <<bestBlock, utxo, marker, walVars, tip, indexVars, graceVars, healthVars,
                   stepVars, rewindVars, faults, crashes, mpc, window, suspect, undone>>

(* A step of ChainState; the monitor's thread ends with the process. *)
ChainStep ==
    /\ Next
    /\ IF pc' = "down" THEN Waiting
       ELSE /\ undone' = undone \cup (window \cap (Anc[At] \ Anc[At']))
            /\ UNCHANGED <<mpc, window, suspect, lostRecords>>

MonitorStep ==
    \/ TakeSnapshot
    \/ \E b \in window : Walk(b)
    \/ WalkPasses
    \/ Revalidate
    \/ OrphanSkip
    \/ Shutdown

MonitorNext ==
    \/ ChainStep
    \/ MonitorStep
    \/ \E b \in undo : LoseRecord(b)

MonitorSpec == MonitorInit /\ [][MonitorNext]_mvars

(* The cycle is repeated for ever and main starts the monitor at every start.  *)
(* cs_main is free most of the time, but never for good: a block that failed   *)
(* may be tried again and again.                                               *)
MonitorFairness == SF_mvars(MonitorStep)

FairMonitorSpec ==
    /\ MonitorSpec
    /\ WF_mvars(ActivateStep /\ ChainStep)
    /\ SF_mvars(TriggerRebuild /\ ChainStep)
    /\ WF_mvars((Startup \/ StartupRebuild) /\ ChainStep)
    /\ WF_mvars(HasIncompleteReorg /\ StartupReset /\ ChainStep)
    /\ MonitorFairness

-----------------------------------------------------------------------------
Fires == mpc = "revalidate" /\ mpc' = "fired"

(* The marker that wipes the node is written only for a block of the active    *)
(* chain, and only when its undo record is missing or when the block has been  *)
(* disconnected since the snapshot: the gate of RevalidateUnderCsMain lets no  *)
(* other race of the walk with a reorganisation, tip replacement, rollback or  *)
(* restart through.                                                            *)
AlarmExplained ==
    [][Fires => /\ suspect \in Anc[tip]
                /\ suspect \notin undo \/ suspect \in undone]_mvars

Hole ==
    /\ pc # "down"
    /\ \E b \in Anc[tip] \ (undo \cup {Genesis}) : Height[tip] - Height[b] < WindowBlocks

(* A hole in the undo records of the window does not last: the monitor finds   *)
(* it and the node comes up again without it, whatever the monitor was doing   *)
(* when the record was lost, and although startup makes no undo check when     *)
(* there are no checkpoints.                                                   *)
HolesAreNoticed == Hole ~> (pc = "idle" /\ ~Hole)

-----------------------------------------------------------------------------
(* chain.cpp: "Genuine corruption - block is still on active chain but its     *)
(* undo entry is missing/corrupt": when the marker is written the record is    *)
(* missing.                                                                    *)
NoFalseAlarm == [][Fires => suspect \notin undo]_mvars

=============================================================================
