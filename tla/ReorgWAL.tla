------------------------------- MODULE ReorgWAL -------------------------------
(* CReorgWAL: the write-ahead record of a chain reorganisation, a file         *)
(* wal/reorg_pending.dat plus the fields m_active and m_phase.  The hashes and *)
(* the progress counts in the file are never read back by the node, so the     *)
(* file is abstracted to the phase it records.                                 *)
EXTENDS Integers

VARIABLES
    walFile,    \* on disk: "absent", "torn" (fails its checksum) or a phase
    walActive,  \* m_active
    walPhase    \* m_phase

walVars == <<walFile, walActive, walPhase>>

ReorgPhase == {"INITIALIZED", "DISCONNECTING", "CONNECTING", "COMPLETED"}

WalTypeOK ==
    /\ walFile \in {"absent", "torn"} \cup (ReorgPhase \ {"COMPLETED"})
    /\ walActive \in BOOLEAN
    /\ walPhase \in ReorgPhase

WalInit ==
    /\ walFile = "absent"
    /\ walActive = FALSE
    /\ walPhase = "INITIALIZED"

(* WriteWAL truncates the file and rewrites it in place.  When it fails the    *)
(* old contents are either still there (open failed) or gone (a short write).  *)
WriteWAL(phase, ok) ==
    IF ok THEN walFile' = phase ELSE walFile' \in {walFile, "torn"}

(* BeginReorg refuses while a reorg is active; m_active is set before the      *)
(* write whose result it returns.                                              *)
BeginReorg(ok) ==
    /\ ~walActive
    /\ walActive' = TRUE
    /\ walPhase' = "INITIALIZED"
    /\ WriteWAL("INITIALIZED", ok)

EnterPhase(phase, ok) ==
    IF walActive
    THEN /\ walPhase' = phase
         /\ WriteWAL(phase, ok)
         /\ UNCHANGED walActive
    ELSE UNCHANGED walVars

EnterDisconnectPhase_MemoryOnly(ok) ==
    /\ walPhase' = IF walActive THEN "DISCONNECTING" ELSE walPhase
    /\ UNCHANGED <<walFile, walActive>>

EnterDisconnectPhase(ok) == EnterPhase("DISCONNECTING", ok)
EnterConnectPhase(ok)    == EnterPhase("CONNECTING", ok)

(* UpdateDisconnectProgress and UpdateConnectProgress rewrite the file with    *)
(* the same phase and a new count.                                             *)
UpdateProgress(phase, ok) ==
    IF walActive /\ walPhase = phase
    THEN WriteWAL(phase, ok) /\ UNCHANGED <<walActive, walPhase>>
    ELSE UNCHANGED walVars

UpdateDisconnectProgress(ok) == UpdateProgress("DISCONNECTING", ok)
UpdateConnectProgress(ok)    == UpdateProgress("CONNECTING", ok)

(* CompleteReorg forgets the reorg even when the file cannot be removed. *)
CompleteReorg(ok) ==
    /\ walFile' = IF ok THEN "absent" ELSE walFile
    /\ walActive' = FALSE
    /\ walPhase' = "COMPLETED"

AbortReorg(ok) == CompleteReorg(ok)

(* The constructor, run at startup on whatever file the last run left: a file  *)
(* that does not read back is deleted, any other is taken over as active.      *)
(* (ReadWAL may leave the phase of an unreadable file in m_phase; nothing      *)
(* reads m_phase while m_active is false and there is no file.)                *)
Construct ==
    IF walFile \in {"absent", "torn"}
    THEN /\ walFile' = "absent"
         /\ walActive' = FALSE
         /\ walPhase' = "INITIALIZED"
    ELSE /\ walActive' = TRUE
         /\ walPhase' = walFile
         /\ UNCHANGED walFile

(* HasIncompleteReorg, as it answers just after the constructor ran. *)
HasIncompleteReorg == walFile \in {"DISCONNECTING", "CONNECTING"}

(* A process that dies inside WriteWAL leaves the truncated file. *)
CrashInWriteWAL == walFile' = "torn"

=============================================================================
