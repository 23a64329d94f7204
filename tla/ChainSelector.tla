---------------------------- MODULE ChainSelector ----------------------------
(* The activation path chosen by DILITHION_USE_NEW_CHAIN_SELECTOR=1: a set of  *)
(* candidate leaves (m_setBlockIndexCandidates), kept in order of preference,  *)
(* from which ActivateBestChain takes the best, and the failure marks in the   *)
(* block index that keep blocks out of it.  ActivateBestChain holds cs_main    *)
(* from its entry ("select") to its return ("idle"); block processing and the  *)
(* download coordinator set and clear marks without it.  The durable stores    *)
(* are those of ChainState and are left out: here a failed write or read is an *)
(* outcome.                                                                    *)
EXTENDS BlockTree

CONSTANTS
    Valid,          \* blocks that pass the checks of ConnectTip
    Address,        \* the order of the CBlockIndex objects in memory
    HeaderFirst,    \* blocks whose header may reach the node before they do
    MaxReorgDepth,  \* MAX_REORG_DEPTH
    MaxFaults,      \* bound on I/O failures in a behaviour
    MaxCalls        \* bound on calls that set the selector's work aside

(* The comparator is an order only if blocks of equal work all have a VDF      *)
(* output or all have none: a chain switches to VDF blocks at one height.      *)
(* mapBlockIndex holds finitely many blocks.                                   *)
ASSUME SelectorAssumption ==
    /\ IsFiniteSet(Blocks)
    /\ Valid \subseteq Blocks /\ HeaderFirst \subseteq Blocks
    /\ Address \in [Blocks -> Nat]
    /\ \A a, b \in Blocks : Address[a] = Address[b] => a = b
    /\ \A a, b \in Blocks :
           ChainWork[a] = ChainWork[b] /\ VdfOutput[a] > 0 => VdfOutput[b] > 0
    /\ MaxReorgDepth \in Nat /\ MaxFaults \in Nat /\ MaxCalls \in Nat

VARIABLES
    index,        \* mapBlockIndex
    received,     \* blocks at BLOCK_VALID_TRANSACTIONS with BLOCK_HAVE_DATA
    seq,          \* nSequenceId; 0 unless the header came first
    failedValid,  \* BLOCK_FAILED_VALID
    failedChild,  \* BLOCK_FAILED_CHILD
    candidates,   \* m_setBlockIndexCandidates
    tip,          \* pindexTip
    graceHeight,  \* m_vdfTipAcceptHeight
    graceOpen,    \* m_vdfTipAcceptTime is within the grace period
    rebuild,      \* m_chain_needs_rebuild
    pc,           \* where ActivateBestChain is
    goal,         \* pindexMostWork
    undid,        \* any_disconnect_committed
    \* history
    dropped,      \* blocks that left the candidates, or were left out, unmarked
    cleared,      \* blocks whose marks the download coordinator has cleared
    faults,       \* I/O failures so far
    calls         \* operator calls, calls and clearings of marks so far

indexVars == <<index, received, seq>>
markVars  == <<failedValid, failedChild>>
chainVars == <<tip, graceHeight, graceOpen, rebuild>>
stepVars  == <<pc, goal, undid>>
boundVars == <<faults, calls>>
vars == <<indexVars, markVars, candidates, chainVars, stepVars, dropped, cleared, boundVars>>

TypeOK ==
    /\ index \subseteq Blocks /\ received \subseteq index
    /\ seq \in [Blocks -> 0 .. Cardinality(Blocks)]
    /\ failedValid \subseteq index /\ failedChild \subseteq index
    /\ candidates \subseteq received
    /\ tip \in received /\ graceHeight \in {-1} \cup {Height[b] : b \in Blocks}
    /\ graceOpen \in BOOLEAN /\ rebuild \in BOOLEAN
    /\ pc \in {"idle", "select", "step"} /\ goal \in index /\ undid \in BOOLEAN
    /\ dropped \subseteq index /\ cleared \subseteq index
    /\ faults \in 0 .. MaxFaults /\ calls \in 0 .. MaxCalls

Init ==
    /\ index = {Genesis} /\ received = {Genesis}
    /\ seq = [b \in Blocks |-> 0]
    /\ failedValid = {} /\ failedChild = {}
    /\ candidates = {Genesis}
    /\ tip = Genesis /\ graceHeight = -1 /\ graceOpen = FALSE /\ rebuild = FALSE
    /\ pc = "idle" /\ goal = Genesis /\ undid = FALSE
    /\ dropped = {} /\ cleared = {}
    /\ faults = 0 /\ calls = 0

-----------------------------------------------------------------------------
(* FindFork as a table. *)
Fork == [a \in Blocks |-> [b \in Blocks |-> FindFork(a, b)]]

Invalid(b) == b \in failedValid \cup failedChild
Subtree(b) == {c \in index : b \in Anc[c]}
HasChild(b) == \E c \in index \ {Genesis} : Parent[c] = b

(* An I/O operation that ends well or, within the bound, does not. *)
Outcome(ok) ==
    /\ ok \in BOOLEAN
    /\ ok \/ faults < MaxFaults
    /\ faults' = IF ok THEN faults ELSE faults + 1

Call ==
    /\ calls < MaxCalls
    /\ calls' = calls + 1

(* CBlockIndexWorkComparator: a comes before b. *)
Better(a, b) ==
    LET byVdf == VdfOutput[a] > 0 /\ VdfOutput[b] > 0 /\ VdfOutput[a] # VdfOutput[b]
    IN  \/ ChainWork[a] > ChainWork[b]
        \/ /\ ChainWork[a] = ChainWork[b]
           /\ \/ byVdf /\ VdfOutput[a] < VdfOutput[b]
              \/ ~byVdf /\ seq[a] < seq[b]
              \/ ~byVdf /\ seq[a] = seq[b] /\ Address[a] < Address[b]

-----------------------------------------------------------------------------
(* ProcessNewHeader: an index entry without data. *)
ProcessNewHeader(b) ==
    /\ pc = "idle"
    /\ b \in HeaderFirst \ index /\ Parent[b] \in index
    /\ ~Invalid(Parent[b])
    /\ index' = index \cup {b}
    /\ seq' = [seq EXCEPT ![b] = Cardinality({c \in index : seq[c] > 0}) + 1]
    /\ UNCHANGED <<received, markVars, candidates, chainVars, stepVars, dropped, cleared,
                   boundVars>>

(* A block reaches ActivateBestChain: through AddBlockIndex, which merges it   *)
(* into an entry made by its header and keeps that entry's marks, or, if it    *)
(* had been received before, when it is neither marked nor on the chain.  The  *)
(* checkpoint tiers may refuse it there.                                       *)
ProcessNewBlock(b) ==
    /\ pc = "idle"
    /\ b \in NonGenesis /\ Parent[b] \in index
    /\ b \in received => ~Invalid(b) /\ b \notin Anc[tip]
    /\ index' = index \cup {b}
    /\ received' = received \cup {b}
    /\ IF CheckpointTiers(tip, b)
       THEN /\ candidates' = candidates \cup {x \in {b} : ~Invalid(x)}
            /\ pc' = "select"
            /\ dropped' = dropped \ {b}
       ELSE UNCHANGED <<candidates, pc, dropped>>
    /\ UNCHANGED <<seq, markVars, chainVars, goal, undid, cleared, boundVars>>

-----------------------------------------------------------------------------
(* FindMostWorkChainImpl.  The walk from a candidate down to the active chain  *)
(* stops at the first ancestor that is marked or has no data.                  *)
Walk(b) == (Anc[b] \ Anc[tip]) \cup {Fork[b][tip]}

Stops(b) ==
    {a \in Walk(b) : Invalid(a) \/ a \notin Anc[tip] \cup received \cup {b}}

StopsAtMark(b) ==
    \E a \in Stops(b) : Invalid(a) /\ \A c \in Stops(b) : Height[c] <= Height[a]

Good == {b \in candidates : Stops(b) = {}}

(* std::set::begin of what the walk lets through. *)
MostWork == CHOOSE b \in Good : \A c \in Good \ {b} : Better(b, c)

(* Every candidate before it has been erased; the marked ones are marked too,  *)
(* the ones without data are not, "data may still arrive".                     *)
Popped == {b \in candidates : \A g \in Good : Better(b, g)}
Marked == failedChild \cup {b \in Popped : StopsAtMark(b) /\ ~Invalid(b)}
DroppedForData == dropped \cup {b \in Popped : ~StopsAtMark(b)}

(* The current tip is kept against a sibling when the grace period is over. *)
GraceExpired(m) ==
    /\ m # Genesis /\ tip # Genesis
    /\ Parent[m] = Parent[tip]
    /\ VdfOutput[m] > 0 /\ VdfOutput[tip] > 0
    /\ ChainWork[m] = ChainWork[tip]
    /\ graceHeight = Height[tip] /\ ~graceOpen

Keep_AgainstEqualWork(m) == m = tip \/ ChainWork[tip] >= ChainWork[m]

Keep(m) == m = tip \/ ChainWork[tip] > ChainWork[m] \/ GraceExpired(m)

(* The blocks of the new branch that contradict a checkpoint. *)
Violating(m) ==
    {p \in Anc[m] \ Anc[tip] : \E c \in Checkpoints : Height[c] = Height[p] /\ c # p}

TooDeep(m) == Height[tip] - Height[Fork[m][tip]] > MaxReorgDepth

SelectNothing ==
    /\ pc = "select"
    /\ Good # {} => Keep(MostWork)
    /\ candidates' = candidates \ Popped
    /\ failedChild' = Marked
    /\ dropped' = DroppedForData
    /\ pc' = "idle"
    /\ UNCHANGED <<indexVars, failedValid, chainVars, goal, undid, cleared, boundVars>>

(* MarkBlockAsFailed for the highest block that violates a checkpoint, and     *)
(* the next round of the loop.                                                 *)
SelectViolating ==
    /\ pc = "select"
    /\ Good # {} /\ ~Keep(MostWork)
    /\ \E v \in Violating(MostWork) :
        /\ \A p \in Violating(MostWork) : Height[p] <= Height[v]
        /\ candidates' = candidates \ (Popped \cup Subtree(v))
        /\ failedValid' = failedValid \cup {v}
        /\ failedChild' = Marked \cup (Subtree(v) \ {v})
    /\ dropped' = DroppedForData
    /\ UNCHANGED <<indexVars, chainVars, stepVars, cleared, boundVars>>

(* The candidate is dropped and a rebuild asked for. *)
SelectTooDeep ==
    /\ pc = "select"
    /\ Good # {} /\ ~Keep(MostWork) /\ Violating(MostWork) = {}
    /\ TooDeep(MostWork)
    /\ candidates' = candidates \ (Popped \cup {MostWork})
    /\ failedChild' = Marked
    /\ dropped' = DroppedForData
    /\ rebuild' = TRUE
    /\ pc' = "idle"
    /\ UNCHANGED <<indexVars, failedValid, tip, graceHeight, graceOpen, goal, undid, cleared,
                   boundVars>>

(* ActivateBestChainStep up to its first disconnect.  A block that cannot be   *)
(* read, or a WAL that cannot be written, ends it with nothing changed.        *)
SelectGoal ==
    /\ pc = "select"
    /\ Good # {} /\ ~Keep(MostWork) /\ Violating(MostWork) = {}
    /\ ~TooDeep(MostWork)
    /\ candidates' = candidates \ Popped
    /\ failedChild' = Marked
    /\ dropped' = DroppedForData
    /\ \E ok \in BOOLEAN : Outcome(ok) /\ pc' = IF ok THEN "step" ELSE "idle"
    /\ goal' = MostWork
    /\ undid' = FALSE
    /\ UNCHANGED <<indexVars, failedValid, chainVars, cleared, calls>>

-----------------------------------------------------------------------------
(* The rest of ActivateBestChainStep.  Nothing is rolled back: a failure after *)
(* the first disconnect asks for a rebuild.                                    *)
Disconnect ==
    /\ pc = "step" /\ tip \notin Anc[goal]
    /\ tip' = Parent[tip]
    /\ undid' = TRUE
    /\ UNCHANGED <<indexVars, markVars, candidates, graceHeight, graceOpen, rebuild, pc, goal,
                   dropped, cleared, boundVars>>

(* DisconnectTip or the write of the best block fails. *)
DisconnectFails ==
    /\ pc = "step" /\ tip \notin Anc[goal]
    /\ Outcome(FALSE)
    /\ tip' \in {tip, Parent[tip]}
    /\ rebuild' = TRUE
    /\ pc' = "idle"
    /\ UNCHANGED <<indexVars, markVars, candidates, graceHeight, graceOpen, goal, undid,
                   dropped, cleared, calls>>

(* MaybeAnchorVdfGrace: the period starts when a height is first reached. *)
Anchor(b) ==
    IF VdfOutput[b] > 0 /\ Height[b] # graceHeight
    THEN graceHeight' = Height[b] /\ graceOpen' = TRUE
    ELSE UNCHANGED <<graceHeight, graceOpen>>

(* PruneBlockIndexCandidates, with t the new tip. *)
Pruned(t) == {c \in candidates : c # t /\ ChainWork[t] > ChainWork[c]}

Connect ==
    LET n == NextTowards(tip, goal) IN
    /\ pc = "step" /\ tip \in Anc[goal] \ {goal}
    /\ n \in Valid
    /\ tip' = n
    /\ Anchor(n)
    /\ candidates' = candidates \ Pruned(n)
    /\ dropped' = dropped \cup Pruned(n)
    /\ pc' = IF n = goal THEN "idle" ELSE "step"
    /\ UNCHANGED <<indexVars, markVars, rebuild, goal, undid, cleared, boundVars>>

(* The block is connected and the best block cannot be written. *)
ConnectUnwritten ==
    LET n == NextTowards(tip, goal) IN
    /\ pc = "step" /\ tip \in Anc[goal] \ {goal}
    /\ n \in Valid
    /\ Outcome(FALSE)
    /\ tip' = n
    /\ Anchor(n)
    /\ rebuild' = TRUE
    /\ pc' = "idle"
    /\ UNCHANGED <<indexVars, markVars, candidates, goal, undid, dropped, cleared, calls>>

(* The block can no longer be read. *)
ReadFails ==
    /\ pc = "step" /\ tip \in Anc[goal] \ {goal}
    /\ Outcome(FALSE)
    /\ rebuild' = (rebuild \/ undid)
    /\ pc' = "idle"
    /\ UNCHANGED <<indexVars, markVars, candidates, tip, graceHeight, graceOpen, goal, undid,
                   dropped, cleared, calls>>

(* ConnectTip fails, on a check or on the UTXO set, and MarkBlockAsFailed is   *)
(* called either way.  Without a disconnect the loop goes on.                  *)
ConnectFails_Unmarked ==
    LET n == NextTowards(tip, goal) IN
    /\ pc = "step" /\ tip \in Anc[goal] \ {goal}
    /\ Outcome(n \notin Valid)
    /\ rebuild' = (rebuild \/ undid)
    /\ pc' = IF undid THEN "idle" ELSE "select"
    /\ UNCHANGED <<indexVars, markVars, candidates, tip, graceHeight, graceOpen, goal, undid,
                   dropped, cleared, calls>>

ConnectFails ==
    LET n == NextTowards(tip, goal) IN
    /\ pc = "step" /\ tip \in Anc[goal] \ {goal}
    /\ Outcome(n \notin Valid)
    /\ failedValid' = failedValid \cup {n}
    /\ failedChild' = failedChild \cup (Subtree(n) \ {n})
    /\ candidates' = candidates \ Subtree(n)
    /\ rebuild' = (rebuild \/ undid)
    /\ pc' = IF undid THEN "idle" ELSE "select"
    /\ UNCHANGED <<indexVars, tip, graceHeight, graceOpen, goal, undid, dropped, cleared, calls>>

-----------------------------------------------------------------------------
(* RecomputeCandidates keeps leaves of the index only: a block with data under *)
(* a header is no leaf.                                                        *)
Recompute_WithHeaders(fv, fc) ==
    /\ candidates' = {b \in index \ (fv \cup fc) : ~HasChild(b)}
    /\ UNCHANGED dropped

Recompute_MoreWorkOnly(fv, fc) ==
    LET eligible == received \ (fv \cup fc)
    IN  /\ candidates' = {b \in eligible : ~HasChild(b) /\ ChainWork[b] > ChainWork[tip]}
        /\ dropped' = dropped \cup {b \in eligible : HasChild(b)}

Recompute(fv, fc) ==
    LET eligible == received \ (fv \cup fc)
    IN  /\ candidates' = {b \in eligible : ~HasChild(b)}
        /\ dropped' = dropped \cup {b \in eligible : HasChild(b)}

InvalidateBlock(b) ==
    /\ pc = "idle" /\ b \in index \ {Genesis}
    /\ Call
    /\ failedValid' = failedValid \cup {b}
    /\ failedChild' = failedChild \cup (Subtree(b) \ {b})
    /\ Recompute(failedValid', failedChild')
    /\ UNCHANGED <<indexVars, chainVars, stepVars, cleared, faults>>

(* MarkBlockAsValid.  A descendant that failed by itself keeps its mark and    *)
(* shields those above it.                                                     *)
Reconsidered_TargetOnly(b) == {b}

Reconsidered(b) ==
    {c \in Subtree(b) : \A a \in Anc[c] \ (Anc[b] \cup {c}) : a \notin failedValid}

ReconsiderBlock(b) ==
    /\ pc = "idle" /\ b \in index \ {Genesis}
    /\ Call
    /\ failedValid' = failedValid \ {b}
    /\ failedChild' = failedChild \ Reconsidered(b)
    /\ Recompute(failedValid', failedChild')
    /\ UNCHANGED <<indexVars, chainVars, stepVars, cleared, faults>>

(* DisconnectToHeight, one block at a time: it knows nothing of the            *)
(* candidates.                                                                 *)
Rewind ==
    /\ pc = "idle" /\ tip # Genesis
    /\ Call
    /\ Height[tip] > LastCheckpoint(Height[tip])
    /\ tip' = Parent[tip]
    /\ UNCHANGED <<indexVars, markVars, candidates, graceHeight, graceOpen, rebuild, stepVars,
                   dropped, cleared, faults>>

(* Without cs_main: ProcessNewBlock marks an indexed block, and no other, that *)
(* fails the DFMP check.  The parent was on the chain when that was looked at; *)
(* it need not be any more.                                                    *)
MarkFailed(b) ==
    /\ b \in index \ (Valid \cup {Genesis})
    /\ failedValid' = failedValid \cup {b}
    /\ UNCHANGED <<indexVars, failedChild, candidates, chainVars, stepVars, dropped, cleared,
                   boundVars>>

(* FetchBlocks marks a block it was about to request under a marked parent ... *)
MarkFailedChild(b) ==
    /\ b \in index \ (Anc[tip] \cup {Genesis})
    /\ ~Invalid(b) /\ Invalid(Parent[b])
    /\ failedChild' = failedChild \cup {b}
    /\ UNCHANGED <<indexVars, failedValid, candidates, chainVars, stepVars, dropped, cleared,
                   boundVars>>

(* ... and clears both marks of a block, and of that block only, when it finds *)
(* nothing else to request.                                                    *)
ClearFailed(b) ==
    /\ b \in index \ Anc[tip] /\ Invalid(b)
    /\ Call
    /\ failedValid' = failedValid \ {b}
    /\ failedChild' = failedChild \ {b}
    /\ cleared' = cleared \cup {b}
    /\ dropped' = dropped \cup {b}
    /\ UNCHANGED <<indexVars, candidates, chainVars, stepVars, faults>>

ExpireGrace ==
    /\ graceOpen
    /\ graceOpen' = FALSE
    /\ UNCHANGED <<indexVars, markVars, candidates, tip, graceHeight, rebuild, stepVars,
                   dropped, cleared, boundVars>>

-----------------------------------------------------------------------------
ActivateStep ==
    \/ SelectNothing \/ SelectViolating \/ SelectTooDeep \/ SelectGoal
    \/ Disconnect \/ DisconnectFails
    \/ Connect \/ ConnectUnwritten \/ ReadFails \/ ConnectFails

Next ==
    \/ ActivateStep
    \/ \E b \in NonGenesis :
          \/ ProcessNewHeader(b) \/ ProcessNewBlock(b)
          \/ InvalidateBlock(b) \/ ReconsiderBlock(b)
          \/ MarkFailed(b) \/ MarkFailedChild(b) \/ ClearFailed(b)
    \/ Rewind
    \/ ExpireGrace

Spec == Init /\ [][Next]_vars

-----------------------------------------------------------------------------
(* Every block marked BLOCK_FAILED_CHILD has an ancestor that failed, or one   *)
(* whose marks the coordinator has cleared: neither the walk of                *)
(* FindMostWorkChainImpl, nor the two ways a subtree is marked, nor the        *)
(* barrier of MarkBlockAsValid leaves a mark that nothing explains, so that    *)
(* reconsidering what failed is always enough.                                 *)
FailedChildJustified ==
    \A b \in failedChild : \E a \in Anc[b] \ {b} : a \in failedValid \cup cleared

(* A branch that could be connected now. *)
Activatable(b) ==
    /\ b \in received
    /\ \A a \in Anc[b] \ Anc[tip] : a \in received /\ ~Invalid(a)
    /\ ~Invalid(Fork[b][tip])
    /\ Violating(b) = {}

(* More work, or the same work and a lower VDF output in time. *)
Preferred(b) ==
    \/ ChainWork[b] > ChainWork[tip]
    \/ /\ ChainWork[b] = ChainWork[tip]
       /\ 0 < VdfOutput[b] /\ VdfOutput[b] < VdfOutput[tip]
       /\ ~GraceExpired(b)

(* A branch that could be connected and is preferred to the active chain is    *)
(* not forgotten: it ends in, or leads to, a candidate, unless it was dropped  *)
(* for one of the four reasons a block leaves the candidates without failing   *)
(* (data missing below it, work below the tip's, not a leaf when the set was   *)
(* recomputed, marks cleared without entering it again) and has not arrived    *)
(* again.                                                                      *)
BetterIsKept ==
    pc = "idle" /\ ~rebuild =>
        \A b \in index : Activatable(b) /\ Preferred(b) =>
            \/ \E c \in candidates : b \in Anc[c]
            \/ b \in dropped

(* The best candidate is a sibling that came after the grace period, and the   *)
(* loop ends there: candidates of the same work behind it are not looked at.   *)
BehindLateSibling(b) ==
    \E m \in candidates :
        GraceExpired(m) /\ Better(m, b) /\ ChainWork[b] = ChainWork[m]

(* An activation that returns without an I/O failure and without asking for a  *)
(* rebuild leaves no candidate that should have become the tip, but those      *)
(* behind a late sibling: the loop that retries after a failed block does not  *)
(* give up too early.                                                          *)
ActivationIsComplete ==
    [][pc # "idle" /\ pc' = "idle" /\ faults' = faults /\ ~rebuild' =>
          \A b \in candidates' :
              (Activatable(b) /\ Preferred(b) => BehindLateSibling(b))']_vars

(* Every activation ends: while cs_main is held no block becomes a candidate,  *)
(* every return to the selection has lost one (a block that failed to connect  *)
(* or contradicts a checkpoint is not tried twice), and every block connected  *)
(* or disconnected brings the tip closer to the goal, whatever marks are set   *)
(* and cleared meanwhile.                                                      *)
Distance == Cardinality(Anc[tip] \ Anc[goal]) + Cardinality(Anc[goal] \ Anc[tip])

ActivationAdvances ==
    [][pc # "idle" /\ pc' # "idle" =>
          /\ candidates' \subseteq candidates
          /\ pc' = "select" /\ ActivateStep => candidates' # candidates
          /\ tip' # tip => Distance' < Distance]_vars

-----------------------------------------------------------------------------
(* FindMostWorkChainImpl: "RecomputeCandidates after a successful disk-write   *)
(* re-adds the leaf": a candidate dropped because data was missing below it    *)
(* is one again when the data has arrived.                                     *)
LeafReadmitted ==
    pc = "idle" /\ ~rebuild =>
        \A b \in dropped : Activatable(b) /\ Preferred(b) =>
            \E c \in candidates : b \in Anc[c]

=============================================================================
