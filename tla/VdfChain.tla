------------------------------- MODULE VdfChain -------------------------------
(* The rules of a VDF chain that depend on who won before, as ConnectTip      *)
(* applies them (consensus/chain.cpp, consensus/vdf_validation.cpp), and the  *)
(* life of the cooldown tracker they read: connected and disconnected blocks, *)
(* blocks accepted without the rules below the assume-valid height, failed    *)
(* connections, the download coordinator that clears failed blocks, the miner *)
(* that asks on its own thread, and restarts that replay the chain.           *)
(* The parameters are those of DilV: the rules and the stabilisation fork     *)
(* apply from genesis, so the stall exemption of the cooldown never does.     *)
EXTENDS CooldownTracker, Sequences

CONSTANTS
    Blocks,                \* what a block may be: [mik, time]
    GenesisTime,
    AssumeValidHeight,     \* dfmpAssumeValidHeight
    MaxConsecutive,        \* MAX_CONSECUTIVE_SAME_MINER
    SoloGateHeight,        \* soloExemptionLifetimeGateHeight
    BootstrapMiners,       \* kBootstrapMinerThreshold
    StallRetiredHeight,    \* consecutiveMinerStallExemptionRetiredHeight
    StallThreshold,        \* CONSECUTIVE_STALL_THRESHOLD_SECS
    CapWindow, CapFloor,   \* mikWindowCapWindow, mikWindowCapFloor
    LivenessTimeout,       \* livenessTimeoutSec
    MaxLeaks               \* bound on the steps counted by leaks

ASSUME ChainAssumption ==
    /\ \A b \in Blocks : b.mik \in Miks /\ b.time \in Nat \ {NoTime}
    /\ {GenesisTime, MaxConsecutive, CapWindow, CapFloor, LivenessTimeout} \subseteq Nat \ {0}
    /\ {AssumeValidHeight, SoloGateHeight, BootstrapMiners, StallRetiredHeight,
        StallThreshold, MaxLeaks} \subseteq Nat

VARIABLES
    tracker,
    chain,       \* the active chain above genesis
    pc,          \* where ConnectTip is: between two calls of the tracker
    block,       \* the block ConnectTip is working on
    highest,     \* history: the highest tip since the tracker was populated
    leaks        \* history: steps that left the tracker with another chain

vars == <<tracker, chain, pc, block, highest, leaks>>

NoBlock == [mik |-> NoMik, time |-> NoTime]
Tip == Len(chain)
Idle == pc = "idle"

TypeOK ==
    /\ tracker \in Tracker
    /\ chain \in Seq(Blocks) /\ Tip <= highest
    /\ pc \in {"idle", "recalc", "consecutive", "cap", "apply"}
    /\ block \in Blocks \cup {NoBlock}
    /\ (block = NoBlock) = Idle
    /\ highest \in 0 .. MaxHeight
    /\ leaks \in 0 .. MaxLeaks

-----------------------------------------------------------------------------
(* The rules for a block b above the chain c, with a count of active miners.  *)

PrevTime(c) == IF c = <<>> THEN GenesisTime ELSE c[Len(c)].time

AllBy(c, m) ==
    /\ Len(c) >= MaxConsecutive
    /\ \A k \in Len(c) - MaxConsecutive + 1 .. Len(c) : c[k].mik = m

StallExempt(c, b) ==
    Len(c) + 1 < StallRetiredHeight /\ b.time - PrevTime(c) >= StallThreshold

(* The solo exemption is closed to a chain that has seen many miners.         *)
SoloGated(t, height) ==
    height >= SoloGateHeight /\ GetLifetimeMinerCount(t) > BootstrapMiners

CheckConsecutiveMiner(t, c, b, active) ==
    \/ active <= 1 /\ ~ SoloGated(t, Len(c) + 1)
    \/ ~ AllBy(c, b.mik)
    \/ StallExempt(c, b)

CheckMIKWindowCap(t, c, b, active) ==
    \/ active <= 1
    \/ b.time - PrevTime(c) >= LivenessTimeout
    \/ GetBlockCountInWindow(t, b.mik, Len(c), CapWindow) < CapFloor

(* CheckVDFReplacementPreflight: may b replace the tip of the chain c?        *)
(* Asked while the tip is still connected.                                    *)
Preflight_CapOff(t, c, b) ==
    LET h == Len(c)
        below == SubSeq(c, 1, h - 1)
        active == GetActiveMinersExcludingHeight(t, h, h)
    IN  /\ ~ IsInCooldownExcludingHeight(t, b.mik, h, b.time, h)
        /\ active <= 1 \/ ~ AllBy(below, b.mik) \/ StallExempt(below, b)
        /\ \/ active <= 1
           \/ b.time - PrevTime(below) >= LivenessTimeout
           \/ GetBlockCountInWindow(t, b.mik, h - 1, CapWindow) <= CapFloor

Preflight(t, c, b) ==
    LET h == Len(c)
        below == SubSeq(c, 1, h - 1)
        active == GetActiveMinersExcludingHeight(t, h, h)
    IN  /\ ~ IsInCooldownExcludingHeight(t, b.mik, h, b.time, h)
        /\ active <= 1 \/ ~ AllBy(below, b.mik) \/ StallExempt(below, b)
        /\ \/ active <= 1
           \/ b.time - PrevTime(below) >= LivenessTimeout
           \/ GetBlockCountInWindow(t, b.mik, h - 1, CapWindow) < CapFloor

-----------------------------------------------------------------------------
(* ConnectTip.  cs_main keeps other blocks out, not the other users of the    *)
(* tracker, so each call of it is a step.                                     *)

(* The tracker after IsInCooldown was called: it returns before the count     *)
(* when the miner has no win in the window.                                   *)
Asked(t, m, h) == IF t.lastWinHeight[m] = NoHeight THEN t ELSE RecalcActiveMiners(t, h)

Reject == pc' = "idle" /\ block' = NoBlock

(* A block at or below the assume-valid height is entered at once, unless it  *)
(* is connected by a reorganisation (skip).  For others CheckVDFCooldown,     *)
(* which asks for the effective cooldown before it asks about the miner.      *)
StartConnect(b, skip) ==
    LET h == Tip + 1 IN
    /\ Idle /\ h <= MaxHeight
    /\ IF h <= AssumeValidHeight
       THEN /\ tracker' = IF skip THEN tracker
                          ELSE OnBlockConnected(tracker, h, b.mik, b.time)
            /\ pc' = "apply" /\ block' = b
       ELSE /\ tracker' = RecalcActiveMiners(tracker, h)
            /\ IF IsInCooldown(tracker, b.mik, h, b.time)
               THEN Reject
               ELSE pc' = "recalc" /\ block' = b
    /\ UNCHANGED <<chain, highest, leaks>>

(* The call by which CheckConsecutiveMiner wants a fresh count.               *)
Recalc ==
    /\ pc = "recalc"
    /\ tracker' = Asked(tracker, block.mik, Tip + 1)
    /\ pc' = "consecutive"
    /\ UNCHANGED <<chain, block, highest, leaks>>

Consecutive ==
    /\ pc = "consecutive"
    /\ IF CheckConsecutiveMiner(tracker, chain, block, tracker.cachedActive)
       THEN pc' = "cap" /\ UNCHANGED block
       ELSE Reject
    /\ UNCHANGED <<tracker, chain, highest, leaks>>

WindowCap ==
    /\ pc = "cap"
    /\ IF CheckMIKWindowCap(tracker, chain, block, tracker.cachedActive)
       THEN pc' = "apply" /\ UNCHANGED block
       ELSE Reject
    /\ UNCHANGED <<tracker, chain, highest, leaks>>

(* The UTXO set takes the block and the callbacks run.                        *)
Apply ==
    LET h == Tip + 1 IN
    /\ pc = "apply"
    /\ tracker' = OnBlockConnected(tracker, h, block.mik, block.time)
    /\ chain' = Append(chain, block)
    /\ highest' = Max({highest, h})
    /\ pc' = "idle" /\ block' = NoBlock
    /\ UNCHANGED leaks

(* The UTXO set refuses it: ConnectTip returns, and an assumed block stays in *)
(* the tracker.                                                               *)
ApplyFails ==
    /\ pc = "apply"
    /\ leaks' = IF Tip + 1 <= AssumeValidHeight THEN leaks + 1 ELSE leaks
    /\ leaks' <= MaxLeaks
    /\ Reject
    /\ UNCHANGED <<tracker, chain, highest>>

(* DisconnectTip.  An assumed block may have been entered twice.              *)
Disconnect ==
    /\ Idle /\ Tip > 0
    /\ tracker' = OnBlockDisconnected(tracker, Tip)
    /\ chain' = SubSeq(chain, 1, Tip - 1)
    /\ leaks' = IF Tip <= AssumeValidHeight THEN leaks + 1 ELSE leaks
    /\ leaks' <= MaxLeaks
    /\ UNCHANGED <<pc, block, highest>>

(* The miner's thread, for the height its template was made for.              *)
MinerQuery(m, h) ==
    /\ h \in Heights \cap {Tip, Tip + 1}
    /\ tracker' = Asked(tracker, m, h)
    /\ UNCHANGED <<chain, pc, block, highest, leaks>>

(* FetchBlocks clears the marks of a failed block it finds above the chain    *)
(* height it has read, which may be the tip's height by now.                  *)
ClearFailed(h) ==
    /\ h \in Heights /\ h >= Tip
    /\ tracker' = OnBlockDisconnected(tracker, h)
    /\ leaks' = IF h = Tip THEN leaks + 1 ELSE leaks
    /\ leaks' <= MaxLeaks
    /\ UNCHANGED <<chain, pc, block, highest>>

Replay(c) ==
    LET f[k \in 0 .. Len(c)] ==
            IF k = 0 THEN Clear ELSE OnBlockConnected(f[k - 1], k, c[k].mik, c[k].time)
    IN  f[Len(c)]

(* The node stops, at any point, and starts again: the tracker is filled from *)
(* the blocks of the chain.                                                   *)
Restart ==
    /\ tracker' = Replay(chain)
    /\ pc' = "idle" /\ block' = NoBlock
    /\ highest' = Tip
    /\ leaks' = 0
    /\ UNCHANGED chain

Init ==
    /\ tracker = Clear /\ chain = <<>>
    /\ pc = "idle" /\ block = NoBlock
    /\ highest = 0 /\ leaks = 0

Next ==
    \/ \E b \in Blocks, skip \in BOOLEAN : StartConnect(b, skip)
    \/ Recalc \/ Consecutive \/ WindowCap \/ Apply \/ ApplyFails
    \/ Disconnect
    \/ \E m \in Miks, h \in Heights : MinerQuery(m, h)
    \/ \E h \in Heights : ClearFailed(h)
    \/ Restart

Spec == Init /\ [][Next]_vars

-----------------------------------------------------------------------------
(* The lifetime tables are those of the active chain, however deep it was cut *)
(* back and regrown, also at heights the window has forgotten                 *)
(* (cooldown_tracker.h: "the count is a function purely of canonical chain    *)
(* state").  Not so after a step counted by leaks.                            *)
LifetimeIsChains ==
    Idle /\ leaks = 0 =>
        \A m \in Miks :
            /\ tracker.lifetime[m] > 0 <=> \E k \in 1 .. Tip : chain[k].mik = m
            /\ \A h \in Heights :
                 tracker.mikHeights[m][h] > 0 <=> h <= Tip /\ chain[h].mik = m

(* Whether a miner may win the next block is what the chain alone says, for   *)
(* every time: the window, its evictions, the repair of the last win at a     *)
(* disconnect and the cached count together agree with the rule read off the  *)
(* blocks.  A tip one below the highest is covered (every replacement of a    *)
(* tip goes through it); a deeper cut leaves heights of the window evicted.   *)
ChainVerdict(m, now) ==
    LET h == Tip + 1
        wins == {k \in 1 .. Tip : chain[k].mik = m}
        last == IF wins = {} THEN NoHeight ELSE Max(wins)
        active == {chain[k].mik : k \in {k \in 1 .. Tip : k > h - ActiveWindow}}
    IN  InCooldown(last, IF last = NoHeight THEN NoTime ELSE chain[last].time,
                   CalculateCooldown(Cardinality(active)), h, now)

VerdictIsChains ==
    Idle /\ leaks = 0 /\ highest <= Tip + 1 /\ Tip < MaxHeight =>
        \A b \in Blocks :
            IsInCooldown(tracker, b.mik, Tip + 1, b.time) <=> ChainVerdict(b.mik, b.time)

(* Asking with the tip's height excluded gives the answer that disconnecting  *)
(* the tip and asking would give (cooldown_tracker.h: "evaluate cooldown as   *)
(* if excludeHeight were disconnected first").                                *)
ExcludingIsDisconnecting ==
    Idle /\ Tip > 0 =>
        LET t == OnBlockDisconnected(tracker, Tip) IN
        \A b \in Blocks :
            IsInCooldownExcludingHeight(tracker, b.mik, Tip, b.time, Tip)
                <=> IsInCooldown(t, b.mik, Tip, b.time)

(* Would ConnectTip take b after the tip was disconnected?                    *)
ReplacementConnects(b) ==
    LET t == OnBlockDisconnected(tracker, Tip)
        c == SubSeq(chain, 1, Tip - 1)
        active == RecalcActiveMiners(t, Tip).cachedActive
    IN  /\ ~ IsInCooldown(t, b.mik, Tip, b.time)
        /\ CheckConsecutiveMiner(t, c, b, active)
        /\ CheckMIKWindowCap(t, c, b, active)

(* The one rule that the preflight does not repeat: after the tip is gone one *)
(* miner is active, b continues that miner's run, and the lifetime gate of    *)
(* CheckConsecutiveMiner takes the exemption away.                            *)
GateRefuses(b) ==
    LET t == OnBlockDisconnected(tracker, Tip)
        c == SubSeq(chain, 1, Tip - 1)
    IN  /\ RecalcActiveMiners(t, Tip).cachedActive <= 1 /\ SoloGated(t, Tip)
        /\ AllBy(c, b.mik) /\ ~ StallExempt(c, b)

(* A replacement that passes the preflight (CheckVDFReplacementPreflight) is  *)
(* accepted by ConnectTip, so that Case 2.5 does not disconnect the tip for a *)
(* block it must then refuse.  The lifetime gate is the only exception, and   *)
(* it is one: however many miners the chain has seen, whatever the window,    *)
(* the two decide alike about everything else.                                *)
PreflightSuffices ==
    Idle /\ Tip > AssumeValidHeight =>
        \A b \in Blocks :
            Preflight(tracker, chain, b) => (ReplacementConnects(b) <=> ~ GateRefuses(b))

(* The statement without that exception, as vdf_validation.cpp has it ("so a  *)
(* block rejected by the authoritative connect path is also rejected by       *)
(* preflight"), which the code does not keep (README, Findings).              *)
PreflightMirrorsConnect ==
    Idle /\ Tip > AssumeValidHeight =>
        \A b \in Blocks : Preflight(tracker, chain, b) => ReplacementConnects(b)
=============================================================================
