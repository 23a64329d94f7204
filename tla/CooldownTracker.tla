--------------------------- MODULE CooldownTracker ---------------------------
(* CCooldownTracker (vdf/cooldown_tracker.cpp): who won which height, from    *)
(* which the consensus rules of a VDF chain decide who may win next.  The     *)
(* sliding window (heightToWinner and what hangs on it) forgets heights, the  *)
(* lifetime tables do not.  Every method runs under m_mutex, so each is an    *)
(* operator from a tracker to a tracker; the count of active miners is cached *)
(* for one height and the queries refresh it.                                 *)
(* Left out: the short window (vdfCooldownShortWindow is 0 on every network), *)
(* registrations (their rule is active on none) and the correlated groups,    *)
(* which only an RPC asks for.                                                *)
EXTENDS Integers, FiniteSets, FiniteSetsExt

CONSTANTS
    Miks,                        \* miner identities, in the order of their addresses
    MaxHeight,                   \* heights that are looked at
    ActiveWindow,                \* m_activeWindow
    MIN_COOLDOWN, MAX_COOLDOWN,
    TargetBlockTime,             \* m_targetBlockTime
    ExpiryRetiredHeight,         \* m_timeBasedExpiryRetiredHeight
    TimeDecayHeight,             \* m_timeDecayActivationHeight
    DecaySeconds                 \* m_timeDecaySeconds

NoMik == 0
NoHeight == 0
NoTime == 0
Heights == 1 .. MaxHeight

ASSUME TrackerAssumption ==
    /\ Miks \subseteq Nat \ {NoMik} /\ IsFiniteSet(Miks)
    /\ {MaxHeight, ActiveWindow, MIN_COOLDOWN, TargetBlockTime, DecaySeconds} \subseteq Nat \ {0}
    /\ {MAX_COOLDOWN, ExpiryRetiredHeight, TimeDecayHeight} \subseteq Nat
    /\ MIN_COOLDOWN <= MAX_COOLDOWN
    /\ MIN_COOLDOWN <= ActiveWindow

Tracker ==
    [lastWinHeight : [Miks -> Heights \cup {NoHeight}],
     lastWinTime : [Miks -> Nat],
     heightToWinner : [Heights -> Miks \cup {NoMik}],
     heightToTime : [Heights -> Nat],
     lifetime : [Miks -> Nat],
     mikHeights : [Miks -> [Heights -> Nat]],     \* a multiset of heights each
     cachedActive : Nat,
     cachedAt : Heights \cup {NoHeight}]

Clear ==
    [lastWinHeight |-> [m \in Miks |-> NoHeight],
     lastWinTime |-> [m \in Miks |-> NoTime],
     heightToWinner |-> [h \in Heights |-> NoMik],
     heightToTime |-> [h \in Heights |-> NoTime],
     lifetime |-> [m \in Miks |-> 0],
     mikHeights |-> [m \in Miks |-> [h \in Heights |-> 0]],
     cachedActive |-> 0,
     cachedAt |-> NoHeight]

-----------------------------------------------------------------------------
(* Queries.                                                                   *)

UniqueWinners_OneMore(winner, height) ==
    {winner[h] : h \in {k \in Heights : /\ winner[k] # NoMik
                                        /\ height - ActiveWindow <= k
                                        /\ k <= height}}

UniqueWinners(winner, height) ==
    {winner[h] : h \in {k \in Heights : /\ winner[k] # NoMik
                                        /\ height - ActiveWindow + 1 <= k
                                        /\ k <= height}}

RecalcActiveMiners(t, height) ==
    IF t.cachedAt = height THEN t
    ELSE [t EXCEPT !.cachedActive = Cardinality(UniqueWinners(t.heightToWinner, height)),
                   !.cachedAt = height]

CalculateCooldown(miners) ==
    Min({Max({(miners * 67) \div 100, MIN_COOLDOWN}), MAX_COOLDOWN})

(* The two rules: at TimeDecayHeight and above every DecaySeconds since the   *)
(* last win take a block off the cooldown; below, the number of blocks counts *)
(* and, until it was retired, the time of as many blocks.                     *)
InCooldown(last, lastTime, cooldown, height, now) ==
    LET since == IF lastTime = NoTime THEN 0 ELSE Max({0, now - lastTime})
        expired == /\ height < ExpiryRetiredHeight
                   /\ lastTime # NoTime
                   /\ now - lastTime >= cooldown * TargetBlockTime
    IN  /\ last # NoHeight
        /\ IF height >= TimeDecayHeight
           THEN height - last < Max({0, cooldown - since \div DecaySeconds})
           ELSE height - last < cooldown /\ ~ expired

IsInCooldown(t, m, height, now) ==
    InCooldown(t.lastWinHeight[m], t.lastWinTime[m],
               CalculateCooldown(RecalcActiveMiners(t, height).cachedActive), height, now)

LatestWin(winner, m) ==
    LET wins == {h \in Heights : winner[h] = m}
    IN  IF wins = {} THEN NoHeight ELSE Max(wins)

(* The same question as if the height x had been disconnected, answered on    *)
(* copies of the tables.                                                      *)
IsInCooldownExcludingHeight_KeepsWin(t, m, height, now, x) ==
    LET winner == [t.heightToWinner EXCEPT ![x] = NoMik] IN
    InCooldown(t.lastWinHeight[m], t.lastWinTime[m],
               CalculateCooldown(Cardinality(UniqueWinners(winner, height))), height, now)

IsInCooldownExcludingHeight(t, m, height, now, x) ==
    LET winner == [t.heightToWinner EXCEPT ![x] = NoMik]
        time == [t.heightToTime EXCEPT ![x] = NoTime]
        last == LatestWin(winner, m)
        lost == m = t.heightToWinner[x]
    IN  IF t.heightToWinner[x] = NoMik THEN IsInCooldown(t, m, height, now)
        ELSE InCooldown(IF lost THEN last ELSE t.lastWinHeight[m],
                        CASE ~ lost -> t.lastWinTime[m]
                          [] lost /\ last # NoHeight -> time[last]
                          [] OTHER -> NoTime,
                        CalculateCooldown(Cardinality(UniqueWinners(winner, height))),
                        height, now)

GetActiveMinersExcludingHeight(t, height, x) ==
    Cardinality(UniqueWinners([t.heightToWinner EXCEPT ![x] = NoMik], height))

GetBlockCountInWindow(t, m, height, window) ==
    Cardinality({h \in Heights : /\ t.heightToWinner[h] = m
                                 /\ height - window + 1 <= h
                                 /\ h <= height})

GetLifetimeMinerCount(t) == Cardinality({m \in Miks : t.lifetime[m] > 0})

-----------------------------------------------------------------------------
(* Block callbacks.                                                           *)

(* The winner is entered everywhere, then the heights below the window are    *)
(* evicted, and with them the last win of a miner that has no later one.      *)
OnBlockConnected(t, height, m, time) ==
    LET cutoff == height - ActiveWindow + 1
        winner == [t.heightToWinner EXCEPT ![height] = m]
        last == [t.lastWinHeight EXCEPT ![m] = height]
        evicted(k) == /\ last[k] # NoHeight
                      /\ last[k] < cutoff
                      /\ winner[last[k]] = k
        kept == [t EXCEPT
            !.lastWinHeight = [k \in Miks |-> IF evicted(k) THEN NoHeight ELSE last[k]],
            !.lastWinTime = [k \in Miks |-> IF evicted(k) THEN NoTime
                                            ELSE IF k = m THEN time ELSE t.lastWinTime[k]],
            !.heightToWinner = [h \in Heights |-> IF h < cutoff THEN NoMik ELSE winner[h]],
            !.heightToTime = [h \in Heights |->
                IF h = height THEN time
                ELSE IF h < cutoff /\ winner[h] # NoMik THEN NoTime ELSE t.heightToTime[h]],
            !.lifetime[m] = @ + 1,
            !.mikHeights[m][height] = @ + 1]
    IN  RecalcActiveMiners(kept, height)

WinnerAt_WindowOnly(t, height) == t.heightToWinner[height]

(* Who won a height: from the window or, when the height was evicted, from    *)
(* the lifetime table, scanned in the order of the addresses.                 *)
WinnerAt(t, height) ==
    LET known == {m \in Miks : t.mikHeights[m][height] > 0} IN
    CASE t.heightToWinner[height] # NoMik -> t.heightToWinner[height]
      [] t.heightToWinner[height] = NoMik /\ known # {} -> Min(known)
      [] OTHER -> NoMik

(* A height that was never tracked changes nothing; one that was evicted      *)
(* leaves the last win alone.                                                 *)
OnBlockDisconnected(t, height) ==
    LET m == WinnerAt(t, height)
        inWindow == t.heightToWinner[height] # NoMik
        winner == [t.heightToWinner EXCEPT ![height] = NoMik]
        time == [t.heightToTime EXCEPT ![height] = NoTime]
        last == LatestWin(winner, m)
    IN  IF m = NoMik THEN t
        ELSE [t EXCEPT
                !.heightToWinner = winner,
                !.heightToTime = time,
                !.lifetime[m] = Max({0, @ - 1}),
                !.mikHeights[m][height] = Max({0, @ - 1}),
                !.lastWinHeight[m] = IF inWindow THEN last ELSE @,
                !.lastWinTime[m] = CASE ~ inWindow -> @
                                     [] inWindow /\ last # NoHeight -> time[last]
                                     [] OTHER -> NoTime,
                !.cachedAt = NoHeight]
=============================================================================
