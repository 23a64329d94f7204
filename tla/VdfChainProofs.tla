---------------------------- MODULE VdfChainProofs ----------------------------
(* What the cooldown tracker answers, for every chain and every interleaving.  *)
(* Two of the properties follow from an invariant of the tracker alone (a      *)
(* count it has cached is the count of its window unless the cached height was *)
(* entered since), the other two from an invariant that says what each of its  *)
(* tables holds of the blocks of the chain.                                    *)
EXTENDS VdfChain, FiniteSetTheorems, SequenceTheorems, WellFoundedInduction, TLAPS

-----------------------------------------------------------------------------
(* Sets of numbers. *)

(* Among finite sets there is one that none of the others is part of. *)
LEMMA LeastFiniteSet ==
  ASSUME NEW S, NEW T \in SUBSET FiniteSubsetsOf(S), T # {}
  PROVE  \E m \in T : \A n \in T : n \subseteq m => n = m
<1>1. \E m \in T : \A n \in T : ~(<<n, m>> \in StrictSubsetOrdering(S))
  BY WFMin, FS_StrictSubsetOrderingWellFounded
<1>2. \A n \in T : n \in SUBSET S
  BY DEF FiniteSubsetsOf
<1> QED BY <1>1, <1>2, Zenon DEF StrictSubsetOrdering

(* Max and Min (FiniteSetsExt) are what their names say.                      *)
LEMMA MaxFacts ==
  ASSUME NEW S \in SUBSET Int, IsFiniteSet(S), S # {}
  PROVE  Max(S) \in S /\ \A x \in S : x <= Max(S)
<1> DEFINE Above(x) == {y \in S : y > x}
           T == {Above(x) : x \in S}
<1>1. T \in SUBSET FiniteSubsetsOf(S)
  BY FS_Subset DEF FiniteSubsetsOf
<1>2. PICK x \in S : \A y \in S : Above(y) \subseteq Above(x) => Above(y) = Above(x)
  <2>1. T # {}
    BY Zenon
  <2>2. \E m \in T : \A n \in T : n \subseteq m => n = m
    <3> HIDE DEF T
    <3> QED BY <1>1, <2>1, LeastFiniteSet
  <2>3. PICK x \in S : \A n \in T : n \subseteq Above(x) => n = Above(x)
    BY <2>2, Zenon
  <2>4. \A y \in S : Above(y) \in T
    OBVIOUS
  <2> QED
    <3> HIDE DEF T, Above
    <3> QED BY <2>3, <2>4
<1>3. ASSUME NEW y \in S, y > x
      PROVE  FALSE
  <2>1. x \in Int /\ y \in Int /\ \A z \in S : z \in Int
    OBVIOUS
  <2>2. Above(y) \subseteq Above(x)
    <3>1. ASSUME NEW z \in S, z > y PROVE z > x
      <4>1. z \in Int
        BY <2>1
      <4> QED BY <3>1, <4>1, <1>3, <2>1
    <3> QED BY <3>1, Zenon
  <2>3. y \in Above(x) /\ y \notin Above(y)
    BY <1>3, <2>1
  <2> QED BY <2>2, <2>3, <1>2
<1>4. \A y \in S : x >= y
  <2>1. x \in Int /\ \A z \in S : z \in Int
    OBVIOUS
  <2> QED BY <1>3, <2>1
<1> QED BY <1>4, Zenon DEF Max

LEMMA MinFacts ==
  ASSUME NEW S \in SUBSET Int, IsFiniteSet(S), S # {}
  PROVE  Min(S) \in S /\ \A x \in S : Min(S) <= x
<1> DEFINE Below(x) == {y \in S : y < x}
           T == {Below(x) : x \in S}
<1>1. T \in SUBSET FiniteSubsetsOf(S)
  BY FS_Subset DEF FiniteSubsetsOf
<1>2. PICK x \in S : \A y \in S : Below(y) \subseteq Below(x) => Below(y) = Below(x)
  <2>1. T # {}
    BY Zenon
  <2>2. \E m \in T : \A n \in T : n \subseteq m => n = m
    <3> HIDE DEF T
    <3> QED BY <1>1, <2>1, LeastFiniteSet
  <2>3. PICK x \in S : \A n \in T : n \subseteq Below(x) => n = Below(x)
    BY <2>2
  <2>4. \A y \in S : Below(y) \in T
    OBVIOUS
  <2> QED
    <3> HIDE DEF T, Below
    <3> QED BY <2>3, <2>4
<1>3. ASSUME NEW y \in S, y < x
      PROVE  FALSE
  <2>1. x \in Int /\ y \in Int /\ \A z \in S : z \in Int
    OBVIOUS
  <2>2. Below(y) \subseteq Below(x)
    <3>1. ASSUME NEW z \in S, z < y PROVE z < x
      <4>1. z \in Int
        BY <2>1
      <4> QED BY <3>1, <4>1, <1>3, <2>1
    <3> QED BY <3>1, Zenon
  <2>3. y \in Below(x) /\ y \notin Below(y)
    BY <1>3, <2>1
  <2> QED BY <2>2, <2>3, <1>2
<1>4. \A y \in S : x <= y
  <2>1. x \in Int /\ \A z \in S : z \in Int
    OBVIOUS
  <2> QED BY <1>3, <2>1
<1> QED BY <1>4, Zenon DEF Min

(* Induction, with a set of numbers in the place of a predicate. *)
LEMMA Induction ==
    ASSUME NEW S \in SUBSET Nat, 0 \in S, \A n \in S : n + 1 \in S
    PROVE  \A n \in Nat : n \in S
  <1> SUFFICES ASSUME NEW m \in Nat, m \notin S
               PROVE  FALSE
    OBVIOUS
  <1> DEFINE T == {0..n : n \in Nat \ S}
  <1>1. T \in SUBSET FiniteSubsetsOf(Nat)
    <2>1. \A n \in Nat : IsFiniteSet(0..n)
      BY FS_Interval
    <2> QED BY <2>1 DEF FiniteSubsetsOf
  <1>2. T # {}
    OBVIOUS
  <1>3. PICK X \in T : \A Y \in T : Y \subseteq X => Y = X
    <2> HIDE DEF T
    <2> QED BY <1>1, <1>2, LeastFiniteSet
  <1>4. PICK n \in Nat \ S : X = 0..n
    OBVIOUS
  <1>5. n # 0 /\ n - 1 \in Nat
    OBVIOUS
  <1>6. 0..(n - 1) \subseteq 0..n /\ 0..(n - 1) # 0..n
    <2>1. n \in 0..n /\ n \notin 0..(n - 1)
      OBVIOUS
    <2>2. 0..(n - 1) \subseteq 0..n
      OBVIOUS
    <2> QED BY <2>1, <2>2
  <1>7. n - 1 \in S
    BY <1>3, <1>4, <1>5, <1>6, Zenon
  <1>8. (n - 1) + 1 \in S
    BY <1>7
  <1> QED BY <1>8

LEMMA Numbers ==
  /\ MaxHeight \in Nat \ {0} /\ ActiveWindow \in Nat \ {0} /\ Heights = 1 .. MaxHeight
  /\ Heights \in SUBSET Nat /\ 0 \notin Heights /\ IsFiniteSet(Heights)
  /\ Miks \in SUBSET Nat /\ 0 \notin Miks /\ IsFiniteSet(Miks)
<1>1. {MaxHeight, ActiveWindow} \subseteq Nat \ {0} /\ Miks \subseteq Nat \ {0}
      /\ IsFiniteSet(Miks)
  BY TrackerAssumption DEF NoMik
<1>2. MaxHeight \in Nat \ {0}
  BY <1>1
<1>3. IsFiniteSet(1 .. MaxHeight)
  BY <1>2, FS_Interval
<1> QED BY <1>1, <1>2, <1>3 DEF Heights

LEMMA BlockFacts ==
  ASSUME NEW b \in Blocks
  PROVE  b.mik \in Miks /\ b.time \in Nat \ {0} /\ b # NoBlock
<1>1. b.mik \in Miks /\ b.time \in Nat \ {0}
  BY ChainAssumption, Zenon DEF NoTime
<1>2. NoBlock.mik = 0
  BY DEF NoBlock, NoMik
<1> QED BY <1>1, <1>2, Numbers

(* A chain without its tip.                                                    *)
LEMMA CutFacts ==
  ASSUME NEW c \in Seq(Blocks), Len(c) >= 1
  PROVE  LET below == SubSeq(c, 1, Len(c) - 1)
         IN  /\ below \in Seq(Blocks) /\ Len(below) = Len(c) - 1
             /\ \A k \in 1 .. Len(c) - 1 : below[k] = c[k]
<1> DEFINE n == Len(c) - 1
           below == SubSeq(c, 1, n)
<1>1. n \in Nat /\ 1 \in Int /\ n \in Int /\ \A k \in 1 .. n : c[k] \in Blocks
  OBVIOUS
<1> HIDE DEF n
<1>2. /\ below \in Seq(Blocks) /\ Len(below) = (IF 1 <= n THEN n - 1 + 1 ELSE 0)
      /\ \A k \in 1 .. n - 1 + 1 : below[k] = c[1 + k - 1]
  BY <1>1, SubSeqProperties
<1>3. Len(below) = n
  BY <1>1, <1>2
<1>4. \A k \in 1 .. n : k \in 1 .. n - 1 + 1 /\ 1 + k - 1 = k
  BY <1>1
<1>5. \A k \in 1 .. n : below[k] = c[k]
  BY <1>2, <1>4, Zenon
<1> QED BY <1>2, <1>3, <1>5 DEF n

(* The heights of the window of a table of winners, and their count.          *)
WindowOf(w, h) == {k \in Heights : w[k] # NoMik /\ h - ActiveWindow + 1 <= k /\ k <= h}

LEMMA WinnersFinite ==
  ASSUME NEW w, NEW h
  PROVE  /\ IsFiniteSet(UniqueWinners(w, h)) /\ Cardinality(UniqueWinners(w, h)) \in Nat
         /\ Cardinality(UniqueWinners(w, h)) <= Cardinality(WindowOf(w, h))
<1> DEFINE S == WindowOf(w, h)
           f == [k \in S |-> w[k]]
<1>1. IsFiniteSet(S)
  BY Numbers, FS_Subset DEF WindowOf
<1>2. UniqueWinners(w, h) = {w[k] : k \in S}
  BY DEF UniqueWinners, WindowOf
<1>3. f \in Surjection(S, {w[k] : k \in S})
  <2> HIDE DEF S
  <2> QED BY DEF Surjection
<1> HIDE DEF S, f
<1>4. IsFiniteSet({w[k] : k \in S}) /\ Cardinality({w[k] : k \in S}) <= Cardinality(S)
  BY <1>1, <1>3, FS_Surjection
<1>5. Cardinality({w[k] : k \in S}) \in Nat
  BY <1>4, FS_CardinalityType
<1> QED BY <1>2, <1>4, <1>5 DEF S

-----------------------------------------------------------------------------
(* What each operation of the tracker leaves in its tables. *)

SameTables(r, t) ==
  /\ r.lastWinHeight = t.lastWinHeight /\ r.lastWinTime = t.lastWinTime
  /\ r.heightToWinner = t.heightToWinner /\ r.heightToTime = t.heightToTime
  /\ r.lifetime = t.lifetime /\ r.mikHeights = t.mikHeights

(* A cached count is stale only when the height it was made for has been      *)
(* entered since: OnBlockConnected does not count again for that height.      *)
CacheFresh(t) ==
  t.cachedAt # NoHeight /\ t.heightToWinner[t.cachedAt] = NoMik
    => t.cachedActive = Cardinality(UniqueWinners(t.heightToWinner, t.cachedAt))

Sound(t) == t \in Tracker /\ CacheFresh(t)

LEMMA RecalcFacts ==
  ASSUME NEW t \in Tracker, NEW h \in Heights
  PROVE  LET r == RecalcActiveMiners(t, h)
         IN  /\ r \in Tracker /\ SameTables(r, t) /\ r.cachedAt = h
             /\ CacheFresh(t) => CacheFresh(r)
             /\ CacheFresh(t) /\ t.heightToWinner[h] = NoMik =>
                    r.cachedActive = Cardinality(UniqueWinners(t.heightToWinner, h))
<1>1. CASE t.cachedAt = h
  <2>1. RecalcActiveMiners(t, h) = t /\ h # NoHeight
    BY <1>1, Numbers DEF RecalcActiveMiners, NoHeight
  <2> QED BY <1>1, <2>1 DEF CacheFresh, SameTables
<1>2. CASE t.cachedAt # h
  <2> DEFINE n == Cardinality(UniqueWinners(t.heightToWinner, h))
             r == [t EXCEPT !.cachedActive = n, !.cachedAt = h]
  <2>1. RecalcActiveMiners(t, h) = r /\ n \in Nat
    BY <1>2, WinnersFinite DEF RecalcActiveMiners
  <2>2. r.cachedActive = n /\ r.cachedAt = h /\ SameTables(r, t) /\ r \in Tracker
    <3> HIDE DEF n
    <3> QED BY <2>1, Zenon DEF Tracker, SameTables
  <2> HIDE DEF r
  <2>3. CacheFresh(r)
    BY <2>2 DEF CacheFresh, SameTables
  <2> QED BY <2>1, <2>2, <2>3
<1> QED BY <1>1, <1>2

LEMMA AskedFacts ==
  ASSUME NEW t, Sound(t), NEW m \in Miks, NEW h \in Heights
  PROVE  Sound(Asked(t, m, h)) /\ SameTables(Asked(t, m, h), t)
<1>1. Sound(RecalcActiveMiners(t, h)) /\ SameTables(RecalcActiveMiners(t, h), t)
  BY RecalcFacts DEF Sound
<1> QED BY <1>1 DEF Asked, SameTables

(* The last win of a is evicted when a block is connected at height h.         *)
Gone(t, h, a) ==
  /\ t.lastWinHeight[a] # NoHeight /\ t.lastWinHeight[a] < h - ActiveWindow + 1
  /\ t.heightToWinner[t.lastWinHeight[a]] = a

Connected(r, t, h, m, time) ==
  LET cutoff == h - ActiveWindow + 1 IN
  /\ \A k \in Heights :
       /\ r.heightToWinner[k] = IF k = h THEN m
                                ELSE IF k < cutoff THEN NoMik ELSE t.heightToWinner[k]
       /\ r.heightToTime[k] = IF k = h THEN time
                              ELSE IF k < cutoff /\ t.heightToWinner[k] # NoMik THEN NoTime
                              ELSE t.heightToTime[k]
  /\ \A a \in Miks :
       /\ r.lastWinHeight[a] = IF a = m THEN h
                               ELSE IF Gone(t, h, a) THEN NoHeight ELSE t.lastWinHeight[a]
       /\ r.lastWinTime[a] = IF a = m THEN time
                             ELSE IF Gone(t, h, a) THEN NoTime ELSE t.lastWinTime[a]
       /\ r.lifetime[a] = IF a = m THEN t.lifetime[a] + 1 ELSE t.lifetime[a]
       /\ \A k \in Heights :
            r.mikHeights[a][k] = IF a = m /\ k = h THEN t.mikHeights[a][k] + 1
                                 ELSE t.mikHeights[a][k]

LEMMA ConnectedFacts ==
  ASSUME NEW t \in Tracker, NEW h \in Heights, NEW m \in Miks, NEW time \in Nat
  PROVE  LET r == OnBlockConnected(t, h, m, time)
         IN  Sound(r) /\ Connected(r, t, h, m, time)
<1> DEFINE cutoff == h - ActiveWindow + 1
           winner == [t.heightToWinner EXCEPT ![h] = m]
           last == [t.lastWinHeight EXCEPT ![m] = h]
           evicted(k) == last[k] # NoHeight /\ last[k] < cutoff /\ winner[last[k]] = k
           lwh == [k \in Miks |-> IF evicted(k) THEN NoHeight ELSE last[k]]
           lwt == [k \in Miks |-> IF evicted(k) THEN NoTime
                                  ELSE IF k = m THEN time ELSE t.lastWinTime[k]]
           htw == [k \in Heights |-> IF k < cutoff THEN NoMik ELSE winner[k]]
           htt == [k \in Heights |->
                     IF k = h THEN time
                     ELSE IF k < cutoff /\ winner[k] # NoMik THEN NoTime ELSE t.heightToTime[k]]
           life == [t.lifetime EXCEPT ![m] = @ + 1]
           mh == [t.mikHeights EXCEPT ![m][h] = @ + 1]
           kept == [t EXCEPT !.lastWinHeight = lwh, !.lastWinTime = lwt,
                             !.heightToWinner = htw, !.heightToTime = htt,
                             !.lifetime[m] = @ + 1, !.mikHeights[m][h] = @ + 1]
<1>0. /\ t.lastWinHeight \in [Miks -> Heights \cup {0}] /\ t.lastWinTime \in [Miks -> Nat]
      /\ t.heightToWinner \in [Heights -> Miks \cup {0}] /\ t.heightToTime \in [Heights -> Nat]
      /\ t.lifetime \in [Miks -> Nat] /\ t.mikHeights \in [Miks -> [Heights -> Nat]]
      /\ t.cachedActive \in Nat /\ t.cachedAt \in Heights \cup {0}
  BY DEF Tracker, NoMik, NoHeight
<1>1. h \in Nat /\ cutoff \in Int /\ cutoff <= h /\ h # 0 /\ m # 0
  BY Numbers
<1>2. \A k \in Heights : winner[k] = IF k = h THEN m ELSE t.heightToWinner[k]
  BY <1>0
<1>3. \A a \in Miks : last[a] = IF a = m THEN h ELSE t.lastWinHeight[a]
  BY <1>0
<1>4. \A a \in Miks : evicted(a) <=> a # m /\ Gone(t, h, a)
  <2> TAKE a \in Miks
  <2>1. CASE a = m
    BY <1>1, <1>3, <2>1
  <2>2. CASE a # m
    <3>1. last[a] = t.lastWinHeight[a] /\ last[a] \in Heights \cup {0}
      BY <1>0, <1>3, <2>2
    <3>2. last[a] # 0 /\ last[a] < cutoff => winner[last[a]] = t.heightToWinner[last[a]]
      BY <1>1, <1>2, <3>1, Numbers
    <3> QED BY <2>2, <3>1, <3>2, Zenon DEF Gone, NoHeight
  <2> QED BY <2>1, <2>2
<1> HIDE DEF winner, last
<1>5. \A k \in Heights : htw[k] = IF k = h THEN m
                                  ELSE IF k < cutoff THEN NoMik ELSE t.heightToWinner[k]
  BY <1>1, <1>2
<1>6. \A k \in Heights : htt[k] = IF k = h THEN time
                              ELSE IF k < cutoff /\ t.heightToWinner[k] # NoMik THEN NoTime
                              ELSE t.heightToTime[k]
  BY <1>2
<1>7. \A a \in Miks :
         /\ lwh[a] = IF a = m THEN h ELSE IF Gone(t, h, a) THEN NoHeight ELSE t.lastWinHeight[a]
         /\ lwt[a] = IF a = m THEN time ELSE IF Gone(t, h, a) THEN NoTime ELSE t.lastWinTime[a]
  <2> HIDE DEF evicted
  <2> QED BY <1>3, <1>4
<1>8. /\ lwh \in [Miks -> Heights \cup {0}] /\ lwt \in [Miks -> Nat]
      /\ htw \in [Heights -> Miks \cup {0}] /\ htt \in [Heights -> Nat]
  <2>1. \A a \in Miks : lwh[a] \in Heights \cup {0} /\ lwt[a] \in Nat
    BY <1>0, <1>7 DEF NoHeight, NoTime
  <2>2. \A k \in Heights : htw[k] \in Miks \cup {0} /\ htt[k] \in Nat
    BY <1>0, <1>5, <1>6 DEF NoMik, NoTime
  <2>3. /\ lwh = [a \in Miks |-> lwh[a]] /\ lwt = [a \in Miks |-> lwt[a]]
        /\ htw = [k \in Heights |-> htw[k]] /\ htt = [k \in Heights |-> htt[k]]
    OBVIOUS
  <2> HIDE DEF lwh, lwt, htw, htt
  <2> QED BY <2>1, <2>2, <2>3
<1> HIDE DEF lwh, lwt, htw, htt, evicted
<1>9. /\ \A a \in Miks : life[a] = IF a = m THEN t.lifetime[a] + 1 ELSE t.lifetime[a]
      /\ life \in [Miks -> Nat]
  BY <1>0
<1>10. /\ \A a \in Miks, k \in Heights :
             mh[a][k] = IF a = m /\ k = h THEN t.mikHeights[a][k] + 1 ELSE t.mikHeights[a][k]
       /\ mh \in [Miks -> [Heights -> Nat]]
  BY <1>0
<1>11. /\ kept \in Tracker
       /\ kept.lastWinHeight = lwh /\ kept.lastWinTime = lwt /\ kept.heightToWinner = htw
       /\ kept.heightToTime = htt /\ kept.lifetime = life /\ kept.mikHeights = mh
       /\ kept.cachedAt = t.cachedAt
  <2>1. kept = [t EXCEPT !.lastWinHeight = lwh, !.lastWinTime = lwt, !.heightToWinner = htw,
                         !.heightToTime = htt, !.lifetime = life, !.mikHeights = mh]
    BY DEF Tracker
  <2> HIDE DEF life, mh, kept
  <2> QED BY <1>8, <1>9, <1>10, <2>1, Zenon DEF Tracker, NoMik, NoHeight
<1>12. OnBlockConnected(t, h, m, time) = RecalcActiveMiners(kept, h)
  BY DEF OnBlockConnected, lwh, lwt, htw, htt, evicted, last, winner
<1> HIDE DEF kept, life, mh
<1> DEFINE r == RecalcActiveMiners(kept, h)
<1>13. r \in Tracker /\ SameTables(r, kept) /\ r.cachedAt = h
  BY <1>11, RecalcFacts
<1> HIDE DEF r
<1>14. Connected(r, t, h, m, time)
  BY <1>5, <1>6, <1>7, <1>9, <1>10, <1>11, <1>13 DEF Connected, SameTables
<1>15. r.heightToWinner[h] # NoMik
  BY <1>1, <1>14 DEF Connected, NoMik
<1>16. CacheFresh(r)
  BY <1>13, <1>15, Zenon DEF CacheFresh
<1> QED BY <1>12, <1>13, <1>14, <1>16, Zenon DEF Sound, r

(* x is the latest height of m in the table w, NoHeight if there is none.      *)
IsLatest(w, m, x) ==
  \/ x = NoHeight /\ \A k \in Heights : w[k] # m
  \/ x \in Heights /\ w[x] = m /\ \A k \in Heights : w[k] = m => k <= x

LEMMA LatestFacts ==
  ASSUME NEW w, NEW m
  PROVE  IsLatest(w, m, LatestWin(w, m)) /\ LatestWin(w, m) \in Heights \cup {NoHeight}
<1> DEFINE wins == {k \in Heights : w[k] = m}
<1>1. LatestWin(w, m) = IF wins = {} THEN NoHeight ELSE Max(wins)
  BY DEF LatestWin
<1>2. wins \in SUBSET Int /\ IsFiniteSet(wins)
  BY Numbers, FS_Subset
<1>3. CASE wins = {}
  BY <1>1, <1>3 DEF IsLatest
<1>4. CASE wins # {}
  <2>1. Max(wins) \in wins /\ \A x \in wins : x <= Max(wins)
    <3> HIDE DEF wins
    <3> QED BY <1>2, <1>4, MaxFacts
  <2> QED BY <1>1, <1>4, <2>1 DEF IsLatest
<1> QED BY <1>3, <1>4

LEMMA LatestUnique ==
  ASSUME NEW w, NEW m, NEW x, NEW y, IsLatest(w, m, x), IsLatest(w, m, y)
  PROVE  x = y
BY Numbers DEF IsLatest

LEMMA WinnerFacts ==
  ASSUME NEW t \in Tracker, NEW h \in Heights
  PROVE  /\ WinnerAt(t, h) \in Miks \cup {NoMik}
         /\ t.heightToWinner[h] # NoMik => WinnerAt(t, h) = t.heightToWinner[h]
         /\ t.heightToWinner[h] = NoMik /\ WinnerAt(t, h) # NoMik
              => t.mikHeights[WinnerAt(t, h)][h] > 0
         /\ t.heightToWinner[h] = NoMik /\ WinnerAt(t, h) = NoMik
              => \A m \in Miks : ~(t.mikHeights[m][h] > 0)
<1> DEFINE known == {m \in Miks : t.mikHeights[m][h] > 0}
<1>1. t.heightToWinner[h] \in Miks \cup {NoMik}
  BY DEF Tracker
<1>2. CASE t.heightToWinner[h] # NoMik
  BY <1>1, <1>2 DEF WinnerAt
<1>3. CASE t.heightToWinner[h] = NoMik /\ known = {}
  <2>1. WinnerAt(t, h) = NoMik
    BY <1>3 DEF WinnerAt
  <2> QED BY <1>3, <2>1
<1>4. CASE t.heightToWinner[h] = NoMik /\ known # {}
  <2>1. WinnerAt(t, h) = Min(known)
    BY <1>4 DEF WinnerAt
  <2>2. Min(known) \in known
    <3>1. known \in SUBSET Miks
      OBVIOUS
    <3> HIDE DEF known
    <3>2. IsFiniteSet(known)
      BY <3>1, Numbers, FS_Subset, Zenon
    <3>3. known \in SUBSET Int
      BY <3>1, Numbers
    <3> QED BY <1>4, <3>2, <3>3, MinFacts
  <2>3. Min(known) # NoMik
    BY <2>2, Numbers DEF NoMik
  <2> QED BY <1>4, <2>1, <2>2, <2>3
<1> QED BY <1>2, <1>3, <1>4

OneLess(n) == IF n > 0 THEN n - 1 ELSE 0

Disconnected(r, t, h, m) ==
  LET last == LatestWin(r.heightToWinner, m)
      inWindow == t.heightToWinner[h] # NoMik
  IN
  /\ r.cachedAt = NoHeight
  /\ r.heightToWinner = [t.heightToWinner EXCEPT ![h] = NoMik]
  /\ r.heightToTime = [t.heightToTime EXCEPT ![h] = NoTime]
  /\ \A a \in Miks :
       /\ r.lastWinHeight[a] = IF a = m /\ inWindow THEN last ELSE t.lastWinHeight[a]
       /\ r.lastWinTime[a] = IF a = m /\ inWindow
                             THEN IF last # NoHeight THEN r.heightToTime[last] ELSE NoTime
                             ELSE t.lastWinTime[a]
       /\ r.lifetime[a] = IF a = m THEN OneLess(t.lifetime[a]) ELSE t.lifetime[a]
       /\ \A k \in Heights :
            r.mikHeights[a][k] = IF a = m /\ k = h THEN OneLess(t.mikHeights[a][k])
                                 ELSE t.mikHeights[a][k]

LEMMA MaxZero ==
  ASSUME NEW n \in Nat
  PROVE  Max({0, n - 1}) = OneLess(n) /\ OneLess(n) \in Nat
<1>1. {0, n - 1} \in SUBSET Int /\ IsFiniteSet({0, n - 1}) /\ {0, n - 1} # {}
  <2>1. IsFiniteSet({0} \cup {n - 1})
    BY FS_Singleton, FS_AddElement, Zenon
  <2>2. {0} \cup {n - 1} = {0, n - 1}
    OBVIOUS
  <2> QED BY <2>1, <2>2
<1>2. /\ Max({0, n - 1}) \in {0, n - 1}
      /\ \A x \in {0, n - 1} : x <= Max({0, n - 1})
  BY <1>1, MaxFacts
<1> QED BY <1>2 DEF OneLess

LEMMA DisconnectedFacts ==
  ASSUME NEW t, Sound(t), NEW h \in Heights
  PROVE  LET r == OnBlockDisconnected(t, h)
             m == WinnerAt(t, h)
         IN  /\ Sound(r)
             /\ m = NoMik => r = t
             /\ m # NoMik => Disconnected(r, t, h, m)
<1> DEFINE m == WinnerAt(t, h)
           inWindow == t.heightToWinner[h] # NoMik
           winner == [t.heightToWinner EXCEPT ![h] = NoMik]
           time == [t.heightToTime EXCEPT ![h] = NoTime]
           last == LatestWin(winner, m)
           life == [t.lifetime EXCEPT ![m] = Max({0, @ - 1})]
           mh == [t.mikHeights EXCEPT ![m][h] = Max({0, @ - 1})]
           lwh == [t.lastWinHeight EXCEPT ![m] = IF inWindow THEN last ELSE @]
           lwt == [t.lastWinTime EXCEPT ![m] = CASE ~ inWindow -> @
                                                 [] inWindow /\ last # NoHeight -> time[last]
                                                 [] OTHER -> NoTime]
           r == [t EXCEPT !.heightToWinner = winner, !.heightToTime = time,
                          !.lifetime = life, !.mikHeights = mh,
                          !.lastWinHeight = lwh, !.lastWinTime = lwt,
                          !.cachedAt = NoHeight]
<1>0. /\ t.lastWinHeight \in [Miks -> Heights \cup {0}] /\ t.lastWinTime \in [Miks -> Nat]
      /\ t.heightToWinner \in [Heights -> Miks \cup {0}] /\ t.heightToTime \in [Heights -> Nat]
      /\ t.lifetime \in [Miks -> Nat] /\ t.mikHeights \in [Miks -> [Heights -> Nat]]
      /\ t \in Tracker
  BY DEF Sound, Tracker, NoMik, NoHeight
<1>1. m \in Miks \cup {NoMik}
  BY <1>0, WinnerFacts
<1>2. CASE m = NoMik
  BY <1>2 DEF OnBlockDisconnected
<1>3. CASE m # NoMik
  <2>0. m \in Miks /\ last \in Heights \cup {0}
    BY <1>1, <1>3, LatestFacts DEF NoHeight
  <2>1. OnBlockDisconnected(t, h) = r
    <3> HIDE DEF m
    <3> QED BY <1>0, <1>3, <2>0 DEF OnBlockDisconnected, Tracker, m
  <2>2. winner \in [Heights -> Miks \cup {0}] /\ time \in [Heights -> Nat]
    BY <1>0 DEF NoMik, NoTime
  <2> HIDE DEF m, inWindow, winner, time, last
  <2>3. /\ life \in [Miks -> Nat]
        /\ \A a \in Miks : life[a] = IF a = m THEN OneLess(t.lifetime[a]) ELSE t.lifetime[a]
    <3>1. t.lifetime[m] \in Nat
      BY <1>0, <2>0
    <3>2. life = [t.lifetime EXCEPT ![m] = OneLess(t.lifetime[m])]
          /\ OneLess(t.lifetime[m]) \in Nat
      BY <3>1, MaxZero
    <3> HIDE DEF life
    <3> QED BY <1>0, <2>0, <3>2
  <2>4. /\ mh \in [Miks -> [Heights -> Nat]]
        /\ \A a \in Miks, k \in Heights :
             mh[a][k] = IF a = m /\ k = h THEN OneLess(t.mikHeights[a][k])
                        ELSE t.mikHeights[a][k]
    <3>1. t.mikHeights[m][h] \in Nat
      BY <1>0, <2>0
    <3>2. mh = [t.mikHeights EXCEPT ![m][h] = OneLess(t.mikHeights[m][h])]
          /\ OneLess(t.mikHeights[m][h]) \in Nat
      BY <3>1, MaxZero
    <3> HIDE DEF mh
    <3> QED BY <1>0, <2>0, <3>2
  <2>5. /\ lwh \in [Miks -> Heights \cup {0}]
        /\ \A a \in Miks : lwh[a] = IF a = m /\ inWindow THEN last ELSE t.lastWinHeight[a]
    BY <1>0, <2>0
  <2>6. /\ lwt \in [Miks -> Nat]
        /\ \A a \in Miks : lwt[a] = IF a = m /\ inWindow
                                    THEN IF last # NoHeight THEN time[last] ELSE NoTime
                                    ELSE t.lastWinTime[a]
    <3> DEFINE v == IF inWindow THEN IF last # NoHeight THEN time[last] ELSE NoTime
                    ELSE t.lastWinTime[m]
    <3>1. v \in Nat
      BY <1>0, <2>0, <2>2 DEF NoHeight, NoTime
    <3>2. lwt = [t.lastWinTime EXCEPT ![m] = v]
      BY Zenon
    <3> HIDE DEF lwt
    <3>3. v = IF inWindow THEN IF last # NoHeight THEN time[last] ELSE NoTime
              ELSE t.lastWinTime[m]
      OBVIOUS
    <3> HIDE DEF v
    <3>4. lwt \in [Miks -> Nat] /\ \A a \in Miks : lwt[a] = IF a = m THEN v ELSE t.lastWinTime[a]
      BY <1>0, <2>0, <3>1, <3>2
    <3> QED BY <3>3, <3>4
  <2> HIDE DEF life, mh, lwh, lwt
  <2>7. /\ r \in Tracker
        /\ r.lastWinHeight = lwh /\ r.lastWinTime = lwt /\ r.heightToWinner = winner
        /\ r.heightToTime = time /\ r.lifetime = life /\ r.mikHeights = mh
        /\ r.cachedAt = NoHeight
    BY <1>0, <2>2, <2>3, <2>4, <2>5, <2>6, Zenon DEF Tracker, NoMik, NoHeight
  <2> HIDE DEF r
  <2>8. Disconnected(r, t, h, m)
    BY <2>3, <2>4, <2>5, <2>6, <2>7, ZenonT(40) DEF Disconnected, inWindow, winner, time, last
  <2>9. Sound(r)
    BY <2>7, Zenon DEF Sound, CacheFresh
  <2> QED BY <1>3, <2>1, <2>8, <2>9 DEF m
<1> QED BY <1>2, <1>3

-----------------------------------------------------------------------------
(* Asking with a height excluded and asking after its disconnection. *)

LEMMA ExcludingFacts ==
  ASSUME NEW t, Sound(t), NEW h \in Heights, NEW m \in Miks, NEW now
  PROVE  LET r == OnBlockDisconnected(t, h)
         IN  /\ IsInCooldownExcludingHeight(t, m, h, now, h) = IsInCooldown(r, m, h, now)
             /\ GetActiveMinersExcludingHeight(t, h, h) = RecalcActiveMiners(r, h).cachedActive
             /\ r.heightToWinner = [t.heightToWinner EXCEPT ![h] = NoMik]
<1> DEFINE r == OnBlockDisconnected(t, h)
           winner == [t.heightToWinner EXCEPT ![h] = NoMik]
           n == Cardinality(UniqueWinners(winner, h))
<1>0. /\ t \in Tracker /\ CacheFresh(t) /\ t.heightToWinner \in [Heights -> Miks \cup {NoMik}]
      /\ WinnerAt(t, h) \in Miks \cup {NoMik}
  BY WinnerFacts DEF Sound, Tracker
<1>1. /\ Sound(r)
      /\ WinnerAt(t, h) = NoMik => r = t
      /\ WinnerAt(t, h) # NoMik => Disconnected(r, t, h, WinnerAt(t, h))
  BY DisconnectedFacts
<1> HIDE DEF r
<1>2. r.heightToWinner = winner
  <2>1. CASE WinnerAt(t, h) = NoMik
    <3>1. t.heightToWinner[h] = NoMik
      BY <1>0, <2>1, WinnerFacts
    <3> QED BY <1>0, <1>1, <2>1, <3>1
  <2>2. CASE WinnerAt(t, h) # NoMik
    BY <1>1, <2>2 DEF Disconnected
  <2> QED BY <2>1, <2>2
<1>3. RecalcActiveMiners(r, h).cachedActive = n
  <2>1. r \in Tracker /\ CacheFresh(r) /\ r.heightToWinner[h] = NoMik
    BY <1>0, <1>1, <1>2 DEF Sound
  <2> HIDE DEF winner
  <2> QED BY <1>2, <2>1, RecalcFacts
<1>4. GetActiveMinersExcludingHeight(t, h, h) = n
  BY DEF GetActiveMinersExcludingHeight
<1>5. CASE t.heightToWinner[h] = NoMik
  <2>1. RecalcActiveMiners(t, h).cachedActive = n
    <3>1. winner = t.heightToWinner
      BY <1>0, <1>5
    <3> HIDE DEF winner
    <3> QED BY <1>0, <1>5, <3>1, RecalcFacts
  <2>2. r.lastWinHeight[m] = t.lastWinHeight[m] /\ r.lastWinTime[m] = t.lastWinTime[m]
    BY <1>1, <1>5 DEF Disconnected
  <2>3. IsInCooldownExcludingHeight(t, m, h, now, h) = IsInCooldown(t, m, h, now)
    BY <1>5 DEF IsInCooldownExcludingHeight
  <2>4. IsInCooldown(t, m, h, now) = IsInCooldown(r, m, h, now)
    BY <1>3, <2>1, <2>2, Zenon DEF IsInCooldown
  <2> QED BY <1>2, <1>3, <1>4, <2>3, <2>4 DEF r
<1>6. CASE t.heightToWinner[h] # NoMik
  <2> DEFINE time == [t.heightToTime EXCEPT ![h] = NoTime]
             last == LatestWin(winner, m)
             lost == m = t.heightToWinner[h]
             at == IF lost THEN last ELSE t.lastWinHeight[m]
             when == CASE ~ lost -> t.lastWinTime[m]
                       [] lost /\ last # NoHeight -> time[last]
                       [] OTHER -> NoTime
  <2>1. WinnerAt(t, h) = t.heightToWinner[h] /\ Disconnected(r, t, h, WinnerAt(t, h))
    BY <1>0, <1>1, <1>6, WinnerFacts
  <2>2. IsInCooldownExcludingHeight(t, m, h, now, h)
          = InCooldown(at, when, CalculateCooldown(n), h, now)
    BY <1>6, Zenon DEF IsInCooldownExcludingHeight
  <2>3. r.heightToTime = time
    BY <2>1 DEF Disconnected
  <2>4. r.lastWinHeight[m] = at
    BY <1>2, <1>6, <2>1, Zenon DEF Disconnected
  <2>5. r.lastWinTime[m] = IF lost THEN IF last # NoHeight THEN time[last] ELSE NoTime
                           ELSE t.lastWinTime[m]
    BY <1>2, <1>6, <2>1, <2>3, Zenon DEF Disconnected
  <2>6. when = IF lost THEN IF last # NoHeight THEN time[last] ELSE NoTime
               ELSE t.lastWinTime[m]
    <3> HIDE DEF lost, last, time
    <3>1. CASE lost
      BY <3>1
    <3>2. CASE ~ lost
      BY <3>2
    <3> QED BY <3>1, <3>2
  <2> HIDE DEF at, when
  <2>7. IsInCooldown(r, m, h, now) = InCooldown(at, when, CalculateCooldown(n), h, now)
    BY <1>3, <2>4, <2>5, <2>6, Zenon DEF IsInCooldown
  <2> QED BY <1>2, <1>3, <1>4, <2>2, <2>7 DEF r
<1> QED BY <1>5, <1>6

(* A block that passes the preflight passes the rules above the chain without *)
(* its tip, but for the lifetime gate.                                        *)
LEMMA PreflightFacts ==
  ASSUME NEW t, Sound(t), NEW c \in Seq(Blocks), Len(c) \in Heights, NEW b \in Blocks,
         Preflight(t, c, b)
  PROVE  LET r == OnBlockDisconnected(t, Len(c))
             below == SubSeq(c, 1, Len(c) - 1)
             active == RecalcActiveMiners(r, Len(c)).cachedActive
         IN  /\ ~ IsInCooldown(r, b.mik, Len(c), b.time)
             /\ CheckConsecutiveMiner(r, below, b, active) <=>
                  ~ (/\ active <= 1 /\ SoloGated(r, Len(c))
                     /\ AllBy(below, b.mik) /\ ~ StallExempt(below, b))
             /\ CheckMIKWindowCap(r, below, b, active)
<1> DEFINE h == Len(c)
           r == OnBlockDisconnected(t, h)
           below == SubSeq(c, 1, h - 1)
           active == RecalcActiveMiners(r, h).cachedActive
<1>0. b.mik \in Miks /\ h \in Nat /\ h >= 1
  BY BlockFacts, Numbers
<1>1. Len(below) = h - 1 /\ Len(below) + 1 = h
  BY <1>0, CutFacts
<1>2. /\ IsInCooldownExcludingHeight(t, b.mik, h, b.time, h) = IsInCooldown(r, b.mik, h, b.time)
      /\ GetActiveMinersExcludingHeight(t, h, h) = active
      /\ r.heightToWinner = [t.heightToWinner EXCEPT ![h] = NoMik]
  <2> HIDE DEF h
  <2>1. h \in Heights
    BY DEF h
  <2>2. \A m \in Miks : \A now :
          /\ IsInCooldownExcludingHeight(t, m, h, now, h) = IsInCooldown(r, m, h, now)
          /\ GetActiveMinersExcludingHeight(t, h, h) = active
          /\ r.heightToWinner = [t.heightToWinner EXCEPT ![h] = NoMik]
    BY <2>1, ExcludingFacts, Zenon
  <2> QED BY <1>0, <2>2, Zenon
<1>3. /\ ~ IsInCooldownExcludingHeight(t, b.mik, h, b.time, h)
      /\ active <= 1 \/ ~ AllBy(below, b.mik) \/ StallExempt(below, b)
      /\ \/ active <= 1
         \/ b.time - PrevTime(below) >= LivenessTimeout
         \/ GetBlockCountInWindow(t, b.mik, h - 1, CapWindow) < CapFloor
  BY <1>2, Zenon DEF Preflight
<1>4. GetBlockCountInWindow(r, b.mik, h - 1, CapWindow)
        = GetBlockCountInWindow(t, b.mik, h - 1, CapWindow)
  <2>1. t.heightToWinner \in [Heights -> Miks \cup {NoMik}]
    BY DEF Sound, Tracker
  <2>2. \A k \in Heights : k <= h - 1 => r.heightToWinner[k] = t.heightToWinner[k]
    BY <1>0, <1>2, <2>1
  <2> HIDE DEF r, h
  <2>3. {k \in Heights : /\ r.heightToWinner[k] = b.mik
                         /\ (h - 1) - CapWindow + 1 <= k /\ k <= h - 1}
          = {k \in Heights : /\ t.heightToWinner[k] = b.mik
                             /\ (h - 1) - CapWindow + 1 <= k /\ k <= h - 1}
    BY <2>2, Zenon
  <2> QED BY <2>3, Zenon DEF GetBlockCountInWindow
<1> HIDE DEF r, below, active, h
<1>5. CheckConsecutiveMiner(r, below, b, active) <=>
        ~ (active <= 1 /\ SoloGated(r, h) /\ AllBy(below, b.mik) /\ ~ StallExempt(below, b))
  BY <1>1, <1>3, Zenon DEF CheckConsecutiveMiner
<1>6. CheckMIKWindowCap(r, below, b, active)
  BY <1>1, <1>3, <1>4, Zenon DEF CheckMIKWindowCap
<1> QED BY <1>2, <1>3, <1>5, <1>6 DEF r, below, active, h

-----------------------------------------------------------------------------
(* What the tables hold of the first n blocks of c, when no height above hi    *)
(* has been connected: the window may have forgotten any block but those of    *)
(* the window below hi, the lifetime tables none.                              *)

EnteredAs(t, m) == {e \in Heights \X Nat : e[2] \in 1 .. t.mikHeights[m][e[1]]}

WindowReflects(t, c, n, hi) ==
  \A k \in Heights :
    /\ t.heightToWinner[k] # NoMik =>
         k <= n /\ t.heightToWinner[k] = c[k].mik /\ t.heightToTime[k] = c[k].time
    /\ k <= n /\ hi - ActiveWindow < k => t.heightToWinner[k] # NoMik

WinsReflect(t) ==
  \A m \in Miks :
    /\ IsLatest(t.heightToWinner, m, t.lastWinHeight[m])
    /\ t.lastWinTime[m] = IF t.lastWinHeight[m] = NoHeight THEN NoTime
                          ELSE t.heightToTime[t.lastWinHeight[m]]

(* Only a block below the assume-valid height is entered twice.                *)
HeightsReflect(t, c, n) ==
  \A m \in Miks, k \in Heights :
    /\ t.mikHeights[m][k] > 0 <=> k <= n /\ c[k].mik = m
    /\ k > AssumeValidHeight => t.mikHeights[m][k] <= 1

LifetimeReflects(t) ==
  \A m \in Miks : /\ IsFiniteSet(EnteredAs(t, m))
                  /\ t.lifetime[m] = Cardinality(EnteredAs(t, m))

Reflects(t, c, n, hi) ==
  /\ n \in 0 .. MaxHeight /\ hi \in Nat /\ \A k \in 1 .. n : c[k] \in Blocks
  /\ WindowReflects(t, c, n, hi) /\ WinsReflect(t)
  /\ HeightsReflect(t, c, n) /\ LifetimeReflects(t)

LEMMA ReflectsSame ==
  ASSUME NEW t, NEW r, SameTables(r, t), NEW c, NEW n, NEW hi, Reflects(t, c, n, hi)
  PROVE  Reflects(r, c, n, hi)
<1>1. \A m : EnteredAs(r, m) = EnteredAs(t, m)
  BY Zenon DEF SameTables, EnteredAs
<1>2. WindowReflects(r, c, n, hi)
  BY Zenon DEF Reflects, WindowReflects, SameTables
<1>3. WinsReflect(r)
  BY Zenon DEF Reflects, WinsReflect, SameTables
<1>4. HeightsReflect(r, c, n)
  BY Zenon DEF Reflects, HeightsReflect, SameTables
<1>5. LifetimeReflects(r)
  BY <1>1, Zenon DEF Reflects, LifetimeReflects, SameTables
<1> QED BY <1>2, <1>3, <1>4, <1>5, Zenon DEF Reflects

LEMMA ReflectsAgree ==
  ASSUME NEW t, NEW c, NEW d, NEW n, NEW hi, Reflects(t, c, n, hi),
         \A k \in 1 .. n : c[k] = d[k]
  PROVE  Reflects(t, d, n, hi)
<1>1. \A k \in Heights : k <= n => c[k] = d[k]
  BY Numbers DEF Reflects
<1>2. WindowReflects(t, d, n, hi)
  BY <1>1 DEF Reflects, WindowReflects
<1>3. HeightsReflect(t, d, n)
  BY <1>1, Zenon DEF Reflects, HeightsReflect
<1> QED BY <1>2, <1>3, Zenon DEF Reflects

LEMMA ReflectsHigher ==
  ASSUME NEW t, NEW c, NEW n, NEW hi, Reflects(t, c, n, hi), NEW top \in Nat, hi <= top
  PROVE  Reflects(t, c, n, top)
<1>1. \A k \in Heights : top - ActiveWindow < k => hi - ActiveWindow < k
  BY Numbers DEF Reflects
<1>2. WindowReflects(t, c, n, top)
  BY <1>1, Zenon DEF Reflects, WindowReflects
<1> QED BY <1>2, Zenon DEF Reflects

LEMMA ClearReflects ==
  ASSUME NEW c
  PROVE  Sound(Clear) /\ Reflects(Clear, c, 0, 0)
<1>0. /\ \A m \in Miks : Clear.lastWinHeight[m] = 0 /\ Clear.lastWinTime[m] = 0
                         /\ Clear.lifetime[m] = 0
      /\ \A k \in Heights : Clear.heightToWinner[k] = 0 /\ Clear.heightToTime[k] = 0
      /\ \A m \in Miks, k \in Heights : Clear.mikHeights[m][k] = 0
      /\ Clear.cachedAt = 0
  BY DEF Clear, NoHeight, NoTime, NoMik
<1>1. Clear \in Tracker
  BY DEF Clear, Tracker, NoHeight, NoTime, NoMik
<1>2. CacheFresh(Clear)
  BY <1>0 DEF CacheFresh, NoHeight
<1> HIDE DEF Clear
<1>3. WindowReflects(Clear, c, 0, 0)
  BY <1>0, Numbers DEF WindowReflects, NoMik
<1>4. WinsReflect(Clear)
  BY <1>0, Numbers DEF WinsReflect, IsLatest, NoHeight, NoTime
<1>5. HeightsReflect(Clear, c, 0)
  <2> SUFFICES ASSUME NEW m \in Miks, NEW k \in Heights
               PROVE  /\ Clear.mikHeights[m][k] > 0 <=> k <= 0 /\ c[k].mik = m
                      /\ k > AssumeValidHeight => Clear.mikHeights[m][k] <= 1
    BY DEF HeightsReflect
  <2>1. Clear.mikHeights[m][k] = 0 /\ ~(k <= 0)
    BY <1>0, Numbers
  <2> QED BY <2>1
<1>6. LifetimeReflects(Clear)
  <2>1. \A m \in Miks : EnteredAs(Clear, m) = {}
    BY <1>0 DEF EnteredAs
  <2> QED BY <1>0, <2>1, FS_EmptySet DEF LifetimeReflects
<1> QED BY <1>1, <1>2, <1>3, <1>4, <1>5, <1>6, Numbers DEF Sound, Reflects

(* OnBlockConnected enters block h, whether it had been entered before (an     *)
(* assumed block) or not.                                                      *)
LEMMA EnterReflects ==
  ASSUME NEW t \in Tracker, NEW c, NEW h \in Heights, NEW j \in {h - 1, h}, NEW hi,
         Reflects(t, c, j, hi), c[h] \in Blocks, j = h => h <= AssumeValidHeight,
         NEW top \in Nat, hi <= top, h <= top
  PROVE  LET r == OnBlockConnected(t, h, c[h].mik, c[h].time)
         IN  /\ Sound(r) /\ Reflects(r, c, h, top)
             /\ j = h - 1 => r.mikHeights[c[h].mik][h] = 1
<1> DEFINE m == c[h].mik
           r == OnBlockConnected(t, h, m, c[h].time)
<1>0. m \in Miks /\ m # 0 /\ c[h].time \in Nat /\ h \in Nat /\ j \in Nat /\ j <= h
      /\ h <= MaxHeight /\ 1 <= h
  BY BlockFacts, Numbers
<1>1. Sound(r) /\ Connected(r, t, h, m, c[h].time)
  BY <1>0, ConnectedFacts
<1> HIDE DEF r
<1>2. \A k \in 1 .. h : c[k] \in Blocks
  BY <1>0 DEF Reflects
<1>3. \A a \in Miks, k \in Heights : t.mikHeights[a][k] \in Nat
  BY DEF Tracker
<1>4. WindowReflects(r, c, h, top)
  <2> SUFFICES ASSUME NEW k \in Heights
               PROVE  /\ r.heightToWinner[k] # NoMik =>
                           /\ k <= h /\ r.heightToWinner[k] = c[k].mik
                           /\ r.heightToTime[k] = c[k].time
                      /\ k <= h /\ top - ActiveWindow < k => r.heightToWinner[k] # NoMik
    BY DEF WindowReflects
  <2>0. k \in Nat /\ ActiveWindow \in Nat /\ hi \in Nat
    BY Numbers DEF Reflects
  <2>1. CASE k = h
    BY <1>0, <1>1, <2>1 DEF Connected, NoMik
  <2>2. CASE k # h
    <3>1. /\ t.heightToWinner[k] # NoMik =>
               k <= j /\ t.heightToWinner[k] = c[k].mik /\ t.heightToTime[k] = c[k].time
          /\ k <= j /\ hi - ActiveWindow < k => t.heightToWinner[k] # NoMik
      BY DEF Reflects, WindowReflects
    <3>2. /\ r.heightToWinner[k] = IF k < h - ActiveWindow + 1 THEN NoMik
                                   ELSE t.heightToWinner[k]
          /\ ~(k < h - ActiveWindow + 1) => r.heightToTime[k] = t.heightToTime[k]
      BY <1>1, <2>2 DEF Connected
    <3>3. k <= h => k <= j
      BY <1>0, <2>0, <2>2
    <3>4. k <= j => k <= h
      BY <1>0, <2>0
    <3>5. top - ActiveWindow < k => hi - ActiveWindow < k /\ ~(k < h - ActiveWindow + 1)
      BY <1>0, <2>0
    <3> QED BY <3>1, <3>2, <3>3, <3>4, <3>5, Zenon
  <2> QED BY <2>1, <2>2
<1>5. WinsReflect(r)
  <2> SUFFICES ASSUME NEW a \in Miks
               PROVE  /\ IsLatest(r.heightToWinner, a, r.lastWinHeight[a])
                      /\ r.lastWinTime[a] = IF r.lastWinHeight[a] = NoHeight THEN NoTime
                                            ELSE r.heightToTime[r.lastWinHeight[a]]
    BY DEF WinsReflect
  <2>0. a # NoMik /\ h # NoHeight
    BY Numbers DEF NoMik, NoHeight
  <2>1. CASE a = m
    <3>1. r.lastWinHeight[a] = h /\ r.lastWinTime[a] = c[h].time
          /\ r.heightToWinner[h] = a /\ r.heightToTime[h] = c[h].time
      BY <1>1, <2>1 DEF Connected
    <3>2. \A k \in Heights : r.heightToWinner[k] = a => k <= h
      BY <1>4, <2>0 DEF WindowReflects
    <3> QED BY <2>0, <3>1, <3>2, Zenon DEF IsLatest
  <2>2. CASE a # m
    <3> DEFINE x == t.lastWinHeight[a]
    <3>1. /\ IsLatest(t.heightToWinner, a, x)
          /\ t.lastWinTime[a] = IF x = NoHeight THEN NoTime ELSE t.heightToTime[x]
      BY DEF Reflects, WinsReflect
    <3>2. /\ r.lastWinHeight[a] = IF Gone(t, h, a) THEN NoHeight ELSE x
          /\ r.lastWinTime[a] = IF Gone(t, h, a) THEN NoTime ELSE t.lastWinTime[a]
      BY <1>1, <2>2 DEF Connected
    <3>3. \A k \in Heights : r.heightToWinner[k] = a =>
             t.heightToWinner[k] = a /\ ~(k < h - ActiveWindow + 1)
      BY <1>1, <2>0, <2>2 DEF Connected
    <3>4. CASE x = NoHeight
      <4>1. ~Gone(t, h, a)
        BY <3>4 DEF Gone
      <4>2. \A k \in Heights : r.heightToWinner[k] # a
        BY <3>1, <3>3, <3>4, Numbers DEF IsLatest, NoHeight
      <4> QED BY <3>1, <3>2, <3>4, <4>1, <4>2, Zenon DEF IsLatest
    <3>5. CASE x # NoHeight
      <4>1. x \in Heights /\ t.heightToWinner[x] = a
            /\ \A k \in Heights : t.heightToWinner[k] = a => k <= x
        BY <3>1, <3>5 DEF IsLatest
      <4>2. Gone(t, h, a) <=> x < h - ActiveWindow + 1
        BY <3>5, <4>1 DEF Gone
      <4>3. x # h
        <5>1. x <= j /\ c[x].mik = a
          BY <2>0, <4>1 DEF Reflects, WindowReflects
        <5> QED BY <2>2, <5>1
      <4>4. CASE Gone(t, h, a)
        <5>1. ASSUME NEW k \in Heights, r.heightToWinner[k] = a
              PROVE  FALSE
          <6>1. k <= x /\ ~(k < h - ActiveWindow + 1) /\ x < h - ActiveWindow + 1
            BY <3>3, <4>1, <4>2, <4>4, <5>1
          <6> QED BY <4>1, <6>1, Numbers
        <5> QED BY <3>2, <4>4, <5>1, Zenon DEF IsLatest
      <4>5. CASE ~Gone(t, h, a)
        <5>1. r.heightToWinner[x] = a /\ r.heightToTime[x] = t.heightToTime[x]
          BY <1>1, <4>1, <4>2, <4>3, <4>5 DEF Connected
        <5> HIDE DEF x
        <5> QED BY <3>1, <3>2, <3>3, <3>5, <4>1, <4>5, <5>1, Zenon DEF IsLatest
      <4> QED BY <4>4, <4>5
    <3> QED BY <3>4, <3>5
  <2> QED BY <2>1, <2>2
<1>6. HeightsReflect(r, c, h) /\ (j = h - 1 => r.mikHeights[m][h] = 1)
  <2>1. ASSUME NEW a \in Miks, NEW k \in Heights
        PROVE  /\ r.mikHeights[a][k] > 0 <=> k <= h /\ c[k].mik = a
               /\ k > AssumeValidHeight => r.mikHeights[a][k] <= 1
    <3>0. /\ t.mikHeights[a][k] > 0 <=> k <= j /\ c[k].mik = a
          /\ k > AssumeValidHeight => t.mikHeights[a][k] <= 1
          /\ k \in Nat /\ t.mikHeights[a][k] \in Nat /\ AssumeValidHeight \in Nat
      BY <1>3, Numbers, ChainAssumption, Zenon DEF Reflects, HeightsReflect
    <3>1. CASE a = m /\ k = h
      <4>1. r.mikHeights[a][k] = t.mikHeights[a][k] + 1
        BY <1>1, <3>1 DEF Connected
      <4>2. k > AssumeValidHeight => j # h
        BY <3>0, <3>1
      <4>3. j = h - 1 => ~(k <= j)
        BY <1>0, <3>1
      <4>4. k > AssumeValidHeight => t.mikHeights[a][k] = 0
        BY <3>0, <4>2, <4>3
      <4> HIDE DEF m
      <4> QED BY <3>0, <3>1, <4>1, <4>4 DEF m
    <3>2. CASE ~(a = m /\ k = h)
      <4>1. r.mikHeights[a][k] = t.mikHeights[a][k]
        BY <1>1, <3>2 DEF Connected
      <4>2. c[k].mik = a => (k <= j <=> k <= h)
        BY <1>0, <3>0, <3>2
      <4> QED BY <3>0, <4>1, <4>2
    <3> QED BY <3>1, <3>2
  <2>2. ASSUME j = h - 1 PROVE r.mikHeights[m][h] = 1
    <3>1. r.mikHeights[m][h] = t.mikHeights[m][h] + 1 /\ t.mikHeights[m][h] \in Nat
      BY <1>0, <1>1, <1>3 DEF Connected
    <3>2. ~(h <= j)
      BY <1>0, <2>2
    <3>3. ~(t.mikHeights[m][h] > 0)
      BY <1>0, <3>2 DEF Reflects, HeightsReflect
    <3> QED BY <3>1, <3>3
  <2> QED BY <2>1, <2>2 DEF HeightsReflect
<1>7. LifetimeReflects(r)
  <2> SUFFICES ASSUME NEW a \in Miks
               PROVE  /\ IsFiniteSet(EnteredAs(r, a))
                      /\ r.lifetime[a] = Cardinality(EnteredAs(r, a))
    BY DEF LifetimeReflects
  <2>0. /\ IsFiniteSet(EnteredAs(t, a)) /\ t.lifetime[a] = Cardinality(EnteredAs(t, a))
        /\ \A k \in Heights : t.mikHeights[a][k] \in Nat
    BY <1>3 DEF Reflects, LifetimeReflects
  <2>1. CASE a = m
    <3> DEFINE e == <<h, t.mikHeights[m][h] + 1>>
    <3>1. \A k \in Heights : r.mikHeights[a][k] = IF k = h THEN t.mikHeights[a][k] + 1
                                                  ELSE t.mikHeights[a][k]
      BY <1>1, <2>1 DEF Connected
    <3>2. EnteredAs(r, a) = EnteredAs(t, a) \cup {e} /\ e \notin EnteredAs(t, a)
      <4>0. t.mikHeights[a][h] \in Nat /\ e = <<h, t.mikHeights[a][h] + 1>>
        BY <2>0, <2>1
      <4>1. ASSUME NEW k \in Heights, NEW i \in Nat
            PROVE  i \in 1 .. r.mikHeights[a][k]
                     <=> i \in 1 .. t.mikHeights[a][k] \/ <<k, i>> = e
        <5>1. CASE k = h
          BY <3>1, <4>0, <5>1
        <5>2. CASE k # h
          BY <3>1, <4>0, <5>2
        <5> QED BY <5>1, <5>2
      <4>2. e \in Heights \X Nat /\ e \notin EnteredAs(t, a)
        BY <4>0 DEF EnteredAs
      <4> HIDE DEF e
      <4>3. \A q \in Heights \X Nat : q \in EnteredAs(r, a) <=> q \in EnteredAs(t, a) \/ q = e
        BY <4>1 DEF EnteredAs
      <4>4. EnteredAs(r, a) \subseteq Heights \X Nat /\ EnteredAs(t, a) \subseteq Heights \X Nat
        BY DEF EnteredAs
      <4> QED BY <4>2, <4>3, <4>4, Zenon
    <3>3. r.lifetime[a] = t.lifetime[a] + 1
      BY <1>1, <2>1 DEF Connected
    <3> HIDE DEF e
    <3> QED BY <2>0, <3>2, <3>3, FS_AddElement
  <2>2. CASE a # m
    <3>1. \A k \in Heights : r.mikHeights[a][k] = t.mikHeights[a][k]
      BY <1>1, <2>2 DEF Connected
    <3>2. r.lifetime[a] = t.lifetime[a]
      BY <1>1, <2>2 DEF Connected
    <3>3. EnteredAs(r, a) = EnteredAs(t, a)
      BY <3>1 DEF EnteredAs
    <3> QED BY <2>0, <3>2, <3>3
  <2> QED BY <2>1, <2>2
<1>8. Reflects(r, c, h, top)
  BY <1>0, <1>2, <1>4, <1>5, <1>6, <1>7 DEF Reflects
<1> QED BY <1>1, <1>6, <1>8 DEF r, m

(* Who won a height, when the tables reflect a chain.                          *)
LEMMA WinnerReflects ==
  ASSUME NEW t \in Tracker, NEW c, NEW n, NEW hi, Reflects(t, c, n, hi), NEW h \in Heights
  PROVE  WinnerAt(t, h) = IF h <= n THEN c[h].mik ELSE NoMik
<1>1. t.heightToWinner[h] # NoMik => h <= n /\ t.heightToWinner[h] = c[h].mik
  BY DEF Reflects, WindowReflects
<1>2. \A m \in Miks : t.mikHeights[m][h] > 0 <=> h <= n /\ c[h].mik = m
  BY DEF Reflects, HeightsReflect
<1>3. h <= n => c[h].mik \in Miks
  <2>1. h <= n => h \in 1 .. n
    BY Numbers DEF Reflects
  <2> QED BY <2>1, BlockFacts DEF Reflects
<1>4. NoMik \notin Miks
  BY Numbers DEF NoMik
<1>5. CASE t.heightToWinner[h] # NoMik
  BY <1>1, <1>5, WinnerFacts
<1>6. CASE t.heightToWinner[h] = NoMik /\ WinnerAt(t, h) # NoMik
  <2>1. WinnerAt(t, h) \in Miks /\ t.mikHeights[WinnerAt(t, h)][h] > 0
    BY <1>6, WinnerFacts
  <2> QED BY <1>2, <2>1, Zenon
<1>7. CASE t.heightToWinner[h] = NoMik /\ WinnerAt(t, h) = NoMik
  <2>1. \A m \in Miks : ~(t.mikHeights[m][h] > 0)
    BY <1>7, WinnerFacts
  <2> QED BY <1>2, <1>3, <1>7, <2>1, Zenon
<1> QED BY <1>5, <1>6, <1>7

LEMMA NothingToLeave ==
  ASSUME NEW t, Sound(t), NEW c, NEW n, NEW hi, Reflects(t, c, n, hi),
         NEW h \in Heights, ~(h <= n)
  PROVE  OnBlockDisconnected(t, h) = t
BY WinnerReflects, DisconnectedFacts DEF Sound

(* OnBlockDisconnected takes back the last block, if it was entered once.      *)
LEMMA LeaveReflects ==
  ASSUME NEW t, Sound(t), NEW c, NEW n \in Heights, NEW hi, Reflects(t, c, n, hi),
         t.mikHeights[c[n].mik][n] = 1
  PROVE  LET r == OnBlockDisconnected(t, n) IN Sound(r) /\ Reflects(r, c, n - 1, hi)
<1> DEFINE m == c[n].mik
           r == OnBlockDisconnected(t, n)
<1>0. /\ t \in Tracker /\ n \in Nat /\ 1 <= n /\ n <= MaxHeight /\ n - 1 \in Nat
      /\ MaxHeight \in Nat /\ Heights \in SUBSET Nat
  BY Numbers DEF Sound
<1>1. m \in Miks /\ m # NoMik
  <2>1. c[n] \in Blocks
    BY <1>0 DEF Reflects
  <2> QED BY <2>1, BlockFacts, Numbers DEF NoMik
<1>2. WinnerAt(t, n) = m
  BY <1>0, WinnerReflects
<1>3. Sound(r) /\ Disconnected(r, t, n, m)
  BY <1>1, <1>2, DisconnectedFacts
<1> HIDE DEF r
<1>4. \A k \in 1 .. n - 1 : c[k] \in Blocks
  BY <1>0 DEF Reflects
<1>5. /\ t.heightToWinner \in [Heights -> Miks \cup {NoMik}]
      /\ t.heightToTime \in [Heights -> Nat]
      /\ \A a \in Miks, k \in Heights : t.mikHeights[a][k] \in Nat
  BY <1>0 DEF Tracker
<1>6. \A k \in Heights :
        /\ r.heightToWinner[k] = IF k = n THEN NoMik ELSE t.heightToWinner[k]
        /\ k # n => r.heightToTime[k] = t.heightToTime[k]
  BY <1>3, <1>5 DEF Disconnected
<1>7. \A k \in Heights : k <= n - 1 <=> k <= n /\ k # n
  BY <1>0
<1>8. WindowReflects(r, c, n - 1, hi)
  BY <1>6, <1>7, Zenon DEF Reflects, WindowReflects
<1>9. WinsReflect(r)
  <2> SUFFICES ASSUME NEW a \in Miks
               PROVE  /\ IsLatest(r.heightToWinner, a, r.lastWinHeight[a])
                      /\ r.lastWinTime[a] = IF r.lastWinHeight[a] = NoHeight THEN NoTime
                                            ELSE r.heightToTime[r.lastWinHeight[a]]
    BY DEF WinsReflect
  <2>0. a # NoMik
    BY Numbers DEF NoMik
  <2>1. CASE a = m /\ t.heightToWinner[n] # NoMik
    <3> DEFINE last == LatestWin(r.heightToWinner, a)
    <3>1. IsLatest(r.heightToWinner, a, last)
      BY LatestFacts
    <3>2. /\ r.lastWinHeight[a] = last
          /\ r.lastWinTime[a] = IF last # NoHeight THEN r.heightToTime[last] ELSE NoTime
      BY <1>3, <2>1, Zenon DEF Disconnected
    <3> HIDE DEF last
    <3> QED BY <3>1, <3>2, Zenon
  <2>2. CASE ~(a = m /\ t.heightToWinner[n] # NoMik)
    <3> DEFINE x == t.lastWinHeight[a]
    <3>1. /\ IsLatest(t.heightToWinner, a, x)
          /\ t.lastWinTime[a] = IF x = NoHeight THEN NoTime ELSE t.heightToTime[x]
      BY DEF Reflects, WinsReflect
    <3>2. r.lastWinHeight[a] = x /\ r.lastWinTime[a] = t.lastWinTime[a]
      BY <1>3, <2>2, Zenon DEF Disconnected
    <3>3. t.heightToWinner[n] # a
      BY <2>0, <2>2, Zenon DEF Reflects, WindowReflects
    <3>4. \A k \in Heights : r.heightToWinner[k] = a <=> t.heightToWinner[k] = a
      BY <1>6, <2>0, <3>3, Zenon
    <3> HIDE DEF x
    <3>5. IsLatest(r.heightToWinner, a, x)
      BY <3>1, <3>4, Zenon DEF IsLatest
    <3>6. x # NoHeight => r.heightToTime[x] = t.heightToTime[x]
      BY <1>6, <3>1, <3>3, Zenon DEF IsLatest
    <3> QED BY <3>1, <3>2, <3>5, <3>6, Zenon
  <2> QED BY <2>1, <2>2
<1>10. \A a \in Miks, k \in Heights :
         r.mikHeights[a][k] = IF a = m /\ k = n THEN 0 ELSE t.mikHeights[a][k]
  <2>1. OneLess(1) = 0
    BY DEF OneLess
  <2> QED BY <1>3, <2>1 DEF Disconnected
<1>11. HeightsReflect(r, c, n - 1)
  <2> SUFFICES ASSUME NEW a \in Miks, NEW k \in Heights
               PROVE  /\ r.mikHeights[a][k] > 0 <=> k <= n - 1 /\ c[k].mik = a
                      /\ k > AssumeValidHeight => r.mikHeights[a][k] <= 1
    BY DEF HeightsReflect
  <2>1. /\ t.mikHeights[a][k] > 0 <=> k <= n /\ c[k].mik = a
        /\ k > AssumeValidHeight => t.mikHeights[a][k] <= 1
    BY DEF Reflects, HeightsReflect
  <2>2. CASE a = m /\ k = n
    <3>1. r.mikHeights[a][k] = 0
      BY <1>10, <2>2
    <3>2. ~(k <= n - 1)
      BY <1>7, <2>2
    <3> QED BY <3>1, <3>2
  <2>3. CASE ~(a = m /\ k = n)
    <3>1. r.mikHeights[a][k] = t.mikHeights[a][k]
      BY <1>10, <2>3
    <3>2. c[k].mik = a => k # n
      BY <2>3
    <3> QED BY <1>7, <2>1, <3>1, <3>2, Zenon
  <2> QED BY <2>2, <2>3
<1>12. LifetimeReflects(r)
  <2> SUFFICES ASSUME NEW a \in Miks
               PROVE  /\ IsFiniteSet(EnteredAs(r, a))
                      /\ r.lifetime[a] = Cardinality(EnteredAs(r, a))
    BY DEF LifetimeReflects
  <2>0. IsFiniteSet(EnteredAs(t, a)) /\ t.lifetime[a] = Cardinality(EnteredAs(t, a))
    BY DEF Reflects, LifetimeReflects
  <2>1. CASE a = m
    <3> DEFINE e == <<n, 1>>
    <3>1. EnteredAs(r, a) = EnteredAs(t, a) \ {e} /\ e \in EnteredAs(t, a)
      <4>1. \A k \in Heights : r.mikHeights[a][k] = IF k = n THEN 0 ELSE t.mikHeights[a][k]
        BY <1>10, <2>1
      <4>2. t.mikHeights[a][n] = 1
        BY <2>1
      <4> QED BY <4>1, <4>2 DEF EnteredAs
    <3>2. r.lifetime[a] = OneLess(t.lifetime[a])
      BY <1>3, <2>1, Zenon DEF Disconnected
    <3> HIDE DEF e
    <3>3. /\ Cardinality(EnteredAs(r, a)) = Cardinality(EnteredAs(t, a)) - 1
          /\ IsFiniteSet(EnteredAs(r, a))
      BY <2>0, <3>1, FS_RemoveElement
    <3>4. Cardinality(EnteredAs(r, a)) \in Nat /\ Cardinality(EnteredAs(t, a)) \in Nat
      BY <2>0, <3>3, FS_CardinalityType
    <3> QED BY <2>0, <3>2, <3>3, <3>4 DEF OneLess
  <2>2. CASE a # m
    <3>1. \A k \in Heights : r.mikHeights[a][k] = t.mikHeights[a][k]
      BY <1>10, <2>2
    <3>2. r.lifetime[a] = t.lifetime[a]
      BY <1>3, <2>2, Zenon DEF Disconnected
    <3>3. EnteredAs(r, a) = EnteredAs(t, a)
      BY <3>1 DEF EnteredAs
    <3> QED BY <2>0, <3>2, <3>3
  <2> QED BY <2>1, <2>2
<1>13. n - 1 \in 0 .. MaxHeight /\ hi \in Nat
  BY <1>0 DEF Reflects
<1> QED BY <1>3, <1>4, <1>8, <1>9, <1>11, <1>12, <1>13, Zenon DEF Reflects, r

-----------------------------------------------------------------------------
(* The replay of a chain reflects it. *)

Entered(f, c, k) == OnBlockConnected(f[k - 1], k, c[k].mik, c[k].time)

IsReplay(c, n, f) == f = [k \in 0 .. n |-> IF k = 0 THEN Clear ELSE Entered(f, c, k)]

LEMMA ReplaySteps ==
  ASSUME NEW c, NEW n \in Nat, NEW f, IsReplay(c, n, f)
  PROVE  f[0] = Clear /\ \A k \in 1 .. n : f[k] = Entered(f, c, k)
<1>1. f = [k \in 0 .. n |-> IF k = 0 THEN Clear ELSE Entered(f, c, k)]
  BY DEF IsReplay
<1>2. \A k \in 0 .. n : f[k] = IF k = 0 THEN Clear ELSE Entered(f, c, k)
  BY <1>1, Zenon
<1>3. 0 \in 0 .. n /\ \A k \in 1 .. n : k \in 0 .. n /\ k # 0
  OBVIOUS
<1> QED BY <1>2, <1>3, Zenon

LEMMA ReplayExists ==
  ASSUME NEW c
  PROVE  \A n \in Nat : \E f : IsReplay(c, n, f)
<1> DEFINE S == {n \in Nat : \E f : IsReplay(c, n, f)}
<1>1. 0 \in S
  <2> DEFINE f == [k \in 0 .. 0 |-> Clear]
  <2>1. f = [k \in 0 .. 0 |-> IF k = 0 THEN Clear ELSE Entered(f, c, k)]
    OBVIOUS
  <2>2. IsReplay(c, 0, f)
    BY <2>1, Zenon DEF IsReplay
  <2> QED BY <2>2
<1>2. ASSUME NEW n \in S PROVE n + 1 \in S
  <2>0. n \in Nat
    OBVIOUS
  <2>1. PICK f : IsReplay(c, n, f)
    OBVIOUS
  <2> DEFINE next == OnBlockConnected(f[n], n + 1, c[n + 1].mik, c[n + 1].time)
             g == [k \in 0 .. n + 1 |-> IF k <= n THEN f[k] ELSE next]
  <2>2. \A k \in 0 .. n : g[k] = f[k]
    OBVIOUS
  <2>3. g[n + 1] = next
    OBVIOUS
  <2>4. g = [k \in 0 .. n + 1 |-> g[k]]
    OBVIOUS
  <2> HIDE DEF g, S
  <2>5. ASSUME NEW k \in 0 .. n + 1
        PROVE  g[k] = IF k = 0 THEN Clear ELSE Entered(g, c, k)
    <3>1. CASE k = 0
      <4>1. g[0] = f[0]
        BY <2>0, <2>2
      <4> QED BY <2>0, <2>1, <3>1, <4>1, ReplaySteps, Zenon
    <3>2. CASE k \in 1 .. n
      <4>1. g[k] = f[k] /\ g[k - 1] = f[k - 1] /\ k # 0
        BY <2>0, <2>2, <3>2
      <4>2. f[k] = Entered(f, c, k)
        BY <2>0, <2>1, <3>2, ReplaySteps
      <4> QED BY <4>1, <4>2, Zenon DEF Entered
    <3>3. CASE k = n + 1
      <4>1. g[n] = f[n] /\ k - 1 = n /\ k # 0
        BY <2>0, <2>2, <3>3
      <4> QED BY <2>3, <3>3, <4>1, Zenon DEF Entered
    <3>4. k = 0 \/ k \in 1 .. n \/ k = n + 1
      BY <2>0
    <3> QED BY <3>1, <3>2, <3>3, <3>4
  <2>6. IsReplay(c, n + 1, g)
    <3>1. [k \in 0 .. n + 1 |-> g[k]]
            = [k \in 0 .. n + 1 |-> IF k = 0 THEN Clear ELSE Entered(g, c, k)]
      BY <2>5, Zenon
    <3> QED BY <2>4, <3>1, Zenon DEF IsReplay
  <2> QED BY <2>0, <2>6 DEF S
<1> HIDE DEF S
<1>3. \A n \in Nat : n \in S
  <2>1. S \in SUBSET Nat
    BY DEF S
  <2> QED BY <1>1, <1>2, <2>1, Induction
<1> QED BY <1>3 DEF S

LEMMA ReplayUnfolds ==
  ASSUME NEW c, Len(c) \in Nat
  PROVE  \E f : IsReplay(c, Len(c), f) /\ Replay(c) = f[Len(c)]
<1>1. \E f : IsReplay(c, Len(c), f)
  BY ReplayExists
<1> QED BY <1>1, Zenon DEF Replay, IsReplay, Entered

LEMMA ReplayReflects ==
  ASSUME NEW c \in Seq(Blocks), Len(c) <= MaxHeight
  PROVE  Sound(Replay(c)) /\ Reflects(Replay(c), c, Len(c), Len(c))
<1>0. Len(c) \in Nat /\ \A k \in 1 .. Len(c) : c[k] \in Blocks /\ k \in Heights
  BY Numbers
<1>1. PICK f : IsReplay(c, Len(c), f) /\ Replay(c) = f[Len(c)]
  BY <1>0, ReplayUnfolds
<1>2. f[0] = Clear /\ \A k \in 1 .. Len(c) : f[k] = Entered(f, c, k)
  BY <1>0, <1>1, ReplaySteps, Zenon
<1> DEFINE S == {k \in Nat : k <= Len(c) => Sound(f[k]) /\ Reflects(f[k], c, k, k)}
<1>3. 0 \in S
  BY <1>2, ClearReflects
<1>4. ASSUME NEW k \in S PROVE k + 1 \in S
  <2> SUFFICES ASSUME k + 1 <= Len(c)
               PROVE  Sound(f[k + 1]) /\ Reflects(f[k + 1], c, k + 1, k + 1)
    OBVIOUS
  <2>1. k \in Nat /\ k <= Len(c) /\ k + 1 \in 1 .. Len(c) /\ (k + 1) - 1 = k
    BY <1>0
  <2>2. Sound(f[k]) /\ Reflects(f[k], c, k, k)
    BY <2>1
  <2>3. f[k + 1] = OnBlockConnected(f[k], k + 1, c[k + 1].mik, c[k + 1].time)
    BY <1>2, <2>1 DEF Entered
  <2>4. k + 1 \in Heights /\ c[k + 1] \in Blocks
    BY <1>0, <2>1
  <2>5. /\ k \in {(k + 1) - 1, k + 1} /\ k # k + 1 /\ k + 1 \in Nat
        /\ k <= k + 1 /\ k + 1 <= k + 1
    BY <2>1
  <2> HIDE DEF S
  <2> QED BY <2>2, <2>3, <2>4, <2>5, EnterReflects, ZenonT(40) DEF Sound
<1>5. \A k \in Nat : k \in S
  <2>1. S \in SUBSET Nat
    OBVIOUS
  <2> HIDE DEF S
  <2> QED BY <1>3, <1>4, <2>1, Induction
<1> QED BY <1>0, <1>1, <1>5

-----------------------------------------------------------------------------
(* The verdict on a miner, read from the tables and from the chain. *)

LEMMA MaxPair ==
  ASSUME NEW a \in Int, NEW b \in Int
  PROVE  /\ Max({a, b}) \in {a, b} /\ a <= Max({a, b}) /\ b <= Max({a, b})
         /\ Min({a, b}) \in {a, b} /\ Min({a, b}) <= a /\ Min({a, b}) <= b
<1>1. IsFiniteSet({a, b})
  <2>1. IsFiniteSet({a} \cup {b})
    BY FS_Singleton, FS_AddElement, Zenon
  <2>2. {a} \cup {b} = {a, b}
    OBVIOUS
  <2> QED BY <2>1, <2>2
<1>2. {a, b} \in SUBSET Int /\ {a, b} # {} /\ a \in {a, b} /\ b \in {a, b}
  OBVIOUS
<1>3. Max({a, b}) \in {a, b} /\ \A x \in {a, b} : x <= Max({a, b})
  BY <1>1, <1>2, MaxFacts
<1>4. Min({a, b}) \in {a, b} /\ \A x \in {a, b} : Min({a, b}) <= x
  BY <1>1, <1>2, MinFacts
<1> QED BY <1>2, <1>3, <1>4, Zenon

(* No cooldown is longer than the window its miners are counted in. *)
LEMMA CooldownBound ==
  ASSUME NEW n \in Nat, n <= ActiveWindow
  PROVE  CalculateCooldown(n) \in Nat /\ CalculateCooldown(n) <= ActiveWindow
<1> DEFINE x == (n * 67) \div 100
           y == Max({x, MIN_COOLDOWN})
           z == Min({y, MAX_COOLDOWN})
<1>0. /\ ActiveWindow \in Nat /\ MIN_COOLDOWN \in Nat /\ MAX_COOLDOWN \in Nat
      /\ MIN_COOLDOWN <= ActiveWindow
  BY TrackerAssumption
<1>1. x \in Nat /\ x <= n
  OBVIOUS
<1> HIDE DEF x
<1>2. y \in {x, MIN_COOLDOWN}
  <2>1. x \in Int /\ MIN_COOLDOWN \in Int
    BY <1>0, <1>1
  <2> QED BY <2>1, MaxPair, Zenon
<1>3. y \in Nat /\ y <= ActiveWindow
  BY <1>0, <1>1, <1>2
<1> HIDE DEF y
<1>4. z \in {y, MAX_COOLDOWN} /\ z <= y
  <2>1. y \in Int /\ MAX_COOLDOWN \in Int
    BY <1>0, <1>3
  <2> QED BY <2>1, MaxPair, Zenon
<1>5. z \in Nat /\ z <= ActiveWindow
  BY <1>0, <1>3, <1>4
<1> QED BY <1>5 DEF CalculateCooldown, x, y, z

(* A win as many blocks back as the cooldown is long does not count.           *)
LEMMA LongAgo ==
  ASSUME NEW last \in Nat, NEW lastTime \in Nat, NEW cooldown \in Nat, NEW h \in Nat,
         NEW now \in Nat, cooldown <= h - last
  PROVE  ~ InCooldown(last, lastTime, cooldown, h, now)
<1> DEFINE since == IF lastTime = NoTime THEN 0 ELSE Max({0, now - lastTime})
           left == Max({0, cooldown - since \div DecaySeconds})
<1>1. since \in Nat
  <2>1. Max({0, now - lastTime}) \in {0, now - lastTime} /\ 0 <= Max({0, now - lastTime})
    <3>1. 0 \in Int /\ now - lastTime \in Int
      OBVIOUS
    <3> QED BY <3>1, MaxPair, Zenon
  <2> QED BY <2>1
<1> HIDE DEF since
<1>2. since \div DecaySeconds \in Nat
  BY <1>1, TrackerAssumption
<1>3. left \in {0, cooldown - since \div DecaySeconds}
  <2>1. 0 \in Int /\ cooldown - since \div DecaySeconds \in Int
    BY <1>2
  <2> QED BY <2>1, MaxPair, Zenon
<1>4. left \in Int /\ left <= cooldown
  BY <1>2, <1>3
<1> HIDE DEF left
<1>5. ~(h - last < left) /\ ~(h - last < cooldown)
  BY <1>4
<1> QED BY <1>5, Zenon DEF InCooldown, since, left

LEMMA VerdictReflects ==
  ASSUME NEW t, Sound(t), NEW c \in Seq(Blocks), NEW hi, Reflects(t, c, Len(c), hi),
         hi <= Len(c) + 1, Len(c) + 1 \in Heights, NEW m \in Miks, NEW now \in Nat
  PROVE  LET h == Len(c) + 1
             wins == {k \in 1 .. Len(c) : c[k].mik = m}
             last == IF wins = {} THEN NoHeight ELSE Max(wins)
             active == {c[k].mik : k \in {k \in 1 .. Len(c) : k > h - ActiveWindow}}
         IN  IsInCooldown(t, m, h, now)
               <=> InCooldown(last, IF last = NoHeight THEN NoTime ELSE c[last].time,
                              CalculateCooldown(Cardinality(active)), h, now)
<1> DEFINE n == Len(c)
           h == n + 1
           wins == {k \in 1 .. n : c[k].mik = m}
           last == IF wins = {} THEN NoHeight ELSE Max(wins)
           active == {c[k].mik : k \in {k \in 1 .. n : k > h - ActiveWindow}}
           w == t.heightToWinner
           x == t.lastWinHeight[m]
           cooldown == CalculateCooldown(Cardinality(active))
           when == IF last = NoHeight THEN NoTime ELSE c[last].time
<1>0. /\ n \in Nat /\ h \in Nat /\ h = n + 1 /\ h \in Heights /\ hi \in Nat /\ hi <= h
      /\ ActiveWindow \in Nat
      /\ t \in Tracker /\ CacheFresh(t) /\ m # NoMik
  BY Numbers DEF Reflects, Sound, NoMik
<1>1. \A k \in Heights :
        /\ w[k] # NoMik => k <= n /\ w[k] = c[k].mik /\ t.heightToTime[k] = c[k].time
        /\ k <= n /\ hi - ActiveWindow < k => w[k] # NoMik
  BY Zenon DEF Reflects, WindowReflects
<1>2. \A k \in 1 .. n : k \in Heights /\ k \in Nat /\ c[k] \in Blocks
  BY <1>0, Numbers
<1>3. \A k \in Heights : k \in Nat /\ (k <= n => k \in 1 .. n)
  BY <1>0, Numbers
<1> HIDE DEF n, h, w
<1>4. UniqueWinners(w, h) = active
  <2>1. \A k \in Heights : w[k] # NoMik /\ h - ActiveWindow + 1 <= k /\ k <= h
                             => k \in 1 .. n /\ k > h - ActiveWindow /\ w[k] = c[k].mik
    BY <1>0, <1>1, <1>3
  <2>2. \A k \in 1 .. n : k > h - ActiveWindow =>
           /\ k \in Heights /\ w[k] # NoMik /\ h - ActiveWindow + 1 <= k /\ k <= h
           /\ w[k] = c[k].mik
    <3> SUFFICES ASSUME NEW k \in 1 .. n, k > h - ActiveWindow
                 PROVE  /\ k \in Heights /\ w[k] # NoMik /\ h - ActiveWindow + 1 <= k /\ k <= h
                        /\ w[k] = c[k].mik
      OBVIOUS
    <3>1. k \in Heights /\ k \in Nat /\ k <= n
      BY <1>0, <1>2
    <3>2. hi - ActiveWindow < k /\ h - ActiveWindow + 1 <= k /\ k <= h
      BY <1>0, <3>1
    <3> QED BY <1>1, <3>1, <3>2, Zenon
  <2> QED BY <2>1, <2>2 DEF UniqueWinners
<1>5. RecalcActiveMiners(t, h).cachedActive = Cardinality(active)
  <2>1. w[h] = NoMik
    BY <1>0, <1>1
  <2> QED BY <1>0, <1>4, <2>1, RecalcFacts, ZenonT(40) DEF w
<1>6. cooldown \in Nat /\ cooldown <= ActiveWindow
  <2>1. /\ Cardinality(active) \in Nat
        /\ Cardinality(active) <= Cardinality(WindowOf(w, h))
    BY <1>4, WinnersFinite, Zenon
  <2> DEFINE I == (h - ActiveWindow + 1) .. h
  <2>2. WindowOf(w, h) \in SUBSET I
    <3> SUFFICES ASSUME NEW k \in WindowOf(w, h) PROVE k \in I
      OBVIOUS
    <3>1. k \in Heights /\ h - ActiveWindow + 1 <= k /\ k <= h
      BY DEF WindowOf
    <3> QED BY <1>0, <1>3, <3>1
  <2>3. IsFiniteSet(I) /\ Cardinality(I) = ActiveWindow
    <3>1. h - ActiveWindow + 1 \in Int /\ h \in Int
      BY <1>0
    <3>2. /\ IsFiniteSet((h - ActiveWindow + 1) .. h)
          /\ Cardinality((h - ActiveWindow + 1) .. h)
               = IF h - ActiveWindow + 1 > h THEN 0 ELSE h - (h - ActiveWindow + 1) + 1
      BY <3>1, FS_Interval
    <3> QED BY <1>0, <3>2
  <2> HIDE DEF I
  <2>4. IsFiniteSet(WindowOf(w, h)) /\ Cardinality(WindowOf(w, h)) <= ActiveWindow
    BY <2>2, <2>3, FS_Subset
  <2>5. Cardinality(WindowOf(w, h)) \in Nat
    BY <2>4, FS_CardinalityType
  <2> HIDE DEF active
  <2>6. Cardinality(active) <= ActiveWindow
    BY <1>0, <2>1, <2>4, <2>5
  <2> QED BY <2>1, <2>6, CooldownBound
<1> HIDE DEF active, cooldown
<1>7. IsInCooldown(t, m, h, now) = InCooldown(x, t.lastWinTime[m], cooldown, h, now)
  BY <1>5, Zenon DEF IsInCooldown, cooldown
<1>8. /\ IsLatest(w, m, x)
      /\ t.lastWinTime[m] = IF x = NoHeight THEN NoTime ELSE t.heightToTime[x]
      /\ t.lastWinTime[m] \in Nat
  BY <1>0 DEF Reflects, WinsReflect, w, Tracker
<1>9. \/ last = NoHeight /\ \A k \in 1 .. n : c[k].mik # m
      \/ last \in 1 .. n /\ c[last].mik = m /\ \A k \in 1 .. n : c[k].mik = m => k <= last
  <2>1. CASE wins = {}
    BY <2>1
  <2>2. CASE wins # {}
    <3>1. wins \in SUBSET Int /\ IsFiniteSet(wins)
      <4>1. IsFiniteSet(1 .. n)
        BY <1>0, FS_Interval
      <4> QED BY <1>0, <4>1, FS_Subset
    <3>2. Max(wins) \in wins /\ \A k \in wins : k <= Max(wins)
      <4> HIDE DEF wins
      <4> QED BY <2>2, <3>1, MaxFacts
    <3> QED BY <2>2, <3>2
  <2> QED BY <2>1, <2>2
<1> HIDE DEF last
<1>10. x # NoHeight =>
         /\ x \in 1 .. n /\ w[x] = m /\ c[x].mik = m
         /\ t.lastWinTime[m] = c[x].time /\ x <= last /\ last \in 1 .. n
  <2> SUFFICES ASSUME x # NoHeight
               PROVE  /\ x \in 1 .. n /\ w[x] = m /\ c[x].mik = m
                      /\ t.lastWinTime[m] = c[x].time /\ x <= last /\ last \in 1 .. n
    OBVIOUS
  <2>1. x \in Heights /\ w[x] = m /\ t.lastWinTime[m] = t.heightToTime[x]
    BY <1>8, Zenon DEF IsLatest
  <2>2. x \in 1 .. n /\ c[x].mik = m /\ t.heightToTime[x] = c[x].time
    BY <1>0, <1>1, <1>3, <2>1, Zenon
  <2> QED BY <1>9, <2>1, <2>2, Zenon
(* A win of the chain later than the tracker's last has left the window.       *)
<1>11. ASSUME last # x
       PROVE  last \in 1 .. n /\ cooldown <= h - last /\ (x # NoHeight => x < last)
  <2>1. last \in 1 .. n /\ c[last].mik = m
    BY <1>9, <1>10, <1>11, Zenon
  <2>2. last \in Heights /\ last \in Nat /\ last <= n
    BY <1>0, <1>2, <2>1
  <2>3. w[last] # m
    <3> SUFFICES ASSUME w[last] = m PROVE FALSE
      OBVIOUS
    <3>1. x \in Heights /\ last <= x
      BY <1>8, <2>2, Zenon DEF IsLatest
    <3>2. x # NoHeight
      BY <3>1, Numbers DEF NoHeight
    <3> QED BY <1>3, <1>10, <1>11, <2>2, <3>1, <3>2
  <2>4. w[last] = NoMik
    BY <1>1, <2>1, <2>2, <2>3, Zenon
  <2>5. ~(hi - ActiveWindow < last)
    BY <1>1, <2>2, <2>4, Zenon
  <2>6. cooldown <= h - last
    BY <1>0, <1>6, <2>2, <2>5
  <2>7. x # NoHeight => x < last
    BY <1>0, <1>10, <1>11, <2>2
  <2> QED BY <2>1, <2>6, <2>7
<1>12. CASE last = x
  <2>1. t.lastWinTime[m] = when
    BY <1>8, <1>10, <1>12, Zenon
  <2> QED BY <1>7, <1>12, <2>1, Zenon DEF n, h, wins, last, active, cooldown
<1>13. CASE last # x
  <2>1. last \in 1 .. n /\ cooldown <= h - last /\ (x # NoHeight => x < last)
    BY <1>11, <1>13
  <2>2. last \in Nat /\ when \in Nat
    <3>1. c[last].time \in Nat
      BY <1>2, <2>1, BlockFacts
    <3>2. NoTime \in Nat
      BY DEF NoTime
    <3> QED BY <1>2, <2>1, <3>1, <3>2
  <2> HIDE DEF when
  <2>3. ~ InCooldown(last, when, cooldown, h, now)
    BY <1>0, <1>6, <2>1, <2>2, LongAgo, Zenon
  <2>4. ~ InCooldown(x, t.lastWinTime[m], cooldown, h, now)
    <3>1. CASE x = NoHeight
      BY <3>1, Zenon DEF InCooldown
    <3>2. CASE x # NoHeight
      <4>1. x \in Nat /\ cooldown <= h - x
        BY <1>0, <1>2, <1>6, <1>10, <2>1, <2>2, <3>2
      <4> QED BY <1>0, <1>6, <1>8, <4>1, LongAgo, Zenon
    <3> QED BY <3>1, <3>2
  <2> QED BY <1>7, <2>3, <2>4, Zenon DEF n, h, wins, last, active, cooldown, when
<1> QED BY <1>12, <1>13, Zenon

-----------------------------------------------------------------------------
(* The inductive invariant. *)

Larger(a, b) == IF b < a THEN a ELSE b

(* ConnectTip holds a block at or below the assume-valid height, which may     *)
(* have been entered already, and entered again when it is applied.            *)
Assuming == pc = "apply" /\ Tip + 1 <= AssumeValidHeight

NotYetEntered == Reflects(tracker, chain, Tip, Larger(highest, Tip + 1))

EnteredOnce ==
  /\ Reflects(tracker, Append(chain, block), Tip + 1, Larger(highest, Tip + 1))
  /\ tracker.mikHeights[block.mik][Tip + 1] = 1

TrackerReflects ==
  IF Assuming THEN NotYetEntered \/ EnteredOnce
  ELSE Reflects(tracker, chain, Tip, highest)

VInv ==
  /\ TypeOK /\ Sound(tracker)
  /\ ~ Idle => Tip < MaxHeight
  /\ pc \in {"recalc", "consecutive", "cap"} => AssumeValidHeight < Tip + 1
  /\ leaks = 0 => TrackerReflects

LEMMA StateFacts ==
  ASSUME VInv
  PROVE  /\ chain \in Seq(Blocks) /\ Tip \in Nat /\ Tip <= highest /\ highest \in Nat
         /\ highest <= MaxHeight /\ MaxHeight \in Nat /\ leaks \in Nat /\ leaks <= MaxLeaks
         /\ AssumeValidHeight \in Nat /\ MaxLeaks \in Nat
         /\ tracker \in Tracker /\ Sound(tracker)
         /\ Tip < MaxHeight => Tip + 1 \in Heights /\ Tip + 1 \in Nat
         /\ Tip > 0 => Tip \in Heights
         /\ ~ Idle => block \in Blocks /\ Tip < MaxHeight
         /\ \A k \in 1 .. Tip : chain[k] \in Blocks
<1>1. /\ chain \in Seq(Blocks) /\ Tip <= highest /\ highest \in 0 .. MaxHeight
      /\ leaks \in 0 .. MaxLeaks /\ tracker \in Tracker /\ Sound(tracker)
      /\ ~ Idle => Tip < MaxHeight /\ block \in Blocks
  BY Zenon DEF VInv, TypeOK
<1>2. MaxHeight \in Nat /\ AssumeValidHeight \in Nat /\ MaxLeaks \in Nat
  BY Numbers, ChainAssumption
<1>3. Tip \in Nat /\ \A k \in 1 .. Tip : chain[k] \in Blocks
  BY <1>1 DEF Tip
<1> QED BY <1>1, <1>2, <1>3 DEF Heights

LEMMA LargerFacts ==
  ASSUME NEW a \in Nat, NEW b \in Nat
  PROVE  /\ Larger(a, b) \in Nat /\ a <= Larger(a, b) /\ b <= Larger(a, b)
         /\ Larger(a, b) \in {a, b} /\ Max({a, b}) = Larger(a, b)
<1>1. Max({a, b}) \in {a, b} /\ a <= Max({a, b}) /\ b <= Max({a, b})
  BY MaxPair
<1>2. Max({a, b}) = Larger(a, b)
  BY <1>1 DEF Larger
<1> QED BY <1>2 DEF Larger

(* The chain with the block that ConnectTip holds.                             *)
LEMMA AppendFacts ==
  ASSUME NEW c \in Seq(Blocks), NEW b \in Blocks
  PROVE  /\ Append(c, b) \in Seq(Blocks) /\ Len(Append(c, b)) = Len(c) + 1
         /\ Append(c, b)[Len(c) + 1] = b
         /\ \A k \in 1 .. Len(c) : Append(c, b)[k] = c[k]
OBVIOUS

(* Entering a block above the chain.                                           *)
LEMMA EnterNext ==
  ASSUME VInv, Tip < MaxHeight, NEW b \in Blocks,
         NEW j \in {Tip, Tip + 1}, NEW hi, Reflects(tracker, Append(chain, b), j, hi),
         j = Tip + 1 => Tip + 1 <= AssumeValidHeight,
         NEW top \in Nat, hi <= top, Tip + 1 <= top
  PROVE  LET r == OnBlockConnected(tracker, Tip + 1, b.mik, b.time)
         IN  /\ Sound(r) /\ Reflects(r, Append(chain, b), Tip + 1, top)
             /\ j = Tip => r.mikHeights[b.mik][Tip + 1] = 1
<1> DEFINE c == Append(chain, b)
           h == Tip + 1
<1>1. h \in Heights /\ tracker \in Tracker /\ c[h] = b
  BY StateFacts, AppendFacts DEF Tip
<1>2. h - 1 = Tip /\ j \in {h - 1, h}
  BY StateFacts
<1> HIDE DEF c, h
<1>3. Reflects(tracker, c, j, hi) /\ (j = h => h <= AssumeValidHeight) /\ h <= top
  BY DEF c, h
<1>4. LET r == OnBlockConnected(tracker, h, c[h].mik, c[h].time)
      IN  /\ Sound(r) /\ Reflects(r, c, h, top)
          /\ j = h - 1 => r.mikHeights[c[h].mik][h] = 1
  BY <1>1, <1>2, <1>3, EnterReflects, ZenonT(40)
<1> QED BY <1>1, <1>2, <1>4, Zenon DEF c, h

LEMMA InitInvariant == Init => VInv
<1> SUFFICES ASSUME Init PROVE VInv
  OBVIOUS
<1>1. tracker = Clear /\ chain = <<>> /\ pc = "idle" /\ block = NoBlock
      /\ highest = 0 /\ leaks = 0 /\ Tip = 0 /\ Len(chain) = 0
  BY DEF Init, Tip
<1>2. Sound(tracker) /\ Reflects(tracker, chain, 0, 0)
  BY <1>1, ClearReflects
<1>3. MaxHeight \in Nat /\ MaxLeaks \in Nat /\ chain \in Seq(Blocks)
  BY <1>1, Numbers, ChainAssumption
<1>4. TypeOK
  BY <1>1, <1>2, <1>3 DEF TypeOK, Sound, Idle
<1>5. TrackerReflects
  BY <1>1, <1>2 DEF TrackerReflects, Assuming
<1> QED BY <1>1, <1>2, <1>4, <1>5 DEF VInv, Idle

(* A step that keeps the chain and the tables of the tracker.                  *)
LEMMA SameChain ==
  ASSUME VInv, Sound(tracker'), SameTables(tracker', tracker),
         UNCHANGED <<chain, highest, leaks>>,
         pc' = pc \/ (~ Assuming /\ ~ Assuming'),
         Assuming => UNCHANGED block
  PROVE  leaks' = 0 => TrackerReflects'
<1> SUFFICES ASSUME leaks' = 0 PROVE TrackerReflects'
  OBVIOUS
<1>1. TrackerReflects /\ Tip' = Tip
  BY DEF VInv, Tip
<1>2. Assuming' <=> Assuming
  BY <1>1 DEF Assuming
<1>3. \A c, n, hi : Reflects(tracker, c, n, hi) => Reflects(tracker', c, n, hi)
  BY ReflectsSame
<1>4. tracker'.mikHeights = tracker.mikHeights
  BY DEF SameTables
<1>5. CASE Assuming
  <2>1. NotYetEntered => NotYetEntered'
    BY <1>1, <1>3, Zenon DEF NotYetEntered
  <2>2. EnteredOnce => EnteredOnce'
    BY <1>1, <1>3, <1>4, <1>5, Zenon DEF EnteredOnce
  <2> QED BY <1>1, <1>2, <1>5, <2>1, <2>2, Zenon DEF TrackerReflects
<1>6. CASE ~ Assuming
  BY <1>1, <1>2, <1>3, <1>6, Zenon DEF TrackerReflects
<1> QED BY <1>5, <1>6

LEMMA StartConnectInvariant ==
  ASSUME VInv, NEW b \in Blocks, NEW skip \in BOOLEAN, StartConnect(b, skip)
  PROVE  VInv'
<1> DEFINE h == Tip + 1
<1>0. /\ Idle /\ h <= MaxHeight /\ UNCHANGED <<chain, highest, leaks>> /\ Tip' = Tip
      /\ b.mik \in Miks /\ b # NoBlock
  BY BlockFacts DEF StartConnect, Tip
<1>1. h \in Heights /\ Tip < MaxHeight /\ Tip \in Nat /\ highest \in Nat /\ Sound(tracker)
      /\ AssumeValidHeight \in Nat
  BY <1>0, StateFacts
<1>2. CASE h <= AssumeValidHeight
  <2>1. /\ tracker' = IF skip THEN tracker ELSE OnBlockConnected(tracker, h, b.mik, b.time)
        /\ pc' = "apply" /\ block' = b
    BY <1>2 DEF StartConnect
  <2>2. leaks = 0 => Reflects(tracker, chain, Tip, highest)
    BY <1>0 DEF VInv, TrackerReflects, Assuming, Idle
  <2>3. /\ Larger(highest, h) \in Nat /\ highest <= Larger(highest, h)
        /\ h <= Larger(highest, h)
    <3>1. h \in Nat
      BY <1>1
    <3> QED BY <1>1, <3>1, LargerFacts, Zenon
  <2>4. Assuming'
    BY <1>0, <1>2, <2>1 DEF Assuming
  <2>5. Sound(tracker') /\ (leaks' = 0 => TrackerReflects')
    <3>1. CASE skip
      <4>1. leaks = 0 => Reflects(tracker, chain, Tip, Larger(highest, h))
        BY <2>2, <2>3, ReflectsHigher
      <4>2. leaks' = 0 => NotYetEntered'
        BY <1>0, <2>1, <3>1, <4>1, Zenon DEF NotYetEntered
      <4> QED BY <1>1, <2>1, <2>4, <3>1, <4>2, Zenon DEF TrackerReflects
    <3>2. CASE ~ skip
      <4>1. Sound(OnBlockConnected(tracker, h, b.mik, b.time))
        BY <1>0, <1>1, BlockFacts, ConnectedFacts DEF Sound
      <4>2. ASSUME leaks = 0
            PROVE  /\ Reflects(tracker', Append(chain, b), h, Larger(highest, h))
                   /\ tracker'.mikHeights[b.mik][h] = 1
        <5>1. Reflects(tracker, Append(chain, b), Tip, highest)
          <6>1. \A k \in 1 .. Tip : chain[k] = Append(chain, b)[k]
            BY StateFacts, AppendFacts DEF Tip
          <6> QED BY <2>2, <4>2, <6>1, ReflectsAgree, Zenon
        <5>2. Tip \in {Tip, Tip + 1} /\ Tip # Tip + 1
          BY <1>1
        <5> QED BY <1>1, <2>1, <2>3, <3>2, <5>1, <5>2, EnterNext, ZenonT(40)
      <4>3. leaks' = 0 => EnteredOnce'
        BY <1>0, <2>1, <4>2, Zenon DEF EnteredOnce
      <4> QED BY <2>1, <2>4, <3>2, <4>1, <4>3, Zenon DEF TrackerReflects
    <3> QED BY <3>1, <3>2
  <2>6. TypeOK'
    <3>1. tracker' \in Tracker
      BY <2>5 DEF Sound
    <3> QED BY <1>0, <2>1, <3>1 DEF VInv, TypeOK, Idle
  <2> QED BY <1>0, <1>1, <2>1, <2>5, <2>6 DEF VInv, Idle
<1>3. CASE ~(h <= AssumeValidHeight)
  <2>1. /\ tracker' = RecalcActiveMiners(tracker, h)
        /\ \/ pc' = "idle" /\ block' = NoBlock
           \/ pc' = "recalc" /\ block' = b
    BY <1>3, Zenon DEF StartConnect, Reject
  <2>2. Sound(tracker') /\ SameTables(tracker', tracker)
    BY <1>1, <2>1, RecalcFacts DEF Sound
  <2>3. TypeOK'
    <3>1. tracker' \in Tracker
      BY <2>2 DEF Sound
    <3> QED BY <1>0, <2>1, <3>1 DEF VInv, TypeOK, Idle
  <2>4. ~ Assuming /\ ~ Assuming'
    BY <1>0, <2>1 DEF Assuming, Idle
  <2>5. leaks' = 0 => TrackerReflects'
    BY <1>0, <2>2, <2>4, SameChain
  <2>6. AssumeValidHeight < Tip' + 1
    BY <1>0, <1>1, <1>3
  <2> QED BY <1>0, <1>1, <2>1, <2>2, <2>3, <2>5, <2>6 DEF VInv, Idle
<1> QED BY <1>2, <1>3

LEMMA ChecksInvariant ==
  ASSUME VInv, Recalc \/ Consecutive \/ WindowCap
  PROVE  VInv'
<1>0. UNCHANGED <<chain, highest, leaks>> /\ Tip' = Tip
  BY DEF Recalc, Consecutive, WindowCap, Tip
<1>1. /\ ~ Idle /\ ~ Assuming /\ AssumeValidHeight < Tip + 1
      /\ \/ pc' \in {"consecutive", "cap", "apply"} /\ block' = block
         \/ pc' = "idle" /\ block' = NoBlock
  <2>1. /\ pc \in {"recalc", "consecutive", "cap"}
        /\ \/ pc' \in {"consecutive", "cap", "apply"} /\ block' = block
           \/ pc' = "idle" /\ block' = NoBlock
    BY DEF Recalc, Consecutive, WindowCap, Reject
  <2> QED BY <2>1 DEF VInv, Idle, Assuming
<1>2. Sound(tracker') /\ SameTables(tracker', tracker)
  <2>1. CASE Recalc
    <3>1. tracker' = Asked(tracker, block.mik, Tip + 1)
      BY <2>1 DEF Recalc
    <3>2. block.mik \in Miks /\ Tip + 1 \in Heights /\ Sound(tracker)
      BY <1>1, StateFacts, BlockFacts
    <3> QED BY <3>1, <3>2, AskedFacts
  <2>2. CASE Consecutive \/ WindowCap
    <3>1. tracker' = tracker
      BY <2>2 DEF Consecutive, WindowCap
    <3> QED BY <3>1 DEF VInv, SameTables
  <2> QED BY <2>1, <2>2
<1>3. TypeOK'
  <2>1. tracker' \in Tracker
    BY <1>2 DEF Sound
  <2> QED BY <1>0, <1>1, <2>1 DEF VInv, TypeOK, Idle
<1>4. ~ Assuming'
  BY <1>0, <1>1, StateFacts DEF Assuming
<1>5. leaks' = 0 => TrackerReflects'
  BY <1>0, <1>1, <1>2, <1>4, SameChain
<1>6. Tip' < MaxHeight /\ AssumeValidHeight < Tip' + 1
  BY <1>0, <1>1, StateFacts
<1> QED BY <1>2, <1>3, <1>5, <1>6 DEF VInv

LEMMA ApplyInvariant ==
  ASSUME VInv, Apply
  PROVE  VInv'
<1> DEFINE h == Tip + 1
           top == Larger(highest, h)
<1>0. /\ pc = "apply" /\ tracker' = OnBlockConnected(tracker, h, block.mik, block.time)
      /\ chain' = Append(chain, block) /\ highest' = Max({highest, h})
      /\ pc' = "idle" /\ block' = NoBlock /\ leaks' = leaks /\ ~ Idle
  BY DEF Apply, Idle
<1>1. /\ block \in Blocks /\ h \in Heights /\ h \in Nat /\ Tip \in Nat /\ highest \in Nat
      /\ Tip < MaxHeight /\ highest <= MaxHeight /\ MaxHeight \in Nat /\ Tip # h
      /\ Tip <= highest /\ chain \in Seq(Blocks)
  BY <1>0, StateFacts
<1>2. /\ highest' = top /\ top \in Nat /\ highest <= top /\ h <= top /\ top <= MaxHeight
  BY <1>0, <1>1, LargerFacts
<1>3. Tip' = h /\ chain' \in Seq(Blocks)
  BY <1>0, <1>1, AppendFacts DEF Tip
<1>4. Sound(tracker')
  BY <1>0, <1>1, BlockFacts, ConnectedFacts, StateFacts
<1>5. ASSUME leaks = 0
      PROVE  Reflects(tracker', Append(chain, block), h, top)
  <2>0. TrackerReflects
    BY <1>5 DEF VInv
  <2>1. \A hi : Reflects(tracker, chain, Tip, hi) => Reflects(tracker, Append(chain, block), Tip, hi)
    <3>1. \A k \in 1 .. Tip : chain[k] = Append(chain, block)[k]
      BY <1>1, AppendFacts DEF Tip
    <3> QED BY <3>1, ReflectsAgree, Zenon
  <2>2. CASE ~ Assuming \/ NotYetEntered
    <3>1. \E hi : Reflects(tracker, Append(chain, block), Tip, hi) /\ hi <= top
      <4>1. top <= top
        BY <1>2
      <4> QED BY <1>2, <2>0, <2>1, <2>2, <4>1, Zenon DEF TrackerReflects, NotYetEntered
    <3>2. PICK hi : Reflects(tracker, Append(chain, block), Tip, hi) /\ hi <= top
      BY <3>1
    <3>3. Tip \in {Tip, Tip + 1} /\ Tip # Tip + 1
      BY <1>1
    <3> HIDE DEF top
    <3> QED BY <1>0, <1>1, <1>2, <3>2, <3>3, EnterNext, Zenon
  <2>3. CASE Assuming /\ EnteredOnce
    <3>1. h <= AssumeValidHeight /\ Reflects(tracker, Append(chain, block), h, top)
      BY <2>3, Zenon DEF Assuming, EnteredOnce
    <3>2. h \in {Tip, Tip + 1} /\ top <= top
      BY <1>2
    <3> HIDE DEF top
    <3> QED BY <1>0, <1>1, <1>2, <3>1, <3>2, EnterNext
  <2> QED BY <2>0, <2>2, <2>3, Zenon DEF TrackerReflects
<1>6. leaks' = 0 => TrackerReflects'
  <2>1. ~ Assuming'
    BY <1>0 DEF Assuming
  <2> QED BY <1>0, <1>2, <1>3, <1>5, <2>1, Zenon DEF TrackerReflects
<1>7. TypeOK'
  <2>1. tracker' \in Tracker /\ leaks' \in 0 .. MaxLeaks
    BY <1>0, <1>4 DEF Sound, VInv, TypeOK
  <2>2. highest' \in 0 .. MaxHeight /\ Tip' <= highest'
    BY <1>1, <1>2, <1>3
  <2> QED BY <1>0, <1>3, <2>1, <2>2 DEF TypeOK, Idle
<1> QED BY <1>0, <1>4, <1>6, <1>7 DEF VInv, Idle

LEMMA ApplyFailsInvariant ==
  ASSUME VInv, ApplyFails
  PROVE  VInv'
<1>0. /\ pc = "apply" /\ pc' = "idle" /\ block' = NoBlock /\ ~ Assuming'
      /\ UNCHANGED <<tracker, chain, highest>> /\ Tip' = Tip
      /\ leaks' = (IF Tip + 1 <= AssumeValidHeight THEN leaks + 1 ELSE leaks)
      /\ leaks' <= MaxLeaks
  BY DEF ApplyFails, Reject, Assuming, Tip
<1>1. leaks \in Nat /\ MaxLeaks \in Nat
  BY StateFacts
<1>2. leaks' \in 0 .. MaxLeaks
  BY <1>0, <1>1
<1>3. TypeOK'
  BY <1>0, <1>2 DEF VInv, TypeOK, Idle
<1>4. leaks' = 0 => TrackerReflects'
  <2> SUFFICES ASSUME leaks' = 0 PROVE TrackerReflects'
    OBVIOUS
  <2>1. ~ Assuming /\ leaks = 0
    BY <1>0, <1>1 DEF Assuming
  <2>2. Reflects(tracker, chain, Tip, highest)
    BY <2>1 DEF VInv, TrackerReflects
  <2> QED BY <1>0, <2>2, Zenon DEF TrackerReflects
<1>5. Sound(tracker')
  BY <1>0 DEF VInv
<1> QED BY <1>0, <1>3, <1>4, <1>5 DEF VInv, Idle

LEMMA DisconnectInvariant ==
  ASSUME VInv, Disconnect
  PROVE  VInv'
<1> DEFINE c == SubSeq(chain, 1, Tip - 1)
<1>0. /\ Idle /\ Tip > 0 /\ tracker' = OnBlockDisconnected(tracker, Tip) /\ chain' = c
      /\ leaks' = (IF Tip <= AssumeValidHeight THEN leaks + 1 ELSE leaks)
      /\ leaks' <= MaxLeaks /\ UNCHANGED <<pc, block, highest>>
  BY DEF Disconnect
<1>1. /\ Tip \in Heights /\ Tip \in Nat /\ leaks \in Nat /\ MaxLeaks \in Nat
      /\ AssumeValidHeight \in Nat /\ chain \in Seq(Blocks) /\ Sound(tracker)
      /\ highest \in Nat /\ Tip <= highest
  BY <1>0, StateFacts
<1>2. c \in Seq(Blocks) /\ Len(c) = Tip - 1 /\ \A k \in 1 .. Tip - 1 : c[k] = chain[k]
  BY <1>0, <1>1, CutFacts DEF Tip
<1> HIDE DEF c
<1>3. Tip' = Tip - 1
  BY <1>0, <1>2 DEF Tip
<1>4. Sound(tracker')
  BY <1>0, <1>1, DisconnectedFacts
<1>5. leaks' \in 0 .. MaxLeaks
  BY <1>0, <1>1
<1>6. TypeOK'
  <2>1. tracker' \in Tracker /\ Tip' <= highest' /\ highest' \in 0 .. MaxHeight
    BY <1>0, <1>1, <1>3, <1>4 DEF Sound, VInv, TypeOK
  <2> QED BY <1>0, <1>2, <1>5, <2>1 DEF VInv, TypeOK, Idle
<1>7. leaks' = 0 => TrackerReflects'
  <2> SUFFICES ASSUME leaks' = 0 PROVE TrackerReflects'
    OBVIOUS
  <2>1. leaks = 0 /\ ~(Tip <= AssumeValidHeight)
    BY <1>0, <1>1
  <2>2. ~ Assuming /\ ~ Assuming'
    BY <1>0 DEF Assuming, Idle
  <2>3. Reflects(tracker, chain, Tip, highest)
    BY <2>1, <2>2 DEF VInv, TrackerReflects
  <2>4. tracker.mikHeights[chain[Tip].mik][Tip] = 1
    <3>1. chain[Tip].mik \in Miks
      BY <1>0, <1>1, StateFacts, BlockFacts
    <3>2. /\ tracker.mikHeights[chain[Tip].mik][Tip] > 0 <=> Tip <= Tip
          /\ Tip > AssumeValidHeight => tracker.mikHeights[chain[Tip].mik][Tip] <= 1
      BY <1>1, <2>3, <3>1, Zenon DEF Reflects, HeightsReflect
    <3>3. tracker.mikHeights[chain[Tip].mik][Tip] \in Nat
      BY <1>1, <3>1 DEF Sound, Tracker
    <3> QED BY <1>1, <2>1, <3>2, <3>3
  <2>5. Reflects(tracker', chain, Tip - 1, highest)
    BY <1>0, <1>1, <2>3, <2>4, LeaveReflects
  <2>6. Reflects(tracker', c, Tip - 1, highest)
    BY <1>2, <2>5, ReflectsAgree
  <2> QED BY <1>0, <1>3, <2>2, <2>6, Zenon DEF TrackerReflects
<1> QED BY <1>0, <1>4, <1>6, <1>7 DEF VInv, Idle

LEMMA MinerQueryInvariant ==
  ASSUME VInv, NEW m \in Miks, NEW h \in Heights, MinerQuery(m, h)
  PROVE  VInv'
<1>0. tracker' = Asked(tracker, m, h) /\ UNCHANGED <<chain, pc, block, highest, leaks>>
      /\ Tip' = Tip
  BY DEF MinerQuery, Tip
<1>1. Sound(tracker') /\ SameTables(tracker', tracker)
  BY <1>0, AskedFacts DEF VInv
<1>2. TypeOK'
  <2>1. tracker' \in Tracker
    BY <1>1 DEF Sound
  <2> QED BY <1>0, <2>1 DEF VInv, TypeOK, Idle
<1>3. leaks' = 0 => TrackerReflects'
  BY <1>0, <1>1, SameChain
<1> QED BY <1>0, <1>1, <1>2, <1>3 DEF VInv, Idle

LEMMA ClearFailedInvariant ==
  ASSUME VInv, NEW h \in Heights, ClearFailed(h)
  PROVE  VInv'
<1>0. /\ h >= Tip /\ tracker' = OnBlockDisconnected(tracker, h)
      /\ leaks' = (IF h = Tip THEN leaks + 1 ELSE leaks) /\ leaks' <= MaxLeaks
      /\ UNCHANGED <<chain, pc, block, highest>> /\ Tip' = Tip
  BY DEF ClearFailed, Tip
<1>1. /\ Tip \in Nat /\ h \in Nat /\ leaks \in Nat /\ MaxLeaks \in Nat /\ Sound(tracker)
      /\ chain \in Seq(Blocks) /\ highest \in Nat
  BY StateFacts, Numbers
<1>2. Sound(tracker')
  BY <1>0, <1>1, DisconnectedFacts
<1>3. leaks' \in 0 .. MaxLeaks
  BY <1>0, <1>1
<1>4. TypeOK'
  <2>1. tracker' \in Tracker
    BY <1>2 DEF Sound
  <2> QED BY <1>0, <1>3, <2>1 DEF VInv, TypeOK, Idle
<1>5. leaks' = 0 => TrackerReflects'
  <2> SUFFICES ASSUME leaks' = 0 PROVE TrackerReflects'
    OBVIOUS
  <2>1. leaks = 0 /\ ~(h <= Tip)
    BY <1>0, <1>1
  <2>2. TrackerReflects /\ (Assuming' <=> Assuming)
    BY <1>0, <2>1 DEF VInv, Assuming
  <2>3. CASE ~ Assuming
    <3>1. Reflects(tracker, chain, Tip, highest)
      BY <2>2, <2>3, Zenon DEF TrackerReflects
    <3>2. tracker' = tracker
      BY <1>0, <1>1, <2>1, <3>1, NothingToLeave
    <3> QED BY <1>0, <2>2, <2>3, <3>1, <3>2, Zenon DEF TrackerReflects
  <2>4. CASE Assuming /\ NotYetEntered
    <3>1. Reflects(tracker, chain, Tip, Larger(highest, Tip + 1))
      BY <2>4 DEF NotYetEntered
    <3>2. tracker' = tracker
      BY <1>0, <1>1, <2>1, <3>1, NothingToLeave
    <3>3. NotYetEntered'
      BY <1>0, <3>1, <3>2, Zenon DEF NotYetEntered
    <3> QED BY <2>2, <2>4, <3>3, Zenon DEF TrackerReflects
  <2>5. CASE Assuming /\ EnteredOnce
    <3> DEFINE c == Append(chain, block)
               hi == Larger(highest, Tip + 1)
    <3>0. Reflects(tracker, c, Tip + 1, hi) /\ tracker.mikHeights[block.mik][Tip + 1] = 1
      BY <2>5, Zenon DEF EnteredOnce
    <3>1. block \in Blocks /\ Tip + 1 \in Heights /\ (Tip + 1) - 1 = Tip
      BY <2>5, StateFacts DEF Assuming, Idle
    <3>2. c[Tip + 1] = block /\ \A k \in 1 .. Tip : c[k] = chain[k]
      BY <1>1, <3>1, AppendFacts DEF Tip
    <3> HIDE DEF c, hi
    <3>3. CASE h = Tip + 1
      <4>1. Reflects(tracker', c, Tip, hi)
        <5>1. LET r == OnBlockDisconnected(tracker, Tip + 1)
              IN  Sound(r) /\ Reflects(r, c, (Tip + 1) - 1, hi)
          BY <1>1, <3>0, <3>1, <3>2, LeaveReflects
        <5> QED BY <1>0, <3>1, <3>3, <5>1
      <4>2. Reflects(tracker', chain, Tip, hi)
        BY <3>2, <4>1, ReflectsAgree
      <4>3. NotYetEntered'
        BY <1>0, <4>2, Zenon DEF NotYetEntered, hi
      <4> QED BY <2>2, <2>5, <4>3, Zenon DEF TrackerReflects
    <3>4. CASE h # Tip + 1
      <4>1. ~(h <= Tip + 1)
        BY <1>1, <2>1, <3>4
      <4>2. tracker' = tracker
        BY <1>0, <1>1, <3>0, <4>1, NothingToLeave
      <4>3. EnteredOnce'
        BY <1>0, <2>5, <4>2, Zenon DEF EnteredOnce
      <4> QED BY <2>2, <2>5, <4>3, Zenon DEF TrackerReflects
    <3> QED BY <3>3, <3>4
  <2> QED BY <2>2, <2>3, <2>4, <2>5, Zenon DEF TrackerReflects
<1> QED BY <1>0, <1>2, <1>4, <1>5 DEF VInv, Idle

LEMMA RestartInvariant ==
  ASSUME VInv, Restart
  PROVE  VInv'
<1>0. /\ tracker' = Replay(chain) /\ pc' = "idle" /\ block' = NoBlock /\ highest' = Tip
      /\ leaks' = 0 /\ chain' = chain /\ Tip' = Tip
  BY DEF Restart, Tip
<1>1. /\ chain \in Seq(Blocks) /\ Tip \in Nat /\ Tip <= MaxHeight /\ MaxHeight \in Nat
      /\ MaxLeaks \in Nat
  BY StateFacts
<1>2. Sound(tracker') /\ Reflects(tracker', chain, Tip, Tip)
  BY <1>0, <1>1, ReplayReflects DEF Tip
<1>3. TypeOK'
  <2>1. tracker' \in Tracker /\ Tip' <= highest' /\ highest' \in 0 .. MaxHeight
        /\ leaks' \in 0 .. MaxLeaks
    BY <1>0, <1>1, <1>2 DEF Sound
  <2> QED BY <1>0, <1>1, <2>1 DEF TypeOK, Idle
<1>4. TrackerReflects'
  <2>1. ~ Assuming'
    BY <1>0 DEF Assuming
  <2> QED BY <1>0, <1>2, <2>1, Zenon DEF TrackerReflects
<1> QED BY <1>0, <1>2, <1>3, <1>4 DEF VInv, Idle

LEMMA StutterInvariant ==
  ASSUME VInv, UNCHANGED vars
  PROVE  VInv'
<1>1. UNCHANGED <<chain, pc, block, highest, leaks, tracker>> /\ Tip' = Tip
  BY DEF vars, Tip
<1>2. Sound(tracker') /\ SameTables(tracker', tracker)
  BY <1>1 DEF VInv, SameTables
<1>3. leaks' = 0 => TrackerReflects'
  BY <1>1, <1>2, SameChain
<1>4. TypeOK'
  BY <1>1 DEF VInv, TypeOK, Idle
<1> QED BY <1>1, <1>2, <1>3, <1>4 DEF VInv, Idle

LEMMA VdfInvariant == Spec => []VInv
<1>1. Init => VInv
  BY InitInvariant
<1>2. VInv /\ [Next]_vars => VInv'
  <2> SUFFICES ASSUME VInv, [Next]_vars PROVE VInv'
    OBVIOUS
  <2>1. CASE UNCHANGED vars
    BY <2>1, StutterInvariant
  <2>2. CASE \E b \in Blocks, skip \in BOOLEAN : StartConnect(b, skip)
    BY <2>2, StartConnectInvariant
  <2>3. CASE Recalc \/ Consecutive \/ WindowCap
    BY <2>3, ChecksInvariant
  <2>4. CASE Apply
    BY <2>4, ApplyInvariant
  <2>5. CASE ApplyFails
    BY <2>5, ApplyFailsInvariant
  <2>6. CASE Disconnect
    BY <2>6, DisconnectInvariant
  <2>7. CASE \E m \in Miks, h \in Heights : MinerQuery(m, h)
    BY <2>7, MinerQueryInvariant
  <2>8. CASE \E h \in Heights : ClearFailed(h)
    BY <2>8, ClearFailedInvariant
  <2>9. CASE Restart
    BY <2>9, RestartInvariant
  <2> QED BY <2>1, <2>2, <2>3, <2>4, <2>5, <2>6, <2>7, <2>8, <2>9 DEF Next
<1> QED BY <1>1, <1>2, PTL DEF Spec

-----------------------------------------------------------------------------
(* The tracker, the chain and the state of ConnectTip are of their types in    *)
(* every state, also after the steps that leave the tracker with another       *)
(* chain; no count of the lifetime tables ever goes below zero.                *)
THEOREM TypeCorrect == Spec => []TypeOK
<1>1. VInv => TypeOK
  BY DEF VInv
<1> QED BY <1>1, VdfInvariant, PTL

(* The lifetime tables are those of the active chain, for any number of        *)
(* miners, any window and any sequence of connections, disconnections, marks   *)
(* cleared by the download coordinator and restarts (OnBlockConnected,         *)
(* OnBlockDisconnected), unless a step has left the tracker with another chain. *)
THEOREM LifetimeOfChain == Spec => []LifetimeIsChains
<1>1. VInv => LifetimeIsChains
  <2> SUFFICES ASSUME VInv, Idle, leaks = 0, NEW m \in Miks
               PROVE  /\ tracker.lifetime[m] > 0 <=> \E k \in 1 .. Tip : chain[k].mik = m
                      /\ \A h \in Heights :
                           tracker.mikHeights[m][h] > 0 <=> h <= Tip /\ chain[h].mik = m
    BY DEF LifetimeIsChains
  <2>1. Reflects(tracker, chain, Tip, highest)
    BY DEF VInv, TrackerReflects, Assuming, Idle
  <2>2. \A h \in Heights : tracker.mikHeights[m][h] > 0 <=> h <= Tip /\ chain[h].mik = m
    BY <2>1 DEF Reflects, HeightsReflect
  <2> DEFINE E == EnteredAs(tracker, m)
  <2>3. tracker.lifetime[m] = Cardinality(E) /\ IsFiniteSet(E)
    BY <2>1 DEF Reflects, LifetimeReflects
  <2>4. tracker.lifetime[m] > 0 <=> E # {}
    <3>1. Cardinality(E) \in Nat /\ (Cardinality(E) = 0 <=> E = {})
      BY <2>3, FS_CardinalityType, FS_EmptySet
    <3> HIDE DEF E
    <3> QED BY <2>3, <3>1
  <2>5. E # {} <=> \E h \in Heights : tracker.mikHeights[m][h] > 0
    <3>1. \A h \in Heights : tracker.mikHeights[m][h] \in Nat
      BY StateFacts DEF Tracker
    <3>2. ASSUME NEW h \in Heights, tracker.mikHeights[m][h] > 0 PROVE E # {}
      <4>1. <<h, 1>> \in E
        BY <3>1, <3>2 DEF EnteredAs
      <4> QED BY <4>1
    <3>3. ASSUME NEW e \in E PROVE \E h \in Heights : tracker.mikHeights[m][h] > 0
      BY <3>1 DEF EnteredAs
    <3> QED BY <3>2, <3>3
  <2>6. \A h \in Heights : h <= Tip <=> h \in 1 .. Tip
    BY StateFacts, Numbers
  <2>7. \A k \in 1 .. Tip : k \in Heights
    BY StateFacts, Numbers
  <2> HIDE DEF E
  <2> QED BY <2>2, <2>4, <2>5, <2>6, <2>7, Zenon
<1> QED BY <1>1, VdfInvariant, PTL

(* The cooldown verdict the tracker gives for the next block (IsInCooldown) is *)
(* the one the blocks of the chain give, for every window, every cooldown      *)
(* between the limits and every block time.                                    *)
THEOREM VerdictOfChain == Spec => []VerdictIsChains
<1>1. VInv => VerdictIsChains
  <2> SUFFICES ASSUME VInv, Idle, leaks = 0, highest <= Tip + 1, Tip < MaxHeight,
                      NEW b \in Blocks
               PROVE  IsInCooldown(tracker, b.mik, Tip + 1, b.time)
                        <=> ChainVerdict(b.mik, b.time)
    BY DEF VerdictIsChains
  <2>1. Reflects(tracker, chain, Tip, highest)
    BY DEF VInv, TrackerReflects, Assuming, Idle
  <2>2. /\ Sound(tracker) /\ chain \in Seq(Blocks) /\ Tip + 1 \in Heights
        /\ b.mik \in Miks /\ b.time \in Nat
    BY StateFacts, BlockFacts
  <2> QED BY <2>1, <2>2, VerdictReflects, Zenon DEF ChainVerdict, Tip
<1> QED BY <1>1, VdfInvariant, PTL

(* Asking with the tip excluded (IsInCooldownExcludingHeight) and asking after *)
(* OnBlockDisconnected agree in every state, also in those where the tracker   *)
(* has left the chain: the answer depends on the tables and the cached count   *)
(* being consistent with each other only.                                      *)
THEOREM ExcludingDisconnects == Spec => []ExcludingIsDisconnecting
<1>1. VInv => ExcludingIsDisconnecting
  <2> SUFFICES ASSUME VInv, Tip > 0, NEW b \in Blocks
               PROVE  IsInCooldownExcludingHeight(tracker, b.mik, Tip, b.time, Tip)
                        <=> IsInCooldown(OnBlockDisconnected(tracker, Tip), b.mik, Tip, b.time)
    BY DEF ExcludingIsDisconnecting
  <2>1. Sound(tracker) /\ Tip \in Heights /\ b.mik \in Miks
    BY StateFacts, BlockFacts
  <2>2. ASSUME NEW t, Sound(t), NEW h \in Heights, NEW m \in Miks, NEW now
        PROVE  IsInCooldownExcludingHeight(t, m, h, now, h)
                 = IsInCooldown(OnBlockDisconnected(t, h), m, h, now)
    BY <2>2, ExcludingFacts, ZenonT(40)
  <2> QED BY <2>1, <2>2, Zenon
<1> QED BY <1>1, VdfInvariant, PTL

(* A replacement that passes CheckVDFReplacementPreflight passes the cooldown, *)
(* the consecutive-miner rule and the window cap of ConnectTip once the tip is *)
(* disconnected, for any number of miners, any window and any cap, unless the  *)
(* lifetime gate closes the solo exemption, and then it does not.              *)
THEOREM PreflightIsEnough == Spec => []PreflightSuffices
<1>1. VInv => PreflightSuffices
  <2> SUFFICES ASSUME VInv, Tip > AssumeValidHeight,
                      NEW b \in Blocks, Preflight(tracker, chain, b)
               PROVE  ReplacementConnects(b) <=> ~ GateRefuses(b)
    BY DEF PreflightSuffices
  <2>1. Sound(tracker) /\ chain \in Seq(Blocks) /\ Len(chain) \in Heights
    BY StateFacts DEF Tip
  <2> QED BY <2>1, PreflightFacts DEF ReplacementConnects, GateRefuses, Tip
<1> QED BY <1>1, VdfInvariant, PTL
=============================================================================
