------------------------- MODULE BlockDownloadProofs -------------------------
(* Block download: the tracker's indexes agree and its limits hold after any  *)
(* sequence of calls, and the coordinator, the message thread and the         *)
(* validation worker keep what they need of each other, for any number of     *)
(* blocks and peers and any limits.                                           *)
EXTENDS BlockDownload, FiniteSetTheorems, WellFoundedInduction, TLAPS

-----------------------------------------------------------------------------
(* The tracker.  Its invariant alone is not inductive: AddBlock may overwrite *)
(* the height a hash is filed under unless every tracked hash is filed under  *)
(* its own height.                                                            *)

FiledAtOwnHeight(t) ==
    \A h \in Heights : t.heights[h] # NoRequest => HeightOf[t.heights[h].hash] = h

Good(t) == t \in TrackerType /\ IndexesAgree(t) /\ FiledAtOwnHeight(t)

TIInv == Good(tracker) /\ WithinCapacity(tracker)

(* A smaller set of requests is still within the limits.                      *)
LEMMA FewerFit ==
  ASSUME NEW t \in TrackerType, NEW u \in TrackerType, WithinCapacity(t),
         InFlight(u) \subseteq InFlight(t),
         \A p \in Peers : u.peer_heights[p] \subseteq t.peer_heights[p]
  PROVE  WithinCapacity(u)
<1>1. IsFiniteSet(InFlight(t)) /\ IsFiniteSet(InFlight(u))
  BY FS_Subset, TrackerAssumption DEF InFlight
<1>2. Cardinality(InFlight(u)) <= MAX_TOTAL
  <2>1. Cardinality(InFlight(u)) <= Cardinality(InFlight(t))
    BY <1>1, FS_Subset
  <2>2. Cardinality(InFlight(u)) \in Nat /\ Cardinality(InFlight(t)) \in Nat
    BY <1>1, FS_CardinalityType
  <2> QED BY <2>1, <2>2, TrackerAssumption DEF WithinCapacity
<1>3. ASSUME NEW p \in Peers PROVE Cardinality(u.peer_heights[p]) <= MAX_PER_PEER
  <2>1. t.peer_heights[p] \subseteq Heights /\ u.peer_heights[p] \subseteq t.peer_heights[p]
    BY DEF TrackerType
  <2>2. IsFiniteSet(t.peer_heights[p]) /\ IsFiniteSet(u.peer_heights[p])
    BY <2>1, FS_Subset, TrackerAssumption
  <2>3. Cardinality(u.peer_heights[p]) <= Cardinality(t.peer_heights[p])
    BY <2>1, <2>2, FS_Subset
  <2>4. Cardinality(u.peer_heights[p]) \in Nat /\ Cardinality(t.peer_heights[p]) \in Nat
    BY <2>2, FS_CardinalityType
  <2> QED BY <2>3, <2>4, TrackerAssumption DEF WithinCapacity
<1> QED BY <1>2, <1>3 DEF WithinCapacity

(* Dropping the requests at any heights keeps the indexes in agreement.       *)
LEMMA ForgetKeeps ==
  ASSUME NEW t, Good(t), NEW S
  PROVE  /\ Good(Forget(t, S))
         /\ InFlight(Forget(t, S)) \subseteq InFlight(t)
         /\ \A p \in Peers : Forget(t, S).peer_heights[p] \subseteq t.peer_heights[p]
<1> DEFINE u == Forget(t, S)
<1>1. t \in TrackerType /\ IndexesAgree(t) /\ FiledAtOwnHeight(t)
  BY DEF Good
<1>2. u.heights = [h \in Heights |-> IF h \in S THEN NoRequest ELSE t.heights[h]]
  BY DEF Forget
<1>3. u.hash_to_height = [x \in Hashes |->
         IF \E h \in S \cap InFlight(t) : t.heights[h].hash = x
         THEN NoHeight ELSE t.hash_to_height[x]]
  BY DEF Forget
<1>4. u.peer_heights = [p \in Peers |->
         t.peer_heights[p] \ {h \in S \cap InFlight(t) : t.heights[h].peer = p}]
  BY DEF Forget
<1>5. u \in TrackerType
  BY <1>1 DEF TrackerType, Forget
<1>6. IndexesAgree(u)
  <2>1. ASSUME NEW h \in Heights, NEW x \in Hashes
        PROVE  u.hash_to_height[x] = h <=> u.heights[h] # NoRequest /\ u.heights[h].hash = x
    <3>0. NoHeight # h
      BY TrackerAssumption DEF NoHeight
    <3>1. CASE \E g \in S \cap InFlight(t) : t.heights[g].hash = x
      <4>1. PICK g \in S \cap InFlight(t) : t.heights[g].hash = x
        BY <3>1
      <4>2. t.hash_to_height[x] = g
        BY <4>1, <1>1 DEF IndexesAgree, InFlight
      <4>3. u.hash_to_height[x] = NoHeight
        BY <3>1, <1>3
      <4> QED BY <4>1, <4>2, <4>3, <3>0, <1>1, <1>2 DEF IndexesAgree
    <3>2. CASE ~ \E g \in S \cap InFlight(t) : t.heights[g].hash = x
      <4>1. u.hash_to_height[x] = t.hash_to_height[x]
        BY <3>2, <1>3
      <4> QED BY <4>1, <3>2, <1>1, <1>2 DEF IndexesAgree, InFlight
    <3> QED BY <3>1, <3>2
  <2>2. ASSUME NEW h \in Heights, NEW p \in Peers
        PROVE  h \in u.peer_heights[p] <=> u.heights[h] # NoRequest /\ u.heights[h].peer = p
    BY <1>1, <1>2, <1>4 DEF IndexesAgree, InFlight
  <2> QED BY <2>1, <2>2 DEF IndexesAgree
<1>7. FiledAtOwnHeight(u)
  BY <1>1, <1>2 DEF FiledAtOwnHeight
<1>8. InFlight(u) \subseteq InFlight(t)
  BY <1>2 DEF InFlight
<1>9. \A p \in Peers : u.peer_heights[p] \subseteq t.peer_heights[p]
  BY <1>4
<1> QED BY <1>5, <1>6, <1>7, <1>8, <1>9 DEF Good

(* A block found by its hash is dropped like one found by its height.         *)
LEMMA ReceivedForgets ==
  ASSUME NEW t, Good(t), NEW x \in Hashes
  PROVE  OnBlockReceived(t, x) = Forget(t, {t.hash_to_height[x]})
<1> DEFINE h == t.hash_to_height[x]
<1>1. t \in TrackerType /\ IndexesAgree(t)
  BY DEF Good
<1>2. h \in Heights => h \in InFlight(t) /\ t.heights[h].hash = x
  BY <1>1 DEF IndexesAgree, InFlight
<1>3. h \notin Heights => h = NoHeight /\ h \notin InFlight(t)
  BY <1>1 DEF TrackerType, InFlight
<1>4. [g \in Heights |-> IF g = h THEN NoRequest ELSE t.heights[g]]
        = [g \in Heights |-> IF g \in {h} THEN NoRequest ELSE t.heights[g]]
  OBVIOUS
<1>5. [t.hash_to_height EXCEPT ![x] = NoHeight]
        = [y \in Hashes |-> IF \E g \in {h} \cap InFlight(t) : t.heights[g].hash = y
                            THEN NoHeight ELSE t.hash_to_height[y]]
  <2>1. t.hash_to_height \in [Hashes -> Heights \cup {NoHeight}]
    BY <1>1 DEF TrackerType
  <2>2. ASSUME NEW y \in Hashes
        PROVE  [t.hash_to_height EXCEPT ![x] = NoHeight][y]
                 = IF \E g \in {h} \cap InFlight(t) : t.heights[g].hash = y
                   THEN NoHeight ELSE t.hash_to_height[y]
    <3>1. CASE h \in Heights
      BY <3>1, <1>2, <2>1
    <3>2. CASE h \notin Heights
      BY <3>2, <1>3, <2>1
    <3> QED BY <3>1, <3>2
  <2> QED BY <2>1, <2>2
<1>6. [p \in Peers |-> IF h \in InFlight(t) /\ t.heights[h].peer = p
                       THEN t.peer_heights[p] \ {h} ELSE t.peer_heights[p]]
        = [p \in Peers |-> t.peer_heights[p] \ {g \in {h} \cap InFlight(t) : t.heights[g].peer = p}]
  <2>1. ASSUME NEW p \in Peers
        PROVE  (IF h \in InFlight(t) /\ t.heights[h].peer = p
                THEN t.peer_heights[p] \ {h} ELSE t.peer_heights[p])
               = t.peer_heights[p] \ {g \in {h} \cap InFlight(t) : t.heights[g].peer = p}
    OBVIOUS
  <2> QED BY <2>1
<1> QED BY <1>4, <1>5, <1>6, Zenon DEF OnBlockReceived, Forget

(* The requests of a peer are exactly those its own index lists.              *)
LEMMA DisconnectForgets ==
  ASSUME NEW t, Good(t), NEW p \in Peers
  PROVE  OnPeerDisconnected(t, p) = Forget(t, t.peer_heights[p])
<1> DEFINE S == t.peer_heights[p]
<1>1. t \in TrackerType /\ IndexesAgree(t)
  BY DEF Good
<1>2. t.peer_heights \in [Peers -> SUBSET Heights]
  BY <1>1 DEF TrackerType
<1>3. \A h \in S : h \in InFlight(t) /\ t.heights[h].peer = p
  BY <1>1, <1>2 DEF IndexesAgree, InFlight
<1>4. [t.peer_heights EXCEPT ![p] = {}]
        = [q \in Peers |-> t.peer_heights[q] \ {h \in S \cap InFlight(t) : t.heights[h].peer = q}]
  <2>1. ASSUME NEW q \in Peers
        PROVE  [t.peer_heights EXCEPT ![p] = {}][q]
                 = t.peer_heights[q] \ {h \in S \cap InFlight(t) : t.heights[h].peer = q}
    BY <1>2, <1>3
  <2> QED BY <1>2, <2>1, Zenon
<1> QED BY <1>4, Zenon DEF OnPeerDisconnected, Forget

(* AddBlock files one more request, if there is room for it.                  *)
LEMMA AddKeeps ==
  ASSUME NEW t, Good(t), WithinCapacity(t), NEW x \in Hashes, NEW p \in Peers,
         CanAdd(t, HeightOf[x], p)
  PROVE  Good(AddBlock(t, x, p)) /\ WithinCapacity(AddBlock(t, x, p))
<1> DEFINE g == HeightOf[x]
           u == AddBlock(t, x, p)
<1>1. t \in TrackerType /\ IndexesAgree(t) /\ FiledAtOwnHeight(t)
  BY DEF Good
<1>2. g \in Heights /\ t.heights[g] = NoRequest
  BY TrackerAssumption DEF CanAdd
<1>3. /\ t.heights \in [Heights -> [hash : Hashes, peer : Peers] \cup {NoRequest}]
      /\ t.hash_to_height \in [Hashes -> Heights \cup {NoHeight}]
      /\ t.peer_heights \in [Peers -> SUBSET Heights]
  BY <1>1 DEF TrackerType
<1>4. /\ u.heights = [t.heights EXCEPT ![g] = [hash |-> x, peer |-> p]]
      /\ u.hash_to_height = [t.hash_to_height EXCEPT ![x] = g]
      /\ u.peer_heights = [t.peer_heights EXCEPT ![p] = @ \cup {g}]
      /\ u.completed = t.completed
  BY DEF AddBlock
<1>5. [hash |-> x, peer |-> p] # NoRequest
  BY TrackerAssumption
<1>6. u \in TrackerType
  BY <1>1, <1>2 DEF TrackerType, AddBlock
<1>7. IndexesAgree(u)
  <2>1. ASSUME NEW h \in Heights, NEW y \in Hashes
        PROVE  u.hash_to_height[y] = h <=> u.heights[h] # NoRequest /\ u.heights[h].hash = y
    <3>1. CASE y = x
      <4>1. u.hash_to_height[y] = g
        BY <3>1, <1>3, <1>4
      <4>2. CASE h = g
        BY <4>1, <4>2, <3>1, <1>2, <1>3, <1>4, <1>5
      <4>3. CASE h # g
        <5>1. u.heights[h] = t.heights[h]
          BY <4>3, <1>3, <1>4
        <5>2. t.heights[h] # NoRequest => t.heights[h].hash # x
          BY <4>3, <1>1 DEF FiledAtOwnHeight
        <5> QED BY <4>1, <4>3, <5>1, <5>2, <3>1
      <4> QED BY <4>2, <4>3
    <3>2. CASE y # x
      <4>1. u.hash_to_height[y] = t.hash_to_height[y]
        BY <3>2, <1>3, <1>4
      <4>2. CASE h = g
        BY <4>1, <4>2, <3>2, <1>1, <1>2, <1>3, <1>4 DEF IndexesAgree
      <4>3. CASE h # g
        BY <4>1, <4>3, <1>1, <1>3, <1>4 DEF IndexesAgree
      <4> QED BY <4>2, <4>3
    <3> QED BY <3>1, <3>2
  <2>2. ASSUME NEW h \in Heights, NEW q \in Peers
        PROVE  h \in u.peer_heights[q] <=> u.heights[h] # NoRequest /\ u.heights[h].peer = q
    BY <1>1, <1>2, <1>3, <1>4, <1>5 DEF IndexesAgree
  <2> QED BY <2>1, <2>2 DEF IndexesAgree
<1>8. FiledAtOwnHeight(u)
  BY <1>1, <1>3, <1>4 DEF FiledAtOwnHeight
<1>9. Cardinality(InFlight(u)) <= MAX_TOTAL
  <2>1. InFlight(u) = InFlight(t) \cup {g} /\ g \notin InFlight(t)
    BY <1>2, <1>3, <1>4, <1>5 DEF InFlight
  <2>2. IsFiniteSet(InFlight(t))
    BY FS_Subset, TrackerAssumption DEF InFlight
  <2>3. Cardinality(InFlight(u)) = Cardinality(InFlight(t)) + 1
    BY <2>1, <2>2, FS_AddElement, Zenon
  <2>4. Cardinality(InFlight(t)) \in Nat
    BY <2>2, FS_CardinalityType
  <2> QED BY <2>3, <2>4, TrackerAssumption DEF CanAdd, GetTotalInFlight
<1>10. ASSUME NEW q \in Peers PROVE Cardinality(u.peer_heights[q]) <= MAX_PER_PEER
  <2>1. CASE q = p
    <3>1. u.peer_heights[p] = t.peer_heights[p] \cup {g}
      BY <1>3, <1>4
    <3>2. IsFiniteSet(t.peer_heights[p])
      BY <1>3, FS_Subset, TrackerAssumption
    <3>3. Cardinality(t.peer_heights[p]) \in Nat
      BY <3>2, FS_CardinalityType
    <3>4. Cardinality(u.peer_heights[p]) <= Cardinality(t.peer_heights[p]) + 1
      <4>1. Cardinality(t.peer_heights[p] \cup {g})
              = IF g \in t.peer_heights[p] THEN Cardinality(t.peer_heights[p])
                ELSE Cardinality(t.peer_heights[p]) + 1
        BY <3>2, FS_AddElement, Zenon
      <4> QED BY <4>1, <3>1, <3>3
    <3>5. Cardinality(t.peer_heights[p]) < MAX_PER_PEER
      BY DEF CanAdd, GetPeerInFlightCount
    <3>6. Cardinality(u.peer_heights[p]) \in Nat
      BY <3>1, <3>2, FS_AddElement, FS_CardinalityType, Zenon
    <3> QED BY <2>1, <3>3, <3>4, <3>5, <3>6, TrackerAssumption
  <2>2. CASE q # p
    BY <2>2, <1>3, <1>4 DEF WithinCapacity
  <2> QED BY <2>1, <2>2
<1> QED BY <1>6, <1>7, <1>8, <1>9, <1>10 DEF Good, WithinCapacity

(* After any calls, the tracker's three indexes agree and its limits hold:    *)
(* no sequence of arrivals, timeouts, disconnections and resets leaks a slot  *)
(* (net/block_tracker.h).                                                     *)
THEOREM TrackerHolds == TrackerSpec => []TrackerInv
<1>1. TrackerInit => TIInv
  <2> SUFFICES ASSUME TrackerInit PROVE TIInv
    OBVIOUS
  <2>1. Good(tracker)
    <3>1. NoHeight \notin Heights
      BY TrackerAssumption DEF NoHeight
    <3> QED BY <3>1 DEF TrackerInit, EmptyTracker, Good, TrackerType, IndexesAgree, FiledAtOwnHeight
  <2>2. InFlight(tracker) = {} /\ \A p \in Peers : tracker.peer_heights[p] = {}
    BY DEF TrackerInit, EmptyTracker, InFlight
  <2>3. WithinCapacity(tracker)
    BY <2>2, FS_EmptySet, TrackerAssumption DEF WithinCapacity
  <2> QED BY <2>1, <2>3 DEF TIInv
<1>2. TIInv /\ [TrackerNext]_tracker => TIInv'
  <2> SUFFICES ASSUME TIInv, [TrackerNext]_tracker PROVE TIInv'
    OBVIOUS
  <2>0. Good(tracker) /\ WithinCapacity(tracker) /\ tracker \in TrackerType
    BY DEF TIInv, Good
  <2>1. ASSUME NEW S, tracker' = Forget(tracker, S) PROVE TIInv'
    <3>1. Good(tracker') /\ InFlight(tracker') \subseteq InFlight(tracker)
            /\ \A p \in Peers : tracker'.peer_heights[p] \subseteq tracker.peer_heights[p]
      BY <2>0, <2>1, ForgetKeeps
    <3>2. tracker' \in TrackerType
      BY <3>1 DEF Good
    <3>3. WithinCapacity(tracker')
      BY <2>0, <3>1, <3>2, FewerFit
    <3> QED BY <3>1, <3>3 DEF TIInv
  <2>2. ASSUME NEW x \in Hashes, NEW p \in Peers,
               CanAdd(tracker, HeightOf[x], p), tracker' = AddBlock(tracker, x, p)
        PROVE  TIInv'
    <3>1. Good(AddBlock(tracker, x, p)) /\ WithinCapacity(AddBlock(tracker, x, p))
      BY <2>0, <2>2, AddKeeps
    <3> QED BY <3>1, <2>2 DEF TIInv
  <2>3. ASSUME NEW x \in Hashes, tracker' = OnBlockReceived(tracker, x) PROVE TIInv'
    BY <2>0, <2>1, <2>3, ReceivedForgets, Zenon
  <2>4. ASSUME NEW p \in Peers, tracker' = OnPeerDisconnected(tracker, p) PROVE TIInv'
    BY <2>0, <2>1, <2>4, DisconnectForgets
  <2>5. ASSUME NEW h \in Heights, tracker' = MarkCompleted(tracker, h) PROVE TIInv'
    <3>1. tracker' = [tracker EXCEPT !.completed = @ \cup {h}]
      BY <2>5 DEF MarkCompleted
    <3>2. /\ tracker'.heights = tracker.heights
          /\ tracker'.hash_to_height = tracker.hash_to_height
          /\ tracker'.peer_heights = tracker.peer_heights
          /\ tracker' \in TrackerType
      BY <3>1, <2>0 DEF TrackerType
    <3> QED BY <2>0, <3>2
            DEF TIInv, Good, IndexesAgree, FiledAtOwnHeight, WithinCapacity, InFlight
  <2>6. ASSUME NEW g \in Heights, tracker' = ClearAboveHeight(tracker, g) PROVE TIInv'
    <3> DEFINE S == {h \in Heights : h > g}
               u == Forget(tracker, S)
    <3>1. Good(u) /\ InFlight(u) \subseteq InFlight(tracker)
            /\ \A p \in Peers : u.peer_heights[p] \subseteq tracker.peer_heights[p]
      BY <2>0, ForgetKeeps
    <3>2. u \in TrackerType
      BY <3>1 DEF Good
    <3>3. WithinCapacity(u)
      BY <2>0, <3>1, <3>2, FewerFit
    <3>4. tracker' = [u EXCEPT !.completed = {h \in @ : h <= g}]
      BY <2>6 DEF ClearAboveHeight
    <3> HIDE DEF u
    <3>5. /\ tracker'.heights = u.heights
          /\ tracker'.hash_to_height = u.hash_to_height
          /\ tracker'.peer_heights = u.peer_heights
          /\ tracker' \in TrackerType
      BY <3>4, <3>2 DEF TrackerType
    <3> QED BY <3>1, <3>3, <3>5
            DEF TIInv, Good, IndexesAgree, FiledAtOwnHeight, WithinCapacity, InFlight
  <2>7. CASE tracker' = EmptyTracker
    <3>1. TrackerInit'
      BY <2>7 DEF TrackerInit
    <3> QED BY <3>1, <1>1, PTL
  <2>8. CASE UNCHANGED tracker
    BY <2>0, <2>8 DEF TIInv
  <2> QED BY <2>1, <2>2, <2>3, <2>4, <2>5, <2>6, <2>7, <2>8, Zenon
          DEF TrackerNext, OnBlockReceivedByHeight, RemoveTimedOut
<1>3. TIInv => TrackerInv
  BY DEF TIInv, Good, TrackerInv
<1> QED BY <1>1, <1>2, <1>3, PTL DEF TrackerSpec

-----------------------------------------------------------------------------
(* Sets of numbers. *)

(* Among finite sets there is one that none of the others is part of. *)
LEMMA LeastFiniteSet ==
  ASSUME NEW S, NEW T \in SUBSET FiniteSubsetsOf(S), T # {}
  PROVE  \E m \in T : \A n \in T : n \subseteq m => n = m
<1>1. \E m \in T : \A n \in T : ~(<<n, m>> \in StrictSubsetOrdering(S))
  BY WFMin, FS_StrictSubsetOrderingWellFounded
<1>2. \A n \in T : n \in SUBSET S
  BY DEF FiniteSubsetsOf
<1> QED BY <1>1, <1>2, Zenon DEF StrictSubsetOrdering

(* Max and Min (FiniteSetsExt) are what their names say.                      *)
LEMMA MaxFacts ==
  ASSUME NEW S \in SUBSET Int, IsFiniteSet(S), S # {}
  PROVE  Max(S) \in S /\ \A x \in S : x <= Max(S)
<1> DEFINE Above(x) == {y \in S : y > x}
           T == {Above(x) : x \in S}
<1>1. T \in SUBSET FiniteSubsetsOf(S)
  BY FS_Subset DEF FiniteSubsetsOf
<1>2. PICK x \in S : \A y \in S : Above(y) \subseteq Above(x) => Above(y) = Above(x)
  <2>1. T # {}
    BY Zenon
  <2>2. \E m \in T : \A n \in T : n \subseteq m => n = m
    <3> HIDE DEF T
    <3> QED BY <1>1, <2>1, LeastFiniteSet
  <2>3. PICK x \in S : \A n \in T : n \subseteq Above(x) => n = Above(x)
    BY <2>2, Zenon
  <2>4. \A y \in S : Above(y) \in T
    OBVIOUS
  <2> QED
    <3> HIDE DEF T, Above
    <3> QED BY <2>3, <2>4
<1>3. ASSUME NEW y \in S, y > x
      PROVE  FALSE
  <2>1. x \in Int /\ y \in Int /\ \A z \in S : z \in Int
    OBVIOUS
  <2>2. Above(y) \subseteq Above(x)
    <3>1. ASSUME NEW z \in S, z > y PROVE z > x
      <4>1. z \in Int
        BY <2>1
      <4> QED BY <3>1, <4>1, <1>3, <2>1
    <3> QED BY <3>1, Zenon
  <2>3. y \in Above(x) /\ y \notin Above(y)
    BY <1>3, <2>1
  <2> QED BY <2>2, <2>3, <1>2
<1>4. \A y \in S : x >= y
  <2>1. x \in Int /\ \A z \in S : z \in Int
    OBVIOUS
  <2> QED BY <1>3, <2>1
<1> QED BY <1>4, Zenon DEF Max

LEMMA MinFacts ==
  ASSUME NEW S \in SUBSET Int, IsFiniteSet(S), S # {}
  PROVE  Min(S) \in S /\ \A x \in S : Min(S) <= x
<1> DEFINE Below(x) == {y \in S : y < x}
           T == {Below(x) : x \in S}
<1>1. T \in SUBSET FiniteSubsetsOf(S)
  BY FS_Subset DEF FiniteSubsetsOf
<1>2. PICK x \in S : \A y \in S : Below(y) \subseteq Below(x) => Below(y) = Below(x)
  <2>1. T # {}
    BY Zenon
  <2>2. \E m \in T : \A n \in T : n \subseteq m => n = m
    <3> HIDE DEF T
    <3> QED BY <1>1, <2>1, LeastFiniteSet
  <2>3. PICK x \in S : \A n \in T : n \subseteq Below(x) => n = Below(x)
    BY <2>2
  <2>4. \A y \in S : Below(y) \in T
    OBVIOUS
  <2> QED
    <3> HIDE DEF T, Below
    <3> QED BY <2>3, <2>4
<1>3. ASSUME NEW y \in S, y < x
      PROVE  FALSE
  <2>1. x \in Int /\ y \in Int /\ \A z \in S : z \in Int
    OBVIOUS
  <2>2. Below(y) \subseteq Below(x)
    <3>1. ASSUME NEW z \in S, z < y PROVE z < x
      <4>1. z \in Int
        BY <2>1
      <4> QED BY <3>1, <4>1, <1>3, <2>1
    <3> QED BY <3>1, Zenon
  <2>3. y \in Below(x) /\ y \notin Below(y)
    BY <1>3, <2>1
  <2> QED BY <2>2, <2>3, <1>2
<1>4. \A y \in S : x <= y
  <2>1. x \in Int /\ \A z \in S : z \in Int
    OBVIOUS
  <2> QED BY <1>3, <2>1
<1> QED BY <1>4, Zenon DEF Min

LEMMA PairFacts ==
  ASSUME NEW a \in Int, NEW b \in Int
  PROVE  /\ Max({a, b}) \in {a, b} /\ a <= Max({a, b}) /\ b <= Max({a, b})
         /\ Min({a, b}) \in {a, b} /\ Min({a, b}) <= a /\ Min({a, b}) <= b
<1>1. IsFiniteSet({a, b}) /\ {a, b} \in SUBSET Int /\ {a, b} # {}
  <2>1. {a, b} = {a} \cup {b}
    OBVIOUS
  <2>2. IsFiniteSet({a} \cup {b})
    <3>1. IsFiniteSet({a})
      BY FS_Singleton
    <3> QED BY <3>1, FS_AddElement
  <2> QED BY <2>1, <2>2
<1>2. Max({a, b}) \in {a, b} /\ \A x \in {a, b} : x <= Max({a, b})
  BY <1>1, MaxFacts
<1>3. Min({a, b}) \in {a, b} /\ \A x \in {a, b} : Min({a, b}) <= x
  BY <1>1, MinFacts
<1> QED BY <1>2, <1>3

(* The lowest members of a set, fewer than r of them below each, are at most  *)
(* r: how GetNextBlocksToRequest and the batch of FetchBlocks fill the room.  *)
LEMMA LowestAreFew ==
  ASSUME NEW S \in SUBSET Int, IsFiniteSet(S), NEW r \in Nat,
         NEW F, F = {h \in S : Cardinality({g \in S : g < h}) < r}
  PROVE  IsFiniteSet(F) /\ Cardinality(F) <= r
<1>1. IsFiniteSet(F) /\ F \in SUBSET Int
  BY FS_Subset, Zenon
<1>2. CASE F = {}
  <2>1. Cardinality(F) = 0
    BY <1>2, FS_EmptySet, Zenon
  <2> QED BY <2>1, <1>1
<1>3. CASE F # {}
  <2> DEFINE m == Max(F)
             L == {g \in S : g < m}
  <2>1. m \in F /\ \A x \in F : x <= m
    BY <1>1, <1>3, MaxFacts, Zenon
  <2> HIDE DEF m
  <2>2. F \ {m} \in SUBSET L
    <3>1. ASSUME NEW x \in F, x # m PROVE x < m
      <4>1. x \in Int /\ m \in Int
        BY <2>1
      <4> QED BY <2>1, <3>1, <4>1
    <3> QED BY <3>1, Zenon
  <2>3. IsFiniteSet(L)
    BY FS_Subset
  <2>4. Cardinality(F \ {m}) <= Cardinality(L) /\ IsFiniteSet(F \ {m})
    <3> HIDE DEF L
    <3> QED BY <2>2, <2>3, FS_Subset, Zenon
  <2>5. Cardinality(L) < r
    BY <2>1
  <2>6. Cardinality(F \ {m}) = Cardinality(F) - 1
    BY <1>1, <2>1, FS_RemoveElement, Zenon
  <2>7. Cardinality(F) \in Nat /\ Cardinality(L) \in Nat /\ Cardinality(F \ {m}) \in Nat
    BY <1>1, <2>3, <2>4, FS_CardinalityType
  <2> QED
    <3> HIDE DEF L
    <3> QED BY <1>1, <2>4, <2>5, <2>6, <2>7
<1> QED BY <1>2, <1>3

-----------------------------------------------------------------------------
(* The tracker as the coordinator and the message thread use it. *)

WithinPerPeer(t) == \A p \in Peers : GetPeerInFlightCount(t, p) <= PerPeer

Fit(t) == Good(t) /\ WithinCapacity(t) /\ WithinPerPeer(t)

LEMMA Numbers ==
  /\ MaxHeight \in Nat \ {0} /\ Heights = 1 .. MaxHeight /\ Hashes = Heights
  /\ Heights \in SUBSET Int
  /\ \A p \in Peers : p # NoPeer
<1>1. Heights \in SUBSET Int /\ IsFiniteSet(Heights) /\ Heights # {} /\ Heights = 1 .. MaxHeight
      /\ Hashes = Heights
  BY TrackerAssumption, DownloadAssumption
<1>2. Max(Heights) \in Heights
  BY <1>1, MaxFacts, Zenon
<1>3. MaxHeight \in Nat
  BY <1>2, TrackerAssumption, Zenon DEF MaxHeight
<1>4. InitHeader \in 1 .. MaxHeight
  BY <1>1, DownloadAssumption
<1> QED BY <1>1, <1>3, <1>4, DownloadAssumption

LEMMA ForgetFits ==
  ASSUME NEW t, Fit(t), NEW S
  PROVE  Fit(Forget(t, S)) /\ Forget(t, S).completed = t.completed
<1> DEFINE u == Forget(t, S)
<1>1. /\ Good(u) /\ InFlight(u) \subseteq InFlight(t)
      /\ \A p \in Peers : u.peer_heights[p] \subseteq t.peer_heights[p]
  BY ForgetKeeps DEF Fit
<1>2. u.completed = t.completed
  BY DEF Forget
<1> HIDE DEF u
<1>3. t \in TrackerType /\ u \in TrackerType
  BY <1>1 DEF Fit, Good
<1>4. WithinCapacity(u)
  BY <1>1, <1>3, FewerFit DEF Fit
<1>5. ASSUME NEW p \in Peers PROVE Cardinality(u.peer_heights[p]) <= PerPeer
  <2>1. t.peer_heights[p] \subseteq Heights /\ u.peer_heights[p] \subseteq t.peer_heights[p]
    BY <1>1, <1>3 DEF TrackerType
  <2>2. IsFiniteSet(t.peer_heights[p]) /\ IsFiniteSet(u.peer_heights[p])
    BY <2>1, FS_Subset, TrackerAssumption
  <2>3. Cardinality(u.peer_heights[p]) <= Cardinality(t.peer_heights[p])
    BY <2>1, <2>2, FS_Subset
  <2>4. Cardinality(u.peer_heights[p]) \in Nat /\ Cardinality(t.peer_heights[p]) \in Nat
    BY <2>2, FS_CardinalityType
  <2>5. Cardinality(t.peer_heights[p]) <= PerPeer
    BY DEF Fit, WithinPerPeer, GetPeerInFlightCount
  <2> QED BY <2>3, <2>4, <2>5, DownloadAssumption
<1> QED BY <1>1, <1>2, <1>4, <1>5 DEF Fit, WithinPerPeer, GetPeerInFlightCount, u

LEMMA ReceivedFits ==
  ASSUME NEW t, Fit(t), NEW h \in Heights
  PROVE  /\ Fit(OnBlockReceived(t, h)) /\ OnBlockReceived(t, h).completed = t.completed
         /\ Fit(BlockReceived(t, h)) /\ BlockReceived(t, h).completed = t.completed
<1>1. OnBlockReceived(t, h) = Forget(t, {t.hash_to_height[h]})
  BY Numbers, ReceivedForgets DEF Fit
<1>2. Fit(OnBlockReceived(t, h)) /\ OnBlockReceived(t, h).completed = t.completed
  BY <1>1, ForgetFits
<1> QED BY <1>2, ForgetFits DEF BlockReceived, OnBlockReceivedByHeight

LEMMA DisconnectFits ==
  ASSUME NEW t, Fit(t), NEW p \in Peers
  PROVE  Fit(OnPeerDisconnected(t, p)) /\ OnPeerDisconnected(t, p).completed = t.completed
<1>1. OnPeerDisconnected(t, p) = Forget(t, t.peer_heights[p])
  BY DisconnectForgets DEF Fit
<1> QED BY <1>1, ForgetFits

(* What counts for the limits and the indexes is the three indexes.           *)
LEMMA SameIndexesFit ==
  ASSUME NEW t, Fit(t), NEW C \in SUBSET Heights, NEW u,
         u = [t EXCEPT !.completed = C]
  PROVE  Fit(u) /\ u.completed = C
<1>1. t \in TrackerType
  BY DEF Fit, Good
<1>2. /\ u.heights = t.heights /\ u.hash_to_height = t.hash_to_height
      /\ u.peer_heights = t.peer_heights /\ u \in TrackerType /\ u.completed = C
  BY <1>1 DEF TrackerType
<1> QED BY <1>2 DEF Fit, Good, IndexesAgree, FiledAtOwnHeight, WithinCapacity, InFlight,
                    WithinPerPeer, GetPeerInFlightCount

LEMMA MarkFits ==
  ASSUME NEW t, Fit(t), NEW h \in Heights
  PROVE  Fit(MarkCompleted(t, h)) /\ MarkCompleted(t, h).completed = t.completed \cup {h}
<1>1. t.completed \cup {h} \in SUBSET Heights
  BY DEF Fit, Good, TrackerType
<1>2. MarkCompleted(t, h) = [t EXCEPT !.completed = t.completed \cup {h}]
  BY DEF MarkCompleted
<1> QED BY <1>1, <1>2, SameIndexesFit

LEMMA ClearFits ==
  ASSUME NEW t, Fit(t), NEW g \in Nat
  PROVE  /\ Fit(ClearAboveHeight(t, g))
         /\ ClearAboveHeight(t, g).completed \subseteq t.completed
<1> DEFINE u == Forget(t, {h \in Heights : h > g})
           C == {h \in u.completed : h <= g}
<1>1. Fit(u) /\ u.completed = t.completed
  BY ForgetFits
<1>2. ClearAboveHeight(t, g) = [u EXCEPT !.completed = C]
  BY DEF ClearAboveHeight
<1>3. C \in SUBSET Heights
  <2> HIDE DEF u
  <2> QED BY <1>1 DEF Fit, Good, TrackerType
<1>4. Fit(ClearAboveHeight(t, g)) /\ ClearAboveHeight(t, g).completed = C
  <2> HIDE DEF u, C
  <2> QED BY <1>1, <1>2, <1>3, SameIndexesFit
<1> QED BY <1>1, <1>4

LEMMA SumBound ==
  ASSUME NEW a \in Nat, NEW b \in Nat, NEW c \in Nat, NEW n \in Nat, a + b <= n
  PROVE  a + b - c <= n
OBVIOUS

(* New requests to one peer that leave room within the limits.                *)
LEMMA AddBlocksFits ==
  ASSUME NEW t, Fit(t), NEW hs \in SUBSET Heights, NEW p \in Peers,
         \A h \in hs : t.heights[h] = NoRequest,
         GetPeerInFlightCount(t, p) + Cardinality(hs) <= PerPeer,
         GetTotalInFlight(t) + Cardinality(hs) <= MAX_TOTAL
  PROVE  Fit(AddBlocks(t, hs, p)) /\ AddBlocks(t, hs, p).completed = t.completed
<1> DEFINE u == AddBlocks(t, hs, p)
<1>1. t \in TrackerType /\ IndexesAgree(t) /\ FiledAtOwnHeight(t)
  BY DEF Fit, Good
<1>2. Hashes = Heights /\ (\A h \in Heights : HeightOf[h] = h) /\ Heights \subseteq Nat
  BY DownloadAssumption, TrackerAssumption
<1>3. /\ t.heights \in [Heights -> [hash : Hashes, peer : Peers] \cup {NoRequest}]
      /\ t.hash_to_height \in [Hashes -> Heights \cup {NoHeight}]
      /\ t.peer_heights \in [Peers -> SUBSET Heights]
      /\ t.completed \in SUBSET Heights
  BY <1>1 DEF TrackerType
<1>4. /\ u.heights = [h \in Heights |-> IF h \in hs THEN [hash |-> h, peer |-> p] ELSE t.heights[h]]
      /\ u.hash_to_height = [x \in Hashes |-> IF x \in hs THEN HeightOf[x] ELSE t.hash_to_height[x]]
      /\ u.peer_heights = [t.peer_heights EXCEPT ![p] = @ \cup hs]
      /\ u.completed = t.completed
      /\ u = [heights |-> u.heights, hash_to_height |-> u.hash_to_height,
              peer_heights |-> u.peer_heights, completed |-> u.completed]
  BY DEF AddBlocks
<1> HIDE DEF u
<1>5. \A h \in hs : h \in Hashes /\ [hash |-> h, peer |-> p] # NoRequest
  BY <1>2, TrackerAssumption
<1>6. u \in TrackerType
  <2>1. u.heights \in [Heights -> [hash : Hashes, peer : Peers] \cup {NoRequest}]
    BY <1>2, <1>3, <1>4
  <2>2. u.hash_to_height \in [Hashes -> Heights \cup {NoHeight}]
    BY <1>2, <1>3, <1>4
  <2>3. u.peer_heights \in [Peers -> SUBSET Heights] /\ u.completed \in SUBSET Heights
    BY <1>3, <1>4
  <2> QED BY <1>4, <2>1, <2>2, <2>3 DEF TrackerType
<1>7. IndexesAgree(u)
  <2>1. ASSUME NEW h \in Heights, NEW y \in Hashes
        PROVE  u.hash_to_height[y] = h <=> u.heights[h] # NoRequest /\ u.heights[h].hash = y
    <3>1. CASE h \in hs
      <4>1. u.heights[h] # NoRequest /\ u.heights[h].hash = h
        BY <3>1, <1>4, <1>5
      <4>2. y \notin hs => u.hash_to_height[y] = t.hash_to_height[y] /\ t.hash_to_height[y] # h
        BY <3>1, <1>1, <1>4 DEF IndexesAgree
      <4>3. y \in hs => u.hash_to_height[y] = y
        BY <1>2, <1>4
      <4> QED BY <3>1, <4>1, <4>2, <4>3
    <3>2. CASE h \notin hs
      <4>1. u.heights[h] = t.heights[h]
        BY <3>2, <1>4
      <4>2. t.heights[h] # NoRequest => t.heights[h].hash = h
        BY <1>1, <1>2, <1>3 DEF FiledAtOwnHeight
      <4>3. y \notin hs => u.hash_to_height[y] = t.hash_to_height[y]
        BY <1>4
      <4>4. y \in hs => u.hash_to_height[y] = y
        BY <1>2, <1>4
      <4> QED BY <3>2, <4>1, <4>2, <4>3, <4>4, <1>1 DEF IndexesAgree
    <3> QED BY <3>1, <3>2
  <2>2. ASSUME NEW h \in Heights, NEW q \in Peers
        PROVE  h \in u.peer_heights[q] <=> u.heights[h] # NoRequest /\ u.heights[h].peer = q
    <3>1. h \in u.peer_heights[q] <=> (h \in t.peer_heights[q] \/ (q = p /\ h \in hs))
      BY <1>3, <1>4
    <3>2. CASE h \in hs
      <4>1. u.heights[h] # NoRequest /\ u.heights[h].peer = p
        BY <3>2, <1>4, <1>5
      <4>2. h \notin t.peer_heights[q]
        BY <3>2, <1>1 DEF IndexesAgree
      <4> QED BY <3>1, <3>2, <4>1, <4>2
    <3>3. CASE h \notin hs
      BY <3>1, <3>3, <1>1, <1>4 DEF IndexesAgree
    <3> QED BY <3>2, <3>3
  <2> QED BY <2>1, <2>2 DEF IndexesAgree
<1>8. FiledAtOwnHeight(u)
  BY <1>1, <1>2, <1>4 DEF FiledAtOwnHeight
<1>9. IsFiniteSet(hs) /\ Cardinality(hs) \in Nat
  BY FS_Subset, FS_CardinalityType, TrackerAssumption, Zenon
<1>10. Cardinality(InFlight(u)) <= MAX_TOTAL
  <2>1. InFlight(u) = InFlight(t) \cup hs
    BY <1>4, <1>5 DEF InFlight
  <2>2. IsFiniteSet(InFlight(t))
    BY FS_Subset, TrackerAssumption DEF InFlight
  <2>3. /\ Cardinality(InFlight(t)) \in Nat
        /\ Cardinality(InFlight(t) \cap hs) \in Nat
    BY <2>2, FS_Intersection, FS_CardinalityType, Zenon
  <2>4. Cardinality(InFlight(u)) = Cardinality(InFlight(t)) + Cardinality(hs)
                                     - Cardinality(InFlight(t) \cap hs)
    BY <2>1, <2>2, <1>9, FS_Union
  <2>5. MAX_TOTAL \in Nat /\ Cardinality(InFlight(t)) + Cardinality(hs) <= MAX_TOTAL
    BY TrackerAssumption DEF GetTotalInFlight
  <2> QED BY <2>3, <2>4, <2>5, <1>9, SumBound, Zenon
<1>11. ASSUME NEW q \in Peers PROVE Cardinality(u.peer_heights[q]) <= PerPeer
  <2>1. CASE q = p
    <3>1. u.peer_heights[p] = t.peer_heights[p] \cup hs
      BY <1>3, <1>4
    <3>2. IsFiniteSet(t.peer_heights[p])
      BY <1>3, FS_Subset, TrackerAssumption
    <3>3. /\ Cardinality(t.peer_heights[p]) \in Nat
          /\ Cardinality(t.peer_heights[p] \cap hs) \in Nat
      BY <3>2, FS_Intersection, FS_CardinalityType, Zenon
    <3>4. Cardinality(u.peer_heights[p]) = Cardinality(t.peer_heights[p]) + Cardinality(hs)
                                             - Cardinality(t.peer_heights[p] \cap hs)
      BY <3>1, <3>2, <1>9, FS_Union
    <3>5. PerPeer \in Nat /\ Cardinality(t.peer_heights[p]) + Cardinality(hs) <= PerPeer
      BY DownloadAssumption DEF GetPeerInFlightCount
    <3> QED BY <2>1, <3>3, <3>4, <3>5, <1>9, SumBound, Zenon
  <2>2. CASE q # p
    BY <2>2, <1>3, <1>4 DEF Fit, WithinPerPeer, GetPeerInFlightCount
  <2> QED BY <2>1, <2>2
<1>12. ASSUME NEW q \in Peers PROVE Cardinality(u.peer_heights[q]) <= MAX_PER_PEER
  <2>1. IsFiniteSet(u.peer_heights[q])
    BY <1>6, FS_Subset, TrackerAssumption DEF TrackerType
  <2>2. Cardinality(u.peer_heights[q]) \in Nat
    BY <2>1, FS_CardinalityType
  <2> QED BY <2>2, <1>11, DownloadAssumption, TrackerAssumption
<1> QED BY <1>4, <1>6, <1>7, <1>8, <1>10, <1>11, <1>12, Zenon
        DEF Fit, Good, WithinCapacity, WithinPerPeer, GetPeerInFlightCount, u

LEMMA RequestFits ==
  ASSUME NEW t, Fit(t), NEW h \in Heights, NEW p \in Peers
  PROVE  /\ Fit(RequestBlockFromPeer(t, p, h))
         /\ RequestBlockFromPeer(t, p, h).completed = t.completed
<1>1. CASE FreeSlots(t, p) > 0 /\ CanAdd(t, h, p)
  <2>1. AddBlock(t, h, p) = AddBlocks(t, {h}, p)
    <3>1. HeightOf[h] = h /\ Hashes = Heights
      BY DownloadAssumption
    <3>2. /\ t.heights \in [Heights -> [hash : Hashes, peer : Peers] \cup {NoRequest}]
          /\ t.hash_to_height \in [Hashes -> Heights \cup {NoHeight}]
      BY DEF Fit, Good, TrackerType
    <3>3. [t.heights EXCEPT ![h] = [hash |-> h, peer |-> p]]
            = [g \in Heights |-> IF g \in {h} THEN [hash |-> g, peer |-> p] ELSE t.heights[g]]
      BY <3>2
    <3>4. [t.hash_to_height EXCEPT ![h] = h]
            = [x \in Hashes |-> IF x \in {h} THEN HeightOf[x] ELSE t.hash_to_height[x]]
      BY <3>1, <3>2
    <3> QED BY <3>1, <3>3, <3>4 DEF AddBlock, AddBlocks
  <2>2. Cardinality({h}) = 1
    BY FS_Singleton
  <2>3. GetPeerInFlightCount(t, p) \in Nat /\ GetTotalInFlight(t) \in Nat
    <3>1. t.peer_heights[p] \in SUBSET Heights /\ InFlight(t) \in SUBSET Heights
      BY DEF Fit, Good, TrackerType, InFlight
    <3>2. IsFiniteSet(t.peer_heights[p]) /\ IsFiniteSet(InFlight(t))
      BY <3>1, FS_Subset, TrackerAssumption
    <3> QED BY <3>2, FS_CardinalityType DEF GetPeerInFlightCount, GetTotalInFlight
  <2>4. GetPeerInFlightCount(t, p) + 1 <= PerPeer /\ GetTotalInFlight(t) + 1 <= MAX_TOTAL
    <3>1. PerPeer \in Nat /\ MAX_TOTAL \in Nat
      BY DownloadAssumption, TrackerAssumption, Zenon
    <3>2. PerPeer - GetPeerInFlightCount(t, p) > 0 /\ GetTotalInFlight(t) < MAX_TOTAL
      BY <1>1, Zenon DEF FreeSlots, CanAdd
    <3> QED BY <2>3, <3>1, <3>2
  <2>5. t.heights[h] = NoRequest
    BY <1>1 DEF CanAdd
  <2>6. Fit(AddBlocks(t, {h}, p)) /\ AddBlocks(t, {h}, p).completed = t.completed
    BY <2>2, <2>4, <2>5, AddBlocksFits
  <2> QED BY <1>1, <2>1, <2>6 DEF RequestBlockFromPeer
<1>2. CASE ~(FreeSlots(t, p) > 0 /\ CanAdd(t, h, p))
  BY <1>2 DEF RequestBlockFromPeer
<1> QED BY <1>1, <1>2

(* A batch never exceeds what is left of the peer's and of the table's room.  *)
LEMMA RequestAllFits ==
  ASSUME NEW t, Fit(t), NEW hs \in SUBSET Heights, NEW p \in Peers, FreeSlots(t, p) > 0
  PROVE  LET q == RequestAll(t, p, hs)
         IN  /\ Fit(q.tracker) /\ q.tracker.completed = t.completed
             /\ q.sent \in SUBSET hs
<1> DEFINE new == {h \in hs : t.heights[h] = NoRequest}
           room == Min({FreeSlots(t, p), MAX_TOTAL - GetTotalInFlight(t)})
           fits == {h \in new : Cardinality({g \in new : g < h}) < room}
<1>1. RequestAll(t, p, hs) = [sent |-> fits, tracker |-> AddBlocks(t, fits, p)]
  BY DEF RequestAll
<1>2. GetPeerInFlightCount(t, p) \in Nat /\ GetTotalInFlight(t) \in Nat
  <2>1. t.peer_heights[p] \in SUBSET Heights /\ InFlight(t) \in SUBSET Heights
    BY DEF Fit, Good, TrackerType, InFlight
  <2>2. IsFiniteSet(t.peer_heights[p]) /\ IsFiniteSet(InFlight(t))
    BY <2>1, FS_Subset, TrackerAssumption
  <2> QED BY <2>2, FS_CardinalityType DEF GetPeerInFlightCount, GetTotalInFlight
<1>3. GetTotalInFlight(t) <= MAX_TOTAL
  BY DEF Fit, WithinCapacity, GetTotalInFlight
<1>4. /\ FreeSlots(t, p) \in Nat /\ FreeSlots(t, p) = PerPeer - GetPeerInFlightCount(t, p)
      /\ MAX_TOTAL - GetTotalInFlight(t) \in Nat
  <2>1. PerPeer \in Nat /\ MAX_TOTAL \in Nat
    BY DownloadAssumption, TrackerAssumption, Zenon
  <2>2. FreeSlots(t, p) = PerPeer - GetPeerInFlightCount(t, p)
    BY Zenon DEF FreeSlots
  <2> QED BY <1>2, <1>3, <2>1, <2>2
<1>5. /\ room \in Nat /\ room <= FreeSlots(t, p)
      /\ room <= MAX_TOTAL - GetTotalInFlight(t)
  <2> DEFINE a == FreeSlots(t, p)
             b == MAX_TOTAL - GetTotalInFlight(t)
  <2>1. a \in Nat /\ b \in Nat
    BY <1>4
  <2> HIDE DEF a, b
  <2>2. Min({a, b}) \in {a, b} /\ Min({a, b}) <= a /\ Min({a, b}) <= b
    BY <2>1, PairFacts
  <2>3. Min({a, b}) \in Nat
    BY <2>1, <2>2
  <2> QED BY <2>2, <2>3 DEF a, b
<1>6. new \in SUBSET Int /\ new \in SUBSET Heights /\ IsFiniteSet(new)
  <2>1. new \in SUBSET Heights
    OBVIOUS
  <2> HIDE DEF new
  <2>2. IsFiniteSet(new)
    BY <2>1, FS_Subset, TrackerAssumption, Zenon
  <2>3. new \in SUBSET Int
    BY <2>1, TrackerAssumption
  <2> QED BY <2>1, <2>2, <2>3
<1>7. fits \in SUBSET new
  OBVIOUS
<1>8. IsFiniteSet(fits) /\ Cardinality(fits) <= room
  <2> HIDE DEF new, room
  <2> QED BY <1>5, <1>6, LowestAreFew
<1>9. Cardinality(fits) \in Nat
  <2> HIDE DEF fits
  <2> QED BY <1>8, FS_CardinalityType
<1>10. \A h \in fits : t.heights[h] = NoRequest
  OBVIOUS
<1> HIDE DEF room, fits, new
<1>11. /\ GetPeerInFlightCount(t, p) + Cardinality(fits) <= PerPeer
       /\ GetTotalInFlight(t) + Cardinality(fits) <= MAX_TOTAL
  <2>1. PerPeer \in Nat /\ MAX_TOTAL \in Nat
    BY DownloadAssumption, TrackerAssumption
  <2> DEFINE a == FreeSlots(t, p)
             b == GetTotalInFlight(t)
             c == GetPeerInFlightCount(t, p)
             n == Cardinality(fits)
  <2>2. /\ a \in Nat /\ b \in Nat /\ c \in Nat /\ n \in Nat /\ room \in Nat
        /\ a = PerPeer - c /\ n <= room /\ room <= a /\ room <= MAX_TOTAL - b
    BY <1>2, <1>4, <1>5, <1>8, <1>9
  <2> HIDE DEF a, b, c, n
  <2>3. c + n <= PerPeer /\ b + n <= MAX_TOTAL
    BY <2>1, <2>2
  <2> QED BY <2>3 DEF b, c, n
<1>12. Fit(AddBlocks(t, fits, p)) /\ AddBlocks(t, fits, p).completed = t.completed
  BY <1>6, <1>7, <1>10, <1>11, AddBlocksFits, Zenon
<1>13. fits \in SUBSET hs
  BY <1>7 DEF new
<1> QED BY <1>1, <1>12, <1>13

-----------------------------------------------------------------------------
(* The node's blocks. *)

NodeType == [chain : 0 .. MaxHeight, indexed : 0 .. MaxHeight, db : SUBSET Heights,
             orphans : SUBSET Heights, queue : SUBSET Heights]

NodeHolds(n) ==
    /\ n \in NodeType
    /\ n.chain <= n.indexed
    /\ 1 .. n.indexed \subseteq n.db /\ n.orphans \subseteq n.db
    /\ n.queue \subseteq 1 .. n.indexed

(* What a step of m from n never loses: an index entry, a block on disk; and  *)
(* what leaves the pool, or comes to disk, is indexed.                        *)
Keeps(n, m) ==
    /\ n.indexed <= m.indexed
    /\ n.orphans \subseteq m.orphans \cup 1 .. m.indexed
    /\ m.orphans \subseteq n.orphans
    /\ n.db \subseteq m.db
    /\ m.db \subseteq n.db \cup 1 .. m.indexed

(* Handling a block whose parent is indexed: it is connected, with the        *)
(* orphans above it, or queued, or only activated.                            *)
LEMMA ConnectHolds ==
  ASSUME NEW n, NodeHolds(n), NEW t, Fit(t), NEW h \in Heights, h = n.indexed + 1
  PROVE  LET r == ConnectWithOrphans(n, t, h)
         IN  /\ NodeHolds(r.node) /\ Keeps(n, r.node) /\ h <= r.node.indexed
             /\ Fit(r.tracker) /\ r.tracker.completed = t.completed
<1> DEFINE run == RunAbove(n, h)
           top == Max(run \cup {h})
           m == [n EXCEPT !.chain = top, !.indexed = top, !.db = @ \cup {h}, !.orphans = @ \ run]
           u == Forget(t, run \cup {h})
<1>1. ConnectWithOrphans(n, t, h) = [node |-> m, tracker |-> u]
  BY DEF ConnectWithOrphans
<1>2. Fit(u) /\ u.completed = t.completed
  BY ForgetFits
<1>3. /\ n.orphans \in SUBSET Heights /\ n.indexed \in 0 .. MaxHeight /\ h \in 1 .. MaxHeight
      /\ n.db \in SUBSET Heights /\ n.queue \in SUBSET Heights
      /\ Heights = 1 .. MaxHeight /\ MaxHeight \in Nat
  BY Numbers DEF NodeHolds, NodeType
<1>4. run \in SUBSET Heights /\ run \in SUBSET n.orphans
      /\ \A k \in run : k > h /\ h + 1 .. k \subseteq n.orphans
  BY <1>3 DEF RunAbove
<1>5. top \in run \cup {h} /\ \A k \in run \cup {h} : k <= top
  <2>1. run \cup {h} \in SUBSET Heights /\ run \cup {h} # {}
    BY <1>4
  <2> HIDE DEF run
  <2>2. IsFiniteSet(run \cup {h})
    BY <2>1, FS_Subset, TrackerAssumption
  <2>3. run \cup {h} \in SUBSET Int
    BY <2>1, Numbers
  <2> QED BY <2>1, <2>2, <2>3, MaxFacts
<1> HIDE DEF run, top, u
<1>6. top \in Heights /\ top >= h /\ h + 1 .. top \subseteq n.orphans
  <2>1. CASE top = h
    BY <2>1, <1>3
  <2>2. CASE top \in run
    BY <2>2, <1>3, <1>4
  <2> QED BY <2>1, <2>2, <1>5
<1>7. /\ m.chain = top /\ m.indexed = top /\ m.db = n.db \cup {h} /\ m.orphans = n.orphans \ run
      /\ m.queue = n.queue /\ m \in NodeType
  <2>1. top \in 0 .. MaxHeight /\ n.db \cup {h} \in SUBSET Heights /\ n.orphans \ run \in SUBSET Heights
    BY <1>3, <1>6
  <2>2. n \in NodeType
    BY DEF NodeHolds
  <2> QED BY <2>1, <2>2, Zenon DEF NodeType
<1> HIDE DEF m
<1>8. \A k \in 1 .. top : k \in n.db \cup {h}
  <2> SUFFICES ASSUME NEW k \in 1 .. top PROVE k \in n.db \cup {h}
    OBVIOUS
  <2>1. CASE k <= n.indexed
    BY <2>1, <1>3, <1>6 DEF NodeHolds
  <2>2. CASE k > h
    BY <2>2, <1>3, <1>6 DEF NodeHolds
  <2> QED BY <2>1, <2>2, <1>3, <1>6
<1>9. NodeHolds(m)
  <2>1. n.queue \subseteq 1 .. top
    <3>1. \A k \in n.queue : k \in 1 .. n.indexed
      BY DEF NodeHolds
    <3> QED BY <3>1, <1>3, <1>6
  <2> QED BY <2>1, <1>3, <1>6, <1>7, <1>8 DEF NodeHolds
<1>10. Keeps(n, m)
  <2>1. \A k \in run : k \in 1 .. top
    BY <1>3, <1>4, <1>5, <1>6
  <2>2. h \in 1 .. top
    BY <1>3, <1>6
  <2>3. n.indexed <= top
    BY <1>3, <1>6
  <2> QED BY <2>1, <2>2, <2>3, <1>7 DEF Keeps
<1> QED BY <1>1, <1>2, <1>6, <1>7, <1>9, <1>10

LEMMA QueueHolds ==
  ASSUME NEW n, NodeHolds(n), NEW t, Fit(t), NEW h \in Heights, h = n.indexed + 1
  PROVE  LET r == QueueForValidation(n, t, h)
         IN  /\ NodeHolds(r.node) /\ Keeps(n, r.node) /\ h <= r.node.indexed
             /\ Fit(r.tracker) /\ r.tracker.completed = t.completed
<1> DEFINE m == [n EXCEPT !.indexed = h, !.db = @ \cup {h}, !.queue = @ \cup {h}]
<1>1. QueueForValidation(n, t, h) = [node |-> m, tracker |-> BlockReceived(t, h)]
  BY DEF QueueForValidation
<1>2. Fit(BlockReceived(t, h)) /\ BlockReceived(t, h).completed = t.completed
  BY ReceivedFits
<1>3. /\ n.indexed \in 0 .. MaxHeight /\ n.chain \in 0 .. MaxHeight /\ h \in 1 .. MaxHeight
      /\ MaxHeight \in Nat /\ Heights = 1 .. MaxHeight
  BY Numbers DEF NodeHolds, NodeType
<1>4. /\ m.chain = n.chain /\ m.indexed = h /\ m.db = n.db \cup {h} /\ m.orphans = n.orphans
      /\ m.queue = n.queue \cup {h} /\ m \in NodeType
  <2>1. h \in 0 .. MaxHeight /\ n.db \cup {h} \in SUBSET Heights /\ n.queue \cup {h} \in SUBSET Heights
    BY <1>3 DEF NodeHolds, NodeType
  <2>2. n \in NodeType
    BY DEF NodeHolds
  <2> QED BY <2>1, <2>2, Zenon DEF NodeType
<1> HIDE DEF m
<1>5. NodeHolds(m)
  <2>1. \A k \in 1 .. h : k \in 1 .. n.indexed \/ k = h
    BY <1>3
  <2>2. \A k \in n.queue \cup {h} : k \in 1 .. h
    <3>1. \A k \in n.queue : k \in 1 .. n.indexed
      BY DEF NodeHolds
    <3> QED BY <3>1, <1>3
  <2>3. n.chain <= h
    BY <1>3 DEF NodeHolds
  <2> QED BY <2>1, <2>2, <2>3, <1>4 DEF NodeHolds
<1>6. Keeps(n, m)
  BY <1>3, <1>4 DEF Keeps
<1>7. h <= m.indexed
  BY <1>3, <1>4
<1> QED BY <1>1, <1>2, <1>5, <1>6, <1>7

LEMMA StuckHolds ==
  ASSUME NEW n, NodeHolds(n), NEW t, Fit(t), NEW h \in Heights, h <= n.indexed
  PROVE  LET r == ActivateStuck(n, t, h)
         IN  /\ NodeHolds(r.node) /\ Keeps(n, r.node) /\ h <= r.node.indexed
             /\ Fit(r.tracker) /\ r.tracker.completed = t.completed
             /\ r.node.chain = IF h > n.chain THEN h ELSE n.chain
<1> DEFINE top == Max({n.chain, h})
           m == [n EXCEPT !.chain = top]
<1>1. ActivateStuck(n, t, h) = [node |-> m, tracker |-> BlockReceived(t, h)]
  BY DEF ActivateStuck
<1>2. Fit(BlockReceived(t, h)) /\ BlockReceived(t, h).completed = t.completed
  BY ReceivedFits
<1>3. /\ n.indexed \in 0 .. MaxHeight /\ n.chain \in 0 .. MaxHeight /\ h \in 1 .. MaxHeight
      /\ MaxHeight \in Nat /\ Heights = 1 .. MaxHeight
  BY Numbers DEF NodeHolds, NodeType
<1>4. top = IF h > n.chain THEN h ELSE n.chain
  <2>1. top \in {n.chain, h} /\ n.chain <= top /\ h <= top
    <3>1. n.chain \in Int /\ h \in Int
      BY <1>3
    <3> QED BY <3>1, PairFacts, Zenon
  <2> HIDE DEF top
  <2> QED BY <2>1, <1>3
<1> HIDE DEF top
<1>5. /\ m.chain = top /\ m.indexed = n.indexed /\ m.db = n.db /\ m.orphans = n.orphans
      /\ m.queue = n.queue /\ m \in NodeType
  BY <1>3, <1>4 DEF NodeHolds, NodeType
<1> HIDE DEF m
<1>6. NodeHolds(m)
  BY <1>3, <1>4, <1>5 DEF NodeHolds
<1>7. Keeps(n, m)
  BY <1>3, <1>5 DEF Keeps
<1> QED BY <1>1, <1>2, <1>4, <1>5, <1>6, <1>7

LEMMA ProcessHolds ==
  ASSUME NEW n, NodeHolds(n), NEW t, Fit(t), NEW h \in Heights, h - 1 <= n.indexed
  PROVE  LET r == ProcessConnectable(n, t, h)
         IN  /\ NodeHolds(r.node) /\ Keeps(n, r.node) /\ h <= r.node.indexed
             /\ Fit(r.tracker) /\ r.tracker.completed = t.completed
<1> DEFINE Holds(r) == /\ NodeHolds(r.node) /\ Keeps(n, r.node) /\ h <= r.node.indexed
                       /\ Fit(r.tracker) /\ r.tracker.completed = t.completed
<1>1. n.indexed \in Int /\ h \in Int
  BY Numbers DEF NodeHolds, NodeType
<1>2. CASE h <= n.indexed
  <2>1. ProcessConnectable(n, t, h) = ActivateStuck(n, t, h)
    BY <1>2, Zenon DEF ProcessConnectable
  <2>2. Holds(ActivateStuck(n, t, h))
    BY <1>2, StuckHolds
  <2> HIDE DEF Holds
  <2>3. Holds(ProcessConnectable(n, t, h))
    BY <2>1, <2>2, Zenon
  <2> QED BY <2>3, Zenon DEF Holds
<1>3. CASE h > n.indexed
  <2>1. h = n.indexed + 1 /\ ~(h <= n.indexed)
    BY <1>1, <1>3
  <2>2. Holds(QueueForValidation(n, t, h))
    BY <2>1, QueueHolds
  <2>3. Holds(ConnectWithOrphans(n, t, h))
    BY <2>1, ConnectHolds
  <2>4. \/ ProcessConnectable(n, t, h) = QueueForValidation(n, t, h)
        \/ ProcessConnectable(n, t, h) = ConnectWithOrphans(n, t, h)
    BY <2>1, Zenon DEF ProcessConnectable
  <2> HIDE DEF Holds
  <2>5. Holds(ProcessConnectable(n, t, h))
    BY <2>2, <2>3, <2>4, Zenon
  <2> QED BY <2>5, Zenon DEF Holds
<1> QED BY <1>1, <1>2, <1>3

-----------------------------------------------------------------------------
(* The coordinator's own state. *)

IbdType ==
    [sync : Peers \cup {NoPeer}, cool : Peers \cup {NoPeer}, stalls : 0 .. MaxStalls,
     futile : 0 .. MaxFutile, timeouts : 0 .. MaxTimeouts,
     seen : SUBSET {"stall", "batch", "scan"}]

LEMMA Limits ==
  /\ MaxStalls \in Nat \ {0} /\ MaxFutile \in Nat \ {0} /\ MaxTimeouts \in Nat \ {0}
  /\ 0 \in 0 .. MaxStalls /\ 0 \in 0 .. MaxFutile /\ 0 \in 0 .. MaxTimeouts
<1>1. MaxStalls \in Nat \ {0} /\ MaxFutile \in Nat \ {0} /\ MaxTimeouts \in Nat \ {0}
  BY DownloadAssumption
<1> QED BY <1>1

LEMMA AdvanceType ==
  ASSUME NEW d \in IbdType, NEW n
  PROVE  Advance(d, n) \in IbdType
BY DEF Advance, IbdType

LEMMA SelectType ==
  ASSUME NEW d \in IbdType, NEW p \in Peers
  PROVE  Select(d, p) \in IbdType /\ Select(d, p).sync = p
BY Limits, Zenon DEF Select, IbdType

LEMMA GiveUpType ==
  ASSUME NEW d \in IbdType
  PROVE  /\ GiveUp(d) \in IbdType
         /\ [GiveUp(d) EXCEPT !.stalls = 0] \in IbdType
         /\ [GiveUp(d) EXCEPT !.timeouts = 0] \in IbdType
         /\ [GiveUp(d) EXCEPT !.futile = 0, !.seen = @ \ {"batch"}] \in IbdType
BY Limits, Zenon DEF GiveUp, IbdType

LEMMA CountFutileType ==
  ASSUME NEW d \in IbdType
  PROVE  CountFutile(d) \in IbdType
<1>1. CASE "batch" \notin d.seen
  BY <1>1, Limits, Zenon DEF CountFutile, IbdType
<1>2. CASE "batch" \in d.seen /\ d.futile + 1 >= MaxFutile
  BY <1>2, GiveUpType, Zenon DEF CountFutile
<1>3. CASE "batch" \in d.seen /\ ~(d.futile + 1 >= MaxFutile)
  <2>1. d.futile + 1 \in 0 .. MaxFutile
    BY <1>3, Limits DEF IbdType
  <2>2. CountFutile(d) = [d EXCEPT !.futile = d.futile + 1]
    BY <1>3 DEF CountFutile
  <2> QED BY <2>1, <2>2 DEF IbdType
<1> QED BY <1>1, <1>2, <1>3

-----------------------------------------------------------------------------
(* The inductive invariant.  Beyond the properties: what is on disk is held   *)
(* somewhere, and the orphan that the message thread is about to store is on  *)
(* disk and has a height below it to ask for.                                 *)

LostType == [expired : SUBSET Heights, refused : SUBSET Heights]

Held == 1 .. node.indexed \cup node.orphans \cup {storing.height} \cup Lost

StoringHolds ==
    \/ storing = NotStoring
    \/ /\ storing \in [height : Heights, peer : Peers]
       /\ storing.height - 1 \in Heights
       /\ storing.height \in node.db

BlocksHold ==
    /\ Fit(tracker)
    /\ NodeHolds(node)
    /\ working \in 0 .. node.indexed
    /\ StoringHolds
    /\ tracker.completed \subseteq Held
    /\ node.db \subseteq Held

DInv ==
    /\ BlocksHold
    /\ header \in Heights
    /\ connected \subseteq Peers
    /\ net \subseteq Peers \X Heights
    /\ ibd \in IbdType
    /\ pc \in {"tick", "scan", "retry"}
    /\ drops \in 0 .. MaxDisconnects
    /\ lost \in LostType

LEMMA InvType ==
  ASSUME DInv
  PROVE  TypeOK
<1>1. MaxHeight \in Nat /\ Heights = 1 .. MaxHeight
  BY Numbers
<1>2. node \in NodeType /\ tracker \in TrackerType
  BY DEF DInv, BlocksHold, NodeHolds, Fit, Good
<1>3. working \in 0 .. MaxHeight
  <2>1. node.indexed \in 0 .. MaxHeight
    BY <1>2 DEF NodeType
  <2> QED BY <1>1, <2>1 DEF DInv, BlocksHold
<1>4. storing \in [height : 0 .. MaxHeight, peer : Peers \cup {NoPeer}]
  <2>1. CASE storing = NotStoring
    BY <2>1, <1>1 DEF NotStoring
  <2>2. CASE storing \in [height : Heights, peer : Peers]
    <3>1. Heights \subseteq 0 .. MaxHeight
      BY <1>1
    <3> QED BY <2>2, <3>1, Zenon
  <2> QED BY <2>1, <2>2 DEF DInv, BlocksHold, StoringHolds
<1> QED BY <1>2, <1>3, <1>4 DEF DInv, BlocksHold, TypeOK, NodeType, IbdType, LostType

LEMMA InvProperties ==
  ASSUME DInv
  PROVE  PeerLimit /\ HeldOnDisk /\ CompletedIsHeld /\ TrackerInv
<1>1. PeerLimit /\ TrackerInv
  BY DEF DInv, BlocksHold, Fit, WithinPerPeer, PeerLimit, TrackerInv, Good
<1>2. HeldOnDisk
  <2>1. node.queue \cup ({working} \ {0}) \subseteq 1 .. node.indexed
    <3>1. node.indexed \in Int
      BY Numbers DEF DInv, BlocksHold, NodeHolds, NodeType
    <3>2. working # 0 => working \in 1 .. node.indexed
      BY <3>1 DEF DInv, BlocksHold
    <3> QED BY <3>2 DEF DInv, BlocksHold, NodeHolds
  <2> QED BY <2>1 DEF DInv, BlocksHold, NodeHolds, HeldOnDisk
<1>3. CompletedIsHeld
  BY DEF DInv, BlocksHold, Held, Lost, CompletedIsHeld
<1> QED BY <1>1, <1>2, <1>3

LEMMA InitInv ==
  ASSUME Init
  PROVE  DInv
<1>1. Fit(tracker) /\ tracker.completed = {}
  <2>1. Good(tracker)
    <3>1. NoHeight \notin Heights
      BY TrackerAssumption DEF NoHeight
    <3> QED BY <3>1, ZenonT(40) DEF Init, TrackerInit, EmptyTracker, Good, TrackerType, IndexesAgree,
                        FiledAtOwnHeight
  <2>2. /\ InFlight(tracker) = {} /\ tracker.completed = {}
        /\ \A p \in Peers : tracker.peer_heights[p] = {}
    BY DEF Init, TrackerInit, EmptyTracker, InFlight
  <2>3. WithinCapacity(tracker) /\ WithinPerPeer(tracker)
    <3>1. 0 <= MAX_PER_PEER /\ 0 <= MAX_TOTAL /\ 0 <= PerPeer
      BY TrackerAssumption, DownloadAssumption
    <3>2. Cardinality({}) = 0
      BY FS_EmptySet
    <3> QED BY <2>2, <3>1, <3>2, Zenon DEF WithinCapacity, WithinPerPeer, GetPeerInFlightCount
  <2> QED BY <2>1, <2>2, <2>3 DEF Fit
<1>2. NodeHolds(node) /\ node.indexed = 0 /\ node.db = {}
  <2>1. MaxHeight \in Nat
    BY Numbers
  <2> QED BY <2>1 DEF Init, NodeHolds, NodeType
<1>3. ibd \in IbdType
  BY Limits DEF Init, IbdType
<1>4. 0 \in 0 .. MaxDisconnects /\ header \in Heights /\ working \in 0 .. node.indexed
  BY <1>2, DownloadAssumption DEF Init
<1> QED BY <1>1, <1>2, <1>3, <1>4 DEF Init, DInv, BlocksHold, StoringHolds, Held, LostType

-----------------------------------------------------------------------------
(* One lemma for each action. *)

(* A step that loses no index entry and no block, and completes only what is  *)
(* indexed.                                                                   *)
LEMMA NodeStep ==
  ASSUME BlocksHold, NodeHolds(node'), Keeps(node, node'), Fit(tracker'),
         tracker'.completed \subseteq tracker.completed \cup 1 .. node'.indexed,
         UNCHANGED <<storing, lost, working>>
  PROVE  BlocksHold'
<1>1. /\ node.indexed \in Int /\ node'.indexed \in Int /\ node.indexed <= node'.indexed
      /\ MaxHeight \in Int
  BY Numbers DEF BlocksHold, NodeHolds, NodeType, Keeps
<1>2. Held \subseteq Held' /\ 1 .. node'.indexed \subseteq Held'
  <2>1. 1 .. node.indexed \subseteq 1 .. node'.indexed
    BY <1>1
  <2> QED BY <2>1 DEF Held, Lost, Keeps
<1>3. working' \in 0 .. node'.indexed
  BY <1>1 DEF BlocksHold
<1> QED BY <1>2, <1>3 DEF BlocksHold, StoringHolds, Keeps

LEMMA ArriveStep ==
  ASSUME DInv, NEW p \in Peers, NEW h \in Heights, Arrive(p, h)
  PROVE  DInv'
<1>1. ibd' \in IbdType
  BY AdvanceType DEF Arrive, DInv
<1>2. h \in Int /\ node.indexed \in 0 .. MaxHeight /\ MaxHeight \in Nat /\ Heights = 1 .. MaxHeight
  BY Numbers DEF DInv, BlocksHold, NodeHolds, NodeType
<1>3. BlocksHold' /\ net' \subseteq Peers \X Heights
  <2>1. CASE h - 1 <= node.indexed
    <3> DEFINE r == ProcessConnectable(node, tracker, h)
    <3>1. /\ node' = r.node /\ tracker' = r.tracker /\ UNCHANGED <<storing, lost, working>>
          /\ net' = net \ {<<p, h>>}
      BY <2>1, <1>2 DEF Arrive
    <3>2. /\ NodeHolds(r.node) /\ Keeps(node, r.node)
          /\ Fit(r.tracker) /\ r.tracker.completed = tracker.completed
      BY <2>1, ProcessHolds DEF DInv, BlocksHold
    <3> HIDE DEF r
    <3>3. BlocksHold'
      BY <3>1, <3>2, NodeStep, Zenon DEF DInv
    <3> QED BY <3>1, <3>3 DEF DInv
  <2>2. CASE h - 1 > node.indexed /\ h \in node.db
    <3>0. ~(h - 1 <= node.indexed)
      BY <2>2, <1>2
    <3>1. PICK parent \in SUBSET {<<p, h - 1>>} : net' = (net \ {<<p, h>>}) \cup parent
      BY <2>2, <3>0, Zenon DEF Arrive
    <3>2. /\ tracker' = MarkCompleted(OnBlockReceived(tracker, h), h)
          /\ UNCHANGED <<node, storing, working, lost>>
      BY <2>2, <1>2 DEF Arrive
    <3>3. h - 1 \in Heights
      BY <2>2, <1>2
    <3>4. Fit(tracker') /\ tracker'.completed = tracker.completed \cup {h}
      <4>1. /\ Fit(OnBlockReceived(tracker, h))
            /\ OnBlockReceived(tracker, h).completed = tracker.completed
        BY ReceivedFits DEF DInv, BlocksHold
      <4> QED BY <3>2, <4>1, MarkFits
    <3>5. h \in Held
      BY <2>2 DEF DInv, BlocksHold
    <3>6. BlocksHold'
      BY <3>2, <3>4, <3>5 DEF DInv, BlocksHold, StoringHolds, Held, Lost
    <3>7. net' \subseteq Peers \X Heights
      BY <3>1, <3>3 DEF DInv
    <3> QED BY <3>6, <3>7
  <2>3. CASE h - 1 > node.indexed /\ h \notin node.db
    <3>1. /\ node' = [node EXCEPT !.db = @ \cup {h}] /\ storing' = [height |-> h, peer |-> p]
          /\ net' = net \ {<<p, h>>} /\ UNCHANGED <<tracker, working, lost>>
          /\ storing = NotStoring
      BY <2>3, <1>2 DEF Arrive
    <3>2. h - 1 \in Heights
      BY <2>3, <1>2
    <3>3. node \in NodeType
      BY DEF DInv, BlocksHold, NodeHolds
    <3>4. /\ node'.chain = node.chain /\ node'.indexed = node.indexed
          /\ node'.orphans = node.orphans /\ node'.queue = node.queue
          /\ node'.db = node.db \cup {h} /\ node' \in NodeType
      BY <3>1, <3>3 DEF NodeType
    <3>5. NodeHolds(node')
      BY <3>4, Zenon DEF DInv, BlocksHold, NodeHolds
    <3>6. 0 \notin Heights
      BY <1>2
    <3>7. tracker.completed \subseteq Heights /\ node.db \subseteq Heights
      BY <3>3 DEF DInv, BlocksHold, Fit, Good, TrackerType, NodeType
    <3>8. tracker'.completed \subseteq Held' /\ node'.db \subseteq Held'
      BY <3>1, <3>4, <3>6, <3>7 DEF DInv, BlocksHold, Held, Lost, NotStoring
    <3>9. StoringHolds'
      BY <3>1, <3>2, <3>4 DEF StoringHolds
    <3>10. BlocksHold'
      BY <3>1, <3>4, <3>5, <3>8, <3>9 DEF DInv, BlocksHold
    <3> QED BY <3>1, <3>10 DEF DInv
  <2> QED BY <1>2, <2>1, <2>2, <2>3
<1> QED BY <1>1, <1>3 DEF DInv, Arrive

LEMMA StoreOrphanStep ==
  ASSUME DInv, StoreOrphan
  PROVE  DInv'
<1> DEFINE h == storing.height
           p == storing.peer
           t(r) == IF r.added THEN RequestParent(tracker, p, h) ELSE tracker
<1>1. /\ storing # NotStoring /\ storing' = NotStoring
      /\ UNCHANGED <<header, working, connected, ibd, pc, drops>>
  BY DEF StoreOrphan
<1>2. PICK r \in AddOrphanBlock(h) :
        /\ node' = [node EXCEPT !.orphans = r.orphans]
        /\ lost' = r.lost
        /\ tracker' = MarkCompleted(t(r), h)
        /\ net' = IF t(r) # tracker /\ p \in connected THEN net \cup {<<p, h - 1>>} ELSE net
  BY DEF StoreOrphan
<1>3. h \in Heights /\ p \in Peers /\ h - 1 \in Heights /\ h \in node.db
  BY <1>1 DEF DInv, BlocksHold, StoringHolds
<1>4. node \in NodeType /\ lost \in LostType
  BY DEF DInv, BlocksHold, NodeHolds
<1>5. Fit(t(r)) /\ t(r).completed = tracker.completed
  BY <1>3, RequestFits DEF DInv, BlocksHold, RequestParent
<1>6. Fit(tracker') /\ tracker'.completed = tracker.completed \cup {h}
  <2> HIDE DEF t
  <2> QED BY <1>2, <1>3, <1>5, MarkFits
<1>7. /\ lost' \in LostType
      /\ r.orphans \subseteq node.orphans \cup {h}
      /\ node.orphans \cup {h} \cup Lost \subseteq r.orphans \cup Lost'
  <2>1. CASE \E evicted \in SUBSET (node.orphans \cup {h}) :
               r = [added |-> TRUE, orphans |-> (node.orphans \cup {h}) \ evicted,
                    lost |-> [lost EXCEPT !.expired = @ \cup evicted]]
    <3>0. PICK evicted \in SUBSET (node.orphans \cup {h}) :
               r = [added |-> TRUE, orphans |-> (node.orphans \cup {h}) \ evicted,
                    lost |-> [lost EXCEPT !.expired = @ \cup evicted]]
      BY <2>1, Zenon
    <3>1. /\ r.orphans = (node.orphans \cup {h}) \ evicted
          /\ r.lost = [lost EXCEPT !.expired = @ \cup evicted]
      BY <3>0, Zenon
    <3>2. /\ lost'.expired = lost.expired \cup evicted /\ lost'.refused = lost.refused
          /\ node.orphans \cup {h} \subseteq Heights
      BY <1>2, <1>3, <1>4, <3>1 DEF LostType, NodeType
    <3>3. lost' \in LostType
      BY <1>2, <1>4, <3>1, <3>2 DEF LostType
    <3> QED BY <3>1, <3>2, <3>3, Zenon DEF Lost
  <2>2. CASE r = [added |-> FALSE, orphans |-> node.orphans,
                  lost |-> [lost EXCEPT !.refused = @ \cup {h}]]
    <3>1. /\ lost'.expired = lost.expired /\ lost'.refused = lost.refused \cup {h}
          /\ lost' \in LostType /\ r.orphans = node.orphans
      BY <1>2, <1>3, <1>4, <2>2 DEF LostType
    <3> QED BY <3>1 DEF Lost
  <2> QED BY <1>2, <2>1, <2>2, Zenon DEF AddOrphanBlock
<1>8. /\ node'.chain = node.chain /\ node'.indexed = node.indexed
      /\ node'.orphans = r.orphans /\ node'.queue = node.queue
      /\ node'.db = node.db /\ node' \in NodeType
  BY <1>2, <1>3, <1>4, <1>7 DEF NodeType
<1>9. NodeHolds(node')
  BY <1>3, <1>7, <1>8 DEF DInv, BlocksHold, NodeHolds
<1>10. Held \subseteq Held' /\ h \in Held'
  BY <1>7, <1>8 DEF Held
<1>11. BlocksHold'
  BY <1>1, <1>6, <1>8, <1>9, <1>10 DEF DInv, BlocksHold, StoringHolds
<1>12. net' \subseteq Peers \X Heights
  BY <1>2, <1>3 DEF DInv
<1> QED BY <1>1, <1>7, <1>11, <1>12 DEF DInv

LEMMA WorkerPopStep ==
  ASSUME DInv, WorkerPop
  PROVE  DInv'
<1>1. /\ node.queue # {} /\ working' = Min(node.queue)
      /\ node' = [node EXCEPT !.queue = @ \ {working'}]
      /\ UNCHANGED <<tracker, header, storing, connected, net, ibd, pc, drops, lost>>
  BY DEF WorkerPop
<1>2. node \in NodeType /\ node.queue \subseteq 1 .. node.indexed
  BY DEF DInv, BlocksHold, NodeHolds
<1>3. Min(node.queue) \in node.queue
  <2>1. node.queue \in SUBSET Heights
    BY <1>2 DEF NodeType
  <2>2. IsFiniteSet(node.queue) /\ node.queue \in SUBSET Int
    BY <2>1, FS_Subset, TrackerAssumption, Numbers
  <2> QED BY <2>2, <1>1, MinFacts
<1>4. /\ node'.chain = node.chain /\ node'.indexed = node.indexed
      /\ node'.orphans = node.orphans /\ node'.queue = node.queue \ {working'}
      /\ node'.db = node.db /\ node' \in NodeType
  BY <1>1, <1>2 DEF NodeType
<1>5. NodeHolds(node')
  BY <1>4 DEF DInv, BlocksHold, NodeHolds
<1>6. working' \in 0 .. node'.indexed
  <2>1. node.indexed \in Int
    BY <1>2, Numbers DEF NodeType
  <2>2. working' \in 1 .. node.indexed
    BY <1>1, <1>2, <1>3
  <2> QED BY <1>4, <2>1, <2>2
<1>7. Held' = Held
  BY <1>1, <1>4 DEF Held, Lost
<1>8. BlocksHold'
  BY <1>1, <1>4, <1>5, <1>6, <1>7 DEF DInv, BlocksHold, StoringHolds
<1> QED BY <1>1, <1>8 DEF DInv

LEMMA WorkerProcessStep ==
  ASSUME DInv, WorkerProcess
  PROVE  DInv'
<1> DEFINE child == working + 1
           top == Max({node.chain, working})
           n == [node EXCEPT !.chain = top]
<1>1. /\ working # 0
      /\ node' = IF child \notin n.orphans THEN n
                 ELSE IF child <= n.indexed THEN [n EXCEPT !.orphans = @ \ {child}]
                 ELSE IF Cardinality(n.queue) >= MaxQueue THEN [n EXCEPT !.indexed = child]
                 ELSE [n EXCEPT !.indexed = child, !.queue = @ \cup {child},
                                !.orphans = @ \ {child}]
      /\ working' = 0
      /\ ibd' = Advance(ibd, node')
      /\ UNCHANGED <<tracker, header, storing, connected, net, pc, drops, lost>>
  BY DEF WorkerProcess
<1>2. /\ node \in NodeType /\ node.indexed \in 0 .. MaxHeight /\ node.chain \in 0 .. MaxHeight
      /\ MaxHeight \in Nat /\ Heights = 1 .. MaxHeight /\ node.chain <= node.indexed
      /\ working \in 0 .. node.indexed
  BY Numbers DEF DInv, BlocksHold, NodeHolds, NodeType
<1>3. top \in 0 .. node.indexed
  <2>1. node.chain \in Int /\ working \in Int
    BY <1>2
  <2>2. top \in {node.chain, working}
    BY <2>1, PairFacts
  <2> HIDE DEF top
  <2> QED BY <1>2, <2>2
<1> HIDE DEF top
<1>4. /\ n.chain = top /\ n.indexed = node.indexed /\ n.db = node.db
      /\ n.orphans = node.orphans /\ n.queue = node.queue /\ n \in NodeType
  <2>1. top \in 0 .. MaxHeight
    BY <1>2, <1>3
  <2> QED BY <1>2, <2>1 DEF NodeType
<1>5. child \in Int /\ child <= node.indexed + 1 /\ child > 0
  BY <1>2
<1>6. NodeHolds(n) /\ Keeps(node, n)
  <2>1. node.indexed \in Int /\ top <= node.indexed
    BY <1>2, <1>3
  <2> QED BY <1>4, <2>1 DEF DInv, BlocksHold, NodeHolds, Keeps
<1> HIDE DEF n
<1>7. NodeHolds(node') /\ Keeps(node, node')
  <2>1. CASE child \notin n.orphans
    BY <2>1, <1>1, <1>6
  <2>2. CASE child \in n.orphans /\ child <= n.indexed
    <3>1. node' = [n EXCEPT !.orphans = @ \ {child}]
      BY <1>1, <2>2
    <3>2. /\ node'.chain = n.chain /\ node'.indexed = n.indexed /\ node'.db = n.db
          /\ node'.orphans = n.orphans \ {child} /\ node'.queue = n.queue /\ node' \in NodeType
      BY <3>1, <1>4 DEF NodeType
    <3>3. child \in 1 .. node'.indexed
      BY <2>2, <3>2, <1>2, <1>4, <1>5
    <3>4. NodeHolds(node')
      BY <3>2, <1>6 DEF NodeHolds
    <3>5. Keeps(node, node')
      BY <3>2, <3>3, <1>6 DEF Keeps
    <3> QED BY <3>4, <3>5
  <2>3. CASE child \in n.orphans /\ ~(child <= n.indexed)
    <3>1. child = n.indexed + 1 /\ child \in Heights /\ child \in n.db
      BY <2>3, <1>2, <1>4, <1>5, <1>6 DEF NodeHolds, NodeType
    <3>2. 1 .. child \subseteq n.db
      <4>1. \A k \in 1 .. child : k \in 1 .. n.indexed \/ k = child
        BY <3>1, <1>2, <1>4
      <4> QED BY <4>1, <3>1, <1>6 DEF NodeHolds
    <3>3. /\ n.queue \subseteq 1 .. child /\ child \in 1 .. child /\ n.chain <= child
          /\ node.indexed <= child /\ child \in 0 .. MaxHeight
          /\ 1 .. node.indexed \subseteq 1 .. child
      <4>1. n.queue \subseteq 1 .. n.indexed
        BY <1>6 DEF NodeHolds
      <4> QED BY <4>1, <3>1, <1>2, <1>3, <1>4, <1>5
    <3>4. CASE Cardinality(n.queue) >= MaxQueue
      <4>1. node' = [n EXCEPT !.indexed = child]
        BY <1>1, <2>3, <3>4
      <4>2. /\ node'.chain = n.chain /\ node'.indexed = child /\ node'.db = n.db
            /\ node'.orphans = n.orphans /\ node'.queue = n.queue /\ node' \in NodeType
        BY <4>1, <3>3, <1>4 DEF NodeType
      <4>3. NodeHolds(node')
        BY <4>2, <3>2, <3>3, <1>6 DEF NodeHolds
      <4>4. Keeps(node, node')
        BY <4>2, <3>3, <1>4 DEF Keeps
      <4> QED BY <4>3, <4>4
    <3>5. CASE ~(Cardinality(n.queue) >= MaxQueue)
      <4>1. node' = [n EXCEPT !.indexed = child, !.queue = @ \cup {child},
                              !.orphans = @ \ {child}]
        BY <1>1, <2>3, <3>5
      <4>2. /\ node'.chain = n.chain /\ node'.indexed = child /\ node'.db = n.db
            /\ node'.orphans = n.orphans \ {child} /\ node'.queue = n.queue \cup {child}
            /\ node' \in NodeType
        BY <4>1, <3>1, <3>3, <1>4, Zenon DEF NodeType
      <4>3. NodeHolds(node')
        BY <4>2, <3>2, <3>3, <1>6 DEF NodeHolds
      <4>4. Keeps(node, node')
        BY <4>2, <3>3, <1>4 DEF Keeps
      <4> QED BY <4>3, <4>4
    <3> QED BY <3>4, <3>5
  <2> QED BY <2>1, <2>2, <2>3
<1>8. BlocksHold'
  <2>1. /\ node.indexed \in Int /\ node'.indexed \in Int /\ node.indexed <= node'.indexed
        /\ 0 <= node'.indexed
    BY <1>2, <1>7, Numbers DEF NodeHolds, NodeType, Keeps
  <2>2. Held \subseteq Held' /\ 1 .. node'.indexed \subseteq Held'
    <3>1. 1 .. node.indexed \subseteq 1 .. node'.indexed
      BY <2>1
    <3> QED BY <3>1, <1>1, <1>7 DEF Held, Lost, Keeps
  <2>3. working' \in 0 .. node'.indexed
    BY <1>1, <2>1
  <2> QED BY <1>1, <1>7, <2>2, <2>3 DEF DInv, BlocksHold, StoringHolds, Keeps
<1>9. ibd' \in IbdType
  BY <1>1, AdvanceType DEF DInv
<1> QED BY <1>1, <1>8, <1>9 DEF DInv

(* What FetchBlocks does when it requests nothing and nothing advances.       *)
LEMMA UnproductiveStep ==
  ASSUME DInv, NEW d \in IbdType, d.sync \in Peers, NEW t, Fit(t),
         t.completed = tracker.completed, NEW c \in BOOLEAN, Unproductive(d, t, c)
  PROVE  /\ Fit(tracker') /\ tracker'.completed = tracker.completed /\ node' = node
         /\ ibd' \in IbdType /\ net' \subseteq net /\ connected' \subseteq connected
<1> DEFINE ticks == IF ~ c THEN 0 ELSE IF Answering(d.sync) THEN d.stalls ELSE d.stalls + 1
           counted == [d EXCEPT !.stalls = ticks]
           full == ticks >= MaxStalls
<1>1. /\ ibd' = IF full THEN [GiveUp(counted) EXCEPT !.stalls = 0] ELSE counted
      /\ tracker' = IF full THEN OnPeerDisconnected(t, d.sync) ELSE t
      /\ connected' = IF full THEN connected \ {d.sync} ELSE connected
      /\ net' = IF full THEN {m \in net : m[1] # d.sync} ELSE net
      /\ UNCHANGED node
  BY DEF Unproductive
<1>2. ticks \in Nat
  BY Limits DEF IbdType
<1> HIDE DEF ticks
<1>3. ibd' \in IbdType
  <2>1. CASE full
    <3>1. ibd' = [d EXCEPT !.stalls = 0, !.cool = d.sync, !.sync = NoPeer]
      BY <1>1, <2>1, Zenon DEF GiveUp, IbdType
    <3> QED BY <3>1, Limits, Zenon DEF IbdType
  <2>2. CASE ~full
    <3>1. ticks \in 0 .. MaxStalls
      BY <1>2, <2>2, Limits
    <3> QED BY <1>1, <2>2, <3>1 DEF IbdType
  <2> QED BY <2>1, <2>2
<1>4. Fit(tracker') /\ tracker'.completed = tracker.completed
  BY <1>1, DisconnectFits
<1> QED BY <1>1, <1>3, <1>4

LEMMA ProductiveStep ==
  ASSUME DInv, NEW d \in IbdType, NEW n, NEW t, NEW asked \in SUBSET (Peers \X Heights),
         Productive(d, n, t, asked)
  PROVE  /\ node' = n /\ tracker' = t /\ ibd' \in IbdType
         /\ net' \subseteq Peers \X Heights /\ connected' = connected
<1> DEFINE e == [d EXCEPT !.stalls = IF "stall" \in d.seen THEN @ ELSE 0,
                          !.seen = @ \cup {"stall"}]
<1>1. e \in IbdType
  BY Limits, ZenonT(40) DEF IbdType
<1>2. ibd' = Advance(e, n)
  BY DEF Productive
<1>3. ibd' \in IbdType
  <2> HIDE DEF e
  <2> QED BY <1>1, <1>2, AdvanceType
<1> QED BY <1>3 DEF Productive, DInv

LEMMA KeepsSelf ==
  ASSUME NEW n, NodeHolds(n)
  PROVE  Keeps(n, n)
BY Numbers DEF NodeHolds, NodeType, Keeps

LEMMA ReprocessHolds ==
  ASSUME NEW n, NodeHolds(n), NEW t, Fit(t), NEW want \in SUBSET Heights
  PROVE  LET r == Reprocess(n, t, want)
         IN  /\ NodeHolds(r.node) /\ Keeps(n, r.node)
             /\ Fit(r.tracker) /\ r.tracker.completed \subseteq t.completed \cup 1 .. r.node.indexed
<1> DEFINE h == n.chain + 1
           s == ActivateStuck(n, t, h)
<1>1. CASE h \in want /\ h <= n.indexed
  <2>1. Reprocess(n, t, want)
          = [node |-> s.node, tracker |-> MarkCompleted(s.tracker, s.node.chain)]
    BY <1>1, Zenon DEF Reprocess
  <2>2. h \in Heights /\ n.chain \in 0 .. MaxHeight /\ MaxHeight \in Nat
    BY <1>1, Numbers DEF NodeHolds, NodeType
  <2>3. /\ NodeHolds(s.node) /\ Keeps(n, s.node) /\ h <= s.node.indexed
        /\ Fit(s.tracker) /\ s.tracker.completed = t.completed
        /\ s.node.chain = IF h > n.chain THEN h ELSE n.chain
    <3> HIDE DEF h
    <3> QED BY <1>1, <2>2, StuckHolds
  <2> HIDE DEF s
  <2>4. s.node.chain = h
    BY <2>2, <2>3
  <2>5. /\ Fit(MarkCompleted(s.tracker, h))
        /\ MarkCompleted(s.tracker, h).completed = t.completed \cup {h}
    BY <2>2, <2>3, MarkFits
  <2>6. h \in 1 .. s.node.indexed
    BY <2>2, <2>3, Numbers DEF NodeHolds, NodeType
  <2> QED
    <3> HIDE DEF h
    <3> QED BY <2>1, <2>3, <2>4, <2>5, <2>6
<1>2. CASE ~(h \in want /\ h <= n.indexed)
  BY <1>2, KeepsSelf, ZenonT(40) DEF Reprocess
<1> QED BY <1>1, <1>2

(* What one FetchBlocks leaves.                                               *)
Fetched ==
    /\ Fit(tracker') /\ NodeHolds(node') /\ Keeps(node, node')
    /\ tracker'.completed \subseteq tracker.completed \cup 1 .. node'.indexed
    /\ ibd' \in IbdType /\ net' \subseteq Peers \X Heights /\ connected' \subseteq connected

LEMMA FetchStep ==
  ASSUME DInv, FetchBlocks
  PROVE  Fetched
<1>1. PICK p \in Peers : FetchFrom(p)
  BY DEF FetchBlocks, Eligible, DInv
<1> DEFINE d == Select(ibd, p)
           t0 == IF ibd.sync \in Peers \ connected
                 THEN OnPeerDisconnected(tracker, ibd.sync) ELSE tracker
           want == GetNextBlocksToRequest(t0, p)
           q(again) == RequestAll(t0, p, Batch(want, again))
           f == CountFutile(d)
           t1(again) == IF f.sync = NoPeer THEN OnPeerDisconnected(q(again).tracker, p)
                        ELSE q(again).tracker
           r(again) == Reprocess(node, IF q(again).sent # {} THEN t1(again) ELSE t0, want)
<1>2. p \in Peers
  OBVIOUS
<1>3. d \in IbdType /\ d.sync = p
  BY <1>2, SelectType DEF DInv
<1>4. Fit(t0) /\ t0.completed = tracker.completed
  BY DisconnectFits, Zenon DEF DInv, BlocksHold
<1>5. want \in SUBSET Heights
  <2>1. node.chain \in Nat /\ header \in Heights /\ Heights = 1 .. MaxHeight /\ MaxHeight \in Nat
    BY Numbers DEF DInv, BlocksHold, NodeHolds, NodeType
  <2>2. node.chain + 1 .. header \in SUBSET Heights
    BY <2>1
  <2>3. want \in SUBSET (node.chain + 1 .. header)
    BY DEF GetNextBlocksToRequest
  <2> HIDE DEF want
  <2> QED BY <2>2, <2>3
<1>6. \/ FreeSlots(t0, p) <= 0 /\ Unproductive(d, t0, TRUE)
      \/ InFlight(t0) # {} /\ Unproductive(d, ClearDeadPeers(t0), TRUE)
      \/ \E c \in BOOLEAN : Unproductive(d, t0, c)
      \/ /\ FreeSlots(t0, p) > 0
         /\ \E again \in BOOLEAN :
              \/ q(again).sent # {} /\ Productive(f, r(again).node, r(again).tracker, {p} \X q(again).sent)
              \/ q(again).sent = {} /\ Productive(d, r(again).node, r(again).tracker, {})
              \/ \E c \in BOOLEAN : Unproductive(d, t0, c)
  BY <1>1, Zenon DEF FetchFrom
<1>7. NodeHolds(node) /\ net \subseteq Peers \X Heights /\ node.indexed \in Nat
  BY Numbers DEF DInv, BlocksHold, NodeHolds, NodeType
<1> HIDE DEF d, t0, want, f
<1>8. ASSUME NEW c \in BOOLEAN, NEW t, Fit(t), t.completed = tracker.completed,
             Unproductive(d, t, c)
      PROVE  Fetched
  <2>1. /\ Fit(tracker') /\ tracker'.completed = tracker.completed /\ node' = node
        /\ ibd' \in IbdType /\ net' \subseteq net /\ connected' \subseteq connected
    BY <1>2, <1>3, <1>8, UnproductiveStep
  <2> QED BY <2>1, <1>7, KeepsSelf, Zenon DEF Fetched
<1>9. CASE InFlight(t0) # {} /\ Unproductive(d, ClearDeadPeers(t0), TRUE)
  <2>1. Fit(ClearDeadPeers(t0)) /\ ClearDeadPeers(t0).completed = tracker.completed
    BY <1>4, ForgetFits DEF ClearDeadPeers
  <2> QED BY <1>8, <1>9, <2>1, Zenon
<1>10. CASE FreeSlots(t0, p) <= 0 /\ Unproductive(d, t0, TRUE)
  BY <1>4, <1>8, <1>10, Zenon
<1>11. ASSUME NEW c \in BOOLEAN, Unproductive(d, t0, c) PROVE Fetched
  BY <1>4, <1>8, <1>11
<1>12. ASSUME FreeSlots(t0, p) > 0, NEW again \in BOOLEAN, q(again).sent # {},
              Productive(f, r(again).node, r(again).tracker, {p} \X q(again).sent)
       PROVE  Fetched
  <2>1. Batch(want, again) \in SUBSET Heights
    <3>1. {h \in node.chain + 1 .. node.indexed : h + 1 \in want} \in SUBSET Heights
      <4>1. /\ node.chain \in Nat /\ node.indexed \in 0 .. MaxHeight
            /\ Heights = 1 .. MaxHeight /\ MaxHeight \in Nat
        BY Numbers DEF DInv, BlocksHold, NodeHolds, NodeType
      <4>2. node.chain + 1 .. node.indexed \in SUBSET Heights
        BY <4>1
      <4> QED BY <4>2
    <3> QED BY <3>1, <1>5 DEF Batch
  <2>2. /\ Fit(q(again).tracker) /\ q(again).tracker.completed = tracker.completed
        /\ q(again).sent \in SUBSET Heights
    BY <2>1, <1>2, <1>4, <1>12, RequestAllFits, ZenonT(40)
  <2> HIDE DEF q
  <2>3. Fit(t1(again)) /\ t1(again).completed = tracker.completed
    BY <2>2, <1>2, DisconnectFits, Zenon
  <2> HIDE DEF t1
  <2>4. r(again) = Reprocess(node, t1(again), want)
    BY <1>12
  <2> HIDE DEF r
  <2>5. /\ NodeHolds(r(again).node) /\ Keeps(node, r(again).node) /\ Fit(r(again).tracker)
        /\ r(again).tracker.completed \subseteq tracker.completed \cup 1 .. r(again).node.indexed
    BY <2>3, <2>4, <1>5, <1>7, ReprocessHolds
  <2>6. f \in IbdType
    BY <1>3, CountFutileType DEF f
  <2>7. {p} \X q(again).sent \in SUBSET (Peers \X Heights)
    BY <2>2, <1>2
  <2>8. /\ node' = r(again).node /\ tracker' = r(again).tracker /\ ibd' \in IbdType
        /\ net' \subseteq Peers \X Heights /\ connected' = connected
    BY <2>6, <2>7, <1>12, ProductiveStep
  <2> QED BY <2>5, <2>8 DEF Fetched
<1>13. ASSUME NEW again \in BOOLEAN, q(again).sent = {},
              Productive(d, r(again).node, r(again).tracker, {})
       PROVE  Fetched
  <2>1. r(again) = Reprocess(node, t0, want)
    BY <1>13, ZenonT(40)
  <2> HIDE DEF r
  <2>2. /\ NodeHolds(r(again).node) /\ Keeps(node, r(again).node) /\ Fit(r(again).tracker)
        /\ r(again).tracker.completed \subseteq tracker.completed \cup 1 .. r(again).node.indexed
    BY <2>1, <1>4, <1>5, <1>7, ReprocessHolds, ZenonT(40)
  <2>3. /\ node' = r(again).node /\ tracker' = r(again).tracker /\ ibd' \in IbdType
        /\ net' \subseteq Peers \X Heights /\ connected' = connected
    BY <1>3, <1>13, ProductiveStep, Zenon
  <2> QED BY <2>2, <2>3 DEF Fetched
<1> HIDE DEF q, t1, r
<1> QED BY <1>6, <1>9, <1>10, <1>11, <1>12, <1>13, Zenon

LEMMA TickStep ==
  ASSUME DInv, Tick
  PROVE  DInv'
<1>1. Fetched /\ pc' = "scan" /\ UNCHANGED <<header, working, storing, drops, lost>>
  BY FetchStep DEF Tick
<1>2. BlocksHold'
  BY <1>1, NodeStep DEF DInv, Fetched
<1> QED BY <1>1, <1>2 DEF DInv, Fetched

LEMMA ResolveStep ==
  ASSUME DInv, ResolveOrphans
  PROVE  DInv'
<1> DEFINE h == node.chain + 1
           n == [node EXCEPT !.orphans = @ \ {h}]
           r == IF h \in node.orphans THEN ProcessConnectable(n, tracker, h)
                ELSE [node |-> node, tracker |-> tracker]
<1>1. /\ node' = r.node /\ tracker' = ClearAboveHeight(r.tracker, node.chain)
      /\ ibd' = Advance([ibd EXCEPT !.stalls = 0], r.node) /\ pc' = "retry"
      /\ UNCHANGED <<header, working, storing, connected, net, drops, lost>>
  BY DEF ResolveOrphans
<1>2. /\ node \in NodeType /\ node.chain \in Nat /\ node.indexed \in Nat
      /\ node.chain <= node.indexed
  BY Numbers DEF DInv, BlocksHold, NodeHolds, NodeType
<1>3. /\ NodeHolds(r.node) /\ Keeps(node, r.node)
      /\ Fit(r.tracker) /\ r.tracker.completed = tracker.completed
  <2>1. CASE h \in node.orphans
    <3>1. h \in Heights /\ h - 1 <= node.indexed /\ h >= 1
      BY <2>1, <1>2 DEF NodeType
    <3>2. /\ n.chain = node.chain /\ n.indexed = node.indexed /\ n.db = node.db
          /\ n.orphans = node.orphans \ {h} /\ n.queue = node.queue /\ n \in NodeType
      <4> HIDE DEF h
      <4> QED BY <1>2 DEF NodeType
    <3> HIDE DEF n, h
    <3>3. NodeHolds(n)
      BY <3>2 DEF DInv, BlocksHold, NodeHolds
    <3>4. r = ProcessConnectable(n, tracker, h)
      BY <2>1
    <3> HIDE DEF r
    <3>5. /\ NodeHolds(r.node) /\ Keeps(n, r.node) /\ h <= r.node.indexed
          /\ Fit(r.tracker) /\ r.tracker.completed = tracker.completed
      <4>1. h - 1 <= n.indexed /\ Fit(tracker)
        BY <3>1, <3>2, ZenonT(40) DEF DInv, BlocksHold
      <4> QED BY <3>1, <3>3, <3>4, <4>1, ProcessHolds
    <3>6. h \in 1 .. r.node.indexed
      <4>1. h \in Int
        BY <3>1, Numbers, Zenon
      <4>2. r.node.indexed \in Int
        BY <3>5, Numbers DEF NodeHolds, NodeType
      <4> QED BY <3>1, <3>5, <4>1, <4>2
    <3>7. Keeps(node, r.node)
      BY <3>2, <3>5, <3>6 DEF Keeps
    <3> QED BY <3>5, <3>7
  <2>2. CASE h \notin node.orphans
    <3>1. r = [node |-> node, tracker |-> tracker]
      BY <2>2
    <3> QED BY <3>1, KeepsSelf DEF DInv, BlocksHold
  <2> QED BY <2>1, <2>2
<1> HIDE DEF r
<1>4. Fit(tracker') /\ tracker'.completed \subseteq tracker.completed
  BY <1>1, <1>2, <1>3, ClearFits
<1>5. BlocksHold'
  BY <1>1, <1>3, <1>4, NodeStep DEF DInv
<1>6. ibd' \in IbdType
  <2>1. [ibd EXCEPT !.stalls = 0] \in IbdType
    BY Limits DEF DInv, IbdType
  <2> QED BY <1>1, <2>1, AdvanceType
<1> QED BY <1>1, <1>5, <1>6 DEF DInv

(* The steps that leave the node's blocks alone.                              *)
LEMMA TrackerStep ==
  ASSUME BlocksHold, Fit(tracker'), tracker'.completed = tracker.completed,
         UNCHANGED <<node, storing, lost, working>>
  PROVE  BlocksHold'
BY DEF BlocksHold, StoringHolds, Held, Lost

LEMMA RetryStep ==
  ASSUME DInv, NEW late \in SUBSET InFlight(tracker), RetryTimeoutsAndStalls(late)
  PROVE  DInv'
<1> DEFINE blamed == \E h \in late : tracker.heights[h].peer = ibd.sync
           limit == IF BlocksBehind(node) <= NearTip THEN 1 ELSE MaxTimeouts
           rotate == blamed /\ ibd.timeouts + 1 >= limit
           t == Forget(tracker, late)
<1>1. /\ pc' = "tick"
      /\ ibd' = IF rotate THEN [GiveUp(ibd) EXCEPT !.timeouts = 0]
                ELSE IF blamed THEN [ibd EXCEPT !.timeouts = @ + 1] ELSE ibd
      /\ tracker' = IF rotate THEN OnPeerDisconnected(t, ibd.sync) ELSE t
      /\ UNCHANGED <<header, node, working, storing, connected, net, drops, lost>>
  BY DEF RetryTimeoutsAndStalls
<1>2. blamed => ibd.sync \in Peers
  BY DEF DInv, BlocksHold, Fit, Good, TrackerType, InFlight
<1>3. Fit(t) /\ t.completed = tracker.completed
  BY ForgetFits DEF DInv, BlocksHold
<1>4. limit \in Nat \ {0} /\ limit <= MaxTimeouts
  BY Limits
<1>5. ibd \in IbdType /\ ibd.timeouts \in 0 .. MaxTimeouts
  BY DEF DInv, IbdType
<1> HIDE DEF blamed, limit, t
<1>6. Fit(tracker') /\ tracker'.completed = tracker.completed
  BY <1>1, <1>2, <1>3, DisconnectFits
<1>7. ibd' \in IbdType
  <2>1. CASE rotate
    BY <2>1, <1>1, <1>5, GiveUpType, Zenon
  <2>2. CASE ~rotate /\ blamed
    <3>1. ibd.timeouts + 1 \in 0 .. MaxTimeouts
      BY <2>2, <1>4, <1>5, Limits
    <3>2. ibd' = [ibd EXCEPT !.timeouts = ibd.timeouts + 1]
      BY <2>2, <1>1
    <3> QED BY <3>1, <3>2, <1>5 DEF IbdType
  <2>3. CASE ~rotate /\ ~blamed
    BY <2>3, <1>1, <1>5
  <2> QED BY <2>1, <2>2, <2>3
<1>8. BlocksHold'
  BY <1>1, <1>6, TrackerStep DEF DInv
<1> QED BY <1>1, <1>7, <1>8 DEF DInv

LEMMA NetworkStep ==
  ASSUME DInv, NEW p \in Peers, NewTip(p) \/ Disconnect(p) \/ Reconnect(p)
  PROVE  DInv'
<1>1. CASE NewTip(p)
  <2>1. header + 1 \in Heights
    BY <1>1, Numbers DEF NewTip, DInv
  <2>2. BlocksHold'
    BY <1>1, TrackerStep DEF NewTip, DInv, BlocksHold
  <2> QED BY <1>1, <2>1, <2>2 DEF NewTip, DInv
<1>2. CASE Disconnect(p)
  <2>1. Fit(tracker') /\ tracker'.completed = tracker.completed
    BY <1>2, DisconnectFits DEF Disconnect, DInv, BlocksHold
  <2>2. BlocksHold'
    BY <1>2, <2>1, TrackerStep, Zenon DEF Disconnect, DInv
  <2>3. drops' \in 0 .. MaxDisconnects
    BY <1>2, DownloadAssumption DEF Disconnect, DInv
  <2> QED BY <1>2, <2>2, <2>3 DEF Disconnect, DInv
<1>3. CASE Reconnect(p)
  <2>1. Fit(tracker') /\ tracker'.completed = tracker.completed
    BY <1>3, DisconnectFits DEF Reconnect, DInv, BlocksHold
  <2>2. BlocksHold'
    BY <1>3, <2>1, TrackerStep DEF Reconnect, DInv
  <2>3. ibd' \in IbdType
    BY <1>3, ZenonT(40) DEF Reconnect, DInv, IbdType
  <2> QED BY <1>3, <2>2, <2>3 DEF Reconnect, DInv
<1> QED BY <1>1, <1>2, <1>3

LEMMA ExpireStep ==
  ASSUME DInv, NEW S \in SUBSET node.orphans, OrphansExpire(S)
  PROVE  DInv'
<1>1. /\ node' = [node EXCEPT !.orphans = @ \ S]
      /\ lost' = [lost EXCEPT !.expired = @ \cup S]
      /\ UNCHANGED <<tracker, header, working, storing, connected, net, ibd, pc, drops>>
  BY DEF OrphansExpire
<1>2. node \in NodeType /\ lost \in LostType
  BY DEF DInv, BlocksHold, NodeHolds
<1>3. /\ node'.chain = node.chain /\ node'.indexed = node.indexed /\ node'.db = node.db
      /\ node'.orphans = node.orphans \ S /\ node'.queue = node.queue /\ node' \in NodeType
  BY <1>1, <1>2 DEF NodeType
<1>4. /\ lost'.expired = lost.expired \cup S /\ lost'.refused = lost.refused
      /\ lost' \in LostType
  <2>1. S \subseteq Heights
    BY <1>2 DEF NodeType
  <2> QED BY <1>1, <1>2, <2>1 DEF LostType
<1>5. NodeHolds(node')
  BY <1>3 DEF DInv, BlocksHold, NodeHolds
<1>6. Held \subseteq Held'
  <2>1. node.orphans \cup Lost \subseteq node'.orphans \cup Lost'
    BY <1>3, <1>4, Zenon DEF Lost
  <2> QED BY <1>1, <1>3, <2>1 DEF Held
<1>7. BlocksHold'
  BY <1>1, <1>3, <1>5, <1>6 DEF DInv, BlocksHold, StoringHolds
<1> QED BY <1>1, <1>4, <1>7 DEF DInv

LEMMA NextInv ==
  ASSUME DInv, [Next]_vars
  PROVE  DInv'
<1>1. CASE NoteTip \/ SkipScan \/ CooldownExpires
  <2>1. BlocksHold'
    BY <1>1, TrackerStep DEF NoteTip, SkipScan, CooldownExpires, DInv, BlocksHold
  <2>2. ibd' \in IbdType
    BY <1>1 DEF NoteTip, SkipScan, CooldownExpires, DInv, IbdType
  <2> QED BY <1>1, <2>1, <2>2 DEF NoteTip, SkipScan, CooldownExpires, DInv
<1>2. CASE UNCHANGED vars
  <2>1. BlocksHold'
    BY <1>2, TrackerStep, Zenon DEF vars, DInv, BlocksHold
  <2> QED BY <1>2, <2>1 DEF vars, DInv
<1> QED BY <1>1, <1>2, ArriveStep, StoreOrphanStep, WorkerPopStep, WorkerProcessStep, TickStep,
           ResolveStep, RetryStep, NetworkStep, ExpireStep
        DEF Next

LEMMA InvHolds == Spec => []DInv
BY InitInv, NextInv, PTL DEF Spec

(* The download state stays well typed: the counters of stalls, futile        *)
(* batches and timeouts never pass their limits.                              *)
THEOREM TypeCorrect == Spec => []TypeOK
BY InvHolds, InvType, PTL

(* In the composed system too, whatever the coordinator, the message thread   *)
(* and the peers do, the tracker's indexes agree and its limits hold.         *)
THEOREM TrackerInvHolds == Spec => []TrackerInv
BY InvHolds, InvProperties, PTL

(* No peer owes more than MAX_BLOCKS_IN_TRANSIT_PER_PEER blocks, batches and  *)
(* parents of orphans together (block_fetcher.cpp, RequestBlockFromPeer).     *)
THEOREM PeerLimitHolds == Spec => []PeerLimit
BY InvHolds, InvProperties, PTL

(* What is indexed, queued or waiting as an orphan is on disk: ProcessNewBlock *)
(* saves a block before it can be found through any of them.                  *)
THEOREM HeldOnDiskHolds == Spec => []HeldOnDisk
BY InvHolds, InvProperties, PTL

(* MarkCompleted (block_tracker.h) never hides a height whose block the node  *)
(* has lost, but for blocks that its orphan pool dropped or refused.          *)
THEOREM CompletedIsHeldHolds == Spec => []CompletedIsHeld
BY InvHolds, InvProperties, PTL

=============================================================================
