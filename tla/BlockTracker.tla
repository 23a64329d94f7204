---------------------------- MODULE BlockTracker ----------------------------
(* CBlockTracker (net/block_tracker.h): the table of blocks that have been    *)
(* requested and not yet received.  It keeps three indexes of one relation    *)
(* (by height, by hash, by peer) and a set of heights that must not be        *)
(* requested again.  Every method runs under m_mutex, so each is one step;    *)
(* as the download coordinator calls several of them in one go, they are      *)
(* operators from a tracker to a tracker.                                     *)
EXTENDS Integers, FiniteSets

CONSTANTS
    Hashes,         \* the blocks that can be requested
    HeightOf,       \* the height of each of them
    Heights,        \* the heights of all of them
    Peers,          \* NodeId of every peer
    NoRequest,      \* what the table holds for a height nobody was asked for
    MAX_PER_PEER, MAX_TOTAL

ASSUME TrackerAssumption ==
    /\ HeightOf \in [Hashes -> Heights]
    /\ Heights \subseteq Nat
    /\ IsFiniteSet(Heights)
    /\ NoRequest \notin [hash : Hashes, peer : Peers]
    /\ MAX_PER_PEER \in Nat
    /\ MAX_TOTAL \in Nat

NoHeight == -1

VARIABLE tracker

TrackerType ==
    [heights : [Heights -> [hash : Hashes, peer : Peers] \cup {NoRequest}],
     hash_to_height : [Hashes -> Heights \cup {NoHeight}],
     peer_heights : [Peers -> SUBSET Heights],
     completed : SUBSET Heights]

EmptyTracker ==
    [heights |-> [h \in Heights |-> NoRequest],
     hash_to_height |-> [x \in Hashes |-> NoHeight],
     peer_heights |-> [p \in Peers |-> {}],
     completed |-> {}]

InFlight(t) == {h \in Heights : t.heights[h] # NoRequest}
GetPeerInFlightCount(t, p) == Cardinality(t.peer_heights[p])
GetTotalInFlight(t) == Cardinality(InFlight(t))
IsTracked(t, h) == t.heights[h] # NoRequest \/ h \in t.completed

CanAdd(t, h, p) ==
    /\ t.heights[h] = NoRequest
    /\ GetPeerInFlightCount(t, p) < MAX_PER_PEER
    /\ GetTotalInFlight(t) < MAX_TOTAL

AddBlock(t, x, p) ==
    [heights |-> [t.heights EXCEPT ![HeightOf[x]] = [hash |-> x, peer |-> p]],
     hash_to_height |-> [t.hash_to_height EXCEPT ![x] = HeightOf[x]],
     peer_heights |-> [t.peer_heights EXCEPT ![p] = @ \cup {HeightOf[x]}],
     completed |-> t.completed]

(* Dropping the requests at the heights S from all three indexes: what every  *)
(* removal below does for the heights it picks.                               *)
Forget(t, S) ==
    [heights |-> [h \in Heights |-> IF h \in S THEN NoRequest ELSE t.heights[h]],
     hash_to_height |-> [x \in Hashes |->
         IF \E h \in S \cap InFlight(t) : t.heights[h].hash = x
         THEN NoHeight ELSE t.hash_to_height[x]],
     peer_heights |-> [p \in Peers |->
         t.peer_heights[p] \ {h \in S \cap InFlight(t) : t.heights[h].peer = p}],
     completed |-> t.completed]

OnBlockReceivedByHeight(t, h) == Forget(t, {h})
RemoveTimedOut(t, h) == Forget(t, {h})

(* Looks the height up by hash.  A hash whose height is no longer tracked is  *)
(* only erased from the hash index.                                           *)
OnBlockReceived(t, x) ==
    LET h == t.hash_to_height[x] IN
    [heights |-> [g \in Heights |-> IF g = h THEN NoRequest ELSE t.heights[g]],
     hash_to_height |-> [t.hash_to_height EXCEPT ![x] = NoHeight],
     peer_heights |-> [p \in Peers |->
         IF h \in InFlight(t) /\ t.heights[h].peer = p
         THEN t.peer_heights[p] \ {h} ELSE t.peer_heights[p]],
     completed |-> t.completed]

OnPeerDisconnected_KeepsHashes(t, p) ==
    [t EXCEPT !.heights = [h \in Heights |-> IF h \in t.peer_heights[p] THEN NoRequest ELSE @[h]],
              !.peer_heights[p] = {}]

(* Works from the peer's own index and erases that index entry as a whole.    *)
OnPeerDisconnected(t, p) ==
    LET S == t.peer_heights[p] IN
    [heights |-> [h \in Heights |-> IF h \in S THEN NoRequest ELSE t.heights[h]],
     hash_to_height |-> [x \in Hashes |->
         IF \E h \in S \cap InFlight(t) : t.heights[h].hash = x
         THEN NoHeight ELSE t.hash_to_height[x]],
     peer_heights |-> [t.peer_heights EXCEPT ![p] = {}],
     completed |-> t.completed]

MarkCompleted(t, h) == [t EXCEPT !.completed = @ \cup {h}]

ClearAboveHeight(t, fork_point) ==
    [Forget(t, {h \in Heights : h > fork_point})
        EXCEPT !.completed = {h \in @ : h <= fork_point}]

-----------------------------------------------------------------------------
TrackerInit == tracker = EmptyTracker

TrackerNext ==
    \/ \E x \in Hashes, p \in Peers :
        CanAdd(tracker, HeightOf[x], p) /\ tracker' = AddBlock(tracker, x, p)
    \/ \E x \in Hashes : tracker' = OnBlockReceived(tracker, x)
    \/ \E h \in Heights : tracker' = OnBlockReceivedByHeight(tracker, h)
    \/ \E p \in Peers : tracker' = OnPeerDisconnected(tracker, p)
    \/ \E h \in Heights : tracker' = RemoveTimedOut(tracker, h)
    \/ \E h \in Heights : tracker' = MarkCompleted(tracker, h)
    \/ \E g \in Heights : tracker' = ClearAboveHeight(tracker, g)
    \/ tracker' = EmptyTracker

TrackerSpec == TrackerInit /\ [][TrackerNext]_tracker

-----------------------------------------------------------------------------
(* The by-hash and by-peer indexes are exactly the inverses of the by-height  *)
(* table (block_tracker.h, "Inconsistent state" in OnBlockReceived is never   *)
(* met).  A request that survived in one index only would hold a slot of its  *)
(* peer for ever, or make a block that arrives look unrequested.              *)
IndexesAgree(t) ==
    /\ \A h \in Heights, x \in Hashes :
         t.hash_to_height[x] = h <=> t.heights[h] # NoRequest /\ t.heights[h].hash = x
    /\ \A h \in Heights, p \in Peers :
         h \in t.peer_heights[p] <=> t.heights[h] # NoRequest /\ t.heights[h].peer = p

(* No peer is asked for more than MAX_PER_PEER blocks and no more than        *)
(* MAX_TOTAL are asked for at all, as counted by the indexes AddBlock counts. *)
WithinCapacity(t) ==
    /\ \A p \in Peers : Cardinality(t.peer_heights[p]) <= MAX_PER_PEER
    /\ Cardinality(InFlight(t)) <= MAX_TOTAL

TrackerInv == IndexesAgree(tracker) /\ WithinCapacity(tracker)
=============================================================================
