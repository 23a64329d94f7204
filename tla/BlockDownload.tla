---------------------------- MODULE BlockDownload ----------------------------
(* Initial block download: how the blocks of a known header chain get from    *)
(* the peers onto the active chain.  Four threads work on the same state:     *)
(*   - the message thread, ProcessNewBlock for every block that arrives       *)
(*     (node/block_processing.cpp);                                           *)
(*   - the main loop, CIbdCoordinator::Tick: FetchBlocks, the orphan scan and *)
(*     RetryTimeoutsAndStalls (node/ibd_coordinator.cpp);                     *)
(*   - the validation worker (node/block_validation_queue.cpp);               *)
(*   - the orphan pool's expiry (net/orphan_manager.cpp).                     *)
(* The headers form one chain and every block of it is valid, so a block is   *)
(* named by its height and its parent is the height below.  Fork recovery is  *)
(* outside this module.  As an index entry needs its parent's entry, the      *)
(* indexed heights are a prefix of the chain.                                 *)
EXTENDS BlockTracker, FiniteSetsExt

CONSTANTS
    InitHeader,           \* headers known at the start
    Prompt,               \* the peers that answer within the timeouts
    PerPeer,              \* MAX_BLOCKS_IN_TRANSIT_PER_PEER
    AsyncLag,             \* blocks behind above which validation is queued (10)
    MaxQueue,             \* MAX_QUEUE_DEPTH
    QueueStop,            \* queue depth at which downloading stops (95)
    NearTip,              \* blocks behind up to which one timeout is enough (20)
    MaxTimeouts,          \* MAX_PEER_CONSECUTIVE_TIMEOUTS
    MaxFutile,            \* MAX_FUTILE_BATCHES
    MaxStalls,            \* MAX_CAPACITY_STALLS_BEFORE_CLEAR
    MaxDisconnects, MaxExpiries, MaxRefusals   \* bounds on what the environment does

MaxHeight == Max(Heights)
NoPeer == -1

ASSUME DownloadAssumption ==
    /\ Heights = 1 .. MaxHeight /\ Hashes = Heights
    /\ \A h \in Heights : HeightOf[h] = h
    /\ InitHeader \in Heights /\ Prompt \subseteq Peers /\ NoPeer \notin Peers
    /\ {PerPeer, MaxQueue, QueueStop, MaxTimeouts, MaxFutile, MaxStalls} \subseteq Nat \ {0}
    /\ PerPeer <= MAX_PER_PEER
    /\ {AsyncLag, NearTip, MaxDisconnects, MaxExpiries, MaxRefusals} \subseteq Nat

VARIABLES
    header,      \* best header height
    node,        \* the node's blocks: chain height, index, disk, orphans, queue
    working,     \* block the validation worker has popped, 0 if none
    storing,     \* orphan the message thread is about to store: [height, peer]
    connected,   \* peers connected now
    net,         \* <<peer, height>>: requested from (or announced by) a peer, not yet arrived
    ibd,         \* the coordinator's download state
    pc,          \* where the coordinator's tick stands
    drops,       \* disconnections so far
    lost         \* history: orphans that expired or were evicted, or that the pool refused

vars == <<tracker, header, node, working, storing, connected, net, ibd, pc, drops, lost>>

TypeOK ==
    /\ tracker \in TrackerType
    /\ header \in Heights
    /\ node \in [chain : 0 .. MaxHeight, indexed : 0 .. MaxHeight, db : SUBSET Heights,
                 orphans : SUBSET Heights, queue : SUBSET Heights]
    /\ working \in 0 .. MaxHeight
    /\ storing \in [height : 0 .. MaxHeight, peer : Peers \cup {NoPeer}]
    /\ connected \subseteq Peers
    /\ net \subseteq Peers \X Heights
    /\ ibd \in [sync : Peers \cup {NoPeer}, cool : Peers \cup {NoPeer},
                stalls : 0 .. MaxStalls, futile : 0 .. MaxFutile,
                timeouts : 0 .. MaxTimeouts, seen : SUBSET {"stall", "batch", "scan"}]
    /\ pc \in {"tick", "scan", "retry"}
    /\ drops \in 0 .. MaxDisconnects
    /\ lost \in [expired : SUBSET Heights, refused : SUBSET Heights]

NotStoring == [height |-> 0, peer |-> NoPeer]

Init ==
    /\ TrackerInit
    /\ header = InitHeader
    /\ node = [chain |-> 0, indexed |-> 0, db |-> {}, orphans |-> {}, queue |-> {}]
    /\ working = 0
    /\ storing = NotStoring
    /\ connected = Peers
    /\ net = {}
    /\ ibd = [sync |-> NoPeer, cool |-> NoPeer,
              stalls |-> 0, futile |-> 0, timeouts |-> 0, seen |-> {"stall"}]
    /\ pc = "tick"
    /\ drops = 0
    /\ lost = [expired |-> {}, refused |-> {}]

-----------------------------------------------------------------------------
(* The block fetcher (net/block_fetcher.cpp) over the tracker.                *)

FreeSlots_OffByOne(t, p) == PerPeer + 1 - GetPeerInFlightCount(t, p)

FreeSlots(t, p) == PerPeer - GetPeerInFlightCount(t, p)

(* The lowest heights above the tip that are neither in flight nor completed, *)
(* as many as the peer and the table have room for.                           *)
GetNextBlocksToRequest(t, p) ==
    LET wanted == {h \in node.chain + 1 .. header : ~ IsTracked(t, h)}
        room == Min({FreeSlots(t, p), MAX_TOTAL - GetTotalInFlight(t)})
    IN  {h \in wanted : Cardinality({g \in wanted : g < h}) < room}

RequestBlockFromPeer(t, p, h) ==
    IF FreeSlots(t, p) > 0 /\ CanAdd(t, h, p) THEN AddBlock(t, h, p) ELSE t

(* MarkBlockReceived (by hash) and OnBlockReceived (by height).               *)
BlockReceived(t, h) == OnBlockReceivedByHeight(OnBlockReceived(t, h), h)

ClearDeadPeers(t) ==
    Forget(t, {h \in InFlight(t) : t.heights[h].peer \notin connected})

-----------------------------------------------------------------------------
(* ProcessNewBlock for a block that is indexed already or whose parent is:    *)
(* from a node n (and tracker t) to [node, tracker].                          *)

BlocksBehind(n) == header - n.chain

(* The coordinator remembers the chain height of its last stall check, of the *)
(* first batch of its sync peer and of its last orphan scan, and only asks    *)
(* whether the chain still is where it was: those that still agree are        *)
(* "seen".                                                                    *)
Advance(d, n) == IF n.chain = node.chain THEN d ELSE [d EXCEPT !.seen = {}]

(* Children in the orphan pool are erased and processed recursively, each of  *)
(* them connecting in turn: the whole run of orphans above h.                 *)
RunAbove(n, h) == {k \in n.orphans : k > h /\ h + 1 .. k \subseteq n.orphans}

ConnectWithOrphans(n, t, h) ==
    LET run == RunAbove(n, h)
        top == Max(run \cup {h})
    IN  [node |-> [n EXCEPT !.chain = top, !.indexed = top, !.db = @ \cup {h},
                            !.orphans = @ \ run],
         tracker |-> Forget(t, run \cup {h})]

QueueForValidation_Unsaved(n, t, h) ==
    [node |-> [n EXCEPT !.indexed = h, !.queue = @ \cup {h}], tracker |-> BlockReceived(t, h)]

QueueForValidation(n, t, h) ==
    [node |-> [n EXCEPT !.indexed = h, !.db = @ \cup {h}, !.queue = @ \cup {h}],
     tracker |-> BlockReceived(t, h)]

(* A block that is indexed but not connected: ActivateBestChain connects it   *)
(* with its unconnected ancestors.  Its orphan children stay where they are.  *)
ActivateStuck(n, t, h) ==
    [node |-> [n EXCEPT !.chain = Max({@, h})], tracker |-> BlockReceived(t, h)]

ProcessConnectable(n, t, h) ==
    IF h <= n.indexed THEN ActivateStuck(n, t, h)
    ELSE IF BlocksBehind(n) > AsyncLag /\ Cardinality(n.queue) < MaxQueue
         THEN QueueForValidation(n, t, h)
         ELSE ConnectWithOrphans(n, t, h)

(* A block arrives at the message thread: requested, late, or announced.      *)
Arrive(p, h) ==
    /\ storing = NotStoring
    /\ <<p, h>> \in net
    /\ \/ /\ h - 1 <= node.indexed
          /\ net' = net \ {<<p, h>>}
          /\ LET r == ProcessConnectable(node, tracker, h)
             IN  node' = r.node /\ tracker' = r.tracker
          /\ UNCHANGED storing
       \/ /\ h - 1 > node.indexed /\ h \in node.db
          /\ \E parent \in SUBSET {<<p, h - 1>>} :    \* at most once in 30 s
               net' = (net \ {<<p, h>>}) \cup parent
          /\ tracker' = MarkCompleted(OnBlockReceived(tracker, h), h)
          /\ UNCHANGED <<node, storing>>
       \/ /\ h - 1 > node.indexed /\ h \notin node.db
          /\ node' = [node EXCEPT !.db = @ \cup {h}]
          /\ storing' = [height |-> h, peer |-> p]
          /\ net' = net \ {<<p, h>>}
          /\ UNCHANGED tracker
    /\ ibd' = Advance(ibd, node')
    /\ UNCHANGED <<header, working, connected, pc, drops, lost>>

AddOrphanBlock_AfterParent(h) ==
    {[added |-> TRUE, lost |-> lost,
      orphans |-> IF IsTracked(tracker, h - 1) THEN node.orphans ELSE node.orphans \cup {h}]}

(* AddOrphanBlock: the ways it may end.  The pool is shared with blocks of    *)
(* other branches, so that its limits can be met at any time.  A block that   *)
(* would pass the limit of its peer or the limit in bytes is refused;         *)
(* otherwise it enters and LimitOrphans may evict some, itself included.      *)
AddOrphanBlock(h) ==
    {[added |-> TRUE, orphans |-> (node.orphans \cup {h}) \ evicted,
      lost |-> [lost EXCEPT !.expired = @ \cup evicted]] :
        evicted \in {S \in SUBSET (node.orphans \cup {h}) :
                        Cardinality(lost.expired \cup S) <= MaxExpiries}}
    \cup IF Cardinality(lost.refused) < MaxRefusals
         THEN {[added |-> FALSE, orphans |-> node.orphans,
                lost |-> [lost EXCEPT !.refused = @ \cup {h}]]}
         ELSE {}

(* The parent of a stored orphan is asked for by hash unless it is tracked.   *)
RequestParent(t, p, h) ==
    IF ~ IsTracked(t, h - 1) /\ h - 1 > node.indexed
    THEN RequestBlockFromPeer(t, p, h - 1) ELSE t

(* The rest of the orphan path.  Stored or refused, the block's own request   *)
(* stays in the table and its height is marked completed, so that it is not   *)
(* asked for again.                                                           *)
StoreOrphan ==
    LET h == storing.height
        p == storing.peer
    IN  /\ storing # NotStoring
        /\ \E r \in AddOrphanBlock(h) :
             LET t == IF r.added THEN RequestParent(tracker, p, h) ELSE tracker
             IN  /\ node' = [node EXCEPT !.orphans = r.orphans]
                 /\ lost' = r.lost
                 /\ tracker' = MarkCompleted(t, h)
                 /\ net' = IF t # tracker /\ p \in connected
                           THEN net \cup {<<p, h - 1>>} ELSE net
        /\ storing' = NotStoring
        /\ UNCHANGED <<header, working, connected, ibd, pc, drops>>

-----------------------------------------------------------------------------
(* The validation worker.                                                     *)

WorkerPop ==
    /\ working = 0 /\ node.queue # {}
    /\ working' = Min(node.queue)
    /\ node' = [node EXCEPT !.queue = @ \ {working'}]
    /\ UNCHANGED <<tracker, header, storing, connected, net, ibd, pc, drops, lost>>

(* ProcessBlock: the block is connected, then its child in the orphan pool is *)
(* indexed and queued.  If the queue is full the child stays in the pool,     *)
(* indexed; if it was indexed before, it only leaves the pool.                *)
WorkerProcess ==
    LET child == working + 1
        n == [node EXCEPT !.chain = Max({@, working})]
    IN  /\ working # 0
        /\ node' =
             IF child \notin n.orphans THEN n
             ELSE IF child <= n.indexed THEN [n EXCEPT !.orphans = @ \ {child}]
             ELSE IF Cardinality(n.queue) >= MaxQueue THEN [n EXCEPT !.indexed = child]
             ELSE [n EXCEPT !.indexed = child, !.queue = @ \cup {child},
                            !.orphans = @ \ {child}]
        /\ working' = 0
        /\ ibd' = Advance(ibd, node')
        /\ UNCHANGED <<tracker, header, storing, connected, net, pc, drops, lost>>

-----------------------------------------------------------------------------
(* CIbdCoordinator::Tick.                                                     *)

(* Peers other than the headers peer, outside their cooldown; else the        *)
(* headers peer, cooldown or not.  All peers know the whole header chain.     *)
Eligible(hp) ==
    LET others == connected \ {hp, ibd.cool} IN IF others # {} THEN others ELSE {hp}

Select(d, p) ==
    IF d.sync = p THEN d
    ELSE [d EXCEPT !.sync = p, !.timeouts = 0, !.stalls = 0, !.futile = 0,
                   !.seen = @ \cup {"batch"}]

GiveUp_NoCooldown(d) == [d EXCEPT !.sync = NoPeer]

(* A sync peer is given up: its requests are forgotten and it is not chosen   *)
(* again until its cooldown has passed.                                       *)
GiveUp(d) == [d EXCEPT !.cool = d.sync, !.sync = NoPeer]

(* DownloadBlocks after a FetchBlocks that requested nothing: the count of    *)
(* ticks at capacity, and the disconnection when it reaches its limit.  A     *)
(* prompt peer answers within one tick of the count.                          *)
Answering(p) == p \in Prompt /\ \E h \in Heights : <<p, h>> \in net

Unproductive(d, t, atCapacity) ==
    LET ticks == IF ~ atCapacity THEN 0 ELSE IF Answering(d.sync) THEN d.stalls
                 ELSE d.stalls + 1
        counted == [d EXCEPT !.stalls = ticks]
        full == ticks >= MaxStalls
    IN  /\ ibd' = IF full THEN [GiveUp(counted) EXCEPT !.stalls = 0] ELSE counted
        /\ tracker' = IF full THEN OnPeerDisconnected(t, d.sync) ELSE t
        /\ connected' = IF full THEN connected \ {d.sync} ELSE connected
        /\ net' = IF full THEN {m \in net : m[1] # d.sync} ELSE net
        /\ UNCHANGED node

(* DownloadBlocks after a FetchBlocks that requested blocks or advanced.      *)
Productive(d, n, t, asked) ==
    /\ ibd' = Advance([d EXCEPT !.stalls = IF "stall" \in d.seen THEN @ ELSE 0,
                                !.seen = @ \cup {"stall"}], n)
    /\ node' = n
    /\ tracker' = t
    /\ net' = net \cup asked
    /\ UNCHANGED connected

CountFutile_NoLimit(d) ==
    IF "batch" \in d.seen THEN [d EXCEPT !.futile = @ + 1]
    ELSE [d EXCEPT !.futile = 0, !.seen = @ \cup {"batch"}]

(* After a batch is sent: three batches without the chain moving and the peer *)
(* is taken to be on another fork.                                            *)
CountFutile(d) ==
    IF "batch" \in d.seen
    THEN IF d.futile + 1 >= MaxFutile
         THEN [GiveUp(d) EXCEPT !.futile = 0, !.seen = @ \ {"batch"}]
         ELSE [d EXCEPT !.futile = @ + 1]
    ELSE [d EXCEPT !.futile = 0, !.seen = @ \cup {"batch"}]

(* The batch: heights without an index entry; for an indexed height whose     *)
(* parent is not connected, the parent (at most once in 30 s).                *)
Batch(want, again) ==
    {h \in want : h > node.indexed}
        \cup IF again THEN {h \in node.chain + 1 .. node.indexed : h + 1 \in want} ELSE {}

(* AddBlock for each height of hs.                                            *)
AddBlocks(t, hs, p) ==
    [heights |-> [h \in Heights |-> IF h \in hs THEN [hash |-> h, peer |-> p] ELSE t.heights[h]],
     hash_to_height |-> [x \in Hashes |-> IF x \in hs THEN HeightOf[x] ELSE t.hash_to_height[x]],
     peer_heights |-> [t.peer_heights EXCEPT ![p] = @ \cup hs],
     completed |-> t.completed]

RequestAll(t, p, hs) ==
    LET new == {h \in hs : t.heights[h] = NoRequest}
        room == Min({FreeSlots(t, p), MAX_TOTAL - GetTotalInFlight(t)})
        fits == {h \in new : Cardinality({g \in new : g < h}) < room}
    IN  [sent |-> fits, tracker |-> AddBlocks(t, fits, p)]

(* A height that is indexed, not connected, and whose parent is the tip is    *)
(* processed from disk; the height reached is marked completed.               *)
Reprocess(n, t, want) ==
    IF n.chain + 1 \in want /\ n.chain + 1 <= n.indexed
    THEN LET r == ActivateStuck(n, t, n.chain + 1)
         IN  [node |-> r.node, tracker |-> MarkCompleted(r.tracker, r.node.chain)]
    ELSE [node |-> n, tracker |-> t]

FetchFrom(p) ==
    LET d == Select(ibd, p)
        t0 == IF ibd.sync \in Peers \ connected
              THEN OnPeerDisconnected(tracker, ibd.sync) ELSE tracker
        want == GetNextBlocksToRequest(t0, p)
    IN  \/ /\ FreeSlots(t0, p) <= 0
           /\ Unproductive(d, t0, TRUE)
        \/ /\ FreeSlots(t0, p) > 0 /\ want = {}
           /\ \/ InFlight(t0) # {} /\ Unproductive(d, ClearDeadPeers(t0), TRUE)
              \/ InFlight(t0) = {}    \* the reason of an earlier hang may still stand
                 /\ \E atCapacity \in BOOLEAN : Unproductive(d, t0, atCapacity)
        \/ /\ FreeSlots(t0, p) > 0 /\ want # {}
           /\ \E again \in BOOLEAN :
                LET q == RequestAll(t0, p, Batch(want, again))
                    f == CountFutile(d)
                    t1 == IF f.sync = NoPeer THEN OnPeerDisconnected(q.tracker, p)
                          ELSE q.tracker
                    r == Reprocess(node, IF q.sent # {} THEN t1 ELSE t0, want)
                IN  \/ /\ q.sent # {}
                       /\ Productive(f, r.node, r.tracker, {p} \X q.sent)
                    \/ /\ q.sent = {} /\ r.node # node
                       /\ Productive(d, r.node, r.tracker, {})
                    \/ /\ q.sent = {} /\ r.node = node
                       /\ \E timedOut \in BOOLEAN :    \* PARENT_VALIDATION_TIMEOUT_SECS
                            Unproductive(d, t0, timedOut)

FetchBlocks ==
    \E hp \in connected :    \* the headers peer of the moment
    \E p \in IF ibd.sync \in connected THEN {ibd.sync} ELSE Eligible(hp) : FetchFrom(p)

Tick ==
    /\ pc = "tick"
    /\ header > node.chain
    /\ Cardinality(node.queue) < QueueStop
    /\ connected # {}
    /\ FetchBlocks
    /\ pc' = "scan"
    /\ UNCHANGED <<header, working, storing, drops, lost>>

(* The orphan scan when the tip has not moved since a scan 30 s ago: it       *)
(* connects the orphan above the tip and forgets every request and every      *)
(* completed height above the height the tip had.                             *)
ResolveOrphans ==
    /\ pc = "scan" /\ pc' = "retry"
    /\ "scan" \in ibd.seen
    /\ node.orphans # {} /\ header > node.chain
    /\ LET h == node.chain + 1
           r == IF h \in node.orphans
                THEN ProcessConnectable([node EXCEPT !.orphans = @ \ {h}], tracker, h)
                ELSE [node |-> node, tracker |-> tracker]
       IN  /\ node' = r.node
           /\ tracker' = ClearAboveHeight(r.tracker, node.chain)
           /\ ibd' = Advance([ibd EXCEPT !.stalls = 0], r.node)
    /\ UNCHANGED <<header, working, storing, connected, net, drops, lost>>

(* A scan that finds the tip moved: the 30 s start again.                     *)
NoteTip ==
    /\ pc = "scan" /\ pc' = "retry"
    /\ "scan" \notin ibd.seen
    /\ ibd' = [ibd EXCEPT !.seen = @ \cup {"scan"}]
    /\ UNCHANGED <<tracker, header, node, working, storing, connected, net, drops, lost>>

(* The 10 s between scans or the 30 s of the stall are not over, or the scan  *)
(* finds nothing to do.                                                       *)
SkipScan ==
    /\ pc = "scan" /\ pc' = "retry"
    /\ UNCHANGED <<tracker, header, node, working, storing, connected, net, ibd, drops, lost>>

(* A request can be past the timeout unless its peer is prompt and its answer *)
(* is on the way.                                                             *)
MayTimeOut(h) ==
    LET p == tracker.heights[h].peer IN p \in Prompt => <<p, h>> \notin net

(* The requests past the timeout are dropped; a sync peer that let them pass  *)
(* is given up, near the tip at once.                                         *)
RetryTimeoutsAndStalls(late) ==
    LET blamed == \E h \in late : tracker.heights[h].peer = ibd.sync
        limit == IF BlocksBehind(node) <= NearTip THEN 1 ELSE MaxTimeouts
        rotate == blamed /\ ibd.timeouts + 1 >= limit
        t == Forget(tracker, late)
    IN  /\ pc = "retry" /\ pc' = "tick"
        /\ \A h \in late : MayTimeOut(h)
        /\ ibd' = IF rotate THEN [GiveUp(ibd) EXCEPT !.timeouts = 0]
                  ELSE IF blamed THEN [ibd EXCEPT !.timeouts = @ + 1] ELSE ibd
        /\ tracker' = IF rotate THEN OnPeerDisconnected(t, ibd.sync) ELSE t
        /\ UNCHANGED <<header, node, working, storing, connected, net, drops, lost>>

-----------------------------------------------------------------------------
(* Time and the network.                                                      *)

(* Cooldowns (60 s and more) outlast the tick (1 s) that picks another peer.  *)
CooldownExpires ==
    /\ ibd.cool # NoPeer
    /\ ibd.sync # NoPeer \/ connected \subseteq {ibd.cool}
    /\ ibd' = [ibd EXCEPT !.cool = NoPeer]
    /\ UNCHANGED <<tracker, header, node, working, storing, connected, net, pc, drops, lost>>

NewTip(p) ==
    /\ p \in connected /\ header < MaxHeight
    /\ header' = header + 1
    /\ net' = net \cup {<<p, header + 1>>}
    /\ UNCHANGED <<tracker, node, working, storing, connected, ibd, pc, drops, lost>>

Disconnect(p) ==
    /\ p \in connected /\ drops < MaxDisconnects
    /\ drops' = drops + 1
    /\ connected' = connected \ {p}
    /\ net' = {m \in net : m[1] # p}
    /\ tracker' = OnPeerDisconnected(tracker, p)
    /\ UNCHANGED <<header, node, working, storing, ibd, pc, lost>>

(* A peer comes back under a new NodeId: nothing held for the old one counts. *)
Reconnect(p) ==
    /\ p \in Peers \ connected /\ storing.peer # p
    /\ connected' = connected \cup {p}
    /\ tracker' = OnPeerDisconnected(tracker, p)
    /\ ibd' = LET Without(x) == IF x = p THEN NoPeer ELSE x
              IN  [ibd EXCEPT !.sync = Without(@), !.cool = Without(@)]
    /\ UNCHANGED <<header, node, working, storing, net, pc, drops, lost>>

(* EraseExpiredOrphans after 20 min; the memory monitor's Clear does the same *)
(* to all of them.                                                            *)
OrphansExpire(S) ==
    /\ S # {} /\ S \subseteq node.orphans
    /\ Cardinality(lost.expired \cup S) <= MaxExpiries
    /\ node' = [node EXCEPT !.orphans = @ \ S]
    /\ lost' = [lost EXCEPT !.expired = @ \cup S]
    /\ UNCHANGED <<tracker, header, working, storing, connected, net, ibd, pc, drops>>

Next ==
    \/ \E p \in Peers, h \in Heights : Arrive(p, h)
    \/ StoreOrphan
    \/ WorkerPop \/ WorkerProcess
    \/ Tick \/ ResolveOrphans \/ NoteTip \/ SkipScan
    \/ \E late \in SUBSET InFlight(tracker) : RetryTimeoutsAndStalls(late)
    \/ CooldownExpires
    \/ \E p \in Peers : NewTip(p) \/ Disconnect(p) \/ Reconnect(p)
    \/ \E S \in SUBSET node.orphans : OrphansExpire(S)

Worker == WorkerPop \/ WorkerProcess

(* The main loop moves on whenever it may: what a step of it does to pc.      *)
LoopMoves ==
    \/ /\ pc = "tick" /\ pc' = "scan"
       /\ header > node.chain /\ Cardinality(node.queue) < QueueStop /\ connected # {}
    \/ pc = "scan" /\ pc' = "retry"
    \/ pc = "retry" /\ pc' = "tick"

(* Every scan interval and every timeout passes again and again.              *)
ScanDue == pc = "scan" /\ (ResolveOrphans \/ NoteTip)
TimesOut(h) ==
    /\ pc = "retry"
    /\ h \in InFlight(tracker)
    /\ \E late \in SUBSET InFlight(tracker) : h \in late /\ RetryTimeoutsAndStalls(late)

Fairness ==
    /\ WF_vars(StoreOrphan) /\ WF_vars(Worker) /\ WF_pc(LoopMoves)
    /\ \A p \in Prompt, h \in Heights : SF_vars(Arrive(p, h))
    /\ SF_vars(ScanDue)
    /\ \A h \in Heights : SF_vars(TimesOut(h))
    /\ \A p \in Prompt : WF_vars(Reconnect(p))

Spec == Init /\ [][Next]_vars
FairSpec == Spec /\ Fairness

-----------------------------------------------------------------------------
(* No peer owes more blocks than MAX_BLOCKS_IN_TRANSIT_PER_PEER, counting the *)
(* parents that the message thread asks it for while the coordinator sends    *)
(* batches (block_fetcher.cpp, RequestBlockFromPeer): beyond it the           *)
(* coordinator would take the peer to be at capacity for ever.                *)
PeerLimit == \A p \in Peers : GetPeerInFlightCount(tracker, p) <= PerPeer

(* What is indexed, queued or waiting as an orphan is on disk, so that        *)
(* activating it later finds its data, and what is queued or connected is     *)
(* indexed.                                                                   *)
HeldOnDisk ==
    /\ node.chain <= node.indexed
    /\ 1 .. node.indexed \cup node.orphans \subseteq node.db
    /\ node.queue \cup ({working} \ {0}) \subseteq 1 .. node.indexed

(* Blocks on disk that have left, or never entered, the orphan pool.          *)
Lost == lost.expired \cup lost.refused

(* A height is marked completed (never to be requested again) only while its  *)
(* block is held somewhere it will be connected from: in the orphan pool, in  *)
(* the index, or about to enter the pool (block_processing.cpp,               *)
(* MarkCompleted).  There are two exceptions: the pool dropped the block, or  *)
(* refused it.                                                                *)
CompletedIsHeld ==
    tracker.completed \subseteq
        1 .. node.indexed \cup node.orphans \cup {storing.height} \cup Lost

(* Nothing is left that would clear the mark of a lost block: the orphan scan *)
(* does so only while the pool is not empty.                                  *)
Stranded ==
    /\ node.orphans = {}
    /\ \E h \in Lost : h > node.indexed /\ h \in tracker.completed

(* Initial block download ends if a peer answers in time: the chain reaches   *)
(* the last header, also past orphans that were lost, but for one case.  An   *)
(* empty pool with a lost block still marked as completed is where the        *)
(* coordinator (node/ibd_coordinator.cpp, FetchBlocks) stays.                 *)
CatchesUp == <>[](node.chain = header \/ Stranded)

(* The same without the exception, as the comments at BUG #260 have it: that  *)
(* expired orphans are recovered from disk, so that the node does not stall   *)
(* (node/ibd_coordinator.cpp, FetchBlocks).                                   *)
ExpiredOrphansRecovered == <>[](node.chain = header)
=============================================================================
