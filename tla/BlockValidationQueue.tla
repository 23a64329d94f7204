------------------------ MODULE BlockValidationQueue ------------------------
(* CBlockValidationQueue (node/block_validation_queue.cpp): the queue of      *)
(* received blocks, the one worker thread that activates them in order of     *)
(* height, and the threads that fill it.  The worker fills it too: a block it *)
(* has activated may have children in the orphan pool.                        *)
(*                                                                            *)
(* m_queue_mutex is held by the worker in the states "locked" and "parking"   *)
(* and by everybody else only within one step.  m_queue_cv is the states      *)
(* "waiting" (blocked) and "woken" (notified, about to take the mutex again). *)
EXTENDS Integers, FiniteSets

CONSTANTS
    Blocks,             \* hashes of the blocks that arrive
    NoBlock,
    ParentOf,           \* hashPrevBlock of each, NoBlock for a child of the tip
    HeightOf,           \* expected_height of each
    Clients,            \* threads that call ProcessNewBlock
    Worker,             \* the thread of ValidationWorker
    MAX_QUEUE_DEPTH

ASSUME QueueAssumption ==
    /\ NoBlock \notin Blocks
    /\ ParentOf \in [Blocks -> Blocks \cup {NoBlock}]
    /\ HeightOf \in [Blocks -> Nat]
    /\ IsFiniteSet(Clients) /\ Worker \notin Clients
    /\ MAX_QUEUE_DEPTH \in Nat \ {0}

Threads == Clients \cup {Worker}

VARIABLES
    pc,                 \* where each thread is
    job,                \* the block each thread is handling
    queue,              \* m_queue: entries, with the thread that pushed them
    queued_heights,     \* m_queued_heights
    indexed,            \* blocks with an entry in mapBlockIndex
    connected,          \* blocks on the active chain
    orphans,            \* the orphan pool
    children,           \* orphanChildren: the worker's copy of a list of orphans
    m_running,
    stopper             \* where Stop is: "up", "notify", "join", "stopped"

vars == <<pc, job, queue, queued_heights, indexed, connected, orphans, children, m_running, stopper>>

Entry == [block : Blocks, by : Threads]

InQueueBlock == {"index", "depth", "verify", "push", "notify"}

(* Every thread is at a place of its own code, and every entry of the queue   *)
(* is a block some thread pushed.                                             *)
TypeOK ==
    /\ pc \in [Threads -> InQueueBlock \cup {"idle", "sync", "loop", "locked", "parking", "waiting",
                                             "woken", "process", "orphans", "done"}]
    /\ \A t \in Clients : pc[t] \in InQueueBlock \cup {"idle", "sync"}
    /\ pc[Worker] \notin {"idle", "sync"}
    /\ job \in [Threads -> Blocks \cup {NoBlock}]
    /\ \A t \in Threads : pc[t] \in InQueueBlock \cup {"process", "sync"} => job[t] \in Blocks
    /\ queue \subseteq Entry
    /\ queued_heights \subseteq {HeightOf[b] : b \in Blocks}
    /\ indexed \subseteq Blocks /\ connected \subseteq Blocks
    /\ orphans \subseteq Blocks /\ children \subseteq Blocks
    /\ m_running \in BOOLEAN
    /\ stopper \in {"up", "notify", "join", "stopped"}

Init ==
    /\ pc = [t \in Threads |-> IF t = Worker THEN "loop" ELSE "idle"]
    /\ job = [t \in Threads |-> NoBlock]
    /\ queue = {} /\ queued_heights = {}
    /\ indexed = {} /\ connected = {}
    /\ orphans = {} /\ children = {}
    /\ m_running = TRUE
    /\ stopper = "up"

QueueMutexFree == pc[Worker] \notin {"locked", "parking"}
IsIndexed(b) == b = NoBlock \/ b \in indexed
IsConnected(b) == b = NoBlock \/ b \in connected

-----------------------------------------------------------------------------
(* The threads that receive blocks.  A block without a parent goes to the     *)
(* orphan pool; a known one is none of the queue's business; one that is new  *)
(* gets an index entry and is passed to QueueBlock.  Between the look at the  *)
(* index and the entry another thread may add the same block (AddBlockIndex   *)
(* then merges and succeeds).                                                 *)
ReceiveOrphan(t, b) ==
    /\ stopper = "up"
    /\ pc[t] = "idle" /\ ~IsIndexed(b) /\ ~IsIndexed(ParentOf[b])
    /\ orphans' = orphans \cup {b}
    /\ UNCHANGED <<pc, job, queue, queued_heights, indexed, connected, children, m_running, stopper>>

ReceiveBlock(t, b) ==
    /\ stopper = "up"
    /\ pc[t] = "idle" /\ ~IsIndexed(b) /\ IsIndexed(ParentOf[b])
    /\ pc' = [pc EXCEPT ![t] = "index"]
    /\ job' = [job EXCEPT ![t] = b]
    /\ UNCHANGED <<queue, queued_heights, indexed, connected, orphans, children, m_running, stopper>>

(* An orphan expires, is evicted, or is resolved by another thread.           *)
OrphanLeavesPool(b) ==
    /\ b \in orphans
    /\ orphans' = orphans \ {b}
    /\ UNCHANGED <<pc, job, queue, queued_heights, indexed, connected, children, m_running, stopper>>

AddBlockIndex(t) ==
    /\ pc[t] = "index"
    /\ indexed' = indexed \cup {job[t]}
    /\ pc' = [pc EXCEPT ![t] = "depth"]
    /\ UNCHANGED <<job, queue, queued_heights, connected, orphans, children, m_running, stopper>>

-----------------------------------------------------------------------------
(* QueueBlock.  It returns to the worker's loop over the orphans, or to       *)
(* ProcessNewBlock, which activates a refused block itself.                   *)
Accepted_Exits(t) == "idle"
Accepted(t) == IF t = Worker THEN "orphans" ELSE "idle"
Refused(t) == IF t = Worker THEN "orphans" ELSE "sync"

CheckDepth_OffByOne(t) ==
    /\ pc[t] = "depth" /\ QueueMutexFree
    /\ \/ /\ Cardinality(queue) > MAX_QUEUE_DEPTH
          /\ pc' = [pc EXCEPT ![t] = Refused(t)]
       \/ /\ Cardinality(queue) <= MAX_QUEUE_DEPTH
          /\ pc' = [pc EXCEPT ![t] = "verify"]
    /\ UNCHANGED <<job, queue, queued_heights, indexed, connected, orphans, children, m_running, stopper>>

(* The depth is read under the mutex, which is released before the push.      *)
CheckDepth(t) ==
    /\ pc[t] = "depth" /\ QueueMutexFree
    /\ \/ /\ Cardinality(queue) >= MAX_QUEUE_DEPTH
          /\ pc' = [pc EXCEPT ![t] = Refused(t)]
       \/ /\ Cardinality(queue) < MAX_QUEUE_DEPTH
          /\ pc' = [pc EXCEPT ![t] = "verify"]
    /\ UNCHANGED <<job, queue, queued_heights, indexed, connected, orphans, children, m_running, stopper>>

(* Proof of work and difficulty may be wrong, and the block may have been     *)
(* connected by now; otherwise it is pushed.                                  *)
Verify(t) ==
    /\ pc[t] = "verify"
    /\ \/ pc' = [pc EXCEPT ![t] = Refused(t)]
       \/ /\ ~IsConnected(job[t])
          /\ pc' = [pc EXCEPT ![t] = "push"]
    /\ UNCHANGED <<job, queue, queued_heights, indexed, connected, orphans, children, m_running, stopper>>

Push_Silent(t) ==
    /\ pc[t] = "push" /\ QueueMutexFree
    /\ queue' = queue \cup {[block |-> job[t], by |-> t]}
    /\ queued_heights' = queued_heights \cup {HeightOf[job[t]]}
    /\ pc' = [pc EXCEPT ![t] = Accepted(t)]
    /\ UNCHANGED <<job, indexed, connected, orphans, children, m_running, stopper>>

Push(t) ==
    /\ pc[t] = "push" /\ QueueMutexFree
    /\ queue' = queue \cup {[block |-> job[t], by |-> t]}
    /\ queued_heights' = queued_heights \cup {HeightOf[job[t]]}
    /\ pc' = [pc EXCEPT ![t] = "notify"]
    /\ UNCHANGED <<job, indexed, connected, orphans, children, m_running, stopper>>

Notified(p) == [p EXCEPT ![Worker] = IF @ = "waiting" THEN "woken" ELSE @]

(* notify_one, after which the worker, as a caller, drops the orphan it has   *)
(* queued from the pool.                                                      *)
NotifyOne(t) ==
    /\ pc[t] = "notify"
    /\ pc' = [Notified(pc) EXCEPT ![t] = Accepted(t)]
    /\ orphans' = IF t = Worker THEN orphans \ {job[t]} ELSE orphans
    /\ job' = [job EXCEPT ![t] = NoBlock]
    /\ UNCHANGED <<queue, queued_heights, indexed, connected, children, m_running, stopper>>

QueueBlock(t) ==
    AddBlockIndex(t) \/ CheckDepth(t) \/ Verify(t) \/ Push(t) \/ NotifyOne(t)

(* What ActivateBestChain may do with a block: nothing (it is refused, or has *)
(* less work than the tip), or make the chain that ends in it the active one. *)
Activate(b) ==
    \/ connected' = connected
    \/ \E chain \in SUBSET indexed :
          /\ b \in chain
          /\ \A x \in chain : ParentOf[x] \in chain \cup {NoBlock}
          /\ \A x \in chain \ {b} : \E y \in chain : ParentOf[y] = x
          /\ connected' = chain

ActivateNow(t) ==
    /\ pc[t] = "sync"
    /\ Activate(job[t])
    /\ pc' = [pc EXCEPT ![t] = "idle"]
    /\ job' = [job EXCEPT ![t] = NoBlock]
    /\ UNCHANGED <<queue, queued_heights, indexed, orphans, children, m_running, stopper>>

-----------------------------------------------------------------------------
(* ValidationWorker.                                                          *)
WorkerGoes(from, to) == pc[Worker] = from /\ pc' = [pc EXCEPT ![Worker] = to]

LoopTest ==
    /\ WorkerGoes("loop", IF m_running THEN "locked" ELSE "done")
    /\ UNCHANGED <<job, queue, queued_heights, indexed, connected, orphans, children, m_running, stopper>>

(* The predicate of wait() is false: the mutex stays locked until the thread  *)
(* is blocked.                                                                *)
Park ==
    /\ queue = {} /\ m_running
    /\ WorkerGoes("locked", "parking")
    /\ UNCHANGED <<job, queue, queued_heights, indexed, connected, orphans, children, m_running, stopper>>

Block ==
    /\ WorkerGoes("parking", "waiting")
    /\ UNCHANGED <<job, queue, queued_heights, indexed, connected, orphans, children, m_running, stopper>>

(* A condition variable may wake without a notification.                      *)
SpuriousWakeup ==
    /\ WorkerGoes("waiting", "woken")
    /\ UNCHANGED <<job, queue, queued_heights, indexed, connected, orphans, children, m_running, stopper>>

Relock ==
    /\ WorkerGoes("woken", "locked")
    /\ UNCHANGED <<job, queue, queued_heights, indexed, connected, orphans, children, m_running, stopper>>

Quit ==
    /\ queue = {} /\ ~m_running
    /\ WorkerGoes("locked", "done")
    /\ UNCHANGED <<job, queue, queued_heights, indexed, connected, orphans, children, m_running, stopper>>

Lowest(e) == \A f \in queue : HeightOf[e.block] <= HeightOf[f.block]

Pop_KeepsHeight(e) ==
    /\ e \in queue /\ Lowest(e)
    /\ WorkerGoes("locked", "process")
    /\ queue' = queue \ {e}
    /\ job' = [job EXCEPT ![Worker] = e.block]
    /\ UNCHANGED <<queued_heights, indexed, connected, orphans, children, m_running, stopper>>

(* top() and pop() of the priority queue, among equal heights any entry.      *)
Pop(e) ==
    /\ e \in queue /\ Lowest(e)
    /\ WorkerGoes("locked", "process")
    /\ queue' = queue \ {e}
    /\ queued_heights' = queued_heights \ {HeightOf[e.block]}
    /\ job' = [job EXCEPT ![Worker] = e.block]
    /\ UNCHANGED <<indexed, connected, orphans, children, m_running, stopper>>

(* ProcessBlock: activation fails, or throws, or succeeds and the list of the *)
(* block's orphans is fetched.                                                *)
ProcessFails_Escapes ==
    /\ WorkerGoes("process", "done")
    /\ job' = [job EXCEPT ![Worker] = NoBlock]
    /\ UNCHANGED <<queue, queued_heights, indexed, connected, orphans, children, m_running, stopper>>

ProcessFails ==
    /\ WorkerGoes("process", "loop")
    /\ job' = [job EXCEPT ![Worker] = NoBlock]
    /\ UNCHANGED <<queue, queued_heights, indexed, connected, orphans, children, m_running, stopper>>

ProcessSucceeds ==
    /\ WorkerGoes("process", "orphans")
    /\ Activate(job[Worker])
    /\ children' = {c \in orphans : ParentOf[c] = job[Worker]}
    /\ job' = [job EXCEPT ![Worker] = NoBlock]
    /\ UNCHANGED <<queue, queued_heights, indexed, orphans, m_running, stopper>>

(* One round of the loop over the orphans: the orphan is gone, or is indexed  *)
(* already and is dropped, or is new and is queued.                           *)
NextOrphan(c) ==
    /\ pc[Worker] = "orphans" /\ c \in children
    /\ children' = children \ {c}
    /\ \/ /\ c \notin orphans
          /\ UNCHANGED <<pc, job, orphans>>
       \/ /\ c \in orphans /\ c \in indexed
          /\ orphans' = orphans \ {c}
          /\ UNCHANGED <<pc, job>>
       \/ /\ c \in orphans /\ c \notin indexed
          /\ pc' = [pc EXCEPT ![Worker] = "index"]
          /\ job' = [job EXCEPT ![Worker] = c]
          /\ UNCHANGED orphans
    /\ UNCHANGED <<queue, queued_heights, indexed, connected, m_running, stopper>>

ProcessEnds ==
    /\ children = {}
    /\ WorkerGoes("orphans", "loop")
    /\ job' = [job EXCEPT ![Worker] = NoBlock]
    /\ UNCHANGED <<queue, queued_heights, indexed, connected, orphans, children, m_running, stopper>>

WorkerStep ==
    \/ LoopTest \/ Park \/ Block \/ Relock \/ Quit
    \/ \E e \in queue : Pop(e)
    \/ ProcessFails \/ ProcessSucceeds \/ ProcessEnds
    \/ \E c \in children : NextOrphan(c)
    \/ QueueBlock(Worker)

-----------------------------------------------------------------------------
(* Stop, called by NodeContext::Shutdown after the connection manager's       *)
(* threads have ended.  m_running is cleared without the mutex.               *)
StopClears ==
    /\ stopper = "up" /\ \A t \in Clients : pc[t] = "idle"
    /\ m_running' = FALSE
    /\ stopper' = "notify"
    /\ UNCHANGED <<pc, job, queue, queued_heights, indexed, connected, orphans, children>>

StopNotifies ==
    /\ stopper = "notify"
    /\ pc' = Notified(pc)
    /\ stopper' = "join"
    /\ UNCHANGED <<job, queue, queued_heights, indexed, connected, orphans, children, m_running>>

StopJoins ==
    /\ stopper = "join" /\ pc[Worker] = "done"
    /\ stopper' = "stopped"
    /\ UNCHANGED <<pc, job, queue, queued_heights, indexed, connected, orphans, children, m_running>>

Next ==
    \/ \E t \in Clients, b \in Blocks : ReceiveOrphan(t, b) \/ ReceiveBlock(t, b)
    \/ \E t \in Clients : QueueBlock(t) \/ ActivateNow(t)
    \/ \E b \in Blocks : OrphanLeavesPool(b)
    \/ WorkerStep \/ SpuriousWakeup
    \/ StopClears \/ StopNotifies \/ StopJoins

Spec == Init /\ [][Next]_vars

(* The scheduler runs every thread.  Nothing obliges a peer to send a block,  *)
(* an orphan to expire, the operator to stop the node, or the condition       *)
(* variable to wake by itself.                                                *)
Fairness ==
    /\ WF_vars(WorkerStep)
    /\ \A t \in Clients : WF_vars(QueueBlock(t) \/ ActivateNow(t))
    /\ WF_vars(StopNotifies) /\ WF_vars(StopJoins)

FairSpec == Spec /\ Fairness

-----------------------------------------------------------------------------
(* QueueBlock compares the depth with MAX_QUEUE_DEPTH and pushes in a second  *)
(* critical section.  The limit can be passed, by one entry for each thread   *)
(* that may stand between the two, the worker included, and by no more.       *)
DepthBounded == Cardinality(queue) <= MAX_QUEUE_DEPTH + Cardinality(Threads) - 1

(* IsHeightQueued never answers yes for a height that is not in the queue,    *)
(* though entries of equal height share one element of m_queued_heights.      *)
NoPhantomHeight == \A h \in queued_heights : \E e \in queue : HeightOf[e.block] = h

(* The worker is not asleep beside a non-empty queue, unless the thread that  *)
(* pushed is still on its way to notify_one: no wake-up of a push is lost.    *)
NoLostPush ==
    pc[Worker] = "waiting" /\ queue # {} => \E t \in Clients : pc[t] = "notify"

(* Every block that is queued is taken out by the worker, unless the queue is *)
(* stopped first.                                                             *)
QueuedIsTaken ==
    \A x \in Blocks : (\E e \in queue : e.block = x)
                         ~> (~m_running \/ \A e \in queue : e.block # x)

(* Stop: "notify_all();  // Wake worker to check m_running"; then the worker  *)
(* ends and join returns.                                                     *)
StopReturns == stopper = "notify" ~> stopper = "stopped"
=============================================================================
