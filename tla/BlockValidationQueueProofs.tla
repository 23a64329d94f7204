--------------------- MODULE BlockValidationQueueProofs ---------------------
(* The validation queue, for every number of threads and blocks: how far      *)
(* MAX_QUEUE_DEPTH can be passed, and that no push goes unnoticed.            *)
EXTENDS BlockValidationQueue, FiniteSetTheorems, TLAPS

(* The threads that have passed the depth check and have not pushed yet.      *)
Pushing == {t \in Threads : pc[t] \in {"verify", "push"}}

(* A thread that passed the check saw fewer than MAX_QUEUE_DEPTH entries, so  *)
(* at that moment entries and threads under way were at most this many; a     *)
(* push turns one into the other.                                             *)
DepthInv ==
    /\ IsFiniteSet(queue)
    /\ Cardinality(queue) + Cardinality(Pushing) <= MAX_QUEUE_DEPTH - 1 + Cardinality(Threads)

(* The worker goes to sleep with the mutex locked, and found the queue empty. *)
SleepInv ==
    /\ pc[Worker] = "parking" => queue = {}
    /\ NoLostPush

IInv == TypeOK /\ DepthInv /\ SleepInv /\ NoPhantomHeight

LEMMA ThreadsFinite == IsFiniteSet(Threads) /\ Cardinality(Threads) \in Nat
BY QueueAssumption, FS_AddElement, FS_CardinalityType DEF Threads

(* Fewer entries and fewer threads under way keep the bound.                  *)
LEMMA FewerIsFine ==
    ASSUME DepthInv, queue' \subseteq queue, Pushing' \subseteq Pushing
    PROVE  DepthInv'
<1>1. IsFiniteSet(Pushing)
  BY ThreadsFinite, FS_Subset DEF Pushing
<1>2. /\ IsFiniteSet(queue') /\ Cardinality(queue') <= Cardinality(queue)
      /\ Cardinality(Pushing') <= Cardinality(Pushing)
  BY <1>1, FS_Subset DEF DepthInv
<1>3. /\ Cardinality(queue) \in Nat /\ Cardinality(queue') \in Nat
      /\ Cardinality(Pushing) \in Nat /\ Cardinality(Pushing') \in Nat
  BY <1>1, <1>2, FS_Subset, FS_CardinalityType DEF DepthInv
<1> QED
  BY <1>2, <1>3, ThreadsFinite, QueueAssumption DEF DepthInv

LEMMA InitHolds == Init => IInv
<1> SUFFICES ASSUME Init PROVE IInv
  OBVIOUS
<1>1. TypeOK
  BY QueueAssumption DEF Init, TypeOK, InQueueBlock, Entry, Threads
<1>2. Pushing = {} /\ queue = {}
  BY DEF Init, Pushing
<1>3. DepthInv
  BY <1>2, FS_EmptySet, ThreadsFinite, QueueAssumption DEF DepthInv
<1> QED
  BY <1>1, <1>2, <1>3 DEF Init, IInv, SleepInv, NoLostPush, NoPhantomHeight

(* The steps that leave the queue alone or shorten it, and start no push.     *)
LEMMA ClientStepHolds ==
    ASSUME IInv, NEW t \in Clients,
           \/ \E b \in Blocks : ReceiveOrphan(t, b) \/ ReceiveBlock(t, b)
           \/ ActivateNow(t)
    PROVE  IInv'
<1> USE DEF IInv
<1>1. t \in Threads /\ t # Worker /\ Worker \in Threads
  BY QueueAssumption DEF Threads
<1>2. CASE \E b \in Blocks : ReceiveOrphan(t, b)
  <2> PICK b \in Blocks : ReceiveOrphan(t, b)
    BY <1>2
  <2>1. TypeOK'
    BY DEF ReceiveOrphan, TypeOK
  <2>2. DepthInv'
    BY FewerIsFine DEF ReceiveOrphan, Pushing
  <2> QED
    BY <2>1, <2>2 DEF ReceiveOrphan, SleepInv, NoLostPush, NoPhantomHeight
<1>3. CASE \E b \in Blocks : ReceiveBlock(t, b)
  <2> PICK b \in Blocks : ReceiveBlock(t, b)
    BY <1>3
  <2>1. TypeOK'
    BY <1>1 DEF ReceiveBlock, TypeOK, InQueueBlock
  <2>2. DepthInv'
    BY <1>1, FewerIsFine DEF ReceiveBlock, Pushing, TypeOK
  <2> QED
    BY <1>1, <2>1, <2>2 DEF ReceiveBlock, SleepInv, NoLostPush, NoPhantomHeight, TypeOK
<1>4. CASE ActivateNow(t)
  <2>1. connected' \subseteq Blocks
    BY <1>4 DEF ActivateNow, Activate, TypeOK
  <2>2. TypeOK'
    BY <1>1, <1>4, <2>1 DEF ActivateNow, TypeOK, InQueueBlock
  <2>3. DepthInv'
    BY <1>1, <1>4, FewerIsFine DEF ActivateNow, Pushing, TypeOK
  <2> QED
    BY <1>1, <1>4, <2>2, <2>3 DEF ActivateNow, SleepInv, NoLostPush, NoPhantomHeight, TypeOK
<1> QED
  BY <1>2, <1>3, <1>4

(* QueueBlock, by any thread.                                                 *)
LEMMA QueueBlockHolds ==
    ASSUME IInv, NEW t \in Threads, QueueBlock(t)
    PROVE  IInv'
<1> USE DEF IInv
<1>1. Worker \in Threads /\ Clients \subseteq Threads
  BY DEF Threads
<1>2. CASE AddBlockIndex(t)
  <2>1. TypeOK'
    BY <1>1, <1>2 DEF AddBlockIndex, TypeOK, InQueueBlock
  <2>2. DepthInv'
    BY <1>1, <1>2, FewerIsFine DEF AddBlockIndex, Pushing, TypeOK
  <2> QED
    BY <1>1, <1>2, <2>1, <2>2 DEF AddBlockIndex, SleepInv, NoLostPush, NoPhantomHeight, TypeOK
<1>3. CASE CheckDepth(t)
  <2>1. TypeOK'
    BY <1>1, <1>3, QueueAssumption DEF CheckDepth, Refused, TypeOK, InQueueBlock, Threads
  <2>2. DepthInv'
    <3>1. CASE Cardinality(queue) < MAX_QUEUE_DEPTH
      <4>1. IsFiniteSet(Pushing') /\ Cardinality(Pushing') <= Cardinality(Threads)
        BY ThreadsFinite, FS_Subset DEF Pushing
      <4>2. Cardinality(Pushing') \in Nat /\ Cardinality(queue) \in Nat
        BY <4>1, FS_CardinalityType DEF DepthInv
      <4>3. queue' = queue
        BY <1>3 DEF CheckDepth
      <4> QED
        BY <3>1, <4>1, <4>2, <4>3, ThreadsFinite, QueueAssumption DEF DepthInv
    <3>2. CASE Cardinality(queue) >= MAX_QUEUE_DEPTH
      <4>1. Cardinality(queue) \in Nat
        BY FS_CardinalityType DEF DepthInv
      <4>2. pc' = [pc EXCEPT ![t] = Refused(t)]
        BY <1>3, <3>2, <4>1, QueueAssumption DEF CheckDepth
      <4>3. queue' = queue /\ Pushing' \subseteq Pushing
        BY <1>3, <4>2 DEF CheckDepth, Refused, Pushing, TypeOK
      <4> QED
        BY <4>3, FewerIsFine
    <3> QED
      BY <1>3, <3>1, <3>2 DEF CheckDepth
  <2> QED
    BY <1>1, <1>3, <2>1, <2>2 DEF CheckDepth, Refused, SleepInv, NoLostPush, NoPhantomHeight, TypeOK
<1>4. CASE Verify(t)
  <2>1. TypeOK'
    BY <1>1, <1>4, QueueAssumption DEF Verify, Refused, TypeOK, InQueueBlock, Threads
  <2>2. DepthInv'
    BY <1>1, <1>4, FewerIsFine DEF Verify, Refused, Pushing, TypeOK
  <2> QED
    BY <1>1, <1>4, <2>1, <2>2 DEF Verify, Refused, SleepInv, NoLostPush, NoPhantomHeight, TypeOK
<1>5. CASE Push(t)
  <2> DEFINE e == [block |-> job[t], by |-> t]
  <2>1. job[t] \in Blocks /\ e \in Entry
    BY <1>5 DEF Push, TypeOK, InQueueBlock, Entry
  <2>2. TypeOK'
    BY <1>1, <1>5, <2>1 DEF Push, TypeOK, InQueueBlock
  <2>3. DepthInv'
    <3>1. queue' = queue \cup {e} /\ t \in Pushing /\ Pushing' = Pushing \ {t}
      BY <1>5 DEF Push, Pushing, TypeOK
    <3>2. IsFiniteSet(Pushing)
      BY ThreadsFinite, FS_Subset DEF Pushing
    <3>3. /\ IsFiniteSet(Pushing') /\ Cardinality(Pushing') = Cardinality(Pushing) - 1
          /\ Cardinality(Pushing) \in Nat
      BY <3>1, <3>2, FS_RemoveElement, FS_CardinalityType
    <3>4. IsFiniteSet(queue) /\ Cardinality(queue) \in Nat
      BY FS_CardinalityType DEF DepthInv
    <3>5. /\ IsFiniteSet(queue \cup {e})
          /\ \/ Cardinality(queue \cup {e}) = Cardinality(queue)
             \/ Cardinality(queue \cup {e}) = Cardinality(queue) + 1
      <4> HIDE DEF e
      <4> QED
        BY <3>4, FS_AddElement
    <3> QED
      BY <3>1, <3>3, <3>4, <3>5, ThreadsFinite, QueueAssumption DEF DepthInv
  <2>4. SleepInv'
    BY <1>1, <1>5, QueueAssumption DEF Push, QueueMutexFree, SleepInv, NoLostPush, TypeOK, Threads
  <2>5. NoPhantomHeight'
    <3>1. queue' = queue \cup {e} /\ queued_heights' = queued_heights \cup {HeightOf[job[t]]}
      BY <1>5 DEF Push
    <3>2. e.block = job[t]
      OBVIOUS
    <3> HIDE DEF e
    <3> QED
      BY <3>1, <3>2 DEF NoPhantomHeight
  <2> QED
    BY <2>2, <2>3, <2>4, <2>5
<1>6. CASE NotifyOne(t)
  <2>1. TypeOK'
    BY <1>1, <1>6, QueueAssumption DEF NotifyOne, Notified, Accepted, TypeOK, InQueueBlock, Threads
  <2>2. DepthInv'
    BY <1>1, <1>6, FewerIsFine DEF NotifyOne, Notified, Accepted, Pushing, TypeOK
  <2> QED
    BY <1>1, <1>6, <2>1, <2>2
    DEF NotifyOne, Notified, Accepted, SleepInv, NoLostPush, NoPhantomHeight, TypeOK
<1> QED
  BY <1>2, <1>3, <1>4, <1>5, <1>6 DEF QueueBlock

(* The worker's own steps that only move it on.                               *)
LEMMA WorkerMovesHolds ==
    ASSUME IInv,
           LoopTest \/ Park \/ Block \/ SpuriousWakeup \/ Relock \/ Quit
             \/ ProcessFails \/ ProcessSucceeds \/ ProcessEnds
    PROVE  IInv'
<1> USE DEF IInv, WorkerGoes
<1>1. Worker \in Threads /\ Worker \notin Clients
  BY QueueAssumption DEF Threads
<1>2. /\ pc' \in [Threads -> InQueueBlock \cup {"idle", "sync", "loop", "locked", "parking", "waiting",
                                               "woken", "process", "orphans", "done"}]
      /\ pc'[Worker] \in {"locked", "done", "parking", "waiting", "woken", "loop", "orphans"}
      /\ \A t \in Clients : pc'[t] = pc[t]
  <2>1. \E to \in {"locked", "done", "parking", "waiting", "woken", "loop", "orphans"} :
          pc' = [pc EXCEPT ![Worker] = to]
    BY DEF LoopTest, Park, Block, SpuriousWakeup, Relock, Quit, ProcessFails, ProcessSucceeds,
           ProcessEnds
  <2> QED
    BY <1>1, <2>1 DEF TypeOK, Threads
<1>3. /\ job' \in [Threads -> Blocks \cup {NoBlock}]
      /\ \A t \in Clients : job'[t] = job[t]
  <2>1. job' = job \/ job' = [job EXCEPT ![Worker] = NoBlock]
    BY DEF LoopTest, Park, Block, SpuriousWakeup, Relock, Quit, ProcessFails, ProcessSucceeds,
           ProcessEnds
  <2> QED
    BY <1>1, <2>1 DEF TypeOK, Threads
<1>4. UNCHANGED <<queue, queued_heights, indexed, orphans, m_running, stopper>>
  BY DEF LoopTest, Park, Block, SpuriousWakeup, Relock, Quit, ProcessFails, ProcessSucceeds,
         ProcessEnds
<1>5. connected' \subseteq Blocks /\ children' \subseteq Blocks
  BY DEF LoopTest, Park, Block, SpuriousWakeup, Relock, Quit, ProcessFails, ProcessSucceeds,
         ProcessEnds, Activate, TypeOK
<1>6. TypeOK'
  BY <1>1, <1>2, <1>3, <1>4, <1>5 DEF TypeOK, InQueueBlock, Threads
<1>7. DepthInv'
  <2>1. Pushing' \subseteq Pushing
    BY <1>1, <1>2 DEF Pushing, Threads
  <2> QED
    BY <1>4, <2>1, FewerIsFine
<1>8. /\ pc'[Worker] = "parking" => queue = {}
      /\ pc'[Worker] = "waiting" => queue = {}
  BY <1>1 DEF LoopTest, Park, Block, SpuriousWakeup, Relock, Quit, ProcessFails, ProcessSucceeds,
              ProcessEnds, TypeOK, SleepInv
<1> QED
  BY <1>4, <1>6, <1>7, <1>8 DEF SleepInv, NoLostPush, NoPhantomHeight

(* The worker takes an entry, or looks at an orphan.                          *)
LEMMA WorkerTakesHolds ==
    ASSUME IInv, (\E e \in queue : Pop(e)) \/ (\E c \in children : NextOrphan(c))
    PROVE  IInv'
<1> USE DEF IInv
<1>1. Worker \in Threads /\ Worker \notin Clients
  BY QueueAssumption DEF Threads
<1>2. CASE \E e \in queue : Pop(e)
  <2> PICK e \in queue : Pop(e)
    BY <1>2
  <2>1. e.block \in Blocks
    BY DEF TypeOK, Entry
  <2>2. TypeOK'
    BY <1>1, <2>1 DEF Pop, WorkerGoes, TypeOK, InQueueBlock
  <2>3. DepthInv'
    BY <1>1, FewerIsFine DEF Pop, WorkerGoes, Pushing, TypeOK
  <2>4. NoPhantomHeight'
    BY DEF Pop, NoPhantomHeight
  <2> QED
    BY <1>1, <2>2, <2>3, <2>4 DEF Pop, WorkerGoes, SleepInv, NoLostPush, TypeOK
<1>3. CASE \E c \in children : NextOrphan(c)
  <2> PICK c \in children : NextOrphan(c)
    BY <1>3
  <2>1. TypeOK'
    <3>1. c \in Blocks /\ children' \subseteq Blocks /\ orphans' \subseteq Blocks
      BY DEF NextOrphan, TypeOK
    <3>2. CASE pc' = pc /\ job' = job
      BY <3>1, <3>2 DEF NextOrphan, TypeOK
    <3>3. CASE /\ pc' = [pc EXCEPT ![Worker] = "index"]
               /\ job' = [job EXCEPT ![Worker] = c]
      BY <1>1, <3>1, <3>3 DEF NextOrphan, TypeOK, InQueueBlock
    <3> QED
      BY <3>2, <3>3 DEF NextOrphan
  <2>2. DepthInv'
    BY <1>1, FewerIsFine DEF NextOrphan, Pushing, TypeOK
  <2> QED
    BY <1>1, <2>1, <2>2 DEF NextOrphan, SleepInv, NoLostPush, NoPhantomHeight, TypeOK
<1> QED
  BY <1>2, <1>3

(* Stop and the orphan pool.                                                  *)
LEMMA OthersHold ==
    ASSUME IInv,
           \/ \E b \in Blocks : OrphanLeavesPool(b)
           \/ StopClears \/ StopNotifies \/ StopJoins
    PROVE  IInv'
<1> USE DEF IInv
<1>1. Worker \in Threads /\ Worker \notin Clients
  BY QueueAssumption DEF Threads
<1>2. CASE StopNotifies
  <2>1. TypeOK'
    BY <1>1, <1>2 DEF StopNotifies, Notified, TypeOK, InQueueBlock
  <2>2. DepthInv'
    BY <1>1, <1>2, FewerIsFine DEF StopNotifies, Notified, Pushing, TypeOK
  <2> QED
    BY <1>1, <1>2, <2>1, <2>2 DEF StopNotifies, Notified, SleepInv, NoLostPush, NoPhantomHeight, TypeOK
<1>3. CASE (\E b \in Blocks : OrphanLeavesPool(b)) \/ StopClears \/ StopJoins
  <2>1. TypeOK'
    BY <1>3 DEF OrphanLeavesPool, StopClears, StopJoins, TypeOK
  <2>2. UNCHANGED <<pc, queue, queued_heights>>
    BY <1>3 DEF OrphanLeavesPool, StopClears, StopJoins
  <2>3. DepthInv'
    BY <2>2, FewerIsFine DEF Pushing
  <2> QED
    BY <2>1, <2>2, <2>3 DEF SleepInv, NoLostPush, NoPhantomHeight
<1> QED
  BY <1>2, <1>3

LEMMA NextHolds == IInv /\ [Next]_vars => IInv'
<1> SUFFICES ASSUME IInv, [Next]_vars PROVE IInv'
  OBVIOUS
<1>1. CASE Next
  <2>1. Clients \subseteq Threads /\ Worker \in Threads
    BY DEF Threads
  <2> QED
    BY <1>1, <2>1, ClientStepHolds, QueueBlockHolds, WorkerMovesHolds, WorkerTakesHolds, OthersHold
    DEF Next, WorkerStep
<1>2. CASE UNCHANGED vars
  <2>1. UNCHANGED <<pc, queue>> /\ TypeOK'
    BY <1>2 DEF vars, IInv, TypeOK
  <2>2. DepthInv'
    BY <2>1, FewerIsFine DEF IInv, Pushing
  <2> QED
    BY <1>2, <2>1, <2>2 DEF vars, IInv, SleepInv, NoLostPush, NoPhantomHeight
<1> QED
  BY <1>1, <1>2

LEMMA InvHolds == Spec => []IInv
BY InitHolds, NextHolds, PTL DEF Spec

(* Every thread stays within its own code, a thread inside QueueBlock or about *)
(* to activate holds a block, and only blocks that were pushed are queued.     *)
THEOREM TypeCorrect == Spec => []TypeOK
<1>1. IInv => TypeOK
  BY DEF IInv
<1> QED
  BY <1>1, InvHolds, PTL

(* However many threads call QueueBlock (block_validation_queue.cpp:73), the  *)
(* queue is never longer than MAX_QUEUE_DEPTH plus one less than their number.*)
THEOREM DepthHolds == Spec => []DepthBounded
<1>1. IInv => DepthBounded
  <2> SUFFICES ASSUME IInv PROVE DepthBounded
    OBVIOUS
  <2>1. IsFiniteSet(Pushing)
    BY ThreadsFinite, FS_Subset DEF Pushing
  <2>2. Cardinality(Pushing) \in Nat /\ Cardinality(queue) \in Nat
    BY <2>1, FS_CardinalityType DEF IInv, DepthInv
  <2> QED
    BY <2>2, ThreadsFinite, QueueAssumption DEF IInv, DepthInv, DepthBounded
<1> QED
  BY <1>1, InvHolds, PTL

(* A push (block_validation_queue.cpp:167) never meets a worker that stays    *)
(* asleep.                                                                    *)
THEOREM PushIsNoticed == Spec => []NoLostPush
<1>1. IInv => NoLostPush
  BY DEF IInv, SleepInv
<1> QED
  BY <1>1, InvHolds, PTL

(* IsHeightQueued (block_validation_queue.cpp:232) names only heights that    *)
(* are in the queue.                                                          *)
THEOREM HeightsAreReal == Spec => []NoPhantomHeight
<1>1. IInv => NoPhantomHeight
  BY DEF IInv
<1> QED
  BY <1>1, InvHolds, PTL
=============================================================================
