--------------------------- MODULE MempoolProofs ---------------------------
(* The memory pool's indexes agree, and it stays within its limits, in every  *)
(* reachable state, for any transactions, limits, blocks, interleaving and    *)
(* number of restarts.  The first needs the shape of the pool, and that       *)
(* whatever the threads still hold (accepted, to be returned, to be loaded)   *)
(* are transactions; the second adds up sizes as sizes of sets.               *)
EXTENDS MempoolChain, FiniteSetTheorems, TLAPS

Shape(p) ==
    /\ p.tx \in SUBSET Txs
    /\ p.descendants \in [Txs -> SUBSET Txs]

GoodPool(p) == Shape(p) /\ IndexesAgree(p)

Held ==
    /\ chain \in Seq(Seq(Txs) \ {<<>>})
    /\ task.op \in {"idle", "clean", "return"}
    /\ task.op = "return" => task.txs \in Seq(Txs) \ {<<>>}
    /\ checked \subseteq Txs
    /\ file.tx \subseteq Txs
    /\ loading \subseteq Txs

IInv == GoodPool(mempool) /\ Held

LEMMA EmptyPoolGood == GoodPool(EmptyPool)
<1>1. Shape(EmptyPool)
  BY DEF Shape, EmptyPool
<1>2. EmptyPool.spent = InputsOf(EmptyPool.tx)
  BY DEF EmptyPool, InputsOf
<1>3. EmptyPool.count = Cardinality(EmptyPool.tx)
  BY FS_EmptySet DEF EmptyPool
<1> QED BY <1>1, <1>2, <1>3 DEF GoodPool, IndexesAgree, EmptyPool

(* Taking entries out, by eviction, expiry or confirmation.                   *)
LEMMA RemoveTxsGood ==
  ASSUME NEW p, GoodPool(p), NEW S, S \subseteq p.tx
  PROVE  GoodPool(RemoveTxs(p, S))
<1> DEFINE r == RemoveTxs(p, S)
<1>1. /\ r.tx = p.tx \ S
      /\ r.spent = p.spent \ InputsOf(S)
      /\ r.descendants = UpdateDescendantsRemove(p, S)
      /\ r.count = IF p.count < Cardinality(S) THEN 0 ELSE p.count - Cardinality(S)
  BY DEF RemoveTxs
<1>2. Shape(r)
  BY <1>1 DEF GoodPool, Shape, UpdateDescendantsRemove
<1>3. r.spent = InputsOf(r.tx)
  BY <1>1 DEF GoodPool, IndexesAgree, InputsOf
<1>4. \A t, u \in r.tx : t # u => Inputs[t] \cap Inputs[u] = {}
  BY <1>1 DEF GoodPool, IndexesAgree
<1>5. ASSUME NEW q \in Txs, NEW c \in r.descendants[q]
      PROVE  q \in r.tx /\ c \in r.tx /\ q \in Parents(c)
  <2>1. q \notin S /\ c \in p.descendants[q] /\ ~(c \in S /\ q \in Parents(c))
    BY <1>1 DEF UpdateDescendantsRemove
  <2>2. q \in p.tx /\ c \in p.tx /\ q \in Parents(c)
    BY <2>1 DEF GoodPool, IndexesAgree
  <2> QED BY <1>1, <2>1, <2>2
<1>6. r.count = Cardinality(r.tx)
  <2>1. IsFiniteSet(p.tx) /\ IsFiniteSet(S)
    BY FS_Subset, MempoolAssumption DEF GoodPool, Shape
  <2>2. Cardinality(p.tx \ S) = Cardinality(p.tx) - Cardinality(S)
    <3>1. p.tx \cap S = S
      OBVIOUS
    <3> QED BY <3>1, <2>1, FS_Difference
  <2>3. Cardinality(S) \in Nat /\ Cardinality(p.tx) \in Nat /\ Cardinality(S) <= Cardinality(p.tx)
    BY <2>1, FS_CardinalityType, FS_Subset
  <2> QED BY <1>1, <2>2, <2>3 DEF GoodPool, IndexesAgree
<1> QED BY <1>2, <1>3, <1>4, <1>5, <1>6 DEF GoodPool, IndexesAgree

(* Putting in a transaction that is not there and conflicts with nothing.     *)
LEMMA InsertGood ==
  ASSUME NEW p, GoodPool(p), NEW t \in Txs, NEW rate,
         t \notin p.tx, Inputs[t] \cap p.spent = {}
  PROVE  GoodPool(Insert(p, t, rate))
<1> DEFINE r == Insert(p, t, rate)
<1>1. /\ r.tx = p.tx \cup {t}
      /\ r.spent = p.spent \cup Inputs[t]
      /\ r.descendants = UpdateDescendantsAdd(p, t)
      /\ r.count = p.count + 1
  BY DEF Insert
<1>2. Shape(r)
  BY <1>1 DEF GoodPool, Shape, UpdateDescendantsAdd
<1>3. r.spent = InputsOf(r.tx)
  BY <1>1 DEF GoodPool, IndexesAgree, InputsOf
<1>4. \A a, b \in r.tx : a # b => Inputs[a] \cap Inputs[b] = {}
  BY <1>1 DEF GoodPool, IndexesAgree, InputsOf
<1>5. ASSUME NEW q \in Txs, NEW c \in r.descendants[q]
      PROVE  q \in r.tx /\ c \in r.tx /\ q \in Parents(c)
  <2>1. c \in p.descendants[q] \/ (c = t /\ q \in p.tx \cap Parents(t))
    BY <1>1 DEF UpdateDescendantsAdd
  <2> QED BY <1>1, <2>1 DEF GoodPool, IndexesAgree
<1>6. r.count = Cardinality(r.tx)
  <2>1. IsFiniteSet(p.tx)
    BY FS_Subset, MempoolAssumption DEF GoodPool, Shape
  <2> QED BY <1>1, <2>1, FS_AddElement DEF GoodPool, IndexesAgree
<1> QED BY <1>2, <1>3, <1>4, <1>5, <1>6 DEF GoodPool, IndexesAgree

(* Whatever the two evictions pick are entries.                               *)
LEMMA EvictionsAreEntries ==
  ASSUME NEW p, NEW t
  PROVE  /\ \A S \in CountEvictions(p) : S \subseteq p.tx
         /\ \A S \in SizeEvictions(p, t) : S \subseteq p.tx
BY DEF CountEvictions, SizeEvictions, EvictTransactions

(* AddTx, on each of its ways out.                                            *)
LEMMA AddTxGood ==
  ASSUME NEW p, GoodPool(p), NEW t \in Txs, NEW rate, NEW bypass,
         NEW r \in AddTx(p, t, rate, bypass)
  PROVE  GoodPool(r)
<1>1. CASE r = p
  BY <1>1
<1>2. CASE r # p
  <2>1. Validates(p, t, bypass)
    BY <1>2 DEF AddTx
  <2>2. PICK S \in CountEvictions(p) :
          r \in LET p1 == RemoveTxs(p, S)
                    sizes == SizeEvictions(p1, t)
                IN  IF sizes = {} THEN {p1}
                    ELSE {Insert(RemoveTxs(p1, E), t, rate) : E \in sizes}
    BY <1>2 DEF AddTx
  <2> DEFINE p1 == RemoveTxs(p, S)
  <2>3. GoodPool(p1)
    BY <2>2, EvictionsAreEntries, RemoveTxsGood
  <2>4. t \notin p1.tx /\ Inputs[t] \cap p1.spent = {}
    BY <2>1 DEF Validates, RemoveTxs
  <2>5. CASE r = p1
    BY <2>3, <2>5
  <2>6. CASE r # p1
    <3>1. PICK E \in SizeEvictions(p1, t) : r = Insert(RemoveTxs(p1, E), t, rate)
      BY <2>2, <2>6
    <3> DEFINE p2 == RemoveTxs(p1, E)
    <3>2. GoodPool(p2)
      BY <2>3, EvictionsAreEntries, RemoveTxsGood
    <3>3. t \notin p2.tx /\ Inputs[t] \cap p2.spent = {}
      BY <2>4 DEF RemoveTxs
    <3> HIDE DEF p2
    <3> QED BY <3>1, <3>2, <3>3, InsertGood DEF p2
  <2> QED BY <2>5, <2>6
<1> QED BY <1>1, <1>2

LEMMA RemovalsGood ==
  ASSUME NEW p, GoodPool(p), NEW S
  PROVE  /\ GoodPool(RemoveConfirmedTxs(p, S))
         /\ GoodPool(CleanupExpiredTransactions(p, S))
<1>1. S \cap p.tx \subseteq p.tx
  OBVIOUS
<1>2. {t \in S \cap p.tx : ~HasDescendants(p, t)} \subseteq p.tx
  OBVIOUS
<1> QED BY <1>1, <1>2, RemoveTxsGood DEF RemoveConfirmedTxs, CleanupExpiredTransactions

(* A step of any thread.                                                      *)
LEMMA StepGood ==
  ASSUME IInv, [Next]_vars
  PROVE  IInv'
<1>0. GoodPool(mempool) /\ Held
  BY DEF IInv
<1>1. ASSUME NEW t \in Txs, CheckTransaction(t) PROVE IInv'
  BY <1>0, <1>1 DEF CheckTransaction, IInv, Held, GoodPool, Shape, IndexesAgree
<1>2. ASSUME NEW t \in Txs, AcceptTx(t) PROVE IInv'
  <2>1. GoodPool(mempool')
    BY <1>0, <1>2, AddTxGood DEF AcceptTx, SetPool
  <2>2. Held'
    BY <1>0, <1>2 DEF AcceptTx, Held
  <2> QED BY <2>1, <2>2 DEF IInv, GoodPool, Shape, IndexesAgree
<1>3. ASSUME NEW b \in Blocks, ConnectTip(b) PROVE IInv'
  <2>1. b \in Seq(Txs) \ {<<>>}
    BY BlocksAssumption
  <2>2. Held'
    BY <1>0, <1>3, <2>1 DEF ConnectTip, Held
  <2>3. mempool' = mempool
    BY <1>3 DEF ConnectTip
  <2> QED BY <1>0, <2>2, <2>3 DEF IInv, GoodPool, Shape, IndexesAgree
<1>4. CASE CleanPool
  <2>1. GoodPool(mempool')
    BY <1>0, <1>4, RemovalsGood DEF CleanPool, SetPool
  <2>2. Held'
    BY <1>0, <1>4 DEF CleanPool, Held, Idle
  <2> QED BY <2>1, <2>2 DEF IInv, GoodPool, Shape, IndexesAgree
<1>5. CASE DisconnectTip
  <2>1. Last(chain) \in Seq(Txs) \ {<<>>} /\ Front(chain) \in Seq(Seq(Txs) \ {<<>>})
    BY <1>0, <1>5 DEF DisconnectTip, Held, Last, Front
  <2>2. Held'
    BY <1>0, <1>5, <2>1 DEF DisconnectTip, Held
  <2>3. mempool' = mempool
    BY <1>5 DEF DisconnectTip
  <2> QED BY <1>0, <2>2, <2>3 DEF IInv, GoodPool, Shape, IndexesAgree
<1>6. CASE ReturnTx
  <2>1. task.txs \in Seq(Txs) /\ task.txs # <<>>
    BY <1>0, <1>6 DEF ReturnTx, Held
  <2>2. Head(task.txs) \in Txs
    BY <2>1
  <2>3. GoodPool(mempool')
    BY <1>0, <1>6, <2>2, AddTxGood DEF ReturnTx, SetPool
  <2>4. Held'
    <3>1. CASE Len(task.txs) = 1
      BY <1>0, <1>6, <3>1 DEF ReturnTx, Held, Idle
    <3>2. CASE Len(task.txs) # 1
      <4>1. Tail(task.txs) \in Seq(Txs) \ {<<>>}
        <5>1. Len(task.txs) \in Nat /\ Len(task.txs) # 0
          BY <2>1
        <5>2. Tail(task.txs) \in Seq(Txs) /\ Len(Tail(task.txs)) = Len(task.txs) - 1
          BY <2>1
        <5>3. Len(Tail(task.txs)) # 0
          BY <5>1, <5>2, <3>2
        <5>4. Tail(task.txs) # <<>>
          <6> SUFFICES ASSUME Tail(task.txs) = <<>> PROVE FALSE
            OBVIOUS
          <6>1. Len(<<>>) = 0
            OBVIOUS
          <6> QED BY <5>3, <6>1
        <5> QED BY <5>2, <5>4
      <4>2. task'.op \in {"idle", "clean", "return"} /\ (task'.op = "return" => task'.txs = Tail(task.txs))
        BY <1>0, <1>6, <3>2 DEF ReturnTx, Held
      <4> QED BY <1>0, <1>6, <4>1, <4>2 DEF ReturnTx, Held
    <3> QED BY <3>1, <3>2
  <2> QED BY <2>3, <2>4 DEF IInv, GoodPool, Shape, IndexesAgree
<1>7. CASE TimePasses
  BY <1>0, <1>7 DEF TimePasses, IInv, Held, GoodPool, Shape, IndexesAgree
<1>8. CASE ExpirationThread
  <2>1. GoodPool(mempool')
    BY <1>0, <1>8, RemovalsGood DEF ExpirationThread, SetPool
  <2>2. Held'
    BY <1>0, <1>8 DEF ExpirationThread, Held
  <2> QED BY <2>1, <2>2 DEF IInv, GoodPool, Shape, IndexesAgree
<1>9. CASE Clear
  <2>1. GoodPool(mempool')
    BY <1>9, EmptyPoolGood DEF Clear, SetPool
  <2>2. Held'
    BY <1>0, <1>9 DEF Clear, Held
  <2> QED BY <2>1, <2>2 DEF IInv, GoodPool, Shape, IndexesAgree
<1>10. CASE DumpMempool
  <2>1. mempool.tx \subseteq Txs
    BY <1>0 DEF GoodPool, Shape
  <2>2. Held'
    BY <1>0, <1>10, <2>1 DEF DumpMempool, Held
  <2>3. mempool' = mempool
    BY <1>10 DEF DumpMempool
  <2> QED BY <1>0, <2>2, <2>3 DEF IInv, GoodPool, Shape, IndexesAgree
<1>11. CASE Restart
  <2>1. GoodPool(mempool')
    BY <1>11, EmptyPoolGood DEF Restart
  <2>2. Held'
    BY <1>0, <1>11 DEF Restart, Held, Idle
  <2> QED BY <2>1, <2>2 DEF IInv, GoodPool, Shape, IndexesAgree
<1>12. CASE LoadTx
  <2>1. PICK t \in loading : /\ mempool' \in AddTx(mempool, t, file.rate[t], TRUE)
                             /\ loading' = loading \ {t}
                             /\ UNCHANGED <<chain, task, checked, file>>
    BY <1>12 DEF LoadTx
  <2>2. GoodPool(mempool')
    BY <1>0, <2>1, AddTxGood DEF Held
  <2>3. Held'
    BY <1>0, <2>1 DEF Held
  <2> QED BY <2>2, <2>3 DEF IInv, GoodPool, Shape, IndexesAgree
<1>13. CASE UNCHANGED vars
  BY <1>0, <1>13 DEF vars, IInv, Held, GoodPool, Shape, IndexesAgree
<1> QED BY <1>1, <1>2, <1>3, <1>4, <1>5, <1>6, <1>7, <1>8, <1>9, <1>10, <1>11, <1>12, <1>13
       DEF Next

(* The pool's indexes agree in every state any interleaving of the acceptors, *)
(* the chain thread, the expiry thread and restarts leads to.                 *)
THEOREM PoolAgreesHolds == Spec => []PoolAgrees
<1>1. Init => IInv
  BY EmptyPoolGood DEF Init, IInv, Held, Idle
<1>2. IInv /\ [Next]_vars => IInv'
  BY StepGood
<1>3. IInv => PoolAgrees
  BY DEF IInv, GoodPool, PoolAgrees
<1> QED BY <1>1, <1>2, <1>3, PTL DEF Spec

-----------------------------------------------------------------------------
(* The limits.  TotalSize adds up over disjoint sets of entries.              *)
LEMMA BytesFinite ==
  ASSUME NEW S \in SUBSET Txs
  PROVE  IsFiniteSet(Bytes(S))
<1> DEFINE f == [t \in S |-> {t} \X (1..Size[t])]
           T == {{t} \X (1..Size[t]) : t \in S}
<1>1. f \in Surjection(S, T)
  BY DEF Surjection
<1>2. IsFiniteSet(T)
  BY <1>1, FS_Subset, FS_Surjection, MempoolAssumption
<1>3. ASSUME NEW t \in S
      PROVE  IsFiniteSet({t} \X (1..Size[t]))
  <2>1. Size[t] \in Int /\ 1 \in Int
    BY MempoolAssumption
  <2>2. IsFiniteSet({t}) /\ IsFiniteSet(1..Size[t])
    BY <2>1, FS_Singleton, FS_Interval
  <2> QED BY <2>2, FS_Product
<1>4. \A B \in T : IsFiniteSet(B)
  BY <1>3
<1> HIDE DEF T
<1>5. IsFiniteSet(UNION T)
  BY <1>2, <1>4, FS_UNION
<1> QED BY <1>5 DEF T, Bytes

LEMMA TotalSizeOfRest ==
  ASSUME NEW R \in SUBSET Txs, NEW S \in SUBSET R
  PROVE  /\ TotalSize(R) \in Nat /\ TotalSize(S) \in Nat
         /\ TotalSize(S) <= TotalSize(R)
         /\ TotalSize(R \ S) = TotalSize(R) - TotalSize(S)
<1>1. IsFiniteSet(Bytes(R)) /\ IsFiniteSet(Bytes(S))
  BY BytesFinite
<1>2. Bytes(S) \subseteq Bytes(R)
  BY DEF Bytes
<1>3. Bytes(R \ S) = Bytes(R) \ Bytes(S)
  BY DEF Bytes
<1>4. Bytes(R) \cap Bytes(S) = Bytes(S)
  BY <1>2
<1>5. Cardinality(Bytes(R) \ Bytes(S)) = Cardinality(Bytes(R)) - Cardinality(Bytes(S))
  BY <1>1, <1>4, FS_Difference
<1>6. Cardinality(Bytes(R)) \in Nat /\ Cardinality(Bytes(S)) \in Nat
  BY <1>1, FS_CardinalityType
<1>7. Cardinality(Bytes(S)) <= Cardinality(Bytes(R))
  BY <1>1, <1>2, FS_Subset
<1> QED BY <1>3, <1>5, <1>6, <1>7 DEF TotalSize

LEMMA TotalSizeOfOneMore ==
  ASSUME NEW S \in SUBSET Txs, NEW t \in Txs, t \notin S
  PROVE  TotalSize(S \cup {t}) = TotalSize(S) + Size[t]
<1> DEFINE own == {t} \X (1..Size[t])
<1>1. Size[t] \in Nat \ {0}
  BY MempoolAssumption
<1>2. IsFiniteSet(own) /\ Cardinality(own) = Size[t]
  <2>1. IsFiniteSet({t}) /\ Cardinality({t}) = 1
    BY FS_Singleton
  <2>2. IsFiniteSet(1..Size[t]) /\ Cardinality(1..Size[t]) = Size[t]
    BY <1>1, FS_Interval
  <2>3. IsFiniteSet({t} \X (1..Size[t]))
        /\ Cardinality({t} \X (1..Size[t])) = Cardinality({t}) * Cardinality(1..Size[t])
    BY <2>1, <2>2, FS_Product
  <2> QED BY <1>1, <2>1, <2>2, <2>3
<1>3. Bytes(S \cup {t}) = Bytes(S) \cup own
  BY DEF Bytes
<1>4. Bytes(S) \cap own = {}
  BY DEF Bytes
<1>5. IsFiniteSet(Bytes(S)) /\ Cardinality(Bytes(S)) \in Nat
  BY BytesFinite, FS_CardinalityType
<1> HIDE DEF own
<1>6. Cardinality(Bytes(S) \cup own) = Cardinality(Bytes(S)) + Cardinality(own)
                                         - Cardinality(Bytes(S) \cap own)
  BY <1>2, <1>5, FS_Union
<1>7. Cardinality(Bytes(S) \cap own) = 0
  BY <1>4, FS_EmptySet
<1>8. Cardinality(Bytes(S) \cup own) = Cardinality(Bytes(S)) + Size[t]
  BY <1>1, <1>2, <1>5, <1>6, <1>7
<1> QED BY <1>3, <1>8 DEF TotalSize

LEMMA EmptyPoolFits == WithinLimits(EmptyPool)
<1>1. Bytes({}) = {}
  BY DEF Bytes
<1>2. EmptyPool.tx = {} /\ EmptyPool.size = 0
  BY DEF EmptyPool
<1> QED BY <1>1, <1>2, FS_EmptySet, MempoolAssumption DEF WithinLimits, TotalSize

LEMMA RemoveTxsFits ==
  ASSUME NEW p, GoodPool(p), WithinLimits(p), NEW S \in SUBSET p.tx
  PROVE  /\ WithinLimits(RemoveTxs(p, S))
         /\ RemoveTxs(p, S).size = p.size - TotalSize(S)
         /\ Cardinality(RemoveTxs(p, S).tx) = Cardinality(p.tx) - Cardinality(S)
<1> DEFINE r == RemoveTxs(p, S)
<1>1. /\ r.tx = p.tx \ S
      /\ r.size = IF p.size < TotalSize(S) THEN 0 ELSE p.size - TotalSize(S)
  BY DEF RemoveTxs
<1>2. p.tx \in SUBSET Txs /\ p.size = TotalSize(p.tx)
  BY DEF GoodPool, Shape, WithinLimits
<1>3. /\ TotalSize(p.tx) \in Nat /\ TotalSize(S) \in Nat
      /\ TotalSize(S) <= TotalSize(p.tx)
      /\ TotalSize(p.tx \ S) = TotalSize(p.tx) - TotalSize(S)
  BY <1>2, TotalSizeOfRest
<1>4. r.size = p.size - TotalSize(S) /\ r.size = TotalSize(r.tx)
  BY <1>1, <1>2, <1>3
<1>5. IsFiniteSet(p.tx) /\ IsFiniteSet(S) /\ p.tx \cap S = S
  BY <1>2, FS_Subset, MempoolAssumption
<1>6. Cardinality(r.tx) = Cardinality(p.tx) - Cardinality(S)
  BY <1>1, <1>5, FS_Difference
<1>7. Cardinality(p.tx) \in Nat /\ Cardinality(S) \in Nat
  BY <1>5, FS_CardinalityType
<1>8. r.size <= MAX_MEMPOOL_SIZE /\ Cardinality(r.tx) <= MAX_MEMPOOL_COUNT
  BY <1>2, <1>3, <1>4, <1>6, <1>7, MempoolAssumption DEF WithinLimits
<1> QED BY <1>4, <1>6, <1>8 DEF WithinLimits

(* Whatever is evicted for the count leaves a place ... *)
LEMMA CountMakesRoom ==
  ASSUME NEW p, GoodPool(p), WithinLimits(p), NEW S \in CountEvictions(p)
  PROVE  Cardinality(RemoveTxs(p, S).tx) < MAX_MEMPOOL_COUNT
<1>1. S \in SUBSET p.tx
  BY EvictionsAreEntries
<1>2. p.count = Cardinality(p.tx) /\ p.tx \in SUBSET Txs
      /\ Cardinality(p.tx) <= MAX_MEMPOOL_COUNT
  BY DEF GoodPool, Shape, IndexesAgree, WithinLimits
<1>3. Cardinality(RemoveTxs(p, S).tx) = Cardinality(p.tx) - Cardinality(S)
  BY <1>1, RemoveTxsFits
<1>4. IsFiniteSet(S) /\ Cardinality(p.tx) \in Nat /\ Cardinality(S) \in Nat
  BY <1>1, <1>2, FS_Subset, FS_CardinalityType, MempoolAssumption
<1>5. CASE p.count < MAX_MEMPOOL_COUNT
  BY <1>2, <1>3, <1>4, <1>5, MempoolAssumption
<1>6. CASE ~(p.count < MAX_MEMPOOL_COUNT)
  <2>1. TotalSize(S) >= 1
    BY <1>6 DEF CountEvictions, EvictTransactions
  <2>2. S # {}
    <3>1. Bytes({}) = {}
      BY DEF Bytes
    <3> QED BY <2>1, <3>1, FS_EmptySet DEF TotalSize
  <2>3. Cardinality(S) # 0
    BY <1>4, <2>2, FS_EmptySet
  <2> QED BY <1>2, <1>3, <1>4, <2>3, MempoolAssumption
<1> QED BY <1>5, <1>6

(* ... and what is evicted for the size leaves the bytes. *)
LEMMA SizeMakesRoom ==
  ASSUME NEW p, GoodPool(p), WithinLimits(p), NEW t \in Txs, NEW E \in SizeEvictions(p, t)
  PROVE  RemoveTxs(p, E).size + Size[t] <= MAX_MEMPOOL_SIZE
<1>1. E \in SUBSET p.tx
  BY EvictionsAreEntries
<1>2. p.tx \in SUBSET Txs /\ p.size = TotalSize(p.tx)
  BY DEF GoodPool, Shape, WithinLimits
<1>3. p.size \in Nat /\ TotalSize(E) \in Nat /\ Size[t] \in Nat /\ MAX_MEMPOOL_SIZE \in Nat
  BY <1>1, <1>2, TotalSizeOfRest, MempoolAssumption
<1>4. RemoveTxs(p, E).size = p.size - TotalSize(E)
  BY <1>1, RemoveTxsFits
<1>5. p.size + Size[t] <= MAX_MEMPOOL_SIZE \/ TotalSize(E) >= p.size + Size[t] - MAX_MEMPOOL_SIZE
  BY DEF SizeEvictions, EvictTransactions
<1> QED BY <1>3, <1>4, <1>5

LEMMA InsertFits ==
  ASSUME NEW p, GoodPool(p), WithinLimits(p), NEW t \in Txs, NEW rate, t \notin p.tx,
         p.size + Size[t] <= MAX_MEMPOOL_SIZE, Cardinality(p.tx) < MAX_MEMPOOL_COUNT
  PROVE  WithinLimits(Insert(p, t, rate))
<1>1. Insert(p, t, rate).tx = p.tx \cup {t} /\ Insert(p, t, rate).size = p.size + Size[t]
  BY DEF Insert
<1>2. p.tx \in SUBSET Txs /\ p.size = TotalSize(p.tx)
  BY DEF GoodPool, Shape, WithinLimits
<1>3. TotalSize(p.tx \cup {t}) = TotalSize(p.tx) + Size[t]
  BY <1>2, TotalSizeOfOneMore
<1>4. IsFiniteSet(p.tx)
  BY <1>2, FS_Subset, MempoolAssumption
<1>5. Cardinality(p.tx \cup {t}) = Cardinality(p.tx) + 1 /\ Cardinality(p.tx) \in Nat
  BY <1>4, FS_AddElement, FS_CardinalityType
<1> QED BY <1>1, <1>2, <1>3, <1>5, MempoolAssumption DEF WithinLimits

LEMMA AddTxFits ==
  ASSUME NEW p, GoodPool(p), WithinLimits(p), NEW t \in Txs, NEW rate, NEW bypass,
         NEW r \in AddTx(p, t, rate, bypass)
  PROVE  WithinLimits(r)
<1>1. CASE r = p
  BY <1>1
<1>2. CASE r # p
  <2>1. t \notin p.tx
    BY <1>2 DEF AddTx, Validates
  <2>2. PICK S \in CountEvictions(p) :
          r \in LET p1 == RemoveTxs(p, S)
                    sizes == SizeEvictions(p1, t)
                IN  IF sizes = {} THEN {p1}
                    ELSE {Insert(RemoveTxs(p1, E), t, rate) : E \in sizes}
    BY <1>2 DEF AddTx
  <2> DEFINE p1 == RemoveTxs(p, S)
  <2>3. GoodPool(p1) /\ WithinLimits(p1) /\ Cardinality(p1.tx) < MAX_MEMPOOL_COUNT
    BY <2>2, EvictionsAreEntries, RemoveTxsGood, RemoveTxsFits, CountMakesRoom
  <2>4. t \notin p1.tx
    BY <2>1 DEF RemoveTxs
  <2>5. CASE r = p1
    BY <2>3, <2>5
  <2>6. CASE r # p1
    <3>1. PICK E \in SizeEvictions(p1, t) : r = Insert(RemoveTxs(p1, E), t, rate)
      BY <2>2, <2>6
    <3> HIDE DEF p1
    <3>2. E \in SUBSET p1.tx
      BY EvictionsAreEntries
    <3> DEFINE p2 == RemoveTxs(p1, E)
    <3>3. GoodPool(p2) /\ WithinLimits(p2) /\ p2.size + Size[t] <= MAX_MEMPOOL_SIZE
      BY <2>3, <3>2, RemoveTxsGood, RemoveTxsFits, SizeMakesRoom
    <3>4. t \notin p2.tx
      BY <2>4 DEF RemoveTxs
    <3>5. Cardinality(p2.tx) < MAX_MEMPOOL_COUNT
      <4>1. Cardinality(p2.tx) = Cardinality(p1.tx) - Cardinality(E)
        BY <2>3, <3>2, RemoveTxsFits
      <4>2. p1.tx \in SUBSET Txs
        BY <2>3 DEF GoodPool, Shape
      <4>3. IsFiniteSet(p1.tx) /\ IsFiniteSet(E)
        BY <3>2, <4>2, FS_Subset, MempoolAssumption
      <4>4. Cardinality(p1.tx) \in Nat /\ Cardinality(E) \in Nat
        BY <4>3, FS_CardinalityType
      <4>5. Cardinality(p1.tx) < MAX_MEMPOOL_COUNT /\ MAX_MEMPOOL_COUNT \in Nat
        BY <2>3, MempoolAssumption, Zenon
      <4> HIDE DEF p2
      <4> QED BY <4>1, <4>4, <4>5
    <3> HIDE DEF p2
    <3> QED BY <3>1, <3>3, <3>4, <3>5, InsertFits DEF p2
  <2> QED BY <2>5, <2>6
<1> QED BY <1>1, <1>2

LEMMA RemovalsFit ==
  ASSUME NEW p, GoodPool(p), WithinLimits(p), NEW S
  PROVE  /\ WithinLimits(RemoveConfirmedTxs(p, S))
         /\ WithinLimits(CleanupExpiredTransactions(p, S))
<1>1. S \cap p.tx \in SUBSET p.tx
  OBVIOUS
<1>2. {t \in S \cap p.tx : ~HasDescendants(p, t)} \in SUBSET p.tx
  OBVIOUS
<1> QED BY <1>1, <1>2, RemoveTxsFits DEF RemoveConfirmedTxs, CleanupExpiredTransactions

LEMMA StepFits ==
  ASSUME IInv, WithinLimits(mempool), [Next]_vars
  PROVE  WithinLimits(mempool')
<1>0. GoodPool(mempool) /\ Held
  BY DEF IInv
<1>1. ASSUME NEW t \in Txs, AcceptTx(t) PROVE WithinLimits(mempool')
  BY <1>0, <1>1, AddTxFits DEF AcceptTx, SetPool
<1>2. CASE CleanPool
  BY <1>0, <1>2, RemovalsFit DEF CleanPool, SetPool
<1>3. CASE ReturnTx
  <2>1. task.txs \in Seq(Txs) /\ task.txs # <<>>
    BY <1>0, <1>3 DEF ReturnTx, Held
  <2>2. Head(task.txs) \in Txs
    BY <2>1
  <2> QED BY <1>0, <1>3, <2>2, AddTxFits DEF ReturnTx, SetPool
<1>4. CASE ExpirationThread
  BY <1>0, <1>4, RemovalsFit DEF ExpirationThread, SetPool
<1>5. CASE Clear \/ Restart
  BY <1>5, EmptyPoolFits DEF Clear, Restart, SetPool
<1>6. CASE LoadTx
  <2>1. PICK t \in loading : mempool' \in AddTx(mempool, t, file.rate[t], TRUE)
    BY <1>6 DEF LoadTx
  <2> QED BY <1>0, <2>1, AddTxFits DEF Held
<1>7. CASE mempool' = mempool
  BY <1>7
<1>8. \A t \in Txs : CheckTransaction(t) => mempool' = mempool
  BY DEF CheckTransaction
<1>9. \A b \in Blocks : ConnectTip(b) => mempool' = mempool
  BY DEF ConnectTip
<1>10. DisconnectTip \/ TimePasses \/ DumpMempool \/ UNCHANGED vars => mempool' = mempool
  BY DEF DisconnectTip, TimePasses, DumpMempool, vars
<1> QED BY <1>1, <1>2, <1>3, <1>4, <1>5, <1>6, <1>7, <1>8, <1>9, <1>10 DEF Next

(* MEMPOOL-001 and MEMPOOL-002 for every pair of limits: the running total is *)
(* the sum of the sizes and neither limit is ever passed, whoever calls AddTx *)
(* and whatever it had to evict.                                              *)
THEOREM PoolWithinLimitsHolds == Spec => []PoolWithinLimits
<1>1. Init => IInv /\ WithinLimits(mempool)
  BY EmptyPoolGood, EmptyPoolFits DEF Init, IInv, Held, Idle
<1>2. IInv /\ WithinLimits(mempool) /\ [Next]_vars => IInv' /\ WithinLimits(mempool)'
  <2>1. WithinLimits(mempool') => WithinLimits(mempool)'
    BY DEF WithinLimits
  <2> QED BY <2>1, StepGood, StepFits
<1>3. WithinLimits(mempool) => PoolWithinLimits
  BY DEF PoolWithinLimits
<1> QED BY <1>1, <1>2, <1>3, PTL DEF Spec

=============================================================================
