------------------------------ MODULE Mempool ------------------------------
(* CTxMemPool (node/mempool.cpp): the unconfirmed transactions, with three    *)
(* indexes (spent outpoints, children of each entry, entries by fee rate) and *)
(* two running totals.  Every method runs under the pool's mutex, so each is  *)
(* one step; they are operators from a pool to a pool, or to the set of pools *)
(* it may become where the order among equal fee rates (arrival time, then    *)
(* hash) is abstracted.  mapTx and setEntries always hold the same entries    *)
(* and are one field.                                                         *)
EXTENDS Integers, FiniteSets

CONSTANTS
    Txs,                 \* transaction ids
    Outpoints,
    Inputs,              \* the outpoints each transaction spends
    Creator,             \* the transaction that creates an outpoint, or NoTx
    NoTx,
    Size,
    PaysFee,             \* the transactions whose fee passes CheckFee
    MAX_MEMPOOL_COUNT, MAX_MEMPOOL_SIZE

ASSUME MempoolAssumption ==
    /\ Inputs \in [Txs -> SUBSET Outpoints]
    /\ Creator \in [Outpoints -> Txs \cup {NoTx}]
    /\ NoTx \notin Txs
    /\ \A t \in Txs : \A o \in Inputs[t] : Creator[o] # t
    /\ Size \in [Txs -> Nat \ {0}]
    /\ IsFiniteSet(Txs)
    /\ MAX_MEMPOOL_COUNT \in Nat \ {0}
    /\ MAX_MEMPOOL_SIZE \in Nat

EmptyPool ==
    [tx |-> {}, rate |-> [t \in Txs |-> 0], spent |-> {},
     descendants |-> [t \in Txs |-> {}], size |-> 0, count |-> 0]

InputsOf(S) == UNION {Inputs[t] : t \in S}
Parents(t) == {Creator[o] : o \in Inputs[t]}
Bytes(S) == UNION {{t} \X (1..Size[t]) : t \in S}
TotalSize(S) == Cardinality(Bytes(S))
HasDescendants(p, t) == p.descendants[t] # {}

-----------------------------------------------------------------------------
(* UpdateDescendantsAdd: only the parents that are in the pool at that time.  *)
UpdateDescendantsAdd(p, t) ==
    [q \in Txs |-> IF q \in p.tx \cap Parents(t)
                   THEN p.descendants[q] \cup {t} ELSE p.descendants[q]]

UpdateDescendantsRemove_KeepsOwn(p, S) ==
    [q \in Txs |-> p.descendants[q] \ {c \in S : q \in Parents(c)}]

(* UpdateDescendantsRemove, for all of S. *)
UpdateDescendantsRemove(p, S) ==
    [q \in Txs |-> IF q \in S THEN {}
                   ELSE p.descendants[q] \ {c \in S : q \in Parents(c)}]

(* The seven steps of AddTxUnlocked after the room has been made. *)
Insert(p, t, rate) ==
    [tx |-> p.tx \cup {t},
     rate |-> [p.rate EXCEPT ![t] = rate],
     spent |-> p.spent \cup Inputs[t],
     descendants |-> UpdateDescendantsAdd(p, t),
     size |-> p.size + Size[t],
     count |-> p.count + 1]

(* RemoveTxUnlocked for every entry of S, and RemoveConfirmedTxs, which has   *)
(* the same steps.                                                            *)
RemoveTxs(p, S) ==
    [tx |-> p.tx \ S,
     rate |-> [t \in Txs |-> IF t \in S THEN 0 ELSE p.rate[t]],
     spent |-> p.spent \ InputsOf(S),
     descendants |-> UpdateDescendantsRemove(p, S),
     size |-> IF p.size < TotalSize(S) THEN 0 ELSE p.size - TotalSize(S),
     count |-> IF p.count < Cardinality(S) THEN 0 ELSE p.count - Cardinality(S)]

(* The sets EvictTransactions may pick: the entries of lowest fee rate that   *)
(* have no registered child, as few as free the bytes; none if all of them    *)
(* together do not.                                                           *)
EvictTransactions(p, bytes_needed) ==
    LET evictable == {t \in p.tx : ~HasDescendants(p, t)} IN
    {S \in SUBSET evictable :
        /\ TotalSize(S) >= bytes_needed
        /\ \A t \in S, u \in evictable \ S : p.rate[t] <= p.rate[u]
        /\ \E t \in S : /\ \A u \in S : p.rate[u] <= p.rate[t]
                        /\ TotalSize(S \ {t}) < bytes_needed}

(* ValidateLocked, without the two capacity refusals AddTxUnlocked ignores. *)
Validates(p, t, bypass_fee_check) ==
    /\ t \notin p.tx
    /\ Inputs[t] \cap p.spent = {}
    /\ bypass_fee_check \/ t \in PaysFee

CountEvictions_OneTooMany(p) ==
    IF p.count <= MAX_MEMPOOL_COUNT THEN {{}} ELSE EvictTransactions(p, 1)

(* The evictions for the count limit and for the size limit: no eviction when *)
(* there is room, no element when room cannot be made.                        *)
CountEvictions(p) ==
    IF p.count < MAX_MEMPOOL_COUNT THEN {{}} ELSE EvictTransactions(p, 1)

SizeEvictions(p, t) ==
    IF p.size + Size[t] <= MAX_MEMPOOL_SIZE THEN {{}}
    ELSE EvictTransactions(p, p.size + Size[t] - MAX_MEMPOOL_SIZE)

(* AddTx.  What was evicted for the count stays evicted when no room can be   *)
(* made for the size.                                                         *)
AddTx(p, t, rate, bypass_fee_check) ==
    LET counts == CountEvictions(p) IN
    IF ~Validates(p, t, bypass_fee_check) \/ counts = {} THEN {p}
    ELSE UNION {LET p1 == RemoveTxs(p, S)
                    sizes == SizeEvictions(p1, t)
                IN  IF sizes = {} THEN {p1}
                    ELSE {Insert(RemoveTxs(p1, E), t, rate) : E \in sizes}
                : S \in counts}

RemoveConfirmedTxs(p, block_txs) == RemoveTxs(p, block_txs \cap p.tx)

CleanupExpiredTransactions_NoRelatives(p, expired) ==
    RemoveTxs(p, {t \in expired \cap p.tx :
                     ~HasDescendants(p, t) /\ Parents(t) \cap p.tx = {}})

(* The expired entries are picked first and removed afterwards: a parent      *)
(* whose last child goes in this pass goes in the next one.                   *)
CleanupExpiredTransactions(p, expired) ==
    RemoveTxs(p, {t \in expired \cap p.tx : ~HasDescendants(p, t)})

-----------------------------------------------------------------------------
(* mapSpentOutpoints is exactly what the entries spend and no two entries     *)
(* spend the same outpoint, so that the double-spend check of ValidateLocked  *)
(* neither lets a conflict in nor refuses a spend nobody makes; a registered  *)
(* child is an entry that spends an entry; the count is the number of entries *)
(* (RemoveTxUnlocked, "Corruption detected - this should never happen").      *)
IndexesAgree(p) ==
    /\ p.spent = InputsOf(p.tx)
    /\ \A t, u \in p.tx : t # u => Inputs[t] \cap Inputs[u] = {}
    /\ \A q \in Txs : \A c \in p.descendants[q] :
         q \in p.tx /\ c \in p.tx /\ q \in Parents(c)
    /\ p.count = Cardinality(p.tx)

(* The running total is the sum of the sizes and, like the count, within its  *)
(* limit (MEMPOOL-001, MEMPOOL-002).                                          *)
WithinLimits(p) ==
    /\ p.size = TotalSize(p.tx)
    /\ p.size <= MAX_MEMPOOL_SIZE
    /\ Cardinality(p.tx) <= MAX_MEMPOOL_COUNT
=============================================================================
