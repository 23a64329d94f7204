---------------------------- MODULE MempoolChain ----------------------------
(* The memory pool between the threads that use it: those that accept         *)
(* transactions (peers, RPC, wallet), the one that connects and disconnects   *)
(* blocks, the pool's own expiry thread, and the file that carries it over a  *)
(* restart.  The pool's mutex covers one call; nothing covers two.            *)
EXTENDS Mempool, Sequences, SequencesExt

CONSTANTS
    Rate,                \* the fee rate each transaction pays
    Blocks,              \* sequences of transactions a block may hold
    MaxAccepting,        \* threads that accept transactions at a time
    MaxHeight, MaxDisconnects, MaxRestarts

ASSUME BlocksAssumption == Blocks \subseteq Seq(Txs) \ {<<>>}

VARIABLES
    mempool,
    chain,               \* the blocks whose transactions the UTXO set has
    task,                \* what ConnectTip or DisconnectTip still has to do
    checked,             \* accepted by CheckTransaction, not yet offered to AddTx
    old,                 \* entries older than MEMPOOL_EXPIRY_SECONDS
    file,                \* mempool.dat
    loading,             \* entries of the file LoadMempool has still to offer
    disconnects, restarts

vars == <<mempool, chain, task, checked, old, file, loading, disconnects, restarts>>

Idle == [op |-> "idle", txs |-> <<>>]

Confirmed == UNION {ToSet(chain[i]) : i \in 1..Len(chain)}
Unspent(S) == {o \in Outpoints : Creator[o] \in S \cup {NoTx}} \ InputsOf(S)

(* Every input is unspent when its turn in the block comes. *)
ValidBlock(b) ==
    \A k \in 1..Len(b) :
        LET before == Confirmed \cup ToSet(SubSeq(b, 1, k - 1)) IN
        b[k] \notin before /\ Inputs[b[k]] \subseteq Unspent(before)

Init ==
    /\ mempool = EmptyPool
    /\ chain = <<>>
    /\ task = Idle
    /\ checked = {}
    /\ old = {}
    /\ file = [tx |-> {}, rate |-> EmptyPool.rate]
    /\ loading = {}
    /\ disconnects = 0
    /\ restarts = 0

SetPool(pools) == mempool' \in pools /\ old' = old \cap mempool'.tx

-----------------------------------------------------------------------------
(* The accepting side: CheckTransaction against the UTXO set, which does not  *)
(* know the pool, then AddTx.                                                 *)
CheckTransaction(t) ==
    /\ loading = {} /\ Cardinality(checked) < MaxAccepting
    /\ t \notin mempool.tx \cup checked
    /\ Inputs[t] \subseteq Unspent(Confirmed)
    /\ checked' = checked \cup {t}
    /\ UNCHANGED <<mempool, chain, task, old, file, loading, disconnects, restarts>>

AcceptTx(t) ==
    /\ t \in checked
    /\ SetPool(AddTx(mempool, t, Rate[t], FALSE))
    /\ checked' = checked \ {t}
    /\ UNCHANGED <<chain, task, file, loading, disconnects, restarts>>

-----------------------------------------------------------------------------
(* ConnectTip: the UTXO set first, the pool after the callbacks. *)
ConnectTip(b) ==
    /\ task = Idle /\ loading = {}
    /\ Len(chain) < MaxHeight
    /\ ValidBlock(b)
    /\ chain' = Append(chain, b)
    /\ task' = [op |-> "clean", txs |-> b]
    /\ UNCHANGED <<mempool, checked, old, file, loading, disconnects, restarts>>

CleanPool ==
    /\ task.op = "clean"
    /\ SetPool({RemoveConfirmedTxs(mempool, ToSet(task.txs))})
    /\ task' = Idle
    /\ UNCHANGED <<chain, checked, file, loading, disconnects, restarts>>

(* DisconnectTip: the UTXO set first, then the transactions one by one, with  *)
(* a fee of zero and the fee check bypassed.  AddTx refuses height 0, but the *)
(* chain stands on the blocks that created and matured the coins (at least 6, *)
(* core/chainparams.cpp:547): a block at height 1 has only its coinbase.      *)
DisconnectTip ==
    /\ task = Idle /\ loading = {}
    /\ chain # <<>>
    /\ disconnects < MaxDisconnects
    /\ chain' = Front(chain)
    /\ task' = [op |-> "return", txs |-> Last(chain)]
    /\ disconnects' = disconnects + 1
    /\ UNCHANGED <<mempool, checked, old, file, loading, restarts>>

ReturnTx ==
    /\ task.op = "return"
    /\ SetPool(AddTx(mempool, Head(task.txs), 0, TRUE))
    /\ task' = IF Len(task.txs) = 1 THEN Idle ELSE [task EXCEPT !.txs = Tail(@)]
    /\ UNCHANGED <<chain, checked, file, loading, disconnects, restarts>>

-----------------------------------------------------------------------------
(* Fourteen days pass for everything now in the pool. *)
TimePasses ==
    /\ old # mempool.tx
    /\ old' = mempool.tx
    /\ UNCHANGED <<mempool, chain, task, checked, file, loading, disconnects, restarts>>

(* One round of the expiry thread. *)
ExpirationThread ==
    /\ \E t \in old : ~HasDescendants(mempool, t)
    /\ SetPool({CleanupExpiredTransactions(mempool, old)})
    /\ UNCHANGED <<chain, task, checked, file, loading, disconnects, restarts>>

(* Recovery from a deep fork empties the pool. *)
Clear ==
    /\ mempool.tx # {}
    /\ SetPool({EmptyPool})
    /\ UNCHANGED <<chain, task, checked, file, loading, disconnects, restarts>>

(* DumpMempool, at shutdown or asked for by RPC: the file is replaced whole. *)
DumpMempool ==
    /\ loading = {} /\ restarts < MaxRestarts
    /\ file' = [tx |-> mempool.tx, rate |-> mempool.rate]
    /\ file' # file
    /\ UNCHANGED <<mempool, chain, task, checked, old, loading, disconnects, restarts>>

(* The process ends, in order or not, and starts again some time later.  A    *)
(* file that is missing or cannot be read means an empty pool.                *)
Restart ==
    /\ restarts < MaxRestarts
    /\ mempool' = EmptyPool
    /\ loading' \in {file.tx, {}}
    /\ old' = {}
    /\ task' = Idle
    /\ checked' = {}
    /\ restarts' = restarts + 1
    /\ UNCHANGED <<chain, file, disconnects>>

(* LoadMempool, before peers are listened to: AddTx of each entry in the      *)
(* order of the file, which is that of the transaction ids, with the fee and  *)
(* the time it was saved with and the fee check bypassed.  The UTXO set is    *)
(* not asked.                                                                 *)
LoadTx ==
    \E t \in loading :
        /\ \A u \in loading : t <= u
        /\ mempool' \in AddTx(mempool, t, file.rate[t], TRUE)
        /\ old' \in {old \cap mempool'.tx, (old \cup {t}) \cap mempool'.tx}
        /\ loading' = loading \ {t}
        /\ UNCHANGED <<chain, task, checked, file, disconnects, restarts>>

Next ==
    \/ \E t \in Txs : CheckTransaction(t) \/ AcceptTx(t)
    \/ \E b \in Blocks : ConnectTip(b)
    \/ CleanPool \/ DisconnectTip \/ ReturnTx
    \/ TimePasses \/ ExpirationThread \/ Clear
    \/ DumpMempool \/ Restart \/ LoadTx

(* The clock runs and the expiry thread wakes up every hour. *)
Spec ==
    Init /\ [][Next]_vars /\ WF_vars(TimePasses) /\ WF_vars(ExpirationThread)

-----------------------------------------------------------------------------
(* The pool's indexes stay inverses of each other through every interleaving  *)
(* of acceptance, confirmation, reorganisation, expiry and restart.           *)
PoolAgrees == IndexesAgree(mempool)

(* MEMPOOL-001 and MEMPOOL-002: the pool never outgrows its two limits, the   *)
(* transactions that a reorganisation or a restart puts back included.        *)
PoolWithinLimits == WithinLimits(mempool)

(* mempool.cpp, MEMPOOL-007: nothing stays for ever.  An entry leaves the     *)
(* pool unless a block takes it, whatever reorganisations and restarts did to *)
(* the children registered for it.                                            *)
Expires ==
    \A t \in Txs : t \in mempool.tx ~> t \notin mempool.tx \/ t \in Confirmed

(* mempool.cpp, MEMPOOL-002: "Transaction chains remain valid (no orphaned    *)
(* children)": making room or expiring never takes an entry away from under   *)
(* another entry that spends it.                                              *)
NeverOrphans ==
    [][ task.op # "clean" /\ restarts' = restarts =>
        \A c \in mempool'.tx : Parents(c) \cap (mempool.tx \ mempool'.tx) \subseteq Confirmed ]_vars
=============================================================================
