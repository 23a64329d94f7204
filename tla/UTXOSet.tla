------------------------------- MODULE UTXOSet -------------------------------
(* CUTXOSet: the LevelDB database of unspent outputs with one undo record per *)
(* applied block, the memory cache in front of it and the count of entries.   *)
(* An entry is abstracted to the height that created it; value and script are *)
(* functions of the outpoint.  AddUTXO and SpendUTXO have no caller, so       *)
(* cache_additions and cache_deletions are always empty.                      *)
EXTENDS Integers, FiniteSets, Sequences

CONSTANTS
    Blocks, Genesis, Parent, Height,
    Anc,           \* Anc[b]: the chain from Genesis to b
    Txs,           \* Txs[b]: the transactions of b in order, coinbase first
    Ins,           \* Ins[t]: the outpoints t spends; {} for a coinbase
    Outs,          \* Outs[t]: the outpoints t creates
    MaxCacheSize,  \* MAX_CACHE_SIZE
    MaxCount,      \* bound on stats.nUTXOs, which failed calls let drift
    MaxFaults,     \* bound on failed database writes
    MaxCrashes     \* bound on process deaths

VARIABLES
    db,            \* outpoint -> height, on disk
    undo,          \* block -> spent entries, on disk
    diskCount,     \* the utxo_stats record
    cache,         \* outpoint -> height, in memory
    count,         \* stats.nUTXOs
    tip,           \* the block the caller believes applied last
    pc, cur,       \* ApplyBlock or UndoBlock between its batch and Flush
    faults, crashes,
    stale          \* history: what has been left out of step, see below

(* stale holds "cache" and "count" after a call that returned false, until the *)
(* cache is emptied; "db" after a batch whose call did not end well, so that   *)
(* the caller's tip is another; "phantom" after a block was let in on an       *)
(* output that only the cache of a failed call held, or after a block that     *)
(* spends its own outputs was undone, which puts those into the database.      *)
vars == <<db, undo, diskCount, cache, count, tip, pc, cur, faults, crashes, stale>>

Prefix(b, k)  == {Txs[b][i] : i \in 1..k}
InsOf(b, k)   == UNION {Ins[t] : t \in Prefix(b, k)}
OutsOf(b, k)  == UNION {Outs[t] : t \in Prefix(b, k)}
BlockIns(b)   == InsOf(b, Len(Txs[b]))
BlockOuts(b)  == OutsOf(b, Len(Txs[b]))
Outpoints     == UNION {BlockOuts(b) \cup BlockIns(b) : b \in Blocks}
Entries(S, h) == [o \in S |-> h]
NoEntries     == Entries({}, 0)

(* No block spends or creates an outpoint twice, and the cache can hold what  *)
(* one block touches: MAX_CACHE_SIZE is a million.                            *)
ASSUME UTXOSetAssumption ==
    /\ Genesis \in Blocks
    /\ Parent \in [Blocks \ {Genesis} -> Blocks]
    /\ Height \in [Blocks -> Nat]
    /\ BlockIns(Genesis) = {} /\ Cardinality(BlockOuts(Genesis)) <= MaxCount
    /\ MaxCacheSize \in Nat /\ MaxCount \in Nat
    /\ MaxFaults \in Nat /\ MaxCrashes \in Nat
    /\ \A b \in Blocks :
           /\ Len(Txs[b]) \in Nat \ {0} /\ Ins[Txs[b][1]] = {}
           /\ \A i, j \in 1..Len(Txs[b]) :
                  i # j => /\ Ins[Txs[b][i]] \cap Ins[Txs[b][j]] = {}
                           /\ Outs[Txs[b][i]] \cap Outs[Txs[b][j]] = {}
           /\ IsFiniteSet(BlockIns(b) \cup BlockOuts(b))
           /\ Cardinality(BlockIns(b) \cup BlockOuts(b)) <= MaxCacheSize

(* Chains, and that no two blocks of one create the same outpoint: an outpoint *)
(* is txid:n, and a transaction spends what it spends only once.               *)
ASSUME UTXOChainAssumption ==
    /\ Anc \in [Blocks -> SUBSET Blocks]
    /\ Anc[Genesis] = {Genesis}
    /\ \A b \in Blocks \ {Genesis} :
           b \notin Anc[Parent[b]] /\ Anc[b] = Anc[Parent[b]] \cup {b}
    /\ \A b \in Blocks : b \in Anc[b] /\ \A a \in Anc[b] : Anc[a] \subseteq Anc[b]
    /\ \A b \in Blocks : \A a, c \in Anc[b] :
           a # c => BlockOuts(a) \cap BlockOuts(c) = {}

(* f with the entries of g put over it. *)
Put(f, g) == [o \in DOMAIN f \cup DOMAIN g |-> IF o \in DOMAIN g THEN g[o] ELSE f[o]]
Delete(f, S) == [o \in DOMAIN f \ S |-> f[o]]

(* Every variable has its type, and the cache never outgrows its limit. *)
TypeOK ==
    /\ DOMAIN db \subseteq Outpoints
    /\ DOMAIN undo \subseteq Blocks
    /\ DOMAIN cache \subseteq Outpoints /\ Cardinality(DOMAIN cache) <= MaxCacheSize
    /\ count \in 0..MaxCount /\ diskCount \in 0..MaxCount
    /\ tip \in Blocks /\ cur \in Blocks
    /\ pc \in {"idle", "applied", "undone"}
    /\ faults \in 0..MaxFaults /\ crashes \in 0..MaxCrashes
    /\ stale \subseteq {"cache", "count", "db", "phantom"}

Init ==
    /\ db = Entries(BlockOuts(Genesis), Height[Genesis])
    /\ undo = [b \in {Genesis} |-> NoEntries]
    /\ cache = db
    /\ count = Cardinality(DOMAIN db) /\ diskCount = count
    /\ tip = Genesis
    /\ pc = "idle" /\ cur = Genesis
    /\ faults = 0 /\ crashes = 0
    /\ stale = {}

-----------------------------------------------------------------------------
(* The cache. *)

CacheAfter_NoLimit(full, fresh, passing) == {full}

(* UpdateCache: "full" without the entries evicted by the insertion of        *)
(* "fresh" and of the inputs that only pass through the cache.  An insertion  *)
(* into a full cache evicts the least recently used entry; which of the older *)
(* entries that is, is left open.                                             *)
CacheAfter(full, fresh, passing) ==
    IF Cardinality(DOMAIN full \cup passing) <= MaxCacheSize THEN {full}
    ELSE {[o \in S |-> full[o]] :
             S \in {T \in SUBSET DOMAIN full :
                       /\ fresh \cap DOMAIN full \subseteq T
                       /\ Cardinality(T) \in (MaxCacheSize - Cardinality(passing))..MaxCacheSize}}

(* GetUTXO: the cache before the database. *)
HaveUTXO(o) == o \in DOMAIN cache \cup DOMAIN db
EntryOf(o)  == IF o \in DOMAIN cache THEN cache[o] ELSE db[o]

GetUTXO(o) ==
    /\ pc = "idle"
    /\ o \in DOMAIN db \ DOMAIN cache
    /\ cache' \in CacheAfter(Put(cache, Entries({o}, db[o])), {o}, {})
    /\ UNCHANGED <<db, undo, diskCount, count, tip, pc, cur, faults, crashes, stale>>

-----------------------------------------------------------------------------
(* ApplyBlock. *)

(* Input k finds all it spends: in the cache, in the database, or created by  *)
(* an earlier transaction of the block, which is then in the cache.           *)
InputsFound_Unchecked(b, k) == TRUE

InputsFound(b, k) ==
    \A o \in Ins[Txs[b][k]] : HaveUTXO(o) \/ o \in OutsOf(b, k - 1)

CacheApplied_KeepsSpent(b, k) == Put(cache, Entries(OutsOf(b, k), Height[b]))

(* The cache after the first k transactions. *)
CacheApplied(b, k) ==
    Delete(Put(cache, Entries(OutsOf(b, k), Height[b])), InsOf(b, k))

(* nUTXOs does not go below zero. *)
Less(n, k) == IF n > k THEN n - k ELSE 0

CountApplied(b, k) ==
    LET after[i \in 0..k] ==
            IF i = 0 THEN count
            ELSE Less(after[i - 1], Cardinality(Ins[Txs[b][i]]))
                     + Cardinality(Outs[Txs[b][i]])
    IN  after[k]

DbApplied(b) == Delete(Put(db, Entries(BlockOuts(b), Height[b])), BlockIns(b))

(* The entries the block spends, as they are read while it is applied. *)
UndoRecord(b) ==
    [o \in BlockIns(b) |-> IF HaveUTXO(o) THEN EntryOf(o) ELSE Height[b]]

(* A call that returns false leaves what it did to the cache and the count. *)
CallFails == stale' = stale \cup {"cache", "count"}

(* The inputs that neither the database nor the block itself holds. *)
OnlyCached(b) == (BlockIns(b) \cap DOMAIN cache) \ (DOMAIN db \cup BlockOuts(b))

Phantom(S) == IF S = {} THEN {} ELSE {"phantom"}

ApplyBlock(b) ==
    /\ pc = "idle"
    /\ b # Genesis /\ Parent[b] = tip
    /\ LET n == Len(Txs[b]) IN
       \/ /\ \A k \in 1..n : InputsFound(b, k)
          /\ cache' \in CacheAfter(CacheApplied(b, n), BlockOuts(b), BlockIns(b))
          /\ count' = CountApplied(b, n)
          /\ \/ /\ db' = DbApplied(b)
                /\ undo' = Put(undo, [x \in {b} |-> UndoRecord(b)])
                /\ pc' = "applied" /\ cur' = b
                /\ stale' = stale \cup Phantom(OnlyCached(b))
                /\ UNCHANGED faults
             \/ /\ faults < MaxFaults /\ faults' = faults + 1
                /\ CallFails
                /\ UNCHANGED <<db, undo, pc, cur>>
       \/ \E k \in 1..n :
          /\ \A i \in 1..(k - 1) : InputsFound(b, i)
          /\ ~InputsFound(b, k)
          /\ \E read \in SUBSET Ins[Txs[b][k]] :
                /\ \A o \in read : HaveUTXO(o) \/ o \in OutsOf(b, k - 1)
                /\ cache' \in CacheAfter(Delete(CacheApplied(b, k - 1), read),
                                         OutsOf(b, k - 1) \ read, InsOf(b, k))
                /\ count' = Less(CountApplied(b, k - 1), Cardinality(read))
          /\ CallFails
          /\ UNCHANGED <<db, undo, pc, cur, faults>>
    /\ count' <= MaxCount
    /\ UNCHANGED <<diskCount, tip, crashes>>

-----------------------------------------------------------------------------
(* UndoBlock. *)

CoinbaseOnly(b) == \A i \in 2..Len(Txs[b]) : Ins[Txs[b][i]] = {}

Restored_AtBlockHeight(b) ==
    IF b \in DOMAIN undo THEN Entries(DOMAIN undo[b], Height[b]) ELSE NoEntries

(* What the undo record gives back; a missing record is made up for a block   *)
(* without regular transactions.                                              *)
Restored(b) == IF b \in DOMAIN undo THEN undo[b] ELSE NoEntries

CountUndone_ForgetsInputs(b) == Less(count, Cardinality(BlockOuts(b)))

CountUndone(b) ==
    Less(count, Cardinality(BlockOuts(b))) + Cardinality(DOMAIN Restored(b))

(* All outputs are deleted first, then all spent entries are put back. *)
UndoBlock(b) ==
    /\ pc = "idle"
    /\ b # Genesis /\ b = tip
    /\ b \in DOMAIN undo \/ CoinbaseOnly(b)
    /\ cache' \in CacheAfter(Put(Delete(cache, BlockOuts(b)), Restored(b)),
                             DOMAIN Restored(b), {})
    /\ count' = CountUndone(b)
    /\ count' <= MaxCount
    /\ \/ /\ db' = Put(Delete(db, BlockOuts(b)), Restored(b))
          /\ undo' = Delete(undo, {b})
          /\ pc' = "undone" /\ cur' = b
          /\ stale' = stale \cup Phantom(BlockIns(b) \cap BlockOuts(b))
          /\ UNCHANGED faults
       \/ /\ faults < MaxFaults /\ faults' = faults + 1
          /\ CallFails
          /\ UNCHANGED <<db, undo, pc, cur>>
    /\ UNCHANGED <<diskCount, tip, crashes>>

(* Flush writes the statistics.  When it fails, so does the call, although    *)
(* its batch is written.                                                      *)
Flush ==
    /\ pc # "idle"
    /\ pc' = "idle" /\ cur' = Genesis
    /\ \/ /\ diskCount' = count
          /\ tip' = IF pc = "applied" THEN cur ELSE Parent[cur]
          /\ UNCHANGED <<faults, stale>>
       \/ /\ faults < MaxFaults /\ faults' = faults + 1
          /\ stale' = stale \cup {"db", "count"}
          /\ UNCHANGED <<diskCount, tip>>
    /\ UNCHANGED <<db, undo, cache, count, crashes>>

(* Close writes the statistics, Open reads them back.  Close does not look at *)
(* the result of its write.                                                   *)
Reopen ==
    /\ pc = "idle"
    /\ cache' = NoEntries
    /\ stale' = stale \ {"cache"}
    /\ \/ /\ diskCount' = count
          /\ UNCHANGED <<count, faults>>
       \/ /\ faults < MaxFaults /\ faults' = faults + 1
          /\ count' = diskCount
          /\ UNCHANGED diskCount
    /\ UNCHANGED <<db, undo, tip, pc, cur, crashes>>

(* The process dies and Open reads the statistics back.  Between the batch    *)
(* and Flush they belong to another set.                                      *)
Crash ==
    /\ crashes < MaxCrashes /\ crashes' = crashes + 1
    /\ cache' = NoEntries
    /\ count' = diskCount
    /\ pc' = "idle" /\ cur' = Genesis
    /\ stale' = (stale \ {"cache"}) \cup (IF pc = "idle" THEN {} ELSE {"db", "count"})
    /\ UNCHANGED <<db, undo, diskCount, tip, faults>>

Next ==
    \/ \E b \in Blocks : ApplyBlock(b) \/ UndoBlock(b)
    \/ \E o \in Outpoints : GetUTXO(o)
    \/ Flush
    \/ Reopen
    \/ Crash

Spec == Init /\ [][Next]_vars

-----------------------------------------------------------------------------
(* The unspent outputs of b's chain by definition: created on the chain, not  *)
(* spent on it, with the height of the block that created them.               *)
UtxoOf(b) ==
    LET created == UNION {BlockOuts(a) : a \in Anc[b]}
        spent   == UNION {BlockIns(a) : a \in Anc[b]}
    IN  [o \in created \ spent |-> Height[CHOOSE a \in Anc[b] : o \in BlockOuts(a)]]

(* Through any sequence of applied, undone and re-applied blocks, failed      *)
(* calls and deaths outside the window before Flush, the database holds       *)
(* exactly the unspent outputs of the tip's chain, each with the height at    *)
(* which that chain created it.                                               *)
DatabaseIsChains ==
    pc = "idle" /\ stale \cap {"db", "phantom"} = {} => db = UtxoOf(tip)

(* "critical: must sync cache with database state": while every call          *)
(* succeeded since the process started, the cache holds nothing the database  *)
(* does not hold, and the same entries.                                       *)
CacheAgrees ==
    "cache" \notin stale =>
        \A o \in DOMAIN cache : o \in DOMAIN db /\ cache[o] = db[o]

(* The count follows the database through apply and undo. *)
CountAgrees ==
    pc = "idle" /\ stale \cap {"count", "phantom"} = {} => count = Cardinality(DOMAIN db)

(* Block by block, the database behaves as the ledger ConnectTip and          *)
(* DisconnectTip rely on, whatever the cache holds and wherever the caller    *)
(* believes the tip to be, until a phantom enters it.                         *)
Ledger == INSTANCE UTXOLedger WITH
              unspent <- DOMAIN db, undo <- DOMAIN undo,
              Creates <- BlockOuts, Spends <- BlockIns
ImplementsLedger ==
    /\ Ledger!Init
    /\ [][Ledger!Next \/ "phantom" \in stale']_<<DOMAIN db, DOMAIN undo>>

-----------------------------------------------------------------------------
(* Statements of the code's comments that the code does not keep (README,     *)
(* "Findings").                                                               *)

(* utxo_set.h, GetUTXO: "true if UTXO exists and is unspent". *)
GetUTXOIsTrue == pc = "idle" => \A o \in Outpoints : HaveUTXO(o) => o \in DOMAIN db

(* utxo_set.h, UndoBlock: "This reverses the effects of ApplyBlock". *)
UndoReverses ==
    [][pc = "undone" /\ tip' = Parent[cur] => db' = UtxoOf(Parent[cur])]_vars

=============================================================================
