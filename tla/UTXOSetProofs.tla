---------------------------- MODULE UTXOSetProofs ----------------------------
(* What CUTXOSet guarantees for every tree of blocks, every content of the     *)
(* blocks and every size of the cache.                                         *)
EXTENDS UTXOSet, FiniteSetTheorems, WellFoundedInduction, TLAPS

-----------------------------------------------------------------------------
(* f agrees with g wherever f is defined. *)
Within(f, g) == \A o \in DOMAIN f : o \in DOMAIN g /\ f[o] = g[o]

(* f and g agree wherever both are defined. *)
Compatible(f, g) == \A o \in DOMAIN f \cap DOMAIN g : f[o] = g[o]

(* What UpdateCache leaves is part of the full cache. *)
LEMMA CacheAfterFacts ==
    ASSUME NEW full, NEW fresh, NEW passing, NEW c \in CacheAfter(full, fresh, passing)
    PROVE  Within(c, full)
  BY DEF CacheAfter, Within

LEMMA WithinTransitive ==
    ASSUME NEW f, NEW g, NEW h, Within(f, g), Within(g, h)
    PROVE  Within(f, h)
  BY DEF Within

(* The same batch on two maps, one within the other or compatible with it. *)
LEMMA BatchWithin ==
    ASSUME NEW f, NEW g, NEW new, NEW S, Within(f, g)
    PROVE  /\ Within(Delete(Put(f, new), S), Delete(Put(g, new), S))
           /\ Within(Put(Delete(f, S), new), Put(Delete(g, S), new))
  BY DEF Within, Put, Delete

LEMMA BatchCompatible ==
    ASSUME NEW f, NEW g, NEW new, NEW S, Compatible(f, g)
    PROVE  /\ Compatible(Delete(Put(f, new), S), Delete(Put(g, new), S))
           /\ Compatible(Put(Delete(f, S), new), Put(Delete(g, S), new))
  BY DEF Compatible, Put, Delete

LEMMA CompatiblePart ==
    ASSUME NEW f, NEW g, NEW h, Within(f, g), Compatible(g, h)
    PROVE  Compatible(f, h)
  BY DEF Within, Compatible

-----------------------------------------------------------------------------
(* The cache.  CacheAgrees is inductive as it stands. *)
LEMMA CacheInit == Init => CacheAgrees
  BY DEF Init, CacheAgrees

LEMMA CacheNext ==
    ASSUME CacheAgrees, [Next]_vars
    PROVE  CacheAgrees'
  <1>1. SUFFICES ASSUME "cache" \notin stale', Next
                 PROVE  Within(cache', db')
    BY DEF CacheAgrees, Within, vars
  <1>2. CASE Reopen \/ Crash
    <2>1. cache' = NoEntries
      BY <1>2 DEF Reopen, Crash
    <2> QED
      BY <2>1 DEF Within, NoEntries, Entries
  <1>3. CASE Flush
    BY <1>1, <1>3 DEF Flush, CacheAgrees, Within
  <1>4. ASSUME NEW o \in Outpoints, GetUTXO(o)
        PROVE  Within(cache', db')
    <2>1. Within(cache, db) /\ db' = db /\ o \in DOMAIN db
      BY <1>1, <1>4 DEF GetUTXO, CacheAgrees, Within
    <2>2. Within(cache', Put(cache, Entries({o}, db[o])))
      BY <1>4, CacheAfterFacts DEF GetUTXO
    <2>3. Within(Put(cache, Entries({o}, db[o])), db)
      BY <2>1 DEF Within, Put, Entries
    <2> QED
      BY <2>1, <2>2, <2>3, WithinTransitive
  <1>5. ASSUME NEW b \in Blocks, ApplyBlock(b)
        PROVE  Within(cache', db')
    <2>1. ~CallFails
      BY <1>1 DEF CallFails
    <2>2. /\ cache' \in CacheAfter(CacheApplied(b, Len(Txs[b])), BlockOuts(b), BlockIns(b))
          /\ db' = DbApplied(b) /\ "cache" \notin stale
      BY <1>1, <1>5, <2>1 DEF ApplyBlock
    <2>3. Within(cache', CacheApplied(b, Len(Txs[b])))
      BY <2>2, CacheAfterFacts
    <2>4. Within(cache, db)
      BY <2>2 DEF CacheAgrees, Within
    <2>5. Within(CacheApplied(b, Len(Txs[b])), DbApplied(b))
      BY <2>4, BatchWithin DEF CacheApplied, DbApplied, BlockOuts, BlockIns
    <2> QED
      BY <2>2, <2>3, <2>5, WithinTransitive
  <1>6. ASSUME NEW b \in Blocks, UndoBlock(b)
        PROVE  Within(cache', db')
    <2>1. ~CallFails
      BY <1>1 DEF CallFails
    <2>2. /\ cache' \in CacheAfter(Put(Delete(cache, BlockOuts(b)), Restored(b)),
                                   DOMAIN Restored(b), {})
          /\ db' = Put(Delete(db, BlockOuts(b)), Restored(b)) /\ "cache" \notin stale
      BY <1>1, <1>6, <2>1 DEF UndoBlock
    <2>3. Within(cache', Put(Delete(cache, BlockOuts(b)), Restored(b)))
      BY <2>2, CacheAfterFacts
    <2>4. Within(cache, db)
      BY <2>2 DEF CacheAgrees, Within
    <2>5. Within(Put(Delete(cache, BlockOuts(b)), Restored(b)), db')
      BY <2>2, <2>4, BatchWithin
    <2> QED
      BY <2>3, <2>5, WithinTransitive
  <1> QED
    BY <1>1, <1>2, <1>3, <1>4, <1>5, <1>6 DEF Next

(* As long as every call has succeeded since the cache was last empty, the     *)
(* cache holds only what the database holds, whatever was evicted.             *)
THEOREM CacheAgreesHolds == Spec => []CacheAgrees
  BY CacheInit, CacheNext, PTL DEF Spec

-----------------------------------------------------------------------------
(* The unspent outputs of a chain. *)
Created(b) == UNION {BlockOuts(a) : a \in Anc[b]}
Spent(b)   == UNION {BlockIns(a) : a \in Anc[b]}

LEMMA ParentFacts ==
    ASSUME NEW b \in Blocks, b # Genesis
    PROVE  /\ Parent[b] \in Blocks /\ Anc[b] = Anc[Parent[b]] \cup {b}
           /\ Anc[Parent[b]] = Anc[b] \ {b}
           /\ Created(b) = Created(Parent[b]) \cup BlockOuts(b)
           /\ Spent(b) = Spent(Parent[b]) \cup BlockIns(b)
           /\ BlockOuts(b) \cap Created(Parent[b]) = {}
  <1>1. /\ Parent[b] \in Blocks /\ Anc[b] = Anc[Parent[b]] \cup {b}
        /\ b \notin Anc[Parent[b]]
    BY UTXOSetAssumption, UTXOChainAssumption
  <1>2. /\ Created(b) = Created(Parent[b]) \cup BlockOuts(b)
        /\ Spent(b) = Spent(Parent[b]) \cup BlockIns(b)
    BY <1>1 DEF Created, Spent
  <1>3. \A a \in Anc[Parent[b]] : BlockOuts(a) \cap BlockOuts(b) = {}
    BY <1>1, UTXOChainAssumption
  <1> QED
    BY <1>1, <1>2, <1>3 DEF Created

LEMMA UtxoOfFacts ==
    ASSUME NEW b \in Blocks
    PROVE  /\ DOMAIN UtxoOf(b) = Created(b) \ Spent(b)
           /\ \A a \in Anc[b] : \A o \in BlockOuts(a) \ Spent(b) : UtxoOf(b)[o] = Height[a]
  <1>1. UtxoOf(b) = [o \in Created(b) \ Spent(b) |->
                         Height[CHOOSE a \in Anc[b] : o \in BlockOuts(a)]]
    BY DEF UtxoOf, Created, Spent
  <1>2. ASSUME NEW a \in Anc[b], NEW o \in BlockOuts(a) \ Spent(b)
        PROVE  UtxoOf(b)[o] = Height[a]
    <2>1. o \in Created(b) \ Spent(b)
      BY DEF Created
    <2>2. \A c \in Anc[b] : o \in BlockOuts(c) => c = a
      BY UTXOChainAssumption
    <2>3. (CHOOSE c \in Anc[b] : o \in BlockOuts(c)) = a
      BY <2>2
    <2> QED
      BY <1>1, <2>1, <2>3
  <1> QED
    BY <1>1, <1>2, Zenon

(* Applying a block to its parent's unspent outputs, as DbApplied does, gives  *)
(* its own, if all that was spent had been created.                            *)
LEMMA UtxoApplied ==
    ASSUME NEW b \in Blocks, b # Genesis, Spent(Parent[b]) \subseteq Created(Parent[b])
    PROVE  UtxoOf(b)
             = Delete(Put(UtxoOf(Parent[b]), Entries(BlockOuts(b), Height[b])), BlockIns(b))
  <1> DEFINE p == Parent[b]
             new == Delete(Put(UtxoOf(p), Entries(BlockOuts(b), Height[b])), BlockIns(b))
  <1>1. /\ p \in Blocks /\ Anc[b] = Anc[p] \cup {b}
        /\ Created(b) = Created(p) \cup BlockOuts(b) /\ Spent(b) = Spent(p) \cup BlockIns(b)
        /\ BlockOuts(b) \cap Created(p) = {}
    BY ParentFacts
  <1>2. DOMAIN new = ((Created(p) \ Spent(p)) \cup BlockOuts(b)) \ BlockIns(b)
    BY <1>1, UtxoOfFacts, Zenon DEF Put, Delete, Entries
  <1>3. DOMAIN new = DOMAIN UtxoOf(b)
    BY <1>1, <1>2, UtxoOfFacts
  <1>4. ASSUME NEW o \in DOMAIN new
        PROVE  new[o] = UtxoOf(b)[o]
    <2>0. o \notin Spent(b) /\ o \in (Created(p) \ Spent(p)) \cup BlockOuts(b)
      BY <1>1, <1>2, <1>3, UtxoOfFacts
    <2>1. CASE o \in BlockOuts(b)
      <3>1. new[o] = Height[b]
        BY <1>2, <2>1 DEF Put, Delete, Entries
      <3>2. UtxoOf(b)[o] = Height[b]
        BY <1>1, <2>0, <2>1, UtxoOfFacts, ZenonT(40)
      <3> QED
        BY <3>1, <3>2
    <2>2. CASE o \notin BlockOuts(b)
      <3>1. PICK a \in Anc[p] : o \in BlockOuts(a)
        BY <2>0, <2>2 DEF Created
      <3>2. UtxoOf(p)[o] = Height[a]
        BY <1>1, <2>0, <2>2, <3>1, UtxoOfFacts, Zenon
      <3>3. UtxoOf(b)[o] = Height[a]
        BY <1>1, <2>0, <3>1, UtxoOfFacts, Zenon
      <3>4. new[o] = UtxoOf(p)[o]
        BY <1>1, <1>2, <2>0, <2>2, UtxoOfFacts DEF Put, Delete, Entries
      <3> QED
        BY <3>2, <3>3, <3>4
    <2> QED
      BY <2>1, <2>2
  <1>5. UtxoOf(b) = [o \in DOMAIN UtxoOf(b) |-> UtxoOf(b)[o]] /\ new = [o \in DOMAIN new |-> new[o]]
    BY DEF UtxoOf, Delete
  <1> QED
    BY <1>3, <1>4, <1>5

(* Undoing it, with the entries it spent as they were, gives its parent's.     *)
LEMMA UtxoUndone ==
    ASSUME NEW b \in Blocks, b # Genesis, Spent(Parent[b]) \subseteq Created(Parent[b]),
           BlockIns(b) \cap BlockOuts(b) = {},
           BlockIns(b) \subseteq DOMAIN UtxoOf(Parent[b]),
           NEW r, DOMAIN r = BlockIns(b),
           \A o \in BlockIns(b) : r[o] = UtxoOf(Parent[b])[o]
    PROVE  Put(Delete(UtxoOf(b), BlockOuts(b)), r) = UtxoOf(Parent[b])
  <1> DEFINE p == Parent[b]
             old == Put(Delete(UtxoOf(b), BlockOuts(b)), r)
  <1>1. /\ p \in Blocks /\ BlockOuts(b) \cap Created(p) = {}
        /\ DOMAIN UtxoOf(p) = Created(p) \ Spent(p)
    BY ParentFacts, UtxoOfFacts, Zenon
  <1>2. UtxoOf(b) = Delete(Put(UtxoOf(p), Entries(BlockOuts(b), Height[b])), BlockIns(b))
    BY UtxoApplied
  <1>3. /\ DOMAIN UtxoOf(b) = (DOMAIN UtxoOf(p) \cup BlockOuts(b)) \ BlockIns(b)
        /\ \A o \in (DOMAIN UtxoOf(p) \ BlockOuts(b)) \ BlockIns(b) :
               UtxoOf(b)[o] = UtxoOf(p)[o]
    BY <1>2 DEF Put, Delete, Entries
  <1>4. DOMAIN old = (DOMAIN UtxoOf(b) \ BlockOuts(b)) \cup BlockIns(b)
    BY DEF Put, Delete
  <1>5. DOMAIN old = DOMAIN UtxoOf(p)
    BY <1>1, <1>3, <1>4
  <1>6. ASSUME NEW o \in DOMAIN old
        PROVE  old[o] = UtxoOf(p)[o]
    <2>1. CASE o \in BlockIns(b)
      BY <2>1 DEF Put
    <2>2. CASE o \notin BlockIns(b)
      <3>1. o \in DOMAIN UtxoOf(b) /\ o \notin BlockOuts(b) /\ o \in DOMAIN UtxoOf(p)
        BY <1>4, <1>5, <2>2
      <3>2. old[o] = UtxoOf(b)[o]
        BY <2>2, <3>1 DEF Put, Delete
      <3> QED
        BY <1>3, <2>2, <3>1, <3>2
    <2> QED
      BY <2>1, <2>2
  <1>7. UtxoOf(p) = [o \in DOMAIN UtxoOf(p) |-> UtxoOf(p)[o]] /\ old = [o \in DOMAIN old |-> old[o]]
    BY DEF UtxoOf, Put
  <1> QED
    BY <1>5, <1>6, <1>7

-----------------------------------------------------------------------------
(* The database.  It is that of At, the block the last batch belongs to; the   *)
(* cache may hold more after a failed call, but no other entry for what the    *)
(* database holds; and every block of the chain has spent what was there and   *)
(* has an undo record that says so.                                            *)
At == CASE pc = "applied" -> cur
        [] pc = "undone"  -> Parent[cur]
        [] OTHER          -> tip

Founded(a) == BlockIns(a) \subseteq DOMAIN UtxoOf(Parent[a]) \cup BlockOuts(a)

Recorded(a) ==
    /\ a \in DOMAIN undo
    /\ \A o \in BlockIns(a) \ BlockOuts(a) : undo[a][o] = UtxoOf(Parent[a])[o]

InStep == stale \cap {"db", "phantom"} = {}

DInv ==
    /\ tip \in Blocks /\ cur \in Blocks /\ pc \in {"idle", "applied", "undone"}
    /\ pc = "applied" => cur # Genesis /\ Parent[cur] = tip
    /\ pc = "undone" => cur # Genesis /\ cur = tip
    /\ \A b \in DOMAIN undo : DOMAIN undo[b] = BlockIns(b)
    /\ InStep => /\ db = UtxoOf(At)
                 /\ Compatible(cache, db)
                 /\ \A a \in Anc[At] \ {Genesis} : Founded(a) /\ Recorded(a)

(* On such a chain only what was created is spent. *)
LEMMA SpentIsCreated ==
    ASSUME NEW b \in Blocks, \A a \in Anc[b] \ {Genesis} : Founded(a)
    PROVE  Spent(b) \subseteq Created(b)
  <1> SUFFICES ASSUME NEW a \in Anc[b]
               PROVE  BlockIns(a) \subseteq Created(b)
    BY DEF Spent
  <1>1. CASE a = Genesis
    BY <1>1, UTXOSetAssumption
  <1>2. CASE a # Genesis
    <2>1. a \in Blocks /\ Parent[a] \in Blocks /\ Anc[Parent[a]] \subseteq Anc[b]
      BY <1>2, UTXOChainAssumption, ParentFacts
    <2>2. DOMAIN UtxoOf(Parent[a]) \subseteq Created(Parent[a])
      BY <2>1, UtxoOfFacts, Zenon
    <2>3. Created(Parent[a]) \subseteq Created(b) /\ BlockOuts(a) \subseteq Created(b)
      BY <2>1 DEF Created
    <2> QED
      BY <1>2, <2>2, <2>3 DEF Founded
  <1> QED
    BY <1>1, <1>2

LEMMA TxCount ==
    \A b \in Blocks : Len(Txs[b]) \in Nat /\ Len(Txs[b]) # 0 /\ Ins[Txs[b][1]] = {}
  BY UTXOSetAssumption

LEMMA PrefixOuts ==
    ASSUME NEW b \in Blocks, NEW k \in 0..Len(Txs[b])
    PROVE  OutsOf(b, k) \subseteq BlockOuts(b)
  <1>1. 1..k \subseteq 1..Len(Txs[b])
    BY UTXOSetAssumption
  <1> QED
    BY <1>1 DEF OutsOf, BlockOuts, Prefix

(* An input that is found is in the database or an output of the block, or is  *)
(* only cached.                                                                *)
LEMMA FoundInputs ==
    ASSUME NEW b \in Blocks, \A k \in 1..Len(Txs[b]) : InputsFound(b, k)
    PROVE  BlockIns(b) \subseteq DOMAIN db \cup BlockOuts(b) \cup OnlyCached(b)
  <1> SUFFICES ASSUME NEW o \in BlockIns(b)
               PROVE  o \in DOMAIN db \cup BlockOuts(b) \cup OnlyCached(b)
    OBVIOUS
  <1>1. PICK k \in 1..Len(Txs[b]) : o \in Ins[Txs[b][k]]
    BY DEF BlockIns, InsOf, Prefix
  <1>2. o \in DOMAIN cache \cup DOMAIN db \/ o \in OutsOf(b, k - 1)
    BY <1>1 DEF InputsFound, HaveUTXO
  <1>3. k - 1 \in 0..Len(Txs[b])
    BY UTXOSetAssumption
  <1> QED
    BY <1>2, <1>3, PrefixOuts DEF OnlyCached

LEMMA DInit == Init => DInv
  <1> SUFFICES ASSUME Init
               PROVE  DInv
    OBVIOUS
  <1>1. /\ Created(Genesis) = BlockOuts(Genesis) /\ Spent(Genesis) = {}
        /\ Genesis \in Blocks /\ Anc[Genesis] = {Genesis}
    BY UTXOSetAssumption, UTXOChainAssumption DEF Created, Spent
  <1>2. db = UtxoOf(Genesis)
    <2>1. DOMAIN UtxoOf(Genesis) = BlockOuts(Genesis)
      BY <1>1, UtxoOfFacts
    <2>2. \A o \in BlockOuts(Genesis) : UtxoOf(Genesis)[o] = Height[Genesis]
      BY <1>1, UtxoOfFacts, ZenonT(40)
    <2>3. UtxoOf(Genesis) = [o \in DOMAIN UtxoOf(Genesis) |-> UtxoOf(Genesis)[o]]
      BY DEF UtxoOf
    <2> QED
      BY <2>1, <2>2, <2>3 DEF Init, Entries
  <1>3. At = Genesis
    BY DEF Init, At
  <1>4. DOMAIN NoEntries = BlockIns(Genesis)
    BY UTXOSetAssumption DEF NoEntries, Entries
  <1> QED
    BY <1>1, <1>2, <1>3, <1>4 DEF Init, DInv, Compatible

(* Entries that the database does not have are compatible with it. *)
LEMMA FreshCompatible ==
    ASSUME NEW f, NEW g, NEW new, NEW S, Compatible(f, g), DOMAIN new \cap DOMAIN g = {}
    PROVE  /\ Compatible(Delete(Put(f, new), S), g)
           /\ Compatible(Put(Delete(f, S), new), g)
           /\ \A R : Compatible(Delete(Delete(Put(f, new), S), R), g)
  BY DEF Compatible, Put, Delete

LEMMA ApplyStep ==
    ASSUME DInv, NEW b \in Blocks, ApplyBlock(b)
    PROVE  DInv'
  <1> DEFINE n == Len(Txs[b])
  <1>0. /\ pc = "idle" /\ b # Genesis /\ Parent[b] = tip /\ tip' = tip /\ At = tip
        /\ tip \in Blocks /\ n \in Nat
    BY UTXOSetAssumption DEF ApplyBlock, DInv, At
  <1>1. CASE /\ \A k \in 1..n : InputsFound(b, k)
             /\ cache' \in CacheAfter(CacheApplied(b, n), BlockOuts(b), BlockIns(b))
             /\ db' = DbApplied(b)
             /\ undo' = Put(undo, [x \in {b} |-> UndoRecord(b)])
             /\ pc' = "applied" /\ cur' = b
             /\ stale' = stale \cup Phantom(OnlyCached(b))
    <2>1. At' = b
      BY <1>1 DEF At
    <2>2. /\ DOMAIN undo' = DOMAIN undo \cup {b} /\ undo'[b] = UndoRecord(b)
          /\ \A a \in DOMAIN undo \ {b} : undo'[a] = undo[a]
      BY <1>1 DEF Put
    <2>3. \A a \in DOMAIN undo' : DOMAIN undo'[a] = BlockIns(a)
      BY <2>2 DEF DInv, UndoRecord
    <2>4. ASSUME InStep'
          PROVE  /\ db' = UtxoOf(b)
                 /\ Compatible(cache', db')
                 /\ \A a \in Anc[b] \ {Genesis} : Founded(a) /\ Recorded(a)'
      <3>1. InStep /\ OnlyCached(b) = {}
        BY <1>1, <2>4 DEF InStep, Phantom
      <3>2. /\ db = UtxoOf(tip) /\ Compatible(cache, db)
            /\ \A a \in Anc[tip] \ {Genesis} : Founded(a) /\ Recorded(a)
        BY <1>0, <3>1 DEF DInv
      <3>3. Founded(b)
        BY <1>0, <1>1, <3>1, <3>2, FoundInputs DEF Founded
      <3>4. Anc[b] = Anc[tip] \cup {b} /\ b \notin Anc[tip]
        BY <1>0, UTXOChainAssumption
      <3>5. db' = UtxoOf(b)
        <4>1. Spent(tip) \subseteq Created(tip)
          BY <1>0, <3>2, SpentIsCreated
        <4> QED
          BY <1>0, <1>1, <3>2, <4>1, UtxoApplied DEF DbApplied
      <3>6. Compatible(cache', db')
        <4>1. Within(cache', CacheApplied(b, n))
          BY <1>1, CacheAfterFacts
        <4>2. Compatible(CacheApplied(b, n), DbApplied(b))
          BY <3>2, BatchCompatible DEF CacheApplied, DbApplied, BlockOuts, BlockIns
        <4> QED
          BY <1>1, <4>1, <4>2, CompatiblePart
      <3>7. ASSUME NEW o \in BlockIns(b) \ BlockOuts(b)
            PROVE  undo'[b][o] = UtxoOf(tip)[o]
        <4>1. o \in DOMAIN db
          BY <1>0, <3>2, <3>3 DEF Founded
        <4>2. EntryOf(o) = db[o]
          BY <3>2, <4>1 DEF EntryOf, Compatible
        <4> QED
          BY <2>2, <3>2, <4>1, <4>2 DEF UndoRecord, HaveUTXO
      <3>8. Recorded(b)'
        BY <1>0, <2>2, <3>7 DEF Recorded
      <3>9. \A a \in Anc[tip] \ {Genesis} : Recorded(a)'
        BY <2>2, <3>2, <3>4 DEF Recorded
      <3> QED
        BY <3>2, <3>3, <3>4, <3>5, <3>6, <3>8, <3>9
    <2> QED
      BY <1>0, <1>1, <2>1, <2>3, <2>4, Zenon DEF DInv
  <1>2. CASE /\ UNCHANGED <<db, undo, pc, cur>>
             /\ stale \subseteq stale'
             /\ \E k \in 0..n : \E R, new, passing :
                    cache' \in CacheAfter(Delete(CacheApplied(b, k), R), new, passing)
    <2>1. At' = At
      BY <1>0, <1>2 DEF At
    <2>2. ASSUME InStep'
          PROVE  Compatible(cache', db')
      <3>1. /\ db = UtxoOf(tip) /\ Compatible(cache, db)
        BY <1>0, <1>2, <2>2 DEF DInv, InStep
      <3>2. BlockOuts(b) \cap DOMAIN db = {}
        BY <1>0, <3>1, ParentFacts, UtxoOfFacts, ZenonT(40)
      <3>k. PICK k \in 0..n : \E R, new, passing :
                cache' \in CacheAfter(Delete(CacheApplied(b, k), R), new, passing)
        BY <1>2
      <3>3. PICK R, new, passing :
                cache' \in CacheAfter(Delete(CacheApplied(b, k), R), new, passing)
        BY <3>k
      <3>4. Within(cache', Delete(CacheApplied(b, k), R))
        BY <3>3, CacheAfterFacts
      <3>5. OutsOf(b, k) \cap DOMAIN db = {}
        BY <3>2, PrefixOuts
      <3>6. DOMAIN Entries(OutsOf(b, k), Height[b]) \cap DOMAIN db = {}
        BY <3>5 DEF Entries
      <3>7. Compatible(Delete(CacheApplied(b, k), R), db)
        BY <3>1, <3>6, FreshCompatible, Zenon DEF CacheApplied
      <3> QED
        BY <1>2, <3>4, <3>7, CompatiblePart
    <2>3. InStep' => InStep
      BY <1>2 DEF InStep
    <2>4. \A a : Recorded(a)' = Recorded(a)
      BY <1>2 DEF Recorded
    <2> QED
      BY <1>0, <1>2, <2>1, <2>2, <2>3, <2>4 DEF DInv
  <1>3. CASE /\ cache' \in CacheAfter(CacheApplied(b, n), BlockOuts(b), BlockIns(b))
             /\ UNCHANGED <<db, undo, pc, cur>> /\ CallFails
    <2>1. Delete(CacheApplied(b, n), {}) = CacheApplied(b, n)
      BY DEF CacheApplied, Delete
    <2>2. \E k \in 0..n : \E R, new, passing :
              cache' \in CacheAfter(Delete(CacheApplied(b, k), R), new, passing)
      <3>1. n \in 0..n
        BY <1>0
      <3>2. cache' \in CacheAfter(Delete(CacheApplied(b, n), {}), BlockOuts(b), BlockIns(b))
        BY <1>3, <2>1
      <3> QED
        BY <3>1, <3>2
    <2> QED
      BY <1>2, <1>3, <2>2 DEF CallFails
  <1>4. ASSUME NEW k \in 1..n, NEW read,
               cache' \in CacheAfter(Delete(CacheApplied(b, k - 1), read),
                                     OutsOf(b, k - 1) \ read, InsOf(b, k)),
               UNCHANGED <<db, undo, pc, cur>>, CallFails
        PROVE  DInv'
    <2>1. k - 1 \in 0..n
      BY <1>0
    <2> QED
      BY <1>2, <1>4, <2>1 DEF CallFails
  <1> QED
    BY <1>1, <1>3, <1>4, Zenon DEF ApplyBlock

LEMMA UndoStep ==
    ASSUME DInv, NEW b \in Blocks, UndoBlock(b)
    PROVE  DInv'
  <1>0. /\ pc = "idle" /\ b # Genesis /\ b = tip /\ tip' = tip /\ At = b
        /\ Parent[b] \in Blocks /\ Anc[Parent[b]] = Anc[b] \ {b} /\ b \in Anc[b]
    BY UTXOChainAssumption, UTXOSetAssumption DEF UndoBlock, DInv, At
  <1>1. /\ cache' \in CacheAfter(Put(Delete(cache, BlockOuts(b)), Restored(b)),
                                 DOMAIN Restored(b), {})
        /\ stale \subseteq stale'
    BY DEF UndoBlock, CallFails
  <1>2. Within(cache', Put(Delete(cache, BlockOuts(b)), Restored(b)))
    BY <1>1, CacheAfterFacts
  <1>3. ASSUME InStep'
        PROVE  /\ db = UtxoOf(b) /\ Compatible(cache, db)
               /\ \A a \in Anc[b] \ {Genesis} : Founded(a) /\ Recorded(a)
               /\ Restored(b) = undo[b] /\ DOMAIN undo[b] = BlockIns(b)
    BY <1>0, <1>1, <1>3 DEF DInv, InStep, Restored, Recorded
  <1>4. CASE /\ db' = Put(Delete(db, BlockOuts(b)), Restored(b))
             /\ undo' = Delete(undo, {b})
             /\ pc' = "undone" /\ cur' = b
             /\ stale' = stale \cup Phantom(BlockIns(b) \cap BlockOuts(b))
    <2>1. At' = Parent[b]
      BY <1>4 DEF At
    <2>2. /\ DOMAIN undo' = DOMAIN undo \ {b}
          /\ \A a \in DOMAIN undo' : undo'[a] = undo[a]
      BY <1>4 DEF Delete
    <2>3. ASSUME InStep'
          PROVE  /\ db' = UtxoOf(Parent[b])
                 /\ Compatible(cache', db')
                 /\ \A a \in Anc[Parent[b]] \ {Genesis} : Founded(a) /\ Recorded(a)'
      <3>1. BlockIns(b) \cap BlockOuts(b) = {}
        BY <1>4, <2>3 DEF InStep, Phantom
      <3>2. BlockIns(b) \subseteq DOMAIN UtxoOf(Parent[b])
        BY <1>0, <1>3, <2>3, <3>1 DEF Founded
      <3>3. \A o \in BlockIns(b) : undo[b][o] = UtxoOf(Parent[b])[o]
        BY <1>0, <1>3, <2>3, <3>1 DEF Recorded
      <3>4. Spent(Parent[b]) \subseteq Created(Parent[b])
        BY <1>0, <1>3, <2>3, SpentIsCreated
      <3>5. db' = UtxoOf(Parent[b])
        BY <1>0, <1>3, <1>4, <2>3, <3>1, <3>2, <3>3, <3>4, UtxoUndone
      <3>6. Compatible(Put(Delete(cache, BlockOuts(b)), Restored(b)), db')
        BY <1>3, <1>4, <2>3, BatchCompatible
      <3>7. Compatible(cache', db')
        BY <1>2, <3>6, CompatiblePart
      <3>8. \A a \in Anc[Parent[b]] \ {Genesis} : Founded(a) /\ Recorded(a)'
        BY <1>0, <1>3, <2>2, <2>3 DEF Recorded
      <3> QED
        BY <3>5, <3>7, <3>8, Zenon
    <2> QED
      BY <1>0, <1>4, <2>1, <2>2, <2>3, Zenon DEF DInv
  <1>5. CASE UNCHANGED <<db, undo, pc, cur>>
    <2>1. At' = At
      BY <1>0, <1>5 DEF At
    <2>2. ASSUME InStep'
          PROVE  Compatible(cache', db')
      <3>0. BlockIns(b) \subseteq Spent(b)
        BY <1>0 DEF Spent
      <3>1. BlockIns(b) \cap DOMAIN db = {}
        BY <1>3, <2>2, <3>0, UtxoOfFacts, Zenon
      <3>2. Compatible(Put(Delete(cache, BlockOuts(b)), Restored(b)), db)
        BY <1>3, <2>2, <3>1, FreshCompatible
      <3> QED
        BY <1>2, <1>5, <3>2, CompatiblePart
    <2>3. \A a : Recorded(a)' = Recorded(a)
      BY <1>5 DEF Recorded
    <2> QED
      BY <1>0, <1>1, <1>5, <2>1, <2>2, <2>3 DEF DInv, InStep
  <1> QED
    BY <1>4, <1>5, ZenonT(40) DEF UndoBlock

(* The actions that do not write the database. *)
LEMMA OtherSteps ==
    ASSUME DInv,
           (\E o \in Outpoints : GetUTXO(o)) \/ Flush \/ Reopen \/ Crash \/ UNCHANGED vars
    PROVE  DInv'
  <1>0. UNCHANGED <<db, undo>>
    BY Zenon DEF GetUTXO, Flush, Reopen, Crash, vars
  <1>1. \A a : Recorded(a)' = Recorded(a)
    BY <1>0 DEF Recorded
  <1>2. ASSUME NEW o \in Outpoints, GetUTXO(o)
        PROVE  DInv'
    <2>1. UNCHANGED <<tip, cur, pc, stale>> /\ At' = At /\ (InStep' <=> InStep)
      BY <1>2 DEF GetUTXO, At, InStep
    <2>2. Within(cache', Put(cache, Entries({o}, db[o])))
      BY <1>2, CacheAfterFacts, Zenon DEF GetUTXO
    <2>3. Compatible(cache, db) => Compatible(Put(cache, Entries({o}, db[o])), db)
      BY DEF Compatible, Put, Entries
    <2> QED
      BY <1>0, <1>1, <2>1, <2>2, <2>3, CompatiblePart DEF DInv
  <1>3. CASE Flush
    <2>1. /\ tip' \in Blocks /\ cur' \in Blocks /\ pc' = "idle"
      BY <1>3, UTXOSetAssumption, ZenonT(40) DEF Flush, DInv
    <2>2. InStep' => At' = At /\ InStep /\ cache' = cache
      BY <1>3 DEF Flush, At, InStep, DInv
    <2> QED
      BY <1>0, <1>1, <2>1, <2>2, ZenonT(40) DEF DInv
  <1>4. CASE Reopen \/ Crash
    <2>1. tip' = tip /\ cur' \in Blocks /\ pc' = "idle" /\ cache' = NoEntries
      BY <1>4, UTXOSetAssumption DEF Reopen, Crash, DInv
    <2>2. InStep' => At' = At /\ InStep
      BY <1>4 DEF Reopen, Crash, At, InStep, DInv
    <2>3. Compatible(cache', db')
      BY <2>1 DEF Compatible, NoEntries, Entries
    <2> QED
      BY <1>0, <1>1, <2>1, <2>2, <2>3 DEF DInv
  <1>5. CASE UNCHANGED vars
    BY <1>1, <1>5 DEF vars, DInv, At, InStep, Compatible
  <1> QED
    BY <1>2, <1>3, <1>4, <1>5

LEMMA DNext ==
    ASSUME DInv, [Next]_vars
    PROVE  DInv'
  BY ApplyStep, UndoStep, OtherSteps DEF Next

LEMMA DInvHolds == Spec => []DInv
  BY DInit, DNext, PTL DEF Spec

(* Through applied, undone and re-applied blocks, failed calls, restarts and   *)
(* deaths the database is the set of unspent outputs of the tip's chain, each  *)
(* with the height that created it, unless a batch was written whose call did  *)
(* not end well or a phantom was let in.                                       *)
THEOREM DatabaseIsChainsHolds == Spec => []DatabaseIsChains
  <1>1. DInv => DatabaseIsChains
    BY DEF DInv, DatabaseIsChains, InStep, At
  <1> QED
    BY <1>1, DInvHolds, PTL

(* CUTXOSet implements the ledger: every batch it writes applies or undoes one *)
(* whole block, and nothing else changes the database.                         *)
THEOREM ImplementsLedgerHolds == Spec => ImplementsLedger
  <1>1. Init => Ledger!Init
    BY UTXOSetAssumption DEF Init, Ledger!Init, Entries
  <1>2. ASSUME DInv, [Next]_vars
        PROVE  [Ledger!Next \/ "phantom" \in stale']_<<DOMAIN db, DOMAIN undo>>
    <2> SUFFICES ASSUME Next, "phantom" \notin stale', ~UNCHANGED <<DOMAIN db, DOMAIN undo>>
                 PROVE  Ledger!Next
      BY <1>2 DEF vars
    <2>1. ~Flush /\ ~Reopen /\ ~Crash /\ ~(\E o \in Outpoints : GetUTXO(o))
      BY Zenon DEF Flush, Reopen, Crash, GetUTXO
    <2>2. ASSUME NEW b \in Blocks, ApplyBlock(b)
          PROVE  Ledger!Apply(b)
      <3>1. /\ \A k \in 1..Len(Txs[b]) : InputsFound(b, k)
            /\ db' = DbApplied(b) /\ undo' = Put(undo, [x \in {b} |-> UndoRecord(b)])
            /\ stale' = stale \cup Phantom(OnlyCached(b))
        BY <2>2, Zenon DEF ApplyBlock
      <3>2. OnlyCached(b) = {}
        BY <3>1 DEF Phantom
      <3>3. BlockIns(b) \subseteq DOMAIN db \cup BlockOuts(b)
        BY <3>1, <3>2, FoundInputs
      <3>4. DOMAIN db' = (DOMAIN db \cup BlockOuts(b)) \ BlockIns(b)
        BY <3>1 DEF DbApplied, Delete, Put, Entries
      <3>5. DOMAIN undo' = DOMAIN undo \cup {b}
        BY <3>1 DEF Put
      <3> QED
        BY <3>3, <3>4, <3>5 DEF Ledger!Apply
    <2>3. ASSUME NEW b \in Blocks, UndoBlock(b)
          PROVE  Ledger!Undo(b)
      <3>1. /\ db' = Put(Delete(db, BlockOuts(b)), Restored(b)) /\ undo' = Delete(undo, {b})
            /\ stale' = stale \cup Phantom(BlockIns(b) \cap BlockOuts(b))
            /\ b \in DOMAIN undo \/ CoinbaseOnly(b)
        BY <2>3, Zenon DEF UndoBlock
      <3>2. BlockIns(b) \cap BlockOuts(b) = {}
        BY <3>1 DEF Phantom
      <3>3. CoinbaseOnly(b) => BlockIns(b) = {}
        <4>1. \A i \in 1..Len(Txs[b]) : i = 1 \/ i \in 2..Len(Txs[b])
          BY TxCount
        <4>2. Ins[Txs[b][1]] = {}
          BY TxCount
        <4>3. CoinbaseOnly(b) => \A i \in 1..Len(Txs[b]) : Ins[Txs[b][i]] = {}
          BY <4>1, <4>2 DEF CoinbaseOnly
        <4>4. CoinbaseOnly(b) => \A t \in Prefix(b, Len(Txs[b])) : Ins[t] = {}
          BY <4>3 DEF Prefix
        <4> QED
          BY <4>4 DEF BlockIns, InsOf
      <3>4. DOMAIN Restored(b) = BlockIns(b)
        BY <1>2, <3>1, <3>3 DEF Restored, DInv, NoEntries, Entries
      <3>5. DOMAIN db' = (DOMAIN db \ BlockOuts(b)) \cup (BlockIns(b) \ BlockOuts(b))
        BY <3>1, <3>2, <3>4 DEF Put, Delete
      <3>6. DOMAIN undo' = DOMAIN undo \ {b}
        BY <3>1 DEF Delete
      <3> QED
        BY <3>1, <3>3, <3>5, <3>6 DEF Ledger!Undo
    <2> QED
      BY <2>1, <2>2, <2>3 DEF Next, Ledger!Next
  <1> QED
    BY <1>1, <1>2, DInvHolds, PTL DEF Spec, ImplementsLedger

-----------------------------------------------------------------------------
(* Induction, with a set of numbers in the place of a predicate. *)

(* A nonempty set of finite sets has a member with no other member inside it. *)
LEMMA LeastFiniteSet ==
    ASSUME NEW S, NEW T \in SUBSET FiniteSubsetsOf(S), T # {}
    PROVE  \E m \in T : \A n \in T : n \subseteq m => n = m
  <1>1. \E m \in T : \A n \in T : ~(<<n, m>> \in StrictSubsetOrdering(S))
    BY WFMin, FS_StrictSubsetOrderingWellFounded
  <1>2. \A n \in T : n \in SUBSET S
    BY DEF FiniteSubsetsOf
  <1> QED BY <1>1, <1>2, Zenon DEF StrictSubsetOrdering

LEMMA Induction ==
    ASSUME NEW S \in SUBSET Nat, 0 \in S, \A n \in S : n + 1 \in S
    PROVE  \A n \in Nat : n \in S
  <1> SUFFICES ASSUME NEW m \in Nat, m \notin S
               PROVE  FALSE
    OBVIOUS
  <1> DEFINE T == {0..n : n \in Nat \ S}
  <1>1. T \in SUBSET FiniteSubsetsOf(Nat)
    <2>1. \A n \in Nat : IsFiniteSet(0..n)
      BY FS_Interval
    <2> QED BY <2>1 DEF FiniteSubsetsOf
  <1>2. T # {}
    OBVIOUS
  <1>3. PICK X \in T : \A Y \in T : Y \subseteq X => Y = X
    <2> HIDE DEF T
    <2> QED BY <1>1, <1>2, LeastFiniteSet
  <1>4. PICK n \in Nat \ S : X = 0..n
    OBVIOUS
  <1>5. n # 0 /\ n - 1 \in Nat
    OBVIOUS
  <1>6. 0..(n - 1) \subseteq 0..n /\ 0..(n - 1) # 0..n
    <2>1. n \in 0..n /\ n \notin 0..(n - 1)
      OBVIOUS
    <2>2. 0..(n - 1) \subseteq 0..n
      OBVIOUS
    <2> QED BY <2>1, <2>2
  <1>7. n - 1 \in S
    BY <1>3, <1>4, <1>5, <1>6, Zenon
  <1>8. (n - 1) + 1 \in S
    BY <1>7
  <1> QED BY <1>8

-----------------------------------------------------------------------------
(* The count after each transaction of b. *)
IsCount(b, k, f) ==
    f = [i \in 0..k |-> IF i = 0 THEN count
                        ELSE Less(f[i - 1], Cardinality(Ins[Txs[b][i]]))
                                 + Cardinality(Outs[Txs[b][i]])]

LEMMA CountStep ==
    ASSUME NEW b, NEW k \in Nat, NEW f, IsCount(b, k, f)
    PROVE  /\ f[0] = count
           /\ \A i \in 1..k : f[i] = Less(f[i - 1], Cardinality(Ins[Txs[b][i]]))
                                      + Cardinality(Outs[Txs[b][i]])
  <1> DEFINE e(i) == Less(f[i - 1], Cardinality(Ins[Txs[b][i]]))
                         + Cardinality(Outs[Txs[b][i]])
  <1>1. f = [i \in 0..k |-> IF i = 0 THEN count ELSE e(i)]
    BY DEF IsCount
  <1> HIDE DEF e
  <1>2. \A i \in 0..k : f[i] = IF i = 0 THEN count ELSE e(i)
    BY <1>1, Zenon
  <1>3. 0 \in 0..k /\ \A i \in 1..k : i \in 0..k /\ i # 0
    OBVIOUS
  <1>4. \A i \in 1..k : f[i] = e(i)
    BY <1>2, <1>3, Zenon
  <1> QED BY <1>2, <1>3, <1>4 DEF e

LEMMA CountExists ==
    ASSUME NEW b
    PROVE  \A k \in Nat : \E f : IsCount(b, k, f)
  <1> DEFINE S == {k \in Nat : \E f : IsCount(b, k, f)}
  <1>1. 0 \in S
    <2> DEFINE f == [i \in 0..0 |-> count]
    <2>1. IsCount(b, 0, f)
      BY DEF IsCount
    <2> QED BY <2>1
  <1>2. ASSUME NEW k \in S PROVE k + 1 \in S
    <2>1. PICK f : IsCount(b, k, f)
      OBVIOUS
    <2> DEFINE g == [i \in 0..(k + 1) |->
                        IF i <= k THEN f[i]
                        ELSE Less(f[k], Cardinality(Ins[Txs[b][k + 1]]))
                                 + Cardinality(Outs[Txs[b][k + 1]])]
               h(i) == Less(g[i - 1], Cardinality(Ins[Txs[b][i]]))
                           + Cardinality(Outs[Txs[b][i]])
    <2>2. \A i \in 0..k : g[i] = f[i]
      OBVIOUS
    <2>3. g[0] = count
      BY <2>1, <2>2 DEF IsCount
    <2>4. ASSUME NEW i \in 0..(k + 1), i # 0 PROVE g[i] = h(i)
      <3>1. CASE i <= k
        <4>1. f[i] = Less(f[i - 1], Cardinality(Ins[Txs[b][i]]))
                         + Cardinality(Outs[Txs[b][i]])
          <5>1. i \in 1..k
            BY <2>4, <3>1
          <5> QED BY <2>1, <5>1, CountStep
        <4>2. g[i] = f[i] /\ g[i - 1] = f[i - 1]
          BY <2>2, <2>4, <3>1
        <4> QED BY <4>1, <4>2, Zenon
      <3>2. CASE i = k + 1
        <4>1. g[i] = Less(f[k], Cardinality(Ins[Txs[b][k + 1]]))
                         + Cardinality(Outs[Txs[b][k + 1]])
          BY <3>2
        <4>2. g[k] = f[k] /\ i - 1 = k
          BY <2>2, <3>2
        <4> QED BY <3>2, <4>1, <4>2
      <3> QED BY <3>1, <3>2
    <2>5. IsCount(b, k + 1, g)
      <3>1. g = [i \in 0..(k + 1) |-> g[i]]
        OBVIOUS
      <3> HIDE DEF g
      <3>2. \A i \in 0..(k + 1) : g[i] = IF i = 0 THEN count ELSE h(i)
        BY <2>3, <2>4
      <3>3. [i \in 0..(k + 1) |-> g[i]] = [i \in 0..(k + 1) |-> IF i = 0 THEN count ELSE h(i)]
        BY <3>2
      <3> QED BY <3>1, <3>3, Zenon DEF IsCount
    <2> QED BY <2>5
  <1> HIDE DEF S
  <1>3. \A k \in Nat : k \in S
    <2>1. S \in SUBSET Nat
      BY DEF S
    <2> QED BY <1>1, <1>2, <2>1, Induction
  <1> QED BY <1>3 DEF S

LEMMA CountIsRecursive ==
    ASSUME NEW b, NEW k \in Nat
    PROVE  \E f : IsCount(b, k, f) /\ CountApplied(b, k) = f[k]
  <1>1. \E f : IsCount(b, k, f)
    BY CountExists
  <1> QED BY <1>1, Zenon DEF CountApplied, IsCount

LEMMA CountUnfolds ==
    ASSUME NEW b, NEW k \in Nat
    PROVE  \E f : /\ CountApplied(b, k) = f[k] /\ f[0] = count
                  /\ \A i \in 1..k : f[i] = Less(f[i - 1], Cardinality(Ins[Txs[b][i]]))
                                             + Cardinality(Outs[Txs[b][i]])
  <1>1. PICK f : IsCount(b, k, f) /\ CountApplied(b, k) = f[k]
    BY CountIsRecursive
  <1>2. /\ f[0] = count
        /\ \A i \in 1..k : f[i] = Less(f[i - 1], Cardinality(Ins[Txs[b][i]]))
                                   + Cardinality(Outs[Txs[b][i]])
    BY <1>1, CountStep
  <1> QED BY <1>1, <1>2

-----------------------------------------------------------------------------
(* The sets a block touches are finite, and so are their parts. *)
LEMMA BlockSets ==
    ASSUME NEW b \in Blocks
    PROVE  /\ IsFiniteSet(BlockIns(b)) /\ IsFiniteSet(BlockOuts(b))
           /\ BlockIns(b) \subseteq Outpoints /\ BlockOuts(b) \subseteq Outpoints
           /\ \A k \in 0..Len(Txs[b]) : /\ InsOf(b, k) \subseteq BlockIns(b)
                                        /\ OutsOf(b, k) \subseteq BlockOuts(b)
           /\ \A k \in 1..Len(Txs[b]) : /\ Ins[Txs[b][k]] \subseteq BlockIns(b)
                                        /\ Outs[Txs[b][k]] \subseteq BlockOuts(b)
                                        /\ InsOf(b, k) = InsOf(b, k - 1) \cup Ins[Txs[b][k]]
                                        /\ OutsOf(b, k) = OutsOf(b, k - 1) \cup Outs[Txs[b][k]]
  <1>1. IsFiniteSet(BlockIns(b)) /\ IsFiniteSet(BlockOuts(b))
    <2>1. IsFiniteSet(BlockIns(b) \cup BlockOuts(b))
      BY UTXOSetAssumption
    <2>2. /\ BlockIns(b) \in SUBSET (BlockIns(b) \cup BlockOuts(b))
          /\ BlockOuts(b) \in SUBSET (BlockIns(b) \cup BlockOuts(b))
      OBVIOUS
    <2> QED BY <2>1, <2>2, FS_Subset
  <1>2. Len(Txs[b]) \in Nat
    BY UTXOSetAssumption
  <1>3. ASSUME NEW k \in 0..Len(Txs[b])
        PROVE  InsOf(b, k) \subseteq BlockIns(b) /\ OutsOf(b, k) \subseteq BlockOuts(b)
    <2>1. 1..k \subseteq 1..Len(Txs[b])
      BY <1>2
    <2> QED BY <2>1 DEF InsOf, OutsOf, BlockIns, BlockOuts, Prefix
  <1>4. ASSUME NEW k \in 1..Len(Txs[b])
        PROVE  /\ Ins[Txs[b][k]] \subseteq BlockIns(b)
               /\ Outs[Txs[b][k]] \subseteq BlockOuts(b)
               /\ InsOf(b, k) = InsOf(b, k - 1) \cup Ins[Txs[b][k]]
               /\ OutsOf(b, k) = OutsOf(b, k - 1) \cup Outs[Txs[b][k]]
    <2>1. 1..k = 1..(k - 1) \cup {k}
      BY <1>2
    <2>2. Prefix(b, k) = Prefix(b, k - 1) \cup {Txs[b][k]}
      BY <2>1 DEF Prefix
    <2>3. InsOf(b, k) = InsOf(b, k - 1) \cup Ins[Txs[b][k]]
      BY <2>2 DEF InsOf
    <2>4. OutsOf(b, k) = OutsOf(b, k - 1) \cup Outs[Txs[b][k]]
      BY <2>2 DEF OutsOf
    <2>5. Ins[Txs[b][k]] \subseteq BlockIns(b) /\ Outs[Txs[b][k]] \subseteq BlockOuts(b)
      BY <1>2 DEF InsOf, OutsOf, BlockIns, BlockOuts, Prefix
    <2> QED BY <2>3, <2>4, <2>5
  <1>5. BlockIns(b) \subseteq Outpoints /\ BlockOuts(b) \subseteq Outpoints
    BY DEF Outpoints
  <1> QED BY <1>1, <1>3, <1>4, <1>5

LEMMA LessIsNat ==
    ASSUME NEW n \in Nat, NEW k \in Nat
    PROVE  Less(n, k) \in Nat
  BY DEF Less

LEMMA TxSizes ==
    ASSUME NEW b \in Blocks, NEW i \in 1..Len(Txs[b])
    PROVE  /\ IsFiniteSet(Ins[Txs[b][i]]) /\ IsFiniteSet(Outs[Txs[b][i]])
           /\ Cardinality(Ins[Txs[b][i]]) \in Nat /\ Cardinality(Outs[Txs[b][i]]) \in Nat
  <1>1. IsFiniteSet(Ins[Txs[b][i]]) /\ IsFiniteSet(Outs[Txs[b][i]])
    BY BlockSets, FS_Subset
  <1> QED BY <1>1, FS_CardinalityType

LEMMA CountIsNat ==
    ASSUME count \in Nat, NEW b \in Blocks, NEW k \in 0..Len(Txs[b])
    PROVE  CountApplied(b, k) \in Nat
  <1>0. k \in Nat /\ \A i \in 1..k : i \in 1..Len(Txs[b])
    BY UTXOSetAssumption
  <1>1. PICK f : IsCount(b, k, f) /\ CountApplied(b, k) = f[k]
    BY <1>0, CountIsRecursive
  <1>2. /\ f[0] = count
        /\ \A i \in 1..k : f[i] = Less(f[i - 1], Cardinality(Ins[Txs[b][i]]))
                                   + Cardinality(Outs[Txs[b][i]])
    BY <1>0, <1>1, CountStep
  <1> DEFINE S == {i \in Nat : i <= k => f[i] \in Nat}
  <1>3. 0 \in S
    BY <1>2
  <1>4. ASSUME NEW i \in S PROVE i + 1 \in S
    <2> SUFFICES ASSUME i + 1 <= k PROVE f[i + 1] \in Nat
      OBVIOUS
    <2>1. i + 1 \in 1..k /\ f[i] \in Nat /\ (i + 1) - 1 = i
      BY <1>0
    <2>2. Cardinality(Ins[Txs[b][i + 1]]) \in Nat /\ Cardinality(Outs[Txs[b][i + 1]]) \in Nat
      BY <1>0, <2>1, TxSizes
    <2>3. f[i + 1] = Less(f[i], Cardinality(Ins[Txs[b][i + 1]]))
                         + Cardinality(Outs[Txs[b][i + 1]])
      BY <1>2, <2>1
    <2>4. Less(f[i], Cardinality(Ins[Txs[b][i + 1]])) \in Nat
      BY <2>1, <2>2, LessIsNat, Zenon
    <2> QED BY <2>2, <2>3, <2>4
  <1>5. k \in S
    <2> HIDE DEF S
    <2>1. S \in SUBSET Nat
      BY DEF S
    <2> QED BY <1>0, <1>3, <1>4, <2>1, Induction
  <1> QED BY <1>0, <1>1, <1>5

-----------------------------------------------------------------------------
(* Types.  The domains are finite, which the limit of the cache needs. *)
Finite == IsFiniteSet(DOMAIN db) /\ IsFiniteSet(DOMAIN cache)

LEMMA CacheFits ==
    ASSUME NEW full, NEW fresh, NEW passing, NEW c \in CacheAfter(full, fresh, passing),
           IsFiniteSet(DOMAIN full), IsFiniteSet(passing)
    PROVE  /\ DOMAIN c \subseteq DOMAIN full
           /\ IsFiniteSet(DOMAIN c) /\ Cardinality(DOMAIN c) <= MaxCacheSize
  <1>0. MaxCacheSize \in Nat
    BY UTXOSetAssumption
  <1>1. DOMAIN c \in SUBSET DOMAIN full
    BY DEF CacheAfter
  <1>2. IsFiniteSet(DOMAIN c)
    BY <1>1, FS_Subset
  <1>3. CASE Cardinality(DOMAIN full \cup passing) <= MaxCacheSize
    <2>1. IsFiniteSet(DOMAIN full \cup passing)
      BY FS_Union, Zenon
    <2>2. DOMAIN c \in SUBSET (DOMAIN full \cup passing)
      BY <1>1
    <2>3. Cardinality(DOMAIN c) <= Cardinality(DOMAIN full \cup passing)
      BY <2>1, <2>2, FS_Subset
    <2>4. Cardinality(DOMAIN c) \in Nat /\ Cardinality(DOMAIN full \cup passing) \in Nat
      BY <1>2, <2>1, FS_CardinalityType
    <2> QED BY <1>0, <1>1, <1>2, <1>3, <2>3, <2>4
  <1>4. CASE ~(Cardinality(DOMAIN full \cup passing) <= MaxCacheSize)
    <2>1. Cardinality(DOMAIN c) \in
              (MaxCacheSize - Cardinality(passing))..MaxCacheSize
      BY <1>4 DEF CacheAfter
    <2>2. Cardinality(passing) \in Nat
      BY FS_CardinalityType
    <2> QED BY <1>0, <1>1, <1>2, <2>1, <2>2
  <1> QED BY <1>3, <1>4

LEMMA FiniteParts ==
    /\ \A S, T : IsFiniteSet(S) /\ IsFiniteSet(T) => IsFiniteSet(S \cup T)
    /\ \A S, T : IsFiniteSet(S) => IsFiniteSet(S \ T)
  BY FS_Union, FS_Difference, Zenon

LEMMA ApplyTypes ==
    ASSUME TypeOK, Finite, DInv, NEW b \in Blocks, ApplyBlock(b)
    PROVE  TypeOK' /\ Finite'
  <1> DEFINE n == Len(Txs[b])
  <1>0. n \in Nat /\ n \in 0..n
    BY UTXOSetAssumption
  <1>1. /\ IsFiniteSet(BlockIns(b)) /\ IsFiniteSet(BlockOuts(b))
        /\ BlockIns(b) \subseteq Outpoints /\ BlockOuts(b) \subseteq Outpoints
    BY BlockSets
  <1>a. /\ db' = db \/ db' = DbApplied(b)
        /\ undo' = undo \/ undo' = Put(undo, [x \in {b} |-> UndoRecord(b)])
        /\ cur' = cur \/ cur' = b
        /\ pc' = pc \/ pc' = "applied"
        /\ stale' = stale \cup Phantom(OnlyCached(b)) \/ stale' = stale \cup {"cache", "count"}
        /\ faults' = faults \/ (faults < MaxFaults /\ faults' = faults + 1)
        /\ UNCHANGED <<diskCount, tip, crashes>> /\ count' <= MaxCount
    BY Zenon DEF ApplyBlock, CallFails
  <1>2. IsFiniteSet(DOMAIN db') /\ DOMAIN db' \subseteq Outpoints
    <2>1. DOMAIN db' = DOMAIN db
              \/ DOMAIN db' = (DOMAIN db \cup BlockOuts(b)) \ BlockIns(b)
      BY <1>a DEF DbApplied, Put, Delete, Entries
    <2>2. IsFiniteSet(DOMAIN db \cup BlockOuts(b))
      BY <1>1, FiniteParts DEF Finite
    <2> QED BY <1>1, <2>1, <2>2, FiniteParts DEF Finite, TypeOK
  <1>3. ASSUME NEW k \in 0..n, NEW read, NEW fresh, NEW passing, IsFiniteSet(passing),
               \/ cache' \in CacheAfter(CacheApplied(b, k), fresh, passing)
               \/ cache' \in CacheAfter(Delete(CacheApplied(b, k), read), fresh, passing)
        PROVE  /\ DOMAIN cache' \subseteq Outpoints /\ IsFiniteSet(DOMAIN cache')
               /\ Cardinality(DOMAIN cache') <= MaxCacheSize
    <2>1. DOMAIN CacheApplied(b, k) = (DOMAIN cache \cup OutsOf(b, k)) \ InsOf(b, k)
      BY DEF CacheApplied, Put, Delete, Entries
    <2>2. OutsOf(b, k) \subseteq BlockOuts(b)
      BY <1>3, BlockSets, Zenon
    <2>3. IsFiniteSet(OutsOf(b, k))
      BY <1>1, <2>2, FS_Subset
    <2>4. IsFiniteSet(DOMAIN cache \cup OutsOf(b, k))
      BY <2>3, FiniteParts DEF Finite
    <2>a. DOMAIN Delete(CacheApplied(b, k), read) = DOMAIN CacheApplied(b, k) \ read
      BY DEF Delete
    <2>b. IsFiniteSet((DOMAIN cache \cup OutsOf(b, k)) \ InsOf(b, k))
      BY <2>4, FiniteParts, Zenon
    <2>c. IsFiniteSet(DOMAIN CacheApplied(b, k))
      BY <2>1, <2>b
    <2>d. IsFiniteSet(DOMAIN CacheApplied(b, k) \ read)
      BY <2>c, FiniteParts, ZenonT(40)
    <2>5. /\ IsFiniteSet(DOMAIN CacheApplied(b, k))
          /\ IsFiniteSet(DOMAIN Delete(CacheApplied(b, k), read))
      BY <2>a, <2>c, <2>d
    <2>6. /\ DOMAIN CacheApplied(b, k) \subseteq Outpoints
          /\ DOMAIN Delete(CacheApplied(b, k), read) \subseteq Outpoints
      BY <1>1, <2>1, <2>2, <2>a DEF TypeOK
    <2> QED BY <1>3, <2>5, <2>6, CacheFits, Zenon
  <1>4. /\ DOMAIN cache' \subseteq Outpoints /\ IsFiniteSet(DOMAIN cache')
        /\ Cardinality(DOMAIN cache') <= MaxCacheSize
    <2>1. CASE cache' \in CacheAfter(CacheApplied(b, n), BlockOuts(b), BlockIns(b))
      BY <1>0, <1>1, <1>3, <2>1, Zenon
    <2>2. ASSUME NEW k \in 1..n, NEW read,
                 cache' \in CacheAfter(Delete(CacheApplied(b, k - 1), read),
                                       OutsOf(b, k - 1) \ read, InsOf(b, k))
          PROVE  /\ DOMAIN cache' \subseteq Outpoints /\ IsFiniteSet(DOMAIN cache')
                 /\ Cardinality(DOMAIN cache') <= MaxCacheSize
      <3>1. k - 1 \in 0..n /\ k \in 0..n
        BY <1>0
      <3>2. IsFiniteSet(InsOf(b, k))
        BY <1>1, <3>1, BlockSets, FS_Subset
      <3> QED BY <1>3, <2>2, <3>1, <3>2
    <2> QED BY <2>1, <2>2, ZenonT(40) DEF ApplyBlock
  <1>5. count \in Nat /\ MaxCount \in Nat
    BY UTXOSetAssumption DEF TypeOK
  <1>6. count' \in Nat
    <2>1. CASE count' = CountApplied(b, n)
      BY <1>0, <1>5, <2>1, CountIsNat
    <2>2. ASSUME NEW k \in 1..n, NEW read \in SUBSET Ins[Txs[b][k]],
                 count' = Less(CountApplied(b, k - 1), Cardinality(read))
          PROVE  count' \in Nat
      <3>1. k - 1 \in 0..n
        BY <1>0
      <3>2. CountApplied(b, k - 1) \in Nat
        BY <1>5, <3>1, CountIsNat
      <3>3. IsFiniteSet(read)
        BY TxSizes, FS_Subset
      <3>4. Cardinality(read) \in Nat
        BY <3>3, FS_CardinalityType
      <3> QED BY <2>2, <3>2, <3>4, LessIsNat
    <2> QED BY <2>1, <2>2, Zenon DEF ApplyBlock
  <1>7. count' \in 0..MaxCount
    BY <1>5, <1>6, <1>a
  <1>8. DOMAIN undo' \subseteq Blocks
    <2>1. DOMAIN undo' = DOMAIN undo \/ DOMAIN undo' = DOMAIN undo \cup {b}
      BY <1>a DEF Put
    <2> QED BY <2>1 DEF TypeOK
  <1>9. /\ tip' \in Blocks /\ cur' \in Blocks /\ pc' \in {"idle", "applied", "undone"}
        /\ stale' \subseteq {"cache", "count", "db", "phantom"}
        /\ faults' \in 0..MaxFaults /\ crashes' \in 0..MaxCrashes
        /\ diskCount' \in 0..MaxCount
    <2>1. MaxFaults \in Nat
      BY UTXOSetAssumption
    <2>2. stale' \subseteq {"cache", "count", "db", "phantom"}
      BY <1>a, Zenon DEF TypeOK, Phantom
    <2>3. faults' \in 0..MaxFaults
      BY <1>a, <2>1 DEF TypeOK
    <2> QED BY <1>a, <2>2, <2>3, Zenon DEF TypeOK
  <1> QED BY <1>2, <1>4, <1>7, <1>8, <1>9 DEF TypeOK, Finite

LEMMA UndoTypes ==
    ASSUME TypeOK, Finite, DInv, NEW b \in Blocks, UndoBlock(b)
    PROVE  TypeOK' /\ Finite'
  <1>a. /\ db' = db \/ db' = Put(Delete(db, BlockOuts(b)), Restored(b))
        /\ undo' = undo \/ undo' = Delete(undo, {b})
        /\ cur' = cur \/ cur' = b
        /\ pc' = pc \/ pc' = "undone"
        /\ \/ stale' = stale \cup Phantom(BlockIns(b) \cap BlockOuts(b))
           \/ stale' = stale \cup {"cache", "count"}
        /\ faults' = faults \/ (faults < MaxFaults /\ faults' = faults + 1)
        /\ UNCHANGED <<diskCount, tip, crashes>>
        /\ count' = CountUndone(b) /\ count' <= MaxCount
        /\ cache' \in CacheAfter(Put(Delete(cache, BlockOuts(b)), Restored(b)),
                                 DOMAIN Restored(b), {})
    BY Zenon DEF UndoBlock, CallFails
  <1>1. /\ IsFiniteSet(BlockIns(b)) /\ IsFiniteSet(BlockOuts(b))
        /\ BlockIns(b) \subseteq Outpoints /\ BlockOuts(b) \subseteq Outpoints
    BY BlockSets
  <1>2. DOMAIN Restored(b) = BlockIns(b) \/ DOMAIN Restored(b) = {}
    BY DEF DInv, Restored, NoEntries, Entries
  <1>3. IsFiniteSet(DOMAIN Restored(b)) /\ DOMAIN Restored(b) \subseteq Outpoints
    BY <1>1, <1>2, FS_EmptySet
  <1>4. ASSUME NEW f, IsFiniteSet(DOMAIN f), DOMAIN f \subseteq Outpoints
        PROVE  /\ IsFiniteSet(DOMAIN Put(Delete(f, BlockOuts(b)), Restored(b)))
               /\ DOMAIN Put(Delete(f, BlockOuts(b)), Restored(b)) \subseteq Outpoints
    <2>1. DOMAIN Put(Delete(f, BlockOuts(b)), Restored(b))
              = (DOMAIN f \ BlockOuts(b)) \cup DOMAIN Restored(b)
      BY DEF Put, Delete
    <2>2. IsFiniteSet((DOMAIN f \ BlockOuts(b)) \cup DOMAIN Restored(b))
      BY <1>3, <1>4, FiniteParts, Zenon
    <2> QED BY <1>3, <1>4, <2>1, <2>2
  <1>5. IsFiniteSet(DOMAIN db') /\ DOMAIN db' \subseteq Outpoints
    BY <1>a, <1>4 DEF Finite, TypeOK
  <1>6. /\ DOMAIN cache' \subseteq Outpoints /\ IsFiniteSet(DOMAIN cache')
        /\ Cardinality(DOMAIN cache') <= MaxCacheSize
    <2>1. /\ IsFiniteSet(DOMAIN Put(Delete(cache, BlockOuts(b)), Restored(b)))
          /\ DOMAIN Put(Delete(cache, BlockOuts(b)), Restored(b)) \subseteq Outpoints
      BY <1>4, Zenon DEF Finite, TypeOK
    <2>2. IsFiniteSet({})
      BY FS_EmptySet
    <2> QED BY <1>a, <2>1, <2>2, CacheFits, ZenonT(40)
  <1>7. count' \in 0..MaxCount
    <2>1. count \in Nat /\ MaxCount \in Nat
      BY UTXOSetAssumption DEF TypeOK
    <2>2. Cardinality(BlockOuts(b)) \in Nat /\ Cardinality(DOMAIN Restored(b)) \in Nat
      BY <1>1, <1>3, FS_CardinalityType
    <2>3. Less(count, Cardinality(BlockOuts(b))) \in Nat
      BY <2>1, <2>2, LessIsNat, Zenon
    <2> QED BY <1>a, <2>1, <2>2, <2>3 DEF CountUndone
  <1>8. DOMAIN undo' \subseteq Blocks
    <2>1. DOMAIN undo' = DOMAIN undo \/ DOMAIN undo' = DOMAIN undo \ {b}
      BY <1>a DEF Delete
    <2> QED BY <2>1 DEF TypeOK
  <1>9. stale' \subseteq {"cache", "count", "db", "phantom"}
    BY <1>a, Zenon DEF TypeOK, Phantom
  <1>10. faults' \in 0..MaxFaults
    <2>1. MaxFaults \in Nat
      BY UTXOSetAssumption
    <2> QED BY <1>a, <2>1 DEF TypeOK
  <1>11. /\ tip' \in Blocks /\ cur' \in Blocks /\ pc' \in {"idle", "applied", "undone"}
         /\ crashes' \in 0..MaxCrashes /\ diskCount' \in 0..MaxCount
    BY <1>a DEF TypeOK
  <1> QED BY <1>5, <1>6, <1>7, <1>8, <1>9, <1>10, <1>11 DEF TypeOK, Finite

LEMMA OtherTypes ==
    ASSUME TypeOK, Finite, DInv,
           (\E o \in Outpoints : GetUTXO(o)) \/ Flush \/ Reopen \/ Crash \/ UNCHANGED vars
    PROVE  TypeOK' /\ Finite'
  <1>0. /\ MaxFaults \in Nat /\ MaxCrashes \in Nat /\ MaxCount \in Nat /\ MaxCacheSize \in Nat
        /\ Genesis \in Blocks
    BY UTXOSetAssumption, ZenonT(40)
  <1>1. ASSUME NEW o \in Outpoints, GetUTXO(o) PROVE TypeOK' /\ Finite'
    <2>1. cache' \in CacheAfter(Put(cache, Entries({o}, db[o])), {o}, {})
      BY <1>1 DEF GetUTXO
    <2>2. DOMAIN Put(cache, Entries({o}, db[o])) = DOMAIN cache \cup {o}
      BY DEF Put, Entries
    <2>3. IsFiniteSet(DOMAIN cache \cup {o}) /\ IsFiniteSet({})
      BY FS_AddElement, FS_EmptySet DEF Finite
    <2>4. /\ DOMAIN cache' \subseteq DOMAIN cache \cup {o} /\ IsFiniteSet(DOMAIN cache')
          /\ Cardinality(DOMAIN cache') <= MaxCacheSize
      BY <2>1, <2>2, <2>3, CacheFits
    <2> QED BY <1>1, <2>4, ZenonT(40) DEF GetUTXO, TypeOK, Finite
  <1>2. CASE Flush
    <2>1. cur' \in Blocks /\ tip' \in Blocks
      <3>1. Parent[tip] \in Blocks \/ tip = Genesis
        BY ParentFacts DEF DInv
      <3>2. cur' = Genesis /\ tip' \in {tip, cur, Parent[cur]} /\ pc \in {"applied", "undone"}
        BY <1>2 DEF Flush, DInv
      <3>3. tip' = Parent[cur] => pc = "undone" \/ Parent[cur] \in Blocks
        BY <3>2, ParentFacts DEF DInv
      <3> QED BY <1>0, <3>1, <3>2, <3>3 DEF DInv
    <2>2. UNCHANGED <<db, undo, cache, count, crashes>> /\ pc' = "idle"
      BY <1>2, Zenon DEF Flush
    <2>3. diskCount' \in 0..MaxCount /\ faults' \in 0..MaxFaults
      <3>1. /\ diskCount' = count \/ diskCount' = diskCount
            /\ faults' = faults \/ (faults < MaxFaults /\ faults' = faults + 1)
        BY <1>2, Zenon DEF Flush
      <3>2. count \in 0..MaxCount /\ diskCount \in 0..MaxCount /\ faults \in 0..MaxFaults
        BY Zenon DEF TypeOK
      <3> QED BY <1>0, <3>1, <3>2
    <2>4. stale' \subseteq {"cache", "count", "db", "phantom"}
      BY <1>2, Zenon DEF Flush, TypeOK
    <2> QED BY <2>1, <2>2, <2>3, <2>4 DEF TypeOK, Finite
  <1>3. CASE Reopen \/ Crash
    <2>1. DOMAIN cache' = {}
      BY <1>3 DEF Reopen, Crash, NoEntries, Entries
    <2>2. IsFiniteSet(DOMAIN cache') /\ Cardinality(DOMAIN cache') <= MaxCacheSize
      BY <1>0, <2>1, FS_EmptySet
    <2>3. UNCHANGED <<db, undo, tip>> /\ pc' \in {pc, "idle"} /\ cur' \in {cur, Genesis}
      BY <1>3 DEF Reopen, Crash
    <2>4. /\ count' \in 0..MaxCount /\ diskCount' \in 0..MaxCount
          /\ faults' \in 0..MaxFaults /\ crashes' \in 0..MaxCrashes
      BY <1>0, <1>3 DEF Reopen, Crash, TypeOK
    <2>5. stale' \subseteq {"cache", "count", "db", "phantom"}
      BY <1>3, Zenon DEF Reopen, Crash, TypeOK
    <2> QED BY <1>0, <2>1, <2>2, <2>3, <2>4, <2>5 DEF TypeOK, Finite
  <1>4. CASE UNCHANGED vars
    BY <1>4, Zenon DEF vars, TypeOK, Finite
  <1> QED BY <1>1, <1>2, <1>3, <1>4

LEMMA InitTypes == Init => TypeOK /\ Finite
  <1> SUFFICES ASSUME Init PROVE TypeOK /\ Finite
    OBVIOUS
  <1>1. DOMAIN db = BlockOuts(Genesis) /\ DOMAIN cache = DOMAIN db /\ DOMAIN undo = {Genesis}
    BY DEF Init, Entries
  <1>2. /\ Genesis \in Blocks /\ MaxCount \in Nat /\ MaxCacheSize \in Nat
        /\ MaxFaults \in Nat /\ MaxCrashes \in Nat
        /\ BlockIns(Genesis) = {} /\ Cardinality(BlockOuts(Genesis)) <= MaxCount
    BY UTXOSetAssumption
  <1>3. Cardinality(BlockIns(Genesis) \cup BlockOuts(Genesis)) <= MaxCacheSize
    BY <1>2, UTXOSetAssumption
  <1>4. BlockIns(Genesis) \cup BlockOuts(Genesis) = BlockOuts(Genesis)
    BY <1>2
  <1>5. IsFiniteSet(BlockOuts(Genesis)) /\ BlockOuts(Genesis) \subseteq Outpoints
    BY <1>2, BlockSets
  <1>6. Cardinality(BlockOuts(Genesis)) \in Nat
    BY <1>5, FS_CardinalityType
  <1> QED BY <1>1, <1>2, <1>3, <1>4, <1>5, <1>6 DEF Init, TypeOK, Finite

LEMMA TypesHold == Spec => [](DInv /\ TypeOK /\ Finite)
  <1>1. TypeOK /\ Finite /\ DInv /\ [Next]_vars => TypeOK' /\ Finite'
    BY ApplyTypes, UndoTypes, OtherTypes DEF Next
  <1> QED BY <1>1, InitTypes, DInvHolds, PTL DEF Spec

(* The cache never holds more than MAX_CACHE_SIZE entries, the count is never  *)
(* negative, and every variable keeps its type.                                *)
THEOREM TypeCorrect == Spec => []TypeOK
  BY TypesHold, PTL

-----------------------------------------------------------------------------
(* The count.  CountAgrees says nothing of the time between a batch and Flush, *)
(* nor of the utxo_stats record a restart reads: the invariant does, and that  *)
(* the count is out of step whenever the cache or the database is.             *)
Sound == stale \cap {"count", "phantom"} = {}

CInv ==
    /\ stale \cap {"cache", "db"} # {} => "count" \in stale
    /\ Sound => /\ count = Cardinality(DOMAIN db)
                /\ pc = "idle" => diskCount = count

(* Entries out of the table and others into it.                              *)
Swappable(D, out, in) ==
    /\ IsFiniteSet(D) /\ IsFiniteSet(out) /\ IsFiniteSet(in)
    /\ out \subseteq D /\ in \cap (D \ out) = {}

Swapped(D, out, in) ==
    Cardinality((D \ out) \cup in) = Less(Cardinality(D), Cardinality(out)) + Cardinality(in)

LEMMA SwapSizes ==
    ASSUME NEW D, NEW out, NEW in, Swappable(D, out, in)
    PROVE  Swapped(D, out, in)
  <1> USE DEF Swappable, Swapped
  <1>1. /\ IsFiniteSet(D \ out)
        /\ Cardinality(D \ out) = Cardinality(D) - Cardinality(D \cap out)
    BY FS_Difference
  <1>2. D \cap out = out /\ (D \ out) \cap in = {}
    OBVIOUS
  <1>3. Cardinality((D \ out) \cup in)
            = Cardinality(D \ out) + Cardinality(in) - Cardinality((D \ out) \cap in)
    BY <1>1, FS_Union
  <1>4. /\ Cardinality(D) \in Nat /\ Cardinality(out) \in Nat /\ Cardinality(in) \in Nat
        /\ Cardinality(D \ out) \in Nat
    BY <1>1, FS_CardinalityType
  <1>5. Cardinality({}) = 0
    BY FS_EmptySet
  <1>a. Cardinality((D \ out) \cap in) = 0 /\ Cardinality(D \cap out) = Cardinality(out)
    BY <1>2, <1>5
  <1>6. Cardinality((D \ out) \cup in) = (Cardinality(D) - Cardinality(out)) + Cardinality(in)
    BY <1>1, <1>3, <1>4, <1>a
  <1>7. Cardinality(D) - Cardinality(out) >= 0
    BY <1>1, <1>4, <1>a
  <1> QED BY <1>4, <1>6, <1>7 DEF Less

(* Transaction by transaction the count is that of the outputs which are left  *)
(* when the transaction is done.                                               *)
LEMMA CountFollows ==
    ASSUME NEW b \in Blocks, IsFiniteSet(DOMAIN db), count = Cardinality(DOMAIN db),
           Within(cache, db), BlockOuts(b) \cap DOMAIN db = {},
           \A k \in 1..Len(Txs[b]) : InputsFound(b, k)
    PROVE  CountApplied(b, Len(Txs[b]))
               = Cardinality((DOMAIN db \cup BlockOuts(b)) \ BlockIns(b))
  <1> DEFINE n == Len(Txs[b])
             Left(i) == (DOMAIN db \cup OutsOf(b, i)) \ InsOf(b, i)
  <1>0. n \in Nat /\ n # 0
    BY TxCount
  <1>1. PICK f : /\ CountApplied(b, n) = f[n] /\ f[0] = count
                 /\ \A i \in 1..n : f[i] = Less(f[i - 1], Cardinality(Ins[Txs[b][i]]))
                                            + Cardinality(Outs[Txs[b][i]])
    <2> HIDE DEF n
    <2> QED BY <1>0, CountUnfolds
  <1>3. \A i, j \in 1..n : i # j => /\ Ins[Txs[b][i]] \cap Ins[Txs[b][j]] = {}
                                    /\ Outs[Txs[b][i]] \cap Outs[Txs[b][j]] = {}
    BY UTXOSetAssumption
  <1>4. ASSUME NEW i \in 0..(n - 1)
        PROVE  /\ Ins[Txs[b][i + 1]] \subseteq Left(i)
               /\ Outs[Txs[b][i + 1]] \cap Left(i) = {}
               /\ Left(i + 1) = (Left(i) \ Ins[Txs[b][i + 1]]) \cup Outs[Txs[b][i + 1]]
    <2> DEFINE in == Ins[Txs[b][i + 1]]
               out == Outs[Txs[b][i + 1]]
    <2>0. i + 1 \in 1..n /\ (i + 1) - 1 = i /\ i \in 0..n /\ \A j \in 1..i : j \in 1..n /\ j # i + 1
      BY <1>0
    <2>1. \A j \in 1..i : Ins[Txs[b][j]] \cap in = {} /\ Outs[Txs[b][j]] \cap out = {}
      BY <1>3, <2>0
    <2>2. InsOf(b, i) \cap in = {} /\ OutsOf(b, i) \cap out = {}
      BY <2>1 DEF InsOf, OutsOf, Prefix
    <2>3. InsOf(b, i + 1) = InsOf(b, i) \cup in /\ OutsOf(b, i + 1) = OutsOf(b, i) \cup out
      BY <2>0, BlockSets
    <2>4. \A j \in 1..(i + 1) : Ins[Txs[b][j]] \subseteq DOMAIN db \cup OutsOf(b, i)
      <3> SUFFICES ASSUME NEW j \in 1..(i + 1)
                   PROVE  Ins[Txs[b][j]] \subseteq DOMAIN db \cup OutsOf(b, i)
        OBVIOUS
      <3>1. j \in 1..n /\ 1..(j - 1) \subseteq 1..i
        BY <1>0, <2>0
      <3>2. Ins[Txs[b][j]] \subseteq DOMAIN db \cup OutsOf(b, j - 1)
        BY <3>1 DEF InputsFound, HaveUTXO, Within
      <3>3. OutsOf(b, j - 1) \subseteq OutsOf(b, i)
        BY <3>1 DEF OutsOf, Prefix
      <3> QED BY <3>2, <3>3
    <2>5. InsOf(b, i + 1) \subseteq DOMAIN db \cup OutsOf(b, i)
      BY <2>4 DEF InsOf, Prefix
    <2>6. out \cap DOMAIN db = {}
      <3>1. out \subseteq BlockOuts(b)
        BY <2>0, BlockSets
      <3> QED BY <3>1
    <2> HIDE DEF in, out
    <2>7. /\ in \subseteq Left(i) /\ out \cap Left(i) = {}
      BY <2>2, <2>3, <2>5, <2>6
    <2>8. Left(i + 1) = (Left(i) \ in) \cup out
      BY <2>2, <2>3, <2>5, <2>6
    <2> QED BY <2>7, <2>8 DEF in, out
  <1>5. \A i \in 0..n : IsFiniteSet(Left(i))
    <2> TAKE i \in 0..n
    <2>1. IsFiniteSet(OutsOf(b, i))
      BY BlockSets, FS_Subset
    <2>2. IsFiniteSet(DOMAIN db \cup OutsOf(b, i))
      BY <2>1, FiniteParts
    <2> QED BY <2>2, FiniteParts
  <1>6. Left(0) = DOMAIN db
    <2>1. Prefix(b, 0) = {}
      BY DEF Prefix
    <2>2. InsOf(b, 0) = {} /\ OutsOf(b, 0) = {}
      BY <2>1 DEF InsOf, OutsOf
    <2> QED BY <2>2
  <1> HIDE DEF Left
  <1> DEFINE S == {i \in Nat : i <= n => f[i] = Cardinality(Left(i))}
  <1>7. 0 \in S
    BY <1>1, <1>6
  <1>8. ASSUME NEW i \in S PROVE i + 1 \in S
    <2> SUFFICES ASSUME i + 1 <= n PROVE f[i + 1] = Cardinality(Left(i + 1))
      OBVIOUS
    <2>1. /\ i \in 0..(n - 1) /\ i \in 0..n /\ i + 1 \in 1..n /\ (i + 1) - 1 = i
          /\ f[i] = Cardinality(Left(i))
      BY <1>0
    <2>2. f[i + 1] = Less(Cardinality(Left(i)), Cardinality(Ins[Txs[b][i + 1]]))
                         + Cardinality(Outs[Txs[b][i + 1]])
      BY <1>1, <2>1
    <2>3. IsFiniteSet(Ins[Txs[b][i + 1]]) /\ IsFiniteSet(Outs[Txs[b][i + 1]])
      BY <2>1, TxSizes
    <2>4. /\ IsFiniteSet(Left(i)) /\ Ins[Txs[b][i + 1]] \subseteq Left(i)
          /\ Outs[Txs[b][i + 1]] \cap (Left(i) \ Ins[Txs[b][i + 1]]) = {}
          /\ Left(i + 1) = (Left(i) \ Ins[Txs[b][i + 1]]) \cup Outs[Txs[b][i + 1]]
      BY <1>4, <1>5, <2>1
    <2>5. Cardinality((Left(i) \ Ins[Txs[b][i + 1]]) \cup Outs[Txs[b][i + 1]])
              = Less(Cardinality(Left(i)), Cardinality(Ins[Txs[b][i + 1]]))
                    + Cardinality(Outs[Txs[b][i + 1]])
      <3>1. Swappable(Left(i), Ins[Txs[b][i + 1]], Outs[Txs[b][i + 1]])
        BY <2>3, <2>4, Zenon DEF Swappable
      <3>2. Swapped(Left(i), Ins[Txs[b][i + 1]], Outs[Txs[b][i + 1]])
        BY <3>1, SwapSizes, Zenon
      <3> QED BY <3>2, Zenon DEF Swapped
    <2> QED BY <2>2, <2>4, <2>5, Zenon
  <1>9. n \in S
    <2> HIDE DEF S
    <2>1. S \in SUBSET Nat
      BY DEF S
    <2> QED BY <1>0, <1>7, <1>8, <2>1, Induction
  <1>10. f[n] = Cardinality(Left(n))
    BY <1>0, <1>9
  <1>11. Left(n) = (DOMAIN db \cup BlockOuts(b)) \ BlockIns(b)
    BY DEF Left, BlockOuts, BlockIns
  <1> QED BY <1>1, <1>10, <1>11

LEMMA ApplyCounts ==
    ASSUME Finite, DInv, CacheAgrees, CInv, NEW b \in Blocks, ApplyBlock(b)
    PROVE  CInv'
  <1>1. /\ \/ stale' = stale \cup {"cache", "count"}
           \/ /\ stale' = stale \cup Phantom(OnlyCached(b))
              /\ \A k \in 1..Len(Txs[b]) : InputsFound(b, k)
              /\ db' = DbApplied(b) /\ pc' = "applied"
              /\ count' = CountApplied(b, Len(Txs[b]))
        /\ pc = "idle" /\ b # Genesis /\ Parent[b] = tip
    BY Zenon DEF ApplyBlock, CallFails
  <1>2. stale' \cap {"cache", "db"} # {} => "count" \in stale'
    BY <1>1 DEF CInv, Phantom
  <1>3. ASSUME Sound' PROVE count' = Cardinality(DOMAIN db') /\ pc' # "idle"
    <2>1. /\ Sound /\ "cache" \notin stale /\ InStep
          /\ \A k \in 1..Len(Txs[b]) : InputsFound(b, k)
          /\ db' = DbApplied(b) /\ pc' = "applied"
          /\ count' = CountApplied(b, Len(Txs[b]))
      BY <1>1, <1>3 DEF Sound, CInv, InStep
    <2>2. Within(cache, db)
      BY <2>1 DEF CacheAgrees, Within
    <2>3. db = UtxoOf(tip) /\ tip \in Blocks
      BY <1>1, <2>1 DEF DInv, At
    <2>4. BlockOuts(b) \cap DOMAIN db = {}
      BY <1>1, <2>3, ParentFacts, UtxoOfFacts
    <2>5. DOMAIN db' = (DOMAIN db \cup BlockOuts(b)) \ BlockIns(b)
      BY <2>1 DEF DbApplied, Delete, Put, Entries
    <2>6. count = Cardinality(DOMAIN db) /\ IsFiniteSet(DOMAIN db)
      BY <2>1 DEF CInv, Finite
    <2>7. CountApplied(b, Len(Txs[b]))
              = Cardinality((DOMAIN db \cup BlockOuts(b)) \ BlockIns(b))
      BY <2>1, <2>2, <2>4, <2>6, CountFollows
    <2> QED BY <2>1, <2>5, <2>7
  <1> QED BY <1>2, <1>3 DEF CInv

LEMMA UndoCounts ==
    ASSUME Finite, DInv, CInv, NEW b \in Blocks, UndoBlock(b)
    PROVE  CInv'
  <1>1. /\ \/ stale' = stale \cup {"cache", "count"}
           \/ /\ stale' = stale \cup Phantom(BlockIns(b) \cap BlockOuts(b))
              /\ db' = Put(Delete(db, BlockOuts(b)), Restored(b)) /\ pc' = "undone"
        /\ count' = CountUndone(b)
        /\ pc = "idle" /\ b # Genesis /\ b = tip
    BY Zenon DEF UndoBlock, CallFails
  <1>2. stale' \cap {"cache", "db"} # {} => "count" \in stale'
    BY <1>1 DEF CInv, Phantom
  <1>3. ASSUME Sound' PROVE count' = Cardinality(DOMAIN db') /\ pc' # "idle"
    <2>1. /\ Sound /\ InStep /\ BlockIns(b) \cap BlockOuts(b) = {}
          /\ db' = Put(Delete(db, BlockOuts(b)), Restored(b)) /\ pc' = "undone"
      BY <1>1, <1>3 DEF Sound, CInv, InStep, Phantom
    <2>2. /\ At = b /\ db = UtxoOf(b)
          /\ \A a \in Anc[b] \ {Genesis} : Founded(a) /\ Recorded(a)
      BY <1>1, <2>1 DEF DInv, At
    <2>3. b \in DOMAIN undo /\ DOMAIN Restored(b) = BlockIns(b)
      <3>1. b \in Anc[b] \ {Genesis}
        BY <1>1, UTXOChainAssumption
      <3> QED BY <2>2, <3>1 DEF Recorded, Restored, DInv
    <2>4. DOMAIN db' = (DOMAIN db \ BlockOuts(b)) \cup BlockIns(b)
      BY <2>1, <2>3 DEF Put, Delete
    <2>5. Spent(Parent[b]) \subseteq Created(Parent[b])
      <3>1. Parent[b] \in Blocks /\ Anc[Parent[b]] \subseteq Anc[b]
        BY <1>1, ParentFacts
      <3> QED BY <2>2, <3>1, SpentIsCreated
    <2>6. BlockOuts(b) \subseteq DOMAIN db /\ BlockIns(b) \cap DOMAIN db = {}
      <3>1. /\ Created(b) = Created(Parent[b]) \cup BlockOuts(b)
            /\ Spent(b) = Spent(Parent[b]) \cup BlockIns(b)
            /\ BlockOuts(b) \cap Created(Parent[b]) = {}
        BY <1>1, ParentFacts
      <3>2. DOMAIN db = Created(b) \ Spent(b)
        BY <2>2, UtxoOfFacts
      <3> QED BY <2>1, <2>5, <3>1, <3>2
    <2>7. /\ count = Cardinality(DOMAIN db) /\ IsFiniteSet(DOMAIN db)
          /\ IsFiniteSet(BlockOuts(b)) /\ IsFiniteSet(BlockIns(b))
      BY <2>1, BlockSets DEF CInv, Finite
    <2>8. Cardinality((DOMAIN db \ BlockOuts(b)) \cup BlockIns(b))
              = Less(Cardinality(DOMAIN db), Cardinality(BlockOuts(b)))
                    + Cardinality(BlockIns(b))
      <3>1. BlockIns(b) \cap (DOMAIN db \ BlockOuts(b)) = {}
        BY <2>6
      <3>2. Swappable(DOMAIN db, BlockOuts(b), BlockIns(b))
        BY <2>6, <2>7, <3>1, Zenon DEF Swappable
      <3>3. Swapped(DOMAIN db, BlockOuts(b), BlockIns(b))
        BY <3>2, SwapSizes, Zenon
      <3> QED BY <3>3, Zenon DEF Swapped
    <2> QED BY <1>1, <2>1, <2>3, <2>4, <2>7, <2>8 DEF CountUndone
  <1> QED BY <1>2, <1>3 DEF CInv

LEMMA OtherCounts ==
    ASSUME CInv,
           (\E o \in Outpoints : GetUTXO(o)) \/ Flush \/ Reopen \/ Crash \/ UNCHANGED vars
    PROVE  CInv'
  <1>1. CASE (\E o \in Outpoints : GetUTXO(o)) \/ UNCHANGED vars
    <2>1. UNCHANGED <<db, count, diskCount, pc, stale>>
      BY <1>1 DEF GetUTXO, vars
    <2> QED BY <2>1 DEF CInv, Sound
  <1>2. CASE Flush
    BY <1>2 DEF Flush, CInv, Sound
  <1>3. CASE Reopen
    BY <1>3 DEF Reopen, CInv, Sound
  <1>4. CASE Crash
    BY <1>4 DEF Crash, CInv, Sound
  <1> QED BY <1>1, <1>2, <1>3, <1>4

(* Through applied and undone blocks, restarts and deaths the count the node   *)
(* reports is the number of entries of the database, unless a call has failed  *)
(* or a phantom was let in.                                                    *)
THEOREM CountAgreesHolds == Spec => []CountAgrees
  <1>1. Init => CInv
    BY DEF Init, CInv, Sound
  <1>2. Finite /\ DInv /\ CacheAgrees /\ CInv /\ [Next]_vars => CInv'
    BY ApplyCounts, UndoCounts, OtherCounts DEF Next
  <1>3. CInv => CountAgrees
    BY DEF CInv, CountAgrees, Sound
  <1> QED BY <1>1, <1>2, <1>3, TypesHold, CacheAgreesHolds, PTL DEF Spec

=============================================================================
