# A TLA+ model of the Dilithion node

Dilithion (`src/`) is a C++ node of a post-quantum cryptocurrency: two chains
(DIL, proof of work by RandomX; DilV, VDF) share one code base.  This project
models the parts of the node whose mistakes are hard to test and hard to
repair: how the active chain, the UTXO set and the best-block record move
together through reorganisations, failures and deaths of the process; how the
node chooses a chain; how blocks are downloaded, queued and validated by
several threads; who may win the next block of a VDF chain; and what the memory
pool holds.

## The system and how its parts interact

A block arrives from a peer (requested by the download coordinator through the
fetcher and its tracker) or from the miner.  `ProcessNewBlock`
(`node/block_processing.cpp`) stores it, keeps it as an orphan while its parent
is missing, and hands it to the validation queue or validates it at once.  It
gets an entry in `mapBlockIndex` (`CChainState::AddBlockIndex`), and
`CChainState::ActivateBestChain` (`consensus/chain.cpp`) decides whether it
changes the active chain: by default with three fixed cases, with
`DILITHION_USE_NEW_CHAIN_SELECTOR=1` from a set of candidates.  Under `cs_main`
it connects and disconnects blocks; `ConnectTip` applies the consensus rules,
among them those of `consensus/vdf_validation.cpp`, which ask the cooldown
tracker who won before.  Each `ConnectTip`/`DisconnectTip` writes one LevelDB
batch of the UTXO set (`node/utxo_set.cpp`) and updates the memory pool, the new
tip is then written as best block, and a reorganisation is bracketed by a file,
`wal/reorg_pending.dat` (`consensus/reorg_wal.cpp`).  The coordinator and the
RPC server rewind the chain with `DisconnectToHeight`, which releases `cs_main`
between batches.  An integrity monitor walks the undo records on its own thread.
Persistent failures set flags that the main loop (`node/dilv-node.cpp`) turns
into an `auto_rebuild` marker and a shutdown; the next start wipes the chain
(`util/chain_reset.cpp`).

`PROJECT.json` lists every part with its sources and how far it is modelled.

| Part | Sources under `src/src/` | Modules |
|---|---|---|
| Chain state, default path | `consensus/chain.cpp` | `BlockTree`, `ChainState` |
| Chain state, candidate selection | `consensus/chain.cpp`, `consensus/port/chain_selector_impl.cpp` | `ChainSelector` |
| Reorganisation WAL | `consensus/reorg_wal.cpp` | `ReorgWAL` |
| Startup, rebuild, reset | `node/dilv-node.cpp`, `util/chain_reset.cpp` | `ChainState` |
| UTXO set | `node/utxo_set.cpp` | `UTXOSet`, `UTXOLedger` |
| Integrity monitor | `node/chainstate_integrity_monitor.cpp` | `IntegrityMonitor`, on top of `ChainState` |
| Download coordinator, fetcher, orphan pool, block processing | `node/ibd_coordinator.cpp`, `net/block_fetcher.cpp`, `net/orphan_manager.cpp`, `node/block_processing.cpp` | `BlockDownload` |
| Request table | `net/block_tracker.h` | `BlockTracker` |
| Validation queue | `node/block_validation_queue.cpp` | `BlockValidationQueue` |
| Cooldown tracker | `vdf/cooldown_tracker.cpp` | `CooldownTracker` |
| VDF consensus rules | `consensus/vdf_validation.cpp` | `VdfChain`, on top of `CooldownTracker` |
| Memory pool | `node/mempool.cpp`, `node/mempool_persist.cpp` | `Mempool`, `MempoolChain` |

A module `MC...` gives the constants of one instance for TLC and a `.cfg` the
properties.  A module with theorems extends what it is about:
`ChainStateProofs` (`ChainState`), `ChainStateValidity` (`ChainState` and
`IntegrityMonitor`), `ChainSelectorProofs`, `UTXOSetProofs`,
`BlockDownloadProofs` (with `BlockTracker`), `BlockValidationQueueProofs`,
`VdfChainProofs` (with `CooldownTracker`), `MempoolProofs`.

## The modules against the code

### BlockTree, ReorgWAL, ChainState

`BlockTree` is the tree of blocks that may reach the node: `pprev`, height,
work, VDF output, checkpoints, and what each block adds to and removes from the
UTXO set.  All constants, with the facts the proofs use as assumptions that TLC
evaluates on each instance.  `ReorgWAL` is `CReorgWAL`: the file (absent, torn,
or the phase it records), `m_active` and `m_phase`.  The hashes and counts in
the file are never read back by the node and are left out.

`ChainState`, on disk: `bestBlock`, `utxo`, `undo`, `marker`, `walFile`, the
failure flags.  In memory: `tip`, `index`, the VDF grace period, the two failure
counters, the rebuild flag, and where the two handlers are: `pc`, `target`,
`cur` for `ActivateBestChain`, `dpc`, `dtarget`, `dn` for `DisconnectToHeight`.
A handler is cut into one step per durable write, because the process may die
between two writes; nothing else can run in between while `pc` or `dpc` says
that `cs_main` is held (`Unlocked`).

| Code | Actions |
|---|---|
| `ActivateBestChain`, Case 2 (block extends the tip) | `ExtendTip`, `ExtendConnect`, `WriteBest` |
| Case 2.5 (sibling with lower VDF output) | `ReplaceTip`, `ReplaceDisconnect`, `ReplaceConnect`, `WriteBest` |
| Case 3 (reorganisation) | `StartReorg`, `ReorgEnterDisconnect`, `ReorgDisconnect`, `ReorgUpdateDisconnect`, `ReorgEnterConnect`, `ReorgConnect`, `ReorgUpdateConnect`, `ReorgSetTip`, `ReorgWriteBest`, `ReorgComplete` |
| its rollback | `RollbackDisconnect`, `RollbackConnect`, `RollbackAbort` |
| `DisconnectToHeight` | `StartRewind`, `RewindEnter`, `RewindDisconnect`, `RewindWriteBest`, `RewindUpdate`, `RewindResume`, `RewindComplete` |
| `ConnectTip`, `DisconnectTip` | `ConnectOK`, `ConnectFails`, `DisconnectOK`, `DisconnectFails` |
| `MaybeTriggerChainRebuild` | `TriggerRebuild` |
| startup of `dilv-node.cpp` | `Startup`, `StartupRebuild`, `StartupReindex`, `StartupReset` |
| death of the process, also inside a wipe; passing of time | `Crash`, `WipeDies`; `ExpireGrace` |

Every early return of `ActivateBestChain` that changes nothing (missing
parent, checkpoint refused, less work, too deep, invalid ancestor) is a guard.
I/O failures are choices bounded by `MaxFaults` and restricted to `FaultKinds`.

`lost` is a history variable.  It names the exits at which the code gives up
crash protection: a death in one of the two windows that have no WAL
(`bestWindow`, `replaceWindow`), a death inside the in-place rewrite of the WAL
(`tornWal`) or inside `--reset-chain`, which sets no marker (`resetWindow`), a
WAL or best-block write that fails and is not looked at (`walFault`,
`bestFault`), and three failures inside a recovery (`rollbackFailed`,
`replaceFailed`, `rewindFailed`); beside the monitor, also a record the disk
lost (`lostRecord`).  The consistency properties are stated for behaviours that
took none of them.  A completed wipe clears `lost`.

### ChainSelector

The opt-in path: `index` and `received` (header and data known), the marks
`BLOCK_FAILED_VALID` and `BLOCK_FAILED_CHILD` as `failedValid` and
`failedChild`, `candidates` (`m_setBlockIndexCandidates`), `tip`, `goal` and
`pc` inside `ActivateBestChainStep`/`ConnectTipsViaSteps`.  `dropped` and
`cleared` are history: candidates that left for a reason other than failure, and
marks cleared without their subtree.  The durable stores of this path are those
of `ChainState` and are left out here.

| Code | Actions |
|---|---|
| `FindMostWorkChainImpl` and the checks behind it | `SelectNothing`, `SelectViolating`, `SelectTooDeep`, `SelectGoal` |
| `ConnectTipsViaSteps` | `Disconnect`, `DisconnectFails`, `Connect`, `ConnectUnwritten`, `ReadFails`, `ConnectFails` |
| `ProcessNewHeader`, `AddBlockIndex` with data | `ProcessNewHeader`, `ProcessNewBlock` |
| `InvalidateBlock`, `ReconsiderBlock` | the same names; only the adapter `chain_selector_impl.cpp` calls them |
| marks set and cleared outside `cs_main` by block processing and the coordinator | `MarkFailed`, `MarkFailedChild`, `ClearFailed` |
| `DisconnectToHeight`; passing of time | `Rewind`; `ExpireGrace` |

`Address` stands for the order of pointers, the last resort of the comparator;
blocks whose body came before their header all have `nSequenceId` 0
(`chain.h:43`).  The comparator is an order only for the trees
`SelectorAssumption` describes.  The cap of `mapBlockIndex` is not modelled.

### UTXOSet and UTXOLedger

On disk: `db` (outpoint to the height that created it), `undo`, `diskCount`
(the `utxo_stats` record).  In memory: `cache`, `count`.  `tip` is the block the
caller believes was applied last.  `ApplyBlock` and `UndoBlock` run under
`cs_utxo`; each is cut in two, at the only place where a death is visible:
between its batch and the trailing `Flush`.

| Code | Actions |
|---|---|
| `ApplyBlock`: all inputs found, an input missing at transaction k, a failed write | `ApplyBlock` |
| `UndoBlock`, with its record or reconstructed for a coinbase-only block | `UndoBlock` |
| `Flush` at the end of both | `Flush` |
| `GetUTXO` of an entry that is not cached | `GetUTXO` |
| `Close` and `Open`; death and `Open` | `Reopen`; `Crash` |

Which of the older entries a full cache evicts is left open, which contains the
code's least-recently-used order.  `stale` is a history variable: it says what
a call that returned false, or a death before `Flush`, has left out of step
(`cache`, `count`, `db` against the caller's tip), and `phantom` that an output
which no chain holds has come into the database: a block found an input only in
what a failed call had left in the cache, or a block that spends its own outputs
was undone.  A fresh process starts with an empty cache; a count or a database
once marked stays marked, as the code never recounts.

`UTXOLedger` is what `CUTXOSet` promises its callers: a set of outpoints that
whole blocks are applied to and undone from.  `ChainState` uses exactly that.

### IntegrityMonitor

The periodic cycle of the monitor beside every action of `ChainState`: the
snapshot under `cs_main`, the walk over the undo records without it, the
revalidation under it, the marker and the shutdown.  `LoseRecord` is a record
that disappears from the disk, at most `MaxLostRecords` times.  `undone` is
history: the blocks of the snapshot that the UTXO set was moved off since the
snapshot was taken.  It follows the block the set stands at (`At`), not the undo
records, because `UndoBlock` also undoes a block without a record when the block
spends nothing.

### BlockTracker and BlockDownload

`BlockTracker` is `CBlockTracker`: each method is an operator from a tracker to a
tracker, because the coordinator calls several in one go.  `BlockDownload` has
the four threads that share it, on one chain of valid headers, so that a block
is its height: `node` (chain, index, disk, orphan pool, queue), `working` (the
worker's block), `storing` (an orphan between the two halves of its path),
`ibd` (the coordinator's sync peer, cooling peer and three counters), `net`
(answers under way), `pc` (where in `Tick` the main loop is).  `lost` is
history, what the orphan pool let expire or evicted and what it refused; `drops`
bounds the disconnections.

| Code | Actions |
|---|---|
| `ProcessNewBlock`, `AddOrphanBlock` | `Arrive`, `StoreOrphan` |
| `ValidationWorker`, `ProcessBlock` | `WorkerPop`, `WorkerProcess` |
| `Tick`: `FetchBlocks`, the orphan scan, timeouts | `Tick`, `ResolveOrphans`, `NoteTip`, `SkipScan`, `RetryTimeoutsAndStalls` |
| end of a peer's cooldown; expiry of orphans | `CooldownExpires`; `OrphansExpire` |
| peers that announce, leave and come back | `NewTip`, `Disconnect`, `Reconnect` |

A peer in `Prompt` answers in time; another answers late, twice or never.
`AddOrphanBlock` may refuse a block or evict others; which limit it has reached
(per peer, count, bytes) is left open, and `MaxRefusals` and `MaxExpiries` bound
how many blocks are refused, and how many expire or are evicted.  A refused
block is marked completed like an accepted one, but its parent is not requested
(`block_processing.cpp:1234`, `:1254`).  Fork recovery and header-sync peers are
left out.  The coordinator remembers only one peer that timed out
(`ibd_coordinator.cpp:2209`).

### BlockValidationQueue

One step per lock of `m_queue_mutex`: `QueueBlock` by the clients and by the
worker itself (depth check, duplicate check, push, notify), the worker's loop
with the test, the wait and the wake-up of the condition variable as separate
states, and `Stop`.  Statistics and the watchdog are left out, and so are
`WaitForBlock`, `IsHeightQueued` and `GetStats`, which the node does not call.

### CooldownTracker and VdfChain

`CooldownTracker` is `CCooldownTracker`: the sliding window, the lifetime tables
and the count of active miners cached for one height.  `VdfChain` has the chain
that feeds it.  `ConnectTip` is one step per call of the tracker
(`StartConnect`, `Recalc`, `Consecutive`, `WindowCap`, `Apply`, `ApplyFails`),
because only `cs_main` keeps two of them together and the miner
(`MinerQuery`) and the coordinator (`ClearFailed`) call the tracker without it;
`Disconnect` and `Restart` (which replays the chain) complete it.  `leaks` counts
the steps after which the tracker belongs to another chain: an assumed block
(`AssumeValidHeight`) that is entered twice, by `ConnectTip` and by its callback,
and then disconnected or refused, and marks cleared at a height that has become
the tip's.  `highest` is there because a cut of two or more blocks leaves the
heights that the window had evicted missing.  The parameters are DilV's:
registrations and the short window are inactive, the stall tiers never apply.

### Mempool and MempoolChain

`Mempool` is `CTxMemPool`, an operator per method; where the code orders equal
fee rates by time and hash the model leaves the choice open.  A total of bytes is
the size of a set of pairs, so that it can be reasoned about.  `MempoolChain` has
the threads: acceptance in two steps (`CheckTransaction` against the UTXO set,
`AcceptTx`), `ConnectTip` and `CleanPool`, `DisconnectTip` and `ReturnTx` one
transaction at a time, `ExpirationThread`, `Clear` by fork recovery, and
`DumpMempool`, `Restart`, `LoadTx`.  What the model shows on the way: a
transaction returned by a disconnect has fee 0 (`chain.cpp:1928`) and is evicted
first; a conflict of a confirmed transaction stays until it expires; a confirmed
one can come back through the gap between check and insertion or through the
file; loading in txid order loses edges to parents that come later; the
evictions for the count stay when the eviction for the size then fails; a parent
expires only after its children.  `ReplaceTransaction` has no caller; the fee
estimator and the metrics are left out.

### Abstractions

* A process death keeps every completed write.  Loss of power, where a write
  that returned may be lost, is not modelled.
* In `ChainState` the consensus checks of `ConnectTip` are two sets of blocks:
  `ContextValid` (always checked) and `DfmpValid` (skipped when a reorganisation
  connects).  In `ChainSelector` they are one, `Valid`.
* In `ChainState`, `ApplyBlock` and `UndoBlock` are their batch, which is the
  step of `UTXOLedger`.  The trailing `Flush` failing after a successful batch,
  the cache after a failed `ApplyBlock`, and blocks that spend their own outputs
  are in `UTXOSet` only.
* In `UTXOSet` an entry is its height; the total amount is left out.  No block
  spends or creates an outpoint twice, and the cache can hold what one block
  touches.
* Case 1 (the genesis block) is part of `FreshDisk`.
* After a restart the index holds the best chain; other blocks arrive again.
* The identity database, the wallet and the indexes, which `ConnectTip` and
  `DisconnectTip` also update, are not part of the state.

## Runs

| Run | Checks | Instance |
|---|---|---|
| `crash` | `TypeOK`, `Consistent`, `WriteAhead`, `NoInvalidInChain`, `StartupSeesUndone`, `TipImproves` | branches of 2 and 3 blocks, the last one invalid, one that only the DFMP check refuses; one I/O failure of any kind, 2 deaths, rewinds to 0 in batches of 1 (1.8 M states) |
| `checkpoints` | `CheckpointsHeld`, `ReorgBounded`, `ActivationEnds`, `RebuildHeals` | nine blocks, checkpoints at heights 1 and 4 on one branch, branches leaving below each; depth limit 1, two I/O failures, no deaths (185 k) |
| `selector` | `TypeOK`, `FailedChildJustified`, `BetterIsKept`, `ActivationIsComplete`, `ActivationAdvances` | two branches, one invalid block, one header before its block; one I/O failure, one operator call or rewind (209 k) |
| `monitor` | `AlarmExplained`, `HolesAreNoticed` | `ChainState` with a reorganisation that rolls back, one death, one lost record, a window of 2; one block spends nothing (149 k) |
| `utxo_calls` | `TypeOK`, `DatabaseIsChains`, `CacheAgrees`, `CountAgrees`, `ImplementsLedger` | two branches with one transaction at different heights, a block with a missing input; cache of four entries, one failed write, one death (140 k) |
| `download` | `TypeOK`, `TrackerInv`, `PeerLimit`, `HeldOnDisk`, `CompletedIsHeld`, `CatchesUp` | two blocks, a prompt peer and one that is not, one request per peer, a queue of one, one disconnection, one orphan that expires or is evicted and one that is refused (56 k) |
| `queue` | `TypeOK`, `DepthBounded`, `NoPhantomHeight`, `NoLostPush`, `QueuedIsTaken` | two clients and the worker, three blocks, two of one height, depth 1 (166 k) |
| `cooldown` | `LifetimeIsChains`, `VerdictIsChains`, `ExcludingIsDisconnecting`, `PreflightSuffices` | three miners, six heights, a window of 4, one assumed height, the three fork heights inside, more miners than the lifetime gate lets be exempt (592 k) |
| `mempool` | `PoolAgrees`, `PoolWithinLimits`, `Expires` | four transactions with a parent, a child and a conflict; two entries and three bytes, two heights, one restart (100 k) |

Why these bounds suffice.  The trees hold each relation two chains can have here:
one block replaced by a sibling, an equal-height chain with a lower VDF output, a
longer chain, a chain whose last block fails after two have been connected,
spends that cross the fork.  A second death is needed because the first may
leave a file that only the second start misreads.  `checkpoints` allows no death
because `m_chain_needs_rebuild` is volatile: a death forgets it, and what
`RebuildHeals` promises with it.  Limits (depth, queue, cache, pool, slots) are set so that
both sides of each comparison occur, and the windows so that heights leave them.

What the properties say:

* `Consistent` - whenever `cs_main` is free, tip, best-block record, UTXO set
  and undo records describe one chain.  `WriteAhead` - whenever the UTXO set on
  disk is not the best block's, the WAL or the marker says so, or the node is
  inside a window without a WAL.
* `StartupSeesUndone` - what the startup checks let through after a single death
  without I/O failures is a UTXO set at the best block or *ahead* of it, even
  when the death tore the WAL.  It is stated for a best chain past the highest
  checkpoint, as the undo check skips blocks at and below it, and without a
  failed tip replacement before, whose hole may come to lie there.
* `NoInvalidInChain` - a block that fails a check that is always made is never
  on the active chain, whichever case connected it, and none marked as failed;
  the second only while no best-block write was missed, since a stale record
  can bring a restart back onto a block that was connected by a reorganisation,
  rewound and then marked by the DFMP check.
* `TipImproves`, `ReorgBounded`, `CheckpointsHeld` - `ActivateBestChain` moves
  the tip only to more work, or at equal work and height to a lower VDF output;
  it never gives up more than `MAX_REORG_DEPTH` blocks or a checkpoint; and the
  tiers, each of which looks at some checkpoints, together hold all.
* `FailedChildJustified`, `BetterIsKept`, `ActivationIsComplete`,
  `ActivationAdvances` - the selector's marks are explained, a better branch is
  forgotten only for a reason the code names, an activation stops below nothing
  better (but a sibling behind a late one, `chain.cpp:574`), and every round of
  its loop loses a candidate or comes closer to its goal.
* `AlarmExplained`, `HolesAreNoticed` - the monitor stops the node only over a
  record that was missing when it looked; one that stays missing is noticed.
* `DatabaseIsChains`, `CacheAgrees`, `CountAgrees` - the database holds the
  unspent outputs of the chain, each with the height at which *that* chain
  created it; cache and count follow it while the calls that maintain them
  succeed.  `ImplementsLedger` is the refinement: every step, failed calls and
  deaths included, is a step of `UTXOLedger` or leaves outpoints and undo records
  alone, until a phantom enters.
* `TrackerInv`, `PeerLimit`, `HeldOnDisk`, `CompletedIsHeld`, `CatchesUp` - the
  request table agrees with itself, limits hold, what will not be requested again
  is held somewhere or was lost by the orphan pool, and if a peer answers the
  chain catches up with the headers or ends with an empty pool and a lost block
  that counts as completed.  `BlockDownload_three.cfg` checks the same with three
  blocks and one peer (126 k states).
* `DepthBounded`, `NoPhantomHeight`, `NoLostPush`, `QueuedIsTaken` - the limit is
  passed by at most one entry per other thread, heights recorded as queued are,
  and no push goes unnoticed.
* `LifetimeIsChains`, `VerdictIsChains`, `ExcludingIsDisconnecting`,
  `PreflightSuffices` - the tracker's tables and verdicts are functions of the
  chain, and a replacement that passes the preflight connects exactly when the
  lifetime gate of the solo exemption, which the preflight does not know
  (`vdf_validation.cpp:951`), does not refuse it.
* `PoolAgrees`, `PoolWithinLimits`, `Expires` - the pool's indexes agree, its
  limits hold, and no unconfirmed entry stays for ever.

Where deadlock is not checked the system really may stop: a refused start, a
full environment bound, an empty pool, a node whose `Flush` failed after an undo.
`MaxCount` bounds the count, which failed calls let drift; the other `Max...`
constants that name no limit of the code bound the environment.

Fairness.  `ChainState`: `WF(ActivateStep)` and `WF(RewindStep)`, a handler runs
to its end once started, with no waiting inside but for `cs_main`;
`SF(TriggerRebuild)`, the main loop polls the flags in every iteration, without
`cs_main`, so handlers that keep running cannot hide them; `WF` of starting a
stopped node and of resetting one that refuses to start, the operator or
supervisor.  The monitor: the same, and `SF` of its cycle, a timer thread.
`BlockDownload`: `WF` of the message thread, the worker and the main loop; `SF`
of an answer of a prompt peer, of a timeout that stays due and of a scan that
stays due, both of which are clocks; `WF` that a prompt peer reconnects.
`BlockValidationQueue`: `WF` of each running thread.  `MempoolChain`: `WF` of
time and of the expiry thread.

## Findings

Three runs expect a violation; each states a sentence of the repository that the
code does not keep (`PROJECT.json`, `findings`, quotes it).

| Run | What happens |
|---|---|
| `wal_torn` | a death inside a WAL rewrite erases the record of the reorganisation under way; the node starts on a UTXO set that is not its tip's |
| `expired_orphan` | orphans that expire from the pool, or that it evicts or refuses, stay marked as completed, and the code that would request them again is not reached |
| `queue_stop` | `Stop` can notify between the worker's test and its wait; `join` then does not return |

The same modules have configurations for further sentences that the code does
not keep.  Each can be run like the others and ends in a violation:

| Configuration | Property | What happens |
|---|---|---|
| `V_wal_initialized.cfg` | `InitializedIsIgnored` | a WAL left in phase INITIALIZED is not ignored: it blocks every later reorganisation of the process |
| `V_utxo_window.cfg` | `UtxoCorrectInConnectTip` | after a death between UTXO batch and best block in Case 2 the block is connected again on a set that already holds it |
| `V_rewind_checkpoint.cfg` | `RewindKeepsCheckpoints` | a checkpoint connected while `DisconnectToHeight` had released `cs_main` is disconnected |
| `V_reindex.cfg` | `ReindexRecovers` | `--reindex` after a death inside a reorganisation never starts: the WAL directory is not removed |
| `V_leaf.cfg` | `LeafReadmitted` | a candidate dropped for missing data is not one again when the data arrives, until the coordinator offers it |
| `V_false_alarm.cfg` | `NoFalseAlarm` | the monitor's revalidation does not read the record again: a rolled-back reorganisation looks like corruption |
| `V_utxo_phantom.cfg` | `GetUTXOIsTrue` | outputs of a block that `ApplyBlock` refused stay in the cache, and `GetUTXO` finds them |
| `V_utxo_undo.cfg` | `UndoReverses` | `UndoBlock` of a block that spends its own output puts that output into the database |
| `V_preflight.cfg` | `PreflightMirrorsConnect` | the preflight has no lifetime gate for the solo exemption, `ConnectTip` has |
| `V_orphaned_child.cfg` | `NeverOrphans` | the entry evicted to make room may be the newcomer's own parent |

Two more behaviours are in the model without a configuration: when the rollback
of a reorganisation itself fails, `AbortReorg` still deletes the WAL
(`rollbackFailed`); and when a block fails in `ApplyBlock` during a
reorganisation (`chain.cpp:1700`), the blocks above it are marked
`BLOCK_FAILED_CHILD` (`:1172`) although the block itself is not marked.

## Proofs

TLAPS proves the following for every value of the constants that satisfies the
named assumptions: every tree, every number of threads, peers, transactions and
blocks, every limit and every bound.

| Module | Theorems, each `Spec => []P` or `Spec => P` |
|---|---|
| `ChainStateProofs` | `TypeOK`, `WriteAhead`, `Consistent`, `CheckpointsHeld`, `TipImproves`, `ReorgBounded` |
| `ChainStateValidity` | `NoInvalidInChain`, `StartupSeesUndone`; `AlarmExplained` (from `MonitorSpec`) |
| `ChainSelectorProofs` | `TypeOK`, `FailedChildJustified`, `BetterIsKept`, `ActivationIsComplete`, `ActivationAdvances` |
| `UTXOSetProofs` | `TypeOK`, `DatabaseIsChains`, `CacheAgrees`, `CountAgrees`, `ImplementsLedger` |
| `BlockDownloadProofs` | `TypeOK`, `TrackerInv` (alone and in the download), `PeerLimit`, `HeldOnDisk`, `CompletedIsHeld` |
| `BlockValidationQueueProofs` | `TypeOK`, `DepthBounded`, `NoLostPush`, `NoPhantomHeight` |
| `VdfChainProofs` | `TypeOK`, `LifetimeIsChains`, `VerdictIsChains`, `ExcludingIsDisconnecting`, `PreflightSuffices` |
| `MempoolProofs` | `PoolAgrees`, `PoolWithinLimits` |

Hardly any of these is inductive.  Each module has an invariant that is, one
lemma per action that it is kept, and the theorems from it.

* `ChainStateProofs`: `IInv` adds to the types `Cursors` (where each handler's
  cursor is: between the fork and the old tip while disconnecting, between the
  fork and the target while connecting or rolling back; and that a rewind keeps
  the WAL active while it is unlocked, which keeps a reorganisation, though not an
  extension or a replacement, out of the gap), `Placed` (the UTXO set and the undo
  records are those of one block, `At`, and each block with an undo record found
  its inputs in its parent's set, so that undoing it is the exact inverse) and
  `Recorded` (at which steps the best-block record may lag the tip, and that the
  WAL is on disk in a phase that stops a restart at each of them).
  On top of it, `Chosen` says that a target was compared with a tip that is still
  there and is allowed by all checkpoints; the key lemma `TiersCheckpoint` is that
  the two checkpoints a tier looks at stand for all, because the chain below
  contains the others.
* `ChainStateValidity`: `RecordCurrent` and `ValidChain` say of the tip's and the
  record's chain what they consist of, that marks are only on blocks that fail a
  check, and that a reorganisation under way leads over unmarked blocks.  The
  attempt found two things the property had left open: the exception for a stale
  record, and that the genesis block must be valid.  `Calm` describes the process
  before its first death, I/O failure and failed replacement; a case analysis of
  where that death falls gives `StartupSeesUndone`.  Every rollback succeeds in
  such a process, as its blocks were applied before.  `Watched` is what the
  monitor knows between its two locks: a block of the snapshot that was not
  undone is still under the UTXO set, and the suspect has no record unless it was
  undone.  It is kept because `ConnectTip` writes records only on top of the set
  (`RecordsComeOnTop`).  The attempt showed that `undone` must not be read off
  the records.
* `ChainSelectorProofs`: `SInv` says that every block with data, without mark and
  without a conflict with a checkpoint is a candidate or was dropped (`Kept`) and
  that the goal under way is the best candidate (`Stepping`).  `BestExists` gets
  the best of a finite set from a well-founded order; `Closer` is the variant of
  the loop.
* `UTXOSetProofs`: `DInv` says whose set the database is at every step (`At`),
  that what a failed call left in the cache contradicts no entry, and that every
  block of the chain has a record of what it spent; `UtxoApplied` and
  `UtxoUndone` are the two directions.  `CInv` follows the count through the time
  between a batch and `Flush` and the `utxo_stats` record.  The count is a
  recursive function over the transactions; `CountExists` and `CountFollows` use
  induction over numbers, which `Induction` derives from the well-foundedness of
  finite sets.
* `BlockDownloadProofs`: `Good` is the agreement of the tracker's indexes with
  each request filed at its own block's height; `Fit` adds the limits; `DInv` says
  in addition that everything on disk is indexed, an orphan, being stored or
  lost by the pool, and that one `FetchBlocks` (`Fetched`) loses nothing.
* `BlockValidationQueueProofs`: `DepthInv` counts the entries together with the
  threads that have passed the depth check; `SleepInv` is that the worker found
  the queue empty when it lay down.
* `VdfChainProofs`: `VInv` has two parts.  `Sound` holds in every state and is
  about the tracker alone: the cached count is that of the window, unless the
  height it was made for has been entered since (`CacheFresh`).
  `ExcludingIsDisconnecting` and `PreflightSuffices` follow from it, by comparing
  the copies with the tables after the disconnect; the second for any number of
  miners, with the lifetime gate as its only exception.  `Reflects` holds while
  `leaks` is 0 and says what each table holds of the blocks of the chain: the window, the
  latest win of each miner in it, the heights of each miner and the lifetime
  counts; an assumed block that is being connected has not yet been entered or
  has been entered once (`TrackerReflects`).  `LifetimeIsChains` and
  `VerdictIsChains` follow; the second because a win that the window has forgotten
  is too old for any cooldown.
* `MempoolProofs`: `IInv` is the agreement of the indexes and that whatever the
  threads still hold are transactions; the limits follow from it because a total
  of bytes is the size of a set.

The invariants were checked by TLC on the runs' instances before they were
proved.

The assumptions are in the modules that declare the constants, and TLC evaluates
them on each run.  `BlockTree`: the index is a tree whose heights count links and
whose work grows, `Anc` is its ancestor relation, any two chains have a fork,
txids do not repeat on a chain, VDF blocks of one height have the same work.
`ChainState`: thresholds and batch size are positive,
the genesis block passes its checks, `MaxReorgDepth` is at least 1 (Case 2.5 gives
up one block).  `ChainSelector`: blocks of
equal work all have a VDF output or none, and the index is finite.  `UTXOSet`: no
block spends or creates an outpoint twice, no two blocks of a chain create the
same one, a block fits into the cache.  `BlockDownload`: one chain of headers,
positive limits, the per-peer limit within the tracker's.
`BlockValidationQueue` and `Mempool`: finitely many threads and transactions.
`CooldownTracker`: finitely many miners, positive window and times, cooldown
limits in order and the lower one within the window.

Only model-checked:

* liveness - `ActivationEnds`, `RebuildHeals`, `HolesAreNoticed`, `CatchesUp`,
  `QueuedIsTaken`, `Expires`: fairness and `ENABLED` are out of the prover's reach
  (for the selector's loop the variant is proved instead, `ActivationAdvances`).

## Not modelled

Headers manager, fork manager, wallet and its log, identity registration, the
indexes and the batch verifier are candidates for modules of their own.
Proof-of-work arithmetic, scripts, signatures, VDF proofs and Digital DNA enter
only as verdicts; sockets, wire formats, RPC, storage and cryptography are I/O,
parsing or arithmetic outside the reach of this method.  `PROJECT.json` has the
reason for each.

## Running

    tlc -config ChainState_crash.cfg MCChainState
    tlc -config ChainState_checkpoints.cfg MCCheckpoints
    tlc -config ChainSelector_select.cfg MCChainSelector
    tlc -config IntegrityMonitor_cycles.cfg MCIntegrityMonitor
    tlc -config UTXOSet_calls.cfg MCUTXOSet
    tlc -config BlockDownload_chain.cfg MCBlockDownload
    tlc -config BlockValidationQueue_threads.cfg MCBlockValidationQueue
    tlc -config VdfChain_rules.cfg MCVdfChain
    tlc -config Mempool_threads.cfg MCMempool
    tlapm ChainStateProofs.tla      # and the other modules of the table above

Each run takes one to three minutes with two workers, each proof module up to
half an hour from nothing.
