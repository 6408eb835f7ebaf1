# TLA+ models of the hcData block explorer core

This directory holds TLA+ models of the parts of `src/` that have state
and concurrency: the lite-mode synchronisation engine, the chain walks of
the node client, the explorer's chart cache, sync-status page and block page middleware,
the
PostgreSQL store's address, stake and transactions tables, the
side-chain import, and
the Insight API's unspent-output, transaction-list and block-summary
handlers.  Every module is written from the Go source; the
source lines each definition translates are listed under `"map"` in
`PROJECT.json`.

## The system

The explorer mirrors a Decred-like node into local databases.

| Part | Source | State | Operations |
|------|--------|-------|------------|
| Sync engine (lite) | `src/v4/db/dcrsqlite/sync.go` | SQLite block summary table, SQLite stake info table, stake database (`ffldb_stake`), the node's best height | `DBHeights`, `RewindStakeDB`, `resyncDB`, `getBlock`, `ImportSideChains` |
| Node client helpers | `src/v4/rpcutils/rpcclient.go` | none (reads the node) | `CommonAncestor`, `SideChainFull`, `sideChainTips`, `UnconfirmedTxnsForAddress` |
| Primary store (PostgreSQL) | `src/unnamed/part_001` (package dcrpg), `src/v4/db/dcrpg/internal/txstmts.go` | blocks, transactions, vins, vouts, addresses, tickets, votes, misses tables with `is_mainchain`/`is_valid` flags and spending links | `InsertBlock`, `InsertTxns`, `InsertVins`, `InsertVouts`, `InsertAddressRows`, `InsertTickets`, `InsertVotes`, `SetSpendingFor*`, `SetPoolStatusForTickets*`, `Update*Mainchain`, `Update*Valid`, `RetrieveAddress*` |
| Explorer | `src/v4/explorer/explorer.go`, `explorermiddleware.go` | page data, chart cache (`ChartUpdate` mutex, cache height), sync status | `Store`, `prePopulateChartsData`, `SyncStatusUpdate`, `StartSyncingStatusMonitor`, `SetDisplaySyncStatusPage`, `BlockHashPathOrIndexCtx`, `SyncStatusPageActivation` |
| Insight API | `src/unnamed/part_002` | none (reads the store and the mempool) | `getAddressesTxnOutput`, `getTransactions`, `getAddressesTxn`, `getAddressInfo`, `getBlockSummaryByTime`, and read-through handlers |
| Lock helper | `src/vendor/github.com/chappjc/trylock` | a CAS word | `TryLock`, `Lock`, `Unlock` |

How they interact: `resyncDB` pulls blocks from the node one height at a
time, connects each in the stake database and stores its summary and stake
info in SQLite; every 200 blocks it hands the hash to the explorer through
`updateExplorer`, and it reports its progress on `barLoad` to the
explorer's `SyncStatusUpdate`, which fills the status page's progress
bars while the page is displayed.  While it is, the middleware answers
every page with the status page; afterwards a block page reads the best
block and the block from the lite and the PostgreSQL stores, which the
savers are still filling.  The explorer's `Store` is called for every new block and
refreshes its chart cache from the store under `ChartUpdate`.  The chain
walks of the node client (`CommonAncestor`, `SideChainFull`) find where a
side chain leaves the main chain for the reorganisation and side-chain
import code, which marks blocks, transactions, votes, tickets and address
rows in the PostgreSQL store as main chain or not.

## Modules and runs

### `ResyncDB` (sync engine, lite mode)

`ResyncDB.tla` models `resyncDB` with `DBHeights`, `RewindStakeDB` and
`getBlock`, in both of its modes.  In master mode (`blockGetter` nil) it
fetches every block itself.  In coordinated mode it fetches the blocks
below `fetchToHeight`.  It then waits on `waitChan` for each block the
full-mode database's `MasterBlockGetter` relays, and asks for the next
one with `WaitForHeight(i + 1)`.  The getter (`rpcutils.BlockGate`) is
not under `src/`, so it is modelled from its contract in the spec: it
relays one block at a time, starting at `fetchToHeight`, once the node
has it.

* State.  The two SQLite tables are the sets of heights they hold rows for
  (`summaryTable`, `stakeInfoTable`); their best heights (`summaryHeight`,
  `stakeInfoHeight`) are the largest element, -1 when empty, as
  `GetBlockSummaryHeight` reports.  The stake database only connects or
  disconnects its tip, so it is its height `stakeDBHeight`.  The goroutine's
  locals `height`, `dbHeight`, `i` and a program counter `pc` follow the
  code; `result` is what the last run returned.  The coordinated mode
  adds `master`, `fetchTo` (`fetchToHeight`), `relay` (the height the
  getter sends next on `waitChan`) and `got` (the height of the block in
  hand).
* Actions.  One per step of `resyncDB` between two calls that change or read
  a store: the start checks (`StartCorrupt`, `StartDeleteStakeDB`,
  `StartRewind`, `StartCheck`), the rewind loop (`RewindDisconnect`,
  `RewindEnd`), the loop body (`GetBlock`, `ConnectBlock`, `SkipStored`,
  `StoreBlockSummary`, `StoreStakeInfoExtended`, `RefreshHeight`) and
  `Finish`, and in coordinated mode `CheckFetchBehind` ("fetchToHeight may
  not be less than stakedb height"), `WaitBlock`, `WaitReceive` (the
  receive, `blockGetter.Block` and `WaitForHeight(i + 1)`) and
  `WaitCancelled`; each call that can fail has a `...Fail` action returning the
  height the code returns.  The environment mines blocks (`NodeConnect`),
  cancels the context (`Cancel`), crashes the process (`Crash`), restarts
  it on the persisted stores (`Restart`, in master mode or with a new
  `fetchToHeight` at any height up to `MaxHeight`) and, while it is stopped, deletes
  the stake database as its error message asks (`DeleteStakeDB`).
* Bounds.  `MaxHeight = 3` (genesis and three blocks: enough for a store to
  fail at block 1, a restart to rewind from 2 to 1, and the loop to be
  extended by a new block), `MaxFaults = 2` failures, crashes or deletions,
  `MaxRuns = 2` restarts.
* Refinement.  `SyncAbstract.tla` states what the lite database
  promises a restart.  It holds the node's chain up to a committed
  height, which grows one block at a time (`Commit`), never beyond the
  tip (`Mine`), and falls back to genesis only when the stake database
  is deleted (`ResetStake`).  `ResyncDB` instantiates it with
  `tip <- nodeHeight` and `committed <- Lowest`, the lowest of the three
  stores.  The `resync` run checks `ImplementsSyncAbstract` as a
  property, in both modes and with every fault.
* Harness.  `MC_ResyncDB` gives the bounds.  The pass run is the
  `resync` branch of `MC_Store` (`which = "resync"`), which instantiates
  `MC_ResyncDB` with `pc` and `result` renamed to `rsPc` and `rsResult`
  (the Insight handler has variables of those names); the violation runs
  use `MC_ResyncDB` on its own.
* Fairness.  `WF_vars(Sync)`: the resync goroutine is never descheduled
  for ever.  The node, the failures and the operator are not forced to act.

| Run | cfg | Expect | What it shows |
|-----|-----|--------|---------------|
| `store` (resync) | `Store.cfg` | pass | With any call failing, cancellation, crashes, restarts and stake DB deletion: the block handed to `ConnectBlock` is always the one above the stake DB (`ConnectsNextBlock`, the check the code has commented out); no height is ever missing from either table and the stake DB is never two blocks ahead (`NoSkippedBlocks`); in coordinated mode the block in hand while a block is stored is block `i` (`BlockInHandIsI`); the height returned is the one all stores hold on success, the lowest of them on a cancellation of the master, and never above the lowest otherwise (`ReturnsCommittedHeight`); every run returns (`RunReturns`); the module implements `SyncAbstract` (`ImplementsSyncAbstract`).  Both modes run, each from every initial state. |
| `resync_corrupt` | `ResyncDB_corrupt.cfg` | violation | Only `StoreStakeInfoExtended` fails: the two tables end one block apart and every later start returns "SQLite database is corrupted" (`NeverCorrupt`). |
| `resync_stakedb` | `ResyncDB_stakedb.cfg` | violation | Only `StoreBlockSummary` fails, right after block 1 was connected: the next start asks the operator to delete the stake DB instead of rewinding it by one (`NeverDeleteStakeDB`). |
| `resync_coordinated_cancel` | `ResyncDB_cancel.cfg` | violation | A coordinated run whose `fetchToHeight` is not above the stores starts its loop at `dbHeight`.  A cancellation before the first block then returns `dbHeight - 1`, not the last committed height (`CancelReturnsLastCommitted`). |

Not modelled in this module: the send on `updateExplorer` every 200
blocks, which only asks the explorer to refresh its pages, and a node that
reorganises to a shorter chain during the sync (the "chain server behind
DBs" branch is unreachable with a node that only grows).
`ImportSideChains` is modelled in its own module (next section), the
progress loads in `SyncProgress`.

### `SyncProgress` (resyncDB reporting to the status page)

`SyncProgress.tla` composes `ResyncDB` with `SyncStatus` over `barLoad`,
as `resyncDB` runs when it is given the channel and `updateStatusSync`
is set.

* The channel is unbuffered, so a send is one step of both goroutines:
  a step of `ResyncDB` conjoined with `SyncStatus!BarReceive`, which is
  enabled only when `SyncStatusUpdate` is back at its receive.
* `ResyncSend` holds the three sends, each with the step of `resyncDB` it
  belongs to.  `CheckBegin` sends `InitialLoad` (0 of 0).  `ConnectBlock`
  sends a scan load when `ScanReported` holds: the run's first block, or
  the first after a multiple of `RescanLogBlockChunk`, genesis excepted.
  `LoopExit` sends `CompleteLoad` ("sync complete", `From = To = height`).
  `ResyncQuiet` is every other step of `ResyncDB`, which leaves the page
  alone.
* `TimeToComplete` is the scan load's `Timestamp`: the time per block of
  the chunk times the blocks left.  When `endRangeBlock = i` the
  division is by zero.  The float is then `+Inf`, or `NaN` when no block
  is left, and its `int64` conversion is left to the platform.  The
  model chooses between `math.MinInt64` (amd64) and `0` or
  `math.MaxInt64` (arm64), with TLC's smallest and largest integers
  standing for the 64-bit limits.
* The page flag does not change during the composition:
  `SetDisplaySyncStatusPage(false)` is called once the sync has
  returned.  The ticker and the hub do not touch the bars and are left
  out; `MC_Store` checks them.
* Bounds.  `MC_SyncProgress` sets the chunk to two blocks, so that
  heights 0..3 reach both kinds of report in the loop.  The violation
  run is the first run in master mode with no failures, which is the
  plainest sync that shows the defect.

| Run | cfg | Expect | What it shows |
|-----|-----|--------|---------------|
| `resync_progress_bar` | `SyncProgress_bar.cfg` | violation | A sync from genesis to height 1 reports 0 of 0, reports no block in its loop, and ends with "sync complete".  `SyncStatusUpdate` applies that last load as a subtitle only, so the bar stays at 0% (`BarFullAtSyncEnd`). |

### `BlockTree`, `CommonAncestor`, `SideChainFull` (node client chain walks)

`BlockTree.tla` holds the block tree the node exposes: blocks
`0..NumBlocks-1` with genesis 0, and every other block given a
lower-numbered parent, so `Trees` contains every tree shape on
`NumBlocks` blocks.  It also defines the reference operators the walks are
checked against: `BlockHeight`, `AncestorsOrSelf`,
`LowestCommonAncestor` and `ChainAbove`.  These are written from what a tree
is, not from the code.

* `CommonAncestor.tla` models `rpcutils.CommonAncestor`.  The variables are
  the loop's locals `hashA`, `hashB`, `chainA`, `chainB` and `length`,
  plus `out`, the value returned.  There is one action per branch of an
  iteration:
  * `MaxLengthReached`;
  * `GetBlockFail`;
  * `StepA` and `StepB`, a step on the higher chain;
  * `StepBoth`, equal heights, which includes the genesis check and the
    join test.

  The initial state is every tree and every pair of tips.
* `SideChainFull.tla` models `rpcutils.SideChainFull`.  The walk back
  (`SideChainStep`, `ForkPointReached`, `TipNotSideChain`, `HeaderFail`)
  is followed by `reverseStringSlice` one swap at a time (`ReverseSwap`,
  `ReverseDone`).  The initial state is every tree, every best block and
  every tip.
* `ImportSideChains.tla` models `wiredDB.ImportSideChains` with
  `rpcutils.SideChains` and `sideChainTips`.  Its state is the node's
  tip statuses, the summary DB's record of each block (`stored`: none,
  main or side), the tip list, the `hashlist` of blocks to import and
  the blocks a call failed on (`failedOn`).  The actions are:
  * `GetTips`;
  * `ScanTip`, which runs `SideChainFull` plus the status check of each
    block, and takes its result from `ChainAbove`, the reference that
    `SideChainFull` is checked against;
  * `ScanDone`;
  * `ImportBlock`, which collects and stores one block;
  * `ImportDone`.

  Each call may fail as the code handles it.  A failed
  `CollectAPITypes` ends in `panicked`, because the `log.Debugf` at
  `sync.go:450` dereferences the nil result before the nil check.  The
  initial state is every tree, every set of tip statuses and every DB
  record in which the main chain is stored as main.  `MC_ChainWalks`
  composes the three walks: `which` picks the walks, the import, the transactions table
  (`TxTable`) or `UnconfirmedTxns`, and
  the import runs with `best` the node's tip.
* `UnconfirmedTxns.tla` models `rpcutils.UnconfirmedTxnsForAddress`.
  It fetches the mempool once (`GetRawMempoolVerbose`), then visits the
  mempool transactions in any order, as Go's map range does (`Visit`).
  Each visit takes one of three steps:
  * `InvalidHash`: returns what has been merged so far, with a count of 0
    and the error;
  * `RawTxFailed`: sets `err` and goes on;
  * `ScanTx`: counts and merges a transaction that involves the address.

  `LoopDone` returns.  `TxInvolvesAddress` is abstracted to the set
  `Involves`.  `MC_ChainWalks` runs it in behaviours of its own
  (`which = "mempool"`).  Its mempool has three transactions, two of them
  involving the address, and every call may fail.
* Bounds.  `NumBlocks = 5` gives every tree on 5 blocks: forks at any
  height, tips on the same chain, genesis as the meeting point.
  `MaxChainLength = 3` is below the longest chain, so the length limit
  fires.
* Fairness: none.  All three functions end after a bounded number of steps,
  and the properties are invariants.

| Run | cfg | Expect | What it shows |
|-----|-----|--------|---------------|
| `chain_walks` | `ChainWalks.cfg` | pass | For every tree and pair of tips, `CommonAncestor` agrees with the reference: the meeting block (its parent if it is a tip), the chains above it lowest first, `ErrAncestorAtGenesis` exactly when the ancestor would be below genesis, and `ErrAncestorMaxChainLength` exactly when the longer chain exceeds the limit (`ResultMatchesReference`).  For every tree, best block and tip, `SideChainFull` returns exactly the side-chain blocks above the fork point, tip last, or the "not on a side chain" error (`ReturnsSideChain`); this covers the in-place reversal for odd and even lengths.  When `ImportSideChains` returns nil, every block of a valid side chain that no call failed on is recorded as side chain, including one the DB still records as main from before a reorganisation, and the main chain stays main (`SideChainsRecorded`).  The transactions table properties `IdsNameTheirRows` and `DedupeKeepsFirstOfEach` run here too (see `TxTable`).  `UnconfirmedTxnsForAddress` returns a nil error only when it has merged and counted every mempool transaction involving the address: a failed `GetRawTransaction`, in any map order, reaches the returned error (`CompleteWithoutError`). |
| `import_collect_nil` | `ChainWalks_panic.cfg` | violation | A listed side-chain block whose `CollectAPITypes` returns nil panics the process in the `log.Debugf` before the nil check, where the comment says the block is skipped (`ImportNeverPanics`). |

### `ChartsCache` (explorer chart cache)

`ChartsCache.tla` models `explorerUI.Store` and its
`prePopulateChartsData` goroutines around the `ChartUpdate` mutex and
`cacheChartsData`.

* State.
  * A block is `[h, br]`: its height and its branch.
  * The databases' tip `tip` is ahead of the explorer's `page` by the
    notifications still `pending`.
  * `cache` is the cache's `updateHeight` and the blocks its PostgreSQL
    and SQLite parts were read at.
  * Each goroutine has a state `gstate[g]`, its `expHeight`, and the
    PostgreSQL data it has read.
  * `holder` is the goroutine holding `ChartUpdate`.
* Actions.
  * The node: `ConnectBlock`, `Reorganize`; the explorer's own sync
    ends (`ExplorerSyncFinished`).
  * `Store` records the next block and spawns a goroutine when no sync
    is running (`isSyncRunning`: the sync status page is displayed or
    the explorer sync flag is set) and the height is a multiple of 5 or
    the cache is empty.  The status page flag `display` is the variable
    `SyncStatus` clears, so the two modules share it.
  * Each goroutine steps through `Lock`, `CheckHeight` (the early return
    when the height is unchanged), `ReadPg` and `UpdateCache`.
  * `ReadFail` stands for either read timing out.
* Bounds.  Heights 0 to 5, so the multiple-of-5 refresh at 5 happens.
  Two branches, one reorganisation, and four goroutines, one for every
  block that can start one.
* Fairness.  `Store` and each goroutine are weakly fair: the notification
  loop calls `Store` for every block, and the Go scheduler runs any
  goroutine that can proceed.

| Run | cfg | Expect | What it shows |
|-----|-----|--------|---------------|
| `store` (charts) | `Store.cfg` | pass | With reorganisations to a higher tip and either read failing, goroutines that queue on `ChartUpdate` never move the cache's height back (`CacheNeverGoesBack`).  Once all of them have returned, a cache labelled with the explorer's height holds data read at the explorer's block (`ChartsMatchTip`).  The status branch is described in the next section. |
| `charts_cache_reorg` | `ChartsCache_reorg.cfg` | violation | A reorganisation to a competing block at the same height leaves the cache labelled with the explorer's height but holding the orphaned branch's charts (`ChartsMatchTip`). |

### `SyncStatus` (explorer sync status page)

`SyncStatus.tla` models the status page of `explorer.go`:
`SyncStatusUpdate`, `StartSyncingStatusMonitor`,
`SetDisplaySyncStatusPage(false)` and `DisplaySyncStatusPage`.

* State: the flag `display` (an `atomic.Value`), the caller of
  `SetDisplaySyncStatusPage` (`setPc`), the monitor goroutine
  (`monitor`), the websocket hub (`hubPc`, and `hubSaw`, the status it
  last pushed), `ProgressBars` (`bars`) and the load the update
  goroutine has checked (`barHeld`).
* Actions: `SetDisplayOffSend` then `SetDisplayOffStore` (the last signal
  is sent before the flag is stored); `MonitorTick` (stop the ticker if
  the page is off, then send either way) and `MonitorSend`; `HubRead`;
  `BarReceive(load)` (the receive on `barLoad` and the flag check
  that drops the load; `BarCheck` takes any load of `BarLoads`) and
  `BarWrite`
  (`UpdateBars`: the first bar, the bar of the same id, subtitle only
  for a load with a subtitle and no time stamp, or a new bar).
* The hub is not in this repository.  It is modelled as the comment of
  `SetDisplaySyncStatusPage` expects: it receives one signal at a time
  on the unbuffered `HubRelay` and then reads the flag.
* Bounds: three loads, namely a full and a subtitle-only update of one
  bar and a load of a second bar with `To = 0`.  The goroutines
  themselves are finite.
* `SyncStatusUpdate` checks the flag (`BarReceive`) and writes the bars
  (`BarWrite`) in two steps, so a load checked just before
  `SetDisplayOffStore` is written after the page is gone.  No property
  is stated about that window: the only reader of `ProgressBars` is
  the websocket hub, which is not in this repository, so the model
  cannot say what a late write does to the browsers.
* `MC_ChartsCache` composes it with `ChartsCache`, with `which` choosing
  the part that moves.  The other part's variables keep their initial
  values.  `MC_Store` (data in `MC_ChartsData`) runs both parts in the
  `store` run, beside the PostgreSQL store and the Insight handlers.  The chart-cache branch starts with the flag either way, so
  `isSyncRunning` can be true or false.
* Fairness (in `MC_Store`).  The ticker, the hub's receive and the store
  of the flag are weakly fair.  The two senders on the unbuffered
  `HubRelay`, the last signal of `SetDisplaySyncStatusPage` and the
  monitor's signal, are strongly fair.  The hub is busy whenever the
  other sender has just sent, so each is only intermittently enabled.
  Go queues blocked senders on a channel and hands each receive to the
  one that has waited longest, so neither is passed over for ever.

| Run | cfg | Expect | What it shows |
|-----|-----|--------|---------------|
| `store` (status) | `Store.cfg` | pass | Once the flag is cleared, the ticker stopped and every signal handled, the hub last pushed "not syncing" (`FinalStatusSeen`), and that end does come: the hub pushes "not syncing" and the ticker stops for good (`SyncEndPushed`).  The bars hold one entry per bar id (`OneBarPerId`). |

### `BlockRequest` (block page middleware)

`BlockRequest.tla` models a block page request through
`explorermiddleware.go` while the sync is still storing blocks.

* State: the mode (`liteMode`), the page flag (`display`), the best
  heights of the lite store (`liteH`, `blockData`) and of the primary
  store (`pgH`, `explorerSource`), the request in hand (`bReq`: its step,
  its `{blockhash}` parameter, the best height read, whether a read
  failed, and the best height when it arrived) and the answer (`bResp`).
* The two stores are not in this repository.  Each is its best height
  and holds blocks 0 up to it; a block's hash is its height.
* Actions: `NewRequest`; `SyncStatusActivation` (the status page while
  the flag is set); `ByHash` (`BlockHeight` of a hash: the block, "could
  not find", or the timeout page); `ReadBest` (the best block of the
  mode's store, whose `HeightDB` error gets the error page); `LookupLite`
  (a future block above the best; else `GetBlockHash` of the lite store,
  which ends the request in lite mode and falls back in full mode) and
  `Fallback` (`explorerSource.BlockHash`).  The savers (`LiteStore`,
  `PgStore`, in either order) and the end of the sync (`SyncDone`) run
  between the steps.
* Bounds: heights up to 2, both modes, the flag either way, every read
  able to fail, and every parameter from -1 to one above the top.

| Run | cfg | Expect | What it shows |
|-----|-----|--------|---------------|
| `store` (request) | `Store.cfg` | pass | A request that no failed read disturbs is answered "could not find that block" only for a negative height or a hash of a block the mode's store did not hold when it arrived, "expected to arrive" only for a height above the best block then, and never with an error or timeout page (`AnswerMatchesStores`).  In full mode this needs the fallback to the primary store when the lite store is behind it. |

### `AddressLedger`, `StakeTables` (PostgreSQL store)

* `AddressLedger.tla` holds the addresses table for one address: a
  funding row per output and a spending row per input, each with
  `matching_tx_hash` and `valid_mainchain`.
  * Writer actions: `InsertAddressRows`, `InsertSpendingAddressRow`
    (which updates the funding row in the same transaction, or leaves it
    to `SetSpendingForVinDbIDs` in bulk mode), `SpendingDone`,
    `SetSpendingForVinDbIDs`, `UpdateLastBlockValid` (the next block's
    verdict) and `UpdateAddressesMainchainByIDs` (one autocommitted
    statement per row id, any of which may fail).
  * Reader actions: `RetrieveAddressSpentUnspent`'s two queries,
    `QuerySpentUnspent` and `QueryMergedSpent`, interleaved with the
    writer.
  * Data: four blocks from spec scenario 4.  They have a coinbase, a
    stake-tree output, a transaction spending an earlier one, and every
    verdict on blocks 2 and 3.  There are two reads.
  * Fairness: weak on the writer (the sync loop keeps storing) and on
    the second query (a started read finishes).
* `StakeTables.tla` models the per-block store sequence for the stake
  tables.
  * Actions: `InsertBlock`, `InsertTickets`, `InsertVotes` (the misses
    by swap-remove from the validators, and the panic unless votes and
    misses total 5), `SetSpendingForTickets`,
    `SetPoolStatusForTicketsByHash` and `NextBlock`.
  * `CrashRestart`: the process may stop between any two commits and
    resume above `RetrieveBestBlockHeight`.
  * Data: three blocks with ten tickets.  Block 2's votes are every
    ordered choice of 3 to 5 of its validators, and block 3 is voted on
    by tickets of both earlier blocks.  There is at most one crash.
* `MC_PgStore` composes the two with a `which` selector (address data
  in `MC_AddressData`).  `MC_Store` runs them together with the Insight
  handlers (below) in one check.

| Run | cfg | Expect | What it shows |
|-----|-----|--------|---------------|
| `store` (address, stake) | `Store.cfg` | pass | A funding row's spending link always names a recorded spender, in both the immediate and the bulk mode (`SpendLinkHasSpender`).  Address rows follow their block's validity, except while or where the cascade failed (`RowsFollowBlockValidity`).  While every block is approved, the balance accounts for every output once (`BalanceWhileAllApproved`).  Votes plus misses are always 5, the misses are the non-voting validators whatever the vote order, and nothing panics (`MissAccounting`).  Across crashes, a ticket row that says voted or missed is right (`SpentStatusNeverWrong`). |
| `address_balance_disapproved` | `AddressLedger_disapproved.cfg` | violation | After a disapproval, outputs the disapproved block spent are counted neither spent nor unspent (`BalanceAccountsForEveryOutput`). |
| `address_read_race` | `AddressLedger_read.cfg` | violation | A block stored between the two queries of `RetrieveAddressSpentUnspent` makes the merged spent count exceed the spent count (`ReadIsSnapshot`). |
| `stake_status_crash` | `PgStore_crash.cfg` | violation | A stop between the per-block commits leaves a block's tickets or votes unwritten for good (`TicketStatusMatchesChain`). |

`AddressLedger.cfg` checks `MC_AddressLedger` on its own with the
pass-run invariants; it is not one of the project's runs.

### `InsightUTXO`, `InsightTxLists`, `InsightBlocks` (Insight API)

* `InsightUTXO.tla` models `getAddressesTxnOutput`.
  * Actions: the per-address reads (`Fetch`, `FetchFail`,
    `FetchTimeout`), the walk over the mempool's spent outpoints
    (`NextSpend`), the range over `txnOutputs` that deletes from the
    slice being ranged over (`RangeStep`) and the unstable `sort.Slice`
    (`SortResult`).
  * The backing array (`back`) and the slice length (`len`) are kept
    apart because Go's `append(s[:g], s[g+1:]...)` shifts the array
    under the range.
  * `MC_InsightUTXO` has two addresses and five outpoints, covering a
    mempool duplicate of a confirmed output, confirmed funders and
    spenders, and every read failing.
  * Queries (`MCRepeatQueries`): every list of distinct addresses, and
    the lists "a,a" and "b,a,b" that repeat one.  The handler splits
    the parameter on commas and never removes repeats, so each listing
    of an address appends its outputs again: "a,a" answers o2 twice,
    and "b,a,b" with a's reads failing answers o4 twice.  `AnswerSound`
    therefore bounds how often an output is listed by how many times
    its address is listed, rather than by one.  The `RangeStep` panic
    needs a spent outpoint twice in the slice during one round; the
    duplicate check of the mempool outputs prevents that within a
    round, and each round removes the outputs it spends before the next
    round appends them again, so no query reaches it.
* `InsightTxLists.tla` models `getTransactions`, `getAddressesTxn` and
  `getAddressInfo`.
  * Actions: the request checks, the database read, the mempool loop
    with its two duplicate checks and the unconfirmed balance, the
    from/to clamps and the limit error (`Page`), and the raw-transaction
    fetch and conversion (`FetchRaw`, `Convert`).
  * Every read may fail.
  * The page limits (10, 50, 1000) are scaled down to the lists' size,
    so every clamp and the limit error happen.
* `InsightBlocks.tla` models `getBlockSummaryByTime`.
  * Actions: `ParseDate` (an empty date means today, and a bad date is
    an error) and `QueryDay` (timeout, error, or the day's blocks
    paginated by `PageStep`: `More` and `MoreTs` when there is a
    positive limit, the whole day from its first second otherwise).
  * Data: three days of 10 seconds.  Day 1 has three blocks, two in the
    same second, day 2 has one and day 3 none.  The limits are -1, 0, 1,
    2 and 3, which cut below, at and above the day's size.  The row
    order of the SQL query, which is not under `src/`, is newest first,
    as the doc comment of `RetrieveBlockSummaryByTimeRange` says, with
    ties in any order.
* `MC_Insight` composes the three with a `which` selector, and
  `MC_Store` adds six more choices of `which`: the two PostgreSQL
  parts, the charts cache, its status page, the block page request and
  `resyncDB`.  A component that does not run keeps one of its initial
  states, so the state spaces add up: the `store` run explores about
  670,000 states in under a minute and a half.  Each handler answers one request per
  behaviour, and deadlock is not checked
  because a handler stops once it has answered.

| Run | cfg | Expect | What it shows |
|-----|-----|--------|---------------|
| `store` (utxo, lists, blocks) | `Store.cfg` | pass | Whatever reads fail, the unspent-outputs handler never panics and lists only unspent outputs of the listed addresses, each at most once per listing of its address (`AnswerSound`): a list that repeats an address gets that address's outputs once per repeat.  It lists all of them for every address it could read (`AnswerComplete`), despite deleting from the slice it ranges over.  The transaction lists name and count each transaction once and page within from/to and the limit (`PageOfDistinctTxs`).  A day's page of block summaries is the day's newest blocks, with `More` and `MoreTs` consistent with it (`SummaryPageMatchesReference`). |
| `insight_balance` | `Insight_balance.cfg` | violation | A mempool transaction that spends an output of the address and pays change back to it is skipped by the duplicate check, so its spent value is never subtracted from the unconfirmed balance (`UnconfirmedBalanceExact`). |

`InsightUTXO.cfg` checks `MC_InsightUTXO` on its own; it is not one of
the project's runs.

### `TxTable` (PostgreSQL transactions table)

`TxTable.tla` models the transactions table: the row statements of
`src/v4/db/dcrpg/internal/txstmts.go` and the functions of package dcrpg
(`src/unnamed/part_001`) that run them.  A row is a transaction in a
block, keyed by `(tx_hash, block_hash)`, with `is_valid` and
`is_mainchain`; the other columns are left out because nothing the
functions decide depends on them.

* State: `rows`, the committed rows with their ids; `nextId`, the id
  sequence (SERIAL8), which hands a value to every INSERT attempted and
  does not get it back on a rollback; `uixTxHashes`, whether the unique
  index exists; `out`, what the last call returned; `firstId`, the first id
  returned for each pair, which the caller stores in other tables.
* Each statement is an operator from a table to the table after it and
  the id it returns (`InsertTxRow`, `UpsertTxRow`, `DoNothingResult` for
  `InsertTxRowOnConflictDoNothing`, `UpdateTxnsMainchainByBlock`,
  `UpdateRegularTxnsValidByBlock`), chosen by `MakeTxInsertStatement`.
  An ON CONFLICT statement with no unique index on its columns is
  rejected by PostgreSQL, and a plain INSERT of a pair that already has a
  row is rejected once the index exists.
* Actions, any of them in any order, as the store's caller may call them:
  * `InsertTxns`: one database transaction over a block's tree.  A
    statement that returns no row is skipped, and a failed statement
    rolls everything back (`InsertLoop`).
  * `InsertTx`: one statement, autocommitted.
  * `DeleteDuplicateTxns`, `IndexTransactionTableOnHashes` and
    `DeindexTransactionTableOnHashes`.
  * `UpdateTransactionsMainchain` and `UpdateTransactionsValid`.
  * `RetrieveTxByHash`, which orders by `is_mainchain`, then `is_valid`,
    and returns any of the rows that tie.
* Bounds: block `b1` holds regular `x1`, `x2` and stake `x3`.  Block
  `b2`, at the same height, holds `x2`, `x1`.  Three insert calls let a
  block be stored twice unchecked, deduplicated, indexed, and then
  inserted again with a conflict.  Blocks are stored as main chain or
  side chain; the update actions then give the rows every other
  combination of flags.
* Harness: `MC_ChainWalks` runs the table in behaviours of its own
  (`which = "txns"`).  There it adds about 275,000 states to the walks'
  4.6 million.  `MC_Store`, whose liveness checking grows with the state
  graph, would have gone past two minutes.

Properties, checked in the `chain_walks` run:

* `IdsNameTheirRows`: when `InsertTxns` or `InsertTx` returns without an
  error, it returns one id per transaction, in order, and each id names
  that transaction's row in that block.  The `continue` on
  `sql.ErrNoRows` would shift the ids after a missing row.
  `InsertTxRowOnConflictDoNothing` returns nothing from its INSERT on a
  conflict; only its `UNION ALL` select of the existing id keeps the ids
  aligned.  The mutant drops that select.
* `DedupeKeepsFirstOfEach`: after `DeleteDuplicateTxns`, and whenever
  the unique index exists, every stored pair has exactly one row.  That
  row is the first one the pair was given.  The mutant keeps the newest
  row instead.

`UpdateTransactionsValid` returns `(int64, []uint64, error)` like
`UpdateTransactionsMainchain`, but `UpdateRegularTxnsValidByBlock` has
no `RETURNING` clause.  So it always returns 0 rows and no ids, whatever
it updated.  No code under `src/` reads those results, so the model
records the behaviour and no property is stated about it.

## Findings

* `resync_corrupt` (code bug): one failure of `StoreStakeInfoExtended`, or a
  stop between the two stores of one block, leaves the lite database
  permanently unusable.  The loop would repair the gap (the comment at
  `sync.go:318` says different heights are handled), but the start check at
  `sync.go:129` refuses first.
* `resync_stakedb` (spec/code divergence): the "stake DB more than twice the
  SQLite height" heuristic at `sync.go:138` treats the ordinary "connected
  block 1, failed to store it" case as corruption, where the spec says the
  engine rewinds the stake DB by one.

* `resync_coordinated_cancel` (spec/code divergence): in coordinated
  mode with `fetchToHeight <= dbHeight`, `startHeight` stays at
  `dbHeight` (`sync.go:174`).  A cancellation at the loop top or on the
  `waitChan` receive then returns `i - 1 = dbHeight - 1`
  (`sync.go:204`, `sync.go:230`).  Spec section 4.4 says a cancel
  returns the last committed height.
* `import_collect_nil` (code bug): `ImportSideChains` reads
  `blockDataBasic.Height` for a `log.Debugf` before checking it for nil
  (`sync.go:451`).  Go evaluates the arguments whatever the log level,
  so a block whose data cannot be collected panics the process.  The
  comment at the check says such a block is skipped.

* `charts_cache_reorg` (spec/code divergence): the chart cache is keyed
  by height only (`explorer.go:426`).  A reorganisation to a block at the
  same height keeps the orphaned charts, and one that happens between the
  two reads mixes the branches.  The spec says a reorganisation
  invalidates the cache.
* `resync_progress_bar` (code bug): `resyncDB` ends with a load of
  `From = To = height` and the subtitle "sync complete" (`sync.go:375`).
  `SyncStatusUpdate` applies a load with a subtitle and no `Timestamp` as
  a subtitle only (`explorer.go:241`), so the bar is never filled.  It
  keeps the last in-loop report: 0% for a sync from genesis of fewer
  than 1000 blocks, and the start height over the node's height for a
  resumed one.

* `address_balance_disapproved` (spec/code divergence): when a block
  is disapproved, only its own address rows lose `valid_mainchain`
  (`part_001:2979`).  The funding rows its inputs spent keep
  `matching_tx_hash`, so those outputs count neither as spent nor as
  unspent in the balance.
* `address_read_race` (code bug): `RetrieveAddressSpentUnspent` opens a
  read-only transaction but runs its second query outside it
  (`part_001:1108`), so the two counts can come from different
  snapshots.
* `stake_status_crash` (spec/code divergence): each per-block write of
  the stake tables commits on its own (`part_001:208`), so a stop
  between them leaves a block half stored.  The restart resumes above
  the block row and never writes the rest.
* `insight_balance` (code bug): `getAddressInfo`'s duplicate check on
  transaction hashes also gates the unconfirmed balance arithmetic
  (`part_002:1004`).  A mempool transaction that pays the address and
  spends one of its outputs is counted only for its first outpoint.

Issues found while modelling that have no violation run:

* A `getMainchainStatus` error other than `sql.ErrNoRows` silently drops
  the block from the import list (`sync.go:435`).
* The time to complete of a scan report divides by `endRangeBlock - i`
  (`sync.go:269`).  That is zero when the reported block ends its chunk
  or the run, for example a restart one block behind the node.  The
  `int64` of the resulting `+Inf` or `NaN` is `math.MinInt64` on amd64,
  so the page shows a negative time.  `SyncProgress` models it; no run
  checks the sign.

## Mutants

Every property of a pass run has a mutant in `PROJECT.json`.  A mutant
is a definition written just before the one it replaces (named
`<Definition>_<bug>`) that makes the change a plausible bug in that code
would make: a dropped guard, an off-by-one, a missing check.  The
property must then fail under the run's own configuration.

## Not modelled

* The `updateExplorer` send of `resyncDB`, which only asks the explorer
  to refresh.  The full-mode `MasterBlockGetter` is modelled only by its
  contract.
* The growth of `prePopulateChartsData` goroutines queued on
  `ChartUpdate` (`explorer.go:553`).  How many pile up depends on
  timing, which the model does not measure.  `MaxRefreshes` bounds them.
* The data race on `blockchainSyncStatus.ProgressBars`
  (`explorer.go:236`).  Its readers, the websocket hub and the
  templates, are not in this repository, and a torn slice header is
  below the model's level of detail.
* The websocket hub, modelled only as the reader of the status flag.
  The router, the page templates, the context getters of the other
  middleware and the `simulateASR` float computations: none holds state
  between requests, and the model's properties do not depend on them.
* The Insight read-through handlers (`getTransaction`, `getBlockSummary`,
  `getSyncInfo`, `getStatusInfo`, `getEstimateFee` and the rest).  Each
  is one or two reads plus formatting, with no state between requests.
* The read-only transaction queries whose results no modelled code uses
  (block times, per-day counts, ticket buckets, `RetrieveTxsByBlockHash`,
  `RetrieveTxnsBlocks`).  Also the `*All` updates and the
  `uix_tx_block_in` index, which no code under `src/` runs, and a
  failing `Commit` in `InsertTxns`.
* Network parameters, `trylock` (unused) and the
  build scripts.
* `PROJECT.json` lists every component with its status and the reason.

## Open work

* Hazards in `PROJECT.json` with no property yet:
  * the sign of the time to complete in the progress loads;
  * the reorganisation to a shorter chain during `resyncDB`;
  * a transaction mined between the confirmed and the mempool reads of
    the Insight transaction lists.
* `InsightTxLists` models the mempool read as one call that succeeds or
  fails whole.  A refinement mapping to `UnconfirmedTxns` would show that
  this abstraction is sound.  It needs the Insight handlers and the
  walks in one harness, and neither `MC_Store` nor `MC_ChainWalks` has
  the time to spare (each takes about one and a half minutes).
* An abstract "main chain view" of the PostgreSQL store that
  `AddressLedger` and `StakeTables` would refine.
