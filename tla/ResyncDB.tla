------------------------------ MODULE ResyncDB ------------------------------
(***************************************************************************)
(* The lite-mode synchronisation engine: the wiredDB method resyncDB of   *)
(* src/v4/db/dcrsqlite/sync.go, with RewindStakeDB and DBHeights, in the  *)
(* "master" mode (no external block getter) and in the coordinated mode,  *)
(* where blocks from fetchToHeight on come from a MasterBlockGetter over   *)
(* waitChan.                                                               *)
(*                                                                         *)
(* Three stores persist across runs of the process: the SQLite block      *)
(* summary table, the SQLite stake info table and the stake database      *)
(* (ffldb_stake).  A table is the set of heights it holds rows for, its  *)
(* best height the largest of them; the stake database, which only ever   *)
(* connects or disconnects its tip, is its best height.  A run of         *)
(* resyncDB reads the heights, may rewind the stake database, then walks  *)
(* heights i = start..height connecting block i in the stake database and *)
(* storing it in the two tables, re-reading the node's best height at the *)
(* end of every iteration.  Every RPC and store call may fail, the        *)
(* context may be cancelled at any time, the process may crash between    *)
(* any two steps, and it is started again on the persisted state; while  *)
(* it is stopped the operator may delete the stake database, as the       *)
(* "delete stake db (ffldb_stake) and try again" error asks.              *)
(*                                                                         *)
(* The MasterBlockGetter is not in this repository.  It is modelled as    *)
(* the spec's contract for the coordinated mode: an unbuffered channel     *)
(* with one block of look-ahead, on which the getter sends the block of    *)
(* the height last asked for (initWaitChan: fetchToHeight; then           *)
(* WaitForHeight(h)) once the node has it.                                 *)
(***************************************************************************)
EXTENDS Integers, FiniteSets

CONSTANTS
  MaxHeight,  \* the highest block the node ever reaches (model bound)
  MaxFaults,  \* how many failed calls and crashes a behaviour may contain
  MaxRuns,    \* how many times the process is started again
  Masters,    \* the modes the process may run in: TRUE is master mode
  FailOps     \* the calls that may fail in this model

Ops == {"GetBestBlock", "getBlock", "ConnectBlock", "DisconnectBlock",
        "StoreBlockSummary", "StoreStakeInfoExtended", "blockGetter.Block"}

ASSUME MaxHeight \in Nat /\ MaxFaults \in Nat /\ MaxRuns \in Nat
ASSUME FailOps \subseteq Ops /\ Masters \subseteq BOOLEAN /\ Masters # {}

VARIABLES
  nodeHeight,       \* best height of the node (chain server)
  summaryTable,     \* heights held by the SQLite block summary table
  stakeInfoTable,   \* heights held by the SQLite stake info table
  stakeDBHeight,    \* height of the stake database's best node
  pc,               \* where the resyncDB goroutine is
  height,           \* resyncDB's local copy of the node's best height
  dbHeight,         \* the lowest DB height read at the start of the run
  i,                \* the loop index of resyncDB
  cancelled,        \* ctx.Done() is closed for this run
  result,           \* what the last run returned
  faults,           \* failed calls and crashes so far
  runs,             \* restarts so far
  master,           \* blockGetter == nil: resyncDB sets the pace
  fetchTo,          \* fetchToHeight, the caller's argument of this run
  relay,            \* the height the block getter sends next on waitChan
  got               \* the height of the block in hand

vars == <<nodeHeight, summaryTable, stakeInfoTable, stakeDBHeight, pc,
          height, dbHeight, i, cancelled, result, faults, runs, master,
          fetchTo, relay, got>>
getter == <<master, fetchTo, relay, got>>
stores == <<summaryTable, stakeInfoTable, stakeDBHeight>>
env == <<nodeHeight, faults, runs>>

Heights == -1..MaxHeight
PCs == {"start", "rewind", "check", "loop", "wait", "connect", "summary",
        "stakeinfo", "refresh", "refreshSkip", "finish", "idle"}
Kinds == {"none", "ok", "cancel", "error", "corrupt", "deleteStakeDB", "crash"}
NoResult == [kind |-> "none", height |-> -1]

MinOf(a, b) == IF a < b THEN a ELSE b

(* The best height of a table: its highest row, -1 when it is empty. *)
TableHeight(t) == IF t = {} THEN -1 ELSE CHOOSE h \in t : \A g \in t : g <= h

summaryHeight == TableHeight(summaryTable)
stakeInfoHeight == TableHeight(stakeInfoTable)

(* DBHeights: the lowest of the three heights. *)
Lowest == MinOf(MinOf(summaryHeight, stakeInfoHeight), stakeDBHeight)

(* resyncDB returns (h, kind); the goroutine is then idle. *)
Return(kind, h) ==
  /\ pc' = "idle"
  /\ result' = [kind |-> kind, height |-> h]

(* A call to op fails, using one unit of the fault budget. *)
Fail(op) ==
  /\ op \in FailOps
  /\ faults < MaxFaults
  /\ faults' = faults + 1

-----------------------------------------------------------------------------
(* Start of resyncDB: GetBestBlock, then DBHeights and the checks on them. *)

StartRead ==
  /\ pc = "start"
  /\ height' = nodeHeight
  /\ dbHeight' = Lowest

StartFail ==
  /\ pc = "start"
  /\ Fail("GetBestBlock")
  /\ Return("error", -1)
  /\ UNCHANGED <<getter, nodeHeight, stores, height, dbHeight, i, cancelled,
                 runs>>

(* The two SQLite tables disagree: "SQLite database is corrupted". *)
StartCorrupt ==
  /\ StartRead
  /\ stakeInfoHeight # summaryHeight
  /\ Return("corrupt", -1)
  /\ UNCHANGED <<getter, stores, env, i, cancelled>>

RewindNeeded == stakeDBHeight > Lowest /\ stakeDBHeight > 0

(* The stake DB is too far ahead: "delete stake db and try again". *)
StartDeleteStakeDB ==
  /\ StartRead
  /\ stakeInfoHeight = summaryHeight
  /\ RewindNeeded
  /\ Lowest < 0 \/ stakeDBHeight > 2 * Lowest
  /\ Return("deleteStakeDB", -1)
  /\ UNCHANGED <<getter, stores, env, i, cancelled>>

StartRewind ==
  /\ StartRead
  /\ stakeInfoHeight = summaryHeight
  /\ RewindNeeded
  /\ ~(Lowest < 0 \/ stakeDBHeight > 2 * Lowest)
  /\ pc' = "rewind"
  /\ UNCHANGED <<getter, stores, env, i, cancelled, result>>

StartCheck ==
  /\ StartRead
  /\ stakeInfoHeight = summaryHeight
  /\ ~RewindNeeded
  /\ pc' = "check"
  /\ UNCHANGED <<getter, stores, env, i, cancelled, result>>

-----------------------------------------------------------------------------
(* RewindStakeDB(ctx, dbHeight): disconnect one block at a time.  A        *)
(* cancelled context ends the rewind without an error, and resyncDB goes   *)
(* on as if it had finished.                                               *)

\* Mutant: the loop runs while stakeDBHeight >= toHeight.
RewindCondition_offByOne == stakeDBHeight >= dbHeight

RewindCondition == stakeDBHeight > dbHeight

RewindDisconnect ==
  /\ pc = "rewind"
  /\ RewindCondition
  /\ ~cancelled
  /\ stakeDBHeight' = stakeDBHeight - 1
  /\ UNCHANGED <<getter, summaryTable, stakeInfoTable, env, pc, height,
                 dbHeight, i, cancelled, result>>

RewindFail ==
  /\ pc = "rewind"
  /\ RewindCondition
  /\ ~cancelled
  /\ Fail("DisconnectBlock")
  /\ Return("error", dbHeight)
  /\ UNCHANGED <<getter, nodeHeight, stores, height, dbHeight, i, cancelled,
                 runs>>

\* Mutant: the rewind loop only ends once the stake DB is low enough.
RewindDone_ignoreCancel == ~RewindCondition

RewindDone == ~RewindCondition \/ cancelled

RewindEnd ==
  /\ pc = "rewind"
  /\ RewindDone
  /\ pc' = "check"
  /\ UNCHANGED <<getter, stores, env, height, dbHeight, i, cancelled, result>>

-----------------------------------------------------------------------------
(* minBlocksToCheck = height - dbHeight, and the start of the loop at      *)
(* dbHeight + 1.  The node never falls below the DBs in this model, so the *)
(* "chain server behind DBs" error is not reached.                         *)

(* Coordinated mode: the stake DB may not be above fetchToHeight.         *)
FetchBehind == ~master /\ fetchTo < stakeDBHeight

CheckFetchBehind ==
  /\ pc = "check"
  /\ FetchBehind
  /\ Return("error", dbHeight)
  /\ UNCHANGED <<getter, stores, env, height, dbHeight, i, cancelled>>

CheckSynced ==
  /\ pc = "check"
  /\ ~FetchBehind
  /\ height = dbHeight
  /\ Return("ok", height)
  /\ UNCHANGED <<getter, stores, env, height, dbHeight, i, cancelled>>

\* Mutant: the loop starts above the stake database's height.
StartHeight_stakeDB == stakeDBHeight + 1

(* startHeight := dbHeight, incremented in master mode, and in the        *)
(* coordinated mode only when fetchToHeight is above it.                   *)
StartHeight == IF master \/ fetchTo > dbHeight THEN dbHeight + 1 ELSE dbHeight

CheckBegin ==
  /\ pc = "check"
  /\ ~FetchBehind
  /\ height > dbHeight
  /\ pc' = "loop"
  /\ i' = StartHeight
  /\ UNCHANGED <<getter, stores, env, height, dbHeight, cancelled, result>>

-----------------------------------------------------------------------------
(* The loop over i.  Top of the loop: the end condition, the cancellation *)
(* check, then getBlock(i) (GetBlockHash and GetBlock) in master mode or  *)
(* below fetchToHeight, the wait on waitChan otherwise.                    *)

FetchesItself == master \/ i < fetchTo

\* Mutant: for i := startHeight; i < height; i++.
LoopDone_early == i >= height

\* Mutant: for i := startHeight; i <= height + 1; i++.
LoopDone_late == i > height + 1

LoopDone == i > height

LoopExit ==
  /\ pc = "loop"
  /\ LoopDone
  /\ pc' = "finish"
  /\ UNCHANGED <<getter, stores, env, height, dbHeight, i, cancelled, result>>

LoopCancelled ==
  /\ pc = "loop"
  /\ ~LoopDone
  /\ cancelled
  /\ Return("cancel", i - 1)
  /\ UNCHANGED <<getter, stores, env, height, dbHeight, i, cancelled>>

GetBlock ==
  /\ pc = "loop"
  /\ ~LoopDone
  /\ ~cancelled
  /\ FetchesItself
  /\ got' = i
  /\ pc' = "connect"
  /\ UNCHANGED <<master, fetchTo, relay, stores, env, height, dbHeight, i,
                 cancelled, result>>

GetBlockFail ==
  /\ pc = "loop"
  /\ ~LoopDone
  /\ ~cancelled
  /\ FetchesItself
  /\ Fail("getBlock")
  /\ Return("error", i - 1)
  /\ UNCHANGED <<getter, nodeHeight, stores, height, dbHeight, i, cancelled,
                 runs>>

WaitBlock ==
  /\ pc = "loop"
  /\ ~LoopDone
  /\ ~cancelled
  /\ ~FetchesItself
  /\ pc' = "wait"
  /\ UNCHANGED <<getter, stores, env, height, dbHeight, i, cancelled, result>>

\* Mutant: the next block asked for is the one just received.
NextRelay_same == i

(* WaitForHeight(i + 1), asked before the block is connected. *)
NextRelay == i + 1

(* The select on waitChan and ctx.Done(): the getter's block, once the    *)
(* node has it, then blockGetter.Block(blockhash), which may fail; or the *)
(* cancellation, whichever Go picks when both are ready.                   *)
WaitReceive ==
  /\ pc = "wait"
  /\ relay <= nodeHeight
  /\ \/ /\ got' = relay
        /\ relay' = NextRelay
        /\ pc' = "connect"
        /\ UNCHANGED <<faults, result>>
     \/ /\ Fail("blockGetter.Block")
        /\ Return("error", i - 1)
        /\ UNCHANGED <<got, relay>>
  /\ UNCHANGED <<master, fetchTo, nodeHeight, runs, stores, height, dbHeight,
                 i, cancelled>>

WaitCancelled ==
  /\ pc = "wait"
  /\ cancelled
  /\ Return("cancel", i - 1)
  /\ UNCHANGED <<getter, stores, env, height, dbHeight, i, cancelled>>

(* if i > stakeDBHeight { sDB.ConnectBlock(block) }: the stake database   *)
(* advances by one block, whatever block it is given.                      *)
ConnectBlock ==
  /\ pc = "connect"
  /\ IF i > stakeDBHeight
       THEN stakeDBHeight' = stakeDBHeight + 1
       ELSE UNCHANGED stakeDBHeight
  /\ pc' = "summary"
  /\ UNCHANGED <<getter, summaryTable, stakeInfoTable, env, height, dbHeight,
                 i, cancelled, result>>

ConnectBlockFail ==
  /\ pc = "connect"
  /\ i > stakeDBHeight
  /\ Fail("ConnectBlock")
  /\ Return("error", i - 1)
  /\ UNCHANGED <<getter, nodeHeight, stores, height, dbHeight, i, cancelled,
                 runs>>

(* "If SQLite is ahead, go to next block": both tables already hold i.    *)
AlreadyStored == i <= summaryHeight /\ i <= stakeInfoHeight

SkipStored ==
  /\ pc = "summary"
  /\ AlreadyStored
  /\ pc' = "refreshSkip"
  /\ UNCHANGED <<getter, stores, env, height, dbHeight, i, cancelled, result>>

(* PoolInfo from the stake database, then StoreBlockSummary if i is above *)
(* the summary table's height.                                             *)
StoreBlockSummary ==
  /\ pc = "summary"
  /\ ~AlreadyStored
  /\ summaryTable' = IF i > summaryHeight THEN summaryTable \cup {i}
                                       ELSE summaryTable
  /\ pc' = "stakeinfo"
  /\ UNCHANGED <<getter, stakeInfoTable, stakeDBHeight, env, height, dbHeight,
                 i, cancelled, result>>

StoreBlockSummaryFail ==
  /\ pc = "summary"
  /\ ~AlreadyStored
  /\ i > summaryHeight
  /\ Fail("StoreBlockSummary")
  /\ Return("error", i - 1)
  /\ UNCHANGED <<getter, nodeHeight, stores, height, dbHeight, i, cancelled,
                 runs>>

(* FeeRateInfoBlock and StoreStakeInfoExtended, unless the stake info     *)
(* table already holds i.  A nil FeeRateInfoBlock is the same error.       *)
StoreStakeInfoExtended ==
  /\ pc = "stakeinfo"
  /\ IF i <= stakeInfoHeight
       THEN /\ pc' = "refreshSkip"
            /\ UNCHANGED stakeInfoTable
       ELSE /\ pc' = "refresh"
            /\ stakeInfoTable' = stakeInfoTable \cup {i}
  /\ UNCHANGED <<getter, summaryTable, stakeDBHeight, env, height, dbHeight, i,
                 cancelled, result>>

StoreStakeInfoExtendedFail ==
  /\ pc = "stakeinfo"
  /\ i > stakeInfoHeight
  /\ Fail("StoreStakeInfoExtended")
  /\ Return("error", i - 1)
  /\ UNCHANGED <<getter, nodeHeight, stores, height, dbHeight, i, cancelled,
                 runs>>

(* GetBestBlock at the end of an iteration (the loop's end condition) and *)
(* i++.  Its failure returns i after a full iteration, i - 1 after a skip. *)
RefreshHeight ==
  /\ pc \in {"refresh", "refreshSkip"}
  /\ height' = nodeHeight
  /\ i' = i + 1
  /\ pc' = "loop"
  /\ UNCHANGED <<getter, stores, env, dbHeight, cancelled, result>>

RefreshHeightFail ==
  /\ pc \in {"refresh", "refreshSkip"}
  /\ Fail("GetBestBlock")
  /\ Return("error", IF pc = "refresh" THEN i ELSE i - 1)
  /\ UNCHANGED <<getter, nodeHeight, stores, height, dbHeight, i, cancelled,
                 runs>>

(* After the loop: DBHeights again, and the check of the two tables.      *)
Finish ==
  /\ pc = "finish"
  /\ IF stakeInfoHeight # summaryHeight
       THEN Return("corrupt", -1)
       ELSE Return("ok", height)
  /\ UNCHANGED <<getter, stores, env, height, dbHeight, i, cancelled>>

-----------------------------------------------------------------------------
(* The environment: the node mines, the context is cancelled, the process *)
(* crashes or is started again on the persisted stores.                    *)

NodeConnect ==
  /\ nodeHeight < MaxHeight
  /\ nodeHeight' = nodeHeight + 1
  /\ UNCHANGED <<getter, stores, faults, runs, pc, height, dbHeight, i,
                 cancelled, result>>

Cancel ==
  /\ pc # "idle"
  /\ ~cancelled
  /\ cancelled' = TRUE
  /\ UNCHANGED <<getter, stores, env, pc, height, dbHeight, i, result>>

Crash ==
  /\ pc # "idle"
  /\ faults < MaxFaults
  /\ faults' = faults + 1
  /\ Return("crash", -1)
  /\ UNCHANGED <<getter, nodeHeight, stores, height, dbHeight, i, cancelled,
                 runs>>

(* The operator deletes ffldb_stake while the process is stopped; it is *)
(* created again holding only the genesis block.  An intervention counts  *)
(* against the same budget as the faults.                                  *)
DeleteStakeDB ==
  /\ pc = "idle"
  /\ stakeDBHeight > 0
  /\ faults < MaxFaults
  /\ faults' = faults + 1
  /\ stakeDBHeight' = 0
  /\ UNCHANGED <<getter, nodeHeight, summaryTable, stakeInfoTable, runs, pc,
                 height, dbHeight, i, cancelled, result>>

(* The caller runs resyncDB again; in the coordinated mode with a new     *)
(* fetchToHeight, which initWaitChan hands the getter.                     *)
FetchHeights == IF master THEN {-1} ELSE 0..MaxHeight

Restart ==
  /\ pc = "idle"
  /\ runs < MaxRuns
  /\ runs' = runs + 1
  /\ pc' = "start"
  /\ cancelled' = FALSE
  /\ result' = NoResult
  /\ fetchTo' \in FetchHeights
  /\ relay' = fetchTo'
  /\ UNCHANGED <<master, got, nodeHeight, faults, stores, height, dbHeight, i>>

-----------------------------------------------------------------------------

Init ==
  /\ nodeHeight \in 0..MaxHeight
  /\ summaryTable = {}         \* empty SQLite tables
  /\ stakeInfoTable = {}
  /\ stakeDBHeight = 0         \* the stake database always holds genesis
  /\ pc = "start"
  /\ height = -1
  /\ dbHeight = -1
  /\ i = -1
  /\ cancelled = FALSE
  /\ result = NoResult
  /\ faults = 0
  /\ runs = 0
  /\ master \in Masters
  /\ fetchTo \in FetchHeights
  /\ relay = fetchTo
  /\ got = -1

(* The steps of the resyncDB goroutine, failures included. *)
Sync ==
  \/ StartFail \/ StartCorrupt \/ StartDeleteStakeDB \/ StartRewind
  \/ StartCheck
  \/ RewindDisconnect \/ RewindFail \/ RewindEnd
  \/ CheckFetchBehind \/ CheckSynced \/ CheckBegin
  \/ LoopExit \/ LoopCancelled \/ GetBlock \/ GetBlockFail
  \/ WaitBlock \/ WaitReceive \/ WaitCancelled
  \/ ConnectBlock \/ ConnectBlockFail
  \/ SkipStored \/ StoreBlockSummary \/ StoreBlockSummaryFail
  \/ StoreStakeInfoExtended \/ StoreStakeInfoExtendedFail
  \/ RefreshHeight \/ RefreshHeightFail
  \/ Finish

Environment == NodeConnect \/ Cancel \/ Crash \/ DeleteStakeDB \/ Restart

Next == Sync \/ Environment

(* The Go scheduler keeps running the goroutine; the node, the operator   *)
(* and the failures are not forced to act.                                 *)
Spec == Init /\ [][Next]_vars /\ WF_vars(Sync)

-----------------------------------------------------------------------------

TypeOK ==
  /\ nodeHeight \in 0..MaxHeight
  /\ summaryTable \subseteq 0..MaxHeight
  /\ stakeInfoTable \subseteq 0..MaxHeight
  /\ stakeDBHeight \in Heights
  /\ pc \in PCs
  /\ height \in Heights
  /\ dbHeight \in Heights
  /\ i \in -1..(MaxHeight + 1)
  /\ cancelled \in BOOLEAN
  /\ result \in [kind : Kinds, height : Heights]
  /\ faults \in 0..MaxFaults
  /\ runs \in 0..MaxRuns
  /\ master \in Masters
  /\ fetchTo \in -1..MaxHeight
  /\ relay \in -1..(MaxHeight + 1)
  /\ got \in -1..(MaxHeight + 1)

(* The commented-out panic before ConnectBlock in resyncDB: the block the *)
(* loop hands to the stake database is always the one right above its     *)
(* best node, after any rewind, skip, failure or restart.                  *)
ConnectsNextBlock ==
  pc = "connect" /\ i > stakeDBHeight => i = stakeDBHeight + 1

(* No block is ever skipped: whatever failed, crashed, was cancelled,    *)
(* rewound or deleted before, each SQLite table holds every height from   *)
(* genesis up to its best height, and the stake database is never more   *)
(* than one block above the tables (a connect whose store then failed).  *)
NoSkippedBlocks ==
  /\ summaryTable = 0..summaryHeight
  /\ stakeInfoTable = 0..stakeInfoHeight
  /\ stakeDBHeight <= MinOf(summaryHeight, stakeInfoHeight) + 1

(* The coordinated mode's handshake: the block resyncDB connects and       *)
(* stores as height i, whether fetched itself or received from the block   *)
(* getter on waitChan, is the block at height i, whatever fetchToHeight    *)
(* the caller gave and however far the stake DB and the tables were apart. *)
BlockInHandIsI == pc \in {"connect", "summary", "stakeinfo"} => got = i

ReturnedHeightCommitted ==
  /\ result.kind = "ok" =>
       /\ summaryHeight = result.height
       /\ stakeInfoHeight = result.height
       /\ stakeDBHeight = result.height
  /\ result.kind = "cancel" /\ master => result.height = Lowest
  /\ result.kind \in {"cancel", "error"} => result.height <= Lowest

(* The height resyncDB returns is the one every store holds, the height a *)
(* restart resumes after: on success all three stores are exactly at it, *)
(* on cancellation of the master it is the lowest of them, and with an    *)
(* error or a coordinated cancellation it is never above the lowest.      *)
(* Checked at the step where resyncDB returns (the operator may later     *)
(* delete the stake database).                                             *)
ReturnsCommittedHeight ==
  [][pc # "idle" /\ pc' = "idle" => ReturnedHeightCommitted']_vars

(* Spec section 4.4: "On cancel, the Sync Engine returns the last         *)
(* committed height", in both modes of resyncDB: the height returned on   *)
(* cancellation is the lowest of the three stores.                        *)
CancelReturnsLastCommitted ==
  [][pc # "idle" /\ pc' = "idle" /\ result'.kind = "cancel"
       => result'.height = Lowest']_vars

(* Every run of resyncDB returns, although new blocks extend the loop     *)
(* while it runs.                                                          *)
RunReturns == pc # "idle" ~> pc = "idle"

(* ResyncDB implements SyncAbstract with the node's height as the tip and *)
(* the lowest of the three stores as the committed height: across          *)
(* failures, cancellations, crashes, restarts and rewinds of the stake     *)
(* DB, and in both modes, the stores together gain one block at a time,   *)
(* never above the node, and lose blocks only when the stake DB is        *)
(* deleted.                                                                *)
Abstract == INSTANCE SyncAbstract WITH tip <- nodeHeight, committed <- Lowest

ImplementsSyncAbstract == Abstract!AbsSpec

(* A restart never finds the two SQLite tables at different heights.      *)
NeverCorrupt == result.kind # "corrupt"

(* A restart never asks the operator to delete the stake database.        *)
NeverDeleteStakeDB == result.kind # "deleteStakeDB"

=============================================================================
