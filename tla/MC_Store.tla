------------------------------- MODULE MC_Store -------------------------------
(***************************************************************************)
(* The storage, query and cache layer on its data: the Insight API's      *)
(* handlers (MC_Insight: utxo, lists, blocks), the PostgreSQL store's     *)
(* address rows and stake tables (MC_PgStore: address, stake), and the   *)
(* explorer's charts cache and sync status page (MC_ChartsCache: charts, *)
(* status), a block page request through the explorer's middleware     *)
(* (BlockRequest: request), and the lite database's resyncDB with the     *)
(* bounds of MC_ResyncDB (resync).  `which` picks the component a behaviour     *)
(* runs; the others stay in one of their initial states.                  *)
(***************************************************************************)
EXTENDS MC_Insight, MC_AddressData, MC_ChartsData

CONSTANTS t1, t2, t3, t4, t5, t6, t7, t8, t9, t10,
          PgFailOps   \* the address statements that may fail

VARIABLES fund, spend, blockValid, cur, wpc, bulk, verdict, idVins, idVouts,
          failed, rpc, res, reads,
          votes, blockRows, ticketRows, voteRows, missRows, missList, stCur,
          phase, crashes,
          tip, pending, page, display, explorerSync, cache, holder, gstate,
          expHeight, pgData, reorgs, setPc, monitor, hubPc, hubSaw, bars,
          barHeld,
          liteMode, liteH, pgH, bReq, bResp,
          nodeHeight, summaryTable, stakeInfoTable, stakeDBHeight, rsPc,
          height, dbHeight, i, cancelled, rsResult, faults, runs, master,
          fetchTo, relay, got

PG == INSTANCE MC_PgStore
        WITH FailOps <- PgFailOps, NumBlocks <- MCNumBlocks, Txs <- MCTxs,
             Outs <- MCOuts, Vins <- MCVins, TxBlock <- MCTxBlock,
             TxTree <- MCTxTree, OutTx <- MCOutTx, OutValue <- MCOutValue,
             VinTx <- MCVinTx, VinSpends <- MCVinSpends,
             ZeroOutpoint <- MCZeroOutpoint, Approvals <- MCBothVerdicts,
             MaxReads <- MCMaxReads

\* The chart reads that may time out or fail (ChartsCache!ChartReads).
ChartsFailOps == {"GetPgChartsData", "GetSqliteChartsData"}

CC == INSTANCE MC_ChartsCache
        WITH StartHeight <- MCStartHeight, MaxHeight <- MCMaxHeight,
             Branches <- MCBranches, ReorgRises <- MCRisingReorg,
             MaxReorgs <- MCMaxReorgs, MaxRefreshes <- MCMaxRefreshes,
             FailOps <- ChartsFailOps

\* Every data source call of a block request may fail.
BR == INSTANCE BlockRequest
        WITH MaxHeight <- 2,
             FailOps <- {"BlockHeight", "HeightDB", "GetBlockHash",
                         "BlockHash"}

\* InsightUTXO's pc and result are other variables.
RS == INSTANCE MC_ResyncDB
        WITH MaxHeight <- 3, MaxFaults <- 2, MaxRuns <- 2, Masters <- BOOLEAN,
             FailOps <- {"GetBestBlock", "getBlock", "ConnectBlock",
                         "DisconnectBlock", "StoreBlockSummary",
                         "StoreStakeInfoExtended", "blockGetter.Block"},
             pc <- rsPc, result <- rsResult

insightVars == <<utxoVars, listVars, blockVars>>
addressVars == <<fund, spend, blockValid, cur, wpc, bulk, verdict, idVins,
                 idVouts, failed, rpc, res, reads>>
stakeTableVars == <<votes, blockRows, ticketRows, voteRows, missRows,
                    missList, stCur, phase, crashes>>
pgVars == <<addressVars, stakeTableVars>>
chartsVars == <<tip, pending, page, explorerSync, cache, holder, gstate,
                expHeight, pgData, reorgs>>
statusVars == <<setPc, monitor, hubPc, hubSaw, bars, barHeld>>
requestVars == <<liteMode, liteH, pgH, bReq, bResp>>
explorerVars == <<display, chartsVars, statusVars, requestVars>>
resyncVars == <<nodeHeight, summaryTable, stakeInfoTable, stakeDBHeight, rsPc,
                height, dbHeight, i, cancelled, rsResult, faults, runs,
                master, fetchTo, relay, got>>

StoreInit ==
  /\ which \in {"utxo", "lists", "blocks", "address", "stake", "charts",
                "status", "request", "resync"}
  /\ Init /\ TL!Init /\ IB!BSInit
  /\ PG!Init /\ PG!ST!Init
  /\ CC!Init /\ CC!SS!SSInit
  /\ IF which = "request"
       THEN BR!ReqInit
       ELSE /\ liteMode = TRUE /\ liteH = 0 /\ pgH = -1
            /\ bReq = BR!Fresh([kind |-> "height", n |-> -1], "start")
            /\ bResp = BR!NoResp
  /\ IF which = "resync"
       THEN RS!Init
       ELSE /\ nodeHeight = 0 /\ summaryTable = {} /\ stakeInfoTable = {}
            /\ stakeDBHeight = 0 /\ rsPc = "start" /\ height = -1
            /\ dbHeight = -1 /\ i = -1 /\ cancelled = FALSE
            /\ rsResult = RS!NoResult /\ faults = 0 /\ runs = 0
            /\ master = TRUE /\ fetchTo = -1 /\ relay = -1 /\ got = -1
  \* a component that does not run keeps one of its initial states
  /\ which # "utxo" => addrs = CHOOSE q \in Queries : TRUE
  /\ which # "lists" => /\ handler = "txs"
                        /\ req = CHOOSE r \in TLRequests["txs"] : TRUE
  /\ which # "blocks" => bsReq = [date |-> 1, limit |-> -1]
  /\ which \notin {"charts", "status", "request"} => ~display
  /\ which \notin {"charts", "status"} => ~explorerSync

(* A step of resyncDB or its environment, the other components standing   *)
(* still.                                                                  *)
ResyncStep(A) ==
  which = "resync" /\ A
    /\ UNCHANGED <<which, insightVars, pgVars, explorerVars>>

StoreNext ==
  \/ which \in {"utxo", "lists", "blocks"} /\ InsightNext
       /\ UNCHANGED <<pgVars, explorerVars, resyncVars>>
  \/ which = "address" /\ PG!Next
       /\ UNCHANGED <<which, insightVars, stakeTableVars, explorerVars,
                    resyncVars>>
  \/ which = "stake" /\ PG!ST!Next
       /\ UNCHANGED <<which, insightVars, addressVars, explorerVars,
                    resyncVars>>
  \/ which = "charts" /\ CC!Next
       /\ UNCHANGED <<which, insightVars, pgVars, statusVars, requestVars,
                    resyncVars>>
  \/ which = "status" /\ CC!SS!SSNext
       /\ UNCHANGED <<which, insightVars, pgVars, chartsVars, requestVars,
                    resyncVars>>
  \/ which = "request" /\ BR!ReqNext
       /\ UNCHANGED <<which, insightVars, pgVars, chartsVars, statusVars,
                    resyncVars>>
  \/ ResyncStep(RS!Next)

storeVars == <<which, insightVars, pgVars, explorerVars, resyncVars>>

(* A step of the sync status page, the other components standing still.  *)
StatusStep(A) ==
  which = "status" /\ A
    /\ UNCHANGED <<which, insightVars, pgVars, chartsVars, requestVars,
                    resyncVars>>

(* The ticker fires every syncStatusInterval, the hub goroutine always    *)
(* comes back to receive on HubRelay, and the caller stores the flag once *)
(* it has sent.  The two senders on the unbuffered HubRelay are strongly  *)
(* fair: Go queues blocked senders on a channel and hands each receive to *)
(* the one that has waited longest, so neither is passed over for ever    *)
(* although the hub is busy whenever the other sends.                     *)
StoreFairness ==
  /\ SF_storeVars(StatusStep(CC!SS!SetDisplayOffSend))
  /\ WF_storeVars(StatusStep(CC!SS!SetDisplayOffStore))
  /\ WF_storeVars(StatusStep(CC!SS!MonitorTick))
  /\ SF_storeVars(StatusStep(CC!SS!MonitorSend))
  /\ WF_storeVars(StatusStep(CC!SS!HubRead))
  /\ WF_storeVars(ResyncStep(RS!Sync))

StoreSpec == StoreInit /\ [][StoreNext]_storeVars /\ StoreFairness

StoreTypeOK ==
  InsightTypeOK /\ PG!PgTypeOK /\ CC!MCTypeOK /\ BR!ReqTypeOK /\ RS!TypeOK

(* A funding row's spending link names a spending row that is stored,    *)
(* in both spending-link modes (see AddressLedger!SpendLinkHasSpender).   *)
SpendLinkHasSpender == PG!SpendLinkHasSpender

(* valid_mainchain of regular rows follows their block's is_valid, stake  *)
(* rows stay valid (see AddressLedger!RowsFollowBlockValidity).           *)
RowsFollowBlockValidity == PG!RowsFollowBlockValidity

(* While every block is approved, RetrieveAddressSpentUnspent accounts   *)
(* for every output once (see AddressLedger!BalanceWhileAllApproved).     *)
BalanceWhileAllApproved == PG!BalanceWhileAllApproved

(* InsertVotes never panics and every block's votes and misses add up to *)
(* its validators (see StakeTables!MissAccounting).                        *)
MissAccounting == PG!MissAccounting

(* A ticket row recording a vote or a miss is right about it, whatever   *)
(* process stops happen (see StakeTables!SpentStatusNeverWrong).           *)
SpentStatusNeverWrong == PG!SpentStatusNeverWrong

(* Every ticket bought below the block being fetched has the chain's      *)
(* status (see StakeTables!TicketStatusMatchesChain).                      *)
TicketStatusMatchesChain == PG!TicketStatusMatchesChain

(* Once every refresh goroutine has returned, a cache labelled with the   *)
(* explorer's height holds charts read at the explorer's block (see       *)
(* ChartsCache!ChartsMatchTip).                                            *)
ChartsMatchTip == CC!ChartsMatchTip

(* prePopulateChartsData goroutines queued on ChartUpdate never move the  *)
(* cache's height back (see ChartsCache!CacheNeverGoesBack).               *)
CacheNeverGoesBack == CC!CacheNeverGoesBack

(* Once the page flag is cleared, the ticker stopped and every signal     *)
(* handled, the hub last pushed "not syncing" (see                        *)
(* SyncStatus!FinalStatusSeen).                                            *)
FinalStatusSeen == CC!FinalStatusSeen

(* SyncStatusUpdate keeps one progress bar per BarID (see                 *)
(* SyncStatus!OneBarPerId).                                                *)
OneBarPerId == CC!OneBarPerId

(* The hub eventually pushes "not syncing" and the ticker stops for good *)
(* (see SyncStatus!SyncEndPushed).                                         *)
SyncEndPushed == which = "status" => CC!SS!SyncEndPushed

(* A block page request is answered "could not find that block" or        *)
(* "expected to arrive" only as the stores were when it arrived, while   *)
(* the savers keep storing (see BlockRequest!AnswerMatchesStores).         *)
AnswerMatchesStores == BR!AnswerMatchesStores

(* resyncDB connects to the stake database the block right above its     *)
(* best node (see ResyncDB!ConnectsNextBlock).                             *)
ConnectsNextBlock == RS!ConnectsNextBlock

(* The SQLite tables hold every height up to their best and the stake     *)
(* database is at most one block above them (see                           *)
(* ResyncDB!NoSkippedBlocks).                                              *)
NoSkippedBlocks == RS!NoSkippedBlocks

(* The block in hand is the block at height i, in both modes (see         *)
(* ResyncDB!BlockInHandIsI).                                               *)
BlockInHandIsI == RS!BlockInHandIsI

(* The height resyncDB returns is the one the stores hold (see            *)
(* ResyncDB!ReturnsCommittedHeight).                                       *)
ReturnsCommittedHeight == RS!ReturnsCommittedHeight

(* Every run of resyncDB returns (see ResyncDB!RunReturns).               *)
RunReturns == which = "resync" => RS!RunReturns

(* resyncDB implements SyncAbstract (see ResyncDB!ImplementsSyncAbstract). *)
ImplementsSyncAbstract == RS!ImplementsSyncAbstract

=============================================================================
