---------------------------- MODULE SyncProgress ----------------------------
(***************************************************************************)
(* resyncDB (ResyncDB) reporting its progress to the explorer's sync      *)
(* status page (SyncStatus) over barLoad, as it does when it is given the *)
(* channel and updateStatusSync is set (src/v4/db/dcrsqlite/sync.go).     *)
(* barLoad is unbuffered: a send is one step of both goroutines, taken    *)
(* when SyncStatusUpdate is back at its receive.  resyncDB sends a first  *)
(* load before its loop, one when it scans the first block of the run and *)
(* the first of every RescanLogBlockChunk blocks, and a last one, "sync    *)
(* complete", after its loop.                                              *)
(*                                                                         *)
(* SetDisplaySyncStatusPage(false) is called once the sync has returned,  *)
(* so displaySyncStatusPage does not change while resyncDB runs; the      *)
(* monitor and the hub (checked in MC_ChartsCache) do not touch the bars. *)
(***************************************************************************)
EXTENDS Integers

CONSTANTS
  MaxHeight, MaxFaults, MaxRuns, Masters, FailOps,
  RescanLogBlockChunk   \* sync.go's rescanLogBlockChunk (1000)

VARIABLES
  nodeHeight, summaryTable, stakeInfoTable, stakeDBHeight, pc, height,
  dbHeight, i, cancelled, result, faults, runs, master, fetchTo, relay, got,
  display, setPc, monitor, hubPc, hubSaw, bars, barHeld

rsVars == <<nodeHeight, summaryTable, stakeInfoTable, stakeDBHeight, pc,
            height, dbHeight, i, cancelled, result, faults, runs, master,
            fetchTo, relay, got>>
ssVars == <<display, setPc, monitor, hubPc, hubSaw, bars, barHeld>>
spVars == <<rsVars, ssVars>>

RS == INSTANCE ResyncDB

(* The int64 conversions of a float that is not a number or infinite are  *)
(* left to the platform: math.MinInt64 on amd64, 0 for NaN and            *)
(* math.MaxInt64 for +Inf on arm64.  TLC's integers stand for the two     *)
(* limits, of which SyncStatusUpdate only tests the sign and zero.         *)
MinInt64 == -2147483647 - 1
MaxInt64 == 2147483647

(* A dbtypes.ProgressBarLoad of the InitialDBLoad bar. *)
Load(from, to, ts, sub) ==
  [id |-> "InitialDBLoad", from |-> from, to |-> to,
   msg |-> "InitialLoadSyncStatusMsg", sub |-> sub, ts |-> ts]

(* Before the loop: the bar is initialised. *)
InitialLoad == Load(0, 0, 0, "")

(* After the loop. *)
CompleteLoad == Load(height, height, 0, "sync complete")

(* In the loop, after the stake database has the block: block i is        *)
(* reported when it is the run's first or follows a multiple of the       *)
(* chunk, genesis excepted.                                                *)
ScanReported ==
  /\ i # 0
  /\ \/ (i - 1) % RescanLogBlockChunk = 0 /\ i - 1 # RS!StartHeight
     \/ i = RS!StartHeight

EndRangeBlock ==
  RS!MinOf(RescanLogBlockChunk * (1 + (i - 1) \div RescanLogBlockChunk),
           height)

(* timeTakenPerBlock * (height - endRangeBlock) with one second taken     *)
(* since timeStart; the division is by zero when endRangeBlock = i, which *)
(* gives NaN when the run ends there and +Inf otherwise.                   *)
TimeToComplete ==
  IF EndRangeBlock > i
    THEN {(height - EndRangeBlock) \div (EndRangeBlock - i)}
  ELSE IF height = EndRangeBlock THEN {MinInt64, 0}
  ELSE {MinInt64, MaxInt64}

ScanLoads == {Load(i, height, ts, "") : ts \in TimeToComplete}

SS == INSTANCE SyncStatus
        WITH BarLoads <- {Load(f, t, ts, s) : f \in 0..MaxHeight,
                          t \in 0..MaxHeight, ts \in {MinInt64, MaxInt64}
                          \cup 0..MaxHeight, s \in {"", "sync complete"}}

-----------------------------------------------------------------------------
(* The steps of resyncDB that send on barLoad, each with the receive.     *)
ResyncSend ==
  \/ RS!CheckBegin /\ SS!BarReceive(InitialLoad)
  \/ RS!ConnectBlock /\ ScanReported /\ \E l \in ScanLoads : SS!BarReceive(l)
  \/ RS!LoopExit /\ SS!BarReceive(CompleteLoad)

(* Every other step of resyncDB and of its environment. *)
ResyncQuiet ==
  /\ RS!Next
  /\ ~(RS!CheckBegin \/ RS!LoopExit \/ (RS!ConnectBlock /\ ScanReported))
  /\ UNCHANGED ssVars

SPInit == RS!Init /\ SS!SSInit

SPNext ==
  \/ ResyncSend \/ ResyncQuiet
  \/ SS!BarWrite /\ UNCHANGED rsVars

(* The scheduler keeps running both goroutines. *)
SPSpec ==
  /\ SPInit /\ [][SPNext]_spVars
  /\ WF_spVars(ResyncSend \/ (RS!Sync /\ ResyncQuiet))
  /\ WF_spVars(SS!BarWrite /\ UNCHANGED rsVars)

-----------------------------------------------------------------------------
SPTypeOK == RS!TypeOK /\ SS!SSTypeOK

(* The "sync complete" load carries From = To = height: once resyncDB has *)
(* returned successfully and SyncStatusUpdate has handled that load, the  *)
(* InitialDBLoad bar shows its percentage (100% above genesis).           *)
BarFullAtSyncEnd ==
  display /\ result.kind = "ok" /\ barHeld = SS!NoLoad =>
    \A k \in DOMAIN bars :
      bars[k].id = "InitialDBLoad" => bars[k].pct = SS!Percent(CompleteLoad)

=============================================================================
