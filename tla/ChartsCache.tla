----------------------------- MODULE ChartsCache -----------------------------
(***************************************************************************)
(* The explorer's charts data cache (src/v4/explorer/explorer.go):        *)
(* explorerUI.Store, called for every new block, records the block in the *)
(* page data and, when no sync is running and the block's height is a     *)
(* multiple of 5 or the cache is empty, starts prePopulateChartsData in   *)
(* its own goroutine.  That goroutine takes ChartUpdate, compares the     *)
(* explorer's height with the cache's, reads the charts data from the     *)
(* PostgreSQL and SQLite stores and replaces the cache (cacheChartsData)  *)
(* under the explorer's height.                                            *)
(*                                                                         *)
(* A block is a record [h, br]: its height and the branch it is on.  The  *)
(* databases hold the node's chain up to `tip` before the explorer is     *)
(* told (`pending`), and chart data read from them is the tip they hold   *)
(* at the time of the read.                                                *)
(***************************************************************************)
EXTENDS Integers, Sequences

CONSTANTS
  StartHeight,    \* the tip when the explorer starts
  MaxHeight,      \* the highest tip the node reaches (model bound)
  Branches,       \* branch names; a reorganisation moves to another one
  ReorgRises,     \* how much higher than the old tip a reorganised tip is
  MaxReorgs,      \* reorganisations in a behaviour (model bound)
  MaxRefreshes,   \* prePopulateChartsData goroutines started (model bound)
  FailOps         \* the chart reads that may fail in this model

ChartReads == {"GetPgChartsData", "GetSqliteChartsData"}

ASSUME StartHeight \in Nat /\ MaxHeight \in Nat /\ StartHeight <= MaxHeight
ASSUME ReorgRises \subseteq Nat /\ MaxReorgs \in Nat /\ MaxRefreshes \in Nat
ASSUME FailOps \subseteq ChartReads

VARIABLES
  tip,        \* the block the databases hold as best
  pending,    \* blocks the explorer has yet to Store, oldest first
  page,       \* pageData.BlockInfo: the explorer's block (Height())
  display,    \* displaySyncStatusPage, set and cleared by SyncStatus
  explorerSync, \* SyncExplorerUpdateStatus(): the explorer's own sync runs
  cache,      \* cacheChartsData: updateHeight, and Data as the blocks it
              \* was read at, or NilData
  holder,     \* the goroutine holding ChartUpdate, 0 if none
  gstate,     \* where each prePopulateChartsData goroutine is
  expHeight,  \* each goroutine's expHeight
  pgData,     \* the block the PostgreSQL charts data was read at
  reorgs

vars == <<tip, pending, page, display, explorerSync, cache, holder, gstate,
          expHeight, pgData, reorgs>>

Goroutines == 1..MaxRefreshes
Heights == StartHeight..MaxHeight
Block == [h : Heights, br : Branches]
NoBlock == [h |-> -1, br |-> "none"]
GStates == {"unused", "spawned", "locked", "checked", "pgRead", "done"}

NilData == [pg |-> NoBlock, lite |-> NoBlock]

\* Mutant: height() returns updateHeight even while Data is nil.
CacheHeight_noNilCheck == cache.updateHeight

(* height(): -1 while Data is nil. *)
CacheHeight == IF cache.data = NilData THEN -1 ELSE cache.updateHeight

-----------------------------------------------------------------------------
(* The node and the databases.                                             *)

(* A block is connected on the current branch. *)
ConnectBlock ==
  /\ tip.h < MaxHeight
  /\ tip' = [tip EXCEPT !.h = @ + 1]
  /\ pending' = Append(pending, tip')
  /\ UNCHANGED <<page, display, explorerSync, cache, holder, gstate,
                 expHeight, pgData, reorgs>>

(* The node reorganises to a tip on another branch. *)
Reorganize ==
  /\ reorgs < MaxReorgs
  /\ \E rise \in ReorgRises, br \in Branches \ {tip.br} :
       /\ tip.h + rise <= MaxHeight
       /\ tip' = [h |-> tip.h + rise, br |-> br]
  /\ pending' = Append(pending, tip')
  /\ reorgs' = reorgs + 1
  /\ UNCHANGED <<page, display, explorerSync, cache, holder, gstate,
                 expHeight, pgData>>

(* The explorer's update sync finishes. *)
ExplorerSyncFinished ==
  /\ explorerSync
  /\ explorerSync' = FALSE
  /\ UNCHANGED <<tip, pending, page, display, cache, holder, gstate,
                 expHeight, pgData, reorgs>>

-----------------------------------------------------------------------------
(* explorerUI.Store for the oldest block not yet stored.                   *)

(* isSyncRunning := DisplaySyncStatusPage() || SyncExplorerUpdateStatus() *)
RefreshDue(b) ==
  ~(display \/ explorerSync) /\ (b.h % 5 = 0 \/ CacheHeight = -1)

FreeGoroutine == CHOOSE g \in Goroutines : gstate[g] = "unused"

Store ==
  /\ pending # <<>>
  /\ LET b == Head(pending)
     IN  /\ page' = b
         /\ pending' = Tail(pending)
         /\ IF RefreshDue(b)
              THEN /\ \E g \in Goroutines : gstate[g] = "unused"
                   /\ gstate' = [gstate EXCEPT ![FreeGoroutine] = "spawned"]
              ELSE UNCHANGED gstate
  /\ UNCHANGED <<tip, display, explorerSync, cache, holder, expHeight, pgData,
                 reorgs>>

-----------------------------------------------------------------------------
(* prePopulateChartsData, one goroutine g.                                 *)

\* Mutant: prePopulateChartsData does not take ChartUpdate.
CanLock_noMutex(g) == TRUE

CanLock(g) == holder = 0

(* exp.ChartUpdate.Lock() *)
Lock(g) ==
  /\ gstate[g] = "spawned"
  /\ CanLock(g)
  /\ holder' = g
  /\ gstate' = [gstate EXCEPT ![g] = "locked"]
  /\ UNCHANGED <<tip, pending, page, display, explorerSync, cache, expHeight,
                 pgData, reorgs>>

(* Return from the goroutine; the deferred Unlock releases ChartUpdate. *)
Finish(g) ==
  /\ gstate' = [gstate EXCEPT ![g] = "done"]
  /\ holder' = IF holder = g THEN 0 ELSE holder

(* expHeight := exp.Height(); return if it is the cache's height. *)
CheckHeight(g) ==
  /\ gstate[g] = "locked"
  /\ expHeight' = [expHeight EXCEPT ![g] = page.h]
  /\ IF page.h = CacheHeight
       THEN Finish(g)
       ELSE /\ gstate' = [gstate EXCEPT ![g] = "checked"]
            /\ UNCHANGED holder
  /\ UNCHANGED <<tip, pending, page, display, explorerSync, cache, pgData,
                 reorgs>>

(* GetPgChartsData reads the PostgreSQL store as it is now. *)
ReadPg(g) ==
  /\ gstate[g] = "checked"
  /\ pgData' = [pgData EXCEPT ![g] = tip]
  /\ gstate' = [gstate EXCEPT ![g] = "pgRead"]
  /\ UNCHANGED <<tip, pending, page, display, explorerSync, cache, holder,
                 expHeight, reorgs>>

\* Mutant: the cache is labelled with its own old height.
LabelHeight_cached(g) == CacheHeight

LabelHeight(g) == expHeight[g]

(* GetSqliteChartsData, the merge of the two maps, and                     *)
(* cacheChartsData.Update(expHeight, pgData).                               *)
UpdateCache(g) ==
  /\ gstate[g] = "pgRead"
  /\ cache' = [updateHeight |-> LabelHeight(g),
               data |-> [pg |-> pgData[g], lite |-> tip]]
  /\ Finish(g)
  /\ UNCHANGED <<tip, pending, page, display, explorerSync, expHeight, pgData,
                 reorgs>>

(* A chart read times out or fails: log and return. *)
ReadFail(g) ==
  /\ \/ gstate[g] = "checked" /\ "GetPgChartsData" \in FailOps
     \/ gstate[g] = "pgRead" /\ "GetSqliteChartsData" \in FailOps
  /\ Finish(g)
  /\ UNCHANGED <<tip, pending, page, display, explorerSync, cache, expHeight,
                 pgData, reorgs>>

Refresh(g) ==
  Lock(g) \/ CheckHeight(g) \/ ReadPg(g) \/ UpdateCache(g) \/ ReadFail(g)

-----------------------------------------------------------------------------

Init ==
  /\ tip = [h |-> StartHeight, br |-> CHOOSE br \in Branches : TRUE]
  /\ pending = <<>>
  /\ page = tip
  /\ display \in BOOLEAN
  /\ explorerSync \in BOOLEAN
  /\ cache = [updateHeight |-> 0, data |-> NilData]
  /\ holder = 0
  /\ gstate = [g \in Goroutines |-> "unused"]
  /\ expHeight = [g \in Goroutines |-> -1]
  /\ pgData = [g \in Goroutines |-> NoBlock]
  /\ reorgs = 0

Next ==
  \/ ConnectBlock \/ Reorganize \/ ExplorerSyncFinished
  \/ Store
  \/ \E g \in Goroutines : Refresh(g)

(* Store runs for every notification, and the Go scheduler runs every     *)
(* goroutine that can proceed.                                             *)
Spec ==
  /\ Init /\ [][Next]_vars
  /\ WF_vars(Store)
  /\ \A g \in Goroutines : WF_vars(Refresh(g))

-----------------------------------------------------------------------------

TypeOK ==
  /\ tip \in Block
  /\ pending \in Seq(Block)
  /\ page \in Block
  /\ display \in BOOLEAN
  /\ explorerSync \in BOOLEAN
  /\ cache \in [updateHeight : Heights \cup {0},
               data : {NilData} \cup [pg : Block, lite : Block]]
  /\ holder \in Goroutines \cup {0}
  /\ gstate \in [Goroutines -> GStates]
  /\ expHeight \in [Goroutines -> Heights \cup {-1}]
  /\ pgData \in [Goroutines -> Block \cup {NoBlock}]
  /\ reorgs \in 0..MaxReorgs

(* Refreshes started for successive blocks queue on ChartUpdate; whatever *)
(* order they run in, and whichever of their reads fail, the height the   *)
(* cache is labelled with never goes back.                                 *)
CacheNeverGoesBack == [][CacheHeight' >= CacheHeight]_cache

(* Every goroutine has returned and every block has been stored: the     *)
(* explorer's block.                                                       *)
Quiescent ==
  /\ pending = <<>>
  /\ \A g \in Goroutines : gstate[g] \in {"unused", "done"}

(* Charts are never served from data of a block other than the explorer's *)
(* when the cache claims the explorer's height: once the goroutines have  *)
(* returned, a cache labelled with the explorer's height holds data read  *)
(* at the explorer's block, in both the PostgreSQL and SQLite parts.      *)
ChartsMatchTip ==
  Quiescent /\ CacheHeight = page.h =>
    cache.data = [pg |-> page, lite |-> page]

=============================================================================
