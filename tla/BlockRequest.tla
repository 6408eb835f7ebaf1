---------------------------- MODULE BlockRequest ----------------------------
(***************************************************************************)
(* A block page request through the explorer's middleware                  *)
(* (src/v4/explorer/explorermiddleware.go) while the sync still stores     *)
(* blocks.  SyncStatusPageActivation (and SyncStatusApiResponse for the    *)
(* API) answers with the status page while displaySyncStatusPage is set;   *)
(* otherwise BlockHashPathOrIndexCtx turns the {blockhash} path parameter  *)
(* into a height and a hash: a hash is looked up in the data source of    *)
(* the mode, a height is first checked against the best block of the mode  *)
(* (future blocks), then looked up in the lite data source (blockData)    *)
(* and, in full mode only, in the primary one (explorerSource).            *)
(*                                                                         *)
(* The two data sources are not in this repository: each is its height,   *)
(* holding the blocks 0..height, which the savers raise one block at a     *)
(* time and in either order.  A block's hash is its height tagged "hash".  *)
(***************************************************************************)
EXTENDS Integers

CONSTANTS
  MaxHeight,   \* the highest block the savers store
  FailOps      \* the data source calls that may fail

\* BlockHeight and GetBlockHeight, by hash; HeightDB; GetBlockHash of the
\* lite source; BlockHash of the primary source.
ReqReads == {"BlockHeight", "HeightDB", "GetBlockHash", "BlockHash"}

ASSUME FailOps \subseteq ReqReads

VARIABLES
  liteMode,    \* explorerUI.liteMode
  display,     \* displaySyncStatusPage
  liteH,       \* blockData's best height
  pgH,         \* explorerSource's best height (HeightDB)
  bReq,        \* the request being handled
  bResp        \* what the request was answered with

reqVars == <<liteMode, display, liteH, pgH, bReq, bResp>>

(* The {blockhash} parameter: a decimal height (ParseInt succeeds, also    *)
(* for a negative one) or a hash, of a block or of none (n = -1).          *)
Params == [kind : {"height"}, n : -1..(MaxHeight + 1)]
            \cup [kind : {"hash"}, n : -1..MaxHeight]

NoResp == [status |-> "none"]

(* The page answers. *)
Page(status) == [status |-> status]

(* The context BlockHashPathOrIndexCtx passes on to the next handler. *)
Ctx(height, hash) == [status |-> "ok", height |-> height, hash |-> hash]

(* The best height of the mode's data source, and whether it holds a      *)
(* block at height n.                                                      *)
BestOf(lite) == IF lite THEN liteH ELSE pgH
Holds(h, n) == 0 <= n /\ n <= h

Fresh(p, pcv) ==
  [pc |-> pcv, param |-> p, maxH |-> -1, failed |-> FALSE,
   bestAtStart |-> BestOf(liteMode)]

-----------------------------------------------------------------------------
(* A new request arrives once the previous one is answered.               *)
NewRequest ==
  /\ bResp # NoResp
  /\ \E p \in Params : bReq' = Fresh(p, "start")
  /\ bResp' = NoResp
  /\ UNCHANGED <<liteMode, display, liteH, pgH>>

(* SyncStatusPageActivation / SyncStatusApiResponse. *)
SyncStatusActivation ==
  /\ bReq.pc = "start"
  /\ IF display
       THEN /\ bResp' = Page("syncing")
            /\ bReq' = [bReq EXCEPT !.pc = "done"]
       ELSE /\ bReq' = [bReq EXCEPT !.pc = IF bReq.param.kind = "height"
                                            THEN "best" ELSE "byHash"]
            /\ UNCHANGED bResp
  /\ UNCHANGED <<liteMode, display, liteH, pgH>>

(* Not a height: BlockHeight(hash) of the mode's source; a timeout gets   *)
(* the timeout page, any other error (sql.ErrNoRows included) "could not  *)
(* find that block".                                                       *)
ByHash ==
  /\ bReq.pc = "byHash"
  /\ LET n == bReq.param.n
     IN  \/ /\ Holds(BestOf(liteMode), n)
            /\ bResp' = Ctx(n, n) /\ bReq' = [bReq EXCEPT !.pc = "done"]
         \/ /\ ~Holds(BestOf(liteMode), n)
            /\ bResp' = Page("notFound")
            /\ bReq' = [bReq EXCEPT !.pc = "done"]
         \/ /\ "BlockHeight" \in FailOps
            /\ \E page \in {"timeout", "notFound"} : bResp' = Page(page)
            /\ bReq' = [bReq EXCEPT !.pc = "done", !.failed = TRUE]
  /\ UNCHANGED <<liteMode, display, liteH, pgH>>

(* A height: the best block of the mode's source, blockData.GetHeight or  *)
(* HeightDB, whose error gets the error page.                              *)
ReadBest ==
  /\ bReq.pc = "best"
  /\ \/ /\ bReq' = [bReq EXCEPT !.pc = "lookup", !.maxH = BestOf(liteMode)]
        /\ UNCHANGED bResp
     \/ /\ ~liteMode /\ "HeightDB" \in FailOps
        /\ bReq' = [bReq EXCEPT !.pc = "done", !.failed = TRUE]
        /\ bResp' = Page("error")
  /\ UNCHANGED <<liteMode, display, liteH, pgH>>

\* Mutant: full mode gives up when the lite source lacks the block.
LookupLite_noFallback ==
  /\ bReq.pc = "lookup"
  /\ LET n == bReq.param.n
         found == Holds(liteH, n)
     IN  \/ /\ n > bReq.maxH
            /\ bResp' = Page("future") /\ bReq' = [bReq EXCEPT !.pc = "done"]
         \/ /\ n <= bReq.maxH /\ found
            /\ bResp' = Ctx(n, n) /\ bReq' = [bReq EXCEPT !.pc = "done"]
         \/ /\ n <= bReq.maxH
            /\ ~found \/ "GetBlockHash" \in FailOps
            /\ bResp' = Page("notFound")
            /\ bReq' = [bReq EXCEPT !.pc = "done", !.failed = found]
  /\ UNCHANGED <<liteMode, display, liteH, pgH>>

(* A height above the best block is a future block; any other is looked   *)
(* up with blockData.GetBlockHash, whose failure ends the request in lite  *)
(* mode and falls back to explorerSource.BlockHash in full mode.           *)
LookupLite ==
  /\ bReq.pc = "lookup"
  /\ LET n == bReq.param.n
         found == Holds(liteH, n)
     IN  \/ /\ n > bReq.maxH
            /\ bResp' = Page("future") /\ bReq' = [bReq EXCEPT !.pc = "done"]
         \/ /\ n <= bReq.maxH /\ found
            /\ bResp' = Ctx(n, n) /\ bReq' = [bReq EXCEPT !.pc = "done"]
         \/ /\ n <= bReq.maxH
            /\ ~found \/ "GetBlockHash" \in FailOps
            /\ IF liteMode
                 THEN /\ bResp' = Page("notFound")
                      /\ bReq' = [bReq EXCEPT !.pc = "done", !.failed = found]
                 ELSE /\ bReq' = [bReq EXCEPT !.pc = "fallback",
                                              !.failed = found]
                      /\ UNCHANGED bResp
  /\ UNCHANGED <<liteMode, display, liteH, pgH>>

(* explorerSource.BlockHash(height), full mode only. *)
Fallback ==
  /\ bReq.pc = "fallback"
  /\ LET n == bReq.param.n
     IN  \/ /\ Holds(pgH, n)
            /\ bResp' = Ctx(n, n) /\ bReq' = [bReq EXCEPT !.pc = "done"]
         \/ /\ ~Holds(pgH, n) \/ "BlockHash" \in FailOps
            /\ bResp' = Page("notFound")
            /\ bReq' = [bReq EXCEPT !.pc = "done",
                                    !.failed = bReq.failed \/ Holds(pgH, n)]
  /\ UNCHANGED <<liteMode, display, liteH, pgH>>

-----------------------------------------------------------------------------
(* The savers, one block at a time in either source, and the sync's end.  *)
LiteStore ==
  /\ liteH < MaxHeight
  /\ liteH' = liteH + 1
  /\ UNCHANGED <<liteMode, display, pgH, bReq, bResp>>

PgStore ==
  /\ ~liteMode /\ pgH < MaxHeight
  /\ pgH' = pgH + 1
  /\ UNCHANGED <<liteMode, display, liteH, bReq, bResp>>

SyncDone ==
  /\ display
  /\ display' = FALSE
  /\ UNCHANGED <<liteMode, liteH, pgH, bReq, bResp>>

ReqInit ==
  /\ liteMode \in BOOLEAN
  /\ display \in BOOLEAN
  /\ liteH \in 0..MaxHeight
  /\ pgH \in IF liteMode THEN {-1} ELSE 0..MaxHeight
  /\ \E p \in Params : bReq = Fresh(p, "start")
  /\ bResp = NoResp

ReqNext ==
  \/ NewRequest \/ SyncStatusActivation \/ ByHash \/ ReadBest \/ LookupLite
  \/ Fallback \/ LiteStore \/ PgStore \/ SyncDone

ReqSpec == ReqInit /\ [][ReqNext]_reqVars

-----------------------------------------------------------------------------
ReqTypeOK ==
  /\ liteMode \in BOOLEAN /\ display \in BOOLEAN
  /\ liteH \in 0..MaxHeight /\ pgH \in -1..MaxHeight
  /\ bReq \in [pc : {"start", "byHash", "best", "lookup", "fallback", "done"},
             param : Params, maxH : -1..MaxHeight,
             failed : BOOLEAN, bestAtStart : -1..MaxHeight]
  /\ bResp \in {NoResp} \cup {Page(s) : s \in {"syncing", "timeout", "error",
                                              "notFound", "future"}}
               \cup {Ctx(n, n) : n \in 0..MaxHeight}

(* BlockHashPathOrIndexCtx reads the best block of one source and the      *)
(* block of another while the savers store blocks: a request that no      *)
(* failed read disturbs is answered "could not find that block" only for   *)
(* a negative height or for a hash of a block the mode's source did not    *)
(* hold when the request arrived, "expected to arrive" only for a height   *)
(* above the best block then, and never with an error page.               *)
AnswerMatchesStores ==
  bResp # NoResp /\ ~bReq.failed =>
    /\ bResp.status = "future" => bReq.param.n > bReq.bestAtStart
    /\ bResp.status = "notFound" =>
         \/ bReq.param.n < 0
         \/ bReq.param.kind = "hash" /\ bReq.param.n > bReq.bestAtStart
    /\ bResp.status \notin {"timeout", "error"}

=============================================================================
