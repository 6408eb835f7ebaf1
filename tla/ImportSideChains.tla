-------------------------- MODULE ImportSideChains --------------------------
(***************************************************************************)
(* wiredDB.ImportSideChains (src/v4/db/dcrsqlite/sync.go) with            *)
(* rpcutils.SideChains and sideChainTips (src/v4/rpcutils/rpcclient.go):  *)
(* the node's chain tips are fetched and those with status "valid-headers" *)
(* or "valid-fork" kept; for each, SideChainFull gives the blocks above    *)
(* the fork, and every one that the summary DB does not have              *)
(* (sql.ErrNoRows) or has as main chain is listed; then each listed block  *)
(* is collected and stored with StoreSideBlockSummary.                     *)
(*                                                                         *)
(* SideChainFull's result is taken from its reference definition, which   *)
(* the SideChainFull module is checked against.  The summary DB's record  *)
(* of a block is "none", "main" (is_mainchain) or "side".                  *)
(***************************************************************************)
EXTENDS BlockTree

CONSTANTS
  TipStatuses,  \* the statuses GetChainTips may give a tip other than best
  FailOps       \* the calls that may fail in this model

Calls == {"GetChainTips", "SideChainFull", "getMainchainStatus",
          "CollectAPITypes", "StoreSideBlockSummary"}

ASSUME FailOps \subseteq Calls

VARIABLES
  parent,    \* the node's block tree
  best,      \* the node's best block
  status,    \* the status GetChainTips reports for each other tip
  stored,    \* the summary DB's record of each block
  tips,      \* the side chain tips, in the order GetChainTips gave them
  it,        \* the tip in hand
  hashlist,  \* the blocks to import
  k,         \* the hashlist entry in hand
  failedOn,  \* blocks whose status check or store failed
  pc

imVars == <<status, stored, tips, it, hashlist, k, failedOn, pc>>

StoreStates == {"none", "main", "side"}

MainChain == AncestorsOrSelf(parent, best)

(* A chain tip: a block no block builds on. *)
IsTip(b) == \A c \in Blocks : parent[c] # b

OtherTips == {b \in Blocks : IsTip(b) /\ b # best}

(* The blocks SideChainFull returns for tip t, lowest first. *)
SideChainOf(t) == ChainAbove(parent, LowestCommonAncestor(parent, t, best), t)

(* sideChainTips: the tips whose status is "valid-headers" or "valid-fork", *)
(* in the order of the node's list.                                         *)
SideChainTips ==
  SelectSeq(SetToSortSeq(OtherTips, <),
            LAMBDA t : status[t] \in {"valid-headers", "valid-fork"})

\* Mutant: only blocks missing from the DB are listed, not stale main ones.
Listed_missingOnly(b) == stored[b] = "none"

(* isMainchainNow || err == sql.ErrNoRows *)
Listed(b) == stored[b] \in {"main", "none"}

-----------------------------------------------------------------------------

(* rpcutils.SideChains: GetChainTips, filtered by sideChainTips. *)
GetTips ==
  /\ pc = "tips"
  /\ \/ /\ "GetChainTips" \in FailOps
        /\ pc' = "error"
        /\ UNCHANGED tips
     \/ /\ tips' = SideChainTips
        /\ pc' = "chains"
  /\ UNCHANGED <<status, stored, it, hashlist, k, failedOn>>

(* One tip: SideChainFull fails and ImportSideChains returns the error, or *)
(* each block of the side chain is checked in the DB, a failed check      *)
(* (other than ErrNoRows) leaving the block out.                          *)
ScanTip ==
  /\ pc = "chains"
  /\ it <= Len(tips)
  /\ \/ /\ "SideChainFull" \in FailOps
        /\ pc' = "error"
        /\ UNCHANGED <<it, hashlist, failedOn>>
     \/ LET chain == SideChainOf(tips[it])
        IN  \E bad \in SUBSET (IF "getMainchainStatus" \in FailOps
                                 THEN Range(chain) ELSE {}) :
              /\ hashlist' = hashlist \o
                                SelectSeq(chain, LAMBDA b : b \notin bad
                                                            /\ Listed(b))
              /\ failedOn' = failedOn \cup bad
              /\ it' = it + 1
              /\ UNCHANGED pc
  /\ UNCHANGED <<status, stored, tips, k>>

ScanDone ==
  /\ pc = "chains"
  /\ it > Len(tips)
  /\ pc' = "import"
  /\ UNCHANGED <<status, stored, tips, it, hashlist, k, failedOn>>

(* One listed block: CollectAPITypes returning nil panics on the          *)
(* blockDataBasic.Height of the log.Debugf that comes before the nil      *)
(* check; a failed StoreSideBlockSummary is logged and the loop goes on.  *)
ImportBlock ==
  /\ pc = "import"
  /\ k <= Len(hashlist)
  /\ \/ /\ "CollectAPITypes" \in FailOps
        /\ pc' = "panicked"
        /\ UNCHANGED <<stored, k, failedOn>>
     \/ /\ "StoreSideBlockSummary" \in FailOps
        /\ failedOn' = failedOn \cup {hashlist[k]}
        /\ k' = k + 1
        /\ UNCHANGED <<stored, pc>>
     \/ /\ stored' = [stored EXCEPT ![hashlist[k]] = "side"]
        /\ k' = k + 1
        /\ UNCHANGED <<failedOn, pc>>
  /\ UNCHANGED <<status, tips, it, hashlist>>

ImportDone ==
  /\ pc = "import"
  /\ k > Len(hashlist)
  /\ pc' = "done"
  /\ UNCHANGED <<status, stored, tips, it, hashlist, k, failedOn>>

-----------------------------------------------------------------------------

(* Any tip statuses; the main chain stored as main, any other block        *)
(* missing, stored as side, or still recorded as main from before a reorg. *)
Init ==
  /\ status \in [OtherTips -> TipStatuses]
  /\ stored \in {s \in [Blocks -> StoreStates] :
                   \A b \in MainChain : s[b] = "main"}
  /\ tips = <<>>
  /\ it = 1
  /\ hashlist = <<>>
  /\ k = 1
  /\ failedOn = {}
  /\ pc = "tips"

Next == GetTips \/ ScanTip \/ ScanDone \/ ImportBlock \/ ImportDone

TypeOK ==
  /\ status \in [OtherTips -> TipStatuses]
  /\ stored \in [Blocks -> StoreStates]
  /\ tips \in Seq(OtherTips)
  /\ hashlist \in Seq(Blocks)
  /\ failedOn \subseteq Blocks
  /\ pc \in {"tips", "chains", "import", "done", "error", "panicked"}

(* When ImportSideChains returns nil, every block of a valid side chain,  *)
(* including one the DB still records as main chain from before a reorg, *)
(* is recorded as side chain unless a call failed on it, and the          *)
(* main chain is still recorded as main.                                   *)
SideChainsRecorded ==
  pc = "done" =>
    /\ \A b \in MainChain : stored[b] = "main"
    /\ \A t \in OtherTips, b \in Blocks :
         /\ status[t] \in {"valid-headers", "valid-fork"}
         /\ b \in Range(SideChainOf(t)) \ failedOn
         => stored[b] = "side"

(* A block whose data CollectAPITypes cannot collect is skipped: "Do not  *)
(* quit if unable to collect side chain block data", says the comment at  *)
(* the nil check of ImportSideChains.  The import never panics.           *)
ImportNeverPanics == pc # "panicked"

=============================================================================
