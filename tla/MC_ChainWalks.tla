---------------------------- MODULE MC_ChainWalks ----------------------------
(***************************************************************************)
(* The two chain walks of rpcutils on the same node: CommonAncestor of two *)
(* tips runs to its result, then SideChainFull walks from the first tip    *)
(* with the second as the node's best block.  The walks share the block   *)
(* tree and the tips and nothing else, so every tree of five blocks and   *)
(* every pair of tips is checked against the reference definitions of     *)
(* BlockTree for both functions in one run.  The PostgreSQL store's       *)
(* transactions table (TxTable) runs in behaviours of its own here too,   *)
(* its checks being invariants on a state space of the same size.         *)
(***************************************************************************)
EXTENDS BlockTree

CONSTANTS MaxChainLength, TipStatuses, FailOps

VARIABLES
  parent, tipA, tipB,
  hashA, hashB, chainA, chainB, length, ancestor, caOut,
  hash, sideChain, ri, scOut,
  which, status, stored, tips, it, hashlist, k, failedOn, imPc,
  txRows, txNextId, uixTxHashes, txOut, firstId, txInserts,
  utPc, mempoolTxns, addressOutpoints, numUnconfirmed, utErr, utRet

CA == INSTANCE CommonAncestor WITH out <- caOut
SC == INSTANCE SideChainFull WITH best <- tipB, tipHash <- tipA, out <- scOut

caVars == <<hashA, hashB, chainA, chainB, length, ancestor, caOut>>
scVars == <<hash, sideChain, ri, scOut>>

(* ImportSideChains on the same node, with tipB as its best block.  It     *)
(* runs in behaviours of its own (`which`), the walks staying put, so     *)
(* that its DB states add to the walks' states instead of multiplying.    *)
IM == INSTANCE ImportSideChains WITH best <- tipB, pc <- imPc

imVars == <<status, stored, tips, it, hashlist, k, failedOn, imPc>>

(* The transactions table's data: block b1 has regular x1, x2 and stake  *)
(* x3; block b2, a block at the same height, has x2 and x1.  Three        *)
(* InsertTxns calls store a block twice (duplicates, or a conflict once   *)
(* the index exists) and a second block, stored as a main chain block or *)
(* a side chain one (is_valid, is_mainchain); UpdateTransactionsValid and *)
(* UpdateTransactionsMainchain then give the rows every other pair.       *)
MCTableTxs == {"x1", "x2", "x3"}
MCTableTree == [x \in MCTableTxs |-> IF x = "x3" THEN 1 ELSE 0]
MCTableBlockTxs ==
  [blk \in {"b1", "b2"} |->
     IF blk = "b1" THEN [t \in {0, 1} |-> IF t = 0 THEN <<"x1", "x2">> ELSE <<"x3">>]
     ELSE [t \in {0, 1} |-> IF t = 0 THEN <<"x2", "x1">> ELSE <<>>]]

TT == INSTANCE TxTable
        WITH Txs <- MCTableTxs, Blocks <- {"b1", "b2"}, TxTree <- MCTableTree,
             BlockTxs <- MCTableBlockTxs, MaxInserts <- 3,
             InsertFlags <- {<<TRUE, TRUE>>, <<TRUE, FALSE>>},
             rows <- txRows, nextId <- txNextId, out <- txOut,
             inserts <- txInserts

ttVars == <<txRows, txNextId, uixTxHashes, txOut, firstId, txInserts>>

(* UnconfirmedTxnsForAddress on the same node, in behaviours of its own: *)
(* a mempool of three transactions, two involving the address, and every *)
(* call of it may fail.                                                     *)
UT == INSTANCE UnconfirmedTxns
        WITH Mempool <- {"m1", "m2", "m3"}, Involves <- {"m1", "m2"},
             FailOps <- {"GetRawMempoolVerbose", "NewHashFromStr",
                         "GetRawTransaction"},
             pc <- utPc, err <- utErr, ret <- utRet

utVars == <<utPc, mempoolTxns, addressOutpoints, numUnconfirmed, utErr, utRet>>

(* In the walks' behaviours the import stays at its start with nothing   *)
(* stored; in the import's, tipA, which only the walks read, is tipB.     *)
(* In the table's and UnconfirmedTxnsForAddress's, the tree and the tips  *)
(* are one of their initial values and the import stays at its start.     *)
Init ==
  /\ which \in {"walks", "import", "txns", "mempool"}
  /\ IF which \in {"txns", "mempool"}
       THEN /\ parent = CHOOSE t \in Trees : TRUE
            /\ tipA = CHOOSE b \in Blocks : TRUE
            /\ tipB = CHOOSE b \in Blocks : TRUE
       ELSE TRUE
  /\ CA!Init /\ SC!Init /\ TT!Init /\ UT!Init
  /\ \/ /\ which \in {"walks", "txns", "mempool"}
        /\ status = [t \in IM!OtherTips |-> "invalid"]
        /\ stored = [b \in Blocks |-> "none"]
        /\ tips = <<>> /\ it = 1 /\ hashlist = <<>> /\ k = 1
        /\ failedOn = {} /\ imPc = "tips"
     \/ which = "import" /\ tipA = tipB /\ IM!Init

Next ==
  \/ which = "walks" /\ CA!Next /\ UNCHANGED <<which, scVars, imVars, ttVars, utVars>>
  \/ which = "walks" /\ caOut # "running" /\ SC!Next
     /\ UNCHANGED <<which, caVars, imVars, ttVars, utVars>>
  \/ which = "import" /\ IM!Next
     /\ UNCHANGED <<which, parent, tipA, tipB, caVars, scVars, ttVars, utVars>>
  \/ which = "txns" /\ TT!Next
     /\ UNCHANGED <<which, parent, tipA, tipB, caVars, scVars, imVars, utVars>>
  \/ which = "mempool" /\ UT!Next
     /\ UNCHANGED <<which, parent, tipA, tipB, caVars, scVars, imVars, ttVars>>

Spec == Init /\ [][Next]_<<which, parent, tipA, tipB, caVars, scVars, imVars,
                            ttVars, utVars>>

TypeOK == CA!TypeOK /\ SC!TypeOK /\ IM!TypeOK /\ TT!TypeOK /\ UT!TypeOK

(* What CommonAncestor returns agrees with the reference (see             *)
(* CommonAncestor!ResultMatchesReference).                                 *)
ResultMatchesReference == CA!ResultMatchesReference

(* What SideChainFull returns is the side chain above the fork (see       *)
(* SideChainFull!ReturnsSideChain).                                        *)
ReturnsSideChain == SC!ReturnsSideChain

(* What ImportSideChains leaves in the summary DB when it returns nil     *)
(* (see ImportSideChains!SideChainsRecorded).                              *)
SideChainsRecorded == IM!SideChainsRecorded

\* Five blocks: 24 tree shapes, with chains up to four blocks long and
\* forks at genesis and above it.
MCNumBlocks == 5

\* Below the longest chain (4), so the limit is both reached and not.
MCMaxChainLength == 3

\* A tip kept by sideChainTips with either status, and one it drops.
MCTipStatuses == {"valid-fork", "valid-headers", "invalid"}

MCImportCalls == {"GetChainTips", "SideChainFull", "getMainchainStatus",
                  "CollectAPITypes", "StoreSideBlockSummary"}

(* ImportSideChains skips a block it cannot collect and never panics (see *)
(* ImportSideChains!ImportNeverPanics).                                    *)
ImportNeverPanics == IM!ImportNeverPanics

(* InsertTxns returns one id per transaction, in order, naming its row     *)
(* (see TxTable!IdsNameTheirRows).                                         *)
IdsNameTheirRows == TT!IdsNameTheirRows

(* DeleteDuplicateTxns leaves each stored pair its first row only (see    *)
(* TxTable!DedupeKeepsFirstOfEach).                                        *)
DedupeKeepsFirstOfEach == TT!DedupeKeepsFirstOfEach

(* UnconfirmedTxnsForAddress returns a nil error only with every involved *)
(* mempool transaction (see UnconfirmedTxns!CompleteWithoutError).         *)
CompleteWithoutError == UT!CompleteWithoutError
=============================================================================
