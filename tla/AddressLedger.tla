---------------------------- MODULE AddressLedger ----------------------------
(***************************************************************************)
(* The addresses table of the PostgreSQL store (package dcrpg,            *)
(* src/unnamed/part_001) for one address A: a funding row per output      *)
(* paying A and a spending row per input spending one, the spending link  *)
(* (matching_tx_hash on the funding row) and valid_mainchain.             *)
(*                                                                         *)
(* The writer stores blocks in height order as the insertion protocol of  *)
(* the store's caller does: the funding rows of the block's outputs       *)
(* (InsertAddressRows), a spending row per input (InsertSpendingAddressRow)*)
(* that either updates the funding row in the same database transaction   *)
(* or leaves it to SetSpendingForVinDbIDs, and, once block b is connected, *)
(* the stakeholders' verdict on block b-1 (UpdateLastBlockValid and        *)
(* UpdateLastAddressesValid).  A reader runs RetrieveAddressSpentUnspent   *)
(* concurrently.                                                           *)
(***************************************************************************)
EXTENDS Integers, FiniteSetsExt

CONSTANTS
  NumBlocks,     \* blocks 1..NumBlocks are connected in order
  Txs, Outs, Vins,
  TxBlock,       \* the block of each transaction
  TxTree,        \* its tree: 0 regular, 1 stake
  OutTx,         \* the transaction of each output (all pay A)
  OutValue,      \* its value in atoms
  VinTx,         \* the transaction of each input
  VinSpends,     \* the output it spends, or ZeroOutpoint for a coinbase
  ZeroOutpoint,
  Approvals,     \* verdicts the next block's votes may give (vote bits)
  FailOps,       \* statements of UpdateAddressesMainchainByIDs that may fail
  MaxReads       \* RetrieveAddressSpentUnspent calls (model bound)

Blocks == 1..NumBlocks

ASSUME /\ NumBlocks \in Nat \ {0}
       /\ TxBlock \in [Txs -> Blocks] /\ TxTree \in [Txs -> {0, 1}]
       /\ OutTx \in [Outs -> Txs] /\ OutValue \in [Outs -> Nat]
       /\ VinTx \in [Vins -> Txs]
       /\ VinSpends \in [Vins -> Outs \cup {ZeroOutpoint}]
       /\ ZeroOutpoint \notin Outs
       /\ Approvals \subseteq BOOLEAN /\ Approvals # {}
       /\ FailOps \subseteq {"SetAddressMainchainForVinIDs",
                             "SetAddressMainchainForVoutIDs"}
       /\ MaxReads \in Nat

NoTx == "NoTx"     \* matching_tx_hash unset
\* A row that is not there.
NoFundRow == [present |-> FALSE, matching |-> NoTx, vm |-> FALSE]
NoSpendRow == [present |-> FALSE, vm |-> FALSE]

FundRow == [present : BOOLEAN, matching : Txs \cup {NoTx}, vm : BOOLEAN]
SpendRow == [present : BOOLEAN, vm : BOOLEAN]

OutsOf(b) == {o \in Outs : TxBlock[OutTx[o]] = b}
VinsOf(b) == {v \in Vins : TxBlock[VinTx[v]] = b}
IsCoinbase(v) == VinSpends[v] = ZeroOutpoint

\* Mutant: the stake transactions' rows are returned too.
BlockRowIDs_allTrees(b) == [vins |-> VinsOf(b), vouts |-> OutsOf(b)]

(* RetrieveTxnsVinsVoutsByBlock with onlyRegular: the vin and vout row ids *)
(* of the block's regular (tree 0) transactions.                           *)
BlockRowIDs(b) ==
  [vins |-> {v \in VinsOf(b) : TxTree[VinTx[v]] = 0},
   vouts |-> {o \in OutsOf(b) : TxTree[OutTx[o]] = 0}]

VARIABLES
  fund,       \* the funding row of each output (present or not)
  spend,      \* the spending row of each input (present or not)
  blockValid, \* blocks.is_valid
  cur,        \* the block the writer is storing
  wpc,        \* where the writer is
  bulk,       \* this block's spending rows leave the funding rows alone
  verdict,    \* the isValid passed to UpdateLastAddressesValid
  idVins,     \* vin row ids UpdateAddressesMainchainByIDs has yet to do
  idVouts,    \* vout row ids it has yet to do
  failed,     \* blocks whose UpdateLastAddressesValid returned an error
  rpc,        \* where the reader is
  res,        \* the reader's result so far
  reads

vars == <<fund, spend, blockValid, cur, wpc, bulk, verdict, idVins, idVouts,
          failed, rpc, res, reads>>

WStates == {"funding", "spending", "setSpending", "validate", "addrValid",
            "done"}

-----------------------------------------------------------------------------
(* The writer.                                                             *)

(* InsertAddressRows for the outputs of block cur: one database           *)
(* transaction inserting a funding row per output, matching_tx_hash unset *)
(* and valid_mainchain as the new tip's (valid and main chain).  Whether   *)
(* the block's spending rows update their funding rows themselves is the  *)
(* caller's choice of updateFundingRow.                                    *)
InsertAddressRows ==
  /\ wpc = "funding"
  /\ fund' = [o \in Outs |-> IF o \in OutsOf(cur)
                               THEN [present |-> TRUE, matching |-> NoTx, vm |-> TRUE]
                               ELSE fund[o]]
  /\ \E b \in BOOLEAN : bulk' = b
  /\ wpc' = "spending"
  /\ UNCHANGED <<spend, blockValid, cur, verdict, idVins, idVouts, failed,
                 rpc, res, reads>>

\* Mutant: the UPDATE matches the funding transaction but not the output.
SetSpendingForFundingOP_wholeTx(f, o, t) ==
  [p \in DOMAIN f |-> IF f[p].present /\ OutTx[p] = OutTx[o]
                       THEN [f[p] EXCEPT !.matching = t] ELSE f[p]]

(* setSpendingForFundingOP: UPDATE the funding row of outpoint o; no row  *)
(* is affected if it is not there.                                         *)
SetSpendingForFundingOP(f, o, t) ==
  IF ~f[o].present THEN f ELSE [f EXCEPT ![o].matching = t]

\* Mutant: the funding row is never updated.
UpdatesFundingRow_never == FALSE

(* updateFundingRow, as the caller passes it. *)
UpdatesFundingRow == ~bulk

(* InsertSpendingAddressRow for input v of block cur, in one database     *)
(* transaction: insert the spending row (valid_mainchain of the new tip), *)
(* then, with updateFundingRow, set the funding row's matching_tx_hash.   *)
InsertSpendingAddressRow ==
  /\ wpc = "spending"
  /\ \E v \in VinsOf(cur) :
       /\ ~IsCoinbase(v)
       /\ ~spend[v].present
       /\ spend' = [spend EXCEPT ![v] = [present |-> TRUE, vm |-> TRUE]]
       /\ fund' = IF UpdatesFundingRow
                    THEN SetSpendingForFundingOP(fund, VinSpends[v], VinTx[v])
                    ELSE fund
  /\ UNCHANGED <<blockValid, cur, wpc, bulk, verdict, idVins, idVouts,
                 failed, rpc, res, reads>>

SpendingRowsDone ==
  \A v \in VinsOf(cur) : IsCoinbase(v) \/ spend[v].present

SpendingDone ==
  /\ wpc = "spending"
  /\ SpendingRowsDone
  /\ wpc' = IF bulk THEN "setSpending" ELSE "validate"
  /\ UNCHANGED <<fund, spend, blockValid, cur, bulk, verdict, idVins, idVouts,
                 failed, rpc, res, reads>>

(* SetSpendingForVinDbIDs for the inputs of block cur, in one database    *)
(* transaction: for each input read its outpoint from the vins table,     *)
(* skip coinbase inputs, and set the funding row's matching_tx_hash.      *)
SetSpendingForVinDbIDs ==
  /\ wpc = "setSpending"
  /\ fund' = FoldSet(LAMBDA v, f : SetSpendingForFundingOP(f, VinSpends[v],
                                                           VinTx[v]),
                     fund, {v \in VinsOf(cur) : ~IsCoinbase(v)})
  /\ wpc' = "validate"
  /\ UNCHANGED <<spend, blockValid, cur, bulk, verdict, idVins, idVouts,
                 failed, rpc, res, reads>>

(* Consensus: a block whose regular outputs are spent later on the chain  *)
(* was not disapproved, since a disapproved block's regular transactions  *)
(* are not part of the chain.                                              *)
Verdicts(b) ==
  IF \E v \in Vins : /\ ~IsCoinbase(v)
                     /\ VinSpends[v] \in OutsOf(b)
                     /\ TxTree[OutTx[VinSpends[v]]] = 0
    THEN Approvals \cap {TRUE}
    ELSE Approvals

\* Mutant: the loop runs one block past the last.
NextBlock_pastLast ==
  /\ cur' = cur + 1
  /\ wpc' = IF cur < NumBlocks THEN "funding" ELSE "done"

(* On to the next block, or stop after the last. *)
NextBlock ==
  /\ cur' = IF cur < NumBlocks THEN cur + 1 ELSE cur
  /\ wpc' = IF cur < NumBlocks THEN "funding" ELSE "done"

(* UpdateLastAddressesValid(b, isValid): read the vin and vout row ids of *)
(* the block's regular transactions and hand them to                       *)
(* UpdateAddressesMainchainByIDs.                                           *)
UpdateLastAddressesValid(b, isValid) ==
  /\ verdict' = isValid
  /\ idVins' = BlockRowIDs(b).vins
  /\ idVouts' = BlockRowIDs(b).vouts
  /\ wpc' = "addrValid"

(* Block cur's votes give their verdict on block cur-1: UpdateLastBlockValid *)
(* sets blocks.is_valid (exactly one row), then UpdateLastAddressesValid   *)
(* cascades it to the address rows.  Genesis has no parent to judge.       *)
UpdateLastBlockValid ==
  /\ wpc = "validate"
  /\ IF cur = 1
       THEN /\ NextBlock
            /\ UNCHANGED <<blockValid, verdict, idVins, idVouts>>
       ELSE \E a \in Verdicts(cur - 1) :
              /\ blockValid' = [blockValid EXCEPT ![cur - 1] = a]
              /\ UpdateLastAddressesValid(cur - 1, a)
              /\ UNCHANGED cur
  /\ UNCHANGED <<fund, spend, bulk, failed, rpc, res, reads>>

(* One statement of UpdateAddressesMainchainByIDs: SetAddressMainchainFor- *)
(* VinIDs for each vin row id (the spending rows), then SetAddressMain-    *)
(* chainForVoutIDs for each vout row id (the funding rows).  Each is its  *)
(* own autocommitted statement; a failed one returns the error at once,   *)
(* leaving the rows already done, and UpdateLastAddressesValid logs it     *)
(* and returns it.                                                         *)
UpdateAddressesMainchainByIDs ==
  /\ wpc = "addrValid"
  /\ \/ \E v \in idVins :
          \/ /\ spend' = IF ~spend[v].present THEN spend
                         ELSE [spend EXCEPT ![v].vm = verdict]
             /\ idVins' = idVins \ {v}
             /\ UNCHANGED <<fund, idVouts, failed, cur, wpc>>
          \/ /\ "SetAddressMainchainForVinIDs" \in FailOps
             /\ failed' = failed \cup {cur - 1}
             /\ NextBlock
             /\ UNCHANGED <<fund, spend, idVins, idVouts>>
     \/ /\ idVins = {}
        /\ \E o \in idVouts :
             \/ /\ fund' = [fund EXCEPT ![o].vm = verdict]
                /\ idVouts' = idVouts \ {o}
                /\ UNCHANGED <<spend, idVins, failed, cur, wpc>>
             \/ /\ "SetAddressMainchainForVoutIDs" \in FailOps
                /\ failed' = failed \cup {cur - 1}
                /\ NextBlock
                /\ UNCHANGED <<fund, spend, idVins, idVouts>>
     \/ /\ idVins = {} /\ idVouts = {}
        /\ NextBlock
        /\ UNCHANGED <<fund, spend, idVins, idVouts, failed>>
  /\ UNCHANGED <<blockValid, bulk, verdict, rpc, res, reads>>

-----------------------------------------------------------------------------
(* The reader: RetrieveAddressSpentUnspent(A).                             *)

ValidFund == {o \in Outs : fund[o].present /\ fund[o].vm}
ValidSpend == {v \in Vins : spend[v].present /\ spend[v].vm}

(* SelectAddressSpentUnspentCountAndValue over the rows with              *)
(* valid_mainchain, grouped by is_funding and whether matching_tx_hash is *)
(* set, and the loop over its rows: unspent is funding with no matching   *)
(* transaction, spent is spending (which always has one).                  *)
SpentUnspent ==
  LET unspent == {o \in ValidFund : fund[o].matching = NoTx}
  IN  [numSpent |-> Cardinality(ValidSpend),
       amtSpent |-> MapThenSumSet(LAMBDA v : OutValue[VinSpends[v]],
                                  ValidSpend),
       numUnspent |-> Cardinality(unspent),
       amtUnspent |-> MapThenSumSet(LAMBDA o : OutValue[o], unspent)]

(* SelectAddressesMergedSpentCount: distinct spending transactions. *)
MergedSpentCount == Cardinality({VinTx[v] : v \in ValidSpend})

(* The first query, run on db outside the read-only transaction dbtx. *)
QuerySpentUnspent ==
  /\ rpc \in {"idle", "returned"}
  /\ reads < MaxReads
  /\ res' = [counts |-> SpentUnspent, numMergedSpent |-> 0]
  /\ rpc' = "between"
  /\ reads' = reads + 1
  /\ UNCHANGED <<fund, spend, blockValid, cur, wpc, bulk, verdict, idVins,
                 idVouts, failed>>

(* The second query, run in dbtx, and the commit. *)
QueryMergedSpent ==
  /\ rpc = "between"
  /\ res' = [res EXCEPT !.numMergedSpent = MergedSpentCount]
  /\ rpc' = "returned"
  /\ UNCHANGED <<fund, spend, blockValid, cur, wpc, bulk, verdict, idVins,
                 idVouts, failed, reads>>

-----------------------------------------------------------------------------

Init ==
  /\ fund = [o \in Outs |-> NoFundRow]
  /\ spend = [v \in Vins |-> NoSpendRow]
  /\ blockValid = [b \in Blocks |-> TRUE]
  /\ cur = 1
  /\ wpc = "funding"
  /\ bulk = FALSE
  /\ verdict = TRUE
  /\ idVins = {}
  /\ idVouts = {}
  /\ failed = {}
  /\ rpc = "idle"
  /\ res = [counts |-> SpentUnspent, numMergedSpent |-> 0]
  /\ reads = 0

Writer ==
  \/ InsertAddressRows \/ InsertSpendingAddressRow \/ SpendingDone
  \/ SetSpendingForVinDbIDs \/ UpdateLastBlockValid
  \/ UpdateAddressesMainchainByIDs

Reader == QuerySpentUnspent \/ QueryMergedSpent

Next == Writer \/ Reader

(* The sync loop keeps storing blocks; a started query runs to its end. *)
Spec == Init /\ [][Next]_vars /\ WF_vars(Writer) /\ WF_vars(QueryMergedSpent)

-----------------------------------------------------------------------------

Counts == [numSpent : Nat, amtSpent : Nat, numUnspent : Nat, amtUnspent : Nat]

TypeOK ==
  /\ fund \in [Outs -> FundRow]
  /\ spend \in [Vins -> SpendRow]
  /\ blockValid \in [Blocks -> BOOLEAN]
  /\ cur \in Blocks
  /\ wpc \in WStates
  /\ bulk \in BOOLEAN
  /\ verdict \in BOOLEAN
  /\ idVins \subseteq Vins
  /\ idVouts \subseteq Outs
  /\ failed \subseteq Blocks
  /\ rpc \in {"idle", "between", "returned"}
  /\ res \in [counts : Counts, numMergedSpent : Nat]
  /\ reads \in 0..MaxReads

(* The spending link never points at a spender that is not recorded:      *)
(* whether the funding row is updated with the spending row              *)
(* (InsertSpendingAddressRow with updateFundingRow) or later from the     *)
(* vins table (SetSpendingForVinDbIDs), a funding row whose               *)
(* matching_tx_hash is T has a spending row of T for that very output.    *)
SpendLinkHasSpender ==
  \A o \in Outs :
    fund[o].present /\ fund[o].matching # NoTx =>
      \E v \in Vins : /\ VinSpends[v] = o
                      /\ VinTx[v] = fund[o].matching
                      /\ spend[v].present

(* valid_mainchain follows the stakeholders' verdict: every address row  *)
(* of a regular transaction has its block's is_valid, and every row of a *)
(* stake transaction stays valid, except in the block whose                *)
(* UpdateAddressesMainchainByIDs is running or returned an error.          *)
RowsFollowBlockValidity ==
  \A b \in Blocks \ failed :
    ~(wpc = "addrValid" /\ b = cur - 1) =>
      LET rowValid(t) == TxTree[t] = 1 \/ blockValid[b]
      IN  /\ \A o \in OutsOf(b) :
               fund[o].present => fund[o].vm = rowValid(OutTx[o])
          /\ \A v \in VinsOf(b) :
               spend[v].present => spend[v].vm = rowValid(VinTx[v])

(* Between two blocks, RetrieveAddressSpentUnspent accounts for every     *)
(* output A received in a valid main chain transaction exactly once, as    *)
(* spent or unspent, and for its value (spec scenario 4 and the UTXO set  *)
(* of the data model).                                                     *)
BalanceAccountsForEveryOutput ==
  wpc \in {"funding", "done"} =>
    LET c == SpentUnspent
    IN  /\ c.numSpent + c.numUnspent = Cardinality(ValidFund)
        /\ c.amtSpent + c.amtUnspent =
             MapThenSumSet(LAMBDA o : OutValue[o], ValidFund)

(* As long as stakeholders have approved every block, the balance         *)
(* accounts for every output as above, whichever statements of the       *)
(* validity cascade fail.                                                  *)
BalanceWhileAllApproved ==
  (\A b \in 1..NumBlocks : blockValid[b]) => BalanceAccountsForEveryOutput

(* RetrieveAddressSpentUnspent returns one snapshot: never more distinct  *)
(* spending transactions than spent outputs.                               *)
ReadIsSnapshot ==
  rpc = "returned" => res.numMergedSpent <= res.counts.numSpent

====
