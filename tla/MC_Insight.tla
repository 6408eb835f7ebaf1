------------------------------ MODULE MC_Insight ------------------------------
(***************************************************************************)
(* The Insight handlers of this project on their own data: the unspent    *)
(* outputs handler (MC_InsightUTXO) and the transaction lists             *)
(* (InsightTxLists) below.  `which` picks the handler a behaviour runs;   *)
(* the other's variables stay as they start.  The third handler is the    *)
(* block summaries of a day (InsightBlocks).                               *)
(*                                                                         *)
(* The transaction lists' data: address a has three confirmed            *)
(* transactions, r1 in the last two blocks (so among recentTxs) and c1,   *)
(* c2 below; its mempool outpoints are two outputs of f1, the change      *)
(* output of s1 and an output of r1, and s1 spends a's output of c1.      *)
(* Address b has c3 confirmed, an output of f1 in the mempool and s2      *)
(* spending its output of c3.  e has nothing, and x does not decode.      *)
(* Every mempool transaction is in TxnsStore and none is confirmed, as    *)
(* UnconfirmedTxnsForAddress builds them.  The limits of 10, 50 and 1000  *)
(* are scaled down to the lists' size so that every clamp and the limit   *)
(* error are reached.                                                      *)
(***************************************************************************)
EXTENDS MC_InsightUTXO

CONSTANTS TLFailOps, BSEmpty, BSBad

VARIABLES which, handler, req, tlPc, from, to, rawTxs, recentTxs, unconf,
          bal, tlAi, resp, bsReq, bsPc, bsOut


Op(t, i) == [tx |-> t, idx |-> i]
Row(t, h) == [tx |-> t, height |-> h]

TLAddresses == {"a", "b", "e", "x"}
TLBad == {"x"}
TLNoBlock == "none"

RowsA == <<Row("r1", 9), Row("c1", 5), Row("c2", 3)>>
RowsB == <<Row("c3", 4)>>

TLDBRows == (<<"a">> :> RowsA) @@ (<<"b">> :> RowsB) @@ (<<"e">> :> <<>>)
            @@ (<<"x">> :> <<>>) @@ (<<"a", "b">> :> RowsA \o RowsB)
            @@ (<<"a", "x">> :> RowsA)

TLOutpoints == [ad \in TLAddresses |->
                  CASE ad = "a" -> <<Op("f1", 0), Op("f1", 1), Op("s1", 1), Op("r1", 0)>>
                    [] ad = "b" -> <<Op("f1", 2)>>
                    [] OTHER -> <<>>]

TLPrevOuts == [ad \in TLAddresses |->
                 CASE ad = "a" -> <<[spender |-> "s1", prev |-> Op("c1", 0)]>>
                   [] ad = "b" -> <<[spender |-> "s2", prev |-> Op("c3", 0)]>>
                   [] OTHER -> <<>>]

TLStored == {"f1", "s1", "s2", "r1"}

TLValue == (Op("f1", 0) :> 5) @@ (Op("f1", 1) :> 3) @@ (Op("f1", 2) :> 4)
           @@ (Op("s1", 1) :> 2) @@ (Op("r1", 0) :> 7) @@ (Op("c1", 0) :> 10)
           @@ (Op("c3", 0) :> 6)

TLRegularTxs == ("B1" :> <<"x1", "x2", "x3">>) @@ ("B2" :> <<"x1">>)
TLStakeTxs == ("B1" :> <<"y1">>) @@ ("B2" :> <<"y1", "y2", "y3">>)

(* t = NoTo: GetToCtx reports no "to" (and returns 0). *)
NoTo == -99

TLAllReads == {"dbTimeout", "dbError", "mempool", "getRawTransaction",
               "convert", "block"}
Req(blk, as, f, t, c) == [block |-> blk, addrs |-> as, from |-> f,
                          to |-> IF t = NoTo THEN 0 ELSE t, toOk |-> t # NoTo,
                          cmd |-> c]

TLRequests ==
  [h \in {"txs", "addrsTxn", "addrInfo"} |->
     CASE h = "txs" ->
            {Req(TLNoBlock, as, 0, NoTo, "none") : as \in {<<"a">>, <<"x">>, <<>>}}
            \cup {Req(blk, <<>>, 0, NoTo, "none") : blk \in {"B1", "B2"}}
       [] h = "addrsTxn" ->
            {Req(TLNoBlock, as, f, t, "none") :
               as \in {<<"a">>, <<"a", "b">>, <<"a", "x">>, <<"e">>, <<>>},
               f \in {-1, 1, 4}, t \in {NoTo, 0, 5}}
       [] h = "addrInfo" ->
            {Req(TLNoBlock, as, f, t, c) :
               as \in {<<"a">>, <<"x">>}, f \in {-1, 1}, t \in {NoTo, 5},
               c \in {"none", "balance", "totalReceived", "totalSent",
                       "unconfirmedBalance"}}]

TLNoFailures == {}

TL == INSTANCE InsightTxLists
        WITH Addresses <- TLAddresses, BadAddresses <- TLBad,
             BlockIds <- {"B1", "B2"}, NoBlock <- TLNoBlock,
             Requests <- TLRequests, DBRows <- TLDBRows, StatusHeight <- 10,
             Outpoints <- TLOutpoints, PrevOuts <- TLPrevOuts,
             Stored <- TLStored, Confirmed <- {}, Value <- TLValue,
             RegularTxs <- TLRegularTxs, StakeTxs <- TLStakeTxs,
             TotalSpent <- 20, TotalUnspent <- 15, TxsListLimit <- 2,
             TxnPageDefault <- 2, TxnPageLimit <- 3, InfoPageLimit <- 3,
             FailOps <- TLFailOps, pc <- tlPc, ai <- tlAi

(* Block summaries: days of 10 seconds; day 1 has three blocks, two of   *)
(* them in the same second, day 2 one and day 3 none.  Limits reach the   *)
(* cut below, at and above the day's size, and no limit.                  *)
BSTime == ("k1" :> 15) @@ ("k2" :> 15) @@ ("k3" :> 12) @@ ("k4" :> 25)

IB == INSTANCE InsightBlocks
        WITH Days <- {1, 2, 3}, Today <- 1, EmptyDate <- BSEmpty,
             BadDate <- BSBad, DayLength <- 10, Summaries <- DOMAIN BSTime,
             BlockTime <- BSTime, Limits <- {-1, 0, 1, 2, 3},
             FailOps <- {"dbTimeout", "dbError"}

utxoVars == <<addrs, ai, back, len, si, n, g, pc, result, answered>>
listVars == <<handler, req, tlPc, from, to, rawTxs, recentTxs, unconf, bal,
              tlAi, resp>>
blockVars == <<bsReq, bsPc, bsOut>>

InsightInit ==
  which \in {"utxo", "lists", "blocks"} /\ Init /\ TL!Init /\ IB!BSInit

InsightNext ==
  \/ which = "utxo" /\ Next /\ UNCHANGED <<which, listVars, blockVars>>
  \/ which = "lists" /\ TL!Next /\ UNCHANGED <<which, utxoVars, blockVars>>
  \/ which = "blocks" /\ IB!BSNext /\ UNCHANGED <<which, utxoVars, listVars>>

InsightSpec ==
  InsightInit /\ [][InsightNext]_<<which, utxoVars, listVars, blockVars>>

InsightTypeOK == TypeOK /\ TL!TypeOK /\ IB!BSTypeOK

(* The transaction lists name each transaction once, count it once and   *)
(* page within bounds (see InsightTxLists!PageOfDistinctTxs).             *)
PageOfDistinctTxs == TL!PageOfDistinctTxs

(* getAddressInfo's unconfirmed balance is exact (see                     *)
(* InsightTxLists!UnconfirmedBalanceExact).                                *)
UnconfirmedBalanceExact == TL!UnconfirmedBalanceExact

(* A day's page of block summaries is the newest blocks of the day, with *)
(* More and MoreTs as a client paging back needs them (see               *)
(* InsightBlocks!SummaryPageMatchesReference).                            *)
SummaryPageMatchesReference == IB!SummaryPageMatchesReference

=============================================================================
