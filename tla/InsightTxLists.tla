---------------------------- MODULE InsightTxLists ----------------------------
(***************************************************************************)
(* The transaction lists of the Insight API (src/unnamed/part_002,        *)
(* package insight): getTransactions (by block or by address),            *)
(* getAddressesTxn (several addresses, paged with from/to) and            *)
(* getAddressInfo (one address, balances and a paged list).  The address  *)
(* handlers read the confirmed transactions (InsightAddressTransactions,  *)
(* i.e. RetrieveAddressTxnsOrdered), then the mempool outpoints of each   *)
(* address, and put in front of the confirmed list every mempool funding  *)
(* and spending transaction not yet in recentTxs (the confirmed ones      *)
(* above Status.Height-2), appending each one added to recentTxs.         *)
(*                                                                         *)
(* One request is handled per behaviour; a transaction is a model value   *)
(* and what is written is the list, the counts and the balance.           *)
(***************************************************************************)
EXTENDS Integers, SequencesExt

CONSTANTS
  Addresses,       \* the address strings of the requests
  BadAddresses,    \* those DecodeAddress rejects
  BlockIds,        \* the block hashes of getTransactions?block=
  NoBlock,
  Requests,        \* Requests[h]: the requests handler h may receive
  DBRows,          \* DBRows[as]: the rows [tx, height] SelectAddressesAllTxn returns
  StatusHeight,    \* c.Status.Height
  Outpoints,       \* Outpoints[a]: addressOuts.Outpoints, records [tx, idx]
  PrevOuts,        \* PrevOuts[a]: addressOuts.PrevOuts, records [spender, prev]
  Stored,          \* the transactions addressOuts.TxnsStore holds
  Confirmed,       \* the stored transactions that report Confirmed()
  Value,           \* Value[op]: TxOut[op.idx].Value of op.tx
  RegularTxs,      \* RegularTxs[b]: RawTx of block b
  StakeTxs,        \* StakeTxs[b]: RawSTx of block b
  TotalSpent,      \* what AddressSpentUnspent returns
  TotalUnspent,
  TxsListLimit,    \* the 10 of getTransactions
  TxnPageDefault,  \* the from + 10 of getAddressesTxn
  TxnPageLimit,    \* the 50 of getAddressesTxn
  InfoPageLimit,   \* the 1000 of getAddressInfo
  FailOps          \* the reads that may fail in this model

Handlers == {"txs", "addrsTxn", "addrInfo"}
Commands == {"none", "balance", "totalReceived", "totalSent",
             "unconfirmedBalance"}
Reads == {"dbTimeout", "dbError", "mempool", "getRawTransaction",
          "convert", "block"}

ASSUME FailOps \subseteq Reads

Statuses == {"pending", "ok", "insightError", "unavailable", "internalError"}

VARIABLES
  handler,
  req,        \* [block, addrs, from, to, toOk, cmd]: the request's parameters
  pc,
  from, to,   \* the handler's from and to
  rawTxs,     \* the confirmed list, then the merged one, then the page
  recentTxs,
  unconf,     \* UnconfirmedTxs
  bal,        \* unconfirmedBalanceSat
  ai,         \* the address of the mempool loop
  resp        \* what is written

vars == <<handler, req, pc, from, to, rawTxs, recentTxs, unconf, bal, ai, resp>>

NoResp == [status |-> "pending", items |-> <<>>, total |-> 0, from |-> 0,
           to |-> 0, value |-> 0, unconfCount |-> 0]

Addrs == req.addrs

(* The mempool transactions of the addresses' outpoints. *)
PoolTxs == UNION {{op.tx : op \in Range(Outpoints[a])}
                    \cup {po.spender : po \in Range(PrevOuts[a])} : a \in Addresses}

-----------------------------------------------------------------------------
(* The duplicate checks.  acc is [unconf, recent, bal]; info is TRUE in   *)
(* getAddressInfo, which also skips a transaction missing from TxnsStore  *)
(* or reporting Confirmed(), and keeps the unconfirmed balance.           *)

Skipped(acc, tx, info) ==
  \/ tx \in Range(acc.recent)
  \/ info /\ (tx \notin Stored \/ tx \in Confirmed)

Added(acc, tx, delta) ==
  [unconf |-> Append(acc.unconf, tx), recent |-> Append(acc.recent, tx),
   bal |-> acc.bal + delta]

\* Mutant: the funding transaction is not appended to recentTxs.
FundingStep_noRecord(acc, op, info) ==
  IF Skipped(acc, op.tx, info) THEN acc
  ELSE [Added(acc, op.tx, IF info THEN Value[op] ELSE 0) EXCEPT !.recent = acc.recent]

(* FUNDING_TX_DUPLICATE_CHECK, one outpoint. *)
FundingStep(acc, op, info) ==
  IF Skipped(acc, op.tx, info) THEN acc
  ELSE Added(acc, op.tx, IF info THEN Value[op] ELSE 0)

(* SPENDING_TX_DUPLICATE_CHECK, one previous outpoint: the value taken    *)
(* off is that of the spent output.                                        *)
SpendingStep(acc, po, info) ==
  IF Skipped(acc, po.spender, info) THEN acc
  ELSE Added(acc, po.spender, IF info THEN -Value[po.prev] ELSE 0)

DupChecks(acc, a, info) ==
  FoldLeft(LAMBDA x, po : SpendingStep(x, po, info),
           FoldLeft(LAMBDA x, op : FundingStep(x, op, info), acc, Outpoints[a]),
           PrevOuts[a])

(* RetrieveAddressTxnsOrdered: every row's transaction, and those above   *)
(* the recent height.                                                      *)
TxsOf(rows) == [i \in DOMAIN rows |-> rows[i].tx]
RecentOf(rows) == TxsOf(SelectSeq(rows, LAMBDA r : r.height > StatusHeight - 2))

(* The clamps of from and to against the list's length. *)
PageBounds(f, t, n) ==
  LET f1 == IF f > n THEN n ELSE IF f < 0 THEN 0 ELSE f
      t1 == IF t > n THEN n ELSE IF t < 0 THEN 0 ELSE t
  IN  <<f1, IF f1 > t1 THEN f1 ELSE t1>>

(* The block branch of getTransactions: regular transactions until count  *)
(* exceeds the limit, then, if count is below it, stake ones likewise.    *)
BlockTxList(b) ==
  LET L == TxsListLimit
      r == SubSeq(RegularTxs[b], 1, IF Len(RegularTxs[b]) > L THEN L + 1
                                    ELSE Len(RegularTxs[b]))
      k == IF Len(StakeTxs[b]) > L + 1 - Len(r) THEN L + 1 - Len(r)
           ELSE Len(StakeTxs[b])
  IN  IF Len(r) < L THEN r \o SubSeq(StakeTxs[b], 1, k) ELSE r

-----------------------------------------------------------------------------

Reply(status) ==
  /\ resp' = [resp EXCEPT !.status = status]
  /\ pc' = "done"

ReplyValue(v) ==
  /\ resp' = [resp EXCEPT !.status = "ok", !.value = v]
  /\ pc' = "done"

(* getTransactions: the block if a hash is given, otherwise the address,  *)
(* which must decode; neither is an error.                                 *)
StartTxs ==
  /\ pc = "start" /\ handler = "txs"
  /\ \/ req.block # NoBlock /\ pc' = "block" /\ UNCHANGED resp
     \/ req.block = NoBlock /\ Addrs = <<>> /\ Reply("insightError")
     \/ req.block = NoBlock /\ Addrs # <<>> /\ Addrs[1] \in BadAddresses
        /\ Reply("insightError")
     \/ req.block = NoBlock /\ Addrs # <<>> /\ Addrs[1] \notin BadAddresses
        /\ pc' = "db" /\ UNCHANGED resp
  /\ UNCHANGED <<handler, req, from, to, rawTxs, recentTxs, unconf, bal, ai>>

(* getAddressesTxn: an empty address is an error; to defaults to from +   *)
(* 10.  The addresses are decoded later, in the mempool loop.             *)
StartAddrsTxn ==
  /\ pc = "start" /\ handler = "addrsTxn"
  /\ \/ Addrs = <<>> /\ Reply("insightError") /\ UNCHANGED to
     \/ Addrs # <<>> /\ pc' = "db" /\ UNCHANGED resp
        /\ to' = IF ~req.toOk THEN req.from + TxnPageDefault ELSE req.to
  /\ UNCHANGED <<handler, req, from, rawTxs, recentTxs, unconf, bal, ai>>

(* getAddressInfo: the address must decode; to defaults to from + 1000    *)
(* when absent or not above from.                                          *)
StartAddrInfo ==
  /\ pc = "start" /\ handler = "addrInfo"
  /\ \/ Addrs[1] \in BadAddresses /\ Reply("insightError") /\ UNCHANGED to
     \/ Addrs[1] \notin BadAddresses /\ pc' = "spentUnspent"
        /\ UNCHANGED resp
        /\ to' = IF ~req.toOk \/ req.to <= req.from
                   THEN req.from + InfoPageLimit ELSE req.to
  /\ UNCHANGED <<handler, req, from, rawTxs, recentTxs, unconf, bal, ai>>

(* AddressSpentUnspent, then the balance commands, which return at once. *)
SpentUnspent ==
  /\ pc = "spentUnspent"
  /\ \/ "dbTimeout" \in FailOps /\ Reply("unavailable")
     \/ "dbError" \in FailOps /\ Reply("internalError")
     \/ req.cmd = "balance" /\ ReplyValue(TotalUnspent)
     \/ req.cmd = "totalReceived" /\ ReplyValue(TotalSpent + TotalUnspent)
     \/ req.cmd = "totalSent" /\ ReplyValue(TotalSpent)
     \/ req.cmd \in {"none", "unconfirmedBalance"} /\ pc' = "db"
        /\ UNCHANGED resp
  /\ UNCHANGED <<handler, req, from, to, rawTxs, recentTxs, unconf, bal, ai>>

(* InsightAddressTransactions: a timeout is 503, another error an Insight *)
(* error (500 in getAddressInfo).                                          *)
ReadDB ==
  /\ pc = "db"
  /\ \/ "dbTimeout" \in FailOps /\ Reply("unavailable")
        /\ UNCHANGED <<rawTxs, recentTxs, ai>>
     \/ "dbError" \in FailOps /\ UNCHANGED <<rawTxs, recentTxs, ai>>
        /\ Reply(IF handler = "addrInfo" THEN "internalError" ELSE "insightError")
     \/ /\ rawTxs' = TxsOf(DBRows[Addrs])
        /\ recentTxs' = RecentOf(DBRows[Addrs])
        /\ ai' = 1
        /\ pc' = "mempool"
        /\ UNCHANGED resp
  /\ UNCHANGED <<handler, req, from, to, unconf, bal>>

(* One address of the mempool loop: getAddressesTxn decodes it here; a    *)
(* failed UnconfirmedTxnsForAddress is an error, except in getAddressInfo *)
(* where it is logged and the address's outpoints are left out.           *)
MempoolStep ==
  /\ pc = "mempool"
  /\ ai <= Len(Addrs)
  /\ LET a == Addrs[ai]
         acc == DupChecks([unconf |-> unconf, recent |-> recentTxs, bal |-> bal],
                          a, handler = "addrInfo")
     IN  \/ handler = "addrsTxn" /\ a \in BadAddresses /\ Reply("insightError")
            /\ UNCHANGED <<unconf, recentTxs, bal, ai>>
         \/ handler # "addrInfo" /\ a \notin BadAddresses
            /\ "mempool" \in FailOps /\ Reply("insightError")
            /\ UNCHANGED <<unconf, recentTxs, bal, ai>>
         \/ handler = "addrInfo" /\ "mempool" \in FailOps
            /\ ai' = ai + 1
            /\ UNCHANGED <<unconf, recentTxs, bal, pc, resp>>
         \/ a \notin BadAddresses
            /\ unconf' = acc.unconf /\ recentTxs' = acc.recent /\ bal' = acc.bal
            /\ ai' = ai + 1
            /\ UNCHANGED <<pc, resp>>
  /\ UNCHANGED <<handler, req, from, to, rawTxs>>

(* The loop is over; getAddressInfo?cmd=unconfirmedBalance returns here. *)
MempoolDone ==
  /\ pc = "mempool"
  /\ ai > Len(Addrs)
  /\ IF handler = "addrInfo" /\ req.cmd = "unconfirmedBalance"
       THEN ReplyValue(bal)
       ELSE pc' = "page" /\ UNCHANGED resp
  /\ UNCHANGED <<handler, req, from, to, rawTxs, recentTxs, unconf, bal, ai>>

PageLimit == IF handler = "addrsTxn" THEN TxnPageLimit ELSE InfoPageLimit

(* The unconfirmed transactions go in front of the confirmed ones; then  *)
(* getTransactions keeps the first 10, and the paged handlers clamp from *)
(* and to (when the list is not empty), refuse a range over the limit and *)
(* slice.  getAddressInfo writes its answer here.                          *)
Page ==
  /\ pc = "page"
  /\ LET merged == unconf \o rawTxs
         n == Len(merged)
         b == PageBounds(from, to, n)
         f2 == IF n > 0 THEN b[1] ELSE from
         t2 == IF n > 0 THEN b[2] ELSE to
         page == IF n > 0 THEN SubSeq(merged, b[1] + 1, b[2]) ELSE merged
     IN  \/ handler = "txs"
            /\ rawTxs' = (IF n > TxsListLimit THEN SubSeq(merged, 1, TxsListLimit)
                          ELSE merged)
            /\ resp' = [resp EXCEPT !.total = n]
            /\ pc' = "fetch"
            /\ UNCHANGED <<from, to>>
         \/ handler # "txs" /\ n > 0 /\ b[2] - b[1] > PageLimit
            /\ Reply("insightError")
            /\ UNCHANGED <<from, to, rawTxs>>
         \/ handler = "addrsTxn" /\ ~(n > 0 /\ b[2] - b[1] > PageLimit)
            /\ rawTxs' = page /\ from' = f2 /\ to' = t2
            /\ resp' = [resp EXCEPT !.total = n, !.from = f2, !.to = t2]
            /\ pc' = "fetch"
         \/ handler = "addrInfo" /\ ~(n > 0 /\ b[2] - b[1] > PageLimit)
            /\ rawTxs' = page /\ from' = f2 /\ to' = t2
            /\ resp' = [status |-> "ok", items |-> page, total |-> Len(rawTxs),
                        from |-> f2, to |-> t2, value |-> bal,
                        unconfCount |-> Len(unconf)]
            /\ pc' = "done"
  /\ UNCHANGED <<handler, req, recentTxs, unconf, bal, ai>>

(* getTransactions?block=: GetBlockVerboseByHash, then the merged list. *)
ReadBlock ==
  /\ pc = "block"
  /\ \/ "block" \in FailOps /\ Reply("insightError") /\ UNCHANGED rawTxs
     \/ /\ rawTxs' = BlockTxList(req.block)
        /\ resp' = [resp EXCEPT !.total = Len(RegularTxs[req.block])
                                          + Len(StakeTxs[req.block])]
        /\ pc' = "convert"
  /\ UNCHANGED <<handler, req, from, to, recentTxs, unconf, bal, ai>>

(* GetRawTransaction for each transaction of the page. *)
FetchRaw ==
  /\ pc = "fetch"
  /\ \/ rawTxs # <<>> /\ "getRawTransaction" \in FailOps
        /\ Reply("insightError")
     \/ pc' = "convert" /\ UNCHANGED resp
  /\ UNCHANGED <<handler, req, from, to, rawTxs, recentTxs, unconf, bal, ai>>

(* TxConverter / DcrToInsightTxns, then writeJSON. *)
Convert ==
  /\ pc = "convert"
  /\ \/ "convert" \in FailOps /\ Reply("insightError")
     \/ resp' = [resp EXCEPT !.status = "ok", !.items = rawTxs] /\ pc' = "done"
  /\ UNCHANGED <<handler, req, from, to, rawTxs, recentTxs, unconf, bal, ai>>

-----------------------------------------------------------------------------

Init ==
  /\ handler \in Handlers
  /\ req \in Requests[handler]
  /\ pc = "start"
  /\ from = req.from
  /\ to = req.to
  /\ rawTxs = <<>>
  /\ recentTxs = <<>>
  /\ unconf = <<>>
  /\ bal = 0
  /\ ai = 1
  /\ resp = NoResp

Next ==
  \/ StartTxs \/ StartAddrsTxn \/ StartAddrInfo \/ SpentUnspent
  \/ ReadDB \/ MempoolStep \/ MempoolDone \/ Page
  \/ ReadBlock \/ FetchRaw \/ Convert

Spec == Init /\ [][Next]_vars

-----------------------------------------------------------------------------

TypeOK ==
  /\ handler \in Handlers
  /\ req \in Requests[handler]
  /\ pc \in {"start", "spentUnspent", "db", "mempool", "page", "block",
             "fetch", "convert", "done"}
  /\ from \in Int /\ to \in Int
  /\ {rawTxs, recentTxs} \subseteq Seq(STRING)
  /\ unconf \in Seq(PoolTxs)
  /\ bal \in Int
  /\ ai \in 1..(Len(Addrs) + 1)
  /\ resp.status \in Statuses

(* The transactions an address list has: its confirmed ones, and the      *)
(* mempool transactions funding or spending from its addresses that are  *)
(* not among the recent confirmed ones (nor, when info holds, missing     *)
(* from TxnsStore or confirmed).                                           *)
ExpectedTxs(as, info) ==
  LET rows == Range(DBRows[as])
      recent == {r.tx : r \in {x \in rows : x.height > StatusHeight - 2}}
      pool == UNION {{op.tx : op \in Range(Outpoints[a])}
                       \cup {po.spender : po \in Range(PrevOuts[a])}
                     : a \in Range(as)}
      kept == {t \in pool \ recent :
                 info => t \in Stored /\ t \notin Confirmed}
  IN  [pool |-> kept, all |-> {r.tx : r \in rows} \cup kept]

ListHandler == handler \in {"addrsTxn", "addrInfo"} \/ req.block = NoBlock

(* Every list an address handler writes names each transaction once and  *)
(* only transactions of the addresses, however the mempool outpoints of   *)
(* several addresses, of funding and spending, and of the recent          *)
(* confirmed transactions overlap; the totals count every transaction     *)
(* once; and a page is the window [from, to) of the merged list, within  *)
(* the limit, whatever from and to were asked for.                         *)
PageOfDistinctTxs ==
  resp.status = "ok" /\ ListHandler /\ req.cmd = "none" =>
    LET E == ExpectedTxs(Addrs, handler = "addrInfo")
        count == IF handler = "addrInfo" THEN resp.total + resp.unconfCount
                 ELSE resp.total
    IN  /\ IsInjective(resp.items)
        /\ Range(resp.items) \subseteq E.all
        /\ handler # "addrInfo" => resp.total = Cardinality(E.all)
        /\ handler = "addrInfo" => resp.unconfCount \in {0, Cardinality(E.pool)}
        /\ handler = "txs" => Len(resp.items) <= TxsListLimit
        /\ handler # "txs" /\ count > 0 =>
             /\ 0 <= resp.from /\ resp.from <= resp.to /\ resp.to <= count
             /\ Len(resp.items) = resp.to - resp.from
             /\ Len(resp.items) <= PageLimit

(* The unconfirmed balance of an address: the value of its outputs in     *)
(* unconfirmed mempool transactions less the value of its outputs that   *)
(* unconfirmed mempool transactions spend, leaving out transactions among *)
(* the recent confirmed ones.                                              *)
PoolBalance(a) ==
  LET kept == ExpectedTxs(<<a>>, TRUE).pool
  IN  MapThenSumSet(LAMBDA op : Value[op], {op \in Range(Outpoints[a]) : op.tx \in kept})
      - MapThenSumSet(LAMBDA po : Value[po.prev],
                      {po \in Range(PrevOuts[a]) : po.spender \in kept})

(* getAddressInfo's unconfirmedBalance (and UnconfirmedBalanceSat) is the *)
(* address's unconfirmed balance whenever the mempool read succeeds.      *)
UnconfirmedBalanceExact ==
  handler = "addrInfo" /\ resp.status = "ok" /\ "mempool" \notin FailOps
  /\ req.cmd \in {"none", "unconfirmedBalance"} =>
    resp.value = PoolBalance(Addrs[1])

=============================================================================
