--------------------------- MODULE UnconfirmedTxns ---------------------------
(***************************************************************************)
(* rpcutils.UnconfirmedTxnsForAddress (src/v4/rpcutils/rpcclient.go): the *)
(* node's mempool is fetched once and its transactions are visited in Go's *)
(* map order, each fetched again with GetRawTransaction and scanned for   *)
(* outputs paying the address or inputs spending one.  A transaction is   *)
(* a model value; Involves is the set TxInvolvesAddress finds outpoints    *)
(* or prevouts in.  addressOutpoints is the set of transactions merged    *)
(* into the result by AddressOutpoints.Update.                              *)
(***************************************************************************)
EXTENDS Integers, FiniteSets

CONSTANTS
  Mempool,    \* the transactions GetRawMempoolVerbose returns
  Involves,   \* those paying or spending the address
  FailOps     \* the calls that may fail

ASSUME /\ Involves \subseteq Mempool
       /\ FailOps \subseteq {"GetRawMempoolVerbose", "NewHashFromStr",
                             "GetRawTransaction"}

VARIABLES
  pc,               \* "start", "loop" or "done"
  mempoolTxns,      \* the transactions the range has yet to visit
  addressOutpoints,
  numUnconfirmed,
  err,              \* the function's err is set
  ret               \* what it returned

vars == <<pc, mempoolTxns, addressOutpoints, numUnconfirmed, err, ret>>

(* What the function returns: whether the *AddressOutpoints is nil, the   *)
(* transactions merged into it, the count and whether err is set.          *)
Return(nil, outs, n, e) == [nil |-> nil, outs |-> outs, num |-> n, err |-> e]
NoReturn == Return(TRUE, {}, -1, FALSE)

Init ==
  /\ pc = "start" /\ mempoolTxns = {} /\ addressOutpoints = {}
  /\ numUnconfirmed = 0 /\ err = FALSE /\ ret = NoReturn

(* GetRawMempoolVerbose: on an error nil is returned.                     *)
GetRawMempoolVerbose ==
  /\ pc = "start"
  /\ \/ /\ "GetRawMempoolVerbose" \in FailOps
        /\ pc' = "done" /\ err' = TRUE /\ ret' = Return(TRUE, {}, 0, TRUE)
        /\ UNCHANGED mempoolTxns
     \/ pc' = "loop" /\ mempoolTxns' = Mempool /\ UNCHANGED <<err, ret>>
  /\ UNCHANGED <<addressOutpoints, numUnconfirmed>>

(* A hash the node sends that does not parse ends the call with what has *)
(* been merged so far and a count of 0.                                    *)
InvalidHash(h) ==
  /\ "NewHashFromStr" \in FailOps
  /\ pc' = "done" /\ err' = TRUE
  /\ ret' = Return(FALSE, addressOutpoints, 0, TRUE)
  /\ UNCHANGED <<mempoolTxns, addressOutpoints, numUnconfirmed>>

\* Mutant: the failure is logged but err is not set.
RawTxFailed_noErr(h) ==
  /\ "GetRawTransaction" \in FailOps
  /\ mempoolTxns' = mempoolTxns \ {h}
  /\ UNCHANGED <<pc, addressOutpoints, numUnconfirmed, err, ret>>

(* GetRawTransaction fails: err = err1 and the loop goes on.               *)
RawTxFailed(h) ==
  /\ "GetRawTransaction" \in FailOps
  /\ mempoolTxns' = mempoolTxns \ {h} /\ err' = TRUE
  /\ UNCHANGED <<pc, addressOutpoints, numUnconfirmed, ret>>

(* The transaction is scanned: skipped when it does not involve the       *)
(* address, otherwise counted and merged.                                  *)
ScanTx(h) ==
  /\ mempoolTxns' = mempoolTxns \ {h}
  /\ IF h \in Involves
       THEN /\ numUnconfirmed' = numUnconfirmed + 1
            /\ addressOutpoints' = addressOutpoints \cup {h}
       ELSE UNCHANGED <<numUnconfirmed, addressOutpoints>>
  /\ UNCHANGED <<pc, err, ret>>

(* One iteration of the range over the mempool, in any order.             *)
Visit ==
  /\ pc = "loop"
  /\ \E h \in mempoolTxns : InvalidHash(h) \/ RawTxFailed(h) \/ ScanTx(h)

LoopDone ==
  /\ pc = "loop" /\ mempoolTxns = {}
  /\ pc' = "done"
  /\ ret' = Return(FALSE, addressOutpoints, numUnconfirmed, err)
  /\ UNCHANGED <<mempoolTxns, addressOutpoints, numUnconfirmed, err>>

Next == GetRawMempoolVerbose \/ Visit \/ LoopDone

Spec == Init /\ [][Next]_vars

-----------------------------------------------------------------------------
TypeOK ==
  /\ pc \in {"start", "loop", "done"}
  /\ mempoolTxns \subseteq Mempool /\ addressOutpoints \subseteq Involves
  /\ numUnconfirmed \in 0..Cardinality(Mempool) /\ err \in BOOLEAN
  /\ ret \in {NoReturn} \cup [nil : BOOLEAN, outs : SUBSET Involves,
                              num : 0..Cardinality(Mempool), err : BOOLEAN]

(* When UnconfirmedTxnsForAddress returns a nil error, it has merged every *)
(* mempool transaction involving the address and counted each once: a     *)
(* GetRawTransaction that failed for one of them, in whatever map order,  *)
(* must surface as the returned error, the only sign the Insight          *)
(* handlers get that the outpoints are partial.                            *)
CompleteWithoutError ==
  pc = "done" /\ ~ret.err =>
    /\ ~ret.nil /\ ret.outs = Involves
    /\ ret.num = Cardinality(Involves)

=============================================================================
