----------------------------- MODULE InsightUTXO -----------------------------
(***************************************************************************)
(* The Insight API's unspent outputs handler, getAddressesTxnOutput       *)
(* (src/unnamed/part_002, package insight).  For each address of the      *)
(* comma separated list it reads the address's confirmed unspent outputs  *)
(* (ChainDB.AddressUTXO) and its mempool outpoints                         *)
(* (UnconfirmedTxnsForAddress), appends the mempool outputs that are not  *)
(* already confirmed, then the confirmed ones, and removes from the       *)
(* slice every output a mempool transaction spends.  The removal runs     *)
(* `for g, utxo := range txnOutputs` while assigning                       *)
(* append(txnOutputs[:g], txnOutputs[g+1:]...): the range walks the       *)
(* backing array as it was sized when the loop began, while the removal  *)
(* shifts the array in place.  The model keeps that array (`back`) and    *)
(* the slice's length (`len`) apart for this reason.                       *)
(*                                                                         *)
(* An output is an outpoint, a model value; what is written to the client  *)
(* is the set and order of outpoints.                                      *)
(***************************************************************************)
EXTENDS Integers, FiniteSets, SequencesExt

CONSTANTS
  Outpoints,
  Queries,          \* the possible address lists of the request
  UTXOs,            \* UTXOs[a]: AddressUTXO(a), in row order
  MempoolOuts,      \* MempoolOuts[a]: addressOuts.Outpoints
  MempoolSpends,    \* MempoolSpends[a]: previous outpoints of addressOuts.PrevOuts
  FundingConfirmed, \* mempool outpoints whose funding transaction reports Confirmed()
  SpenderConfirmed, \* spent outpoints whose spending transaction reports Confirmed()
  Confirmations,    \* Confirmations[o] of a confirmed output
  PoolTime,         \* MemPoolTime of an unconfirmed output's transaction
  FailOps           \* the calls that may fail in this model

Calls == {"AddressUTXO", "AddressUTXOTimeout", "UnconfirmedTxnsForAddress"}

ASSUME FailOps \subseteq Calls

VARIABLES
  addrs,      \* strings.Split(address, ",")
  ai,         \* the index of the address in hand
  back,       \* txnOutputs' backing array, as far as the slice reaches
  len,        \* len(txnOutputs)
  si,         \* the index of the PrevOut in hand
  n,          \* the length the range over txnOutputs was evaluated at
  g,          \* the range index
  pc,
  result,     \* what writeJSON writes
  answered    \* the addresses both reads succeeded for

vars == <<addrs, ai, back, len, si, n, g, pc, result, answered>>

PCs == {"fetch", "spends", "remove", "sort", "done", "unavailable",
        "panicked"}

Slice == SubSeq(back, 1, len)

Addr == addrs[ai]

-----------------------------------------------------------------------------

(* The next address, or the final sort once every address is done. *)
NextAddress ==
  /\ ai' = ai + 1
  /\ pc' = IF ai = Len(addrs) THEN "sort" ELSE "fetch"

(* txnOutputs = append(txnOutputs, x...): back is cut to the slice first, *)
(* the elements beyond it being out of the range's reach.                 *)
AppendAll(xs) == Slice \o xs

(* AddressUTXO times out: "Database timeout." and return. *)
FetchTimeout ==
  /\ pc = "fetch"
  /\ "AddressUTXOTimeout" \in FailOps
  /\ pc' = "unavailable"
  /\ UNCHANGED <<addrs, ai, back, len, si, n, g, result, answered>>

(* AddressUTXO or UnconfirmedTxnsForAddress fails: log and go on with the *)
(* next address, dropping this one's outputs.                              *)
FetchFail ==
  /\ pc = "fetch"
  /\ FailOps \cap {"AddressUTXO", "UnconfirmedTxnsForAddress"} # {}
  /\ NextAddress
  /\ UNCHANGED <<addrs, back, len, si, n, g, result, answered>>

\* Mutant: the FUNDING_TX_DUPLICATE_CHECK against the confirmed outputs is missing.
AddedFromPool_noDupCheck(a) ==
  SelectSeq(MempoolOuts[a], LAMBDA o : o \notin FundingConfirmed)

(* The mempool outpoints that are appended: their transaction is not      *)
(* Confirmed() and no confirmed output has the same hash and index.        *)
AddedFromPool(a) ==
  SelectSeq(MempoolOuts[a],
            LAMBDA o : o \notin FundingConfirmed /\ o \notin Range(UTXOs[a]))

(* Both reads succeed: the unconfirmed outputs, then the confirmed ones,  *)
(* are appended.                                                           *)
Fetch ==
  /\ pc = "fetch"
  /\ back' = AppendAll(AddedFromPool(Addr) \o UTXOs[Addr])
  /\ len' = Len(back')
  /\ si' = 1
  /\ pc' = "spends"
  /\ answered' = answered \cup {Addr}
  /\ UNCHANGED <<addrs, ai, n, g, result>>

(* The next PrevOut: skipped if its spending transaction is Confirmed(),  *)
(* otherwise the range over txnOutputs starts; after the last PrevOut the *)
(* next address.                                                           *)
NextSpend ==
  /\ pc = "spends"
  /\ \/ /\ si > Len(MempoolSpends[Addr])
        /\ NextAddress
        /\ UNCHANGED <<si, n, g, back, len>>
     \/ /\ si <= Len(MempoolSpends[Addr])
        /\ MempoolSpends[Addr][si] \in SpenderConfirmed
        /\ si' = si + 1
        /\ UNCHANGED <<ai, pc, n, g, back, len>>
     \/ /\ si <= Len(MempoolSpends[Addr])
        /\ MempoolSpends[Addr][si] \notin SpenderConfirmed
        /\ back' = Slice
        /\ n' = len
        /\ g' = 1
        /\ pc' = "remove"
        /\ UNCHANGED <<ai, si, len>>
  /\ UNCHANGED <<addrs, result, answered>>

\* Mutant: the element after g is removed instead of the one at g.
RemovedAt_offByOne(gi) == [k \in DOMAIN back |->
                             IF k <= gi \/ k >= len THEN back[k] ELSE back[k + 1]]

\* Mutant: txnOutputs = txnOutputs[:g], the tail is not appended back.
RemovedAt_truncate(gi) == SubSeq(back, 1, gi - 1)

(* append(txnOutputs[:g], txnOutputs[g+1:]...) shifts the elements after *)
(* g one place down in the array the range reads; the last one stays.     *)
RemovedAt(gi) == [k \in DOMAIN back |->
                    IF k < gi \/ k >= len THEN back[k] ELSE back[k + 1]]

(* One iteration of the range: the array element at g is compared with    *)
(* the spent outpoint; on a match it is removed, which panics when g+1 is *)
(* beyond the slice's length.                                              *)
RangeStep ==
  /\ pc = "remove"
  /\ \/ /\ g > n
        /\ si' = si + 1
        /\ pc' = "spends"
        /\ UNCHANGED <<back, len, g>>
     \/ /\ g <= n
        /\ back[g] # MempoolSpends[Addr][si]
        /\ g' = g + 1
        /\ UNCHANGED <<back, len, si, pc>>
     \/ /\ g <= n
        /\ back[g] = MempoolSpends[Addr][si]
        /\ IF g > len
             THEN /\ pc' = "panicked"
                  /\ UNCHANGED <<back, len, g, si>>
             ELSE /\ back' = RemovedAt(g)
                  /\ len' = len - 1
                  /\ g' = g + 1
                  /\ UNCHANGED <<si, pc>>
  /\ UNCHANGED <<addrs, ai, n, result, answered>>

(* The sort.Slice comparator: unconfirmed outputs by MemPoolTime, newest  *)
(* first; otherwise by Confirmations ascending (unconfirmed ones have 0). *)
Conf(o) == IF o \in DOMAIN Confirmations THEN Confirmations[o] ELSE 0

Less(o, p) ==
  IF Conf(o) = 0 /\ Conf(p) = 0 THEN PoolTime[o] > PoolTime[p]
  ELSE Conf(o) < Conf(p)

(* sort.Slice, which is not stable: any order the comparator allows. *)
SortResult ==
  /\ pc = "sort"
  /\ \E p \in {q \in [1..len -> 1..len] : IsInjective(q)} :
       /\ \A i, j \in 1..len : i < j => ~Less(Slice[p[j]], Slice[p[i]])
       /\ result' = [i \in 1..len |-> Slice[p[i]]]
  /\ pc' = "done"
  /\ UNCHANGED <<addrs, ai, back, len, si, n, g, answered>>

-----------------------------------------------------------------------------

Init ==
  /\ addrs \in Queries
  /\ ai = 1
  /\ back = <<>>
  /\ len = 0
  /\ si = 1
  /\ n = 0
  /\ g = 1
  /\ pc = "fetch"
  /\ result = <<>>
  /\ answered = {}

Next ==
  \/ FetchTimeout \/ FetchFail \/ Fetch
  \/ NextSpend \/ RangeStep \/ SortResult

Spec == Init /\ [][Next]_vars

-----------------------------------------------------------------------------

TypeOK ==
  /\ addrs \in Queries
  /\ ai \in 1..(Len(addrs) + 1)
  /\ back \in Seq(Outpoints)
  /\ len \in 0..Len(back)
  /\ si \in Nat /\ n \in Nat /\ g \in Nat
  /\ pc \in PCs
  /\ result \in Seq(Outpoints)
  /\ answered \subseteq Range(addrs)

(* The outputs of the listed addresses that are unspent once the mempool  *)
(* is taken into account: confirmed ones and mempool ones whose           *)
(* transaction is not confirmed, less those a pending mempool transaction *)
(* spends.                                                                 *)
ExpectedUTXOs(as) ==
  LET outs == UNION {Range(UTXOs[a]) \cup (Range(MempoolOuts[a]) \ FundingConfirmed)
                       : a \in as}
      spent == UNION {Range(MempoolSpends[a]) \ SpenderConfirmed : a \in as}
  IN  outs \ spent

(* How often o is listed in the answer, and how many entries of the      *)
(* address list own it: each listing of an address appends its outputs    *)
(* again, so "a,a" may list a's outputs twice.                             *)
Count(seq, o) == Cardinality({i \in DOMAIN seq : seq[i] = o})

Listings(o) ==
  Cardinality({i \in DOMAIN addrs :
                 o \in Range(UTXOs[addrs[i]]) \cup Range(MempoolOuts[addrs[i]])})

(* Whatever reads fail and however the list repeats addresses, the        *)
(* handler never panics in the in-place removal, and an answer lists only *)
(* unspent outputs of the listed addresses, each at most once per listing *)
(* of its address: an output the mempool reports and a block already      *)
(* holds is not listed twice for one listing.                              *)
AnswerSound ==
  /\ pc # "panicked"
  /\ pc = "done" =>
       /\ Range(result) \subseteq ExpectedUTXOs(Range(addrs))
       /\ \A o \in Range(result) : Count(result, o) <= Listings(o)

(* The answer lists every unspent output of each address both reads       *)
(* succeeded for: none is lost to the removal of spent outputs from the  *)
(* slice being ranged over.                                                *)
AnswerComplete ==
  pc = "done" => Range(result) = ExpectedUTXOs(answered)

=============================================================================
