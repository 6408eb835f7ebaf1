---------------------------- MODULE MC_InsightUTXO ----------------------------
(***************************************************************************)
(* Two addresses: a owns o1, o2, o3 and b owns o4, o5.  o1 and o2 are     *)
(* confirmed unspent outputs of a, and o2 is also reported by the mempool *)
(* (the duplicate the handler's TODO is about); o3 is a mempool output of *)
(* a.  Mempool transactions spend o1 and o3, and o4 and o5 of b, where    *)
(* o5's funding transaction and o4's spender report Confirmed().          *)
(***************************************************************************)
EXTENDS InsightUTXO

CONSTANTS o1, o2, o3, o4, o5, a, b

MCOutpoints == {o1, o2, o3, o4, o5}

MCUTXOs == (a :> <<o1, o2>>) @@ (b :> <<o4>>)
MCMempoolOuts == (a :> <<o2, o3>>) @@ (b :> <<o5>>)
MCMempoolSpends == (a :> <<o3, o1>>) @@ (b :> <<o4, o5>>)
MCFundingConfirmed == {o5}
MCSpenderConfirmed == {o4}
MCConfirmations == (o1 :> 2) @@ (o2 :> 1) @@ (o4 :> 1)
MCPoolTime == [o \in MCOutpoints |-> IF o = o3 THEN 7 ELSE 5]

(* Every list of distinct addresses. *)
MCDistinctQueries == {<<a>>, <<b>>, <<a, b>>, <<b, a>>}

(* The same, and lists that repeat an address ("a,a"). *)
MCRepeatQueries == MCDistinctQueries \cup {<<a, a>>, <<b, a, b>>}

MCAllCalls == Calls
MCNoFailures == {}
=============================================================================
