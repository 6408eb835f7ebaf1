--------------------------- MODULE MC_ChartsCache ---------------------------
EXTENDS ChartsCache, MC_ChartsData

MCAllReads == ChartReads
MCNoFailures == {}

-----------------------------------------------------------------------------
(* The sync status page, sharing displaySyncStatusPage with Store.  One    *)
(* of the two parts moves in a behaviour (`which`), the other staying in   *)
(* its initial state, so that their state spaces add up instead of         *)
(* multiplying; Store's check of the flag is covered by the charts part,  *)
(* which starts with the flag set or cleared.                              *)

VARIABLES which, setPc, monitor, hubPc, hubSaw, bars, barHeld

(* Progress loads of two bars: a full update, a subtitle-only update      *)
(* (Subtitle set, Timestamp 0) of the same bar, and a bar with To = 0.     *)
MCBarLoads ==
  {[id |-> "addresses", from |-> 1, to |-> 3, msg |-> "m", sub |-> "",
    ts |-> 7],
   [id |-> "addresses", from |-> 0, to |-> 0, msg |-> "m", sub |-> "s",
    ts |-> 0],
   [id |-> "tickets", from |-> 2, to |-> 0, msg |-> "m", sub |-> "", ts |-> 8]}

SS == INSTANCE SyncStatus WITH BarLoads <- MCBarLoads

statusVars == <<setPc, monitor, hubPc, hubSaw, bars, barHeld>>

chartsVars == <<tip, pending, page, explorerSync, cache, holder, gstate,
                expHeight, pgData, reorgs>>

MCInit == which \in {"charts", "status"} /\ Init /\ SS!SSInit

MCNext ==
  \/ which = "charts" /\ Next /\ UNCHANGED <<which, statusVars>>
  \/ which = "status" /\ SS!SSNext /\ UNCHANGED <<which, chartsVars>>

MCSpec == MCInit /\ [][MCNext]_<<which, vars, statusVars>>

MCTypeOK == TypeOK /\ SS!SSTypeOK

FinalStatusSeen == SS!FinalStatusSeen

OneBarPerId == SS!OneBarPerId

=============================================================================
