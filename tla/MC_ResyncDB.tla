---------------------------- MODULE MC_ResyncDB ----------------------------
(* Instantiates ResyncDB for TLC.  Heights 0..3 let the loop run several  *)
(* iterations, let a failure strike at height 1 (where the stake DB       *)
(* rewind check meets dbHeight = 0) and at height 2 or 3 (where a rewind   *)
(* is taken), and leave room for the node to mine during a run.           *)
EXTENDS ResyncDB

MCMaxHeight == 3
MCMaxFaults == 2
MCMaxRuns == 2

(* Both modes; in the coordinated one every fetchToHeight 0..3 is tried,  *)
(* below, at and above the DB heights.                                     *)
MCBothModes == BOOLEAN
MCMasterOnly == {TRUE}

(* Every call of resyncDB that can fail. *)
MCAllOps == Ops

(* Failures that leave the stake DB one block ahead of SQLite, but not    *)
(* the two SQLite tables apart.                                            *)
MCStakeAheadOps == {"StoreBlockSummary"}

(* The failure that leaves the two SQLite tables apart. *)
MCStakeInfoOps == {"StoreStakeInfoExtended"}
=============================================================================
