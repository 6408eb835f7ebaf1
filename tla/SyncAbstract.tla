---------------------------- MODULE SyncAbstract ----------------------------
(***************************************************************************)
(* What the lite database promises a restart, whatever the sync engine    *)
(* does inside (spec section 4.4, "resumes after the last committed       *)
(* height"): it holds every block of the node's chain up to a committed   *)
(* height.  That height grows one block at a time, never beyond the       *)
(* node's tip, and falls back only when the operator deletes the stake    *)
(* database, which is then recreated holding genesis alone.  ResyncDB     *)
(* implements it with the committed height the lowest of its three       *)
(* stores.                                                                 *)
(***************************************************************************)
EXTENDS Integers

CONSTANTS
  MaxHeight   \* the highest block the node ever reaches

VARIABLES
  tip,        \* the node's best height
  committed   \* the height up to which every store holds the chain

absVars == <<tip, committed>>

AbsInit ==
  /\ tip \in 0..MaxHeight
  /\ committed = -1

(* The node mines a block. *)
Mine ==
  /\ tip < MaxHeight
  /\ tip' = tip + 1
  /\ UNCHANGED committed

(* The next block is committed to every store. *)
Commit ==
  /\ committed < tip
  /\ committed' = committed + 1
  /\ UNCHANGED tip

(* The stake database is deleted and recreated at genesis. *)
ResetStake ==
  /\ committed' = IF committed < 0 THEN committed ELSE 0
  /\ UNCHANGED tip

AbsNext == Mine \/ Commit \/ ResetStake

AbsSpec == AbsInit /\ [][AbsNext]_absVars

=============================================================================
