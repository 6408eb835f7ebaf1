------------------------------ MODULE BlockTree ------------------------------
(***************************************************************************)
(* The block tree the node's RPCs expose to rpcutils: every block but      *)
(* genesis has a previous block (Header.PrevBlock), genesis has the zero   *)
(* hash as its previous block, and a block's height is one more than its   *)
(* previous block's.  Blocks are the numbers 0..NumBlocks-1 with genesis   *)
(* 0; a tree gives every other block a lower-numbered parent, so every    *)
(* shape of tree on NumBlocks blocks is one of the Trees.                  *)
(*                                                                         *)
(* The operators below the line are reference definitions, written from   *)
(* what a tree is rather than from the code, against which the walks of    *)
(* rpcutils are checked.                                                   *)
(***************************************************************************)
EXTENDS Integers, SequencesExt

CONSTANT NumBlocks

ASSUME NumBlocks \in Nat \ {0}

Blocks == 0..(NumBlocks - 1)

\* The zero hash: the previous block of genesis.
Zero == -1

Trees == {p \in [Blocks -> Blocks \cup {Zero}] :
            /\ p[0] = Zero
            /\ \A b \in Blocks \ {0} : p[b] \in 0..(b - 1)}

(* Header.Height of block b in tree p; the zero hash is below genesis. *)
RECURSIVE BlockHeight(_, _)
BlockHeight(p, b) == IF b = Zero THEN -1 ELSE BlockHeight(p, p[b]) + 1

-----------------------------------------------------------------------------

(* b and every block below it down to genesis. *)
RECURSIVE AncestorsOrSelf(_, _)
AncestorsOrSelf(p, b) ==
  IF b = Zero THEN {} ELSE {b} \cup AncestorsOrSelf(p, p[b])

(* The highest block on both chains. *)
LowestCommonAncestor(p, a, b) ==
  LET common == AncestorsOrSelf(p, a) \cap AncestorsOrSelf(p, b)
  IN  CHOOSE c \in common :
        \A d \in common : BlockHeight(p, d) <= BlockHeight(p, c)

(* The blocks above anc up to and including b, lowest first; anc must be  *)
(* below b or the zero hash.                                               *)
RECURSIVE ChainAbove(_, _, _)
ChainAbove(p, anc, b) ==
  IF b = anc THEN <<>> ELSE Append(ChainAbove(p, anc, p[b]), b)

=============================================================================
