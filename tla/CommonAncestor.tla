---------------------------- MODULE CommonAncestor ----------------------------
(***************************************************************************)
(* rpcutils.CommonAncestor (src/v4/rpcutils/rpcclient.go): the walk from  *)
(* two chain tips back to the block where their chains meet.  Each loop   *)
(* iteration fetches both blocks (GetBlock), steps back on the higher      *)
(* chain, or on both when the heights are equal, prepending the blocks    *)
(* left behind to chainA and chainB.  The walk runs on every tree of      *)
(* NumBlocks blocks and every pair of tips, and its result is compared    *)
(* with the reference definitions of BlockTree.                            *)
(***************************************************************************)
EXTENDS BlockTree

CONSTANT MaxChainLength   \* maxAncestorChainLength

ASSUME MaxChainLength \in Nat

VARIABLES
  parent,        \* the node's block tree (Header.PrevBlock of every block)
  tipA, tipB,    \* the arguments hashA and hashB
  hashA, hashB,  \* the blocks the walk is at
  chainA, chainB,
  length,
  ancestor,      \* the common ancestor returned
  out            \* "running", or which value the function returned

vars == <<parent, tipA, tipB, hashA, hashB, chainA, chainB, length,
          ancestor, out>>

Outcomes == {"running", "ok", "atGenesis", "maxLength", "rpcError"}

-----------------------------------------------------------------------------

LengthExceeded == length >= MaxChainLength

(* ErrAncestorMaxChainLength at the top of an iteration. *)
MaxLengthReached ==
  /\ out = "running"
  /\ LengthExceeded
  /\ out' = "maxLength"
  /\ UNCHANGED <<parent, tipA, tipB, hashA, hashB, chainA, chainB, length,
                 ancestor>>

(* GetBlock of hashA or hashB returns an error. *)
GetBlockFail ==
  /\ out = "running"
  /\ ~LengthExceeded
  /\ out' = "rpcError"
  /\ UNCHANGED <<parent, tipA, tipB, hashA, hashB, chainA, chainB, length,
                 ancestor>>

HeightA == BlockHeight(parent, hashA)
HeightB == BlockHeight(parent, hashB)

(* heightA > heightB: step back on chain A only. *)
StepA ==
  /\ out = "running"
  /\ ~LengthExceeded
  /\ HeightA > HeightB
  /\ chainA' = Cons(hashA, chainA)
  /\ length' = length + 1
  /\ hashA' = parent[hashA]
  /\ UNCHANGED <<parent, tipA, tipB, hashB, chainB, ancestor, out>>

(* heightB > heightA: step back on chain B only. *)
StepB ==
  /\ out = "running"
  /\ ~LengthExceeded
  /\ HeightB > HeightA
  /\ chainB' = Cons(hashB, chainB)
  /\ length' = length + 1
  /\ hashB' = parent[hashB]
  /\ UNCHANGED <<parent, tipA, tipB, hashA, chainA, ancestor, out>>

\* Mutant: the genesis check is missing.
GenesisReached_never == FALSE

(* blockA.Header.PrevBlock == zeroHash *)
GenesisReached == parent[hashA] = Zero

\* Mutant: the termination test is made before stepping back.
Joined_beforeStep == hashA = hashB

(* The two previous blocks are the same block. *)
Joined == parent[hashA] = parent[hashB]

(* Equal heights: both blocks join their chains, then either genesis was  *)
(* reached (ErrAncestorAtGenesis), or both walks step back and stop if    *)
(* they are now at the same block.                                         *)
StepBoth ==
  /\ out = "running"
  /\ ~LengthExceeded
  /\ HeightA = HeightB
  /\ chainA' = Cons(hashA, chainA)
  /\ chainB' = Cons(hashB, chainB)
  /\ length' = length + 1
  /\ \/ /\ GenesisReached
        /\ out' = "atGenesis"
        /\ UNCHANGED <<hashA, hashB, ancestor>>
     \/ /\ ~GenesisReached
        /\ hashA' = parent[hashA]
        /\ hashB' = parent[hashB]
        /\ IF Joined
             THEN /\ out' = "ok"
                  /\ ancestor' = parent[hashA]
             ELSE UNCHANGED <<out, ancestor>>
  /\ UNCHANGED <<parent, tipA, tipB>>

-----------------------------------------------------------------------------

Init ==
  /\ parent \in Trees
  /\ tipA \in Blocks
  /\ tipB \in Blocks
  /\ hashA = tipA
  /\ hashB = tipB
  /\ chainA = <<>>
  /\ chainB = <<>>
  /\ length = 0
  /\ ancestor = Zero
  /\ out = "running"

Next == MaxLengthReached \/ GetBlockFail \/ StepA \/ StepB \/ StepBoth

Spec == Init /\ [][Next]_vars

-----------------------------------------------------------------------------

TypeOK ==
  /\ parent \in Trees
  /\ {tipA, tipB, hashA, hashB} \subseteq Blocks
  /\ chainA \in Seq(Blocks)
  /\ chainB \in Seq(Blocks)
  /\ length \in 0..(MaxChainLength + 1)
  /\ ancestor \in Blocks \cup {Zero}
  /\ out \in Outcomes

(* What CommonAncestor promises in its doc comment: the ancestor is the   *)
(* block where the two chains meet but never one of the tips (if one tip  *)
(* is on the other's chain, its previous block is the ancestor and it is  *)
(* in both chains); ErrAncestorAtGenesis when that would be below genesis.*)
ExpectedAncestor ==
  LET meet == LowestCommonAncestor(parent, tipA, tipB)
  IN  IF meet \in {tipA, tipB} THEN parent[meet] ELSE meet

ExpectedChainA == ChainAbove(parent, ExpectedAncestor, tipA)
ExpectedChainB == ChainAbove(parent, ExpectedAncestor, tipB)

LongestExpectedChain ==
  IF Len(ExpectedChainA) >= Len(ExpectedChainB)
    THEN Len(ExpectedChainA) ELSE Len(ExpectedChainB)

(* Whatever CommonAncestor returns agrees with the reference: with no     *)
(* error, the ancestor and both chains, lowest block first and tip last;  *)
(* ErrAncestorAtGenesis exactly when the chains meet at genesis at a tip, *)
(* with the chains from genesis; ErrAncestorMaxChainLength exactly when   *)
(* the longer of the two chains is longer than maxAncestorChainLength.    *)
ResultMatchesReference ==
  /\ out \in {"ok", "atGenesis"} =>
       /\ LongestExpectedChain <= MaxChainLength
       /\ chainA = ExpectedChainA
       /\ chainB = ExpectedChainB
  /\ out = "ok" => ExpectedAncestor # Zero /\ ancestor = ExpectedAncestor
  /\ out = "atGenesis" => ExpectedAncestor = Zero
  /\ out = "maxLength" => LongestExpectedChain > MaxChainLength

=============================================================================
