---------------------------- MODULE SideChainFull ----------------------------
(***************************************************************************)
(* rpcutils.SideChainFull (src/v4/rpcutils/rpcclient.go): from a side     *)
(* chain tip, fetch headers back until a main chain block (Confirmations  *)
(* != -1), appending each side chain block, then reverse the slice in     *)
(* place with reverseStringSlice so that the tip is last.  The node's     *)
(* main chain is the chain of its best block `best`; the walk runs on     *)
(* every tree of NumBlocks blocks, every best block and every tip.        *)
(***************************************************************************)
EXTENDS BlockTree

VARIABLES
  parent,     \* the node's block tree
  best,       \* the node's best block: its chain is the main chain
  tipHash,    \* the argument
  hash,       \* the block whose header is fetched next
  sideChain,  \* the slice being built, then reversed
  ri,         \* the index i of reverseStringSlice
  out         \* "walking", "reversing", or which value was returned

vars == <<parent, best, tipHash, hash, sideChain, ri, out>>

Outcomes == {"walking", "reversing", "ok", "notSideChain", "rpcError"}

(* Confirmations != -1: the block is on the node's main chain. *)
OnMainChain(b) == b \in AncestorsOrSelf(parent, best)

-----------------------------------------------------------------------------

(* GetBlockHeaderVerboseByString returned nil. *)
HeaderFail ==
  /\ out = "walking"
  /\ out' = "rpcError"
  /\ UNCHANGED <<parent, best, tipHash, hash, sideChain, ri>>

\* Mutant: the check that the passed block itself is main chain is missing.
AtTip_never == FALSE

AtTip == hash = tipHash

(* The passed block is main chain, not a side chain tip. *)
TipNotSideChain ==
  /\ out = "walking"
  /\ OnMainChain(hash)
  /\ AtTip
  /\ out' = "notSideChain"
  /\ UNCHANGED <<parent, best, tipHash, hash, sideChain, ri>>

(* The previous block is the main/side common ancestor: stop walking. *)
ForkPointReached ==
  /\ out = "walking"
  /\ OnMainChain(hash)
  /\ ~AtTip
  /\ out' = "reversing"
  /\ ri' = 0
  /\ UNCHANGED <<parent, best, tipHash, hash, sideChain>>

(* Another side chain block: append it and go on to its previous block. *)
SideChainStep ==
  /\ out = "walking"
  /\ ~OnMainChain(hash)
  /\ sideChain' = Append(sideChain, hash)
  /\ hash' = parent[hash]
  /\ UNCHANGED <<parent, best, tipHash, ri, out>>

\* Mutant: the loop runs for i <= N/2.
SwapsLeft_oneMore == ri <= Len(sideChain) \div 2

(* for i := 0; i <= (N/2)-1; i++ *)
SwapsLeft == ri <= (Len(sideChain) \div 2) - 1

(* s[i], s[j] = s[j], s[i] with j = N - 1 - i (Go indices from 0). *)
ReverseSwap ==
  /\ out = "reversing"
  /\ SwapsLeft
  /\ LET n == Len(sideChain)
     IN  sideChain' = [sideChain EXCEPT ![ri + 1] = sideChain[n - ri],
                                        ![n - ri] = sideChain[ri + 1]]
  /\ ri' = ri + 1
  /\ UNCHANGED <<parent, best, tipHash, hash, out>>

ReverseDone ==
  /\ out = "reversing"
  /\ ~SwapsLeft
  /\ out' = "ok"
  /\ UNCHANGED <<parent, best, tipHash, hash, sideChain, ri>>

-----------------------------------------------------------------------------

Init ==
  /\ parent \in Trees
  /\ best \in Blocks
  /\ tipHash \in Blocks
  /\ hash = tipHash
  /\ sideChain = <<>>
  /\ ri = 0
  /\ out = "walking"

Next ==
  \/ HeaderFail \/ TipNotSideChain \/ ForkPointReached \/ SideChainStep
  \/ ReverseSwap \/ ReverseDone

Spec == Init /\ [][Next]_vars

-----------------------------------------------------------------------------

TypeOK ==
  /\ parent \in Trees
  /\ {best, tipHash, hash} \subseteq Blocks
  /\ sideChain \in Seq(Blocks)
  /\ ri \in 0..(NumBlocks \div 2)
  /\ out \in Outcomes

(* What SideChainFull promises: given a side chain tip, the blocks above  *)
(* the main/side common ancestor up to the tip, lowest first and the tip  *)
(* last, none of them main chain; given a main chain block, the "not on a *)
(* side chain" error.                                                      *)
ReturnsSideChain ==
  LET mainChain == AncestorsOrSelf(parent, best)
      fork == LowestCommonAncestor(parent, best, tipHash)
  IN  /\ out = "ok" =>
           /\ tipHash \notin mainChain
           /\ sideChain = ChainAbove(parent, fork, tipHash)
      /\ out = "notSideChain" => tipHash \in mainChain

=============================================================================
