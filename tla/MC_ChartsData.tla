----------------------------- MODULE MC_ChartsData -----------------------------
(* The charts cache's bounds, shared by MC_ChartsCache and MC_Store.      *)

\* From genesis to block 5, the first height at which Store refreshes the
\* charts once the cache is filled.
MCStartHeight == 0
MCMaxHeight == 5

MCBranches == {"a", "b"}

\* The new tip of a reorganisation is one block higher, or at the same height.
MCRisingReorg == {1}
MCSameHeightReorg == {0}

MCMaxReorgs == 1

\* Enough goroutines for every block of the run to start one.
MCMaxRefreshes == 4

=============================================================================
