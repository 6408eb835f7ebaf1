\* A reorganisation to a competing block at the same height, no failures:
\* does the cache ever keep the orphaned block's charts?
CONSTANTS
  StartHeight <- MCStartHeight
  MaxHeight <- MCMaxHeight
  Branches <- MCBranches
  ReorgRises <- MCSameHeightReorg
  MaxReorgs <- MCMaxReorgs
  MaxRefreshes <- MCMaxRefreshes
  FailOps <- MCNoFailures

SPECIFICATION MCSpec

INVARIANT ChartsMatchTip

\* The node stops at MaxHeight; once every block is stored and every
\* goroutine has returned the explorer waits for the next block.
CHECK_DEADLOCK FALSE
