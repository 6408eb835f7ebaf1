CONSTANTS
  NumBlocks <- MCNumBlocks
  MaxChainLength <- MCMaxChainLength
  TipStatuses <- MCTipStatuses
  FailOps <- MCImportCalls

SPECIFICATION Spec

INVARIANT ImportNeverPanics

\* Both walks return, and ImportSideChains returns or panics; there is
\* then nothing left to do.
CHECK_DEADLOCK FALSE
