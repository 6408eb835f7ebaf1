CONSTANTS
  NumBlocks <- MCNumBlocks
  MaxChainLength <- MCMaxChainLength
  TipStatuses <- MCTipStatuses
  FailOps <- MCImportCalls

SPECIFICATION Spec

INVARIANT TypeOK
INVARIANT ResultMatchesReference
INVARIANT ReturnsSideChain
INVARIANT SideChainsRecorded
INVARIANT IdsNameTheirRows
INVARIANT DedupeKeepsFirstOfEach
INVARIANT CompleteWithoutError

\* Both walks return, and ImportSideChains returns or panics; there is
\* then nothing left to do.
CHECK_DEADLOCK FALSE
