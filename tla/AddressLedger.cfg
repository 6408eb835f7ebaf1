CONSTANTS
  NumBlocks <- MCNumBlocks
  Txs <- MCTxs
  Outs <- MCOuts
  Vins <- MCVins
  TxBlock <- MCTxBlock
  TxTree <- MCTxTree
  OutTx <- MCOutTx
  OutValue <- MCOutValue
  VinTx <- MCVinTx
  VinSpends <- MCVinSpends
  ZeroOutpoint <- MCZeroOutpoint
  MaxReads <- MCMaxReads
  Approvals <- MCBothVerdicts
  FailOps <- MCAllStatements

SPECIFICATION Spec

INVARIANT TypeOK
INVARIANT SpendLinkHasSpender
INVARIANT RowsFollowBlockValidity
INVARIANT BalanceWhileAllApproved

\* The writer stops after the last block; the reader after MaxReads calls.
CHECK_DEADLOCK FALSE
