\* Block 3 may disapprove block 2, whose T spent o2.
CONSTANTS
  NumBlocks <- MCNumBlocks
  Txs <- MCTxs
  Outs <- MCOuts
  Vins <- MCVins
  TxBlock <- MCTxBlock
  TxTree <- MCTxTree
  OutTx <- MCOutTx
  OutValue <- MCOutValue
  VinTx <- MCVinTx
  VinSpends <- MCVinSpends
  ZeroOutpoint <- MCZeroOutpoint
  MaxReads <- MCMaxReads
  Approvals <- MCBothVerdicts
  FailOps <- MCNoFailures

SPECIFICATION Spec

INVARIANT BalanceAccountsForEveryOutput

\* The writer stops after the last block; the reader after MaxReads calls.
CHECK_DEADLOCK FALSE
