\* Blocks are stored while RetrieveAddressSpentUnspent runs.
CONSTANTS
  NumBlocks <- MCNumBlocks
  Txs <- MCTxs
  Outs <- MCOuts
  Vins <- MCVins
  TxBlock <- MCTxBlock
  TxTree <- MCTxTree
  OutTx <- MCOutTx
  OutValue <- MCOutValue
  VinTx <- MCVinTx
  VinSpends <- MCVinSpends
  ZeroOutpoint <- MCZeroOutpoint
  MaxReads <- MCMaxReads
  Approvals <- MCApproveOnly
  FailOps <- MCNoFailures

SPECIFICATION Spec

INVARIANT ReadIsSnapshot

\* The writer stops after the last block; the reader after MaxReads calls.
CHECK_DEADLOCK FALSE
