\* A process stop (at most one) may come between any two per-block commits.
CONSTANTS
  t1 = t1  t2 = t2  t3 = t3  t4 = t4  t5 = t5
  t6 = t6  t7 = t7  t8 = t8  t9 = t9  t10 = t10
  NumBlocks <- MCNumBlocks
  Txs <- MCTxs
  Outs <- MCOuts
  Vins <- MCVins
  TxBlock <- MCTxBlock
  TxTree <- MCTxTree
  OutTx <- MCOutTx
  OutValue <- MCOutValue
  VinTx <- MCVinTx
  VinSpends <- MCVinSpends
  ZeroOutpoint <- MCZeroOutpoint
  MaxReads <- MCMaxReads
  Approvals <- MCBothVerdicts
  FailOps <- MCAllStatements
SPECIFICATION PgSpec
INVARIANT TicketStatusMatchesChain
\* The writers stop after the last block.
CHECK_DEADLOCK FALSE
