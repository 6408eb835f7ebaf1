CONSTANTS
  t1 = t1  t2 = t2  t3 = t3  t4 = t4  t5 = t5
  t6 = t6  t7 = t7  t8 = t8  t9 = t9  t10 = t10
  PgFailOps <- MCAllStatements
  o1 = o1  o2 = o2  o3 = o3  o4 = o4  o5 = o5  a = a  b = b
  Outpoints <- MCOutpoints
  Queries <- MCRepeatQueries
  UTXOs <- MCUTXOs
  MempoolOuts <- MCMempoolOuts
  MempoolSpends <- MCMempoolSpends
  FundingConfirmed <- MCFundingConfirmed
  SpenderConfirmed <- MCSpenderConfirmed
  Confirmations <- MCConfirmations
  PoolTime <- MCPoolTime
  FailOps <- MCAllCalls
  TLFailOps <- TLAllReads
  BSEmpty = BSEmpty
  BSBad = BSBad
SPECIFICATION StoreSpec
INVARIANT StoreTypeOK
INVARIANT AnswerSound
INVARIANT AnswerComplete
INVARIANT PageOfDistinctTxs
INVARIANT SummaryPageMatchesReference
INVARIANT SpendLinkHasSpender
INVARIANT RowsFollowBlockValidity
INVARIANT BalanceWhileAllApproved
INVARIANT MissAccounting
INVARIANT SpentStatusNeverWrong
INVARIANT ChartsMatchTip
INVARIANT FinalStatusSeen
INVARIANT OneBarPerId
INVARIANT AnswerMatchesStores
INVARIANT ConnectsNextBlock
INVARIANT NoSkippedBlocks
INVARIANT BlockInHandIsI
PROPERTY CacheNeverGoesBack
PROPERTY SyncEndPushed
PROPERTY ReturnsCommittedHeight
PROPERTY RunReturns
PROPERTY ImplementsSyncAbstract
\* Every request ends with a response, the writers stop after the last
\* block, the reader after MaxReads calls, the node at MaxHeight and the
\* refresh goroutines once they have returned: there is then nothing to do.
CHECK_DEADLOCK FALSE
