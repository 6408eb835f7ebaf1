CONSTANTS
  o1 = o1  o2 = o2  o3 = o3  o4 = o4  o5 = o5  a = a  b = b
  Outpoints <- MCOutpoints
  Queries <- MCRepeatQueries
  UTXOs <- MCUTXOs
  MempoolOuts <- MCMempoolOuts
  MempoolSpends <- MCMempoolSpends
  FundingConfirmed <- MCFundingConfirmed
  SpenderConfirmed <- MCSpenderConfirmed
  Confirmations <- MCConfirmations
  PoolTime <- MCPoolTime
  FailOps <- MCAllCalls
  TLFailOps <- MCNoFailures
  BSEmpty = BSEmpty
  BSBad = BSBad
SPECIFICATION InsightSpec
INVARIANT UnconfirmedBalanceExact
\* No read fails, so the mempool outpoints of the address are always taken.
\* Every request ends with a response; there is then nothing left to do.
CHECK_DEADLOCK FALSE
