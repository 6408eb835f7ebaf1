CONSTANTS
  o1 = o1  o2 = o2  o3 = o3  o4 = o4  o5 = o5  a = a  b = b
  Outpoints <- MCOutpoints
  Queries <- MCRepeatQueries
  UTXOs <- MCUTXOs
  MempoolOuts <- MCMempoolOuts
  MempoolSpends <- MCMempoolSpends
  FundingConfirmed <- MCFundingConfirmed
  SpenderConfirmed <- MCSpenderConfirmed
  Confirmations <- MCConfirmations
  PoolTime <- MCPoolTime
  FailOps <- MCAllCalls
SPECIFICATION Spec
INVARIANT TypeOK
INVARIANT AnswerSound
INVARIANT AnswerComplete
CHECK_DEADLOCK FALSE
