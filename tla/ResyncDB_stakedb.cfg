\* Only StoreBlockSummary fails (crashes are always possible): does a
\* restart ever refuse to rewind the stake database?
CONSTANTS
  MaxHeight <- MCMaxHeight
  MaxFaults <- MCMaxFaults
  MaxRuns <- MCMaxRuns
  Masters <- MCMasterOnly
  FailOps <- MCStakeAheadOps

SPECIFICATION Spec

INVARIANT NeverDeleteStakeDB

CHECK_DEADLOCK FALSE
