\* Only StoreStakeInfoExtended fails (crashes are always possible): does a
\* restart ever find the two SQLite tables at different heights?
CONSTANTS
  MaxHeight <- MCMaxHeight
  MaxFaults <- MCMaxFaults
  MaxRuns <- MCMaxRuns
  Masters <- MCMasterOnly
  FailOps <- MCStakeInfoOps

SPECIFICATION Spec

INVARIANT NeverCorrupt

CHECK_DEADLOCK FALSE
