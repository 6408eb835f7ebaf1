CONSTANTS
  MaxHeight <- MCMaxHeight
  MaxFaults <- MCMaxFaults
  MaxRuns <- MCMaxRuns
  Masters <- MCBothModes
  FailOps <- MCAllOps

SPECIFICATION Spec

PROPERTY CancelReturnsLastCommitted

\* After resyncDB has returned and the restart budget is spent the process
\* has stopped syncing, which is a legitimate end.
CHECK_DEADLOCK FALSE
