\* The first run only, in master mode, without failures.
CONSTANTS
  MaxHeight = 3
  MaxFaults = 0
  MaxRuns = 0
  Masters = {TRUE}
  FailOps = {}
  RescanLogBlockChunk <- MCChunk

SPECIFICATION SPSpec

INVARIANT BarFullAtSyncEnd

CHECK_DEADLOCK FALSE
