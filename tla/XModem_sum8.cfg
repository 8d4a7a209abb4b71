SPECIFICATION Spec
CONSTANTS
  MaxBlocks = 2
  SinkBlocks = 2
  BlkMod = 4
  CheckType = "SUM8"
  MaxRetry = 1
  CanCount = 2
  MaxFaults = 1
  Prompt = TRUE
  LineNoise = FALSE
INVARIANTS
  BothOkIsWhole
