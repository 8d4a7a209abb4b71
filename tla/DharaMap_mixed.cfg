SPECIFICATION Spec
CONSTANTS
  Blocks = 6
  Ppb = 8
  Ppc = 4
  MaxRetries = 2
  EpochMod = 4
  Depth = 2
  MaxFailures = 1
  MixedFaults = TRUE
  MaxLosses = 1
  GcRatio = 4
  Warm <- MCWarm
  Starts = {36}
  Calls <- MCCalls
  FailingCalls = {"write"}
  MaxCalls = 3
PROPERTY OthersStay

