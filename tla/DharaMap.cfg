SPECIFICATION FairSpec
CONSTANTS
  Blocks = 6
  Ppb = 8
  Ppc = 4
  MaxRetries = 2
  EpochMod = 4
  Depth = 2
  MaxFailures = 2
  MixedFaults = FALSE
  MaxLosses = 2
  GcRatio = 4
  Warm <- MCWarm
  Starts = {0, 36}
  Calls <- MCCalls
  FailingCalls = {"write", "trim", "sync", "gc"}
  MaxCalls = 3
PROPERTY KeepsStore CallReturns
INVARIANT CountExact
