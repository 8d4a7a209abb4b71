SPECIFICATION Spec
CONSTANTS
  Blocks = 6
  Ppb = 8
  Ppc = 4
  MaxRetries = 2
  EpochMod = 4
  Depth = 2
  MaxFailures = 1
  MixedFaults = FALSE
  MaxLosses = 0
  GcRatio = 4
  Warm <- MCWarm
  Starts = {36}
  Calls <- MCCalls
  FailingCalls = {"copy"}
  MaxCalls = 3
PROPERTY CopyCopies

