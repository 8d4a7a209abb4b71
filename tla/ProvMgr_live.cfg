SPECIFICATION FairSpec
CONSTANTS
  NULL = NULL
  a1 = a1
  a2 = a2
  Apps = {a1, a2}
  Deiniters = {a1}
  Calls = {"init", "start", "stop", "deinit", "enable"}
  Requests = {"config", "status"}
  Mode = "SESSION_ONLY"
  Securities = {"pop"}
  ConnAttempts = 0
  Failing = {"service", "timer"}
  MaxFailures = 1
  MaxCalls = 5
  QueueSize = 2
  Overlaps = {}
INVARIANTS NothingLeft
PROPERTIES KeepsLifecycle OnlyDeinitStops StopCompletes AutoStops DeinitReturns
CHECK_DEADLOCK FALSE
