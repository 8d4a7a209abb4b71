SPECIFICATION Spec
CONSTANTS
  NULL = NULL
  a1 = a1
  a2 = a2
  Apps = {a1}
  Deiniters = {a1}
  Calls = {"init", "start", "stop", "deinit"}
  Requests = {"config"}
  Mode = "FULL"
  Securities = {"pop"}
  ConnAttempts = 0
  Failing = {}
  MaxFailures = 1
  MaxCalls = 4
  QueueSize = 2
  Overlaps = {}
INVARIANTS StopNotBlocked
CHECK_DEADLOCK FALSE
