SPECIFICATION Spec
CONSTANTS
  NULL = NULL
  a1 = a1
  a2 = a2
  Apps = {a1, a2}
  Deiniters = {a1}
  Calls = {"init", "start", "stop", "deinit", "wait"}
  Requests = {}
  Mode = "FULL"
  Securities = {"pop"}
  ConnAttempts = 0
  Failing = {}
  MaxFailures = 1
  MaxCalls = 5
  QueueSize = 2
  Overlaps = {"deletion"}
INVARIANTS LockAlive
CHECK_DEADLOCK FALSE
