SPECIFICATION FairSpec
CONSTANTS
  NULL = NULL
  a1 = a1
  a2 = a2
  Apps = {a1}
  Deiniters = {}
  Calls = {"init", "disable", "enable", "start", "stop"}
  Requests = {"reprov"}
  Mode = "SESSION_ONLY"
  Securities = {"pop"}
  ConnAttempts = 0
  Failing = {}
  MaxFailures = 1
  MaxCalls = 5
  QueueSize = 2
  Overlaps = {"stopping"}
PROPERTIES StopCompletes
CHECK_DEADLOCK FALSE
