SPECIFICATION Spec
CONSTANTS
  NULL = NULL
  a1 = a1
  a2 = a2
  Apps = {a1, a2}
  Deiniters = {a1, a2}
  Calls = {"init", "start", "stop", "deinit", "disable", "wait"}
  Requests = {"config", "status", "reset", "reprov", "app_stop"}
  Mode = "FULL"
  Securities = {"pop", "nopop"}
  ConnAttempts = 2
  Failing = {"wifi", "init", "post", "queue"}
  MaxFailures = 1
  MaxCalls = 4
  QueueSize = 2
  Overlaps = {}
INVARIANTS TypeOK ContextAlive OneStopper RequestUsesHandlers
PROPERTIES KeepsLifecycle
CHECK_DEADLOCK FALSE
