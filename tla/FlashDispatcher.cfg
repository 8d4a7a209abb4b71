SPECIFICATION FairSpec
CONSTANTS
  c1 = c1
  c2 = c2
  d1 = d1
  None = None
  NoData = NoData
  InvalidState = "invalid_state"
  Callers = {c1, c2, d1}
  DramCallers = {d1}
  Requests <- MCRequests
  FlashStates <- MCFlashStates
  Errors = {"ok", "fail", "invalid_state"}
  Data = {NoData, "erased", "A"}
  Driver <- MCDriver
INVARIANTS
  TypeOK
  InitAllOrNothing
  UsesOnlyWhatExists
PROPERTIES
  SlotStable
  Refines
  CallReturns
CHECK_DEADLOCK FALSE
