SPECIFICATION MCSpec
CONSTANTS
  MaxBlocks = 4
  SinkBlocks = 3
  BlkMod = 3
  CheckType = "CRC16"
  MaxRetry = 2
  CanCount = 2
  MaxFaults = 3
  Prompt = TRUE
  LineNoise = FALSE
INVARIANTS
  TypeOK
  SenderNotAhead
  DeliveredInOrderLate
PROPERTIES
  Transfers
  ReturnsLate
