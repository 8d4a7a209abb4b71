SPECIFICATION FairSpec
CONSTANT Null = Null
INVARIANTS
  TypeOK
  ScheduleNoUseAfterFree
  ScheduleFiresOnce
  ScheduleKeepsTimer
  RomFindsEachOnce
  LinkNeverOverruns
  LinkNeverUnderruns
  ImageInOrder
  ImageOkIsWhole
  IsoTpFramesKept
  IsoTpCallbackAlive
  TouchEventsInOrder
  TouchPowerLockReturned
PROPERTIES
  ScheduleCallReturns
  RomEnds
CHECK_DEADLOCK FALSE
