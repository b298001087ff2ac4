CONSTANTS
  NWork = 2
  MaxForks = 3
SPECIFICATION FairSpec
INVARIANTS
  TypeOK
  OneWorkerPerSlot
  LiveIsRecorded
PROPERTIES
  DeadIsReplaced
  StopEndsAll
CHECK_DEADLOCK FALSE
