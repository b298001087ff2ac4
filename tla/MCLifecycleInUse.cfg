CONSTANTS
  NWork = 2
  MaxForks = 3
SPECIFICATION Spec
PROPERTY QueuesInHandStay
CHECK_DEADLOCK FALSE
