CONSTANTS
  Relays = 1
  Files = 4
  Capacity = 1
  Scenarios <- MCOpenerFails

SPECIFICATION FairSpec
CHECK_DEADLOCK FALSE

PROPERTY NoQueueLeftOpen
