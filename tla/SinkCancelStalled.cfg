CONSTANTS
  Writes = 1
  Batches = 0
  DataCap = 1
  ControlCap = 1
  Scenarios <- MCPeerStalls

SPECIFICATION FairSpec

PROPERTY CancelCloses

CHECK_DEADLOCK FALSE
