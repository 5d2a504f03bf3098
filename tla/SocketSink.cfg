CONSTANTS
  Writes = 3
  Batches = 1
  DataCap = 2
  ControlCap = 1
  Scenarios <- MCPeerReads

SPECIFICATION FairSpec

INVARIANT TypeOK
INVARIANT WireIsInOrder

PROPERTY EverythingStops
