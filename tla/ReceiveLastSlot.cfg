CONSTANTS
  Sizes <- MCSizes
  Directories <- MCDirectories
  Padding = 1
  Capacity = 1
  BatchSize = 2
  MaxOps = 2
  Transports = 2
  Scenarios <- MCWaitsInClose

SPECIFICATION Spec

INVARIANT CompletedIsWhole
