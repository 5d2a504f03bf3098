CONSTANTS
  Sizes <- MCSizes
  Directories <- MCDirectories
  Padding = 1
  Capacity = 1
  BatchSize = 2
  MaxOps = 2
  Transports = 2
  Scenarios <- MCReceives

SPECIFICATION FairSpec

INVARIANT TypeOK
INVARIANT CompletedIsWhole
INVARIANT RestoredIsWritten
INVARIANT SlotsAreSafe

PROPERTY ReceiveEnds
