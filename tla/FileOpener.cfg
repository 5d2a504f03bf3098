CONSTANTS
  Entries = 4
  Concurrency = 2
  InCapacity = 1
  OutCapacity = 1
  DownCapacity = 1
  WorkerCounts <- MCWorkerCounts

SPECIFICATION FairSpec

INVARIANT TypeOK
INVARIANT EmittedInOrder
INVARIANT PermitsConserved
INVARIANT WaitIsServed

PROPERTY OpenerEnds
