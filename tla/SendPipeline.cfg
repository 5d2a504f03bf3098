CONSTANTS
  Relays = 1
  Files = 4
  Capacity = 1
  Scenarios <- MCTransfers

SPECIFICATION FairSpec

INVARIANT TypeOK
INVARIANT NoSilentTruncation
INVARIANT RootCauseIsKept

PROPERTY TransferEnds
