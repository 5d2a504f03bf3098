CONSTANTS
  p1 = p1
  c1 = c1
  Producers <- MCProducers
  Consumers <- MCConsumers
  Wirings <- MCWirings
  Capacity = 2
  MaxItems = 4

SPECIFICATION FairSpec

INVARIANT TypeOK
INVARIANT EndedIsSettled
INVARIANT NoStrandedWaiter

PROPERTY ImplementsChannel
PROPERTY EveryoneFinishes
