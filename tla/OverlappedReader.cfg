CONSTANTS
  Depth = 3
  MaxSlots = 2
  SlotSize = 2
  Asked = {1, 3, 4}
  Scenarios <- MCScenarios

SPECIFICATION FairSpec

INVARIANT TypeOK
INVARIANT DeliveredInOrder
INVARIANT BuffersAreOwned
INVARIANT BudgetCoversReads

PROPERTY ReadersEnd
