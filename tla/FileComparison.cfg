CONSTANTS
  Entries = 4
  InfoLimit = 2
  EntryLimit = 3
  Capacity = 1
  Scenarios <- MCTransfers

SPECIFICATION FairSpec

INVARIANT TypeOK
INVARIANT OnlyDifferencesAreSent

PROPERTY ComparisonEnds
