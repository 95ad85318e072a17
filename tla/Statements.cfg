CONSTANTS
  Account = {1}
  Pollable = {1}
  Client = {q1}
  Chunks = 2
  MaxRuns = 2
  MaxCrashes = 1
  MaxFaults = 1
  Revocable = FALSE
  Item = {i1}
  LastPost = 2
  Owner <- MCOwner
  Code <- MCCode
  Mapped <- MCMapped
  Lookback = 1
  ChunkLength = 1
  PageSize = 1
  Occurs <- MCOccurs
  LastNow = 3
SPECIFICATION SSpec
INVARIANTS STypeOK MissedOnlyInGaps BackfillCoversItsMonths StaleHoldOutOfReach
CHECK_DEADLOCK FALSE
