CONSTANTS
  Account = {1}
  Pollable = {1}
  Client = {}
  Chunks = 1
  MaxRuns = 3
  MaxCrashes = 0
  MaxFaults = 0
  Revocable = FALSE
  Item = {i1}
  LastPost = 2
  Owner <- MCOwner
  Code <- MCCode
  Mapped <- MCMapped
  Lookback = 1
  ChunkLength = 1
  PageSize = 1
  Occurs <- MCOccurs
  LastNow = 3
SPECIFICATION SSpec
INVARIANTS PollsLoseNothing
CHECK_DEADLOCK FALSE
