CONSTANTS
  Account = {1, 2, 3}
  Pollable = {1, 2}
  Client = {}
  Chunks = 1
  MaxRuns = 3
  MaxCrashes = 1
  MaxFaults = 1
  Revocable = TRUE
SPECIFICATION FairSpec
INVARIANTS TickHoldsItsRow DoneIffStored TickOnlyWhileRunning RejectionsBounded RotationLevel
PROPERTIES EveryRunSettles EveryCardPolled
CHECK_DEADLOCK FALSE
