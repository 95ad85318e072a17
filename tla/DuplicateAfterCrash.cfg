CONSTANTS
  Account = {1}
  Pollable = {1}
  Client = {}
  Chunks = 1
  MaxRuns = 4
  MaxCrashes = 1
  MaxFaults = 0
  Revocable = FALSE
SPECIFICATION Spec
INVARIANTS OneActiveLivePerCard
