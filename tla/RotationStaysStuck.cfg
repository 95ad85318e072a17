CONSTANTS
  Account = {1}
  Pollable = {1}
  Client = {}
  Chunks = 1
  MaxRuns = 1
  MaxCrashes = 1
  MaxFaults = 0
  Revocable = TRUE
SPECIFICATION FairSpec
PROPERTIES RotationResumesPolling
CHECK_DEADLOCK FALSE
