CONSTANTS
  Account = {1}
  Pollable = {1}
  Client = {q1}
  Chunks = 2
  MaxRuns = 4
  MaxCrashes = 1
  MaxFaults = 0
  Revocable = FALSE
SPECIFICATION Spec
INVARIANTS TypeOK StampsAgree ActiveLivesBounded
PROPERTIES TerminalIsFinal ImplementsQueue LastPollNeverGoesBack BackfillOnlyProgresses
