CONSTANTS
  Account = {1}
  Pollable = {1}
  Client = {q1, q2}
  Chunks = 1
  MaxRuns = 3
  MaxCrashes = 1
  MaxFaults = 0
  Revocable = FALSE
SPECIFICATION Spec
INVARIANTS ActiveBackfillsBounded
SYMMETRY ClientSymmetry
