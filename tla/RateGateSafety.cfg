CONSTANTS
  Caller = {c1, c2, c3}
  NoCaller = none
  Limit = 3
  MaxDelay = 1
  MaxNow = 14
  MaxCrashes = 2
SPECIFICATION WSpec
INVARIANTS TypeOK SleepersApart BacklogBounded WindowBudget
PROPERTIES SlotsSpaced ImplementsBudget
CHECK_DEADLOCK FALSE
SYMMETRY CallerSymmetry
