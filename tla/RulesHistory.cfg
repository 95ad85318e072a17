CONSTANTS
  Client = {a, b}
  Saver = tick
  Free = free
  Tx = {t1, t2}
  Text <- MCText
  Shop = shop
  Card = card
  None = null
  Junk = junk
  Occurs <- MCOccurs
  Reported <- MCReported
  Predicate <- MCPredicate
  MaxPriority = 1
  MaxCategory = 2
  MaxEdits = 2
SPECIFICATION Spec
INVARIANTS TypeOK NoDanglingCategory
PROPERTIES CommitFollowsPreview OnlyCommitsCategorize FrozenRulesWriteTheShownDiff
SYMMETRY MCSymmetry
