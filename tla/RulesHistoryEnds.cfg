CONSTANTS
  Client = {a}
  Saver = tick
  Free = free
  Tx = {t1, t2}
  Text <- MCText
  Shop = shop
  Card = card
  None = null
  Junk = junk
  Occurs <- MCOccurs
  Reported <- MCReported
  Predicate <- MCPredicate
  MaxPriority = 2
  MaxCategory = 2
  MaxEdits = 2
SPECIFICATION FairSpec
PROPERTIES EveryTransactionEnds CommitConverges ReorderRenumbersOnly
