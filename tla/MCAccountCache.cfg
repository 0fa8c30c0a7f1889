SPECIFICATION FairSpec
CONSTANTS
  a = a
  b = b
  None = None
  Users = {a, b}
  Blocks <- FourBlocks
  PageSize = 2
  MaxBlocks = 4
CHECK_DEADLOCK FALSE
INVARIANTS PagesFound SummaryExact
PROPERTY ImplementsHistory
PROPERTY CatchesUp
