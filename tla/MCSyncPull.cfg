SPECIFICATION FairPullSpec
CONSTANTS
  r1 = r1
  r2 = r2
  r3 = r3
  r4 = r4
  expenses = expenses
  leaves = leaves
  Row = {r1, r2, r3, r4}
  Dataset = {expenses}
  DatasetOf <- OneDataset
  Writer = {w1}
  PullLimit = 2
  Tick = 2
  MaxBulk = 1
  MaxClock = 5
  MaxLost = 1
INVARIANTS
  NothingBehindCursor
PROPERTY
  CatchesUp
CHECK_DEADLOCK FALSE
