SPECIFICATION PullSpec
CONSTANTS
  r1 = r1
  r2 = r2
  r3 = r3
  r4 = r4
  expenses = expenses
  leaves = leaves
  Row = {r1, r2, r3, r4}
  Dataset = {expenses, leaves}
  DatasetOf <- TwoDatasets
  Writer = {w1}
  PullLimit = 4
  Tick = 2
  MaxBulk = 1
  MaxClock = 5
  MaxLost = 1
INVARIANT
  NothingBehindCursor
CHECK_DEADLOCK FALSE
