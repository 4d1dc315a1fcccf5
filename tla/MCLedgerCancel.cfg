SPECIFICATION LedgerSpec
CONSTANTS
  x = x
  y = y
  JournalEntry = {1, 2, 3}
  Account = {x, y}
  Period = {p}
  Caller = {1, 2, 3, 4}
  Nets <- MCNets
  None = None
  MaxActive = 1
INVARIANT
  ReversalCancels
CHECK_DEADLOCK FALSE
