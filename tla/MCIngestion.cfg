SPECIFICATION Spec
CONSTANTS
  a = a
  b = b
  h = h
  t1 = t1
  t2 = t2
  u1 = u1
  u2 = u2
  File = {a, b}
  Remote = {b}
  Hash = {h}
  HashOf <- Same
  Thread = {t1, t2}
  User = {u1, u2}
  Budgets <- MCBudgets
INVARIANTS
  QueuedWillRun
  OneOfEach
PROPERTIES
  Settles
  OfflineNoticed
CHECK_DEADLOCK FALSE
