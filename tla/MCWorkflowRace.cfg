SPECIFICATION Spec
CONSTANTS
  u1 = u1
  u2 = u2
  u3 = u3
  Instance = {w1}
  User = {u1, u2, u3}
  Call = {c1, c2}
  Chains <- MCChains
  MaxEdits = 0
  MaxFaults = 0
PROPERTY
  OneCommitPerStep
CHECK_DEADLOCK FALSE
