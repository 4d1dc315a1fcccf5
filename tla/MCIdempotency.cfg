SPECIFICATION FairPostSpec
CONSTANTS
  r1 = r1
  r2 = r2
  r3 = r3
  r4 = r4
  k1 = k1
  k2 = k2
  a = a
  b = b
  Request = {r1, r2, r3, r4}
  Key = {k1, k2}
  KeyOf <- MCKeyOf
  Instance = {a, b}
  At <- MCAt
  NoResponse = NoResponse
  MaxCrashes = 1
  MaxFaults = 2
INVARIANTS
  EffectOnce
  ReplayIsGenuine
PROPERTIES
  StoredForGood
  ReservationEnds
