SPECIFICATION Spec
CONSTANTS
  Account = {a1,a2}
  Ip = {i1,i2}
  Null = Null
  Attempt = {q1,q2}
  Second = 2
  MaxAttempts = 2
  BaseDelay = 2
  MaxDelay = 3
  MaxTries = 4
  MaxTime = 3
  MaxFaults = 1
SYMMETRY Symmetry
INVARIANTS
  TypeOK
  LocksAreSound
PROPERTIES
  LockHoldsUnlessStale
  EarnedUnlessStale
CHECK_DEADLOCK FALSE
