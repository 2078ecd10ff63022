SPECIFICATION DoorSpec
CONSTANTS
  Account = {a1}
  Ip = {i1, i2}
  Null = Null
  Attempt = {q1, q2}
  Second = 2
  MaxAttempts = 1
  BaseDelay = 3
  MaxDelay = 4
  MaxTries = 3
  MaxTime = 4
  MaxFaults = 1
  MaxRequests = 1
  Window = 3
  MaxArrivals = 3
  MaxLag = 1
SYMMETRY Symmetry
INVARIANTS
  DoorTypeOK
  AnswersAreAudited
CHECK_DEADLOCK FALSE
