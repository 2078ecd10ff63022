SPECIFICATION DoorSpec
CONSTANTS
  Account = {}
  Ip = {i1}
  Null = Null
  Attempt = {q1, q2}
  Second = 2
  MaxAttempts = 1
  BaseDelay = 1
  MaxDelay = 1
  MaxTries = 6
  MaxTime = 5
  MaxFaults = 0
  MaxRequests = 2
  Window = 2
  MaxArrivals = 6
  MaxLag = 1
SYMMETRY Symmetry
INVARIANT AtMostTwoWindows
PROPERTY ThrottlesAreEarned
CHECK_DEADLOCK FALSE
