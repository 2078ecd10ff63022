SPECIFICATION Spec
CONSTANTS
  Token = {t1}
  Admin = {a1}
  Null = Null
  Request = {q1, q2}
  Second = 2
  IdleTimeout = 4
  AbsoluteTimeout = 6
  MaxTime = 7
  MaxFaults = 1
SYMMETRY Symmetry
INVARIANTS
  DeadlinesHold
PROPERTIES
  AcceptedInTime
  ExpiredOnlyWhenDue
CHECK_DEADLOCK FALSE
