SPECIFICATION Spec
CONSTANTS
  Token = {t1, t2}
  Admin = {a1, a2}
  Null = Null
  Request = {q1, q2}
  Second = 2
  IdleTimeout = 2
  AbsoluteTimeout = 4
  MaxTime = 2
  MaxFaults = 1
SYMMETRY Symmetry
INVARIANTS
  TypeOK
  Provenance
  EndedUnlessFailed
PROPERTIES
  LifeSpec
CHECK_DEADLOCK FALSE
