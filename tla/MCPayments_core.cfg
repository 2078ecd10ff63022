SPECIFICATION Spec
CONSTANTS
  Payment = {p1}
  Ref = {r1}
  Null = Null
  Amount <- UnitAmount
  IntentAmount <- DoubleIntent
  Admin = {a1, a2}
  Handler = {h1, h2}
  Reader = {}
  Query <- NoPages
  MaxLimit = 2
  MaxFaults = 1
  MaxRejected = 0
SYMMETRY Symmetry
INVARIANTS
  TypeOK
  TrailMatchesStatus
  NeverAheadOfProvider
  RefundsAreBacked
  MovedMoneyShows
  AcknowledgedUnlessFailed
PROPERTY LedgerSpec
CHECK_DEADLOCK FALSE
