SPECIFICATION OrderlySpec
CONSTANTS
  Payment = {p1}
  Ref = {r1}
  Null = Null
  Amount <- UnitAmount
  IntentAmount <- DoubleIntent
  Admin = {a1}
  Handler = {h1, h2}
  Reader = {}
  Query <- NoPages
  MaxLimit = 2
  MaxFaults = 0
  MaxRejected = 0
PROPERTY SettlesInSync
CHECK_DEADLOCK FALSE
