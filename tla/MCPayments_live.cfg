SPECIFICATION FairSpec
CONSTANTS
  Payment = {p1}
  Ref = {r1}
  Null = Null
  Amount <- UnitAmount
  IntentAmount <- ExactIntent
  Admin = {}
  Handler = {h1}
  Reader = {}
  Query <- NoPages
  MaxLimit = 2
  MaxFaults = 1
  MaxRejected = 1
PROPERTY EventsAreAcknowledged
CHECK_DEADLOCK FALSE
