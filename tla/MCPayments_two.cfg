SPECIFICATION Spec
CONSTANTS
  Payment = {p1, p2}
  Ref = {r1, r2}
  Null = Null
  Amount <- UnitAmount
  IntentAmount <- ExactIntent
  Admin = {}
  Handler = {h1}
  Reader = {v1}
  Query <- Pages
  MaxLimit = 2
  MaxFaults = 0
  MaxRejected = 0
SYMMETRY IdSymmetry
INVARIANT ReceiptsPrecedeEffects
PROPERTIES DetailExplainsStatus TotalsUndercount
CHECK_DEADLOCK FALSE
