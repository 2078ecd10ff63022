SPECIFICATION Spec
CONSTANTS
  Account = {a1, a2}
  Provider = {g, h}
  Subject = {u}
  State = {s1, s2}
  Callback = {c1, c2}
  Null = Null
  Second = 2
  PendingTtl = 2
  MaxMails = 2
  MaxTime = 3
  MaxFaults = 1
SYMMETRY Symmetry
INVARIANTS
  TypeOK
  SessionsAreApproved
  SessionsMatchLinks
  LoginsAreAudited
PROPERTIES
  TicketSpec
  LinksStay
  FlowsExpireOnTime
CHECK_DEADLOCK FALSE
