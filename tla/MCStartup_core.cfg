SPECIFICATION FairSpec
CONSTANTS
  old = old
  new = new
  drifted = drifted
  e1 = e1
  e2 = e2
  Process = {p1, p2}
  Build = {old, new, drifted}
  Embedded <- MCEmbedded
  Modules <- MCModules
  Launch <- MCLaunch
  Email = {e1, e2}
  Null = Null
  MaxStarts = 3
  MaxFaults = 1
INVARIANTS
  TypeOK
  AppliedOnce
  ServesOnItsSchema
  ServesWhole
  FirstAdminsOnly
PROPERTY StartsEnd
CHECK_DEADLOCK FALSE
