SPECIFICATION FairSpec
CONSTANTS
  a1 = a1
  a2 = a2
  None = None
  Address = {a1, a2}
  LegacyToken = {a1}
  MaxBlock = 3
  MaxFailures = 2
  MaxTorn = 1
INVARIANTS
  TypeOK
  NothingBehindCheckpoint
  MonitoredIsApproved
PROPERTIES
  DeploymentsAreMonitored
  KnownTokensStay
CHECK_DEADLOCK FALSE
