SPECIFICATION Spec
CONSTANTS
  a1 = a1
  a2 = a2
  None = None
  Address = {a1, a2}
  LegacyToken = {a1}
  MaxBlock = 3
  MaxFailures = 0
  MaxTorn = 0
INVARIANT RejectedIsNotMonitored
CHECK_DEADLOCK FALSE
