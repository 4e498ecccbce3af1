SPECIFICATION PoolSpec
CONSTANTS
  e1 = e1
  e2 = e2
  t1 = t1
  t2 = t2
  alice = alice
  n1 = n1
  n2 = n2
  n3 = n3
  here = here
  elsewhere = elsewhere
  c1 = c1
  r1 = r1
  r2 = r2
  ZeroAddress = ZeroAddress
  ZeroWord = ZeroWord
  NotERC8056 = NotERC8056
  EventHash = {e1, e2}
  Token = {t1, t2}
  Account = {alice}
  Node = {n1, n2, n3}
  Deployment = {here, elsewhere}
  This = here
  Deployer = alice
  Payable = {}
  FilterFlag = {FALSE, TRUE}
  Multiplier = {1, 2}
  Content = {c1}
  Reason = {r1, r2}
  PreSigned <- OneShort
  WillSign <- DisagreeingNodes
  BondSetting = {1}
  OwnerSetting = {}
  WindowSetting = {0}
  MAX_CHALLENGE_WINDOW = 0
  MAX_UINT = 9
  MaxValue = 1
  LastRecordTime = 2
  MaxTime = 2
  MaxAmount = 1
INVARIANTS
  LatestIsNewest
  EffectsAreSigned
  PauseHasEvidence
PROPERTIES
  ImplementsRecordLog
CHECK_DEADLOCK FALSE
