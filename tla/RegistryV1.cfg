SPECIFICATION FairSpec
CONSTANTS
  e1 = e1
  e2 = e2
  t1 = t1
  alice = alice
  bob = bob
  c1 = c1
  ZeroAddress = ZeroAddress
  ZeroWord = ZeroWord
  EventHash = {e1, e2}
  Token = {t1}
  Account = {alice, bob}
  Deployer = alice
  Payable = {alice}
  Content = {c1}
  RelayerSetting = {alice, bob}
  BondSetting = {0, 1}
  OwnerSetting = {ZeroAddress}
  WindowSetting = {0, 1, 9}
  MAX_CHALLENGE_WINDOW = 1
  MAX_UINT = 9
  MaxValue = 1
  LastRecordTime = 1
  MaxTime = 3
PROPERTIES
  ImplementsEscrow
  ImplementsRecordLog
  BondsAreCredited
CHECK_DEADLOCK FALSE
