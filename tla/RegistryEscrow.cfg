SPECIFICATION FairSpec
CONSTANTS
  e1 = e1
  e2 = e2
  t1 = t1
  alice = alice
  bob = bob
  n1 = n1
  n2 = n2
  n3 = n3
  here = here
  c1 = c1
  ZeroAddress = ZeroAddress
  ZeroWord = ZeroWord
  NotERC8056 = NotERC8056
  EventHash = {e1, e2}
  Token = {t1}
  Account = {alice, bob}
  Node = {n1, n2, n3}
  Deployment = {here}
  This = here
  Deployer = alice
  Payable = {alice}
  FilterFlag = {FALSE}
  Multiplier = {1}
  Content = {c1}
  Reason = {}
  PreSigned <- AllSigned
  WillSign <- Nothing
  BondSetting = {0}
  OwnerSetting = {ZeroAddress}
  WindowSetting = {0, 1, 9}
  MAX_CHALLENGE_WINDOW = 1
  MAX_UINT = 9
  MaxValue = 2
  LastRecordTime = 1
  MaxTime = 3
INVARIANTS
  TypeOK
  EscrowIsExact
  OpenChallengeIsCovered
PROPERTIES
  BondsAreCredited
  CreditsArePaid
  ResolvedOnce
  ImplementsEscrow
CHECK_DEADLOCK FALSE
