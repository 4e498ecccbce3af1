SPECIFICATION Spec
CONSTANTS
  u1 = u1
  u2 = u2
  live1 = live1
  live2 = live2
  script1 = script1
  db1 = db1
  db2 = db2
  None = None
  Update = {u1, u2}
  Multiplier = {1, 2}
  Delay <- Delays
  Live = {live1}
  Scripted = {script1}
  Database = {db1}
  DatabaseOf <- OneDatabase
  KNOWN_EVENTS <- BothEvents
  FeedOffset = 0
  MaxBlock = 4
  MaxRows <- OneRowEach
  MaxFailures = 1
INVARIANTS
  TypeOK
  QuietFactsSealAlike
  MatchIsEarned
  NobodySealsTwice
  ReportIsTrue
CHECK_DEADLOCK FALSE
