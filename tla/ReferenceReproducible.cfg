SPECIFICATION Spec
CONSTANTS
  u1 = u1
  u2 = u2
  live1 = live1
  live2 = live2
  script1 = script1
  db1 = db1
  db2 = db2
  None = None
  Update = {u1, u2}
  Multiplier = {1, 2}
  Delay <- Delays
  Live = {live1, live2}
  Scripted = {}
  Database = {db1, db2}
  DatabaseOf <- TwoDatabases
  KNOWN_EVENTS <- NoEvents
  FeedOffset = 0
  MaxBlock = 3
  MaxRows <- OneRowEach
  MaxFailures = 0
INVARIANT HashIsReproducible
CHECK_DEADLOCK FALSE
