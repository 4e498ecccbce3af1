SPECIFICATION FairSpec
CONSTANTS
  x1 = x1
  None = None
  Tx = {x1}
  FeedBlock <- OneOnFeed
  BackfillTx = {}
  MAX_ITERATIONS = 1
  MaxRows = 2
  MaxBlock = 7
  MaxAhead = 2
  MaxFailures = 3
INVARIANTS
  TypeOK
  FalsesAreSpaced
  HashSealsConfirmed
PROPERTIES
  EventsSettle
  StatusGoesForward
CHECK_DEADLOCK FALSE
