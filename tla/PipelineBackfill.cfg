SPECIFICATION Spec
CONSTANTS
  x1 = x1
  None = None
  Tx = {x1}
  FeedBlock <- NoneOnFeed
  BackfillTx = {x1}
  MAX_ITERATIONS = 4
  MaxRows = 1
  MaxBlock = 5
  MaxAhead = 2
  MaxFailures = 1
INVARIANTS
  ConfirmedOnEvidence
CHECK_DEADLOCK FALSE
