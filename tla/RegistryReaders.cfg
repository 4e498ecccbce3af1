SPECIFICATION Spec
CONSTANTS
  e1 = e1
  e2 = e2
  t1 = t1
  None = None
  Event = {e1, e2}
  Token = {t1}
  Fact <- Facts
  FactOf <- EachItsOwn
  Deployment <- AsDeployed
  Limit = 1
  MaxRows = 2
  MaxRecords = 2
  MaxFlags = 1
  MaxMishaps = 2
INVARIANTS
  TypeOK
  BadgeIsBacked
  TickCatchesUp
  DetailNeverStale
  StatusIsTruthful
  PagesCoverAll
PROPERTY RecordedIsCached
