SPECIFICATION FairSpec
CONSTANTS
  Events <- SalesEvents
  Entities <- SalesEntities
  Reads <- SalesReads
  Workers = {w1, w2}
  MaxAttempts = 2
  SweepLimit = 1
  MaxStalls = 0
  None = None
  MaxVersion = 1
  MaxSweeps = 1
  MaxCrashes = 0
  MaxTime = 1
CHECK_DEADLOCK FALSE
PROPERTY EventsFinish
