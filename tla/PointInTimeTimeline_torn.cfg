SPECIFICATION TimelineSpec
CONSTANTS
  Events <- MCEvents
  Entities <- MCEntities
  Reads <- MCReads
  Tables <- MCTables
  Workers = {w1}
  MaxAttempts = 1
  SweepLimit = 2
  MaxStalls = 0
  None = None
  MaxVersion = 1
  MaxSweeps = 0
  MaxCrashes = 0
  MaxTime = 3
  Lookback = 1
CHECK_DEADLOCK FALSE
INVARIANT PassedShowsItsCutoff
