SPECIFICATION Spec
CONSTANTS
  Events <- RefundEvents
  Entities <- RefundEntities
  Reads <- RefundReads
  Workers = {w1, w2}
  MaxAttempts = 2
  SweepLimit = 2
  None = None
  MaxVersion = 2
  MaxSweeps = 2
  MaxCrashes = 1
  MaxStalls = 1
  MaxTime = 0
CHECK_DEADLOCK FALSE
SYMMETRY WorkerSymmetry
INVARIANT TypeOK
INVARIANT OneTaskPerEvent
INVARIANT RetryBudgetKept
INVARIANT CompletionIsAtomic
PROPERTY WrittenForGood
