SPECIFICATION PlatformSpec
CONSTANTS
  Scale = 20
  ReleaseThreshold = 16
  EscalateThreshold = 11
  EvidenceRiskCap = 4
  None = None
  LedgerCases = {c1, c2}
  MaxRecords = 4
  MaxCheckpoints = 2
  Requests = {r1, r2}
  DevTasks = {t1}
  Loop = loop
  EvidenceIds = {e1}
  ReviewIds = {q1, q2}
  DevPredictions <- MCPredictions
  DevReviews <- MCReviews
  ScanLimit = 1
  MaxScored = 1
  MaxFaults = 1
  MaxRuns = 2
  MaxKept = 1
  SettingsUsed <- MCSettings
  Deployments <- MCDeployments
  ExtraRounds <- MCExtraRounds
  Recencies <- MCRecencies
  RepeatThreshold = 2
  MaxProbes = 3
  MaxSaves = 2
  Limit = 2
  Window = 3
  MaxTime = 7
  MaxSent = 4
CHECK_DEADLOCK FALSE
INVARIANT TypeOK
INVARIANT RecommendationsAreJustified
INVARIANT EnginesOnlyTighten
INVARIANT FailuresAreOnRecord
 
INVARIANT ProbesTellTheTruth
PROPERTY DevHoldsAreSafe
PROPERTY ScannedHoldsAreFinished
 
