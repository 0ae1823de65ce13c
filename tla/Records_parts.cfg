SPECIFICATION RecordsSpec
CONSTANTS
  Payments = {"pay1", "pay2"}
  OrderOf <- MCOrderOf
  RefundOf <- MCRefundOf
  Summaries <- MCSummaries
  BridgeCalls = {c1, c2}
  MaxMoves = 3
  MaxReceipts = 1
  Nothing = Nothing
  CurrentWindow = 1
  BaselineWindow = 2
  DayLength = 1
  MinBaseline = 1
  MinActiveDays = 1
  Missing = Missing
  LivePayments = {"lp1", "lp2"}
  LiveOrders = {"lo1", "lo2"}
  CreatedAt <- MCCreatedAt
  OrderIds <- MCOrderIds
  ForeignPayments = {}
  Devices = {d1}
  LastInstant = 4
  MaxFacts = 3
  MaxInFlight = 1
  HistoryFiles = {"f1"}
  HistoryAccounts = {"a1", "a2"}
  FileContents <- MCContents
  Scale = 5
  ReleaseThreshold = 4
  EscalateThreshold = 3
  EvidenceRiskCap = 1
  Analyses = {n1, n2}
  AnaPredictions <- MCAnaPredictions
  MaxAnalyses = 2
  MaxShadows = 1
  Nought = Nought
  LastEdition = 2
  MaxPrepares = 3
  MaxKills = 3
  NotSaved = NotSaved
  Torn = Torn
  AtRest = AtRest
  Studies = {"a1", "e1", "p1", "c1", "c2"}
  ScriptOf <- MCScriptOf
  CycleOutputs = {"o1"}
  Corpora = {1, 2, 3}
  PartitionOf <- MCPartitionOf
  MaxReplaced = 1
  NotRun = NotRun
  Merchants = {l1, l2, l3, l4, l5, h1, h2, h3, h4}
  TargetOf <- MCTargetOf
  Legitimate = {l1, l2, l3, l4, l5}
  TestSize = 2
  CalibrationSize = 4
  Configs <- MCConfigs
  MaxTrainings = 4
  NotThere = NotThere
  TornFile = TornFile
  NoRun = NoRun
  Top = 3
  AlphaIn = 3
  SampleSize = 4
  Trials = 12
  TargetNum = 3
  TargetDen = 4
  MinGuardRows = 1
  Blank = Blank
  Windows = {1, 2, 3, 4, 5, 6, 7}
  FamilyOf <- MCFamilyOf
  UnknownFamilies = {"u"}
  Instants = {0, 1, 2}
  Bins = 5
  Scored = 4
  Scores = {1, 2, 3}
  MaxRateDen = 2
  MostListed = 12
  Empty = Empty
  DayTicks = 2
  MaxHistoryDays = 4
  ShortestBaseline = 1
  LongestCurrent = 4
  Jitter = {0, 1}
  MaxEvents = 2
  Delays <- MCDelays
  Unrefunded = Unrefunded
  Raised = Raised
  Undrawn = Undrawn
  PagePayments = {"pg1"}
  PageHistories = {"im1"}
  Labels = {"la"}
  Unsteady = {"histories"}
  MaxClicks = 3
  NoCase = NoCase
  Waiting = Waiting
  Refused = Refused
  NoJson = NoJson
  Failed = Failed
  Hidden = Hidden
  Syncs = {s1, s2}
  SettledEntities = {n3, n4, n5}
  PageSize = 2
  MaxPages = 2
  MaxChanges = 2
  Units = 3
  PolicyRows = 3
  FalseDen = 2
  RecallDen = 5
  CostRows = 4
  QuantileSteps = 5
  FixedCandidates = {1, 2}
  MissCost = 3
  Unscored = Unscored
  FamilyOrder <- MCFamilyOrder
  TargetOfFamily <- MCTargetOfFamily
  MerchantsIn <- MCMerchantsIn
  MinPseudo = 1
  MinFit = 1
  TailFamilies = {"d1", "v1", "v2"}
  TailScores = {1, 2, 3, 4, 5, 6}
  MinTail = 4
  TailNum = 2
  TailDen = 5
  GuardCaseFamilies = {"d1", "v1", "r1"}
  MaxGuardCases = 3
  DivertDen = 2
  NotTried = NotTried
  Events <- MCEvents
  Entities <- MCEntities
  Reads <- MCReads
  Tables <- MCTables
  Workers = {w1}
  MaxAttempts = 1
  SweepLimit = 2
  MaxStalls = 0
  None = None
  MaxVersion = 1
  MaxSweeps = 1
  MaxCrashes = 1
  MaxTime = 2
  Lookback = 1
CHECK_DEADLOCK FALSE
INVARIANT CasesNameTheirPayments
 
INVARIANT AnalysesAreSound
INVARIANT JudgedOnUnseenData
 
INVARIANT FilesSurviveKills
INVARIANT RulesKeepTheirPromises
INVARIANT SyncMissesNothing
 
PROPERTY PageShowsOneCase
