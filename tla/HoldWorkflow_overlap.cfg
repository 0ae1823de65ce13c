SPECIFICATION Spec
CONSTANTS
  Scale = 5
  ReleaseThreshold = 4
  EscalateThreshold = 3
  EvidenceRiskCap = 1
  Holds = {h1}
  Tasks = {t1, t2}
  AutoTask = auto
  EvidenceIds = {e1}
  ReviewIds = {q1}
  ModelPredictions <- MCPredictions
  VerifierAnswers = {"SUPPORTED", "INSUFFICIENT"}
  ClientReviews <- MCReviews
  HumanOnly = FALSE
  None = None
  MaxCalls = 3
  MaxAborts = 0
SYMMETRY Symmetry
INVARIANT TypeOK
INVARIANT OneEvidenceRound
INVARIANT ReleaseRecommendationIsSound
INVARIANT OneFreshRescore
INVARIANT AuditExplainsState
PROPERTY ClosedHoldsOnlyReopenedLate
PROPERTY HistoryIsAppendOnly
PROPERTY HumanAuthoritySpec
CHECK_DEADLOCK FALSE
INVARIANT RowsBelongTogether
