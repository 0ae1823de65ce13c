SPECIFICATION Spec
CONSTANTS
  Scale = 5
  ReleaseThreshold = 4
  EscalateThreshold = 3
  EvidenceRiskCap = 1
  Holds = {h1}
  Tasks = {t1, t2}
  AutoTask = auto
  EvidenceIds = {e1}
  ReviewIds = {q1}
  ModelPredictions <- MCUncertain
  VerifierAnswers = {"SUPPORTED"}
  ClientReviews <- MCFewReviews
  HumanOnly = FALSE
  None = None
  MaxCalls = 3
  MaxAborts = 0
SYMMETRY Symmetry
INVARIANT RescoredAtMostOnce
CHECK_DEADLOCK FALSE
