---------------------------- MODULE ThresholdSearch ----------------------------
(***************************************************************************)
(* How thresholds are searched on scored rows and how the result is        *)
(* measured: the pair of the decision policy on two grids (modeling.py,    *)
(* v3_research.py), the threshold of the public benchmark by cost          *)
(* (public_benchmark.py) and the bins of the calibration error.  A state   *)
(* is one list of scored rows; probabilities are counted in units.         *)
(***************************************************************************)
EXTENDS Integers, FiniteSets, FiniteSetsExt

CONSTANTS
  Units,          \* a probability of 1, and the fine grid 1..Units
  PolicyRows,     \* rows the pair is searched on
  FalseDen,       \* the false-release limit is 1 / FalseDen
  RecallDen,      \* the recall wanted is 1 / RecallDen
  CostRows,       \* rows the benchmark's threshold is searched on
  QuantileSteps,  \* quantiles are taken at 1/QuantileSteps, ..., (QuantileSteps-1)/QuantileSteps
  FixedCandidates,\* thresholds always tried, in units
  MissCost,       \* false_negative_cost, with a false positive at 1
  Unscored

\* Sizes and costs are numbers, and there are more quantiles than gaps of scores.
ASSUME SearchAssumption ==
  /\ Units \in Nat /\ PolicyRows \in Nat /\ FalseDen \in Nat /\ RecallDen \in Nat
  /\ CostRows \in Nat \ {0} /\ MissCost \in Nat /\ FixedCandidates \subseteq Nat
  /\ QuantileSteps \in Nat /\ CostRows - 1 < QuantileSteps

VARIABLES policyRows,   \* Unscored, or rows with their labels
          costRows,     \* Unscored, or rows with fraud labels
          confidence    \* Unscored, or the confidence of a row, in tenths of a bin

searchVars == <<policyRows, costRows, confidence>>

SearchInit == policyRows = Unscored /\ costRows = Unscored /\ confidence = Unscored

-----------------------------------------------------------------------------
\* Labels and actions: 0 RELEASE, 1 EVIDENCE_NEEDED, 2 ESCALATE; the costs of
\* config/cost_matrix.v2.json.
CostOf(action, label) ==
  CASE action = 0 -> (CASE label = 0 -> 0 [] label = 1 -> 25 [] OTHER -> 100)
    [] action = 1 -> (IF label = 2 THEN 30 ELSE 5)
    [] OTHER      -> (CASE label = 0 -> 40 [] label = 1 -> 20 [] OTHER -> 5)

FineGrid == 1..Units
CoarseGrid == {t \in FineGrid : t % 2 = 1}

ActionAt(row, pair) ==
  IF row.release >= pair[1] THEN 0 ELSE IF row.escalate >= pair[2] THEN 2 ELSE 1

NonReleases == {i \in 1..PolicyRows : policyRows[i].label # 0}
Releasable == (1..PolicyRows) \ NonReleases
ReleasedAt(pair) == {i \in 1..PolicyRows : ActionAt(policyRows[i], pair) = 0}

TooManyFalse(pair) == Cardinality(ReleasedAt(pair) \cap NonReleases) * FalseDen > Cardinality(NonReleases)
TooFewTrue(pair) == Cardinality(ReleasedAt(pair) \cap Releasable) * RecallDen < Cardinality(Releasable)

Skipped(pair) == TooManyFalse(pair) \/ TooFewTrue(pair)
KeptPairs(grid) == {pair \in grid \X grid : ~Skipped(pair)}

\* The cost of all rows, by action and label.
Treated(pair, action, label) ==
  {i \in 1..PolicyRows : ActionAt(policyRows[i], pair) = action /\ policyRows[i].label = label}
TotalCost(pair) ==
  LET cost(action, label) == CostOf(action, label) * Cardinality(Treated(pair, action, label))
  IN  cost(0, 0) + cost(0, 1) + cost(0, 2) + cost(1, 0) + cost(1, 1) + cost(1, 2)
      + cost(2, 0) + cost(2, 1) + cost(2, 2)

\* The loops visit the escalation thresholds of one release threshold in turn.
Visited(p, q) == p[1] < q[1] \/ (p[1] = q[1] /\ p[2] < q[2])

\* optimize_thresholds: the coarse grid, by cost; of equals the first visited.
Cheaper(p, q) == TotalCost(p) < TotalCost(q)
CoarsePair ==
  CHOOSE p \in KeptPairs(CoarseGrid) :
    \A q \in KeptPairs(CoarseGrid) \ {p} : Cheaper(p, q) \/ (~Cheaper(q, p) /\ Visited(p, q))

\* select_thresholds: the fine grid, by cost, then recall, then false releases.
TrueReleases(pair) == Cardinality(ReleasedAt(pair) \cap Releasable)
ReleasedFalsely(pair) == Cardinality(ReleasedAt(pair) \cap NonReleases)
ScoredBetter(p, q) ==
  \/ Cheaper(p, q)
  \/ TotalCost(p) = TotalCost(q) /\ TrueReleases(p) > TrueReleases(q)
  \/ /\ TotalCost(p) = TotalCost(q) /\ TrueReleases(p) = TrueReleases(q)
     /\ ReleasedFalsely(p) < ReleasedFalsely(q)

Better(p, q) == ScoredBetter(p, q) \/ (~ScoredBetter(q, p) /\ Visited(p, q))
FinePair ==
  CHOOSE p \in KeptPairs(FineGrid) : \A q \in KeptPairs(FineGrid) \ {p} : Better(p, q)

ExaminePolicy ==
  /\ policyRows = Unscored /\ costRows = Unscored /\ confidence = Unscored
  /\ \E rs \in [1..PolicyRows ->
                  {r \in [release : 0..Units, escalate : 0..Units, label : 0..2] :
                     r.release + r.escalate <= Units}] :
       /\ \A i \in 1..(PolicyRows - 1) : rs[i].label <= rs[i + 1].label   \* their order is nothing
       /\ policyRows' = rs
  /\ UNCHANGED <<costRows, confidence>>

-----------------------------------------------------------------------------
\* choose_cost_threshold, on rows in the order of their score: quantiles between
\* neighbouring scores, in units of 1/QuantileSteps, and the fixed thresholds.
Quantile(j) ==
  LET low == ((CostRows - 1) * j) \div QuantileSteps + 1
      rest == ((CostRows - 1) * j) % QuantileSteps
  IN  costRows[low].score * QuantileSteps
      + (IF rest = 0 THEN 0 ELSE (costRows[low + 1].score - costRows[low].score) * rest)
CostCandidates ==
  {t * QuantileSteps : t \in FixedCandidates} \cup {Quantile(j) : j \in 1..(QuantileSteps - 1)}

Flagged(threshold) == {i \in 1..CostRows : costRows[i].score * QuantileSteps >= threshold}
Frauds == {i \in 1..CostRows : costRows[i].fraud}
FlagCost(threshold) ==
  MissCost * Cardinality(Frauds \ Flagged(threshold)) + Cardinality(Flagged(threshold) \ Frauds)

CostThreshold ==
  Min({t \in CostCandidates : \A u \in CostCandidates : FlagCost(t) <= FlagCost(u)})

ExamineCosts ==
  /\ policyRows = Unscored /\ costRows = Unscored /\ confidence = Unscored
  /\ \E rs \in [1..CostRows -> [score : 0..Units, fraud : BOOLEAN]] :
       /\ \A i, j \in 1..CostRows : i < j => rs[i].score <= rs[j].score
       /\ costRows' = rs
  /\ UNCHANGED <<policyRows, confidence>>

-----------------------------------------------------------------------------
\* The ten bins of the calibration errors: [left, right) with the last one
\* closed in the research code, (left, right] in the sealed evaluation.
BinEdges == 0..9

InResearchBin(b, c) == 10 * b <= c /\ (IF b = 9 THEN c <= 100 ELSE c < 10 * (b + 1))
InSealedBin(b, c) == 10 * b < c /\ c <= 10 * (b + 1)

ExamineConfidence ==
  /\ policyRows = Unscored /\ costRows = Unscored /\ confidence = Unscored
  /\ \E c \in 0..100 : confidence' = c
  /\ UNCHANGED <<policyRows, costRows>>

SearchNext == ExaminePolicy \/ ExamineCosts \/ ExamineConfidence
SearchSpec == SearchInit /\ [][SearchNext]_searchVars

-----------------------------------------------------------------------------
Searchable == policyRows # Unscored /\ NonReleases # {} /\ Releasable # {}

\* Both searches return a pair, when they return one, that keeps the
\* false-release limit and the recall wanted at the same time, on rows of every
\* class.
SelectionKeepsTheTarget ==
  Searchable =>
    /\ KeptPairs(FineGrid) # {} => ~TooManyFalse(FinePair) /\ ~TooFewTrue(FinePair)
    /\ KeptPairs(CoarseGrid) # {} => ~TooManyFalse(CoarsePair) /\ ~TooFewTrue(CoarsePair)

\* The research search, on the finer grid, is never worse than the training
\* search on the same rows: it finds a pair whenever the other does, at no
\* higher cost, and at the same cost it recalls no less.
FinerSearchIsNoWorse ==
  (Searchable /\ KeptPairs(CoarseGrid) # {}) =>
    /\ KeptPairs(FineGrid) # {}
    /\ ~Cheaper(CoarsePair, FinePair)
    /\ TotalCost(CoarsePair) = TotalCost(FinePair) => TrueReleases(FinePair) >= TrueReleases(CoarsePair)

\* While there are no more rows than quantile steps (100 in the code), no threshold
\* between the lowest and the highest score, candidate or not, costs less than the
\* one chosen: the quantiles fall between all neighbours.  With more rows they do not.
CostThresholdIsBest ==
  costRows # Unscored =>
    \A t \in (costRows[1].score * QuantileSteps + 1)..(costRows[CostRows].score * QuantileSteps) :
      FlagCost(CostThreshold) <= FlagCost(t)

\* A confidence counts once in each calibration error, also on the edges of the
\* bins and at 1.
EveryConfidenceIsBinned ==
  confidence # Unscored =>
    /\ Cardinality({b \in BinEdges : InResearchBin(b, confidence)}) = 1
    /\ confidence > 0 => Cardinality({b \in BinEdges : InSealedBin(b, confidence)}) = 1
=============================================================================
