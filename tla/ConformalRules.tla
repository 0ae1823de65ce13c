---------------------------- MODULE ConformalRules ----------------------------
(***************************************************************************)
(* The finite-sample rules of the research code: the conformal sets and    *)
(* the recommendation of the public benchmark, the raw novelty guard, the  *)
(* routing of three-class prediction sets, and the two coverage gates of   *)
(* phase 6.  A state is one input; probabilities are levels of a scale.    *)
(***************************************************************************)
EXTENDS Integers, FiniteSets, Combinatorics, FiniteSetsExt

CONSTANTS
  Top,            \* a probability is a level out of Top
  AlphaIn,        \* ALPHA, and the guard's target rate, are 1 / AlphaIn
  SampleSize,           \* rows of a calibration set, the row judged by it included
  Trials,         \* rows of a coverage test
  TargetNum, TargetDen,  \* the confidence level
  MinGuardRows,   \* 20 in the code
  Blank

\* Sizes and levels are numbers, the confidence level is a fraction.
ASSUME RulesAssumption ==
  /\ Top \in Nat /\ SampleSize \in Nat /\ Trials \in Nat
  /\ AlphaIn \in Nat \ {0} /\ MinGuardRows \in Nat \ {0}
  /\ TargetDen \in Nat /\ TargetNum \in 1..(TargetDen - 1)

VARIABLE exam     \* the input under examination

RulesInit == exam = Blank

RiskLevels == 0..Top
Sample == [1..SampleSize -> [p : RiskLevels, fraud : BOOLEAN]]

-----------------------------------------------------------------------------
\* conformal_scores: how far a calibration row's probability is from its label.
ScoreFor(p, fraud) == IF fraud THEN Top - p ELSE p
Conformity(row) == ScoreFor(row.p, row.fraud)

\* A label's p-value among the scores of the rows in ds, times their number + 1.
QuantileRank(s, ds, score) == 1 + Cardinality({i \in ds : Conformity(s[i]) >= score})

\* Mutant: the empirical tail without the row itself.
RankOfOthers(s, ds, score) == Cardinality({i \in ds : Conformity(s[i]) >= score})

TailRank(s, ds, score) == QuantileRank(s, ds, score)
InSet(s, ds, p, fraud) ==
  AlphaIn * TailRank(s, ds, ScoreFor(p, fraud)) > Cardinality(ds) + 1
PredictionSet(s, ds, p) == {fraud \in BOOLEAN : InSet(s, ds, p, fraud)}

\* execute(): 2 ESCALATE, 1 EVIDENCE_NEEDED, 0 LOW_RISK_REVIEW.
BenchmarkAdvice(s, threshold, novel, p) ==
  IF p >= threshold THEN 2
  ELSE IF Cardinality(PredictionSet(s, DOMAIN s, p)) # 1 \/ novel THEN 1 ELSE 0

ExamineBenchmark ==
  /\ exam = Blank
  /\ \E s \in Sample, threshold \in RiskLevels, novel \in BOOLEAN :
       exam' = [kind |-> "benchmark", sample |-> s, threshold |-> threshold, novel |-> novel]

-----------------------------------------------------------------------------
\* CalibratedRawNoveltyGuard.fit on n scores: ceil((n + 1)(1 - alpha)), held to 1..n.
GuardRank(n) == Max({1, Min({n, ((n + 1) * (AlphaIn - 1) + AlphaIn - 1) \div AlphaIn})})

\* The k-th smallest of the scores of the rows in ds.
OrderStatistic(f, ds, k) ==
  CHOOSE v \in {f[i] : i \in ds} :
    /\ Cardinality({i \in ds : f[i] <= v}) >= k
    /\ Cardinality({i \in ds : f[i] < v}) < k
RawThreshold(f, ds) == OrderStatistic(f, ds, GuardRank(Cardinality(ds)))

\* apply_guard_route: only a RELEASE is changed, by a score at the threshold too.
Routes(f, ds, score, advice, route) ==
  IF advice = "RELEASE" /\ score >= RawThreshold(f, ds) THEN route ELSE advice

ExamineGuard ==
  /\ exam = Blank /\ SampleSize > MinGuardRows
  /\ \E f \in [1..SampleSize -> RiskLevels], route \in {"EVIDENCE_NEEDED", "ESCALATE"} :
       exam' = [kind |-> "guard", raw |-> f, route |-> route]

-----------------------------------------------------------------------------
\* ApsConformalAbstainer.policy_decision, without a novelty override; the labels
\* are 0 RELEASE, 1 EVIDENCE_NEEDED, 2 ESCALATE.
SetDecision(labels) ==
  CASE labels = {0} -> "RELEASE"
    [] labels \in {{1}, {0, 1}} -> "EVIDENCE_NEEDED"
    [] OTHER -> "ESCALATE"

\* summarize_prediction_sets over rows of a set and a true label.
Routed(rs, decision) == {i \in DOMAIN rs : SetDecision(rs[i].set) = decision}
Uncovered(rs) == {i \in DOMAIN rs : rs[i].label \notin rs[i].set}
FalseReleases(rs) == {i \in Routed(rs, "RELEASE") : rs[i].label # 0}
RoutingHolds(rs) == \A i \in Routed(rs, "RELEASE") : Cardinality(rs[i].set) = 1

ExamineSets ==
  /\ exam = Blank
  /\ \E rs \in [1..2 -> [set : SUBSET (0..2), label : 0..2]] :
       exam' = [kind |-> "sets", rows |-> rs]

-----------------------------------------------------------------------------
\* exact_undercoverage_test: P(X <= k) < 1/20 under the target, in integers.
Weight(n, i) == choose(n, i) * TargetNum^i * (TargetDen - TargetNum)^(n - i)
AtMost(k, n) == MapThenSumSet(LAMBDA i : Weight(n, i), 0..k)
AtLeast(k, n) == MapThenSumSet(LAMBDA i : Weight(n, i), k..n)

Significant(k, n) == 20 * AtMost(k, n) < TargetDen^n
Shortfall(k, n) == k * TargetDen < n * TargetNum

\* _coverage_gate: the target is in the Wilson 95 % interval of k out of n, which
\* is the score test with z^2 = 3.8415.
InWilson(k, n) ==
  LET excess == k * TargetDen - n * TargetNum
  IN  10000 * (excess * excess) <= 38415 * n * TargetNum * (TargetDen - TargetNum)
GateV1(c) == InWilson(c.covered, c.rows) /\ c.routing
GateV11(c) == ~Shortfall(c.covered, c.rows) /\ ~Significant(c.covered, c.rows) /\ c.routing

ExamineCoverage ==
  /\ exam = Blank
  /\ \E n \in 1..Trials, routing \in BOOLEAN : \E k \in 0..n :
       exam' = [kind |-> "coverage", rows |-> n, covered |-> k, routing |-> routing]

RulesNext == ExamineBenchmark \/ ExamineGuard \/ ExamineSets \/ ExamineCoverage
RulesSpec == RulesInit /\ [][RulesNext]_exam

-----------------------------------------------------------------------------
Examined(kind) == exam # Blank /\ exam.kind = kind

\* Of a calibration set and one more row drawn alike, the true label of at most
\* one in AlphaIn is left out of the prediction set, ties and all: counted over
\* every choice of the row that is judged by the others.
TrueLabelsAreKept ==
  Examined("benchmark") =>
    AlphaIn * Cardinality({i \in 1..SampleSize :
      ~InSet(exam.sample, 1..SampleSize \ {i}, exam.sample[i].p, exam.sample[i].fraud)}) <= SampleSize

\* A higher fraud probability never gets milder advice, novelty being equal,
\* unless FRAUD has become the only label left below the cost threshold: that
\* set counts as certain and gets LOW_RISK_REVIEW.
AdviceRisesWithRisk ==
  Examined("benchmark") =>
    \A p, q \in RiskLevels :
      LET advice(x) == BenchmarkAdvice(exam.sample, exam.threshold, exam.novel, x)
      IN  (p < q /\ PredictionSet(exam.sample, 1..SampleSize, q) # {TRUE}) => advice(p) <= advice(q)

\* Of legitimate merchants with distinct scores, each guarded by a threshold of
\* the others, at most one in AlphaIn (and never fewer than one allowed) loses
\* its RELEASE; a tie at the threshold is why distinct is said.
GuardKeepsItsRate ==
  Examined("guard") =>
    LET alarms == {i \in 1..SampleSize :
          Routes(exam.raw, 1..SampleSize \ {i}, exam.raw[i], "RELEASE", exam.route) # "RELEASE"}
    IN  (\A i, j \in 1..SampleSize : exam.raw[i] = exam.raw[j] => i = j)
          => Cardinality(alarms) <= Max({1, SampleSize \div AlphaIn})

\* Every false release of the routing is a row its prediction set failed to
\* cover, so that coverage bounds false releases; no set of several labels, of
\* none or of all is released.
FalseReleasesAreUncovered ==
  Examined("sets") => FalseReleases(exam.rows) \subseteq Uncovered(exam.rows) /\ RoutingHolds(exam.rows)

\* The corrected gate passes nothing the first one blocked except coverage above
\* the target, and the exact test never blocks what the empirical rate passes.
CorrectedGateOnlyForgivesExcess ==
  Examined("coverage") =>
    /\ GateV11(exam) /\ ~GateV1(exam) => exam.covered * TargetDen > exam.rows * TargetNum
    /\ exam.routing /\ ~Shortfall(exam.covered, exam.rows) => GateV11(exam)
=============================================================================
