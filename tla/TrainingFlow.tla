----------------------------- MODULE TrainingFlow -----------------------------
(***************************************************************************)
(* What a training run learns from whom: splits.py, tuning.py, modeling.py *)
(* and the evaluation they lead to.  A merchant stands for its rows; a     *)
(* fitted artifact for the merchants whose rows went into it, directly or  *)
(* through the artifacts it was fitted on.  The splitters draw at random.  *)
(***************************************************************************)
EXTENDS Integers, FiniteSets, FiniteSetsExt

CONSTANTS
  Merchants, TargetOf,      \* the merchants of the corpus and their target class
  Legitimate,               \* those whose true risk state is LEGITIMATE
  TestSize, CalibrationSize \* groups of the two outer splits (15 % each)

VARIABLES
  stage,       \* the step train_model.py is at
  train, calibration, test,   \* the split manifest
  saw,         \* artifact -> merchants it depends on
  referenceBy, \* legitimate training merchant -> merchants its reference score was fitted on
  fitHalf,     \* the half of the calibration merchants the candidate calibrators are fitted on
  scoredBy     \* calibration merchant -> merchants its policy probability was fitted on

flowVars == <<stage, train, calibration, test, saw, referenceBy, fitHalf, scoredBy>>

Nobody == [m \in {} |-> {}]

FlowInit ==
  /\ stage = "split"
  /\ train = {} /\ calibration = {} /\ test = {} /\ fitHalf = {}
  /\ saw = [a \in {} |-> {}] /\ referenceBy = Nobody /\ scoredBy = Nobody

Complete(ms) == {TargetOf[m] : m \in ms} = {TargetOf[m] : m \in Merchants}
CompleteSplits(ms, size) ==
  {right \in kSubset(size, ms) : Complete(right) /\ Complete(ms \ right)}

TrainingFails == stage' = "failed"
Learned(a) == IF a \in DOMAIN saw THEN saw[a] ELSE {}
Learns(a, ms) == saw' = [b \in DOMAIN saw \cup {a} |-> IF b = a THEN ms ELSE saw[b]]

\* create_split_manifest: the test merchants first, then the calibration ones,
\* with every class on both sides; none of 100 draws may be so.
Split ==
  /\ stage = "split"
  /\ \/ \E right \in CompleteSplits(Merchants, TestSize) :
          \E middle \in CompleteSplits(Merchants \ right, CalibrationSize) :
            /\ test' = right /\ calibration' = middle
            /\ train' = Merchants \ (right \cup middle)
            /\ stage' = "tune"
     \/ TrainingFails /\ UNCHANGED <<train, calibration, test>>
  /\ UNCHANGED <<saw, referenceBy, fitHalf, scoredBy>>

\* The rows tune_xgboost folds and fits on.
TunedOn == train

\* --hpo-trials 0 tunes nothing; otherwise every training merchant is in a fold.
Tune ==
  /\ stage = "tune"
  /\ \E search \in BOOLEAN : Learns("parameters", IF search THEN TunedOn ELSE {})
  /\ stage' = "forest"
  /\ UNCHANGED <<train, calibration, test, referenceBy, fitHalf, scoredBy>>

Reference == train \cap Legitimate
\* GroupKFold and StratifiedGroupKFold: each merchant is held out in one fold.
Foldings(ms, n) == {f \in [ms -> 1..n] : \A k \in 1..n : \E m \in ms : f[m] = k}
HeldOut(f, m) == {x \in DOMAIN f : f[x] # f[m]}

\* Whom the Isolation Forest behind a reference score was fitted on.
ReferenceFittedOn(f, m) == HeldOut(f, m)

\* IsolationForestScorer.fit: out-of-fold reference scores, then a model of all
\* legitimate training rows; fewer than two such merchants are an error.
FitForest ==
  /\ stage = "forest"
  /\ IF Cardinality(Reference) < 2
       THEN TrainingFails /\ UNCHANGED <<saw, referenceBy>>
       ELSE /\ \E f \in Foldings(Reference, Min({5, Cardinality(Reference)})) :
                 referenceBy' = [m \in Reference |-> ReferenceFittedOn(f, m)]
            /\ Learns("forest", Reference)
            /\ stage' = "classifier"
  /\ UNCHANGED <<train, calibration, test, fitHalf, scoredBy>>

\* The classifier, on the training rows with their anomaly percentile.
FitClassifier ==
  /\ stage = "classifier"
  /\ Learns("classifier", train \cup Learned("forest") \cup Learned("parameters"))
  /\ stage' = "halves"
  /\ UNCHANGED <<train, calibration, test, referenceBy, fitHalf, scoredBy>>

\* _calibration_split: half of the calibration merchants fit the candidate
\* calibrators, the other half compares them.
SplitCalibration ==
  /\ stage = "halves"
  /\ \/ \E right \in CompleteSplits(calibration, Cardinality(calibration) \div 2) :
          fitHalf' = calibration \ right /\ stage' = "method"
     \/ TrainingFails /\ UNCHANGED fitHalf
  /\ UNCHANGED <<train, calibration, test, saw, referenceBy, scoredBy>>

Counts(ms) == {Cardinality({m \in ms : TargetOf[m] = t}) : t \in {TargetOf[m] : m \in Merchants}}

\* Whom the calibrated model behind a calibration merchant's policy probability
\* was fitted on.
CrossFitted(f, m) == Learned("classifier") \cup HeldOut(f, m)

\* Mutant: the final calibrator scores the merchants it was fitted on.
CrossFittedInSample(f, m) == Learned("classifier") \cup DOMAIN f

PolicyFit(f, m) == CrossFitted(f, m)

\* _select_calibrator: the best on the comparing half.  "uncalibrated" leaves the
\* classifier's probabilities; another method is refitted fold by fold for the
\* policy probabilities and on all calibration merchants for the bundle.
SelectCalibrator ==
  /\ stage = "method"
  /\ \/ /\ scoredBy' = [m \in calibration |-> Learned("classifier")]
        /\ Learns("calibrator", Learned("classifier") \cup calibration)
        /\ stage' = "thresholds"
     \/ LET n == Min({4} \cup Counts(calibration))
        IN  IF n < 2
              THEN TrainingFails /\ UNCHANGED <<saw, scoredBy>>
              ELSE \E f \in Foldings(calibration, n) :
                     IF \A m \in calibration : Complete(HeldOut(f, m))
                       THEN /\ scoredBy' = [m \in calibration |-> PolicyFit(f, m)]
                            /\ Learns("calibrator", Learned("classifier") \cup calibration)
                            /\ stage' = "thresholds"
                       ELSE TrainingFails /\ UNCHANGED <<saw, scoredBy>>
  /\ UNCHANGED <<train, calibration, test, referenceBy, fitHalf>>

\* optimize_thresholds on the policy probabilities; no pair may qualify.
OptimizeThresholds ==
  /\ stage = "thresholds"
  /\ \/ /\ Learns("thresholds", calibration \cup Learned("calibrator"))
        /\ stage' = "evaluate"
     \/ TrainingFails /\ UNCHANGED saw
  /\ UNCHANGED <<train, calibration, test, referenceBy, fitHalf, scoredBy>>

\* The conformal sets come from the policy probabilities; the bundle and the
\* sets are evaluated on the test merchants.
Evaluate ==
  /\ stage = "evaluate"
  /\ Learns("conformal", calibration \cup Learned("calibrator"))
  /\ stage' = "done"
  /\ UNCHANGED <<train, calibration, test, referenceBy, fitHalf, scoredBy>>

FlowNext ==
  \/ Split \/ Tune \/ FitForest \/ FitClassifier \/ SplitCalibration
  \/ SelectCalibrator \/ OptimizeThresholds \/ Evaluate

FlowSpec == FlowInit /\ [][FlowNext]_flowVars

-----------------------------------------------------------------------------
\* Nothing the bundle is made of, however indirectly, learned from a merchant it
\* is evaluated on, and the test merchants are of every class.
TestMerchantsAreUnseen ==
  stage \notin {"split", "failed"} =>
    /\ Complete(test)
    /\ \A a \in DOMAIN saw : saw[a] \cap test = {}

\* The thresholds are chosen on probabilities no merchant had a part in scoring
\* itself with ("merchant_group_oof"), and what chose the calibration method was
\* not what the candidates were fitted on.
PolicyScoresAreOutOfFold ==
  /\ \A m \in DOMAIN scoredBy : m \notin scoredBy[m]
  /\ fitHalf \cap Learned("classifier") = {} /\ (fitHalf # {} => Complete(calibration \ fitHalf))

\* A legitimate merchant's reference score, the scale of every later novelty
\* percentile, comes from a forest that never saw the merchant.
ReferenceIsOutOfFold ==
  \A m \in DOMAIN referenceBy : m \notin referenceBy[m] /\ referenceBy[m] \subseteq Legitimate
=============================================================================
