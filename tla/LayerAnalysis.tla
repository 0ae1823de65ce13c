--------------------------- MODULE LayerAnalysis ---------------------------
(***************************************************************************)
(* The two analyses beside the hold workflow: the layer execution of one   *)
(* hold (layer_execution.py), which asks the policy engine and is written  *)
(* to the hash-chained ledger, and the shadow score of an account          *)
(* (shadow_scoring.py), which does neither and is stored in its own table. *)
(* Neither changes the hold, and the hold may change while they run.       *)
(***************************************************************************)
EXTENDS DecisionPolicy, Sequences, FiniteSets

CONSTANTS
  Analyses,        \* calls of execute
  AnaPredictions,  \* what the models may predict
  MaxAnalyses,     \* bound: ledger records of analyses
  MaxShadows,      \* bound: rows of shadow_scores
  Nought           \* a value that is not there

\* An answer of a model is a prediction (RiskPrediction).
ASSUME AnaAssumption == AnaPredictions \subseteq Predictions

VARIABLES
  holdRound,      \* evidence_round of the hold
  anaModel,       \* the shadow analysis runtime of this process
  riskModel,      \* the risk model of this process
  analysis,       \* calls of execute: where they are
  anaLedger,      \* their records, in the order of the chain
  anaAnswers,     \* responses given: history
  shadowRows      \* shadow_scores

anaVars == <<holdRound, anaModel, riskModel, analysis,
             anaLedger, anaAnswers, shadowRows>>

NoAnalysis == [pc |-> "idle", round |-> 0, p |-> Nought, status |-> Nought,
               recommendation |-> Nought, record |-> 0]

AnaInit ==
  /\ holdRound = 0
  /\ anaModel \in {"NOT_CONFIGURED", "READY", "NO_POLICY_VERSION"}
  /\ riskModel \in {"unavailable", "development", "trained"}
  /\ analysis = [a \in Analyses |-> NoAnalysis]
  /\ anaLedger = <<>> /\ anaAnswers = {} /\ shadowRows = <<>>

(* The merchant's evidence is stored.                                      *)
EvidenceArrives ==
  /\ holdRound = 0 /\ holdRound' = 1
  /\ UNCHANGED <<anaModel, riskModel, analysis, anaLedger, anaAnswers, shadowRows>>
-----------------------------------------------------------------------------
Concluded(a, round, p, status, recommendation) ==
  analysis' = [analysis EXCEPT ![a] =
    [@ EXCEPT !.pc = "truth", !.round = round, !.p = p, !.status = status,
              !.recommendation = recommendation]]

(* The stages before the engine: the data-quality firewall, the signed     *)
(* runtime, the prediction and the cost policy, on the hold as it was read *)
(* for the call.                                                           *)
Execute(a) ==
  /\ analysis[a].pc = "idle" /\ Len(anaLedger) < MaxAnalyses
  /\ \/ Concluded(a, holdRound, Nought, "BLOCKED_DATA_QUALITY", "EVIDENCE_NEEDED")
     \/ /\ anaModel = "NOT_CONFIGURED"
        /\ Concluded(a, holdRound, Nought, "MODEL_UNAVAILABLE", "ESCALATE")
     \/ /\ anaModel # "NOT_CONFIGURED"
        /\ Concluded(a, holdRound, Nought, "MODEL_ERROR", "ESCALATE")
     \/ \E p \in AnaPredictions :
          \/ /\ anaModel = "NO_POLICY_VERSION"
             /\ Concluded(a, holdRound, p, "COMPLETED", "ESCALATE")
          \/ /\ anaModel = "READY"
             /\ analysis' = [analysis EXCEPT ![a] =
                  [@ EXCEPT !.pc = "engine", !.round = holdRound, !.p = p, !.status = "COMPLETED",
                            !.recommendation = Choose(p, holdRound)]]
  /\ UNCHANGED <<holdRound, anaModel, riskModel, anaLedger,
                 anaAnswers, shadowRows>>

(* The PolicyCheck carries no evidence_assessment.                         *)
AnaCheck(candidate, p, round) ==
  OpaCheck([candidate |-> candidate, p |-> p, round |-> round,
            systemError |-> FALSE, verdict |-> NoVerdict])

(* Mutant: without an engine the candidate stands.                         *)
CandidateStands(a) == analysis[a].recommendation

(* PolicyUnavailable is caught and escalates.                              *)
WithoutEngine(a) == "ESCALATE"

AskEngine(a) ==
  /\ analysis[a].pc = "engine"
  /\ \E allowed \in {AnaCheck(analysis[a].recommendation, analysis[a].p,
                             analysis[a].round).allowed, WithoutEngine(a)} :
       analysis' = [analysis EXCEPT ![a] = [@ EXCEPT !.pc = "truth", !.recommendation = allowed]]
  /\ UNCHANGED <<holdRound, anaModel, riskModel, anaLedger, anaAnswers, shadowRows>>

(* The ground truth is read after the recommendation; its unavailability   *)
(* is a stage of the answer.  A ledger that cannot be written ends the     *)
(* call without an answer.                                                 *)
RecordAnalysis(a) ==
  LET r == analysis[a] IN
  /\ r.pc = "truth"
  /\ \/ /\ anaLedger' = Append(anaLedger,
               [status |-> r.status, recommendation |-> r.recommendation])
        /\ analysis' = [analysis EXCEPT ![a] =
             [@ EXCEPT !.pc = "answer", !.record = Len(anaLedger) + 1]]
     \/ analysis' = [analysis EXCEPT ![a] = NoAnalysis] /\ UNCHANGED anaLedger
  /\ UNCHANGED <<holdRound, anaModel, riskModel, anaAnswers, shadowRows>>

AnswerAnalysis(a) ==
  /\ analysis[a].pc = "answer"
  /\ anaAnswers' = anaAnswers \cup {analysis[a]}
  /\ analysis' = [analysis EXCEPT ![a] = NoAnalysis]
  /\ UNCHANGED <<holdRound, anaModel, riskModel, anaLedger, shadowRows>>
-----------------------------------------------------------------------------
ShadowRow(source, status, p, recommendation) ==
  /\ Len(shadowRows) < MaxShadows
  /\ shadowRows' = Append(shadowRows,
       [source |-> source, status |-> status, p |-> p, recommendation |-> recommendation])
  /\ UNCHANGED <<holdRound, anaModel, riskModel, analysis,
                 anaLedger, anaAnswers>>

(* _persist_blocked: no model, a development model, or no usable vector.    *)
BlockedShadow(source) ==
  /\ source = "LIVE" \/ riskModel # "trained"
  /\ ShadowRow(source, "BLOCKED", Nought, Nought)

(* _score_and_persist: the round is always the first.                      *)
ScoredShadow(source) ==
  /\ riskModel = "trained"
  /\ \E p \in AnaPredictions : ShadowRow(source, "SCORED", p, Choose(p, 0))

(* score_live_preview and score_fixture: a fixture has a vector, a live    *)
(* preview may have none.                                                  *)
ShadowScore ==
  \E source \in {"LIVE", "SYNTHETIC_FIXTURE_MECHANICS_ONLY"} :
    BlockedShadow(source) \/ ScoredShadow(source)

AnaNext ==
  \/ EvidenceArrives \/ ShadowScore
  \/ \E a \in Analyses : Execute(a) \/ AskEngine(a) \/ RecordAnalysis(a) \/ AnswerAnalysis(a)

AnaSpec == AnaInit /\ [][AnaNext]_anaVars
-----------------------------------------------------------------------------
(* An analysis is answered only when it is on the ledger with the same     *)
(* status and recommendation, in a record of its own, whatever fails       *)
(* meanwhile (layer_execution.py:393, 491).                                *)
AnalysesAreOnRecord ==
  /\ \A r \in anaAnswers :
       /\ r.record \in DOMAIN anaLedger
       /\ anaLedger[r.record] = [status |-> r.status, recommendation |-> r.recommendation]
  /\ \A r, s \in anaAnswers : r.record = s.record => r = s

(* An analysis says RELEASE only in the first round, on a prediction that  *)
(* reaches the threshold and is not novel, and with an engine that agreed: *)
(* in the second round the check it sends has no evidence assessment, and  *)
(* without data it asks for evidence although the round may be used up     *)
(* (layer_execution.py:142, 350).                                          *)
ReleaseAnalysesAreSound ==
  \A r \in anaAnswers :
    /\ r.recommendation = "RELEASE" =>
         /\ r.round = 0 /\ r.status = "COMPLETED" /\ anaModel = "READY"
         /\ r.p.release >= ReleaseThreshold /\ ~r.p.novelty
    /\ r.round = 1 => r.recommendation = "ESCALATE" \/ r.status = "BLOCKED_DATA_QUALITY"

(* A shadow recommendation, which no engine checks, is the one the engine  *)
(* would have allowed in the first round, except that a novel prediction   *)
(* below the escalation threshold asks for evidence where the engine       *)
(* escalates (shadow_scoring.py:466, hold_policy.rego:23).                 *)
ShadowsDifferOnlyForNovelty ==
  \A i \in DOMAIN shadowRows :
    LET row == shadowRows[i] IN
    row.status = "SCORED" =>
      LET allowed == AnaCheck(row.recommendation, row.p, 0).allowed IN
      \/ allowed = row.recommendation
      \/ row.p.novelty /\ row.recommendation = "EVIDENCE_NEEDED" /\ allowed = "ESCALATE"

(* An analysis is on record, rests on the round it read, and says no more  *)
(* than the engine and the shadow would.                                   *)
AnalysesAreSound ==
  AnalysesAreOnRecord /\ ReleaseAnalysesAreSound /\ ShadowsDifferOnlyForNovelty
=============================================================================
