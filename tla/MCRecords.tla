------------------------------ MODULE MCRecords -------------------------------
(* The records around the decisions - payment cases, features, imported     *)
(* histories, layer analyses, the public benchmark, training, research, the *)
(* console, the reconciliation and the point-in-time snapshot - each on its *)
(* own: a behaviour runs one of them, and the others stay as they are.      *)
EXTENDS PaymentCases, LiveFeatures, OperatorHistory, LayerAnalysis, PublicBenchmark,
        ResearchProtocol, TrainingFlow, TrainingOutput, ConformalRules, ResearchSplits,
        SyntheticWindows, OperatorConsole, ReconciliationSync, ThresholdSearch,
        FamilyGuard, PointInTimeTimeline

VARIABLE part

\* Payment cases: webhooks name one payment, both, or only an order.
MCOrderOf == [pay1 |-> "ord1", pay2 |-> "ord2"]
MCRefundOf == [pay1 |-> "rfnd1", pay2 |-> "rfnd2"]
MCSummaries ==
  [w1 |-> [payments |-> {"pay1"}, orders |-> {"ord1"}],
   w2 |-> [payments |-> {"pay1", "pay2"}, orders |-> {"ord1", "ord2"}],
   w3 |-> [payments |-> {}, orders |-> {"ord2"}]]

MCCreatedAt == [lp1 |-> 0, lp2 |-> 2]
MCOrderIds == [lp1 |-> "lo1", lp2 |-> "lo2"]

\* Files of an operator: two transactions with their late or piecemeal
\* refunds and disputes, an empty file, and a file with an id used twice.
RawRow(id, at, seen, refund, dispute, state) ==
  [id |-> id, at |-> at, observed |-> seen, amount |-> 2, status |-> state, device |-> "d1",
   refundAmount |-> refund[1], refundAt |-> refund[2], refundObserved |-> refund[3],
   disputeAt |-> dispute[1], disputeObserved |-> dispute[2]]
NoRefund == <<0, Missing, Missing>>
NoDispute == <<Missing, Missing>>
Refundings == {NoRefund, <<1, 1, 2>>, <<2, 2, 6>>, <<0, Missing, 2>>, <<2, 3, 1>>}
Disputings == {NoDispute, <<3, 3>>, <<2, 6>>, <<Missing, 4>>}
MCContents ==
  {<<RawRow("t1", times[1], times[2], refund, dispute, state),
     RawRow("t2", 3, 4, lateRefund, lateDispute, "captured")>> :
     times \in {<<1, 1>>, <<1, 5>>}, state \in {"captured", "refunded", "failed"},
     refund \in Refundings, dispute \in Disputings,
     lateRefund \in {NoRefund, <<2, 4, 4>>, <<1, 4, 6>>}, lateDispute \in {NoDispute, <<4, 6>>}}
  \cup {<<>>, <<RawRow("t1", 3, 3, NoRefund, NoDispute, "captured"),
                RawRow("t1", 4, 4, NoRefund, NoDispute, "captured")>>}

MCAnaPredictions ==
  {[release |-> 5, needed |-> 0, escalate |-> 0, novelty |-> FALSE],
   [release |-> 3, needed |-> 2, escalate |-> 0, novelty |-> FALSE],
   [release |-> 4, needed |-> 0, escalate |-> 1, novelty |-> TRUE]}

MCScriptOf == [a1 |-> "audit", e1 |-> "experiment", p1 |-> "reproduce",
               c1 |-> "cycle", c2 |-> "cycle"]
MCPartitionOf == [c \in 1..3 |-> IF c = 3 THEN "other lock" ELSE "lock"]
MCTargetOf == [m \in Merchants |-> IF m \in Legitimate THEN "RELEASE" ELSE "ESCALATE"]
MCConfigs == [seed : {1, 2}, code : {1, 2}]
MCFamilyOf == [w \in 1..7 |-> IF w <= 6 THEN "f" ELSE "u"]
MCDelays == {1, 3, Unrefunded}
MCFamilyOrder == <<"d1", "d2", "v1", "v2", "r1", "r2">>
MCTargetOfFamily ==
  [f \in ToSet(MCFamilyOrder) |-> CASE f \in {"d1", "d2"} -> "RELEASE"
                                   [] f \in {"v1", "v2"} -> "EVIDENCE_NEEDED"
                                   [] f \in {"r1", "r2"} -> "ESCALATE"]
MCMerchantsIn == [f \in ToSet(MCFamilyOrder) |-> IF f = "r2" THEN 1 ELSE 3]

\* One payment event and one refund event against one snapshot.
MCReads == [paid |-> <<"pay">>, refunded |-> <<"rfnd", "pay">>]
MCEvents == {"paid", "refunded"}
MCEntities == {"pay", "rfnd"}
MCTables == <<{"pay"}, {"rfnd"}>>
------------------------------------------------------------------------------
recordVars == <<part, caseVars, liveVars, historyVars, anaVars, benchVars,
                researchVars, flowVars, outputVars, exam, splitVars,
                windowVars, consoleVars, syncVars, searchVars, guardVars, timelineVars>>

Parts == {"cases", "live", "history", "layers", "benchmark", "research",
          "flow", "output", "rules", "splits", "windows", "console", "sync",
          "search", "guard", "timeline"}

\* A part that does not run starts in one of its initial states.
RecordsInit ==
  /\ part \in Parts
  /\ CaseInit
  /\ IF part = "cases"
     THEN \/ source = Nothing
          \/ DOMAIN bridge = {}
          \/ source = "pay1" /\ Cardinality(DOMAIN bridge) = 1
     ELSE source = Nothing /\ DOMAIN bridge = {}
  /\ HistoryInit /\ (part # "history" => content = [f \in HistoryFiles |-> <<>>])
  /\ AnaInit /\ (part # "layers" => anaModel = "READY" /\ riskModel = "trained")
  /\ ResearchInit /\ (part # "research" => corpus = 1)
  /\ SyncInit
  /\ part # "sync" => Len(listed) = 1 /\ listed[1].entity = CHOOSE e \in SettledEntities : TRUE
  /\ LiveInit /\ BenchInit /\ FlowInit /\ OutputInit /\ RulesInit /\ SplitsInit
  /\ WindowsInit /\ ConsoleInit /\ SearchInit /\ GuardInit
  /\ TimelineInit

notCase == <<part, liveVars, historyVars, anaVars, benchVars, researchVars,
             flowVars, outputVars, exam, splitVars, windowVars, consoleVars,
             syncVars, searchVars, guardVars, timelineVars>>
notLive == <<part, caseVars, historyVars, anaVars, benchVars, researchVars,
             flowVars, outputVars, exam, splitVars, windowVars, consoleVars,
             syncVars, searchVars, guardVars, timelineVars>>
notHistory == <<part, caseVars, liveVars, anaVars, benchVars, researchVars,
                flowVars, outputVars, exam, splitVars, windowVars, consoleVars,
                syncVars, searchVars, guardVars, timelineVars>>
notAna == <<part, caseVars, liveVars, historyVars, benchVars, researchVars,
            flowVars, outputVars, exam, splitVars, windowVars, consoleVars,
            syncVars, searchVars, guardVars, timelineVars>>
notBench == <<part, caseVars, liveVars, historyVars, anaVars, researchVars,
              flowVars, outputVars, exam, splitVars, windowVars, consoleVars,
              syncVars, searchVars, guardVars, timelineVars>>
notResearch == <<part, caseVars, liveVars, historyVars, anaVars, benchVars,
                 flowVars, outputVars, exam, splitVars, windowVars,
                 consoleVars, syncVars, searchVars, guardVars, timelineVars>>
notFlow == <<part, caseVars, liveVars, historyVars, anaVars, benchVars,
             researchVars, outputVars, exam, splitVars, windowVars,
             consoleVars, syncVars, searchVars, guardVars, timelineVars>>
notOutput == <<part, caseVars, liveVars, historyVars, anaVars, benchVars,
               researchVars, flowVars, exam, splitVars, windowVars,
               consoleVars, syncVars, searchVars, guardVars, timelineVars>>
notRules == <<part, caseVars, liveVars, historyVars, anaVars, benchVars,
              researchVars, flowVars, outputVars, splitVars, windowVars,
              consoleVars, syncVars, searchVars, guardVars, timelineVars>>
notSplits == <<part, caseVars, liveVars, historyVars, anaVars, benchVars,
               researchVars, flowVars, outputVars, exam, windowVars,
               consoleVars, syncVars, searchVars, guardVars, timelineVars>>
notWindows == <<part, caseVars, liveVars, historyVars, anaVars, benchVars,
                researchVars, flowVars, outputVars, exam, splitVars,
                consoleVars, syncVars, searchVars, guardVars, timelineVars>>
notConsole == <<part, caseVars, liveVars, historyVars, anaVars, benchVars,
                researchVars, flowVars, outputVars, exam, splitVars,
                windowVars, syncVars, searchVars, guardVars, timelineVars>>
notSync == <<part, caseVars, liveVars, historyVars, anaVars, benchVars,
             researchVars, flowVars, outputVars, exam, splitVars, windowVars,
             consoleVars, searchVars, guardVars, timelineVars>>
notSearch == <<part, caseVars, liveVars, historyVars, anaVars, benchVars,
               researchVars, flowVars, outputVars, exam, splitVars, windowVars,
               consoleVars, syncVars, guardVars, timelineVars>>
notTimeline == <<part, caseVars, liveVars, historyVars, anaVars, benchVars,
                 researchVars, flowVars, outputVars, exam, splitVars,
                 windowVars, consoleVars, syncVars, searchVars, guardVars>>
notGuard == <<part, caseVars, liveVars, historyVars, anaVars, benchVars,
              researchVars, flowVars, outputVars, exam, splitVars, windowVars,
              consoleVars, syncVars, searchVars, timelineVars>>

RecordsNext ==
  \/ part = "cases"     /\ CaseNext     /\ UNCHANGED notCase
  \/ part = "live"      /\ LiveNext     /\ UNCHANGED notLive
  \/ part = "history"   /\ HistoryNext  /\ UNCHANGED notHistory
  \/ part = "layers"    /\ AnaNext      /\ UNCHANGED notAna
  \/ part = "benchmark" /\ BenchNext    /\ UNCHANGED notBench
  \/ part = "research"  /\ ResearchNext /\ UNCHANGED notResearch
  \/ part = "flow"      /\ FlowNext     /\ UNCHANGED notFlow
  \/ part = "output"    /\ OutputNext   /\ UNCHANGED notOutput
  \/ part = "rules"     /\ RulesNext    /\ UNCHANGED notRules
  \/ part = "splits"    /\ SplitsNext   /\ UNCHANGED notSplits
  \/ part = "windows"   /\ WindowsNext  /\ UNCHANGED notWindows
  \/ part = "console"   /\ ConsoleNext  /\ UNCHANGED notConsole
  \/ part = "sync"      /\ SyncNext     /\ UNCHANGED notSync
  \/ part = "search"    /\ SearchNext   /\ UNCHANGED notSearch
  \/ part = "guard"     /\ GuardNext    /\ UNCHANGED notGuard
  \/ part = "timeline"  /\ TimelineNext /\ UNCHANGED notTimeline

RecordsSpec == RecordsInit /\ [][RecordsNext]_recordVars

-------------------------------------------------------------------------------
(* What was known at a time stays what was known then: a snapshot that     *)
(* passed, a preview of a past cut-off, and the outcome told of a payment  *)
(* do not change with what is observed later (processor_timeline.py:471,   *)
(* live_features.py:214, ground_truth.py:231).                             *)
ThePastStays == PassedViewIsFinal /\ PreviewsChangeOnlyByLateRows /\ OutcomesNeverRetreat

(* Features are made of the past, and of all of it: a live preview without *)
(* blockers, the case of an imported transaction and a simulated window    *)
(* each see every event before their cut-off once and none after it        *)
(* (live_features.py:480, operator_history.py:560,                         *)
(* ml/longitudinal_data.py:165).                                           *)
FeaturesLookBack ==
  /\ UnblockedPreviewsAreComplete
  /\ HistoryHasNoLookAhead /\ AcceptedHistoriesPreview
  /\ BaselineIsSimulated /\ HistoryEndsBeforeTheWindow
  /\ BaselineCountsEachEventOnce /\ BaselineForgetsTheFuture

(* Nothing is judged on what it learned from: no merchant of the test set, *)
(* of a fold, of the reference or of the family left out, and no row of a  *)
(* later time, reached what is judged on it (ml/modeling.py:522,           *)
(* ml/v3_research.py:121, ml/final_cycle.py:104).                          *)
JudgedOnUnseenData ==
  /\ TestMerchantsAreUnseen /\ PolicyScoresAreOutOfFold /\ ReferenceIsOutOfFold
  /\ JudgedRowsComeLater /\ WindowsOnlyLookBack
  /\ LeftOutFamilyIsUnseen

(* Sealed data judges one frozen candidate, once, whatever is killed,      *)
(* repeated or replaced (run_final_research_cycle.py:306,                  *)
(* run_v3b_final_experiment.py:334, train_model.py:134).                   *)
SealedDataJudgesOnce ==
  /\ SealedIsOpenedOnce /\ SealedJudgesAFrozenCandidate /\ OneLockForAllStudies
  /\ SealedTestJudgesOneModel

(* Files that are written one after the other are never taken for a whole  *)
(* when the process died between two of them: not a prepared benchmark, a  *)
(* release, a final report or an imported history                          *)
(* (public_benchmark.py:521, train_model.py:134,                           *)
(* run_final_research_cycle.py:306, operator_history.py:303).              *)
FilesSurviveKills ==
  /\ PartsAsNewAsTheirSummary /\ ReadyHasItsFiles
  /\ ReleaseIsTheOneReported /\ FinalReportIsLast
  /\ ListedHistoriesVerify /\ FirstImportOwnsTheFile

(* The quantile and threshold rules keep their promises on every small     *)
(* sample, with ties: coverage, false-alarm rate, monotone advice, and a   *)
(* threshold no other beats.                                               *)
RulesKeepTheirPromises ==
  /\ TrueLabelsAreKept /\ AdviceRisesWithRisk /\ GuardKeepsItsRate
  /\ FalseReleasesAreUncovered /\ CorrectedGateOnlyForgivesExcess
  /\ ThresholdIsTheBestAllowed /\ SelectionKeepsTheTarget /\ FinerSearchIsNoWorse
  /\ CostThresholdIsBest /\ EveryConfidenceIsBinned /\ BlindListingIsWhole
  /\ FamiliesKeepTheirRate /\ GuardChoiceIsUndominated
=============================================================================
