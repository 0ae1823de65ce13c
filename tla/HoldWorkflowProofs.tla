------------------------- MODULE HoldWorkflowProofs -------------------------
(***************************************************************************)
(* Safety of HoldWorkflow for any number of holds, calls and requests and  *)
(* any model, verifier and thresholds.                                     *)
(*                                                                         *)
(* The inductive invariant IInv adds to the properties what their proofs   *)
(* need: the shape of every call in flight (TasksOK), that the latest      *)
(* recommendation exists (LatestExists), that an uncreated hold is blank,  *)
(* that a review's audit event carries the decision of its submission, and *)
(* that a call scoring a hold no one has touched since it was read scores  *)
(* an open case (FreshCallsAreOpen).  Only four transactions write the     *)
(* rows of a case (RowWriters); each lemma about a step is about them.     *)
(***************************************************************************)
EXTENDS HoldWorkflow, DecisionPolicyProofs, FiniteSetTheorems, SequenceTheorems

(* A call carries what its next step needs.  One about to be saved with a  *)
(* RELEASE has neither failed nor, in round 1, gone without support.       *)
RecordOK(r) ==
  /\ r.pc # "idle" => r.hold \in Holds
  /\ r.pc = "ledger" => r.req \in LedgerTypes
  /\ r.pc = "evidence" => r.req \in EvidenceIds /\ r.verdict \in Verdicts
  /\ r.pc = "review" => r.req \in ReviewIds /\ r.submission \in Submissions
  /\ r.pc = "policy" =>
       /\ r.check \in Checks
       /\ r.check.round = r.round /\ r.check.verdict = r.verdict
       /\ r.check.systemError = r.failed
  /\ r.pc = "save" /\ r.decision = "RELEASE" =>
       ~r.failed /\ (r.round = 1 => r.verdict = "SUPPORTED")

TasksOK == \A t \in AllTasks : RecordOK(task[t])

GoodRecord(r) == r \in TaskRecords /\ RecordOK(r)

(* The records a call may become.                                          *)
LEMMA BecomeKept ==
  ASSUME TypeOK, TasksOK, NEW t \in AllTasks, NEW r, GoodRecord(r), Become(t, r)
  PROVE  /\ task' \in [AllTasks -> TaskRecords] /\ TasksOK'
         /\ task'[t] = r /\ \A u \in AllTasks \ {t} : task'[u] = task[u]
<1>1. task \in [AllTasks -> TaskRecords]
  BY DEF TypeOK
<1>. QED  BY <1>1 DEF Become, TasksOK, GoodRecord, RecordOK

(* The record of a call that is not running is well formed.                *)
LEMMA IdleGood == GoodRecord(IdleTask)
BY DEF GoodRecord, RecordOK, TaskRecords, IdleTask, NoVerdict, Decisions

(* A call that starts is well formed.                                      *)
LEMMA NewTaskGood ==
  ASSUME NEW h \in Holds
  PROVE  /\ GoodRecord([IdleTask EXCEPT !.pc = "insert", !.hold = h])
         /\ \A e \in LedgerTypes :
              GoodRecord([IdleTask EXCEPT !.pc = "ledger", !.hold = h, !.req = e])
         /\ \A e \in EvidenceIds : \A v \in Verdicts :
              GoodRecord([IdleTask EXCEPT !.pc = "evidence", !.hold = h, !.req = e,
                                          !.verdict = v])
         /\ \A q \in ReviewIds : \A s \in Submissions :
              GoodRecord([IdleTask EXCEPT !.pc = "review", !.hold = h, !.req = q,
                                          !.submission = s])
<1>. USE DEF GoodRecord, RecordOK, TaskRecords, IdleTask, NoVerdict, Decisions
<1>1. GoodRecord([IdleTask EXCEPT !.pc = "insert", !.hold = h])
  OBVIOUS
<1>2. \A e \in LedgerTypes :
        GoodRecord([IdleTask EXCEPT !.pc = "ledger", !.hold = h, !.req = e])
  OBVIOUS
<1>3. ASSUME NEW e \in EvidenceIds, NEW v \in Verdicts
      PROVE  GoodRecord([IdleTask EXCEPT !.pc = "evidence", !.hold = h, !.req = e,
                                         !.verdict = v])
  <2>1. v \in Verdicts \cup {NoVerdict}
    OBVIOUS
  <2>2. e \in EvidenceIds \cup ReviewIds \cup LedgerTypes \cup {None}
    OBVIOUS
  <2>. QED  BY <2>1, <2>2
<1>4. ASSUME NEW q \in ReviewIds, NEW s \in Submissions
      PROVE  GoodRecord([IdleTask EXCEPT !.pc = "review", !.hold = h, !.req = q,
                                         !.submission = s])
  <2>1. q \in EvidenceIds \cup ReviewIds \cup LedgerTypes \cup {None}
    OBVIOUS
  <2>. QED  BY <2>1
<1>. QED  BY <1>1, <1>2, <1>3, <1>4

(* A call that has read the rows it scores is well formed.                 *)
LEMMA ScoreTaskGood ==
  ASSUME TypeOK, NEW h \in Holds, NEW v \in Verdicts \cup {NoVerdict}
  PROVE  /\ GoodRecord(ScoreTask(h, v))
         /\ GoodRecord([ScoreTask(h, v) EXCEPT !.pc = "inputs"])
<1>1. hold[h].round \in {0, 1} /\ Len(audit[h]) \in Nat
  BY DEF TypeOK, HoldRows
<1>. QED
  BY <1>1 DEF ScoreTask, GoodRecord, RecordOK, TaskRecords, IdleTask, Decisions

(* A call that has its recommendation to check is well formed.             *)
LEMMA CheckingGood ==
  ASSUME TypeOK, TasksOK, NEW t \in AllTasks, task[t].pc = "score",
         NEW c \in Decisions, NEW p \in Predictions,
         NEW v \in Verdicts \cup {NoVerdict}, NEW failed \in BOOLEAN
  PROVE  GoodRecord(Checking(t, c, p, v, failed))
<1>1. task[t] \in TaskRecords /\ RecordOK(task[t])
  BY DEF TypeOK, TasksOK
<1>. DEFINE k == [candidate |-> c, p |-> p, round |-> task[t].round,
                 systemError |-> failed, verdict |-> v]
            r == [task[t] EXCEPT !.pc = "policy", !.verdict = v, !.failed = failed,
                                 !.check = k]
<1>2. k \in Checks
  BY <1>1 DEF TaskRecords, Checks
<1>3. k.round = task[t].round /\ k.verdict = v /\ k.systemError = failed
  OBVIOUS
<1>4. Checking(t, c, p, v, failed) = r
  BY DEF Checking
<1>. HIDE DEF k
<1>5. r \in TaskRecords
  BY <1>1, <1>2 DEF TaskRecords
<1>6. RecordOK(r)
  BY <1>1, <1>2, <1>3 DEF RecordOK, TaskRecords
<1>. QED  BY <1>4, <1>5, <1>6 DEF GoodRecord

(* A call about to save its recommendation is well formed.                 *)
LEMMA SavingGood ==
  ASSUME TypeOK, TasksOK, NEW t \in AllTasks, task[t].pc = "policy",
         NEW stamp \in Nat, NEW result \in {OpaCheck(task[t].check), Unavailable}
  PROVE  GoodRecord([task[t] EXCEPT !.pc = "save", !.check = None,
                       !.decision = result.allowed, !.stamp = stamp,
                       !.failed = @ \/ result = Unavailable])
<1>1. task[t] \in TaskRecords /\ RecordOK(task[t])
  BY DEF TypeOK, TasksOK
<1>2. task[t].check \in Checks /\ task[t].check \in PolicyChecks
  BY <1>1 DEF RecordOK, Checks, PolicyChecks
<1>3. Promised(task[t].check, result)
  BY <1>2, OpaKept, EscalationKept DEF Unavailable, Reasons
<1>4. result.allowed \in Decisions
  BY <1>3 DEF Promised, PolicyResults
<1>5. result.allowed = "RELEASE" =>
        /\ ~task[t].failed /\ result # Unavailable
        /\ task[t].round = 1 => task[t].verdict = "SUPPORTED"
  BY <1>1, <1>3 DEF Promised, Justified, RecordOK, Unavailable, Escalation
<1>. DEFINE f == task[t].failed \/ result = Unavailable
            r == [task[t] EXCEPT !.pc = "save", !.check = None,
                    !.decision = result.allowed, !.stamp = stamp, !.failed = f]
<1>6. f \in BOOLEAN
  BY <1>1 DEF TaskRecords
<1>7. result.allowed = "RELEASE" => ~f
  BY <1>5
<1>. HIDE DEF f
<1>8. r \in TaskRecords
  BY <1>1, <1>4, <1>6 DEF TaskRecords
<1>9. RecordOK(r)
  BY <1>1, <1>5, <1>7 DEF RecordOK, TaskRecords
<1>. QED  BY <1>8, <1>9 DEF GoodRecord, f

-----------------------------------------------------------------------------
(* Every step keeps the tasks well formed.                                 *)
LEMMA ReturnKept ==
  ASSUME TypeOK, TasksOK, NEW t \in AllTasks, Return(t)
  PROVE  task' \in [AllTasks -> TaskRecords] /\ TasksOK'
BY BecomeKept, IdleGood DEF Return

(* No step makes a call ill formed.                                        *)
LEMMA TasksStep ==
  ASSUME TypeOK, TasksOK, [Next]_vars
  PROVE  task' \in [AllTasks -> TaskRecords] /\ TasksOK'
<1>. DEFINE Goal == task' \in [AllTasks -> TaskRecords] /\ TasksOK'
<1>0. \A t \in AllTasks : task[t] \in TaskRecords /\ RecordOK(task[t])
  BY DEF TypeOK, TasksOK
<1>00. Tasks \subseteq AllTasks /\ AutoTask \in AllTasks
  BY DEF AllTasks
<1>1. ASSUME NEW t \in Tasks, NEW h \in Holds, StartCreate(t, h)  PROVE Goal
  BY <1>00, <1>1, BecomeKept, NewTaskGood DEF StartCreate
<1>2. ASSUME NEW t \in Tasks, InsertHold(t)  PROVE Goal
  <2>1. task[t].hold \in Holds
    BY <1>0, <1>00, <1>2 DEF InsertHold, RecordOK
  <2>2. "HOLD_CREATED" \in LedgerTypes
    BY DEF LedgerTypes
  <2>. QED  BY <1>00, <1>2, <2>1, <2>2, BecomeKept, NewTaskGood DEF InsertHold
<1>3. ASSUME NEW t \in AllTasks, NEW h \in Holds, ReadForEvaluate(t, h)  PROVE Goal
  <2>1. GoodRecord(ScoreTask(h, NoVerdict))
    BY ScoreTaskGood
  <2>. QED  BY <1>3, <2>1, BecomeKept DEF ReadForEvaluate
<1>4. ASSUME NEW t \in Tasks, NEW h \in Holds, Rescore(t, h)  PROVE Goal
  <2>1. GoodRecord([ScoreTask(h, NoVerdict) EXCEPT !.pc = "inputs"])
    BY ScoreTaskGood
  <2>. QED  BY <1>00, <1>4, <2>1, BecomeKept DEF Rescore
<1>5. ASSUME NEW t \in Tasks, ReadInputs(t)  PROVE Goal
  <2>. DEFINE h == task[t].hold
              r == [task[t] EXCEPT !.pc = "score", !.verdict = evidence[h].verdict]
  <2>1. task[t] \in TaskRecords /\ h \in Holds
    BY <1>0, <1>00, <1>5 DEF ReadInputs, RecordOK
  <2>2. evidence[h].verdict \in Verdicts
    BY <1>5, <2>1 DEF ReadInputs, TypeOK, EvidenceRows
  <2>3. r \in TaskRecords
    BY <2>1, <2>2 DEF TaskRecords
  <2>4. RecordOK(r)
    BY <2>1 DEF RecordOK, TaskRecords
  <2>5. Become(t, r)
    BY <1>5 DEF ReadInputs
  <2>. QED  BY <1>00, <2>3, <2>4, <2>5, BecomeKept DEF GoodRecord
<1>6. ASSUME NEW t \in AllTasks, Score(t)  PROVE Goal
  <2>. DEFINE v == task[t].verdict
  <2>1. PICK p \in ModelPredictions :
          Become(t, Checking(t, Candidate(p, task[t].round, v), p, v, FALSE))
    BY <1>6 DEF Score
  <2>2. p \in Predictions /\ Candidate(p, task[t].round, v) \in Decisions
    BY HoldAssumption, CandidateType
  <2>3. v \in Verdicts \cup {NoVerdict}
    BY <1>0 DEF TaskRecords
  <2>4. GoodRecord(Checking(t, Candidate(p, task[t].round, v), p, v, FALSE))
    BY <1>6, <2>2, <2>3, CheckingGood DEF Score
  <2>. QED  BY <2>1, <2>4, BecomeKept
<1>7. ASSUME NEW t \in AllTasks, ScoreFails(t)  PROVE Goal
  <2>1. PICK v \in {task[t].verdict, NoVerdict} :
          Become(t, Checking(t, "ESCALATE", FailurePrediction, v, TRUE))
    BY <1>7 DEF ScoreFails
  <2>2. v \in Verdicts \cup {NoVerdict}
    BY <1>0, <2>1 DEF TaskRecords
  <2>3. GoodRecord(Checking(t, "ESCALATE", FailurePrediction, v, TRUE))
    BY <1>7, <2>2, FailurePredictionType, CheckingGood DEF ScoreFails, Decisions
  <2>. QED  BY <2>1, <2>3, BecomeKept
<1>8. ASSUME NEW t \in AllTasks, AskPolicy(t)  PROVE Goal
  <2>1. PICK result \in {OpaCheck(task[t].check), Unavailable} :
          Become(t, [task[t] EXCEPT !.pc = "save", !.check = None,
                       !.decision = result.allowed, !.stamp = clock[task[t].hold],
                       !.failed = @ \/ result = Unavailable])
    BY <1>8 DEF AskPolicy
  <2>2. clock[task[t].hold] \in Nat /\ task[t].pc = "policy"
    BY <1>0, <1>8 DEF AskPolicy, TypeOK, RecordOK
  <2>3. GoodRecord([task[t] EXCEPT !.pc = "save", !.check = None,
                       !.decision = result.allowed, !.stamp = clock[task[t].hold],
                       !.failed = @ \/ result = Unavailable])
    BY <2>2, SavingGood
  <2>. QED  BY <2>1, <2>3, BecomeKept
<1>9. ASSUME NEW t \in Tasks, NEW h \in Holds, NEW e \in EvidenceIds,
             StartEvidence(t, h, e)
      PROVE  Goal
  <2>1. PICK v \in VerifierAnswers :
          Become(t, [IdleTask EXCEPT !.pc = "evidence", !.hold = h, !.req = e,
                                     !.verdict = v])
    BY <1>9 DEF StartEvidence
  <2>2. v \in Verdicts
    BY HoldAssumption
  <2>. QED  BY <1>00, <2>1, <2>2, BecomeKept, NewTaskGood
<1>10. ASSUME NEW t \in Tasks, CommitEvidence(t)  PROVE Goal
  <2>1. task[t].hold \in Holds
    BY <1>0, <1>00, <1>10 DEF CommitEvidence, RecordOK
  <2>2. "EVIDENCE_SUBMITTED" \in LedgerTypes
    BY DEF LedgerTypes
  <2>. QED  BY <1>00, <1>10, <2>1, <2>2, BecomeKept, NewTaskGood DEF CommitEvidence
<1>11. ASSUME NEW t \in Tasks, NEW h \in Holds, NEW q \in ReviewIds, StartReview(t, h, q)
       PROVE  Goal
  <2>1. PICK s \in ClientReviews :
          Become(t, [IdleTask EXCEPT !.pc = "review", !.hold = h, !.req = q,
                                     !.submission = s])
    BY <1>11 DEF StartReview
  <2>2. s \in Submissions
    BY HoldAssumption
  <2>. QED  BY <1>00, <2>1, <2>2, BecomeKept, NewTaskGood
<1>12. ASSUME NEW t \in AllTasks, Return(t)  PROVE Goal
  BY <1>12, ReturnKept
<1>13. CASE UNCHANGED vars
  BY <1>0, <1>13 DEF vars, TypeOK, TasksOK
<1>. QED
  BY <1>00, <1>1, <1>2, <1>3, <1>4, <1>5, <1>6, <1>7, <1>8, <1>9, <1>10, <1>11, <1>12, <1>13
  DEF Next, Client, Scoring, Evaluate, AutomationEvaluate, InsertConflict, AppendLedger,
      InputsMissing, SaveDecision, SaveRefused, EvidenceRefused, CommitReview,
      ReviewRefused, Abort

-----------------------------------------------------------------------------
(* The four transactions that write the rows of a case.                    *)
caseRows == <<hold, decisions, evidence, reviews, audit, outbox>>

(* Only four transactions write rows of a case.                            *)
LEMMA RowWriters ==
  ASSUME [Next]_vars
  PROVE  \/ UNCHANGED caseRows
         \/ \E t \in AllTasks :
              InsertHold(t) \/ SaveDecision(t) \/ CommitEvidence(t) \/ CommitReview(t)
<1>1. Tasks \subseteq AllTasks
  BY DEF AllTasks
<1>2. ASSUME NEW t \in Tasks, Client(t)
      PROVE  UNCHANGED caseRows \/ InsertHold(t) \/ CommitEvidence(t) \/ CommitReview(t)
  BY <1>2
  DEF Client, rows, caseRows, StartCreate, InsertConflict, AppendLedger, Evaluate,
      ReadForEvaluate, Rescore, ReadInputs, InputsMissing, StartEvidence,
      EvidenceRefused, StartReview, ReviewRefused
<1>3. ASSUME NEW t \in AllTasks, Scoring(t) \/ Abort(t)
      PROVE  UNCHANGED caseRows \/ SaveDecision(t)
  BY <1>3 DEF Scoring, rows, caseRows, Score, ScoreFails, AskPolicy, SaveRefused, Abort
<1>4. ASSUME NEW h \in Holds, AutomationEvaluate(h)  PROVE UNCHANGED caseRows
  BY <1>4 DEF AutomationEvaluate, ReadForEvaluate, rows, caseRows
<1>5. UNCHANGED vars => UNCHANGED caseRows
  BY DEF vars, rows, caseRows
<1>. QED  BY <1>1, <1>2, <1>3, <1>4, <1>5 DEF Next

(* The latest recommendation exists, although its stamp may be older than  *)
(* its place in the commit order.                                          *)
LatestExists ==
  \A h \in Holds : decisions[h] # <<>> =>
    \E i \in DOMAIN decisions[h] :
      \A j \in DOMAIN decisions[h] : decisions[h][j].stamp <= decisions[h][i].stamp

(* What a submission stores is typed.                                      *)
LEMMA SubmissionTypes ==
  ASSUME NEW s \in Submissions
  PROVE  /\ ResolvedDecision(s) \in Decisions
         /\ TrainingLabel(s) \in {"RISKY", "LEGITIMATE", "UNRESOLVED"}
         /\ StateAfterReview(s) \in HoldStates
<1>1. ResolvedDecision(s) \in Decisions
  BY DEF Submissions, ResolvedDecision, ResolvedAction, Decisions, Actions, Outcomes
<1>2. TrainingLabel(s) \in {"RISKY", "LEGITIMATE", "UNRESOLVED"}
  BY DEF TrainingLabel
<1>3. StateAfterReview(s) \in HoldStates
  BY <1>1 DEF StateAfterReview, Decisions, HoldStates
<1>. QED  BY <1>1, <1>2, <1>3

(* The recommendation in force of a hold that has any is a decision.       *)
LEMMA RecommendationType ==
  ASSUME TypeOK, LatestExists, NEW h \in Holds, decisions[h] # <<>>
  PROVE  Recommendation(h) \in Decisions
<1>1. Latest(h) \in DOMAIN decisions[h]
  BY DEF Latest, LatestExists
<1>2. decisions[h] \in Seq(DecisionRows)
  BY DEF TypeOK
<1>3. decisions[h][Latest(h)] \in DecisionRows
  BY <1>1, <1>2
<1>. QED  BY <1>3 DEF Recommendation, DecisionRows

(* Appending to the history of one hold keeps its type.                    *)
LEMMA AppendTyped ==
  ASSUME NEW S, NEW f \in [Holds -> Seq(S)], NEW h \in Holds, NEW e \in S
  PROVE  [f EXCEPT ![h] = Append(@, e)] \in [Holds -> Seq(S)]
<1>1. Append(f[h], e) \in Seq(S)
  OBVIOUS
<1>. QED  BY <1>1

(* Every step keeps the types.                                             *)
LEMMA TypeStep ==
  ASSUME TypeOK, TasksOK, LatestExists, [Next]_vars
  PROVE  TypeOK'
<1>0. \A t \in AllTasks : task[t] \in TaskRecords /\ RecordOK(task[t])
  BY DEF TypeOK, TasksOK
<1>1. task' \in [AllTasks -> TaskRecords]
  BY TasksStep
<1>2. /\ hold' \in [Holds -> HoldRows] /\ evidence' \in [Holds -> EvidenceRows \cup {None}]
      /\ decisions' \in [Holds -> Seq(DecisionRows)] /\ reviews' \in [Holds -> Seq(ReviewRows)]
      /\ audit' \in [Holds -> Seq(AuditEvents)] /\ outbox' \in [Holds -> Seq(EventTypes)]
  <2>1. ASSUME NEW t \in AllTasks, InsertHold(t)  PROVE <1>2!:
    BY <2>1 DEF InsertHold, TypeOK, HoldRows, HoldStates
  <2>2. ASSUME NEW t \in AllTasks, CommitEvidence(t)  PROVE <1>2!:
    BY <1>0, <2>2 DEF CommitEvidence, TypeOK, HoldRows, HoldStates, EvidenceRows, RecordOK
  <2>3. ASSUME NEW t \in AllTasks, SaveDecision(t)  PROVE <1>2!:
    <3>. DEFINE h == task[t].hold
    <3>1. h \in Holds
      BY <1>0, <2>3 DEF SaveDecision, RecordOK
    <3>2. StateForDecision(task[t].decision) \in HoldStates
      BY DEF StateForDecision, HoldStates
    <3>3. DecisionRow(t) \in DecisionRows
      BY <1>0 DEF DecisionRow, DecisionRows, TaskRecords
    <3>4. DecisionEvent(t) \in AuditEvents
      BY <1>0 DEF DecisionEvent, AuditEvents, TaskRecords
    <3>5. hold' \in [Holds -> HoldRows]
      BY <2>3, <3>1, <3>2 DEF SaveDecision, TypeOK, HoldRows
    <3>6. decisions' \in [Holds -> Seq(DecisionRows)]
      BY <2>3, <3>1, <3>3, AppendTyped DEF SaveDecision, TypeOK
    <3>7. audit' \in [Holds -> Seq(AuditEvents)]
      BY <2>3, <3>1, <3>4, AppendTyped DEF SaveDecision, TypeOK
    <3>8. outbox' \in [Holds -> Seq(EventTypes)]
      <4>1. "RISK_DECISION" \in EventTypes
        BY DEF EventTypes
      <4>. QED  BY <2>3, <3>1, <4>1, AppendTyped DEF SaveDecision, TypeOK
    <3>. QED
      BY <2>3, <3>5, <3>6, <3>7, <3>8 DEF SaveDecision, TypeOK
  <2>4. ASSUME NEW t \in AllTasks, CommitReview(t)  PROVE <1>2!:
    <3>. DEFINE h == task[t].hold
                s == task[t].submission
    <3>1. h \in Holds /\ s \in Submissions /\ task[t].req \in ReviewIds
      BY <1>0, <2>4 DEF CommitReview, RecordOK
    <3>2. Recommendation(h) \in Decisions
      BY <2>4, <3>1, RecommendationType DEF CommitReview, ReviewAccepted
    <3>3. ReviewRow(t) \in ReviewRows
      BY <3>1, <3>2, SubmissionTypes DEF ReviewRow, ReviewRows
    <3>4. ReviewEvent(s) \in AuditEvents
      BY <3>1, SubmissionTypes DEF ReviewEvent, AuditEvents
    <3>5. hold' \in [Holds -> HoldRows]
      BY <2>4, <3>1, SubmissionTypes DEF CommitReview, TypeOK, HoldRows
    <3>6. reviews' \in [Holds -> Seq(ReviewRows)]
      BY <2>4, <3>1, <3>3, AppendTyped DEF CommitReview, TypeOK
    <3>7. audit' \in [Holds -> Seq(AuditEvents)]
      BY <2>4, <3>1, <3>4, AppendTyped DEF CommitReview, TypeOK
    <3>8. outbox' \in [Holds -> Seq(EventTypes)]
      <4>1. "ANALYST_OUTCOME_RECORDED" \in EventTypes
        BY DEF EventTypes
      <4>. QED  BY <2>4, <3>1, <4>1, AppendTyped DEF CommitReview, TypeOK
    <3>. QED
      BY <2>4, <3>5, <3>6, <3>7, <3>8 DEF CommitReview, TypeOK
  <2>. QED
    BY <2>1, <2>2, <2>3, <2>4, RowWriters DEF caseRows, TypeOK
<1>3. snapshot' \in [Holds -> BOOLEAN] /\ ledger' \in [Holds -> Seq(LedgerTypes)]
      /\ clock' \in [Holds -> Nat] /\ calls' \in [Holds -> Nat] /\ aborts' \in Nat
  <2>1. ASSUME NEW t \in AllTasks, Score(t) \/ ScoreFails(t) \/ AskPolicy(t)  PROVE <1>3!:
    <3>1. task[t].hold \in Holds
      BY <1>0, <2>1 DEF Score, ScoreFails, AskPolicy, RecordOK
    <3>2. CASE Score(t)
      BY <3>1, <3>2 DEF Score, TypeOK, rows
    <3>3. CASE ScoreFails(t)
      <4>1. PICK stored \in BOOLEAN :
              snapshot' = [snapshot EXCEPT ![task[t].hold] = @ \/ stored]
        BY <3>3 DEF ScoreFails
      <4>2. snapshot[task[t].hold] \/ stored \in BOOLEAN
        OBVIOUS
      <4>. QED  BY <3>1, <3>3, <4>1, <4>2 DEF ScoreFails, TypeOK, rows
    <3>4. CASE AskPolicy(t)
      BY <3>1, <3>4 DEF AskPolicy, TypeOK, rows
    <3>. QED  BY <2>1, <3>2, <3>3, <3>4
  <2>2. ASSUME NEW t \in AllTasks, AppendLedger(t)  PROVE <1>3!:
    <3>1. task[t].hold \in Holds /\ task[t].req \in LedgerTypes
      BY <1>0, <2>2 DEF AppendLedger, RecordOK
    <3>. QED  BY <2>2, <3>1, AppendTyped DEF AppendLedger, TypeOK, rows
  <2>3. ASSUME NEW t \in AllTasks, NEW h \in Holds,
               Evaluate(t, h) \/ AutomationEvaluate(h) \/ Rescore(t, h)
        PROVE  <1>3!:
    <3>1. /\ UNCHANGED <<snapshot, ledger, clock, aborts>>
          /\ calls' = calls \/ calls' = [calls EXCEPT ![h] = @ + 1]
      BY <2>3 DEF Evaluate, AutomationEvaluate, ReadForEvaluate, Rescore, rows
    <3>2. calls \in [Holds -> Nat] /\ calls[h] + 1 \in Nat
      BY DEF TypeOK
    <3>3. [calls EXCEPT ![h] = @ + 1] \in [Holds -> Nat]
      BY <3>2
    <3>. QED  BY <3>1, <3>2, <3>3 DEF TypeOK
  <2>4. ASSUME NEW t \in AllTasks,
               \/ InsertHold(t) \/ SaveDecision(t) \/ CommitEvidence(t) \/ CommitReview(t)
        PROVE  <1>3!:
    BY <2>4 DEF InsertHold, SaveDecision, CommitEvidence, CommitReview, TypeOK
  <2>5. ASSUME NEW t \in AllTasks, Abort(t)  PROVE <1>3!:
    BY <2>5 DEF Abort, TypeOK, rows
  <2>6. ASSUME UNCHANGED <<snapshot, ledger, clock, calls, aborts>>  PROVE <1>3!:
    BY <2>6 DEF TypeOK
  <2>7. Tasks \subseteq AllTasks /\ AutoTask \in AllTasks
    BY DEF AllTasks
  <2>. QED
    BY <2>1, <2>2, <2>3, <2>4, <2>5, <2>6, <2>7
    DEF Next, vars, rows, Client, Scoring, StartCreate, InsertConflict, ReadInputs,
        InputsMissing, SaveRefused, StartEvidence, EvidenceRefused, StartReview,
        ReviewRefused
<1>. QED  BY <1>1, <1>2, <1>3 DEF TypeOK

-----------------------------------------------------------------------------
(* The rest of the invariant.  A hold that was never created is blank; a   *)
(* review's audit event carries the decision its submission resolves to.   *)
AbsentIsBlank ==
  \A h \in Holds : hold[h].state = "ABSENT" =>
    hold[h].round = 0 /\ evidence[h] = None /\ audit[h] = <<>>

ReviewEventsAgree ==
  \A h \in Holds : \A i \in DOMAIN audit[h] :
    audit[h][i].type = "ANALYST_OUTCOME_RECORDED" =>
      /\ audit[h][i].submission \in Submissions
      /\ audit[h][i].decision = ResolvedDecision(audit[h][i].submission)

(* A call that is scoring a hold no one has touched since it was read is   *)
(* scoring an open case.                                                   *)
ScoringPcs == {"inputs", "score", "policy", "save"}

FreshCallsAreOpen ==
  \A t \in AllTasks : task[t].pc \in ScoringPcs =>
    /\ task[t].seen <= Len(audit[task[t].hold])
    /\ task[t].seen = Len(audit[task[t].hold]) => hold[task[t].hold].state \notin Terminal

IInv ==
  /\ TypeOK /\ TasksOK /\ LatestExists
  /\ AbsentIsBlank /\ ReviewEventsAgree /\ FreshCallsAreOpen
  /\ OneEvidenceRound /\ AuditExplainsState /\ ReleaseRecommendationIsSound

(* The invariant holds at the start.                                       *)
LEMMA InitIInv == Init => IInv
<1>. SUFFICES ASSUME Init  PROVE IInv
  OBVIOUS
<1>1. task \in [AllTasks -> TaskRecords] /\ TasksOK
  BY IdleGood DEF Init, TasksOK, GoodRecord
<1>2. TypeOK
  BY <1>1 DEF Init, TypeOK, HoldRows
<1>3. LatestExists /\ ReleaseRecommendationIsSound /\ ReviewEventsAgree
  BY DEF Init, LatestExists, ReleaseRecommendationIsSound, ReviewEventsAgree
<1>4. AbsentIsBlank /\ OneEvidenceRound /\ AuditExplainsState
  BY DEF Init, AbsentIsBlank, OneEvidenceRound, AuditExplainsState
<1>5. FreshCallsAreOpen
  BY DEF Init, FreshCallsAreOpen, ScoringPcs, IdleTask
<1>. QED  BY <1>1, <1>2, <1>3, <1>4, <1>5 DEF IInv

(* What appending e to the rows of h does.                                 *)
Grows(g, f, h, e) ==
  /\ Len(f[h]) \in Nat /\ DOMAIN f[h] = 1 .. Len(f[h])
  /\ Len(g[h]) = Len(f[h]) + 1 /\ DOMAIN g[h] = 1 .. Len(f[h]) + 1
  /\ g[h] # <<>> /\ g[h][Len(f[h]) + 1] = e
  /\ \A i \in DOMAIN f[h] : g[h][i] = f[h][i]
  /\ \A x \in Holds \ {h} : g[x] = f[x]

(* Appending to one history grows that one and no other.                   *)
LEMMA AppendGrows ==
  ASSUME NEW S, NEW f \in [Holds -> Seq(S)], NEW h \in Holds, NEW e
  PROVE  Grows([f EXCEPT ![h] = Append(@, e)], f, h, e)
<1>. DEFINE g == [f EXCEPT ![h] = Append(@, e)]
<1>1. g[h] = Append(f[h], e) /\ f[h] \in Seq(S)
  OBVIOUS
<1>2. \A x \in Holds \ {h} : g[x] = f[x]
  OBVIOUS
<1>. HIDE DEF g
<1>3. Grows(g, f, h, e)
  BY <1>1, <1>2 DEF Grows
<1>. QED  BY <1>3 DEF g

(* The four transactions, each as its effect on the rows.                  *)
OnlyState(h, state) ==
  /\ hold'[h].state = state /\ hold'[h].round = hold[h].round
  /\ \A x \in Holds \ {h} : hold'[x] = hold[x]

(* What saving a recommendation does to the rows.                          *)
LEMMA SaveEffect ==
  ASSUME TypeOK, TasksOK, NEW t \in AllTasks, SaveDecision(t),
         NEW h, h = task[t].hold
  PROVE  /\ h \in Holds
         /\ OnlyState(h, StateForDecision(task[t].decision))
         /\ Grows(audit', audit, h, DecisionEvent(t))
         /\ Grows(decisions', decisions, h, DecisionRow(t))
<1>1. h \in Holds
  BY DEF SaveDecision, TasksOK, RecordOK
<1>2. OnlyState(h, StateForDecision(task[t].decision))
  BY <1>1 DEF SaveDecision, OnlyState, TypeOK, HoldRows
<1>3. Grows(audit', audit, h, DecisionEvent(t))
  BY <1>1, AppendGrows DEF SaveDecision, TypeOK
<1>4. Grows(decisions', decisions, h, DecisionRow(t))
  BY <1>1, AppendGrows DEF SaveDecision, TypeOK
<1>. QED  BY <1>1, <1>2, <1>3, <1>4

(* What an accepted review does to the rows.                               *)
LEMMA ReviewEffect ==
  ASSUME TypeOK, TasksOK, NEW t \in AllTasks, CommitReview(t),
         NEW h, h = task[t].hold, NEW s, s = task[t].submission
  PROVE  /\ h \in Holds /\ s \in Submissions
         /\ OnlyState(h, StateAfterReview(s))
         /\ Grows(audit', audit, h, ReviewEvent(s))
<1>1. h \in Holds /\ s \in Submissions
  BY DEF CommitReview, TasksOK, RecordOK
<1>2. OnlyState(h, StateAfterReview(s))
  BY <1>1 DEF CommitReview, OnlyState, TypeOK, HoldRows
<1>3. Grows(audit', audit, h, ReviewEvent(s))
  BY <1>1, AppendGrows DEF CommitReview, TypeOK
<1>. QED  BY <1>1, <1>2, <1>3

(* What accepted evidence does to the rows.                                *)
LEMMA EvidenceEffect ==
  ASSUME TypeOK, TasksOK, NEW t \in AllTasks, CommitEvidence(t),
         NEW h, h = task[t].hold
  PROVE  /\ h \in Holds
         /\ hold[h].state = "AWAITING_EVIDENCE" /\ hold[h].round = 0
         /\ hold'[h].state = "EVIDENCE_SUBMITTED" /\ hold'[h].round = 1
         /\ evidence'[h] # None /\ audit' = audit
         /\ \A x \in Holds \ {h} : hold'[x] = hold[x] /\ evidence'[x] = evidence[x]
<1>1. h \in Holds /\ task[t].req \in EvidenceIds /\ task[t].verdict \in Verdicts
  BY DEF CommitEvidence, TasksOK, RecordOK
<1>2. evidence'[h] \in EvidenceRows
  BY <1>1 DEF CommitEvidence, TypeOK, EvidenceRows
<1>. QED
  BY <1>1, <1>2, NoneAssumption DEF CommitEvidence, EvidenceAccepted, TypeOK

(* What creating a hold does to the rows.                                  *)
LEMMA InsertEffect ==
  ASSUME TypeOK, TasksOK, NEW t \in AllTasks, InsertHold(t),
         NEW h, h = task[t].hold
  PROVE  /\ h \in Holds /\ hold[h].state = "ABSENT"
         /\ hold'[h].state = "OPEN" /\ hold'[h].round = 0
         /\ \A x \in Holds \ {h} : hold'[x] = hold[x]
<1>1. h \in Holds
  BY DEF InsertHold, TasksOK, RecordOK
<1>. QED  BY <1>1 DEF InsertHold, TypeOK

-----------------------------------------------------------------------------
(* Each part of the invariant, over the four transactions.                 *)
LEMMA LatestStep ==
  ASSUME TypeOK, TasksOK, LatestExists, [Next]_vars
  PROVE  LatestExists'
<1>1. ASSUME NEW t \in AllTasks, SaveDecision(t)  PROVE LatestExists'
  <2>. DEFINE h == task[t].hold
  <2>0. h \in Holds /\ Grows(decisions', decisions, h, DecisionRow(t))
    BY <1>1, SaveEffect
  <2>1. \A i \in DOMAIN decisions[h] : decisions[h][i].stamp \in Nat
    <3>1. decisions[h] \in Seq(DecisionRows)
      BY <2>0 DEF TypeOK
    <3>2. \A i \in DOMAIN decisions[h] : decisions[h][i] \in DecisionRows
      BY <3>1
    <3>. QED  BY <3>2 DEF DecisionRows
  <2>2. DecisionRow(t).stamp \in Nat
    BY DEF DecisionRow, TypeOK, TaskRecords
  <2>3. ASSUME NEW x \in Holds, decisions'[x] # <<>>
        PROVE  \E i \in DOMAIN decisions'[x] :
                 \A j \in DOMAIN decisions'[x] : decisions'[x][j].stamp <= decisions'[x][i].stamp
    <3>1. CASE x # h
      BY <2>0, <2>3, <3>1 DEF Grows, LatestExists
    <3>2. CASE x = h /\ decisions[h] = <<>>
      <4>1. DOMAIN decisions'[h] = {1} /\ decisions'[h][1] = DecisionRow(t)
        BY <2>0, <3>2 DEF Grows
      <4>. QED  BY <2>2, <3>2, <4>1
    <3>3. CASE x = h /\ decisions[h] # <<>>
      <4>1. PICK i \in DOMAIN decisions[h] :
              \A j \in DOMAIN decisions[h] : decisions[h][j].stamp <= decisions[h][i].stamp
        BY <2>0, <3>3 DEF LatestExists
      <4>. DEFINE n == Len(decisions[h]) + 1
      <4>2. /\ DOMAIN decisions'[h] = DOMAIN decisions[h] \cup {n}
            /\ decisions'[h][n] = DecisionRow(t)
            /\ \A j \in DOMAIN decisions[h] : decisions'[h][j] = decisions[h][j]
        BY <2>0 DEF Grows
      <4>. HIDE DEF n, h
      <4>3. CASE DecisionRow(t).stamp <= decisions[h][i].stamp
        <5>1. \A j \in DOMAIN decisions'[h] :
                decisions'[h][j].stamp <= decisions'[h][i].stamp
          BY <4>1, <4>2, <4>3
        <5>. QED  BY <3>3, <4>2, <5>1
      <4>4. CASE decisions[h][i].stamp <= DecisionRow(t).stamp
        <5>1. ASSUME NEW j \in DOMAIN decisions'[h]
              PROVE  decisions'[h][j].stamp <= decisions'[h][n].stamp
          BY <2>1, <2>2, <4>1, <4>2, <4>4
        <5>. QED  BY <3>3, <4>2, <5>1
      <4>. QED  BY <2>1, <2>2, <4>3, <4>4
    <3>. QED  BY <3>1, <3>2, <3>3
  <2>. QED  BY <2>3 DEF LatestExists
<1>2. ASSUME UNCHANGED decisions  PROVE LatestExists'
  BY <1>2 DEF LatestExists
<1>. QED
  BY <1>1, <1>2, RowWriters DEF caseRows, InsertHold, CommitEvidence, CommitReview

(* A hold that does not exist stays without rows.                          *)
LEMMA AbsentStep ==
  ASSUME TypeOK, TasksOK, AbsentIsBlank, [Next]_vars
  PROVE  AbsentIsBlank'
<1>1. ASSUME NEW t \in AllTasks, SaveDecision(t)  PROVE AbsentIsBlank'
  <2>. DEFINE h == task[t].hold
  <2>1. /\ h \in Holds /\ OnlyState(h, StateForDecision(task[t].decision))
        /\ Grows(audit', audit, h, DecisionEvent(t)) /\ evidence' = evidence
    BY <1>1, SaveEffect DEF SaveDecision
  <2>2. hold'[h].state # "ABSENT"
    BY <2>1 DEF OnlyState, StateForDecision
  <2>3. \A x \in Holds \ {h} : hold'[x] = hold[x] /\ audit'[x] = audit[x]
    BY <2>1 DEF OnlyState, Grows
  <2>. HIDE DEF h
  <2>. QED  BY <2>1, <2>2, <2>3 DEF AbsentIsBlank
<1>2. ASSUME NEW t \in AllTasks, CommitReview(t)  PROVE AbsentIsBlank'
  <2>. DEFINE h == task[t].hold
              s == task[t].submission
  <2>1. /\ h \in Holds /\ s \in Submissions /\ OnlyState(h, StateAfterReview(s))
        /\ Grows(audit', audit, h, ReviewEvent(s)) /\ evidence' = evidence
    BY <1>2, ReviewEffect DEF CommitReview
  <2>2. hold'[h].state # "ABSENT"
    BY <2>1, SubmissionTypes DEF OnlyState, HoldStates
  <2>3. \A x \in Holds \ {h} : hold'[x] = hold[x] /\ audit'[x] = audit[x]
    BY <2>1 DEF OnlyState, Grows
  <2>. HIDE DEF h
  <2>. QED  BY <2>1, <2>2, <2>3 DEF AbsentIsBlank
<1>3. ASSUME NEW t \in AllTasks, CommitEvidence(t)  PROVE AbsentIsBlank'
  <2>. DEFINE h == task[t].hold
  <2>1. /\ h \in Holds /\ hold'[h].state = "EVIDENCE_SUBMITTED" /\ audit' = audit
        /\ \A x \in Holds \ {h} : hold'[x] = hold[x] /\ evidence'[x] = evidence[x]
    BY <1>3, EvidenceEffect
  <2>. HIDE DEF h
  <2>. QED  BY <2>1 DEF AbsentIsBlank
<1>4. ASSUME NEW t \in AllTasks, InsertHold(t)  PROVE AbsentIsBlank'
  <2>. DEFINE h == task[t].hold
  <2>1. /\ h \in Holds /\ hold'[h].state = "OPEN" /\ UNCHANGED <<audit, evidence>>
        /\ \A x \in Holds \ {h} : hold'[x] = hold[x]
    BY <1>4, InsertEffect DEF InsertHold
  <2>. HIDE DEF h
  <2>. QED  BY <2>1 DEF AbsentIsBlank
<1>5. ASSUME UNCHANGED caseRows  PROVE AbsentIsBlank'
  BY <1>5 DEF caseRows, AbsentIsBlank
<1>. QED  BY <1>1, <1>2, <1>3, <1>4, <1>5, RowWriters

(* Every review record names the decision its submission resolves to.      *)
LEMMA ReviewEventsStep ==
  ASSUME TypeOK, TasksOK, ReviewEventsAgree, [Next]_vars
  PROVE  ReviewEventsAgree'
<1>. DEFINE Agrees(e) == e.type = "ANALYST_OUTCOME_RECORDED" =>
              e.submission \in Submissions /\ e.decision = ResolvedDecision(e.submission)
<1>1. ASSUME NEW h \in Holds, NEW e, Agrees(e), Grows(audit', audit, h, e)
      PROVE  ReviewEventsAgree'
  <2>1. \A x \in Holds : \A i \in DOMAIN audit[x] : Agrees(audit[x][i])
    BY DEF ReviewEventsAgree
  <2>. HIDE DEF Agrees
  <2>2. \A x \in Holds : \A i \in DOMAIN audit'[x] : Agrees(audit'[x][i])
    BY <1>1, <2>1 DEF Grows
  <2>. QED  BY <2>2 DEF ReviewEventsAgree, Agrees
<1>2. ASSUME NEW t \in AllTasks, SaveDecision(t)  PROVE ReviewEventsAgree'
  <2>1. Agrees(DecisionEvent(t))
    BY DEF DecisionEvent
  <2>2. task[t].hold \in Holds /\ Grows(audit', audit, task[t].hold, DecisionEvent(t))
    BY <1>2, SaveEffect
  <2>. HIDE DEF Agrees
  <2>. QED  BY <1>1, <2>1, <2>2
<1>3. ASSUME NEW t \in AllTasks, CommitReview(t)  PROVE ReviewEventsAgree'
  <2>. DEFINE s == task[t].submission
  <2>1. /\ s \in Submissions /\ task[t].hold \in Holds
        /\ Grows(audit', audit, task[t].hold, ReviewEvent(s))
    BY <1>3, ReviewEffect
  <2>2. Agrees(ReviewEvent(s))
    BY <2>1 DEF ReviewEvent
  <2>. HIDE DEF Agrees
  <2>. QED  BY <1>1, <2>1, <2>2
<1>4. ASSUME UNCHANGED audit  PROVE ReviewEventsAgree'
  BY <1>4 DEF ReviewEventsAgree
<1>. QED
  BY <1>2, <1>3, <1>4, RowWriters DEF caseRows, InsertHold, CommitEvidence

(* No step opens a second evidence round.                                  *)
LEMMA EvidenceStep ==
  ASSUME TypeOK, TasksOK, AbsentIsBlank, OneEvidenceRound, [Next]_vars
  PROVE  OneEvidenceRound'
<1>1. ASSUME NEW t \in AllTasks, SaveDecision(t)  PROVE OneEvidenceRound'
  <2>. DEFINE h == task[t].hold
  <2>1. h \in Holds /\ OnlyState(h, StateForDecision(task[t].decision))
        /\ evidence' = evidence /\ ~SecondRound(task[t].decision, hold[h].round)
    BY <1>1, SaveEffect DEF SaveDecision
  <2>2. hold[h].round \in {0, 1}
    BY <2>1 DEF TypeOK, HoldRows
  <2>3. hold'[h].state = "AWAITING_EVIDENCE" => hold'[h].round = 0
    BY <2>1, <2>2 DEF OnlyState, StateForDecision, SecondRound
  <2>4. hold'[h].state # "EVIDENCE_SUBMITTED"
    BY <2>1 DEF OnlyState, StateForDecision
  <2>. QED  BY <2>1, <2>3, <2>4 DEF OneEvidenceRound, OnlyState
<1>2. ASSUME NEW t \in AllTasks, CommitReview(t)  PROVE OneEvidenceRound'
  <2>. DEFINE h == task[t].hold
              s == task[t].submission
  <2>1. h \in Holds /\ s \in Submissions /\ OnlyState(h, StateAfterReview(s))
        /\ evidence' = evidence /\ ~SecondRound(ResolvedDecision(s), hold[h].round)
    BY <1>2, ReviewEffect DEF CommitReview, ReviewAccepted
  <2>2. hold[h].round \in {0, 1} /\ ResolvedDecision(s) \in Decisions
    BY <2>1, SubmissionTypes DEF TypeOK, HoldRows
  <2>3. StateAfterReview(s) = "AWAITING_EVIDENCE" => ResolvedDecision(s) = "EVIDENCE_NEEDED"
    BY <2>2 DEF StateAfterReview, Decisions
  <2>4. StateAfterReview(s) # "EVIDENCE_SUBMITTED"
    BY <2>2 DEF StateAfterReview, Decisions
  <2>5. hold'[h].state = "AWAITING_EVIDENCE" => hold'[h].round = 0
    BY <2>1, <2>2, <2>3 DEF OnlyState, SecondRound
  <2>. QED  BY <2>1, <2>4, <2>5 DEF OneEvidenceRound, OnlyState
<1>3. ASSUME NEW t \in AllTasks, CommitEvidence(t)  PROVE OneEvidenceRound'
  BY <1>3, EvidenceEffect DEF OneEvidenceRound
<1>4. ASSUME NEW t \in AllTasks, InsertHold(t)  PROVE OneEvidenceRound'
  <2>. DEFINE h == task[t].hold
  <2>1. /\ h \in Holds /\ hold[h].state = "ABSENT" /\ evidence' = evidence
        /\ hold'[h].state = "OPEN" /\ hold'[h].round = 0
        /\ \A x \in Holds \ {h} : hold'[x] = hold[x]
    BY <1>4, InsertEffect DEF InsertHold
  <2>2. evidence[h] = None
    BY <2>1 DEF AbsentIsBlank
  <2>. HIDE DEF h
  <2>. QED  BY <2>1, <2>2 DEF OneEvidenceRound
<1>5. ASSUME UNCHANGED caseRows  PROVE OneEvidenceRound'
  BY <1>5 DEF caseRows, OneEvidenceRound
<1>. QED  BY <1>1, <1>2, <1>3, <1>4, <1>5, RowWriters

(* Every step leaves the last record accounting for the state.             *)
LEMMA AuditStep ==
  ASSUME TypeOK, TasksOK, AbsentIsBlank, ReviewEventsAgree, OneEvidenceRound,
         AuditExplainsState, [Next]_vars
  PROVE  AuditExplainsState'
<1>0. \A x \in Holds : Len(audit[x]) \in Nat /\ (audit[x] # <<>> => Len(audit[x]) \in DOMAIN audit[x])
  BY DEF TypeOK
<1>1. ASSUME NEW t \in AllTasks, SaveDecision(t)  PROVE AuditExplainsState'
  <2>. DEFINE h == task[t].hold
              d == task[t].decision
  <2>1. /\ h \in Holds /\ OnlyState(h, StateForDecision(d))
        /\ Grows(audit', audit, h, DecisionEvent(t)) /\ evidence' = evidence
        /\ ~SecondRound(d, hold[h].round)
    BY <1>1, SaveEffect DEF SaveDecision
  <2>2. audit'[h] # <<>> /\ audit'[h][Len(audit'[h])] = DecisionEvent(t)
    BY <2>1 DEF Grows
  <2>3. DecisionEvent(t).type = "RISK_DECISION" /\ DecisionEvent(t).decision = d
    BY DEF DecisionEvent
  <2>4. d = "EVIDENCE_NEEDED" => evidence[h] = None
    BY <2>1 DEF SecondRound, OneEvidenceRound, TypeOK, HoldRows
  <2>5. hold'[h].state = ExplainedBy(audit'[h], evidence'[h])
    BY <2>1, <2>2, <2>3, <2>4
    DEF OnlyState, StateForDecision, ExplainedBy
  <2>6. \A x \in Holds \ {h} : hold'[x] = hold[x] /\ audit'[x] = audit[x]
    BY <2>1 DEF OnlyState, Grows
  <2>. HIDE DEF h
  <2>. QED
    BY <2>1, <2>5, <2>6 DEF AuditExplainsState
<1>2. ASSUME NEW t \in AllTasks, CommitReview(t)  PROVE AuditExplainsState'
  <2>. DEFINE h == task[t].hold
              s == task[t].submission
  <2>1. /\ h \in Holds /\ s \in Submissions /\ OnlyState(h, StateAfterReview(s))
        /\ Grows(audit', audit, h, ReviewEvent(s)) /\ evidence' = evidence
        /\ ~SecondRound(ResolvedDecision(s), hold[h].round)
    BY <1>2, ReviewEffect DEF CommitReview, ReviewAccepted
  <2>2. audit'[h] # <<>> /\ audit'[h][Len(audit'[h])] = ReviewEvent(s)
    BY <2>1 DEF Grows
  <2>3. /\ ReviewEvent(s).type = "ANALYST_OUTCOME_RECORDED"
        /\ ReviewEvent(s).decision = ResolvedDecision(s) /\ ReviewEvent(s).submission = s
    BY DEF ReviewEvent
  <2>4. ResolvedDecision(s) = "EVIDENCE_NEEDED" =>
          evidence[h] = None /\ StateAfterReview(s) = "AWAITING_EVIDENCE"
    BY <2>1 DEF SecondRound, OneEvidenceRound, TypeOK, HoldRows, StateAfterReview
  <2>. HIDE DEF s
  <2>5. hold'[h].state = ExplainedBy(audit'[h], evidence'[h])
    BY <2>1, <2>2, <2>3, <2>4 DEF OnlyState, ExplainedBy
  <2>6. \A x \in Holds \ {h} : hold'[x] = hold[x] /\ audit'[x] = audit[x]
    BY <2>1 DEF OnlyState, Grows
  <2>. HIDE DEF h
  <2>. QED
    BY <2>1, <2>5, <2>6 DEF AuditExplainsState
<1>3. ASSUME NEW t \in AllTasks, CommitEvidence(t)  PROVE AuditExplainsState'
  <2>. DEFINE h == task[t].hold
              last == audit[h][Len(audit[h])]
  <2>1. /\ h \in Holds /\ hold[h].state = "AWAITING_EVIDENCE"
        /\ hold'[h].state = "EVIDENCE_SUBMITTED" /\ audit' = audit /\ evidence'[h] # None
        /\ \A x \in Holds \ {h} : hold'[x] = hold[x] /\ evidence'[x] = evidence[x]
    BY <1>3, EvidenceEffect
  <2>2. ExplainedBy(audit[h], evidence[h]) = "AWAITING_EVIDENCE"
    BY <2>1 DEF AuditExplainsState
  <2>3. audit[h] # <<>> /\ (last.type = "RISK_DECISION" => last.decision = "EVIDENCE_NEEDED")
    BY <2>2 DEF ExplainedBy
  <2>4. last \in AuditEvents
    BY <1>0, <2>1, <2>3 DEF TypeOK
  <2>5. ASSUME last.type = "ANALYST_OUTCOME_RECORDED"
        PROVE  last.decision = "EVIDENCE_NEEDED"
    <3>1. last.submission \in Submissions /\ last.decision = ResolvedDecision(last.submission)
      BY <1>0, <2>1, <2>3, <2>5 DEF ReviewEventsAgree
    <3>2. StateAfterReview(last.submission) = "AWAITING_EVIDENCE" =>
            last.decision = "EVIDENCE_NEEDED"
      BY <3>1, SubmissionTypes DEF StateAfterReview, Decisions
    <3>3. last.decision = "EVIDENCE_NEEDED"
      BY <2>2, <2>3, <2>5, <3>2 DEF ExplainedBy
    <3>. QED  BY <3>3
  <2>6. last.decision = "EVIDENCE_NEEDED"
    BY <2>3, <2>4, <2>5 DEF AuditEvents
  <2>7. hold'[h].state = ExplainedBy(audit'[h], evidence'[h])
    BY <2>1, <2>3, <2>6 DEF ExplainedBy
  <2>. HIDE DEF h, last
  <2>. QED
    BY <2>1, <2>7 DEF AuditExplainsState
<1>4. ASSUME NEW t \in AllTasks, InsertHold(t)  PROVE AuditExplainsState'
  <2>. DEFINE h == task[t].hold
  <2>1. /\ h \in Holds /\ hold[h].state = "ABSENT" /\ UNCHANGED <<audit, evidence>>
        /\ hold'[h].state = "OPEN" /\ \A x \in Holds \ {h} : hold'[x] = hold[x]
    BY <1>4, InsertEffect DEF InsertHold
  <2>2. audit[h] = <<>>
    BY <2>1 DEF AbsentIsBlank
  <2>. HIDE DEF h
  <2>. QED
    BY <2>1, <2>2 DEF AuditExplainsState, ExplainedBy
<1>5. ASSUME UNCHANGED caseRows  PROVE AuditExplainsState'
  BY <1>5 DEF caseRows, AuditExplainsState
<1>. QED  BY <1>1, <1>2, <1>3, <1>4, <1>5, RowWriters

(* Every stored RELEASE stays justified.                                   *)
LEMMA ReleaseStep ==
  ASSUME TypeOK, TasksOK, ReleaseRecommendationIsSound, [Next]_vars
  PROVE  ReleaseRecommendationIsSound'
<1>. DEFINE SoundRow(r) == r.decision = "RELEASE" =>
              ~r.failed /\ (r.round = 1 => r.verdict = "SUPPORTED")
<1>1. ASSUME NEW t \in AllTasks, SaveDecision(t)  PROVE ReleaseRecommendationIsSound'
  <2>1. SoundRow(DecisionRow(t))
    BY <1>1 DEF SaveDecision, DecisionRow, TasksOK, RecordOK
  <2>2. task[t].hold \in Holds /\ Grows(decisions', decisions, task[t].hold, DecisionRow(t))
    BY <1>1, SaveEffect
  <2>3. \A x \in Holds : \A i \in DOMAIN decisions[x] : SoundRow(decisions[x][i])
    BY DEF ReleaseRecommendationIsSound
  <2>. HIDE DEF SoundRow
  <2>4. ASSUME NEW x \in Holds, NEW i \in DOMAIN decisions'[x]
        PROVE  SoundRow(decisions'[x][i])
    <3>1. CASE x # task[t].hold
      BY <2>2, <2>3, <3>1 DEF Grows
    <3>2. CASE x = task[t].hold /\ i = Len(decisions[x]) + 1
      BY <2>1, <2>2, <3>2 DEF Grows
    <3>3. CASE x = task[t].hold /\ i # Len(decisions[x]) + 1
      <4>1. i \in DOMAIN decisions[x] /\ decisions'[x][i] = decisions[x][i]
        BY <2>2, <3>3 DEF Grows
      <4>. QED  BY <2>3, <4>1
    <3>. QED  BY <3>1, <3>2, <3>3
  <2>. QED  BY <2>4 DEF ReleaseRecommendationIsSound, SoundRow
<1>2. ASSUME UNCHANGED decisions  PROVE ReleaseRecommendationIsSound'
  BY <1>2 DEF ReleaseRecommendationIsSound
<1>. QED
  BY <1>1, <1>2, RowWriters DEF caseRows, InsertHold, CommitEvidence, CommitReview

(* What a step may do to one hold, and to one call.                        *)
LEMMA HoldMoves ==
  ASSUME TypeOK, TasksOK, [Next]_vars, NEW x \in Holds
  PROVE  \/ hold'[x] = hold[x] /\ audit'[x] = audit[x]
         \/ Len(audit'[x]) = Len(audit[x]) + 1
         \/ audit'[x] = audit[x] /\ hold'[x].state \notin Terminal
<1>1. ASSUME NEW t \in AllTasks, SaveDecision(t)
      PROVE  \/ hold'[x] = hold[x] /\ audit'[x] = audit[x]
             \/ Len(audit'[x]) = Len(audit[x]) + 1
  <2>1. /\ OnlyState(task[t].hold, StateForDecision(task[t].decision))
        /\ Grows(audit', audit, task[t].hold, DecisionEvent(t))
    BY <1>1, SaveEffect
  <2>. QED  BY <2>1 DEF OnlyState, Grows
<1>2. ASSUME NEW t \in AllTasks, CommitReview(t)
      PROVE  \/ hold'[x] = hold[x] /\ audit'[x] = audit[x]
             \/ Len(audit'[x]) = Len(audit[x]) + 1
  <2>1. /\ OnlyState(task[t].hold, StateAfterReview(task[t].submission))
        /\ Grows(audit', audit, task[t].hold, ReviewEvent(task[t].submission))
    BY <1>2, ReviewEffect
  <2>. QED  BY <2>1 DEF OnlyState, Grows
<1>3. ASSUME NEW t \in AllTasks, CommitEvidence(t)
      PROVE  audit'[x] = audit[x] /\ (hold'[x] = hold[x] \/ hold'[x].state \notin Terminal)
  <2>1. /\ audit' = audit /\ hold'[task[t].hold].state = "EVIDENCE_SUBMITTED"
        /\ \A y \in Holds \ {task[t].hold} : hold'[y] = hold[y]
    BY <1>3, EvidenceEffect
  <2>. QED  BY <2>1 DEF Terminal
<1>4. ASSUME NEW t \in AllTasks, InsertHold(t)
      PROVE  audit'[x] = audit[x] /\ (hold'[x] = hold[x] \/ hold'[x].state \notin Terminal)
  <2>1. /\ audit' = audit /\ hold'[task[t].hold].state = "OPEN"
        /\ \A y \in Holds \ {task[t].hold} : hold'[y] = hold[y]
    BY <1>4, InsertEffect DEF InsertHold
  <2>. QED  BY <2>1 DEF Terminal
<1>. QED  BY <1>1, <1>2, <1>3, <1>4, RowWriters DEF caseRows

(* The call r of the next state goes on scoring what the call q scored.    *)
Continues(r, q) ==
  q.pc \in ScoringPcs /\ r.seen = q.seen /\ r.hold = q.hold /\ r.round = q.round

(* The call r has just read a hold that awaits scoring.                    *)
JustRead(r) ==
  /\ UNCHANGED caseRows
  /\ r.hold \in Holds /\ r.seen = Len(audit[r.hold]) /\ r.round = hold[r.hold].round
  /\ hold[r.hold].state \in {"OPEN", "EVIDENCE_SUBMITTED"}

(* How a step may change one call: it starts, goes on or returns.          *)
LEMMA CallMoves ==
  ASSUME TypeOK, TasksOK, [Next]_vars, NEW u \in AllTasks
  PROVE  \/ task'[u].pc \notin ScoringPcs
         \/ Continues(task'[u], task[u]) \/ task'[u] = task[u]
         \/ JustRead(task'[u])
<1>. DEFINE Goal == \/ task'[u].pc \notin ScoringPcs
                    \/ Continues(task'[u], task[u]) \/ task'[u] = task[u]
                    \/ JustRead(task'[u])
<1>0. /\ \A t \in AllTasks : task[t] \in TaskRecords /\ RecordOK(task[t])
      /\ Tasks \subseteq AllTasks /\ AutoTask \in AllTasks
      /\ task \in [AllTasks -> TaskRecords]
  BY DEF TypeOK, TasksOK, AllTasks
<1>1. ASSUME NEW t \in AllTasks, NEW r, Become(t, r), r.pc \notin ScoringPcs  PROVE Goal
  BY <1>0, <1>1 DEF Become
<1>2. ASSUME NEW t \in AllTasks, NEW r, Become(t, r), Continues(r, task[t])  PROVE Goal
  BY <1>0, <1>2 DEF Become
<1>3. ASSUME NEW t \in AllTasks, NEW r, Become(t, r), JustRead(r)  PROVE Goal
  BY <1>0, <1>3 DEF Become
<1>. HIDE DEF Goal
<1>4. ASSUME NEW t \in AllTasks, Return(t)  PROVE Goal
  BY <1>1, <1>4 DEF Return, IdleTask, ScoringPcs
<1>5. ASSUME NEW t \in AllTasks, NEW h \in Holds, ReadForEvaluate(t, h)  PROVE Goal
  <2>1. JustRead(ScoreTask(h, NoVerdict))
    BY <1>5 DEF ReadForEvaluate, JustRead, ScoreTask, IdleTask, rows, caseRows
  <2>. QED  BY <1>3, <1>5, <2>1 DEF ReadForEvaluate
<1>6. ASSUME NEW t \in AllTasks, NEW h \in Holds, Rescore(t, h)  PROVE Goal
  <2>1. JustRead([ScoreTask(h, NoVerdict) EXCEPT !.pc = "inputs"])
    BY <1>6 DEF Rescore, RescoreAllowed, JustRead, ScoreTask, IdleTask, rows, caseRows
  <2>. QED  BY <1>3, <1>6, <2>1 DEF Rescore
<1>7. ASSUME NEW t \in AllTasks, ReadInputs(t)  PROVE Goal
  <2>. DEFINE r == [task[t] EXCEPT !.pc = "score", !.verdict = evidence[task[t].hold].verdict]
  <2>1. Continues(r, task[t])
    BY <1>0, <1>7 DEF ReadInputs, Continues, ScoringPcs, TaskRecords
  <2>2. Become(t, r)
    BY <1>7 DEF ReadInputs
  <2>. QED  BY <1>2, <2>1, <2>2
<1>8. ASSUME NEW t \in AllTasks, Score(t) \/ ScoreFails(t)  PROVE Goal
  <2>1. PICK c, p, v, failed : Become(t, Checking(t, c, p, v, failed))
    BY <1>8 DEF Score, ScoreFails
  <2>2. Continues(Checking(t, c, p, v, failed), task[t])
    BY <1>0, <1>8 DEF Score, ScoreFails, Checking, Continues, ScoringPcs, TaskRecords
  <2>. QED  BY <1>2, <2>1, <2>2
<1>9. ASSUME NEW t \in AllTasks, AskPolicy(t)  PROVE Goal
  <2>1. PICK result :
          Become(t, [task[t] EXCEPT !.pc = "save", !.check = None,
                       !.decision = result.allowed, !.stamp = clock[task[t].hold],
                       !.failed = @ \/ result = Unavailable])
    BY <1>9 DEF AskPolicy
  <2>2. Continues([task[t] EXCEPT !.pc = "save", !.check = None,
                     !.decision = result.allowed, !.stamp = clock[task[t].hold],
                     !.failed = @ \/ result = Unavailable], task[t])
    BY <1>0, <1>9 DEF AskPolicy, Continues, ScoringPcs, TaskRecords
  <2>. QED  BY <1>2, <2>1, <2>2
<1>10. ASSUME NEW t \in AllTasks, NEW h \in Holds, StartCreate(t, h)  PROVE Goal
  BY <1>1, <1>10 DEF StartCreate, IdleTask, ScoringPcs
<1>11. ASSUME NEW t \in AllTasks, NEW h \in Holds, NEW e \in EvidenceIds,
              StartEvidence(t, h, e)
         PROVE Goal
  BY <1>1, <1>11 DEF StartEvidence, IdleTask, ScoringPcs
<1>12. ASSUME NEW t \in AllTasks, NEW h \in Holds, NEW q \in ReviewIds,
              StartReview(t, h, q)
         PROVE Goal
  BY <1>1, <1>12 DEF StartReview, IdleTask, ScoringPcs
<1>13. ASSUME NEW t \in AllTasks, InsertHold(t)  PROVE Goal
  BY <1>1, <1>13 DEF InsertHold, IdleTask, ScoringPcs
<1>14. ASSUME NEW t \in AllTasks, CommitEvidence(t)  PROVE Goal
  BY <1>1, <1>14 DEF CommitEvidence, IdleTask, ScoringPcs
<1>15. ASSUME UNCHANGED vars  PROVE Goal
  BY <1>15 DEF vars, Goal
<1>16. ASSUME NEW t \in Tasks, Client(t)  PROVE Goal
  <2>1. t \in AllTasks
    BY <1>0
  <2>2. ASSUME NEW h \in Holds, StartCreate(t, h) \/ Evaluate(t, h) \/ Rescore(t, h)
        PROVE  Goal
    BY <2>1, <2>2, <1>5, <1>6, <1>10 DEF Evaluate
  <2>3. ASSUME \/ InsertConflict(t) \/ AppendLedger(t) \/ InputsMissing(t)
               \/ EvidenceRefused(t) \/ CommitReview(t) \/ ReviewRefused(t)
        PROVE  Goal
    BY <2>1, <2>3, <1>4
    DEF InsertConflict, AppendLedger, InputsMissing, EvidenceRefused, CommitReview,
        ReviewRefused
  <2>. QED
    BY <1>16, <2>1, <2>2, <2>3, <1>7, <1>11, <1>12, <1>13, <1>14 DEF Client
<1>17. ASSUME NEW t \in AllTasks, Scoring(t) \/ Abort(t)  PROVE Goal
  BY <1>17, <1>4, <1>8, <1>9 DEF Scoring, SaveDecision, SaveRefused, Abort
<1>18. ASSUME NEW h \in Holds, AutomationEvaluate(h)  PROVE Goal
  BY <1>0, <1>5, <1>18 DEF AutomationEvaluate
<1>19. Goal
  BY <1>15, <1>16, <1>17, <1>18 DEF Next
<1>. QED  BY <1>19 DEF Goal

(* A scoring call that has seen the whole chain is of a hold not closed.   *)
LEMMA FreshStep ==
  ASSUME TypeOK, TasksOK, FreshCallsAreOpen, [Next]_vars
  PROVE  FreshCallsAreOpen'
<1>. SUFFICES ASSUME NEW u \in AllTasks, task'[u].pc \in ScoringPcs
              PROVE  /\ task'[u].seen <= Len(audit'[task'[u].hold])
                     /\ task'[u].seen = Len(audit'[task'[u].hold]) =>
                          hold'[task'[u].hold].state \notin Terminal
  BY DEF FreshCallsAreOpen
<1>0. task[u] \in TaskRecords /\ RecordOK(task[u])
  BY DEF TypeOK, TasksOK
<1>1. CASE JustRead(task'[u])
  <2>1. /\ task'[u].hold \in Holds /\ audit' = audit /\ hold' = hold
        /\ task'[u].seen = Len(audit[task'[u].hold])
        /\ hold[task'[u].hold].state \in {"OPEN", "EVIDENCE_SUBMITTED"}
    BY <1>1 DEF JustRead, caseRows
  <2>2. Len(audit[task'[u].hold]) \in Nat
    BY <2>1 DEF TypeOK
  <2>. QED  BY <2>1, <2>2 DEF Terminal
<1>2. CASE Continues(task'[u], task[u]) \/ task'[u] = task[u]
  <2>. DEFINE x == task[u].hold
              n == task[u].seen
  <2>1. task'[u].hold = x /\ task'[u].seen = n /\ task[u].pc \in ScoringPcs
    BY <1>2 DEF Continues
  <2>2. x \in Holds /\ n \in Nat
    BY <1>0, <2>1 DEF RecordOK, ScoringPcs, TaskRecords
  <2>3. n <= Len(audit[x]) /\ (n = Len(audit[x]) => hold[x].state \notin Terminal)
    BY <2>1 DEF FreshCallsAreOpen
  <2>4. Len(audit[x]) \in Nat
    BY <2>2 DEF TypeOK
  <2>. HIDE DEF x, n
  <2>. QED  BY <2>1, <2>2, <2>3, <2>4, HoldMoves
<1>. QED  BY <1>1, <1>2, CallMoves

(* Every step keeps the invariant.                                         *)
LEMMA NextIInv == IInv /\ [Next]_vars => IInv'
BY TasksStep, TypeStep, LatestStep, AbsentStep, ReviewEventsStep, EvidenceStep, AuditStep,
   ReleaseStep, FreshStep
DEF IInv

(* The inductive invariant holds in every reachable state.                 *)
THEOREM Invariance == Spec => []IInv
BY InitIInv, NextIInv, PTL DEF Spec

(* Every variable keeps its type, for any number of holds and calls.       *)
THEOREM Typing == Spec => []TypeOK
BY Invariance, PTL DEF IInv

(* However creations, late recommendations, submissions and reviews        *)
(* overlap, no hold has more than one evidence round.                      *)
THEOREM SingleEvidenceRound == Spec => []OneEvidenceRound
BY Invariance, PTL DEF IInv

(* The last record of the chain always accounts for the hold's state.      *)
THEOREM ChainExplains == Spec => []AuditExplainsState
BY Invariance, PTL DEF IInv

(* A stored RELEASE recommendation never comes from a failed model or      *)
(* engine, nor in the second round from evidence that does not support it. *)
THEOREM SoundReleases == Spec => []ReleaseRecommendationIsSound
BY Invariance, PTL DEF IInv

-----------------------------------------------------------------------------
(* A closed hold is touched only by a recommendation computed before the   *)
(* chain grew: never by evidence, another review, or a call that has seen  *)
(* the case as it is (workflow.py:79-82, 104-109; database.py:326).        *)
THEOREM OnlyLateCallsReopen == Spec => ClosedHoldsOnlyReopenedLate
<1>1. IInv /\ [Next]_vars =>
        \A h \in Holds :
          hold[h].state \in Terminal /\ hold'[h] # hold[h] =>
            \E t \in AllTasks :
              /\ task[t].pc = "save" /\ task[t].hold = h
              /\ task[t].seen < Len(audit[h])
  <2>. SUFFICES ASSUME IInv, [Next]_vars, NEW h \in Holds,
                       hold[h].state \in Terminal, hold'[h] # hold[h]
                PROVE  \E t \in AllTasks :
                         /\ task[t].pc = "save" /\ task[t].hold = h
                         /\ task[t].seen < Len(audit[h])
    OBVIOUS
  <2>. USE DEF IInv
  <2>1. ASSUME NEW t \in AllTasks, CommitReview(t)  PROVE FALSE
    <3>1. Reviewable(task[t].hold) /\ OnlyState(task[t].hold, StateAfterReview(task[t].submission))
      BY <2>1, ReviewEffect DEF CommitReview, ReviewAccepted
    <3>. QED  BY <3>1 DEF OnlyState, Reviewable, Terminal
  <2>2. ASSUME NEW t \in AllTasks, CommitEvidence(t)  PROVE FALSE
    <3>1. /\ hold[task[t].hold].state = "AWAITING_EVIDENCE"
          /\ \A x \in Holds \ {task[t].hold} : hold'[x] = hold[x]
      BY <2>2, EvidenceEffect
    <3>. QED  BY <3>1 DEF Terminal
  <2>3. ASSUME NEW t \in AllTasks, InsertHold(t)  PROVE FALSE
    <3>1. /\ hold[task[t].hold].state = "ABSENT"
          /\ \A x \in Holds \ {task[t].hold} : hold'[x] = hold[x]
      BY <2>3, InsertEffect
    <3>. QED  BY <3>1 DEF Terminal
  <2>4. PICK t \in AllTasks : SaveDecision(t)
    BY <2>1, <2>2, <2>3, RowWriters DEF caseRows
  <2>5. task[t].hold = h /\ task[t].pc = "save"
    <3>1. task[t].pc = "save"
      BY <2>4 DEF SaveDecision
    <3>2. \A x \in Holds \ {task[t].hold} : hold'[x] = hold[x]
      BY <2>4, SaveEffect DEF OnlyState
    <3>. QED  BY <2>1, <3>1, <3>2
  <2>6. task[t].seen <= Len(audit[h]) /\ task[t].seen # Len(audit[h])
    BY <2>5 DEF FreshCallsAreOpen, ScoringPcs
  <2>7. task[t].seen \in Nat /\ Len(audit[h]) \in Nat
    BY DEF TypeOK, TaskRecords
  <2>. QED  BY <2>5, <2>6, <2>7
<1>. QED  BY <1>1, Invariance, PTL DEF Spec, ClosedHoldsOnlyReopenedLate

(* Evidence, once stored, is never replaced, no evidence round is given    *)
(* back, and the audit chain only grows at its end.                        *)
THEOREM HistoryKept == Spec => HistoryIsAppendOnly
<1>1. IInv /\ [Next]_vars =>
        \A h \in Holds :
          /\ Extends(audit'[h], audit[h])
          /\ evidence[h] # None => evidence'[h] = evidence[h]
          /\ hold'[h].round >= hold[h].round
  <2>. SUFFICES ASSUME IInv, [Next]_vars, NEW x \in Holds
                PROVE  /\ Extends(audit'[x], audit[x])
                       /\ evidence[x] # None => evidence'[x] = evidence[x]
                       /\ hold'[x].round >= hold[x].round
    OBVIOUS
  <2>. USE DEF IInv
  <2>0. hold[x].round \in {0, 1} /\ audit[x] \in Seq(AuditEvents)
    BY DEF TypeOK, HoldRows
  <2>1. Extends(audit[x], audit[x])
    BY <2>0 DEF Extends
  <2>2. \A e : Extends(Append(audit[x], e), audit[x])
    BY <2>0 DEF Extends
  <2>3. ASSUME NEW t \in AllTasks, SaveDecision(t)
        PROVE  /\ Extends(audit'[x], audit[x]) /\ evidence' = evidence
               /\ hold'[x].round = hold[x].round
    <3>1. task[t].hold \in Holds /\ OnlyState(task[t].hold, StateForDecision(task[t].decision))
      BY <2>3, SaveEffect
    <3>2. audit' = [audit EXCEPT ![task[t].hold] = Append(@, DecisionEvent(t))]
          /\ evidence' = evidence
      BY <2>3 DEF SaveDecision
    <3>3. audit'[x] = audit[x] \/ audit'[x] = Append(audit[x], DecisionEvent(t))
      BY <3>1, <3>2 DEF TypeOK
    <3>. QED  BY <2>1, <2>2, <3>1, <3>2, <3>3 DEF OnlyState
  <2>4. ASSUME NEW t \in AllTasks, CommitReview(t)
        PROVE  /\ Extends(audit'[x], audit[x]) /\ evidence' = evidence
               /\ hold'[x].round = hold[x].round
    <3>. DEFINE s == task[t].submission
    <3>1. task[t].hold \in Holds /\ OnlyState(task[t].hold, StateAfterReview(s))
      BY <2>4, ReviewEffect
    <3>2. audit' = [audit EXCEPT ![task[t].hold] = Append(@, ReviewEvent(s))]
          /\ evidence' = evidence
      BY <2>4 DEF CommitReview
    <3>3. audit'[x] = audit[x] \/ audit'[x] = Append(audit[x], ReviewEvent(s))
      BY <3>1, <3>2 DEF TypeOK
    <3>. QED  BY <2>1, <2>2, <3>1, <3>2, <3>3 DEF OnlyState
  <2>5. ASSUME NEW t \in AllTasks, CommitEvidence(t)
        PROVE  /\ audit' = audit
               /\ evidence[x] # None => evidence'[x] = evidence[x]
               /\ hold'[x].round >= hold[x].round
    <3>. DEFINE h == task[t].hold
    <3>1. /\ h \in Holds /\ audit' = audit /\ hold[h].round = 0 /\ hold'[h].round = 1
          /\ \A y \in Holds \ {h} : hold'[y] = hold[y] /\ evidence'[y] = evidence[y]
      BY <2>5, EvidenceEffect
    <3>2. evidence[h] = None
      BY <3>1 DEF OneEvidenceRound
    <3>. HIDE DEF h
    <3>. QED  BY <2>0, <3>1, <3>2
  <2>6. ASSUME NEW t \in AllTasks, InsertHold(t)
        PROVE  /\ audit' = audit /\ evidence' = evidence
               /\ hold'[x].round >= hold[x].round
    <3>. DEFINE h == task[t].hold
    <3>1. /\ h \in Holds /\ hold[h].state = "ABSENT" /\ hold'[h].round = 0
          /\ \A y \in Holds \ {h} : hold'[y] = hold[y]
      BY <2>6, InsertEffect
    <3>2. hold[h].round = 0
      BY <3>1 DEF AbsentIsBlank
    <3>. HIDE DEF h
    <3>. QED  BY <2>0, <2>6, <3>1, <3>2 DEF InsertHold
  <2>. QED
    BY <2>0, <2>1, <2>3, <2>4, <2>5, <2>6, RowWriters DEF caseRows
<1>. QED  BY <1>1, Invariance, PTL DEF Spec, HistoryIsAppendOnly

-----------------------------------------------------------------------------
(* The refinement of HumanAuthority.                                       *)
LEMMA DispositionTypes ==
  ASSUME NEW state
  PROVE  DispositionOf(state) \in {"held", "released", "denied"}
BY DEF DispositionOf

(* A committed review authorizes its outcome, for its hold only.           *)
LEMMA AuthorizationsAppend ==
  ASSUME TypeOK, TasksOK, NEW t \in AllTasks, CommitReview(t),
         NEW h, h = task[t].hold, NEW d, d = DispositionOf(StateAfterReview(task[t].submission))
  PROVE  Authorizations' = [Authorizations EXCEPT ![h] = Append(@, d)]
<1>. DEFINE D(r) == DispositionOf(StateAfterReview(r.submission))
            A == [i \in 1 .. Len(reviews[h]) |-> D(reviews[h][i])]
            B == [i \in 1 .. Len(reviews'[h]) |-> D(reviews'[h][i])]
<1>1. h \in Holds /\ reviews[h] \in Seq(ReviewRows)
  BY ReviewEffect DEF TypeOK
<1>2. Grows(reviews', reviews, h, ReviewRow(t))
  BY <1>1, AppendGrows DEF CommitReview, TypeOK
<1>3. D(ReviewRow(t)) = d
  BY DEF ReviewRow
<1>4. Authorizations[h] = A /\ Authorizations'[h] = B
  BY <1>1 DEF Authorizations
<1>. HIDE DEF D
<1>5. /\ \A i \in 1 .. Len(reviews[h]) : B[i] = A[i]
      /\ B[Len(reviews[h]) + 1] = d
      /\ DOMAIN B = 1 .. Len(reviews[h]) + 1
  <2>. DEFINE n == Len(reviews[h])
  <2>1. /\ n \in Nat /\ Len(reviews'[h]) = n + 1 /\ reviews'[h][n + 1] = ReviewRow(t)
        /\ \A i \in 1 .. n : reviews'[h][i] = reviews[h][i]
    BY <1>2 DEF Grows
  <2>2. DOMAIN B = 1 .. n + 1 /\ DOMAIN A = 1 .. n
    BY <2>1
  <2>3. \A i \in 1 .. n + 1 : B[i] = D(reviews'[h][i])
    BY <2>1
  <2>4. \A i \in 1 .. n : A[i] = D(reviews[h][i])
    OBVIOUS
  <2>5. \A i \in 1 .. n : B[i] = A[i]
    <3>. HIDE DEF A, B, n
    <3>. QED  BY <2>1, <2>3, <2>4
  <2>6. B[n + 1] = d
    <3>. HIDE DEF A, B, n
    <3>1. n + 1 \in 1 .. n + 1
      BY <2>1
    <3>. QED  BY <1>3, <2>1, <2>3, <3>1
  <2>. QED  BY <2>2, <2>5, <2>6
<1>6. A \in Seq({D(r) : r \in ReviewRows}) /\ Len(A) = Len(reviews[h])
  BY <1>1
<1>7. B = Append(A, d)
  <2>0. reviews[h] \in Seq(ReviewRows) /\ Len(A) \in Nat /\ Len(A) = Len(reviews[h])
    BY <1>1, <1>6
  <2>1. B \in Seq({D(r) : r \in ReviewRows} \cup {d}) /\ Len(B) = Len(A) + 1
    <3>. DEFINE S == {D(r) : r \in ReviewRows}
    <3>1. B = [i \in DOMAIN B |-> B[i]]
      OBVIOUS
    <3>. HIDE DEF A, B
    <3>2. \A i \in 1 .. Len(A) : A[i] \in S
      BY <1>6
    <3>. HIDE DEF S
    <3>3. ASSUME NEW i \in 1 .. Len(A) + 1  PROVE B[i] \in S \cup {d}
      BY <2>0, <1>5, <3>2
    <3>4. B \in [1 .. Len(A) + 1 -> S \cup {d}]
      BY <2>0, <1>5, <3>1, <3>3
    <3>. USE DEF S
    <3>. QED  BY <2>0, <3>4
  <2>2. /\ Append(A, d) \in Seq({D(r) : r \in ReviewRows} \cup {d})
        /\ Len(Append(A, d)) = Len(A) + 1 /\ Append(A, d)[Len(A) + 1] = d
        /\ \A i \in 1 .. Len(A) : Append(A, d)[i] = A[i]
    BY <1>6
  <2>. HIDE DEF A, B
  <2>3. \A i \in 1 .. Len(B) : B[i] = Append(A, d)[i]
    BY <1>5, <1>6, <2>1, <2>2
  <2>. QED  BY <2>1, <2>2, <2>3, SeqEqual
<1>8. \A x \in Holds \ {h} : Authorizations'[x] = Authorizations[x]
  BY <1>2 DEF Grows, Authorizations
<1>. HIDE DEF A, B
<1>. QED  BY <1>1, <1>4, <1>7, <1>8 DEF Authorizations

(* Funds are released or refused only by a recorded authorization and at   *)
(* the moment it is recorded; the machine alone only leaves them held, or  *)
(* takes a closed case back to a human.                                    *)
THEOREM ImplementsHumanAuthority == Spec => HumanAuthoritySpec
<1>1. Init => Authority!Init
  <2>. SUFFICES ASSUME Init  PROVE Authority!Init
    OBVIOUS
  <2>1. Disposition = [h \in Holds |-> "held"]
    BY DEF Init, Disposition, DispositionOf
  <2>2. Authorizations = [h \in Holds |-> <<>>]
    BY DEF Init, Authorizations
  <2>. QED  BY <2>1, <2>2 DEF Authority!Init
<1>2. IInv /\ [Next]_vars => [Authority!Next]_<<Disposition, Authorizations>>
  <2>. SUFFICES ASSUME IInv, [Next]_vars
                PROVE  Authority!Next \/ UNCHANGED <<Disposition, Authorizations>>
    OBVIOUS
  <2>. USE DEF IInv
  <2>1. ASSUME NEW t \in AllTasks, SaveDecision(t)  PROVE Authority!Next
    <3>. DEFINE h == task[t].hold
    <3>1. h \in Holds /\ OnlyState(h, StateForDecision(task[t].decision)) /\ reviews' = reviews
      BY <2>1, SaveEffect DEF SaveDecision
    <3>2. DispositionOf(StateForDecision(task[t].decision)) = "held"
      BY DEF StateForDecision, DispositionOf
    <3>3. Disposition' = [Disposition EXCEPT ![h] = "held"]
      BY <3>1, <3>2 DEF Disposition, OnlyState
    <3>4. Authorizations' = Authorizations
      BY <3>1 DEF Authorizations
    <3>. QED  BY <3>1, <3>3, <3>4 DEF Authority!Next, Authority!Reopen
  <2>2. ASSUME NEW t \in AllTasks, CommitReview(t)  PROVE Authority!Next
    <3>. DEFINE h == task[t].hold
                d == DispositionOf(StateAfterReview(task[t].submission))
    <3>1. h \in Holds /\ OnlyState(h, StateAfterReview(task[t].submission))
      BY <2>2, ReviewEffect
    <3>2. Disposition' = [Disposition EXCEPT ![h] = d]
      BY <3>1 DEF Disposition, OnlyState
    <3>3. Authorizations' = [Authorizations EXCEPT ![h] = Append(@, d)]
      BY <2>2, AuthorizationsAppend
    <3>4. d \in Authority!Dispositions
      BY DispositionTypes DEF Authority!Dispositions
    <3>. QED  BY <3>1, <3>2, <3>3, <3>4 DEF Authority!Next, Authority!Authorize
  <2>3. ASSUME NEW t \in AllTasks, CommitEvidence(t)
        PROVE  UNCHANGED <<Disposition, Authorizations>>
    <3>1. /\ hold[task[t].hold].state = "AWAITING_EVIDENCE"
          /\ hold'[task[t].hold].state = "EVIDENCE_SUBMITTED"
          /\ \A x \in Holds \ {task[t].hold} : hold'[x] = hold[x]
      BY <2>3, EvidenceEffect
    <3>2. reviews' = reviews
      BY <2>3 DEF CommitEvidence
    <3>3. \A x \in Holds : DispositionOf(hold'[x].state) = DispositionOf(hold[x].state)
      BY <3>1 DEF DispositionOf
    <3>. QED  BY <3>2, <3>3 DEF Disposition, Authorizations
  <2>4. ASSUME NEW t \in AllTasks, InsertHold(t)
        PROVE  UNCHANGED <<Disposition, Authorizations>>
    <3>1. /\ hold[task[t].hold].state = "ABSENT" /\ hold'[task[t].hold].state = "OPEN"
          /\ reviews' = reviews /\ \A x \in Holds \ {task[t].hold} : hold'[x] = hold[x]
      BY <2>4, InsertEffect DEF InsertHold
    <3>2. \A x \in Holds : DispositionOf(hold'[x].state) = DispositionOf(hold[x].state)
      BY <3>1 DEF DispositionOf
    <3>. QED  BY <3>1, <3>2 DEF Disposition, Authorizations
  <2>5. ASSUME UNCHANGED caseRows  PROVE UNCHANGED <<Disposition, Authorizations>>
    BY <2>5 DEF caseRows, Disposition, Authorizations
  <2>. QED  BY <2>1, <2>2, <2>3, <2>4, <2>5, RowWriters
<1>. QED
  BY <1>1, <1>2, Invariance, PTL DEF Spec, HumanAuthoritySpec, Authority!Spec
-----------------------------------------------------------------------------
(* What the calls leave on record: which rows belong together, that a      *)
(* request leaves one trace, that a rescore counts once, and what the      *)
(* human_only mode leaves to humans.  Four invariants are proved on top of *)
(* IInv, each inductive by itself:                                         *)
(*   - RecordsMatch: the rows that one transaction writes, and the         *)
(*     features of a call that has scored;                                 *)
(*   - TracesOK: a request id is used once, and a call that has yet to     *)
(*     append to the ledger is the only one and the first to do so;        *)
(*   - RescoresOK: a second-round call whose hold no one has touched since *)
(*     finds the evidence still unscored, and a fresh rescore ends that;   *)
(*   - ModeOK: in human_only mode a call carries ESCALATE to its end.      *)
ScoredWithFeatures ==
  \A t \in AllTasks :
    task[t].pc \in {"policy", "save"} /\ ~task[t].failed => snapshot[task[t].hold]

RecordsMatch == RowsBelongTogether /\ ScoredWithFeatures

Announcing(h, type) ==
  {t \in AllTasks : task[t].pc = "ledger" /\ task[t].hold = h /\ task[t].req = type}
Recorded(h, type) == {i \in DOMAIN ledger[h] : ledger[h][i] = type}

OneTrace(announcing, recorded, happened) ==
  /\ ~happened => announcing = {} /\ recorded = {}
  /\ announcing = {} \/ recorded = {}
  /\ \A t, u \in announcing : t = u
  /\ \A i, j \in recorded : i = j

Trace(h, type, happened) == OneTrace(Announcing(h, type), Recorded(h, type), happened)

TracesOK ==
  /\ RequestsTakeEffectOnce
  /\ \A h \in Holds : /\ Trace(h, "HOLD_CREATED", hold[h].state # "ABSENT")
                      /\ Trace(h, "EVIDENCE_SUBMITTED", hold[h].round = 1)

FreshRescores(h) ==
  {i \in DOMAIN decisions[h] : decisions[h][i].round = 1 /\ decisions[h][i].fresh}

RescoredOnce(h) ==
  /\ hold[h].state = "OPEN" => hold[h].round = 0
  /\ \A i, j \in FreshRescores(h) : i = j
  /\ FreshRescores(h) # {} => hold[h].round = 1 /\ hold[h].state # "EVIDENCE_SUBMITTED"

RescoresOK ==
  /\ \A h \in Holds : RescoredOnce(h)
  /\ \A t \in AllTasks :
       /\ task[t].pc \in ScoringPcs /\ task[t].round = 1
       /\ task[t].seen = Len(audit[task[t].hold])
       => hold[task[t].hold].state = "EVIDENCE_SUBMITTED"

ModeOK ==
  /\ HumanOnlyEscalates
  /\ HumanOnly => \A t \in AllTasks :
       /\ task[t].pc = "policy" => task[t].check.candidate = "ESCALATE"
       /\ task[t].pc = "save" => task[t].decision = "ESCALATE"
-----------------------------------------------------------------------------
(* Appending a record to a chain appends its type to the chain's types.    *)
LEMMA TypesAppend ==
  ASSUME NEW a \in Seq(AuditEvents), NEW e \in AuditEvents,
         NEW o, o = [i \in DOMAIN a |-> a[i].type]
  PROVE  Append(o, e.type) = [i \in DOMAIN Append(a, e) |-> Append(a, e)[i].type]
<1>. DEFINE b == Append(a, e)
            c == [i \in DOMAIN b |-> b[i].type]
<1>1. \A x \in AuditEvents : x.type \in EventTypes
  BY DEF AuditEvents, EventTypes
<1>2. o \in Seq(EventTypes) /\ Len(o) = Len(a)
  BY <1>1
<1>3. b \in Seq(AuditEvents) /\ Len(b) = Len(a) + 1
  OBVIOUS
<1>4. c \in Seq(EventTypes) /\ Len(c) = Len(b)
  <2>. HIDE DEF b
  <2>. QED  BY <1>1, <1>3
<1>5. Append(o, e.type) \in Seq(EventTypes) /\ Len(Append(o, e.type)) = Len(a) + 1
  BY <1>1, <1>2
<1>6. ASSUME NEW i \in 1 .. Len(a) + 1 PROVE Append(o, e.type)[i] = c[i]
  <2>1. i \in DOMAIN b /\ c[i] = b[i].type
    BY <1>3
  <2>. QED  BY <1>2, <2>1
<1>. HIDE DEF b, c
<1>7. Append(o, e.type) = c
  BY <1>3, <1>4, <1>5, <1>6, SeqEqual
<1>. QED  BY <1>7 DEF b, c

(* The audit record of each transaction is typed.                          *)
LEMMA EventsTyped ==
  ASSUME TypeOK, TasksOK, NEW t \in AllTasks
  PROVE  /\ DecisionEvent(t) \in AuditEvents /\ DecisionEvent(t).type = "RISK_DECISION"
         /\ \A s \in Submissions : /\ ReviewEvent(s) \in AuditEvents
                                   /\ ReviewEvent(s).type = "ANALYST_OUTCOME_RECORDED"
<1>1. task[t].decision \in Decisions
  BY DEF TypeOK, TaskRecords
<1>. QED  BY <1>1, SubmissionTypes DEF DecisionEvent, ReviewEvent, AuditEvents

(* The types of a chain that grew with its outbox.                         *)
LEMMA OutboxGrows ==
  ASSUME TypeOK, NoPartialCommit, NEW h \in Holds, NEW e \in AuditEvents,
         audit' = [audit EXCEPT ![h] = Append(@, e)],
         outbox' = [outbox EXCEPT ![h] = Append(@, e.type)]
  PROVE  \A x \in Holds : outbox'[x] = [i \in DOMAIN audit'[x] |-> audit'[x][i].type]
<1>. SUFFICES ASSUME NEW x \in Holds
              PROVE  outbox'[x] = [i \in DOMAIN audit'[x] |-> audit'[x][i].type]
  OBVIOUS
<1>1. outbox[x] = [i \in DOMAIN audit[x] |-> audit[x][i].type] /\ audit[x] \in Seq(AuditEvents)
  BY DEF NoPartialCommit, TypeOK
<1>2. CASE x = h
  <2>1. audit'[x] = Append(audit[x], e) /\ outbox'[x] = Append(outbox[x], e.type)
    BY <1>2 DEF TypeOK
  <2>2. Append(outbox[x], e.type) = [i \in DOMAIN Append(audit[x], e) |-> Append(audit[x], e)[i].type]
    BY <1>1, TypesAppend
  <2>. QED  BY <2>1, <2>2, Zenon
<1>3. CASE x # h
  <2>1. audit'[x] = audit[x] /\ outbox'[x] = outbox[x]
    BY <1>3 DEF TypeOK
  <2>. QED  BY <1>1, <2>1
<1>. QED  BY <1>2, <1>3

(* Each transaction adds a record, an outbox event and its own row.        *)
LEMMA PartialCommitStep ==
  ASSUME TypeOK, TasksOK, NoPartialCommit, [Next]_vars
  PROVE  NoPartialCommit'
<1>1. ASSUME NEW t \in AllTasks, SaveDecision(t)  PROVE NoPartialCommit'
  <2>. DEFINE e == DecisionEvent(t)
  <2>1. PICK h \in Holds :
          /\ h = task[t].hold
          /\ audit' = [audit EXCEPT ![h] = Append(@, e)]
          /\ outbox' = [outbox EXCEPT ![h] = Append(@, e.type)]
          /\ Grows(decisions', decisions, h, DecisionRow(t)) /\ reviews' = reviews
          /\ Grows(audit', audit, h, e)
    BY <1>1, SaveEffect, EventsTyped DEF SaveDecision
  <2>2. \A x \in Holds : outbox'[x] = [i \in DOMAIN audit'[x] |-> audit'[x][i].type]
    BY <2>1, EventsTyped, OutboxGrows
  <2>3. \A x \in Holds : Len(reviews[x]) \in Nat
    BY DEF TypeOK
  <2>4. ASSUME NEW x \in Holds PROVE Len(audit'[x]) = Len(decisions'[x]) + Len(reviews'[x])
    <3>1. Len(audit[x]) = Len(decisions[x]) + Len(reviews[x])
      BY DEF NoPartialCommit
    <3>2. CASE x = h
      <4>1. /\ Len(audit'[x]) = Len(audit[x]) + 1 /\ Len(decisions'[x]) = Len(decisions[x]) + 1
            /\ Len(reviews'[x]) = Len(reviews[x]) /\ Len(decisions[x]) \in Nat
        BY <2>1, <3>2 DEF Grows
      <4>2. PICK d \in Nat, r \in Nat : d = Len(decisions[x]) /\ r = Len(reviews[x])
        BY <2>3, <4>1
      <4>3. Len(audit'[x]) = d + r + 1 /\ Len(decisions'[x]) = d + 1 /\ Len(reviews'[x]) = r
        BY <3>1, <4>1, <4>2
      <4>. QED  BY <4>3
    <3>. QED  BY <2>1, <3>1, <3>2 DEF Grows
  <2>. QED  BY <2>2, <2>4 DEF NoPartialCommit
<1>2. ASSUME NEW t \in AllTasks, CommitReview(t)  PROVE NoPartialCommit'
  <2>1. PICK s \in Submissions : s = task[t].submission
    BY <1>2, ReviewEffect
  <2>2. PICK h \in Holds :
          /\ h = task[t].hold
          /\ audit' = [audit EXCEPT ![h] = Append(@, ReviewEvent(s))]
          /\ outbox' = [outbox EXCEPT ![h] = Append(@, ReviewEvent(s).type)]
          /\ reviews' = [reviews EXCEPT ![h] = Append(@, ReviewRow(t))] /\ decisions' = decisions
          /\ Grows(audit', audit, h, ReviewEvent(s))
    BY <1>2, <2>1, ReviewEffect, EventsTyped DEF CommitReview
  <2>3. Grows(reviews', reviews, h, ReviewRow(t))
    BY <2>2, AppendGrows DEF TypeOK
  <2>4. \A x \in Holds : outbox'[x] = [i \in DOMAIN audit'[x] |-> audit'[x][i].type]
    BY <2>2, EventsTyped, OutboxGrows
  <2>5. \A x \in Holds : Len(decisions[x]) \in Nat
    BY DEF TypeOK
  <2>6. ASSUME NEW x \in Holds PROVE Len(audit'[x]) = Len(decisions'[x]) + Len(reviews'[x])
    <3>1. Len(audit[x]) = Len(decisions[x]) + Len(reviews[x])
      BY DEF NoPartialCommit
    <3>2. CASE x = h
      <4>1. /\ Len(audit'[x]) = Len(audit[x]) + 1 /\ Len(reviews'[x]) = Len(reviews[x]) + 1
            /\ Len(decisions'[x]) = Len(decisions[x]) /\ Len(reviews[x]) \in Nat
        BY <2>2, <2>3, <3>2 DEF Grows
      <4>2. PICK d \in Nat, r \in Nat : d = Len(decisions[x]) /\ r = Len(reviews[x])
        BY <2>5, <4>1
      <4>3. Len(audit'[x]) = d + r + 1 /\ Len(decisions'[x]) = d /\ Len(reviews'[x]) = r + 1
        BY <3>1, <4>1, <4>2
      <4>. QED  BY <4>3
    <3>. QED  BY <2>2, <2>3, <3>1, <3>2 DEF Grows
  <2>. QED  BY <2>4, <2>6 DEF NoPartialCommit
<1>3. ASSUME UNCHANGED <<decisions, reviews, audit, outbox>>  PROVE NoPartialCommit'
  BY <1>3 DEF NoPartialCommit
<1>. QED  BY <1>1, <1>2, <1>3, RowWriters DEF caseRows, InsertHold, CommitEvidence
-----------------------------------------------------------------------------
(* The steps that take a call to the engine, to its save or to the ledger. *)
LEMMA CallsMove ==
  ASSUME TypeOK, TasksOK, [Next]_vars, NEW u \in AllTasks
  PROVE  \/ task'[u] = task[u]
         \/ task'[u].pc \notin {"policy", "save", "ledger"}
         \/ Score(u) \/ ScoreFails(u) \/ AskPolicy(u) \/ InsertHold(u) \/ CommitEvidence(u)
<1>. DEFINE Goal == \/ task'[u] = task[u]
                    \/ task'[u].pc \notin {"policy", "save", "ledger"}
                    \/ Score(u) \/ ScoreFails(u) \/ AskPolicy(u) \/ InsertHold(u)
                    \/ CommitEvidence(u)
<1>0. Tasks \subseteq AllTasks /\ AutoTask \in AllTasks /\ task \in [AllTasks -> TaskRecords]
  BY DEF TypeOK, AllTasks
<1>1. ASSUME NEW t \in AllTasks, NEW r, Become(t, r),
             t = u => r.pc \notin {"policy", "save", "ledger"}
      PROVE  Goal
  BY <1>0, <1>1 DEF Become
<1>2. ASSUME NEW t \in AllTasks, NEW r, Become(t, r), t # u  PROVE Goal
  BY <1>1, <1>2
<1>3. ASSUME NEW t \in AllTasks, Return(t)  PROVE Goal
  BY <1>1, <1>3 DEF Return, IdleTask
<1>4. ASSUME NEW t \in AllTasks, NEW h \in Holds, ReadForEvaluate(t, h) \/ Rescore(t, h)
      PROVE  Goal
  BY <1>1, <1>4 DEF ReadForEvaluate, Rescore, ScoreTask, IdleTask
<1>5. ASSUME NEW t \in AllTasks, NEW h \in Holds, StartCreate(t, h)  PROVE Goal
  BY <1>1, <1>5 DEF StartCreate, IdleTask
<1>6. ASSUME NEW t \in AllTasks, NEW h \in Holds, NEW e \in EvidenceIds, StartEvidence(t, h, e)
      PROVE  Goal
  BY <1>1, <1>6 DEF StartEvidence, IdleTask
<1>7. ASSUME NEW t \in AllTasks, NEW h \in Holds, NEW q \in ReviewIds, StartReview(t, h, q)
      PROVE  Goal
  BY <1>1, <1>7 DEF StartReview, IdleTask
<1>8. ASSUME NEW t \in AllTasks, ReadInputs(t)  PROVE Goal
  <2>. DEFINE r == [task[t] EXCEPT !.pc = "score", !.verdict = evidence[task[t].hold].verdict]
  <2>1. Become(t, r) /\ r.pc = "score"
    BY <1>0, <1>8 DEF ReadInputs, TaskRecords
  <2>. HIDE DEF r
  <2>. QED  BY <1>1, <2>1
<1>9. ASSUME NEW t \in AllTasks,
             Score(t) \/ ScoreFails(t) \/ AskPolicy(t) \/ InsertHold(t) \/ CommitEvidence(t)
      PROVE  Goal
  <2>1. CASE t = u
    BY <1>9, <2>1
  <2>2. CASE t # u
    BY <1>2, <1>9, <2>2 DEF Score, ScoreFails, AskPolicy, InsertHold, CommitEvidence
  <2>. QED  BY <2>1, <2>2
<1>. HIDE DEF Goal
<1>10. ASSUME NEW t \in Tasks, Client(t)  PROVE Goal
  <2>1. t \in AllTasks
    BY <1>0
  <2>2. ASSUME \/ InsertConflict(t) \/ AppendLedger(t) \/ InputsMissing(t)
               \/ EvidenceRefused(t) \/ CommitReview(t) \/ ReviewRefused(t)
        PROVE  Goal
    BY <2>1, <2>2, <1>3
    DEF InsertConflict, AppendLedger, InputsMissing, EvidenceRefused, CommitReview, ReviewRefused
  <2>. QED  BY <1>10, <2>1, <2>2, <1>4, <1>5, <1>6, <1>7, <1>8, <1>9 DEF Client, Evaluate
<1>11. ASSUME NEW t \in AllTasks, Scoring(t) \/ Abort(t)  PROVE Goal
  BY <1>3, <1>9, <1>11 DEF Scoring, SaveDecision, SaveRefused, Abort
<1>12. ASSUME NEW h \in Holds, AutomationEvaluate(h)  PROVE Goal
  BY <1>0, <1>4, <1>12 DEF AutomationEvaluate
<1>13. ASSUME UNCHANGED vars  PROVE Goal
  BY <1>13 DEF vars, Goal
<1>14. Goal
  BY <1>10, <1>11, <1>12, <1>13 DEF Next
<1>. QED  BY <1>14 DEF Goal

(* The call that has created a hold, or stored evidence, is about to       *)
(* append that to the ledger.                                              *)
LEMMA AnnouncingCall ==
  ASSUME TypeOK, TasksOK, NEW u \in AllTasks, InsertHold(u) \/ CommitEvidence(u)
  PROVE  /\ task'[u].pc = "ledger" /\ task'[u].hold = task[u].hold
         /\ InsertHold(u) => task'[u].req = "HOLD_CREATED"
         /\ CommitEvidence(u) => task'[u].req = "EVIDENCE_SUBMITTED"
<1>0. task \in [AllTasks -> TaskRecords]
  BY DEF TypeOK
<1>1. ASSUME NEW e, Become(u, [IdleTask EXCEPT !.pc = "ledger", !.hold = task[u].hold,
                                               !.req = e])
      PROVE  task'[u].pc = "ledger" /\ task'[u].hold = task[u].hold /\ task'[u].req = e
  <2>. DEFINE r == [IdleTask EXCEPT !.pc = "ledger", !.hold = task[u].hold, !.req = e]
  <2>1. r.pc = "ledger" /\ r.hold = task[u].hold /\ r.req = e
    BY DEF IdleTask
  <2>2. task'[u] = r
    BY <1>0, <1>1 DEF Become
  <2>. HIDE DEF r
  <2>. QED  BY <2>1, <2>2
<1>2. CASE InsertHold(u)
  <2>1. task'[u].pc = "ledger" /\ task'[u].hold = task[u].hold /\ task'[u].req = "HOLD_CREATED"
    BY <1>1, <1>2 DEF InsertHold
  <2>2. task[u].pc = "insert"
    BY <1>2 DEF InsertHold
  <2>. QED  BY <2>1, <2>2 DEF CommitEvidence
<1>3. CASE CommitEvidence(u)
  <2>1. task'[u].pc = "ledger" /\ task'[u].hold = task[u].hold /\ task'[u].req = "EVIDENCE_SUBMITTED"
    BY <1>1, <1>3 DEF CommitEvidence
  <2>2. task[u].pc = "evidence"
    BY <1>3 DEF CommitEvidence
  <2>. QED  BY <2>1, <2>2 DEF InsertHold
<1>. QED  BY <1>2, <1>3

(* What a call that asks the engine, and one that has its answer, carry.   *)
LEMMA ScoredCall ==
  ASSUME TypeOK, TasksOK, NEW u \in AllTasks, Score(u) \/ ScoreFails(u) \/ AskPolicy(u)
  PROVE  /\ task'[u].hold = task[u].hold /\ task[u].hold \in Holds
         /\ Score(u) => /\ snapshot'[task[u].hold] /\ task'[u].pc = "policy"
                        /\ \E p \in ModelPredictions : task'[u].check.candidate =
                             Candidate(p, task[u].round, task[u].verdict)
         /\ ScoreFails(u) => /\ task'[u].failed /\ task'[u].pc = "policy"
                             /\ task'[u].check.candidate = "ESCALATE"
         /\ AskPolicy(u) =>
              /\ task[u].pc = "policy" /\ task'[u].pc = "save"
              /\ task[u].failed => task'[u].failed
              /\ task'[u].decision \in {OpaCheck(task[u].check).allowed, "ESCALATE"}
<1>1. task[u] \in TaskRecords /\ task[u].hold \in Holds /\ task \in [AllTasks -> TaskRecords]
  BY DEF TypeOK, TasksOK, RecordOK, Score, ScoreFails, AskPolicy
<1>2. ASSUME NEW c, NEW p, NEW v, NEW failed, Become(u, Checking(u, c, p, v, failed))
      PROVE  /\ task'[u].hold = task[u].hold /\ task'[u].pc = "policy"
             /\ task'[u].failed = failed /\ task'[u].check.candidate = c
  <2>1. task'[u] = Checking(u, c, p, v, failed)
    BY <1>1, <1>2 DEF Become
  <2>2. /\ Checking(u, c, p, v, failed).hold = task[u].hold
        /\ Checking(u, c, p, v, failed).pc = "policy"
        /\ Checking(u, c, p, v, failed).failed = failed
        /\ Checking(u, c, p, v, failed).check.candidate = c
    BY <1>1 DEF Checking, TaskRecords
  <2>. QED  BY <2>1, <2>2
<1>3. ASSUME Score(u)
      PROVE  /\ snapshot'[task[u].hold] /\ task'[u].pc = "policy" /\ task'[u].hold = task[u].hold
             /\ \E p \in ModelPredictions :
                  task'[u].check.candidate = Candidate(p, task[u].round, task[u].verdict)
  <2>1. PICK p \in ModelPredictions :
          Become(u, Checking(u, Candidate(p, task[u].round, task[u].verdict), p,
                             task[u].verdict, FALSE))
    BY <1>3 DEF Score
  <2>2. snapshot'[task[u].hold]
    BY <1>1, <1>3 DEF Score, TypeOK
  <2>. QED  BY <1>2, <2>1, <2>2
<1>4. ASSUME ScoreFails(u)
      PROVE  /\ task'[u].failed = TRUE /\ task'[u].pc = "policy" /\ task'[u].hold = task[u].hold
             /\ task'[u].check.candidate = "ESCALATE"
  <2>1. PICK v : Become(u, Checking(u, "ESCALATE", FailurePrediction, v, TRUE))
    BY <1>4 DEF ScoreFails
  <2>. QED  BY <1>2, <2>1
<1>5. ASSUME AskPolicy(u)
      PROVE  /\ task[u].pc = "policy" /\ task'[u].pc = "save" /\ task'[u].hold = task[u].hold
             /\ task[u].failed => task'[u].failed
             /\ task'[u].decision \in {OpaCheck(task[u].check).allowed, "ESCALATE"}
  <2>. DEFINE r(result) == [task[u] EXCEPT !.pc = "save", !.check = None,
                              !.decision = result.allowed, !.stamp = clock[task[u].hold],
                              !.failed = @ \/ result = Unavailable]
  <2>1. PICK result \in {OpaCheck(task[u].check), Unavailable} : Become(u, r(result))
    BY <1>5 DEF AskPolicy
  <2>2. task'[u] = r(result)
    BY <1>1, <2>1 DEF Become
  <2>3. /\ r(result).hold = task[u].hold /\ r(result).pc = "save"
        /\ r(result).decision = result.allowed /\ (task[u].failed => r(result).failed)
    BY <1>1 DEF TaskRecords
  <2>4. Unavailable.allowed = "ESCALATE"
    BY DEF Unavailable, Escalation
  <2>. HIDE DEF r
  <2>. QED  BY <1>5, <2>1, <2>2, <2>3, <2>4 DEF AskPolicy
<1>. QED  BY <1>1, <1>3, <1>4, <1>5

(* Features that are stored stay stored.                                   *)
LEMMA SnapshotGrows ==
  ASSUME TypeOK, [Next]_vars, NEW h \in Holds, snapshot[h]
  PROVE  snapshot'[h]
<1>1. ASSUME NEW t \in AllTasks, Score(t) \/ ScoreFails(t)  PROVE snapshot'[h]
  BY <1>1 DEF Score, ScoreFails, TypeOK
<1>2. ASSUME UNCHANGED snapshot  PROVE snapshot'[h]
  BY <1>2
<1>3. ASSUME NEW t \in Tasks, Client(t)  PROVE UNCHANGED snapshot
  BY <1>3
  DEF Client, rows, StartCreate, InsertHold, InsertConflict, AppendLedger, Evaluate,
      ReadForEvaluate, Rescore, ReadInputs, InputsMissing, StartEvidence, CommitEvidence,
      EvidenceRefused, StartReview, CommitReview, ReviewRefused
<1>4. ASSUME NEW t \in AllTasks, AskPolicy(t) \/ SaveDecision(t) \/ SaveRefused(t) \/ Abort(t)
      PROVE  UNCHANGED snapshot
  BY <1>4 DEF rows, AskPolicy, SaveDecision, SaveRefused, Abort
<1>5. ASSUME NEW x \in Holds, AutomationEvaluate(x)  PROVE UNCHANGED snapshot
  BY <1>5 DEF AutomationEvaluate, ReadForEvaluate, rows
<1>6. ASSUME UNCHANGED vars  PROVE UNCHANGED snapshot
  BY <1>6 DEF vars, rows
<1>. QED  BY <1>1, <1>2, <1>3, <1>4, <1>5, <1>6 DEF Next, Scoring

(* A property of the recommendations that the new one has.                 *)
LEMMA FeaturesStep ==
  ASSUME TypeOK, TasksOK, RecordsMatch, [Next]_vars
  PROVE  RecommendationsHaveFeatures' /\ ScoredWithFeatures'
<1>1. RecommendationsHaveFeatures /\ ScoredWithFeatures
  BY DEF RecordsMatch, RowsBelongTogether
<1>2. ASSUME NEW x \in Holds, NEW i \in DOMAIN decisions'[x], ~decisions'[x][i].failed
      PROVE  snapshot'[x]
  <2>1. CASE i \in DOMAIN decisions[x] /\ decisions'[x][i] = decisions[x][i]
    BY <1>1, <1>2, <2>1, SnapshotGrows DEF RecommendationsHaveFeatures
  <2>2. ASSUME NEW t \in AllTasks, SaveDecision(t)  PROVE snapshot'[x]
    <3>1. task[t].hold \in Holds /\ Grows(decisions', decisions, task[t].hold, DecisionRow(t))
      BY <2>2, SaveEffect
    <3>2. CASE x = task[t].hold /\ i = Len(decisions[x]) + 1
      <4>1. decisions'[x][i] = DecisionRow(t) /\ task[t].pc = "save"
        BY <2>2, <3>1, <3>2 DEF Grows, SaveDecision
      <4>2. ~task[t].failed
        BY <1>2, <4>1 DEF DecisionRow
      <4>. QED  BY <1>1, <3>2, <4>1, <4>2, SnapshotGrows DEF ScoredWithFeatures
    <3>3. CASE x # task[t].hold
      <4>1. i \in DOMAIN decisions[x] /\ decisions'[x][i] = decisions[x][i]
        BY <3>1, <3>3 DEF Grows
      <4>. QED  BY <2>1, <4>1
    <3>4. CASE x = task[t].hold /\ i # Len(decisions[x]) + 1
      <4>1. i \in DOMAIN decisions[x] /\ decisions'[x][i] = decisions[x][i]
        BY <3>1, <3>4 DEF Grows
      <4>. QED  BY <2>1, <4>1
    <3>. QED  BY <3>2, <3>3, <3>4
  <2>3. CASE UNCHANGED decisions
    BY <1>2, <2>1, <2>3
  <2>. QED  BY <2>2, <2>3, RowWriters DEF caseRows, InsertHold, CommitEvidence, CommitReview
<1>3. ASSUME NEW u \in AllTasks, task'[u].pc \in {"policy", "save"}, ~task'[u].failed
      PROVE  snapshot'[task'[u].hold]
  <2>1. ASSUME task[u].hold \in Holds, snapshot[task[u].hold], task'[u].hold = task[u].hold
        PROVE  snapshot'[task'[u].hold]
    BY <2>1, SnapshotGrows
  <2>2. CASE task'[u] = task[u]
    <3>1. task[u].hold \in Holds
      BY <1>3, <2>2 DEF TasksOK, RecordOK
    <3>. QED  BY <1>1, <1>3, <2>1, <2>2, <3>1 DEF ScoredWithFeatures
  <2>3. CASE Score(u) \/ ScoreFails(u)
    BY <1>3, <2>3, ScoredCall
  <2>4. CASE AskPolicy(u)
    <3>1. task[u].hold \in Holds /\ task'[u].hold = task[u].hold /\ task[u].pc = "policy"
          /\ ~task[u].failed
      BY <1>3, <2>4, ScoredCall
    <3>. QED  BY <1>1, <2>1, <3>1 DEF ScoredWithFeatures
  <2>5. CASE InsertHold(u) \/ CommitEvidence(u)
    BY <1>3, <2>5, AnnouncingCall
  <2>. QED  BY <1>3, <2>2, <2>3, <2>4, <2>5, CallsMove
<1>. QED  BY <1>2, <1>3 DEF RecommendationsHaveFeatures, ScoredWithFeatures

(* What one transaction writes is there or is not.                         *)
LEMMA RecordsStep ==
  ASSUME TypeOK, TasksOK, RecordsMatch, [Next]_vars
  PROVE  RecordsMatch'
BY PartialCommitStep, FeaturesStep DEF RecordsMatch, RowsBelongTogether
-----------------------------------------------------------------------------
(* In human_only mode the cost policy, the evidence rule and the engine    *)
(* come to ESCALATE for every round and verdict.                           *)
LEMMA HumanOnlyCandidate ==
  ASSUME HumanOnly, NEW p \in ModelPredictions, NEW round, NEW v
  PROVE  Candidate(p, round, v) = "ESCALATE"
<1>1. /\ p.release = 0 /\ p.escalate = Scale /\ ReleaseThreshold > 0
  BY HoldAssumption DEF HumanOnlyPrediction
<1>2. ~(p.release >= ReleaseThreshold) /\ p.escalate >= EscalateThreshold
        /\ ~(p.escalate < EvidenceRiskCap)
  BY <1>1, ScaleAssumption
<1>. QED  BY <1>2 DEF Candidate, Choose

LEMMA EngineKeepsEscalation ==
  ASSUME NEW q \in PolicyChecks, q.candidate = "ESCALATE"
  PROVE  OpaCheck(q).allowed = "ESCALATE"
<1>1. LocalCheck(q).allowed = "ESCALATE"
  BY DEF LocalCheck, Escalation, Allow
<1>. QED  BY <1>1, EnginesAgree

LEMMA ModeStep ==
  ASSUME TypeOK, TasksOK, ModeOK, [Next]_vars
  PROVE  ModeOK'
<1>. SUFFICES ASSUME HumanOnly PROVE ModeOK'
  BY DEF ModeOK, HumanOnlyEscalates
<1>1. /\ HumanOnlyEscalates
      /\ \A t \in AllTasks : /\ task[t].pc = "policy" => task[t].check.candidate = "ESCALATE"
                             /\ task[t].pc = "save" => task[t].decision = "ESCALATE"
  BY DEF ModeOK
<1>2. ASSUME NEW u \in AllTasks
      PROVE  /\ task'[u].pc = "policy" => task'[u].check.candidate = "ESCALATE"
             /\ task'[u].pc = "save" => task'[u].decision = "ESCALATE"
  <2>1. CASE task'[u] = task[u]
    BY <1>1, <2>1
  <2>2. CASE Score(u) \/ ScoreFails(u)
    BY <2>2, ScoredCall, HumanOnlyCandidate
  <2>3. CASE AskPolicy(u)
    <3>1. /\ task[u].pc = "policy" /\ task'[u].pc = "save"
          /\ task'[u].decision \in {OpaCheck(task[u].check).allowed, "ESCALATE"}
      BY <2>3, ScoredCall
    <3>2. task[u].check \in PolicyChecks /\ task[u].check.candidate = "ESCALATE"
      BY <1>1, <3>1 DEF TasksOK, RecordOK, Checks, PolicyChecks
    <3>. QED  BY <3>1, <3>2, EngineKeepsEscalation
  <2>4. CASE InsertHold(u) \/ CommitEvidence(u)
    BY <2>4, AnnouncingCall
  <2>. QED  BY <2>1, <2>2, <2>3, <2>4, CallsMove
<1>. DEFINE Asked(x) == \E i \in DOMAIN reviews[x] :
              ResolvedDecision(reviews[x][i].submission) = "EVIDENCE_NEEDED"
            AllEscalate(x) == \A i \in DOMAIN decisions[x] : decisions[x][i].decision = "ESCALATE"
            Waits(x) == hold[x].state \in {"AWAITING_EVIDENCE", "EVIDENCE_SUBMITTED"}
<1>3. \A x \in Holds : AllEscalate(x) /\ (Waits(x) => Asked(x))
  BY <1>1 DEF HumanOnlyEscalates
<1>4. ASSUME NEW x \in Holds PROVE AllEscalate(x)' /\ (Waits(x)' => Asked(x)')
  <2>1. ASSUME NEW t \in AllTasks, SaveDecision(t)
        PROVE  AllEscalate(x)' /\ (Waits(x)' => Asked(x)')
    <3>1. /\ task[t].hold \in Holds /\ reviews' = reviews /\ task[t].decision = "ESCALATE"
          /\ OnlyState(task[t].hold, StateForDecision(task[t].decision))
          /\ Grows(decisions', decisions, task[t].hold, DecisionRow(t))
          /\ DecisionRow(t).decision = "ESCALATE"
      BY <1>1, <2>1, SaveEffect DEF SaveDecision, DecisionRow
    <3>2. hold'[x].state = "HUMAN_REVIEW" \/ hold'[x] = hold[x]
      BY <3>1 DEF OnlyState, StateForDecision
    <3>3. AllEscalate(x)'
      <4>1. CASE x = task[t].hold
        <5>1. ASSUME NEW i \in DOMAIN decisions'[x] PROVE decisions'[x][i].decision = "ESCALATE"
          <6>1. i \in DOMAIN decisions[x] => decisions'[x][i] = decisions[x][i]
            BY <4>1, <3>1 DEF Grows
          <6>2. i \in DOMAIN decisions[x] \/ i = Len(decisions[x]) + 1
            BY <4>1, <3>1 DEF Grows
          <6>3. decisions'[x][Len(decisions[x]) + 1] = DecisionRow(t)
            BY <4>1, <3>1 DEF Grows
          <6>. QED  BY <1>3, <3>1, <6>1, <6>2, <6>3
        <5>. QED  BY <5>1
      <4>2. CASE x # task[t].hold
        <5>1. decisions'[x] = decisions[x]
          BY <4>2, <3>1 DEF Grows
        <5>. QED  BY <1>3, <5>1
      <4>. QED  BY <4>1, <4>2
    <3>. QED  BY <1>3, <3>1, <3>2, <3>3
  <2>2. ASSUME NEW t \in AllTasks, CommitReview(t)
        PROVE  AllEscalate(x)' /\ (Waits(x)' => Asked(x)')
    <3>1. PICK s \in Submissions : s = task[t].submission /\ task[t].hold \in Holds
                                   /\ OnlyState(task[t].hold, StateAfterReview(s))
      BY <2>2, ReviewEffect
    <3>2. decisions' = decisions /\ Grows(reviews', reviews, task[t].hold, ReviewRow(t))
      BY <2>2, <3>1, AppendGrows DEF CommitReview, TypeOK
    <3>3. CASE x # task[t].hold
      BY <1>3, <3>1, <3>2, <3>3 DEF OnlyState, Grows
    <3>4. CASE x = task[t].hold
      <4>1. Waits(x)' => ResolvedDecision(s) = "EVIDENCE_NEEDED"
        BY <3>1, <3>4, SubmissionTypes DEF OnlyState, StateAfterReview, Decisions
      <4>2. ReviewRow(t).submission = s
        BY <3>1 DEF ReviewRow
      <4>3. /\ Len(reviews[x]) + 1 \in DOMAIN reviews'[x]
            /\ reviews'[x][Len(reviews[x]) + 1].submission = s
        BY <3>2, <3>4, <4>2 DEF Grows
      <4>. QED  BY <1>3, <3>2, <4>1, <4>3
    <3>. QED  BY <3>3, <3>4
  <2>3. ASSUME NEW t \in AllTasks, CommitEvidence(t)
        PROVE  AllEscalate(x)' /\ (Waits(x)' => Asked(x)')
    <3>1. /\ hold[task[t].hold].state = "AWAITING_EVIDENCE" /\ task[t].hold \in Holds
          /\ \A y \in Holds \ {task[t].hold} : hold'[y] = hold[y]
      BY <2>3, EvidenceEffect
    <3>2. decisions' = decisions /\ reviews' = reviews
      BY <2>3 DEF CommitEvidence
    <3>3. Asked(x)' <=> Asked(x)
      BY <3>2
    <3>4. AllEscalate(x)' <=> AllEscalate(x)
      BY <3>2
    <3>5. Waits(x)' => Waits(x)
      BY <3>1
    <3>. QED  BY <1>3, <3>3, <3>4, <3>5
  <2>4. ASSUME NEW t \in AllTasks, InsertHold(t)
        PROVE  AllEscalate(x)' /\ (Waits(x)' => Asked(x)')
    <3>1. /\ hold'[task[t].hold].state = "OPEN" /\ UNCHANGED <<decisions, reviews>>
          /\ \A y \in Holds \ {task[t].hold} : hold'[y] = hold[y]
      BY <2>4, InsertEffect DEF InsertHold
    <3>. QED  BY <1>3, <3>1
  <2>5. ASSUME UNCHANGED caseRows  PROVE AllEscalate(x)' /\ (Waits(x)' => Asked(x)')
    BY <1>3, <2>5 DEF caseRows
  <2>. QED  BY <2>1, <2>2, <2>3, <2>4, <2>5, RowWriters
<1>. QED  BY <1>2, <1>4 DEF ModeOK, HumanOnlyEscalates
-----------------------------------------------------------------------------
(* What a step may do to one case: nothing, or create it, or store its     *)
(* evidence, or append a recommendation or a review.                       *)
Opened(x) ==
  /\ hold[x].state = "ABSENT" /\ hold'[x].state = "OPEN" /\ hold'[x].round = 0
  /\ audit'[x] = audit[x] /\ decisions'[x] = decisions[x]

Submitted(x) ==
  /\ hold[x].round = 0 /\ hold[x].state = "AWAITING_EVIDENCE"
  /\ hold'[x].state = "EVIDENCE_SUBMITTED" /\ hold'[x].round = 1
  /\ audit'[x] = audit[x] /\ decisions'[x] = decisions[x]

Judged(x) ==
  /\ hold'[x].round = hold[x].round
  /\ hold'[x].state \notin {"ABSENT", "OPEN", "EVIDENCE_SUBMITTED"}
  /\ Len(audit'[x]) = Len(audit[x]) + 1
  /\ \/ decisions'[x] = decisions[x]
     \/ \E t \in AllTasks : /\ task[t].pc = "save" /\ task[t].hold = x
                            /\ Grows(decisions', decisions, x, DecisionRow(t))

Untouched(x) ==
  hold'[x] = hold[x] /\ audit'[x] = audit[x] /\ decisions'[x] = decisions[x]

LEMMA CaseMoves ==
  ASSUME TypeOK, TasksOK, [Next]_vars, NEW x \in Holds
  PROVE  Untouched(x) \/ Opened(x) \/ Submitted(x) \/ Judged(x)
<1>1. ASSUME NEW t \in AllTasks, SaveDecision(t)  PROVE Untouched(x) \/ Judged(x)
  <2>1. /\ OnlyState(task[t].hold, StateForDecision(task[t].decision))
        /\ Grows(audit', audit, task[t].hold, DecisionEvent(t))
        /\ Grows(decisions', decisions, task[t].hold, DecisionRow(t))
        /\ task[t].pc = "save"
    BY <1>1, SaveEffect DEF SaveDecision
  <2>2. CASE x = task[t].hold
    <3>1. StateForDecision(task[t].decision) \notin {"ABSENT", "OPEN", "EVIDENCE_SUBMITTED"}
      BY DEF StateForDecision
    <3>2. /\ hold'[x].state = StateForDecision(task[t].decision)
          /\ hold'[x].round = hold[x].round /\ Len(audit'[x]) = Len(audit[x]) + 1
      BY <2>1, <2>2 DEF OnlyState, Grows
    <3>. QED  BY <2>1, <2>2, <3>1, <3>2 DEF Judged
  <2>3. CASE x # task[t].hold
    BY <2>1, <2>3 DEF OnlyState, Grows, Untouched
  <2>. QED  BY <2>2, <2>3
<1>2. ASSUME NEW t \in AllTasks, CommitReview(t)  PROVE Untouched(x) \/ Judged(x)
  <2>1. PICK s \in Submissions : s = task[t].submission
    BY <1>2, ReviewEffect
  <2>2. /\ OnlyState(task[t].hold, StateAfterReview(s))
        /\ Grows(audit', audit, task[t].hold, ReviewEvent(s))
    BY <1>2, <2>1, ReviewEffect
  <2>3. decisions' = decisions
    BY <1>2 DEF CommitReview
  <2>4. StateAfterReview(s) \notin {"ABSENT", "OPEN", "EVIDENCE_SUBMITTED"}
    BY SubmissionTypes DEF StateAfterReview, Decisions
  <2>5. CASE x = task[t].hold
    <3>1. /\ hold'[x].state = StateAfterReview(s)
          /\ hold'[x].round = hold[x].round /\ Len(audit'[x]) = Len(audit[x]) + 1
      BY <2>2, <2>5 DEF OnlyState, Grows
    <3>. QED  BY <2>3, <2>4, <3>1 DEF Judged
  <2>6. CASE x # task[t].hold
    BY <2>2, <2>3, <2>6 DEF OnlyState, Grows, Untouched
  <2>. QED  BY <2>5, <2>6
<1>3. ASSUME NEW t \in AllTasks, CommitEvidence(t)  PROVE Untouched(x) \/ Submitted(x)
  <2>1. /\ hold[task[t].hold].state = "AWAITING_EVIDENCE" /\ hold[task[t].hold].round = 0
        /\ hold'[task[t].hold].state = "EVIDENCE_SUBMITTED" /\ hold'[task[t].hold].round = 1
        /\ audit' = audit
        /\ \A y \in Holds \ {task[t].hold} : hold'[y] = hold[y]
    BY <1>3, EvidenceEffect
  <2>2. decisions' = decisions
    BY <1>3 DEF CommitEvidence
  <2>. QED  BY <2>1, <2>2 DEF Untouched, Submitted
<1>4. ASSUME NEW t \in AllTasks, InsertHold(t)  PROVE Untouched(x) \/ Opened(x)
  <2>1. /\ hold[task[t].hold].state = "ABSENT"
        /\ hold'[task[t].hold].state = "OPEN" /\ hold'[task[t].hold].round = 0
        /\ \A y \in Holds \ {task[t].hold} : hold'[y] = hold[y]
    BY <1>4, InsertEffect
  <2>2. decisions' = decisions /\ audit' = audit
    BY <1>4 DEF InsertHold
  <2>. QED  BY <2>1, <2>2 DEF Untouched, Opened
<1>5. UNCHANGED caseRows => Untouched(x)
  BY DEF caseRows, Untouched
<1>. QED  BY <1>1, <1>2, <1>3, <1>4, <1>5, RowWriters

(* A fresh second-round recommendation ends the wait for one.              *)
LEMMA RescoresStep ==
  ASSUME IInv, RescoresOK, [Next]_vars
  PROVE  RescoresOK'
<1>0. TypeOK /\ TasksOK /\ AbsentIsBlank /\ OneEvidenceRound /\ FreshCallsAreOpen
  BY DEF IInv
<1>1. ASSUME NEW x \in Holds  PROVE RescoredOnce(x)'
  <2>1. /\ hold[x].state = "OPEN" => hold[x].round = 0
        /\ \A i, j \in FreshRescores(x) : i = j
        /\ FreshRescores(x) # {} =>
             hold[x].round = 1 /\ hold[x].state # "EVIDENCE_SUBMITTED"
    BY DEF RescoresOK, RescoredOnce
  <2>2. decisions'[x] = decisions[x] => FreshRescores(x)' = FreshRescores(x)
    BY DEF FreshRescores
  <2>3. CASE Untouched(x)
    BY <2>1, <2>2, <2>3 DEF Untouched, RescoredOnce
  <2>4. CASE Opened(x) \/ Submitted(x)
    <3>1. hold[x].round = 0
      BY <1>0, <2>4 DEF Opened, Submitted, AbsentIsBlank
    <3>2. FreshRescores(x)' = {}
      BY <2>1, <2>2, <2>4, <3>1 DEF Opened, Submitted
    <3>. QED  BY <2>4, <3>2 DEF Opened, Submitted, RescoredOnce
  <2>5. ASSUME NEW t \in AllTasks, task[t].pc = "save", task[t].hold = x,
               Grows(decisions', decisions, x, DecisionRow(t)), Judged(x)
        PROVE  RescoredOnce(x)'
    <3>. DEFINE n == Len(decisions[x]) + 1
    <3>1. CASE task[t].round = 1 /\ task[t].seen = Len(audit[x])
      <4>1. hold[x].state = "EVIDENCE_SUBMITTED"
        BY <2>5, <3>1 DEF RescoresOK, ScoringPcs
      <4>2. hold[x].round = 1 /\ FreshRescores(x) = {}
        BY <1>0, <2>1, <4>1 DEF OneEvidenceRound
      <4>3. FreshRescores(x)' \subseteq {n}
        BY <2>5, <4>2 DEF Grows, FreshRescores
      <4>4. \A i, j \in FreshRescores(x)' : i = j
        BY <4>3
      <4>. QED  BY <2>5, <4>2, <4>4 DEF Judged, RescoredOnce
    <3>2. CASE ~(task[t].round = 1 /\ task[t].seen = Len(audit[x]))
      <4>1. ~(DecisionRow(t).round = 1 /\ DecisionRow(t).fresh)
        BY <2>5, <3>2 DEF DecisionRow
      <4>2. FreshRescores(x)' = FreshRescores(x)
        BY <2>5, <4>1 DEF Grows, FreshRescores
      <4>. QED  BY <2>1, <2>5, <4>2 DEF Judged, RescoredOnce
    <3>. QED  BY <3>1, <3>2
  <2>6. CASE Judged(x) /\ decisions'[x] = decisions[x]
    BY <2>1, <2>2, <2>6 DEF Judged, RescoredOnce
  <2>7. CASE Judged(x)
    BY <2>5, <2>6, <2>7 DEF Judged
  <2>. QED  BY <1>0, <2>3, <2>4, <2>7, CaseMoves
<1>2. ASSUME NEW u \in AllTasks, task'[u].pc \in ScoringPcs, task'[u].round = 1,
             task'[u].seen = Len(audit'[task'[u].hold])
      PROVE  hold'[task'[u].hold].state = "EVIDENCE_SUBMITTED"
  <2>1. CASE JustRead(task'[u])
    <3>1. /\ task'[u].hold \in Holds /\ hold' = hold
          /\ hold[task'[u].hold].round = 1
          /\ hold[task'[u].hold].state \in {"OPEN", "EVIDENCE_SUBMITTED"}
      BY <1>2, <2>1 DEF JustRead, caseRows
    <3>. QED  BY <3>1 DEF RescoresOK, RescoredOnce
  <2>2. CASE Continues(task'[u], task[u]) \/ task'[u] = task[u]
    <3>1. PICK x, n : /\ x = task[u].hold /\ n = task[u].seen
                      /\ task'[u].hold = x /\ task'[u].seen = n
                      /\ task[u].pc \in ScoringPcs /\ task[u].round = 1
      BY <1>2, <2>2 DEF Continues
    <3>2. x \in Holds /\ n \in Nat
      BY <1>0, <3>1 DEF TypeOK, TasksOK, RecordOK, ScoringPcs, TaskRecords
    <3>3. n <= Len(audit[x]) /\ (n = Len(audit[x]) => hold[x].state = "EVIDENCE_SUBMITTED")
      BY <1>0, <3>1 DEF FreshCallsAreOpen, RescoresOK
    <3>4. Len(audit[x]) \in Nat /\ n = Len(audit'[x])
      BY <1>0, <1>2, <3>1, <3>2 DEF TypeOK
    <3>5. CASE Untouched(x) \/ Submitted(x) \/ Opened(x)
      BY <3>1, <3>3, <3>4, <3>5 DEF Untouched, Submitted, Opened
    <3>6. CASE Judged(x)
      BY <3>2, <3>3, <3>4, <3>6 DEF Judged
    <3>. QED  BY <1>0, <3>2, <3>5, <3>6, CaseMoves
  <2>. QED  BY <1>0, <1>2, <2>1, <2>2, CallMoves
<1>. QED  BY <1>1, <1>2 DEF RescoresOK
-----------------------------------------------------------------------------
(* A request id that is in use is not used again.                          *)
LEMMA RequestsStep ==
  ASSUME TypeOK, TasksOK, RequestsTakeEffectOnce, [Next]_vars
  PROVE  RequestsTakeEffectOnce'
<1>. DEFINE Reviews(f) == \A g, h \in Holds : \A i \in DOMAIN f[g], j \in DOMAIN f[h] :
              f[g][i].id = f[h][j].id => g = h /\ i = j
            Evidence(f) == \A g, h \in Holds :
              f[g] # None /\ f[h] # None /\ f[g].id = f[h].id => g = h
<1>1. Reviews(reviews) /\ Evidence(evidence)
  BY DEF RequestsTakeEffectOnce
<1>2. ASSUME NEW t \in AllTasks, CommitReview(t)
      PROVE  Reviews(reviews') /\ evidence' = evidence
  <2>1. PICK x \in Holds : x = task[t].hold
    BY <1>2, ReviewEffect
  <2>2. Grows(reviews', reviews, x, ReviewRow(t))
    BY <1>2, <2>1, AppendGrows DEF CommitReview, TypeOK
  <2>3. \A h \in Holds : \A i \in DOMAIN reviews[h] : reviews[h][i].id # ReviewRow(t).id
    BY <1>2 DEF CommitReview, ReviewIdUsed, ReviewRow
  <2>. DEFINE n == Len(reviews[x]) + 1
  <2>4. \A h \in Holds : \A i \in DOMAIN reviews'[h] :
          \/ h = x /\ i = n /\ reviews'[h][i] = ReviewRow(t)
          \/ i \in DOMAIN reviews[h] /\ reviews'[h][i] = reviews[h][i]
    BY <2>2 DEF Grows
  <2>5. Reviews(reviews')
    BY <1>1, <2>3, <2>4
  <2>. QED  BY <1>2, <2>5 DEF CommitReview
<1>3. ASSUME NEW t \in AllTasks, CommitEvidence(t)
      PROVE  Evidence(evidence') /\ reviews' = reviews
  <2>0. PICK x \in Holds : x = task[t].hold /\ evidence'[x].id = task[t].req
                          /\ evidence' = [evidence EXCEPT ![x] = evidence'[x]]
    BY <1>3, EvidenceEffect DEF CommitEvidence, TypeOK
  <2>. DEFINE e == evidence'[x]
  <2>1. /\ x = task[t].hold /\ e.id = task[t].req
        /\ evidence' = [evidence EXCEPT ![x] = e]
    BY <2>0
  <2>. HIDE DEF e
  <2>2. \A h \in Holds : evidence[h] # None => evidence[h].id # e.id
    BY <1>3, <2>1 DEF CommitEvidence, EvidenceIdUsed
  <2>3. \A h \in Holds : evidence'[h] = IF h = x THEN e ELSE evidence[h]
    BY <2>1 DEF TypeOK
  <2>. QED  BY <1>1, <1>3, <2>2, <2>3 DEF CommitEvidence
<1>4. ASSUME NEW t \in AllTasks, SaveDecision(t) \/ InsertHold(t)
      PROVE  reviews' = reviews /\ evidence' = evidence
  BY <1>4 DEF SaveDecision, InsertHold
<1>5. UNCHANGED caseRows => reviews' = reviews /\ evidence' = evidence
  BY DEF caseRows
<1>6. Reviews(reviews') /\ Evidence(evidence')
  <2>. HIDE DEF Reviews, Evidence
  <2>. QED  BY <1>1, <1>2, <1>3, <1>4, <1>5, RowWriters
<1>. QED  BY <1>6 DEF RequestsTakeEffectOnce

(* Only a call that announces something appends to the ledger.             *)
LEMMA LedgerWriters ==
  ASSUME [Next]_vars
  PROVE  \/ UNCHANGED ledger
         \/ \E t \in AllTasks : AppendLedger(t)
<1>1. Tasks \subseteq AllTasks
  BY DEF AllTasks
<1>2. ASSUME NEW t \in Tasks, Client(t)  PROVE UNCHANGED ledger \/ AppendLedger(t)
  BY <1>2
  DEF Client, StartCreate, InsertHold, InsertConflict, Evaluate, ReadForEvaluate, Rescore,
      ReadInputs, InputsMissing, StartEvidence, CommitEvidence, EvidenceRefused,
      StartReview, CommitReview, ReviewRefused
<1>3. ASSUME NEW t \in AllTasks, Scoring(t) \/ Abort(t)  PROVE UNCHANGED ledger
  BY <1>3 DEF Scoring, Score, ScoreFails, AskPolicy, SaveDecision, SaveRefused, Abort
<1>4. ASSUME NEW h \in Holds, AutomationEvaluate(h)  PROVE UNCHANGED ledger
  BY <1>4 DEF AutomationEvaluate, ReadForEvaluate
<1>5. UNCHANGED vars => UNCHANGED ledger
  BY DEF vars
<1>. QED  BY <1>1, <1>2, <1>3, <1>4, <1>5 DEF Next

(* The step that gives a call something to append.                         *)
Begins(u, h, type) ==
  /\ task[u].hold = h
  /\ \/ type = "HOLD_CREATED" /\ InsertHold(u)
     \/ type = "EVIDENCE_SUBMITTED" /\ CommitEvidence(u)

LEMMA AnnouncingMoves ==
  ASSUME TypeOK, TasksOK, [Next]_vars, NEW h \in Holds, NEW type
  PROVE  /\ Announcing(h, type)' \subseteq
              Announcing(h, type) \cup {u \in AllTasks : Begins(u, h, type)}
         /\ \A u, v \in AllTasks : Begins(u, h, type) /\ Begins(v, h, type) => u = v
<1>1. ASSUME NEW u \in AllTasks, u \in Announcing(h, type)'
      PROVE  u \in Announcing(h, type) \/ Begins(u, h, type)
  <2>1. task'[u].pc = "ledger" /\ task'[u].hold = h /\ task'[u].req = type
    BY <1>1 DEF Announcing
  <2>2. CASE task'[u] = task[u]
    BY <2>1, <2>2 DEF Announcing
  <2>3. CASE InsertHold(u) \/ CommitEvidence(u)
    BY <2>1, <2>3, AnnouncingCall DEF Begins
  <2>4. ~(Score(u) \/ ScoreFails(u) \/ AskPolicy(u))
    BY <2>1, ScoredCall
  <2>. QED  BY <2>1, <2>2, <2>3, <2>4, CallsMove
<1>2. ASSUME NEW u \in AllTasks, NEW v \in AllTasks, Begins(u, h, type), Begins(v, h, type)
      PROVE  u = v
  <2>1. task[v].pc # "ledger" /\ task'[v].pc = "ledger"
    BY <1>2, AnnouncingCall DEF Begins, InsertHold, CommitEvidence
  <2>2. \E r : Become(u, r)
    BY <1>2 DEF Begins, InsertHold, CommitEvidence
  <2>. QED  BY <2>1, <2>2 DEF Become, TypeOK
<1>3. Announcing(h, type)' \subseteq AllTasks
  BY DEF Announcing
<1>. QED  BY <1>1, <1>2, <1>3

(* One more record is one announcing call less.                            *)
LEMMA RecordedMoves ==
  ASSUME TypeOK, TasksOK, [Next]_vars, NEW h \in Holds, NEW type
  PROVE  \/ Recorded(h, type)' = Recorded(h, type)
         \/ \E t \in Announcing(h, type) : \E n :
              t \notin Announcing(h, type)' /\ Recorded(h, type)' = Recorded(h, type) \cup {n}
<1>1. ASSUME NEW t \in AllTasks, AppendLedger(t)
      PROVE  \/ Recorded(h, type)' = Recorded(h, type)
             \/ /\ t \in Announcing(h, type) /\ t \notin Announcing(h, type)'
                /\ \E n : Recorded(h, type)' = Recorded(h, type) \cup {n}
  <2>1. task[t].hold \in Holds /\ task[t].pc = "ledger" /\ task[t].req \in LedgerTypes
    BY <1>1 DEF AppendLedger, TasksOK, RecordOK
  <2>2. Grows(ledger', ledger, task[t].hold, task[t].req)
    BY <1>1, <2>1, AppendGrows DEF AppendLedger, TypeOK
  <2>3. CASE h # task[t].hold \/ type # task[t].req
    BY <2>2, <2>3, SMTT(20) DEF Grows, Recorded
  <2>4. CASE h = task[t].hold /\ type = task[t].req
    <3>1. t \in Announcing(h, type)
      BY <2>1, <2>4 DEF Announcing
    <3>2. task'[t].pc = "idle"
      BY <1>1 DEF AppendLedger, Return, Become, IdleTask, TypeOK
    <3>3. Recorded(h, type)' = Recorded(h, type) \cup {Len(ledger[h]) + 1}
      BY <2>2, <2>4, SMTT(20) DEF Grows, Recorded
    <3>. QED  BY <3>1, <3>2, <3>3 DEF Announcing
  <2>. QED  BY <2>3, <2>4
<1>2. CASE UNCHANGED ledger
  BY <1>2 DEF Recorded
<1>. QED  BY <1>1, <1>2, LedgerWriters

(* What happens once leaves one trace.                                     *)
LEMMA TraceStep ==
  ASSUME TypeOK, TasksOK, [Next]_vars, NEW h \in Holds, NEW type,
         NEW before \in BOOLEAN, NEW after \in BOOLEAN, before => after,
         Trace(h, type, before),
         \A u \in AllTasks : Begins(u, h, type) => ~before /\ after
  PROVE  OneTrace(Announcing(h, type)', Recorded(h, type)', after)
<1>. DEFINE A == Announcing(h, type)
            R == Recorded(h, type)
            A2 == Announcing(h, type)'
            R2 == Recorded(h, type)'
<1>1. /\ ~before => A = {} /\ R = {}
      /\ A = {} \/ R = {}
      /\ \A t, u \in A : t = u
      /\ \A i, j \in R : i = j
  BY DEF Trace, OneTrace
<1>2. R2 = R \/ \E t \in A : \E n : t \notin A2 /\ R2 = R \cup {n}
  BY RecordedMoves
<1>3. CASE \E u \in AllTasks : Begins(u, h, type)
  <2>1. PICK u \in AllTasks : Begins(u, h, type)
    BY <1>3
  <2>2. A2 \subseteq {u} /\ A = {} /\ R = {} /\ after
    BY <1>1, <2>1, AnnouncingMoves
  <2>3. R2 = {}
    BY <1>2, <2>2
  <2>. HIDE DEF A2, R2
  <2>4. OneTrace(A2, R2, after)
    BY <2>2, <2>3 DEF OneTrace
  <2>. QED  BY <2>4 DEF A2, R2
<1>4. CASE ~ \E u \in AllTasks : Begins(u, h, type)
  <2>1. A2 \subseteq A
    BY <1>4, AnnouncingMoves
  <2>. HIDE DEF A, R, A2, R2
  <2>2. ASSUME R2 = R  PROVE OneTrace(A2, R2, after)
    BY <1>1, <2>1, <2>2 DEF OneTrace
  <2>3. ASSUME \E t \in A : \E n : t \notin A2 /\ R2 = R \cup {n}
        PROVE  OneTrace(A2, R2, after)
    <3>0. PICK t \in A : \E n : t \notin A2 /\ R2 = R \cup {n}
      BY <2>3
    <3>1. PICK n : t \notin A2 /\ R2 = R \cup {n}
      BY <3>0
    <3>2. A2 = {} /\ R = {} /\ before
      BY <1>1, <2>1, <3>1
    <3>3. \A i, j \in R2 : i = j
      BY <3>1, <3>2
    <3>4. OneTrace(A2, R2, after)
      BY <3>2, <3>3 DEF OneTrace
    <3>. QED  BY <3>4
  <2>4. OneTrace(A2, R2, after)
    BY <1>2, <2>2, <2>3
  <2>. QED  BY <2>4 DEF A2, R2
<1>. QED  BY <1>3, <1>4

(* Requests leave one trace after every step.                              *)
LEMMA TracesStep ==
  ASSUME IInv, TracesOK, [Next]_vars
  PROVE  TracesOK'
<1>0. TypeOK /\ TasksOK
  BY DEF IInv
<1>1. RequestsTakeEffectOnce'
  BY <1>0, RequestsStep DEF TracesOK
<1>2. ASSUME NEW h \in Holds
      PROVE  /\ Trace(h, "HOLD_CREATED", hold[h].state # "ABSENT")'
             /\ Trace(h, "EVIDENCE_SUBMITTED", hold[h].round = 1)'
  <2>1. /\ Trace(h, "HOLD_CREATED", hold[h].state # "ABSENT")
        /\ Trace(h, "EVIDENCE_SUBMITTED", hold[h].round = 1)
    BY DEF TracesOK
  <2>2. hold[h].state # "ABSENT" => hold'[h].state # "ABSENT"
    BY <1>0, CaseMoves DEF Untouched, Opened, Submitted, Judged
  <2>3. hold[h].round = 1 => hold'[h].round = 1
    <3>1. hold[h].state = "ABSENT" => hold[h].round = 0
      BY DEF IInv, AbsentIsBlank
    <3>. QED  BY <1>0, <3>1, CaseMoves DEF Untouched, Opened, Submitted, Judged
  <2>4. \A u \in AllTasks : Begins(u, h, "HOLD_CREATED") =>
          hold[h].state = "ABSENT" /\ hold'[h].state # "ABSENT"
    BY <1>0, InsertEffect DEF Begins
  <2>5. \A u \in AllTasks : Begins(u, h, "EVIDENCE_SUBMITTED") =>
          hold[h].round # 1 /\ hold'[h].round = 1
    BY <1>0, EvidenceEffect DEF Begins
  <2>6. OneTrace(Announcing(h, "HOLD_CREATED")', Recorded(h, "HOLD_CREATED")',
                 hold'[h].state # "ABSENT")
    BY <1>0, <2>1, <2>2, <2>4, TraceStep
  <2>7. OneTrace(Announcing(h, "EVIDENCE_SUBMITTED")', Recorded(h, "EVIDENCE_SUBMITTED")',
                 hold'[h].round = 1)
    BY <1>0, <2>1, <2>3, <2>5, TraceStep
  <2>. QED  BY <2>6, <2>7 DEF Trace
<1>. QED  BY <1>1, <1>2 DEF TracesOK
-----------------------------------------------------------------------------
(* At the start nothing is on record.                                      *)
LEMMA RecordsInit == Init => RecordsMatch /\ TracesOK /\ RescoresOK /\ ModeOK
<1>. SUFFICES ASSUME Init  PROVE RecordsMatch /\ TracesOK /\ RescoresOK /\ ModeOK
  OBVIOUS
<1>1. \A t \in AllTasks : task[t].pc = "idle"
  BY DEF Init, IdleTask
<1>2. \A h \in Holds :
        /\ hold[h].state = "ABSENT" /\ hold[h].round = 0 /\ evidence[h] = None
        /\ decisions[h] = <<>> /\ reviews[h] = <<>> /\ audit[h] = <<>>
        /\ outbox[h] = <<>> /\ ledger[h] = <<>>
  BY DEF Init
<1>3. NoPartialCommit
  <2>1. Len(<<>>) = 0 /\ DOMAIN <<>> = {}
    OBVIOUS
  <2>2. ASSUME NEW h \in Holds
        PROVE  outbox[h] = [i \in DOMAIN audit[h] |-> audit[h][i].type]
    <3>1. audit[h] = <<>> /\ outbox[h] = <<>>
      BY <1>2
    <3>2. <<>> = [i \in DOMAIN <<>> |-> <<>>[i].type]
      BY <2>1
    <3>. QED  BY <3>1, <3>2, Zenon
  <2>3. ASSUME NEW h \in Holds PROVE Len(audit[h]) = Len(decisions[h]) + Len(reviews[h])
    <3>1. Len(audit[h]) = 0 /\ Len(decisions[h]) = 0 /\ Len(reviews[h]) = 0
      BY <1>2, <2>1, Zenon
    <3>. QED  BY <3>1
  <2>. QED  BY <2>2, <2>3 DEF NoPartialCommit
<1>4. RecommendationsHaveFeatures /\ ScoredWithFeatures
  BY <1>1, <1>2 DEF RecommendationsHaveFeatures, ScoredWithFeatures
<1>5. \A h \in Holds : FreshRescores(h) = {}
  BY <1>2 DEF FreshRescores
<1>6. RescoresOK
  BY <1>1, <1>2, <1>5 DEF RescoresOK, RescoredOnce, ScoringPcs
<1>7. ModeOK
  BY <1>1, <1>2 DEF ModeOK, HumanOnlyEscalates
<1>8. \A h \in Holds : \A type : Announcing(h, type) = {} /\ Recorded(h, type) = {}
  BY <1>1, <1>2 DEF Announcing, Recorded
<1>9. TracesOK
  BY <1>2, <1>8 DEF TracesOK, Trace, OneTrace, RequestsTakeEffectOnce
<1>. QED  BY <1>3, <1>4, <1>6, <1>7, <1>9 DEF RecordsMatch, RowsBelongTogether

(* Any two equal: at most one.                                             *)
LEMMA AtMostOne ==
  ASSUME NEW S, \A i, j \in S : i = j
  PROVE  Cardinality(S) \in Nat /\ Cardinality(S) <= 1 /\ (S = {} => Cardinality(S) = 0)
<1>1. CASE S = {}
  BY <1>1, FS_EmptySet
<1>2. CASE S # {}
  <2>1. PICK i \in S : TRUE
    BY <1>2
  <2>2. S = {i}
    BY <2>1
  <2>3. Cardinality({i}) = 1
    BY FS_Singleton
  <2>. QED  BY <1>2, <2>2, <2>3
<1>. QED  BY <1>1, <1>2

(* What one call stores is stored whole: every record has its outbox event *)
(* and its row, every recommendation its features (database.py:326-353).   *)
THEOREM RowsTogether == Spec => []RowsBelongTogether
<1>1. Init => RecordsMatch
  BY RecordsInit
<1>2. IInv /\ RecordsMatch /\ [Next]_vars => RecordsMatch'
  BY RecordsStep DEF IInv
<1>3. RecordsMatch => RowsBelongTogether
  BY DEF RecordsMatch
<1>. QED  BY <1>1, <1>2, <1>3, Invariance, PTL DEF Spec

(* However often a request is sent and wherever it is overtaken, it has    *)
(* one row and at most one ledger record (database.py:213, 370, 461).      *)
THEOREM RecordedOnce == Spec => []RequestsAreRecordedOnce
<1>1. Init => TracesOK
  BY RecordsInit
<1>2. IInv /\ TracesOK /\ [Next]_vars => TracesOK'
  BY TracesStep
<1>3. IInv /\ TracesOK => RequestsAreRecordedOnce
  <2>. SUFFICES ASSUME IInv, TracesOK  PROVE RequestsAreRecordedOnce
    OBVIOUS
  <2>1. ASSUME NEW h \in Holds
        PROVE  /\ LedgerCount(h, "HOLD_CREATED") <= (IF hold[h].state = "ABSENT" THEN 0 ELSE 1)
               /\ LedgerCount(h, "EVIDENCE_SUBMITTED") <= hold[h].round
    <3>1. \A type : LedgerCount(h, type) = Cardinality(Recorded(h, type))
      BY DEF LedgerCount, Recorded
    <3>2. /\ \A i, j \in Recorded(h, "HOLD_CREATED") : i = j
          /\ hold[h].state = "ABSENT" => Recorded(h, "HOLD_CREATED") = {}
          /\ \A i, j \in Recorded(h, "EVIDENCE_SUBMITTED") : i = j
          /\ hold[h].round # 1 => Recorded(h, "EVIDENCE_SUBMITTED") = {}
      BY DEF TracesOK, Trace, OneTrace
    <3>3. hold[h].round \in {0, 1}
      BY DEF IInv, TypeOK, HoldRows
    <3>4. /\ Cardinality(Recorded(h, "HOLD_CREATED")) <= 1
          /\ hold[h].state = "ABSENT" => Cardinality(Recorded(h, "HOLD_CREATED")) = 0
      BY <3>2, AtMostOne
    <3>5. /\ Cardinality(Recorded(h, "EVIDENCE_SUBMITTED")) <= 1
          /\ hold[h].round # 1 => Cardinality(Recorded(h, "EVIDENCE_SUBMITTED")) = 0
      BY <3>2, AtMostOne
    <3>. QED  BY <3>1, <3>3, <3>4, <3>5
  <2>. QED  BY <2>1 DEF RequestsAreRecordedOnce, LedgerFollowsRows, TracesOK
<1>. QED  BY <1>1, <1>2, <1>3, Invariance, PTL DEF Spec

(* However many rescores of a hold run at once, at most one is computed    *)
(* from the case as it stands when it is stored (workflow.py:104-109).     *)
THEOREM OneFresh == Spec => []OneFreshRescore
<1>1. Init => RescoresOK
  BY RecordsInit
<1>2. IInv /\ RescoresOK /\ [Next]_vars => RescoresOK'
  BY RescoresStep
<1>3. RescoresOK => OneFreshRescore
  BY AtMostOne DEF RescoresOK, RescoredOnce, FreshRescores, OneFreshRescore
<1>. QED  BY <1>1, <1>2, <1>3, Invariance, PTL DEF Spec

(* In human_only mode every recommendation is ESCALATE, and only a human   *)
(* asks a merchant for evidence (human-only-production-mode.md).           *)
THEOREM HumansOnly == Spec => []HumanOnlyEscalates
<1>1. Init => ModeOK
  BY RecordsInit
<1>2. IInv /\ ModeOK /\ [Next]_vars => ModeOK'
  BY ModeStep DEF IInv
<1>3. ModeOK => HumanOnlyEscalates
  BY DEF ModeOK
<1>. QED  BY <1>1, <1>2, <1>3, Invariance, PTL DEF Spec
=============================================================================
