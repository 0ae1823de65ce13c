---------------------------- MODULE HoldWorkflow ----------------------------
(***************************************************************************)
(* The settlement-hold workflow of HoldService (workflow.py) on the SQL    *)
(* repository (database.py): what happens to a hold when creations,        *)
(* evaluations, evidence, rescores and analyst reviews of the same hold    *)
(* overlap.                                                                *)
(*                                                                         *)
(* A task is one API call (or one evaluation of the automation loop) on    *)
(* its way through the service.  It is cut into steps where the code       *)
(* awaits: every database transaction is a step, and so is the call to the *)
(* policy engine.  A transaction that takes the row lock of the hold       *)
(* (SELECT ... FOR UPDATE) is one step, because every writer of the row    *)
(* takes it; the idempotency read before the lock is a step of its own.    *)
(* Calls that only read, and those rejected on arrival, change nothing and *)
(* are left out.                                                           *)
(***************************************************************************)
EXTENDS HoldRules, Sequences, FiniteSets

CONSTANTS
  Holds,             \* holds, named by the request_id that creates them
  Tasks,             \* calls in flight at the same time
  AutoTask,          \* the task of the automation loop, not in Tasks
  EvidenceIds,       \* request_ids of evidence submissions
  ReviewIds,         \* request_ids of analyst reviews
  ModelPredictions,  \* what the risk model may answer
  VerifierAnswers,   \* what the evidence verifier may answer
  ClientReviews,     \* what analysts may submit
  HumanOnly,         \* decision_mode = human_only
  MaxCalls,          \* bound: evaluate and rescore calls of clients, per hold
  MaxAborts          \* bound: calls that die half way

VARIABLES
  hold,       \* hold_cases: state and evidence_round
  snapshot,   \* feature_snapshots: whether the hold has one
  decisions,  \* model_decisions, in commit order
  evidence,   \* evidence_submissions
  reviews,    \* analyst_reviews, in commit order
  audit,      \* audit_events of the case, by sequence_no
  outbox,     \* outbox_events of the case, in commit order
  ledger,     \* the JSONL ledger's records of the case
  task,       \* the calls in flight
  clock,      \* created_at of the next recommendation
  calls,      \* evaluate and rescore calls so far
  aborts      \* calls that died so far

rows == <<hold, snapshot, decisions, evidence, reviews, audit, outbox>>
vars == <<rows, ledger, task, clock, calls, aborts>>

AllTasks == Tasks \cup {AutoTask}

-----------------------------------------------------------------------------
ASSUME HoldAssumption ==
  /\ ModelPredictions \subseteq Predictions
  /\ VerifierAnswers \subseteq Verdicts
  /\ ClientReviews \subseteq Submissions
  /\ AutoTask \notin Tasks
  /\ HumanOnly \in BOOLEAN
  /\ HumanOnly => /\ ModelPredictions = {HumanOnlyPrediction}
                  /\ ReleaseThreshold > 0
  /\ MaxCalls \in Nat
  /\ MaxAborts \in Nat

-----------------------------------------------------------------------------
(* A call in flight.  `seen` is the length of the hold's audit chain when  *)
(* the call read the hold: history, read by no action of the code.         *)
IdleTask ==
  [pc |-> "idle", hold |-> None, round |-> 0, verdict |-> NoVerdict,
   check |-> None, decision |-> "ESCALATE", failed |-> FALSE, stamp |-> 0,
   req |-> None, submission |-> None, seen |-> 0]

(* A task that is scoring the hold it has read.                            *)
ScoreTask(h, verdict) ==
  [IdleTask EXCEPT !.pc = "score", !.hold = h, !.round = hold[h].round,
                   !.verdict = verdict, !.seen = Len(audit[h])]

Become(t, record) == task' = [task EXCEPT ![t] = record]
Return(t) == Become(t, IdleTask)

Init ==
  /\ hold = [h \in Holds |-> [state |-> "ABSENT", round |-> 0]]
  /\ snapshot = [h \in Holds |-> FALSE]
  /\ decisions = [h \in Holds |-> <<>>]
  /\ evidence = [h \in Holds |-> None]
  /\ reviews = [h \in Holds |-> <<>>]
  /\ audit = [h \in Holds |-> <<>>]
  /\ outbox = [h \in Holds |-> <<>>]
  /\ ledger = [h \in Holds |-> <<>>]
  /\ task = [t \in AllTasks |-> IdleTask]
  /\ clock = [h \in Holds |-> 1]
  /\ calls = [h \in Holds |-> 0]
  /\ aborts = 0

-----------------------------------------------------------------------------
(* create_hold: look the request_id up, insert, append to the ledger.      *)
StartCreate(t, h) ==
  /\ task[t].pc = "idle"
  /\ hold[h].state = "ABSENT"
  /\ Become(t, [IdleTask EXCEPT !.pc = "insert", !.hold = h])
  /\ UNCHANGED <<rows, ledger, clock, calls, aborts>>

InsertHold(t) ==
  LET h == task[t].hold IN
  /\ task[t].pc = "insert"
  /\ hold[h].state = "ABSENT"
  /\ hold' = [hold EXCEPT ![h] = [state |-> "OPEN", round |-> 0]]
  /\ Become(t, [IdleTask EXCEPT !.pc = "ledger", !.hold = h, !.req = "HOLD_CREATED"])
  /\ UNCHANGED <<snapshot, decisions, evidence, reviews, audit, outbox>>
  /\ UNCHANGED <<ledger, clock, calls, aborts>>

(* The unique constraint on request_id: the other call's hold is returned. *)
InsertConflict(t) ==
  /\ task[t].pc = "insert"
  /\ hold[task[t].hold].state # "ABSENT"
  /\ Return(t)
  /\ UNCHANGED <<rows, ledger, clock, calls, aborts>>

AppendLedger(t) ==
  LET h == task[t].hold IN
  /\ task[t].pc = "ledger"
  /\ ledger' = [ledger EXCEPT ![h] = Append(@, task[t].req)]
  /\ Return(t)
  /\ UNCHANGED <<rows, clock, calls, aborts>>

-----------------------------------------------------------------------------
(* Mutant: evaluate takes a hold in any state.                             *)
ReadInAnyState(t, h) ==
  /\ task[t].pc = "idle"
  /\ hold[h].state # "ABSENT"
  /\ Become(t, ScoreTask(h, NoVerdict))
  /\ UNCHANGED <<rows, ledger, clock, aborts>>

(* evaluate: the hold is read, and only an OPEN one is scored.             *)
ReadForEvaluate(t, h) ==
  /\ task[t].pc = "idle"
  /\ hold[h].state = "OPEN"
  /\ Become(t, ScoreTask(h, NoVerdict))
  /\ UNCHANGED <<rows, ledger, clock, aborts>>

Evaluate(t, h) ==
  /\ calls[h] < MaxCalls
  /\ calls' = [calls EXCEPT ![h] = @ + 1]
  /\ ReadForEvaluate(t, h)

(* Mutant: the loop skips the holds that have a snapshot.                  *)
AutomationSkips(h) ==
  /\ ~snapshot[h]
  /\ ReadForEvaluate(AutoTask, h)
  /\ UNCHANGED calls

(* run_once of the automation loop evaluates the OPEN holds that already   *)
(* have an evaluation input.                                               *)
AutomationEvaluate(h) ==
  /\ snapshot[h]
  /\ ReadForEvaluate(AutoTask, h)
  /\ UNCHANGED calls

(* Mutant: rescore looks at the evidence round only.                       *)
RescoreInRoundOne(h) == hold[h].round = 1

(* rescore: read the hold, then its evaluation input and its evidence.     *)
RescoreAllowed(h) == hold[h].state = "EVIDENCE_SUBMITTED" /\ hold[h].round = 1

Rescore(t, h) ==
  /\ task[t].pc = "idle"
  /\ calls[h] < MaxCalls
  /\ RescoreAllowed(h)
  /\ Become(t, [ScoreTask(h, NoVerdict) EXCEPT !.pc = "inputs"])
  /\ calls' = [calls EXCEPT ![h] = @ + 1]
  /\ UNCHANGED <<rows, ledger, clock, aborts>>

ReadInputs(t) ==
  LET h == task[t].hold IN
  /\ task[t].pc = "inputs"
  /\ snapshot[h] /\ evidence[h] # None
  /\ Become(t, [task[t] EXCEPT !.pc = "score", !.verdict = evidence[h].verdict])
  /\ UNCHANGED <<rows, ledger, clock, calls, aborts>>

(* InvalidTransition: no evaluation input was ever stored.                 *)
InputsMissing(t) ==
  LET h == task[t].hold IN
  /\ task[t].pc = "inputs"
  /\ ~(snapshot[h] /\ evidence[h] # None)
  /\ Return(t)
  /\ UNCHANGED <<rows, ledger, clock, calls, aborts>>

-----------------------------------------------------------------------------
(* _score, first half: features, model, candidate, snapshot.               *)
Checking(t, candidate, p, verdict, failed) ==
  [task[t] EXCEPT !.pc = "policy", !.verdict = verdict, !.failed = failed,
     !.check = [candidate |-> candidate, p |-> p, round |-> task[t].round,
                systemError |-> failed, verdict |-> verdict]]

(* Mutant: the model's answer is used, its features are not stored.        *)
ScoreWithoutSnapshot(t) ==
  LET v == task[t].verdict IN
  /\ task[t].pc = "score"
  /\ \E p \in ModelPredictions :
       Become(t, Checking(t, Candidate(p, task[t].round, v), p, v, FALSE))
  /\ UNCHANGED <<rows, ledger, clock, calls, aborts>>

Score(t) ==
  LET v == task[t].verdict IN
  /\ task[t].pc = "score"
  /\ \E p \in ModelPredictions :
       Become(t, Checking(t, Candidate(p, task[t].round, v), p, v, FALSE))
  /\ snapshot' = [snapshot EXCEPT ![task[t].hold] = TRUE]
  /\ UNCHANGED <<hold, decisions, evidence, reviews, audit, outbox>>
  /\ UNCHANGED <<ledger, clock, calls, aborts>>

(* Feature, model or verifier failure: before the snapshot, and with or    *)
(* without the evidence assessed; a failing ledger append: after both.     *)
ScoreFails(t) ==
  /\ task[t].pc = "score"
  /\ \E stored \in BOOLEAN, assessed \in BOOLEAN :
       /\ stored => assessed
       /\ Become(t, Checking(t, "ESCALATE", FailurePrediction,
                             IF assessed THEN task[t].verdict ELSE NoVerdict, TRUE))
       /\ snapshot' = [snapshot EXCEPT ![task[t].hold] = @ \/ stored]
  /\ UNCHANGED <<hold, decisions, evidence, reviews, audit, outbox>>
  /\ UNCHANGED <<ledger, clock, calls, aborts>>

(* _score, second half: the engine answers or is unavailable, and the      *)
(* recommendation is stamped with created_at.                              *)
AskPolicy(t) ==
  LET h == task[t].hold IN
  /\ task[t].pc = "policy"
  /\ \E result \in {OpaCheck(task[t].check), Unavailable} :
       Become(t, [task[t] EXCEPT !.pc = "save", !.check = None,
                    !.decision = result.allowed, !.stamp = clock[h],
                    !.failed = @ \/ result = Unavailable])
  /\ clock' = [clock EXCEPT ![h] = @ + 1]
  /\ UNCHANGED <<rows, ledger, calls, aborts>>

(* save_decision_and_audit: hold, decision, audit event and outbox event   *)
(* in one transaction under the hold's row lock.  The state is derived     *)
(* from the row's evidence_round; the row's state is not looked at.        *)
DecisionRow(t) ==
  [decision |-> task[t].decision, round |-> task[t].round,
   verdict |-> task[t].verdict, failed |-> task[t].failed,
   stamp |-> task[t].stamp,
   fresh |-> task[t].seen = Len(audit[task[t].hold])]

DecisionEvent(t) == [type |-> "RISK_DECISION", decision |-> task[t].decision,
                     submission |-> None]

(* Mutant: the row is written back as it was read before the scoring.      *)
SaveRowAsRead(t) ==
  LET h == task[t].hold IN
  /\ task[t].pc = "save"
  /\ ~SecondRound(task[t].decision, task[t].round)
  /\ hold' = [hold EXCEPT ![h] = [state |-> StateForDecision(task[t].decision),
                                 round |-> task[t].round]]
  /\ decisions' = [decisions EXCEPT ![h] = Append(@, DecisionRow(t))]
  /\ audit' = [audit EXCEPT ![h] = Append(@, DecisionEvent(t))]
  /\ outbox' = [outbox EXCEPT ![h] = Append(@, "RISK_DECISION")]
  /\ Return(t)
  /\ UNCHANGED <<snapshot, evidence, reviews, ledger, clock, calls, aborts>>

SaveDecision(t) ==
  LET h == task[t].hold IN
  /\ task[t].pc = "save"
  /\ ~SecondRound(task[t].decision, hold[h].round)
  /\ hold' = [hold EXCEPT ![h].state = StateForDecision(task[t].decision)]
  /\ decisions' = [decisions EXCEPT ![h] = Append(@, DecisionRow(t))]
  /\ audit' = [audit EXCEPT ![h] = Append(@, DecisionEvent(t))]
  /\ outbox' = [outbox EXCEPT ![h] = Append(@, "RISK_DECISION")]
  /\ Return(t)
  /\ UNCHANGED <<snapshot, evidence, reviews, ledger, clock, calls, aborts>>

(* A late request for evidence: InvalidTransition, and a rollback.         *)
SaveRefused(t) ==
  /\ task[t].pc = "save"
  /\ SecondRound(task[t].decision, hold[task[t].hold].round)
  /\ Return(t)
  /\ UNCHANGED <<rows, ledger, clock, calls, aborts>>

-----------------------------------------------------------------------------
(* submit_evidence: the request_id is looked up before the row is locked.  *)
EvidenceIdUsed(e) == \E h \in Holds : evidence[h] # None /\ evidence[h].id = e

StartEvidence(t, h, e) ==
  /\ task[t].pc = "idle"
  /\ hold[h].state # "ABSENT"
  /\ ~EvidenceIdUsed(e)
  /\ \E v \in VerifierAnswers :
       Become(t, [IdleTask EXCEPT !.pc = "evidence", !.hold = h, !.req = e,
                                  !.verdict = v])
  /\ UNCHANGED <<rows, ledger, clock, calls, aborts>>

EvidenceAccepted(h) == hold[h].state = "AWAITING_EVIDENCE" /\ hold[h].round = 0

CommitEvidence(t) ==
  LET h == task[t].hold IN
  /\ task[t].pc = "evidence"
  /\ EvidenceAccepted(h)
  /\ ~EvidenceIdUsed(task[t].req)
  /\ evidence' = [evidence EXCEPT ![h] = [id |-> task[t].req, verdict |-> task[t].verdict]]
  /\ hold' = [hold EXCEPT ![h] = [state |-> "EVIDENCE_SUBMITTED", round |-> 1]]
  /\ Become(t, [IdleTask EXCEPT !.pc = "ledger", !.hold = h, !.req = "EVIDENCE_SUBMITTED"])
  /\ UNCHANGED <<snapshot, decisions, reviews, audit, outbox>>
  /\ UNCHANGED <<ledger, clock, calls, aborts>>

(* InvalidTransition, or the unique constraint on request_id.              *)
EvidenceRefused(t) ==
  /\ task[t].pc = "evidence"
  /\ ~EvidenceAccepted(task[t].hold) \/ EvidenceIdUsed(task[t].req)
  /\ Return(t)
  /\ UNCHANGED <<rows, ledger, clock, calls, aborts>>

-----------------------------------------------------------------------------
(* Mutant: no lookup and no unique constraint on request_id.               *)
ReviewIdForgotten(q) == FALSE

(* record_analyst_review: the request_id is looked up before the row is    *)
(* locked; the recommendation is the latest one by created_at.             *)
ReviewIdUsed(q) == \E h \in Holds : \E i \in DOMAIN reviews[h] : reviews[h][i].id = q

StartReview(t, h, q) ==
  /\ task[t].pc = "idle"
  /\ hold[h].state # "ABSENT"
  /\ ~ReviewIdUsed(q)
  /\ \E s \in ClientReviews :
       Become(t, [IdleTask EXCEPT !.pc = "review", !.hold = h, !.req = q,
                                  !.submission = s])
  /\ UNCHANGED <<rows, ledger, clock, calls, aborts>>

Latest(h) ==
  CHOOSE i \in DOMAIN decisions[h] :
    \A j \in DOMAIN decisions[h] : decisions[h][j].stamp <= decisions[h][i].stamp

Recommendation(h) == decisions[h][Latest(h)].decision

Reviewable(h) == hold[h].state \in {"HUMAN_REVIEW", "AWAITING_EVIDENCE"}

ReviewAccepted(h, s) ==
  /\ Reviewable(h)
  /\ decisions[h] # <<>>
  /\ s.action = "APPROVE_RELEASE" => Recommendation(h) = "RELEASE"
  /\ s.action = "OVERRIDE_AI" => s.authorized # Recommendation(h)
  /\ ~SecondRound(ResolvedDecision(s), hold[h].round)

ReviewRow(t) ==
  LET s == task[t].submission IN
  [id |-> task[t].req, submission |-> s, label |-> TrainingLabel(s),
   recommendation |-> Recommendation(task[t].hold)]

ReviewEvent(s) == [type |-> "ANALYST_OUTCOME_RECORDED",
                   decision |-> ResolvedDecision(s), submission |-> s]

CommitReview(t) ==
  LET h == task[t].hold
      s == task[t].submission IN
  /\ task[t].pc = "review"
  /\ ReviewAccepted(h, s)
  /\ ~ReviewIdUsed(task[t].req)
  /\ hold' = [hold EXCEPT ![h].state = StateAfterReview(s)]
  /\ reviews' = [reviews EXCEPT ![h] = Append(@, ReviewRow(t))]
  /\ audit' = [audit EXCEPT ![h] = Append(@, ReviewEvent(s))]
  /\ outbox' = [outbox EXCEPT ![h] = Append(@, "ANALYST_OUTCOME_RECORDED")]
  /\ Return(t)
  /\ UNCHANGED <<snapshot, decisions, evidence, ledger, clock, calls, aborts>>

(* InvalidTransition, or the unique constraint on request_id.              *)
ReviewRefused(t) ==
  /\ task[t].pc = "review"
  /\ ~ReviewAccepted(task[t].hold, task[t].submission) \/ ReviewIdUsed(task[t].req)
  /\ Return(t)
  /\ UNCHANGED <<rows, ledger, clock, calls, aborts>>

-----------------------------------------------------------------------------
(* A process or database failure ends the call between two of its steps.   *)
Abort(t) ==
  /\ task[t].pc # "idle"
  /\ aborts < MaxAborts
  /\ aborts' = aborts + 1
  /\ Return(t)
  /\ UNCHANGED <<rows, ledger, clock, calls>>

Scoring(t) ==
  \/ Score(t) \/ ScoreFails(t) \/ AskPolicy(t) \/ SaveDecision(t) \/ SaveRefused(t)

Client(t) ==
  \/ \E h \in Holds : StartCreate(t, h) \/ Evaluate(t, h) \/ Rescore(t, h)
  \/ \E h \in Holds, e \in EvidenceIds : StartEvidence(t, h, e)
  \/ \E h \in Holds, q \in ReviewIds : StartReview(t, h, q)
  \/ InsertHold(t) \/ InsertConflict(t) \/ AppendLedger(t)
  \/ ReadInputs(t) \/ InputsMissing(t)
  \/ CommitEvidence(t) \/ EvidenceRefused(t)
  \/ CommitReview(t) \/ ReviewRefused(t)

Next ==
  \/ \E t \in Tasks : Client(t)
  \/ \E h \in Holds : AutomationEvaluate(h)
  \/ \E t \in AllTasks : Scoring(t) \/ Abort(t)

Spec == Init /\ [][Next]_vars

(* The automation loop keeps running, and the calls it makes return: the   *)
(* policy call has a timeout.                                              *)
FairSpec ==
  /\ Spec
  /\ \A h \in Holds : WF_vars(AutomationEvaluate(h))
  /\ WF_vars(Scoring(AutoTask))
-----------------------------------------------------------------------------
EvidenceRows  == [id : EvidenceIds, verdict : Verdicts]
DecisionRows  == [decision : Decisions, round : {0, 1},
                  verdict : Verdicts \cup {NoVerdict}, failed : BOOLEAN,
                  stamp : Nat, fresh : BOOLEAN]
ReviewRows    == [id : ReviewIds, submission : Submissions,
                  label : {"RISKY", "LEGITIMATE", "UNRESOLVED"},
                  recommendation : Decisions]
AuditEvents   ==
  [type : {"RISK_DECISION"}, decision : Decisions, submission : {None}]
    \cup [type : {"ANALYST_OUTCOME_RECORDED"}, decision : Decisions,
          submission : Submissions]
EventTypes    == {"RISK_DECISION", "ANALYST_OUTCOME_RECORDED"}
LedgerTypes   == {"HOLD_CREATED", "EVIDENCE_SUBMITTED"}
Checks        == [candidate : Decisions, p : Predictions, round : {0, 1},
                  systemError : BOOLEAN, verdict : Verdicts \cup {NoVerdict}]
TaskRecords   ==
  [pc : {"idle", "insert", "ledger", "inputs", "score", "policy", "save",
         "evidence", "review"},
   hold : Holds \cup {None}, round : {0, 1}, verdict : Verdicts \cup {NoVerdict},
   check : Checks \cup {None}, decision : Decisions, failed : BOOLEAN, stamp : Nat,
   req : EvidenceIds \cup ReviewIds \cup LedgerTypes \cup {None},
   submission : Submissions \cup {None}, seen : Nat]

(* A null is none of the values it stands for the absence of.             *)
ASSUME NoneAssumption == None \notin EvidenceRows

(* Every variable holds a value of its type.                               *)
TypeOK ==
  /\ hold \in [Holds -> HoldRows]
  /\ snapshot \in [Holds -> BOOLEAN]
  /\ decisions \in [Holds -> Seq(DecisionRows)]
  /\ evidence \in [Holds -> EvidenceRows \cup {None}]
  /\ reviews \in [Holds -> Seq(ReviewRows)]
  /\ audit \in [Holds -> Seq(AuditEvents)]
  /\ outbox \in [Holds -> Seq(EventTypes)]
  /\ ledger \in [Holds -> Seq(LedgerTypes)]
  /\ task \in [AllTasks -> TaskRecords]
  /\ clock \in [Holds -> Nat]
  /\ calls \in [Holds -> Nat]
  /\ aborts \in Nat

(* One evidence round (engineering-decisions.md:15): a hold that waits for *)
(* evidence has had none, and the round is used up exactly when evidence   *)
(* is stored; a recommendation that arrives late cannot open a second one. *)
OneEvidenceRound ==
  \A h \in Holds :
    /\ hold[h].state = "AWAITING_EVIDENCE" => hold[h].round = 0
    /\ hold[h].state = "EVIDENCE_SUBMITTED" => hold[h].round = 1
    /\ hold[h].round = 1 <=> evidence[h] # None

(* The audit chain tells how the hold got where it is: its last record and *)
(* the evidence row give the hold's state, whatever overlapped             *)
(* (database.py:326, 552-562 commit row and record together).              *)
ExplainedBy(chain, submitted) ==
  LET last == chain[Len(chain)] IN
  CASE chain = <<>> -> "OPEN"
    [] chain # <<>> /\ last.decision = "EVIDENCE_NEEDED" ->
         IF submitted = None THEN "AWAITING_EVIDENCE" ELSE "EVIDENCE_SUBMITTED"
    [] chain # <<>> /\ last.decision # "EVIDENCE_NEEDED"
         /\ last.type = "RISK_DECISION" -> "HUMAN_REVIEW"
    [] OTHER -> StateAfterReview(last.submission)

AuditExplainsState ==
  \A h \in Holds : hold[h].state # "ABSENT" =>
    hold[h].state = ExplainedBy(audit[h], evidence[h])

(* "No decision/audit/outbox partial commit" (red-team-scenarios.md): the  *)
(* chain has one record per decision and per review, each with its outbox  *)
(* event in the same order.                                                *)
NoPartialCommit ==
  \A h \in Holds :
    /\ Len(audit[h]) = Len(decisions[h]) + Len(reviews[h])
    /\ outbox[h] = [i \in DOMAIN audit[h] |-> audit[h][i].type]

(* A review request takes effect once, however often and on whatever hold  *)
(* it is sent (README.md:82), and so does an evidence request.             *)
RequestsTakeEffectOnce ==
  \A g, h \in Holds :
    /\ \A i \in DOMAIN reviews[g], j \in DOMAIN reviews[h] :
         reviews[g][i].id = reviews[h][j].id => g = h /\ i = j
    /\ evidence[g] # None /\ evidence[h] # None /\ evidence[g].id = evidence[h].id
         => g = h

(* A stored RELEASE recommendation rests on a model and an engine that     *)
(* answered, and in the second round on supported evidence.                *)
ReleaseRecommendationIsSound ==
  \A h \in Holds : \A i \in DOMAIN decisions[h] :
    decisions[h][i].decision = "RELEASE" =>
      /\ ~decisions[h][i].failed
      /\ decisions[h][i].round = 1 => decisions[h][i].verdict = "SUPPORTED"

(* Every recommendation that is not a failure has its input and features   *)
(* on file: only a hold whose every evaluation failed cannot be rescored   *)
(* (database.py:268), nor exported with its label (database.py:611-612).   *)
RecommendationsHaveFeatures ==
  \A h \in Holds : \A i \in DOMAIN decisions[h] :
    ~decisions[h][i].failed => snapshot[h]

(* "Every evaluation returns an ESCALATE recommendation; the case moves to *)
(* HUMAN_REVIEW" (human-only-production-mode.md): in that mode a merchant  *)
(* is asked for evidence only by a human.                                  *)
HumanOnlyEscalates ==
  HumanOnly => \A h \in Holds :
    /\ \A i \in DOMAIN decisions[h] : decisions[h][i].decision = "ESCALATE"
    /\ hold[h].state \in {"AWAITING_EVIDENCE", "EVIDENCE_SUBMITTED"} =>
         \E i \in DOMAIN reviews[h] :
           ResolvedDecision(reviews[h][i].submission) = "EVIDENCE_NEEDED"

(* The JSONL ledger never records a creation or a submission twice, nor    *)
(* one that was not committed.                                             *)
LedgerCount(h, type) == Cardinality({i \in DOMAIN ledger[h] : ledger[h][i] = type})

LedgerFollowsRows ==
  \A h \in Holds :
    /\ LedgerCount(h, "HOLD_CREATED") <= (IF hold[h].state = "ABSENT" THEN 0 ELSE 1)
    /\ LedgerCount(h, "EVIDENCE_SUBMITTED") <= hold[h].round

(* Of the second-round recommendations at most one was computed from the   *)
(* case as it stands when it is stored: the others are late.               *)
OneFreshRescore ==
  \A h \in Holds :
    Cardinality({i \in DOMAIN decisions[h] :
                   decisions[h][i].round = 1 /\ decisions[h][i].fresh}) <= 1

(* What one call stores belongs together: decision, audit record and       *)
(* outbox event are there or are not (database.py:326-353), and a          *)
(* recommendation that is not a failure has the features it was computed   *)
(* from.                                                                   *)
RowsBelongTogether == NoPartialCommit /\ RecommendationsHaveFeatures

(* Whatever is retried while the first attempt is still on its way, each   *)
(* request id of a creation, a submission or a review leaves one trace:    *)
(* one row (database.py:213, 370, 461), and at most one ledger record.     *)
RequestsAreRecordedOnce == RequestsTakeEffectOnce /\ LedgerFollowsRows

(* A hold a human has closed is touched again only by a recommendation     *)
(* computed from the case as it was before: the chain has grown since the  *)
(* call read the hold.                                                     *)
ClosedHoldsOnlyReopenedLate ==
  [][\A h \in Holds :
       hold[h].state \in Terminal /\ hold'[h] # hold[h] =>
         \E t \in AllTasks :
           /\ task[t].pc = "save" /\ task[t].hold = h
           /\ task[t].seen < Len(audit[h])]_vars

(* Nothing is taken back: evidence is never replaced and the chain, the    *)
(* decisions and the reviews only grow at their end.                       *)
Extends(s, r) == Len(s) >= Len(r) /\ SubSeq(s, 1, Len(r)) = r

HistoryIsAppendOnly ==
  [][\A h \in Holds :
       /\ Extends(audit'[h], audit[h])
       /\ evidence[h] # None => evidence'[h] = evidence[h]
       /\ hold'[h].round >= hold[h].round]_vars

(* The workflow implements HumanAuthority: RESOLVED is released, DENIED is *)
(* denied, every other state holds the funds, and the reviews are the      *)
(* authorizations.                                                         *)
DispositionOf(state) ==
  CASE state = "RESOLVED" -> "released" [] state = "DENIED" -> "denied" [] OTHER -> "held"

Disposition == [h \in Holds |-> DispositionOf(hold[h].state)]
Authorizations ==
  [h \in Holds |->
     [i \in 1 .. Len(reviews[h]) |->
        DispositionOf(StateAfterReview(reviews[h][i].submission))]]

Authority == INSTANCE HumanAuthority
               WITH disposition <- Disposition, authorizations <- Authorizations
HumanAuthoritySpec == Authority!Spec

(* A case whose evaluation was interrupted after its input was stored does *)
(* not stay OPEN: the automation loop finishes it (automation.py:32-50).   *)
InterruptedEvaluationRecovers ==
  \A h \in Holds : hold[h].state = "OPEN" /\ snapshot[h] ~> hold[h].state # "OPEN"

-----------------------------------------------------------------------------
(* What the code says of itself and does not do.                           *)

(* workflow.py:106, "rescore is allowed exactly once after evidence        *)
(* submission".                                                            *)
RescoredAtMostOnce ==
  \A h \in Holds :
    Cardinality({i \in DOMAIN decisions[h] : decisions[h][i].round = 1}) <= 1
=============================================================================
