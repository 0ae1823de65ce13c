-------------------------- MODULE DevelopmentHolds --------------------------
(***************************************************************************)
(* The development process: HoldService (workflow.py) on the in-memory     *)
(* repository (repository.py) and the JSONL ledger, with the automation    *)
(* loop (automation.py).                                                   *)
(*                                                                         *)
(* One event loop runs everything, and between two awaits that really wait *)
(* nothing else runs: every call is one step, but an evaluation is two,    *)
(* because it waits for the policy engine.  Ledger and memory are not one  *)
(* transaction: a record is written before the decision it announces, and  *)
(* after the creation, submission or review it reports.  A restart keeps   *)
(* the ledger and nothing else.                                            *)
(***************************************************************************)
EXTENDS HoldRules, AuditLedger, SequencesExt

CONSTANTS
  Requests,        \* request_ids of creations; a hold is named by its own
  DevTasks,        \* API calls in flight at the same time
  Loop,            \* the automation loop, a task of its own
  EvidenceIds, ReviewIds,
  DevPredictions,  \* what the risk model may answer
  DevReviews,      \* what analysts may submit
  ScanLimit,       \* the `limit` of run_once
  MaxScored,       \* bound: calls that start scoring, per process
  MaxFaults,       \* bound: writes that fail
  MaxRuns,         \* bound: processes, one after the other
  MaxKept          \* bound: records in the ledger at a restart

\* A model predicts, analysts submit what is accepted, and None is no id.
ASSUME DevAssumption ==
  /\ DevPredictions \subseteq Predictions
  /\ DevReviews \subseteq Submissions
  /\ None \notin EvidenceIds

VARIABLES
  run,       \* the process: cases of different runs are different cases
  mem,       \* its memory: one record per hold
  recent,    \* the holds by updated_at, the newest first
  devTask,   \* evaluations waiting for the policy engine
  scan,      \* what the loop still has to look at, as it listed it
  scored, faults

devVars == <<run, mem, recent, devTask, scan, scored, faults, file>>

DevActors == DevTasks \cup {Loop}

Missing == [state |-> "ABSENT", round |-> 0, input |-> FALSE, decision |-> None,
            evidence |-> None, reviews |-> <<>>]

Case(r) == <<r, run>>
Waiting == [pc |-> "idle", hold |-> None, round |-> 0, check |-> None]

DevInit ==
  /\ run = 1
  /\ mem = [r \in Requests |-> Missing]
  /\ recent = <<>>
  /\ devTask = [t \in DevActors |-> Waiting]
  /\ scan = <<>>
  /\ scored = 0 /\ faults = 0
  /\ file = <<>>

(* hold.updated_at = utc_now().                                            *)
Touch(r) == recent' = <<r>> \o SelectSeq(recent, LAMBDA x : x # r)

WriteBreaks == AppendBreaks /\ faults < MaxFaults /\ faults' = faults + 1

(* A record that reports what is already in memory: when the ledger cannot *)
(* be parsed or written the call fails, and what it did stays.             *)
Report(r, type) ==
  \/ AppendRecord(Case(r), type) /\ UNCHANGED faults
  \/ ~Readable /\ UNCHANGED <<file, faults>>
  \/ WriteBreaks

(* create_hold.  A request_id that is known returns its hold.              *)
DevCreate(r) ==
  /\ mem[r].state = "ABSENT"
  /\ mem' = [mem EXCEPT ![r].state = "OPEN"]
  /\ Touch(r)
  /\ Report(r, "HOLD_CREATED")
  /\ UNCHANGED <<run, devTask, scan, scored>>
-----------------------------------------------------------------------------
Asking(r, candidate, p, verdict, failed) ==
  [pc |-> "policy", hold |-> r, round |-> mem[r].round,
   check |-> [candidate |-> candidate, p |-> p, round |-> mem[r].round,
              systemError |-> failed, verdict |-> verdict]]

(* _score up to the policy engine.  The snapshot is kept before its record *)
(* is written: an unreadable ledger is a ValueError, which the block turns *)
(* into an escalation; a failing write is not caught.                      *)
DevScore(t, r, verdict) ==
  /\ \/ /\ \E p \in DevPredictions :
             devTask' = [devTask EXCEPT ![t] =
                           Asking(r, Candidate(p, mem[r].round, verdict), p, verdict, FALSE)]
        /\ AppendRecord(Case(r), "FEATURE_SNAPSHOT_CREATED")
        /\ mem' = [mem EXCEPT ![r].input = TRUE]
        /\ UNCHANGED faults
     \/ \E stored \in BOOLEAN :
        /\ stored => ~Readable
        /\ devTask' = [devTask EXCEPT ![t] =
                         Asking(r, "ESCALATE", FailurePrediction, verdict, TRUE)]
        /\ mem' = [mem EXCEPT ![r].input = @ \/ stored]
        /\ UNCHANGED <<file, faults>>
     \/ /\ WriteBreaks
        /\ mem' = [mem EXCEPT ![r].input = TRUE]
        /\ UNCHANGED devTask
  /\ UNCHANGED <<run, recent>>

ClientScores == scored < MaxScored /\ scored' = scored + 1

DevEvaluate(t, r) ==
  /\ devTask[t].pc = "idle" /\ mem[r].state = "OPEN"
  /\ ClientScores
  /\ DevScore(t, r, NoVerdict)
  /\ UNCHANGED scan

(* rescore: InvalidTransition when no input was ever stored.  The verifier *)
(* is asked again on every rescore.                                        *)
DevRescore(t, r) ==
  /\ devTask[t].pc = "idle"
  /\ mem[r].state = "EVIDENCE_SUBMITTED" /\ mem[r].round = 1
  /\ mem[r].input
  /\ ClientScores
  /\ \E v \in Verdicts : DevScore(t, r, v)
  /\ UNCHANGED scan

(* The end of _score: the record is written, then the decision is saved by *)
(* the hold as it is now.  A second evidence round is refused only here,   *)
(* after its record.                                                       *)
Saved(r, d, round) ==
  IF SecondRound(d, mem[r].round) THEN mem
  ELSE [mem EXCEPT ![r].state = StateForDecision(d),
                   ![r].decision = [decision |-> d, round |-> round, line |-> Len(file) + 1]]

(* Mutant: the decision is saved whether or not its record was written.    *)
FinishUnrecorded(t) ==
  LET r == devTask[t].hold IN
  /\ devTask[t].pc = "policy"
  /\ \E d \in {OpaCheck(devTask[t].check).allowed, "ESCALATE"} :
       /\ Report(r, "RISK_DECISION")
       /\ mem' = Saved(r, d, devTask[t].round)
       /\ IF mem' = mem THEN UNCHANGED recent ELSE Touch(r)
  /\ devTask' = [devTask EXCEPT ![t] = Waiting]
  /\ UNCHANGED <<run, scan, scored>>

DevFinish(t) ==
  LET r == devTask[t].hold IN
  /\ devTask[t].pc = "policy"
  /\ \/ \E d \in {OpaCheck(devTask[t].check).allowed, Unavailable.allowed} :
          /\ AppendRecord(Case(r), "RISK_DECISION")
          /\ mem' = Saved(r, d, devTask[t].round)
          /\ IF mem' = mem THEN UNCHANGED recent ELSE Touch(r)
          /\ UNCHANGED faults
     \/ ~Readable /\ UNCHANGED <<file, mem, recent, faults>>
     \/ WriteBreaks /\ UNCHANGED <<mem, recent>>
  /\ devTask' = [devTask EXCEPT ![t] = Waiting]
  /\ UNCHANGED <<run, scan, scored>>
-----------------------------------------------------------------------------
(* submit_evidence; the same request_id again, or a second round, changes  *)
(* nothing.                                                                *)
DevEvidence(r, e) ==
  /\ \A x \in Requests : mem[x].evidence # e
  /\ mem[r].state = "AWAITING_EVIDENCE" /\ mem[r].round = 0
  /\ mem' = [mem EXCEPT ![r].state = "EVIDENCE_SUBMITTED", ![r].round = 1,
                        ![r].evidence = e]
  /\ Touch(r)
  /\ Report(r, "EVIDENCE_SUBMITTED")
  /\ UNCHANGED <<run, devTask, scan, scored>>

DevReviewAccepted(r, s) ==
  /\ mem[r].state \in {"HUMAN_REVIEW", "AWAITING_EVIDENCE"}
  /\ s.action = "APPROVE_RELEASE" => mem[r].decision.decision = "RELEASE"
  /\ s.action = "OVERRIDE_AI" => s.authorized # mem[r].decision.decision
  /\ ~SecondRound(ResolvedDecision(s), mem[r].round)

DevReviewIdUsed(q) ==
  \E r \in Requests : \E i \in DOMAIN mem[r].reviews : mem[r].reviews[i].id = q

(* The hash of the record is written into the hold's last review.  When    *)
(* the record is not written the review stays, with a hash of zeros.       *)
WithHash(seq, line) == [seq EXCEPT ![Len(seq)].line = line]

DevReview(r, q, s) ==
  LET kept == Append(mem[r].reviews, [id |-> q, decision |-> ResolvedDecision(s), line |-> 0])
      state == StateAfterReview(s) IN
  /\ ~DevReviewIdUsed(q)
  /\ DevReviewAccepted(r, s)
  /\ \/ /\ AppendRecord(Case(r), "ANALYST_OUTCOME_RECORDED")
        /\ mem' = [mem EXCEPT ![r].state = state,
                              ![r].reviews = WithHash(kept, Len(file) + 1)]
        /\ UNCHANGED faults
     \/ /\ ~Readable /\ UNCHANGED <<file, faults>>
        /\ mem' = [mem EXCEPT ![r].state = state, ![r].reviews = kept]
     \/ /\ WriteBreaks
        /\ mem' = [mem EXCEPT ![r].state = state, ![r].reviews = kept]
  /\ Touch(r)
  /\ UNCHANGED <<run, devTask, scan, scored>>
-----------------------------------------------------------------------------
(* run_once: the newest holds are listed, and those that were OPEN in the  *)
(* list and have an input are evaluated one after the other; evaluate      *)
(* returns at once when the hold is not OPEN any more.                     *)
InScan(r) == \E i \in DOMAIN recent : i <= ScanLimit /\ recent[i] = r

(* Mutant: the oldest holds are listed.                                    *)
ListOldest ==
  LET n == Len(recent) IN
  SelectSeq(SubSeq(recent, IF n > ScanLimit THEN n - ScanLimit + 1 ELSE 1, n),
            LAMBDA r : mem[r].state = "OPEN")

Listed ==
  SelectSeq(SubSeq(recent, 1, IF Len(recent) < ScanLimit THEN Len(recent) ELSE ScanLimit),
            LAMBDA r : mem[r].state = "OPEN")

LoopLists ==
  /\ devTask[Loop].pc = "idle" /\ scan = <<>>
  /\ Listed # <<>>
  /\ scan' = Listed
  /\ UNCHANGED <<run, mem, recent, devTask, scored, faults, file>>

LoopEvaluates(r) ==
  /\ devTask[Loop].pc = "idle" /\ scan # <<>> /\ r = Head(scan)
  /\ scan' = Tail(scan)
  /\ IF mem[r].state = "OPEN" /\ mem[r].input
       THEN DevScore(Loop, r, NoVerdict) /\ UNCHANGED scored
       ELSE UNCHANGED <<run, mem, recent, devTask, scored, faults, file>>

(* The process is killed and started again: memory is gone, and a record   *)
(* that was being written may be cut off.                                  *)
DevRestart ==
  /\ run < MaxRuns /\ Len(file) <= MaxKept
  /\ run' = run + 1
  /\ AppendBreaks \/ UNCHANGED file
  /\ mem' = [r \in Requests |-> Missing]
  /\ recent' = <<>> /\ scan' = <<>>
  /\ devTask' = [t \in DevActors |-> Waiting]
  /\ scored' = 0 /\ UNCHANGED faults

DevNext ==
  \/ \E r \in Requests : DevCreate(r)
  \/ \E t \in DevTasks, r \in Requests : DevEvaluate(t, r) \/ DevRescore(t, r)
  \/ \E t \in DevActors : DevFinish(t)
  \/ \E r \in Requests, e \in EvidenceIds : DevEvidence(r, e)
  \/ \E r \in Requests, q \in ReviewIds, s \in DevReviews : DevReview(r, q, s)
  \/ LoopLists \/ (\E r \in Requests : LoopEvaluates(r)) \/ DevRestart

(* The event loop runs what is ready, and the policy call has a timeout.   *)
DevFairness ==
  /\ WF_devVars(LoopLists) /\ WF_devVars(\E r \in Requests : LoopEvaluates(r))
  /\ WF_devVars(DevFinish(Loop))

DevSpec == DevInit /\ [][DevNext]_devVars

(* The process and, beside it, the script that reads its ledger.           *)
scriptVars == <<signer, signed, published>>
memoryVars == <<run, mem, recent, devTask, scan, scored, faults>>

CheckpointedNext ==
  \/ DevNext /\ UNCHANGED scriptVars
  \/ (Verify \/ ReadHead \/ Sign \/ Publish) /\ UNCHANGED memoryVars

CheckpointedSpec ==
  DevInit /\ LedgerInit /\ [][CheckpointedNext]_<<devVars, scriptVars>>
-----------------------------------------------------------------------------
(* Every decision in memory has its own record in the ledger, of its case  *)
(* and in its place: the record comes first, and no failure or overlap     *)
(* lets a decision stand alone (workflow.py:313-323).                      *)
DecisionsAreOnRecord ==
  \A r \in Requests : mem[r].decision # None =>
    LET line == mem[r].decision.line IN
    /\ line \in DOMAIN file
    /\ file[line].case = Case(r) /\ file[line].type = "RISK_DECISION"

(* A review's hash is that of its own record, or zeros for ever, and every *)
(* record of a review is the hash of one: none gets the hash of another,   *)
(* although the last review is the one updated (repository.py:276).        *)
ReviewsOwnTheirRecords ==
  \A r \in Requests :
    LET reviews == mem[r].reviews IN
    /\ {reviews[i].line : i \in DOMAIN reviews} \ {0} =
         {n \in DOMAIN file : file[n].type = "ANALYST_OUTCOME_RECORDED"
                              /\ file[n].case = Case(r)}
    /\ \A i, j \in DOMAIN reviews :
         i < j /\ reviews[j].line # 0 => reviews[i].line < reviews[j].line

(* In memory too there is one evidence round, whatever arrives late, and   *)
(* evidence is what uses it up.                                            *)
DevOneEvidenceRound ==
  \A r \in Requests :
    /\ mem[r].state = "AWAITING_EVIDENCE" => mem[r].round = 0
    /\ mem[r].state = "EVIDENCE_SUBMITTED" => mem[r].round = 1
    /\ mem[r].round = 1 <=> mem[r].evidence # None

(* Once the ledger has a fragment no decision is saved any more, in this   *)
(* process or a later one: every evaluation fails closed (audit.py:47).    *)
BrokenLedgerStopsDecisions ==
  [][~Readable =>
       /\ ~Readable'
       /\ \A r \in Requests : mem'[r].decision \in {mem[r].decision, None}]_devVars

(* Within one process a hold is closed only by the review of a human.      *)
OnlyReviewsClose ==
  [][\A r \in Requests :
       run' = run /\ mem'[r].state \in Terminal /\ mem[r].state # mem'[r].state =>
         Len(mem'[r].reviews) = Len(mem[r].reviews) + 1]_devVars

(* The loop does not leave behind an OPEN hold with an input while it is   *)
(* among the newest ScanLimit and the ledger works; one that drops out of  *)
(* that window it may never reach (automation.py:33).                      *)
LeftOpen(r) ==
  mem[r].state = "OPEN" /\ mem[r].input /\ InScan(r) /\ Readable

ScannedHoldsAreFinished == \A r \in Requests : []<>~LeftOpen(r)

(* The ledger answers for the memory and for what is published: its        *)
(* records are numbered without a gap, each decision and each review has   *)
(* its own, and every signed checkpoint is a prefix of what is signed      *)
(* later.                                                                  *)
LedgerIsSound ==
  /\ LedgerIsNumbered /\ CheckpointsFollowTheChain
  /\ DecisionsAreOnRecord /\ ReviewsOwnTheirRecords

(* What PostgreSQL guarantees with locks the development process owes to   *)
(* its single event loop: one evidence round, no decision without its      *)
(* record, and no hold closed but by a human.                              *)
DevHoldsAreSafe == []DevOneEvidenceRound /\ BrokenLedgerStopsDecisions /\ OnlyReviewsClose
=============================================================================
