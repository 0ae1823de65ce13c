-------------------------- MODULE PlatformProofs --------------------------
(***************************************************************************)
(* Safety of the parts around the hold workflow, for any number of holds,  *)
(* calls, processes, failures, saves and probes.                           *)
(*                                                                         *)
(* DevelopmentHolds with AuditLedger: memory and ledger are not one        *)
(* transaction, and yet they agree.  DevInv is                             *)
(*   - DevTypes, and LedgerIsNumbered;                                     *)
(*   - HoldOK of every hold: its round, the record of its decision, and    *)
(*     the hashes of its reviews, which are those of its review records;   *)
(*   - CasesAreOld: no record is about a case of a later process, without  *)
(*     which a restart could meet records of its own new holds.            *)
(* CheckpointInv adds SignerOK, what the script has read between its two   *)
(* reads, and CheckpointsFollowTheChain.                                   *)
(*                                                                         *)
(* ServiceStartup: a probe can be believed.  StartInv is StartTypes and    *)
(*   - SavesOK: a good signature is written by a save that ended, and no   *)
(*     later save touches its directory;                                   *)
(*   - AppOK, ReadyOK: what the process loaded, and what "200" stands for; *)
(*   - ReportedOK: since the last alert of a failure none was due.         *)
(*                                                                         *)
(* RequestGate: the quota.  GateInv is the types and                       *)
(*   - AdmittedInOrder: admissions are in the order of their times;        *)
(*   - BucketIsTheEnd: what the deque has lost is out of the window, and   *)
(*     what it holds is the end of the admissions;                         *)
(*   - QuotasApart: of Limit + 1 admissions the last is a window late.     *)
(***************************************************************************)
EXTENDS DevelopmentHolds, ServiceStartup, RequestGate, DecisionPolicyProofs,
        FiniteSetTheorems, SequenceTheorems, WellFoundedInduction, TLAPS

LineTypes ==
  {"HOLD_CREATED", "FEATURE_SNAPSHOT_CREATED", "RISK_DECISION", "EVIDENCE_SUBMITTED",
   "ANALYST_OUTCOME_RECORDED", "FRAGMENT"}
FileLines == [case : (Requests \X Nat) \cup {"none"}, seq : Nat, type : LineTypes]
DevDecisions == [decision : Decisions, round : {0, 1}, line : Nat]
KeptReviews == [id : ReviewIds, decision : Decisions, line : Nat]
MemRecords ==
  [state : HoldStates \cup {"ABSENT"}, round : {0, 1}, input : BOOLEAN,
   decision : DevDecisions \cup {None}, evidence : EvidenceIds \cup {None},
   reviews : Seq(KeptReviews)]
DevTaskRecords ==
  [pc : {"idle", "policy"}, hold : Requests \cup {None}, round : {0, 1},
   check : PolicyChecks \cup {None}]

TaskOK(t) == t.pc = "policy" => t.hold \in Requests /\ t.check \in PolicyChecks

DevTypes ==
  /\ run \in Nat
  /\ mem \in [Requests -> MemRecords]
  /\ devTask \in [DevActors -> DevTaskRecords]
  /\ \A t \in DevActors : TaskOK(devTask[t])
  /\ file \in Seq(FileLines)

RoundOK(m) ==
  /\ m.state = "AWAITING_EVIDENCE" => m.round = 0
  /\ m.state = "EVIDENCE_SUBMITTED" => m.round = 1
  /\ m.round = 1 <=> m.evidence # None

(* The decision of a hold has its record; its reviews have theirs.         *)
DecisionOK(m, c) ==
  m.decision # None =>
    /\ m.decision.line \in DOMAIN file
    /\ file[m.decision.line].case = c /\ file[m.decision.line].type = "RISK_DECISION"

ReviewLines(c) == {n \in DOMAIN file : file[n].type = "ANALYST_OUTCOME_RECORDED" /\ file[n].case = c}

HashesOf(reviews) == {reviews[i].line : i \in DOMAIN reviews} \ {0}

Ordered(reviews) ==
  \A i, j \in DOMAIN reviews :
    i < j /\ reviews[j].line # 0 => reviews[i].line < reviews[j].line

ReviewsOK(m, c) == HashesOf(m.reviews) = ReviewLines(c) /\ Ordered(m.reviews)

(* No case of a later process is in the ledger yet.                        *)
CasesAreOld ==
  \A n \in DOMAIN file :
    \/ file[n].case = "none" /\ file[n].type = "FRAGMENT"
    \/ \E x \in Requests, k \in Nat : file[n].case = <<x, k>> /\ k <= run

HoldOK(m, c) == RoundOK(m) /\ DecisionOK(m, c) /\ ReviewsOK(m, c)

DevInv ==
  /\ DevTypes /\ LedgerIsNumbered /\ CasesAreOld
  /\ \A r \in Requests : HoldOK(mem[r], Case(r))
-----------------------------------------------------------------------------
(* What one step writes about one case.                                    *)
Line(c, type) == [case |-> c, seq |-> SequenceNo(c), type |-> type]

Writes(c, type) ==
  Readable /\ (file' = Append(file, Line(c, type)) \/ file' = Append(file, Fragment))

LEMMA FragmentType == Fragment \in FileLines /\ Fragment.case = "none" /\ Fragment.type = "FRAGMENT"
BY DEF Fragment, FileLines, LineTypes

LEMMA CountIsNat ==
  ASSUME DevTypes, NEW c, NEW k \in 0 .. Len(file)
  PROVE  LET S == {j \in 1 .. k : file[j].case = c} IN
         IsFiniteSet(S) /\ Cardinality(S) \in Nat
<1>1. IsFiniteSet(1 .. k)
  BY FS_Interval DEF DevTypes
<1>2. {j \in 1 .. k : file[j].case = c} \subseteq 1 .. k
  OBVIOUS
<1>. QED  BY <1>1, <1>2, FS_Subset, FS_CardinalityType

(* A line written about a case takes the next number of its case.          *)
LEMMA WriteEffect ==
  ASSUME DevTypes, LedgerIsNumbered, NEW r \in Requests,
         NEW type \in LineTypes, Writes(Case(r), type)
  PROVE  \E e \in FileLines, n \in Nat :
           /\ n = Len(file) + 1 /\ n \notin DOMAIN file
           /\ e = Fragment \/ (e.case = Case(r) /\ e.type = type)
           /\ DOMAIN file' = DOMAIN file \cup {n} /\ file'[n] = e
           /\ \A i \in DOMAIN file : file'[i] = file[i]
           /\ file' \in Seq(FileLines) /\ LedgerIsNumbered'
<1>1. PICK n \in Nat \ {0} : n = Len(file) + 1
  BY DEF DevTypes
<1>2. DOMAIN file = 1 .. n - 1 /\ n - 1 \in 0 .. Len(file) /\ Len(file) = n - 1
  BY <1>1 DEF DevTypes
<1>3. PICK s \in Nat : s = SequenceNo(Case(r))
  <2>1. Cardinality({j \in 1 .. n - 1 : file[j].case = Case(r)}) \in Nat
    BY <1>2, CountIsNat
  <2>3. PICK x \in Nat : x = Cardinality({j \in 1 .. n - 1 : file[j].case = Case(r)})
    BY <2>1
  <2>2. SequenceNo(Case(r)) = 1 + Cardinality({j \in 1 .. n - 1 : file[j].case = Case(r)})
    BY <1>2, Zenon DEF SequenceNo
  <2>4. SequenceNo(Case(r)) = 1 + x
    BY <2>2, <2>3, Zenon
  <2>. QED  BY <2>4
<1>4. Line(Case(r), type) \in FileLines
  BY <1>3 DEF Line, FileLines, Case, DevTypes
<1>5. PICK e \in FileLines :
        /\ file' = Append(file, e)
        /\ e = Fragment \/ e = Line(Case(r), type)
  BY <1>4, FragmentType DEF Writes
<1>6. /\ DOMAIN file' = DOMAIN file \cup {n} /\ file'[n] = e /\ Len(file') = n
      /\ \A i \in DOMAIN file : file'[i] = file[i]
      /\ file' \in Seq(FileLines) /\ n \notin DOMAIN file
  BY <1>1, <1>5, AppendProperties DEF DevTypes
<1>7. e = Fragment \/ (e.case = Case(r) /\ e.type = type /\ e.seq = s)
  BY <1>3, <1>5 DEF Line
<1>8. LedgerIsNumbered'
  <2>1. \A i \in DOMAIN file : file[i] # Fragment
    BY DEF Writes, Readable
  <2>2. ASSUME NEW i \in DOMAIN file'
        PROVE  /\ file'[i] = Fragment => i = Len(file')
               /\ file'[i] # Fragment =>
                    file'[i].seq = Cardinality({j \in 1 .. i : file'[j].case = file'[i].case})
    <3>1. CASE i \in DOMAIN file
      <4>1. PICK c : c = file[i].case
        OBVIOUS
      <4>2. {j \in 1 .. i : file'[j].case = c} = {j \in 1 .. i : file[j].case = c}
        <5>1. \A j \in 1 .. i : file'[j] = file[j]
          BY <1>2, <1>6, <3>1
        <5>. QED  BY <5>1
      <4>3. file[i].seq = Cardinality({j \in 1 .. i : file[j].case = c})
        BY <2>1, <3>1, <4>1 DEF LedgerIsNumbered
      <4>. QED  BY <1>6, <2>1, <3>1, <4>1, <4>2, <4>3
    <3>2. CASE i = n /\ e # Fragment
      <4>1. PICK c : c = Case(r)
        OBVIOUS
      <4>2. PICK S : S = {j \in 1 .. n - 1 : file[j].case = c}
        OBVIOUS
      <4>3. IsFiniteSet(S) /\ Cardinality(S) \in Nat
        BY <1>2, <4>2, CountIsNat
      <4>4. {j \in 1 .. n : file'[j].case = c} = S \cup {n}
        <5>1. \A j \in 1 .. n - 1 : file'[j] = file[j]
          BY <1>2, <1>6
        <5>2. file'[n].case = c
          BY <1>6, <1>7, <3>2, <4>1
        <5>3. 1 .. n = (1 .. n - 1) \cup {n}
          OBVIOUS
        <5>4. \A j : j \in 1 .. n /\ file'[j].case = c <=> j \in S \/ j = n
          BY <4>2, <5>1, <5>2, <5>3
        <5>. QED  BY <5>4
      <4>5. Cardinality(S \cup {n}) = Cardinality(S) + 1
        <5>1. n \notin S
          BY <1>2, <4>2
        <5>. QED  BY <4>3, <5>1, FS_AddElement
      <4>6. s = 1 + Cardinality(S)
        BY <1>2, <1>3, <4>1, <4>2, Zenon DEF SequenceNo
      <4>7. file'[i].seq = s /\ file'[i].case = c /\ file'[i] # Fragment
        BY <1>6, <1>7, <3>2, <4>1
      <4>8. {j \in 1 .. i : file'[j].case = file'[i].case} = S \cup {n}
        BY <3>2, <4>4, <4>7
      <4>9. file'[i].seq = Cardinality({j \in 1 .. i : file'[j].case = file'[i].case})
        <5>1. s = Cardinality(S \cup {n})
          BY <4>3, <4>5, <4>6
        <5>. QED  BY <4>7, <4>8, <5>1
      <4>. QED  BY <4>7, <4>9
    <3>3. CASE i = n /\ e = Fragment
      BY <1>6, <3>3
    <3>. QED  BY <1>6, <3>1, <3>2, <3>3
  <2>. QED  BY <2>2 DEF LedgerIsNumbered
<1>. QED  BY <1>1, <1>6, <1>7, <1>8

-----------------------------------------------------------------------------
(* What a step may never do, whatever it is.                               *)
StopsDecisions ==
  ~Readable => /\ ~Readable'
               /\ \A r \in Requests : mem'[r].decision \in {mem[r].decision, None}

ClosedByReview ==
  \A r \in Requests :
    run' = run /\ mem'[r].state \in Terminal /\ mem[r].state # mem'[r].state =>
      Len(mem'[r].reviews) = Len(mem[r].reviews) + 1

DevGood == DevInv' /\ StopsDecisions /\ ClosedByReview

(* A step about one hold.  It may announce itself in the ledger; a review  *)
(* is recorded with the line its hash is of.                               *)
LEMMA HoldMoves ==
  ASSUME DevInv, NEW r \in Requests, NEW m \in MemRecords, NEW type \in LineTypes,
         mem' = [mem EXCEPT ![r] = m], UNCHANGED run,
         devTask' \in [DevActors -> DevTaskRecords], \A t \in DevActors : TaskOK(devTask'[t]),
         UNCHANGED file \/ Writes(Case(r), type),
         RoundOK(m),
         m.decision # mem[r].decision => Readable,
         m.state \in Terminal /\ m.state # mem[r].state =>
           Len(m.reviews) = Len(mem[r].reviews) + 1,
         m.decision = mem[r].decision \/ DecisionOK(m, Case(r))',
         \/ m.reviews = mem[r].reviews /\ type # "ANALYST_OUTCOME_RECORDED"
         \/ ReviewsOK(m, Case(r))'
  PROVE  DevGood
<1>. USE DEF DevInv
<1>1. \A x \in Requests : mem'[x] = IF x = r THEN m ELSE mem[x]
  BY DEF DevTypes
<1>2. /\ DevTypes' /\ LedgerIsNumbered' /\ CasesAreOld'
      /\ DOMAIN file \subseteq DOMAIN file'
      /\ \A i \in DOMAIN file : file'[i] = file[i]
      /\ \A i \in DOMAIN file' \ DOMAIN file :
           file'[i] = Fragment \/ (file'[i].case = Case(r) /\ file'[i].type = type)
  <2>1. CASE UNCHANGED file
    BY <2>1 DEF DevTypes, LedgerIsNumbered, CasesAreOld
  <2>2. CASE Writes(Case(r), type)
    <3>1. PICK e \in FileLines, n \in Nat :
           /\ n = Len(file) + 1 /\ n \notin DOMAIN file
           /\ e = Fragment \/ (e.case = Case(r) /\ e.type = type)
           /\ DOMAIN file' = DOMAIN file \cup {n} /\ file'[n] = e
           /\ \A i \in DOMAIN file : file'[i] = file[i]
           /\ file' \in Seq(FileLines) /\ LedgerIsNumbered'
      BY <2>2, WriteEffect
    <3>2. DevTypes'
      BY <3>1 DEF DevTypes
    <3>3. CasesAreOld'
      BY <3>1, FragmentType DEF CasesAreOld, Case, DevTypes
    <3>. QED  BY <3>1, <3>2, <3>3
  <2>. QED  BY <2>1, <2>2
<1>3. ASSUME NEW x \in Requests PROVE HoldOK(mem[x], Case(x))'
  <2>0. Case(x)' = Case(x) /\ (x # r => Case(x) # Case(r))
    BY DEF Case
  <2>1. DecisionOK(mem[x], Case(x)) /\ RoundOK(mem[x]) /\ ReviewsOK(mem[x], Case(x))
    BY DEF HoldOK
  <2>2. PICK old, c : old = mem[x] /\ c = Case(x)
    OBVIOUS
  <2>3. DecisionOK(old, c)'
    BY <1>2, <2>1, <2>2 DEF DecisionOK
  <2>4. CASE x = r
    <3>1. DecisionOK(m, c)'
      <4>1. CASE m.decision = mem[r].decision
        BY <2>2, <2>3, <2>4, <4>1 DEF DecisionOK
      <4>2. CASE DecisionOK(m, Case(r))'
        BY <2>0, <2>2, <2>4, <4>2 DEF DecisionOK
      <4>. QED  BY <4>1, <4>2
    <3>2. ReviewsOK(m, c)'
      <4>1. CASE m.reviews = mem[r].reviews /\ type # "ANALYST_OUTCOME_RECORDED"
        <5>1. ReviewLines(c)' = ReviewLines(c)
          BY <1>2, <4>1, FragmentType DEF ReviewLines
        <5>. QED  BY <2>1, <2>2, <2>4, <4>1, <5>1 DEF ReviewsOK
      <4>2. CASE ReviewsOK(m, Case(r))'
        BY <2>0, <2>2, <2>4, <4>2 DEF ReviewsOK, ReviewLines
      <4>. QED  BY <4>1, <4>2
    <3>. QED  BY <1>1, <2>0, <2>2, <2>4, <3>1, <3>2
              DEF HoldOK, RoundOK, DecisionOK, ReviewsOK, ReviewLines
  <2>5. CASE x # r
    <3>1. ReviewLines(c)' = ReviewLines(c)
      BY <1>2, <2>0, <2>2, <2>5, FragmentType DEF ReviewLines
    <3>2. ReviewsOK(old, c)'
      BY <2>1, <2>2, <3>1 DEF ReviewsOK
    <3>. QED  BY <1>1, <2>0, <2>1, <2>2, <2>3, <2>5, <3>2
              DEF HoldOK, RoundOK, DecisionOK, ReviewsOK, ReviewLines
  <2>. QED  BY <2>4, <2>5
<1>4. StopsDecisions
  <2>1. ~Readable => file' = file
    BY DEF Writes
  <2>. QED  BY <1>1, <2>1 DEF StopsDecisions, Readable
<1>5. ClosedByReview
  BY <1>1 DEF ClosedByReview
<1>. QED  BY <1>2, <1>3, <1>4, <1>5 DEF DevGood

(* A report, and a write that fails, is a write or leaves the file.        *)
LEMMA Reported ==
  ASSUME NEW r \in Requests, NEW type, Report(r, type)
  PROVE  UNCHANGED file \/ Writes(Case(r), type)
BY DEF Report, WriteBreaks, AppendBreaks, AppendRecord, Writes, Line

LEMMA CreateStep ==
  ASSUME DevInv, NEW r \in Requests, DevCreate(r)
  PROVE  DevGood
<1>1. PICK m : m = [mem[r] EXCEPT !.state = "OPEN"]
  OBVIOUS
<1>2. /\ m \in MemRecords /\ m.state = "OPEN" /\ m.round = mem[r].round
      /\ m.decision = mem[r].decision /\ m.evidence = mem[r].evidence
      /\ m.reviews = mem[r].reviews /\ RoundOK(mem[r])
  BY <1>1 DEF DevInv, DevTypes, MemRecords, HoldStates, HoldOK
<1>3. mem' = [mem EXCEPT ![r] = m] /\ UNCHANGED <<run, devTask>>
  BY <1>1 DEF DevCreate
<1>4. UNCHANGED file \/ Writes(Case(r), "HOLD_CREATED")
  BY Reported DEF DevCreate
<1>5. RoundOK(m) /\ m.state \notin Terminal
  BY <1>2 DEF RoundOK, Terminal
<1>6. devTask' \in [DevActors -> DevTaskRecords] /\ \A t \in DevActors : TaskOK(devTask'[t])
  BY <1>3 DEF DevInv, DevTypes
<1>7. "HOLD_CREATED" \in LineTypes /\ "HOLD_CREATED" # "ANALYST_OUTCOME_RECORDED"
  BY DEF LineTypes
<1>. QED  BY <1>2, <1>3, <1>4, <1>5, <1>6, <1>7, HoldMoves

(* The stored input apart, an evaluation that begins leaves the hold.      *)
LEMMA ScoreStep ==
  ASSUME DevInv, NEW t \in DevActors, NEW r \in Requests,
         NEW v \in Verdicts \cup {NoVerdict}, DevScore(t, r, v)
  PROVE  DevGood
<1>. USE DEF DevInv
<1>0. mem[r] \in MemRecords /\ RoundOK(mem[r]) /\ run' = run /\ mem[r].round \in {0, 1}
  BY DEF DevTypes, DevScore, HoldOK, MemRecords
<1>1. PICK b \in BOOLEAN : mem' = [mem EXCEPT ![r].input = b]
  <2>1. mem[r].input \in BOOLEAN
    BY <1>0 DEF MemRecords
  <2>2. ASSUME NEW stored \in BOOLEAN, mem' = [mem EXCEPT ![r].input = @ \/ stored]
        PROVE  \E b \in BOOLEAN : mem' = [mem EXCEPT ![r].input = b]
    <3>1. (mem[r].input \/ stored) \in BOOLEAN
      BY Zenon
    <3>2. mem' = [mem EXCEPT ![r].input = (mem[r].input \/ stored)]
      BY <2>2, Zenon
    <3>. QED  BY <3>1, <3>2, Zenon
  <2>. QED  BY <2>2 DEF DevScore
<1>2. PICK m : m = [mem[r] EXCEPT !.input = b]
  OBVIOUS
<1>3. /\ m \in MemRecords /\ m.state = mem[r].state /\ m.round = mem[r].round
      /\ m.decision = mem[r].decision /\ m.evidence = mem[r].evidence
      /\ m.reviews = mem[r].reviews
  BY <1>0, <1>2 DEF MemRecords
<1>4. mem' = [mem EXCEPT ![r] = m]
  BY <1>1, <1>2
<1>5. RoundOK(m)
  BY <1>0, <1>3 DEF RoundOK
<1>6. UNCHANGED file \/ Writes(Case(r), "FEATURE_SNAPSHOT_CREATED")
  BY DEF DevScore, WriteBreaks, AppendBreaks, AppendRecord, Writes, Line
<1>7. "FEATURE_SNAPSHOT_CREATED" \in LineTypes
      /\ "FEATURE_SNAPSHOT_CREATED" # "ANALYST_OUTCOME_RECORDED"
  BY DEF LineTypes
<1>8. /\ devTask' \in [DevActors -> DevTaskRecords]
      /\ \A x \in DevActors : TaskOK(devTask'[x])
  <2>1. ASSUME NEW c \in Decisions, NEW p \in Predictions, NEW failed \in BOOLEAN,
               devTask' = [devTask EXCEPT ![t] = Asking(r, c, p, v, failed)]
        PROVE  /\ devTask' \in [DevActors -> DevTaskRecords]
               /\ \A x \in DevActors : TaskOK(devTask'[x])
    <3>1. PICK q : q = [candidate |-> c, p |-> p, round |-> mem[r].round,
                        systemError |-> failed, verdict |-> v]
      OBVIOUS
    <3>2. q \in PolicyChecks
      BY <1>0, <3>1 DEF PolicyChecks
    <3>3. PICK a : a = [pc |-> "policy", hold |-> r, round |-> mem[r].round, check |-> q]
      OBVIOUS
    <3>4. a \in DevTaskRecords /\ TaskOK(a)
      BY <1>0, <3>2, <3>3 DEF DevTaskRecords, TaskOK
    <3>5. devTask' = [devTask EXCEPT ![t] = a]
      BY <2>1, <3>1, <3>3 DEF Asking
    <3>. QED  BY <3>4, <3>5 DEF DevTypes
  <2>2. CASE devTask' = devTask
    BY <2>2 DEF DevTypes
  <2>3. ASSUME NEW p \in DevPredictions PROVE p \in Predictions /\ Candidate(p, mem[r].round, v) \in Decisions
    BY DevAssumption, CandidateType
  <2>4. "ESCALATE" \in Decisions /\ FailurePrediction \in Predictions /\ TRUE \in BOOLEAN /\ FALSE \in BOOLEAN
    BY FailurePredictionType DEF Decisions
  <2>5. \/ devTask' = devTask
        \/ devTask' = [devTask EXCEPT ![t] = Asking(r, "ESCALATE", FailurePrediction, v, TRUE)]
        \/ \E p \in DevPredictions : devTask' = [devTask EXCEPT ![t] =
                         Asking(r, Candidate(p, mem[r].round, v), p, v, FALSE)]
    BY DEF DevScore
  <2>. QED  BY <2>1, <2>2, <2>3, <2>4, <2>5
<1>. QED  BY <1>0, <1>3, <1>4, <1>5, <1>6, <1>7, <1>8, HoldMoves

LEMMA WaitingGood == Waiting \in DevTaskRecords /\ TaskOK(Waiting)
BY DEF Waiting, DevTaskRecords, TaskOK

(* A decision is saved with the line it was recorded on.                   *)
LEMMA FinishStep ==
  ASSUME DevInv, NEW t \in DevActors, DevFinish(t)
  PROVE  DevGood
<1>. USE DEF DevInv
<1>1. PICK r \in Requests, q \in PolicyChecks, k \in {0, 1} :
        r = devTask[t].hold /\ q = devTask[t].check /\ k = devTask[t].round
  BY DEF DevFinish, DevTypes, TaskOK, DevTaskRecords
<1>2. /\ devTask' = [devTask EXCEPT ![t] = Waiting] /\ run' = run
      /\ mem[r] \in MemRecords /\ RoundOK(mem[r])
  BY DEF DevFinish, DevTypes, HoldOK
<1>3. /\ devTask' \in [DevActors -> DevTaskRecords]
      /\ \A x \in DevActors : TaskOK(devTask'[x])
  BY <1>2, WaitingGood DEF DevTypes
<1>4. "RISK_DECISION" \in LineTypes /\ "RISK_DECISION" # "ANALYST_OUTCOME_RECORDED"
  BY DEF LineTypes
<1>5. ASSUME UNCHANGED file \/ Writes(Case(r), "RISK_DECISION"), mem' = mem
      PROVE  DevGood
  <2>1. PICK m : m = mem[r]
    OBVIOUS
  <2>2. mem' = [mem EXCEPT ![r] = m]
    BY <1>5, <2>1 DEF DevTypes
  <2>. QED  BY <1>2, <1>3, <1>4, <1>5, <2>1, <2>2, HoldMoves
<1>6. ASSUME NEW d \in Decisions, AppendRecord(Case(r), "RISK_DECISION"),
             mem' = Saved(r, d, k), ~SecondRound(d, mem[r].round)
      PROVE  DevGood
  <2>1. Readable /\ file' = Append(file, Line(Case(r), "RISK_DECISION"))
    BY <1>6 DEF AppendRecord, Line
  <2>2. Writes(Case(r), "RISK_DECISION")
    BY <2>1 DEF Writes
  <2>3. PICK n \in Nat : n = Len(file) + 1
    BY DEF DevTypes
  <2>4. n \in DOMAIN file' /\ file'[n] = Line(Case(r), "RISK_DECISION")
    <3>1. PICK e : e = Line(Case(r), "RISK_DECISION")
      OBVIOUS
    <3>2. file' = Append(file, e)
      BY <2>1, <3>1
    <3>3. DOMAIN file' = 1 .. n /\ n \in 1 .. n /\ file'[n] = e
      BY <2>3, <3>2 DEF DevTypes
    <3>. QED  BY <3>1, <3>3
  <2>5. PICK x : x = [decision |-> d, round |-> k, line |-> n]
    OBVIOUS
  <2>6. x \in DevDecisions /\ x.line = n
    BY <2>5 DEF DevDecisions
  <2>7. PICK m : m = [mem[r] EXCEPT !.state = StateForDecision(d), !.decision = x]
    OBVIOUS
  <2>8. StateForDecision(d) \in HoldStates \ {"EVIDENCE_SUBMITTED"}
        /\ StateForDecision(d) \notin Terminal
        /\ (StateForDecision(d) = "AWAITING_EVIDENCE" => d = "EVIDENCE_NEEDED")
    BY DEF StateForDecision, HoldStates, Terminal
  <2>9. /\ m \in MemRecords /\ m.state = StateForDecision(d) /\ m.round = mem[r].round
        /\ m.decision = x /\ m.evidence = mem[r].evidence /\ m.reviews = mem[r].reviews
    BY <1>2, <2>6, <2>7, <2>8 DEF MemRecords
  <2>10. mem' = [mem EXCEPT ![r] = m]
    BY <1>6, <2>3, <2>5, <2>7 DEF Saved
  <2>11. RoundOK(m)
    BY <1>2, <1>6, <2>8, <2>9 DEF RoundOK, SecondRound, MemRecords
  <2>12. DecisionOK(m, Case(r))'
    BY <1>2, <2>4, <2>6, <2>9 DEF DecisionOK, Line, Case
  <2>. QED  BY <1>2, <1>3, <1>4, <2>1, <2>2, <2>8, <2>9, <2>10, <2>11, <2>12, HoldMoves
<1>7. ASSUME NEW d \in Decisions, AppendRecord(Case(r), "RISK_DECISION"), mem' = Saved(r, d, k)
      PROVE  DevGood
  <2>1. Writes(Case(r), "RISK_DECISION")
    BY <1>7 DEF AppendRecord, Writes, Line
  <2>2. CASE SecondRound(d, mem[r].round)
    BY <1>5, <1>7, <2>1, <2>2 DEF Saved
  <2>3. CASE ~SecondRound(d, mem[r].round)
    BY <1>6, <1>7, <2>3
  <2>. QED  BY <2>2, <2>3
<1>8. OpaCheck(q).allowed \in Decisions /\ Unavailable.allowed \in Decisions
  <2>1. OpaCheck(q) \in PolicyResults
    BY OpaKept DEF Promised
  <2>. QED  BY <2>1 DEF PolicyResults, Unavailable, Escalation, Decisions
<1>9. \/ \E d \in {OpaCheck(q).allowed, Unavailable.allowed} :
            AppendRecord(Case(r), "RISK_DECISION") /\ mem' = Saved(r, d, k)
      \/ (UNCHANGED file \/ Writes(Case(r), "RISK_DECISION")) /\ mem' = mem
  BY <1>1 DEF DevFinish, WriteBreaks, AppendBreaks, Writes
<1>. QED  BY <1>5, <1>7, <1>8, <1>9

(* Evidence uses up the round of its hold.                                 *)
LEMMA EvidenceStep ==
  ASSUME DevInv, NEW r \in Requests, NEW e \in EvidenceIds, DevEvidence(r, e)
  PROVE  DevGood
<1>1. PICK m : m = [mem[r] EXCEPT !.state = "EVIDENCE_SUBMITTED", !.round = 1, !.evidence = e]
  OBVIOUS
<1>2. /\ m \in MemRecords /\ m.state = "EVIDENCE_SUBMITTED" /\ m.round = 1
      /\ m.decision = mem[r].decision /\ m.evidence = e
      /\ m.reviews = mem[r].reviews
  BY <1>1 DEF DevInv, DevTypes, MemRecords, HoldStates
<1>3. mem' = [mem EXCEPT ![r] = m] /\ UNCHANGED <<run, devTask>>
  BY <1>1 DEF DevEvidence
<1>4. UNCHANGED file \/ Writes(Case(r), "EVIDENCE_SUBMITTED")
  BY Reported DEF DevEvidence
<1>5. RoundOK(m) /\ m.state \notin Terminal
  BY <1>2, DevAssumption DEF RoundOK, Terminal
<1>6. devTask' \in [DevActors -> DevTaskRecords] /\ \A t \in DevActors : TaskOK(devTask'[t])
  BY <1>3 DEF DevInv, DevTypes
<1>7. "EVIDENCE_SUBMITTED" \in LineTypes /\ "EVIDENCE_SUBMITTED" # "ANALYST_OUTCOME_RECORDED"
  BY DEF LineTypes
<1>. QED  BY <1>2, <1>3, <1>4, <1>5, <1>6, <1>7, HoldMoves
-----------------------------------------------------------------------------
(* What an accepted submission makes of a hold.                            *)
LEMMA ReviewStates ==
  ASSUME NEW s \in Submissions
  PROVE  /\ ResolvedDecision(s) \in Decisions
         /\ StateAfterReview(s) \in HoldStates \ {"EVIDENCE_SUBMITTED"}
         /\ StateAfterReview(s) = "AWAITING_EVIDENCE" => ResolvedDecision(s) = "EVIDENCE_NEEDED"
<1>1. /\ s.action \in Actions \cup {None} /\ s.authorized \in Decisions \cup {None}
      /\ (s.action = "OVERRIDE_AI") = (s.authorized # None)
  BY DEF Submissions
<1>2. ResolvedDecision(s) \in Decisions
  BY <1>1 DEF ResolvedDecision, ResolvedAction, Decisions
<1>. QED  BY <1>2 DEF StateAfterReview, HoldStates, Decisions

(* One review more, with the hash of a new line or of none.                *)
LEMMA ReviewAdded ==
  ASSUME DevInv, NEW r \in Requests, NEW new \in Seq(KeptReviews), NEW x \in Nat,
         Len(new) = Len(mem[r].reviews) + 1,
         \A i \in DOMAIN mem[r].reviews : new[i] = mem[r].reviews[i],
         new[Len(new)].line = x,
         x # 0 => x = Len(file) + 1
  PROVE  Ordered(new) /\ HashesOf(new) = ReviewLines(Case(r)) \cup ({x} \ {0})
<1>. USE DEF DevInv
<1>1. PICK old \in Seq(KeptReviews), k \in Nat : old = mem[r].reviews /\ k = Len(old)
  BY DEF DevTypes, MemRecords
<1>2. Len(new) = k + 1 /\ DOMAIN new = DOMAIN old \cup {k + 1} /\ DOMAIN old = 1 .. k
  <2>1. Len(new) = k + 1 /\ DOMAIN old = 1 .. k
    BY <1>1
  <2>2. DOMAIN new = 1 .. Len(new)
    OBVIOUS
  <2>3. 1 .. k + 1 = (1 .. k) \cup {k + 1}
    OBVIOUS
  <2>. QED  BY <2>1, <2>2, <2>3
<1>3. ReviewsOK(mem[r], Case(r))
  BY DEF HoldOK
<1>4. PICK L \in SUBSET DOMAIN file : L = ReviewLines(Case(r))
  BY DEF ReviewLines
<1>5. /\ {old[i].line : i \in DOMAIN old} \ {0} = L
      /\ \A i, j \in DOMAIN old : i < j /\ old[j].line # 0 => old[i].line < old[j].line
  BY <1>1, <1>3, <1>4 DEF ReviewsOK, HashesOf, Ordered
<1>6. \A i \in DOMAIN old : new[i].line = old[i].line /\ new[k + 1].line = x
  BY <1>1, <1>2
<1>7. \A i \in DOMAIN old : old[i].line \in Nat /\ old[i].line <= Len(file)
  <2>1. \A i \in DOMAIN old : old[i].line \in Nat
    <3>1. \A i \in DOMAIN old : old[i] \in KeptReviews
      OBVIOUS
    <3>. QED  BY <3>1 DEF KeptReviews
  <2>2. \A i \in DOMAIN old : old[i].line # 0 => old[i].line \in DOMAIN file
    BY <1>5
  <2>3. \A n \in DOMAIN file : n <= Len(file)
    BY DEF DevTypes
  <2>4. 0 <= Len(file)
    BY DEF DevTypes
  <2>. QED  BY <2>1, <2>2, <2>3, <2>4
<1>8. Ordered(new)
  <2>. SUFFICES ASSUME NEW i \in DOMAIN new, NEW j \in DOMAIN new, i < j, new[j].line # 0
                PROVE  new[i].line < new[j].line
    BY DEF Ordered
  <2>1. i \in DOMAIN old
    BY <1>2
  <2>2. CASE j \in DOMAIN old
    BY <1>5, <1>6, <2>1, <2>2
  <2>3. CASE j = k + 1
    <3>1. new[j].line = Len(file) + 1 /\ new[i].line <= Len(file) /\ new[i].line \in Nat
      BY <1>2, <1>6, <1>7, <2>1, <2>3
    <3>2. Len(file) \in Nat
      BY DEF DevTypes
    <3>. QED  BY <3>1, <3>2
  <2>. QED  BY <1>2, <2>2, <2>3
<1>9. HashesOf(new) = L \cup ({x} \ {0})
  <2>1. \A y : y \in HashesOf(new) <=> y # 0 /\ (y = x \/ \E i \in DOMAIN old : y = old[i].line)
    BY <1>2, <1>6 DEF HashesOf
  <2>2. \A y : y \in L <=> y # 0 /\ \E i \in DOMAIN old : y = old[i].line
    BY <1>5
  <2>. QED  BY <2>1, <2>2
<1>. QED  BY <1>4, <1>8, <1>9

(* The hash a review gets is that of its own record, or none.              *)
LEMMA ReviewStep ==
  ASSUME DevInv, NEW r \in Requests, NEW q \in ReviewIds, NEW s \in DevReviews,
         DevReview(r, q, s)
  PROVE  DevGood
<1>. USE DEF DevInv
<1>1. PICK old \in Seq(KeptReviews), k \in Nat, n \in Nat \ {0}, d \in Decisions, state \in HoldStates :
        /\ old = mem[r].reviews /\ k = Len(old) /\ n = Len(file) + 1
        /\ d = ResolvedDecision(s) /\ state = StateAfterReview(s)
        /\ state # "EVIDENCE_SUBMITTED" /\ (state = "AWAITING_EVIDENCE" => d = "EVIDENCE_NEEDED")
  <2>1. s \in Submissions
    BY DevAssumption
  <2>2. mem[r].reviews \in Seq(KeptReviews)
    BY DEF DevTypes, MemRecords
  <2>3. Len(file) + 1 \in Nat \ {0}
    BY DEF DevTypes
  <2>4. Len(mem[r].reviews) \in Nat
    BY <2>2
  <2>. QED  BY <2>1, <2>2, <2>3, <2>4, ReviewStates
<1>2. /\ mem[r] \in MemRecords /\ RoundOK(mem[r]) /\ UNCHANGED <<run, devTask>>
      /\ ~SecondRound(d, mem[r].round)
  BY <1>1 DEF DevReview, DevReviewAccepted, DevTypes, HoldOK
<1>3. PICK e : e = [id |-> q, decision |-> d, line |-> 0]
  OBVIOUS
<1>4. PICK kept : kept = Append(old, e)
  OBVIOUS
<1>5. e \in KeptReviews /\ e.line = 0
  BY <1>3 DEF KeptReviews
<1>6. /\ kept \in Seq(KeptReviews) /\ Len(kept) = k + 1 /\ DOMAIN kept = 1 .. k + 1
      /\ kept[k + 1] = e /\ \A i \in 1 .. k : kept[i] = old[i]
  BY <1>1, <1>4, <1>5, AppendProperties
<1>7. ASSUME NEW new \in Seq(KeptReviews), NEW x \in Nat,
             Len(new) = k + 1, \A i \in 1 .. k : new[i] = old[i], new[k + 1].line = x,
             mem' = [mem EXCEPT ![r].state = state, ![r].reviews = new],
             \/ x = 0 /\ UNCHANGED file
             \/ x = 0 /\ Readable /\ file' = Append(file, Fragment)
             \/ x = n /\ Readable /\ file' = Append(file, Line(Case(r), "ANALYST_OUTCOME_RECORDED"))
      PROVE  DevGood
  <2>1. PICK m : m = [mem[r] EXCEPT !.state = state, !.reviews = new]
    OBVIOUS
  <2>2. /\ m \in MemRecords /\ m.state = state /\ m.round = mem[r].round
        /\ m.decision = mem[r].decision /\ m.evidence = mem[r].evidence /\ m.reviews = new
    BY <1>2, <2>1 DEF MemRecords
  <2>3. mem' = [mem EXCEPT ![r] = m]
    BY <1>7, <2>1
  <2>4. RoundOK(m)
    BY <1>1, <1>2, <2>2 DEF RoundOK, SecondRound, MemRecords
  <2>5. UNCHANGED file \/ Writes(Case(r), "ANALYST_OUTCOME_RECORDED")
    BY <1>7 DEF Writes
  <2>6. Ordered(new) /\ HashesOf(new) = ReviewLines(Case(r)) \cup ({x} \ {0})
    <3>1. DOMAIN mem[r].reviews = 1 .. k /\ Len(mem[r].reviews) = k
      BY <1>1
    <3>2. x # 0 => x = Len(file) + 1
      BY <1>1, <1>7
    <3>3. /\ Len(new) = Len(mem[r].reviews) + 1 /\ new[Len(new)].line = x
          /\ \A i \in DOMAIN mem[r].reviews : new[i] = mem[r].reviews[i]
      BY <1>1, <1>7, <3>1
    <3>. QED  BY <3>2, <3>3, ReviewAdded
  <2>7. ReviewLines(Case(r))' = ReviewLines(Case(r)) \cup ({x} \ {0})
    <3>0. Case(r)' = Case(r)
      BY <1>2 DEF Case
    <3>1. CASE UNCHANGED file /\ x = 0
      BY <3>0, <3>1 DEF ReviewLines
    <3>2. ASSUME NEW f, file' = Append(file, f), f \in FileLines,
                 IF x = 0 THEN f = Fragment
                 ELSE x = n /\ f.case = Case(r) /\ f.type = "ANALYST_OUTCOME_RECORDED"
          PROVE  ReviewLines(Case(r))' = ReviewLines(Case(r)) \cup ({x} \ {0})
      <4>1. /\ DOMAIN file' = DOMAIN file \cup {n} /\ n \notin DOMAIN file /\ file'[n] = f
            /\ \A i \in DOMAIN file : file'[i] = file[i]
        BY <1>1, <3>2, AppendProperties DEF DevTypes
      <4>2. PICK c : c = Case(r)
        OBVIOUS
      <4>3. ReviewLines(c)' = ReviewLines(c) \cup ({x} \ {0})
        BY <1>1, <3>2, <4>1, <4>2, FragmentType DEF ReviewLines
      <4>. QED  BY <3>0, <4>2, <4>3 DEF ReviewLines
    <3>3. Fragment \in FileLines
      BY FragmentType
    <3>4. /\ Line(Case(r), "ANALYST_OUTCOME_RECORDED").case = Case(r)
          /\ Line(Case(r), "ANALYST_OUTCOME_RECORDED").type = "ANALYST_OUTCOME_RECORDED"
      BY DEF Line
    <3>5. Line(Case(r), "ANALYST_OUTCOME_RECORDED") \in FileLines
      <4>1. PICK c \in Nat : c = Cardinality({j \in 1 .. Len(file) : file[j].case = Case(r)})
        <5>1. Len(file) \in 0 .. Len(file)
          BY DEF DevTypes
        <5>. QED  BY <5>1, CountIsNat
      <4>2. DOMAIN file = 1 .. Len(file)
        BY DEF DevTypes
      <4>3. SequenceNo(Case(r)) = 1 + c
        BY <4>1, <4>2, Zenon DEF SequenceNo
      <4>4. SequenceNo(Case(r)) \in Nat
        BY <4>3
      <4>. QED  BY <4>4 DEF Line, FileLines, LineTypes, Case, DevTypes
    <3>. QED  BY <1>1, <1>7, <3>1, <3>2, <3>3, <3>4, <3>5
  <2>8. ReviewsOK(m, Case(r))'
    BY <2>2, <2>6, <2>7 DEF ReviewsOK
  <2>9. devTask' \in [DevActors -> DevTaskRecords] /\ \A t \in DevActors : TaskOK(devTask'[t])
    BY <1>2 DEF DevTypes
  <2>10. m.state \in Terminal /\ m.state # mem[r].state => Len(m.reviews) = Len(mem[r].reviews) + 1
    BY <1>1, <1>7, <2>2
  <2>11. "ANALYST_OUTCOME_RECORDED" \in LineTypes
    BY DEF LineTypes
  <2>. QED  BY <1>2, <2>2, <2>3, <2>4, <2>5, <2>8, <2>9, <2>10, <2>11, HoldMoves
<1>8. CASE /\ AppendRecord(Case(r), "ANALYST_OUTCOME_RECORDED")
           /\ mem' = [mem EXCEPT ![r].state = state, ![r].reviews = WithHash(kept, n)]
  <2>1. PICK new : new = [kept EXCEPT ![k + 1].line = n]
    OBVIOUS
  <2>2. PICK last : last = [e EXCEPT !.line = n]
    OBVIOUS
  <2>3. last \in KeptReviews /\ last.line = n
    BY <1>5, <2>2 DEF KeptReviews
  <2>4. new = [kept EXCEPT ![k + 1] = last]
    BY <1>6, <2>1, <2>2
  <2>5. /\ new \in Seq(KeptReviews) /\ Len(new) = k + 1 /\ \A i \in 1 .. k : new[i] = old[i]
        /\ new[k + 1].line = n
    <3>1. k + 1 \in 1 .. Len(kept)
      BY <1>6
    <3>2. new \in Seq(KeptReviews) /\ Len(new) = Len(kept)
          /\ \A i \in 1 .. Len(kept) : new[i] = IF i = k + 1 THEN last ELSE kept[i]
      BY <1>6, <2>3, <2>4, <3>1, ExceptSeq
    <3>. QED  BY <1>6, <2>3, <3>1, <3>2
  <2>6. mem' = [mem EXCEPT ![r].state = state, ![r].reviews = new]
    BY <1>6, <1>8, <2>1 DEF WithHash
  <2>7. Readable /\ file' = Append(file, Line(Case(r), "ANALYST_OUTCOME_RECORDED"))
    BY <1>8 DEF AppendRecord, Line
  <2>. QED  BY <1>7, <2>5, <2>6, <2>7
<1>9. CASE /\ UNCHANGED file \/ (Readable /\ file' = Append(file, Fragment))
           /\ mem' = [mem EXCEPT ![r].state = state, ![r].reviews = kept]
  <2>1. kept[k + 1].line = 0 /\ 0 \in Nat /\ Len(kept) = k + 1
    BY <1>5, <1>6
  <2>. QED  BY <1>6, <1>7, <1>9, <2>1
<1>10. \/ /\ AppendRecord(Case(r), "ANALYST_OUTCOME_RECORDED")
          /\ mem' = [mem EXCEPT ![r].state = state, ![r].reviews = WithHash(kept, n)]
       \/ /\ UNCHANGED file \/ (Readable /\ file' = Append(file, Fragment))
          /\ mem' = [mem EXCEPT ![r].state = state, ![r].reviews = kept]
  BY <1>1, <1>3, <1>4 DEF DevReview, WriteBreaks, AppendBreaks
<1>. QED  BY <1>8, <1>9, <1>10

(* A restart forgets the holds and keeps the ledger.                       *)
LEMMA RestartStep ==
  ASSUME DevInv, DevRestart
  PROVE  DevGood
<1>. USE DEF DevInv
<1>1. /\ run' = run + 1 /\ mem' = [r \in Requests |-> Missing]
      /\ devTask' = [t \in DevActors |-> Waiting]
      /\ UNCHANGED file \/ (Readable /\ file' = Append(file, Fragment))
  BY DEF DevRestart, AppendBreaks
<1>2. /\ file' \in Seq(FileLines) /\ LedgerIsNumbered'
      /\ \A i \in DOMAIN file' : file'[i] = Fragment \/ (i \in DOMAIN file /\ file'[i] = file[i])
      /\ ~Readable => file' = file
  <2>1. CASE UNCHANGED file
    BY <2>1 DEF DevTypes, LedgerIsNumbered
  <2>2. CASE Readable /\ file' = Append(file, Fragment)
    <3>1. PICK n \in Nat : n = Len(file) + 1
      BY DEF DevTypes
    <3>2. /\ DOMAIN file' = DOMAIN file \cup {n} /\ file'[n] = Fragment /\ Len(file') = n
          /\ \A i \in DOMAIN file : file'[i] = file[i]
          /\ file' \in Seq(FileLines) /\ DOMAIN file = 1 .. n - 1
      BY <2>2, <3>1, FragmentType, AppendProperties DEF DevTypes
    <3>3. LedgerIsNumbered'
      <4>1. ASSUME NEW i \in DOMAIN file
            PROVE  file'[i] # Fragment /\
                   file'[i].seq = Cardinality({j \in 1 .. i : file'[j].case = file'[i].case})
        <5>1. PICK c : c = file[i].case
          OBVIOUS
        <5>2. \A j \in 1 .. i : file'[j] = file[j]
          BY <3>2
        <5>3. {j \in 1 .. i : file'[j].case = c} = {j \in 1 .. i : file[j].case = c}
          BY <5>2
        <5>4. file[i] # Fragment
          BY <2>2 DEF Readable
        <5>5. file[i].seq = Cardinality({j \in 1 .. i : file[j].case = c})
          BY <5>1, <5>4 DEF LedgerIsNumbered
        <5>. QED  BY <3>2, <5>1, <5>3, <5>4, <5>5
      <4>. QED  BY <3>2, <4>1 DEF LedgerIsNumbered
    <3>. QED  BY <2>2, <3>2, <3>3
  <2>. QED  BY <1>1, <2>1, <2>2
<1>3. /\ Missing \in MemRecords /\ Missing.decision = None /\ Missing.reviews = <<>>
      /\ RoundOK(Missing) /\ Missing.state = "ABSENT"
  <2>1. <<>> \in Seq(KeptReviews)
    OBVIOUS
  <2>. QED  BY <2>1 DEF Missing, MemRecords, RoundOK
<1>4. \A r \in Requests : mem'[r] = Missing
  BY <1>1
<1>5. DevTypes'
  <2>1. run' \in Nat
    BY <1>1 DEF DevTypes
  <2>. QED  BY <1>1, <1>2, <1>3, <2>1, WaitingGood DEF DevTypes
<1>6. CasesAreOld'
  <2>. SUFFICES ASSUME NEW n \in DOMAIN file'
                PROVE  \/ file'[n].case = "none" /\ file'[n].type = "FRAGMENT"
                       \/ \E x \in Requests, k \in Nat : file'[n].case = <<x, k>> /\ k <= run'
    BY DEF CasesAreOld
  <2>1. \A k \in Nat : k <= run => k <= run'
    BY <1>1 DEF DevTypes
  <2>. QED  BY <1>2, <2>1, FragmentType DEF CasesAreOld
<1>7. ASSUME NEW r \in Requests PROVE HoldOK(mem[r], Case(r))'
  <2>1. ReviewLines(Case(r))' = {}
    <3>. SUFFICES ASSUME NEW n \in DOMAIN file', file'[n].type = "ANALYST_OUTCOME_RECORDED",
                         file'[n].case = <<r, run'>>
                  PROVE  FALSE
      BY DEF ReviewLines, Case
    <3>1. n \in DOMAIN file /\ file'[n] = file[n]
      BY <1>2, FragmentType
    <3>2. PICK x \in Requests, k \in Nat : file[n].case = <<x, k>> /\ k <= run
      BY <3>1 DEF CasesAreOld
    <3>3. k = run' /\ run' = run + 1 /\ run \in Nat
      BY <1>1, <3>1, <3>2 DEF DevTypes
    <3>. QED  BY <3>2, <3>3
  <2>2. HashesOf(<<>>) = {} /\ Ordered(<<>>)
    BY DEF HashesOf, Ordered
  <2>3. ReviewsOK(mem[r], Case(r))'
    BY <1>3, <1>4, <2>1, <2>2 DEF ReviewsOK
  <2>4. DecisionOK(mem[r], Case(r))' /\ RoundOK(mem[r])'
    BY <1>3, <1>4 DEF DecisionOK, RoundOK
  <2>. QED  BY <2>3, <2>4 DEF HoldOK
<1>8. StopsDecisions
  BY <1>2, <1>3, <1>4 DEF StopsDecisions, Readable
<1>9. ClosedByReview
  BY <1>3, <1>4 DEF ClosedByReview, Terminal
<1>. QED  BY <1>2, <1>5, <1>6, <1>7, <1>8, <1>9 DEF DevGood

(* A step that leaves the holds, the tasks and the ledger.                 *)
LEMMA NothingMoves ==
  ASSUME DevInv, UNCHANGED <<run, mem, devTask, file>>
  PROVE  DevGood
BY DEF DevInv, DevGood, DevTypes, LedgerIsNumbered, CasesAreOld, HoldOK, RoundOK, DecisionOK,
       ReviewsOK, ReviewLines, Case, StopsDecisions, ClosedByReview, Readable

LEMMA DevSteps == DevInv /\ [DevNext]_devVars => DevGood
<1>. SUFFICES ASSUME DevInv, [DevNext]_devVars PROVE DevGood
  OBVIOUS
<1>1. CASE UNCHANGED devVars
  BY <1>1, NothingMoves DEF devVars
<1>2. CASE LoopLists
  BY <1>2, NothingMoves DEF LoopLists
<1>3. NoVerdict \in Verdicts \cup {NoVerdict} /\ \A v \in Verdicts : v \in Verdicts \cup {NoVerdict}
  OBVIOUS
<1>4. ASSUME NEW r \in Requests, LoopEvaluates(r) PROVE DevGood
  <2>1. Loop \in DevActors
    BY DEF DevActors
  <2>. QED  BY <1>3, <1>4, <2>1, ScoreStep, NothingMoves DEF LoopEvaluates
<1>5. ASSUME NEW t \in DevTasks, NEW r \in Requests, DevEvaluate(t, r) \/ DevRescore(t, r)
      PROVE  DevGood
  <2>1. t \in DevActors
    BY DEF DevActors
  <2>. QED  BY <1>3, <1>5, <2>1, ScoreStep DEF DevEvaluate, DevRescore
<1>. QED  BY <1>1, <1>2, <1>4, <1>5, CreateStep, FinishStep, EvidenceStep, ReviewStep, RestartStep
          DEF DevNext

LEMMA DevStart == DevInit => DevInv
<1>. SUFFICES ASSUME DevInit PROVE DevInv
  OBVIOUS
<1>1. /\ Missing \in MemRecords /\ Missing.decision = None /\ Missing.reviews = <<>>
      /\ RoundOK(Missing)
  <2>1. <<>> \in Seq(KeptReviews)
    OBVIOUS
  <2>. QED  BY <2>1 DEF Missing, MemRecords, RoundOK
<1>2. <<>> \in Seq(FileLines) /\ DOMAIN file = {} /\ 1 \in Nat
  BY DEF DevInit
<1>3. DevTypes
  BY <1>1, <1>2, WaitingGood DEF DevInit, DevTypes
<1>4. LedgerIsNumbered /\ CasesAreOld
  BY <1>2 DEF LedgerIsNumbered, CasesAreOld
<1>5. ASSUME NEW r \in Requests PROVE HoldOK(mem[r], Case(r))
  <2>1. mem[r] = Missing
    BY DEF DevInit
  <2>2. HashesOf(<<>>) = {} /\ Ordered(<<>>) /\ ReviewLines(Case(r)) = {}
    BY <1>2 DEF HashesOf, Ordered, ReviewLines
  <2>. QED  BY <1>1, <2>1, <2>2 DEF HoldOK, DecisionOK, ReviewsOK
<1>. QED  BY <1>3, <1>4, <1>5 DEF DevInv

(* What PostgreSQL guarantees with locks the single event loop guarantees  *)
(* in memory, for any number of holds, calls, processes and failures: one  *)
(* evidence round, no decision once the ledger is broken, and no hold      *)
(* closed but by a review.                                                 *)
THEOREM MemoryIsSafe == DevSpec => DevHoldsAreSafe
<1>1. DevInv => DevOneEvidenceRound
  BY DEF DevInv, HoldOK, RoundOK, DevOneEvidenceRound
<1>2. DevInv /\ [DevNext]_devVars => DevInv'
  BY DevSteps DEF DevGood
<1>3. DevInv /\ [DevNext]_devVars => StopsDecisions /\ ClosedByReview
  BY DevSteps DEF DevGood
<1>4. StopsDecisions =>
        (~Readable => /\ ~Readable'
                      /\ \A r \in Requests : mem'[r].decision \in {mem[r].decision, None})
  BY DEF StopsDecisions
<1>5. ClosedByReview =>
        \A r \in Requests :
          run' = run /\ mem'[r].state \in Terminal /\ mem[r].state # mem'[r].state =>
            Len(mem'[r].reviews) = Len(mem[r].reviews) + 1
  BY DEF ClosedByReview
<1>6. DevSpec => []DevOneEvidenceRound
  BY <1>1, <1>2, DevStart, PTL DEF DevSpec
<1>7. DevSpec => BrokenLedgerStopsDecisions
  BY <1>2, <1>3, <1>4, DevStart, PTL DEF DevSpec, BrokenLedgerStopsDecisions
<1>8. DevSpec => OnlyReviewsClose
  BY <1>2, <1>3, <1>5, DevStart, PTL DEF DevSpec, OnlyReviewsClose
<1>. QED  BY <1>6, <1>7, <1>8 DEF DevHoldsAreSafe
-----------------------------------------------------------------------------
(* What the checkpoint script has in hand, and what it has signed.         *)
Checkpoints == [count : Nat, head : Nat]
SignerRecords == [pc : {"idle", "verified", "sign"}, count : Nat, head : Nat]

SignerOK ==
  /\ signer \in SignerRecords
  /\ signer.pc = "verified" => signer.count <= Len(file)
  /\ signer.pc = "sign" => signer.count <= signer.head /\ signer.head <= Len(file)
  /\ signer.pc # "idle" => \A i \in DOMAIN signed : signed[i].head <= signer.count

CheckpointInv ==
  /\ DevInv /\ signed \in Seq(Checkpoints) /\ SignerOK /\ CheckpointsFollowTheChain

(* The ledger only grows, whoever writes.                                  *)
LEMMA FileGrows ==
  ASSUME DevInv, [DevNext]_devVars
  PROVE  Len(file) \in Nat /\ Len(file') \in Nat /\ Len(file) <= Len(file')
<1>1. Len(file) \in Nat
  BY DEF DevInv, DevTypes
<1>2. Len(file') \in Nat
  BY DevSteps DEF DevGood, DevInv, DevTypes
<1>3. file' = file \/ \E e : file' = Append(file, e)
  BY ZenonT(60) DEF DevNext, devVars, DevCreate, DevEvaluate, DevRescore, DevScore, DevFinish, DevEvidence,
         DevReview, LoopLists, LoopEvaluates, DevRestart, Report, WriteBreaks, AppendBreaks,
         AppendRecord
<1>4. CASE \E e : file' = Append(file, e)
  BY <1>1, <1>4 DEF DevInv, DevTypes
<1>. QED  BY <1>1, <1>2, <1>3, <1>4

LEMMA ProcessStep ==
  ASSUME CheckpointInv, [DevNext]_devVars, UNCHANGED scriptVars
  PROVE  CheckpointInv'
<1>. USE DEF CheckpointInv, scriptVars
<1>1. DevInv'
  BY DevSteps DEF DevGood
<1>2. PICK m \in Nat, n \in Nat : m = Len(file) /\ n = Len(file') /\ m <= n
  BY FileGrows
<1>3. SignerOK'
  BY <1>2 DEF SignerOK, SignerRecords
<1>4. CheckpointsFollowTheChain'
  <2>1. \A i \in DOMAIN signed : signed[i].head \in Nat
    <3>1. \A i \in DOMAIN signed : signed[i] \in Checkpoints
      OBVIOUS
    <3>. QED  BY <3>1 DEF Checkpoints
  <2>. QED  BY <1>2, <2>1 DEF CheckpointsFollowTheChain
<1>. QED  BY <1>1, <1>3, <1>4

LEMMA ScriptStep ==
  ASSUME CheckpointInv, Verify \/ ReadHead \/ Sign \/ Publish, UNCHANGED memoryVars
  PROVE  CheckpointInv'
<1>. USE DEF CheckpointInv
<1>1. UNCHANGED <<file, run, mem, recent, devTask, scan, scored, faults>>
  BY DEF memoryVars, Verify, ReadHead, Sign, Publish
<1>2. DevInv'
  BY <1>1, NothingMoves DEF DevGood
<1>3. PICK n \in Nat : n = Len(file)
  BY DEF DevInv, DevTypes
<1>4. \A i \in DOMAIN signed : signed[i] \in Checkpoints
  OBVIOUS
<1>5. signer \in SignerRecords
  BY DEF SignerOK
<1>6. CASE Verify
  <2>1. PICK s : s = [pc |-> "verified", count |-> n, head |-> 0]
    OBVIOUS
  <2>2. s \in SignerRecords /\ s.pc = "verified" /\ s.count = n
    BY <2>1 DEF SignerRecords
  <2>3. signer' = s /\ UNCHANGED <<signed, published>>
    BY <1>3, <1>6, <2>1 DEF Verify
  <2>4. SignerOK'
    BY <1>1, <1>3, <2>2, <2>3 DEF SignerOK, CheckpointsFollowTheChain
  <2>5. CheckpointsFollowTheChain'
    BY <1>1, <2>3 DEF CheckpointsFollowTheChain
  <2>. QED  BY <1>2, <2>3, <2>4, <2>5
<1>7. CASE ReadHead
  <2>1. UNCHANGED <<signed, published>> /\ signer.pc = "verified"
    BY <1>7 DEF ReadHead
  <2>2. CheckpointsFollowTheChain'
    BY <1>1, <2>1 DEF CheckpointsFollowTheChain
  <2>3. CASE Readable
    <3>1. PICK s : s = [signer EXCEPT !.pc = "sign", !.head = n]
      OBVIOUS
    <3>2. s \in SignerRecords /\ s.pc = "sign" /\ s.count = signer.count /\ s.head = n
      BY <1>5, <3>1 DEF SignerRecords
    <3>3. signer' = s
      BY <1>3, <1>7, <2>3, <3>1 DEF ReadHead
    <3>4. SignerOK'
      BY <1>1, <1>3, <2>1, <3>2, <3>3 DEF SignerOK
    <3>. QED  BY <1>2, <2>1, <2>2, <3>4
  <2>4. CASE ~Readable
    <3>1. signer' = [pc |-> "idle", count |-> 0, head |-> 0]
      BY <1>7, <2>4 DEF ReadHead
    <3>2. SignerOK'
      BY <3>1 DEF SignerOK, SignerRecords
    <3>. QED  BY <1>2, <2>1, <2>2, <3>2
  <2>. QED  BY <2>3, <2>4
<1>8. CASE Sign
  <2>1. PICK c \in Nat, h \in Nat : c = signer.count /\ h = signer.head
    BY <1>5 DEF SignerRecords
  <2>2. c <= h /\ h <= n /\ \A i \in DOMAIN signed : signed[i].head <= c
    BY <1>3, <1>8, <2>1 DEF Sign, SignerOK
  <2>3. PICK x : x = [count |-> c, head |-> h]
    OBVIOUS
  <2>11. x \in Checkpoints /\ x.count = c /\ x.head = h
    BY <2>3 DEF Checkpoints
  <2>4. signed' = Append(signed, x) /\ UNCHANGED published
    BY <1>8, <2>1, <2>3 DEF Sign
  <2>5. PICK k \in Nat : k = Len(signed)
    OBVIOUS
  <2>6. /\ signed' \in Seq(Checkpoints) /\ DOMAIN signed' = DOMAIN signed \cup {k + 1}
        /\ DOMAIN signed = 1 .. k
        /\ signed'[k + 1] = x /\ \A i \in DOMAIN signed : signed'[i] = signed[i]
    BY <2>4, <2>5, <2>11, AppendProperties
  <2>7. SignerOK'
    BY <1>8 DEF Sign, SignerOK, SignerRecords
  <2>8. ASSUME NEW i \in DOMAIN signed'
        PROVE  /\ signed'[i].count <= signed'[i].head /\ signed'[i].head <= Len(file')
               /\ \A j \in DOMAIN signed' : i < j => signed'[i].head <= signed'[j].count
    <3>1. CASE i = k + 1
      <4>1. \A j \in DOMAIN signed' : ~(i < j)
        BY <2>6, <3>1
      <4>. QED  BY <1>1, <1>3, <2>2, <2>6, <2>11, <3>1, <4>1
    <3>2. CASE i \in DOMAIN signed
      BY <1>1, <2>2, <2>6, <2>11, <3>2 DEF CheckpointsFollowTheChain
    <3>. QED  BY <2>6, <3>1, <3>2
  <2>9. \A p \in published' : \E i \in DOMAIN signed' : signed'[i] = p
    BY <2>4, <2>6 DEF CheckpointsFollowTheChain
  <2>10. CheckpointsFollowTheChain'
    BY <2>8, <2>9 DEF CheckpointsFollowTheChain
  <2>. QED  BY <1>2, <2>6, <2>7, <2>10
<1>9. CASE Publish
  <2>1. UNCHANGED <<signer, signed>>
    BY <1>9 DEF Publish
  <2>2. SignerOK'
    BY <1>1, <2>1 DEF SignerOK
  <2>3. CheckpointsFollowTheChain'
    BY <1>1, <1>9 DEF Publish, CheckpointsFollowTheChain
  <2>. QED  BY <1>2, <2>1, <2>2, <2>3
<1>. QED  BY <1>6, <1>7, <1>8, <1>9

LEMMA CheckpointStart == DevInit /\ LedgerInit => CheckpointInv
<1>. SUFFICES ASSUME DevInit, LedgerInit PROVE CheckpointInv
  OBVIOUS
<1>1. signed \in Seq(Checkpoints) /\ DOMAIN signed = {}
  <2>1. <<>> \in Seq(Checkpoints)
    OBVIOUS
  <2>. QED  BY <2>1 DEF LedgerInit
<1>2. SignerOK
  BY DEF LedgerInit, SignerOK, SignerRecords
<1>3. CheckpointsFollowTheChain
  BY <1>1 DEF LedgerInit, CheckpointsFollowTheChain
<1>. QED  BY <1>1, <1>2, <1>3, DevStart DEF CheckpointInv

(* While holds are worked on, processes crash and a script signs and       *)
(* publishes, the ledger answers for the memory and for what is published. *)
THEOREM LedgerAnswers == CheckpointedSpec => []LedgerIsSound
<1>1. CheckpointInv => LedgerIsSound
  <2>. SUFFICES ASSUME CheckpointInv PROVE LedgerIsSound
    OBVIOUS
  <2>1. DecisionsAreOnRecord
    BY DEF CheckpointInv, DevInv, HoldOK, DecisionOK, DecisionsAreOnRecord
  <2>2. ReviewsOwnTheirRecords
    BY DEF CheckpointInv, DevInv, HoldOK, ReviewsOK, HashesOf, ReviewLines, Ordered,
           ReviewsOwnTheirRecords
  <2>. QED  BY <2>1, <2>2 DEF CheckpointInv, DevInv, LedgerIsSound
<1>2. CheckpointInv /\ [CheckpointedNext]_<<devVars, scriptVars>> => CheckpointInv'
  <2>. SUFFICES ASSUME CheckpointInv, [CheckpointedNext]_<<devVars, scriptVars>>
                PROVE  CheckpointInv'
    OBVIOUS
  <2>1. CASE CheckpointedNext
    BY <2>1, ProcessStep, ScriptStep DEF CheckpointedNext
  <2>2. CASE UNCHANGED <<devVars, scriptVars>>
    BY <2>2, ProcessStep
  <2>. QED  BY <2>1, <2>2
<1>. QED  BY <1>1, <1>2, CheckpointStart, PTL DEF CheckpointedSpec
-----------------------------------------------------------------------------
Signature == "release-manifest.sig"
Apps ==
  [up : BOOLEAN, model : {"none", "human-only", "trained", "development", "unavailable"},
   verifier : {"none", "signed", "legacy", "unavailable"}, intact : BOOLEAN,
   shadow : {"NOT_CONFIGURED", "READY", "ERROR"}]

StartTypes ==
  /\ release \in [Files -> {"absent", "good", "bad"}]
  /\ saver \in 0 .. Len(SaveOrder)
  /\ completed \in BOOLEAN
  /\ settings \in SettingsUsed
  /\ app \in Apps
  /\ seen \in [Codes -> Nat] /\ sent \in [Codes -> Nat]

(* Only a save that ran to its end leaves a good signature, and it leaves  *)
(* a directory that no later save will touch.                              *)
SavesOK ==
  /\ release[Signature] = "good" => completed
  /\ completed => saver = 0 /\ \E f \in Files : release[f] # "absent"

(* What create_app built of the settings and the release.                  *)
AppOK ==
  app.up =>
    /\ app.verifier = "legacy" => settings.environment = "development"
    /\ app.model = "development" => settings.environment = "development"
    /\ app.model # "none" /\ app.verifier # "none"
    /\ app.model = "trained" => app.intact
    /\ app.model = "trained" \/ app.shadow = "READY" => completed

ReadyOK ==
  answer = "200" => app.up /\ app.verifier # "unavailable" /\ app.model # "unavailable"

(* The last occurrence that was alerted is the first one or a multiple of  *)
(* the threshold, and none after it is either.                             *)
ReportedOK(c) ==
  /\ sent[c] <= seen[c]
  /\ seen[c] > 0 => sent[c] = 1 \/ (sent[c] > 0 /\ sent[c] % RepeatThreshold = 0)
  /\ \A m \in sent[c] + 1 .. seen[c] : ~Alerted(m)

StartInv ==
  /\ StartTypes /\ SavesOK /\ AppOK /\ ReadyOK
  /\ \A c \in Codes : ReportedOK(c)
-----------------------------------------------------------------------------
(* A set of naturals that has a member has a least one.                    *)
LEMMA LeastOf ==
  ASSUME NEW S \in SUBSET Nat, S # {}
  PROVE  \E m \in S : \A n \in S : m <= n
<1>1. PICK R : R = OpToRel(<, Nat)
  OBVIOUS
<1>2. IsWellFoundedOn(R, Nat)
  BY <1>1, NatLessThanWellFounded
<1>3. PICK m \in S : \A n \in S : ~(<<n, m>> \in R)
  BY <1>2, WFMin
<1>4. ASSUME NEW n \in S PROVE m <= n
  <2>1. n \in Nat /\ m \in Nat /\ ~(<<n, m>> \in R)
    BY <1>3
  <2>2. ~(n < m)
    BY <1>1, <2>1 DEF OpToRel
  <2>. QED  BY <2>1, <2>2
<1>. QED  BY <1>4

(* One of any RepeatThreshold occurrences in a row is a multiple of it.    *)
LEMMA NextMultiple ==
  ASSUME NEW r \in Nat \ {0}, NEW n \in Nat, n % r = 0
  PROVE  (n + r) % r = 0
<1>1. PICK q \in Int : q = n \div r
  OBVIOUS
<1>2. n = r * q
  BY <1>1
<1>3. n + r = r * (q + 1)
  BY <1>2
<1>4. PICK k \in Int, x \in 0 .. r - 1 : n + r = r * k + x /\ x = (n + r) % r
  OBVIOUS
<1>5. PICK t \in Int : t = q + 1 - k
  OBVIOUS
<1>6. x = r * t
  BY <1>3, <1>4, <1>5
<1>7. t < 1
  <2>1. t >= 1 => r * t >= r
    OBVIOUS
  <2>. QED  BY <1>4, <1>6, <2>1
<1>8. t > -1
  <2>1. t <= -1 => r * t <= -r
    OBVIOUS
  <2>. QED  BY <1>4, <1>6, <2>1
<1>9. t = 0
  BY <1>7, <1>8
<1>. QED  BY <1>4, <1>6, <1>9

LEMMA LeastIs ==
  ASSUME NEW S \in SUBSET Nat, NEW m \in S, \A n \in S : m <= n
  PROVE  Min(S) = m
<1>1. \A x \in S : (\A n \in S : x <= n) => x = m
  OBVIOUS
<1>. QED  BY <1>1 DEF Min

(* A probe that says "ready" has passed every check.                       *)
LEMMA ReadyPassed ==
  ASSUME Failing = "ready"
  PROVE  app.verifier # "unavailable" /\ app.model # "unavailable"
<1>1. PICK S : S = {i \in DOMAIN ReadinessChecks : ReadinessChecks[i].fails}
  OBVIOUS
<1>0. DOMAIN ReadinessChecks = 1 .. 9
  BY DEF ReadinessChecks
<1>2. S \subseteq 1 .. 9 /\ 9 \in S
  <2>1. ReadinessChecks[9].fails
    BY DEF ReadinessChecks
  <2>. QED  BY <1>0, <1>1, <2>1
<1>3. /\ app.verifier = "unavailable" => 1 \in S
      /\ app.model = "unavailable" => 6 \in S
  <2>1. app.verifier = "unavailable" => ReadinessChecks[1].fails
    BY DEF ReadinessChecks
  <2>2. app.model = "unavailable" => ReadinessChecks[6].fails
    BY DEF ReadinessChecks
  <2>. QED  BY <1>0, <1>1, <2>1, <2>2
<1>4. \A i \in 1 .. 9 : ReadinessChecks[i].code = "ready" => i = 9
  <2>1. /\ ReadinessChecks[1].code # "ready" /\ ReadinessChecks[2].code # "ready"
        /\ ReadinessChecks[3].code # "ready" /\ ReadinessChecks[4].code # "ready"
    BY DEF ReadinessChecks
  <2>2. /\ ReadinessChecks[5].code # "ready" /\ ReadinessChecks[6].code # "ready"
        /\ ReadinessChecks[7].code # "ready" /\ ReadinessChecks[8].code # "ready"
    BY DEF ReadinessChecks
  <2>. QED  BY <2>1, <2>2
<1>5. PICK m \in S : \A n \in S : m <= n
  <2>1. S \in SUBSET Nat /\ S # {}
    BY <1>2
  <2>. QED  BY <2>1, LeastOf
<1>6. Failing = ReadinessChecks[m].code
  <2>1. Min(S) = m
    BY <1>2, <1>5, LeastIs
  <2>. QED  BY <1>1, <2>1 DEF Failing
<1>7. m = 9
  BY <1>2, <1>4, <1>5, <1>6
<1>. QED  BY <1>2, <1>3, <1>5, <1>7

-----------------------------------------------------------------------------
(* What leaves the process, its answer and the alerts alone keeps what is  *)
(* said of them, as long as a completed save stays one.                    *)
LEMMA ReleaseMoves ==
  ASSUME StartInv, StartTypes', SavesOK', completed => completed',
         UNCHANGED <<settings, app, answer, seen, sent>>
  PROVE  StartInv'
BY DEF StartInv, AppOK, ReadyOK, ReportedOK, Alerted

LEMMA Positions ==
  /\ Len(SaveOrder) = 7 /\ SaveOrder[7] = Signature
  /\ \A i \in 1 .. 7 : SaveOrder[i] \in Files /\ (SaveOrder[i] = Signature => i = 7)
<1>1. /\ SaveOrder[1] # Signature /\ SaveOrder[2] # Signature /\ SaveOrder[3] # Signature
      /\ SaveOrder[4] # Signature /\ SaveOrder[5] # Signature /\ SaveOrder[6] # Signature
  BY DEF SaveOrder, Signature
<1>2. Len(SaveOrder) = 7 /\ SaveOrder[7] = Signature /\ DOMAIN SaveOrder = 1 .. 7
  BY DEF SaveOrder, Signature
<1>. HIDE DEF SaveOrder, Signature
<1>. QED  BY <1>1, <1>2 DEF Files

(* The steps of train_model.py and what may happen to its files.           *)
LEMMA SavingStep ==
  ASSUME StartInv, BeginSave \/ WriteFile \/ SaveKilled \/ Damage
  PROVE  StartInv'
<1>. USE Positions DEF StartInv
<1>1. UNCHANGED <<settings, app, answer, seen, sent>>
  BY DEF BeginSave, WriteFile, SaveKilled, Damage
<1>2. CASE BeginSave
  <2>1. StartTypes'
    BY <1>2 DEF BeginSave, StartTypes
  <2>2. SavesOK' /\ completed' = completed
    BY <1>2 DEF BeginSave, SavesOK
  <2>. QED  BY <1>1, <2>1, <2>2, ReleaseMoves
<1>3. CASE WriteFile
  <2>1. PICK n \in 1 .. 7 : n = saver
    BY <1>3 DEF WriteFile, StartTypes
  <2>2. /\ release' = [release EXCEPT ![SaveOrder[n]] = "good"]
        /\ saver' = IF n = 7 THEN 0 ELSE n + 1
    BY <1>3, <2>1 DEF WriteFile
  <2>3. completed' \in BOOLEAN /\ (completed' <=> n = 7)
    BY <1>3, <2>1 DEF WriteFile
  <2>4. StartTypes'
    BY <1>1, <2>1, <2>2, <2>3 DEF StartTypes
  <2>5. ~completed
    BY <2>1 DEF SavesOK
  <2>6. \A f \in Files : release'[f] = IF f = SaveOrder[n] THEN "good" ELSE release[f]
    BY <2>2 DEF StartTypes
  <2>7. Signature \in Files
    OBVIOUS
  <2>8. SavesOK'
    <3>1. CASE n = 7
      BY <2>2, <2>3, <2>6, <2>7, <3>1 DEF SavesOK
    <3>2. CASE n # 7
      <4>1. SaveOrder[n] # Signature
        BY <3>2
      <4>. QED  BY <2>3, <2>5, <2>6, <2>7, <3>2, <4>1 DEF SavesOK
    <3>. QED  BY <3>1, <3>2
  <2>. QED  BY <1>1, <2>4, <2>5, <2>8, ReleaseMoves
<1>4. CASE SaveKilled
  <2>1. PICK n \in 1 .. 7 : n = saver
    BY <1>4 DEF SaveKilled, StartTypes
  <2>2. PICK x \in {"bad", release[SaveOrder[n]]} :
          release' = [release EXCEPT ![SaveOrder[n]] = x]
    BY <1>4, <2>1 DEF SaveKilled
  <2>3. /\ saver' = 0 /\ completed' = completed /\ ~completed
        /\ x \in {"absent", "good", "bad"} /\ Signature \in Files
    BY <1>4, <2>1, <2>2 DEF SaveKilled, SavesOK, StartTypes
  <2>4. \A f \in Files : release'[f] \in {"bad", release[f]}
    BY <2>2 DEF StartTypes
  <2>5. StartTypes'
    BY <1>1, <2>2, <2>3 DEF StartTypes
  <2>6. SavesOK'
    BY <2>3, <2>4 DEF SavesOK
  <2>. QED  BY <1>1, <2>3, <2>5, <2>6, ReleaseMoves
<1>5. CASE Damage
  <2>1. PICK f \in Files, c \in {"bad", "absent"} : release' = [release EXCEPT ![f] = c]
    BY <1>5 DEF Damage
  <2>2. /\ saver' = saver /\ saver = 0 /\ completed' = completed
        /\ \A g \in Files : release[g] = "good"
    BY <1>5 DEF Damage
  <2>3. PICK g \in Files : g # f
    <3>1. SaveOrder[1] # Signature /\ SaveOrder[1] \in Files /\ Signature \in Files
      OBVIOUS
    <3>. QED  BY <3>1
  <2>4. release'[g] = "good" /\ \A h \in Files : release'[h] = "good" => release[h] = "good"
    BY <2>1, <2>2, <2>3 DEF StartTypes
  <2>5. StartTypes'
    BY <1>1, <2>1, <2>2 DEF StartTypes
  <2>6. SavesOK'
    <3>1. Signature \in Files
      OBVIOUS
    <3>. QED  BY <2>2, <2>3, <2>4, <3>1 DEF SavesOK
  <2>. QED  BY <1>1, <2>2, <2>5, <2>6, ReleaseMoves
<1>. QED  BY <1>2, <1>3, <1>4, <1>5
-----------------------------------------------------------------------------
(* An occurrence is counted, and alerted when it is due.                   *)
LEMMA RecordKept ==
  ASSUME StartInv, NEW c \in Codes, Record(c)
  PROVE  /\ seen' \in [Codes -> Nat] /\ sent' \in [Codes -> Nat]
         /\ \A d \in Codes : ReportedOK(d)'
<1>. USE StartAssumption DEF StartInv
<1>1. PICK n \in Nat, m \in Nat : n = seen[c] /\ m = sent[c]
  BY DEF StartTypes
<1>2. seen' = [seen EXCEPT ![c] = n + 1]
      /\ sent' = [sent EXCEPT ![c] = IF Alerted(n + 1) THEN n + 1 ELSE m]
  BY <1>1 DEF Record
<1>3. seen' \in [Codes -> Nat] /\ sent' \in [Codes -> Nat]
  BY <1>1, <1>2 DEF StartTypes
<1>4. ASSUME NEW d \in Codes PROVE ReportedOK(d)'
  <2>0. \A x : Alerted(x)' = Alerted(x)
    BY DEF Alerted
  <2>1. CASE d # c
    BY <1>2, <2>0, <2>1 DEF ReportedOK, StartTypes
  <2>2. CASE d = c /\ Alerted(n + 1)
    <3>1. seen'[c] = n + 1 /\ sent'[c] = n + 1
      BY <1>2, <2>2 DEF StartTypes
    <3>2. n + 1 = 1 \/ (n + 1 > 0 /\ (n + 1) % RepeatThreshold = 0)
      BY <2>2 DEF Alerted
    <3>. QED  BY <2>2, <3>1, <3>2 DEF ReportedOK
  <2>3. CASE d = c /\ ~Alerted(n + 1)
    <3>1. seen'[c] = n + 1 /\ sent'[c] = m
      BY <1>2, <2>3 DEF StartTypes
    <3>2. n > 0
      BY <2>3 DEF Alerted
    <3>3. m <= n /\ (m = 1 \/ (m > 0 /\ m % RepeatThreshold = 0))
          /\ \A k \in m + 1 .. n : ~Alerted(k)
      BY <1>1, <3>2 DEF ReportedOK
    <3>4. \A k \in m + 1 .. n + 1 : ~Alerted(k)
      BY <2>3, <3>3
    <3>. QED  BY <2>0, <2>3, <3>1, <3>3, <3>4 DEF ReportedOK
  <2>. QED  BY <2>1, <2>2, <2>3
<1>. QED  BY <1>3, <1>4

(* The process changes or counts an occurrence; the release stays.         *)
LEMMA ProcessMoves ==
  ASSUME StartInv, app' \in Apps, AppOK', ReadyOK',
         UNCHANGED <<release, saver, completed, settings>>,
         \/ \E c \in Codes : Record(c)
         \/ UNCHANGED <<seen, sent>>
         \/ seen' = NoCounts /\ sent' = NoCounts
  PROVE  StartInv'
<1>. USE DEF StartInv
<1>1. /\ seen' \in [Codes -> Nat] /\ sent' \in [Codes -> Nat]
      /\ \A c \in Codes : ReportedOK(c)'
  <2>1. CASE \E c \in Codes : Record(c)
    BY <2>1, RecordKept
  <2>2. CASE UNCHANGED <<seen, sent>>
    BY <2>2 DEF StartTypes, ReportedOK, Alerted
  <2>3. CASE seen' = NoCounts /\ sent' = NoCounts
    BY <2>3 DEF NoCounts, ReportedOK
  <2>. QED  BY <2>1, <2>2, <2>3
<1>2. StartTypes' /\ SavesOK'
  BY <1>1 DEF StartTypes, SavesOK
<1>. QED  BY <1>1, <1>2

LEMMA StartStep ==
  ASSUME StartInv, Start
  PROVE  StartInv'
<1>. USE DEF StartInv
<1>1. /\ UNCHANGED <<release, saver, completed, settings>> /\ answer' = "none"
      /\ app' = [up |-> TRUE, model |-> RiskModel, verifier |-> EvidenceVerifier,
                 intact |-> Verified, shadow |-> ShadowStatus]
  BY DEF Start
<1>2. (\E c \in Codes : Record(c)) \/ UNCHANGED <<seen, sent>>
  BY DEF Start, Codes
<1>3. settings \in SettingsValues
  BY StartAssumption DEF StartTypes
<1>5. /\ RiskModel \in {"human-only", "trained", "development", "unavailable"}
      /\ RiskModel = "development" => settings.environment = "development"
      /\ RiskModel = "trained" => Verified
  BY <1>3 DEF RiskModel, LoadsRelease, SettingsValues
<1>6. /\ EvidenceVerifier \in {"signed", "legacy", "unavailable"}
      /\ EvidenceVerifier = "legacy" => settings.environment = "development"
  BY <1>3 DEF EvidenceVerifier, SettingsValues
<1>7. ShadowStatus \in {"READY", "ERROR"} /\ (ShadowStatus = "READY" => Verified)
  BY DEF ShadowStatus
<1>8. Verified => completed
  BY DEF Verified, SavesOK, Signature
<1>9. PICK m, v, s : m = RiskModel /\ v = EvidenceVerifier /\ s = ShadowStatus
  OBVIOUS
<1>4. PICK b \in BOOLEAN : /\ Verified => b
                         /\ app' = [up |-> TRUE, model |-> m, verifier |-> v,
                                    intact |-> b, shadow |-> s]
  <2>1. CASE Verified
    <3>1. Verified = TRUE
      BY <2>1, Zenon DEF Verified
    <3>. QED  BY <1>1, <1>9, <3>1
  <2>2. CASE ~Verified
    <3>1. Verified = FALSE
      BY <2>2, Zenon DEF Verified
    <3>. QED  BY <1>1, <1>9, <2>2, <3>1
  <2>. QED  BY <2>1, <2>2
<1>10. /\ app' \in Apps /\ app'.model = m /\ app'.verifier = v /\ app'.intact = b
       /\ app'.shadow = s
  BY <1>4, <1>5, <1>6, <1>7, <1>9 DEF Apps
<1>11. AppOK'
  BY <1>1, <1>4, <1>5, <1>6, <1>7, <1>8, <1>9, <1>10 DEF AppOK
<1>12. ReadyOK'
  BY <1>1 DEF ReadyOK
<1>. QED  BY <1>1, <1>2, <1>10, <1>11, <1>12, ProcessMoves

LEMMA RunningStep ==
  ASSUME StartInv, Stop \/ DependencyChanges \/ Probe
  PROVE  StartInv'
<1>. USE DEF StartInv
<1>1. UNCHANGED <<release, saver, completed, settings>>
  BY DEF Stop, DependencyChanges, Probe
<1>2. CASE Stop
  <2>1. app' \in Apps /\ ~app'.up /\ answer' = "none"
    BY <1>2 DEF Stop, Down, Apps
  <2>2. seen' = NoCounts /\ sent' = NoCounts
    BY <1>2 DEF Stop
  <2>3. AppOK' /\ ReadyOK'
    BY <2>1 DEF AppOK, ReadyOK
  <2>. QED  BY <1>1, <2>1, <2>2, <2>3, ProcessMoves
<1>3. CASE DependencyChanges
  <2>1. UNCHANGED <<app, answer, seen, sent>>
    BY <1>3 DEF DependencyChanges
  <2>2. app' \in Apps /\ AppOK' /\ ReadyOK'
    BY <1>1, <2>1 DEF AppOK, ReadyOK, StartTypes
  <2>. QED  BY <1>1, <2>1, <2>2, ProcessMoves
<1>4. CASE Probe
  <2>1. app' = app /\ app.up
    BY <1>4 DEF Probe
  <2>2. (\E c \in Codes : Record(c)) \/ UNCHANGED <<seen, sent>>
    BY <1>4 DEF Probe
  <2>3. answer' = "200" => Failing = "ready"
    BY <1>4 DEF Probe
  <2>4. app' \in Apps /\ AppOK'
    BY <1>1, <2>1 DEF AppOK, StartTypes
  <2>5. ReadyOK'
    BY <2>1, <2>3, ReadyPassed DEF ReadyOK
  <2>. QED  BY <1>1, <2>2, <2>4, <2>5, ProcessMoves
<1>. QED  BY <1>2, <1>3, <1>4

LEMMA StartSteps == StartInv /\ [StartNext]_startVars => StartInv'
<1>. SUFFICES ASSUME StartInv, [StartNext]_startVars PROVE StartInv'
  OBVIOUS
<1>1. CASE UNCHANGED startVars
  BY <1>1 DEF startVars, StartInv, StartTypes, SavesOK, AppOK, ReadyOK, ReportedOK, Alerted
<1>. QED  BY <1>1, SavingStep, StartStep, RunningStep DEF StartNext

LEMMA StartStart == StartInit => StartInv
<1>. SUFFICES ASSUME StartInit PROVE StartInv
  OBVIOUS
<1>1. StartTypes
  <2>1. 0 \in 0 .. Len(SaveOrder) /\ FALSE \in BOOLEAN
    BY Positions
  <2>2. Down \in Apps /\ NoCounts \in [Codes -> Nat]
    BY DEF Down, Apps, NoCounts
  <2>. QED  BY <2>1, <2>2 DEF StartInit, StartTypes
<1>2. SavesOK
  BY Positions DEF StartInit, SavesOK
<1>3. AppOK /\ ReadyOK
  BY DEF StartInit, Down, AppOK, ReadyOK
<1>4. \A c \in Codes : ReportedOK(c)
  BY DEF StartInit, NoCounts, ReportedOK
<1>. QED  BY <1>1, <1>2, <1>3, <1>4 DEF StartInv

(* "Ready" is said over a verified release only, a half-saved one never    *)
(* loads, and a failure that lasts is reported again and again: for every  *)
(* deployment, threshold and number of saves and probes.                   *)
THEOREM ProbesAreTrue == StartSpec => []ProbesTellTheTruth
<1>1. StartInv => ProbesTellTheTruth
  <2>. SUFFICES ASSUME StartInv PROVE ProbesTellTheTruth
    OBVIOUS
  <2>1. ReadyMeansVerified
    BY DEF StartInv, StartTypes, Apps, AppOK, ReadyOK, ReadyMeansVerified
  <2>2. HalfSavedNeverLoads
    BY DEF StartInv, AppOK, HalfSavedNeverLoads
  <2>3. FailuresAreReported
    <3>. SUFFICES ASSUME NEW c \in Codes, seen[c] > 0
                  PROVE  sent[c] > 0 /\ seen[c] - sent[c] < RepeatThreshold
      BY DEF FailuresAreReported
    <3>1. PICK n \in Nat, m \in Nat, r \in Nat \ {0} :
            n = seen[c] /\ m = sent[c] /\ r = RepeatThreshold
      BY StartAssumption DEF StartInv, StartTypes
    <3>2. /\ m = 1 \/ (m > 0 /\ m % r = 0)
          /\ \A k \in m + 1 .. n : ~(k = 1 \/ k % r = 0)
      BY <3>1 DEF StartInv, ReportedOK, Alerted
    <3>3. ASSUME n - m >= r PROVE FALSE
      <4>1. CASE m % r = 0
        <5>1. (m + r) % r = 0
          BY <4>1, NextMultiple
        <5>2. m + r \in m + 1 .. n
          BY <3>1, <3>3
        <5>. QED  BY <3>2, <5>1, <5>2
      <4>2. CASE m = 1
        <5>1. 0 % r = 0 /\ 0 + r = r
          OBVIOUS
        <5>2. r % r = 0
          BY <5>1, NextMultiple
        <5>3. 1 % 1 = 0
          OBVIOUS
        <5>4. CASE r = 1
          BY <3>2, <3>3, <4>1, <4>2, <5>3, <5>4
        <5>5. CASE r # 1
          <6>1. r \in m + 1 .. n
            BY <3>3, <4>2, <5>5
          <6>. QED  BY <3>2, <5>2, <6>1
        <5>. QED  BY <5>4, <5>5
      <4>. QED  BY <3>2, <4>1, <4>2
    <3>. QED  BY <3>1, <3>2, <3>3
  <2>. QED  BY <2>1, <2>2, <2>3 DEF ProbesTellTheTruth
<1>. QED  BY <1>1, StartStart, StartSteps, PTL DEF StartSpec
-----------------------------------------------------------------------------
(* The deque is the end of what was admitted, in order; what it no longer  *)
(* holds is out of the window, and of Limit + 1 admissions in a row the    *)
(* first and the last are a window apart.                                  *)
AdmittedInOrder ==
  /\ \A i, j \in DOMAIN admitted : i <= j => admitted[i] <= admitted[j]
  /\ \A i \in DOMAIN admitted : admitted[i] <= now

BucketIsTheEnd ==
  LET gone == Len(admitted) - Len(bucket) IN
    /\ gone >= 0 /\ Len(bucket) <= Limit
    /\ \A i \in DOMAIN bucket : bucket[i] = admitted[gone + i]
    /\ \A i \in 1 .. gone : admitted[i] <= now - Window

QuotasApart == \A i, j \in DOMAIN admitted : j >= i + Limit => admitted[j] >= admitted[i] + Window

GateInv ==
  /\ now \in Nat /\ admitted \in Seq(Nat) /\ bucket \in Seq(Nat) /\ caller \in Callers
  /\ AdmittedInOrder
  /\ Limit > 0 => BucketIsTheEnd /\ QuotasApart

(* Popping stops at the first time that is still inside the window.        *)
LEMMA PoppedLeft ==
  ASSUME bucket \in Seq(Nat), NEW cutoff \in Int
  PROVE  /\ Popped(cutoff) \in 0 .. Len(bucket)
         /\ \A i \in 1 .. Popped(cutoff) : bucket[i] <= cutoff
         /\ Popped(cutoff) < Len(bucket) => bucket[Popped(cutoff) + 1] > cutoff
<1>. DEFINE Stops == {k \in 0 .. Len(bucket) : k < Len(bucket) => bucket[k + 1] > cutoff}
<1>1. Len(bucket) \in Nat /\ \A i \in 1 .. Len(bucket) : bucket[i] \in Nat
  OBVIOUS
<1>2. Stops \subseteq Nat /\ Len(bucket) \in Stops
  BY <1>1
<1>3. \E k \in Stops : \A l \in Stops : ~(<<l, k>> \in OpToRel(<, Nat))
  <2>. HIDE DEF Stops
  <2>. QED  BY <1>2, NatLessThanWellFounded, WFMin
<1>4. PICK k \in Stops : \A l \in Stops : ~(l < k)
  BY <1>2, <1>3 DEF OpToRel
<1>5. \A i \in 1 .. k : bucket[i] <= cutoff
  <2>. SUFFICES ASSUME NEW i \in 1 .. k PROVE bucket[i] <= cutoff
    OBVIOUS
  <2>1. i - 1 \in 0 .. Len(bucket) /\ i - 1 < k /\ i - 1 < Len(bucket) /\ (i - 1) + 1 = i
    BY <1>1
  <2>2. ~(i - 1 \in Stops)
    BY <1>4, <2>1
  <2>. QED  BY <1>1, <2>1, <2>2
<1>6. /\ k \in 0 .. Len(bucket) /\ \A i \in 1 .. k : bucket[i] <= cutoff
      /\ k < Len(bucket) => bucket[k + 1] > cutoff
  BY <1>5
<1>. HIDE DEF Stops
<1>. QED  BY <1>6 DEF Popped

(* What is left of the bucket is the end of it, and fresh.                 *)
LEMMA FreshIsTheEnd ==
  ASSUME GateInv, Limit > 0
  PROVE  \E gone \in Nat :
           /\ Fresh \in Seq(Nat) /\ Len(admitted) = gone + Len(Fresh) /\ Len(Fresh) <= Limit
           /\ \A i \in 1 .. Len(Fresh) : Fresh[i] = admitted[gone + i]
           /\ \A i \in 1 .. gone : admitted[i] <= now - Window
           /\ \A i \in gone + 1 .. Len(admitted) : admitted[i] > now - Window
<1>. USE GateAssumption
<1>1. PICK cutoff \in Int : cutoff = now - Window
  BY DEF GateInv
<1>2. PICK n \in Nat, a \in Nat : n = Len(bucket) /\ a = Len(admitted) /\ a >= n /\ n <= Limit
  BY DEF GateInv, BucketIsTheEnd
<1>3. PICK p \in 0 .. n : p = Popped(cutoff)
  BY <1>2, PoppedLeft DEF GateInv
<1>4. /\ \A i \in 1 .. p : bucket[i] <= cutoff
      /\ p < n => bucket[p + 1] > cutoff
  BY <1>2, <1>3, PoppedLeft DEF GateInv
<1>5. Fresh = SubSeq(bucket, p + 1, n)
  BY <1>1, <1>2, <1>3 DEF Fresh, FreshSince
<1>6. Fresh \in Seq(Nat) /\ Len(Fresh) = n - p /\ \A i \in 1 .. n - p : Fresh[i] = bucket[p + i]
  <2>1. bucket \in Seq(Nat) /\ p + 1 \in Nat \ {0}
    BY DEF GateInv
  <2>2. \A i \in p + 1 .. n : bucket[i] \in Nat
    BY <1>2, <2>1
  <2>. QED  BY <1>2, <1>5, <2>1, <2>2
<1>7. PICK gone \in Nat : gone = a - n + p
  BY <1>2
<1>8. DOMAIN bucket = 1 .. n /\ DOMAIN admitted = 1 .. a
  BY <1>2 DEF GateInv
<1>9. /\ \A i \in 1 .. n : bucket[i] = admitted[a - n + i]
      /\ \A i \in 1 .. a - n : admitted[i] <= cutoff
  BY <1>1, <1>2, <1>8 DEF GateInv, BucketIsTheEnd
<1>10. \A i \in 1 .. gone : admitted[i] <= cutoff
  <2>. SUFFICES ASSUME NEW i \in 1 .. gone PROVE admitted[i] <= cutoff
    OBVIOUS
  <2>1. CASE i <= a - n
    BY <1>2, <1>9, <2>1
  <2>2. CASE i > a - n
    <3>1. PICK j \in 1 .. p : j = i - (a - n)
      BY <1>2, <1>7, <2>2
    <3>2. a - n + j = i
      BY <1>2, <3>1
    <3>3. j \in 1 .. n
      BY <1>2, <1>3, <3>1
    <3>4. bucket[j] = admitted[a - n + j]
      BY <1>9, <3>3
    <3>5. bucket[j] <= cutoff
      BY <1>4
    <3>. QED  BY <3>2, <3>4, <3>5
  <2>. QED  BY <1>2, <2>1, <2>2
<1>11. \A i \in gone + 1 .. a : admitted[i] > cutoff
  <2>. SUFFICES ASSUME NEW i \in gone + 1 .. a PROVE admitted[i] > cutoff
    OBVIOUS
  <2>1. p < n /\ gone + 1 \in 1 .. a /\ i \in 1 .. a /\ gone + 1 <= i
    BY <1>2, <1>7
  <2>2. bucket[p + 1] = admitted[a - n + (p + 1)] /\ a - n + (p + 1) = gone + 1
    BY <1>2, <1>7, <1>9, <2>1
  <2>3. admitted[gone + 1] > cutoff /\ admitted[gone + 1] <= admitted[i]
    BY <1>4, <1>8, <2>1, <2>2 DEF GateInv, AdmittedInOrder
  <2>4. admitted[gone + 1] \in Nat /\ admitted[i] \in Nat
    BY <1>2, <2>1 DEF GateInv
  <2>. QED  BY <2>3, <2>4
<1>12. \A i \in 1 .. n - p : Fresh[i] = admitted[gone + i]
  <2>. SUFFICES ASSUME NEW i \in 1 .. n - p PROVE Fresh[i] = admitted[gone + i]
    OBVIOUS
  <2>1. p + i \in 1 .. n /\ a - n + (p + i) = gone + i
    BY <1>2, <1>7
  <2>. QED  BY <1>6, <1>9, <2>1
<1>13. a = gone + (n - p) /\ n - p <= Limit
  BY <1>2, <1>7
<1>. QED  BY <1>1, <1>2, <1>6, <1>7, <1>10, <1>11, <1>12, <1>13

(* An admission is later than those a quota before it.                     *)
LEMMA AdmittingKeeps ==
  ASSUME GateInv, Limit > 0, Allows, bucket' = Append(Fresh, now),
         admitted' = Append(admitted, now), now' = now, caller' = caller
  PROVE  GateInv'
<1>. USE GateAssumption
<1>1. PICK gone \in Nat :
        /\ Fresh \in Seq(Nat) /\ Len(admitted) = gone + Len(Fresh) /\ Len(Fresh) <= Limit
        /\ \A i \in 1 .. Len(Fresh) : Fresh[i] = admitted[gone + i]
        /\ \A i \in 1 .. gone : admitted[i] <= now - Window
        /\ \A i \in gone + 1 .. Len(admitted) : admitted[i] > now - Window
  BY FreshIsTheEnd
<1>2. PICK f \in Nat, a \in Nat : f = Len(Fresh) /\ a = Len(admitted) /\ a = gone + f /\ f < Limit
  BY <1>1 DEF Allows, GateInv
<1>3. /\ now \in Nat /\ admitted \in Seq(Nat) /\ DOMAIN admitted = 1 .. a
      /\ \A i \in 1 .. a : admitted[i] \in Nat /\ admitted[i] <= now
  <2>1. now \in Nat /\ admitted \in Seq(Nat) /\ AdmittedInOrder
    BY DEF GateInv
  <2>2. a = Len(admitted)
    BY <1>2
  <2>3. DOMAIN admitted = 1 .. a /\ \A i \in 1 .. a : admitted[i] \in Nat
    BY <2>1, <2>2
  <2>. QED  BY <2>1, <2>3 DEF AdmittedInOrder
<1>4. /\ admitted' \in Seq(Nat) /\ Len(admitted') = a + 1 /\ DOMAIN admitted' = 1 .. a + 1
      /\ admitted'[a + 1] = now /\ \A i \in 1 .. a : admitted'[i] = admitted[i]
  BY <1>2, <1>3
<1>5. /\ bucket' \in Seq(Nat) /\ Len(bucket') = f + 1 /\ DOMAIN bucket' = 1 .. f + 1
      /\ bucket'[f + 1] = now /\ \A i \in 1 .. f : bucket'[i] = Fresh[i]
  BY <1>1, <1>2, <1>3
<1>6. AdmittedInOrder'
  <2>1. \A i, j \in 1 .. a : i <= j => admitted[i] <= admitted[j]
    BY <1>3 DEF GateInv, AdmittedInOrder
  <2>2. ASSUME NEW i \in 1 .. a + 1, NEW j \in 1 .. a + 1, i <= j
        PROVE  admitted'[i] <= admitted'[j]
    BY <1>2, <1>3, <1>4, <2>1, <2>2
  <2>3. ASSUME NEW i \in 1 .. a + 1 PROVE admitted'[i] <= now
    BY <1>2, <1>3, <1>4
  <2>. QED  BY <1>4, <2>2, <2>3 DEF AdmittedInOrder
<1>7. BucketIsTheEnd'
  <2>1. Len(admitted') - Len(bucket') = gone
    BY <1>2, <1>4, <1>5
  <2>2. ASSUME NEW i \in 1 .. f + 1 PROVE bucket'[i] = admitted'[gone + i]
    <3>1. CASE i = f + 1
      BY <1>2, <1>4, <1>5, <3>1
    <3>2. CASE i \in 1 .. f
      <4>1. gone + i \in 1 .. a
        BY <1>2, <3>2
      <4>. QED  BY <1>1, <1>2, <1>4, <1>5, <3>2, <4>1
    <3>3. i = f + 1 \/ i \in 1 .. f
      OBVIOUS
    <3>. QED  BY <3>1, <3>2, <3>3
  <2>3. ASSUME NEW i \in 1 .. gone PROVE admitted'[i] <= now' - Window
    BY <1>1, <1>2, <1>4
  <2>4. Len(bucket') <= Limit
    BY <1>2, <1>5
  <2>5. \A i \in DOMAIN bucket' : bucket'[i] = admitted'[gone + i]
    BY <1>5, <2>2
  <2>6. \A i \in 1 .. gone : admitted'[i] <= now' - Window
    BY <2>3
  <2>7. gone >= 0
    OBVIOUS
  <2>. QED  BY <2>1, <2>4, <2>5, <2>6, <2>7, Zenon DEF BucketIsTheEnd
<1>8. QuotasApart'
  <2>. SUFFICES ASSUME NEW i \in 1 .. a + 1, NEW j \in 1 .. a + 1, j >= i + Limit
                PROVE  admitted'[j] >= admitted'[i] + Window
    BY <1>4 DEF QuotasApart
  <2>1. CASE j <= a
    <3>1. i \in 1 .. a /\ j \in 1 .. a
      BY <1>2, <2>1
    <3>2. admitted[j] >= admitted[i] + Window
      BY <1>3, <3>1 DEF GateInv, QuotasApart
    <3>. QED  BY <1>4, <3>1, <3>2
  <2>2. CASE j = a + 1
    <3>1. i \in 1 .. gone /\ i \in 1 .. a
      BY <1>2, <2>2
    <3>2. admitted'[i] <= now - Window /\ admitted'[i] \in Nat
      BY <1>1, <1>3, <1>4, <3>1
    <3>. QED  BY <1>3, <1>4, <2>2, <3>2
  <2>3. j <= a \/ j = a + 1
    BY <1>2, SMTT(20)
  <2>. QED  BY <2>1, <2>2, <2>3
<1>. QED  BY <1>3, <1>4, <1>5, <1>6, <1>7, <1>8 DEF GateInv

(* A rejection pops, and finds a full quota in the window.                 *)
LEMMA RejectingKeeps ==
  ASSUME GateInv, Limit > 0, ~Allows, bucket' = Fresh, UNCHANGED <<caller, now, admitted>>
  PROVE  /\ GateInv'
         /\ Cardinality({j \in DOMAIN admitted : admitted[j] > now - Window}) = Limit
<1>. USE GateAssumption
<1>1. PICK gone \in Nat :
        /\ Fresh \in Seq(Nat) /\ Len(admitted) = gone + Len(Fresh) /\ Len(Fresh) <= Limit
        /\ \A i \in 1 .. Len(Fresh) : Fresh[i] = admitted[gone + i]
        /\ \A i \in 1 .. gone : admitted[i] <= now - Window
        /\ \A i \in gone + 1 .. Len(admitted) : admitted[i] > now - Window
  BY FreshIsTheEnd
<1>2. PICK a \in Nat : a = Len(admitted) /\ a = gone + Limit /\ Len(Fresh) = Limit
  <2>1. Len(Fresh) \in Nat /\ admitted \in Seq(Nat)
    BY <1>1 DEF GateInv
  <2>2. Len(Fresh) = Limit
    BY <1>1, <2>1 DEF Allows
  <2>. QED  BY <1>1, <2>1, <2>2
<1>3. /\ now \in Nat /\ DOMAIN admitted = 1 .. a /\ \A i \in 1 .. a : admitted[i] \in Nat
  <2>1. now \in Nat /\ admitted \in Seq(Nat)
    BY DEF GateInv
  <2>2. a = Len(admitted)
    BY <1>2
  <2>. QED  BY <2>1, <2>2
<1>4. BucketIsTheEnd'
  <2>1. Len(admitted') - Len(bucket') = gone
    BY <1>1, <1>2
  <2>2. DOMAIN bucket' = 1 .. Len(Fresh)
    BY <1>1
  <2>. QED  BY <1>1, <1>2, <2>1, <2>2 DEF BucketIsTheEnd
<1>5. {j \in DOMAIN admitted : admitted[j] > now - Window} = gone + 1 .. a
  <2>1. ASSUME NEW j \in 1 .. a, admitted[j] > now - Window PROVE j \in gone + 1 .. a
    BY <1>1, <1>2, <1>3, <2>1
  <2>2. ASSUME NEW j \in gone + 1 .. a PROVE j \in 1 .. a /\ admitted[j] > now - Window
    BY <1>1, <1>2
  <2>. QED  BY <1>3, <2>1, <2>2
<1>6. Cardinality(gone + 1 .. a) = Limit
  <2>1. gone + 1 \in Int /\ a \in Int /\ ~(gone + 1 > a) /\ a - (gone + 1) + 1 = Limit
    BY <1>2
  <2>. QED  BY <2>1, FS_Interval
<1>7. GateInv'
  BY <1>1, <1>4 DEF GateInv, AdmittedInOrder, QuotasApart
<1>. QED  BY <1>5, <1>6, <1>7

(* A request, with or without a limit.                                     *)
LEMMA Answers ==
  ASSUME Request, caller \in Callers
  PROVE  \/ status' # "429" /\ UNCHANGED <<bucket, admitted>>
         \/ Limit = 0 /\ status' # "429" /\ UNCHANGED bucket /\ admitted' = Append(admitted, now)
         \/ /\ Limit # 0 /\ Allows /\ bucket' = Append(Fresh, now)
            /\ admitted' = Append(admitted, now) /\ status' # "429"
         \/ Limit # 0 /\ ~Allows /\ bucket' = Fresh /\ status' = "429" /\ UNCHANGED admitted
<1>1. AfterLimit # "429"
  BY DEF AfterLimit
<1>. HIDE DEF AfterLimit, Allows, Fresh
<1>2. CASE caller.host = "other"
  BY <1>2 DEF Request
<1>3. CASE caller.host = "trusted" /\ Limit = 0
  BY <1>1, <1>3 DEF Request
<1>4. CASE caller.host = "trusted" /\ Limit # 0
  BY <1>1, <1>4 DEF Request
<1>5. caller.host = "other" \/ caller.host = "trusted"
  BY DEF Callers
<1>. QED  BY <1>2, <1>3, <1>4, <1>5

(* Every step keeps the invariant, and rejects only what is over.          *)
LEMMA GateSteps ==
  ASSUME GateInv, [GateNext]_gateVars
  PROVE  /\ GateInv'
         /\ status' = "429" /\ requests' # requests =>
              Cardinality({j \in DOMAIN admitted : admitted[j] > now - Window}) = Limit
<1>. USE GateAssumption
<1>1. CASE Request
  <2>1. UNCHANGED <<caller, now>>
    BY <1>1 DEF Request
  <2>2. CASE status' # "429" /\ UNCHANGED <<bucket, admitted>>
    BY <2>1, <2>2 DEF GateInv, AdmittedInOrder, BucketIsTheEnd, QuotasApart
  <2>3. CASE Limit = 0 /\ status' # "429" /\ UNCHANGED bucket /\ admitted' = Append(admitted, now)
    <3>1. PICK a \in Nat : a = Len(admitted)
      BY DEF GateInv
    <3>2. /\ now \in Nat /\ DOMAIN admitted = 1 .. a
          /\ \A i \in 1 .. a : admitted[i] \in Nat /\ admitted[i] <= now
          /\ \A i, j \in 1 .. a : i <= j => admitted[i] <= admitted[j]
      <4>1. now \in Nat /\ admitted \in Seq(Nat) /\ AdmittedInOrder
        BY DEF GateInv
      <4>2. DOMAIN admitted = 1 .. a /\ \A i \in 1 .. a : admitted[i] \in Nat
        BY <3>1, <4>1
      <4>. QED  BY <4>1, <4>2 DEF AdmittedInOrder
    <3>3. /\ admitted' \in Seq(Nat) /\ DOMAIN admitted' = 1 .. a + 1
          /\ admitted'[a + 1] = now /\ \A i \in 1 .. a : admitted'[i] = admitted[i]
      BY <2>3, <3>1, <3>2 DEF GateInv
    <3>4. AdmittedInOrder'
      <4>1. ASSUME NEW i \in 1 .. a + 1, NEW j \in 1 .. a + 1, i <= j
            PROVE  admitted'[i] <= admitted'[j]
        BY <3>1, <3>2, <3>3, <4>1, SMTT(20)
      <4>2. ASSUME NEW i \in 1 .. a + 1 PROVE admitted'[i] <= now
        BY <3>1, <3>2, <3>3
      <4>. QED  BY <2>1, <3>3, <4>1, <4>2 DEF AdmittedInOrder
    <3>. QED  BY <2>1, <2>3, <3>3, <3>4 DEF GateInv
  <2>4. CASE /\ Limit # 0 /\ Allows /\ bucket' = Append(Fresh, now)
             /\ admitted' = Append(admitted, now) /\ status' # "429"
    BY <2>1, <2>4, AdmittingKeeps
  <2>5. CASE Limit # 0 /\ ~Allows /\ bucket' = Fresh /\ status' = "429" /\ UNCHANGED admitted
    BY <2>1, <2>5, RejectingKeeps
  <2>6. caller \in Callers
    BY DEF GateInv
  <2>. QED  BY <1>1, <2>2, <2>3, <2>4, <2>5, <2>6, Answers
<1>2. CASE Tick
  <2>1. now \in Nat /\ now' = now + 1 /\ UNCHANGED <<caller, bucket, admitted, requests>>
    BY <1>2 DEF Tick, GateInv
  <2>2. \A i \in DOMAIN admitted : admitted[i] \in Nat
    BY DEF GateInv
  <2>3. AdmittedInOrder'
    BY <2>1, <2>2 DEF GateInv, AdmittedInOrder
  <2>4. ASSUME Limit > 0 PROVE BucketIsTheEnd' /\ QuotasApart'
    <3>1. \A i \in 1 .. Len(admitted) - Len(bucket) : admitted[i] <= now' - Window
      BY <2>1, <2>2, <2>4, SMTT(20) DEF GateInv, BucketIsTheEnd
    <3>. QED  BY <2>1, <2>4, <3>1 DEF GateInv, BucketIsTheEnd, QuotasApart
  <2>. QED  BY <2>1, <2>3, <2>4 DEF GateInv
<1>3. CASE OpaChanges \/ UNCHANGED gateVars
  BY <1>3 DEF OpaChanges, gateVars, GateInv, AdmittedInOrder, BucketIsTheEnd, QuotasApart
<1>. QED  BY <1>1, <1>2, <1>3 DEF GateNext

(* Of the admissions of one minute, the last is not Limit after the first. *)
LEMMA MinutesAreShort == GateInv => NoMinuteOverTheLimit
<1>. SUFFICES ASSUME GateInv, Limit > 0, NEW i \in DOMAIN admitted
              PROVE  Cardinality({j \in DOMAIN admitted :
                       admitted[i] <= admitted[j] /\ admitted[j] < admitted[i] + Window}) <= Limit
  BY DEF NoMinuteOverTheLimit
<1>. USE GateAssumption
<1>1. PICK a \in Nat : a = Len(admitted)
  BY DEF GateInv
<1>2. DOMAIN admitted = 1 .. a /\ \A j \in 1 .. a : admitted[j] \in Nat
  BY <1>1 DEF GateInv
<1>3. PICK M : M = {j \in DOMAIN admitted :
                      admitted[i] <= admitted[j] /\ admitted[j] < admitted[i] + Window}
  OBVIOUS
<1>4. M \subseteq Nat /\ i \in M
  BY <1>2, <1>3
<1>5. \E m \in M : \A l \in M : ~(<<l, m>> \in OpToRel(<, Nat))
  BY <1>4, NatLessThanWellFounded, WFMin
<1>6. PICK m \in M : \A l \in M : m <= l
  <2>1. PICK m \in M : \A l \in M : ~(<<l, m>> \in OpToRel(<, Nat))
    BY <1>5
  <2>2. \A l \in M : ~(l < m)
    BY <1>4, <2>1 DEF OpToRel
  <2>. QED  BY <1>4, <2>2
<1>7. M \subseteq m .. m + Limit - 1
  <2>. SUFFICES ASSUME NEW l \in M PROVE l \in m .. m + Limit - 1
    OBVIOUS
  <2>1. /\ m \in 1 .. a /\ l \in 1 .. a /\ m <= l
        /\ admitted[i] <= admitted[m] /\ admitted[l] < admitted[i] + Window
    BY <1>2, <1>3, <1>6
  <2>2. l >= m + Limit => admitted[l] >= admitted[m] + Window
    BY <1>2, <2>1 DEF GateInv, QuotasApart
  <2>3. admitted[i] \in Nat /\ admitted[m] \in Nat /\ admitted[l] \in Nat
    BY <1>2, <2>1
  <2>. QED  BY <2>1, <2>2, <2>3
<1>8. IsFiniteSet(m .. m + Limit - 1) /\ Cardinality(m .. m + Limit - 1) = Limit
  <2>1. m \in Int /\ m + Limit - 1 \in Int /\ ~(m > m + Limit - 1) /\ (m + Limit - 1) - m + 1 = Limit
    BY <1>4
  <2>. QED  BY <2>1, FS_Interval
<1>9. Cardinality(M) <= Cardinality(m .. m + Limit - 1)
  BY <1>7, <1>8, FS_Subset
<1>. QED  BY <1>3, <1>8, <1>9

(* Both tables of roles say the same.                                      *)
LEMMA TablesAgree ==
  ASSUME NEW p \in Principals, NEW action \in ApiActions
  PROVE  p.role \in LocalRoles[action] <=> action \in RegoActions[p.role]
<1>1. ApiActions = {"CREATE_HOLD", "EVALUATE_HOLD", "VIEW_HOLD", "LIST_HOLDS", "SUBMIT_EVIDENCE",
         "VIEW_AUDIT", "VIEW_OPERATOR_DASHBOARD", "CHECK_POLICY", "RECORD_ANALYST_OUTCOME",
         "VIEW_INTEGRATION", "MANAGE_INTEGRATION", "SUBMIT_TELEMETRY", "VIEW_FEATURE_CONTRACT",
         "CREATE_CHECKOUT", "VERIFY_CHECKOUT"}
  BY DEF ApiActions, LocalRoles
<1>2. /\ RegoActions["MERCHANT"] = {"CREATE_HOLD", "VIEW_HOLD", "LIST_HOLDS", "SUBMIT_EVIDENCE",
           "SUBMIT_TELEMETRY", "CREATE_CHECKOUT", "VERIFY_CHECKOUT"}
      /\ RegoActions["EVIDENCE_SERVICE"] = {"SUBMIT_EVIDENCE"}
      /\ RegoActions["RISK_ANALYST"] = {"EVALUATE_HOLD", "VIEW_HOLD", "LIST_HOLDS", "VIEW_AUDIT",
           "VIEW_OPERATOR_DASHBOARD", "RECORD_ANALYST_OUTCOME",
           "VIEW_INTEGRATION", "VIEW_FEATURE_CONTRACT"}
      /\ RegoActions["RISK_SERVICE"] = ApiActions \ {"SUBMIT_EVIDENCE", "VIEW_AUDIT",
           "VIEW_OPERATOR_DASHBOARD", "RECORD_ANALYST_OUTCOME"}
      /\ RegoActions["ADMIN"] = ApiActions
  BY DEF RegoActions
<1>3. p.role \in {"MERCHANT", "RISK_ANALYST", "RISK_SERVICE", "EVIDENCE_SERVICE", "ADMIN"}
  BY DEF Principals, Roles
<1>4. PICK r \in {"MERCHANT", "RISK_ANALYST", "RISK_SERVICE", "EVIDENCE_SERVICE", "ADMIN"} : r = p.role
  BY <1>3
<1>5. /\ LocalRoles["CREATE_HOLD"] = Customers /\ LocalRoles["EVALUATE_HOLD"] = Operators
      /\ LocalRoles["VIEW_HOLD"] = Operators \cup {"MERCHANT"}
      /\ LocalRoles["LIST_HOLDS"] = Operators \cup {"MERCHANT"}
      /\ LocalRoles["SUBMIT_EVIDENCE"] = {"MERCHANT", "EVIDENCE_SERVICE", "ADMIN"}
      /\ LocalRoles["VIEW_AUDIT"] = Analysts /\ LocalRoles["VIEW_OPERATOR_DASHBOARD"] = Analysts
      /\ LocalRoles["CHECK_POLICY"] = Services /\ LocalRoles["RECORD_ANALYST_OUTCOME"] = Analysts
      /\ LocalRoles["VIEW_INTEGRATION"] = Operators /\ LocalRoles["MANAGE_INTEGRATION"] = Services
      /\ LocalRoles["SUBMIT_TELEMETRY"] = Customers /\ LocalRoles["VIEW_FEATURE_CONTRACT"] = Operators
      /\ LocalRoles["CREATE_CHECKOUT"] = Customers /\ LocalRoles["VERIFY_CHECKOUT"] = Customers
  BY DEF LocalRoles
<1>. USE DEF Operators, Services, Analysts, Customers
<1>6. CASE r = "MERCHANT"
  BY <1>1, <1>2, <1>4, <1>5, <1>6
<1>7. CASE r = "EVIDENCE_SERVICE"
  BY <1>1, <1>2, <1>4, <1>5, <1>7
<1>8. CASE r = "RISK_ANALYST"
  BY <1>1, <1>2, <1>4, <1>5, <1>8
<1>9. CASE r = "RISK_SERVICE"
  BY <1>1, <1>2, <1>4, <1>5, <1>9
<1>10. CASE r = "ADMIN"
  BY <1>1, <1>2, <1>4, <1>5, <1>10
<1>. QED  BY <1>4, <1>6, <1>7, <1>8, <1>9, <1>10

(* A caller gets one answer, whichever authorizer is configured.           *)
LEMMA OneAnswer == GateInv => AuthorizersAgree
<1>. SUFFICES ASSUME GateInv, caller.principal # NoPrincipal
              PROVE  LocalAllows(caller.principal, caller.action, caller.merchant)
                       = RegoAllows(caller.principal, caller.action, caller.merchant)
  BY DEF AuthorizersAgree
<1>1. PICK p \in Principals, action \in ApiActions : p = caller.principal /\ action = caller.action
  BY DEF GateInv, Callers
<1>2. p.role \in LocalRoles[action] <=> action \in RegoActions[p.role]
  BY TablesAgree
<1>. QED  BY <1>1, <1>2, Zenon DEF LocalAllows, RegoAllows

(* The quota holds in every minute, wherever it begins; a rejected client  *)
(* has used its whole quota; and both authorizers give one answer.         *)
THEOREM GateIsKept == GateSpec => GateHolds
<1>1. GateInit => GateInv
  <2>. SUFFICES ASSUME GateInit PROVE GateInv
    OBVIOUS
  <2>1. /\ now = Window /\ bucket = <<>> /\ admitted = <<>> /\ caller \in Callers
        /\ <<>> \in Seq(Nat) /\ Len(<<>>) = 0 /\ DOMAIN <<>> = {}
    BY DEF GateInit
  <2>. QED  BY <2>1, GateAssumption DEF GateInv, AdmittedInOrder, BucketIsTheEnd, QuotasApart
<1>2. GateInv /\ [GateNext]_gateVars => GateInv'
  BY GateSteps
<1>3. GateInv /\ [GateNext]_gateVars =>
        [status' = "429" /\ requests' # requests =>
           Cardinality({j \in DOMAIN admitted : admitted[j] > now - Window}) = Limit]_gateVars
  BY GateSteps
<1>4. GateInv => NoMinuteOverTheLimit /\ AuthorizersAgree
  BY MinutesAreShort, OneAnswer
<1>. QED  BY <1>1, <1>2, <1>3, <1>4, PTL DEF GateSpec, GateHolds, RejectionsAreDue
=============================================================================
