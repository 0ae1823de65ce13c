--------------------- MODULE EventReconstructionProofs ---------------------
(***************************************************************************)
(* Safety of EventReconstruction for any number of events, entities,       *)
(* tasks, sweeps, crashes and stalls.                                      *)
(*                                                                         *)
(* The inductive invariant IInv is the types with                          *)
(*   - TasksOK: a task works on an event that is stored, has fetched a     *)
(*     prefix of the event's entities, none older than the event's receipt,*)
(*     and marks an outcome that is not PROCESSED;                         *)
(*   - EventsOK: what a stored observation and a status say of an event;   *)
(*   - Exclusive: while no task stalls, the event a task holds is          *)
(*     PROCESSING, unaged, unobserved and nobody else's;                   *)
(*   - Budget: requests made and about to be made are within the claims    *)
(*     and within max_attempts.                                            *)
(* The second part is about the point-in-time snapshot that reads what the *)
(* tasks write: TimelineInv, stated there, is IInv with what a snapshot    *)
(* has seen and what may still be observed after it passed.                *)
(***************************************************************************)
EXTENDS PointInTimeTimeline, FiniteSetTheorems, SequenceTheorems, TLAPS

WorkingPcs == {"claim", "mark"} \cup Attempting

TaskOK(r) ==
  /\ r.pc \in WorkingPcs => r.event \in Events /\ events[r.event].status # "ABSENT"
  /\ \A e \in r.todo : events[e].status # "ABSENT"
  /\ r.pc = "mark" => r.outcome # None
  /\ r.pc = "claim" => r.fetched = <<>>
  /\ r.pc = "fetch" => Len(r.fetched) < Len(Reads[r.event])
  /\ r.pc \in {"load", "lock", "commit"} =>
       Len(r.fetched) = Len(Reads[r.event]) /\ r.fetched # <<>>
  /\ r.pc \in Attempting =>
       \A k \in 1..Len(r.fetched) : known[r.event][Reads[r.event][k]] <= r.fetched[k]

TasksOK == \A w \in Workers : TaskOK(workers[w])

EventOK(e) ==
  /\ events[e].status = "PROCESSED" => observed[e] # None
  /\ observed[e] # None =>
       /\ events[e].status # "ABSENT"
       /\ \A k \in 1..Len(Reads[e]) : known[e][Reads[e][k]] <= observed[e].version[k]
  /\ \A x \in Entities : known[e][x] <= provider[x].version

EventsOK == \A e \in Events : EventOK(e)

HeldOK(e) ==
  events[e].status = "PROCESSING" /\ ~events[e].aged /\ observed[e] = None

Exclusive ==
  stalls = 0 =>
    /\ \A e \in Events, w \in Workers : Holds(w, e) => HeldOK(e)
    /\ \A e \in Events, v, w \in Workers : Holds(v, e) /\ Holds(w, e) => v = w
    /\ \A e \in Events : observed[e] # None => events[e].status = "PROCESSED"

Asking(e) ==
  {w \in Workers : workers[w].pc = "fetch" /\ workers[w].event = e /\ workers[w].fetched = <<>>}

BudgetOK(e) ==
  /\ IsFiniteSet(Asking(e))
  /\ asked[e] + Cardinality(Asking(e)) <= events[e].attempts
  /\ asked[e] + Cardinality(Asking(e)) <= MaxAttempts
  /\ events[e].status = "ABSENT" => events[e].attempts = 0

Budget == \A e \in Events : BudgetOK(e)

IInv == TypeOK /\ TasksOK /\ EventsOK /\ Exclusive /\ RowsAreObserved /\ Budget
-----------------------------------------------------------------------------
LEMMA IdleGood == Idle \in WorkerRecords
<1>1. <<>> \in Seq(Nat)
  OBVIOUS
<1>. QED  BY <1>1 DEF Idle, WorkerRecords, Attempting

(* What a task turns to after its event: another one of its list, or rest. *)
LEMMA NextOfGood ==
  ASSUME NEW w \in Workers, NEW todo \in SUBSET Events, NEW r \in NextOf(w, todo)
  PROVE  /\ r \in WorkerRecords /\ r.pc \in {"idle", "claim"} /\ r.todo \subseteq todo
         /\ r.pc = "claim" => r.event \in todo
         /\ r.fetched = <<>>
<1>1. CASE todo = {}
  <2>1. r = Idle
    BY <1>1 DEF NextOf
  <2>. QED  BY <2>1, IdleGood DEF Idle
<1>2. CASE todo # {}
  <2>1. PICK e \in todo : r = StartOn(w, e, todo \ {e})
    BY <1>2 DEF NextOf, Earliest
  <2>. QED  BY <2>1, IdleGood DEF StartOn, Idle, WorkerRecords, Attempting
<1>. QED  BY <1>1, <1>2

LEMMA StartOnGood ==
  ASSUME NEW w \in Workers, NEW e \in Events, NEW todo \in SUBSET Events
  PROVE  /\ StartOn(w, e, todo) \in WorkerRecords
         /\ \A o \in {"RETRY", "FAILED", "SKIPPED"} :
              [StartOn(w, e, todo) EXCEPT !.pc = "mark", !.outcome = o] \in WorkerRecords
BY IdleGood DEF StartOn, WorkerRecords, Attempting

LEMMA TypeInit == Init => TypeOK
<1>. SUFFICES ASSUME Init PROVE TypeOK
  OBVIOUS
<1>1. events \in [Events -> EventRecords]
  BY DEF Init, Absent, EventRecords, Statuses
<1>2. workers \in [Workers -> WorkerRecords]
  BY IdleGood DEF Init
<1>. QED  BY <1>1, <1>2 DEF Init, TypeOK

(* What a failed attempt leaves the task with.                             *)
LEMMA FailsGood ==
  ASSUME TypeOK, NEW w \in Workers, workers[w].event \in Events, NEW retryable \in BOOLEAN,
         Fails(w, retryable)
  PROVE  \E r \in WorkerRecords :
           /\ workers' = [workers EXCEPT ![w] = r]
           /\ r.pc = "mark" /\ r.event = workers[w].event /\ r.todo = workers[w].todo
           /\ r.outcome \in {"RETRY", "FAILED"} /\ r.fetched = <<>>
<1>. DEFINE old == workers[w]
            r == [StartOn(w, old.event, old.todo) EXCEPT !.pc = "mark",
                                                        !.outcome = Outcome(w, retryable)]
<1>1. old.todo \in SUBSET Events
  BY DEF TypeOK, WorkerRecords
<1>2. Outcome(w, retryable) \in {"RETRY", "FAILED"}
  BY DEF Outcome
<1>3. r \in WorkerRecords
  BY <1>1, <1>2, StartOnGood
<1>4. workers' = [workers EXCEPT ![w] = r]
  BY DEF Fails
<1>5. r.pc = "mark" /\ r.event = old.event /\ r.todo = old.todo /\ r.fetched = <<>>
  BY DEF StartOn, Idle
<1>6. r.outcome = Outcome(w, retryable)
  BY DEF StartOn, Idle
<1>. QED  BY <1>2, <1>3, <1>4, <1>5, <1>6

(* The record a step leaves a task with.                                   *)
Becomes(w, r) == r \in WorkerRecords /\ workers' = [workers EXCEPT ![w] = r]

(* A claim that succeeds, and one that comes too late.                     *)
Took(w, e) ==
  /\ e \in Events /\ events[e].status \in Pending
  /\ events' = [events EXCEPT ![e].status = "PROCESSING", ![e].attempts = events[e].attempts + 1,
                              ![e].aged = FALSE]
  /\ \E r \in WorkerRecords :
       /\ workers' = [workers EXCEPT ![w] = r]
       /\ r.event = e /\ r.todo = workers[w].todo /\ r.fetched = <<>>
       /\ \/ r.pc = "fetch" /\ events[e].attempts + 1 <= MaxAttempts /\ Reads[e] # <<>>
          \/ /\ r.pc = "mark" /\ r.outcome \in {"FAILED", "SKIPPED"}
             /\ r.outcome = "SKIPPED" => Reads[e] = <<>>

MovedOn(w) == events' = events /\ \E r \in NextOf(w, workers[w].todo) : Becomes(w, r)

LEMMA ClaimEffect ==
  ASSUME TypeOK, TasksOK, NEW w \in Workers, Claim(w)
  PROVE  workers[w].pc = "claim" /\ (Took(w, workers[w].event) \/ MovedOn(w))
<1>. DEFINE old == workers[w]
            e == old.event
            n == events[e].attempts + 1
            o == AfterClaim(e, n)
            r == [old EXCEPT !.attempt = n, !.outcome = o,
                             !.pc = IF o = None THEN "fetch" ELSE "mark"]
<1>1. /\ old \in WorkerRecords /\ old.pc = "claim" /\ e \in Events /\ old.fetched = <<>>
      /\ old.todo \in SUBSET Events
  BY DEF TypeOK, TasksOK, TaskOK, WorkingPcs, Claim, WorkerRecords
<1>2. CASE events[e].status \in Pending
  <2>1. /\ events' = [events EXCEPT ![e].status = "PROCESSING", ![e].attempts = n,
                                    ![e].aged = FALSE]
        /\ workers' = [workers EXCEPT ![w].attempt = n, ![w].outcome = o,
                             ![w].pc = IF o = None THEN "fetch" ELSE "mark"]
    BY <1>2 DEF Claim, Claimable
  <2>2. workers' = [workers EXCEPT ![w] = r]
    BY <2>1
  <2>3. n \in Nat
    BY <1>1 DEF TypeOK, EventRecords
  <2>4. \/ o = None /\ n <= MaxAttempts /\ Reads[e] # <<>>
        \/ o \in {"FAILED", "SKIPPED"} /\ o # None /\ (o = "SKIPPED" => Reads[e] = <<>>)
    BY <2>3, ReadsAssumption, NoneAssumption DEF AfterClaim
  <2>5. r \in WorkerRecords
    BY <1>1, <2>3, <2>4 DEF WorkerRecords, Attempting
  <2>6. /\ r.event = e /\ r.todo = workers[w].todo /\ r.fetched = <<>>
        /\ r.pc = IF o = None THEN "fetch" ELSE "mark"
        /\ r.outcome = o
    BY <1>1 DEF WorkerRecords
  <2>. HIDE DEF r, o
  <2>. QED  BY <1>1, <1>2, <2>1, <2>2, <2>4, <2>5, <2>6 DEF Took
<1>3. CASE events[e].status \notin Pending
  <2>1. /\ events' = events
        /\ \E next \in NextOf(w, workers[w].todo) : workers' = [workers EXCEPT ![w] = next]
    BY <1>3 DEF Claim, Claimable
  <2>2. PICK next \in NextOf(w, workers[w].todo) : workers' = [workers EXCEPT ![w] = next]
    BY <2>1
  <2>3. next \in WorkerRecords
    BY <1>1, NextOfGood
  <2>. QED  BY <1>1, <2>1, <2>2, <2>3 DEF Becomes, MovedOn
<1>. QED  BY <1>2, <1>3

(* The answer is appended.                                                 *)
LEMMA FetchEffect ==
  ASSUME TypeOK, TasksOK, NEW w \in Workers, Fetch(w)
  PROVE  LET old == workers[w]
             k == Len(old.fetched) + 1 IN
           /\ old.pc = "fetch" /\ old.event \in Events /\ k \in 1..Len(Reads[old.event])
           /\ Reads[old.event][k] \in Entities
           /\ asked' = [asked EXCEPT ![old.event] = IF k = 1 THEN @ + 1 ELSE @]
           /\ \E r \in WorkerRecords :
                /\ workers' = [workers EXCEPT ![w] = r]
                /\ r.event = old.event /\ r.todo = old.todo
                /\ r.fetched = Append(old.fetched, provider[Reads[old.event][k]].version)
                /\ r.pc = IF k = Len(Reads[old.event]) THEN "load" ELSE "fetch"
                /\ r.stamp = now
<1>. DEFINE old == workers[w]
            e == old.event
            k == Len(old.fetched) + 1
            f == Append(old.fetched, provider[Reads[e][k]].version)
            pc == IF k = Len(Reads[e]) THEN "load" ELSE "fetch"
            r == [old EXCEPT !.fetched = f, !.stamp = now, !.pc = pc]
<1>1. /\ old \in WorkerRecords /\ old.pc = "fetch" /\ e \in Events
      /\ Len(old.fetched) < Len(Reads[e])
  BY DEF TypeOK, TasksOK, TaskOK, WorkingPcs, Attempting, Fetch
<1>2. old.fetched \in Seq(Nat) /\ Reads[e] \in Seq(Entities)
  BY <1>1, ReadsAssumption DEF WorkerRecords
<1>3. k \in 1..Len(Reads[e]) /\ Reads[e][k] \in Entities
  BY <1>1, <1>2
<1>4. f \in Seq(Nat)
  BY <1>2, <1>3, SMTT(20) DEF TypeOK
<1>5. now \in Nat
  BY DEF TypeOK
<1>6. r \in WorkerRecords
  BY <1>1, <1>4, <1>5 DEF WorkerRecords, Attempting
<1>7. workers' = [workers EXCEPT ![w] = r]
  BY DEF Fetch
<1>8. r.event = e /\ r.todo = old.todo /\ r.fetched = f /\ r.pc = pc /\ r.stamp = now
  BY <1>1 DEF WorkerRecords
<1>9. asked' = [asked EXCEPT ![e] = IF k = 1 THEN @ + 1 ELSE @]
  BY DEF Fetch
<1>. HIDE DEF r
<1>. QED  BY <1>1, <1>3, <1>6, <1>7, <1>8, <1>9

(* The transaction begins, or goes on under its lock, with what was fetched.*)
LEMMA LoadEffect ==
  ASSUME TypeOK, TasksOK, NEW w \in Workers, Load(w)
  PROVE  \E r \in WorkerRecords :
           /\ workers' = [workers EXCEPT ![w] = r] /\ workers[w].pc = "load" /\ r.pc = "lock"
           /\ r.event = workers[w].event /\ r.todo = workers[w].todo
           /\ r.fetched = workers[w].fetched /\ r.stamp = workers[w].stamp
<1>. DEFINE old == workers[w]
            e == old.event
            r == [old EXCEPT !.pc = "lock", !.loaded = rows[Locked(e)]]
<1>1. /\ old \in WorkerRecords /\ old.pc = "load" /\ e \in Events
      /\ Len(old.fetched) = Len(Reads[e]) /\ old.fetched # <<>>
  BY DEF TypeOK, TasksOK, TaskOK, WorkingPcs, Attempting, Load
<1>2. old.fetched \in Seq(Nat) /\ Reads[e] \in Seq(Entities)
  BY <1>1, ReadsAssumption DEF WorkerRecords
<1>3. Locked(e) \in Entities
  BY <1>1, <1>2 DEF Locked
<1>4. r \in WorkerRecords
  BY <1>1, <1>3 DEF WorkerRecords, Attempting, TypeOK
<1>5. workers' = [workers EXCEPT ![w] = r]
  BY DEF Load
<1>6. /\ r.event = e /\ r.todo = old.todo /\ r.fetched = old.fetched /\ r.pc = "lock"
      /\ r.stamp = old.stamp
  BY <1>1 DEF WorkerRecords
<1>. HIDE DEF r
<1>. QED  BY <1>1, <1>4, <1>5, <1>6

LEMMA LockEffect ==
  ASSUME TypeOK, TasksOK, NEW w \in Workers, Lock(w)
  PROVE  \/ Fails(w, TRUE)
         \/ \E r \in WorkerRecords :
              /\ workers' = [workers EXCEPT ![w] = r] /\ workers[w].pc = "lock" /\ r.pc = "commit"
              /\ r.event = workers[w].event /\ r.todo = workers[w].todo
              /\ r.fetched = workers[w].fetched /\ r.stamp = workers[w].stamp
<1>. DEFINE old == workers[w]
            r == [old EXCEPT !.pc = "commit", !.accountSeen = account]
<1>1. old \in WorkerRecords /\ old.pc = "lock"
  BY DEF TypeOK, Lock
<1>2. CASE ~Fails(w, TRUE)
  <2>1. workers' = [workers EXCEPT ![w] = r]
    BY <1>2 DEF Lock
  <2>2. r \in WorkerRecords
    BY <1>1 DEF WorkerRecords, Attempting, TypeOK
  <2>3. /\ r.event = old.event /\ r.todo = old.todo /\ r.fetched = old.fetched
        /\ r.pc = "commit" /\ r.stamp = old.stamp
    BY <1>1 DEF WorkerRecords
  <2>. HIDE DEF r
  <2>. QED  BY <1>1, <2>1, <2>2, <2>3
<1>. QED  BY <1>2

(* A commit that loses the race for the account row, and one that writes.  *)
Wrote(w) ==
  LET e == workers[w].event IN
    /\ rows' = [x \in Entities |-> IF x \in Image(Reads[e]) THEN Written(w, x) ELSE rows[x]]
    /\ observed' = [observed EXCEPT ![e] = ObservationOf(w)]
    /\ events' = [events EXCEPT ![e] = Completed(e)]
    /\ account' = TRUE
    /\ \E r \in NextOf(w, workers[w].todo) : Becomes(w, r)

LEMMA CommitEffect ==
  ASSUME TypeOK, TasksOK, NEW w \in Workers, Commit(w)
  PROVE  \/ Fails(w, TRUE) /\ UNCHANGED <<events, rows, observed, account>>
         \/ Wrote(w)
<1>1. workers[w].todo \in SUBSET Events
  BY DEF TypeOK, WorkerRecords
<1>. QED  BY <1>1, NextOfGood DEF Commit, Wrote, Becomes

(* The task marks its outcome and goes on, with the same event or another. *)
LEMMA MarkEffect ==
  ASSUME TypeOK, TasksOK, NEW w \in Workers, Mark(w)
  PROVE  LET e == workers[w].event IN
           /\ e \in Events /\ workers[w].pc = "mark"
           /\ workers[w].outcome \in {"RETRY", "FAILED", "SKIPPED"}
           /\ events' = [events EXCEPT ![e].status = workers[w].outcome, ![e].aged = FALSE]
           /\ \E r \in WorkerRecords :
                /\ workers' = [workers EXCEPT ![w] = r]
                /\ r.pc \in {"idle", "claim"} /\ r.todo \subseteq workers[w].todo
                /\ r.pc = "claim" => r.event \in workers[w].todo \cup {e}
                /\ r.fetched = <<>>
<1>. DEFINE old == workers[w]
            e == old.event
<1>1. /\ old \in WorkerRecords /\ old.pc = "mark" /\ e \in Events
      /\ old.outcome \in {"RETRY", "FAILED", "SKIPPED"} /\ old.todo \in SUBSET Events
  BY DEF TypeOK, TasksOK, TaskOK, WorkingPcs, Mark, WorkerRecords
<1>2. PICK r \in AfterMark(w) : workers' = [workers EXCEPT ![w] = r]
  BY DEF Mark
<1>3. CASE old.outcome = "RETRY"
  <2>1. r = StartOn(w, e, old.todo)
    BY <1>2, <1>3 DEF AfterMark
  <2>2. /\ r.pc = "claim" /\ r.event = e /\ r.todo = old.todo /\ r.fetched = <<>>
        /\ r \in WorkerRecords
    BY <1>1, <2>1, StartOnGood DEF StartOn, Idle
  <2>. QED  BY <1>1, <1>2, <2>2 DEF Mark
<1>4. CASE old.outcome # "RETRY"
  <2>1. r \in NextOf(w, old.todo)
    BY <1>2, <1>4 DEF AfterMark
  <2>2. /\ r \in WorkerRecords /\ r.pc \in {"idle", "claim"} /\ r.todo \subseteq old.todo
        /\ r.pc = "claim" => r.event \in old.todo
        /\ r.fetched = <<>>
    BY <1>1, <2>1, NextOfGood
  <2>. QED  BY <1>1, <1>2, <2>2 DEF Mark
<1>. QED  BY <1>3, <1>4

(* What the worker's step does to the rows: a written version is one that  *)
(* was fetched or the one that was there.                                  *)
LEMMA WrittenGood ==
  ASSUME TypeOK, TasksOK, NEW w \in Workers, workers[w].pc = "commit",
         NEW x \in Image(Reads[workers[w].event])
  PROVE  /\ \/ Written(w, x) = rows[x]
            \/ \E k \in 1..Len(Reads[workers[w].event]) :
                 /\ Reads[workers[w].event][k] = x
                 /\ Written(w, x) = workers[w].fetched[k]
         /\ x \in Entities /\ Written(w, x) \in Nat
<1>. DEFINE e == workers[w].event
            k == CHOOSE i \in DOMAIN Reads[e] : Reads[e][i] = x
<1>1. /\ e \in Events /\ workers[w].fetched \in Seq(Nat)
      /\ Len(workers[w].fetched) = Len(Reads[e]) /\ Reads[e] \in Seq(Entities)
  BY ReadsAssumption DEF TypeOK, TasksOK, TaskOK, WorkingPcs, Attempting, WorkerRecords
<1>2. k \in 1..Len(Reads[e]) /\ Reads[e][k] = x
  BY <1>1 DEF Image
<1>3. Written(w, x) = IF x = Locked(e) /\ workers[w].fetched[k] = workers[w].loaded
                      THEN rows[x] ELSE workers[w].fetched[k]
  BY DEF Written
<1>. HIDE DEF k
<1>4. x \in Entities /\ workers[w].fetched[k] \in Nat
  BY <1>1, <1>2
<1>. QED  BY <1>2, <1>3, <1>4 DEF TypeOK

LEMMA ObservationGood ==
  ASSUME TypeOK, TasksOK, NEW w \in Workers, workers[w].pc = "commit"
  PROVE  LET o == ObservationOf(w)
             e == workers[w].event IN
           /\ o \in Observations /\ o # None /\ Len(o.version) = Len(Reads[e])
           /\ observed[e] # None => o = observed[e]
           /\ observed[e] = None => o.version = workers[w].fetched
<1>. DEFINE e == workers[w].event
<1>1. /\ e \in Events /\ workers[w].fetched \in Seq(Nat) /\ workers[w].stamp \in Nat
      /\ Len(workers[w].fetched) = Len(Reads[e])
  BY DEF TypeOK, TasksOK, TaskOK, WorkingPcs, Attempting, WorkerRecords
<1>2. Observation(w) \in Observations /\ Observation(w).version = workers[w].fetched
  BY <1>1 DEF Observation, Observations
<1>3. None \notin Observations
  BY NoneAssumption DEF Observations
<1>4. observed[e] # None => observed[e] \in Observations /\ Len(observed[e].version) = Len(Reads[e])
  BY <1>1 DEF TypeOK
<1>. QED  BY <1>1, <1>2, <1>3, <1>4 DEF ObservationOf

LEMMA AskedGood ==
  ASSUME TypeOK, NEW e \in Events, NEW c \in BOOLEAN,
         asked' = [asked EXCEPT ![e] = IF c THEN @ + 1 ELSE @]
  PROVE  asked' \in [Events -> Nat]
<1>. DEFINE n == IF c THEN asked[e] + 1 ELSE asked[e]
<1>1. asked \in [Events -> Nat] /\ n \in Nat
  BY DEF TypeOK
<1>2. asked' = [asked EXCEPT ![e] = n]
  OBVIOUS
<1>. HIDE DEF n
<1>. QED  BY <1>1, <1>2

LEMMA ClaimedGood ==
  ASSUME TypeOK, NEW e \in Events
  PROVE  [events EXCEPT ![e].status = "PROCESSING", ![e].attempts = events[e].attempts + 1,
                        ![e].aged = FALSE] \in [Events -> EventRecords]
<1>. DEFINE n == events[e].attempts + 1
            r == [events[e] EXCEPT !.status = "PROCESSING", !.attempts = n, !.aged = FALSE]
<1>1. events \in [Events -> EventRecords] /\ events[e] \in EventRecords
  BY DEF TypeOK
<1>2. n \in Nat
  BY <1>1 DEF EventRecords
<1>3. r \in EventRecords
  BY <1>1, <1>2 DEF EventRecords, Statuses
<1>4. [events EXCEPT ![e].status = "PROCESSING", ![e].attempts = n, ![e].aged = FALSE]
        = [events EXCEPT ![e] = r]
  OBVIOUS
<1>. HIDE DEF r
<1>. QED  BY <1>1, <1>3, <1>4

LEMMA TypeStep ==
  ASSUME TypeOK, TasksOK, [Next]_vars
  PROVE  TypeOK'
<1>1. ASSUME NEW w \in Workers, WorkerStep(w) PROVE TypeOK'
  <2>1. CASE Claim(w)
    <3>1. events' \in [Events -> EventRecords]
      <4>1. CASE Took(w, workers[w].event)
        BY <4>1, ClaimedGood DEF Took
      <4>. QED  BY <2>1, <4>1, ClaimEffect DEF MovedOn, TypeOK
    <3>2. workers' \in [Workers -> WorkerRecords]
      BY <2>1, ClaimEffect DEF TypeOK, Becomes, Took, MovedOn
    <3>. QED  BY <2>1, <3>1, <3>2 DEF TypeOK, Claim, counters
  <2>2. CASE Fetch(w)
    <3>1. workers' \in [Workers -> WorkerRecords]
      BY <2>2, FetchEffect DEF TypeOK
    <3>2. asked' \in [Events -> Nat]
      BY <2>2, FetchEffect, AskedGood
    <3>. QED  BY <2>2, <3>1, <3>2 DEF TypeOK, Fetch, counters
  <2>3. CASE Load(w)
    <3>1. workers' \in [Workers -> WorkerRecords]
      BY <2>3, LoadEffect DEF TypeOK
    <3>. QED  BY <2>3, <3>1 DEF TypeOK, Load, counters
  <2>4. CASE Lock(w)
    <3>1. workers[w].event \in Events
      BY <2>4 DEF Lock, TasksOK, TaskOK, WorkingPcs, Attempting
    <3>2. workers' \in [Workers -> WorkerRecords]
      BY <2>4, <3>1, LockEffect, FailsGood DEF TypeOK
    <3>. QED  BY <2>4, <3>2 DEF TypeOK, Lock, counters
  <2>5. CASE Commit(w)
    <3>1. workers[w].event \in Events /\ workers[w].pc = "commit"
      BY <2>5 DEF Commit, TasksOK, TaskOK, WorkingPcs, Attempting
    <3>2. CASE Fails(w, TRUE) /\ UNCHANGED <<events, rows, observed, account>>
      <4>1. workers' \in [Workers -> WorkerRecords]
        BY <3>1, <3>2, FailsGood DEF TypeOK
      <4>. QED  BY <2>5, <3>2, <4>1 DEF TypeOK, Commit, counters
    <3>3. CASE Wrote(w)
      <4>1. workers' \in [Workers -> WorkerRecords]
        BY <3>3 DEF Wrote, Becomes, TypeOK
      <4>2. events' \in [Events -> EventRecords]
        BY <3>1, <3>3, ZenonT(60) DEF Wrote, Completed, TypeOK, EventRecords, Statuses
      <4>3. rows' \in [Entities -> Nat]
        BY <3>1, <3>3, WrittenGood DEF Wrote, TypeOK
      <4>4. /\ observed' \in [Events -> Observations \cup {None}]
            /\ \A e \in Events : observed'[e] # None => Len(observed'[e].version) = Len(Reads[e])
        BY <3>1, <3>3, ObservationGood DEF Wrote, TypeOK
      <4>. QED  BY <2>5, <3>3, <4>1, <4>2, <4>3, <4>4 DEF TypeOK, Commit, Wrote, counters
    <3>. QED  BY <2>5, <3>2, <3>3, CommitEffect
  <2>6. CASE AttemptFails(w)
    <3>1. workers[w].event \in Events
      BY <2>6 DEF AttemptFails, TasksOK, TaskOK, WorkingPcs
    <3>2. workers' \in [Workers -> WorkerRecords]
      BY <2>6, <3>1, FailsGood DEF TypeOK, AttemptFails
    <3>3. asked' \in [Events -> Nat]
      <4>. DEFINE c == workers[w].pc = "fetch" /\ workers[w].fetched = <<>>
      <4>1. asked' = [asked EXCEPT ![workers[w].event] = IF c THEN @ + 1 ELSE @]
        BY <2>6 DEF AttemptFails
      <4>2. c \in BOOLEAN
        OBVIOUS
      <4>. HIDE DEF c
      <4>. QED  BY <3>1, <4>1, <4>2, AskedGood
    <3>. QED  BY <2>6, <3>2, <3>3 DEF TypeOK, AttemptFails, counters
  <2>7. CASE Mark(w)
    <3>1. events' \in [Events -> EventRecords]
      <4>1. /\ events' = [events EXCEPT ![workers[w].event].status = workers[w].outcome,
                                        ![workers[w].event].aged = FALSE]
            /\ workers[w].event \in Events /\ workers[w].outcome \in Statuses
        BY <2>7, MarkEffect DEF Statuses
      <4>. QED  BY <4>1, ZenonT(60) DEF TypeOK, EventRecords
    <3>2. workers' \in [Workers -> WorkerRecords]
      BY <2>7, MarkEffect DEF TypeOK
    <3>. QED  BY <2>7, <3>1, <3>2 DEF TypeOK, Mark, counters
  <2>8. CASE ListPending(w)
    <3>1. workers' \in [Workers -> WorkerRecords]
      <4>1. PICK S \in SUBSET Events :
              \E r \in NextOf(w, S) : workers' = [workers EXCEPT ![w] = r]
        BY <2>8 DEF ListPending
      <4>2. PICK r \in NextOf(w, S) : workers' = [workers EXCEPT ![w] = r]
        BY <4>1
      <4>3. r \in WorkerRecords
        BY NextOfGood
      <4>. QED  BY <4>2, <4>3 DEF TypeOK
    <3>. QED  BY <2>8, <3>1 DEF TypeOK, ListPending, counters
  <2>. QED  BY <1>1, <2>1, <2>2, <2>3, <2>4, <2>5, <2>6, <2>7, <2>8 DEF WorkerStep
<1>2. ASSUME NEW w \in Workers, StartSweep(w) PROVE TypeOK'
  <2>1. events' \in [Events -> EventRecords]
    BY <1>2, ZenonT(60) DEF StartSweep, TypeOK, EventRecords, Statuses
  <2>2. workers' \in [Workers -> WorkerRecords]
    <3>1. workers' = [workers EXCEPT ![w].pc = "list"]
      BY <1>2 DEF StartSweep
    <3>. QED  BY <3>1, ZenonT(60) DEF TypeOK, WorkerRecords
  <2>3. UNCHANGED <<rows, observed, account, provider, now, crashes, stalls, known, asked>>
    BY <1>2 DEF StartSweep
  <2>4. sweeps' \in Nat
    <3>1. sweeps' = sweeps + 1
      BY <1>2 DEF StartSweep
    <3>. QED  BY <3>1 DEF TypeOK
  <2>. QED  BY <2>1, <2>2, <2>3, <2>4 DEF TypeOK
<1>3. ASSUME NEW w \in Workers, Crash(w) PROVE TypeOK'
  BY <1>3, IdleGood DEF Crash, TypeOK
<1>4. ASSUME NEW w \in Workers, NEW e \in Events, Deliver(w, e) PROVE TypeOK'
  <2>1. workers' \in [Workers -> WorkerRecords]
    BY <1>4, StartOnGood DEF Deliver, TypeOK
  <2>2. \/ UNCHANGED <<events, known>>
        \/ \E n \in Nat : /\ events' = [events EXCEPT ![e] = Stored(n)]
                          /\ known' = [known EXCEPT ![e] = [x \in Entities |-> provider[x].version]]
    BY <1>4 DEF Deliver, TypeOK
  <2>3. events' \in [Events -> EventRecords]
    <3>1. CASE UNCHANGED <<events, known>>
      BY <3>1 DEF TypeOK
    <3>2. ASSUME NEW n \in Nat, events' = [events EXCEPT ![e] = Stored(n)]
          PROVE  events' \in [Events -> EventRecords]
      BY <3>2 DEF Stored, TypeOK, EventRecords, Statuses
    <3>. QED  BY <2>2, <3>1, <3>2
  <2>4. known' \in [Events -> [Entities -> Nat]]
    <3>1. [x \in Entities |-> provider[x].version] \in [Entities -> Nat]
      BY DEF TypeOK
    <3>. QED  BY <2>2, <3>1 DEF TypeOK
  <2>. QED  BY <1>4, <2>1, <2>3, <2>4 DEF Deliver, TypeOK, counters
<1>5. ASSUME NEW e \in Events, Age(e) PROVE TypeOK'
  <2>1. events' \in [Events -> EventRecords]
    BY <1>5 DEF Age, TypeOK, EventRecords
  <2>2. stalls' \in Nat
    BY <1>5 DEF Age, TypeOK
  <2>. QED  BY <1>5, <2>1, <2>2 DEF Age, TypeOK
<1>6. ASSUME NEW x \in Entities, ProviderMoves(x) PROVE TypeOK'
  <2>1. provider' \in [Entities -> [version : Nat, created : Nat]]
    BY <1>6 DEF ProviderMoves, TypeOK
  <2>. QED  BY <1>6, <2>1 DEF ProviderMoves, TypeOK, counters
<1>7. CASE Tick
  BY <1>7 DEF Tick, TypeOK, counters
<1>8. CASE UNCHANGED vars
  BY <1>8 DEF TypeOK, vars, counters
<1>. QED  BY <1>1, <1>2, <1>3, <1>4, <1>5, <1>6, <1>7, <1>8 DEF Next
-----------------------------------------------------------------------------
(* An event that is stored stays so, and with it when it was received and  *)
(* what was known then.                                                    *)
StoredStay ==
  \A e \in Events : events[e].status # "ABSENT" =>
    /\ events'[e].status # "ABSENT" /\ events'[e].received = events[e].received
    /\ known'[e] = known[e]

LEMMA StoredKept ==
  ASSUME TypeOK, TasksOK, [Next]_vars
  PROVE  StoredStay
<1>. USE DEF StoredStay
<1>1. ASSUME NEW w \in Workers, WorkerStep(w) PROVE StoredStay
  <2>1. CASE Claim(w)
    <3>1. CASE Took(w, workers[w].event)
      BY <2>1, <3>1 DEF Took, Claim, TypeOK, EventRecords
    <3>. QED  BY <2>1, <3>1, ClaimEffect DEF MovedOn, Claim
  <2>2. CASE Fetch(w) \/ Load(w) \/ Lock(w) \/ AttemptFails(w) \/ ListPending(w)
    BY <2>2 DEF Fetch, Load, Lock, AttemptFails, ListPending
  <2>3. CASE Commit(w)
    <3>1. known' = known
      BY <2>3 DEF Commit
    <3>2. CASE Wrote(w)
      <4>1. \A e \in Events : events'[e] = IF e = workers[w].event THEN Completed(e) ELSE events[e]
        BY <3>2 DEF Wrote, TypeOK
      <4>. QED  BY <3>1, <4>1, ZenonT(60) DEF Completed, TypeOK, EventRecords
    <3>. QED  BY <2>3, <3>1, <3>2, CommitEffect
  <2>4. CASE Mark(w)
    <3>1. /\ events' = [events EXCEPT ![workers[w].event].status = workers[w].outcome,
                                      ![workers[w].event].aged = FALSE]
          /\ workers[w].event \in Events /\ workers[w].outcome # "ABSENT"
      BY <2>4, MarkEffect
    <3>2. known' = known
      BY <2>4 DEF Mark
    <3>. QED  BY <3>1, <3>2 DEF TypeOK, EventRecords
  <2>. QED  BY <1>1, <2>1, <2>2, <2>3, <2>4 DEF WorkerStep
<1>2. ASSUME NEW w \in Workers, StartSweep(w) PROVE StoredStay
  <2>1. known' = known
    BY <1>2 DEF StartSweep
  <2>. QED  BY <1>2, <2>1 DEF StartSweep, TypeOK, EventRecords
<1>3. ASSUME NEW w \in Workers, Crash(w) PROVE StoredStay
  BY <1>3 DEF Crash
<1>4. ASSUME NEW w \in Workers, NEW e \in Events, Deliver(w, e) PROVE StoredStay
  BY <1>4 DEF Deliver, TypeOK
<1>5. ASSUME NEW e \in Events, Age(e) PROVE StoredStay
  <2>1. known' = known
    BY <1>5 DEF Age
  <2>. QED  BY <1>5, <2>1 DEF Age, TypeOK, EventRecords
<1>6. ASSUME NEW x \in Entities, ProviderMoves(x) PROVE StoredStay
  BY <1>6 DEF ProviderMoves
<1>7. CASE Tick \/ UNCHANGED vars
  BY <1>7 DEF Tick, vars
<1>. QED  BY <1>1, <1>2, <1>3, <1>4, <1>5, <1>6, <1>7 DEF Next

(* Only the task that steps has to be looked at.                           *)
LEMMA OneTaskSteps ==
  ASSUME TypeOK, TasksOK, StoredStay, NEW w \in Workers, NEW r \in WorkerRecords,
         workers' = [workers EXCEPT ![w] = r], TaskOK(r)'
  PROVE  TasksOK'
<1>. SUFFICES ASSUME NEW v \in Workers PROVE TaskOK(workers[v])'
  BY DEF TasksOK
<1>1. workers' \in [Workers -> WorkerRecords] /\ workers'[w] = r
  BY DEF TypeOK
<1>2. CASE v = w
  BY <1>1, <1>2 DEF TaskOK
<1>3. CASE v # w
  <2>1. workers'[v] = workers[v] /\ TaskOK(workers[v]) /\ workers[v] \in WorkerRecords
    BY <1>3 DEF TypeOK, TasksOK
  <2>2. workers[v].todo \subseteq Events
    BY <2>1 DEF WorkerRecords
  <2>. QED  BY <2>1, <2>2 DEF TaskOK, StoredStay, WorkingPcs
<1>. QED  BY <1>2, <1>3

(* A task that rests or turns to an event of its list.                     *)
LEMMA TurnsGood ==
  ASSUME TypeOK, TasksOK, StoredStay, NEW r \in WorkerRecords,
         r.pc \in {"idle", "list", "claim", "mark"}, NEW S \in SUBSET Events,
         \A e \in S : events[e].status # "ABSENT", r.todo \subseteq S,
         r.pc \in {"claim", "mark"} => r.event \in S,
         r.pc = "claim" => r.fetched = <<>>, r.pc = "mark" => r.outcome # None
  PROVE  TaskOK(r)'
BY DEF TaskOK, WorkingPcs, Attempting, StoredStay

(* What is known of any task.                                              *)
LEMMA WorkGood ==
  ASSUME TypeOK, TasksOK, NEW w \in Workers
  PROVE  /\ workers[w] \in WorkerRecords /\ TaskOK(workers[w]) /\ workers[w].todo \in SUBSET Events
         /\ \A e \in workers[w].todo : events[e].status # "ABSENT"
         /\ workers[w].pc \in WorkingPcs =>
              workers[w].event \in Events /\ events[workers[w].event].status # "ABSENT"
BY DEF TypeOK, TasksOK, TaskOK, WorkerRecords

LEMMA TasksStep ==
  ASSUME TypeOK, TasksOK, EventsOK, [Next]_vars
  PROVE  TasksOK'
<1>. USE StoredKept
<1>1. ASSUME NEW w \in Workers, NEW retryable \in BOOLEAN, workers[w].pc \in Attempting,
             Fails(w, retryable)
      PROVE  TasksOK'
  <2>1. workers[w].event \in Events
    BY <1>1, WorkGood DEF WorkingPcs
  <2>2. PICK r \in WorkerRecords :
           /\ workers' = [workers EXCEPT ![w] = r]
           /\ r.pc = "mark" /\ r.event = workers[w].event /\ r.todo = workers[w].todo
           /\ r.outcome \in {"RETRY", "FAILED"} /\ r.fetched = <<>>
    BY <1>1, <2>1, FailsGood
  <2>. DEFINE S == workers[w].todo \cup {workers[w].event}
  <2>3. S \in SUBSET Events /\ \A e \in S : events[e].status # "ABSENT"
    BY <1>1, <2>1, WorkGood DEF WorkingPcs
  <2>4. TaskOK(r)'
    BY <2>2, <2>3, NoneAssumption, TurnsGood
  <2>. QED  BY <2>2, <2>4, OneTaskSteps
<1>2. ASSUME NEW w \in Workers, workers[w].pc \in {"claim", "commit"},
             \E r \in NextOf(w, workers[w].todo) : Becomes(w, r)
      PROVE  TasksOK'
  <2>1. PICK r \in NextOf(w, workers[w].todo) : Becomes(w, r)
    BY <1>2
  <2>2. TaskOK(r)'
    BY <2>1, WorkGood, NextOfGood, TurnsGood
  <2>. QED  BY <2>1, <2>2, OneTaskSteps DEF Becomes
<1>3. ASSUME NEW w \in Workers, WorkerStep(w) PROVE TasksOK'
  <2>1. CASE Claim(w)
    <3>1. CASE Took(w, workers[w].event)
      <4>1. PICK r \in WorkerRecords :
              /\ workers' = [workers EXCEPT ![w] = r]
              /\ r.event = workers[w].event /\ r.todo = workers[w].todo /\ r.fetched = <<>>
              /\ \/ r.pc = "fetch" /\ Reads[workers[w].event] # <<>>
                 \/ r.pc = "mark" /\ r.outcome \in {"FAILED", "SKIPPED"}
        BY <3>1 DEF Took
      <4>. DEFINE S == workers[w].todo \cup {workers[w].event}
      <4>2. S \in SUBSET Events /\ \A e \in S : events[e].status # "ABSENT"
        BY <3>1, WorkGood DEF Took, Pending
      <4>3. CASE r.pc = "mark"
        BY <4>1, <4>2, <4>3, NoneAssumption, TurnsGood, OneTaskSteps
      <4>4. CASE r.pc = "fetch"
        <5>1. Reads[r.event] \in Seq(Entities) /\ Reads[r.event] # <<>>
          BY <4>1, <4>2, <4>4, ReadsAssumption
        <5>2. Len(r.fetched) < Len(Reads[r.event])
          BY <4>1, <5>1
        <5>3. TaskOK(r)'
          BY <4>1, <4>2, <4>4, <5>2 DEF TaskOK, StoredStay
        <5>. QED  BY <4>1, <5>3, OneTaskSteps
      <4>. QED  BY <4>1, <4>3, <4>4
    <3>. QED  BY <1>2, <2>1, <3>1, ClaimEffect DEF MovedOn
  <2>2. CASE Fetch(w)
    <3>. DEFINE e == workers[w].event
                k == Len(workers[w].fetched) + 1
                f == Append(workers[w].fetched, provider[Reads[e][k]].version)
    <3>1. PICK r \in WorkerRecords :
                /\ workers' = [workers EXCEPT ![w] = r]
                /\ r.event = e /\ r.todo = workers[w].todo /\ r.fetched = f
                /\ r.pc = IF k = Len(Reads[e]) THEN "load" ELSE "fetch"
      BY <2>2, FetchEffect
    <3>2. /\ e \in Events /\ workers[w].pc = "fetch" /\ k \in 1..Len(Reads[e])
          /\ Reads[e][k] \in Entities
      BY <2>2, FetchEffect
    <3>3. workers[w].fetched \in Seq(Nat) /\ provider[Reads[e][k]].version \in Nat
      BY <3>2, WorkGood DEF TypeOK, WorkerRecords
    <3>4. Len(f) = k /\ f # <<>> /\ \A i \in 1..k : f[i] =
            IF i = k THEN provider[Reads[e][k]].version ELSE workers[w].fetched[i]
      BY <3>3, SMTT(20)
    <3>5. \A i \in 1..k : known[e][Reads[e][i]] <= f[i]
      <4>. TAKE i \in 1..k
      <4>1. CASE i = k
        BY <3>2, <3>4, <4>1 DEF EventsOK, EventOK
      <4>2. CASE i # k
        <5>1. i \in 1..Len(workers[w].fetched)
          BY <3>3, <4>2
        <5>. QED  BY <3>2, <3>4, <4>2, <5>1, WorkGood DEF TaskOK, Attempting
      <4>. QED  BY <4>1, <4>2
    <3>6. k \in Nat /\ Len(Reads[e]) \in Nat
      BY <3>2, <3>3, ReadsAssumption
    <3>. HIDE DEF f, k
    <3>7. TaskOK(r)'
      BY <3>1, <3>2, <3>4, <3>5, <3>6, WorkGood DEF TaskOK, StoredStay, WorkingPcs, Attempting
    <3>. QED  BY <3>1, <3>7, OneTaskSteps
  <2>3. CASE Load(w)
    <3>1. PICK r \in WorkerRecords :
           /\ workers' = [workers EXCEPT ![w] = r] /\ workers[w].pc = "load" /\ r.pc = "lock"
           /\ r.event = workers[w].event /\ r.todo = workers[w].todo
           /\ r.fetched = workers[w].fetched
      BY <2>3, LoadEffect
    <3>2. TaskOK(r)'
      BY <3>1, WorkGood DEF TaskOK, StoredStay, WorkingPcs, Attempting
    <3>. QED  BY <3>1, <3>2, OneTaskSteps
  <2>4. CASE Lock(w)
    <3>1. CASE Fails(w, TRUE)
      BY <1>1, <2>4, <3>1 DEF Lock, Attempting
    <3>2. ASSUME NEW r \in WorkerRecords,
                 workers' = [workers EXCEPT ![w] = r], workers[w].pc = "lock", r.pc = "commit",
                 r.event = workers[w].event, r.todo = workers[w].todo,
                 r.fetched = workers[w].fetched
          PROVE  TasksOK'
      <4>1. TaskOK(r)'
        BY <3>2, WorkGood DEF TaskOK, StoredStay, WorkingPcs, Attempting
      <4>. QED  BY <3>2, <4>1, OneTaskSteps
    <3>. QED  BY <2>4, <3>1, <3>2, LockEffect
  <2>5. CASE Commit(w)
    BY <1>1, <1>2, <2>5, CommitEffect DEF Commit, Wrote, Attempting
  <2>6. CASE AttemptFails(w)
    BY <1>1, <2>6 DEF AttemptFails
  <2>7. CASE Mark(w)
    <3>1. PICK r \in WorkerRecords :
                /\ workers' = [workers EXCEPT ![w] = r]
                /\ r.pc \in {"idle", "claim"} /\ r.todo \subseteq workers[w].todo
                /\ r.pc = "claim" =>
                     r.fetched = <<>> /\ r.event \in workers[w].todo \cup {workers[w].event}
      BY <2>7, MarkEffect
    <3>. DEFINE S == workers[w].todo \cup {workers[w].event}
    <3>2. S \in SUBSET Events /\ \A e \in S : events[e].status # "ABSENT"
      BY <2>7, MarkEffect, WorkGood DEF WorkingPcs
    <3>. QED  BY <3>1, <3>2, TurnsGood, OneTaskSteps
  <2>8. CASE ListPending(w)
    <3>1. PICK S \in SUBSET Events :
            /\ \A e \in S : events[e].status \in Pending
            /\ \E r \in NextOf(w, S) : workers' = [workers EXCEPT ![w] = r]
      BY <2>8 DEF ListPending
    <3>2. PICK r \in NextOf(w, S) : workers' = [workers EXCEPT ![w] = r]
      BY <3>1
    <3>3. \A e \in S : events[e].status # "ABSENT"
      BY <3>1 DEF Pending
    <3>. QED  BY <3>2, <3>3, NextOfGood, TurnsGood, OneTaskSteps
  <2>. QED  BY <1>3, <2>1, <2>2, <2>3, <2>4, <2>5, <2>6, <2>7, <2>8 DEF WorkerStep
<1>4. ASSUME NEW w \in Workers, StartSweep(w) PROVE TasksOK'
  <2>. DEFINE r == [workers[w] EXCEPT !.pc = "list"]
  <2>1. r \in WorkerRecords /\ r.pc = "list" /\ r.todo = workers[w].todo
    BY WorkGood DEF WorkerRecords
  <2>2. workers' = [workers EXCEPT ![w] = r]
    BY <1>4 DEF StartSweep
  <2>. HIDE DEF r
  <2>. QED  BY <2>1, <2>2, WorkGood, TurnsGood, OneTaskSteps
<1>5. ASSUME NEW w \in Workers, Crash(w) PROVE TasksOK'
  <2>1. Idle.pc = "idle" /\ Idle.todo = {}
    BY DEF Idle
  <2>2. TaskOK(Idle)'
    BY <2>1, IdleGood, TurnsGood
  <2>. QED  BY <1>5, <2>2, IdleGood, OneTaskSteps DEF Crash
<1>6. ASSUME NEW w \in Workers, NEW e \in Events, Deliver(w, e) PROVE TasksOK'
  <2>. DEFINE r == StartOn(w, e, {})
  <2>1. r \in WorkerRecords /\ r.pc = "claim" /\ r.todo = {} /\ r.event = e /\ r.fetched = <<>>
    BY StartOnGood DEF StartOn, Idle
  <2>2. workers' = [workers EXCEPT ![w] = r]
    BY <1>6 DEF Deliver
  <2>3. events'[e].status # "ABSENT"
    BY <1>6 DEF Deliver, Stored, TypeOK, Pending
  <2>. HIDE DEF r
  <2>4. TaskOK(r)'
    BY <2>1, <2>3 DEF TaskOK, Attempting
  <2>. QED  BY <2>1, <2>2, <2>4, OneTaskSteps
<1>7. CASE UNCHANGED workers
  BY <1>7, WorkGood DEF TasksOK, TaskOK, StoredStay, WorkingPcs
<1>8. ASSUME NEW e \in Events, Age(e) PROVE UNCHANGED workers
  BY <1>8 DEF Age
<1>9. ASSUME NEW x \in Entities, ProviderMoves(x) PROVE UNCHANGED workers
  BY <1>9 DEF ProviderMoves
<1>10. CASE Tick \/ UNCHANGED vars
  BY <1>7, <1>10 DEF Tick, vars
<1>. QED  BY <1>3, <1>4, <1>5, <1>6, <1>7, <1>8, <1>9, <1>10 DEF Next
-----------------------------------------------------------------------------
LEMMA EventsStep ==
  ASSUME TypeOK, TasksOK, EventsOK, [Next]_vars
  PROVE  EventsOK'
<1>1. StoredStay
  BY StoredKept
<1>2. ASSUME UNCHANGED <<observed, provider>>,
             \A e \in Events : events'[e].status = "PROCESSED" => events[e].status = "PROCESSED",
             known' = known
      PROVE  EventsOK'
  BY <1>1, <1>2 DEF EventsOK, EventOK, StoredStay
<1>3. ASSUME NEW w \in Workers, WorkerStep(w) PROVE EventsOK'
  <2>1. CASE Claim(w)
    <3>1. UNCHANGED <<observed, provider, known>>
      BY <2>1 DEF Claim
    <3>2. \A e \in Events : events'[e].status = "PROCESSED" => events[e].status = "PROCESSED"
      <4>1. CASE Took(w, workers[w].event)
        <5>1. \A e \in Events :
                events'[e].status = IF e = workers[w].event THEN "PROCESSING" ELSE events[e].status
          BY <4>1 DEF Took, TypeOK, EventRecords
        <5>. QED  BY <5>1
      <4>. QED  BY <2>1, <4>1, ClaimEffect DEF MovedOn
    <3>. QED  BY <1>2, <3>1, <3>2
  <2>2. CASE Fetch(w) \/ Load(w) \/ Lock(w) \/ AttemptFails(w) \/ ListPending(w)
    BY <1>2, <2>2 DEF Fetch, Load, Lock, AttemptFails, ListPending
  <2>3. CASE Commit(w)
    <3>1. UNCHANGED <<provider, known>>
      BY <2>3 DEF Commit
    <3>2. CASE UNCHANGED <<events, observed>>
      BY <1>2, <3>1, <3>2
    <3>3. CASE Wrote(w)
      <4>. DEFINE e == workers[w].event
                  o == ObservationOf(w)
      <4>1. /\ workers[w].pc = "commit" /\ e \in Events
            /\ Len(workers[w].fetched) = Len(Reads[e]) /\ Reads[e] \in Seq(Entities)
        BY <2>3, WorkGood, ReadsAssumption DEF Commit, TaskOK, WorkingPcs, Attempting
      <4>2. \A d \in Events : /\ events'[d] = IF d = e THEN Completed(e) ELSE events[d]
                              /\ observed'[d] = IF d = e THEN o ELSE observed[d]
        BY <3>3, <4>1 DEF Wrote, TypeOK
      <4>3. Completed(e).status = "PROCESSED"
        BY <4>1 DEF Completed, TypeOK, EventRecords
      <4>4. o # None /\ \A k \in 1..Len(Reads[e]) : known[e][Reads[e][k]] <= o.version[k]
        <5>1. CASE observed[e] # None
          BY <4>1, <5>1, ObservationGood DEF EventsOK, EventOK
        <5>2. CASE observed[e] = None
          BY <4>1, <5>2, ObservationGood, WorkGood DEF TaskOK, Attempting
        <5>. QED  BY <5>1, <5>2
      <4>. HIDE DEF o
      <4>. QED  BY <3>1, <4>1, <4>2, <4>3, <4>4 DEF EventsOK, EventOK
    <3>. QED  BY <2>3, <3>2, <3>3, CommitEffect
  <2>4. CASE Mark(w)
    <3>1. UNCHANGED <<observed, provider, known>>
      BY <2>4 DEF Mark
    <3>2. /\ events' = [events EXCEPT ![workers[w].event].status = workers[w].outcome,
                                      ![workers[w].event].aged = FALSE]
          /\ workers[w].event \in Events /\ workers[w].outcome # "PROCESSED"
      BY <2>4, MarkEffect
    <3>3. \A e \in Events : events'[e].status = "PROCESSED" => events[e].status = "PROCESSED"
      BY <3>2 DEF TypeOK, EventRecords
    <3>. QED  BY <1>2, <3>1, <3>3
  <2>. QED  BY <1>3, <2>1, <2>2, <2>3, <2>4 DEF WorkerStep
<1>4. ASSUME NEW w \in Workers, StartSweep(w) PROVE EventsOK'
  <2>1. UNCHANGED <<observed, provider, known>>
    BY <1>4 DEF StartSweep
  <2>2. \A e \in Events : events'[e].status = "PROCESSED" => events[e].status = "PROCESSED"
    BY <1>4 DEF StartSweep, TypeOK, EventRecords
  <2>. QED  BY <1>2, <2>1, <2>2
<1>5. ASSUME NEW w \in Workers, NEW e \in Events, Deliver(w, e) PROVE EventsOK'
  <2>1. UNCHANGED <<observed, provider>>
    BY <1>5 DEF Deliver
  <2>2. CASE events' = events /\ known' = known
    BY <1>2, <2>1, <2>2
  <2>3. CASE events[e].status = "ABSENT"
    <3>1. PICK n \in Nat : events' = [events EXCEPT ![e] = Stored(n)]
      BY <1>5, <2>3 DEF Deliver, TypeOK, Pending
    <3>2. known' = [known EXCEPT ![e] = [x \in Entities |-> provider[x].version]]
      BY <1>5, <2>3 DEF Deliver, Pending
    <3>3. Stored(n).status = "RECEIVED"
      BY DEF Stored
    <3>4. \A d \in Events : /\ events'[d] = IF d = e THEN Stored(n) ELSE events[d]
                            /\ known'[d] = IF d = e THEN [x \in Entities |-> provider[x].version]
                                                   ELSE known[d]
      BY <3>1, <3>2 DEF TypeOK
    <3>5. observed[e] = None
      BY <2>3 DEF EventsOK, EventOK
    <3>6. \A x \in Entities : provider[x].version <= provider[x].version
      BY DEF TypeOK
    <3>. QED  BY <2>1, <3>3, <3>4, <3>5, <3>6, ZenonT(60) DEF EventsOK, EventOK
  <2>. QED  BY <1>5, <2>2, <2>3 DEF Deliver
<1>6. ASSUME NEW e \in Events, Age(e) PROVE EventsOK'
  <2>1. UNCHANGED <<observed, provider, known>>
    BY <1>6 DEF Age
  <2>2. \A d \in Events : events'[d].status = events[d].status
    BY <1>6 DEF Age, TypeOK, EventRecords
  <2>. QED  BY <1>2, <2>1, <2>2
<1>7. ASSUME NEW x \in Entities, ProviderMoves(x) PROVE EventsOK'
  <2>1. UNCHANGED <<events, observed, known>>
    BY <1>7 DEF ProviderMoves
  <2>2. \A y \in Entities : provider[y].version <= provider'[y].version
    BY <1>7 DEF ProviderMoves, TypeOK
  <2>3. /\ \A y \in Entities : provider[y].version \in Nat /\ provider'[y].version \in Nat
        /\ \A e \in Events : known[e] \in [Entities -> Nat]
    BY TypeStep DEF TypeOK
  <2>. QED  BY <2>1, <2>2, <2>3 DEF EventsOK, EventOK
<1>8. CASE UNCHANGED <<events, observed, provider, known>>
  BY <1>2, <1>8
<1>9. ASSUME NEW w \in Workers, Crash(w) PROVE UNCHANGED <<events, observed, provider, known>>
  BY <1>9 DEF Crash
<1>10. CASE Tick \/ UNCHANGED vars
  BY <1>8, <1>10 DEF Tick, vars
<1>. QED  BY <1>3, <1>4, <1>5, <1>6, <1>7, <1>8, <1>9, <1>10 DEF Next
-----------------------------------------------------------------------------
(* A step leaves the holders of an event what they were, or lets some go.  *)
HoldersShrink == \A v \in Workers, d \in Events : Holds(v, d)' => Holds(v, d)

LEMMA NobodyNew ==
  ASSUME TypeOK, NEW w \in Workers, NEW r \in WorkerRecords,
         workers' = [workers EXCEPT ![w] = r],
         r.pc \in Attempting \cup {"mark"} =>
           r.event = workers[w].event /\ workers[w].pc \in Attempting \cup {"mark"}
  PROVE  HoldersShrink /\ \A v \in Workers \ {w} : workers'[v] = workers[v]
BY DEF HoldersShrink, Holds, TypeOK

(* While no task stalls, the events that are held stay as they are.        *)
LEMMA ExclusiveKept ==
  ASSUME Exclusive, HoldersShrink, stalls' = 0 => stalls = 0,
         \A v \in Workers, d \in Events : stalls' = 0 /\ Holds(v, d)' =>
           events'[d].status = events[d].status /\ events'[d].aged = events[d].aged
             /\ observed'[d] = observed[d],
         \A d \in Events : stalls' = 0 /\ observed'[d] # None =>
           \/ events'[d].status = "PROCESSED"
           \/ observed[d] # None /\ events'[d].status = events[d].status
  PROVE  Exclusive'
BY DEF Exclusive, HoldersShrink, HeldOK

LEMMA FailsShrinks ==
  ASSUME TypeOK, TasksOK, NEW w \in Workers, NEW retryable \in BOOLEAN,
         workers[w].pc \in Attempting, Fails(w, retryable)
  PROVE  HoldersShrink
<1>1. workers[w].event \in Events
  BY WorkGood DEF WorkingPcs
<1>. QED  BY <1>1, FailsGood, NobodyNew

LEMMA MovesOnShrinks ==
  ASSUME TypeOK, NEW w \in Workers, NEW S \in SUBSET Events, NEW r \in NextOf(w, S),
         workers' = [workers EXCEPT ![w] = r]
  PROVE  HoldersShrink /\ (\A d \in Events : ~Holds(w, d)')
<1>1. r \in WorkerRecords /\ r.pc \in {"idle", "claim"}
  BY NextOfGood
<1>2. workers'[w] = r
  BY DEF TypeOK
<1>. QED  BY <1>1, <1>2, NobodyNew DEF Holds, Attempting

LEMMA ExclusiveStep ==
  ASSUME TypeOK, TasksOK, EventsOK, Exclusive, [Next]_vars
  PROVE  Exclusive'
<1>1. ASSUME HoldersShrink, UNCHANGED <<events, observed, stalls>>
      PROVE  Exclusive'
  BY <1>1, ExclusiveKept DEF Exclusive
<1>2. ASSUME NEW w \in Workers, WorkerStep(w) PROVE Exclusive'
  <2>0. UNCHANGED stalls
    BY <1>2 DEF WorkerStep, Claim, Fetch, Load, Lock, Commit, AttemptFails, Mark, ListPending, counters
  <2>1. CASE Claim(w)
    <3>. DEFINE e == workers[w].event
    <3>1. CASE Took(w, e) /\ stalls = 0
      <4>1. PICK r \in WorkerRecords : workers' = [workers EXCEPT ![w] = r] /\ r.event = e
        BY <3>1 DEF Took
      <4>2. UNCHANGED observed
        BY <2>1 DEF Claim
      <4>3. e \in Events /\ \A v \in Workers : ~Holds(v, e)
        BY <3>1 DEF Took, Exclusive, HeldOK, Pending
      <4>4. observed[e] = None
        BY <3>1, <4>3 DEF Took, Exclusive, Pending
      <4>5. /\ events'[e].status = "PROCESSING" /\ events'[e].aged = FALSE
            /\ \A d \in Events \ {e} : events'[d] = events[d]
        BY <3>1, <4>3 DEF Took, TypeOK, EventRecords
      <4>6. \A v \in Workers, d \in Events : Holds(v, d)' => (v = w /\ d = e) \/ (d # e /\ Holds(v, d))
        BY <4>1, <4>3 DEF Holds, TypeOK
      <4>. QED  BY <2>0, <3>1, <4>2, <4>3, <4>4, <4>5, <4>6 DEF Exclusive, HeldOK
    <3>2. CASE MovedOn(w)
      <4>1. UNCHANGED observed
        BY <2>1 DEF Claim
      <4>2. HoldersShrink
        BY <3>2, WorkGood, MovesOnShrinks DEF MovedOn, Becomes
      <4>. QED  BY <1>1, <2>0, <3>2, <4>1, <4>2 DEF MovedOn
    <3>. QED  BY <2>0, <2>1, <3>1, <3>2, ClaimEffect DEF Exclusive
  <2>2. CASE Fetch(w) \/ Load(w)
    <3>1. PICK r \in WorkerRecords :
            workers' = [workers EXCEPT ![w] = r] /\ r.event = workers[w].event
      BY <2>2, FetchEffect, LoadEffect
    <3>2. workers[w].pc \in Attempting
      BY <2>2 DEF Fetch, Load, Attempting
    <3>3. HoldersShrink
      BY <3>1, <3>2, NobodyNew
    <3>. QED  BY <1>1, <2>0, <2>2, <3>3 DEF Fetch, Load
  <2>3. CASE Lock(w)
    <3>1. workers[w].pc \in Attempting
      BY <2>3 DEF Lock, Attempting
    <3>2. HoldersShrink
      BY <2>3, <3>1, LockEffect, FailsShrinks, NobodyNew
    <3>. QED  BY <1>1, <2>0, <2>3, <3>2 DEF Lock
  <2>4. CASE AttemptFails(w)
    <3>1. HoldersShrink
      BY <2>4, FailsShrinks DEF AttemptFails
    <3>. QED  BY <1>1, <2>0, <2>4, <3>1 DEF AttemptFails
  <2>5. CASE Commit(w)
    <3>1. PICK e \in Events :
            e = workers[w].event /\ workers[w].pc = "commit" /\ Holds(w, e)
      BY <2>5, WorkGood DEF Commit, WorkingPcs, Attempting, Holds
    <3>2. CASE Fails(w, TRUE) /\ UNCHANGED <<events, observed>>
      BY <1>1, <2>0, <3>1, <3>2, FailsShrinks DEF Attempting
    <3>3. CASE Wrote(w)
      <4>1. HoldersShrink /\ \A d \in Events : ~Holds(w, d)'
        BY <3>3, WorkGood, MovesOnShrinks DEF Wrote, Becomes
      <4>2. /\ \A d \in Events \ {e} : events'[d] = events[d] /\ observed'[d] = observed[d]
            /\ events'[e].status = "PROCESSED"
        BY <3>1, <3>3 DEF Wrote, Completed, TypeOK, EventRecords
      <4>3. stalls = 0 => \A v \in Workers : ~Holds(v, e)'
        BY <3>1, <4>1 DEF Exclusive, HoldersShrink
      <4>4. \A v \in Workers, d \in Events : stalls' = 0 /\ Holds(v, d)' =>
              events'[d].status = events[d].status /\ events'[d].aged = events[d].aged
                /\ observed'[d] = observed[d]
        BY <2>0, <4>2, <4>3
      <4>5. \A d \in Events : stalls' = 0 /\ observed'[d] # None =>
              \/ events'[d].status = "PROCESSED"
              \/ observed[d] # None /\ events'[d].status = events[d].status
        BY <4>2
      <4>. QED  BY <2>0, <4>1, <4>4, <4>5, ExclusiveKept
    <3>. QED  BY <2>5, <3>2, <3>3, CommitEffect
  <2>6. CASE Mark(w)
    <3>1. PICK e \in Events :
            /\ e = workers[w].event /\ Holds(w, e)
            /\ events' = [events EXCEPT ![e].status = workers[w].outcome, ![e].aged = FALSE]
      BY <2>6, MarkEffect DEF Holds
    <3>2. PICK r \in WorkerRecords : workers' = [workers EXCEPT ![w] = r] /\ r.pc \in {"idle", "claim"}
      BY <2>6, MarkEffect
    <3>3. HoldersShrink /\ \A d \in Events : ~Holds(w, d)'
      BY <3>2, NobodyNew DEF Holds, Attempting, TypeOK
    <3>4. UNCHANGED observed /\ \A d \in Events \ {e} : events'[d] = events[d]
      BY <2>6, <3>1 DEF Mark, TypeOK
    <3>5. stalls = 0 => observed[e] = None /\ \A v \in Workers : ~Holds(v, e)'
      BY <3>1, <3>3 DEF Exclusive, HoldersShrink, HeldOK
    <3>6. \A v \in Workers, d \in Events : stalls' = 0 /\ Holds(v, d)' =>
            events'[d].status = events[d].status /\ events'[d].aged = events[d].aged
              /\ observed'[d] = observed[d]
      BY <2>0, <3>4, <3>5
    <3>7. \A d \in Events : stalls' = 0 /\ observed'[d] # None =>
            \/ events'[d].status = "PROCESSED"
            \/ observed[d] # None /\ events'[d].status = events[d].status
      BY <2>0, <3>4, <3>5
    <3>. QED  BY <2>0, <3>3, <3>6, <3>7, ExclusiveKept
  <2>7. CASE ListPending(w)
    <3>1. PICK S \in SUBSET Events : \E r \in NextOf(w, S) : workers' = [workers EXCEPT ![w] = r]
      BY <2>7 DEF ListPending
    <3>2. HoldersShrink
      BY <3>1, MovesOnShrinks
    <3>. QED  BY <1>1, <2>0, <2>7, <3>2 DEF ListPending
  <2>. QED  BY <1>2, <2>1, <2>2, <2>3, <2>4, <2>5, <2>6, <2>7 DEF WorkerStep
<1>3. ASSUME NEW w \in Workers, StartSweep(w) PROVE Exclusive'
  <2>1. UNCHANGED <<observed, stalls>> /\ workers' = [workers EXCEPT ![w].pc = "list"]
    BY <1>3 DEF StartSweep
  <2>2. HoldersShrink
    BY <2>1 DEF HoldersShrink, Holds, TypeOK, WorkerRecords, Attempting
  <2>3. \A d \in Events :
          events[d].status # "PROCESSING" \/ ~events[d].aged => events'[d] = events[d]
    BY <1>3 DEF StartSweep, TypeOK
  <2>4. \A v \in Workers, d \in Events : stalls' = 0 /\ Holds(v, d)' => events'[d] = events[d]
    BY <2>1, <2>2, <2>3 DEF Exclusive, HoldersShrink, HeldOK
  <2>5. \A d \in Events : stalls' = 0 /\ observed[d] # None => events'[d] = events[d]
    BY <2>1, <2>3 DEF Exclusive
  <2>. QED  BY <2>1, <2>2, <2>4, <2>5, ExclusiveKept
<1>4. ASSUME NEW w \in Workers, Crash(w) PROVE Exclusive'
  <2>1. Idle.pc = "idle" /\ workers' = [workers EXCEPT ![w] = Idle]
    BY <1>4 DEF Crash, Idle
  <2>2. HoldersShrink
    BY <2>1, IdleGood, NobodyNew DEF Attempting
  <2>. QED  BY <1>1, <1>4, <2>2 DEF Crash
<1>5. ASSUME NEW w \in Workers, NEW e \in Events, Deliver(w, e) PROVE Exclusive'
  <2>1. UNCHANGED <<observed, stalls>>
    BY <1>5 DEF Deliver, counters
  <2>2. workers' = [workers EXCEPT ![w] = StartOn(w, e, {})] /\ StartOn(w, e, {}).pc = "claim"
    BY <1>5 DEF Deliver, StartOn, Idle
  <2>3. HoldersShrink
    BY <2>2, StartOnGood, NobodyNew DEF Attempting
  <2>4. \A d \in Events : events[d].status # "ABSENT" => events'[d] = events[d]
    BY <1>5 DEF Deliver, TypeOK
  <2>5. \A v \in Workers, d \in Events : stalls' = 0 /\ Holds(v, d)' => events'[d] = events[d]
    BY <2>1, <2>3, <2>4 DEF Exclusive, HoldersShrink, HeldOK
  <2>6. \A d \in Events : stalls' = 0 /\ observed[d] # None => events'[d] = events[d]
    BY <2>1, <2>4 DEF Exclusive
  <2>. QED  BY <2>1, <2>3, <2>5, <2>6, ExclusiveKept
<1>6. ASSUME NEW e \in Events, Age(e) PROVE Exclusive'
  <2>1. UNCHANGED <<observed, workers>> /\ events' = [events EXCEPT ![e].aged = TRUE]
    BY <1>6 DEF Age
  <2>2. HoldersShrink
    BY <2>1 DEF HoldersShrink, Holds
  <2>3. stalls \in Nat
    BY DEF TypeOK
  <2>4. stalls' = 0 => stalls = 0 /\ \A v \in Workers : ~Holds(v, e)
    BY <1>6, <2>3 DEF Age
  <2>5. \A d \in Events : events'[d].status = events[d].status /\ (d # e => events'[d] = events[d])
    BY <2>1 DEF TypeOK, EventRecords
  <2>6. \A v \in Workers, d \in Events : stalls' = 0 /\ Holds(v, d)' => events'[d] = events[d]
    BY <2>2, <2>4, <2>5 DEF HoldersShrink
  <2>. QED  BY <2>1, <2>2, <2>4, <2>5, <2>6, ExclusiveKept
<1>7. CASE UNCHANGED <<events, observed, stalls, workers>>
  BY <1>1, <1>7 DEF HoldersShrink, Holds
<1>8. ASSUME NEW x \in Entities, ProviderMoves(x) PROVE UNCHANGED <<events, observed, stalls, workers>>
  BY <1>8 DEF ProviderMoves, counters
<1>9. CASE Tick \/ UNCHANGED vars
  BY <1>7, <1>9 DEF Tick, vars, counters
<1>. QED  BY <1>2, <1>3, <1>4, <1>5, <1>6, <1>7, <1>8, <1>9 DEF Next
-----------------------------------------------------------------------------
LEMMA CurrentRowsStep ==
  ASSUME TypeOK, TasksOK, EventsOK, Exclusive, RowsAreObserved, [Next]_vars
  PROVE  RowsAreObserved'
<1>1. stalls' = 0 => stalls = 0
  <2>1. stalls \in Nat
    BY DEF TypeOK
  <2>2. ASSUME NEW e \in Events, Age(e) PROVE stalls' = 0 => stalls = 0
    BY <2>1, <2>2 DEF Age
  <2>3. ASSUME NEW w \in Workers, WorkerStep(w) PROVE UNCHANGED stalls
    BY <2>3 DEF WorkerStep, Claim, Fetch, Load, Lock, Commit, AttemptFails, Mark, ListPending,
                counters
  <2>. QED
    BY <2>2, <2>3 DEF Next, StartSweep, Crash, Deliver, ProviderMoves, Tick, vars, counters
<1>2. CASE UNCHANGED <<rows, observed>>
  BY <1>1, <1>2 DEF RowsAreObserved
<1>3. ASSUME NEW w \in Workers, Commit(w), Wrote(w) PROVE RowsAreObserved'
  <2>. SUFFICES ASSUME stalls' = 0, NEW x \in Entities, rows'[x] # 0
                PROVE  \E d \in Events : observed'[d] # None /\
                         \E k \in DOMAIN Reads[d] : Reads[d][k] = x /\ observed'[d].version[k] = rows'[x]
    BY DEF RowsAreObserved
  <2>. DEFINE e == workers[w].event
  <2>1. /\ workers[w].pc = "commit" /\ e \in Events /\ Holds(w, e) /\ stalls = 0
        /\ Reads[e] \in Seq(Entities)
    BY <1>1, <1>3, WorkGood, ReadsAssumption DEF Commit, WorkingPcs, Attempting, Holds
  <2>2. observed[e] = None
    BY <2>1 DEF Exclusive, HeldOK
  <2>3. /\ ObservationOf(w) # None /\ ObservationOf(w).version = workers[w].fetched
        /\ \A d \in Events : observed'[d] = IF d = e THEN ObservationOf(w) ELSE observed[d]
        /\ rows'[x] = IF x \in Image(Reads[e]) THEN Written(w, x) ELSE rows[x]
    BY <1>3, <2>1, <2>2, ObservationGood DEF Wrote, TypeOK
  <2>4. CASE rows'[x] = rows[x]
    <3>1. PICK d \in Events : observed[d] # None /\
            \E k \in DOMAIN Reads[d] : Reads[d][k] = x /\ observed[d].version[k] = rows[x]
      BY <2>1, <2>4 DEF RowsAreObserved
    <3>. QED  BY <2>2, <2>3, <2>4, <3>1
  <2>5. CASE rows'[x] # rows[x]
    <3>1. PICK k \in 1..Len(Reads[e]) : Reads[e][k] = x /\ rows'[x] = workers[w].fetched[k]
      BY <2>1, <2>3, <2>5, WrittenGood
    <3>. QED  BY <2>1, <2>3, <3>1
  <2>. QED  BY <2>4, <2>5
<1>4. ASSUME NEW w \in Workers, WorkerStep(w) PROVE RowsAreObserved'
  <2>1. CASE Commit(w)
    BY <1>2, <1>3, <2>1, CommitEffect
  <2>2. CASE Claim(w) \/ Fetch(w) \/ Load(w) \/ Lock(w) \/ AttemptFails(w) \/ Mark(w) \/ ListPending(w)
    BY <1>2, <2>2 DEF Claim, Fetch, Load, Lock, AttemptFails, Mark, ListPending
  <2>. QED  BY <1>4, <2>1, <2>2 DEF WorkerStep
<1>5. ASSUME ~(\E w \in Workers : WorkerStep(w)) PROVE UNCHANGED <<rows, observed>>
  BY <1>5 DEF Next, StartSweep, Crash, Deliver, Age, ProviderMoves, Tick, vars
<1>. QED  BY <1>2, <1>4, <1>5

-----------------------------------------------------------------------------
LEMMA AskingShrinks ==
  ASSUME TypeOK, NEW w \in Workers, NEW r \in WorkerRecords,
         workers' = [workers EXCEPT ![w] = r],
         r.pc = "fetch" => r.fetched # <<>>
  PROVE  \A d \in Events : Asking(d)' = Asking(d) \ {w}
BY DEF Asking, TypeOK

LEMMA BudgetKept ==
  ASSUME TypeOK, Budget, \A d \in Events : Asking(d)' \subseteq Asking(d), asked' = asked,
         \A d \in Events : /\ events'[d].attempts = events[d].attempts
                           /\ events'[d].status = "ABSENT" => events[d].status = "ABSENT"
  PROVE  Budget'
<1>. SUFFICES ASSUME NEW d \in Events PROVE BudgetOK(d)'
  BY DEF Budget
<1>1. /\ IsFiniteSet(Asking(d)') /\ IsFiniteSet(Asking(d))
      /\ Cardinality(Asking(d)') <= Cardinality(Asking(d))
  BY FS_Subset DEF Budget, BudgetOK
<1>2. Cardinality(Asking(d)') \in Nat /\ Cardinality(Asking(d)) \in Nat
  BY <1>1, FS_CardinalityType
<1>3. asked[d] \in Nat /\ events[d].attempts \in Nat
  BY DEF TypeOK, EventRecords
<1>. QED  BY <1>1, <1>2, <1>3, ReadsAssumption DEF Budget, BudgetOK

LEMMA BudgetStep ==
  ASSUME TypeOK, TasksOK, Budget, [Next]_vars
  PROVE  Budget'
<1>1. StoredStay
  BY StoredKept
<1>2. ASSUME UNCHANGED <<events, asked>>, NEW w \in Workers, NEW r \in WorkerRecords,
             workers' = [workers EXCEPT ![w] = r], r.pc # "fetch" \/ r.fetched # <<>>
      PROVE  Budget'
  BY <1>2, AskingShrinks, BudgetKept
<1>3. ASSUME NEW w \in Workers, Claim(w) PROVE Budget'
  <2>. DEFINE e == workers[w].event
  <2>1. UNCHANGED asked /\ workers[w].pc = "claim"
    BY <1>3 DEF Claim
  <2>2. CASE Took(w, e)
    <3>1. /\ e \in Events /\ events[e].attempts \in Nat
          /\ \A d \in Events :
               /\ events'[d].attempts = IF d = e THEN events[e].attempts + 1 ELSE events[d].attempts
               /\ events'[d].status = "ABSENT" => events[d].status = "ABSENT" /\ d # e
      BY <2>2 DEF Took, TypeOK, EventRecords
    <3>2. PICK r \in WorkerRecords :
            /\ workers' = [workers EXCEPT ![w] = r] /\ r.event = e /\ r.fetched = <<>>
            /\ \/ r.pc = "fetch" /\ events[e].attempts + 1 <= MaxAttempts
               \/ r.pc = "mark"
      BY <2>2 DEF Took
    <3>. SUFFICES ASSUME NEW d \in Events PROVE BudgetOK(d)'
      BY DEF Budget
    <3>3. /\ IsFiniteSet(Asking(d)) /\ Cardinality(Asking(d)) \in Nat
          /\ asked[d] \in Nat /\ events[d].attempts \in Nat
      BY FS_CardinalityType DEF Budget, BudgetOK, TypeOK, EventRecords
    <3>4. w \notin Asking(d)
      BY <2>1 DEF Asking
    <3>5. CASE r.pc = "fetch" /\ d = e
      <4>1. Asking(d)' = Asking(d) \cup {w}
        BY <3>2, <3>4, <3>5 DEF Asking, TypeOK
      <4>2. IsFiniteSet(Asking(d)') /\ Cardinality(Asking(d)') = Cardinality(Asking(d)) + 1
        BY <3>3, <3>4, <4>1, FS_AddElement
      <4>3. /\ asked'[d] = asked[d] /\ events'[d].attempts = events[d].attempts + 1
            /\ events'[d].status # "ABSENT" /\ events[d].attempts + 1 <= MaxAttempts
        BY <2>1, <3>1, <3>2, <3>5
      <4>4. asked[d] + Cardinality(Asking(d)) <= events[d].attempts
        BY DEF Budget, BudgetOK
      <4>5. /\ asked'[d] + Cardinality(Asking(d)') <= events'[d].attempts
            /\ asked'[d] + Cardinality(Asking(d)') <= MaxAttempts
        BY <3>3, <4>2, <4>3, <4>4, ReadsAssumption
      <4>. QED  BY <4>2, <4>3, <4>5 DEF BudgetOK
    <3>6. CASE r.pc # "fetch" \/ d # e
      <4>1. Asking(d)' = Asking(d)
        BY <2>1, <3>2, <3>6 DEF Asking, TypeOK
      <4>. QED  BY <2>1, <3>1, <3>3, <4>1, ReadsAssumption, SMTT(20) DEF Budget, BudgetOK
    <3>. QED  BY <3>5, <3>6
  <2>3. CASE MovedOn(w)
    <3>1. PICK r \in WorkerRecords : workers' = [workers EXCEPT ![w] = r] /\ r.pc \in {"idle", "claim"}
      BY <2>3, WorkGood, NextOfGood DEF MovedOn, Becomes
    <3>. QED  BY <1>2, <2>1, <2>3, <3>1 DEF MovedOn
  <2>. QED  BY <1>3, <2>2, <2>3, ClaimEffect
<1>4. ASSUME NEW w \in Workers, NEW r \in WorkerRecords, workers[w].event \in Events,
             workers' = [workers EXCEPT ![w] = r], r.pc = "fetch" => r.fetched # <<>>,
             UNCHANGED events,
             asked' = [asked EXCEPT ![workers[w].event] =
                         IF workers[w].pc = "fetch" /\ workers[w].fetched = <<>> THEN @ + 1 ELSE @]
      PROVE  Budget'
  <2>. SUFFICES ASSUME NEW d \in Events PROVE BudgetOK(d)'
    BY DEF Budget
  <2>1. /\ IsFiniteSet(Asking(d)) /\ Cardinality(Asking(d)) \in Nat
        /\ asked[d] \in Nat /\ events[d].attempts \in Nat
    BY FS_CardinalityType DEF Budget, BudgetOK, TypeOK, EventRecords
  <2>2. Asking(d)' = Asking(d) \ {w}
    BY <1>4, AskingShrinks
  <2>3. /\ IsFiniteSet(Asking(d)')
        /\ Cardinality(Asking(d)') = IF w \in Asking(d) THEN Cardinality(Asking(d)) - 1
                                                        ELSE Cardinality(Asking(d))
    BY <2>1, <2>2, FS_RemoveElement
  <2>4. asked'[d] = IF w \in Asking(d) THEN asked[d] + 1 ELSE asked[d]
    BY <1>4 DEF Asking, TypeOK
  <2>. QED  BY <1>4, <2>1, <2>3, <2>4, ReadsAssumption DEF Budget, BudgetOK
<1>5. ASSUME NEW w \in Workers, Fetch(w) PROVE Budget'
  <2>. DEFINE e == workers[w].event
              k == Len(workers[w].fetched) + 1
  <2>1. workers[w].pc = "fetch" /\ e \in Events /\ workers[w].fetched \in Seq(Nat)
    BY <1>5, FetchEffect, WorkGood DEF WorkerRecords
  <2>2. asked' = [asked EXCEPT ![e] = IF k = 1 THEN @ + 1 ELSE @] /\ UNCHANGED events
    BY <1>5, FetchEffect DEF Fetch
  <2>3. k = 1 <=> workers[w].fetched = <<>>
    BY <2>1
  <2>4. PICK r \in WorkerRecords :
          /\ workers' = [workers EXCEPT ![w] = r]
          /\ r.fetched = Append(workers[w].fetched, provider[Reads[e][k]].version)
    BY <1>5, FetchEffect
  <2>5. r.fetched # <<>>
    BY <2>1, <2>4
  <2>. QED  BY <1>4, <2>1, <2>2, <2>3, <2>4, <2>5
<1>6. ASSUME NEW w \in Workers, workers[w].pc \in Attempting, NEW retryable \in BOOLEAN,
             Fails(w, retryable)
      PROVE  \E r \in WorkerRecords : workers' = [workers EXCEPT ![w] = r] /\ r.pc = "mark"
  BY <1>6, WorkGood, FailsGood DEF WorkingPcs
<1>7. ASSUME NEW w \in Workers, AttemptFails(w) PROVE Budget'
  <2>1. workers[w].event \in Events
    BY <1>7, WorkGood DEF AttemptFails, WorkingPcs
  <2>2. PICK r \in WorkerRecords : workers' = [workers EXCEPT ![w] = r] /\ r.pc = "mark"
    BY <1>6, <1>7 DEF AttemptFails
  <2>. QED  BY <1>4, <1>7, <2>1, <2>2 DEF AttemptFails
<1>8. ASSUME NEW w \in Workers, Load(w) \/ Lock(w) PROVE Budget'
  <2>1. \E r \in WorkerRecords : workers' = [workers EXCEPT ![w] = r] /\ r.pc # "fetch"
    BY <1>6, <1>8, LoadEffect, LockEffect DEF Lock, Attempting
  <2>. QED  BY <1>2, <1>8, <2>1 DEF Load, Lock
<1>9. ASSUME UNCHANGED asked, NEW w \in Workers, NEW r \in WorkerRecords,
             workers' = [workers EXCEPT ![w] = r], r.pc # "fetch",
             \A d \in Events : events'[d].attempts = events[d].attempts
      PROVE  Budget'
  <2>1. \A d \in Events : events'[d].status = "ABSENT" => events[d].status = "ABSENT"
    BY <1>1 DEF StoredStay
  <2>. QED  BY <1>9, <2>1, AskingShrinks, BudgetKept
<1>10. ASSUME NEW w \in Workers, Commit(w) PROVE Budget'
  <2>1. UNCHANGED asked /\ workers[w].pc = "commit"
    BY <1>10 DEF Commit
  <2>2. CASE Fails(w, TRUE) /\ UNCHANGED events
    BY <1>6, <1>9, <2>1, <2>2 DEF Attempting
  <2>3. CASE Wrote(w)
    <3>1. \A d \in Events : events'[d].attempts = events[d].attempts
      BY <2>3 DEF Wrote, Completed, TypeOK, EventRecords
    <3>2. \E r \in WorkerRecords : workers' = [workers EXCEPT ![w] = r] /\ r.pc # "fetch"
      BY <2>3, WorkGood, NextOfGood DEF Wrote, Becomes
    <3>. QED  BY <1>9, <2>1, <3>1, <3>2
  <2>. QED  BY <1>10, <2>2, <2>3, CommitEffect
<1>11. ASSUME NEW w \in Workers, Mark(w) PROVE Budget'
  <2>1. UNCHANGED asked
    BY <1>11 DEF Mark
  <2>2. /\ events' = [events EXCEPT ![workers[w].event].status = workers[w].outcome,
                                    ![workers[w].event].aged = FALSE]
        /\ \E r \in WorkerRecords : workers' = [workers EXCEPT ![w] = r] /\ r.pc \in {"idle", "claim"}
    BY <1>11, MarkEffect
  <2>3. \A d \in Events : events'[d].attempts = events[d].attempts
    BY <2>2 DEF TypeOK, EventRecords
  <2>. QED  BY <1>9, <2>1, <2>2, <2>3
<1>12. ASSUME NEW w \in Workers, ListPending(w) PROVE Budget'
  <2>1. PICK S \in SUBSET Events : \E r \in NextOf(w, S) : workers' = [workers EXCEPT ![w] = r]
    BY <1>12 DEF ListPending
  <2>2. \E r \in WorkerRecords : workers' = [workers EXCEPT ![w] = r] /\ r.pc \in {"idle", "claim"}
    BY <2>1, NextOfGood
  <2>. QED  BY <1>9, <1>12, <2>2 DEF ListPending
<1>13. ASSUME NEW w \in Workers, StartSweep(w) PROVE Budget'
  <2>. DEFINE r == [workers[w] EXCEPT !.pc = "list"]
  <2>1. r \in WorkerRecords /\ r.pc = "list"
    BY WorkGood DEF WorkerRecords
  <2>2. workers' = [workers EXCEPT ![w] = r] /\ UNCHANGED asked
    BY <1>13 DEF StartSweep
  <2>3. \A d \in Events : events'[d].attempts = events[d].attempts
    BY <1>13 DEF StartSweep, TypeOK, EventRecords
  <2>. HIDE DEF r
  <2>. QED  BY <1>9, <2>1, <2>2, <2>3
<1>14. ASSUME NEW w \in Workers, Crash(w) PROVE Budget'
  <2>1. Idle.pc = "idle"
    BY DEF Idle
  <2>. QED  BY <1>9, <1>14, <2>1, IdleGood DEF Crash
<1>15. ASSUME NEW w \in Workers, NEW e \in Events, Deliver(w, e) PROVE Budget'
  <2>1. /\ workers' = [workers EXCEPT ![w] = StartOn(w, e, {})] /\ UNCHANGED asked
        /\ StartOn(w, e, {}).pc = "claim"
    BY <1>15 DEF Deliver, StartOn, Idle
  <2>2. \A d \in Events : events'[d].attempts = events[d].attempts
    <3>1. CASE events[e].status = "ABSENT"
      <4>1. \E n \in Nat : events' = [events EXCEPT ![e] = Stored(n)]
        BY <1>15, <3>1 DEF Deliver, TypeOK, Pending
      <4>2. \A n : Stored(n).attempts = 0
        BY DEF Stored
      <4>3. events[e].attempts = 0
        BY <3>1 DEF Budget, BudgetOK
      <4>. QED  BY <4>1, <4>2, <4>3 DEF TypeOK
    <3>2. CASE events[e].status # "ABSENT"
      BY <1>15, <3>2 DEF Deliver
    <3>. QED  BY <3>1, <3>2
  <2>. QED  BY <1>9, <2>1, <2>2, StartOnGood
<1>16. ASSUME UNCHANGED <<workers, asked>>,
              \A d \in Events : events'[d].attempts = events[d].attempts
       PROVE  Budget'
  <2>1. \A d \in Events : /\ Asking(d)' = Asking(d)
                          /\ events'[d].status = "ABSENT" => events[d].status = "ABSENT"
    BY <1>1, <1>16 DEF Asking, StoredStay
  <2>. QED  BY <1>16, <2>1, BudgetKept
<1>17. ASSUME NEW e \in Events, Age(e) PROVE Budget'
  <2>1. UNCHANGED <<workers, asked>>
    BY <1>17 DEF Age
  <2>2. \A d \in Events : events'[d].attempts = events[d].attempts
    BY <1>17 DEF Age, TypeOK, EventRecords
  <2>. QED  BY <1>16, <2>1, <2>2
<1>18. ASSUME NEW x \in Entities, ProviderMoves(x) PROVE Budget'
  BY <1>16, <1>18 DEF ProviderMoves
<1>19. CASE Tick \/ UNCHANGED vars
  BY <1>16, <1>19 DEF Tick, vars
<1>. QED
  BY <1>3, <1>5, <1>7, <1>8, <1>10, <1>11, <1>12, <1>13, <1>14, <1>15, <1>17, <1>18, <1>19
  DEF Next, WorkerStep
-----------------------------------------------------------------------------
LEMMA InvInit == Init => IInv
<1>. SUFFICES ASSUME Init PROVE IInv
  OBVIOUS
<1>1. \A w \in Workers : workers[w] = Idle
  BY DEF Init
<1>2. \A e \in Events : events[e] = Absent /\ observed[e] = None /\ asked[e] = 0
  BY DEF Init
<1>3. TasksOK
  BY <1>1 DEF TasksOK, TaskOK, Idle, WorkingPcs, Attempting
<1>4. EventsOK
  BY <1>2 DEF Init, EventsOK, EventOK, Absent
<1>5. Exclusive
  BY <1>1, <1>2 DEF Exclusive, Holds, Idle, Attempting
<1>6. RowsAreObserved
  BY DEF Init, RowsAreObserved
<1>7. Budget
  <2>1. \A e \in Events : Asking(e) = {}
    BY <1>1 DEF Asking, Idle
  <2>2. IsFiniteSet({}) /\ Cardinality({}) = 0
    BY FS_EmptySet
  <2>3. ASSUME NEW e \in Events PROVE BudgetOK(e)
    <3>1. /\ Asking(e) = {} /\ asked[e] = 0
          /\ events[e].attempts = 0
      BY <1>2, <2>1 DEF Absent
    <3>2. IsFiniteSet(Asking(e)) /\ Cardinality(Asking(e)) = 0
      BY <2>2, <3>1
    <3>. QED  BY <3>1, <3>2, ReadsAssumption DEF BudgetOK
  <2>. QED  BY <2>3 DEF Budget
<1>. QED  BY TypeInit, <1>3, <1>4, <1>5, <1>6, <1>7 DEF IInv

LEMMA InvStep == IInv /\ [Next]_vars => IInv'
BY TypeStep, TasksStep, EventsStep, ExclusiveStep, CurrentRowsStep, BudgetStep DEF IInv

(* The inductive invariant holds in every reachable state, whatever the    *)
(* deliveries, sweeps, crashes, stalls and answers of the provider.        *)
THEOREM Invariance == Spec => []IInv
BY InvInit, InvStep, PTL DEF Spec

(* Every variable holds a value of its type, and an observation has one    *)
(* version for each entity of its event.                                   *)
THEOREM Typing == Spec => []TypeOK
BY Invariance, PTL DEF IInv

(* claim_event gives an event to one task: redeliveries, sweeps, retries   *)
(* and crashes never put two tasks to work on one event, as long as no     *)
(* live task outlasts stale_claim_seconds.                                 *)
THEOREM SingleTask == Spec => []OneTaskPerEvent
<1>1. IInv => OneTaskPerEvent
  BY DEF IInv, Exclusive, OneTaskPerEvent
<1>. QED  BY <1>1, Invariance, PTL

(* The provider is asked at most max_attempts times for an event, over all *)
(* its tasks, recoveries, crashes and stalls: the claim counts before the  *)
(* request is made.                                                        *)
THEOREM RetriesBounded == Spec => []RetryBudgetKept
<1>1. IInv => RetryBudgetKept
  <2>. SUFFICES ASSUME IInv, NEW e \in Events PROVE asked[e] <= MaxAttempts
    BY DEF RetryBudgetKept
  <2>1. IsFiniteSet(Asking(e)) /\ asked[e] + Cardinality(Asking(e)) <= MaxAttempts
    BY DEF IInv, Budget, BudgetOK
  <2>2. Cardinality(Asking(e)) \in Nat
    BY <2>1, FS_CardinalityType
  <2>3. asked[e] \in Nat
    BY DEF IInv, TypeOK
  <2>. QED  BY <2>1, <2>2, <2>3, ReadsAssumption
<1>. QED  BY <1>1, Invariance, PTL

(* The row, the observation and the status of an event commit together:    *)
(* whatever one of them tells of an event or a version, the others hold    *)
(* too, and an observation is never older than the event's receipt.        *)
THEOREM CompletionAtomic == Spec => []CompletionIsAtomic
<1>1. IInv => CompletionIsAtomic
  <2>. SUFFICES ASSUME IInv PROVE ProcessedWithItsObservations
    BY DEF IInv, CompletionIsAtomic
  <2>. SUFFICES ASSUME NEW e \in Events
                PROVE  /\ events[e].status = "PROCESSED" => observed[e] # None
                       /\ stalls = 0 /\ observed[e] # None => events[e].status = "PROCESSED"
                       /\ observed[e] # None => \A k \in DOMAIN Reads[e] :
                            observed[e].version[k] >= known[e][Reads[e][k]]
    BY DEF ProcessedWithItsObservations
  <2>1. EventOK(e) /\ (stalls = 0 /\ observed[e] # None => events[e].status = "PROCESSED")
    BY DEF IInv, EventsOK, Exclusive
  <2>2. ASSUME observed[e] # None, NEW k \in DOMAIN Reads[e]
        PROVE  observed[e].version[k] >= known[e][Reads[e][k]]
    <3>1. Reads[e] \in Seq(Entities) /\ k \in 1..Len(Reads[e]) /\ Reads[e][k] \in Entities
      BY ReadsAssumption
    <3>2. observed[e] \in Observations /\ Len(observed[e].version) = Len(Reads[e])
      BY <2>2 DEF IInv, TypeOK
    <3>3. observed[e].version \in Seq(Nat)
      BY <3>2 DEF Observations
    <3>4. observed[e].version[k] \in Nat
      BY <3>1, <3>2, <3>3
    <3>5. known[e][Reads[e][k]] \in Nat
      BY <3>1 DEF IInv, TypeOK
    <3>6. known[e][Reads[e][k]] <= observed[e].version[k]
      BY <2>1, <2>2, <3>1 DEF EventOK
    <3>. QED  BY <3>4, <3>5, <3>6
  <2>. QED  BY <2>1, <2>2 DEF EventOK
<1>. QED  BY <1>1, Invariance, PTL
-----------------------------------------------------------------------------
(* The step that decides about an event: a final status is left by none    *)
(* while no task stalls, and an observation by none at all.                *)
StatusStays == \A e \in Events :
  stalls' = 0 /\ events[e].status \in Final => events'[e].status = events[e].status
ObservationStays == \A e \in Events : observed[e] # None => observed'[e] = observed[e]

LEMMA StatusOfTheHeld ==
  ASSUME IInv, NEW w \in Workers, workers[w].pc \in Attempting \cup {"mark"}, stalls = 0
  PROVE  events[workers[w].event].status = "PROCESSING"
<1>1. workers[w].event \in Events
  BY WorkGood DEF IInv, WorkingPcs
<1>. QED  BY <1>1 DEF IInv, Exclusive, HeldOK, Holds

LEMMA StepStaysDecided ==
  ASSUME IInv, [Next]_vars
  PROVE  StatusStays /\ ObservationStays
<1>. USE DEF IInv
<1>1. ASSUME UNCHANGED <<events, observed>> PROVE StatusStays /\ ObservationStays
  BY <1>1 DEF StatusStays, ObservationStays
<1>2. ASSUME NEW w \in Workers, WorkerStep(w) PROVE StatusStays /\ ObservationStays
  <2>1. CASE Claim(w)
    <3>1. UNCHANGED observed
      BY <2>1 DEF Claim
    <3>2. CASE Took(w, workers[w].event)
      BY <3>1, <3>2 DEF Took, Pending, Final, StatusStays, ObservationStays, TypeOK
    <3>. QED  BY <1>1, <2>1, <3>1, <3>2, ClaimEffect DEF MovedOn
  <2>2. CASE Commit(w)
    <3>1. workers[w].pc = "commit" /\ UNCHANGED stalls
      BY <2>2 DEF Commit, counters
    <3>2. CASE Wrote(w)
      <4>1. ObservationStays
        BY <3>1, <3>2, ObservationGood DEF Wrote, ObservationStays, TypeOK
      <4>2. StatusStays
        BY <3>1, <3>2, StatusOfTheHeld
        DEF Wrote, Completed, StatusStays, TypeOK, Final, Attempting
      <4>. QED  BY <4>1, <4>2
    <3>. QED  BY <1>1, <2>2, <3>2, CommitEffect
  <2>3. CASE Mark(w)
    <3>1. workers[w].pc = "mark" /\ UNCHANGED <<stalls, observed>>
      BY <2>3 DEF Mark, counters
    <3>2. \A e \in Events : e # workers[w].event => events'[e] = events[e]
      BY <2>3 DEF Mark, TypeOK
    <3>. QED  BY <3>1, <3>2, StatusOfTheHeld DEF StatusStays, ObservationStays, Final
  <2>4. CASE Fetch(w) \/ Load(w) \/ Lock(w) \/ AttemptFails(w) \/ ListPending(w)
    BY <1>1, <2>4 DEF Fetch, Load, Lock, AttemptFails, ListPending
  <2>. QED  BY <1>2, <2>1, <2>2, <2>3, <2>4 DEF WorkerStep
<1>3. ASSUME NEW w \in Workers, StartSweep(w) PROVE StatusStays /\ ObservationStays
  <2>1. UNCHANGED observed
    BY <1>3 DEF StartSweep
  <2>. QED  BY <1>3, <2>1 DEF StartSweep, StatusStays, ObservationStays, Final
<1>4. ASSUME NEW w \in Workers, Crash(w) PROVE StatusStays /\ ObservationStays
  BY <1>1, <1>4 DEF Crash
<1>5. ASSUME NEW w \in Workers, NEW e \in Events, Deliver(w, e)
      PROVE  StatusStays /\ ObservationStays
  <2>1. UNCHANGED observed
    BY <1>5 DEF Deliver
  <2>. QED  BY <1>5, <2>1 DEF Deliver, StatusStays, ObservationStays, Final, TypeOK
<1>6. ASSUME NEW e \in Events, Age(e) PROVE StatusStays /\ ObservationStays
  <2>1. UNCHANGED observed
    BY <1>6 DEF Age
  <2>. QED  BY <1>6, <2>1 DEF Age, StatusStays, ObservationStays, Final, TypeOK, EventRecords
<1>7. ASSUME NEW x \in Entities, ProviderMoves(x) PROVE StatusStays /\ ObservationStays
  BY <1>1, <1>7 DEF ProviderMoves
<1>8. CASE Tick \/ UNCHANGED vars
  BY <1>1, <1>8 DEF Tick, vars
<1>. QED  BY <1>2, <1>3, <1>4, <1>5, <1>6, <1>7, <1>8 DEF Next

(* What was decided about an event stays: its final status while no task   *)
(* stalls, and its observation always, a stalled attempt that commits late *)
(* included.                                                               *)
THEOREM DecidedForGood == Spec => WrittenForGood
<1>1. IInv /\ [Next]_vars =>
        [stalls' = 0 =>
           \A e \in Events : events[e].status \in Final => events'[e].status = events[e].status]_vars
  BY StepStaysDecided DEF StatusStays
<1>2. IInv /\ [Next]_vars => [\A e \in Events : observed[e] # None => observed'[e] = observed[e]]_vars
  BY StepStaysDecided DEF ObservationStays
<1>. QED
  BY <1>1, <1>2, Invariance, PTL DEF Spec, WrittenForGood, FinalStays, ObservationsWrittenOnce

-----------------------------------------------------------------------------
(* The point-in-time snapshot.  TimelineInv adds to IInv                   *)
(*   - SkippedOK: an event that is skipped names no entity;                *)
(*   - ObservationsOK: an event is received after its entities came to be, *)
(*     and before what is fetched for it;                                  *)
(*   - SnapshotOK: a snapshot that was begun is of an earlier time;        *)
(*   - PassedIsSettled: when a snapshot has passed, what may still be      *)
(*     observed was received outside its window or will bear a later time. *)

(* An event that is skipped has no entity to fetch.                        *)
SkippedOK ==
  /\ \A w \in Workers :
       workers[w].pc = "mark" /\ workers[w].outcome = "SKIPPED" => Reads[workers[w].event] = <<>>
  /\ \A e \in Events : events[e].status = "SKIPPED" => Reads[e] = <<>>

(* The answers in a task's hand are not older than the event's receipt.    *)
HandOK(w) ==
  workers[w].fetched # <<>> =>
    /\ workers[w].event \in Events /\ events[workers[w].event].status # "ABSENT"
    /\ events[workers[w].event].received <= workers[w].stamp /\ workers[w].stamp <= now

(* An event is received after the entities it names came to be.            *)
ObservationOK(e) ==
  events[e].status # "ABSENT" =>
    /\ events[e].received <= now
    /\ \A x \in Image(Reads[e]) :
         provider[x].version > 0 /\ provider[x].created <= events[e].received

ObservationsOK == (\A w \in Workers : HandOK(w)) /\ (\A e \in Events : ObservationOK(e))

SnapshotOK ==
  /\ snapshot = [pc |-> snapshot.pc, asOf |-> snapshot.asOf, read |-> snapshot.read,
                 contents |-> snapshot.contents, unresolved |-> snapshot.unresolved]
  /\ snapshot.pc # "none" => snapshot.asOf \in Nat /\ snapshot.asOf < now

(* What may still be committed for an event does not show at the cutoff.   *)
Settled(e) ==
  \/ observed[e] # None \/ Reads[e] = <<>> \/ ~Within(events[e].received, snapshot.asOf)
  \/ \A w \in Workers :
       workers[w].event = e /\ workers[w].fetched # <<>> => workers[w].stamp > snapshot.asOf

PassedIsSettled == Passed => \A e \in Events : Settled(e)

TimelineInv == IInv /\ SkippedOK /\ ObservationsOK /\ SnapshotOK /\ PassedIsSettled
-----------------------------------------------------------------------------
(* What a step does to the answers a task has in hand: it lets go of them, *)
(* carries them on, or takes one more.                                     *)
HandMoves ==
  \A w \in Workers :
    \/ workers'[w].fetched = <<>>
    \/ /\ workers'[w].event = workers[w].event /\ workers'[w].fetched = workers[w].fetched
       /\ workers'[w].stamp = workers[w].stamp
    \/ /\ workers[w].pc = "fetch" /\ workers'[w].event = workers[w].event
       /\ workers'[w].stamp = now

LEMMA HandStep ==
  ASSUME TypeOK, TasksOK, [Next]_vars
  PROVE  HandMoves
<1>1. ASSUME NEW w \in Workers, NEW r \in WorkerRecords, workers' = [workers EXCEPT ![w] = r],
             \/ r.fetched = <<>>
             \/ /\ r.event = workers[w].event /\ r.fetched = workers[w].fetched
                /\ r.stamp = workers[w].stamp
             \/ workers[w].pc = "fetch" /\ r.event = workers[w].event /\ r.stamp = now
      PROVE  HandMoves
  BY <1>1 DEF HandMoves, TypeOK
<1>2. ASSUME NEW w \in Workers, NEW retryable \in BOOLEAN, workers[w].pc \in Attempting,
             Fails(w, retryable)
      PROVE  HandMoves
  <2>1. workers[w].event \in Events
    BY <1>2, WorkGood DEF WorkingPcs
  <2>. QED  BY <1>1, <1>2, <2>1, FailsGood
<1>3. ASSUME NEW w \in Workers, NEW todo \in SUBSET Events, NEW r \in NextOf(w, todo),
             workers' = [workers EXCEPT ![w] = r]
      PROVE  HandMoves
  <2>1. r \in WorkerRecords /\ r.fetched = <<>>
    BY <1>3, NextOfGood
  <2>. QED  BY <1>1, <1>3, <2>1
<1>4. ASSUME NEW w \in Workers, WorkerStep(w) PROVE HandMoves
  <2>1. CASE Claim(w)
    <3>1. CASE Took(w, workers[w].event)
      BY <1>1, <3>1 DEF Took
    <3>2. CASE MovedOn(w)
      BY <1>3, <3>2, WorkGood DEF MovedOn, Becomes
    <3>. QED  BY <2>1, <3>1, <3>2, ClaimEffect
  <2>2. CASE Fetch(w)
    <3>1. PICK r \in WorkerRecords : /\ workers' = [workers EXCEPT ![w] = r] /\ r.stamp = now
                                     /\ r.event = workers[w].event
      BY <2>2, FetchEffect
    <3>. QED  BY <1>1, <2>2, <3>1 DEF Fetch
  <2>3. CASE Load(w)
    <3>1. PICK r \in WorkerRecords :
            /\ workers' = [workers EXCEPT ![w] = r] /\ r.event = workers[w].event
            /\ r.fetched = workers[w].fetched /\ r.stamp = workers[w].stamp
      BY <2>3, LoadEffect
    <3>. QED  BY <1>1, <3>1
  <2>4. CASE Lock(w)
    <3>1. CASE Fails(w, TRUE)
      BY <1>2, <2>4, <3>1 DEF Lock, Attempting
    <3>2. ASSUME NEW r \in WorkerRecords, workers' = [workers EXCEPT ![w] = r],
                 r.event = workers[w].event, r.fetched = workers[w].fetched,
                 r.stamp = workers[w].stamp
          PROVE  HandMoves
      BY <1>1, <3>2
    <3>. QED  BY <2>4, <3>1, <3>2, LockEffect
  <2>5. CASE Commit(w)
    <3>1. CASE Fails(w, TRUE)
      BY <1>2, <2>5, <3>1 DEF Commit, Attempting
    <3>2. CASE Wrote(w)
      BY <1>3, <3>2, WorkGood DEF Wrote, Becomes
    <3>. QED  BY <2>5, <3>1, <3>2, CommitEffect
  <2>6. CASE AttemptFails(w)
    BY <1>2, <2>6 DEF AttemptFails
  <2>7. CASE Mark(w)
    <3>1. PICK r \in WorkerRecords : workers' = [workers EXCEPT ![w] = r] /\ r.fetched = <<>>
      BY <2>7, MarkEffect
    <3>. QED  BY <1>1, <3>1
  <2>8. CASE ListPending(w)
    <3>1. PICK S \in SUBSET Events : \E r \in NextOf(w, S) : workers' = [workers EXCEPT ![w] = r]
      BY <2>8 DEF ListPending
    <3>. QED  BY <1>3, <3>1
  <2>. QED  BY <1>4, <2>1, <2>2, <2>3, <2>4, <2>5, <2>6, <2>7, <2>8 DEF WorkerStep
<1>5. ASSUME NEW w \in Workers, StartSweep(w) PROVE HandMoves
  <2>1. PICK r : r = [workers[w] EXCEPT !.pc = "list"]
    OBVIOUS
  <2>2. /\ r \in WorkerRecords /\ r.event = workers[w].event /\ r.fetched = workers[w].fetched
        /\ r.stamp = workers[w].stamp
    BY <2>1, WorkGood DEF WorkerRecords
  <2>3. workers' = [workers EXCEPT ![w] = r]
    BY <1>5, <2>1 DEF StartSweep
  <2>. QED  BY <1>1, <2>2, <2>3
<1>6. ASSUME NEW w \in Workers, Crash(w) PROVE HandMoves
  <2>1. Idle.fetched = <<>>
    BY DEF Idle
  <2>. QED  BY <1>1, <1>6, <2>1, IdleGood DEF Crash
<1>7. ASSUME NEW w \in Workers, NEW e \in Events, Deliver(w, e) PROVE HandMoves
  <2>1. StartOn(w, e, {}) \in WorkerRecords /\ StartOn(w, e, {}).fetched = <<>>
    BY StartOnGood DEF StartOn, Idle
  <2>2. workers' = [workers EXCEPT ![w] = StartOn(w, e, {})]
    BY <1>7 DEF Deliver
  <2>. QED  BY <1>1, <2>1, <2>2
<1>8. CASE UNCHANGED workers
  BY <1>8 DEF HandMoves
<1>9. ASSUME NEW e \in Events, Age(e) PROVE UNCHANGED workers
  BY <1>9 DEF Age
<1>10. ASSUME NEW x \in Entities, ProviderMoves(x) PROVE UNCHANGED workers
  BY <1>10 DEF ProviderMoves
<1>11. CASE Tick \/ UNCHANGED vars
  BY <1>8, <1>11 DEF Tick, vars
<1>. QED  BY <1>4, <1>5, <1>6, <1>7, <1>8, <1>9, <1>10, <1>11 DEF Next

(* Time and the provider's state go forward.                               *)
LEMMA Forward ==
  ASSUME TypeOK, [Next]_vars
  PROVE  /\ now \in Nat /\ now' \in Nat /\ now <= now'
         /\ \A x \in Entities : provider[x].version > 0 =>
               provider'[x].version > 0 /\ provider'[x].created = provider[x].created
<1>1. now \in Nat /\ now' \in Nat /\ now <= now'
  <2>1. now' = now \/ now' = now + 1
    BY DEF Next, vars, WorkerStep, Claim, Fetch, Load, Lock, Commit, AttemptFails, Mark,
      ListPending, StartSweep, Crash, Deliver, Age, ProviderMoves, Tick
  <2>. QED  BY <2>1 DEF TypeOK
<1>2. ASSUME NEW x \in Entities, provider[x].version > 0
      PROVE  provider'[x].version > 0 /\ provider'[x].created = provider[x].created
  <2>1. provider[x] \in [version : Nat, created : Nat]
    BY DEF TypeOK
  <2>2. ASSUME NEW y \in Entities, ProviderMoves(y)
        PROVE  provider'[x].version > 0 /\ provider'[x].created = provider[x].created
    BY <1>2, <2>1, <2>2 DEF ProviderMoves, TypeOK
  <2>3. CASE UNCHANGED provider
    BY <1>2, <2>3
  <2>4. UNCHANGED provider \/ \E y \in Entities : ProviderMoves(y)
    BY DEF Next, vars, WorkerStep, Claim, Fetch, Load, Lock, Commit, AttemptFails, Mark,
      ListPending, StartSweep, Crash, Deliver, Age, Tick
  <2>. QED  BY <2>2, <2>3, <2>4
<1>. QED  BY <1>1, <1>2

(* An event that comes in is received after its entities came to be; its   *)
(* row is made by Deliver alone.                                           *)
Arrives(e) ==
  /\ events'[e].received <= now'
  /\ \A x \in Image(Reads[e]) :
       provider'[x].version > 0 /\ provider'[x].created <= events'[e].received

LEMMA Arrivals ==
  ASSUME TypeOK, TasksOK, [Next]_vars, NEW e \in Events,
         events[e].status = "ABSENT", events'[e].status # "ABSENT"
  PROVE  Arrives(e)
<1>1. ASSUME NEW w \in Workers, WorkerStep(w) PROVE events'[e].status = "ABSENT"
  <2>1. CASE Claim(w)
    <3>1. CASE Took(w, workers[w].event)
      BY <3>1 DEF Took, Pending, TypeOK
    <3>. QED  BY <2>1, <3>1, ClaimEffect DEF MovedOn
  <2>2. CASE Fetch(w) \/ Load(w) \/ Lock(w) \/ AttemptFails(w) \/ ListPending(w)
    BY <2>2 DEF Fetch, Load, Lock, AttemptFails, ListPending
  <2>3. CASE Commit(w)
    <3>1. workers[w].event # e
      BY <2>3, WorkGood DEF Commit, WorkingPcs, Attempting
    <3>2. CASE Wrote(w)
      BY <3>1, <3>2 DEF Wrote, TypeOK
    <3>. QED  BY <2>3, <3>2, CommitEffect
  <2>4. CASE Mark(w)
    <3>1. workers[w].event # e
      BY <2>4, WorkGood DEF Mark, WorkingPcs
    <3>. QED  BY <2>4, <3>1 DEF Mark, TypeOK
  <2>. QED  BY <1>1, <2>1, <2>2, <2>3, <2>4 DEF WorkerStep
<1>2. ASSUME NEW w \in Workers, StartSweep(w) PROVE events'[e].status = "ABSENT"
  BY <1>2 DEF StartSweep
<1>3. ASSUME NEW d \in Events, Age(d) PROVE events'[e].status = "ABSENT"
  BY <1>3 DEF Age, TypeOK
<1>4. ASSUME NEW w \in Workers, NEW d \in Events, Deliver(w, d) PROVE Arrives(e)
  <2>1. UNCHANGED <<provider, now>> /\ now \in Nat
    BY <1>4 DEF Deliver, TypeOK
  <2>2. d = e
    BY <1>4 DEF Deliver, TypeOK
  <2>3. /\ \A x \in Image(Reads[e]) : provider[x].version > 0
        /\ \E r \in {now, now - 1} \cap Nat :
             /\ \A x \in Image(Reads[e]) : provider[x].created <= r
             /\ events' = [events EXCEPT ![e] = Stored(r)]
    BY <1>4, <2>2 DEF Deliver, Pending
  <2>. QED  BY <2>1, <2>3 DEF Arrives, Stored, TypeOK
<1>5. CASE UNCHANGED events
  BY <1>5
<1>6. ASSUME NEW w \in Workers, Crash(w) PROVE UNCHANGED events
  BY <1>6 DEF Crash
<1>7. ASSUME NEW x \in Entities, ProviderMoves(x) PROVE UNCHANGED events
  BY <1>7 DEF ProviderMoves
<1>8. CASE Tick \/ UNCHANGED vars
  BY <1>5, <1>8 DEF Tick, vars
<1>. QED  BY <1>1, <1>2, <1>3, <1>4, <1>5, <1>6, <1>7, <1>8 DEF Next

LEMMA ReceiptsStep ==
  ASSUME TypeOK, TasksOK, ObservationsOK, [Next]_vars
  PROVE  ObservationsOK'
<1>1. HandMoves /\ StoredStay
  BY HandStep, StoredKept
<1>2. /\ now \in Nat /\ now' \in Nat /\ now <= now'
      /\ \A x \in Entities : provider[x].version > 0 =>
               provider'[x].version > 0 /\ provider'[x].created = provider[x].created
  BY Forward
<1>3. ASSUME NEW w \in Workers PROVE HandOK(w)'
  <2>1. /\ workers[w] \in WorkerRecords /\ workers[w].stamp \in Nat
        /\ \A e \in Events : events[e].received \in Nat
    BY WorkGood DEF TypeOK, WorkerRecords, EventRecords
  <2>2. HandOK(w)
    BY DEF ObservationsOK
  <2>3. CASE workers'[w].fetched = <<>>
    BY <2>3 DEF HandOK
  <2>4. CASE /\ workers'[w].event = workers[w].event /\ workers'[w].fetched = workers[w].fetched
             /\ workers'[w].stamp = workers[w].stamp
    BY <1>1, <1>2, <2>1, <2>2, <2>4 DEF HandOK, StoredStay
  <2>5. CASE /\ workers[w].pc = "fetch" /\ workers'[w].event = workers[w].event
             /\ workers'[w].stamp = now
    <3>1. workers[w].event \in Events /\ events[workers[w].event].status # "ABSENT"
      BY <2>5, WorkGood DEF WorkingPcs, Attempting
    <3>2. events[workers[w].event].received <= now
      BY <3>1 DEF ObservationsOK, ObservationOK
    <3>. QED  BY <1>1, <1>2, <2>1, <2>5, <3>1, <3>2 DEF HandOK, StoredStay
  <2>. QED  BY <1>1, <2>3, <2>4, <2>5 DEF HandMoves
<1>4. ASSUME NEW e \in Events PROVE ObservationOK(e)'
  <2>1. CASE events[e].status = "ABSENT"
    BY <2>1, Arrivals DEF ObservationOK, Arrives
  <2>2. CASE events[e].status # "ABSENT"
    <3>1. Image(Reads[e]) \subseteq Entities
      BY ReadsAssumption DEF Image
    <3>2. events[e].received \in Nat /\ \A x \in Entities : provider[x].created \in Nat
      BY DEF TypeOK, EventRecords
    <3>. QED  BY <1>1, <1>2, <2>2, <3>1, <3>2 DEF ObservationsOK, ObservationOK, StoredStay
  <2>. QED  BY <2>1, <2>2
<1>. QED  BY <1>3, <1>4 DEF ObservationsOK

LEMMA SkippedStep ==
  ASSUME TypeOK, TasksOK, SkippedOK, [Next]_vars
  PROVE  SkippedOK'
<1>1. ASSUME NEW w \in Workers, NEW r \in WorkerRecords, workers' = [workers EXCEPT ![w] = r],
             r.pc = "mark" /\ r.outcome = "SKIPPED" => Reads[r.event] = <<>>,
             \A e \in Events : events'[e].status = "SKIPPED" =>
                               events[e].status = "SKIPPED" \/ Reads[e] = <<>>
      PROVE  SkippedOK'
  BY <1>1 DEF SkippedOK, TypeOK
<1>2. ASSUME NEW w \in Workers, NEW retryable \in BOOLEAN, workers[w].pc \in Attempting,
             Fails(w, retryable), UNCHANGED events
      PROVE  SkippedOK'
  <2>1. workers[w].event \in Events
    BY <1>2, WorkGood DEF WorkingPcs
  <2>2. PICK r \in WorkerRecords :
          workers' = [workers EXCEPT ![w] = r] /\ r.outcome \in {"RETRY", "FAILED"}
    BY <1>2, <2>1, FailsGood
  <2>. QED  BY <1>1, <1>2, <2>2
<1>3. ASSUME NEW w \in Workers, NEW todo \in SUBSET Events, NEW r \in NextOf(w, todo),
             workers' = [workers EXCEPT ![w] = r],
             \A e \in Events : events'[e].status = "SKIPPED" =>
                               events[e].status = "SKIPPED" \/ Reads[e] = <<>>
      PROVE  SkippedOK'
  <2>1. r \in WorkerRecords /\ r.pc # "mark"
    BY <1>3, NextOfGood
  <2>. QED  BY <1>1, <1>3, <2>1
<1>4. ASSUME NEW w \in Workers, WorkerStep(w) PROVE SkippedOK'
  <2>1. CASE Claim(w)
    <3>1. CASE Took(w, workers[w].event)
      <4>1. PICK r \in WorkerRecords :
              /\ workers' = [workers EXCEPT ![w] = r]
              /\ r.pc = "mark" /\ r.outcome = "SKIPPED" => Reads[r.event] = <<>>
        BY <3>1 DEF Took
      <4>2. \A e \in Events : events'[e].status = "SKIPPED" => events[e].status = "SKIPPED"
        BY <3>1 DEF Took, TypeOK
      <4>. QED  BY <1>1, <4>1, <4>2
    <3>2. CASE MovedOn(w)
      BY <1>3, <3>2, WorkGood DEF MovedOn, Becomes
    <3>. QED  BY <2>1, <3>1, <3>2, ClaimEffect
  <2>2. CASE Fetch(w)
    <3>1. PICK r \in WorkerRecords : /\ workers' = [workers EXCEPT ![w] = r]
                                     /\ r.pc \in {"load", "fetch"}
      BY <2>2, FetchEffect
    <3>. QED  BY <1>1, <2>2, <3>1 DEF Fetch
  <2>3. CASE Load(w)
    <3>1. PICK r \in WorkerRecords : workers' = [workers EXCEPT ![w] = r] /\ r.pc = "lock"
      BY <2>3, LoadEffect
    <3>. QED  BY <1>1, <2>3, <3>1 DEF Load
  <2>4. CASE Lock(w)
    <3>1. CASE Fails(w, TRUE)
      BY <1>2, <2>4, <3>1 DEF Lock, Attempting
    <3>2. ASSUME NEW r \in WorkerRecords, workers' = [workers EXCEPT ![w] = r], r.pc = "commit"
          PROVE  SkippedOK'
      BY <1>1, <2>4, <3>2 DEF Lock
    <3>. QED  BY <2>4, <3>1, <3>2, LockEffect
  <2>5. CASE Commit(w)
    <3>1. CASE Fails(w, TRUE) /\ UNCHANGED events
      BY <1>2, <2>5, <3>1 DEF Commit, Attempting
    <3>2. CASE Wrote(w)
      <4>1. \A e \in Events : events'[e].status = "SKIPPED" => events[e].status = "SKIPPED"
        BY <3>2 DEF Wrote, Completed, TypeOK, EventRecords
      <4>. QED  BY <1>3, <3>2, <4>1, WorkGood DEF Wrote, Becomes
    <3>. QED  BY <2>5, <3>1, <3>2, CommitEffect
  <2>6. CASE AttemptFails(w)
    BY <1>2, <2>6 DEF AttemptFails
  <2>7. CASE Mark(w)
    <3>1. PICK r \in WorkerRecords :
            workers' = [workers EXCEPT ![w] = r] /\ r.pc \in {"idle", "claim"}
      BY <2>7, MarkEffect
    <3>2. /\ workers[w].event \in Events /\ workers[w].pc = "mark"
          /\ events' = [events EXCEPT ![workers[w].event].status = workers[w].outcome,
                                      ![workers[w].event].aged = FALSE]
      BY <2>7, MarkEffect
    <3>3. \A e \in Events : events'[e].status = "SKIPPED" =>
                            events[e].status = "SKIPPED" \/ Reads[e] = <<>>
      BY <3>2 DEF SkippedOK, TypeOK, EventRecords
    <3>. QED  BY <1>1, <3>1, <3>3
  <2>8. CASE ListPending(w)
    <3>1. PICK S \in SUBSET Events : \E r \in NextOf(w, S) : workers' = [workers EXCEPT ![w] = r]
      BY <2>8 DEF ListPending
    <3>. QED  BY <1>3, <2>8, <3>1 DEF ListPending
  <2>. QED  BY <1>4, <2>1, <2>2, <2>3, <2>4, <2>5, <2>6, <2>7, <2>8 DEF WorkerStep
<1>5. ASSUME NEW w \in Workers, StartSweep(w) PROVE SkippedOK'
  <2>1. PICK r : r = [workers[w] EXCEPT !.pc = "list"]
    OBVIOUS
  <2>2. r \in WorkerRecords /\ r.pc = "list"
    BY <2>1, WorkGood DEF WorkerRecords
  <2>3. workers' = [workers EXCEPT ![w] = r]
    BY <1>5, <2>1 DEF StartSweep
  <2>4. \A e \in Events : events'[e].status = "SKIPPED" => events[e].status = "SKIPPED"
    BY <1>5 DEF StartSweep, TypeOK, EventRecords
  <2>. QED  BY <1>1, <2>2, <2>3, <2>4
<1>6. ASSUME NEW w \in Workers, Crash(w) PROVE SkippedOK'
  <2>1. Idle.pc = "idle"
    BY DEF Idle
  <2>. QED  BY <1>1, <1>6, <2>1, IdleGood DEF Crash
<1>7. ASSUME NEW w \in Workers, NEW e \in Events, Deliver(w, e) PROVE SkippedOK'
  <2>1. StartOn(w, e, {}) \in WorkerRecords /\ StartOn(w, e, {}).pc = "claim"
    BY StartOnGood DEF StartOn, Idle
  <2>2. workers' = [workers EXCEPT ![w] = StartOn(w, e, {})]
    BY <1>7 DEF Deliver
  <2>3. \A d \in Events : events'[d].status = "SKIPPED" => events[d].status = "SKIPPED"
    <3>1. CASE UNCHANGED events
      BY <3>1
    <3>2. ASSUME NEW n \in Nat, events' = [events EXCEPT ![e] = Stored(n)]
          PROVE  \A d \in Events : events'[d].status = "SKIPPED" => events[d].status = "SKIPPED"
      <4>1. Stored(n).status = "RECEIVED"
        BY DEF Stored
      <4>. QED  BY <3>2, <4>1 DEF TypeOK
    <3>. QED  BY <1>7, <3>1, <3>2 DEF Deliver
  <2>. QED  BY <1>1, <2>1, <2>2, <2>3
<1>8. ASSUME UNCHANGED workers,
             \A e \in Events : events'[e].status = "SKIPPED" => events[e].status = "SKIPPED"
      PROVE  SkippedOK'
  BY <1>8 DEF SkippedOK
<1>9. ASSUME NEW e \in Events, Age(e) PROVE SkippedOK'
  <2>1. \A d \in Events : events'[d].status = events[d].status
    BY <1>9 DEF Age, TypeOK, EventRecords
  <2>. QED  BY <1>8, <1>9, <2>1 DEF Age
<1>10. ASSUME NEW x \in Entities, ProviderMoves(x) PROVE SkippedOK'
  BY <1>8, <1>10 DEF ProviderMoves
<1>11. CASE Tick \/ UNCHANGED vars
  BY <1>8, <1>11 DEF Tick, vars
<1>. QED  BY <1>4, <1>5, <1>6, <1>7, <1>9, <1>10, <1>11 DEF Next

-----------------------------------------------------------------------------
(* A step writes no observation but that of a task at its commit.          *)
Observes(e) ==
  \E w \in Workers :
    /\ workers[w].pc = "commit" /\ workers[w].event = e /\ observed[e] = None
    /\ observed'[e] = Observation(w)

LEMMA ObservedSteps ==
  ASSUME TypeOK, TasksOK, [Next]_vars, NEW e \in Events
  PROVE  observed'[e] = observed[e] \/ Observes(e)
<1>1. ASSUME NEW w \in Workers, Commit(w) PROVE observed'[e] = observed[e] \/ Observes(e)
  <2>1. CASE Wrote(w)
    <3>1. workers[w].pc = "commit" /\ workers[w].event \in Events
      BY <1>1, WorkGood DEF Commit, WorkingPcs, Attempting
    <3>2. observed' = [observed EXCEPT ![workers[w].event] = ObservationOf(w)]
      BY <2>1 DEF Wrote
    <3>3. CASE e # workers[w].event
      BY <3>1, <3>2, <3>3 DEF TypeOK
    <3>4. CASE e = workers[w].event
      <4>1. observed'[e] = ObservationOf(w)
        BY <3>2, <3>4 DEF TypeOK
      <4>. QED  BY <3>1, <3>4, <4>1 DEF ObservationOf, Observes
    <3>. QED  BY <3>3, <3>4
  <2>. QED  BY <1>1, <2>1, CommitEffect
<1>2. UNCHANGED observed \/ \E w \in Workers : Commit(w)
  BY DEF Next, vars, WorkerStep, Claim, Fetch, Load, Lock, AttemptFails, Mark, ListPending,
    StartSweep, Crash, Deliver, Age, ProviderMoves, Tick
<1>. QED  BY <1>1, <1>2

LEMMA SettledStays ==
  ASSUME TypeOK, TasksOK, ObservationsOK, IInv, [Next]_vars, UNCHANGED snapshot,
         snapshot.asOf \in Nat, snapshot.asOf < now, NEW e \in Events, Settled(e)
  PROVE  Settled(e)'
<1>1. HandMoves /\ StoredStay /\ ObservationStays
  BY HandStep, StoredKept, StepStaysDecided
<1>2. ASSUME NEW w \in Workers, workers'[w].event = e, workers'[w].fetched # <<>>
      PROVE  /\ events[e].status # "ABSENT"
             /\ \/ workers'[w].stamp > snapshot.asOf
                \/ /\ workers[w].event = e /\ workers[w].fetched # <<>>
                   /\ workers'[w].stamp = workers[w].stamp
  <2>1. CASE workers[w].pc = "fetch" /\ workers[w].event = e /\ workers'[w].stamp = now
    <3>1. events[e].status # "ABSENT"
      BY <2>1, WorkGood DEF WorkingPcs, Attempting
    <3>. QED  BY <2>1, <3>1 DEF TypeOK
  <2>2. CASE /\ workers[w].event = e /\ workers[w].fetched # <<>>
             /\ workers'[w].stamp = workers[w].stamp
    BY <2>2 DEF ObservationsOK, HandOK
  <2>. QED  BY <1>1, <1>2, <2>1, <2>2 DEF HandMoves
<1>3. CASE observed[e] # None
  BY <1>1, <1>3 DEF ObservationStays, Settled
<1>4. CASE Reads[e] = <<>>
  BY <1>4 DEF Settled
<1>5. CASE ~Within(events[e].received, snapshot.asOf) /\ events[e].status # "ABSENT"
  BY <1>1, <1>5 DEF StoredStay, Settled, Within
<1>6. CASE events[e].status = "ABSENT"
  BY <1>2, <1>6 DEF Settled
<1>7. CASE \A w \in Workers :
             workers[w].event = e /\ workers[w].fetched # <<>> => workers[w].stamp > snapshot.asOf
  BY <1>2, <1>7 DEF Settled
<1>. QED  BY <1>3, <1>4, <1>5, <1>6, <1>7 DEF Settled

(* A snapshot that passes has seen every event in its window settled.      *)
LEMMA PassingSettles ==
  ASSUME TypeOK, EventsOK, SkippedOK, ObservationsOK, SnapshotOK, ReadUnresolved, Passed',
         NEW e \in Events
  PROVE  Settled(e)'
<1>1. /\ snapshot'.asOf = snapshot.asOf /\ snapshot'.unresolved = Unresolved(snapshot.asOf)
      /\ UNCHANGED <<observed, events, workers>>
  BY DEF ReadUnresolved, SnapshotOK, vars
<1>2. e \notin Unresolved(snapshot.asOf)
  BY <1>1 DEF Passed
<1>3. CASE events[e].status \in {"PROCESSED", "SKIPPED"}
  BY <1>1, <1>3 DEF Settled, EventsOK, EventOK, SkippedOK
<1>4. CASE events[e].status = "ABSENT"
  BY <1>1, <1>4 DEF Settled, ObservationsOK, HandOK
<1>5. CASE ~Within(events[e].received, snapshot.asOf)
  BY <1>1, <1>5 DEF Settled, Within
<1>. QED  BY <1>2, <1>3, <1>4, <1>5 DEF Unresolved, Resolved

LEMMA TimelineStep == TimelineInv /\ [TimelineNext]_timelineVars => TimelineInv'
<1>. SUFFICES ASSUME TimelineInv, [TimelineNext]_timelineVars PROVE TimelineInv'
  OBVIOUS
<1>. USE DEF TimelineInv
<1>1. CASE [Next]_vars /\ UNCHANGED snapshot
  <2>1. TypeOK /\ TasksOK /\ EventsOK
    BY DEF IInv
  <2>2. IInv' /\ SkippedOK' /\ ObservationsOK'
    BY <1>1, <2>1, InvStep, SkippedStep, ReceiptsStep
  <2>3. SnapshotOK'
    BY <1>1, <2>1, Forward DEF SnapshotOK
  <2>4. ASSUME Passed', NEW e \in Events PROVE Settled(e)'
    <3>1. Passed /\ snapshot.asOf \in Nat /\ snapshot.asOf < now
      BY <1>1, <2>4 DEF Passed, SnapshotOK
    <3>2. Settled(e)
      BY <3>1 DEF PassedIsSettled
    <3>. QED  BY <1>1, <2>1, <3>1, <3>2, SettledStays
  <2>. QED  BY <2>2, <2>3, <2>4 DEF PassedIsSettled
<1>2. ASSUME BeginSnapshot \/ ReadTable \/ ReadUnresolved
      PROVE  IInv' /\ SkippedOK' /\ ObservationsOK'
  <2>1. UNCHANGED vars
    BY <1>2 DEF BeginSnapshot, ReadTable, ReadUnresolved
  <2>2. IInv'
    BY <2>1, InvStep
  <2>3. SkippedOK' /\ ObservationsOK'
    BY <2>1 DEF SkippedOK, ObservationsOK, HandOK, ObservationOK, vars
  <2>. QED  BY <2>2, <2>3
<1>3. CASE BeginSnapshot
  <2>1. PICK t \in 0 .. now - 1 : snapshot' = [NoSnapshot EXCEPT !.pc = "tables", !.asOf = t]
    BY <1>3 DEF BeginSnapshot
  <2>2. UNCHANGED now
    BY <1>3 DEF BeginSnapshot, vars
  <2>3. t \in Nat /\ t < now'
    BY <2>2 DEF IInv, TypeOK
  <2>4. snapshot' = [pc |-> "tables", asOf |-> t, read |-> 0, contents |-> {},
                    unresolved |-> {}]
    BY <2>1 DEF NoSnapshot
  <2>5. SnapshotOK' /\ ~Passed'
    BY <2>3, <2>4 DEF SnapshotOK, Passed
  <2>. QED  BY <1>2, <1>3, <2>5 DEF PassedIsSettled
<1>4. CASE ReadTable
  <2>1. SnapshotOK' /\ ~Passed'
    BY <1>4 DEF ReadTable, SnapshotOK, Passed, vars
  <2>. QED  BY <1>2, <1>4, <2>1 DEF PassedIsSettled
<1>5. CASE ReadUnresolved
  <2>1. SnapshotOK'
    BY <1>5 DEF ReadUnresolved, SnapshotOK, vars
  <2>2. ASSUME Passed', NEW e \in Events PROVE Settled(e)'
    BY <1>5, <2>2, PassingSettles DEF IInv
  <2>. QED  BY <1>2, <1>5, <2>1, <2>2 DEF PassedIsSettled
<1>. QED  BY <1>1, <1>3, <1>4, <1>5 DEF TimelineNext, timelineVars

LEMMA TimelineStart == TimelineInit => TimelineInv
<1>. SUFFICES ASSUME TimelineInit PROVE TimelineInv
  OBVIOUS
<1>1. IInv
  BY InvInit DEF TimelineInit
<1>2. SkippedOK /\ ObservationsOK
  <2>1. /\ \A w \in Workers : workers[w] = Idle
        /\ \A e \in Events : events[e] = Absent
    BY DEF TimelineInit, Init
  <2>. QED  BY <2>1 DEF SkippedOK, ObservationsOK, HandOK, ObservationOK, Idle, Absent
<1>3. SnapshotOK /\ ~Passed
  BY DEF TimelineInit, NoSnapshot, SnapshotOK, Passed
<1>. QED  BY <1>1, <1>2, <1>3 DEF TimelineInv, PassedIsSettled
-----------------------------------------------------------------------------
(* The rows of a cutoff only grow, and not in the window of a cutoff that  *)
(* has passed: an entity of a row that is new to it came to be before.     *)
LEMMA RowOfSelected ==
  ASSUME TypeOK, EventsOK, ObservationsOK, NEW a \in Nat, NEW r \in Rows(Entities, a)
  PROVE  r.entity \in Entities /\ provider[r.entity].version > 0
<1>1. PICK o \in Selected(Entities, a) : r = Row(o)
  BY DEF Rows
<1>2. o \in [entity : Entities, event : Events] /\ observed[o.event] # None
      /\ o.entity \in Image(Reads[o.event])
  BY DEF Selected
<1>3. r.entity = o.entity /\ o.entity \in Entities /\ o.event \in Events
  BY <1>1, <1>2 DEF Row
<1>4. events[o.event].status # "ABSENT"
  BY <1>2, <1>3 DEF EventsOK, EventOK
<1>. QED  BY <1>2, <1>3, <1>4 DEF ObservationsOK, ObservationOK

LEMMA RowsKept ==
  ASSUME ObservationStays, NEW a \in Nat, NEW o \in [entity : Entities, event : Events],
         observed[o.event] # None
  PROVE  /\ Row(o)' = Row(o)
         /\ o \in Selected(Entities, a) <=> (o \in Selected(Entities, a))'
<1>1. observed'[o.event] = observed[o.event]
  BY DEF ObservationStays
<1>2. VersionIn(o)' = VersionIn(o)
  BY <1>1 DEF VersionIn
<1>. QED  BY <1>1, <1>2 DEF Row, Selected

LEMMA NewRows ==
  ASSUME TimelineInv, Passed, [Next]_vars, NEW a \in Nat, snapshot.asOf = a
  PROVE  /\ Rows(Entities, a) \subseteq Rows(Entities, a)'
         /\ \A r \in Rows(Entities, a)' :
              \/ r \in Rows(Entities, a)
              \/ r.entity \in Entities /\ ~Within(provider[r.entity].created, a)
                   /\ provider[r.entity].version > 0
<1>. USE DEF TimelineInv, IInv
<1>1. ObservationStays
  BY StepStaysDecided
<1>2. ASSUME NEW r \in Rows(Entities, a) PROVE r \in Rows(Entities, a)'
  <2>1. PICK o \in Selected(Entities, a) : r = Row(o)
    BY DEF Rows
  <2>2. o \in [entity : Entities, event : Events] /\ observed[o.event] # None
    BY DEF Selected
  <2>3. r = Row(o)' /\ (o \in Selected(Entities, a))'
    BY <1>1, <2>1, <2>2, RowsKept
  <2>. QED  BY <2>3 DEF Rows
<1>3. ASSUME NEW r \in Rows(Entities, a)', r \notin Rows(Entities, a)
      PROVE  r.entity \in Entities /\ ~Within(provider[r.entity].created, a)
               /\ provider[r.entity].version > 0
  <2>1. PICK o : (o \in Selected(Entities, a))' /\ r = Row(o)'
    BY DEF Rows
  <2>2. /\ o \in [entity : Entities, event : Events] /\ observed'[o.event] # None
        /\ o.entity \in Image(Reads[o.event]) /\ Within(observed'[o.event].stamp, a)
    BY <2>1 DEF Selected
  <2>3. o.entity \in Entities /\ o.event \in Events /\ r.entity = o.entity
    BY <2>1, <2>2 DEF Row
  <2>4. observed[o.event] = None
    BY <1>1, <1>3, <2>1, <2>2, RowsKept DEF Rows
  <2>5. PICK w \in Workers :
          /\ workers[w].pc = "commit" /\ workers[w].event = o.event
          /\ observed'[o.event] = Observation(w)
    BY <2>2, <2>3, <2>4, ObservedSteps DEF Observes
  <2>6. workers[w].fetched # <<>> /\ Len(workers[w].fetched) = Len(Reads[o.event])
    BY <2>5, WorkGood DEF TaskOK
  <2>7. Reads[o.event] # <<>> /\ workers[w].stamp <= a
    <3>1. workers[w].fetched \in Seq(Nat)
      BY WorkGood DEF WorkerRecords
    <3>2. Observation(w).stamp = workers[w].stamp
      BY DEF Observation
    <3>. QED  BY <2>2, <2>5, <2>6, <3>1, <3>2 DEF Within
  <2>8. /\ events[o.event].status # "ABSENT" /\ events[o.event].received <= workers[w].stamp
        /\ workers[w].stamp \in Nat /\ events[o.event].received \in Nat
    BY <2>3, <2>5, <2>6, WorkGood DEF ObservationsOK, HandOK, WorkerRecords, TypeOK, EventRecords
  <2>9. ~Within(events[o.event].received, a)
    <3>1. Settled(o.event)
      BY <2>3 DEF PassedIsSettled
    <3>2. ~(workers[w].stamp > a)
      BY <2>7, <2>8
    <3>. QED  BY <2>4, <2>5, <2>6, <2>7, <3>1, <3>2 DEF Settled
  <2>10. /\ provider[o.entity].version > 0 /\ provider[o.entity].created \in Nat
         /\ provider[o.entity].created <= events[o.event].received
    BY <2>2, <2>3, <2>8 DEF ObservationsOK, ObservationOK, TypeOK
  <2>11. ~Within(provider[o.entity].created, a)
    BY <2>7, <2>8, <2>9, <2>10, TablesAssumption DEF Within
  <2>. QED  BY <2>3, <2>10, <2>11
<1>. QED  BY <1>2, <1>3

LEMMA ViewStays ==
  ASSUME TimelineInv, Passed, [Next]_vars, UNCHANGED snapshot
  PROVE  ViewNow(snapshot.asOf)' = ViewNow(snapshot.asOf)
<1>. USE DEF TimelineInv, IInv
<1>1. PICK a \in Nat : snapshot.asOf = a /\ snapshot'.asOf = a
  BY DEF Passed, SnapshotOK
<1>. DEFINE old == Rows(Entities, a)
            new == Rows(Entities, a)'
            In(x) == Within(provider[x].created, a)
<1>2. /\ old \subseteq new
      /\ \A r \in new : r \in old \/ ~In(r.entity)
      /\ \A r \in new : r.entity \in Entities /\ provider[r.entity].version > 0
  BY <1>1, NewRows, RowOfSelected
<1>3. \A r \in new : provider'[r.entity].created = provider[r.entity].created
  BY <1>2, Forward
<1>4. /\ ViewNow(a) = {r \in old : (\A q \in old : q.entity = r.entity => q.stamp <= r.stamp)
                                   /\ In(r.entity)}
      /\ ViewNow(a)' = {r \in new : (\A q \in new : q.entity = r.entity => q.stamp <= r.stamp)
                                    /\ Within(provider'[r.entity].created, a)}
  BY DEF ViewNow, View
<1>5. ViewNow(a)' = {r \in new : (\A q \in new : q.entity = r.entity => q.stamp <= r.stamp)
                                 /\ In(r.entity)}
  BY <1>3, <1>4
<1>. HIDE DEF old, new, In
<1>6. ViewNow(a)' = ViewNow(a)
  BY <1>2, <1>4, <1>5
<1>. QED  BY <1>1, <1>6

(* Once a snapshot has passed the firewall, nothing that commits later     *)
(* changes what its cutoff shows: every event received in its window is    *)
(* observed already, or will be observed as of a later time.               *)
THEOREM PassedIsFinal == TimelineSpec => PassedViewIsFinal
<1>1. TimelineInv /\ [TimelineNext]_timelineVars =>
        [Passed => ViewNow(snapshot.asOf)' = ViewNow(snapshot.asOf)]_timelineVars
  <2>. SUFFICES ASSUME TimelineInv, TimelineNext, Passed
                PROVE  ViewNow(snapshot.asOf)' = ViewNow(snapshot.asOf)
    BY DEF timelineVars
  <2>1. Next /\ UNCHANGED snapshot
    BY DEF TimelineNext, BeginSnapshot, ReadTable, ReadUnresolved, Passed
  <2>. QED  BY <2>1, ViewStays
<1>. QED
  BY <1>1, TimelineStart, TimelineStep, PTL DEF TimelineSpec, PassedViewIsFinal
=============================================================================
