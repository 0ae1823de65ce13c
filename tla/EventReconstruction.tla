------------------------ MODULE EventReconstruction ------------------------
(***************************************************************************)
(* Processor events on PostgreSQL: the webhook stores an event once and    *)
(* starts a background task; a task claims the event, fetches the entities *)
(* it names from the provider and writes rows, one observation and the     *)
(* event's status in one transaction (razorpay_processor.py,               *)
(* SqlRazorpayEventStore and SqlRazorpayReconstructionStore).  The sweep   *)
(* process_pending recovers stale claims and works through a list.         *)
(*                                                                         *)
(* An entity is a payment, refund, dispute or settlement; what the         *)
(* provider says of it is a version number.  Every task, whichever process *)
(* runs it, is a worker; its steps end where the code awaits a lock, the   *)
(* provider or a commit.                                                   *)
(***************************************************************************)
EXTENDS Integers, Sequences, FiniteSets

CONSTANTS
  Events, Entities, Workers,
  Reads,          \* for each event the entities fetched for it, in order; the
                  \* last one is the payment or settlement whose row is locked
  MaxAttempts,    \* RazorpayPaymentReconstructor.max_attempts
  SweepLimit,     \* process_pending(limit)
  None,
  MaxVersion, MaxSweeps, MaxCrashes, MaxStalls, MaxTime   \* bounds on the environment

ASSUME ReadsAssumption ==
  /\ Reads \in [Events -> Seq(Entities)]
  /\ MaxAttempts \in Nat

\* None is neither an observation nor an outcome.
ASSUME NoneAssumption ==
  None \notin [version : Seq(Nat), stamp : Nat] \cup {"FAILED", "SKIPPED", "RETRY"}

VARIABLES
  events,     \* processor_webhook_events
  rows,       \* the version each current-state row holds, 0 when there is none
  observed,   \* the observation rows of each event
  account,    \* does the merchant's processor account row exist?
  workers,    \* the tasks and what each has read
  provider,   \* the provider's version of each entity and when it came to be
  now, sweeps, crashes,
  stalls,     \* how often a live task has held a claim past stale_claim_seconds
  known,      \* history: the provider's versions when an event was received
  asked       \* history: how often the provider was asked on behalf of an event

counters == <<sweeps, crashes, stalls>>
vars == <<events, rows, observed, account, workers, provider, now, counters, known, asked>>

Statuses == {"ABSENT", "RECEIVED", "PROCESSING", "PROCESSED", "RETRY", "FAILED", "SKIPPED"}
Pending  == {"RECEIVED", "RETRY"}
Final    == {"PROCESSED", "FAILED", "SKIPPED"}

Image(s) == {s[i] : i \in DOMAIN s}
Locked(e) == Reads[e][Len(Reads[e])]
SmallerOf(a, b) == IF a < b THEN a ELSE b

Idle ==
  [pc |-> "idle", event |-> None, todo |-> {}, attempt |-> 0, fetched |-> <<>>,
   loaded |-> 0, accountSeen |-> FALSE, stamp |-> 0, outcome |-> None]

Absent == [status |-> "ABSENT", attempts |-> 0, received |-> 0, aged |-> FALSE]

Attempting == {"fetch", "load", "lock", "commit"}
Holds(w, e) == workers[w].event = e /\ workers[w].pc \in Attempting \cup {"mark"}

Init ==
  /\ events = [e \in Events |-> Absent]
  /\ rows = [x \in Entities |-> 0]
  /\ observed = [e \in Events |-> None]
  /\ account = FALSE
  /\ workers = [w \in Workers |-> Idle]
  /\ provider = [x \in Entities |-> [version |-> 0, created |-> 0]]
  /\ now = 0 /\ sweeps = 0 /\ crashes = 0 /\ stalls = 0
  /\ known = [e \in Events |-> [x \in Entities |-> 0]]
  /\ asked = [e \in Events |-> 0]

-----------------------------------------------------------------------------
(* The rest of a worker's list, earliest event first.                      *)
Earliest(S) == {e \in S : \A d \in S : events[e].received <= events[d].received}

StartOn(w, e, todo) == [Idle EXCEPT !.pc = "claim", !.event = e, !.todo = todo]

NextOf(w, todo) ==
  IF todo = {} THEN {Idle}
  ELSE {StartOn(w, e, todo \ {e}) : e \in Earliest(todo)}

(* SqlRazorpayEventStore.store: the row of a new event.                    *)
Stored(r) == [status |-> "RECEIVED", attempts |-> 0, received |-> r, aged |-> FALSE]

(* razorpay_webhook: the event is stored unless its provider id is known;  *)
(* a task is started unless it is beyond RETRY.  received_at is taken      *)
(* before the insert commits.                                              *)
Deliver(w, e) ==
  /\ workers[w].pc = "idle"
  /\ \A x \in Image(Reads[e]) : provider[x].version > 0
  /\ \/ /\ events[e].status = "ABSENT"
        /\ \E r \in {now, now - 1} \cap Nat :
             /\ \A x \in Image(Reads[e]) : provider[x].created <= r
             /\ events' = [events EXCEPT ![e] = Stored(r)]
        /\ known' = [known EXCEPT ![e] = [x \in Entities |-> provider[x].version]]
     \/ /\ events[e].status \in Pending
        /\ UNCHANGED <<events, known>>
  /\ workers' = [workers EXCEPT ![w] = StartOn(w, e, {})]
  /\ UNCHANGED <<rows, observed, account, provider, now, counters, asked>>

(* claim_event under FOR UPDATE; the budget is looked at after the claim.  *)
(* Mutants: a claim that takes an event others work on; a budget of one    *)
(* more attempt.                                                           *)
ClaimableAnyOpen == Pending \cup {"PROCESSING"}
AfterClaimGenerous(e, attempt) ==
  IF Reads[e] = <<>> THEN "SKIPPED"
  ELSE IF attempt > MaxAttempts + 1 THEN "FAILED" ELSE None

Claimable == Pending

AfterClaim(e, attempt) ==
  IF attempt > MaxAttempts THEN "FAILED"
  ELSE IF Reads[e] = <<>> THEN "SKIPPED" ELSE None

Claim(w) ==
  /\ workers[w].pc = "claim"
  /\ LET e == workers[w].event
         n == events[e].attempts + 1
         outcome == AfterClaim(e, n)
     IN \/ /\ events[e].status \in Claimable
           /\ events' = [events EXCEPT ![e].status = "PROCESSING", ![e].attempts = n,
                                       ![e].aged = FALSE]
           /\ workers' = [workers EXCEPT ![w].attempt = n, ![w].outcome = outcome,
                             ![w].pc = IF outcome = None THEN "fetch" ELSE "mark"]
        \/ /\ events[e].status \notin Claimable
           /\ \E next \in NextOf(w, workers[w].todo) : workers' = [workers EXCEPT ![w] = next]
           /\ UNCHANGED events
  /\ UNCHANGED <<rows, observed, account, provider, now, counters, known, asked>>

(* fetch_refund, fetch_dispute, fetch_payment, fetch_settlement; enriched_at*)
(* is taken when the last answer is normalised.                            *)
Fetch(w) ==
  /\ workers[w].pc = "fetch"
  /\ LET e == workers[w].event
         k == Len(workers[w].fetched) + 1
     IN /\ workers' = [workers EXCEPT
             ![w].fetched = Append(@, provider[Reads[e][k]].version),
             ![w].stamp = now,
             ![w].pc = IF k = Len(Reads[e]) THEN "load" ELSE "fetch"]
        /\ asked' = [asked EXCEPT ![e] = IF k = 1 THEN @ + 1 ELSE @]
  /\ UNCHANGED <<events, rows, observed, account, provider, now, counters, known>>

-----------------------------------------------------------------------------
(* complete_payment_event and its three siblings: one transaction.  The    *)
(* row is read without a lock; the flush before the next SELECT takes its  *)
(* lock or inserts it; everything else is read under that lock.            *)
Load(w) ==
  /\ workers[w].pc = "load"
  /\ workers' = [workers EXCEPT ![w].pc = "lock",
                                ![w].loaded = rows[Locked(workers[w].event)]]
  /\ UNCHANGED <<events, rows, observed, account, provider, now, counters, known, asked>>

LockFree(x) == \A v \in Workers : workers[v].pc = "commit" => Locked(workers[v].event) # x

(* What an exception comes to: process_event's except clauses.             *)
Outcome(w, retryable) ==
  IF retryable /\ workers[w].attempt < MaxAttempts THEN "RETRY" ELSE "FAILED"

Fails(w, retryable) ==
  workers' = [workers EXCEPT ![w] =
    [StartOn(w, @.event, @.todo) EXCEPT !.pc = "mark", !.outcome = Outcome(w, retryable)]]

(* Inserting a row that another transaction inserted since it was read     *)
(* raises IntegrityError.                                                  *)
Lock(w) ==
  /\ workers[w].pc = "lock"
  /\ LET x == Locked(workers[w].event) IN
       /\ LockFree(x)
       /\ IF workers[w].loaded = 0 /\ rows[x] # 0
            THEN Fails(w, TRUE)
            ELSE workers' = [workers EXCEPT ![w].pc = "commit", ![w].accountSeen = account]
  /\ UNCHANGED <<events, rows, observed, account, provider, now, counters, known, asked>>

(* What the normalizers make of the answers.                               *)
Observation(w) == [version |-> workers[w].fetched, stamp |-> workers[w].stamp]

(* Mutants: the observation is written again; only the first entity is     *)
(* observed; the event keeps its status.                                   *)
ObservedAgain(w) == Observation(w)
ObservedFirst(w) == [version |-> <<workers[w].fetched[1]>>, stamp |-> workers[w].stamp]
CompletedButOpen(e) == [events[e] EXCEPT !.aged = FALSE]

(* _insert_payment_observation and its siblings.                           *)
ObservationOf(w) ==
  LET e == workers[w].event IN
    IF observed[e] # None THEN observed[e] ELSE Observation(w)

(* _complete_event.                                                        *)
Completed(e) == [events[e] EXCEPT !.status = "PROCESSED", !.aged = FALSE]

(* The mapper writes the columns that differ from the row as it was read:  *)
(* an answer equal to that row leaves what is in the row now.              *)
Written(w, x) ==
  LET k == CHOOSE i \in DOMAIN Reads[workers[w].event] : Reads[workers[w].event][i] = x
      v == workers[w].fetched[k]
  IN IF x = Locked(workers[w].event) /\ v = workers[w].loaded THEN rows[x] ELSE v

(* The account row is inserted when it was missing under the lock; tasks   *)
(* of different payments race for it.                                      *)
Commit(w) ==
  /\ workers[w].pc = "commit"
  /\ LET e == workers[w].event IN
       IF ~workers[w].accountSeen /\ account
         THEN /\ Fails(w, TRUE)
              /\ UNCHANGED <<events, rows, observed, account>>
         ELSE /\ rows' = [x \in Entities |->
                            IF x \in Image(Reads[e]) THEN Written(w, x) ELSE rows[x]]
              /\ observed' = [observed EXCEPT ![e] = ObservationOf(w)]
              /\ events' = [events EXCEPT ![e] = Completed(e)]
              /\ account' = TRUE
              /\ \E next \in NextOf(w, workers[w].todo) :
                   workers' = [workers EXCEPT ![w] = next]
  /\ UNCHANGED <<provider, now, counters, known, asked>>

(* Any other exception of an attempt: an answer with an error status, a    *)
(* timeout, a payload that does not normalise, a database error.           *)
AttemptFails(w) ==
  /\ workers[w].pc \in Attempting
  /\ \E retryable \in BOOLEAN : Fails(w, retryable)
  /\ asked' = [asked EXCEPT ![workers[w].event] =
                 IF workers[w].pc = "fetch" /\ workers[w].fetched = <<>> THEN @ + 1 ELSE @]
  /\ UNCHANGED <<events, rows, observed, account, provider, now, counters, known>>

(* Mutant: the task leaves the retry to somebody else.                     *)
AfterMarkLeaves(w) == NextOf(w, workers[w].todo)

(* _mark: by event id alone, whatever the event's status is by now.  After *)
(* RETRY the same task sleeps and claims again.                            *)
AfterMark(w) ==
  IF workers[w].outcome = "RETRY"
    THEN {StartOn(w, workers[w].event, workers[w].todo)}
    ELSE NextOf(w, workers[w].todo)

Mark(w) ==
  /\ workers[w].pc = "mark"
  /\ events' = [events EXCEPT ![workers[w].event].status = workers[w].outcome,
                              ![workers[w].event].aged = FALSE]
  /\ \E next \in AfterMark(w) : workers' = [workers EXCEPT ![w] = next]
  /\ UNCHANGED <<rows, observed, account, provider, now, counters, known, asked>>

-----------------------------------------------------------------------------
(* process_pending, at startup and on an operator's request:               *)
(* recover_stale_processing, then pending_event_ids.                       *)
StartSweep(w) ==
  /\ workers[w].pc = "idle"
  /\ sweeps < MaxSweeps
  /\ sweeps' = sweeps + 1
  /\ events' = [e \in Events |->
       IF events[e].status = "PROCESSING" /\ events[e].aged
         THEN [events[e] EXCEPT !.status = "RETRY", !.aged = FALSE] ELSE events[e]]
  /\ workers' = [workers EXCEPT ![w].pc = "list"]
  /\ UNCHANGED <<rows, observed, account, provider, now, crashes, stalls, known, asked>>

ListPending(w) ==
  /\ workers[w].pc = "list"
  /\ LET P == {e \in Events : events[e].status \in Pending} IN
       \E S \in SUBSET P :
         /\ Cardinality(S) = SmallerOf(SweepLimit, Cardinality(P))
         /\ \A e \in S, d \in P \ S : events[e].received <= events[d].received
         /\ \E next \in NextOf(w, S) : workers' = [workers EXCEPT ![w] = next]
  /\ UNCHANGED <<events, rows, observed, account, provider, now, counters, known, asked>>

-----------------------------------------------------------------------------
(* The environment.  A claim grows older than stale_claim_seconds when the *)
(* worker that made it is gone, or is stalled.                             *)
Age(e) ==
  /\ events[e].status = "PROCESSING" /\ ~events[e].aged
  /\ LET alive == \E w \in Workers : Holds(w, e) IN
       /\ alive => stalls < MaxStalls
       /\ stalls' = IF alive THEN stalls + 1 ELSE stalls
  /\ events' = [events EXCEPT ![e].aged = TRUE]
  /\ UNCHANGED <<rows, observed, account, workers, provider, now, sweeps, crashes, known, asked>>

(* A worker stops: its process dies or is shut down, or marking the event  *)
(* itself raises.                                                          *)
Crash(w) ==
  /\ workers[w].pc # "idle"
  /\ crashes < MaxCrashes
  /\ crashes' = crashes + 1
  /\ workers' = [workers EXCEPT ![w] = Idle]
  /\ UNCHANGED <<events, rows, observed, account, provider, now, sweeps, stalls, known, asked>>

ProviderMoves(x) ==
  /\ provider[x].version < MaxVersion
  /\ provider' = [provider EXCEPT ![x] =
       [version |-> @.version + 1, created |-> IF @.version = 0 THEN now ELSE @.created]]
  /\ UNCHANGED <<events, rows, observed, account, workers, now, counters, known, asked>>

Tick ==
  /\ now < MaxTime
  /\ now' = now + 1
  /\ UNCHANGED <<events, rows, observed, account, workers, provider, counters, known, asked>>

WorkerStep(w) ==
  Claim(w) \/ Fetch(w) \/ Load(w) \/ Lock(w) \/ Commit(w) \/ AttemptFails(w) \/ Mark(w)
    \/ ListPending(w)

Next ==
  \/ \E w \in Workers : WorkerStep(w) \/ StartSweep(w) \/ Crash(w)
  \/ \E w \in Workers, e \in Events : Deliver(w, e)
  \/ \E e \in Events : Age(e)
  \/ \E x \in Entities : ProviderMoves(x)
  \/ Tick

Spec == Init /\ [][Next]_vars

(* A task that is alive goes on: every await it is at returns or raises.   *)
FairSpec == Spec /\ \A w \in Workers : WF_vars(WorkerStep(w))

-----------------------------------------------------------------------------
(* Every variable holds a value of its type; an observation has one        *)
(* version for each entity of its event.                                   *)
Observations == [version : Seq(Nat), stamp : Nat]
EventRecords == [status : Statuses, attempts : Nat, received : Nat, aged : BOOLEAN]
WorkerRecords ==
  [pc : {"idle", "list", "claim", "mark"} \cup Attempting, event : Events \cup {None},
   todo : SUBSET Events, attempt : Nat, fetched : Seq(Nat), loaded : Nat,
   accountSeen : BOOLEAN, stamp : Nat, outcome : {"RETRY", "FAILED", "SKIPPED", None}]

TypeOK ==
  /\ events \in [Events -> EventRecords]
  /\ rows \in [Entities -> Nat]
  /\ observed \in [Events -> Observations \cup {None}]
  /\ \A e \in Events : observed[e] # None => Len(observed[e].version) = Len(Reads[e])
  /\ account \in BOOLEAN
  /\ workers \in [Workers -> WorkerRecords]
  /\ provider \in [Entities -> [version : Nat, created : Nat]]
  /\ now \in Nat /\ sweeps \in Nat /\ crashes \in Nat /\ stalls \in Nat
  /\ known \in [Events -> [Entities -> Nat]] /\ asked \in [Events -> Nat]

(* README.md:57, "Idempotent event handling": while no live task outlasts  *)
(* stale_claim_seconds, redeliveries, sweeps, retries and crashes never    *)
(* put two tasks to work on one event (claim_event, razorpay_store.py:408).*)
OneTaskPerEvent ==
  stalls = 0 =>
    \A e \in Events, v, w \in Workers : Holds(v, e) /\ Holds(w, e) => v = w

(* An event is PROCESSED only with its observations stored, and, while no  *)
(* task stalls, it is whenever they are; they show the provider's state no *)
(* older than the event's receipt: an attempt that failed half way left    *)
(* nothing (razorpay_store.py:427-535).                                    *)
ProcessedWithItsObservations ==
  \A e \in Events :
    /\ events[e].status = "PROCESSED" => observed[e] # None
    /\ stalls = 0 /\ observed[e] # None => events[e].status = "PROCESSED"
    /\ observed[e] # None =>
         \A k \in DOMAIN Reads[e] : observed[e].version[k] >= known[e][Reads[e][k]]

(* While no task stalls, a current-state row holds what some stored        *)
(* observation holds.                                                      *)
RowsAreObserved ==
  stalls = 0 =>
    \A x \in Entities : rows[x] # 0 =>
      \E e \in Events : observed[e] # None /\
        \E k \in DOMAIN Reads[e] : Reads[e][k] = x /\ observed[e].version[k] = rows[x]

(* tests/test_razorpay_reconstruction.py:266, the retry budget is          *)
(* "persistently bounded after restart": the provider is asked at most     *)
(* max_attempts times for an event, over all tasks, recoveries and crashes.*)
RetryBudgetKept == \A e \in Events : asked[e] <= MaxAttempts

(* While no task stalls, a final status is never left again.               *)
FinalStays ==
  [][stalls' = 0 =>
       \A e \in Events : events[e].status \in Final => events'[e].status = events[e].status]_vars

(* An observation is written once: a later attempt on the same event, even *)
(* one that races a stalled one, does not rewrite what was known when      *)
(* (razorpay_store.py:698-704).                                            *)
ObservationsWrittenOnce ==
  [][\A e \in Events : observed[e] # None => observed'[e] = observed[e]]_vars

(* Current-state row, observation and status of an event commit together   *)
(* (razorpay_store.py:427-535): none of them tells of an event or a        *)
(* version that the others do not have.                                    *)
CompletionIsAtomic == ProcessedWithItsObservations /\ RowsAreObserved

(* What was decided about an event stays: its final status while no task   *)
(* stalls, and its observation whatever happens.                           *)
WrittenForGood == FinalStays /\ ObservationsWrittenOnce

(* An accepted event reaches a final status when no worker stops.          *)
EventsFinish ==
  \A e \in Events : events[e].status # "ABSENT" ~> events[e].status \in Final

(* README.md:285, "PostgreSQL is authoritative": a current-state row is    *)
(* never older than an observation already stored for its entity.          *)
RowsFollowObservations ==
  \A e \in Events : observed[e] # None =>
    \A k \in DOMAIN Reads[e] : rows[Reads[e][k]] >= observed[e].version[k]
=============================================================================
