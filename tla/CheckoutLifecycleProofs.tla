---------------------- MODULE CheckoutLifecycleProofs ----------------------
(***************************************************************************)
(* Safety of CheckoutLifecycle for any number of payments, tasks, events   *)
(* and reconciliations.                                                    *)
(*                                                                         *)
(* A task writes what it made of a row and an answer that may both be old. *)
(* It does no harm because what matters about them cannot be unsaid: an    *)
(* order that is paid stays paid and a payment's success or failure is     *)
(* final.  The inductive invariant IInv is the types with                  *)
(*   - RowOK of the row and of every copy a task took of it: it says PAID  *)
(*     only if the provider does, and names a payment only if that         *)
(*     succeeded or the order is paid;                                     *)
(*   - TaskOK: a task's answer says no more than the provider would now;   *)
(*   - ProviderOK: what the order's status says of its payments.           *)
(***************************************************************************)
EXTENDS CheckoutLifecycle, FiniteSetTheorems, TLAPS

RowOK(r) ==
  /\ r.lifecycle = "PAID" \/ r.provider = "paid" => order = "paid"
  /\ order # "paid" /\ r.payment # None => status[r.payment] \in Success

TelemetryOK == order # "paid" /\ telemetry \in Payments => status[telemetry] \in Success

AnswerOK(r) ==
  /\ r.kind = "verify" => r.fetched \in Success
  /\ r.kind = "observe" => r.fetched \in AttemptStatuses
  /\ r.kind = "reconcile" => r.fetched \in OrderStatuses
  /\ r.fetched = "paid" \/ r.fetched \in Settled => order = "paid"
  /\ r.kind \in {"verify", "observe"} /\ r.fetched \in Success => status[r.payment] \in Success

TaskOK(r) ==
  /\ r.pc # "idle" => r.kind \in {"verify", "observe", "reconcile"} /\ order # "none"
  /\ r.pc # "idle" /\ r.kind \in {"verify", "observe"} =>
       r.payment \in Payments /\ status[r.payment] # "none"
  /\ r.pc = "flush" => r.kind = "observe"
  /\ r.pc \in {"load", "flush", "commit"} => AnswerOK(r)
  /\ r.pc = "flush" => r.seen \in AttemptStatuses \cup {None}
  /\ r.pc \in {"flush", "commit"} => r.loaded \in Rows /\ RowOK(r.loaded)

TasksOK == \A t \in Tasks : TaskOK(tasks[t])

ProviderOK ==
  /\ row.lifecycle = "PENDING_PROVIDER_ORDER" => order = "none"
  /\ \A p \in Payments : /\ status[p] \in Settled => order = "paid"
                         /\ status[p] # "none" => order # "none"

IInv == TypeOK /\ RowOK(row) /\ TelemetryOK /\ TasksOK /\ ProviderOK
-----------------------------------------------------------------------------
LEMMA CountsGood ==
  /\ 0 \in Counts
  /\ \A S \in SUBSET Payments : IsFiniteSet(S) /\ Cardinality(S) \in Counts
  /\ \A a, b \in Counts : Greater(a, b) \in Counts
  /\ \A p \in Payments : 1 \in Counts
<1>1. Cardinality(Payments) \in Nat
  BY PaymentsAssumption, FS_CardinalityType
<1>2. ASSUME NEW S \in SUBSET Payments PROVE IsFiniteSet(S) /\ Cardinality(S) \in Counts
  <2>1. IsFiniteSet(S) /\ Cardinality(S) <= Cardinality(Payments)
    BY PaymentsAssumption, FS_Subset
  <2>. QED  BY <1>1, <2>1, FS_CardinalityType DEF Counts
<1>3. ASSUME NEW p \in Payments PROVE 1 \in Counts
  <2>1. Cardinality({p}) = 1
    BY FS_Singleton
  <2>. QED  BY <1>2, <2>1
<1>. QED  BY <1>1, <1>2, <1>3 DEF Counts, Greater

LEMMA NoTaskGood == NoTask \in TaskRecords /\ NoTask.pc = "idle"
BY CountsGood DEF NoTask, TaskRecords

(* The record a new task of a kind starts with.                            *)
LEMMA StartGood ==
  ASSUME NEW k \in {"verify", "observe"}, NEW p \in Payments
  PROVE  LET r == [NoTask EXCEPT !.kind = k, !.pc = "fetch", !.payment = p] IN
           r \in TaskRecords /\ r.kind = k /\ r.pc = "fetch" /\ r.payment = p
BY NoTaskGood DEF NoTask, TaskRecords

LEMMA StartReconcileGood ==
  ASSUME NEW b \in BOOLEAN
  PROVE  LET r == [NoTask EXCEPT !.kind = "reconcile", !.pc = "fetch", !.late = b] IN
           r \in TaskRecords /\ r.kind = "reconcile" /\ r.pc = "fetch"
BY NoTaskGood DEF NoTask, TaskRecords
-----------------------------------------------------------------------------
(* What the provider never takes back.                                     *)
ProviderGrows ==
  /\ order = "paid" => order' = "paid"
  /\ order # "none" => order' # "none"
  /\ \A p \in Payments : /\ status[p] # "none" => status'[p] # "none"
                         /\ status[p] \in Success => status'[p] \in Success

LEMMA ProviderOnlyGrows ==
  ASSUME TypeOK, ProviderOK, [Next]_vars
  PROVE  ProviderGrows
<1>. USE DEF ProviderGrows
<1>1. ASSUME UNCHANGED <<order, status>> PROVE ProviderGrows
  BY <1>1
<1>2. CASE OrderCreated
  BY <1>2 DEF OrderCreated, ProviderOK
<1>3. ASSUME NEW p \in Payments, Pay(p) \/ Capture(p) \/ Refund(p) PROVE ProviderGrows
  BY <1>3 DEF Pay, Capture, Refund, TypeOK, Success
<1>4. ASSUME NEW t \in Tasks, NEW p \in Payments, StartVerify(t, p) \/ StartObserve(t, p)
      PROVE  ProviderGrows
  BY <1>1, <1>4 DEF StartVerify, StartObserve
<1>5. ASSUME NEW t \in Tasks,
             StartReconcile(t) \/ Fetch(t) \/ Load(t) \/ Flush(t) \/ Commit(t) \/ GiveUp(t)
      PROVE  ProviderGrows
  BY <1>1, <1>5 DEF StartReconcile, Fetch, Load, Flush, Commit, GiveUp
<1>6. CASE OrderRefused \/ Expire \/ UNCHANGED vars
  BY <1>1, <1>6 DEF OrderRefused, Expire, vars
<1>. QED  BY <1>2, <1>3, <1>4, <1>5, <1>6 DEF Next

(* So what a row or a task said of it stays right.                         *)
LEMMA RowStaysGood ==
  ASSUME ProviderGrows, NEW r \in Rows, RowOK(r)
  PROVE  RowOK(r)'
BY DEF RowOK, Rows, ProviderGrows

LEMMA TaskStaysGood ==
  ASSUME ProviderGrows, NEW r \in TaskRecords, TaskOK(r)
  PROVE  TaskOK(r)'
<1>1. CASE r.pc = "idle"
  BY <1>1 DEF TaskOK
<1>2. CASE r.pc # "idle"
  <2>1. r.kind \in {"verify", "observe"} => r.payment \in Payments
    BY <1>2 DEF TaskOK
  <2>2. AnswerOK(r) => AnswerOK(r)'
    BY <2>1 DEF AnswerOK, ProviderGrows
  <2>3. r.loaded \in Rows /\ RowOK(r.loaded) => RowOK(r.loaded)'
    BY RowStaysGood
  <2>. QED  BY <1>2, <2>2, <2>3 DEF TaskOK, ProviderGrows
<1>. QED  BY <1>1, <1>2

(* Only the task that steps has to be looked at.                           *)
LEMMA OneTaskSteps ==
  ASSUME TypeOK, TasksOK, ProviderGrows, NEW t \in Tasks, NEW r \in TaskRecords,
         tasks' = [tasks EXCEPT ![t] = r], TaskOK(r)'
  PROVE  TasksOK' /\ tasks' \in [Tasks -> TaskRecords]
<1>. SUFFICES ASSUME NEW u \in Tasks PROVE TaskOK(tasks[u])'
  BY DEF TasksOK, TypeOK
<1>1. CASE u = t
  BY <1>1 DEF TypeOK, TaskOK
<1>2. CASE u # t
  <2>1. tasks[u] \in TaskRecords /\ TaskOK(tasks[u]) /\ tasks'[u] = tasks[u]
    BY <1>2 DEF TypeOK, TasksOK
  <2>2. PICK q \in TaskRecords : q = tasks[u] /\ q = tasks'[u] /\ TaskOK(q)
    BY <2>1
  <2>3. TaskOK(q)'
    BY <2>2, TaskStaysGood
  <2>. QED  BY <2>2, <2>3 DEF TaskOK
<1>. QED  BY <1>1, <1>2

(* Nothing of the session is written and no task steps, or one stops.      *)
LEMMA TaskEnds ==
  ASSUME TypeOK, TasksOK, ProviderGrows, NEW t \in Tasks, tasks' = [tasks EXCEPT ![t] = NoTask]
  PROVE  TasksOK' /\ tasks' \in [Tasks -> TaskRecords]
<1>1. TaskOK(NoTask)'
  BY NoTaskGood DEF TaskOK
<1>. QED  BY <1>1, NoTaskGood, OneTaskSteps

LEMMA TasksRest ==
  ASSUME TypeOK, TasksOK, ProviderGrows, UNCHANGED tasks
  PROVE  TasksOK' /\ tasks' \in [Tasks -> TaskRecords]
<1>. SUFFICES ASSUME NEW u \in Tasks PROVE TaskOK(tasks[u])'
  BY DEF TasksOK, TypeOK
<1>1. PICK q \in TaskRecords : q = tasks[u] /\ q = tasks'[u] /\ TaskOK(q)
  BY DEF TypeOK, TasksOK
<1>2. TaskOK(q)'
  BY <1>1, TaskStaysGood
<1>. QED  BY <1>1, <1>2 DEF TaskOK
-----------------------------------------------------------------------------
(* What each kind of task makes of a row.                                  *)
LEMMA LifecycleGood ==
  ASSUME NEW p, NEW o
  PROVE  /\ Lifecycle(p, o) \in {"OPEN", "AUTHORIZED", "ATTEMPTED", "ATTEMPT_FAILED", "PAID"}
         /\ Lifecycle(p, o) = "PAID" <=> o = "paid" \/ p \in Settled
BY DEF Lifecycle, Settled

New(t) ==
  CASE tasks[t].kind = "verify" -> Verified(t)
    [] tasks[t].kind = "observe" -> Observed(t)
    [] OTHER -> Reconciled(t)

Good(r) == r \in Rows /\ RowOK(r) /\ r.lifecycle # "PENDING_PROVIDER_ORDER"

LEMMA VerifiedGood ==
  ASSUME TypeOK, TasksOK, NEW t \in Tasks, tasks[t].pc = "commit", tasks[t].kind = "verify"
  PROVE  Good(Verified(t))
<1>. DEFINE r == tasks[t].loaded
            l == Lifecycle(tasks[t].fetched, r.provider)
            pr == IF l = "PAID" THEN "paid" ELSE r.provider
            n == Greater(r.attempts, 1)
            v == [r EXCEPT !.lifecycle = l, !.last = tasks[t].fetched, !.verified = TRUE,
                           !.payment = tasks[t].payment, !.attempts = n, !.provider = pr]
<1>1. /\ r \in Rows /\ RowOK(r) /\ tasks[t].fetched \in Success
      /\ tasks[t].payment \in Payments /\ status[tasks[t].payment] \in Success
      /\ tasks[t].fetched \in Settled => order = "paid"
  BY DEF TasksOK, TaskOK, AnswerOK
<1>2. v = Verified(t)
  BY DEF Verified
<1>3. /\ l \in Lifecycles \ {"PENDING_PROVIDER_ORDER"}
      /\ l = "PAID" <=> r.provider = "paid" \/ tasks[t].fetched \in Settled
  BY LifecycleGood DEF Lifecycles
<1>4. n \in Counts
  BY <1>1, CountsGood DEF Rows
<1>. HIDE DEF l, n
<1>5. v \in Rows
  BY <1>1, <1>3, <1>4 DEF Rows, OrderStatuses, AttemptStatuses
<1>6. /\ v.lifecycle = l /\ v.payment = tasks[t].payment
      /\ v.provider = IF l = "PAID" THEN "paid" ELSE r.provider
  BY <1>1 DEF Rows
<1>7. l = "PAID" \/ r.provider = "paid" => order = "paid"
  BY <1>1, <1>3 DEF RowOK
<1>. HIDE DEF v
<1>. QED  BY <1>1, <1>2, <1>3, <1>5, <1>6, <1>7 DEF Good, RowOK

LEMMA ObservedGood ==
  ASSUME TypeOK, TasksOK, NEW t \in Tasks, tasks[t].pc = "commit", tasks[t].kind = "observe"
  PROVE  Good(Observed(t)) /\ (Observed(t).lifecycle = "PAID" => order = "paid")
<1>. DEFINE r == tasks[t].loaded
            l == Lifecycle(tasks[t].fetched, r.provider)
            pr == IF l = "PAID" THEN "paid" ELSE r.provider
            n == Greater(r.attempts, tasks[t].count)
            py == IF l = "PAID" \/ tasks[t].fetched = "authorized" THEN tasks[t].payment
                                                                   ELSE r.payment
            v == [r EXCEPT !.lifecycle = l, !.last = tasks[t].fetched, !.attempts = n,
                           !.provider = pr, !.payment = py]
<1>1. /\ r \in Rows /\ RowOK(r) /\ tasks[t].fetched \in AttemptStatuses
      /\ tasks[t].payment \in Payments /\ tasks[t].count \in Counts
      /\ tasks[t].fetched = "authorized" => status[tasks[t].payment] \in Success
      /\ tasks[t].fetched \in Settled => order = "paid"
  BY DEF TypeOK, TaskRecords, TasksOK, TaskOK, AnswerOK, Success
<1>2. v = Observed(t)
  BY DEF Observed
<1>3. /\ l \in Lifecycles \ {"PENDING_PROVIDER_ORDER"}
      /\ l = "PAID" <=> r.provider = "paid" \/ tasks[t].fetched \in Settled
  BY LifecycleGood DEF Lifecycles
<1>4. n \in Counts
  BY <1>1, CountsGood DEF Rows
<1>. HIDE DEF l, n
<1>5. v \in Rows
  BY <1>1, <1>3, <1>4 DEF Rows, OrderStatuses
<1>6. v.lifecycle = l /\ v.payment = py /\ v.provider = pr
  BY <1>1 DEF Rows
<1>7. l = "PAID" \/ r.provider = "paid" => order = "paid"
  BY <1>1, <1>3 DEF RowOK
<1>8. order # "paid" /\ py # None => status[py] \in Success
  BY <1>1, <1>7 DEF RowOK
<1>. HIDE DEF v
<1>. QED  BY <1>2, <1>3, <1>5, <1>6, <1>7, <1>8 DEF Good, RowOK

LEMMA ReconciledGood ==
  ASSUME TypeOK, TasksOK, NEW t \in Tasks, tasks[t].pc = "commit", tasks[t].kind = "reconcile"
  PROVE  Good(Reconciled(t))
<1>. DEFINE r == tasks[t].loaded
            o == tasks[t].fetched
            attempted == IF r.last = "failed" THEN "ATTEMPT_FAILED" ELSE "ATTEMPTED"
            l == CASE o = "paid" -> "PAID" [] o = "attempted" -> attempted [] OTHER -> "OPEN"
            k == IF o # "paid" /\ tasks[t].late THEN "ABANDONED" ELSE l
            v == [r EXCEPT !.provider = o, !.attempts = tasks[t].count, !.lifecycle = k]
<1>1. /\ r \in Rows /\ RowOK(r) /\ o \in OrderStatuses /\ tasks[t].count \in Counts
      /\ o = "paid" => order = "paid"
  BY DEF TypeOK, TaskRecords, TasksOK, TaskOK, AnswerOK
<1>2. v = Reconciled(t)
  BY DEF Reconciled
<1>3. k \in Lifecycles \ {"PENDING_PROVIDER_ORDER"} /\ (k = "PAID" => o = "paid")
  BY DEF Lifecycles
<1>. HIDE DEF k
<1>4. v \in Rows
  BY <1>1, <1>3 DEF Rows
<1>5. v.lifecycle = k /\ v.payment = r.payment /\ v.provider = o
  BY <1>1 DEF Rows
<1>. HIDE DEF v
<1>. QED  BY <1>1, <1>2, <1>3, <1>4, <1>5 DEF Good, RowOK

(* Writing the changed columns of a good row into a good row.              *)
LEMMA MergeGood ==
  ASSUME row \in Rows, RowOK(row), NEW loaded \in Rows, NEW new, Good(new)
  PROVE  /\ Merge(loaded, new) \in Rows /\ RowOK(Merge(loaded, new))
         /\ Merge(loaded, new).lifecycle = "PENDING_PROVIDER_ORDER" =>
              row.lifecycle = "PENDING_PROVIDER_ORDER"
<1>. DEFINE m == Merge(loaded, new)
<1>1. DOMAIN row = {"lifecycle", "attempts", "payment", "provider", "last", "verified"}
  BY DEF Rows
<1>2. m = [lifecycle |-> IF new.lifecycle = loaded.lifecycle THEN row.lifecycle ELSE new.lifecycle,
           attempts |-> IF new.attempts = loaded.attempts THEN row.attempts ELSE new.attempts,
           payment |-> IF new.payment = loaded.payment THEN row.payment ELSE new.payment,
           provider |-> IF new.provider = loaded.provider THEN row.provider ELSE new.provider,
           last |-> IF new.last = loaded.last THEN row.last ELSE new.last,
           verified |-> IF new.verified = loaded.verified THEN row.verified ELSE new.verified]
  BY <1>1 DEF Merge
<1>3. m \in Rows
  <2>. HIDE DEF m
  <2>. QED  BY <1>2 DEF Rows, Good
<1>4. /\ m.lifecycle \in {row.lifecycle, new.lifecycle}
      /\ m.payment \in {row.payment, new.payment}
      /\ m.provider \in {row.provider, new.provider}
  <2>. HIDE DEF m
  <2>. QED  BY <1>2
<1>. HIDE DEF m
<1>. QED  BY <1>3, <1>4 DEF Good, RowOK, m

LEMMA CommitGood ==
  ASSUME TypeOK, RowOK(row), TasksOK, NEW t \in Tasks, Commit(t)
  PROVE  /\ row' \in Rows /\ RowOK(row')
         /\ row'.lifecycle = "PENDING_PROVIDER_ORDER" => row.lifecycle = "PENDING_PROVIDER_ORDER"
         /\ row' = Merge(tasks[t].loaded, New(t))
<1>1. /\ tasks[t].pc = "commit" /\ tasks[t].kind \in {"verify", "observe", "reconcile"}
      /\ tasks[t].loaded \in Rows
  BY DEF Commit, TypeOK, TaskRecords, TasksOK, TaskOK
<1>2. row' = Merge(tasks[t].loaded, New(t))
  BY <1>1 DEF Commit, New
<1>3. Good(New(t))
  BY <1>1, VerifiedGood, ObservedGood, ReconciledGood DEF New
<1>4. row \in Rows
  BY DEF TypeOK
<1>. QED  BY <1>1, <1>2, <1>3, <1>4, MergeGood
-----------------------------------------------------------------------------
(* The answer a task gets is what the provider says at that moment.        *)
LEMMA FetchGood ==
  ASSUME TypeOK, TasksOK, ProviderOK, NEW t \in Tasks, Fetch(t)
  PROVE  \E r \in TaskRecords : tasks' = [tasks EXCEPT ![t] = r] /\ TaskOK(r)'
<1>. DEFINE old == tasks[t]
            a == Answer(t)
            n == IF old.kind = "reconcile" THEN AttemptsMade ELSE 0
            r == [old EXCEPT !.pc = "load", !.fetched = a, !.count = n]
<1>1. /\ old \in TaskRecords /\ old.pc = "fetch" /\ order # "none"
      /\ old.kind \in {"verify", "observe", "reconcile"}
      /\ old.kind \in {"verify", "observe"} =>
           old.payment \in Payments /\ status[old.payment] # "none"
      /\ old.kind = "verify" => a \in Success
      /\ UNCHANGED <<order, status>>
  BY DEF Fetch, TypeOK, TaskRecords, TasksOK, TaskOK
<1>2. tasks' = [tasks EXCEPT ![t] = r]
  BY DEF Fetch
<1>3. n \in Counts
  BY CountsGood DEF AttemptsMade
<1>4. /\ old.kind = "reconcile" => a = order /\ a \in OrderStatuses
      /\ old.kind \in {"verify", "observe"} => a = status[old.payment] /\ a \in AttemptStatuses
  BY <1>1 DEF Answer, TypeOK
<1>. HIDE DEF a, n
<1>5. r \in TaskRecords
  BY <1>1, <1>3, <1>4 DEF TaskRecords
<1>6. r.pc = "load" /\ r.kind = old.kind /\ r.payment = old.payment /\ r.fetched = a
  BY <1>1 DEF TaskRecords
<1>. HIDE DEF r
<1>7. PICK q \in TaskRecords :
        /\ tasks' = [tasks EXCEPT ![t] = q]
        /\ q.pc = "load" /\ q.kind = tasks[t].kind /\ q.payment = tasks[t].payment /\ q.fetched = a
  BY <1>2, <1>5, <1>6
<1>8. AnswerOK(q)
  <2>1. "paid" \notin AttemptStatuses /\ Settled \cap OrderStatuses = {}
    BY DEF AttemptStatuses, Success, Settled, OrderStatuses
  <2>2. a \in Settled /\ old.kind \in {"verify", "observe"} => order = "paid"
    BY <1>1, <1>4 DEF ProviderOK
  <2>. QED  BY <1>1, <1>4, <1>7, <2>1, <2>2 DEF AnswerOK
<1>9. AnswerOK(q)'
  BY <1>1, <1>8 DEF AnswerOK
<1>10. TaskOK(q)'
  BY <1>1, <1>7, <1>9 DEF TaskOK
<1>. QED  BY <1>7, <1>10

(* It keeps the row as it was when it was read.                            *)
LEMMA LoadGood ==
  ASSUME TypeOK, RowOK(row), TasksOK, NEW t \in Tasks, Load(t)
  PROVE  \E r \in TaskRecords : tasks' = [tasks EXCEPT ![t] = r] /\ TaskOK(r)'
<1>. DEFINE old == tasks[t]
            seen == IF old.kind = "observe" THEN attempts[old.payment] ELSE telemetry
            pc == IF old.kind = "observe" THEN "flush" ELSE "commit"
            r == [old EXCEPT !.loaded = row, !.seen = seen, !.pc = pc]
<1>1. /\ old \in TaskRecords /\ old.pc = "load" /\ TaskOK(old)
      /\ old.kind = "observe" => old.payment \in Payments
      /\ UNCHANGED <<order, status>>
  BY DEF Load, TypeOK, TasksOK, TaskOK
<1>2. tasks' = [tasks EXCEPT ![t] = r]
  BY DEF Load
<1>3. /\ seen \in {"absent", "unbound", None} \cup Payments \cup AttemptStatuses
      /\ old.kind = "observe" => seen \in AttemptStatuses \cup {None}
      /\ row \in Rows
  BY <1>1 DEF TypeOK
<1>. HIDE DEF seen
<1>4. r \in TaskRecords
  BY <1>1, <1>3, ZenonT(60) DEF TaskRecords
<1>5. /\ r.pc = pc /\ r.kind = old.kind /\ r.payment = old.payment /\ r.fetched = old.fetched
      /\ r.loaded = row /\ r.seen = seen
  BY <1>1 DEF TaskRecords
<1>. HIDE DEF r
<1>6. PICK q \in TaskRecords :
        /\ tasks' = [tasks EXCEPT ![t] = q] /\ q.loaded = row
        /\ q.pc \in {"flush", "commit"} /\ q.kind = tasks[t].kind
        /\ q.payment = tasks[t].payment /\ q.fetched = tasks[t].fetched
        /\ q.pc = "flush" => q.kind = "observe" /\ q.seen \in AttemptStatuses \cup {None}
  BY <1>2, <1>3, <1>4, <1>5
<1>7. q.loaded \in Rows /\ RowOK(q.loaded)'
  BY <1>1, <1>3, <1>6 DEF RowOK
<1>8. AnswerOK(q)'
  BY <1>1, <1>6 DEF TaskOK, AnswerOK
<1>9. TaskOK(q)'
  BY <1>1, <1>6, <1>7, <1>8 DEF TaskOK
<1>. QED  BY <1>6, <1>9

LEMMA FlushGood ==
  ASSUME TypeOK, TasksOK, NEW t \in Tasks, Flush(t), tasks'[t] # NoTask
  PROVE  \E r \in TaskRecords : tasks' = [tasks EXCEPT ![t] = r] /\ TaskOK(r)'
<1>. DEFINE old == tasks[t]
            n == Cardinality({q \in Payments : attempts[q] # None} \cup {old.payment})
            r == [old EXCEPT !.pc = "commit", !.seen = telemetry, !.count = n]
<1>1. /\ old \in TaskRecords /\ old.pc = "flush" /\ TaskOK(old) /\ old.payment \in Payments
      /\ UNCHANGED <<order, status>>
  BY DEF Flush, TypeOK, TasksOK, TaskOK
<1>2. tasks' = [tasks EXCEPT ![t] = r]
  BY DEF Flush, TypeOK
<1>3. n \in Counts /\ telemetry \in {"absent", "unbound"} \cup Payments
  BY <1>1, CountsGood DEF TypeOK
<1>. HIDE DEF n
<1>4. r \in TaskRecords
  BY <1>1, <1>3 DEF TaskRecords
<1>5. /\ r.pc = "commit" /\ r.kind = old.kind /\ r.payment = old.payment
      /\ r.fetched = old.fetched /\ r.loaded = old.loaded
  BY <1>1 DEF TaskRecords
<1>. HIDE DEF r
<1>6. PICK q \in TaskRecords :
        /\ tasks' = [tasks EXCEPT ![t] = q]
        /\ q.pc = "commit" /\ q.kind = tasks[t].kind /\ q.payment = tasks[t].payment
        /\ q.fetched = tasks[t].fetched /\ q.loaded = tasks[t].loaded
  BY <1>2, <1>4, <1>5
<1>7. q.loaded \in Rows /\ RowOK(q.loaded)'
  BY <1>1, <1>6 DEF TaskOK, RowOK
<1>8. AnswerOK(q)'
  BY <1>1, <1>6 DEF TaskOK, AnswerOK
<1>9. TaskOK(q)'
  BY <1>1, <1>6, <1>7, <1>8 DEF TaskOK
<1>. QED  BY <1>6, <1>9

LEMMA TasksStep ==
  ASSUME TypeOK, RowOK(row), TasksOK, ProviderOK, [Next]_vars
  PROVE  TasksOK' /\ tasks' \in [Tasks -> TaskRecords]
<1>. USE ProviderOnlyGrows
<1>1. ASSUME NEW t \in Tasks, \E r \in TaskRecords : tasks' = [tasks EXCEPT ![t] = r] /\ TaskOK(r)'
      PROVE  TasksOK' /\ tasks' \in [Tasks -> TaskRecords]
  BY <1>1, OneTaskSteps
<1>2. ASSUME NEW t \in Tasks, Fetch(t) \/ Load(t) \/ Flush(t)
      PROVE  TasksOK' /\ tasks' \in [Tasks -> TaskRecords]
  <2>1. CASE Fetch(t) \/ Load(t)
    BY <1>1, <2>1, FetchGood, LoadGood
  <2>2. CASE Flush(t) /\ tasks'[t] # NoTask
    BY <1>1, <2>2, FlushGood
  <2>3. CASE Flush(t) /\ tasks'[t] = NoTask
    <3>1. tasks' = [tasks EXCEPT ![t] = NoTask]
      BY <2>3 DEF Flush, TypeOK
    <3>. QED  BY <3>1, TaskEnds
  <2>. QED  BY <1>2, <2>1, <2>2, <2>3
<1>3. ASSUME NEW t \in Tasks, Commit(t) \/ GiveUp(t)
      PROVE  TasksOK' /\ tasks' \in [Tasks -> TaskRecords]
  BY <1>3, TaskEnds DEF Commit, GiveUp
<1>4. ASSUME NEW t \in Tasks, NEW p \in Payments, StartVerify(t, p) \/ StartObserve(t, p)
      PROVE  TasksOK' /\ tasks' \in [Tasks -> TaskRecords]
  <2>1. status'[p] # "none" /\ order' # "none"
    BY <1>4 DEF StartVerify, StartObserve, ProviderOK, Success
  <2>2. PICK r \in TaskRecords :
          /\ tasks' = [tasks EXCEPT ![t] = r]
          /\ r.kind \in {"verify", "observe"} /\ r.pc = "fetch" /\ r.payment = p
    BY <1>4, StartGood, ZenonT(60) DEF StartVerify, StartObserve
  <2>3. TaskOK(r)'
    BY <2>1, <2>2, PaymentsAssumption DEF TaskOK
  <2>. QED  BY <1>1, <2>2, <2>3
<1>5. ASSUME NEW t \in Tasks, StartReconcile(t)
      PROVE  TasksOK' /\ tasks' \in [Tasks -> TaskRecords]
  <2>1. order' # "none" /\ expired \in BOOLEAN
    BY <1>5 DEF StartReconcile, Reconcilable, TypeOK
  <2>2. PICK r \in TaskRecords :
          tasks' = [tasks EXCEPT ![t] = r] /\ r.kind = "reconcile" /\ r.pc = "fetch"
    BY <1>5, <2>1, StartReconcileGood DEF StartReconcile
  <2>3. TaskOK(r)'
    BY <2>1, <2>2 DEF TaskOK
  <2>. QED  BY <1>1, <2>2, <2>3
<1>6. ASSUME NEW p \in Payments, Pay(p) \/ Capture(p) \/ Refund(p)
      PROVE  TasksOK' /\ tasks' \in [Tasks -> TaskRecords]
  BY <1>6, TasksRest DEF Pay, Capture, Refund
<1>7. CASE OrderCreated \/ OrderRefused \/ Expire \/ UNCHANGED vars
  BY <1>7, TasksRest DEF OrderCreated, OrderRefused, Expire, vars
<1>. QED  BY <1>2, <1>3, <1>4, <1>5, <1>6, <1>7 DEF Next
-----------------------------------------------------------------------------
(* The session's rows: nothing but a commit and the creation of the order  *)
(* writes them.                                                            *)
Session == <<row, telemetry, attempts>>

LEMMA SessionWriters ==
  ASSUME [Next]_vars
  PROVE  \/ OrderCreated \/ OrderRefused
         \/ \E t \in Tasks : Commit(t)
         \/ UNCHANGED Session
BY DEF Next, Expire, Pay, Capture, Refund, StartVerify, StartObserve, StartReconcile, Fetch, Load,
       Flush, GiveUp, vars, Session

LEMMA SessionStep ==
  ASSUME TypeOK, RowOK(row), TelemetryOK, TasksOK, ProviderOK, [Next]_vars
  PROVE  /\ row' \in Rows /\ RowOK(row)' /\ TelemetryOK'
         /\ telemetry' \in {"absent", "unbound"} \cup Payments
         /\ attempts' \in [Payments -> AttemptStatuses \cup {None}]
         /\ row'.lifecycle = "PENDING_PROVIDER_ORDER" =>
              row.lifecycle = "PENDING_PROVIDER_ORDER" /\ ~OrderCreated
<1>. DEFINE Goal == /\ row' \in Rows /\ RowOK(row)' /\ TelemetryOK'
                    /\ telemetry' \in {"absent", "unbound"} \cup Payments
                    /\ attempts' \in [Payments -> AttemptStatuses \cup {None}]
                    /\ row'.lifecycle = "PENDING_PROVIDER_ORDER" =>
                         row.lifecycle = "PENDING_PROVIDER_ORDER" /\ ~OrderCreated
<1>1. ProviderGrows
  BY ProviderOnlyGrows
<1>2. TelemetryOK /\ UNCHANGED telemetry => TelemetryOK'
  BY <1>1 DEF TelemetryOK, ProviderGrows, TypeOK
<1>3. CASE OrderCreated
  <2>1. UNCHANGED <<attempts, status>> /\ telemetry' = "unbound" /\ order' = "created"
    BY <1>3 DEF OrderCreated
  <2>2. /\ row' \in Rows /\ row'.payment = row.payment /\ row'.lifecycle = "OPEN"
        /\ row'.provider = "created"
    BY <1>3 DEF OrderCreated, TypeOK, Rows, Lifecycles, OrderStatuses
  <2>3. order # "paid"
    BY <1>3 DEF OrderCreated, ProviderOK
  <2>4. RowOK(row)'
    BY <2>1, <2>2, <2>3 DEF RowOK
  <2>5. TelemetryOK'
    BY <2>1, PaymentsAssumption DEF TelemetryOK
  <2>. QED  BY <2>1, <2>2, <2>4, <2>5 DEF TypeOK
<1>4. CASE OrderRefused
  <2>1. UNCHANGED <<telemetry, attempts, status, order>>
    BY <1>4 DEF OrderRefused
  <2>2. /\ row' \in Rows /\ row'.payment = row.payment
        /\ row'.lifecycle = "PROVIDER_ORDER_FAILED" /\ row'.provider = "PROVIDER_ORDER_FAILED"
    BY <1>4 DEF OrderRefused, TypeOK, Rows, Lifecycles
  <2>3. RowOK(row)'
    BY <2>1, <2>2 DEF RowOK
  <2>. QED  BY <1>2, <2>1, <2>2, <2>3 DEF TypeOK
<1>5. ASSUME NEW t \in Tasks, Commit(t) PROVE Goal
  <2>1. /\ row' \in Rows /\ RowOK(row')
        /\ row'.lifecycle = "PENDING_PROVIDER_ORDER" => row.lifecycle = "PENDING_PROVIDER_ORDER"
    BY <1>5, CommitGood
  <2>2. UNCHANGED <<order, status>> /\ tasks[t].pc = "commit"
    BY <1>5 DEF Commit
  <2>3. RowOK(row)'
    BY <2>1, <2>2 DEF RowOK
  <2>4. ~OrderCreated
    <3>1. CASE row.lifecycle # "PENDING_PROVIDER_ORDER"
      BY <3>1 DEF OrderCreated
    <3>2. CASE row.lifecycle = "PENDING_PROVIDER_ORDER"
      <4>1. order = "none" /\ order # "none"
        BY <2>2, <3>2 DEF ProviderOK, TasksOK, TaskOK
      <4>. QED  BY <4>1
    <3>. QED  BY <3>1, <3>2
  <2>5. /\ tasks[t].kind \in {"verify", "observe"} => tasks[t].payment \in Payments
        /\ tasks[t].kind = "verify" => status[tasks[t].payment] \in Success
        /\ tasks[t].kind = "observe" => tasks[t].fetched \in AttemptStatuses
    BY <2>2 DEF TasksOK, TaskOK, AnswerOK
  <2>6. /\ telemetry' \in {"absent", "unbound"} \cup Payments /\ TelemetryOK'
        /\ attempts' \in [Payments -> AttemptStatuses \cup {None}]
    <3>1. CASE tasks[t].kind = "verify" /\ telemetry' \in {telemetry, tasks[t].payment}
               /\ UNCHANGED attempts
      BY <1>2, <2>2, <2>5, <3>1 DEF TelemetryOK, TypeOK
    <3>2. CASE /\ tasks[t].kind = "observe"
               /\ attempts' = [attempts EXCEPT ![tasks[t].payment] = tasks[t].fetched]
               /\ telemetry' = IF Observed(t).lifecycle = "PAID" /\ tasks[t].seen = "unbound"
                                 THEN tasks[t].payment ELSE telemetry
      <4>1. Observed(t).lifecycle = "PAID" => order' = "paid"
        BY <2>2, <3>2, ObservedGood
      <4>. HIDE DEF Goal
      <4>. QED  BY <1>2, <2>5, <3>2, <4>1 DEF TelemetryOK, TypeOK
    <3>3. CASE UNCHANGED <<telemetry, attempts>>
      BY <1>2, <3>3 DEF TypeOK
    <3>. QED  BY <1>5, <3>1, <3>2, <3>3 DEF Commit
  <2>. QED  BY <2>1, <2>3, <2>4, <2>6
<1>6. CASE UNCHANGED Session
  <2>1. UNCHANGED <<row, telemetry, attempts>>
    BY <1>6 DEF Session
  <2>2. RowOK(row)'
    BY <1>1, <2>1 DEF RowOK, ProviderGrows, TypeOK, Rows
  <2>3. ~OrderCreated
    <3>. SUFFICES ASSUME OrderCreated PROVE FALSE
      OBVIOUS
    <3>1. row'.lifecycle = "OPEN" /\ row.lifecycle = "PENDING_PROVIDER_ORDER"
      BY DEF OrderCreated, TypeOK, Rows
    <3>. QED  BY <2>1, <3>1
  <2>. QED  BY <1>2, <2>1, <2>2, <2>3 DEF TypeOK
<1>. QED  BY <1>3, <1>4, <1>5, <1>6, SessionWriters

LEMMA ProviderStep ==
  ASSUME TypeOK, RowOK(row), TelemetryOK, TasksOK, ProviderOK, [Next]_vars
  PROVE  /\ ProviderOK' /\ order' \in OrderStatuses \cup {"none"}
         /\ status' \in [Payments -> AttemptStatuses \cup {"none"}]
         /\ expired' \in BOOLEAN /\ observed' \in Nat /\ reconciled' \in Nat
<1>. DEFINE Goal == /\ ProviderOK' /\ order' \in OrderStatuses \cup {"none"}
                    /\ status' \in [Payments -> AttemptStatuses \cup {"none"}]
                    /\ expired' \in BOOLEAN /\ observed' \in Nat /\ reconciled' \in Nat
<1>1. row'.lifecycle = "PENDING_PROVIDER_ORDER" =>
        row.lifecycle = "PENDING_PROVIDER_ORDER" /\ ~OrderCreated
  BY SessionStep
<1>2. ASSUME UNCHANGED <<order, status>>, expired' \in BOOLEAN, observed' \in Nat, reconciled' \in Nat
      PROVE  Goal
  BY <1>1, <1>2 DEF ProviderOK, TypeOK
<1>3. CASE OrderCreated
  <2>1. UNCHANGED <<status, expired, observed, reconciled>> /\ order' = "created"
    BY <1>3 DEF OrderCreated
  <2>2. order = "none"
    BY <1>3 DEF OrderCreated, ProviderOK
  <2>. QED  BY <1>1, <1>3, <2>1, <2>2 DEF ProviderOK, TypeOK, OrderStatuses
<1>4. ASSUME NEW p \in Payments, Pay(p) \/ Capture(p) \/ Refund(p) PROVE Goal
  <2>1. UNCHANGED <<row, expired, observed, reconciled>>
    BY <1>4 DEF Pay, Capture, Refund
  <2>2. /\ order # "none" /\ order' \in OrderStatuses /\ (order = "paid" => order' = "paid")
        /\ \E s \in AttemptStatuses :
             status' = [status EXCEPT ![p] = s] /\ (s \in Settled => order' = "paid")
    <3>1. CASE Pay(p)
      BY <3>1 DEF Pay, OrderStatuses, AttemptStatuses, Success, Settled
    <3>2. CASE Capture(p)
      BY <3>2 DEF Capture, OrderStatuses, AttemptStatuses, Success, Settled
    <3>3. CASE Refund(p)
      BY <3>3 DEF Refund, OrderStatuses, AttemptStatuses, Success, Settled, ProviderOK
    <3>. QED  BY <1>4, <3>1, <3>2, <3>3
  <2>3. row'.lifecycle # "PENDING_PROVIDER_ORDER"
    BY <2>1, <2>2 DEF ProviderOK
  <2>. QED  BY <2>1, <2>2, <2>3 DEF ProviderOK, TypeOK, OrderStatuses
<1>5. ASSUME NEW t \in Tasks, NEW p \in Payments, StartVerify(t, p) \/ StartObserve(t, p) PROVE Goal
  BY <1>2, <1>5 DEF StartVerify, StartObserve, TypeOK
<1>6. ASSUME NEW t \in Tasks,
             StartReconcile(t) \/ Fetch(t) \/ Load(t) \/ Flush(t) \/ Commit(t) \/ GiveUp(t)
      PROVE  Goal
  BY <1>2, <1>6 DEF StartReconcile, Fetch, Load, Flush, Commit, GiveUp, TypeOK
<1>7. CASE OrderRefused \/ Expire \/ UNCHANGED vars
  BY <1>2, <1>7 DEF OrderRefused, Expire, vars, TypeOK
<1>. QED  BY <1>3, <1>4, <1>5, <1>6, <1>7 DEF Next
-----------------------------------------------------------------------------
LEMMA InvInit == Init => IInv
<1>. SUFFICES ASSUME Init PROVE IInv
  OBVIOUS
<1>1. row \in Rows /\ row.payment = None /\ row.lifecycle # "PAID" /\ row.provider # "paid"
  BY CountsGood DEF Init, Rows, Lifecycles
<1>2. tasks \in [Tasks -> TaskRecords] /\ TasksOK
  BY NoTaskGood DEF Init, TasksOK, TaskOK
<1>3. TypeOK
  BY <1>1, <1>2 DEF Init, TypeOK
<1>4. TelemetryOK /\ ProviderOK
  BY PaymentsAssumption DEF Init, TelemetryOK, ProviderOK, Settled
<1>. QED  BY <1>1, <1>2, <1>3, <1>4 DEF IInv, RowOK

LEMMA InvStep == IInv /\ [Next]_vars => IInv'
<1>. SUFFICES ASSUME IInv, [Next]_vars PROVE IInv'
  OBVIOUS
<1>. USE DEF IInv
<1>. QED  BY TasksStep, SessionStep, ProviderStep DEF TypeOK

(* The inductive invariant holds in every reachable state of a session,    *)
(* whatever callbacks, events and reconciliations overlap.                 *)
THEOREM Invariance == Spec => []IInv
BY InvInit, InvStep, PTL DEF Spec

(* Every variable holds a value of its type, the copies of the row that    *)
(* tasks hold included; attempt counts stay within the payments made.      *)
THEOREM Typing == Spec => []TypeOK
BY Invariance, PTL DEF IInv

(* verify, observe and reconcile, in any interleaving, never say PAID of an*)
(* order the provider has not, and name no failed payment before it is.    *)
THEOREM FollowsPayments == Spec => []OrdersFollowPayments
<1>1. IInv => OrdersFollowPayments
  <2>. SUFFICES ASSUME IInv PROVE OrdersFollowPayments
    OBVIOUS
  <2>1. PaidIsPaid
    BY DEF IInv, RowOK, PaidIsPaid
  <2>2. "failed" \notin Success
    BY DEF Success
  <2>3. FailuresLeaveTheOrderFree
    BY <2>2, PaymentsAssumption DEF IInv, RowOK, TelemetryOK, FailuresLeaveTheOrderFree
  <2>. QED  BY <2>1, <2>3 DEF OrdersFollowPayments
<1>. QED  BY <1>1, Invariance, PTL

(* A commit that takes PAID from a session comes from a task whose copy of *)
(* the row, or whose answer, is from before the payment.                   *)
LEMMA PaidKept ==
  ASSUME IInv, [Next]_vars, row.lifecycle = "PAID", row'.lifecycle # "PAID"
  PROVE  \E t \in Tasks : tasks[t].pc = "commit" /\ tasks'[t].pc = "idle" /\ Outdated(t)
<1>. USE DEF IInv
<1>1. PICK t \in Tasks : Commit(t)
  BY SessionWriters DEF OrderCreated, OrderRefused, Session
<1>2. /\ tasks[t].pc = "commit" /\ tasks'[t].pc = "idle" /\ tasks[t].loaded \in Rows
      /\ tasks[t].kind \in {"verify", "observe", "reconcile"}
  BY <1>1, NoTaskGood DEF Commit, TypeOK, TasksOK, TaskOK
<1>3. ASSUME ~Outdated(t) PROVE FALSE
  <2>1. /\ tasks[t].loaded.lifecycle = "PAID" /\ tasks[t].loaded.provider = "paid"
        /\ tasks[t].kind = "reconcile" => tasks[t].fetched = "paid"
    BY <1>3 DEF Outdated
  <2>2. New(t).lifecycle = "PAID"
    <3>1. Lifecycle(tasks[t].fetched, tasks[t].loaded.provider) = "PAID"
      BY <2>1, LifecycleGood
    <3>2. CASE tasks[t].kind = "verify"
      BY <1>2, <3>1, <3>2 DEF New, Verified, Rows
    <3>3. CASE tasks[t].kind = "observe"
      BY <1>2, <3>1, <3>3 DEF New, Observed, Rows
    <3>4. CASE tasks[t].kind = "reconcile"
      BY <1>2, <2>1, <3>4 DEF New, Reconciled, Rows
    <3>. QED  BY <1>2, <3>2, <3>3, <3>4
  <2>3. row' = Merge(tasks[t].loaded, New(t)) /\ "lifecycle" \in DOMAIN row
    BY <1>1, CommitGood DEF TypeOK, Rows
  <2>4. row'.lifecycle = row.lifecycle
    BY <2>1, <2>2, <2>3 DEF Merge
  <2>. QED  BY <2>4
<1>. QED  BY <1>2, <1>3

(* No task that knows of a payment takes PAID back from a session.         *)
THEOREM PaidIsKept == Spec => PaidLostToOutdatedTasksOnly
<1>1. IInv /\ [Next]_vars =>
        [row.lifecycle = "PAID" /\ row'.lifecycle # "PAID" =>
           \E t \in Tasks : tasks[t].pc = "commit" /\ tasks'[t].pc = "idle" /\ Outdated(t)]_vars
  BY PaidKept
<1>. QED  BY <1>1, Invariance, PTL DEF Spec, PaidLostToOutdatedTasksOnly
=============================================================================
