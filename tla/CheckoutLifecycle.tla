------------------------- MODULE CheckoutLifecycle -------------------------
(***************************************************************************)
(* One checkout session of the Razorpay bridge on PostgreSQL               *)
(* (checkout_bridge.py): its order row, its telemetry row and its payment  *)
(* attempts, written by the client's callback (verify), by the processor   *)
(* events that report a payment (observe) and by reconciliation, which     *)
(* polls the order.  No statement locks the order row: each task reads it, *)
(* computes, and commits the columns that differ from what it read.        *)
(* Order and payments at the provider are external; a payment that failed  *)
(* stays failed.                                                           *)
(***************************************************************************)
EXTENDS Integers, FiniteSets

CONSTANTS
  Payments, Tasks, None,
  MaxObserved, MaxReconciled    \* bounds on event deliveries and reconciliations

\* Finitely many payments are tried on an order; none is named like a value
\* that says that there is no payment.
ASSUME PaymentsAssumption ==
  /\ IsFiniteSet(Payments)
  /\ Payments \cap {None, "absent", "unbound"} = {}

VARIABLES
  row,          \* razorpay_checkout_orders
  telemetry,    \* first-party telemetry: absent, unbound or bound to a payment
  attempts,     \* razorpay_checkout_payment_attempts: the status of each
  order,        \* the order's status at the provider
  status,       \* the payments' status at the provider
  expired,      \* has expires_at passed?
  tasks,
  observed, reconciled

vars == <<row, telemetry, attempts, order, status, expired, tasks, observed, reconciled>>

Success == {"authorized", "captured", "refunded"}
Settled == {"captured", "refunded"}
Lifecycles == {"PENDING_PROVIDER_ORDER", "PROVIDER_ORDER_FAILED", "OPEN", "AUTHORIZED",
               "ATTEMPTED", "ATTEMPT_FAILED", "PAID", "ABANDONED"}

NoTask ==
  [kind |-> None, pc |-> "idle", payment |-> None, fetched |-> None,
   loaded |-> None, seen |-> None, count |-> 0, late |-> FALSE]

Greater(a, b) == IF a > b THEN a ELSE b

(* create_pending.                                                         *)
Init ==
  /\ row = [lifecycle |-> "PENDING_PROVIDER_ORDER", provider |-> "PENDING_PROVIDER_ORDER",
            attempts |-> 0, payment |-> None, last |-> None, verified |-> FALSE]
  /\ telemetry = "absent"
  /\ attempts = [p \in Payments |-> None]
  /\ order = "none"
  /\ status = [p \in Payments |-> "none"]
  /\ expired = FALSE
  /\ tasks = [t \in Tasks |-> NoTask]
  /\ observed = 0 /\ reconciled = 0

-----------------------------------------------------------------------------
(* The request that creates the order.  A RazorpayApiError marks the row;  *)
(* a response that does not match it, or a crash, leaves it PENDING.       *)
OrderCreated ==
  /\ row.lifecycle = "PENDING_PROVIDER_ORDER"
  /\ row' = [row EXCEPT !.lifecycle = "OPEN", !.provider = "created"]
  /\ telemetry' = "unbound"
  /\ order' = "created"
  /\ UNCHANGED <<attempts, status, expired, tasks, observed, reconciled>>

OrderRefused ==
  /\ row.lifecycle = "PENDING_PROVIDER_ORDER"
  /\ row' = [row EXCEPT !.lifecycle = "PROVIDER_ORDER_FAILED",
                        !.provider = "PROVIDER_ORDER_FAILED"]
  /\ UNCHANGED <<telemetry, attempts, order, status, expired, tasks, observed, reconciled>>

(* The customer pays, the provider captures and refunds; time passes.      *)
Pay(p) ==
  /\ order \in {"created", "attempted"} /\ status[p] = "none"
  /\ \E s \in {"failed", "authorized"} : status' = [status EXCEPT ![p] = s]
  /\ order' = "attempted"
  /\ UNCHANGED <<row, telemetry, attempts, expired, tasks, observed, reconciled>>

Capture(p) ==
  /\ order = "attempted" /\ status[p] = "authorized"
  /\ status' = [status EXCEPT ![p] = "captured"]
  /\ order' = "paid"
  /\ UNCHANGED <<row, telemetry, attempts, expired, tasks, observed, reconciled>>

Refund(p) ==
  /\ status[p] = "captured"
  /\ status' = [status EXCEPT ![p] = "refunded"]
  /\ UNCHANGED <<row, telemetry, attempts, order, expired, tasks, observed, reconciled>>

Expire ==
  /\ ~expired /\ order # "none"
  /\ expired' = TRUE
  /\ UNCHANGED <<row, telemetry, attempts, order, status, tasks, observed, reconciled>>

-----------------------------------------------------------------------------
(* The client's callback comes with the provider's signature of a payment  *)
(* that succeeded.                                                         *)
StartVerify(t, p) ==
  /\ tasks[t].pc = "idle"
  /\ status[p] \in Success
  /\ tasks' = [tasks EXCEPT ![t] = [NoTask EXCEPT !.kind = "verify", !.pc = "fetch",
                                                  !.payment = p]]
  /\ UNCHANGED <<row, telemetry, attempts, order, status, expired, observed, reconciled>>

(* A payment event is processed, once or again, whenever.                  *)
StartObserve(t, p) ==
  /\ tasks[t].pc = "idle"
  /\ observed < MaxObserved /\ status[p] # "none"
  /\ observed' = observed + 1
  /\ tasks' = [tasks EXCEPT ![t] = [NoTask EXCEPT !.kind = "observe", !.pc = "fetch",
                                                  !.payment = p]]
  /\ UNCHANGED <<row, telemetry, attempts, order, status, expired, reconciled>>

(* reconcile_open_orders, for this order.                                  *)
Reconcilable(r) ==
  /\ order # "none"
  /\ r.lifecycle \notin {"ABANDONED", "PROVIDER_ORDER_FAILED"}
  /\ r.lifecycle # "PAID" \/ r.attempts = 0

StartReconcile(t) ==
  /\ tasks[t].pc = "idle"
  /\ reconciled < MaxReconciled /\ Reconcilable(row)
  /\ reconciled' = reconciled + 1
  /\ tasks' = [tasks EXCEPT ![t] = [NoTask EXCEPT !.kind = "reconcile", !.pc = "fetch",
                                                  !.late = expired]]
  /\ UNCHANGED <<row, telemetry, attempts, order, status, expired, observed>>

(* fetch_payment and fetch_order.  validate_authoritative_payment refuses a*)
(* payment that is not successful.                                         *)
Answer(t) == IF tasks[t].kind = "reconcile" THEN order ELSE status[tasks[t].payment]

AttemptsMade == Cardinality({p \in Payments : status[p] # "none"})

Fetch(t) ==
  /\ tasks[t].pc = "fetch"
  /\ tasks[t].kind = "verify" => Answer(t) \in Success
  /\ tasks' = [tasks EXCEPT ![t].pc = "load", ![t].fetched = Answer(t),
                  ![t].count = IF tasks[t].kind = "reconcile" THEN AttemptsMade ELSE 0]
  /\ UNCHANGED <<row, telemetry, attempts, order, status, expired, observed, reconciled>>

(* A failed call, a refused payment, a cancelled request, or the crash of  *)
(* the process: before its commit a task has written nothing.              *)
GiveUp(t) ==
  /\ tasks[t].pc # "idle"
  /\ tasks' = [tasks EXCEPT ![t] = NoTask]
  /\ UNCHANGED <<row, telemetry, attempts, order, status, expired, observed, reconciled>>

-----------------------------------------------------------------------------
(* The row is read; with it verify reads the telemetry and observe the     *)
(* attempt of its payment.  bind_verified_payment refuses a row or         *)
(* telemetry that names another payment.                                   *)
Load(t) ==
  /\ tasks[t].pc = "load"
  /\ tasks[t].kind = "verify" =>
       /\ row.payment \in {None, tasks[t].payment}
       /\ telemetry \in {"unbound", tasks[t].payment}
  /\ tasks' = [tasks EXCEPT
       ![t].loaded = row,
       ![t].seen = IF tasks[t].kind = "observe" THEN attempts[tasks[t].payment] ELSE telemetry,
       ![t].pc = IF tasks[t].kind = "observe" THEN "flush" ELSE "commit"]
  /\ UNCHANGED <<row, telemetry, attempts, order, status, expired, observed, reconciled>>

(* observe_payment_event flushes the attempt, which keeps its row until the*)
(* commit, counts the attempts it sees, and reads the telemetry.  Inserting*)
(* an attempt another task has inserted since fails.                       *)
Flush(t) ==
  /\ tasks[t].pc = "flush"
  /\ LET p == tasks[t].payment IN
       /\ \A u \in Tasks \ {t} : ~(tasks[u].kind = "observe" /\ tasks[u].pc = "commit"
                                     /\ tasks[u].payment = p)
       /\ tasks' =
            IF tasks[t].seen = None /\ attempts[p] # None
              THEN [tasks EXCEPT ![t] = NoTask]
              ELSE [tasks EXCEPT ![t].pc = "commit", ![t].seen = telemetry,
                      ![t].count = Cardinality({q \in Payments : attempts[q] # None} \cup {p})]
  /\ UNCHANGED <<row, telemetry, attempts, order, status, expired, observed, reconciled>>

(* Mutant: PAID is not looked for in the order's status.                   *)
LifecycleOfPayment(payment, orderStatus) ==
  CASE payment \in Settled -> "PAID"
    [] payment = "authorized" -> "AUTHORIZED"
    [] payment = "failed" -> "ATTEMPT_FAILED"
    [] OTHER -> "OPEN"

(* derive_checkout_lifecycle.                                              *)
Lifecycle(payment, orderStatus) ==
  CASE orderStatus = "paid" \/ payment \in Settled -> "PAID"
    [] orderStatus # "paid" /\ payment = "authorized" -> "AUTHORIZED"
    [] orderStatus # "paid" /\ payment = "failed" -> "ATTEMPT_FAILED"
    [] OTHER -> IF orderStatus = "attempted" THEN "ATTEMPTED" ELSE "OPEN"

(* What each task makes of the row it read.                                *)
Verified(t) ==
  LET r == tasks[t].loaded
      l == Lifecycle(tasks[t].fetched, r.provider)
  IN [r EXCEPT !.lifecycle = l, !.last = tasks[t].fetched, !.verified = TRUE,
               !.payment = tasks[t].payment, !.attempts = Greater(@, 1),
               !.provider = IF l = "PAID" THEN "paid" ELSE @]

(* Mutant: a failed payment is bound.                                      *)
ObservedAny(t) ==
  LET r == tasks[t].loaded IN
    [r EXCEPT !.lifecycle = Lifecycle(tasks[t].fetched, r.provider),
              !.last = tasks[t].fetched, !.payment = tasks[t].payment]

Observed(t) ==
  LET r == tasks[t].loaded
      l == Lifecycle(tasks[t].fetched, r.provider)
  IN [r EXCEPT !.lifecycle = l, !.last = tasks[t].fetched,
               !.attempts = Greater(@, tasks[t].count),
               !.provider = IF l = "PAID" THEN "paid" ELSE @,
               !.payment = IF l = "PAID" \/ tasks[t].fetched = "authorized"
                             THEN tasks[t].payment ELSE @]

(* Mutant: the provider's word is stored as the lifecycle.                 *)
ReconciledVerbatim(t) ==
  [tasks[t].loaded EXCEPT !.provider = tasks[t].fetched, !.lifecycle = tasks[t].fetched]

Reconciled(t) ==
  LET r == tasks[t].loaded
      attempted == IF r.last = "failed" THEN "ATTEMPT_FAILED" ELSE "ATTEMPTED"
      l == CASE tasks[t].fetched = "paid" -> "PAID"
             [] tasks[t].fetched = "attempted" -> attempted
             [] OTHER -> "OPEN"
  IN [r EXCEPT !.provider = tasks[t].fetched, !.attempts = tasks[t].count,
               !.lifecycle = IF tasks[t].fetched # "paid" /\ tasks[t].late
                               THEN "ABANDONED" ELSE l]

(* The mapper writes the columns whose value it changed.                   *)
Merge(loaded, new) ==
  [f \in DOMAIN row |-> IF new[f] = loaded[f] THEN row[f] ELSE new[f]]

Commit(t) ==
  /\ tasks[t].pc = "commit"
  /\ tasks' = [tasks EXCEPT ![t] = NoTask]
  /\ \/ /\ tasks[t].kind = "verify"
        /\ row' = Merge(tasks[t].loaded, Verified(t))
        /\ telemetry' = IF tasks[t].seen = tasks[t].payment THEN telemetry
                                                            ELSE tasks[t].payment
        /\ UNCHANGED attempts
     \/ /\ tasks[t].kind = "observe"
        /\ row' = Merge(tasks[t].loaded, Observed(t))
        /\ attempts' = [attempts EXCEPT ![tasks[t].payment] = tasks[t].fetched]
        /\ telemetry' = IF Observed(t).lifecycle = "PAID" /\ tasks[t].seen = "unbound"
                          THEN tasks[t].payment ELSE telemetry
     \/ /\ tasks[t].kind = "reconcile"
        /\ row' = Merge(tasks[t].loaded, Reconciled(t))
        /\ UNCHANGED <<telemetry, attempts>>
  /\ UNCHANGED <<order, status, expired, observed, reconciled>>

Next ==
  \/ OrderCreated \/ OrderRefused \/ Expire
  \/ \E p \in Payments : Pay(p) \/ Capture(p) \/ Refund(p)
  \/ \E t \in Tasks, p \in Payments : StartVerify(t, p) \/ StartObserve(t, p)
  \/ \E t \in Tasks : \/ StartReconcile(t) \/ Fetch(t) \/ Load(t) \/ Flush(t)
                      \/ Commit(t) \/ GiveUp(t)

Spec == Init /\ [][Next]_vars

-----------------------------------------------------------------------------
(* What the rows and the tasks hold.                                       *)
AttemptStatuses == Success \cup {"failed"}
OrderStatuses == {"created", "attempted", "paid"}
Counts == 0 .. Cardinality(Payments)

Rows ==
  [lifecycle : Lifecycles, attempts : Counts, payment : Payments \cup {None},
   provider : OrderStatuses \cup {"PENDING_PROVIDER_ORDER", "PROVIDER_ORDER_FAILED"},
   last : AttemptStatuses \cup {None}, verified : BOOLEAN]

TaskRecords ==
  [kind : {"verify", "observe", "reconcile", None},
   pc : {"idle", "fetch", "load", "flush", "commit"}, payment : Payments \cup {None},
   fetched : AttemptStatuses \cup OrderStatuses \cup {None}, loaded : Rows \cup {None},
   seen : {"absent", "unbound", None} \cup Payments \cup AttemptStatuses,
   count : Counts, late : BOOLEAN]

(* Every variable holds a value of its type.                               *)
TypeOK ==
  /\ row \in Rows
  /\ telemetry \in {"absent", "unbound"} \cup Payments
  /\ attempts \in [Payments -> AttemptStatuses \cup {None}]
  /\ order \in OrderStatuses \cup {"none"}
  /\ status \in [Payments -> AttemptStatuses \cup {"none"}]
  /\ tasks \in [Tasks -> TaskRecords]
  /\ expired \in BOOLEAN /\ observed \in Nat /\ reconciled \in Nat

(* No order of callbacks, events and reconciliations shows an order as     *)
(* PAID that the provider has not captured a payment of                    *)
(* (derive_checkout_lifecycle and provider_status, which feeds back).      *)
PaidIsPaid == row.lifecycle = "PAID" \/ row.provider = "paid" => order = "paid"

(* checkout_bridge.py:562-564: failed attempts leave "the checkout/        *)
(* telemetry canonical payment_id free for the eventual success": until    *)
(* the order is paid neither names a failed payment.                       *)
FailuresLeaveTheOrderFree ==
  order # "paid" =>
    \A p \in Payments : p = row.payment \/ p = telemetry => status[p] # "failed"

(* The session says of the order what the provider would: PAID only if it  *)
(* is, and no failed payment in the place of a success still to come.      *)
OrdersFollowPayments == PaidIsPaid /\ FailuresLeaveTheOrderFree

(* A session loses PAID only to a task that read the row or asked the      *)
(* provider before the payment; no task that knows of it takes it back     *)
(* (checkout_bridge.py:437-446, 532-542, 617-646).                         *)
Outdated(t) ==
  \/ tasks[t].loaded.lifecycle # "PAID" \/ tasks[t].loaded.provider # "paid"
  \/ tasks[t].kind = "reconcile" /\ tasks[t].fetched # "paid"

PaidLostToOutdatedTasksOnly ==
  [][row.lifecycle = "PAID" /\ row'.lifecycle # "PAID" =>
       \E t \in Tasks : tasks[t].pc = "commit" /\ tasks'[t].pc = "idle" /\ Outdated(t)]_vars

(* The same comment without the proviso: neither the order nor its         *)
(* telemetry ever names a failed payment.                                  *)
CanonicalPaymentSucceeded ==
  \A p \in Payments : p = row.payment \/ p = telemetry => status[p] # "failed"
=============================================================================
