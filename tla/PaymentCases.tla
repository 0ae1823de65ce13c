---------------------------- MODULE PaymentCases ----------------------------
(***************************************************************************)
(* Holds that are opened for one processor payment (payment_case_bridge.py)*)
(* and what the provider says later about the payment behind a hold        *)
(* (ground_truth.py), while webhooks keep changing the canonical rows.     *)
(* Every SELECT is a step of its own: the sessions read committed rows.    *)
(* The hold service is reduced to its lookup and insert by request_id,     *)
(* which payment_case_request_id makes a function of the payment.          *)
(***************************************************************************)
EXTENDS Naturals, Sequences, FiniteSets, FiniteSetsExt

CONSTANTS
  Payments,        \* payments of two orders of the account
  OrderOf,         \* the order of every payment
  RefundOf,        \* the refund of every payment
  Summaries,       \* stored webhooks: what their summary names
  BridgeCalls,     \* calls of create_or_get in flight, at the most
  MaxMoves,        \* bound: changes of canonical rows
  MaxReceipts,     \* bound: answered calls of create_or_get
  Nothing

VARIABLES
  paymentRows,  \* processor_payments: the canonical row of every payment;
              \* past, the events that wrote it, is history
  refunds,    \* processor_refunds: the payments that have a refund row
  disputes,   \* processor_disputes: the phase of a payment's dispute
  moves,      \* the clock: every change of a row has its own updated_at
  bridge,     \* calls of create_or_get
  cases,      \* holds by request_id: the trigger and reason they were made with
  receipts,   \* answers of create_or_get: history
  truth,      \* the ground-truth read that is going on
  source,     \* source_event_id of the hold that is asked about, if one is
  told        \* the last answer about it

caseVars == <<paymentRows, refunds, disputes, moves, bridge, cases, receipts, truth, source, told>>

Orders == {OrderOf[p] : p \in Payments}
Refunds == {RefundOf[p] : p \in Payments}
Webhooks == DOMAIN Summaries
CaseSources == Payments \cup Orders \cup Webhooks \cup Refunds

(* What the store and the bridge keep of a payment.                        *)
PaymentRows ==
  [status : {"authorized", "captured", "failed", "refunded"}, refunded : BOOLEAN,
   event : Webhooks, past : SUBSET Webhooks, at : Nat]
PaymentCandidates ==
  [reason : {"REFUND_OBSERVED", "failed", "captured", "authorized", "PAYMENT_OBSERVED"},
   at : Nat]

\* Nothing is no row, candidate, payment or phase; a summary names finitely many ids.
ASSUME CasesAssumption ==
  /\ Nothing \notin PaymentRows \cup PaymentCandidates \cup Payments \cup {"fraud", "chargeback"}
  /\ \A w \in Webhooks :
       /\ Summaries[w].payments \subseteq Payments /\ IsFiniteSet(Summaries[w].payments)
       /\ Summaries[w].orders \subseteq Orders /\ IsFiniteSet(Summaries[w].orders)

Calling == [pc |-> "idle", payment |-> Nothing, candidate |-> Nothing]
Reading ==
  [pc |-> "idle", payment |-> Nothing, order |-> Nothing,
   row |-> Nothing, refunded |-> FALSE, bridged |-> FALSE]

CaseInit ==
  /\ paymentRows = [p \in Payments |-> Nothing]
  /\ refunds = {}
  /\ disputes = [p \in Payments |-> Nothing]
  /\ moves = 0
  /\ \E C \in SUBSET BridgeCalls : bridge = [c \in C |-> Calling]
  /\ cases = [p \in Payments |-> Nothing]
  /\ receipts = <<>>
  /\ truth = Reading
  /\ source \in CaseSources \cup {Nothing}
  /\ told = Nothing
-----------------------------------------------------------------------------
(* The reconstruction commits: a payment moves on, is refunded, or is      *)
(* disputed.  Amounts refunded and rows that exist never go away.          *)
Successors ==
  [authorized |-> {"captured", "failed"}, captured |-> {"refunded"},
   failed |-> {}, refunded |-> {}]

PaymentRow(row, w, first) ==
  IF row = Nothing
    THEN [status |-> first, refunded |-> FALSE, event |-> w, past |-> {w}, at |-> moves + 1]
    ELSE [row EXCEPT !.event = w, !.past = @ \cup {w}, !.at = moves + 1]

StoresPayment(p) ==
  /\ \E w \in {x \in Webhooks : p \in Summaries[x].payments},
        first \in {"authorized", "captured"} :
       paymentRows' = [paymentRows EXCEPT ![p] = PaymentRow(@, w, first)]
  /\ UNCHANGED <<refunds, disputes>>

MovesPayment(p) ==
  /\ paymentRows[p] # Nothing
  /\ \E s \in Successors[paymentRows[p].status] :
       paymentRows' = [paymentRows EXCEPT ![p] = [@ EXCEPT !.status = s, !.at = moves + 1]]
  /\ UNCHANGED <<refunds, disputes>>

StoresRefund(p) ==
  /\ paymentRows[p] # Nothing /\ paymentRows[p].status = "captured"
  /\ refunds' = refunds \cup {p}
  /\ paymentRows' = [paymentRows EXCEPT ![p] = [@ EXCEPT !.refunded = TRUE, !.at = moves + 1]]
  /\ UNCHANGED disputes

StoresDispute(p) ==
  /\ \E phase \in {"fraud", "chargeback"} : disputes' = [disputes EXCEPT ![p] = phase]
  /\ UNCHANGED <<paymentRows, refunds>>

RowsMove ==
  /\ moves < MaxMoves /\ moves' = moves + 1
  /\ \E p \in Payments :
       StoresPayment(p) \/ MovesPayment(p) \/ StoresRefund(p) \/ StoresDispute(p)
  /\ UNCHANGED <<bridge, cases, receipts, truth, source, told>>
-----------------------------------------------------------------------------
(* payment_reason_code, with the codes without their RAZORPAY_ prefix.     *)
ReasonOf(row) ==
  CASE row.refunded \/ row.status = "refunded" -> "REFUND_OBSERVED"
    [] ~row.refunded /\ row.status \in {"failed", "captured", "authorized"} -> row.status
    [] OTHER -> "PAYMENT_OBSERVED"

(* get_candidate: LookupError when there is no row.                        *)
CandidateCall(p) ==
  IF paymentRows[p] = Nothing THEN Calling
  ELSE [pc |-> "find", payment |-> p,
        candidate |-> [reason |-> ReasonOf(paymentRows[p]), at |-> paymentRows[p].at]]

GetCandidate(c) ==
  /\ bridge[c].pc = "idle" /\ Len(receipts) < MaxReceipts
  /\ \E p \in Payments : bridge' = [bridge EXCEPT ![c] = CandidateCall(p)]
  /\ UNCHANGED <<paymentRows, refunds, disputes, moves, cases, receipts, truth, source, told>>

Receipt(c, hold, created) ==
  /\ receipts' = Append(receipts,
       [payment |-> bridge[c].payment, shown |-> bridge[c].candidate,
        hold |-> hold, created |-> created])
  /\ bridge' = [bridge EXCEPT ![c] = Calling]

(* create_hold: the hold of that request_id, if there is one.              *)
FindCase(c) ==
  LET p == bridge[c].payment IN
  /\ bridge[c].pc = "find"
  /\ IF cases[p] # Nothing THEN Receipt(c, cases[p], FALSE)
     ELSE bridge' = [bridge EXCEPT ![c].pc = "insert"] /\ UNCHANGED receipts
  /\ UNCHANGED <<paymentRows, refunds, disputes, moves, cases, truth, source, told>>

(* A conflict on request_id returns what the other call inserted.          *)
InsertCase(c) ==
  LET p == bridge[c].payment IN
  /\ bridge[c].pc = "insert"
  /\ IF cases[p] = Nothing
       THEN /\ cases' = [cases EXCEPT ![p] = bridge[c].candidate]
            /\ Receipt(c, bridge[c].candidate, TRUE)
       ELSE Receipt(c, cases[p], FALSE) /\ UNCHANGED cases
  /\ UNCHANGED <<paymentRows, refunds, disputes, moves, truth, source, told>>
-----------------------------------------------------------------------------
(* for_hold begins: a hold may name a payment, an order, a refund or a     *)
(* webhook as its source_event_id.  A payment id links to itself.          *)
AskTruth ==
  /\ truth.pc = "idle" /\ source # Nothing
  /\ truth' = IF source \in Payments
                THEN [Reading EXCEPT !.pc = "payment", !.payment = source,
                                     !.bridged = cases[source] # Nothing]
                ELSE [Reading EXCEPT !.pc = "direct"]
  /\ UNCHANGED <<paymentRows, refunds, disputes, moves, bridge, cases, receipts, source, told>>

Newest(S) == CHOOSE p \in S : \A q \in S : paymentRows[q].at <= paymentRows[p].at

(* A row whose last event, or whose order, is the source.                  *)
DirectRows(s) ==
  {p \in Payments : paymentRows[p] # Nothing /\ (paymentRows[p].event = s \/ OrderOf[p] = s)}

(* The ids of the refund rows, and the payment of one.                     *)
RefundIds == {RefundOf[p] : p \in refunds}
RefundedBy(s) == CHOOSE p \in refunds : RefundOf[p] = s

Linked(p, order) ==
  truth' = [truth EXCEPT !.pc = "payment", !.payment = p, !.order = order]

NotLinked(order) ==
  /\ told' = [payment |-> Nothing, order |-> order, outcome |-> "UNLINKED_CASE",
              bridged |-> FALSE]
  /\ truth' = Reading

ResolveDirect ==
  LET s == source  D == DirectRows(s) IN
  /\ truth.pc = "direct"
  /\ CASE D # {} -> Linked(Newest(D), OrderOf[Newest(D)]) /\ UNCHANGED told
       [] D = {} /\ s \in RefundIds ->
            Linked(RefundedBy(s), Nothing) /\ UNCHANGED told
       [] D = {} /\ s \notin RefundIds /\ s \in Webhooks ->
            truth' = [truth EXCEPT !.pc = "webhook"] /\ UNCHANGED told
       [] OTHER -> NotLinked(IF s \in Orders THEN s ELSE Nothing)
  /\ UNCHANGED <<paymentRows, refunds, disputes, moves, bridge, cases, receipts, source>>

(* Mutant: the first payment that is named is taken.                       *)
NamedPayments(s) == Summaries[s].payments
AtLeastOne(S) == S # {}
ExactlyOne(S) == Cardinality(S) = 1

(* The summary of the webhook: exactly one payment, or else exactly one    *)
(* order and its newest payment.                                           *)
ResolveWebhook ==
  LET payments == NamedPayments(source)
      orders == Summaries[source].orders
      ofOrder == {p \in Payments : paymentRows[p] # Nothing /\ OrderOf[p] \in orders} IN
  /\ truth.pc = "webhook"
  /\ CASE ExactlyOne(payments) ->
            \E o \in IF orders = {} THEN {Nothing} ELSE orders :
              Linked(CHOOSE p \in payments : TRUE, o) /\ UNCHANGED told
       [] ~ExactlyOne(payments) /\ Cardinality(orders) = 1 /\ ofOrder # {} ->
            Linked(Newest(ofOrder), CHOOSE o \in orders : TRUE) /\ UNCHANGED told
       [] ~ExactlyOne(payments) /\ Cardinality(orders) = 1 /\ ofOrder = {} ->
            NotLinked(CHOOSE o \in orders : TRUE)
       [] OTHER -> NotLinked(Nothing)
  /\ UNCHANGED <<paymentRows, refunds, disputes, moves, bridge, cases, receipts, source>>

ReadPayment ==
  /\ truth.pc = "payment"
  /\ truth' = [truth EXCEPT !.pc = "refunds", !.row = paymentRows[truth.payment]]
  /\ UNCHANGED <<paymentRows, refunds, disputes, moves, bridge, cases, receipts, source, told>>

ReadRefunds ==
  /\ truth.pc = "refunds"
  /\ truth' = [truth EXCEPT !.pc = "disputes", !.refunded = truth.payment \in refunds]
  /\ UNCHANGED <<paymentRows, refunds, disputes, moves, bridge, cases, receipts, source, told>>

(* _classify_outcome.                                                      *)
ClassifyOutcome(row, refunded, phase) ==
  CASE phase = "fraud" -> "FRAUD_DISPUTE_CONFIRMED"
    [] phase \notin {"fraud", Nothing} -> "DISPUTE_CONFIRMED"
    [] phase = Nothing /\ refunded -> "REFUND_OBSERVED"
    [] OTHER -> IF row = Nothing THEN "NOT_YET_OBSERVED" ELSE ReasonOf(row)

ReadDisputes ==
  /\ truth.pc = "disputes"
  /\ told' = [payment |-> truth.payment,
        order |-> IF truth.order = Nothing /\ truth.row # Nothing
                    THEN OrderOf[truth.payment] ELSE truth.order,
        outcome |-> ClassifyOutcome(truth.row, truth.refunded, disputes[truth.payment]),
        bridged |-> truth.bridged]
  /\ truth' = Reading
  /\ UNCHANGED <<paymentRows, refunds, disputes, moves, bridge, cases, receipts, source>>

CaseNext ==
  \/ RowsMove
  \/ \E c \in DOMAIN bridge : GetCandidate(c) \/ FindCase(c) \/ InsertCase(c)
  \/ AskTruth \/ ResolveDirect \/ ResolveWebhook
  \/ ReadPayment \/ ReadRefunds \/ ReadDisputes

CaseSpec == CaseInit /\ [][CaseNext]_caseVars
-----------------------------------------------------------------------------
(* However many calls run at the same time, and whatever happens to the    *)
(* payment meanwhile, a payment has one case: every receipt names the same *)
(* hold, at most one says it was created, and the hold is never newer than *)
(* the payment as the receipt shows it unless another call made it         *)
(* (payment_case_bridge.py:210).                                           *)
OneCasePerPayment ==
  \A i, j \in DOMAIN receipts :
    receipts[i].payment = receipts[j].payment =>
      /\ receipts[i].hold = receipts[j].hold
      /\ receipts[i].created /\ receipts[j].created => i = j
      /\ receipts[i].created => receipts[i].shown = receipts[i].hold

(* A case of the bridge is always linked to its payment, which has always  *)
(* been observed: the source_event_id it stores resolves, and a payment    *)
(* that is not in the store gets no case (ground_truth.py:304).            *)
BridgedCasesAreObserved ==
  told # Nothing /\ told.bridged =>
    told.payment = source /\ told.outcome # "NOT_YET_OBSERVED"

Rank(outcome) ==
  CASE outcome \in {"UNLINKED_CASE", "NOT_YET_OBSERVED"} -> 0
    [] outcome = "REFUND_OBSERVED" -> 2
    [] outcome \in {"DISPUTE_CONFIRMED", "FRAUD_DISPUTE_CONFIRMED"} -> 3
    [] OTHER -> 1

(* What is told of one payment never retreats, from a dispute to a refund  *)
(* or from a refund to a payment, although an answer is put together from  *)
(* three reads.  A source whose link moves to another payment may.         *)
OutcomesNeverRetreat ==
  [][told # Nothing /\ told'.payment = told.payment =>
       Rank(told'.outcome) >= Rank(told.outcome)]_caseVars

(* Nothing is guessed: the source names its payment, or the order of the   *)
(* payment, or is the webhook that wrote its row; a webhook about several  *)
(* payments of several orders links to none (ground_truth.py:297-398).     *)
LinksAreNamed ==
  told # Nothing /\ told.payment # Nothing =>
    LET p == told.payment IN
    \/ source \in {p, OrderOf[p], RefundOf[p]}
    \/ source \in Webhooks /\ \/ NamedPayments(source) = {p}
                              \/ Summaries[source].orders = {OrderOf[p]}
                              \/ paymentRows[p] # Nothing /\ source \in paymentRows[p].past

(* A case is of one payment, and of the one its source names.              *)
CasesNameTheirPayments == OneCasePerPayment /\ BridgedCasesAreObserved /\ LinksAreNamed
=============================================================================
