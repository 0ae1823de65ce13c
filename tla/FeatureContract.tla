-------------------------- MODULE FeatureContract --------------------------
(***************************************************************************)
(* The feature contract preview (live_features.py): from the observations  *)
(* of payments, refunds, disputes and telemetry up to a cut-off to the     *)
(* blockers or the feature vector.  A vector is represented by what it is  *)
(* computed from: the events of its two windows with the facts about each  *)
(* that features.py and _build_baseline read.                              *)
(***************************************************************************)
EXTENDS Integers, FiniteSets, FiniteSetsExt

CONSTANTS
  CurrentWindow,      \* CURRENT_WINDOW_HOURS, in instants
  BaselineWindow,     \* BASELINE_DAYS
  DayLength,          \* a calendar day
  MinBaseline,        \* MIN_BASELINE_TRANSACTIONS
  MinActiveDays,      \* MIN_BASELINE_ACTIVE_DAYS
  Missing             \* a value that is not there

ASSUME WindowsAssumption ==
  /\ CurrentWindow \in Nat \ {0} /\ BaselineWindow \in Nat \ {0}
  /\ DayLength \in Nat \ {0} /\ MinBaseline \in Nat \ {0} /\ MinActiveDays \in Nat

CurrentStart(cutoff) == cutoff - CurrentWindow
BaselineStart(cutoff) == CurrentStart(cutoff) - BaselineWindow
InBaseline(t, cutoff) == BaselineStart(cutoff) <= t /\ t < CurrentStart(cutoff)
InCurrent(t, cutoff) == CurrentStart(cutoff) <= t /\ t <= cutoff

(* map_auth_status *)
AuthStatus(status) ==
  CASE status \in {"authorized", "captured", "refunded"} -> "APPROVED"
    [] status = "failed" -> "FAILED"
    [] OTHER -> Missing

(* _latest_by: the newest observation of every payment.                    *)
Latest(rows) ==
  {CHOOSE r \in {x \in rows : x.payment = p} :
     \A q \in rows : q.payment = p => q.observed <= r.observed :
   p \in {r.payment : r \in rows}}

LastSeen(rows) == CHOOSE r \in rows : \A q \in rows : q.observed <= r.observed
FirstSeen(rows) == CHOOSE r \in rows : \A q \in rows : r.observed <= q.observed

(* The telemetry of a payment: its own, or else that of its order.         *)
TelemetryOf(row, telemetry, orderNow) ==
  LET own == {t \in telemetry : t.payment = row.payment}
      order == IF row.order # Missing THEN row.order ELSE orderNow[row.payment]
      ordered == {t \in telemetry : t.order = order} IN
  CASE own # {} -> LastSeen(own)
    [] own = {} /\ order # Missing /\ ordered # {} -> LastSeen(ordered)
    [] OTHER -> Missing

(* _status_timestamp_by_payment: the first observation says when.          *)
TimeOf(rows, p) ==
  LET own == {r \in rows : r.payment = p} IN
  IF own = {} THEN Missing ELSE FirstSeen(own).created

Happened(t, limit) == t # Missing /\ t <= limit

(* _make_events, for one payment and one set of observations               *)
Event(row, facts) ==
  LET telemetry == TelemetryOf(row, facts.telemetry, facts.orderNow) IN
  [id |-> row.payment, at |-> row.created, auth |-> AuthStatus(row.status),
   device |-> telemetry.device,
   refund |-> TimeOf({r \in facts.refunds : r.status = "processed"}, row.payment),
   chargeback |-> TimeOf(facts.disputes, row.payment)]

Matched(row, facts) ==
  /\ row.inr /\ AuthStatus(row.status) # Missing
  /\ TelemetryOf(row, facts.telemetry, facts.orderNow) # Missing

Blockers(baseline, current, matched) ==
  LET incomplete(rows) == rows \ matched # {} IN
  {b \in {"INSUFFICIENT_BASELINE_TRANSACTIONS", "INSUFFICIENT_BASELINE_ACTIVE_DAYS",
          "BASELINE_TELEMETRY_INCOMPLETE", "CURRENT_WINDOW_TELEMETRY_INCOMPLETE",
          "NO_CURRENT_WINDOW_PAYMENTS", "UNMAPPED_PAYMENT_AUTH_STATUS"} :
     CASE b = "INSUFFICIENT_BASELINE_TRANSACTIONS" -> Cardinality(baseline) < MinBaseline
       [] b = "INSUFFICIENT_BASELINE_ACTIVE_DAYS" ->
            Cardinality({r.created \div DayLength : r \in baseline}) < MinActiveDays
       [] b = "BASELINE_TELEMETRY_INCOMPLETE" -> incomplete(baseline)
       [] b = "CURRENT_WINDOW_TELEMETRY_INCOMPLETE" -> incomplete(current)
       [] b = "NO_CURRENT_WINDOW_PAYMENTS" -> current = {}
       [] b = "UNMAPPED_PAYMENT_AUTH_STATUS" ->
            \E r \in baseline \cup current : AuthStatus(r.status) = Missing}

(* features.py and _build_baseline look at a time only to ask whether it   *)
(* lies before the end of their window.                                    *)
Vector(events, cutoff) ==
  [current |-> {[id |-> e.id, at |-> e.at, auth |-> e.auth, device |-> e.device,
                 refunded |-> Happened(e.refund, cutoff),
                 disputed |-> Happened(e.chargeback, cutoff)] :
                e \in {x \in events : InCurrent(x.at, cutoff)}},
   baseline |-> {[id |-> e.id, at |-> e.at, device |-> e.device,
                  refunded |-> Happened(e.refund, CurrentStart(cutoff) - 1),
                  disputed |-> Happened(e.chargeback, CurrentStart(cutoff) - 1)] :
                 e \in {x \in events : InBaseline(x.at, cutoff)}}]

(* build_feature_contract_preview.  _build_baseline raises without an      *)
(* event in its window, build_point_in_time_features without one in its.   *)
ContractPreview(facts, cutoff) ==
  LET rows == Latest({r \in facts.payments :
                 r.created # Missing /\ BaselineStart(cutoff) <= r.created /\ r.created <= cutoff})
      matched == {r \in rows : Matched(r, facts)}
      baseline == {r \in rows : InBaseline(r.created, cutoff)}
      current == {r \in rows : InCurrent(r.created, cutoff)}
      blockers == Blockers(baseline, current, matched)
      vector == Vector({Event(r, facts) : r \in matched}, cutoff) IN
  [blockers |-> blockers, payments |-> rows,
   vector |-> IF blockers # {} THEN Missing ELSE vector,
   raises |-> blockers = {} /\ (vector.current = {} \/ vector.baseline = {})]
=============================================================================
