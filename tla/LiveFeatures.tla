---------------------------- MODULE LiveFeatures ----------------------------
(***************************************************************************)
(* The live feature store (live_features.py): observations and telemetry   *)
(* get their observed_at before the transaction that stores them commits,  *)
(* and a preview for any cut-off reads what is committed.  The canonical   *)
(* payment rows lend their order ids to observations without one.          *)
(***************************************************************************)
EXTENDS FeatureContract

CONSTANTS
  LivePayments,    \* payments of one account
  LiveOrders,
  CreatedAt,       \* when the provider created each payment
  OrderIds,        \* the order of each payment
  ForeignPayments, \* those not in INR
  Devices,
  LastInstant,     \* bound: the clock
  MaxFacts,        \* bound: rows stored and in flight
  MaxInFlight      \* bound: rows in flight

ASSUME LiveAssumption == CreatedAt \in [LivePayments -> Nat]

VARIABLES
  clock,
  inFlight,        \* rows with their observed_at, not yet committed
  stored,          \* committed rows
  orderNow         \* order_id of the canonical payment rows

liveVars == <<clock, inFlight, stored, orderNow>>

LiveInit ==
  /\ clock = 0 /\ inFlight = {} /\ stored = {}
  /\ orderNow = [p \in LivePayments |-> Missing]

OfKind(kind) == {r.row : r \in {x \in stored : x.kind = kind}}

Receiving(kind, row) ==
  /\ clock < LastInstant /\ clock' = clock + 1
  /\ Cardinality(stored \cup inFlight) < MaxFacts /\ Cardinality(inFlight) < MaxInFlight
  /\ inFlight' = inFlight \cup {[kind |-> kind, row |-> row]}
  /\ UNCHANGED <<stored, orderNow>>

(* The reconstruction fetches an entity: an observation is in flight.  The *)
(* provider may leave the order out.                                       *)
PaymentFetched(p) ==
  \E status \in {"created", "captured"}, named \in BOOLEAN :
    /\ CreatedAt[p] <= clock
    /\ Receiving("payment",
         [payment |-> p, order |-> IF named THEN OrderIds[p] ELSE Missing, status |-> status,
          inr |-> p \notin ForeignPayments, created |-> CreatedAt[p], observed |-> clock])

RefundFetched(p) ==
  \E status \in {"pending", "processed"} :
    /\ CreatedAt[p] <= clock
    /\ Receiving("refund",
         [payment |-> p, status |-> status, created |-> clock, observed |-> clock])

DisputeFetched(p) ==
  /\ CreatedAt[p] <= clock
  /\ Receiving("dispute", [payment |-> p, created |-> clock, observed |-> clock])

(* submit_telemetry: checked against the canonical payment, when there is  *)
(* one and it names its order.                                             *)
SubmitTelemetry(p, o) ==
  /\ p # Missing => orderNow[p] \in {Missing, o}
  /\ \E d \in Devices :
       Receiving("telemetry", [payment |-> p, order |-> o, device |-> d, observed |-> clock])

(* The canonical row is written with the observation, order id or not.     *)
CommitRow(r) ==
  /\ inFlight' = inFlight \ {r}
  /\ stored' = stored \cup {r}
  /\ orderNow' = IF r.kind = "payment"
                   THEN [orderNow EXCEPT ![r.row.payment] = r.row.order] ELSE orderNow
  /\ UNCHANGED clock

(* The transaction, or the process that runs it, fails.                    *)
LoseRow(r) ==
  /\ inFlight' = inFlight \ {r}
  /\ UNCHANGED <<clock, stored, orderNow>>

LiveTick ==
  /\ clock < LastInstant /\ clock' = clock + 1
  /\ UNCHANGED <<inFlight, stored, orderNow>>

LiveNext ==
  \/ \E p \in LivePayments : PaymentFetched(p) \/ RefundFetched(p) \/ DisputeFetched(p)
  \/ \E p \in LivePayments \cup {Missing}, o \in LiveOrders : SubmitTelemetry(p, o)
  \/ \E r \in inFlight : CommitRow(r) \/ LoseRow(r)
  \/ LiveTick

LiveSpec == LiveInit /\ [][LiveNext]_liveVars
-----------------------------------------------------------------------------

(* The five SELECTs of feature_contract_preview, and the order map.        *)
Known(cutoff) ==
  LET known(kind) == {r \in OfKind(kind) : r.observed <= cutoff} IN
  [payments |-> known("payment"), refunds |-> known("refund"), disputes |-> known("dispute"),
   telemetry |-> known("telemetry"), orderNow |-> orderNow]

Preview(cutoff) == ContractPreview(Known(cutoff), cutoff)
-----------------------------------------------------------------------------
(* A preview for a cut-off in the past changes only because a row that was *)
(* in flight at the cut-off commits, or because an order id becomes known: *)
(* what is observed later never reaches it.  The preview does not look for *)
(* unresolved events, so the first of the two is possible                  *)
(* (live_features.py:214), and the order map is today's                    *)
(* (live_features.py:265).                                                 *)
PreviewsChangeOnlyByLateRows ==
  [][\A cutoff \in 0..(clock - 1) :
       (UNCHANGED orderNow /\ \A r \in inFlight : r.row.observed > cutoff) =>
         Preview(cutoff)' = Preview(cutoff)]_liveVars

(* Without a blocker the feature builder has what it needs and nothing is  *)
(* left out: it does not raise, every payment of the two windows is one    *)
(* event in one of them, and none of them has an unmapped status           *)
(* (live_features.py:480-500).                                             *)
UnblockedPreviewsAreComplete ==
  \A cutoff \in 0..clock :
    LET preview == Preview(cutoff) IN
    preview.blockers = {} =>
      /\ ~preview.raises
      /\ Cardinality(preview.vector.current) + Cardinality(preview.vector.baseline)
           = Cardinality(preview.payments)
      /\ {e.id : e \in preview.vector.current} \cap {e.id : e \in preview.vector.baseline} = {}
=============================================================================
