----------------------------- MODULE RequestGate -----------------------------
(***************************************************************************)
(* What a request passes before its handler runs: trusted hosts and the    *)
(* sliding rate window (security_middleware.py), the bearer token and the  *)
(* authorizer (api.py), which is LocalAuthorizer (authorization.py) or OPA *)
(* with authorization.rego.  One client and one route; time is in ticks,   *)
(* Window of them a minute.                                                *)
(***************************************************************************)
EXTENDS Integers, Sequences, FiniteSets

CONSTANTS
  Limit,      \* requests_per_minute; 0 switches the limiter off
  Window,     \* the 60 seconds, in ticks
  MaxTime,    \* bound: ticks
  MaxSent     \* bound: requests

\* A window has a length; the limit is a number, as Settings requires.
ASSUME GateAssumption == Limit \in Nat /\ Window \in Nat \ {0}

VARIABLES
  caller,     \* who asks for what, of which merchant, and the settings
  now,        \* time.monotonic()
  bucket,     \* _requests: the times the deque of this client holds
  admitted,   \* when its requests were let through: history
  requests,   \* requests so far
  opa,        \* whether the authorization endpoint answers
  status      \* of the last response

gateVars == <<caller, now, bucket, admitted, requests, opa, status>>

Roles == {"MERCHANT", "RISK_ANALYST", "RISK_SERVICE", "EVIDENCE_SERVICE", "ADMIN"}
Merchants == {"m1", "m2"}

(* A configured principal; only a merchant names a merchant.               *)
Principals ==
  [role : {"MERCHANT"}, merchant : Merchants]
    \cup [role : Roles \ {"MERCHANT"}, merchant : {"none"}]

NoPrincipal == [role |-> "unknown", merchant |-> "none"]

(* LocalAuthorizer._roles_by_action.                                       *)
Operators == {"RISK_ANALYST", "RISK_SERVICE", "ADMIN"}
Services  == {"RISK_SERVICE", "ADMIN"}
Analysts  == {"RISK_ANALYST", "ADMIN"}
Customers == {"MERCHANT", "RISK_SERVICE", "ADMIN"}

LocalRoles ==
  [CREATE_HOLD |-> Customers, EVALUATE_HOLD |-> Operators,
   VIEW_HOLD |-> Operators \cup {"MERCHANT"}, LIST_HOLDS |-> Operators \cup {"MERCHANT"},
   SUBMIT_EVIDENCE |-> {"MERCHANT", "EVIDENCE_SERVICE", "ADMIN"},
   VIEW_AUDIT |-> Analysts, VIEW_OPERATOR_DASHBOARD |-> Analysts,
   CHECK_POLICY |-> Services, RECORD_ANALYST_OUTCOME |-> Analysts,
   VIEW_INTEGRATION |-> Operators, MANAGE_INTEGRATION |-> Services,
   SUBMIT_TELEMETRY |-> Customers, VIEW_FEATURE_CONTRACT |-> Operators,
   CREATE_CHECKOUT |-> Customers, VERIFY_CHECKOUT |-> Customers]

ApiActions == DOMAIN LocalRoles

(* roles_by_action of the Rego package, role by role.                      *)
RegoActions ==
  [MERCHANT |-> {"CREATE_HOLD", "VIEW_HOLD", "LIST_HOLDS", "SUBMIT_EVIDENCE",
                 "SUBMIT_TELEMETRY", "CREATE_CHECKOUT", "VERIFY_CHECKOUT"},
   EVIDENCE_SERVICE |-> {"SUBMIT_EVIDENCE"},
   RISK_ANALYST |-> {"EVALUATE_HOLD", "VIEW_HOLD", "LIST_HOLDS", "VIEW_AUDIT",
                     "VIEW_OPERATOR_DASHBOARD", "RECORD_ANALYST_OUTCOME",
                     "VIEW_INTEGRATION", "VIEW_FEATURE_CONTRACT"},
   RISK_SERVICE |-> ApiActions \ {"SUBMIT_EVIDENCE", "VIEW_AUDIT",
                     "VIEW_OPERATOR_DASHBOARD", "RECORD_ANALYST_OUTCOME"},
   ADMIN |-> ApiActions]

LocalAllows(p, action, merchant) ==
  /\ p.role \in LocalRoles[action]
  /\ p.role = "MERCHANT" => merchant = p.merchant

RegoAllows(p, action, merchant) ==
  /\ action \in RegoActions[p.role]
  /\ p.role # "MERCHANT" \/ p.merchant = merchant
-----------------------------------------------------------------------------
Callers ==
  [host : {"trusted", "other"}, principal : Principals \cup {NoPrincipal},
   action : ApiActions, merchant : Merchants \cup {"none"}, local : BOOLEAN]

GateInit ==
  /\ caller \in {c \in Callers : c.host = "other" => c.principal = NoPrincipal}
  /\ now = Window
  /\ bucket = <<>> /\ admitted = <<>>
  /\ requests = 0
  /\ opa = TRUE
  /\ status = "none"

(* _allow: what the window has left behind is popped from the left, and a  *)
(* request that is rejected is not counted.                                *)
Popped(cutoff) ==
  CHOOSE k \in 0 .. Len(bucket) :
    /\ \A i \in 1 .. k : bucket[i] <= cutoff
    /\ k < Len(bucket) => bucket[k + 1] > cutoff
FreshSince(cutoff) == SubSeq(bucket, Popped(cutoff) + 1, Len(bucket))

(* Mutant: the edge of the window is still inside.                         *)
FreshToTheEdge == FreshSince(now - Window - 1)
Fresh == FreshSince(now - Window)

Allows == Len(Fresh) < Limit

(* _authenticate, then require_authorization; an OPA endpoint that does    *)
(* not answer is a 503.                                                    *)
AfterLimit ==
  LET c == caller IN
  CASE c.principal = NoPrincipal -> "401"
    [] c.principal # NoPrincipal /\ ~c.local /\ ~opa -> "503"
    [] OTHER -> IF (c.local /\ LocalAllows(c.principal, c.action, c.merchant))
                     \/ (~c.local /\ RegoAllows(c.principal, c.action, c.merchant))
                  THEN "handled" ELSE "403"

(* An untrusted host is not counted; what follows the limiter is.          *)
Request ==
  /\ requests < MaxSent /\ requests' = requests + 1
  /\ CASE caller.host = "other" ->
            status' = "400" /\ UNCHANGED <<bucket, admitted>>
       [] caller.host = "trusted" /\ Limit = 0 ->
            status' = AfterLimit /\ UNCHANGED bucket /\ admitted' = Append(admitted, now)
       [] OTHER ->
            IF Allows
              THEN /\ bucket' = Append(Fresh, now) /\ admitted' = Append(admitted, now)
                   /\ status' = AfterLimit
              ELSE bucket' = Fresh /\ status' = "429" /\ UNCHANGED admitted
  /\ UNCHANGED <<caller, now, opa>>

Tick ==
  /\ now < MaxTime
  /\ now' = now + 1
  /\ UNCHANGED <<caller, bucket, admitted, requests, opa, status>>

OpaChanges ==
  /\ ~caller.local
  /\ opa' = ~opa
  /\ UNCHANGED <<caller, now, bucket, admitted, requests, status>>

GateNext == Request \/ Tick \/ OpaChanges

GateSpec == GateInit /\ [][GateNext]_gateVars
-----------------------------------------------------------------------------
(* No minute, wherever it begins, lets more than Limit requests through,   *)
(* and two requests exactly a minute apart are in no common one.           *)
NoMinuteOverTheLimit ==
  Limit > 0 =>
    \A i \in DOMAIN admitted :
      Cardinality({j \in DOMAIN admitted :
                     admitted[i] <= admitted[j] /\ admitted[j] < admitted[i] + Window}) <= Limit

(* A rejected client has used its whole quota in the minute before: being  *)
(* rejected costs nothing, and the edge of the window frees its place.     *)
RejectionsAreDue ==
  [][status' = "429" /\ requests' # requests =>
       Cardinality({j \in DOMAIN admitted : admitted[j] > now - Window}) = Limit]_gateVars

(* Both authorizers give a caller the same answer, for every role, action  *)
(* and merchant (authorization.py:22-52, authorization.rego:7-36), as far  *)
(* as merchants are configured with their merchant_id.                     *)
AuthorizersAgree ==
  caller.principal # NoPrincipal =>
    LocalAllows(caller.principal, caller.action, caller.merchant)
      = RegoAllows(caller.principal, caller.action, caller.merchant)

(* The gate lets through what it should and nothing else: the quota at     *)
(* every edge of the window, for rejections as well, and one answer of     *)
(* both authorizers.                                                       *)
GateHolds == [](NoMinuteOverTheLimit /\ AuthorizersAgree) /\ RejectionsAreDue
=============================================================================
