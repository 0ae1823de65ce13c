--------------------------- MODULE HumanAuthority ---------------------------
(***************************************************************************)
(* What the hold workflow promises about money: funds are released or      *)
(* refused only by a recorded human authorization, taken at that moment;   *)
(* everything the machine does by itself leaves the funds held, or takes   *)
(* them back to held ("Human authorization remains required to resolve a   *)
(* case", human-only-production-mode.md; "No AI output can directly move   *)
(* or release money", README.md).                                          *)
(***************************************************************************)
EXTENDS Sequences

CONSTANT Holds

VARIABLES
  disposition,     \* what the hold says about the funds
  authorizations   \* what the humans said, in the order they said it

Dispositions == {"held", "released", "denied"}

Init ==
  /\ disposition = [h \in Holds |-> "held"]
  /\ authorizations = [h \in Holds |-> <<>>]

(* A human decides, and the hold follows the decision at once.             *)
Authorize(h, d) ==
  /\ disposition' = [disposition EXCEPT ![h] = d]
  /\ authorizations' = [authorizations EXCEPT ![h] = Append(@, d)]

(* A late recommendation may put a closed case back before a human.        *)
Reopen(h) ==
  /\ disposition' = [disposition EXCEPT ![h] = "held"]
  /\ UNCHANGED authorizations

Next ==
  \E h \in Holds : Reopen(h) \/ \E d \in Dispositions : Authorize(h, d)

Spec == Init /\ [][Next]_<<disposition, authorizations>>
=============================================================================
