------------------------ MODULE MCCheckoutLifecycle ------------------------
(* Tasks are interchangeable, and so are payments.                         *)
EXTENDS CheckoutLifecycle, TLC
MCSymmetry == Permutations(Tasks) \cup Permutations(Payments)
=============================================================================
