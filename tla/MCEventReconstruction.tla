----------------------- MODULE MCEventReconstruction -----------------------
(* Small instances of EventReconstruction.                                 *)
EXTENDS EventReconstruction, TLC

(* A payment event and a refund event of the same payment.                 *)
RefundReads == [paid |-> <<"pay">>, refunded |-> <<"rfnd", "pay">>]
RefundEvents == {"paid", "refunded"}
RefundEntities == {"pay", "rfnd"}

(* Two payment events of one payment, one of another payment, and an event *)
(* without a reference.                                                    *)
SalesReads == [paid |-> <<"pay">>, sold |-> <<"pay2">>, other |-> <<>>]
SalesEvents == {"paid", "sold", "other"}
SalesEntities == {"pay", "pay2"}

(* Two events of one payment.                                              *)
PairReads == [paid |-> <<"pay">>, captured |-> <<"pay">>]
PairEvents == {"paid", "captured"}
PairEntities == {"pay"}

WorkerSymmetry == Permutations(Workers)
=============================================================================
