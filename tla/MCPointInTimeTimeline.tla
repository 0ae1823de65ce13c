----------------------- MODULE MCPointInTimeTimeline -----------------------
(* One payment event and one refund event against one snapshot.            *)
EXTENDS PointInTimeTimeline

MCReads == [paid |-> <<"pay">>, refunded |-> <<"rfnd", "pay">>]
MCEvents == {"paid", "refunded"}
MCEntities == {"pay", "rfnd"}
MCTables == <<{"pay"}, {"rfnd"}>>
=============================================================================
