----------------------- MODULE MCQuotedSubscriptions -----------------------
(* Small instances of QuotedSubscriptions for TLC. *)
EXTENDS QuotedSubscriptions

CONSTANTS alice, sub1, sub2

MCTierStart == <<1, 2, 3, 4, 5>>

MCTierDiscount == <<0, 5, 10, 20, 30>>
=============================================================================
