---------------------------- MODULE MCFeesLedger ----------------------------
(* Five short tiers; requests around every boundary and up to u64::MAX. *)
EXTENDS FeesLedger

MCTierStart == <<1, 3, 5, 8, 11>>

MCTierDiscount == <<0, 5, 10, 20, 30>>

MCRequests == 1..40
=============================================================================
