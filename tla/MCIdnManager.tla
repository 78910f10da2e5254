---------------------------- MODULE MCIdnManager ----------------------------
(* Small instances of IdnManager for TLC. *)
EXTENDS ManagerService, TLC

CONSTANTS alice, sub1, sub2

(* Tier boundaries at 2 and 3 credits, so that two or three credits are    *)
(* priced by different tiers.                                              *)
MCTierStart == <<1, 2, 3, 4, 5>>

MCTierDiscount == <<0, 5, 10, 20, 30>>

(* No definition tells the ids apart. *)
Symmetry == Permutations({sub1, sub2})
=============================================================================
