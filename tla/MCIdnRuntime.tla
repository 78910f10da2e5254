---------------------------- MODULE MCIdnRuntime ----------------------------
(* A small instance of IdnRuntime for TLC. *)
EXTENDS IdnRuntime, TLC

CONSTANTS alice, sub1, sub2, author1, drand

MCTierStart == <<1, 2, 3, 4, 5>>

MCTierDiscount == <<0, 5, 10, 20, 30>>

(* No definition tells the subscription ids apart. *)
Symmetry == Permutations({sub1, sub2})
=============================================================================
