------------------------------ MODULE MCVraas ------------------------------
(* A small instance of Vraas for TLC. *)
EXTENDS Vraas, TLC

CONSTANTS author1, drand, other, carol

MCKeys == {drand, other}

(* No definition tells the keys apart. *)
Symmetry == Permutations(MCKeys)
=============================================================================
