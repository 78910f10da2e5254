------------------------- MODULE MCRandomnessBeacon -------------------------
EXTENDS RandomnessBeacon, TLC

CONSTANTS alice, bob, drand, other

MCAuthors == {alice, bob}

MCKeys == {drand, other}

Symmetry == Permutations(MCAuthors) \union Permutations(MCKeys)
=============================================================================
