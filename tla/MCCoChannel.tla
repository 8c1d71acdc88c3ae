---------------------------- MODULE MCCoChannel ----------------------------
EXTENDS CoChannel, TLC

CONSTANTS c1, c2, c3

MCCo == {c1, c2, c3}
MCCoTwo == {c1, c2}
MCSymmetry == Permutations(MCCo)
=============================================================================
