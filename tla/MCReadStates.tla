--------------------------- MODULE MCReadStates ---------------------------
EXTENDS ReadStates, TLC

MCSymmetry == Permutations(Readers)
=============================================================================
