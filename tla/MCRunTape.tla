----------------------------- MODULE MCRunTape -----------------------------
EXTENDS RunTape, TLC

Symmetry == Permutations(Writers)
=============================================================================
