------------------------- MODULE MCLocationValidation -------------------------
EXTENDS LocationValidation, TLC

\* One telegram worker is like another.
Successors == Permutations(Workers)
=============================================================================
