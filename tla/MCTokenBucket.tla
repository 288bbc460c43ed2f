--------------------------- MODULE MCTokenBucket ---------------------------
EXTENDS TokenBucket, TLC
CONSTANTS c1, c2, c3
Symmetric == Permutations(CPU)
=============================================================================
