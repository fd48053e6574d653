------------------------------ MODULE MCAccount ------------------------------
EXTENDS Account, TLC

Symmetry == Permutations(Threads) \cup Permutations(Browsers) \cup Permutations(Spellings)
=============================================================================
