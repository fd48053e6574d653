------------------------------- MODULE MCVault -------------------------------
EXTENDS Vault, TLC

Symmetry == Permutations(Threads) \cup Permutations(Sessions) \cup Permutations(Vals)
=============================================================================
