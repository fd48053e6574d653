-------------------------------- MODULE MCMfa --------------------------------
EXTENDS Mfa, TLC

Symmetry == Permutations(Threads) \cup Permutations(Browsers)
=============================================================================
