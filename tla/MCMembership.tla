----------------------------- MODULE MCMembership -----------------------------
EXTENDS Membership, TLC

Symmetry == Permutations(Threads) \cup Permutations(Users)
=============================================================================
