---------------------------- MODULE MCServiceKeys ----------------------------
EXTENDS ServiceKeys, TLC

MCSymmetry == Permutations(Accounts) \cup Permutations(Keys) \cup Permutations(Threads)
              \cup Permutations(Staff)
=============================================================================
