------------------------------ MODULE MCCounters ------------------------------
EXTENDS Counters, TLC

CONSTANTS p1, p2, t1, t2, t3

MCProcessOf == [t \in Threads |-> IF t = t3 THEN p2 ELSE p1]

\* The threads of one worker are alike.
MCSymmetry == Permutations(Threads \ {t3})
=============================================================================
