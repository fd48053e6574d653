------------------------------ MODULE MCApiKeys ------------------------------
EXTENDS ApiKeys

CONSTANTS k1, p1, p2, t1, t2

\* Each worker serves one of the requests under way.
MCProcessOf == [t \in Threads |-> IF t = t1 THEN p1 ELSE p2]
=============================================================================
