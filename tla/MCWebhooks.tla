------------------------------ MODULE MCWebhooks ------------------------------
EXTENDS Webhooks, TLC

\* The first endpoint subscribes to everything, the second to second events.
MCSubscribed ==
  [e \in Endpoints |-> IF e = 1 THEN Events ELSE {"rotated", "deleted"}]

Symmetry == Permutations(Threads)
=============================================================================
