---------------------------- MODULE IdealBucket ----------------------------
(* The token bucket the documentation of api/middleware/rate_limit.py      *)
(* describes: it refills with every second that passes, never above its    *)
(* capacity, and a request is let through when its cost is there.          *)
EXTENDS Naturals

CONSTANTS Capacity, Rate, Costs

VARIABLE tokens

Lower(m, n) == IF m < n THEN m ELSE n

Filled(t) == Lower(Capacity, t + Rate)

Init == tokens = Capacity

Second == tokens' = Filled(tokens)

Grant == \E cost \in Costs : tokens >= cost /\ tokens' = tokens - cost

Next == Second \/ Grant

Spec == Init /\ [][Next]_tokens
=============================================================================
