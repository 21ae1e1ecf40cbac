--------------------------- MODULE MCRateLimiter ---------------------------
(* RateLimiter under names of its own, so that its properties can stand    *)
(* beside those of the bucket and of the requests.                         *)
EXTENDS Integers

CONSTANTS Replicas, Requests, Callers, Blocked, Burst, PerTick, MaxItems, Nobody,
          Retry, Faults, MaxFaults, Window

VARIABLES redisUp, shared, local, available, cooldown, task, req, faults,
          counting, ticks, resets, spent

Limiter == INSTANCE RateLimiter
             WITH Capacity <- Burst, Rate <- PerTick, None <- Nobody, MaxTicks <- Window
ASSUME LimiterAssumption == Limiter!LimiterAssumption

LimiterSpec == Limiter!FairSpec

(* What a caller takes from all its buckets stays within what they can     *)
(* hold, and nothing is served unpaid (check() of rate_limit.py).          *)
SpendingIsAccounted == Limiter!SpendingIsAccounted

(* A process returns to Redis once Redis stays up (_maybe_reconnect()).    *)
RedisIsUsedAgain == Limiter!RedisIsUsedAgain
=============================================================================
