---------------------------- MODULE TokenBucket ----------------------------
(***************************************************************************)
(* One caller's token bucket in Redis (api/middleware/rate_limit.py).      *)
(* Every API replica sends the Lua script its OWN clock reading, taken     *)
(* before the call is awaited; Redis runs the script atomically, in the    *)
(* order the calls arrive.  The bucket refills lazily, by the difference   *)
(* of two such readings.  A unit of time is a second.                      *)
(***************************************************************************)
EXTENDS Integers

CONSTANTS
  Calls,      \* script calls that may be in flight at the same time
  Costs,      \* tokens a call may ask for
  Capacity,   \* requests per minute times the burst multiplier
  Rate,       \* tokens per second, positive (see RateLimiter for rate 0)
  Slack,      \* seconds EXPIRE adds to the time a bucket takes to fill (60)
  MaxSkew,    \* how far a replica's clock is ahead of the slowest one
  MaxDelay,   \* seconds a call waits at most before Redis runs it
  MaxTime,    \* bound on the seconds of a behaviour
  MaxRewound  \* bound on how far `updated` is set back in a behaviour

ASSUME BucketAssumption ==
  /\ Capacity \in Nat /\ Rate \in Nat \ {0}
  /\ Costs \subseteq 1 .. Capacity
  /\ MaxSkew \in Nat /\ MaxDelay \in Nat
  /\ MaxTime \in Nat /\ MaxRewound \in Nat

(* The key must outlive the disagreement of the clocks.                    *)
ASSUME SlackAssumption == Slack \in Nat /\ Slack >= MaxDelay + MaxSkew

VARIABLES
  time,     \* the slowest clock
  bucket,   \* the hash in Redis, and when Redis drops it
  call,     \* the calls in flight
  quote,    \* history: when a caller who was refused has waited out its
            \* Retry-After, and what it asked for, as long as nothing is granted
  start,    \* when the observed window began
  granted,  \* tokens granted since then
  rewound   \* seconds `updated` has been set back since then

vars == <<time, bucket, call, quote, start, granted, rewound>>

IdleCall == [sent |-> FALSE, at |-> 0, now |-> 0, cost |-> 0]
NoQuote  == [given |-> FALSE, due |-> 0, cost |-> 0]

TypeOK ==
  /\ time \in 0 .. MaxTime
  /\ bucket \in [tokens : 0 .. Capacity, updated : Nat, deadline : Nat]
  /\ call \in [Calls -> [sent : BOOLEAN, at : Nat, now : Nat, cost : Costs \cup {0}]]
  /\ quote \in [given : BOOLEAN, due : Nat, cost : Costs \cup {0}]
  /\ start \in 0 .. MaxTime
  /\ granted \in Nat
  /\ rewound \in 0 .. MaxRewound

-----------------------------------------------------------------------------
(* The script.                                                             *)

Lower(m, n)  == IF m < n THEN m ELSE n
Higher(m, n) == IF m > n THEN m ELSE n

(* Redis has dropped the key, or it was never written.                     *)
Gone == time >= bucket.deadline

Elapsed(updated, now) == Higher(0, now - updated)

\* Mutant: the refill is not capped, so idle time is saved up.
UncappedRefill(b, now) == b.tokens + Elapsed(b.updated, now) * Rate

Refilled(b, now) ==
  Lower(Capacity, b.tokens + Elapsed(b.updated, now) * Rate)

Available(now) == IF Gone THEN Capacity ELSE Refilled(bucket, now)

Allows(tokens, cost) == tokens >= cost

\* Mutant: the header carries the whole seconds, rounded down.
RoundedDown(tokens, cost) == (cost - tokens) \div Rate

(* retry_after = (requested - tokens) / rate; the header and the message   *)
(* carry int(retry_after) + 1.                                             *)
RetryAfter(tokens, cost) == (cost - tokens) \div Rate + 1

(* math.ceil(capacity / rate) + 60                                         *)
Lifetime == (Capacity + Rate - 1) \div Rate + Slack

-----------------------------------------------------------------------------
Init ==
  /\ time = 0
  /\ bucket = [tokens |-> Capacity, updated |-> 0, deadline |-> 0]
  /\ call = [p \in Calls |-> IdleCall]
  /\ quote = NoQuote
  /\ start = 0
  /\ granted = 0
  /\ rewound = 0

(* check() reads the clock of its replica and awaits the script.           *)
Send(p) ==
  /\ ~call[p].sent
  /\ \E ahead \in 0 .. MaxSkew, cost \in Costs :
       call' = [call EXCEPT ![p] =
                  [sent |-> TRUE, at |-> time, now |-> time + ahead, cost |-> cost]]
  /\ UNCHANGED <<time, bucket, quote, start, granted, rewound>>

(* The connection is lost before Redis has read the call.                  *)
Drop(p) ==
  /\ call[p].sent
  /\ call' = [call EXCEPT ![p] = IdleCall]
  /\ UNCHANGED <<time, bucket, quote, start, granted, rewound>>

(* Redis runs the script: refill, take, HSET, EXPIRE.  `updated` becomes   *)
(* the call's own reading even when that is older than the one it          *)
(* replaces, so the seconds between the two are refilled a second time.    *)
(* The caller who is refused begins to wait; it, or one who waits already, *)
(* is followed until the bucket grants something.                          *)
Run(p) ==
  LET now    == call[p].now
      cost   == call[p].cost
      tokens == Available(now)
      ok     == Allows(tokens, cost)
      back   == IF Gone THEN 0 ELSE Higher(0, bucket.updated - now)
  IN
  /\ call[p].sent
  /\ rewound + back <= MaxRewound
  /\ bucket' = [tokens   |-> IF ok THEN tokens - cost ELSE tokens,
                updated  |-> now,
                deadline |-> time + Lifetime]
  /\ granted' = IF ok THEN granted + cost ELSE granted
  /\ IF ok THEN quote' = NoQuote
     ELSE \/ quote' = [given |-> TRUE, due |-> time + RetryAfter(tokens, cost), cost |-> cost]
          \/ quote.given /\ UNCHANGED quote
  /\ rewound' = rewound + back
  /\ call' = [call EXCEPT ![p] = IdleCall]
  /\ UNCHANGED <<time, start>>

(* A second passes.  No call waits for longer than MaxDelay.               *)
Tick ==
  /\ time < MaxTime
  /\ \A p \in Calls : call[p].sent => time < call[p].at + MaxDelay
  /\ time' = time + 1
  /\ UNCHANGED <<bucket, call, quote, start, granted, rewound>>

(* An observer opens a new window.                                         *)
Watch ==
  /\ start' = time
  /\ granted' = 0
  /\ rewound' = 0
  /\ UNCHANGED <<time, bucket, call, quote>>

Next ==
  \/ \E p \in Calls : Send(p) \/ Drop(p) \/ Run(p)
  \/ Tick
  \/ Watch

Spec == Init /\ [][Next]_vars

-----------------------------------------------------------------------------
(* Properties.                                                             *)

(* In every window the caller is granted no more than a full bucket and    *)
(* what refills while the window lasts, counting the seconds the clocks    *)
(* disagree by and the seconds `updated` was set back.                     *)
WindowLimit ==
  granted <= Capacity + Rate * (time - start + MaxDelay + MaxSkew + rewound)

(* A request that is sent when its caller has waited so long.              *)
Waited(p, seconds) ==
  /\ quote.given /\ call[p].sent
  /\ call[p].at >= quote.due + seconds /\ call[p].cost <= quote.cost

(* "Wait `Retry-After` seconds" (docs/API.md), and as long as the clocks   *)
(* disagree: whoever asks again for no more is let through on any clock,   *)
(* though refused calls with older readings ran in between, the request is *)
(* delayed, or the key expires, as long as nobody else was granted tokens. *)
RetryIsServed ==
  \A p \in Calls : Waited(p, MaxSkew) => Allows(Available(call[p].now), call[p].cost)

(* "Wait `Retry-After` seconds": as above, with no more waiting.           *)
RetryAfterSuffices ==
  \A p \in Calls : Waited(p, 0) => Allows(Available(call[p].now), call[p].cost)

(* With one clock and no delay the lazy refill is the bucket that refills  *)
(* every second.                                                           *)
Ideal == INSTANCE IdealBucket WITH
           tokens <- Lower(Capacity, Available(time))

IdealSpec == Ideal!Spec
=============================================================================
