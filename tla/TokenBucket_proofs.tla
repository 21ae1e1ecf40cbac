------------------------ MODULE TokenBucket_proofs -------------------------
(* What TokenBucket guarantees for every capacity, rate, skew and delay;   *)
(* in sections of their own, RateLimiter for any number of processes, the  *)
(* requests behind it (RequestPath), and the letterbox of Detections.      *)
EXTENDS MCRequestPath, MCRateLimiter, FiniteSetTheorems, TLAPS

-----------------------------------------------------------------------------
(* Arithmetic.                                                             *)

(* A whole number of seconds that is one more than the quotient refills    *)
(* more than was missing, and the quotient rounded up refills a bucket.    *)
LEMMA Division ==
  ASSUME NEW a \in Nat, NEW r \in Nat \ {0}
  PROVE  /\ a \div r \in Nat
         /\ r * (a \div r) <= a
         /\ a < r * (a \div r) + r
  BY SMT

(* Multiplication by the rate is monotone and distributes.                 *)
LEMMA RateMonotone ==
  ASSUME NEW x \in Int, NEW y \in Int, x <= y
  PROVE  Rate * x <= Rate * y /\ Rate * x \in Int
  BY BucketAssumption, SMT

LEMMA RateDistributes ==
  ASSUME NEW x \in Int, NEW y \in Int
  PROVE  Rate * (x + y) = Rate * x + Rate * y
  BY BucketAssumption, SMT

-----------------------------------------------------------------------------
(* The inductive invariant.                                                *)

CallsAreRecent ==
  \A p \in Calls : call[p].sent =>
    /\ call[p].cost \in Costs
    /\ call[p].at <= time /\ time <= call[p].at + MaxDelay
    /\ call[p].at <= call[p].now /\ call[p].now <= call[p].at + MaxSkew

(* The key lives until the bucket, as last written, is full on any clock.  *)
OutlivesRefill ==
  bucket.deadline > 0 =>
    Capacity <= Rate * (bucket.deadline - MaxDelay - bucket.updated)

(* What has been granted and what is left were in the bucket when the      *)
(* window began or have been refilled since.                               *)
Budget ==
  /\ bucket.deadline = 0 => granted = 0
  /\ bucket.updated < start - MaxDelay => granted = 0
  /\ bucket.updated >= start - MaxDelay =>
       granted + bucket.tokens <=
         Capacity + Rate * (bucket.updated + rewound - start + MaxDelay)

(* Who has waited finds its tokens on any clock from then on.              *)
QuoteIsKept ==
  quote.given =>
    quote.cost \in Costs /\ Allows(Refilled(bucket, quote.due + MaxSkew), quote.cost)

Inv ==
  /\ TypeOK
  /\ start <= time
  /\ bucket.updated <= time + MaxSkew
  /\ CallsAreRecent
  /\ OutlivesRefill
  /\ Budget
  /\ QuoteIsKept

LEMMA InitHolds == Init => Inv
<1> SUFFICES ASSUME Init PROVE Inv
  OBVIOUS
<1> USE BucketAssumption DEF Init, IdleCall, NoQuote
<1>1. TypeOK
  BY DEF TypeOK
<1>2. start <= time /\ bucket.updated <= time + MaxSkew
  OBVIOUS
<1>3. CallsAreRecent
  BY DEF CallsAreRecent
<1>4. OutlivesRefill
  BY DEF OutlivesRefill
<1>5. Budget
  <2>1. Rate * (0 + 0 - 0 + MaxDelay) >= 0
    BY SMT
  <2> QED
    BY <2>1 DEF Budget
<1>6. QuoteIsKept
  BY DEF QuoteIsKept
<1> QED
  BY <1>1, <1>2, <1>3, <1>4, <1>5, <1>6 DEF Inv

LEMMA SendKeeps ==
  ASSUME Inv, NEW p \in Calls, Send(p)
  PROVE  Inv'
<1> USE DEF Inv, Send
<1>1. PICK ahead \in 0 .. MaxSkew, cost \in Costs :
        call' = [call EXCEPT ![p] =
                   [sent |-> TRUE, at |-> time, now |-> time + ahead, cost |-> cost]]
  OBVIOUS
<1>2. time + ahead \in Nat /\ ahead \in Nat
  BY BucketAssumption DEF TypeOK
<1>3. TypeOK'
  BY <1>1, <1>2, BucketAssumption DEF TypeOK
<1>4. CallsAreRecent'
  BY <1>1, <1>2, BucketAssumption DEF TypeOK, CallsAreRecent
<1>5. OutlivesRefill' /\ Budget'
  BY DEF OutlivesRefill, Budget
<1>6. QuoteIsKept'
  BY DEF QuoteIsKept, Allows, Refilled, Elapsed, Lower, Higher
<1> QED
  BY <1>3, <1>4, <1>5, <1>6

LEMMA DropKeeps ==
  ASSUME Inv, NEW p \in Calls, Drop(p)
  PROVE  Inv'
<1> USE DEF Inv, Drop
<1>1. TypeOK'
  BY BucketAssumption DEF TypeOK, IdleCall
<1>2. CallsAreRecent'
  BY DEF TypeOK, CallsAreRecent, IdleCall
<1>3. OutlivesRefill' /\ Budget'
  BY DEF OutlivesRefill, Budget
<1>4. QuoteIsKept'
  BY DEF QuoteIsKept, Allows, Refilled, Elapsed, Lower, Higher
<1> QED
  BY <1>1, <1>2, <1>3, <1>4

LEMMA TickKeeps ==
  ASSUME Inv, Tick
  PROVE  Inv'
<1> USE DEF Inv, Tick
<1>1. TypeOK'
  BY BucketAssumption DEF TypeOK
<1>2. CallsAreRecent'
  BY BucketAssumption DEF TypeOK, CallsAreRecent
<1>3. OutlivesRefill' /\ Budget'
  BY DEF OutlivesRefill, Budget
<1>4. QuoteIsKept'
  BY DEF QuoteIsKept, Allows, Refilled, Elapsed, Lower, Higher
<1>5. (start <= time /\ bucket.updated <= time + MaxSkew)'
  BY BucketAssumption DEF TypeOK
<1> QED
  BY <1>1, <1>2, <1>3, <1>4, <1>5

(* A new window starts with at most a full bucket.                         *)
LEMMA WatchKeeps ==
  ASSUME Inv, Watch
  PROVE  Inv'
<1> USE DEF Inv, Watch
<1>1. TypeOK'
  BY BucketAssumption DEF TypeOK
<1>2. CallsAreRecent' /\ OutlivesRefill'
  BY DEF CallsAreRecent, OutlivesRefill
<1>3. Budget'
  <2>1. ASSUME bucket.updated >= time - MaxDelay
        PROVE  0 + bucket.tokens <=
                 Capacity + Rate * (bucket.updated + 0 - time + MaxDelay)
    <3>1. bucket.updated + 0 - time + MaxDelay \in Nat
      BY <2>1, BucketAssumption DEF TypeOK
    <3>2. Rate * (bucket.updated + 0 - time + MaxDelay) >= 0
      BY <3>1, BucketAssumption, SMT
    <3> HIDE DEF Inv, Watch
    <3> QED
      BY <3>1, <3>2, BucketAssumption DEF TypeOK, Inv
  <2> QED
    BY <2>1, BucketAssumption DEF Budget, TypeOK
<1>4. QuoteIsKept'
  BY DEF QuoteIsKept, Allows, Refilled, Elapsed, Lower, Higher
<1> QED
  BY <1>1, <1>2, <1>3, <1>4 DEF TypeOK

-----------------------------------------------------------------------------
(* Run is the only action that touches the bucket.                         *)

LEMMA LifetimeRefills ==
  Lifetime \in Nat /\ Capacity <= Rate * (Lifetime - Slack)
<1>1. Capacity + Rate - 1 \in Nat
  BY BucketAssumption
<1> DEFINE full == (Capacity + Rate - 1) \div Rate
<1>2. full \in Nat /\ Capacity + Rate - 1 < Rate * full + Rate
  BY <1>1, BucketAssumption, Division
<1>3. Rate * full \in Nat
  BY <1>2, BucketAssumption, SMT
<1>4. Capacity <= Rate * full
  <2> HIDE DEF full
  <2> QED
    BY <1>2, <1>3, BucketAssumption
<1>5. Lifetime - Slack = full
  BY <1>2, SlackAssumption DEF Lifetime
<1> QED
  BY <1>2, <1>4, <1>5, SlackAssumption DEF Lifetime

(* A refill never takes a bucket above its capacity, nor below what it had.*)
LEMMA RefillBounds ==
  ASSUME NEW tokens \in 0 .. Capacity, NEW updated \in Nat, NEW now \in Nat
  PROVE  LET full == Lower(Capacity, tokens + Elapsed(updated, now) * Rate)
         IN  /\ full \in 0 .. Capacity
             /\ now >= updated => full <= tokens + Rate * (now - updated)
             /\ now < updated => full <= tokens
<1>1. Elapsed(updated, now) \in Nat
  BY DEF Elapsed, Higher
<1>2. Elapsed(updated, now) * Rate \in Nat
  BY <1>1, BucketAssumption, SMT
<1>3. now >= updated => Elapsed(updated, now) * Rate = Rate * (now - updated)
  BY BucketAssumption, SMT DEF Elapsed, Higher
<1>4. now < updated => Elapsed(updated, now) * Rate = 0
  BY BucketAssumption, SMT DEF Elapsed, Higher
<1>5. now >= updated => Rate * (now - updated) \in Int
  BY BucketAssumption, SMT
<1> QED
  BY <1>2, <1>3, <1>4, <1>5, BucketAssumption DEF Lower

(* A later reading finds no less.                                          *)
LEMMA LaterFindsMore ==
  ASSUME NEW b \in [tokens : 0 .. Capacity, updated : Nat, deadline : Nat],
         NEW now \in Nat, NEW later \in Nat, now <= later
  PROVE  /\ Refilled(b, now) \in 0 .. Capacity /\ Refilled(b, later) \in 0 .. Capacity
         /\ Refilled(b, now) <= Refilled(b, later)
<1>1. /\ Elapsed(b.updated, now) \in Nat /\ Elapsed(b.updated, later) \in Nat
      /\ Elapsed(b.updated, now) <= Elapsed(b.updated, later)
  BY DEF Elapsed, Higher
<1>2. /\ Elapsed(b.updated, now) * Rate \in Nat /\ Elapsed(b.updated, later) * Rate \in Nat
      /\ Elapsed(b.updated, now) * Rate <= Elapsed(b.updated, later) * Rate
  BY <1>1, BucketAssumption, SMT
<1> QED
  BY <1>2, BucketAssumption DEF Refilled, Lower

(* A call that takes nothing leaves at least as much for any later reading,*)
(* however old or new its own is.                                          *)
LEMMA RefusalTakesNothing ==
  ASSUME NEW b \in [tokens : 0 .. Capacity, updated : Nat, deadline : Nat],
         NEW c \in [tokens : 0 .. Capacity, updated : Nat, deadline : Nat],
         NEW now \in Nat, NEW later \in Nat,
         c.tokens = Refilled(b, now), c.updated = now
  PROVE  Refilled(b, later) <= Refilled(c, later)
<1> DEFINE u == b.updated
           x == Elapsed(u, now)
           y == Elapsed(now, later)
           z == Elapsed(u, later)
<1>1. x \in Nat /\ y \in Nat /\ z \in Nat /\ z <= x + y
  BY DEF Elapsed, Higher
<1> HIDE DEF x, y, z
<1>2. /\ x * Rate \in Nat /\ y * Rate \in Nat /\ z * Rate \in Nat
      /\ z * Rate <= x * Rate + y * Rate
  BY <1>1, BucketAssumption, SMT
<1>3. /\ Refilled(b, later) = Lower(Capacity, b.tokens + z * Rate)
      /\ c.tokens = Lower(Capacity, b.tokens + x * Rate)
      /\ Refilled(c, later) = Lower(Capacity, c.tokens + y * Rate)
  BY DEF Refilled, x, y, z
<1> QED
  BY <1>2, <1>3, BucketAssumption DEF Lower

(* Waiting for Retry-After refills what was missing.                       *)
LEMMA RetryRefills ==
  ASSUME NEW tokens \in 0 .. Capacity, NEW cost \in Costs, NEW now \in Nat, NEW later \in Nat,
         ~Allows(tokens, cost), later >= now + RetryAfter(tokens, cost)
  PROVE  cost <= Lower(Capacity, tokens + Elapsed(now, later) * Rate)
<1> DEFINE wait == (cost - tokens) \div Rate
           elapsed == Elapsed(now, later)
<1>1. cost - tokens \in Nat /\ cost \in 0 .. Capacity
  BY BucketAssumption DEF Allows
<1>2. wait \in Nat /\ cost - tokens < Rate * wait + Rate
  BY <1>1, BucketAssumption, Division
<1>3. RetryAfter(tokens, cost) = wait + 1
  BY DEF RetryAfter
<1> HIDE DEF wait
<1>4. elapsed \in Nat /\ wait + 1 <= elapsed
  BY <1>2, <1>3 DEF Elapsed, Higher
<1> HIDE DEF elapsed
<1>5. Rate * wait + Rate <= elapsed * Rate /\ Rate * wait \in Nat /\ elapsed * Rate \in Nat
  BY <1>2, <1>4, BucketAssumption, SMT
<1>6. cost <= tokens + elapsed * Rate
  BY <1>1, <1>2, <1>5, BucketAssumption
<1> QED
  BY <1>1, <1>5, <1>6, BucketAssumption DEF Lower, elapsed

LEMMA RetryTyped ==
  ASSUME NEW tokens \in 0 .. Capacity, NEW cost \in Costs, ~Allows(tokens, cost)
  PROVE  RetryAfter(tokens, cost) \in Nat
<1>1. cost - tokens \in Nat
  BY BucketAssumption DEF Allows
<1> QED
  BY <1>1, BucketAssumption, Division DEF RetryAfter

LEMMA RunKeeps ==
  ASSUME Inv, NEW p \in Calls, Run(p)
  PROVE  Inv'
<1> DEFINE now    == call[p].now
           cost   == call[p].cost
           tokens == Available(now)
           ok     == Allows(tokens, cost)
           back   == IF Gone THEN 0 ELSE Higher(0, bucket.updated - now)
           rest   == IF ok THEN tokens - cost ELSE tokens
           total  == IF ok THEN granted + cost ELSE granted
<1>1. /\ now \in Nat /\ cost \in Costs /\ cost \in 1 .. Capacity
      /\ now <= time + MaxSkew /\ time <= now + MaxDelay
  <2>1. /\ call[p].sent /\ call[p].now \in Nat /\ call[p].at \in Nat
        /\ time \in Nat /\ MaxSkew \in Nat /\ MaxDelay \in Nat
    BY BucketAssumption DEF Inv, TypeOK, Run
  <2>2. /\ call[p].cost \in Costs
        /\ call[p].at <= time /\ time <= call[p].at + MaxDelay
        /\ call[p].at <= call[p].now /\ call[p].now <= call[p].at + MaxSkew
    BY <2>1 DEF Inv, CallsAreRecent
  <2>3. call[p].cost \in 1 .. Capacity
    BY <2>2, BucketAssumption
  <2>4. call[p].now <= time + MaxSkew /\ time <= call[p].now + MaxDelay
    BY <2>1, <2>2
  <2> QED
    BY <2>1, <2>2, <2>3, <2>4
<1>2. /\ time \in Nat /\ start \in Nat /\ start <= time
      /\ granted \in Nat /\ rewound \in Nat
      /\ bucket.tokens \in 0 .. Capacity /\ bucket.updated \in Nat
      /\ bucket.deadline \in Nat
      /\ Capacity \in Nat /\ MaxDelay \in Nat /\ MaxSkew \in Nat
  BY BucketAssumption DEF Inv, TypeOK
<1>3. tokens \in 0 .. Capacity
  <2>1. CASE Gone
    BY <1>2, <2>1 DEF Available
  <2>2. CASE ~Gone
    <3> HIDE DEF now
    <3> QED
      BY <1>1, <1>2, <2>2, RefillBounds DEF Available, Refilled
  <2> QED
    BY <2>1, <2>2
<1>4. back \in Nat
  BY <1>1, <1>2 DEF Higher
<1>5. rest \in 0 .. Capacity /\ total \in Nat /\ total + rest = granted + tokens
  BY <1>1, <1>2, <1>3 DEF Allows
<1>6. Lifetime \in Nat /\ Capacity <= Rate * (Lifetime - Slack) /\ Lifetime > 0
  <2>1. Capacity <= Rate * (Lifetime - Slack) /\ Lifetime \in Nat
    BY LifetimeRefills
  <2>2. Lifetime # 0
    <3> SUFFICES ASSUME Lifetime = 0 PROVE FALSE
      OBVIOUS
    <3>1. Rate * (Lifetime - Slack) <= Rate * 0
      BY RateMonotone, SlackAssumption, <2>1
    <3>2. Rate * 0 = 0 /\ Rate * (Lifetime - Slack) \in Int
      BY RateMonotone, SlackAssumption, BucketAssumption, <2>1
    <3>3. Capacity >= 1
      BY <1>1, <1>2
    <3> QED
      BY <1>2, <2>1, <3>1, <3>2, <3>3
  <2> QED
    BY <2>1, <2>2
<1>7. /\ bucket' = [tokens |-> rest, updated |-> now, deadline |-> time + Lifetime]
      /\ granted' = total
      /\ rewound' = rewound + back /\ rewound + back <= MaxRewound
      /\ call' = [call EXCEPT ![p] = IdleCall]
      /\ IF ok THEN quote' = NoQuote
         ELSE \/ quote' = [given |-> TRUE, due |-> time + RetryAfter(tokens, cost),
                           cost |-> cost]
              \/ quote.given /\ quote' = quote
      /\ UNCHANGED <<time, start>>
  BY DEF Run
<1> HIDE DEF now, cost, tokens, ok, back, rest, total
<1>8. TypeOK'
  <2>1. bucket' \in [tokens : 0 .. Capacity, updated : Nat, deadline : Nat]
    BY <1>1, <1>2, <1>5, <1>6, <1>7
  <2>2. call' \in [Calls -> [sent : BOOLEAN, at : Nat, now : Nat, cost : Costs \cup {0}]]
    BY <1>7 DEF Inv, TypeOK, IdleCall
  <2>3. ~ok => time + RetryAfter(tokens, cost) \in Nat
    BY <1>1, <1>2, <1>3, RetryTyped DEF ok
  <2>4. quote' \in [given : BOOLEAN, due : Nat, cost : Costs \cup {0}]
    <3>1. quote \in [given : BOOLEAN, due : Nat, cost : Costs \cup {0}]
      BY DEF Inv, TypeOK
    <3>2. CASE ok
      <4>1. quote' = NoQuote
        BY <1>7, <3>2
      <4> QED
        BY <4>1 DEF NoQuote
    <3>3. CASE ~ok /\ quote' = [given |-> TRUE, due |-> time + RetryAfter(tokens, cost),
                                cost |-> cost]
      BY <1>1, <2>3, <3>3
    <3> QED
      BY <1>7, <3>1, <3>2, <3>3
  <2>5. granted' \in Nat /\ rewound' \in 0 .. MaxRewound
    BY <1>2, <1>4, <1>5, <1>7, BucketAssumption
  <2> QED
    BY <1>7, <2>1, <2>2, <2>4, <2>5 DEF Inv, TypeOK
<1>9. CallsAreRecent'
  BY <1>7 DEF Inv, TypeOK, CallsAreRecent, IdleCall
<1>10. OutlivesRefill'
  <2>1. Rate * (Lifetime - Slack) <= Rate * (time + Lifetime - MaxDelay - now)
    BY <1>1, <1>2, <1>6, SlackAssumption, RateMonotone
  <2>2. /\ Rate * (Lifetime - Slack) \in Int
        /\ Rate * (time + Lifetime - MaxDelay - now) \in Int
    BY <1>1, <1>2, <1>6, SlackAssumption, RateMonotone
  <2>3. bucket'.deadline - MaxDelay - bucket'.updated
          = time + Lifetime - MaxDelay - now
    BY <1>1, <1>2, <1>6, <1>7
  <2>4. Capacity <= Rate * (bucket'.deadline - MaxDelay - bucket'.updated)
    BY <1>2, <1>6, <2>1, <2>2, <2>3
  <2> QED
    BY <2>4 DEF OutlivesRefill
<1>11. QuoteIsKept'
  <2>1. CASE ok
    BY <1>7, <2>1 DEF QuoteIsKept, NoQuote
  <2>2. ASSUME ~ok
        PROVE  bucket'.tokens = tokens /\ bucket'.updated = now
    BY <1>7, <2>2 DEF rest
  <2>3. bucket' \in [tokens : 0 .. Capacity, updated : Nat, deadline : Nat]
    BY <1>8 DEF TypeOK
  <2>4. CASE ~ok /\ quote' = [given |-> TRUE, due |-> time + RetryAfter(tokens, cost),
                              cost |-> cost]
    <3>1. quote'.cost = cost /\ quote'.due = time + RetryAfter(tokens, cost)
      BY <2>4
    <3>2. RetryAfter(tokens, cost) \in Nat
      BY <1>1, <1>3, <2>4, RetryTyped DEF ok
    <3>3. quote'.due + MaxSkew \in Nat /\ quote'.due + MaxSkew >= now + RetryAfter(tokens, cost)
      BY <1>1, <1>2, <3>1, <3>2
    <3>4. cost <= Lower(Capacity, tokens + Elapsed(now, quote'.due + MaxSkew) * Rate)
      BY <1>1, <1>3, <2>4, <3>3, RetryRefills DEF ok
    <3>5. Refilled(bucket', quote'.due + MaxSkew) \in Nat
      BY <2>3, <3>3, LaterFindsMore
    <3> QED
      BY <1>1, <2>2, <2>4, <3>1, <3>4, <3>5 DEF QuoteIsKept, Allows, Refilled
  <2>5. CASE ~ok /\ quote.given /\ quote' = quote
    <3> DEFINE due == quote.due + MaxSkew
    <3>1. due \in Nat /\ quote.cost \in Costs /\ quote.cost \in 1 .. Capacity
          /\ Refilled(bucket, due) >= quote.cost
      <4>1. quote.cost \in Costs /\ Allows(Refilled(bucket, due), quote.cost)
        BY <2>5 DEF Inv, QuoteIsKept
      <4>2. quote.due \in Nat
        BY DEF Inv, TypeOK
      <4>3. quote.cost \in 1 .. Capacity
        BY <4>1, BucketAssumption
      <4>4. due \in Nat
        BY <1>2, <4>2
      <4> HIDE DEF due
      <4> QED
        BY <4>1, <4>3, <4>4 DEF Allows
    <3>2. bucket \in [tokens : 0 .. Capacity, updated : Nat, deadline : Nat]
      BY DEF Inv, TypeOK
    <3>3. ~Gone
      <4> SUFFICES ASSUME Gone PROVE FALSE
        OBVIOUS
      <4>1. tokens = Capacity
        BY DEF tokens, Available
      <4> QED
        BY <1>1, <1>2, <2>5, <4>1 DEF ok, Allows
    <3>4. bucket'.tokens = Refilled(bucket, now) /\ bucket'.updated = now
      BY <2>2, <2>5, <3>3 DEF tokens, Available
    <3> HIDE DEF due
    <3>5. Refilled(bucket, due) <= Refilled(bucket', due)
      BY <1>1, <2>3, <3>1, <3>2, <3>4, RefusalTakesNothing
    <3>6. Refilled(bucket, due) \in Nat /\ Refilled(bucket', due) \in Nat
      BY <2>3, <3>1, <3>2, LaterFindsMore
    <3>7. Refilled(bucket', due) >= quote.cost
      BY <3>1, <3>5, <3>6
    <3> QED
      BY <2>5, <3>1, <3>7 DEF QuoteIsKept, Allows, due
  <2> QED
    BY <1>7, <2>1, <2>4, <2>5
<1>12. Budget'
  <2> DEFINE since(u) == u + rewound - start + MaxDelay
  <2>1. now >= start - MaxDelay /\ since(now) \in Nat /\ since(bucket.updated) \in Int
    BY <1>1, <1>2
  <2>2. Rate * since(now) \in Nat
    BY <2>1, BucketAssumption, SMT
  <2>3. bucket.updated >= start - MaxDelay =>
          granted + bucket.tokens <= Capacity + Rate * since(bucket.updated)
    BY DEF Inv, Budget
  <2>4. bucket.updated < start - MaxDelay \/ bucket.deadline = 0 => granted = 0
    BY DEF Inv, Budget
  <2>5. Rate * since(bucket.updated) \in Int
    BY <2>1, BucketAssumption, SMT
  <2>6. granted + tokens <= Capacity + Rate * (since(now) + back)
    <3>1. CASE granted = 0
      <4>1. since(now) <= since(now) + back /\ since(now) + back \in Nat
        BY <1>4, <2>1
      <4>2. Rate * (since(now) + back) \in Nat
        BY <4>1, BucketAssumption, SMT
      <4> QED
        BY <1>2, <1>3, <3>1, <4>2
    <3>2. CASE granted # 0 /\ Gone
      <4> DEFINE life == bucket.deadline - MaxDelay - bucket.updated
      <4>1. tokens = Capacity /\ back = 0
        BY <3>2 DEF tokens, back, Available
      <4>2. bucket.deadline > 0 /\ bucket.deadline <= time
        BY <1>2, <2>4, <3>2 DEF Gone
      <4>3. Capacity <= Rate * life
        BY <4>2 DEF Inv, OutlivesRefill
      <4>4. life \in Int /\ life + since(bucket.updated) <= since(now)
        BY <1>1, <1>2, <4>2
      <4>5. Rate * life + Rate * since(bucket.updated) <= Rate * since(now)
        <5>1. Rate * (life + since(bucket.updated)) <= Rate * since(now)
          BY <2>1, <4>4, RateMonotone
        <5> QED
          BY <2>1, <4>4, <5>1, RateDistributes
      <4>6. Rate * life \in Int
        BY <4>4, RateMonotone
      <4>7. granted + bucket.tokens <= Capacity + Rate * since(bucket.updated)
        BY <1>2, <2>3, <2>4, <3>2
      <4>8. since(now) + back = since(now)
        BY <2>1, <4>1
      <4> HIDE DEF since, life
      <4>9. granted + Capacity <= Capacity + Rate * since(now)
        BY <1>2, <2>2, <2>5, <4>3, <4>5, <4>6, <4>7
      <4> QED
        BY <4>1, <4>8, <4>9
    <3>3. CASE granted # 0 /\ ~Gone /\ now >= bucket.updated
      <4>1. tokens <= bucket.tokens + Rate * (now - bucket.updated)
        BY <1>1, <1>2, <3>3, RefillBounds DEF tokens, Available, Refilled
      <4>2. back = 0
        BY <1>1, <1>2, <3>3 DEF back, Higher
      <4>3. since(now) = since(bucket.updated) + (now - bucket.updated)
        BY <1>1, <1>2
      <4>4. Rate * since(now)
              = Rate * since(bucket.updated) + Rate * (now - bucket.updated)
        <5>1. now - bucket.updated \in Int
          BY <1>1, <1>2
        <5> HIDE DEF since
        <5> QED
          BY <2>1, <4>3, <5>1, RateDistributes
      <4>5. granted + bucket.tokens <= Capacity + Rate * since(bucket.updated)
        BY <1>2, <2>3, <2>4, <3>3
      <4>6. Rate * (now - bucket.updated) \in Int
        BY <1>1, <1>2, RateMonotone
      <4>7. since(now) + back = since(now)
        BY <2>1, <4>2
      <4> HIDE DEF since
      <4> QED
        BY <1>2, <1>3, <2>2, <2>5, <4>1, <4>4, <4>5, <4>6, <4>7
    <3>4. CASE granted # 0 /\ ~Gone /\ now < bucket.updated
      <4>1. tokens <= bucket.tokens
        BY <1>1, <1>2, <3>4, RefillBounds DEF tokens, Available, Refilled
      <4>2. since(now) + back = since(bucket.updated)
        BY <1>1, <1>2, <3>4 DEF back, Higher
      <4>3. granted + bucket.tokens <= Capacity + Rate * since(bucket.updated)
        BY <1>2, <2>3, <2>4, <3>4
      <4> HIDE DEF since
      <4> QED
        BY <1>2, <1>3, <2>5, <4>1, <4>2, <4>3
    <3> QED
      BY <1>1, <1>2, <3>1, <3>2, <3>3, <3>4
  <2>7. bucket'.updated + rewound' - start' + MaxDelay = since(now) + back
    BY <1>1, <1>2, <1>4, <1>7
  <2>8. granted' + bucket'.tokens = granted + tokens
    BY <1>5, <1>7
  <2>9. bucket'.deadline # 0 /\ ~(bucket'.updated < start' - MaxDelay)
    BY <1>1, <1>2, <1>6, <1>7, <2>1
  <2> HIDE DEF since
  <2> QED
    BY <1>7, <2>6, <2>7, <2>8, <2>9 DEF Budget
<1> QED
  BY <1>1, <1>2, <1>7, <1>8, <1>9, <1>10, <1>11, <1>12 DEF Inv

-----------------------------------------------------------------------------
(* The theorems.                                                           *)

LEMMA NextKeeps == Inv /\ [Next]_vars => Inv'
<1> SUFFICES ASSUME Inv, [Next]_vars PROVE Inv'
  OBVIOUS
<1>1. ASSUME NEW p \in Calls, Send(p) \/ Drop(p) \/ Run(p) PROVE Inv'
  BY <1>1, SendKeeps, DropKeeps, RunKeeps
<1>2. CASE Tick
  BY <1>2, TickKeeps
<1>3. CASE Watch
  BY <1>3, WatchKeeps
<1>4. CASE UNCHANGED vars
  BY <1>4 DEF vars, Inv, TypeOK, CallsAreRecent, OutlivesRefill, Budget,
              QuoteIsKept, Allows, Refilled, Elapsed, Lower, Higher
<1> QED
  BY <1>1, <1>2, <1>3, <1>4 DEF Next

(* The inductive invariant holds: recent calls, a key that outlives its    *)
(* refill, the budget of every window, and the promise of Retry-After.     *)
THEOREM InvHolds == Spec => []Inv
  BY InitHolds, NextKeeps, PTL DEF Spec

(* The hash in Redis, the calls in flight and what was promised are always *)
(* well formed: above all, a bucket never holds less than nothing or more  *)
(* than its capacity.                                                      *)
THEOREM TypeCorrect == Spec => []TypeOK
  BY InvHolds, PTL DEF Inv

(* In every window, however calls overlap and clocks disagree, a caller is *)
(* granted at most one full bucket, what refills while the window lasts,   *)
(* and the seconds that were refilled twice.                               *)
THEOREM WindowIsLimited == Spec => []WindowLimit
<1>1. Inv => WindowLimit
  <2> SUFFICES ASSUME Inv PROVE WindowLimit
    OBVIOUS
  <2> DEFINE span == time - start + MaxDelay + MaxSkew + rewound
  <2>1. /\ time \in Nat /\ start \in Nat /\ start <= time
        /\ granted \in Nat /\ rewound \in Nat
        /\ bucket.tokens \in Nat /\ bucket.updated \in Nat
        /\ Capacity \in Nat /\ MaxDelay \in Nat /\ MaxSkew \in Nat
        /\ bucket.updated <= time + MaxSkew
    BY BucketAssumption DEF Inv, TypeOK
  <2>2. span \in Nat /\ Rate * span \in Nat
    BY <2>1, BucketAssumption, SMT
  <2>3. CASE bucket.updated < start - MaxDelay
    BY <2>1, <2>2, <2>3 DEF Inv, Budget, WindowLimit
  <2>4. CASE bucket.updated >= start - MaxDelay
    <3> DEFINE since == bucket.updated + rewound - start + MaxDelay
    <3>1. since \in Int /\ since <= span
      BY <2>1
    <3>2. Rate * since <= Rate * span /\ Rate * since \in Int
      BY <2>2, <3>1, RateMonotone
    <3>3. granted + bucket.tokens <= Capacity + Rate * since
      BY <2>4 DEF Inv, Budget
    <3> HIDE DEF since, span
    <3>4. granted <= Capacity + Rate * span
      BY <2>1, <2>2, <3>2, <3>3
    <3> QED
      BY <3>4 DEF span, WindowLimit
  <2> QED
    BY <2>1, <2>3, <2>4
<1> QED
  BY <1>1, InvHolds, PTL

(* Retry-After is honest to within the disagreement of the clocks: who     *)
(* waits for it and for MaxSkew more, and asks again for no more, is let   *)
(* through by whatever replica it reaches, delayed or not, whatever calls  *)
(* were refused in between and whether or not Redis has dropped the key,   *)
(* as long as nothing was granted.                                         *)
THEOREM RetryAfterIsHonest == Spec => []RetryIsServed
<1>1. Inv => RetryIsServed
  <2> SUFFICES ASSUME Inv, NEW p \in Calls, Waited(p, MaxSkew)
               PROVE  Allows(Available(call[p].now), call[p].cost)
    BY DEF RetryIsServed
  <2> DEFINE due == quote.due + MaxSkew
             now == call[p].now
             cost == call[p].cost
  <2>1. /\ due \in Nat /\ now \in Nat /\ due <= now
        /\ cost \in 1 .. Capacity /\ cost <= quote.cost /\ quote.cost \in Nat
    <3>1. /\ call[p].at \in Nat /\ now \in Nat /\ quote.due \in Nat /\ MaxSkew \in Nat
          /\ quote.cost \in Costs \cup {0} /\ Costs \subseteq 1 .. Capacity
      BY BucketAssumption DEF Inv, TypeOK
    <3>2. call[p].sent /\ call[p].at >= due /\ cost <= quote.cost
      BY DEF Waited
    <3>3. cost \in Costs /\ call[p].at <= now
      BY <3>2 DEF Inv, CallsAreRecent
    <3>4. quote.cost \in Nat /\ cost \in 1 .. Capacity
      BY <3>1, <3>3, BucketAssumption
    <3> QED
      BY <3>1, <3>2, <3>3, <3>4
  <2>2. Refilled(bucket, due) >= quote.cost
    BY DEF Inv, QuoteIsKept, Waited, Allows
  <2>3. bucket \in [tokens : 0 .. Capacity, updated : Nat, deadline : Nat]
    BY DEF Inv, TypeOK
  <2> HIDE DEF due, now
  <2>4. /\ Refilled(bucket, due) \in Nat /\ Refilled(bucket, now) \in Nat
        /\ Refilled(bucket, due) <= Refilled(bucket, now)
    BY <2>1, <2>3, LaterFindsMore
  <2>5. Capacity >= cost /\ Refilled(bucket, now) >= cost
    BY <2>1, <2>2, <2>4, BucketAssumption
  <2> QED
    BY <2>5 DEF Available, Allows, now
<1> QED
  BY <1>1, InvHolds, PTL

(* With one clock it is honest to the letter.                              *)
THEOREM RetryAfterIsExact == MaxSkew = 0 => (Spec => []RetryAfterSuffices)
<1> SUFFICES ASSUME MaxSkew = 0 PROVE Spec => []RetryAfterSuffices
  OBVIOUS
<1>1. RetryIsServed => RetryAfterSuffices
  BY DEF RetryIsServed, RetryAfterSuffices
<1> QED
  BY <1>1, RetryAfterIsHonest, PTL

-----------------------------------------------------------------------------
(* With one clock and no delay: the refinement of IdealBucket.             *)

Level == Lower(Capacity, Available(time))

InOrder == MaxSkew = 0 /\ MaxDelay = 0

LEMMA IdealInit == Init => Level = Capacity
  BY BucketAssumption DEF Init, Level, Available, Gone, Lower

(* A second of time is one refill of the ideal bucket, also when Redis     *)
(* drops the key in it.                                                    *)
LEMMA IdealTick ==
  ASSUME InOrder, Inv, Tick
  PROVE  Level' = Ideal!Filled(Level)
<1> DEFINE age == time - bucket.updated
           kept == bucket.tokens + age * Rate
<1>1. /\ time \in Nat /\ bucket.updated \in Nat /\ bucket.updated <= time
      /\ bucket.tokens \in 0 .. Capacity /\ bucket.deadline \in Nat
      /\ time' = time + 1 /\ bucket' = bucket
  BY DEF InOrder, Inv, TypeOK, Tick
<1>2. age \in Nat /\ age * Rate \in Nat /\ (age + 1) * Rate = age * Rate + Rate
  <2>1. age \in Nat
    BY <1>1
  <2> HIDE DEF age
  <2> QED
    BY <2>1, BucketAssumption, SMT
<1>3. Elapsed(bucket.updated, time) = age
  BY <1>1 DEF Elapsed, Higher
<1>4. Elapsed(bucket.updated, time + 1) = age + 1
  BY <1>1 DEF Elapsed, Higher
<1>5. Refilled(bucket, time) = Lower(Capacity, kept)
  BY <1>3 DEF Refilled
<1>6. Refilled(bucket, time + 1) = Lower(Capacity, kept + Rate)
  <2>1. bucket.tokens + (age + 1) * Rate = kept + Rate
    BY <1>1, <1>2, BucketAssumption
  <2> QED
    BY <1>4, <2>1 DEF Refilled
<1>7. kept \in Nat
  BY <1>1, <1>2, BucketAssumption
<1> HIDE DEF kept
<1>8. CASE Gone
  <2>1. Level = Capacity
    BY <1>8, BucketAssumption DEF Level, Available, Lower
  <2>2. Gone'
    BY <1>1, <1>8 DEF Gone
  <2>3. Level' = Capacity
    BY <2>2, BucketAssumption DEF Level, Available, Lower
  <2> QED
    BY <2>1, <2>3, BucketAssumption DEF Ideal!Filled, Ideal!Lower
<1>9. CASE ~Gone /\ ~Gone'
  <2>1. Level = Lower(Capacity, Lower(Capacity, kept))
    BY <1>9, <1>5 DEF Level, Available
  <2>2. Level' = Lower(Capacity, Lower(Capacity, kept + Rate))
    BY <1>9, <1>6, <1>1 DEF Level, Available, Refilled, Elapsed, Higher, Lower
  <2> QED
    BY <2>1, <2>2, <1>7, BucketAssumption DEF Lower, Ideal!Filled, Ideal!Lower
<1>10. CASE ~Gone /\ Gone'
  <2>1. bucket.deadline = time + 1
    BY <1>10, <1>1 DEF Gone
  <2>2. Capacity <= Rate * (age + 1)
    <3>1. Capacity <= Rate * (bucket.deadline - 0 - bucket.updated)
      BY <2>1, <1>1 DEF InOrder, Inv, OutlivesRefill
    <3>2. bucket.deadline - 0 - bucket.updated = age + 1
      BY <2>1, <1>1
    <3> QED
      BY <3>1, <3>2
  <2>3. Capacity <= kept + Rate
    <3>1. Rate * (age + 1) = age * Rate + Rate
      <4>1. age \in Nat
        BY <1>2
      <4> HIDE DEF age
      <4> QED
        BY <4>1, BucketAssumption, SMT
    <3>2. kept + Rate = bucket.tokens + age * Rate + Rate
      BY DEF kept
    <3> QED
      BY <2>2, <3>1, <3>2, <1>1, <1>2, BucketAssumption
  <2>4. Level = Lower(Capacity, Lower(Capacity, kept))
    BY <1>10, <1>5 DEF Level, Available
  <2>5. Level' = Capacity
    BY <1>10, BucketAssumption DEF Level, Available, Lower
  <2> QED
    BY <2>3, <2>4, <2>5, <1>7, BucketAssumption DEF Lower, Ideal!Filled, Ideal!Lower
<1> QED
  BY <1>8, <1>9, <1>10

(* The script takes the cost from the ideal bucket, or leaves it alone.    *)
LEMMA IdealRun ==
  ASSUME InOrder, Inv, NEW p \in Calls, Run(p)
  PROVE  Level' = Level \/ (Ideal!Grant /\ call[p].cost \in Costs)
<1> DEFINE cost == call[p].cost
           tokens == Available(time)
<1>1. /\ time \in Nat /\ cost \in Costs /\ call[p].now = time
      /\ bucket.tokens \in 0 .. Capacity /\ bucket.updated \in Nat
  <2>1. call[p] \in [sent : BOOLEAN, at : Nat, now : Nat, cost : Costs \cup {0}] /\ call[p].sent
    BY DEF Inv, TypeOK, Run
  <2>2. /\ call[p].cost \in Costs
        /\ call[p].at <= time /\ time <= call[p].at + 0
        /\ call[p].at <= call[p].now /\ call[p].now <= call[p].at + 0
    BY <2>1 DEF Inv, CallsAreRecent, InOrder
  <2>3. time \in Nat
    BY DEF Inv, TypeOK
  <2> QED
    BY <2>1, <2>2, <2>3 DEF Inv, TypeOK
<1>2. cost \in 1 .. Capacity
  BY <1>1, BucketAssumption
<1>3. tokens \in 0 .. Capacity
  <2>1. Refilled(bucket, time) \in 0 .. Capacity
    BY <1>1, RefillBounds DEF Refilled
  <2> QED
    BY <2>1, BucketAssumption DEF Available
<1>4. /\ bucket'.tokens = (IF Allows(tokens, cost) THEN tokens - cost ELSE tokens)
      /\ bucket'.updated = time /\ bucket'.deadline = time + Lifetime
      /\ time' = time
  BY <1>1 DEF Run
<1> HIDE DEF tokens, cost
<1>5. ~Gone'
  <2>1. Lifetime \in Nat /\ Capacity <= Rate * (Lifetime - Slack) /\ Slack \in Nat
    BY LifetimeRefills, SlackAssumption
  <2>2. Lifetime # 0
    <3> SUFFICES ASSUME Lifetime = 0 PROVE FALSE
      OBVIOUS
    <3>1. Rate * (0 - Slack) <= 0
      BY <2>1, BucketAssumption, SMT
    <3> QED
      BY <2>1, <3>1, <1>2, BucketAssumption
  <2> QED
    BY <1>1, <1>4, <2>1, <2>2 DEF Gone
<1>6. bucket'.tokens \in 0 .. Capacity
  BY <1>2, <1>3, <1>4, BucketAssumption DEF Allows
<1>7. Level' = bucket'.tokens
  <2>1. Elapsed(bucket'.updated, time') = 0
    BY <1>1, <1>4 DEF Elapsed, Higher
  <2>2. Available(time)' = Lower(Capacity, bucket'.tokens + 0 * Rate)
    BY <1>5, <2>1 DEF Available, Refilled
  <2> QED
    BY <2>2, <1>6, BucketAssumption DEF Level, Lower
<1>8. Level = tokens
  BY <1>3, BucketAssumption DEF Level, Lower, tokens
<1> QED
  <2>1. CASE Allows(tokens, cost)
    BY <2>1, <1>1, <1>2, <1>3, <1>4, <1>7, <1>8 DEF Allows, Ideal!Grant, cost, Level
  <2>2. CASE ~Allows(tokens, cost)
    BY <2>2, <1>4, <1>7, <1>8
  <2> QED
    BY <2>1, <2>2

LEMMA IdealNext ==
  ASSUME InOrder, Inv, [Next]_vars
  PROVE  [Ideal!Next]_Level
<1>1. ASSUME UNCHANGED <<time, bucket>> PROVE Level' = Level
  BY <1>1 DEF Level, Available, Gone, Refilled
<1>2. ASSUME NEW p \in Calls, Send(p) \/ Drop(p) PROVE Level' = Level
  BY <1>1, <1>2 DEF Send, Drop
<1>3. ASSUME NEW p \in Calls, Run(p) PROVE [Ideal!Next]_Level
  BY <1>3, IdealRun DEF Ideal!Next
<1>4. CASE Tick
  BY <1>4, IdealTick DEF Ideal!Next, Ideal!Second, Level
<1>5. CASE Watch \/ UNCHANGED vars
  BY <1>1, <1>5 DEF Watch, vars
<1> QED
  BY <1>2, <1>3, <1>4, <1>5 DEF Next

(* Without clock skew and without delay, the lazily refilled bucket is the *)
(* one the documentation describes, which refills with every second.       *)
THEOREM InOrderIsIdeal == ASSUME InOrder PROVE Spec => IdealSpec
<1>1. Init => Ideal!Init
  BY IdealInit DEF Ideal!Init, Level
<1>2. Inv /\ [Next]_vars => [Ideal!Next]_Level
  BY IdealNext
<1> QED
  BY <1>1, <1>2, InvHolds, PTL DEF Spec, IdealSpec, Ideal!Spec, Level

-----------------------------------------------------------------------------
(* The limiter of several processes (RateLimiter), whose buckets are the   *)
(* ideal ones.                                                             *)

LEMMA SameCardinality ==
  ASSUME NEW S
  PROVE  /\ Limiter!IsFiniteSet(S) <=> IsFiniteSet(S)
         /\ Limiter!Cardinality(S) = Cardinality(S)
  BY DEF Limiter!IsFiniteSet, IsFiniteSet, Limiter!Cardinality, Cardinality

LEMMA Constants ==
  ASSUME Limiter!LimiterAssumption
  PROVE  /\ Blocked \subseteq Callers /\ Nobody \notin Replicas \cup Callers
         /\ Burst \in Nat \ {0} /\ PerTick \in Nat \ {0} /\ MaxItems \in Nat
         /\ Retry \in Nat /\ MaxFaults \in Nat /\ Window \in Nat
         /\ IsFiniteSet(Replicas) /\ Cardinality(Replicas) \in Nat
<1>1. IsFiniteSet(Replicas)
  BY SameCardinality DEF Limiter!LimiterAssumption
<1>2. Cardinality(Replicas) \in Nat
  BY <1>1, FS_CardinalityType
<1> QED
  BY <1>1, <1>2 DEF Limiter!LimiterAssumption

(* The tokens in the buckets b of the processes, one by one.               *)
Buckets  == [Replicas -> 0 .. Burst]
Held(b)  == {x \in Replicas \X (1 .. Burst) : x[2] <= b[x[1]]}
Total(b) == Cardinality(Held(b))

LEMMA HeldIsFinite ==
  ASSUME Limiter!LimiterAssumption, NEW b \in Buckets
  PROVE  /\ IsFiniteSet(Held(b)) /\ Total(b) \in Nat
         /\ Cardinality(Replicas) \in Nat
         /\ Total(b) <= Cardinality(Replicas) * Burst
<1>1. IsFiniteSet(Replicas) /\ Burst \in Nat /\ Cardinality(Replicas) \in Nat
  BY Constants
<1>2. IsFiniteSet(1 .. Burst) /\ Cardinality(1 .. Burst) = Burst
  BY <1>1, FS_Interval
<1>3. /\ IsFiniteSet(Replicas \X (1 .. Burst))
      /\ Cardinality(Replicas \X (1 .. Burst)) = Cardinality(Replicas) * Burst
  BY <1>1, <1>2, FS_Product
<1>4. Held(b) \in SUBSET (Replicas \X (1 .. Burst))
  BY DEF Held
<1> QED
  BY <1>1, <1>3, <1>4, FS_Subset, FS_CardinalityType DEF Total

(* A column of tokens.                                                     *)
LEMMA Column ==
  ASSUME NEW r, NEW m \in Int, NEW n \in Int, m <= n
  PROVE  /\ IsFiniteSet({r} \X (m + 1 .. n))
         /\ Cardinality({r} \X (m + 1 .. n)) = n - m
<1>1. IsFiniteSet({r}) /\ Cardinality({r}) = 1
  BY FS_Singleton
<1>2. IsFiniteSet(m + 1 .. n) /\ Cardinality(m + 1 .. n) = n - m
  <2>1. m + 1 \in Int /\ (IF m + 1 > n THEN 0 ELSE n - (m + 1) + 1) = n - m
    OBVIOUS
  <2>2. /\ IsFiniteSet(m + 1 .. n)
        /\ Cardinality(m + 1 .. n) = IF m + 1 > n THEN 0 ELSE n - (m + 1) + 1
    BY ONLY <2>1, n \in Int, FS_Interval
  <2> QED
    BY <2>1, <2>2
<1>3. /\ IsFiniteSet({r} \X (m + 1 .. n))
      /\ Cardinality({r} \X (m + 1 .. n)) = Cardinality({r}) * Cardinality(m + 1 .. n)
  BY ONLY <1>1, <1>2, FS_Product
<1>4. Cardinality({r}) * Cardinality(m + 1 .. n) = n - m
  BY <1>1, <1>2
<1> QED
  BY <1>3, <1>4

(* _LocalBucket.take() takes what it says from all of them together.       *)
LEMMA Taking ==
  ASSUME Limiter!LimiterAssumption, NEW b \in Buckets, NEW r \in Replicas,
         NEW n \in Nat, n <= b[r]
  PROVE  /\ [b EXCEPT ![r] = @ - n] \in Buckets
         /\ Total([b EXCEPT ![r] = @ - n]) + n <= Total(b)
<1> DEFINE d == [b EXCEPT ![r] = @ - n]
           T == {r} \X (b[r] - n + 1 .. b[r])
<1>1. b[r] \in 0 .. Burst /\ Burst \in Nat /\ b[r] - n \in Int
  BY DEF Buckets, Limiter!LimiterAssumption
<1>2. d \in Buckets
  BY <1>1 DEF Buckets
<1>3. IsFiniteSet(T) /\ Cardinality(T) = n
  <2>1. b[r] - n <= b[r] /\ b[r] - (b[r] - n) = n
    BY <1>1
  <2>2. b[r] - n \in Int /\ b[r] \in Int
    BY <1>1
  <2>3. IsFiniteSet(T) /\ Cardinality(T) = b[r] - (b[r] - n)
    BY ONLY <2>1, <2>2, Column
  <2> QED
    BY <2>1, <2>3
<1>4. T \in SUBSET Held(b)
  BY <1>1 DEF Held
<1>5. Held(d) \in SUBSET (Held(b) \ T)
  <2> SUFFICES ASSUME NEW x \in Held(d) PROVE x \in Held(b) \ T
    OBVIOUS
  <2>1. x[1] \in Replicas /\ x[2] \in 1 .. Burst /\ x[2] <= d[x[1]] /\ x = <<x[1], x[2]>>
    BY DEF Held
  <2>2. d[x[1]] <= b[x[1]] /\ (x[1] = r => d[x[1]] = b[r] - n)
    BY <1>1, <2>1 DEF Buckets
  <2>3. b[x[1]] \in Int /\ d[x[1]] \in Int
    BY <1>2, <2>1 DEF Buckets
  <2> QED
    BY <1>1, <2>1, <2>2, <2>3 DEF Held
<1>6. IsFiniteSet(Held(b)) /\ Total(b) \in Nat
  BY HeldIsFinite
<1>7. Held(b) \cap T = T
  BY <1>4
<1>8. IsFiniteSet(Held(b) \ T) /\ Cardinality(Held(b) \ T) = Total(b) - n
  <2>1. /\ IsFiniteSet(Held(b) \ T)
        /\ Cardinality(Held(b) \ T) = Cardinality(Held(b)) - Cardinality(Held(b) \cap T)
    BY ONLY <1>6, FS_Difference
  <2> QED
    BY <1>3, <1>7, <2>1 DEF Total
<1>9. Total(d) <= Total(b) - n /\ Total(d) \in Nat
  <2>1. Cardinality(Held(d)) <= Cardinality(Held(b) \ T)
    BY <1>5, <1>8, FS_Subset
  <2> QED
    BY <1>2, <1>8, <2>1, HeldIsFinite DEF Total
<1> HIDE DEF d
<1>10. Total(d) + n <= Total(b)
  BY <1>6, <1>9
<1> QED
  BY <1>2, <1>10 DEF d

(* More tokens than before are in what was added.                          *)
LEMMA Adding ==
  ASSUME Limiter!LimiterAssumption, NEW b \in Buckets, NEW d \in Buckets,
         NEW A, IsFiniteSet(A), Held(d) \ Held(b) \in SUBSET A
  PROVE  Total(d) <= Total(b) + Cardinality(A)
<1>1. IsFiniteSet(Held(d)) /\ Total(d) \in Nat /\ IsFiniteSet(Held(b)) /\ Total(b) \in Nat
  BY HeldIsFinite
<1>2. Cardinality(Held(d) \ Held(b)) = Total(d) - Cardinality(Held(d) \cap Held(b))
  BY <1>1, FS_Difference DEF Total
<1>3. Cardinality(Held(d) \ Held(b)) <= Cardinality(A) /\ Cardinality(A) \in Nat
  BY FS_Subset, FS_CardinalityType
<1>4. /\ Cardinality(Held(d) \cap Held(b)) <= Total(b)
      /\ Cardinality(Held(d) \cap Held(b)) \in Nat
  <2>1. Held(d) \cap Held(b) \in SUBSET Held(b)
    OBVIOUS
  <2>2. IsFiniteSet(Held(d) \cap Held(b))
    BY <1>1, <2>1, FS_Subset
  <2> QED
    BY <1>1, <2>1, <2>2, FS_Subset, FS_CardinalityType DEF Total
<1> QED
  BY <1>1, <1>2, <1>3, <1>4

(* A second adds at most its refill to every one of them.                  *)
LEMMA Filling ==
  ASSUME Limiter!LimiterAssumption, NEW b \in Buckets, NEW d \in Buckets,
         NEW k \in Nat, \A r \in Replicas : d[r] <= b[r] + k
  PROVE  Total(d) <= Total(b) + Cardinality(Replicas) * k
<1> DEFINE A == Held(d) \ Held(b)
           T == Replicas \X (1 .. k)
           f == [x \in A |-> <<x[1], x[2] - b[x[1]]>>]
<1>1. IsFiniteSet(Replicas) /\ Cardinality(Replicas) \in Nat
  BY Constants
<1>2. IsFiniteSet(T) /\ Cardinality(T) = Cardinality(Replicas) * k
  <2>1. IsFiniteSet(1 .. k) /\ Cardinality(1 .. k) = k
    BY FS_Interval
  <2> QED
    BY <1>1, <2>1, FS_Product
<1>3. ASSUME NEW x \in A
      PROVE  /\ x = <<x[1], x[2]>> /\ x[1] \in Replicas /\ x[2] \in Int
             /\ b[x[1]] \in Int /\ x[2] - b[x[1]] \in 1 .. k
  <2>1. x = <<x[1], x[2]>> /\ x[1] \in Replicas /\ x[2] \in 1 .. Burst /\ x[2] <= d[x[1]]
    BY DEF Held
  <2>2. ~(x[2] <= b[x[1]])
    BY <2>1 DEF Held
  <2>3. b[x[1]] \in Int /\ d[x[1]] \in Int /\ d[x[1]] <= b[x[1]] + k
    BY <2>1 DEF Buckets
  <2> QED
    BY <2>1, <2>2, <2>3
<1>4. f \in Injection(A, T)
  <2>1. f \in [A -> T]
    BY <1>3
  <2>2. ASSUME NEW x \in A, NEW y \in A, f[x] = f[y] PROVE x = y
    <3>1. f[x] = <<x[1], x[2] - b[x[1]]>> /\ f[y] = <<y[1], y[2] - b[y[1]]>>
      OBVIOUS
    <3>2. x[1] = y[1] /\ x[2] - b[x[1]] = y[2] - b[y[1]]
      BY <2>2, <3>1
    <3>3. x[2] = y[2]
      BY <1>3, <3>2
    <3> QED
      BY <1>3, <3>2, <3>3
  <2> QED
    BY <2>1, <2>2 DEF Injection, IsInjective
<1>5. IsFiniteSet(A) /\ Cardinality(A) <= Cardinality(T)
  BY <1>2, <1>4, FS_Injection
<1>6. Total(d) <= Total(b) + Cardinality(A)
  BY <1>5, Adding
<1>7. Cardinality(A) \in Nat /\ Total(b) \in Nat /\ Total(d) \in Nat
  BY <1>5, FS_CardinalityType, HeldIsFinite
<1> HIDE DEF A, T
<1>8. Cardinality(Replicas) * k \in Nat
  BY <1>1
<1> QED
  BY <1>2, <1>5, <1>6, <1>7, <1>8

(* A new process brings at most a full bucket.                             *)
LEMMA Renewing ==
  ASSUME Limiter!LimiterAssumption, NEW b \in Buckets, NEW r \in Replicas,
         NEW m \in 0 .. Burst
  PROVE  /\ [b EXCEPT ![r] = m] \in Buckets
         /\ Total([b EXCEPT ![r] = m]) <= Total(b) + Burst
<1> DEFINE d == [b EXCEPT ![r] = m]
           A == {r} \X (0 + 1 .. Burst)
<1>1. d \in Buckets
  BY DEF Buckets
<1>2. IsFiniteSet(A) /\ Cardinality(A) = Burst
  <2>1. 0 <= Burst /\ 0 \in Int /\ Burst \in Int /\ Burst - 0 = Burst
    BY Constants
  <2>2. IsFiniteSet(A) /\ Cardinality(A) = Burst - 0
    BY ONLY <2>1, Column
  <2> QED
    BY <2>1, <2>2
<1>3. Held(d) \ Held(b) \in SUBSET A
  <2> SUFFICES ASSUME NEW x \in Held(d), x \notin Held(b) PROVE x \in A
    OBVIOUS
  <2>1. x = <<x[1], x[2]>> /\ x[1] \in Replicas /\ x[2] \in 1 .. Burst /\ x[2] <= d[x[1]]
    BY DEF Held
  <2>2. x[1] = r
    BY <2>1 DEF Held, Buckets
  <2> QED
    BY <2>1, <2>2
<1> HIDE DEF d, A
<1>4. Total(d) <= Total(b) + Burst
  BY <1>1, <1>2, <1>3, Adding
<1> QED
  BY <1>1, <1>4 DEF d

-----------------------------------------------------------------------------
(* What a request has paid.                                                *)

(* A request between its check and the answer has a process and a caller;  *)
(* only a batch is checked a second time; and what was allowed was taken.  *)
Owned(q) == q.replica \in Replicas /\ q.caller \in Callers

PriceTaken(q) ==
  /\ q.pc \in Limiter!Waiting \cup {"handler"} => Owned(q)
  /\ q.stage = "handler" => q.items # 0
  /\ q.pc = "handler" => q.items # 0 /\ q.stage = "middleware"
  /\ q.pc = "granted" => q.charged >= Limiter!Cost(q)
  /\ q.pc = "served" => q.charged >= (IF q.items = 0 THEN 1 ELSE q.items)

Honest(q) == q \in Limiter!Request /\ PriceTaken(q)

LEMMA CostIsNatural ==
  ASSUME Limiter!LimiterAssumption, NEW q \in Limiter!Request
  PROVE  Limiter!Cost(q) \in Nat /\ Limiter!Charged(q) \in Limiter!Request
<1>1. Limiter!Cost(q) \in Nat
  BY Constants DEF Limiter!Cost, Limiter!Request
<1>2. Limiter!Charged(q) \in Limiter!Request
  BY <1>1 DEF Limiter!Charged, Limiter!Request
<1> QED
  BY <1>1, <1>2

LEMMA IdleIsHonest ==
  ASSUME Limiter!LimiterAssumption
  PROVE  Honest(Limiter!NoRequest)
  BY Constants DEF Honest, PriceTaken, Limiter!NoRequest, Limiter!Request, Limiter!Waiting

(* enforce() answers what check() has decided.                             *)
LEMMA VerdictIsHonest ==
  ASSUME Limiter!LimiterAssumption, NEW q \in Limiter!Request, Owned(q),
         q.stage = "handler" => q.items # 0, NEW ok \in BOOLEAN,
         ok => q.charged >= Limiter!Cost(q)
  PROVE  Honest(Limiter!Verdict(q, ok))
<1> DEFINE v == Limiter!Verdict(q, ok)
<1>1. CASE ok
  <2>1. v = [q EXCEPT !.broken = FALSE,
                      !.pc = IF Limiter!LastCheck(q) THEN "served" ELSE "handler"]
    BY <1>1 DEF Limiter!Verdict
  <2>2. /\ v \in Limiter!Request /\ v.stage = q.stage /\ v.items = q.items
        /\ v.charged = q.charged /\ v.replica = q.replica /\ v.caller = q.caller
        /\ v.pc = IF Limiter!LastCheck(q) THEN "served" ELSE "handler"
    BY <2>1 DEF Limiter!Request, Limiter!Answers
  <2>3. q.stage \in {"middleware", "handler"} /\ q.items \in 0 .. MaxItems /\ q.charged \in Nat
    BY DEF Limiter!Request
  <2> HIDE DEF v
  <2>4. PriceTaken(v)
    BY <1>1, <2>2, <2>3
    DEF PriceTaken, Owned, Limiter!Cost, Limiter!LastCheck, Limiter!Waiting
  <2> QED
    BY <2>2, <2>4 DEF Honest, v
<1>2. CASE ~ok
  <2>1. v = [Limiter!NoRequest EXCEPT !.pc = Limiter!Refusal(q), !.replica = q.replica]
    BY <1>2 DEF Limiter!Verdict
  <2>2. Limiter!Refusal(q) \in {"error", "refused"}
    BY DEF Limiter!Refusal
  <2>3. /\ v \in Limiter!Request /\ v.stage = "middleware"
        /\ v.pc \in {"error", "refused"}
    <3>1. v = [pc |-> Limiter!Refusal(q), replica |-> q.replica, caller |-> Nobody,
               items |-> 0, stage |-> "middleware", charged |-> 0, broken |-> FALSE]
      BY <2>1 DEF Limiter!NoRequest
    <3>2. q.replica \in Replicas /\ 0 \in 0 .. MaxItems
      BY Constants DEF Owned
    <3> QED
      BY <2>2, <3>1, <3>2 DEF Limiter!Request, Limiter!Answers
  <2> HIDE DEF v
  <2>4. PriceTaken(v)
    BY <2>3 DEF PriceTaken, Limiter!Waiting
  <2> QED
    BY <2>3, <2>4 DEF Honest, v
<1> QED
  BY <1>1, <1>2

-----------------------------------------------------------------------------
(* The inductive invariant.                                                *)

(* The buckets of a caller in the processes.                               *)
Own(c) == [r \in Replicas |-> local[r][c]]

Allowance == (1 + Cardinality(Replicas) + resets) * Burst
          + (1 + Cardinality(Replicas)) * PerTick * ticks

(* What is left in the buckets has not been spent yet.                     *)
Accounted == \A c \in Callers : spent[c] + shared[c] + Total(Own(c)) <= Allowance

(* After the window nothing is counted any more.                           *)
WindowIsClosed ==
  ~counting => ticks = 0 /\ resets = 0 /\ spent = [c \in Callers |-> 0]

Purse ==
  /\ shared \in [Callers -> 0 .. Burst]
  /\ local \in [Replicas -> [Callers -> 0 .. Burst]]
  /\ counting \in BOOLEAN /\ ticks \in 0 .. Window
  /\ faults \in 0 .. MaxFaults /\ resets \in 0 .. faults
  /\ spent \in [Callers -> Nat]
  /\ WindowIsClosed /\ Accounted

Switches ==
  /\ redisUp \in BOOLEAN
  /\ available \in [Replicas -> BOOLEAN]
  /\ cooldown \in [Replicas -> 0 .. Retry]
  /\ task \in [Replicas -> {"none", "drop", "connect"}]

AllAreHonest == req \in [Requests -> Limiter!Request] /\ \A p \in Requests : Honest(req[p])

LimiterInv == Purse /\ Switches /\ AllAreHonest

LEMMA OwnIsTyped ==
  ASSUME local \in [Replicas -> [Callers -> 0 .. Burst]], NEW c \in Callers
  PROVE  Own(c) \in Buckets
  BY DEF Own, Buckets

(* Full buckets are within every budget.                                   *)
LEMMA FullIsWithin ==
  ASSUME Limiter!LimiterAssumption, NEW t \in Nat, NEW x \in Nat,
         NEW m \in 0 .. Burst, NEW b \in Buckets
  PROVE  LET n == Cardinality(Replicas) IN
         /\ (1 + n + x) * Burst + (1 + n) * PerTick * t \in Nat
         /\ m + Total(b) <= (1 + n + x) * Burst + (1 + n) * PerTick * t
<1> DEFINE n == Cardinality(Replicas)
<1>1. n \in Nat /\ Burst \in Nat /\ PerTick \in Nat
  BY Constants
<1>2. Total(b) \in Nat /\ Total(b) <= n * Burst
  BY HeldIsFinite
<1> HIDE DEF n
<1>3. /\ (1 + n + x) * Burst = Burst + n * Burst + x * Burst
      /\ n * Burst \in Nat /\ x * Burst \in Nat
  BY <1>1
<1>4. (1 + n) * PerTick * t \in Nat
  <2>1. (1 + n) * PerTick \in Nat
    BY <1>1
  <2> QED
    BY <2>1
<1>5. /\ (1 + n + x) * Burst + (1 + n) * PerTick * t \in Nat
      /\ m + Total(b) <= (1 + n + x) * Burst + (1 + n) * PerTick * t
  BY <1>1, <1>2, <1>3, <1>4
<1> QED
  BY <1>5 DEF n

LEMMA BudgetIsNatural ==
  ASSUME Limiter!LimiterAssumption, LimiterInv
  PROVE  Allowance \in Nat
<1>1. ticks \in Nat /\ resets \in Nat
  BY Constants DEF LimiterInv, Purse
<1>2. 0 \in 0 .. Burst /\ [r \in Replicas |-> 0] \in Buckets
  BY Constants DEF Buckets
<1> QED
  BY <1>1, <1>2, FullIsWithin DEF Allowance

(* When nothing is counted, nothing is over the budget.                    *)
LEMMA ClosedIsAccounted ==
  ASSUME Limiter!LimiterAssumption, ticks' \in Nat, resets' \in Nat,
         shared' \in [Callers -> 0 .. Burst],
         local' \in [Replicas -> [Callers -> 0 .. Burst]],
         spent' = [c \in Callers |-> 0]
  PROVE  Accounted'
<1> SUFFICES ASSUME NEW c \in Callers
             PROVE  spent'[c] + shared'[c] + Total(Own(c)') <= Allowance'
  BY DEF Accounted
<1>1. Own(c)' \in Buckets
  BY DEF Own, Buckets
<1>2. shared'[c] \in 0 .. Burst
  OBVIOUS
<1>3. shared'[c] + Total(Own(c)') <= Allowance'
  BY <1>1, <1>2, FullIsWithin DEF Allowance
<1>4. spent'[c] + shared'[c] = shared'[c]
  BY <1>2, Constants
<1> QED
  BY <1>3, <1>4

-----------------------------------------------------------------------------
(* Steps on the buckets.                                                   *)

(* What is taken from a bucket is counted, or the window is closed.        *)
LEMMA SpendCounts ==
  ASSUME Limiter!LimiterAssumption, LimiterInv, NEW q \in Limiter!Request,
         q.caller \in Callers, Limiter!Spend(q)
  PROVE  /\ spent' \in [Callers -> Nat]
         /\ spent'[q.caller] <= spent[q.caller] + Limiter!Cost(q)
         /\ \A c \in Callers \ {q.caller} : spent'[c] = spent[c]
         /\ ~counting => spent' = spent
<1>1. Limiter!Cost(q) \in Nat
  BY CostIsNatural
<1>2. spent \in [Callers -> Nat]
  BY DEF LimiterInv, Purse
<1> QED
  BY <1>1, <1>2 DEF Limiter!Spend

(* A check answered by the process's own bucket.                           *)
LEMMA LocalTake ==
  ASSUME Limiter!LimiterAssumption, LimiterInv, NEW q \in Limiter!Request, Owned(q),
         Limiter!LocalAllows(q), Limiter!Spend(q),
         local' = [local EXCEPT ![q.replica][q.caller] = @ - Limiter!Cost(q)],
         faults' \in faults .. MaxFaults,
         UNCHANGED <<shared, counting, ticks, resets>>
  PROVE  Purse'
<1> DEFINE n == Limiter!Cost(q)
<1>1. n \in Nat /\ q.replica \in Replicas /\ q.caller \in Callers
  BY CostIsNatural DEF Owned
<1>2. /\ shared \in [Callers -> 0 .. Burst]
      /\ local \in [Replicas -> [Callers -> 0 .. Burst]]
      /\ counting \in BOOLEAN /\ ticks \in 0 .. Window
      /\ faults \in 0 .. MaxFaults /\ resets \in 0 .. faults
      /\ spent \in [Callers -> Nat] /\ WindowIsClosed /\ Accounted
  BY DEF LimiterInv, Purse
<1>3. /\ spent' \in [Callers -> Nat]
      /\ spent'[q.caller] <= spent[q.caller] + n
      /\ \A c \in Callers \ {q.caller} : spent'[c] = spent[c]
      /\ ~counting => spent' = spent
  BY <1>1, SpendCounts
<1>4. n <= local[q.replica][q.caller] /\ local[q.replica][q.caller] \in 0 .. Burst
  BY <1>1, <1>2 DEF Limiter!LocalAllows
<1>5. local' \in [Replicas -> [Callers -> 0 .. Burst]]
  <2>1. local[q.replica][q.caller] - n \in 0 .. Burst
    BY <1>1, <1>4, Constants
  <2> QED
    BY <1>1, <1>2, <2>1
<1>6. Allowance' = Allowance
  BY DEF Allowance
<1>7. Accounted'
  <2> SUFFICES ASSUME NEW c \in Callers
               PROVE  spent'[c] + shared'[c] + Total(Own(c)') <= Allowance
    BY <1>6 DEF Accounted
  <2>1. spent[c] + shared[c] + Total(Own(c)) <= Allowance
    BY <1>2 DEF Accounted
  <2>2. CASE c # q.caller
    <3>1. Own(c)' = Own(c)
      BY <1>1, <1>2, <2>2 DEF Own
    <3> QED
      BY <1>3, <2>1, <2>2, <3>1
  <2>3. CASE c = q.caller
    <3>1. Own(c) \in Buckets /\ Own(c)[q.replica] = local[q.replica][c]
      BY <1>1, <1>2, OwnIsTyped DEF Own
    <3>2. Own(c)' = [Own(c) EXCEPT ![q.replica] = @ - n]
      BY <1>1, <1>2, <2>3 DEF Own
    <3>3. /\ Own(c)' \in Buckets
          /\ Total(Own(c)') + n <= Total(Own(c))
      <4> HIDE DEF n
      <4>1. n <= Own(c)[q.replica]
        BY <1>4, <2>3, <3>1
      <4>2. /\ [Own(c) EXCEPT ![q.replica] = @ - n] \in Buckets
            /\ Total([Own(c) EXCEPT ![q.replica] = @ - n]) + n <= Total(Own(c))
        BY ONLY Limiter!LimiterAssumption, <1>1, <3>1, <4>1, Taking
      <4> QED
        BY ONLY <3>2, <4>2
    <3>4. Total(Own(c)) \in Nat /\ Total(Own(c)') \in Nat
      BY <3>1, <3>3, HeldIsFinite
    <3>5. spent[c] \in Nat /\ spent'[c] \in Nat /\ shared[c] \in Nat /\ Allowance \in Nat
      BY <1>2, <1>3, Constants, BudgetIsNatural
    <3> HIDE DEF n
    <3> QED
      BY <1>1, <1>3, <2>1, <2>3, <3>3, <3>4, <3>5
  <2> QED
    BY <2>2, <2>3
<1>8. WindowIsClosed'
  BY <1>2, <1>3 DEF WindowIsClosed
<1> QED
  BY <1>2, <1>3, <1>5, <1>7, <1>8, Constants DEF Purse

(* A check answered by the script.                                         *)
LEMMA SharedTake ==
  ASSUME Limiter!LimiterAssumption, LimiterInv, NEW q \in Limiter!Request, Owned(q),
         Limiter!SharedAllows(q), Limiter!Spend(q),
         shared' = [shared EXCEPT ![q.caller] = @ - Limiter!Cost(q)],
         UNCHANGED <<local, faults, counting, ticks, resets>>
  PROVE  Purse'
<1> DEFINE n == Limiter!Cost(q)
<1>1. n \in Nat /\ q.caller \in Callers
  BY CostIsNatural DEF Owned
<1>2. /\ shared \in [Callers -> 0 .. Burst]
      /\ local \in [Replicas -> [Callers -> 0 .. Burst]]
      /\ counting \in BOOLEAN /\ ticks \in 0 .. Window
      /\ faults \in 0 .. MaxFaults /\ resets \in 0 .. faults
      /\ spent \in [Callers -> Nat] /\ WindowIsClosed /\ Accounted
  BY DEF LimiterInv, Purse
<1>3. /\ spent' \in [Callers -> Nat]
      /\ spent'[q.caller] <= spent[q.caller] + n
      /\ \A c \in Callers \ {q.caller} : spent'[c] = spent[c]
      /\ ~counting => spent' = spent
  BY <1>1, SpendCounts
<1>4. n <= shared[q.caller] /\ shared[q.caller] \in 0 .. Burst
  BY <1>1, <1>2 DEF Limiter!SharedAllows
<1>5. shared' \in [Callers -> 0 .. Burst]
  <2>1. shared[q.caller] - n \in 0 .. Burst
    BY <1>1, <1>4, Constants
  <2> QED
    BY <1>1, <1>2, <2>1
<1>6. Allowance' = Allowance /\ Allowance \in Nat
  BY <1>2, Constants, BudgetIsNatural DEF Allowance
<1>7. Accounted'
  <2> SUFFICES ASSUME NEW c \in Callers
               PROVE  spent'[c] + shared'[c] + Total(Own(c)') <= Allowance
    BY <1>6 DEF Accounted
  <2>1. spent[c] + shared[c] + Total(Own(c)) <= Allowance
    BY <1>2 DEF Accounted
  <2>2. Own(c)' = Own(c) /\ Total(Own(c)) \in Nat
    BY <1>2, OwnIsTyped, HeldIsFinite DEF Own
  <2>3. spent[c] \in Nat /\ spent'[c] \in Nat /\ shared[c] \in Nat /\ shared'[c] \in Nat
    BY <1>2, <1>3, <1>5, Constants
  <2>4. shared'[c] = IF c = q.caller THEN shared[c] - n ELSE shared[c]
    BY <1>1, <1>2
  <2> HIDE DEF n
  <2> QED
    BY <1>1, <1>3, <1>6, <2>1, <2>2, <2>3, <2>4
<1>8. WindowIsClosed'
  BY <1>2, <1>3 DEF WindowIsClosed
<1> QED
  BY <1>2, <1>3, <1>5, <1>7, <1>8 DEF Purse

(* Nothing is taken.                                                       *)
LEMMA PurseIsLeft ==
  ASSUME Limiter!LimiterAssumption, LimiterInv, faults' \in faults .. MaxFaults,
         UNCHANGED <<shared, local, spent, counting, ticks, resets>>
  PROVE  Purse'
<1>1. Purse
  BY DEF LimiterInv
<1>2. Accounted' /\ WindowIsClosed'
  BY <1>1 DEF Purse, Accounted, WindowIsClosed, Allowance, Own
<1> QED
  BY <1>1, <1>2, Constants DEF Purse

(* A tick refills every bucket and may end the window.                     *)
LEMMA TickKeepsPurse ==
  ASSUME Limiter!LimiterAssumption, LimiterInv, Limiter!Tick
  PROVE  Purse'
<1>1. /\ shared \in [Callers -> 0 .. Burst]
      /\ local \in [Replicas -> [Callers -> 0 .. Burst]]
      /\ counting \in BOOLEAN /\ ticks \in 0 .. Window
      /\ faults \in 0 .. MaxFaults /\ resets \in 0 .. faults
      /\ spent \in [Callers -> Nat] /\ WindowIsClosed /\ Accounted
  BY DEF LimiterInv, Purse
<1>2. /\ Burst \in Nat /\ PerTick \in Nat /\ Window \in Nat
      /\ Cardinality(Replicas) \in Nat
  BY Constants
<1>3. ASSUME NEW m \in 0 .. Burst, NEW c \in Callers
      PROVE  /\ Limiter!Lower(Limiter!Full(c), m + Limiter!Refill(c)) \in 0 .. Burst
             /\ Limiter!Lower(Limiter!Full(c), m + Limiter!Refill(c)) <= m + PerTick
  BY <1>2 DEF Limiter!Lower, Limiter!Full, Limiter!Refill
<1>4. /\ shared' \in [Callers -> 0 .. Burst]
      /\ \A c \in Callers : shared'[c] <= shared[c] + PerTick
  BY <1>1, <1>3 DEF Limiter!Tick
<1>5. /\ local' \in [Replicas -> [Callers -> 0 .. Burst]]
      /\ \A r \in Replicas, c \in Callers : local'[r][c] <= local[r][c] + PerTick
  <2>1. local' = [r \in Replicas |-> [c \in Callers |->
                    Limiter!Lower(Limiter!Full(c), local[r][c] + Limiter!Refill(c))]]
    BY DEF Limiter!Tick
  <2>2. \A r \in Replicas, c \in Callers : local[r][c] \in 0 .. Burst
    BY <1>1
  <2>3. \A r \in Replicas, c \in Callers :
          /\ Limiter!Lower(Limiter!Full(c), local[r][c] + Limiter!Refill(c)) \in 0 .. Burst
          /\ Limiter!Lower(Limiter!Full(c), local[r][c] + Limiter!Refill(c))
               <= local[r][c] + PerTick
    BY <1>3, <2>2
  <2> QED
    BY <2>1, <2>3
<1>6. CASE counting /\ ticks < Window
  <2>1. ticks' = ticks + 1 /\ UNCHANGED <<counting, resets, spent, faults>>
    BY <1>6 DEF Limiter!Tick
  <2>2. Allowance' = Allowance + (1 + Cardinality(Replicas)) * PerTick
    <3> DEFINE k == (1 + Cardinality(Replicas)) * PerTick
    <3>1. k \in Nat /\ ticks \in Nat /\ k * (ticks + 1) = k * ticks + k
      <4>1. k \in Nat /\ ticks \in Nat
        BY <1>1, <1>2
      <4> HIDE DEF k
      <4> QED
        BY <4>1
    <3>2. Allowance = (1 + Cardinality(Replicas) + resets) * Burst + k * ticks
      BY DEF Allowance
    <3>3. Allowance' = (1 + Cardinality(Replicas) + resets) * Burst + k * (ticks + 1)
      BY <2>1 DEF Allowance
    <3>4. (1 + Cardinality(Replicas) + resets) * Burst \in Nat /\ k * ticks \in Nat
      <4>1. 1 + Cardinality(Replicas) + resets \in Nat
        BY <1>1, <1>2
      <4> HIDE DEF k
      <4> QED
        BY <1>2, <3>1, <4>1
    <3> HIDE DEF k
    <3>5. Allowance' = Allowance + k
      BY <3>1, <3>2, <3>3, <3>4
    <3> QED
      BY <3>5 DEF k
  <2>3. (1 + Cardinality(Replicas)) * PerTick = PerTick + Cardinality(Replicas) * PerTick
    BY <1>2
  <2>4. Cardinality(Replicas) * PerTick \in Nat /\ Allowance \in Nat
    BY <1>1, <1>2, BudgetIsNatural
  <2>5. Accounted'
    <3> SUFFICES ASSUME NEW c \in Callers
                 PROVE  spent'[c] + shared'[c] + Total(Own(c)') <= Allowance'
      BY DEF Accounted
    <3>1. spent[c] + shared[c] + Total(Own(c)) <= Allowance
      BY <1>1 DEF Accounted
    <3>2. Own(c) \in Buckets /\ Own(c)' \in Buckets
      BY <1>1, <1>5 DEF Own, Buckets
    <3>3. \A r \in Replicas : Own(c)'[r] <= Own(c)[r] + PerTick
      BY <1>5 DEF Own
    <3>4. Total(Own(c)') <= Total(Own(c)) + Cardinality(Replicas) * PerTick
      BY ONLY <1>2, <3>2, <3>3, Filling, Limiter!LimiterAssumption
    <3>5. /\ Total(Own(c)) \in Nat /\ Total(Own(c)') \in Nat
          /\ spent[c] \in Nat /\ shared[c] \in Nat /\ shared'[c] \in Nat
      BY <1>1, <1>4, <3>2, HeldIsFinite
    <3>6. spent'[c] = spent[c] /\ shared'[c] <= shared[c] + PerTick
      BY <1>4, <2>1
    <3> QED
      BY ONLY <1>2, <2>2, <2>3, <2>4, <3>1, <3>4, <3>5, <3>6
  <2>6. WindowIsClosed'
    BY <1>6, <2>1 DEF WindowIsClosed
  <2> QED
    BY <1>1, <1>2, <1>4, <1>5, <1>6, <2>1, <2>5, <2>6 DEF Purse
<1>7. CASE ~(counting /\ ticks < Window)
  <2>1. /\ counting' = FALSE /\ ticks' = 0 /\ resets' = 0 /\ faults' = faults
        /\ spent' = [c \in Callers |-> 0]
    BY <1>7 DEF Limiter!Tick
  <2>2. Accounted'
    <3>1. ticks' \in Nat /\ resets' \in Nat
      BY <2>1
    <3> QED
      BY ONLY <1>4, <1>5, <2>1, <3>1, ClosedIsAccounted, Limiter!LimiterAssumption
  <2>3. WindowIsClosed'
    BY <2>1 DEF WindowIsClosed
  <2>4. counting' \in BOOLEAN /\ ticks' \in 0 .. Window /\ resets' \in 0 .. faults'
    <3>1. 0 \in 0 .. Window /\ 0 \in 0 .. faults
      BY <1>1, <1>2
    <3> QED
      BY <2>1, <3>1, Zenon
  <2>5. spent' \in [Callers -> Nat]
    BY <2>1
  <2> QED
    BY ONLY <1>1, <1>4, <1>5, <2>1, <2>2, <2>3, <2>4, <2>5 DEF Purse
<1> QED
  BY <1>6, <1>7

(* A fault that fills a bucket is counted.                                 *)
LEMMA ResetRaisesBudget ==
  ASSUME Limiter!LimiterAssumption, LimiterInv, Limiter!Reset, counting,
         UNCHANGED ticks
  PROVE  Allowance' = Allowance + Burst /\ Allowance \in Nat
<1>1. ticks \in Nat /\ resets \in Nat /\ resets' = resets + 1
  BY Constants DEF LimiterInv, Purse, Limiter!Reset
<1>2. Burst \in Nat /\ PerTick \in Nat /\ Cardinality(Replicas) \in Nat
  BY Constants
<1> DEFINE a == 1 + Cardinality(Replicas) + resets
           b == (1 + Cardinality(Replicas)) * PerTick * ticks
<1>3. Allowance = a * Burst + b /\ Allowance' = (1 + Cardinality(Replicas) + (resets + 1)) * Burst + b
  BY <1>1 DEF Allowance
<1>4. a \in Nat /\ 1 + Cardinality(Replicas) + (resets + 1) = a + 1
  BY <1>1, <1>2
<1>5. b \in Nat
  <2>1. (1 + Cardinality(Replicas)) * PerTick \in Nat
    BY <1>2
  <2> QED
    BY <1>1, <2>1
<1> HIDE DEF a, b
<1>6. (a + 1) * Burst = a * Burst + Burst /\ a * Burst \in Nat
  BY <1>2, <1>4
<1> QED
  BY <1>2, <1>3, <1>4, <1>5, <1>6

LEMMA ResetWindow ==
  ASSUME Limiter!LimiterAssumption, LimiterInv, Limiter!Reset,
         NEW kind, Limiter!Fault(kind), UNCHANGED <<counting, ticks, spent>>
  PROVE  faults' \in 0 .. MaxFaults /\ resets' \in 0 .. faults' /\ WindowIsClosed'
  BY Constants DEF LimiterInv, Purse, WindowIsClosed, Limiter!Reset, Limiter!Fault

LEMMA EvictKeepsPurse ==
  ASSUME Limiter!LimiterAssumption, LimiterInv, NEW k \in Callers, Limiter!Evict(k)
  PROVE  Purse'
<1>1. /\ shared \in [Callers -> 0 .. Burst]
      /\ local \in [Replicas -> [Callers -> 0 .. Burst]]
      /\ counting \in BOOLEAN /\ ticks \in 0 .. Window
      /\ faults \in 0 .. MaxFaults /\ resets \in 0 .. faults
      /\ spent \in [Callers -> Nat] /\ WindowIsClosed /\ Accounted
  BY DEF LimiterInv, Purse
<1>2. UNCHANGED <<local, counting, ticks, spent>> /\ Limiter!Reset
  BY DEF Limiter!Evict
<1>3. faults' \in 0 .. MaxFaults /\ resets' \in 0 .. faults' /\ WindowIsClosed'
  BY <1>2, ResetWindow DEF Limiter!Evict
<1>4. Burst \in Nat /\ Limiter!Full(k) \in 0 .. Burst
  BY Constants DEF Limiter!Full
<1>5. shared' \in [Callers -> 0 .. Burst]
  BY <1>1, <1>4 DEF Limiter!Evict
<1>6. Accounted'
  <2>1. CASE ~counting
    <3>1. spent' = [c \in Callers |-> 0]
      BY <1>1, <1>2, <2>1 DEF WindowIsClosed
    <3>2. ticks' \in Nat /\ resets' \in Nat
      BY <1>1, <1>2, <1>3
    <3> QED
      BY <1>1, <1>2, <1>5, <3>1, <3>2, ClosedIsAccounted
  <2>2. CASE counting
    <3> SUFFICES ASSUME NEW c \in Callers
                 PROVE  spent'[c] + shared'[c] + Total(Own(c)') <= Allowance'
      BY DEF Accounted
    <3>1. spent[c] + shared[c] + Total(Own(c)) <= Allowance
      BY <1>1 DEF Accounted
    <3>2. Allowance' = Allowance + Burst /\ Allowance \in Nat
      BY <1>2, <2>2, ResetRaisesBudget
    <3>3. Own(c)' = Own(c) /\ Total(Own(c)) \in Nat
      BY <1>1, <1>2, OwnIsTyped, HeldIsFinite DEF Own
    <3>4. /\ spent'[c] = spent[c] /\ spent[c] \in Nat
          /\ shared[c] \in Nat /\ shared'[c] \in 0 .. Burst
      BY <1>1, <1>2, <1>4, <1>5
    <3> QED
      BY ONLY <1>4, <3>1, <3>2, <3>3, <3>4
  <2> QED
    BY <2>1, <2>2
<1> QED
  BY <1>1, <1>2, <1>3, <1>5, <1>6 DEF Purse

LEMMA RestartKeepsPurse ==
  ASSUME Limiter!LimiterAssumption, LimiterInv, NEW s \in Replicas, Limiter!Restart(s)
  PROVE  Purse'
<1>1. /\ shared \in [Callers -> 0 .. Burst]
      /\ local \in [Replicas -> [Callers -> 0 .. Burst]]
      /\ counting \in BOOLEAN /\ ticks \in 0 .. Window
      /\ faults \in 0 .. MaxFaults /\ resets \in 0 .. faults
      /\ spent \in [Callers -> Nat] /\ WindowIsClosed /\ Accounted
  BY DEF LimiterInv, Purse
<1>2. UNCHANGED <<shared, counting, ticks, spent>> /\ Limiter!Reset
  BY DEF Limiter!Restart
<1>3. faults' \in 0 .. MaxFaults /\ resets' \in 0 .. faults' /\ WindowIsClosed'
  BY <1>2, ResetWindow DEF Limiter!Restart
<1>4. Burst \in Nat /\ \A c \in Callers : Limiter!Full(c) \in 0 .. Burst
  BY Constants DEF Limiter!Full
<1>5. /\ local' = [local EXCEPT ![s] = [c \in Callers |-> Limiter!Full(c)]]
      /\ local' \in [Replicas -> [Callers -> 0 .. Burst]]
  BY <1>1, <1>4 DEF Limiter!Restart
<1>6. Accounted'
  <2>1. CASE ~counting
    <3>1. spent' = [c \in Callers |-> 0]
      BY <1>1, <1>2, <2>1 DEF WindowIsClosed
    <3>2. ticks' \in Nat /\ resets' \in Nat
      BY <1>1, <1>2, <1>3
    <3> QED
      BY <1>1, <1>2, <1>5, <3>1, <3>2, ClosedIsAccounted
  <2>2. CASE counting
    <3> SUFFICES ASSUME NEW c \in Callers
                 PROVE  spent'[c] + shared'[c] + Total(Own(c)') <= Allowance'
      BY DEF Accounted
    <3>1. spent[c] + shared[c] + Total(Own(c)) <= Allowance
      BY <1>1 DEF Accounted
    <3>2. Allowance' = Allowance + Burst /\ Allowance \in Nat
      BY <1>2, <2>2, ResetRaisesBudget
    <3>3. Own(c) \in Buckets
      BY <1>1, OwnIsTyped
    <3>4. Own(c)' = [Own(c) EXCEPT ![s] = Limiter!Full(c)]
      BY <1>1, <1>5 DEF Own
    <3>5. Own(c)' \in Buckets /\ Total(Own(c)') <= Total(Own(c)) + Burst
      BY <1>4, <3>3, <3>4, Renewing
    <3>6. Total(Own(c)) \in Nat /\ Total(Own(c)') \in Nat
      BY <3>3, <3>5, HeldIsFinite
    <3>7. /\ spent'[c] = spent[c] /\ spent[c] \in Nat
          /\ shared'[c] = shared[c] /\ shared[c] \in Nat
      BY <1>1, <1>2, <1>4
    <3> QED
      BY ONLY <1>4, <3>1, <3>2, <3>5, <3>6, <3>7
  <2> QED
    BY <2>1, <2>2
<1> QED
  BY <1>1, <1>2, <1>3, <1>5, <1>6 DEF Purse

-----------------------------------------------------------------------------
(* Steps on the requests.                                                  *)

LEMMA OneIsHonest ==
  ASSUME LimiterInv, NEW p \in Requests, NEW q, Honest(q), req' = [req EXCEPT ![p] = q]
  PROVE  AllAreHonest'
<1>1. req \in [Requests -> Limiter!Request] /\ \A x \in Requests : Honest(req[x])
  BY DEF LimiterInv, AllAreHonest
<1>2. q \in Limiter!Request
  BY DEF Honest
<1>3. req' \in [Requests -> Limiter!Request]
  BY <1>1, <1>2
<1>4. ASSUME NEW x \in Requests PROVE Honest(req'[x])
  BY <1>1, <1>4
<1> QED
  BY <1>3, <1>4 DEF AllAreHonest, Honest, PriceTaken

LEMMA SameRequests == ASSUME LimiterInv, UNCHANGED req PROVE AllAreHonest'
  BY DEF LimiterInv, AllAreHonest

LEMMA SameSwitches ==
  ASSUME LimiterInv, UNCHANGED <<redisUp, available, cooldown, task>>
  PROVE  Switches'
  BY DEF LimiterInv, Switches

LEMMA FallBackKeeps ==
  ASSUME Limiter!LimiterAssumption, LimiterInv, NEW p \in Requests,
         NEW q \in Limiter!Request, Owned(q), q.stage = "handler" => q.items # 0,
         Limiter!FallBack(p, q), faults' \in faults .. MaxFaults,
         UNCHANGED <<shared, counting, ticks, resets>>
  PROVE  Purse' /\ AllAreHonest'
<1>1. CASE Limiter!LocalAllows(q)
  <2>1. /\ local' = [local EXCEPT ![q.replica][q.caller] = @ - Limiter!Cost(q)]
        /\ Limiter!Spend(q)
        /\ req' = [req EXCEPT ![p] = Limiter!Verdict(Limiter!Charged(q), TRUE)]
    BY <1>1 DEF Limiter!FallBack
  <2>2. Purse'
    BY <1>1, <2>1, LocalTake
  <2> DEFINE k == Limiter!Charged(q)
  <2>3. k \in Limiter!Request /\ Limiter!Cost(q) \in Nat
    BY CostIsNatural
  <2>4. /\ Owned(k) /\ k.stage = q.stage /\ k.items = q.items
        /\ k.charged = q.charged + Limiter!Cost(q) /\ q.charged \in Nat
    BY DEF Limiter!Charged, Limiter!Request, Owned
  <2>5. Limiter!Cost(k) = Limiter!Cost(q)
    BY <2>4 DEF Limiter!Cost
  <2> HIDE DEF k
  <2>6. Honest(Limiter!Verdict(k, TRUE))
    <3>1. k.charged >= Limiter!Cost(k) /\ (k.stage = "handler" => k.items # 0)
      BY <2>3, <2>4, <2>5
    <3> QED
      BY <2>3, <2>4, <3>1, VerdictIsHonest
  <2> QED
    BY <2>1, <2>2, <2>6, OneIsHonest DEF k
<1>2. CASE ~Limiter!LocalAllows(q)
  <2>1. UNCHANGED <<local, spent>> /\ req' = [req EXCEPT ![p] = Limiter!Verdict(q, FALSE)]
    BY <1>2 DEF Limiter!FallBack
  <2>2. Honest(Limiter!Verdict(q, FALSE))
    BY VerdictIsHonest
  <2> QED
    BY <2>1, <2>2, OneIsHonest, PurseIsLeft
<1> QED
  BY <1>1, <1>2

LEMMA CheckKeeps ==
  ASSUME Limiter!LimiterAssumption, LimiterInv, NEW p \in Requests,
         NEW q \in Limiter!Request, Owned(q), q.stage = "handler" => q.items # 0,
         Limiter!Check(p, q)
  PROVE  LimiterInv'
<1>1. UNCHANGED <<redisUp, shared, available, faults, counting, ticks, resets>>
  BY DEF Limiter!Check, Limiter!windowVars
<1>2. faults' \in faults .. MaxFaults
  BY <1>1, Constants DEF LimiterInv, Purse
<1>3. Switches'
  <2>1. \/ /\ task' = [task EXCEPT ![q.replica] = "drop"]
           /\ cooldown' = [cooldown EXCEPT ![q.replica] = Retry]
        \/ UNCHANGED <<task, cooldown>>
    BY DEF Limiter!Check
  <2> QED
    BY <1>1, <2>1, Constants DEF LimiterInv, Switches
<1>4. CASE available[q.replica]
  <2> DEFINE k == [q EXCEPT !.pc = "script"]
  <2>1. UNCHANGED <<local, spent>> /\ req' = [req EXCEPT ![p] = k]
    BY <1>4 DEF Limiter!Check
  <2>2. /\ k \in Limiter!Request /\ k.pc = "script" /\ k.replica = q.replica
        /\ k.caller = q.caller /\ k.stage = q.stage /\ k.items = q.items
    BY DEF Limiter!Request, Limiter!Waiting
  <2> HIDE DEF k
  <2>3. Honest(k)
    BY <2>2 DEF Honest, PriceTaken, Owned
  <2> QED
    BY <1>1, <1>2, <1>3, <2>1, <2>3, OneIsHonest, PurseIsLeft DEF LimiterInv
<1>5. CASE ~available[q.replica]
  <2>1. Limiter!FallBack(p, q)
    BY <1>5 DEF Limiter!Check
  <2> QED
    BY <1>1, <1>2, <1>3, <2>1, FallBackKeeps DEF LimiterInv
<1> QED
  BY <1>4, <1>5

LEMMA MiddlewareKeeps ==
  ASSUME Limiter!LimiterAssumption, LimiterInv, NEW p \in Requests,
         NEW r \in Replicas, NEW c \in Callers, Limiter!Middleware(p, r, c)
  PROVE  LimiterInv'
<1>1. PICK n \in 0 .. MaxItems :
        Limiter!Check(p, [Limiter!NoRequest EXCEPT !.replica = r, !.caller = c, !.items = n])
  BY DEF Limiter!Middleware
<1> DEFINE q == [Limiter!NoRequest EXCEPT !.replica = r, !.caller = c, !.items = n]
<1>2. q \in Limiter!Request /\ q.replica = r /\ q.caller = c /\ q.stage = "middleware"
  <2>1. /\ Limiter!NoRequest \in Limiter!Request
        /\ Limiter!NoRequest.stage = "middleware"
    BY IdleIsHonest DEF Honest, Limiter!NoRequest
  <2> QED
    BY <2>1 DEF Limiter!Request
<1> HIDE DEF q
<1>3. Limiter!Check(p, q)
  BY <1>1 DEF q
<1> QED
  BY <1>2, <1>3, CheckKeeps DEF Owned

LEMMA HandlerKeeps ==
  ASSUME Limiter!LimiterAssumption, LimiterInv, NEW p \in Requests, Limiter!Handler(p)
  PROVE  LimiterInv'
<1> DEFINE q == [req[p] EXCEPT !.stage = "handler"]
<1>1. Honest(req[p]) /\ req[p].pc = "handler" /\ Limiter!Check(p, q)
  BY DEF LimiterInv, AllAreHonest, Limiter!Handler
<1>2. /\ q \in Limiter!Request /\ q.replica = req[p].replica /\ q.caller = req[p].caller
      /\ q.items = req[p].items
  BY <1>1 DEF Honest, Limiter!Request
<1>3. Owned(q) /\ q.items # 0
  BY <1>1, <1>2 DEF Honest, PriceTaken, Owned
<1> HIDE DEF q
<1> QED
  BY <1>1, <1>2, <1>3, CheckKeeps

LEMMA RunScriptKeeps ==
  ASSUME Limiter!LimiterAssumption, LimiterInv, NEW p \in Requests, Limiter!RunScript(p)
  PROVE  LimiterInv'
<1> DEFINE q == req[p]
<1>1. Honest(q) /\ q.pc = "script" /\ q \in Limiter!Request /\ Owned(q)
  BY DEF LimiterInv, AllAreHonest, Limiter!RunScript, Honest, PriceTaken, Limiter!Waiting
<1>2. /\ UNCHANGED <<redisUp, local, available, cooldown, task, faults>>
      /\ UNCHANGED <<counting, ticks, resets>>
  BY DEF Limiter!RunScript, Limiter!limiterVars, Limiter!windowVars
<1>3. Switches' /\ faults' \in faults .. MaxFaults
  BY <1>2, SameSwitches, Constants DEF LimiterInv, Purse
<1>4. CASE \/ Limiter!Refill(q.caller) = 0
           \/ ~Limiter!SharedAllows(q)
  <2>1. /\ UNCHANGED <<shared, spent>>
        /\ \/ req' = [req EXCEPT ![p] = [q EXCEPT !.pc = "failed"]]
           \/ req' = [req EXCEPT ![p] = [q EXCEPT !.pc = "denied"]]
    BY <1>4 DEF Limiter!RunScript
  <2>2. ASSUME NEW w \in {"failed", "denied"} PROVE Honest([q EXCEPT !.pc = w])
    <3> DEFINE k == [q EXCEPT !.pc = w]
    <3>1. /\ k \in Limiter!Request /\ k.pc = w /\ k.replica = q.replica
          /\ k.caller = q.caller /\ k.stage = q.stage /\ k.items = q.items
      BY <1>1 DEF Limiter!Request, Limiter!Waiting
    <3> HIDE DEF k
    <3> QED
      <4>1. Honest(k)
        BY <1>1, <3>1 DEF Honest, PriceTaken, Owned
      <4> QED
        BY <4>1 DEF k
  <2> QED
    BY <1>2, <1>3, <2>1, <2>2, OneIsHonest, PurseIsLeft DEF LimiterInv
<1>5. CASE Limiter!Refill(q.caller) # 0 /\ Limiter!SharedAllows(q)
  <2> DEFINE k == [Limiter!Charged(q) EXCEPT !.pc = "granted"]
  <2>1. /\ req' = [req EXCEPT ![p] = k]
        /\ shared' = [shared EXCEPT ![q.caller] = @ - Limiter!Cost(q)]
        /\ Limiter!Spend(q)
    BY <1>5 DEF Limiter!RunScript
  <2>2. Purse'
    BY <1>1, <1>2, <1>5, <2>1, SharedTake
  <2>3. Limiter!Cost(q) \in Nat /\ Limiter!Charged(q) \in Limiter!Request
    BY <1>1, CostIsNatural
  <2>4. /\ k \in Limiter!Request /\ k.pc = "granted" /\ k.replica = q.replica
        /\ k.caller = q.caller /\ k.stage = q.stage /\ k.items = q.items
        /\ k.charged = q.charged + Limiter!Cost(q) /\ q.charged \in Nat
    BY <1>1, <2>3 DEF Limiter!Charged, Limiter!Request, Limiter!Waiting
  <2> HIDE DEF k
  <2>5. Limiter!Cost(k) = Limiter!Cost(q)
    BY <2>4 DEF Limiter!Cost
  <2>6. Honest(k)
    BY <1>1, <2>3, <2>4, <2>5 DEF Honest, PriceTaken, Owned
  <2> QED
    BY <1>3, <2>1, <2>2, <2>6, OneIsHonest DEF LimiterInv
<1> QED
  BY <1>4, <1>5

LEMMA ReplyKeeps ==
  ASSUME Limiter!LimiterAssumption, LimiterInv, NEW p \in Requests, Limiter!Reply(p)
  PROVE  LimiterInv'
<1> DEFINE q == req[p]
<1>1. Honest(q) /\ q \in Limiter!Request /\ q.pc \in {"granted", "denied"}
  BY DEF LimiterInv, AllAreHonest, Limiter!Reply, Honest
<1>2. /\ req' = [req EXCEPT ![p] = Limiter!Verdict(q, Limiter!Granted(q))]
      /\ UNCHANGED <<redisUp, shared, local, available, cooldown, task, faults>>
      /\ UNCHANGED <<counting, ticks, resets, spent>>
  BY DEF Limiter!Reply, Limiter!limiterVars, Limiter!windowVars
<1>3. /\ Owned(q) /\ (q.stage = "handler" => q.items # 0)
      /\ Limiter!Granted(q) \in BOOLEAN
      /\ Limiter!Granted(q) => q.charged >= Limiter!Cost(q)
  BY <1>1 DEF Honest, PriceTaken, Limiter!Waiting, Limiter!Granted
<1>4. Honest(Limiter!Verdict(q, Limiter!Granted(q)))
  <2> HIDE DEF q
  <2> QED
    BY <1>1, <1>3, VerdictIsHonest
<1>5. faults' \in faults .. MaxFaults
  BY <1>2, Constants DEF LimiterInv, Purse
<1> QED
  BY <1>2, <1>4, <1>5, OneIsHonest, SameSwitches, PurseIsLeft DEF LimiterInv

LEMMA FailureKeeps ==
  ASSUME Limiter!LimiterAssumption, LimiterInv, NEW p \in Requests, Limiter!Failure(p)
  PROVE  LimiterInv'
<1> DEFINE q == req[p]
<1>1. Honest(q) /\ q \in Limiter!Request /\ q.pc \in Limiter!Waiting
  BY DEF LimiterInv, AllAreHonest, Limiter!Failure, Honest
<1>2. Owned(q) /\ (q.stage = "handler" => q.items # 0)
  BY <1>1 DEF Honest, PriceTaken
<1>3. /\ Limiter!FallBack(p, q)
      /\ available' = [available EXCEPT ![q.replica] = FALSE]
      /\ UNCHANGED <<redisUp, shared, cooldown, task, counting, ticks, resets>>
      /\ UNCHANGED faults \/ (faults < MaxFaults /\ faults' = faults + 1)
  BY DEF Limiter!Failure, Limiter!windowVars
<1>4. faults' \in faults .. MaxFaults
  BY <1>3, Constants DEF LimiterInv, Purse
<1>5. Switches'
  BY <1>2, <1>3 DEF LimiterInv, Switches
<1>6. Purse' /\ AllAreHonest'
  <2> HIDE DEF q
  <2> QED
    BY <1>1, <1>2, <1>3, <1>4, FallBackKeeps
<1> QED
  BY <1>5, <1>6 DEF LimiterInv

LEMMA ClosingIsHonest ==
  ASSUME NEW q, Honest(q) PROVE Honest([q EXCEPT !.broken = TRUE])
<1> DEFINE k == [q EXCEPT !.broken = TRUE]
<1>1. q \in Limiter!Request /\ PriceTaken(q)
  BY DEF Honest
<1>2. /\ k \in Limiter!Request /\ k.pc = q.pc /\ k.replica = q.replica
      /\ k.caller = q.caller /\ k.stage = q.stage /\ k.items = q.items
      /\ k.charged = q.charged
  BY <1>1 DEF Limiter!Request
<1> HIDE DEF k
<1>3. Limiter!Cost(k) = Limiter!Cost(q)
  BY <1>2 DEF Limiter!Cost
<1>4. Honest(k)
  BY <1>1, <1>2, <1>3 DEF Honest, PriceTaken, Owned
<1> QED
  BY <1>4 DEF k

(* A step that ends requests or closes their connections.                  *)
LEMMA SomeAreHonest ==
  ASSUME Limiter!LimiterAssumption, LimiterInv,
         NEW Ended, NEW Closed,
         req' = [p \in Requests |->
                   IF p \in Ended THEN Limiter!NoRequest
                   ELSE IF p \in Closed THEN [req[p] EXCEPT !.broken = TRUE] ELSE req[p]]
  PROVE  AllAreHonest'
<1>1. \A p \in Requests : req[p] \in Limiter!Request /\ PriceTaken(req[p])
  BY DEF LimiterInv, AllAreHonest, Honest
<1>2. ASSUME NEW p \in Requests PROVE Honest(req'[p])
  <2>1. CASE req'[p] \in {Limiter!NoRequest, req[p]}
    BY <1>1, <2>1, IdleIsHonest DEF Honest
  <2>2. CASE req'[p] = [req[p] EXCEPT !.broken = TRUE]
    BY <1>1, <2>2, ClosingIsHonest DEF Honest
  <2> QED
    BY <2>1, <2>2
<1>3. req' \in [Requests -> Limiter!Request]
  BY <1>2 DEF Honest
<1> QED
  BY <1>2, <1>3 DEF AllAreHonest, Honest, PriceTaken

LEMMA RespondKeeps ==
  ASSUME Limiter!LimiterAssumption, LimiterInv, NEW p \in Requests, Limiter!Respond(p)
  PROVE  LimiterInv'
<1>1. /\ req' = [req EXCEPT ![p] = Limiter!NoRequest]
      /\ UNCHANGED <<redisUp, shared, local, available, cooldown, task, faults>>
      /\ UNCHANGED <<counting, ticks, resets, spent>>
  BY DEF Limiter!Respond, Limiter!limiterVars, Limiter!windowVars
<1>2. faults' \in faults .. MaxFaults
  BY <1>1, Constants DEF LimiterInv, Purse
<1> QED
  BY <1>1, <1>2, IdleIsHonest, OneIsHonest, SameSwitches, PurseIsLeft DEF LimiterInv

LEMMA DropClientKeeps ==
  ASSUME Limiter!LimiterAssumption, LimiterInv, NEW r \in Replicas, Limiter!DropClient(r)
  PROVE  LimiterInv'
<1>1. /\ task' = [task EXCEPT ![r] = "connect"]
      /\ available' = [available EXCEPT ![r] = FALSE]
      /\ UNCHANGED <<redisUp, shared, local, cooldown, faults>>
      /\ UNCHANGED <<counting, ticks, resets, spent>>
  BY DEF Limiter!DropClient, Limiter!windowVars
<1>2. Switches' /\ faults' \in faults .. MaxFaults
  BY <1>1, Constants DEF LimiterInv, Switches, Purse
<1>3. AllAreHonest'
  <2> DEFINE Closed == {p \in Requests : req[p].replica = r /\ req[p].pc \in Limiter!Waiting}
             Ended == {}
  <2>1. req' = [p \in Requests |->
                  IF p \in Ended THEN Limiter!NoRequest
                  ELSE IF p \in Closed THEN [req[p] EXCEPT !.broken = TRUE] ELSE req[p]]
    BY DEF Limiter!DropClient
  <2> HIDE DEF Closed, Ended
  <2> QED
    BY <2>1, SomeAreHonest
<1> QED
  BY <1>1, <1>2, <1>3, PurseIsLeft DEF LimiterInv

LEMMA RestartKeeps ==
  ASSUME Limiter!LimiterAssumption, LimiterInv, NEW r \in Replicas, Limiter!Restart(r)
  PROVE  LimiterInv'
<1>1. /\ task' = [task EXCEPT ![r] = "none"] /\ cooldown' = [cooldown EXCEPT ![r] = 0]
      /\ available' = [available EXCEPT ![r] = redisUp] /\ UNCHANGED redisUp
  BY DEF Limiter!Restart
<1>2. Switches'
  BY <1>1, Constants DEF LimiterInv, Switches
<1>3. AllAreHonest'
  <2> DEFINE Ended == {p \in Requests : req[p].replica = r}
             Closed == {}
  <2>1. req' = [p \in Requests |->
                  IF p \in Ended THEN Limiter!NoRequest
                  ELSE IF p \in Closed THEN [req[p] EXCEPT !.broken = TRUE] ELSE req[p]]
    BY DEF Limiter!Restart
  <2> HIDE DEF Ended, Closed
  <2> QED
    BY <2>1, SomeAreHonest
<1> QED
  BY <1>2, <1>3, RestartKeepsPurse DEF LimiterInv

(* The steps of Redis, of the clock and of the task that reconnects.       *)
LEMMA SurroundingsKeep ==
  ASSUME Limiter!LimiterAssumption, LimiterInv,
         \/ \E r \in Replicas : Limiter!Connect(r)
         \/ \E c \in Callers : Limiter!Evict(c)
         \/ Limiter!Tick \/ Limiter!Outage \/ Limiter!Recovery
  PROVE  LimiterInv'
<1>0. Switches /\ faults \in 0 .. MaxFaults /\ faults \in Nat /\ MaxFaults \in Nat
  BY Constants DEF LimiterInv, Purse
<1>1. ASSUME NEW r \in Replicas, Limiter!Connect(r) PROVE LimiterInv'
  <2>1. /\ task' = [task EXCEPT ![r] = "none"]
        /\ available' = [available EXCEPT ![r] = redisUp]
        /\ UNCHANGED <<redisUp, shared, local, cooldown, req, faults>>
        /\ UNCHANGED <<counting, ticks, resets, spent>>
    BY <1>1 DEF Limiter!Connect, Limiter!KeptBuckets, Limiter!windowVars
  <2>2. Switches' /\ faults' \in faults .. MaxFaults
    BY <1>0, <2>1 DEF Switches
  <2> QED
    BY <2>1, <2>2, SameRequests, PurseIsLeft DEF LimiterInv
<1>2. ASSUME NEW c \in Callers, Limiter!Evict(c) PROVE LimiterInv'
  <2>1. UNCHANGED <<redisUp, available, cooldown, task, req>>
    BY <1>2 DEF Limiter!Evict, Limiter!limiterVars
  <2> QED
    BY <1>2, <2>1, SameRequests, SameSwitches, EvictKeepsPurse DEF LimiterInv
<1>3. CASE Limiter!Tick
  <2>1. /\ cooldown' = [r \in Replicas |-> Limiter!CountDown(r)]
        /\ UNCHANGED <<redisUp, available, task, req>>
    BY <1>3 DEF Limiter!Tick
  <2>2. \A r \in Replicas : Limiter!CountDown(r) \in 0 .. Retry
    BY <1>0, Constants DEF Switches, Limiter!CountDown
  <2>3. Switches'
    BY <1>0, <2>1, <2>2 DEF Switches
  <2> QED
    BY <1>3, <2>1, <2>3, SameRequests, TickKeepsPurse DEF LimiterInv
<1>4. CASE Limiter!Outage \/ Limiter!Recovery
  <2>1. /\ redisUp' \in BOOLEAN
        /\ UNCHANGED <<shared, local, available, cooldown, task, req>>
        /\ UNCHANGED <<counting, ticks, resets, spent>>
    BY <1>4 DEF Limiter!Outage, Limiter!Recovery, Limiter!limiterVars, Limiter!windowVars
  <2>2. faults' \in faults .. MaxFaults
    BY <1>0, <1>4 DEF Limiter!Outage, Limiter!Recovery, Limiter!Fault
  <2>3. Switches'
    BY <1>0, <2>1 DEF Switches
  <2> QED
    BY <2>1, <2>2, <2>3, SameRequests, PurseIsLeft DEF LimiterInv
<1> QED
  BY <1>1, <1>2, <1>3, <1>4

LEMMA LimiterInitOK ==
  ASSUME Limiter!LimiterAssumption, Limiter!Init
  PROVE  LimiterInv
<1>1. Burst \in Nat /\ \A c \in Callers : Limiter!Full(c) \in 0 .. Burst
  BY Constants DEF Limiter!Full
<1>2. /\ shared \in [Callers -> 0 .. Burst]
      /\ local \in [Replicas -> [Callers -> 0 .. Burst]]
      /\ counting = TRUE /\ ticks = 0 /\ resets = 0 /\ faults = 0
      /\ spent = [c \in Callers |-> 0]
  BY <1>1 DEF Limiter!Init
<1>3. Accounted
  <2> SUFFICES ASSUME NEW c \in Callers
               PROVE  spent[c] + shared[c] + Total(Own(c)) <= Allowance
    BY DEF Accounted
  <2>1. Own(c) \in Buckets /\ shared[c] \in 0 .. Burst /\ spent[c] = 0
    BY <1>2, OwnIsTyped
  <2>2. shared[c] + Total(Own(c)) <= Allowance
    BY <1>2, <2>1, FullIsWithin DEF Allowance
  <2>3. spent[c] + shared[c] = shared[c]
    BY <1>1, <2>1
  <2> QED
    BY <2>2, <2>3
<1>4. Purse
  <2>1. 0 \in 0 .. Window /\ 0 \in 0 .. MaxFaults /\ 0 \in 0 .. 0
    BY Constants
  <2>2. counting \in BOOLEAN /\ spent \in [Callers -> Nat] /\ WindowIsClosed
    BY <1>2 DEF WindowIsClosed
  <2> QED
    BY <1>2, <1>3, <2>1, <2>2 DEF Purse
<1>5. Switches
  <2>1. redisUp \in BOOLEAN
    BY DEF Limiter!Init
  <2>2. /\ available = [r \in Replicas |-> redisUp]
        /\ cooldown = [r \in Replicas |-> 0] /\ task = [r \in Replicas |-> "none"]
    BY DEF Limiter!Init
  <2> QED
    BY <2>1, <2>2, Constants DEF Switches
<1>6. AllAreHonest
  <2>1. req = [p \in Requests |-> Limiter!NoRequest]
    BY DEF Limiter!Init
  <2> QED
    BY <2>1, IdleIsHonest DEF AllAreHonest, Honest
<1> QED
  BY <1>4, <1>5, <1>6 DEF LimiterInv

LEMMA LimiterNextKeeps ==
  ASSUME Limiter!LimiterAssumption, LimiterInv, [Limiter!Next]_(Limiter!vars)
  PROVE  LimiterInv'
<1>1. CASE UNCHANGED Limiter!vars
  <2>1. /\ UNCHANGED <<redisUp, shared, local, available, cooldown, task, req, faults>>
        /\ UNCHANGED <<counting, ticks, resets, spent>>
    BY <1>1 DEF Limiter!vars, Limiter!limiterVars, Limiter!windowVars
  <2>2. faults' \in faults .. MaxFaults
    BY <2>1, Constants DEF LimiterInv, Purse
  <2> QED
    BY <2>1, <2>2, SameRequests, SameSwitches, PurseIsLeft DEF LimiterInv
<1>2. CASE Limiter!Next
  BY <1>2, MiddlewareKeeps, HandlerKeeps, RunScriptKeeps, ReplyKeeps, FailureKeeps,
     RespondKeeps, DropClientKeeps, RestartKeeps, SurroundingsKeep DEF Limiter!Next
<1> QED
  BY <1>1, <1>2

LEMMA LimiterInvHolds ==
  ASSUME Limiter!LimiterAssumption PROVE Limiter!Spec => []LimiterInv
<1>1. Limiter!Init => LimiterInv
  BY LimiterInitOK
<1>2. LimiterInv /\ [Limiter!Next]_(Limiter!vars) => LimiterInv'
  BY LimiterNextKeeps
<1> QED
  BY <1>1, <1>2, PTL DEF Limiter!Spec

(* Redis, the processes, their buckets and the requests keep to their types*)
(* (api/middleware/rate_limit.py).                                         *)
THEOREM LimiterIsTyped ==
  ASSUME Limiter!LimiterAssumption PROVE Limiter!Spec => []Limiter!TypeOK
<1>1. LimiterInv => Limiter!TypeOK
  <2> SUFFICES ASSUME LimiterInv PROVE Limiter!TypeOK
    OBVIOUS
  <2>1. resets \in 0 .. MaxFaults
    BY Constants DEF LimiterInv, Purse
  <2> QED
    BY <2>1 DEF LimiterInv, Purse, Switches, AllAreHonest, Limiter!TypeOK
<1> QED
  BY <1>1, LimiterInvHolds, PTL

(* For any number of processes and callers, any burst and refill, and any  *)
(* outages, lost replies, evictions and restarts: a caller takes no more   *)
(* than one full bucket in Redis and one in every process, what refills    *)
(* them and what a fault filled up; and what is served has been paid for   *)
(* (check() of rate_limit.py, with its fallback, and submit_batch()).      *)
THEOREM SpendingStaysAccounted ==
  ASSUME Limiter!LimiterAssumption PROVE Limiter!Spec => []SpendingIsAccounted
<1>1. LimiterInv => SpendingIsAccounted
  <2> SUFFICES ASSUME LimiterInv PROVE Limiter!SpendingIsAccounted
    BY DEF SpendingIsAccounted
  <2>1. ASSUME NEW c \in Callers PROVE spent[c] <= Allowance
    <3>1. spent[c] + shared[c] + Total(Own(c)) <= Allowance
      BY DEF LimiterInv, Purse, Accounted
    <3>2. Own(c) \in Buckets /\ spent[c] \in Nat /\ shared[c] \in 0 .. Burst
      BY OwnIsTyped DEF LimiterInv, Purse
    <3> QED
      BY <3>1, <3>2, HeldIsFinite, BudgetIsNatural, Constants
  <2>2. Limiter!Cardinality(Replicas) = Cardinality(Replicas)
    BY SameCardinality
  <2>3. \A p \in Requests : req[p].pc = "served" =>
          req[p].charged >= (IF req[p].items = 0 THEN 1 ELSE req[p].items)
    BY DEF LimiterInv, AllAreHonest, Honest, PriceTaken
  <2> QED
    BY <2>1, <2>2, <2>3 DEF Limiter!SpendingIsAccounted, Allowance
<1> QED
  BY <1>1, LimiterInvHolds, PTL

-----------------------------------------------------------------------------
(* The way of a request (RequestPath): who is let in, what it may spend    *)
(* and what it is answered.                                                *)

(* The checks of an image are reported in their order: the first that is   *)
(* not passed is the one that is answered.                                 *)
LEMMA FirstFailureIsOne ==
  ASSUME NEW n \in Nat, NEW checks, DOMAIN checks = 1 .. n
  PROVE  \/ Path!FirstFailure(checks) = "ok" /\ \A i \in 1 .. n : checks[i][1]
         \/ \E i \in 1 .. n : ~checks[i][1] /\ Path!FirstFailure(checks) = checks[i][2]
<1>1. CASE \A i \in 1 .. n : checks[i][1]
  BY <1>1 DEF Path!FirstFailure
<1>2. CASE \E i \in 1 .. n : ~checks[i][1]
  <2> DEFINE F == {i \in 1 .. n : ~checks[i][1]}
  <2>1. F # {} /\ F \in SUBSET Nat
    BY <1>2
  <2>2. PICK first \in F : \A j \in F : <<j, first>> \notin OpToRel(<, Nat)
    <3> HIDE DEF F
    <3> QED
      BY ONLY <2>1, NatLessThanWellFounded, WFMin
  <2>3. \E i \in DOMAIN checks : ~checks[i][1] /\ \A j \in 1 .. i - 1 : checks[j][1]
    <3>1. ASSUME NEW j \in F PROVE ~(j < first)
      <4>1. <<j, first>> \notin OpToRel(<, Nat) /\ j \in Nat /\ first \in Nat
        BY <2>1, <2>2
      <4> QED
        BY ONLY <4>1 DEF OpToRel
    <3> QED
      BY <3>1
  <2> DEFINE c == CHOOSE i \in DOMAIN checks :
                    ~checks[i][1] /\ \A j \in 1 .. i - 1 : checks[j][1]
  <2>4. c \in 1 .. n /\ ~checks[c][1]
    BY <2>3
  <2>5. Path!FirstFailure(checks) = checks[c][2]
    BY <1>2 DEF Path!FirstFailure
  <2> HIDE DEF c
  <2> QED
    BY <2>4, <2>5
<1> QED
  BY <1>1, <1>2

(* What is wrong with an image is the caller's fault.                      *)
Rejections == {"InvalidImage", "ImageTooLarge", "UnsupportedFormat", "Validation"}

LEMMA ImageIsJudged ==
  ASSUME Path!RequestAssumption, NEW p \in Path!Picture
  PROVE  /\ Path!validate_image_bytes(p) \in Rejections \cup {"ok"}
         /\ Path!Usable(p) => Path!validate_image_bytes(p) = "ok"
<1> DEFINE c == <<
      <<p.size > 0, "InvalidImage">>,
      <<p.size <= MaxBytes, "ImageTooLarge">>,
      <<Path!sniff_format(p) # "none", "InvalidImage">>,
      <<Path!Opens(p), "InvalidImage">>,
      <<p.format \in Allowed, "UnsupportedFormat">>,
      <<p.width >= MinSide /\ p.height >= MinSide, "InvalidImage">>,
      <<p.width <= MaxSide /\ p.height <= MaxSide, "ImageTooLarge">>,
      <<Path!Pixels(p) <= MaxPixels, "ImageTooLarge">>,
      <<p.intact, "InvalidImage">> >>
<1>1. Path!validate_image_bytes(p) = Path!FirstFailure(c)
  BY DEF Path!validate_image_bytes
<1>2. DOMAIN c = 1 .. 9 /\ \A i \in 1 .. 9 : c[i][2] \in Rejections
  BY DEF Rejections
<1>3. ASSUME Path!Usable(p), NEW i \in 1 .. 9 PROVE c[i][1]
  <2>1. /\ p.size \in 12 .. MaxBytes /\ p.magic \in Path!Magics /\ p.header = "ok"
        /\ p.format \in Allowed /\ p.width \in MinSide .. MaxSide
        /\ p.height \in MinSide .. MaxSide /\ Path!Pixels(p) <= MaxPixels /\ p.intact
    BY <1>3 DEF Path!Usable
  <2>2. p.size \in Nat /\ p.width \in Nat /\ p.height \in Nat
    BY DEF Path!Picture
  <2>3. MaxBytes \in Nat /\ MinSide \in Nat /\ MaxSide \in Nat /\ MaxPixels \in Nat
    BY DEF Path!RequestAssumption
  <2>4. Path!sniff_format(p) # "none"
    BY <2>1, <2>2 DEF Path!sniff_format, Path!Magics
  <2>5. Path!Opens(p)
    <3>1. Path!Pixels(p) \in Nat
      BY <2>2 DEF Path!Pixels
    <3>2. Path!Pixels(p) <= 2 * MaxPixels
      BY <2>1, <2>3, <3>1
    <3> QED
      BY <2>1, <3>2 DEF Path!Opens
  <2>6. p.size > 0 /\ p.size <= MaxBytes /\ p.width >= MinSide /\ p.width <= MaxSide
        /\ p.height >= MinSide /\ p.height <= MaxSide
    BY <2>1, <2>2, <2>3
  <2>7. /\ c[1][1] /\ c[2][1] /\ c[3][1] /\ c[4][1] /\ c[5][1]
        /\ c[6][1] /\ c[7][1] /\ c[8][1] /\ c[9][1]
    BY <2>1, <2>4, <2>5, <2>6, Zenon
  <2>8. i \in {1, 2, 3, 4, 5, 6, 7, 8, 9}
    OBVIOUS
  <2> HIDE DEF c
  <2> QED
    BY <2>7, <2>8
<1> HIDE DEF c
<1>4. \/ Path!FirstFailure(c) = "ok"
      \/ \E i \in 1 .. 9 : ~c[i][1] /\ Path!FirstFailure(c) = c[i][2]
  BY <1>2, FirstFailureIsOne
<1> QED
  BY <1>1, <1>2, <1>3, <1>4

(* What is wrong with a URL is the caller's fault, or raises what nothing  *)
(* catches.                                                                *)
OddUrl(url) == ~url.parses \/ url.port = "invalid" \/ url.host = "unencodable"

LEMMA UrlIsJudged ==
  ASSUME NEW url \in Path!Url
  PROVE  /\ Path!validate_image_url(url) \in {"ok", "Validation", "Unhandled"}
         /\ Path!validate_image_url(url) = "Unhandled" => OddUrl(url)
         /\ (/\ url.scheme \in {"http", "https"} /\ url.host = "named"
             /\ url.port \in {"default", "standard"} /\ url.addresses = {"public"}
             /\ url.parses)
            => Path!validate_image_url(url) = "ok"
<1> DEFINE c == <<
      <<url.parses, "Unhandled">>,
      <<url.scheme \in {"http", "https"}, "Validation">>,
      <<url.host # "none", "Validation">>,
      <<url.port # "invalid", "Unhandled">>,
      <<url.port # "other", "Validation">>,
      <<url.host # "unencodable", "Unhandled">>,
      <<url.addresses # {}, "Validation">>,
      <<"blocked" \notin url.addresses, "Validation">> >>
<1>1. Path!validate_image_url(url) = Path!FirstFailure(c)
  BY DEF Path!validate_image_url
<1>2. DOMAIN c = 1 .. 8 /\ \A i \in 1 .. 8 : c[i][2] \in {"Validation", "Unhandled"}
  OBVIOUS
<1>3. ASSUME NEW i \in 1 .. 8, ~c[i][1], c[i][2] = "Unhandled" PROVE OddUrl(url)
  <2>1. i \in {1, 2, 3, 4, 5, 6, 7, 8}
    OBVIOUS
  <2>2. /\ c[2][2] = "Validation" /\ c[3][2] = "Validation" /\ c[5][2] = "Validation"
        /\ c[7][2] = "Validation" /\ c[8][2] = "Validation"
    OBVIOUS
  <2>3. (~c[1][1] \/ ~c[4][1] \/ ~c[6][1]) => OddUrl(url)
    BY Zenon DEF OddUrl
  <2> HIDE DEF c
  <2> QED
    BY <1>3, <2>1, <2>2, <2>3
<1>4. ASSUME url.scheme \in {"http", "https"}, url.host = "named",
             url.port \in {"default", "standard"}, url.addresses = {"public"}, url.parses,
             NEW i \in 1 .. 8
      PROVE  c[i][1]
  <2>1. i \in {1, 2, 3, 4, 5, 6, 7, 8}
    OBVIOUS
  <2>2. url.host # "none" /\ url.host # "unencodable" /\ url.port # "invalid"
        /\ url.port # "other" /\ url.addresses # {} /\ "blocked" \notin url.addresses
    BY <1>4
  <2>3. /\ c[1][1] /\ c[2][1] /\ c[3][1] /\ c[4][1] /\ c[5][1]
        /\ c[6][1] /\ c[7][1] /\ c[8][1]
    BY <1>4, <2>2, Zenon
  <2> HIDE DEF c
  <2> QED
    BY <2>1, <2>3
<1> HIDE DEF c
<1>5. \/ Path!FirstFailure(c) = "ok"
      \/ \E i \in 1 .. 8 : ~c[i][1] /\ Path!FirstFailure(c) = c[i][2]
  BY <1>2, FirstFailureIsOne
<1> QED
  BY <1>1, <1>2, <1>3, <1>4, <1>5

LEMMA SourceTypes ==
  ASSUME NEW sent \in Path!Source
  PROVE  /\ sent.picture \in Path!Picture
         /\ sent.way = "url" =>
              /\ sent.url \in Path!Url /\ sent.reply \in Path!Reply
              /\ sent.reply.picture = sent.picture
  BY DEF Path!Source

LEMMA UploadIsJudged ==
  ASSUME Path!RequestAssumption, NEW p \in Path!Picture
  PROVE  /\ Path!read_upload(p) \in Rejections \cup {"ok"}
         /\ Path!Usable(p) => Path!read_upload(p) = "ok"
<1> DEFINE c == <<
      <<p.size <= MaxBytes, "ImageTooLarge">>,
      <<p.size > 0, "InvalidImage">> >>
<1>1. Path!read_upload(p) = Path!FirstFailure(c)
  BY DEF Path!read_upload
<1>2. DOMAIN c = 1 .. 2 /\ \A i \in 1 .. 2 : c[i][2] \in Rejections
  BY DEF Rejections
<1>3. ASSUME Path!Usable(p), NEW i \in 1 .. 2 PROVE c[i][1]
  <2>1. p.size <= MaxBytes /\ p.size > 0
    BY <1>3 DEF Path!Usable, Path!Picture, Path!RequestAssumption
  <2>2. c[1][1] /\ c[2][1]
    BY <2>1, Zenon
  <2>3. i \in {1, 2}
    OBVIOUS
  <2> HIDE DEF c
  <2> QED
    BY <2>2, <2>3
<1> HIDE DEF c
<1>4. \/ Path!FirstFailure(c) = "ok"
      \/ \E i \in 1 .. 2 : ~c[i][1] /\ Path!FirstFailure(c) = c[i][2]
  BY <1>2, FirstFailureIsOne
<1> QED
  BY <1>1, <1>2, <1>3, <1>4

LEMMA FetchIsJudged ==
  ASSUME Path!RequestAssumption, NEW sent \in Path!Source, sent.way = "url"
  PROVE  LET fetched == Path!fetch_image_url(sent.url, sent.reply) IN
         /\ fetched \in Rejections \cup {"ok", "Unhandled"}
         /\ ~OddUrl(sent.url) =>
              /\ fetched # "Unhandled"
              /\ Path!Fetched(sent) /\ Path!Usable(sent.picture) => fetched = "ok"
<1> DEFINE url == sent.url
           reply == sent.reply
           judged == Path!validate_image_url(url)
           c == <<
      <<judged = "ok", judged>>,
      <<reply.server \notin {"timeout", "broken"}, "Validation">>,
      <<reply.server # "error", "Validation">>,
      <<reply.declared <= MaxBytes, "ImageTooLarge">>,
      <<reply.picture.size <= MaxBytes, "ImageTooLarge">> >>
<1>1. Path!fetch_image_url(url, reply) = Path!FirstFailure(c)
  BY DEF Path!fetch_image_url
<1>2. /\ url \in Path!Url /\ reply.picture = sent.picture /\ sent.picture \in Path!Picture
  BY SourceTypes
<1>3. /\ judged \in {"ok", "Validation", "Unhandled"}
      /\ ~OddUrl(url) => judged # "Unhandled"
  BY <1>2, UrlIsJudged
<1>4. /\ DOMAIN c = 1 .. 5
      /\ \A i \in 1 .. 5 : ~c[i][1] => c[i][2] \in Rejections \cup ({judged} \ {"ok"})
  <2>1. DOMAIN c = 1 .. 5
    OBVIOUS
  <2>2. c[1][1] \/ judged # "ok"
    BY <1>3, Zenon
  <2>3. /\ c[1][2] = judged /\ c[2][2] = "Validation" /\ c[3][2] = "Validation"
        /\ c[4][2] = "ImageTooLarge" /\ c[5][2] = "ImageTooLarge"
    OBVIOUS
  <2>4. \A i \in 1 .. 5 : i \in {1, 2, 3, 4, 5}
    OBVIOUS
  <2> HIDE DEF c
  <2> QED
    BY <2>1, <2>2, <2>3, <2>4 DEF Rejections
<1>5. ASSUME ~OddUrl(url), Path!Fetched(sent), Path!Usable(sent.picture), NEW i \in 1 .. 5
      PROVE  c[i][1]
  <2>1. /\ url.scheme \in {"http", "https"} /\ url.host = "named"
        /\ url.port \in {"default", "standard"} /\ url.addresses = {"public"}
        /\ reply.server \in {"ok", "redirect"} /\ reply.declared <= MaxBytes
    BY <1>5 DEF Path!Fetched
  <2>2. url.parses
    BY <1>5 DEF OddUrl
  <2>3. judged = "ok"
    BY <1>2, <2>1, <2>2, UrlIsJudged
  <2>4. reply.picture.size <= MaxBytes
    BY <1>2, <1>5 DEF Path!Usable, Path!Picture, Path!RequestAssumption
  <2>5. reply.server \notin {"timeout", "broken"} /\ reply.server # "error"
    BY <2>1
  <2>6. c[1][1] /\ c[2][1] /\ c[3][1] /\ c[4][1] /\ c[5][1]
    BY <2>1, <2>3, <2>4, <2>5, Zenon
  <2>7. i \in {1, 2, 3, 4, 5}
    OBVIOUS
  <2> HIDE DEF c
  <2> QED
    BY <2>6, <2>7
<1> HIDE DEF c, judged
<1>6. \/ Path!FirstFailure(c) = "ok"
      \/ \E i \in 1 .. 5 : ~c[i][1] /\ Path!FirstFailure(c) = c[i][2]
  BY <1>4, FirstFailureIsOne
<1>7. "Unhandled" \notin Rejections /\ "Validation" \in Rejections
  BY DEF Rejections
<1> DEFINE f == Path!FirstFailure(c)
<1>8. f = "ok" \/ f \in Rejections \/ f = judged
  BY <1>4, <1>6
<1>9. ~OddUrl(url) /\ Path!Fetched(sent) /\ Path!Usable(sent.picture) => f = "ok"
  BY <1>5, <1>6
<1> HIDE DEF f
<1>10. /\ f \in Rejections \cup {"ok", "Unhandled"}
       /\ ~OddUrl(url) => f # "Unhandled"
  BY ONLY <1>3, <1>7, <1>8
<1> QED
  BY <1>1, <1>9, <1>10 DEF f

(* Whatever way an image came: when it is not taken, it is answered with   *)
(* the caller's fault and it is the caller's fault, malformed URLs         *)
(* excepted (resolve_image_bytes() in dependencies.py).                    *)
LEMMA ArrivalIsJudged ==
  ASSUME Path!RequestAssumption, NEW sent \in Path!Source,
         sent.way \in {"upload", "base64", "url"},
         Path!resolve_image_bytes(sent) # "ok"
  PROVE  \/ /\ Path!BlameFor(sent) = "odd"
            /\ Path!resolve_image_bytes(sent) \in Rejections \cup {"Unhandled"}
         \/ Path!BlameFor(sent) = "caller" /\ Path!resolve_image_bytes(sent) \in Rejections
<1> DEFINE arrived == CASE sent.way = "upload" -> Path!read_upload(sent.picture)
                        [] sent.way = "url" -> Path!fetch_image_url(sent.url, sent.reply)
                        [] sent.way = "base64" -> IF sent.encoded THEN "ok" ELSE "InvalidImage"
           picture == sent.picture
<1>1. picture \in Path!Picture
  BY SourceTypes
<1>2. Path!resolve_image_bytes(sent) =
        IF arrived # "ok" THEN arrived ELSE Path!validate_image_bytes(picture)
  BY DEF Path!resolve_image_bytes
<1>3. CASE sent.way = "url" /\ OddUrl(sent.url)
  <2>1. Path!BlameFor(sent) = "odd"
    BY <1>3 DEF Path!BlameFor, OddUrl
  <2>2. arrived = Path!fetch_image_url(sent.url, sent.reply)
    BY <1>3
  <2>3. arrived \in Rejections \cup {"ok", "Unhandled"}
    BY <1>3, <2>2, FetchIsJudged
  <2> HIDE DEF arrived
  <2> QED
    BY <1>1, <1>2, <2>1, <2>3, ImageIsJudged
<1>4. ASSUME ~(sent.way = "url" /\ OddUrl(sent.url)),
             arrived \in Rejections \cup {"ok"},
             Path!Fetched(sent) /\ Path!Usable(picture) => arrived = "ok"
      PROVE  Path!BlameFor(sent) = "caller" /\ Path!resolve_image_bytes(sent) \in Rejections
  <2>1. ~(Path!Fetched(sent) /\ Path!Usable(picture))
    BY <1>1, <1>2, <1>4, ImageIsJudged
  <2>2. Path!BlameFor(sent) = "caller"
    BY <1>4, <2>1 DEF Path!BlameFor, OddUrl
  <2>3. Path!resolve_image_bytes(sent) \in Rejections
    BY <1>1, <1>2, <1>4, ImageIsJudged
  <2> QED
    BY <2>2, <2>3
<1>5. CASE sent.way = "upload"
  <2>1. arrived = Path!read_upload(picture)
    BY <1>5
  <2> QED
    BY <1>1, <1>4, <1>5, <2>1, UploadIsJudged
<1>6. CASE sent.way = "base64"
  <2>1. arrived = IF sent.encoded THEN "ok" ELSE "InvalidImage"
    BY <1>6
  <2>2. Path!Fetched(sent) => sent.encoded
    BY <1>6 DEF Path!Fetched
  <2> QED
    BY <1>4, <1>6, <2>1, <2>2 DEF Rejections
<1>7. CASE sent.way = "url" /\ ~OddUrl(sent.url)
  <2>1. arrived = Path!fetch_image_url(sent.url, sent.reply)
    BY <1>7
  <2> QED
    BY <1>4, <1>7, <2>1, FetchIsJudged
<1> QED
  BY <1>3, <1>5, <1>6, <1>7

-----------------------------------------------------------------------------
(* The states of a request.                                                *)

Entered(x) == x \in [pc : {"limit", "route"}, route : Path!Routes \ {"live", "token"},
                     principal : Path!Principal]
Public(x)  == x \in [pc : {"route"}, route : {"live", "token"}, principal : {None}]
Working(x) == \/ x \in [pc : {"run"}, search : BOOLEAN, loads : BOOLEAN]
              \/ x \in [pc : {"query"}]

Fits(x) ==
  CASE x.blame = "nobody" -> x.status \in {200, 202}
    [] x.blame = "caller" -> x.status \in 400 .. 499
    [] x.blame = "server" -> x.status \in 500 .. 599
    [] x.blame = "odd" -> TRUE

Blamed == [pc : {"answered"}, status : 200 .. 504,
           blame : {"nobody", "caller", "server", "odd"}]
Answered(x) == x \in Blamed /\ Fits(x)

CallersFault ==
  Rejections \cup {"Authentication", "Authorization", "ModelNotFound", "NotFound",
                   "BatchTooLarge", "RateLimit"}
ServersFault == {"Inference", "Unhandled", "ModelLoad", "ServiceUnavailable", "Overloaded",
                 "InferenceTimeout"}
Truthful(outcome, blame) ==
  \/ outcome \in {"ok", "Accepted"} /\ blame = "nobody"
  \/ outcome \in CallersFault /\ blame = "caller"
  \/ outcome \in ServersFault /\ blame = "server"
  \/ outcome \in CallersFault \cup ServersFault /\ blame = "odd"

(* The classes of status_code (exceptions.py).                             *)
LEMMA StatusClass ==
  /\ \A o \in {"ok", "Accepted"} : Path!Status(o) \in {200, 202}
  /\ \A o \in CallersFault : Path!Status(o) \in 400 .. 499
  /\ \A o \in ServersFault : Path!Status(o) \in 500 .. 504
<1>1. \A o \in {"ok", "Accepted"} : Path!Status(o) \in {200, 202}
  BY DEF Path!Status
<1>2. \A o \in CallersFault : Path!Status(o) \in 400 .. 499
  BY DEF CallersFault, Rejections, Path!Status
<1>3. \A o \in ServersFault : Path!Status(o) \in 500 .. 504
  BY DEF ServersFault, Path!Status
<1> QED
  BY <1>1, <1>2, <1>3

LEMMA TruthfulFits ==
  ASSUME NEW outcome, NEW blame, Truthful(outcome, blame)
  PROVE  Answered([pc |-> "answered", status |-> Path!Status(outcome), blame |-> blame])
<1> DEFINE s == Path!Status(outcome)
           x == [pc |-> "answered", status |-> s, blame |-> blame]
<1>1. \/ blame = "nobody" /\ s \in {200, 202}
      \/ blame = "caller" /\ s \in 400 .. 499
      \/ blame = "server" /\ s \in 500 .. 504
      \/ blame = "odd" /\ (s \in 400 .. 499 \/ s \in 500 .. 504)
  BY StatusClass DEF Truthful
<1> HIDE DEF s
<1>2. x.pc = "answered" /\ x.status = s /\ x.blame = blame
  OBVIOUS
<1>3. x \in Blamed
  BY <1>1 DEF Blamed
<1> HIDE DEF x
<1>4. Fits(x)
  <2>1. CASE x.blame = "nobody"
    BY <1>1, <1>2, <2>1 DEF Fits
  <2>2. CASE x.blame = "caller"
    BY <1>1, <1>2, <2>2 DEF Fits
  <2>3. CASE x.blame = "server"
    <3>1. s \in 500 .. 599
      BY ONLY <1>1, <1>2, <2>3
    <3> QED
      BY <1>2, <2>3, <3>1 DEF Fits
  <2>4. CASE x.blame = "odd"
    BY <2>4 DEF Fits
  <2> QED
    BY <1>1, <1>2, <2>1, <2>2, <2>3, <2>4
<1> QED
  BY <1>3, <1>4 DEF Answered, s, x

(* A request moves to a state that is not idle.                            *)
Fine(x) == Entered(x) \/ Public(x) \/ Working(x) \/ Answered(x)

LEMMA Exclusive ==
  ASSUME NEW x
  PROVE  /\ Entered(x) => /\ x.pc \in {"limit", "route"} /\ x.route \notin {"live", "token"}
                          /\ x.principal \in Path!Principal
         /\ Public(x) => x.pc = "route" /\ x.route \in {"live", "token"}
         /\ Working(x) => x.pc \in {"run", "query"}
         /\ Working(x) /\ x.pc = "run" => x.search \in BOOLEAN /\ x.loads \in BOOLEAN
         /\ Answered(x) => x.pc = "answered"
         /\ Fine(x) => x.pc # "idle" /\ x # Path!Idle
<1>1. Entered(x) => /\ x.pc \in {"limit", "route"} /\ x.route \notin {"live", "token"}
                    /\ x.principal \in Path!Principal
  BY DEF Entered
<1>2. Public(x) => x.pc = "route" /\ x.route \in {"live", "token"}
  BY DEF Public
<1>3. Working(x) => x.pc \in {"run", "query"}
  BY DEF Working
<1>4. Working(x) /\ x.pc = "run" => x.search \in BOOLEAN /\ x.loads \in BOOLEAN
  BY DEF Working
<1>5. Answered(x) => x.pc = "answered"
  BY DEF Answered, Blamed
<1>6. Path!Idle.pc = "idle"
  BY DEF Path!Idle
<1>7. Fine(x) => x.pc # "idle" /\ x # Path!Idle
  BY <1>1, <1>2, <1>3, <1>5, <1>6 DEF Fine
<1> QED
  BY <1>1, <1>2, <1>3, <1>4, <1>5, <1>7

-----------------------------------------------------------------------------
(* The inductive invariant.                                                *)

Registered(p, since) == /\ p.user \in Keys /\ p.tier \in Path!Tiers
                        /\ lastHeld[p.user][p.tier] >= since

Requested ==
  /\ exchange = [e \in Exchanges |-> exchange[e]]
  /\ \A e \in Exchanges : exchange[e] = Path!Idle \/ Fine(exchange[e])
  /\ \A e \in Exchanges : Entered(exchange[e]) => Registered(exchange[e].principal, 0)

(* A token was issued when its key had its tier.                           *)
Issued ==
  /\ issued \subseteq Path!Token
  /\ \A x \in issued : x.exp >= Expiry /\ Registered(x, x.exp - Expiry)

(* The history reaches to the present.                                     *)
History ==
  /\ clock \in 0 .. MaxMinutes
  /\ configured \in [Keys -> Path!Tiers \cup {None}]
  /\ lastHeld \in [Keys -> [Path!Tiers -> Path!Never .. MaxMinutes]]
  /\ \A k \in Keys, t \in Path!Tiers :
       lastHeld[k][t] <= clock /\ (configured[k] = t => lastHeld[k][t] = clock)

(* The tokens that are gone from the buckets of a user.                    *)
Removed(k) == {x \in Path!Held(Path!Tiers) : x[2] > left[x[1]][k]}

Books ==
  /\ left \in [Path!Tiers -> [Keys -> Nat]]
  /\ taken \in [Keys -> Nat]
  /\ \A k \in Keys : taken[k] <= Cardinality(Removed(k))
  /\ \A k \in Keys, t \in Path!Tiers :
       left[t][k] <= PerMinute[t] /\ (left[t][k] < PerMinute[t] => lastHeld[k][t] >= 0)


Busy == {e \in Exchanges : exchange[e] # Path!Idle}

(* The gauge counts the requests that are here.                            *)
Gauge == inProgress = Cardinality(Busy)

TokensAreBounded == IsFiniteSet(issued) /\ Cardinality(issued) <= MaxTokens

PathInv == Requested /\ Issued /\ History /\ Books /\ Gauge /\ TokensAreBounded

LEMMA SameCardinalityHere ==
  ASSUME NEW S
  PROVE  /\ Path!IsFiniteSet(S) <=> IsFiniteSet(S)
         /\ Path!Cardinality(S) = Cardinality(S)
  BY DEF Path!IsFiniteSet, IsFiniteSet, Path!Cardinality, Cardinality

LEMMA PathConstants ==
  ASSUME Path!RequestAssumption
  PROVE  /\ IsFiniteSet(Exchanges) /\ IsFiniteSet(Path!Tiers) /\ None \notin Path!Tiers
         /\ PerMinute \in [Path!Tiers -> Nat] /\ BatchCap \in [Path!Tiers -> Nat]
         /\ Expiry \in Nat /\ MaxTokens \in Nat /\ MaxMinutes \in Nat
         /\ Sent \subseteq Path!Source
  BY SameCardinalityHere DEF Path!RequestAssumption

LEMMA FullIsFinite ==
  ASSUME Path!RequestAssumption, NEW T \in SUBSET Path!Tiers
  PROVE  IsFiniteSet(Path!Held(T))
<1> DEFINE col(t) == {t} \X (1 .. PerMinute[t])
           C == {col(t) : t \in T}
           f == [t \in T |-> col(t)]
<1>1. IsFiniteSet(T)
  BY PathConstants, FS_Subset
<1>2. f \in Surjection(T, C)
  BY DEF Surjection
<1>3. IsFiniteSet(C)
  BY ONLY <1>1, <1>2, FS_Surjection
<1>4. \A S \in C : IsFiniteSet(S)
  <2>1. ASSUME NEW t \in T PROVE IsFiniteSet(col(t))
    <3>1. 0 \in Int /\ PerMinute[t] \in Int /\ 0 <= PerMinute[t] /\ 0 + 1 = 1
      BY PathConstants
    <3>2. IsFiniteSet({t} \X (0 + 1 .. PerMinute[t]))
      BY ONLY <3>1, Column
    <3> QED
      BY <3>1, <3>2
  <2> QED
    BY <2>1
<1> HIDE DEF C
<1>5. IsFiniteSet(UNION C)
  BY ONLY <1>3, <1>4, FS_UNION
<1> QED
  BY <1>5 DEF C, Path!Held

LEMMA RemovedIsFinite ==
  ASSUME Path!RequestAssumption, NEW k
  PROVE  IsFiniteSet(Removed(k)) /\ Cardinality(Removed(k)) \in Nat
<1>1. IsFiniteSet(Path!Held(Path!Tiers)) /\ Removed(k) \in SUBSET Path!Held(Path!Tiers)
  BY FullIsFinite DEF Removed
<1> QED
  BY <1>1, FS_Subset, FS_CardinalityType

LEMMA BusyIsFinite ==
  ASSUME Path!RequestAssumption
  PROVE  /\ IsFiniteSet(Busy) /\ Cardinality(Busy) \in 0 .. Cardinality(Exchanges)
<1>1. Busy \in SUBSET Exchanges /\ IsFiniteSet(Exchanges)
  BY PathConstants DEF Busy
<1> QED
  BY <1>1, FS_Subset, FS_CardinalityType

-----------------------------------------------------------------------------
(* What every step of a request has in common.                             *)

(* Nobody who is not here yet is let in.                                   *)
Admitted == \E i \in Exchanges : exchange[i].pc = "idle" /\ exchange'[i].pc = "limit"

(* A request moves on and stays here.                                      *)
LEMMA Moves ==
  ASSUME PathInv, NEW e \in Exchanges, NEW x, exchange[e].pc # "idle",
         exchange' = [exchange EXCEPT ![e] = x], Fine(x),
         Entered(x) => Registered(x.principal, 0),
         UNCHANGED <<configured, clock, inProgress, lastHeld>>
  PROVE  Requested' /\ History' /\ Gauge' /\ ~Admitted
<1>1. /\ exchange' = [i \in Exchanges |-> exchange'[i]]
      /\ \A i \in Exchanges : exchange'[i] = IF i = e THEN x ELSE exchange[i]
  BY DEF PathInv, Requested
<1>2. \A i \in Exchanges : exchange'[i] = Path!Idle \/ Fine(exchange'[i])
  BY <1>1 DEF PathInv, Requested
<1>3. \A i \in Exchanges : Entered(exchange'[i]) => Registered(exchange'[i].principal, 0)
  BY <1>1 DEF PathInv, Requested
<1>4. Requested'
  BY <1>1, <1>2, <1>3 DEF Requested, Registered, Entered, Fine, Public, Working, Answered,
     Path!Principal, Path!Tiers
<1>5. exchange[e] # Path!Idle /\ x # Path!Idle
  BY Exclusive DEF Path!Idle
<1>6. Busy' = Busy
  BY <1>1, <1>5 DEF Busy
<1>7. Gauge'
  BY <1>6 DEF PathInv, Gauge
<1>8. History'
  BY DEF PathInv, History
<1>9. ~Admitted
  BY <1>1 DEF Admitted
<1> QED
  BY <1>4, <1>7, <1>8, <1>9

(* A request is answered.                                                  *)
LEMMA Answers ==
  ASSUME PathInv, NEW e \in Exchanges, NEW outcome, NEW blame, exchange[e].pc # "idle",
         Path!Answer(e, outcome, blame), Truthful(outcome, blame),
         UNCHANGED <<configured, clock, inProgress, lastHeld>>
  PROVE  Requested' /\ History' /\ Gauge' /\ ~Admitted
<1> DEFINE x == [pc |-> "answered", status |-> Path!Status(outcome), blame |-> blame]
<1>1. exchange' = [exchange EXCEPT ![e] = x]
  BY DEF Path!Answer
<1>2. Answered(x)
  BY TruthfulFits
<1> HIDE DEF x
<1>3. Fine(x) /\ ~Entered(x)
  BY <1>2, Exclusive DEF Fine
<1> QED
  BY <1>1, <1>2, <1>3, Moves

(* Nothing is taken from a bucket and no token is issued.                  *)
LEMMA Elsewhere ==
  ASSUME PathInv
  PROVE  /\ UNCHANGED <<left, lastHeld, taken>> => Books'
         /\ UNCHANGED <<issued, lastHeld>> => Issued'
         /\ UNCHANGED issued => TokensAreBounded'
<1>1. UNCHANGED <<left, lastHeld, taken>> => Books'
  BY DEF PathInv, Books, Removed
<1>2. UNCHANGED <<issued, lastHeld>> => Issued'
  BY DEF PathInv, Issued, Registered
<1>3. UNCHANGED issued => TokensAreBounded'
  BY DEF PathInv, TokensAreBounded
<1> QED
  BY <1>1, <1>2, <1>3

-----------------------------------------------------------------------------
(* The steps of a request, one by one.                                     *)

Untouched == UNCHANGED <<configured, left, issued, clock, inProgress, lastHeld, taken>>

LEMMA AnswersOnly ==
  ASSUME PathInv, NEW e \in Exchanges, NEW outcome, NEW blame, exchange[e].pc # "idle",
         Path!Answer(e, outcome, blame), Truthful(outcome, blame), Untouched
  PROVE  PathInv' /\ ~Admitted
<1>1. UNCHANGED <<configured, clock, inProgress, lastHeld>>
  BY DEF Untouched
<1>2. Requested' /\ History' /\ Gauge' /\ ~Admitted
  BY <1>1, Answers
<1>3. Books' /\ Issued' /\ TokensAreBounded'
  BY Elsewhere DEF Untouched
<1> QED
  BY <1>2, <1>3 DEF PathInv

LEMMA MovesOnly ==
  ASSUME PathInv, NEW e \in Exchanges, NEW x, exchange[e].pc # "idle",
         exchange' = [exchange EXCEPT ![e] = x], Working(x), Untouched
  PROVE  PathInv' /\ ~Admitted
<1>1. Fine(x) /\ ~Entered(x)
  BY Exclusive DEF Fine
<1>2. UNCHANGED <<configured, clock, inProgress, lastHeld>>
  BY DEF Untouched
<1>3. Requested' /\ History' /\ Gauge' /\ ~Admitted
  BY <1>1, <1>2, Moves
<1>4. Books' /\ Issued' /\ TokensAreBounded'
  BY Elsewhere DEF Untouched
<1> QED
  BY <1>3, <1>4 DEF PathInv

LEMMA PlainRoutesKeep ==
  ASSUME PathInv, NEW e \in Exchanges,
         \/ Path!MalformedBody(e) \/ Path!Unknown(e) \/ Path!liveness(e) \/ Path!get_model(e)
         \/ Path!ReloadRegistry(e) \/ Path!Query(e)
  PROVE  PathInv' /\ ~Admitted
<1>1. Untouched /\ exchange[e].pc # "idle"
  BY DEF Untouched, Path!MalformedBody, Path!Unknown, Path!liveness, Path!get_model,
         Path!ReloadRegistry, Path!Query, Path!At
<1>2. \E outcome, blame : Path!Answer(e, outcome, blame) /\ Truthful(outcome, blame)
  <2>1. CASE Path!MalformedBody(e)
    BY <2>1 DEF Path!MalformedBody, Truthful, CallersFault, Rejections
  <2>2. CASE Path!Unknown(e)
    BY <2>2 DEF Path!Unknown, Truthful, CallersFault
  <2>3. CASE Path!liveness(e)
    BY <2>3 DEF Path!liveness, Truthful
  <2>4. CASE Path!get_model(e)
    BY <2>4 DEF Path!get_model, Truthful, CallersFault
  <2>5. CASE Path!ReloadRegistry(e)
    <3> DEFINE allowed == Path!require_scope(exchange[e].principal, "admin")
    <3>1. Path!Answer(e, allowed, Path!Blame(allowed))
      BY <2>5 DEF Path!ReloadRegistry
    <3>2. allowed \in {"ok", "Authorization"}
      BY DEF Path!require_scope
    <3> HIDE DEF allowed
    <3>3. Truthful(allowed, Path!Blame(allowed))
      BY <3>2 DEF Truthful, Path!Blame, CallersFault
    <3> QED
      BY <3>1, <3>3
  <2>6. CASE Path!Query(e)
    BY <2>6 DEF Path!Query, Truthful, ServersFault
  <2> QED
    BY <2>1, <2>2, <2>3, <2>4, <2>5, <2>6
<1> QED
  BY <1>1, <1>2, AnswersOnly

(* The image of a request is taken or it is the caller's fault.            *)
LEMMA TakeKeeps ==
  ASSUME Path!RequestAssumption, PathInv, NEW e \in Exchanges, exchange[e].pc # "idle",
         NEW sent \in Path!Source, sent.way \in {"upload", "base64", "url"},
         Path!TakeImage(e, sent), Untouched
  PROVE  PathInv' /\ ~Admitted
<1>1. CASE Path!resolve_image_bytes(sent) = "ok"
  <2> DEFINE x == [pc |-> "run", search |-> Path!At(e, "search upload"),
                   loads |-> sent.picture.loads]
  <2>1. exchange' = [exchange EXCEPT ![e] = x]
    BY <1>1 DEF Path!TakeImage
  <2>2. sent.picture.loads \in BOOLEAN
    BY SourceTypes DEF Path!Picture
  <2>3. Path!At(e, "search upload") \in BOOLEAN
    BY DEF Path!At
  <2>4. x \in [pc : {"run"}, search : BOOLEAN, loads : BOOLEAN]
    BY <2>2, <2>3
  <2>5. Working(x)
    BY <2>4 DEF Working
  <2> HIDE DEF x
  <2> QED
    BY <2>1, <2>5, MovesOnly
<1>2. CASE Path!resolve_image_bytes(sent) # "ok"
  <2> DEFINE arrived == Path!resolve_image_bytes(sent)
             blame == Path!BlameFor(sent)
  <2>1. Path!Answer(e, arrived, blame)
    BY <1>2 DEF Path!TakeImage
  <2>2. \/ blame = "odd" /\ arrived \in Rejections \cup {"Unhandled"}
        \/ blame = "caller" /\ arrived \in Rejections
    BY <1>2, ArrivalIsJudged
  <2> HIDE DEF arrived, blame
  <2>3. Truthful(arrived, blame)
    BY <2>2 DEF Truthful, CallersFault, ServersFault
  <2> QED
    BY <2>1, <2>3, AnswersOnly
<1> QED
  BY <1>1, <1>2

(* A body names one source of its image.                                   *)
LEMMA BodyIsJudged ==
  ASSUME NEW sent \in Path!Source
  PROVE  /\ Path!ImagePayload(sent) \in {"ok", "Validation"}
         /\ Path!ImagePayload(sent) = "ok" => sent.way \in {"upload", "base64", "url"}
<1> DEFINE c == <<
      <<sent.way # "none" /\ sent.way # "both", "Validation">>,
      <<sent.way = "url" => sent.url.scheme \in {"http", "https"}, "Validation">> >>
<1>1. Path!ImagePayload(sent) = Path!FirstFailure(c)
  BY DEF Path!ImagePayload
<1>2. DOMAIN c = 1 .. 2 /\ \A i \in 1 .. 2 : c[i][2] = "Validation"
  OBVIOUS
<1>3. c[1][1] => sent.way # "none" /\ sent.way # "both"
  BY Zenon
<1>4. sent.way \in {"upload", "none", "both", "base64", "url"}
  BY DEF Path!Source
<1> HIDE DEF c
<1>5. \/ Path!FirstFailure(c) = "ok" /\ \A i \in 1 .. 2 : c[i][1]
      \/ \E i \in 1 .. 2 : ~c[i][1] /\ Path!FirstFailure(c) = c[i][2]
  BY <1>2, FirstFailureIsOne
<1> QED
  BY <1>1, <1>2, <1>3, <1>4, <1>5

LEMMA ImageRoutesKeep ==
  ASSUME Path!RequestAssumption, PathInv, NEW e \in Exchanges,
         \/ Path!classify(e) \/ Path!classify_upload(e) \/ Path!detect(e)
         \/ Path!detect_upload(e) \/ Path!search_upload(e)
  PROVE  PathInv' /\ ~Admitted
<1>1. Untouched /\ exchange[e].pc # "idle" /\ (Path!InBody(e) \/ Path!InForm(e))
  BY DEF Untouched, Path!classify, Path!classify_upload, Path!detect, Path!detect_upload,
         Path!search_upload, Path!At
<1>2. Sent \subseteq Path!Source
  BY PathConstants
<1>3. CASE Path!InForm(e)
  <2>1. PICK sent \in Sent : sent.way = "upload" /\ Path!TakeImage(e, sent)
    BY <1>3 DEF Path!InForm
  <2> QED
    BY <1>1, <1>2, <2>1, TakeKeeps
<1>4. CASE Path!InBody(e)
  <2>1. PICK sent \in Sent :
          IF Path!ImagePayload(sent) # "ok"
          THEN Path!Answer(e, Path!ImagePayload(sent), "caller")
          ELSE Path!TakeImage(e, sent)
    BY <1>4 DEF Path!InBody
  <2>2. sent \in Path!Source
    BY <1>2
  <2>3. CASE Path!ImagePayload(sent) = "ok"
    BY <1>1, <2>1, <2>2, <2>3, BodyIsJudged, TakeKeeps
  <2>4. CASE Path!ImagePayload(sent) # "ok"
    <3>1. Path!Answer(e, "Validation", "caller")
      BY <2>1, <2>2, <2>4, BodyIsJudged
    <3>2. Truthful("Validation", "caller")
      BY DEF Truthful, CallersFault, Rejections
    <3> QED
      BY <1>1, <3>1, <3>2, AnswersOnly
  <2> QED
    BY <2>3, <2>4
<1> QED
  BY <1>1, <1>3, <1>4

(* What keeps a forward pass from an answer (_prepare()).                  *)
LEMMA FailureIsAnswered ==
  ASSUME PathInv, NEW e \in Exchanges, exchange[e].pc = "run", Path!Failed(e), Untouched
  PROVE  PathInv' /\ ~Admitted
<1>1. exchange[e].loads \in BOOLEAN
  <2>1. exchange[e] # Path!Idle
    BY DEF Path!Idle
  <2>2. Fine(exchange[e])
    BY <2>1 DEF PathInv, Requested
  <2>3. Working(exchange[e])
    BY <2>2, Exclusive DEF Fine
  <2> QED
    BY <2>3, Exclusive
<1>2. \E outcome, blame : Path!Answer(e, outcome, blame) /\ Truthful(outcome, blame)
  <2>1. CASE Path!Answer(e, "ModelNotFound", "caller")
    BY <2>1 DEF Truthful, CallersFault
  <2>2. CASE Path!Answer(e, "ModelLoad", "server")
    BY <2>2 DEF Truthful, ServersFault
  <2>3. CASE ~exchange[e].loads /\ Path!Answer(e, Path!decode_image(exchange[e]), "caller")
    <3>1. Path!Answer(e, "InvalidImage", "caller")
      BY <2>3 DEF Path!decode_image
    <3> QED
      BY <3>1 DEF Truthful, CallersFault, Rejections
  <2>4. CASE \E outcome \in {"Overloaded", "InferenceTimeout", "Inference"} :
               Path!Answer(e, outcome, "server")
    BY <2>4 DEF Truthful, ServersFault
  <2> QED
    BY <2>1, <2>2, <2>3, <2>4 DEF Path!Failed
<1> QED
  BY <1>2, AnswersOnly

LEMMA RunsKeep ==
  ASSUME PathInv, NEW e \in Exchanges, Path!Predict(e) \/ Path!embed(e)
  PROVE  PathInv' /\ ~Admitted
<1>1. Untouched /\ exchange[e].pc = "run"
  BY DEF Untouched, Path!Predict, Path!embed
<1>2. CASE Path!Failed(e)
  BY <1>1, <1>2, FailureIsAnswered
<1>3. CASE Path!Answer(e, "ok", "nobody")
  BY <1>1, <1>3, AnswersOnly DEF Truthful
<1>4. CASE exchange' = [exchange EXCEPT ![e] = [pc |-> "query"]]
  <2>1. Working([pc |-> "query"])
    BY DEF Working
  <2> QED
    BY <1>1, <1>4, <2>1, MovesOnly
<1> QED
  BY <1>2, <1>3, <1>4 DEF Path!Predict, Path!embed

(* Monitoring's finally takes the request out of the gauge.                *)
LEMMA CompleteKeeps ==
  ASSUME Path!RequestAssumption, PathInv, NEW e \in Exchanges, Path!Complete(e)
  PROVE  PathInv' /\ ~Admitted
<1>1. /\ exchange' = [i \in Exchanges |-> exchange'[i]]
      /\ \A i \in Exchanges : exchange'[i] = IF i = e THEN Path!Idle ELSE exchange[i]
  BY DEF Path!Complete, PathInv, Requested
<1>2. /\ UNCHANGED <<configured, left, issued, clock, lastHeld, taken>>
      /\ inProgress' = inProgress - 1 /\ exchange[e].pc = "answered"
  BY DEF Path!Complete
<1>3. ~Entered(Path!Idle) /\ Path!Idle.pc = "idle"
  BY Exclusive DEF Path!Idle, Entered
<1>4. \A i \in Exchanges : exchange'[i] = Path!Idle \/ Fine(exchange'[i])
  BY <1>1 DEF PathInv, Requested
<1>5. \A i \in Exchanges : Entered(exchange'[i]) => Registered(exchange'[i].principal, 0)
  BY <1>1, <1>3 DEF PathInv, Requested
<1>6. Requested'
  BY <1>1, <1>2, <1>4, <1>5 DEF Requested, Registered, Entered, Fine, Public, Working,
     Answered, Path!Principal, Path!Tiers
<1>7. Busy' = Busy \ {e} /\ e \in Busy
  BY <1>1, <1>2, <1>3 DEF Busy
<1>8. Gauge'
  <2>1. Cardinality(Busy \ {e}) = Cardinality(Busy) - 1
    BY <1>7, BusyIsFinite, FS_RemoveElement
  <2> QED
    BY <1>2, <1>7, <2>1 DEF PathInv, Gauge
<1>9. History'
  BY <1>2 DEF PathInv, History
<1>10. Books' /\ Issued' /\ TokensAreBounded'
  BY <1>2, Elsewhere
<1>11. ~Admitted
  BY <1>1, <1>3 DEF Admitted
<1> QED
  BY <1>6, <1>8, <1>9, <1>10, <1>11 DEF PathInv

-----------------------------------------------------------------------------
(* Who is let in.                                                          *)

(* A key that the replica knows has its tier now.                          *)
LEMMA KeyIsHeld ==
  ASSUME Path!RequestAssumption, PathInv, NEW key
  PROVE  LET who == Path!verify_api_key(key) IN
         /\ who.error \in {"ok", "Authentication", "Unhandled"}
         /\ who.error = "ok" =>
              /\ who = [error |-> "ok", user |-> key, tier |-> configured[key],
                        method |-> "api_key", scopes |-> {}]
              /\ key \in Keys /\ configured[key] \in Path!Tiers
              /\ lastHeld[key][configured[key]] = clock
<1> DEFINE who == Path!verify_api_key(key)
           ok == [error |-> "ok", user |-> key, tier |-> configured[key],
                  method |-> "api_key", scopes |-> {}]
<1>1. \/ who = [error |-> "Authentication"]
      \/ who = [error |-> "Unhandled"]
      \/ who = ok /\ key \in Keys /\ configured[key] # None
  BY DEF Path!verify_api_key
<1>2. ASSUME key \in Keys, configured[key] # None
      PROVE  configured[key] \in Path!Tiers /\ lastHeld[key][configured[key]] = clock
  BY <1>2 DEF PathInv, History
<1>3. ok.error = "ok"
  OBVIOUS
<1>4. [error |-> "Authentication"].error = "Authentication"
      /\ [error |-> "Unhandled"].error = "Unhandled"
  OBVIOUS
<1> HIDE DEF who, ok
<1>5. /\ who.error \in {"ok", "Authentication", "Unhandled"}
      /\ who.error = "ok" => who = ok /\ key \in Keys /\ configured[key] # None
  BY <1>1, <1>3, <1>4
<1> QED
  BY <1>2, <1>5 DEF who, ok

(* A token that is taken is one of this system, and has not expired.       *)
LEMMA TokenIsAlive ==
  ASSUME NEW token \in issued \cup {Forged}
  PROVE  LET who == Path!verify_jwt(token) IN
         /\ who.error \in {"ok", "Authentication"}
         /\ who.error = "ok" =>
              /\ who = [error |-> "ok", user |-> token.user, tier |-> token.tier,
                        method |-> "jwt", scopes |-> token.scopes]
              /\ token \in issued /\ ~(clock >= token.exp)
<1> DEFINE who == Path!verify_jwt(token)
           ok == [error |-> "ok", user |-> token.user, tier |-> token.tier,
                  method |-> "jwt", scopes |-> token.scopes]
<1>1. \/ who = [error |-> "Authentication"]
      \/ who = ok /\ token \in issued /\ ~(clock >= token.exp)
  BY DEF Path!verify_jwt, Path!Expired, Path!Claims
<1>2. ok.error = "ok" /\ [error |-> "Authentication"].error = "Authentication"
  OBVIOUS
<1> HIDE DEF who, ok
<1>3. /\ who.error \in {"ok", "Authentication"}
      /\ who.error = "ok" => who = ok /\ token \in issued /\ ~(clock >= token.exp)
  BY <1>1, <1>2
<1> QED
  BY <1>3 DEF who, ok

(* When the request's tier was its key's.                                  *)
Admissible(p) ==
  lastHeld[p.user][p.tier] >= clock - (IF p.method = "jwt" THEN Expiry - 1 ELSE 0)

AsPrincipal(who) == [user |-> who.user, tier |-> who.tier, method |-> who.method,
                     scopes |-> who.scopes]

LEMMA CallerIsKnown ==
  ASSUME Path!RequestAssumption, PathInv, NEW sent \in Path!Credentials
  PROVE  LET who == Path!authenticate_request(sent) IN
         /\ who.error \in {"ok", "Authentication", "Unhandled"}
         /\ who.error = "ok" =>
              /\ AsPrincipal(who) \in Path!Principal
              /\ Registered(AsPrincipal(who), 0) /\ Admissible(AsPrincipal(who))
<1> DEFINE who == Path!authenticate_request(sent)
<1>1. clock \in Nat /\ lastHeld \in [Keys -> [Path!Tiers -> Int]] /\ Expiry \in Nat
  BY PathConstants DEF PathInv, History, Path!Never
<1>2. sent.token \in issued \cup {None, Forged}
  BY DEF Path!Credentials
<1>3. CASE sent.key # "none"
  <2> DEFINE p == [user |-> sent.key, tier |-> configured[sent.key],
                   method |-> "api_key", scopes |-> {}]
  <2>1. who = Path!verify_api_key(sent.key)
    BY <1>3 DEF Path!authenticate_request
  <2>2. ASSUME who.error = "ok"
        PROVE  AsPrincipal(who) = p /\ sent.key \in Keys
               /\ configured[sent.key] \in Path!Tiers
               /\ lastHeld[sent.key][configured[sent.key]] = clock
    <3>1. /\ who = [error |-> "ok", user |-> sent.key, tier |-> configured[sent.key],
                    method |-> "api_key", scopes |-> {}]
          /\ sent.key \in Keys /\ configured[sent.key] \in Path!Tiers
          /\ lastHeld[sent.key][configured[sent.key]] = clock
      BY <2>1, <2>2, KeyIsHeld
    <3> HIDE DEF who
    <3>2. AsPrincipal(who) = p
      BY <3>1 DEF AsPrincipal
    <3> QED
      BY <3>1, <3>2
  <2>3. ASSUME sent.key \in Keys, configured[sent.key] \in Path!Tiers,
               lastHeld[sent.key][configured[sent.key]] = clock
        PROVE  p \in Path!Principal /\ Registered(p, 0) /\ Admissible(p)
    BY <1>1, <2>3 DEF Path!Principal, Path!Methods, Path!ScopeSets, Registered, Admissible
  <2> HIDE DEF p
  <2>4. who.error \in {"ok", "Authentication", "Unhandled"}
    BY <2>1, KeyIsHeld
  <2> QED
    BY <2>2, <2>3, <2>4
<1>4. CASE sent.key = "none" /\ sent.token # None
  <2> DEFINE token == sent.token
             p == [user |-> token.user, tier |-> token.tier, method |-> "jwt",
                   scopes |-> token.scopes]
  <2>1. who = Path!verify_jwt(token)
    BY <1>4 DEF Path!authenticate_request
  <2>2. token \in issued \cup {Forged}
    BY <1>2, <1>4
  <2>3. ASSUME who.error = "ok"
        PROVE  AsPrincipal(who) = p /\ token \in issued /\ ~(clock >= token.exp)
    BY <2>1, <2>2, <2>3, TokenIsAlive DEF AsPrincipal
  <2>4. ASSUME token \in issued, ~(clock >= token.exp)
        PROVE  p \in Path!Principal /\ Registered(p, 0) /\ Admissible(p)
    <3>1. token \in Path!Token /\ token.exp >= Expiry /\ Registered(token, token.exp - Expiry)
      BY <2>4 DEF PathInv, Issued
    <3>2. /\ token.user \in Keys /\ token.tier \in Path!Tiers
          /\ token.scopes \in Path!ScopeSets /\ token.exp \in Nat
      BY <3>1 DEF Path!Token
    <3>3. /\ p.user = token.user /\ p.tier = token.tier /\ p.method = "jwt"
          /\ p.scopes = token.scopes
      OBVIOUS
    <3>4. lastHeld[token.user][token.tier] \in Int
      BY <1>1, <3>2
    <3>5. lastHeld[token.user][token.tier] >= token.exp - Expiry
      BY <3>1 DEF Registered
    <3>6. p \in Path!Principal
      BY <3>2 DEF Path!Principal, Path!Methods
    <3> HIDE DEF token, p
    <3>7. Registered(p, 0)
      BY <1>1, <3>1, <3>2, <3>3, <3>4, <3>5 DEF Registered
    <3>8. Admissible(p)
      BY <1>1, <2>4, <3>2, <3>3, <3>4, <3>5 DEF Admissible
    <3> QED
      BY <3>6, <3>7, <3>8
  <2>5. who.error \in {"ok", "Authentication"}
    BY <2>1, <2>2, TokenIsAlive
  <2> HIDE DEF token, p
  <2> QED
    BY <2>3, <2>4, <2>5
<1>5. CASE sent.key = "none" /\ sent.token = None
  <2>1. who = [error |-> "Authentication"]
    BY <1>5 DEF Path!authenticate_request
  <2> HIDE DEF who
  <2>2. who.error = "Authentication"
    BY <2>1
  <2> QED
    BY <2>2 DEF who
<1> QED
  BY <1>3, <1>4, <1>5

LEMMA ReceiveKeeps ==
  ASSUME Path!RequestAssumption, PathInv, NEW e \in Exchanges, Path!Receive(e)
  PROVE  /\ PathInv'
         /\ \A i \in Exchanges : exchange[i].pc = "idle" /\ exchange'[i].pc = "limit" =>
              Admissible(exchange'[i].principal)
<1>1. /\ UNCHANGED <<configured, left, issued, clock, lastHeld, taken>>
      /\ inProgress' = inProgress + 1 /\ exchange[e].pc = "idle"
  BY DEF Path!Receive
<1>2. PICK x : /\ exchange' = [exchange EXCEPT ![e] = x] /\ Fine(x)
               /\ Entered(x) => Registered(x.principal, 0)
               /\ x.pc = "limit" => Admissible(x.principal)
  <2>1. PICK route \in Path!Routes :
          IF Path!is_public_path(route)
          THEN exchange' = [exchange EXCEPT ![e] =
                              [pc |-> "route", route |-> route, principal |-> None]]
          ELSE \E sent \in Path!Credentials :
                 LET who == Path!authenticate_request(sent) IN
                 IF who.error # "ok"
                 THEN Path!Answer(e, who.error, Path!Blame(who.error))
                 ELSE exchange' = [exchange EXCEPT ![e] =
                        [pc |-> "limit", route |-> route,
                         principal |-> AsPrincipal(who)]]
    BY DEF Path!Receive, AsPrincipal
  <2>2. CASE Path!is_public_path(route)
    <3> DEFINE y == [pc |-> "route", route |-> route, principal |-> None]
    <3>1. exchange' = [exchange EXCEPT ![e] = y]
      BY <2>1, <2>2
    <3>2. Public(y)
      BY <2>2 DEF Public, Path!is_public_path
    <3>3. y.pc = "route" /\ y.principal = None
      OBVIOUS
    <3> HIDE DEF y
    <3>4. ~Entered(y)
      BY <3>2, Exclusive
    <3> QED
      BY <3>1, <3>2, <3>3, <3>4 DEF Fine
  <2>3. CASE ~Path!is_public_path(route)
    <3>1. PICK sent \in Path!Credentials :
            LET who == Path!authenticate_request(sent) IN
            IF who.error # "ok"
            THEN Path!Answer(e, who.error, Path!Blame(who.error))
            ELSE exchange' = [exchange EXCEPT ![e] =
                   [pc |-> "limit", route |-> route, principal |-> AsPrincipal(who)]]
      BY <2>1, <2>3
    <3> DEFINE who == Path!authenticate_request(sent)
    <3>2. /\ who.error \in {"ok", "Authentication", "Unhandled"}
          /\ who.error = "ok" =>
               /\ AsPrincipal(who) \in Path!Principal
               /\ Registered(AsPrincipal(who), 0) /\ Admissible(AsPrincipal(who))
      BY CallerIsKnown
    <3> HIDE DEF who
    <3>3. CASE who.error # "ok"
      <4> DEFINE y == [pc |-> "answered", status |-> Path!Status(who.error),
                       blame |-> Path!Blame(who.error)]
      <4>1. exchange' = [exchange EXCEPT ![e] = y]
        BY <3>1, <3>3 DEF Path!Answer, who
      <4>2. Truthful(who.error, Path!Blame(who.error))
        BY <3>2, <3>3 DEF Truthful, Path!Blame, CallersFault, ServersFault
      <4>3. Answered(y)
        BY <4>2, TruthfulFits
      <4> HIDE DEF y
      <4>4. Fine(y) /\ ~Entered(y) /\ y.pc # "limit"
        BY <4>3, Exclusive DEF Fine
      <4> QED
        BY <4>1, <4>4
    <3>4. CASE who.error = "ok"
      <4> DEFINE y == [pc |-> "limit", route |-> route, principal |-> AsPrincipal(who)]
      <4>1. exchange' = [exchange EXCEPT ![e] = y]
        BY <3>1, <3>4 DEF who
      <4>2. Entered(y)
        BY <2>3, <3>2, <3>4 DEF Entered, Path!is_public_path
      <4>3. y.principal = AsPrincipal(who)
        OBVIOUS
      <4> HIDE DEF y
      <4> QED
        BY <3>2, <3>4, <4>1, <4>2, <4>3 DEF Fine
    <3> QED
      BY <3>3, <3>4
  <2> QED
    BY <2>2, <2>3
<1>3. /\ exchange' = [i \in Exchanges |-> exchange'[i]]
      /\ \A i \in Exchanges : exchange'[i] = IF i = e THEN x ELSE exchange[i]
  BY <1>2 DEF PathInv, Requested
<1>4. \A i \in Exchanges : exchange'[i] = Path!Idle \/ Fine(exchange'[i])
  BY <1>2, <1>3 DEF PathInv, Requested
<1>5. \A i \in Exchanges : Entered(exchange'[i]) => Registered(exchange'[i].principal, 0)
  BY <1>2, <1>3 DEF PathInv, Requested
<1>6. Requested'
  BY <1>1, <1>3, <1>4, <1>5 DEF Requested, Registered, Entered, Fine, Public, Working,
     Answered, Path!Principal, Path!Tiers
<1>7. exchange[e] = Path!Idle /\ x # Path!Idle
  BY <1>1, <1>2, Exclusive DEF PathInv, Requested
<1>8. Busy' = Busy \cup {e} /\ e \notin Busy
  BY <1>3, <1>7 DEF Busy
<1>9. Gauge'
  <2>1. Cardinality(Busy \cup {e}) = Cardinality(Busy) + 1
    BY <1>8, BusyIsFinite, FS_AddElement
  <2> QED
    BY <1>1, <1>8, <2>1 DEF PathInv, Gauge
<1>10. History'
  BY <1>1 DEF PathInv, History
<1>11. Books' /\ Issued' /\ TokensAreBounded'
  BY <1>1, Elsewhere
<1>12. PathInv'
  BY <1>6, <1>9, <1>10, <1>11 DEF PathInv
<1>13. \A i \in Exchanges : exchange[i].pc = "idle" /\ exchange'[i].pc = "limit" =>
         Admissible(exchange'[i].principal)
  <2> SUFFICES ASSUME NEW i \in Exchanges, exchange[i].pc = "idle",
                      exchange'[i].pc = "limit"
               PROVE  Admissible(exchange'[i].principal)
    OBVIOUS
  <2>1. CASE i = e
    BY <1>2, <1>3, <2>1
  <2>2. CASE i # e
    BY <1>3, <2>2
  <2> QED
    BY <2>1, <2>2
<1> QED
  BY <1>12, <1>13

-----------------------------------------------------------------------------
(* What is taken.                                                          *)

LEMMA ChargeIsBooked ==
  ASSUME Path!RequestAssumption, PathInv, NEW p \in Path!Principal, NEW cost \in Nat,
         Path!Enforce(p, cost), Registered(p, 0), UNCHANGED lastHeld
  PROVE  Books'
<1> DEFINE u == p.user
           t == p.tier
           n == left[t][u]
<1>1. u \in Keys /\ t \in Path!Tiers
  BY DEF Path!Principal
<1>2. left \in [Path!Tiers -> [Keys -> Nat]] /\ taken \in [Keys -> Nat]
  BY DEF PathInv, Books
<1>3. /\ n >= cost
      /\ left' = [left EXCEPT ![t][u] = n - cost]
      /\ taken' = [taken EXCEPT ![u] = taken[u] + cost]
  BY DEF Path!Enforce
<1>4. n \in Nat /\ n - cost \in Nat
  BY <1>1, <1>2, <1>3
<1>5. /\ left' \in [Path!Tiers -> [Keys -> Nat]]
      /\ \A s \in Path!Tiers, k \in Keys :
           left'[s][k] = IF s = t /\ k = u THEN n - cost ELSE left[s][k]
  BY <1>1, <1>2, <1>3, <1>4
<1>6. taken' \in [Keys -> Nat]
      /\ \A k \in Keys : taken'[k] = IF k = u THEN taken[u] + cost ELSE taken[k]
  BY <1>1, <1>2, <1>3
<1>7. PerMinute \in [Path!Tiers -> Nat] /\ n <= PerMinute[t]
  BY <1>1, PathConstants DEF PathInv, Books
<1>8. \A k \in Keys, s \in Path!Tiers :
        left'[s][k] <= PerMinute[s] /\ (left'[s][k] < PerMinute[s] => lastHeld'[k][s] >= 0)
  <2> SUFFICES ASSUME NEW k \in Keys, NEW s \in Path!Tiers
               PROVE  left'[s][k] <= PerMinute[s]
                      /\ (left'[s][k] < PerMinute[s] => lastHeld'[k][s] >= 0)
    OBVIOUS
  <2>1. CASE s = t /\ k = u
    <3>1. lastHeld[u][t] >= 0
      BY DEF Registered
    <3> QED
      BY <1>1, <1>4, <1>5, <1>7, <2>1, <3>1
  <2>2. CASE ~(s = t /\ k = u)
    BY <1>5, <2>2 DEF PathInv, Books
  <2> QED
    BY <2>1, <2>2
<1> HIDE DEF u, t, n
<1> DEFINE N == {t} \X (n - cost + 1 .. n)
<1>9. IsFiniteSet(N) /\ Cardinality(N) = cost
  <2>1. n - cost \in Int /\ n \in Int /\ n - cost <= n /\ n - (n - cost) = cost
    BY <1>4
  <2>2. IsFiniteSet(N) /\ Cardinality(N) = n - (n - cost)
    BY ONLY <2>1, Column
  <2> QED
    BY <2>1, <2>2
<1>10. Removed(u)' = Removed(u) \cup N
  <2>1. N \subseteq Path!Held(Path!Tiers)
    BY <1>1, <1>4, <1>7 DEF Path!Held
  <2>2. ASSUME NEW x \in Path!Held(Path!Tiers)
        PROVE  x[2] > left'[x[1]][u] <=> x \in Removed(u) \cup N
    <3>1. PICK s \in Path!Tiers : x \in {s} \X (1 .. PerMinute[s])
      BY DEF Path!Held
    <3>2. x = <<s, x[2]>> /\ x[1] = s /\ x[2] \in 1 .. PerMinute[s]
      BY <3>1
    <3>3. x \in Removed(u) <=> x[2] > left[s][u]
      BY <3>2 DEF Removed
    <3>4. x \in N <=> s = t /\ x[2] \in n - cost + 1 .. n
      BY <3>2
    <3>5. x[2] \in Nat /\ left[s][u] \in Nat
      BY <1>1, <1>2, <1>7, <3>2
    <3>6. left[t][u] = n
      BY DEF n
    <3> HIDE DEF N
    <3>7. CASE s = t
      BY <1>1, <1>4, <1>5, <3>2, <3>3, <3>4, <3>5, <3>6, <3>7
    <3>8. CASE s # t
      BY <1>1, <1>5, <3>2, <3>3, <3>4, <3>8
    <3> QED
      BY <3>7, <3>8
  <2>3. Removed(u)' = {x \in Path!Held(Path!Tiers) : x[2] > left'[x[1]][u]}
    <3>1. u' = u
      BY DEF u
    <3> QED
      BY <3>1 DEF Removed, Path!Held, Path!Tiers
  <2> HIDE DEF N
  <2> QED
    BY <2>1, <2>2, <2>3 DEF Removed
<1>11. Removed(u) \cap N = {}
  <2>1. ASSUME NEW x \in N, x \in Removed(u) PROVE FALSE
    <3>1. x[1] = t /\ x[2] \in n - cost + 1 .. n
      OBVIOUS
    <3>2. x[2] > left[t][u]
      BY <2>1, <3>1 DEF Removed
    <3> QED
      BY <1>4, <3>1, <3>2 DEF n
  <2> QED
    BY <2>1
<1>12. Cardinality(Removed(u) \cup N) = Cardinality(Removed(u)) + cost
  <2> HIDE DEF N
  <2>1. IsFiniteSet(Removed(u)) /\ Cardinality(Removed(u)) \in Nat
    BY RemovedIsFinite
  <2>2. Cardinality(Removed(u) \cup N) =
          Cardinality(Removed(u)) + Cardinality(N) - Cardinality({})
    BY <1>9, <1>11, <2>1, FS_Union
  <2>3. Cardinality({}) = 0
    BY FS_EmptySet
  <2> QED
    BY <1>9, <2>1, <2>2, <2>3
<1>13. \A k \in Keys : taken'[k] <= Cardinality(Removed(k)')
  <2> SUFFICES ASSUME NEW k \in Keys PROVE taken'[k] <= Cardinality(Removed(k)')
    OBVIOUS
  <2>1. taken[k] <= Cardinality(Removed(k)) /\ Cardinality(Removed(k)) \in Nat
    BY RemovedIsFinite DEF PathInv, Books
  <2>2. CASE k = u
    <3>1. Removed(k)' = Removed(u)'
      <4>1. u' = u /\ k' = k
        BY DEF u
      <4> QED
        BY <2>2, <4>1 DEF Removed, Path!Held, Path!Tiers
    <3>2. taken'[k] = taken[u] + cost
      BY <1>6, <2>2
    <3>3. Cardinality(Removed(k)') = Cardinality(Removed(u)) + cost
      BY <1>10, <1>12, <3>1
    <3>4. taken[u] \in Nat
      BY <1>1, <1>2
    <3>5. taken[u] <= Cardinality(Removed(u)) /\ Cardinality(Removed(u)) \in Nat
      BY <2>1, <2>2
    <3> QED
      BY <3>2, <3>3, <3>4, <3>5
  <2>3. CASE k # u
    <3>1. \A s \in Path!Tiers : left'[s][k] = left[s][k]
      BY <1>5, <2>3
    <3>2. \A x \in Path!Held(Path!Tiers) : x[1] \in Path!Tiers
      BY DEF Path!Held
    <3>3. Removed(k)' = Removed(k)
      BY <3>1, <3>2 DEF Removed, Path!Held, Path!Tiers
    <3> QED
      BY <1>6, <2>1, <2>3, <3>3
  <2> QED
    BY <2>2, <2>3
<1> QED
  BY <1>5, <1>6, <1>8, <1>13 DEF Books, Path!Tiers

LEMMA EnteredIsRegistered ==
  ASSUME PathInv, NEW e \in Exchanges,
         exchange[e].pc = "limit" \/ (exchange[e].pc = "route" /\ exchange[e].route = "batch")
  PROVE  /\ Entered(exchange[e]) /\ exchange[e].principal \in Path!Principal
         /\ Registered(exchange[e].principal, 0)
<1>1. exchange[e] # Path!Idle
  BY DEF Path!Idle
<1>2. Fine(exchange[e])
  BY <1>1 DEF PathInv, Requested
<1>3. Entered(exchange[e])
  BY <1>2, Exclusive DEF Fine
<1> QED
  BY <1>3, Exclusive DEF PathInv, Requested

LEMMA LimitKeeps ==
  ASSUME Path!RequestAssumption, PathInv, NEW e \in Exchanges, Path!Limit(e)
  PROVE  PathInv' /\ ~Admitted
<1> DEFINE p == exchange[e].principal
<1>1. /\ UNCHANGED <<configured, issued, clock, inProgress, lastHeld>>
      /\ exchange[e].pc = "limit"
      /\ \/ Path!Enforce(p, 1) /\ exchange' = [exchange EXCEPT ![e].pc = "route"]
         \/ Path!Exhausted(p, 1) /\ Path!Answer(e, "RateLimit", "caller")
  BY DEF Path!Limit
<1>2. Entered(exchange[e]) /\ p \in Path!Principal /\ Registered(p, 0)
  BY <1>1, EnteredIsRegistered
<1>3. Issued' /\ TokensAreBounded'
  BY <1>1, Elsewhere
<1>4. CASE Path!Enforce(p, 1) /\ exchange' = [exchange EXCEPT ![e].pc = "route"]
  <2>1. Books'
    BY <1>1, <1>2, <1>4, ChargeIsBooked
  <2> DEFINE x == [exchange[e] EXCEPT !.pc = "route"]
  <2>2. exchange' = [exchange EXCEPT ![e] = x]
    BY <1>4
  <2>3. Entered(x) /\ x.principal = p
    BY <1>2 DEF Entered
  <2> HIDE DEF x
  <2>4. Fine(x) /\ (Entered(x) => Registered(x.principal, 0))
    BY <1>2, <2>3 DEF Fine
  <2>5. Requested' /\ History' /\ Gauge' /\ ~Admitted
    BY <1>1, <2>2, <2>4, Moves
  <2> QED
    BY <1>3, <2>1, <2>5 DEF PathInv
<1>5. CASE Path!Exhausted(p, 1) /\ Path!Answer(e, "RateLimit", "caller")
  <2>1. Truthful("RateLimit", "caller")
    BY DEF Truthful, CallersFault
  <2>2. Untouched
    BY <1>1, <1>5 DEF Untouched, Path!Exhausted
  <2> QED
    BY <1>1, <1>5, <2>1, <2>2, AnswersOnly
<1> QED
  BY <1>1, <1>4, <1>5

LEMMA SubmitBatchKeeps ==
  ASSUME Path!RequestAssumption, PathInv, NEW e \in Exchanges, Path!SubmitBatch(e)
  PROVE  PathInv' /\ ~Admitted
<1> DEFINE p == exchange[e].principal
<1>1. /\ UNCHANGED <<configured, issued, clock, inProgress, lastHeld>>
      /\ exchange[e].pc = "route" /\ exchange[e].route = "batch"
  BY DEF Path!SubmitBatch, Path!At
<1>2. p \in Path!Principal /\ Registered(p, 0)
  BY <1>1, EnteredIsRegistered
<1>3. Issued' /\ TokensAreBounded'
  BY <1>1, Elsewhere
<1>4. PICK count \in 1 .. 3 :
        IF Path!validate_batch_size(count, p.tier) # "ok"
        THEN Path!Answer(e, "BatchTooLarge", "caller") /\ UNCHANGED <<left, taken>>
        ELSE \/ Path!Exhausted(p, count) /\ Path!Answer(e, "RateLimit", "caller")
             \/ /\ Path!Enforce(p, count)
                /\ \/ Path!Answer(e, "Accepted", "nobody")
                   \/ Path!Answer(e, "ModelNotFound", "caller")
                   \/ Path!Answer(e, "ServiceUnavailable", "server")
  BY DEF Path!SubmitBatch
<1>5. /\ Truthful("BatchTooLarge", "caller") /\ Truthful("RateLimit", "caller")
      /\ Truthful("Accepted", "nobody") /\ Truthful("ModelNotFound", "caller")
      /\ Truthful("ServiceUnavailable", "server")
  BY DEF Truthful, CallersFault, ServersFault
<1>6. CASE UNCHANGED <<left, taken>>
           /\ (Path!Answer(e, "BatchTooLarge", "caller")
               \/ Path!Answer(e, "RateLimit", "caller"))
  <2>1. Untouched
    BY <1>1, <1>6 DEF Untouched
  <2> QED
    BY <1>1, <1>5, <1>6, <2>1, AnswersOnly
<1>7. CASE Path!Enforce(p, count)
           /\ (\/ Path!Answer(e, "Accepted", "nobody")
               \/ Path!Answer(e, "ModelNotFound", "caller")
               \/ Path!Answer(e, "ServiceUnavailable", "server"))
  <2>1. Books'
    BY <1>1, <1>2, <1>7, ChargeIsBooked
  <2>2. Requested' /\ History' /\ Gauge' /\ ~Admitted
    BY <1>1, <1>5, <1>7, Answers
  <2> QED
    BY <1>3, <2>1, <2>2 DEF PathInv
<1> QED
  BY <1>4, <1>6, <1>7 DEF Path!Exhausted

(* A token carries the tier of its key and the time it was issued.         *)
LEMMA IssueTokenKeeps ==
  ASSUME Path!RequestAssumption, PathInv, NEW e \in Exchanges, Path!IssueToken(e)
  PROVE  PathInv' /\ ~Admitted
<1>1. /\ UNCHANGED <<configured, left, clock, inProgress, lastHeld, taken>>
      /\ exchange[e].pc # "idle"
  BY DEF Path!IssueToken, Path!At
<1>2. PICK key \in Keys \cup {"wrong", "garbled"}, scopes \in Path!ScopeSets :
        LET who == Path!verify_api_key(key)
            token == [user |-> who.user, tier |-> who.tier, scopes |-> scopes,
                      exp |-> clock + Expiry]
        IN IF who.error # "ok"
           THEN Path!Answer(e, who.error, Path!Blame(who.error)) /\ UNCHANGED issued
           ELSE /\ Path!Answer(e, "ok", "nobody")
                /\ Path!Cardinality(issued \cup {token}) <= MaxTokens
                /\ issued' = issued \cup {token}
  BY DEF Path!IssueToken
<1> DEFINE who == Path!verify_api_key(key)
           token == [user |-> who.user, tier |-> who.tier, scopes |-> scopes,
                     exp |-> clock + Expiry]
<1>3. /\ who.error \in {"ok", "Authentication", "Unhandled"}
      /\ who.error = "ok" =>
           /\ who = [error |-> "ok", user |-> key, tier |-> configured[key],
                     method |-> "api_key", scopes |-> {}]
           /\ key \in Keys /\ configured[key] \in Path!Tiers
           /\ lastHeld[key][configured[key]] = clock
  BY KeyIsHeld
<1>4. \/ /\ who.error # "ok" /\ Path!Answer(e, who.error, Path!Blame(who.error))
         /\ UNCHANGED issued
      \/ /\ who.error = "ok" /\ Path!Answer(e, "ok", "nobody")
         /\ Path!Cardinality(issued \cup {token}) <= MaxTokens
         /\ issued' = issued \cup {token}
  BY <1>2
<1> HIDE DEF who
<1>5. CASE who.error # "ok"
  <2>1. Truthful(who.error, Path!Blame(who.error))
    BY <1>3, <1>5 DEF Truthful, Path!Blame, CallersFault, ServersFault
  <2>2. Untouched
    BY <1>1, <1>4, <1>5 DEF Untouched
  <2> QED
    BY <1>1, <1>4, <1>5, <2>1, <2>2, AnswersOnly
<1>6. CASE who.error = "ok"
  <2>1. clock \in Nat /\ Expiry \in Nat
    BY PathConstants DEF PathInv, History
  <2>2. /\ token.user = key /\ token.tier = configured[key] /\ token.scopes = scopes
        /\ token.exp = clock + Expiry
    BY <1>3, <1>6
  <2>3. token \in Path!Token
    BY <1>3, <1>6, <2>1 DEF Path!Token
  <2> HIDE DEF token
  <2>4. Registered(token, token.exp - Expiry) /\ token.exp >= Expiry
    BY <1>3, <1>6, <2>1, <2>2 DEF Registered
  <2>5. Issued'
    BY <1>1, <1>4, <1>6, <2>3, <2>4 DEF PathInv, Issued, Registered, Path!Token, Path!Tiers,
       Path!ScopeSets
  <2>6. TokensAreBounded'
    <3>1. IsFiniteSet(issued \cup {token})
      BY FS_AddElement DEF PathInv, TokensAreBounded
    <3>2. Cardinality(issued \cup {token}) <= MaxTokens
      BY <1>4, <1>6, SameCardinalityHere
    <3> QED
      BY <1>4, <1>6, <3>1, <3>2 DEF TokensAreBounded
  <2>7. Truthful("ok", "nobody")
    BY DEF Truthful
  <2>8. Requested' /\ History' /\ Gauge' /\ ~Admitted
    BY <1>1, <1>4, <1>6, <2>7, Answers
  <2>9. Books'
    BY <1>1, Elsewhere
  <2> QED
    BY <2>5, <2>6, <2>8, <2>9 DEF PathInv
<1> QED
  BY <1>5, <1>6

-----------------------------------------------------------------------------
(* Time, and other keys.                                                   *)

(* The history only grows: who was registered stays so.                    *)
LEMMA HistoryGrows ==
  ASSUME Path!RequestAssumption, PathInv, NEW keys \in [Keys -> Path!Tiers \cup {None}],
         NEW then \in 0 .. MaxMinutes, clock <= then,
         lastHeld' = Path!HeldBy(keys, then, lastHeld),
         UNCHANGED <<exchange, left, issued, inProgress, taken>>,
         clock' = then, configured' = keys
  PROVE  PathInv' /\ ~Admitted
<1>1. /\ clock \in Nat /\ MaxMinutes \in Nat /\ Expiry \in Nat
      /\ lastHeld \in [Keys -> [Path!Tiers -> Path!Never .. MaxMinutes]]
  BY PathConstants DEF PathInv, History
<1>2. /\ Path!Never \in Int /\ Path!Never <= 0
  BY <1>1 DEF Path!Never
<1>3. \A k \in Keys, t \in Path!Tiers :
        /\ lastHeld[k][t] \in Path!Never .. MaxMinutes
        /\ lastHeld[k][t] <= then
        /\ lastHeld'[k][t] = IF keys[k] = t THEN then ELSE lastHeld[k][t]
  <2> SUFFICES ASSUME NEW k \in Keys, NEW t \in Path!Tiers
               PROVE  /\ lastHeld[k][t] \in Path!Never .. MaxMinutes
                      /\ lastHeld[k][t] <= then
                      /\ lastHeld'[k][t] = IF keys[k] = t THEN then ELSE lastHeld[k][t]
    OBVIOUS
  <2>1. lastHeld[k][t] \in Path!Never .. MaxMinutes
    BY <1>1
  <2>2. lastHeld[k][t] <= then
    <3>1. lastHeld[k][t] <= clock
      BY DEF PathInv, History
    <3> QED
      BY <1>1, <1>2, <2>1, <3>1
  <2>3. lastHeld'[k][t] = IF keys[k] = t THEN then ELSE lastHeld[k][t]
    BY DEF Path!HeldBy
  <2> QED
    BY <2>1, <2>2, <2>3
<1>4. lastHeld' \in [Keys -> [Path!Tiers -> Path!Never .. MaxMinutes]]
  <2>1. then \in Path!Never .. MaxMinutes
    BY <1>1, <1>2
  <2> QED
    BY <1>3, <2>1 DEF Path!HeldBy
<1>5. \A k \in Keys, t \in Path!Tiers :
        /\ lastHeld'[k][t] >= lastHeld[k][t] /\ lastHeld'[k][t] <= then
        /\ lastHeld'[k][t] \in Int /\ lastHeld[k][t] \in Int
        /\ keys[k] = t => lastHeld'[k][t] = then
  BY <1>1, <1>2, <1>3
<1>6. ASSUME NEW x, NEW since \in Int, Registered(x, since)
      PROVE  /\ x.user \in Keys /\ x.tier \in Path!Tiers
             /\ lastHeld'[x.user][x.tier] >= since
  <2>1. x.user \in Keys /\ x.tier \in Path!Tiers /\ lastHeld[x.user][x.tier] >= since
    BY <1>6 DEF Registered
  <2> QED
    BY <1>5, <1>6, <2>1
<1>7. History'
  BY <1>4, <1>5 DEF History, Path!Tiers, Path!Never
<1>8. Requested'
  <2>1. \A i \in Exchanges : Entered(exchange[i]) => Registered(exchange[i].principal, 0)
    BY DEF PathInv, Requested
  <2>2. \A i \in Exchanges : Entered(exchange[i]) =>
          LET x == exchange[i].principal IN
          /\ x.user \in Keys /\ x.tier \in Path!Tiers /\ lastHeld'[x.user][x.tier] >= 0
    BY <1>6, <2>1
  <2> QED
    BY <2>2 DEF PathInv, Requested, Registered, Entered, Fine, Public, Working, Answered,
       Path!Principal, Path!Tiers
<1>9. Issued'
  <2>1. \A x \in issued : x.exp - Expiry \in Int
    BY <1>1 DEF PathInv, Issued, Path!Token
  <2>2. \A x \in issued : Registered(x, x.exp - Expiry)
    BY DEF PathInv, Issued
  <2>3. \A x \in issued :
          /\ x.user \in Keys /\ x.tier \in Path!Tiers
          /\ lastHeld'[x.user][x.tier] >= x.exp - Expiry
    BY <1>6, <2>1, <2>2
  <2> QED
    BY <2>3 DEF PathInv, Issued, Registered, Path!Tiers, Path!Token
<1>10. Books'
  <2>1. \A k \in Keys, t \in Path!Tiers :
          left[t][k] <= PerMinute[t] /\ (left[t][k] < PerMinute[t] => lastHeld'[k][t] >= 0)
    BY <1>5 DEF PathInv, Books
  <2> QED
    BY <2>1 DEF PathInv, Books, Removed, Path!Tiers
<1>11. Gauge' /\ TokensAreBounded' /\ ~Admitted
  BY DEF PathInv, Gauge, Busy, TokensAreBounded, Admitted
<1> QED
  BY <1>7, <1>8, <1>9, <1>10, <1>11 DEF PathInv

LEMMA SurroundingsKeepPath ==
  ASSUME Path!RequestAssumption, PathInv, Path!Tick \/ Path!Reconfigure
  PROVE  PathInv' /\ ~Admitted
<1>1. /\ clock \in 0 .. MaxMinutes /\ MaxMinutes \in Nat
      /\ configured \in [Keys -> Path!Tiers \cup {None}]
  BY PathConstants DEF PathInv, History
<1>2. CASE Path!Tick
  <2>1. clock + 1 \in 0 .. MaxMinutes /\ clock <= clock + 1
    BY <1>1, <1>2 DEF Path!Tick
  <2> QED
    BY <1>1, <1>2, <2>1, HistoryGrows DEF Path!Tick
<1>3. CASE Path!Reconfigure
  <2>1. configured' \in [Keys -> Path!Tiers \cup {None}]
    BY <1>3 DEF Path!Reconfigure
  <2>2. clock <= clock
    BY <1>1
  <2> QED
    BY <1>1, <1>3, <2>1, <2>2, HistoryGrows DEF Path!Reconfigure
<1> QED
  BY <1>2, <1>3

LEMMA PathInitOK ==
  ASSUME Path!RequestAssumption, Path!Init
  PROVE  PathInv
<1>1. /\ PerMinute \in [Path!Tiers -> Nat] /\ MaxMinutes \in Nat /\ MaxTokens \in Nat
      /\ None \notin Path!Tiers
  BY PathConstants
<1>2. /\ Path!Never \in Int /\ Path!Never <= 0 /\ 0 \in Path!Never .. MaxMinutes
      /\ Path!Never \in Path!Never .. MaxMinutes
  BY <1>1 DEF Path!Never
<1>3. \A k \in Keys, t \in Path!Tiers :
        lastHeld[k][t] = IF configured[k] = t THEN 0 ELSE Path!Never
  BY DEF Path!Init, Path!HeldBy
<1>4. lastHeld \in [Keys -> [Path!Tiers -> Path!Never .. MaxMinutes]]
  BY <1>2 DEF Path!Init, Path!HeldBy
<1>5. History
  BY <1>1, <1>2, <1>3, <1>4 DEF Path!Init, History
<1>6. \A i \in Exchanges : exchange[i] = Path!Idle
  BY DEF Path!Init
<1>7. Requested
  <2>1. ~Entered(Path!Idle)
    BY DEF Path!Idle, Entered
  <2> QED
    BY <1>6, <2>1 DEF Path!Init, Requested
<1>8. Gauge
  <2>1. Busy = {}
    BY <1>6 DEF Busy
  <2> QED
    BY <2>1, FS_EmptySet DEF Gauge, Path!Init
<1>9. Issued /\ TokensAreBounded
  BY <1>1, FS_EmptySet DEF Path!Init, Issued, TokensAreBounded
<1>10. Books
  <2>1. left \in [Path!Tiers -> [Keys -> Nat]] /\ taken \in [Keys -> Nat]
    BY <1>1 DEF Path!Init, Path!Full
  <2>2. \A k \in Keys, t \in Path!Tiers : left[t][k] = PerMinute[t]
    BY DEF Path!Init, Path!Full
  <2>3. \A k \in Keys : taken[k] = 0
    BY DEF Path!Init
  <2>4. \A k \in Keys : Cardinality(Removed(k)) \in Nat
    BY RemovedIsFinite
  <2> QED
    BY <1>1, <2>1, <2>2, <2>3, <2>4 DEF Books
<1> QED
  BY <1>5, <1>7, <1>8, <1>9, <1>10 DEF PathInv

(* A step keeps the invariant, and lets in who may come in.                *)
LetIn ==
  \A e \in Exchanges :
    (exchange[e].pc = "idle" /\ exchange'[e].pc = "limit") =>
      LET p == exchange'[e].principal IN
      lastHeld[p.user][p.tier] >= clock - (IF p.method = "jwt" THEN Expiry - 1 ELSE 0)

LEMMA PathNextKeeps ==
  ASSUME Path!RequestAssumption, PathInv, [Path!Next]_(Path!vars)
  PROVE  PathInv' /\ LetIn
<1>1. CASE UNCHANGED Path!vars
  <2>1. PathInv'
    BY <1>1, Elsewhere DEF Path!vars, PathInv, Requested, Registered, History, Gauge, Busy,
       Entered, Fine, Public, Working, Answered, Path!Principal, Path!Tiers
  <2>2. LetIn
    BY <1>1 DEF Path!vars, LetIn
  <2> QED
    BY <2>1, <2>2
<1>2. ASSUME ~Admitted PROVE LetIn
  BY <1>2 DEF Admitted, LetIn
<1>3. CASE Path!Tick \/ Path!Reconfigure
  BY <1>2, <1>3, SurroundingsKeepPath
<1>4. ASSUME NEW e \in Exchanges,
             \/ Path!Receive(e) \/ Path!Limit(e) \/ Path!MalformedBody(e) \/ Path!Unknown(e)
             \/ Path!liveness(e) \/ Path!IssueToken(e) \/ Path!get_model(e)
             \/ Path!ReloadRegistry(e) \/ Path!SubmitBatch(e) \/ Path!classify(e)
             \/ Path!classify_upload(e) \/ Path!detect(e) \/ Path!detect_upload(e)
             \/ Path!search_upload(e) \/ Path!Predict(e) \/ Path!embed(e) \/ Path!Query(e)
             \/ Path!Complete(e)
      PROVE  PathInv' /\ LetIn
  <2>1. CASE Path!Receive(e)
    BY <2>1, ReceiveKeeps DEF LetIn, Admissible
  <2>2. CASE Path!Limit(e)
    BY <1>2, <2>2, LimitKeeps
  <2>3. CASE \/ Path!MalformedBody(e) \/ Path!Unknown(e) \/ Path!liveness(e)
             \/ Path!get_model(e) \/ Path!ReloadRegistry(e) \/ Path!Query(e)
    BY <1>2, <2>3, PlainRoutesKeep
  <2>4. CASE Path!IssueToken(e)
    BY <1>2, <2>4, IssueTokenKeeps
  <2>5. CASE Path!SubmitBatch(e)
    BY <1>2, <2>5, SubmitBatchKeeps
  <2>6. CASE \/ Path!classify(e) \/ Path!classify_upload(e) \/ Path!detect(e)
             \/ Path!detect_upload(e) \/ Path!search_upload(e)
    BY <1>2, <2>6, ImageRoutesKeep
  <2>7. CASE Path!Predict(e) \/ Path!embed(e)
    BY <1>2, <2>7, RunsKeep
  <2>8. CASE Path!Complete(e)
    BY <1>2, <2>8, CompleteKeeps
  <2> QED
    BY <1>4, <2>1, <2>2, <2>3, <2>4, <2>5, <2>6, <2>7, <2>8
<1> QED
  BY <1>1, <1>3, <1>4 DEF Path!Next

LEMMA PathInvHolds ==
  ASSUME Path!RequestAssumption
  PROVE  Path!Spec => []PathInv
<1>1. Path!Init => PathInv
  BY PathInitOK
<1>2. PathInv /\ [Path!Next]_(Path!vars) => PathInv'
  BY PathNextKeeps
<1> QED
  BY <1>1, <1>2, PTL DEF Path!Spec

(* A request, the keys, the buckets, the tokens and the gauge stay what    *)
(* they are; the gauge never counts more requests than there are           *)
(* (monitoring.py, auth.py, rate_limit.py).                                *)
THEOREM PathIsTyped ==
  ASSUME Path!RequestAssumption
  PROVE  Path!Spec => []Path!TypeOK
<1>1. PathInv => Path!TypeOK
  <2> SUFFICES ASSUME PathInv PROVE Path!TypeOK
    OBVIOUS
  <2>1. ASSUME NEW e \in Exchanges
        PROVE  \/ exchange[e] = Path!Idle
               \/ exchange[e] \in [pc : {"limit", "route"}, route : Path!Routes,
                                   principal : Path!Principal]
               \/ exchange[e] \in [pc : {"route"}, route : {"live", "token"},
                                   principal : {None}]
               \/ exchange[e] \in [pc : {"run"}, search : BOOLEAN, loads : BOOLEAN]
               \/ exchange[e] \in [pc : {"query"}]
               \/ exchange[e] \in [pc : {"answered"}, status : 200 .. 504,
                                   blame : {"nobody", "caller", "server", "odd"}]
    <3>1. exchange[e] = Path!Idle \/ Fine(exchange[e])
      BY DEF PathInv, Requested
    <3> QED
      BY <3>1 DEF Fine, Entered, Public, Working, Answered, Blamed
  <2>2. left \in [Path!Tiers -> [Keys -> Int]] /\ taken \in [Keys -> Nat]
    BY DEF PathInv, Books
  <2>3. issued \subseteq Path!Token /\ Path!Cardinality(issued) <= MaxTokens
    BY SameCardinalityHere DEF PathInv, Issued, TokensAreBounded
  <2>4. inProgress \in 0 .. Path!Cardinality(Exchanges)
    BY BusyIsFinite, SameCardinalityHere DEF PathInv, Gauge
  <2>5. /\ configured \in [Keys -> Path!Tiers \cup {None}] /\ clock \in 0 .. MaxMinutes
        /\ lastHeld \in [Keys -> [Path!Tiers -> Path!Never .. MaxMinutes]]
    BY DEF PathInv, History
  <2> QED
    BY <2>1, <2>2, <2>3, <2>4, <2>5 DEF Path!TypeOK
<1> QED
  BY <1>1, PathInvHolds, PTL

(* A key and all the tokens it was traded for spend no more than the full  *)
(* buckets of the tiers the key has had (routers/auth.py, rate_limit.py):  *)
(* what is gone from the buckets is at least what was taken.               *)
THEOREM OneAllowanceForAll ==
  ASSUME Path!RequestAssumption
  PROVE  Path!Spec => []OneAllowance
<1>1. PathInv => OneAllowance
  <2> SUFFICES ASSUME PathInv, NEW k \in Keys
               PROVE  taken[k] <= Path!Cardinality(
                        Path!Held({t \in Path!Tiers : lastHeld[k][t] # Path!Never}))
    BY DEF OneAllowance, Path!OneAllowance
  <2> DEFINE T == {t \in Path!Tiers : lastHeld[k][t] # Path!Never}
  <2>1. MaxMinutes \in Nat /\ PerMinute \in [Path!Tiers -> Nat]
    BY PathConstants
  <2>2. Removed(k) \subseteq Path!Held(T)
    <3> SUFFICES ASSUME NEW x \in Removed(k) PROVE x \in Path!Held(T)
      OBVIOUS
    <3>1. PICK t \in Path!Tiers : x \in {t} \X (1 .. PerMinute[t])
      BY DEF Removed, Path!Held
    <3>2. x[1] = t /\ x[2] \in 1 .. PerMinute[t] /\ x[2] > left[t][k]
      BY <3>1 DEF Removed
    <3>3. left[t][k] < PerMinute[t]
      BY <2>1, <3>2 DEF PathInv, Books
    <3>4. lastHeld[k][t] >= 0
      BY <3>3 DEF PathInv, Books
    <3>5. t \in T
      BY <2>1, <3>4 DEF Path!Never
    <3> QED
      BY <3>1, <3>5 DEF Path!Held
  <2> HIDE DEF T
  <2>3. IsFiniteSet(Path!Held(T))
    BY FullIsFinite DEF T
  <2>4. Removed(k) \in SUBSET Path!Held(T)
    BY <2>2
  <2>5. Cardinality(Removed(k)) <= Cardinality(Path!Held(T))
    BY ONLY <2>3, <2>4, FS_Subset
  <2>6. /\ Cardinality(Removed(k)) \in Nat /\ Cardinality(Path!Held(T)) \in Nat
        /\ taken[k] \in Nat /\ taken[k] <= Cardinality(Removed(k))
    BY <2>3, RemovedIsFinite, FS_CardinalityType DEF PathInv, Books
  <2>7. Path!Cardinality(Path!Held(T)) = Cardinality(Path!Held(T))
    BY SameCardinalityHere
  <2> QED
    BY <2>5, <2>6, <2>7 DEF T
<1> QED
  BY <1>1, PathInvHolds, PTL

(* Who is let in with a key has it configured now, and who is let in with  *)
(* a token had its key configured less than the life of a token ago        *)
(* (auth.py): removing a key ends its access within jwt_expiry_minutes.    *)
THEOREM AccessEndsWithTheKey ==
  ASSUME Path!RequestAssumption
  PROVE  Path!Spec => AccessEnds
<1>1. PathInv /\ [Path!Next]_(Path!vars) => LetIn
  BY PathNextKeeps
<1> QED
  BY <1>1, PathInvHolds, PTL DEF Path!Spec, AccessEnds, Path!AccessEnds, LetIn

(* The class of an answer's status says whose fault it is (exceptions.py), *)
(* whatever way the image came and whatever is wrong with it.              *)
THEOREM StatusTellsTheTruth ==
  ASSUME Path!RequestAssumption
  PROVE  Path!Spec => []StatusTellsTheFault
<1>1. PathInv => StatusTellsTheFault
  <2> SUFFICES ASSUME PathInv, NEW e \in Exchanges, exchange[e].pc = "answered"
               PROVE  Fits(exchange[e])
    BY DEF StatusTellsTheFault, Path!StatusTellsTheFault, Fits
  <2>1. exchange[e] # Path!Idle
    BY DEF Path!Idle
  <2>2. Fine(exchange[e])
    BY <2>1 DEF PathInv, Requested
  <2>3. Answered(exchange[e])
    BY <2>2, Exclusive DEF Fine
  <2> QED
    BY <2>3 DEF Answered
<1> QED
  BY <1>1, PathInvHolds, PTL

-----------------------------------------------------------------------------
(* The letterbox of an image, and what MCRequestPath asks of it.           *)

(* Python's round() is no further than half from what it rounds.           *)
LEMMA RoundedIsNear ==
  ASSUME NEW p \in Int, NEW q \in Nat \ {0}
  PROVE  /\ Boxes!Rounded(p, q) \in Int
         /\ 2 * (q * Boxes!Rounded(p, q)) <= 2 * p + q
         /\ 2 * p - q <= 2 * (q * Boxes!Rounded(p, q))
<1> DEFINE below == p \div q
           rest == p % q
<1>1. below \in Int /\ rest \in 0 .. q - 1 /\ p = q * below + rest
  BY SMT
<1>2. q * (below + 1) = q * below + q
  BY <1>1, SMT
<1>3. Boxes!Rounded(p, q) = IF 2 * rest > q \/ (2 * rest = q /\ below % 2 = 1)
                              THEN below + 1 ELSE below
  BY DEF Boxes!Rounded
<1> DEFINE product == q * below
<1> HIDE DEF below, rest
<1>4. product \in Int /\ p = product + rest /\ q * (below + 1) = product + q
  BY <1>1, <1>2, SMT
<1>5. CASE Boxes!Rounded(p, q) = below
  <2>1. 2 * rest <= q
    BY <1>1, <1>3, <1>5, SMT
  <2>2. q * Boxes!Rounded(p, q) = product
    BY <1>5
  <2> QED
    BY <1>1, <1>4, <1>5, <2>1, <2>2, SMT DEF product
<1>6. CASE Boxes!Rounded(p, q) = below + 1
  <2>1. 2 * rest >= q
    BY <1>1, <1>3, <1>6, SMT
  <2>2. q * Boxes!Rounded(p, q) = product + q
    BY <1>4, <1>6
  <2> HIDE DEF product
  <2> QED
    BY <1>1, <1>4, <1>6, <2>1, <2>2, SMT
<1> QED
  BY <1>3, <1>5, <1>6

(* Whatever the size of the image and of the model's input, the edges of   *)
(* the image in that input come back to within a pixel of it               *)
(* (image_processing.py).                                                  *)
THEOREM EdgesAlwaysComeHome ==
  ASSUME NEW length \in Nat, NEW longer \in Nat \ {0}, NEW side \in Nat
  PROVE  Boxes!EdgesComeHome(length, longer, side)
<1> DEFINE scaled == Boxes!Scaled(length, longer, side)
           off == 2 * Boxes!PastedAt(scaled, side) - Boxes!TwicePad(scaled, side)
           area == length * side
           whole == longer * scaled
<1>1. scaled \in Int /\ 2 * area - longer <= 2 * whole
  BY RoundedIsNear, area \in Int DEF Boxes!Scaled
<1>2. off \in -1 .. 1
  <2> DEFINE pad == Boxes!TwicePad(scaled, side)
             pasted == Boxes!PastedAt(scaled, side)
  <2>1. pad \in Int
    BY <1>1 DEF Boxes!TwicePad
  <2>2. pasted \in Int /\ 2 * (2 * pasted) <= 2 * pad + 2 /\ 2 * pad - 2 <= 2 * (2 * pasted)
    <3> HIDE DEF scaled
    <3> QED
      BY <2>1, RoundedIsNear, 2 \in Nat \ {0} DEF Boxes!PastedAt
  <2> HIDE DEF pad, pasted
  <2>3. 2 * pasted - pad \in -1 .. 1
    BY <2>1, <2>2
  <2> QED
    BY <2>3 DEF pad, pasted
<1> HIDE DEF scaled, off
<1>3. /\ off * longer <= longer
      /\ (off + 2 * scaled) * longer = off * longer + 2 * whole
      /\ off * longer >= -longer
      /\ off * longer \in Int /\ area \in Int /\ whole \in Int
      /\ length * 2 * side = 2 * area /\ 2 * side * length = 2 * area
  BY <1>1, <1>2
<1> DEFINE first == Boxes!Unscaled(2 * Boxes!PastedAt(scaled, side), length, longer, side)
           last == Boxes!Unscaled(2 * (Boxes!PastedAt(scaled, side) + scaled), length, longer, side)
<1>4. first = Boxes!Most(0, Boxes!Least(2 * area, off * longer))
  BY <1>3 DEF Boxes!Unscaled, off, scaled
<1>5. last = Boxes!Most(0, Boxes!Least(2 * area, (off + 2 * scaled) * longer))
  <2>1. Boxes!PastedAt(scaled, side) \in Int /\ Boxes!TwicePad(scaled, side) \in Int
    BY <1>1, RoundedIsNear, 2 \in Nat \ {0} DEF Boxes!PastedAt, Boxes!TwicePad
  <2>2. 2 * (Boxes!PastedAt(scaled, side) + scaled) - Boxes!TwicePad(scaled, side)
          = off + 2 * scaled
    BY <1>1, <2>1 DEF off
  <2> QED
    BY <1>3, <2>2 DEF Boxes!Unscaled, scaled
<1> HIDE DEF area, whole, first, last
<1>6. first <= 2 * longer
  BY <1>3, <1>4 DEF Boxes!Most, Boxes!Least
<1>7. last >= 2 * area - 2 * longer
  BY <1>1, <1>3, <1>5 DEF Boxes!Most, Boxes!Least
<1> QED
  BY <1>3, <1>6, <1>7 DEF Boxes!EdgesComeHome, first, last, scaled

(* So the letterbox MCRequestPath asks about, whatever its parts do.       *)
THEOREM BoxesStayHome == MCSpec => []BoxesComeHome
<1> DEFINE Asked == output \in {NoOutput} \cup Detected \cup Boxed
<1>1. MCInit => Asked
  BY DEF MCInit
<1>2. Asked /\ [MCNext]_<<vars, pathVars, output>> => Asked'
  BY DEF MCNext, Ask
<1>3. Asked => BoxesComeHome
  <2> SUFFICES ASSUME Asked, output.tool = "letterbox"
               PROVE  Boxes!EdgesComeHome(output.length, output.longer, output.side)
    BY DEF BoxesComeHome
  <2>1. output \in Boxed
    BY DEF NoOutput, Detected
  <2>2. output.length \in Nat /\ output.longer \in Nat \ {0} /\ output.side \in Nat
    BY <2>1 DEF Boxed
  <2> QED
    BY <2>2, EdgesAlwaysComeHome
<1> QED
  BY <1>1, <1>2, <1>3, PTL DEF MCSpec
=============================================================================
