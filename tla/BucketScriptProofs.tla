---- MODULE BucketScriptProofs ----
(***************************************************************************)
(* Facts about the bucket script for every capacity, rate, resolution and  *)
(* time to live.                                                           *)
(***************************************************************************)
EXTENDS BucketScript, TLAPS

\* A stored hash whose expiry was set together with its timestamp.
Stamped(b) == b.exists => b.expires = b.last_refill + Life

LEMMA ConstantTypes ==
    /\ Full \in Nat \ {0}
    /\ Life \in Nat \ {0}
    /\ Rate * Scale \in Nat \ {0}
BY BucketAssumption, SMT DEF Full, Life

\* Products keep the order, which the SMT backend does not find by itself.
LEMMA ProductMonotone ==
    ASSUME NEW a \in Int, NEW b \in Int, a <= b
    PROVE  /\ a * Rate \in Int /\ b * Rate \in Int
           /\ a * Rate <= b * Rate
<1>1. Rate \in Nat
  BY BucketAssumption
<1>2. a * Rate \in Int /\ b * Rate \in Int /\ (b - a) * Rate \in Int
  BY <1>1
<1>3. b * Rate = a * Rate + (b - a) * Rate
  BY <1>1, SMT
<1>4. (b - a) * Rate >= 0
  BY <1>1, b - a \in Nat, SMT
<1> QED
  BY <1>2, <1>3, <1>4

LEMMA ProductStep ==
    ASSUME NEW a \in Int
    PROVE  (a + 1) * Rate = a * Rate + Rate
BY BucketAssumption, SMT

\* An idle life of the key is enough to refill the bucket.
LEMMA LifeRefills == Life * Rate >= Full
<1>1. BucketTTL * Rate \in Nat /\ Scale \in Nat /\ Capacity \in Nat
  BY BucketAssumption
<1>2. Life * Rate = (BucketTTL * Rate) * Scale
  BY BucketAssumption, SMT DEF Life
<1>3. (BucketTTL * Rate) * Scale >= Capacity * Scale
  BY <1>1, TTLCoversRefill, SMT
<1> QED
  BY <1>2, <1>3 DEF Full

\* The refill without the defaults: the forms the two cases take.
LEMMA RefilledLive ==
    ASSUME NEW b \in BucketHash, NEW now \in Nat, Live(b, now)
    PROVE  Refilled(b, now)
             = Smaller(Full, b.tokens + Larger(0, now - b.last_refill) * Rate)
BY DEF Refilled

LEMMA RefilledIdle ==
    ASSUME NEW b \in BucketHash, NEW now \in Nat, ~Live(b, now)
    PROVE  Refilled(b, now) = Full
<1>1. Refilled(b, now) = Smaller(Full, Full + Larger(0, now - now) * Rate)
  BY DEF Refilled
<1>2. Larger(0, now - now) = 0
  BY DEF Larger
<1> QED
  BY <1>1, <1>2, ConstantTypes, BucketAssumption, SMT DEF Smaller

LEMMA RefilledType ==
    ASSUME NEW b \in BucketHash, NEW now \in Nat
    PROVE  Refilled(b, now) \in 0..Full
<1>1. CASE Live(b, now)
  <2> DEFINE e == Larger(0, now - b.last_refill)
  <2>1. e \in Nat
    BY DEF Larger, BucketHash
  <2>2. e * Rate \in Nat
    BY <2>1, BucketAssumption, SMT
  <2> QED
    BY <1>1, <2>2, RefilledLive, ConstantTypes, SMT DEF Smaller, BucketHash
<1>2. CASE ~Live(b, now)
  BY <1>2, RefilledIdle, ConstantTypes, SMT
<1> QED
  BY <1>1, <1>2

\* A tick adds at most Rate grains, even when it makes the key expire.
LEMMA TickAdds ==
    ASSUME NEW b \in BucketHash, NEW now \in Nat, Stamped(b)
    PROVE  Refilled(b, now + 1) <= Refilled(b, now) + Rate
<1> DEFINE e == Larger(0, now - b.last_refill)
           f == Larger(0, (now + 1) - b.last_refill)
<1>1. e \in Nat /\ f \in Nat /\ f <= e + 1
  BY SMT DEF Larger, BucketHash
<1>2. f * Rate <= e * Rate + Rate /\ f * Rate \in Int /\ e * Rate \in Int
  BY <1>1, ProductMonotone, ProductStep, BucketAssumption
<1>3. Rate \in Nat /\ Full \in Nat /\ b.tokens \in 0..Full
  BY BucketAssumption, ConstantTypes DEF BucketHash
<1>4. CASE Live(b, now + 1)
  <2>1. Live(b, now)
    BY <1>4, SMT DEF Live, BucketHash
  <2>2. Refilled(b, now + 1) = Smaller(Full, b.tokens + f * Rate)
    BY <1>4, RefilledLive
  <2>3. Refilled(b, now) = Smaller(Full, b.tokens + e * Rate)
    BY <2>1, RefilledLive
  <2> QED
    BY <1>2, <1>3, <2>2, <2>3, SMT DEF Smaller
<1>5. CASE ~Live(b, now + 1) /\ Live(b, now)
  <2>1. f >= Life
    BY <1>5, ConstantTypes, SMT DEF Live, Stamped, BucketHash, Larger
  <2>2. f * Rate >= Full
    <3>1. Life * Rate <= f * Rate /\ Life * Rate \in Int
      BY <1>1, <2>1, ProductMonotone, ConstantTypes
    <3> QED
      BY <3>1, <1>2, <1>3, LifeRefills
  <2>3. Refilled(b, now + 1) = Full
    BY <1>5, RefilledIdle
  <2>4. Refilled(b, now) = Smaller(Full, b.tokens + e * Rate)
    BY <1>5, RefilledLive
  <2> QED
    BY <1>2, <1>3, <2>2, <2>3, <2>4, SMT DEF Smaller
<1>6. CASE ~Live(b, now + 1) /\ ~Live(b, now)
  BY <1>3, <1>6, RefilledIdle, SMT
<1> QED
  BY <1>4, <1>5, <1>6

\* While the clock has not been set back behind the timestamp a tick adds
\* exactly Rate grains, up to the burst.
LEMMA TickRefills ==
    ASSUME NEW b \in BucketHash, NEW now \in Nat, Stamped(b),
           b.exists => b.last_refill <= now
    PROVE  Refilled(b, now + 1) = Smaller(Full, Refilled(b, now) + Rate)
<1> DEFINE e == Larger(0, now - b.last_refill)
           f == Larger(0, (now + 1) - b.last_refill)
<1>3. Rate \in Nat /\ Full \in Nat /\ b.tokens \in 0..Full
  BY BucketAssumption, ConstantTypes DEF BucketHash
<1>4. CASE ~b.exists
  <2>1. Refilled(b, now + 1) = Full /\ Refilled(b, now) = Full
    BY <1>4, RefilledIdle DEF Live
  <2> QED
    BY <1>3, <2>1, SMT DEF Smaller
<1>5. CASE b.exists
  <2>1. e \in Nat /\ f = e + 1
    BY <1>5, SMT DEF Larger, BucketHash
  <2>2. f * Rate = e * Rate + Rate /\ e * Rate \in Nat
    BY <2>1, ProductStep, BucketAssumption, SMT
  <2>3. CASE Live(b, now + 1)
    <3>1. Live(b, now)
      BY <2>3, SMT DEF Live, BucketHash
    <3>2. Refilled(b, now + 1) = Smaller(Full, b.tokens + f * Rate)
      BY <2>3, RefilledLive
    <3>3. Refilled(b, now) = Smaller(Full, b.tokens + e * Rate)
      BY <3>1, RefilledLive
    <3> QED
      BY <1>3, <2>2, <3>2, <3>3, SMT DEF Smaller
  <2>4. CASE ~Live(b, now + 1)
    <3>1. Refilled(b, now + 1) = Full
      BY <2>4, RefilledIdle
    <3>2. Refilled(b, now + 1) <= Refilled(b, now) + Rate
      BY TickAdds
    <3> QED
      BY <1>3, <3>1, <3>2, RefilledType, SMT DEF Smaller
  <2> QED
    BY <2>3, <2>4
<1> QED
  BY <1>4, <1>5

\* Setting the clock back never gives tokens.
LEMMA BackTakes ==
    ASSUME NEW b \in BucketHash, NEW now \in Nat, NEW was \in Nat, now <= was
    PROVE  Refilled(b, now) <= Refilled(b, was)
<1> DEFINE e == Larger(0, now - b.last_refill)
           f == Larger(0, was - b.last_refill)
<1>1. e \in Nat /\ f \in Nat /\ e <= f
  BY SMT DEF Larger, BucketHash
<1>2. e * Rate <= f * Rate /\ e * Rate \in Int /\ f * Rate \in Int
  BY <1>1, ProductMonotone
<1>3. Full \in Nat /\ b.tokens \in 0..Full
  BY ConstantTypes DEF BucketHash
<1>4. CASE Live(b, was)
  <2>1. Live(b, now)
    BY <1>4, SMT DEF Live, BucketHash
  <2>2. Refilled(b, was) = Smaller(Full, b.tokens + f * Rate)
    BY <1>4, RefilledLive
  <2>3. Refilled(b, now) = Smaller(Full, b.tokens + e * Rate)
    BY <2>1, RefilledLive
  <2> QED
    BY <1>2, <1>3, <2>2, <2>3, SMT DEF Smaller
<1>5. CASE ~Live(b, was)
  <2>1. Refilled(b, was) = Full
    BY <1>5, RefilledIdle
  <2> QED
    BY <1>3, <2>1, RefilledType, SMT
<1> QED
  BY <1>4, <1>5

\* What was written is what is read at the same instant.
LEMMA WrittenIsRead ==
    ASSUME NEW b, NEW now \in Nat, NEW tokens \in 0..Full
    PROVE  /\ Written(b, tokens, now) \in BucketHash
           /\ Stamped(Written(b, tokens, now))
           /\ Refilled(Written(b, tokens, now), now) = tokens
<1> DEFINE w == Written(b, tokens, now)
<1>1. w \in BucketHash
  BY ConstantTypes, SMT DEF Written, BucketHash
<1>2. w.exists /\ w.tokens = tokens /\ w.last_refill = now /\ w.expires = now + Life
  BY DEF Written
<1>3. Live(w, now)
  BY <1>2, ConstantTypes, SMT DEF Live
<1>4. Refilled(w, now) = Smaller(Full, tokens + Larger(0, now - now) * Rate)
  BY <1>1, <1>2, <1>3, RefilledLive
<1>5. Larger(0, now - now) = 0
  BY DEF Larger
<1>6. Refilled(w, now) = tokens
  BY <1>4, <1>5, BucketAssumption, ConstantTypes, SMT DEF Smaller
<1> QED
  BY <1>1, <1>2, <1>6 DEF Stamped

\* The script conserves tokens: what it leaves and what it hands out is what it
\* found, it hands out the cost or nothing, and never more than it found.
LEMMA ScriptConserves ==
    ASSUME NEW b \in BucketHash, NEW now \in Nat, NEW cost \in Nat
    PROVE  LET s == Script(b, now, cost)
               found == Refilled(b, now)
           IN  /\ s.allowed \in BOOLEAN
               /\ s.tokens \in 0..Full
               /\ s.allowed <=> found >= cost * Scale
               /\ s.tokens = IF s.allowed THEN found - cost * Scale ELSE found
               /\ s.deficit = IF s.allowed THEN 0 ELSE cost * Scale - found
               /\ s.bucket = Written(b, s.tokens, now)
               /\ s.bucket \in BucketHash
               /\ Stamped(s.bucket)
               /\ Refilled(s.bucket, now) = s.tokens
<1> DEFINE s == Script(b, now, cost)
           found == Refilled(b, now)
<1>1. cost * Scale \in Nat
  BY BucketAssumption, SMT
<1>2. found \in 0..Full
  BY RefilledType
<1>3. /\ s.allowed \in BOOLEAN
      /\ s.allowed <=> found >= cost * Scale
      /\ s.tokens = IF s.allowed THEN found - cost * Scale ELSE found
      /\ s.deficit = IF s.allowed THEN 0 ELSE cost * Scale - found
      /\ s.bucket = Written(b, s.tokens, now)
  <2> DEFINE ok == found >= cost * Scale
  <2>1. /\ s.allowed = ok
        /\ s.tokens = IF ok THEN found - cost * Scale ELSE found
        /\ s.deficit = IF ok THEN 0 ELSE cost * Scale - found
        /\ s.bucket = Written(b, IF ok THEN found - cost * Scale ELSE found, now)
    BY Zenon DEF Script
  <2>2. ok \in BOOLEAN
    OBVIOUS
  <2> HIDE DEF s, ok
  <2>3. s.allowed \in BOOLEAN /\ (s.allowed <=> ok)
    BY <2>1, <2>2, Zenon
  <2>4. s.bucket = Written(b, s.tokens, now)
    BY <2>1, Zenon
  <2>5. /\ s.tokens = IF s.allowed THEN found - cost * Scale ELSE found
        /\ s.deficit = IF s.allowed THEN 0 ELSE cost * Scale - found
    BY <2>1, <2>3, Zenon
  <2> QED
    BY <2>3, <2>4, <2>5 DEF ok
<1>4. s.tokens \in 0..Full
  BY <1>1, <1>2, <1>3, ConstantTypes, SMT
<1> QED
  BY <1>3, <1>4, WrittenIsRead

\* Waiting as long as the Retry-After header says refills the missing tokens.
LEMMA HeaderCovers ==
    ASSUME NEW deficit \in Nat
    PROVE  /\ RetryAfterHeader(deficit) \in Nat
           /\ (RetryAfterHeader(deficit) * Scale) * Rate >= deficit
<1> DEFINE second == Rate * Scale
           q == (deficit + second - 1) \div second
           h == RetryAfterHeader(deficit)
<1>1. second \in Nat \ {0}
  BY ConstantTypes
<1>2. q \in Nat /\ q * second >= deficit
  <2>1. \A x \in Nat, n \in Nat \ {0} :
          /\ x \div n \in Int
          /\ n * (x \div n) + (x % n) = x
          /\ x % n \in 0..(n - 1)
    BY Z3
  <2>2. deficit + second - 1 \in Nat
    BY <1>1, SMT
  <2> HIDE DEF second
  <2>3. /\ q \in Int
        /\ second * q + ((deficit + second - 1) % second) = deficit + second - 1
        /\ (deficit + second - 1) % second \in 0..(second - 1)
    BY <1>1, <2>1, <2>2
  <2> HIDE DEF q
  <2>4. second * q >= deficit
    BY <1>1, <2>3, SMT
  <2>5. second * q = q * second
    BY <1>1, <2>3, SMT
  <2>6. q >= 0
    BY <1>1, <2>3, <2>4, SMT
  <2> QED
    BY <2>3, <2>4, <2>5, <2>6
<1>3. h = Larger(1, q)
  BY DEF RetryAfterHeader
<1> HIDE DEF q, h
<1>4. h \in Nat /\ h >= q
  BY <1>2, <1>3, SMT DEF Larger
<1>5. h * second >= q * second
  BY <1>1, <1>2, <1>4, SMT
<1>6. (h * Scale) * Rate = h * second
  BY <1>4, BucketAssumption, SMT
<1> QED
  BY <1>1, <1>2, <1>4, <1>5, <1>6, SMT DEF h

\* The header is the least number of whole seconds that covers the deficit: one
\* second less does not.
LEMMA HeaderIsLeast ==
    ASSUME NEW deficit \in Nat \ {0}
    PROVE  /\ RetryAfterHeader(deficit) \in Nat \ {0}
           /\ ((RetryAfterHeader(deficit) - 1) * Scale) * Rate < deficit
<1> DEFINE second == Rate * Scale
           q == (deficit + second - 1) \div second
           h == RetryAfterHeader(deficit)
<1>1. second \in Nat \ {0}
  BY ConstantTypes
<1>2. q \in Nat \ {0} /\ (q - 1) * second < deficit
  <2>1. \A x \in Nat, n \in Nat \ {0} :
          /\ x \div n \in Int
          /\ n * (x \div n) + (x % n) = x
          /\ x % n \in 0..(n - 1)
    BY Z3
  <2>2. deficit + second - 1 \in Nat
    BY <1>1, SMT
  <2> HIDE DEF second
  <2>3. /\ q \in Int
        /\ second * q + ((deficit + second - 1) % second) = deficit + second - 1
        /\ (deficit + second - 1) % second \in 0..(second - 1)
    BY <1>1, <2>1, <2>2
  <2> HIDE DEF q
  <2>4. second * q >= deficit /\ second * q <= deficit + second - 1
    BY <1>1, <2>3, SMT
  <2>5. q > 0
    BY <1>1, <2>3, <2>4, SMT
  <2>6. (q - 1) * second = second * q - second
    BY <1>1, <2>3, SMT
  <2>7. second * q \in Int
    BY <1>1, <2>3
  <2> QED
    BY <1>1, <2>3, <2>4, <2>5, <2>6, <2>7, SMT
<1>3. h = Larger(1, q)
  BY DEF RetryAfterHeader
<1> HIDE DEF q, h
<1>4. h = q
  BY <1>2, <1>3, SMT DEF Larger
<1>5. ((h - 1) * Scale) * Rate = (h - 1) * second
  BY <1>2, <1>4, BucketAssumption, SMT
<1> QED
  BY <1>2, <1>4, <1>5 DEF h
====
