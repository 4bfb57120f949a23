---- MODULE TokenBucketProofs ----
(***************************************************************************)
(* The properties of TokenBucket for every plan, every set of endpoints    *)
(* and every bound: the type invariant, the rate bound, the honesty of     *)
(* Retry-After, and that the bucket implements RateBudget.                 *)
(***************************************************************************)
EXTENDS TokenBucket, BucketScriptProofs

\* What has been granted and what could be granted right now are together
\* within the bound: WindowBound with the level of the bucket put in.
Funded == granted + Refilled(bucket, now) <= Full + advanced * Rate

\* When, by Redis's clock, the client of a promise will have waited the header's seconds
\* and made up for what the clock was set back.
Due == now + promise.wait + promise.owing

\* The tokens of a promise are there or will have been refilled by its due time.
PromiseFunded ==
    promise.cost # 0 =>
        /\ promise.cost <= Capacity
        /\ bucket.exists =>
             promise.cost * Scale
               <= bucket.tokens + Larger(0, Due - bucket.last_refill) * Rate

Ind == TypeOK /\ Stamped(bucket) /\ Funded /\ PromiseFunded

LEMMA EndpointCost ==
    ASSUME NEW e \in Endpoints
    PROVE  /\ Cost[e] \in Nat \ {0} /\ Cost[e] <= Capacity
           /\ Cost[e] * Scale \in Nat /\ Cost[e] * Scale <= Full
<1>1. Cost[e] \in Nat \ {0} /\ Cost[e] <= Capacity
  BY CostAssumption
<1> QED
  BY <1>1, BucketAssumption, SMT DEF Full

LEMMA MissingBucket ==
    ASSUME NEW t \in Nat
    PROVE  Missing \in BucketHash /\ Stamped(Missing) /\ Refilled(Missing, t) = Full
<1>1. Missing \in BucketHash /\ ~Missing.exists
  BY ConstantTypes, SMT DEF Missing, BucketHash
<1> QED
  BY <1>1, RefilledIdle DEF Stamped, Live

LEMMA IndInit == Init => Ind
<1> SUFFICES ASSUME Init PROVE Ind
  OBVIOUS
<1> USE DEF Init
<1>1. TypeOK
  BY MissingBucket, ConstantTypes, SMT DEF TypeOK, NoPromise
<1>2. Stamped(bucket) /\ Refilled(bucket, now) = Full
  BY MissingBucket
<1>3. Funded
  BY <1>2, BucketAssumption, ConstantTypes, SMT DEF Funded
<1>4. PromiseFunded
  BY DEF PromiseFunded, NoPromise
<1> QED
  BY <1>1, <1>2, <1>3, <1>4 DEF Ind

\* One EVAL, with the facts every proof about it starts from.
LEMMA ConsumeFacts ==
    ASSUME TypeOK, NEW e \in Endpoints, Consume(e)
    PROVE  LET s == Script(bucket, now, Cost[e])
               found == Refilled(bucket, now)
               price == Cost[e] * Scale
           IN  /\ s.allowed \in BOOLEAN
               /\ s.allowed <=> found >= price
               /\ s.tokens = IF s.allowed THEN found - price ELSE found
               /\ s.tokens \in 0..Full
               /\ s.deficit = IF s.allowed THEN 0 ELSE price - found
               /\ bucket' = Written(bucket, s.tokens, now)
               /\ bucket' \in BucketHash
               /\ Stamped(bucket')
               /\ Refilled(bucket', now) = s.tokens
               /\ reply' = [cost |-> price, allowed |-> s.allowed, left |-> s.tokens]
               /\ granted' = IF s.allowed THEN granted + price ELSE granted
               /\ now' = now /\ advanced' = advanced
<1> DEFINE s == Script(bucket, now, Cost[e])
<1>1. bucket \in BucketHash /\ now \in Nat /\ Cost[e] \in Nat
  BY EndpointCost DEF TypeOK
<1>2. /\ bucket' = s.bucket
      /\ reply' = [cost |-> Cost[e] * Scale, allowed |-> s.allowed, left |-> s.tokens]
      /\ granted' = IF s.allowed THEN granted + Cost[e] * Scale ELSE granted
      /\ now' = now /\ advanced' = advanced
  BY DEF Consume
<1> HIDE DEF s
<1>3. /\ s.allowed \in BOOLEAN
      /\ s.tokens \in 0..Full
      /\ s.allowed <=> Refilled(bucket, now) >= Cost[e] * Scale
      /\ s.tokens = IF s.allowed THEN Refilled(bucket, now) - Cost[e] * Scale
                                 ELSE Refilled(bucket, now)
      /\ s.deficit = IF s.allowed THEN 0 ELSE Cost[e] * Scale - Refilled(bucket, now)
      /\ s.bucket = Written(bucket, s.tokens, now)
      /\ s.bucket \in BucketHash
      /\ Stamped(s.bucket)
      /\ Refilled(s.bucket, now) = s.tokens
  BY <1>1, ScriptConserves, Zenon DEF s
<1> QED
  BY <1>2, <1>3, Zenon DEF s

LEMMA ConsumeKeepsType ==
    ASSUME TypeOK, NEW e \in Endpoints, Consume(e)
    PROVE  TypeOK'
<1> DEFINE s == Script(bucket, now, Cost[e])
           header == RetryAfterHeader(s.deficit)
<1>1. /\ s.allowed \in BOOLEAN
      /\ s.allowed <=> Refilled(bucket, now) >= Cost[e] * Scale
      /\ s.tokens \in 0..Full
      /\ s.deficit = IF s.allowed THEN 0 ELSE Cost[e] * Scale - Refilled(bucket, now)
      /\ bucket' \in BucketHash
      /\ reply' = [cost |-> Cost[e] * Scale, allowed |-> s.allowed, left |-> s.tokens]
      /\ granted' = IF s.allowed THEN granted + Cost[e] * Scale ELSE granted
      /\ now' = now /\ advanced' = advanced
  BY ConsumeFacts, Zenon
<1>2. \/ promise' = NoPromise
      \/ ~s.allowed /\ promise' = Promised(Cost[e], header)
      \/ promise' = promise
  BY DEF Consume
<1> HIDE DEF s
<1>3. Cost[e] \in Nat /\ Cost[e] * Scale \in Nat
  BY EndpointCost
<1>4. Refilled(bucket, now) \in 0..Full /\ Full \in Nat
  BY RefilledType, ConstantTypes DEF TypeOK
<1>5. s.deficit \in Nat
  <2>1. CASE s.allowed
    BY <1>1, <2>1
  <2>2. CASE ~s.allowed
    <3>1. s.deficit = Cost[e] * Scale - Refilled(bucket, now)
      BY <1>1, <2>2, Zenon
    <3>2. ~(Refilled(bucket, now) >= Cost[e] * Scale)
      BY <1>1, <2>2, Zenon
    <3> QED
      BY <1>3, <1>4, <3>1, <3>2, SMT
  <2> QED
    BY <1>1, <2>1, <2>2, Zenon
<1>6. header \in Nat
  BY <1>5, HeaderCovers
<1> HIDE DEF header
<1>7. header * Scale \in Nat
  BY <1>6, BucketAssumption, SMT
<1>8. promise' \in [cost : Nat, wait : Nat, owing : Nat, steady : BOOLEAN]
  <2>1. CASE promise' = NoPromise
    BY <2>1, SMT DEF NoPromise
  <2>2. CASE promise' = Promised(Cost[e], header)
    <3>1. TRUE \in BOOLEAN
      OBVIOUS
    <3> QED
      BY <1>3, <1>7, <2>2, <3>1, Zenon DEF Promised
  <2>3. CASE promise' = promise
    BY <2>3, Zenon DEF TypeOK
  <2> QED
    BY <1>2, <2>1, <2>2, <2>3, Zenon
<1>9. granted' \in Nat
  <2>1. granted' = granted \/ granted' = granted + Cost[e] * Scale
    BY <1>1, Zenon
  <2> QED
    BY <1>3, <2>1, SMT DEF TypeOK
<1>10. reply' \in [cost : Nat, allowed : BOOLEAN, left : 0..Full]
  BY <1>1, <1>3, Zenon
<1> QED
  BY <1>1, <1>8, <1>9, <1>10 DEF TypeOK

\* A rejection leaves a promise funded that was, and makes only funded ones.
LEMMA ConsumeKeepsPromise ==
    ASSUME Ind, NEW e \in Endpoints, Consume(e)
    PROVE  PromiseFunded'
<1> DEFINE s == Script(bucket, now, Cost[e])
           header == RetryAfterHeader(s.deficit)
           found == Refilled(bucket, now)
           price == Cost[e] * Scale
<1>1. /\ s.allowed \in BOOLEAN
      /\ s.allowed <=> found >= price
      /\ s.tokens = IF s.allowed THEN found - price ELSE found
      /\ s.deficit = IF s.allowed THEN 0 ELSE price - found
      /\ bucket' = Written(bucket, s.tokens, now)
      /\ now' = now
  BY ConsumeFacts, Zenon DEF Ind
<1>2. \/ promise' = NoPromise
      \/ ~s.allowed /\ promise' = Promised(Cost[e], header)
      \/ ~s.allowed /\ promise' = promise
  BY DEF Consume
<1> HIDE DEF s
<1>3. Cost[e] \in Nat /\ Cost[e] <= Capacity /\ price \in Nat /\ price <= Full
  BY EndpointCost
<1>4. now \in Nat /\ found \in 0..Full /\ Full \in Nat
  BY RefilledType, ConstantTypes DEF Ind, TypeOK
<1>5. CASE promise' = NoPromise
  BY <1>5 DEF PromiseFunded, NoPromise
<1>6. CASE ~s.allowed /\ promise' = Promised(Cost[e], header)
  <2>1. s.deficit = price - found /\ ~(found >= price) /\ s.tokens = found
    BY <1>1, <1>6, Zenon
  <2>2. s.deficit \in Nat
    BY <1>3, <1>4, <2>1, SMT
  <2>3. header \in Nat /\ (header * Scale) * Rate >= s.deficit
    BY <2>2, HeaderCovers
  <2>4. bucket'.tokens = found /\ bucket'.last_refill = now
    BY <1>1, <2>1 DEF Written
  <2>5. promise'.cost = Cost[e] /\ Due' = now + header * Scale
    BY <1>1, <1>4, <1>6, <2>3, BucketAssumption, SMT DEF Due, Promised
  <2> HIDE DEF header, found
  <2>6. header * Scale \in Nat
    BY <2>3, BucketAssumption, SMT
  <2>7. Larger(0, (now + header * Scale) - now) = header * Scale
    BY <1>4, <2>6, SMT DEF Larger
  <2>8. price <= found + (header * Scale) * Rate
    BY <1>3, <1>4, <2>1, <2>3, <2>6, BucketAssumption, SMT
  <2> QED
    BY <1>3, <2>4, <2>5, <2>7, <2>8 DEF PromiseFunded
<1>7. CASE ~s.allowed /\ promise' = promise /\ promise.cost # 0
  <2> DEFINE due == Due
             last == bucket.last_refill
             x == Larger(0, now - last)
             y == Larger(0, due - now)
             z == Larger(0, due - last)
             owed == promise.cost * Scale
  <2>1. ~(found >= price) /\ s.tokens = found
    BY <1>1, <1>7, Zenon
  <2>2. found # Full
    BY <1>3, <1>4, <2>1, SMT
  <2>3. Live(bucket, now)
    BY <1>4, <2>2, RefilledIdle DEF Ind, TypeOK
  <2>4. found = Smaller(Full, bucket.tokens + x * Rate)
    BY <1>4, <2>3, RefilledLive DEF Ind, TypeOK
  <2>5. bucket.tokens \in Nat /\ last \in Nat /\ due \in Nat /\ Due' = due
    BY <1>1, <1>7, ConstantTypes, SMT DEF Ind, TypeOK, BucketHash, Due
  <2>6. x \in Nat /\ y \in Nat /\ z \in Nat /\ z <= x + y
    BY <1>4, <2>5, SMT DEF Larger
  <2>7. owed <= bucket.tokens + z * Rate /\ promise.cost <= Capacity
    BY <1>7, <2>3 DEF Ind, PromiseFunded, Live
  <2>8. owed \in Nat /\ owed <= Full
    BY <2>7, BucketAssumption, SMT DEF Ind, TypeOK, Full
  <2>9. bucket'.tokens = found /\ bucket'.last_refill = now
    BY <1>1, <2>1 DEF Written
  <2> HIDE DEF x, y, z, found, owed
  <2>10. z * Rate <= x * Rate + y * Rate
    <3>1. z * Rate <= (x + y) * Rate
      BY <2>6, ProductMonotone
    <3>2. (x + y) * Rate = x * Rate + y * Rate
      BY <2>6, BucketAssumption, SMT
    <3> QED
      BY <3>1, <3>2
  <2>11. x * Rate \in Nat /\ y * Rate \in Nat /\ z * Rate \in Nat
    BY <2>6, BucketAssumption, SMT
  <2>12. owed <= found + y * Rate
    BY <1>4, <2>4, <2>5, <2>7, <2>8, <2>10, <2>11, SMT DEF Smaller
  <2> QED
    BY <1>7, <2>5, <2>7, <2>9, <2>12 DEF PromiseFunded, owed, y
<1>8. CASE promise' = promise /\ promise.cost = 0
  BY <1>8 DEF PromiseFunded
<1> QED
  BY <1>2, <1>5, <1>6, <1>7, <1>8

LEMMA ConsumeKeepsInd ==
    ASSUME Ind, NEW e \in Endpoints, Consume(e)
    PROVE  Ind'
<1> DEFINE s == Script(bucket, now, Cost[e])
           found == Refilled(bucket, now)
           price == Cost[e] * Scale
<1>1. /\ s.allowed \in BOOLEAN
      /\ s.tokens = IF s.allowed THEN found - price ELSE found
      /\ Stamped(bucket')
      /\ Refilled(bucket', now) = s.tokens
      /\ granted' = IF s.allowed THEN granted + price ELSE granted
      /\ now' = now /\ advanced' = advanced
  BY ConsumeFacts, Zenon DEF Ind
<1> HIDE DEF s
<1>2. granted' + Refilled(bucket', now') = granted + found
  <2>1. \/ s.tokens = found - price /\ granted' = granted + price
        \/ s.tokens = found /\ granted' = granted
    BY <1>1, Zenon
  <2>2. granted \in Nat /\ found \in Int /\ price \in Int
    BY RefilledType, EndpointCost, ConstantTypes DEF Ind, TypeOK
  <2> QED
    BY <1>1, <2>1, <2>2, SMT
<1>3. Funded'
  BY <1>1, <1>2 DEF Ind, Funded
<1> QED
  BY <1>1, <1>3, ConsumeKeepsType, ConsumeKeepsPromise DEF Ind

LEMMA ExpireKeepsInd ==
    ASSUME Ind, Expire
    PROVE  Ind' /\ Refilled(bucket', now') = Refilled(bucket, now)
<1>1. bucket \in BucketHash /\ now \in Nat /\ ~Live(bucket, now)
  BY SMT DEF Ind, TypeOK, Expire, Live, BucketHash
<1>2. /\ bucket' = Missing
      /\ UNCHANGED <<now, reply, granted, advanced, promise>>
  BY DEF Expire
<1>3. Refilled(bucket', now') = Refilled(bucket, now)
  BY <1>1, <1>2, RefilledIdle, MissingBucket
<1>4. TypeOK'
  BY <1>2, MissingBucket DEF Ind, TypeOK
<1>5. Funded' /\ Stamped(bucket')
  BY <1>1, <1>2, <1>3, MissingBucket DEF Ind, Funded
<1>6. PromiseFunded'
  BY <1>2 DEF Ind, PromiseFunded, Missing, Due
<1> QED
  BY <1>3, <1>4, <1>5, <1>6 DEF Ind

\* A promise that falls due later, on the same hash, is funded the more.
LEMMA LaterIsFunded ==
    ASSUME TypeOK, PromiseFunded, bucket' = bucket, promise'.cost = promise.cost,
           Due' \in Int, Due <= Due'
    PROVE  PromiseFunded'
<1> SUFFICES ASSUME promise.cost # 0, bucket.exists
             PROVE  promise.cost * Scale
                      <= bucket.tokens + Larger(0, Due' - bucket.last_refill) * Rate
  BY DEF PromiseFunded
<1> DEFINE owed == promise.cost * Scale
           a == Larger(0, Due - bucket.last_refill)
           b == Larger(0, Due' - bucket.last_refill)
<1>1. owed <= bucket.tokens + a * Rate
  BY DEF PromiseFunded
<1>2. owed \in Nat /\ bucket.tokens \in Nat
  BY BucketAssumption, ConstantTypes, SMT DEF TypeOK, BucketHash
<1>3. a \in Int /\ b \in Int /\ a <= b
  BY SMT DEF TypeOK, BucketHash, Due, Larger
<1> HIDE DEF owed, a, b
<1>4. a * Rate <= b * Rate /\ a * Rate \in Int /\ b * Rate \in Int
  BY <1>3, ProductMonotone
<1>5. owed <= bucket.tokens + b * Rate
  BY <1>1, <1>2, <1>4, SMT
<1> QED
  BY <1>5 DEF owed, b

\* What waiting a tick does to a promise.
LEMMA WaitedFacts ==
    ASSUME NEW p \in [cost : Nat, wait : Nat, owing : Nat, steady : BOOLEAN]
    PROVE  /\ Waited(p) \in [cost : Nat, wait : Nat, owing : Nat, steady : BOOLEAN]
           /\ Waited(p).cost = p.cost /\ Waited(p).steady = p.steady
           /\ Waited(p).wait \in Nat /\ Waited(p).owing \in Nat
           /\ Waited(p).wait = Larger(0, p.wait - 1)
           /\ p.wait + p.owing <= Waited(p).wait + Waited(p).owing + 1
<1>1. CASE p.wait > 0
  <2>1. p.wait - 1 \in Nat /\ Waited(p) = [p EXCEPT !.wait = @ - 1]
    BY <1>1, SMT DEF Waited
  <2> QED
    BY <1>1, <2>1, SMT DEF Larger
<1>2. CASE p.wait = 0
  <2>1. Larger(0, p.owing - 1) \in Nat /\ p.owing <= Larger(0, p.owing - 1) + 1
    BY SMT DEF Larger
  <2>2. Waited(p) = [p EXCEPT !.owing = Larger(0, @ - 1)]
    BY <1>2, SMT DEF Waited
  <2>3. /\ Waited(p) \in [cost : Nat, wait : Nat, owing : Nat, steady : BOOLEAN]
        /\ Waited(p).cost = p.cost /\ Waited(p).steady = p.steady
        /\ Waited(p).wait = p.wait /\ Waited(p).owing = Larger(0, p.owing - 1)
    BY <2>1, <2>2
  <2>4. Larger(0, p.wait - 1) = 0
    BY <1>2, SMT DEF Larger
  <2> QED
    BY <1>2, <2>1, <2>3, <2>4, SMT
<1> QED
  BY <1>1, <1>2, SMT

LEMMA TickKeepsInd ==
    ASSUME Ind, Tick
    PROVE  Ind'
<1>1. /\ now' = now + 1 /\ advanced' = advanced + 1
      /\ UNCHANGED <<bucket, reply, granted>>
      /\ promise' = Waited(promise)
  BY DEF Tick
<1>2. TypeOK'
  <2>1. promise' \in [cost : Nat, wait : Nat, owing : Nat, steady : BOOLEAN]
    BY <1>1, WaitedFacts DEF Ind, TypeOK
  <2>2. now + 1 \in Nat /\ advanced + 1 \in Nat
    BY SMT DEF Ind, TypeOK
  <2> QED
    BY <1>1, <2>1, <2>2 DEF Ind, TypeOK
<1>3. Refilled(bucket, now + 1) <= Refilled(bucket, now) + Rate
  BY TickAdds DEF Ind, TypeOK
<1>4. (advanced + 1) * Rate = advanced * Rate + Rate
  BY ProductStep DEF Ind, TypeOK
<1>5. Funded'
  <2>1. /\ Refilled(bucket, now) \in Int /\ Refilled(bucket, now + 1) \in Int
        /\ granted \in Int /\ Full \in Int /\ Rate \in Int /\ advanced * Rate \in Int
    <3>1. now \in Nat /\ now + 1 \in Nat /\ advanced \in Nat
      BY DEF Ind, TypeOK
    <3> QED
      BY <3>1, RefilledType, ConstantTypes, BucketAssumption, SMT DEF Ind, TypeOK
  <2>2. granted + Refilled(bucket, now) <= Full + advanced * Rate
    BY DEF Ind, Funded
  <2>3. granted + Refilled(bucket, now + 1) <= Full + (advanced + 1) * Rate
    BY <1>3, <1>4, <2>1, <2>2, SMT
  <2> QED
    BY <1>1, <2>3 DEF Funded
<1>6. PromiseFunded' /\ Stamped(bucket')
  <2>1. /\ promise'.cost = promise.cost
        /\ promise'.wait \in Nat /\ promise'.owing \in Nat
        /\ promise.wait + promise.owing <= promise'.wait + promise'.owing + 1
    BY <1>1, WaitedFacts DEF Ind, TypeOK
  <2>2. Due' \in Int /\ Due <= Due'
    BY <1>1, <2>1, SMT DEF Ind, TypeOK, Due
  <2> QED
    BY <1>1, <2>1, <2>2, LaterIsFunded DEF Ind
<1> QED
  BY <1>2, <1>5, <1>6 DEF Ind

LEMMA StepBackKeepsInd ==
    ASSUME Ind, StepBack
    PROVE  Ind'
<1>1. /\ now' \in Nat /\ now' <= now
      /\ UNCHANGED <<bucket, reply, granted, advanced>>
  BY BoundAssumption, SMT DEF Ind, TypeOK, StepBack
<1>2. /\ promise' \in [cost : Nat, wait : Nat, owing : Nat, steady : BOOLEAN]
      /\ promise'.cost = promise.cost /\ Due' = Due
  <2>1. PICK d \in 1..MaxStepBack :
          now' = now - d /\ promise' = [promise EXCEPT !.owing = @ + d, !.steady = FALSE]
    BY DEF StepBack
  <2>2. promise.owing + d \in Nat /\ d \in Int
    BY BoundAssumption, SMT DEF Ind, TypeOK
  <2>3. /\ promise' \in [cost : Nat, wait : Nat, owing : Nat, steady : BOOLEAN]
        /\ promise'.cost = promise.cost /\ promise'.wait = promise.wait /\ promise'.owing = promise.owing + d
    BY <2>1, <2>2 DEF Ind, TypeOK
  <2> QED
    BY <2>1, <2>2, <2>3, SMT DEF Ind, TypeOK, Due
<1>3. TypeOK'
  BY <1>1, <1>2 DEF Ind, TypeOK
<1>4. Refilled(bucket, now') <= Refilled(bucket, now)
  BY <1>1, BackTakes DEF Ind, TypeOK
<1>5. Funded'
  <2>1. /\ Refilled(bucket, now) \in Int /\ Refilled(bucket, now') \in Int
        /\ granted \in Int /\ Full \in Int /\ advanced * Rate \in Int
    BY <1>1, RefilledType, ConstantTypes, BucketAssumption, SMT DEF Ind, TypeOK
  <2> QED
    BY <1>1, <1>4, <2>1, SMT DEF Ind, Funded
<1>6. PromiseFunded' /\ Stamped(bucket')
  <2>1. Due' \in Int /\ Due <= Due'
    BY <1>2, SMT DEF Ind, TypeOK, Due
  <2> QED
    BY <1>1, <1>2, <2>1, LaterIsFunded DEF Ind
<1> QED
  BY <1>3, <1>5, <1>6 DEF Ind

LEMMA OpenWindowKeepsInd ==
    ASSUME Ind, OpenWindow
    PROVE  Ind'
<1>1. granted' = 0 /\ advanced' = 0 /\ UNCHANGED <<now, bucket, reply, promise>>
  BY DEF OpenWindow
<1>2. TypeOK' /\ Stamped(bucket') /\ PromiseFunded'
  BY <1>1 DEF Ind, TypeOK, PromiseFunded, Due
<1>3. Funded'
  BY <1>1, RefilledType, ConstantTypes, BucketAssumption, SMT DEF Ind, TypeOK, Funded
<1> QED
  BY <1>2, <1>3 DEF Ind

LEMMA IndStep == Ind /\ [Next]_vars => Ind'
<1> SUFFICES ASSUME Ind, [Next]_vars PROVE Ind'
  OBVIOUS
<1>1. ASSUME NEW e \in Endpoints, Consume(e) PROVE Ind'
  BY <1>1, ConsumeKeepsInd
<1>2. CASE Expire
  BY <1>2, ExpireKeepsInd
<1>3. CASE Tick
  BY <1>3, TickKeepsInd
<1>4. CASE StepBack
  BY <1>4, StepBackKeepsInd
<1>5. CASE OpenWindow
  BY <1>5, OpenWindowKeepsInd
<1>6. CASE UNCHANGED vars
  BY <1>6 DEF vars, Ind, TypeOK, Funded, PromiseFunded, Due
<1> QED
  BY <1>1, <1>2, <1>3, <1>4, <1>5, <1>6 DEF Next, MonotoneNext

LEMMA IndImplies == Ind => TypeOK /\ WindowBound /\ RetryAfterHonoured
<1> SUFFICES ASSUME Ind PROVE TypeOK /\ WindowBound /\ RetryAfterHonoured
  OBVIOUS
<1>1. TypeOK
  BY DEF Ind
<1>2. WindowBound
  BY RefilledType, ConstantTypes, BucketAssumption, SMT
     DEF Ind, TypeOK, Funded, WindowBound
<1>3. RetryAfterHonoured
  <2> DEFINE owing == promise.owing
             owed == promise.cost * Scale
             x == Larger(0, now - bucket.last_refill)
             z == Larger(0, (now + owing) - bucket.last_refill)
  <2> SUFFICES ASSUME promise.cost # 0, promise.wait = 0
               PROVE  Refilled(bucket, now) + owing * Rate >= owed
    BY DEF RetryAfterHonoured
  <2>1. promise.cost <= Capacity /\ promise.cost \in Nat
    BY DEF Ind, TypeOK, PromiseFunded
  <2>2. owed \in Nat /\ owed <= Full
    BY <2>1, BucketAssumption, SMT DEF Full
  <2>3. owing \in Nat /\ owing * Rate \in Nat
    BY BucketAssumption, SMT DEF Ind, TypeOK
  <2>4. CASE ~Live(bucket, now)
    <3>1. Refilled(bucket, now) = Full
      BY <2>4, RefilledIdle DEF Ind, TypeOK
    <3> HIDE DEF owing, owed
    <3> QED
      BY <2>2, <2>3, <3>1, ConstantTypes, SMT
  <2>5. CASE Live(bucket, now)
    <3>1. Refilled(bucket, now) = Smaller(Full, bucket.tokens + x * Rate)
      BY <2>5, RefilledLive DEF Ind, TypeOK
    <3>2. owed <= bucket.tokens + z * Rate
      <4>1. Due = now + owing
        BY SMT DEF Ind, TypeOK, Due
      <4> QED
        BY <2>5, <4>1 DEF Ind, PromiseFunded, Live
    <3>3. /\ x \in Nat /\ z \in Nat /\ z <= x + owing
          /\ bucket.tokens \in Nat /\ Full \in Nat
      BY <2>3, ConstantTypes, SMT DEF Ind, TypeOK, BucketHash, Larger
    <3> HIDE DEF x, z, owed, owing
    <3>4. z * Rate <= x * Rate + owing * Rate
      <4>1. z * Rate <= (x + owing) * Rate
        BY <2>3, <3>3, ProductMonotone
      <4>2. (x + owing) * Rate = x * Rate + owing * Rate
        BY <2>3, <3>3, BucketAssumption, SMT
      <4> QED
        BY <4>1, <4>2
    <3>5. x * Rate \in Nat /\ z * Rate \in Nat
      BY <3>3, BucketAssumption, SMT
    <3> QED
      BY <2>2, <2>3, <3>1, <3>2, <3>3, <3>4, <3>5, SMT DEF Smaller
  <2> QED
    BY <2>4, <2>5
<1> QED
  BY <1>1, <1>2, <1>3

LEMMA IndInvariant == Spec => []Ind
<1> QED
  BY IndInit, IndStep, PTL DEF Spec

\* The bucket never holds a negative number of tokens nor more than its burst.
THEOREM TokenBucketTypeCorrect == Spec => []TypeOK
BY IndInvariant, IndImplies, PTL

\* The rate a plan allows is never exceeded, over any window, by any interleaving.
THEOREM RateIsBounded == Spec => []WindowBound
BY IndInvariant, IndImplies, PTL

\* Waiting for the time Retry-After names is enough, but for the refill of the time the
\* clock was set back in the meantime; and waiting that much longer is always enough.
THEOREM RetryAfterIsHonest == Spec => []RetryAfterHonoured
BY IndInvariant, IndImplies, PTL

-----------------------------------------------------------------------------

\* RetryAfterTight carried on to the instant it speaks of: the level and what a
\* clock that is not set back can refill until a second before the wait is over.
PromiseTight ==
    promise.cost # 0 /\ promise.steady /\ promise.wait >= Scale
        => Refilled(bucket, now) + (promise.wait - Scale) * Rate < promise.cost * Scale

\* A rejection leaves the level alone, and the header it sends is tight.
LEMMA ConsumeKeepsTight ==
    ASSUME Ind, PromiseTight, NEW e \in Endpoints, Consume(e)
    PROVE  PromiseTight'
<1> DEFINE s == Script(bucket, now, Cost[e])
           header == RetryAfterHeader(s.deficit)
           found == Refilled(bucket, now)
           price == Cost[e] * Scale
<1>1. /\ s.allowed \in BOOLEAN
      /\ s.allowed <=> found >= price
      /\ s.tokens = IF s.allowed THEN found - price ELSE found
      /\ s.deficit = IF s.allowed THEN 0 ELSE price - found
      /\ Refilled(bucket', now) = s.tokens
      /\ now' = now
  BY ConsumeFacts, Zenon DEF Ind
<1>2. \/ promise' = NoPromise
      \/ ~s.allowed /\ promise' = Promised(Cost[e], header)
      \/ ~s.allowed /\ promise' = promise
  BY DEF Consume
<1> HIDE DEF s
<1>3. price \in Nat /\ now \in Nat /\ found \in 0..Full /\ Full \in Nat
  BY EndpointCost, RefilledType, ConstantTypes DEF Ind, TypeOK
<1>4. CASE promise' = NoPromise
  BY <1>4 DEF PromiseTight, NoPromise
<1>5. CASE ~s.allowed /\ promise' = Promised(Cost[e], header)
  <2>1. s.deficit = price - found /\ ~(found >= price) /\ Refilled(bucket', now') = found
    BY <1>1, <1>5, Zenon
  <2>2. s.deficit \in Nat \ {0}
    BY <1>3, <2>1, SMT
  <2>3. header \in Nat \ {0} /\ ((header - 1) * Scale) * Rate < s.deficit
    BY <2>2, HeaderIsLeast
  <2>4. promise'.cost * Scale = price /\ promise'.wait = header * Scale
    BY <1>5 DEF Promised
  <2> HIDE DEF header, found, price
  <2>5. promise'.wait - Scale = (header - 1) * Scale
    BY <2>3, <2>4, BucketAssumption, SMT
  <2>6. ((header - 1) * Scale) * Rate \in Int
    BY <2>3, BucketAssumption, SMT
  <2>7. found + ((header - 1) * Scale) * Rate < price
    BY <1>3, <2>1, <2>3, <2>6, SMT
  <2> QED
    BY <2>1, <2>4, <2>5, <2>7 DEF PromiseTight
<1>6. CASE ~s.allowed /\ promise' = promise
  <2>1. Refilled(bucket', now') = found
    BY <1>1, <1>6, Zenon
  <2> QED
    BY <1>1, <1>6, <2>1 DEF PromiseTight
<1> QED
  BY <1>2, <1>4, <1>5, <1>6

\* A tick refills at most what it takes off the time that is left.
LEMMA TickKeepsTight ==
    ASSUME Ind, PromiseTight, Tick
    PROVE  PromiseTight'
<1>1. /\ now' = now + 1 /\ bucket' = bucket
      /\ promise'.cost = promise.cost /\ promise'.steady = promise.steady
      /\ promise'.wait = Larger(0, promise.wait - 1)
  BY WaitedFacts DEF Tick, Ind, TypeOK
<1>2. /\ now \in Nat /\ promise.wait \in Nat /\ promise.cost \in Nat
      /\ Scale \in Nat \ {0} /\ Rate \in Nat /\ bucket \in BucketHash
  BY BucketAssumption DEF Ind, TypeOK
<1> DEFINE left == promise'.wait - Scale
           owed == promise.cost * Scale
<1> SUFFICES ASSUME promise.cost # 0, promise.steady, promise'.wait >= Scale
             PROVE  Refilled(bucket, now + 1) + left * Rate < owed
  BY <1>1 DEF PromiseTight
<1>3. left \in Int /\ promise.wait - Scale = left + 1 /\ promise.wait >= Scale
  BY <1>1, <1>2, SMT DEF Larger
<1>4. Refilled(bucket, now) + (left + 1) * Rate < owed
  BY <1>3 DEF PromiseTight
<1>5. Refilled(bucket, now + 1) <= Refilled(bucket, now) + Rate
  BY <1>2, TickAdds DEF Ind
<1>6. owed \in Int
  BY <1>2, SMT
<1> HIDE DEF left, owed
<1>7. (left + 1) * Rate = left * Rate + Rate /\ left * Rate \in Int
  BY <1>2, <1>3, ProductStep
<1>8. Refilled(bucket, now) \in Int /\ Refilled(bucket, now + 1) \in Int
  BY <1>2, RefilledType, ConstantTypes, SMT
<1>9. Refilled(bucket, now + 1) + left * Rate < owed
  BY <1>2, <1>4, <1>5, <1>6, <1>7, <1>8, SMT
<1> QED
  BY <1>9 DEF left, owed

LEMMA TightStep == Ind /\ PromiseTight /\ [Next]_vars => PromiseTight'
<1> SUFFICES ASSUME Ind, PromiseTight, [Next]_vars PROVE PromiseTight'
  OBVIOUS
<1>1. ASSUME NEW e \in Endpoints, Consume(e) PROVE PromiseTight'
  BY <1>1, ConsumeKeepsTight
<1>2. CASE Expire
  <2>1. Refilled(bucket', now') = Refilled(bucket, now)
    BY <1>2, ExpireKeepsInd
  <2> QED
    BY <1>2, <2>1 DEF Expire, PromiseTight
<1>3. CASE Tick
  BY <1>3, TickKeepsTight
<1>4. CASE StepBack
  <2>1. ~promise'.steady
    BY <1>4 DEF StepBack, Ind, TypeOK
  <2> QED
    BY <2>1 DEF PromiseTight
<1>5. CASE OpenWindow
  BY <1>5 DEF OpenWindow, PromiseTight
<1>6. CASE UNCHANGED vars
  BY <1>6 DEF vars, PromiseTight
<1> QED
  BY <1>1, <1>2, <1>3, <1>4, <1>5, <1>6 DEF Next, MonotoneNext

\* A second less than Retry-After is too little: together with RetryAfterIsHonest, the
\* header is the exact number of whole seconds.
THEOREM RetryAfterIsTight == Spec => []RetryAfterTight
<1>1. Init => PromiseTight
  BY DEF Init, PromiseTight, NoPromise
<1>2. Ind /\ PromiseTight => RetryAfterTight
  <2> SUFFICES ASSUME Ind, PromiseTight, promise.cost # 0, promise.steady,
                      promise.wait >= Scale
               PROVE  Refilled(bucket, now) < promise.cost * Scale
    BY DEF RetryAfterTight
  <2> DEFINE left == promise.wait - Scale
             owed == promise.cost * Scale
  <2>1. left \in Nat /\ owed \in Int
    BY BucketAssumption, SMT DEF Ind, TypeOK
  <2>2. Refilled(bucket, now) \in Int
    BY RefilledType, ConstantTypes, SMT DEF Ind, TypeOK
  <2>3. Refilled(bucket, now) + left * Rate < owed
    BY DEF PromiseTight
  <2> HIDE DEF left, owed
  <2>4. left * Rate \in Nat
    BY <2>1, BucketAssumption, SMT
  <2>5. Refilled(bucket, now) < owed
    BY <2>1, <2>2, <2>3, <2>4, SMT
  <2> QED
    BY <2>5 DEF owed
<1> QED
  BY <1>1, <1>2, TightStep, IndInvariant, PTL DEF Spec

-----------------------------------------------------------------------------

LEMMA BudgetInit == Init => Budget!Init
<1> SUFFICES ASSUME Init PROVE Budget!Init
  OBVIOUS
<1>1. Refilled(bucket, now) = Full
  BY MissingBucket DEF Init
<1> QED
  BY <1>1 DEF Init, Budget!Init

\* A request is granted or refused as the abstract budget would have it.
LEMMA ConsumeDecides ==
    ASSUME Ind, NEW e \in Endpoints, Consume(e)
    PROVE  \E c \in {Cost[x] * Scale : x \in Endpoints} :
              Budget!Grant(c) \/ Budget!Refuse(c)
<1> DEFINE s == Script(bucket, now, Cost[e])
           found == Refilled(bucket, now)
           price == Cost[e] * Scale
<1>1. /\ s.allowed \in BOOLEAN
      /\ s.allowed <=> found >= price
      /\ s.tokens = IF s.allowed THEN found - price ELSE found
      /\ Refilled(bucket', now) = s.tokens
      /\ reply' = [cost |-> price, allowed |-> s.allowed, left |-> s.tokens]
      /\ now' = now
  BY ConsumeFacts, Zenon DEF Ind
<1> HIDE DEF s
<1>2. price \in {Cost[x] * Scale : x \in Endpoints}
  OBVIOUS
<1>3. found \in Int /\ price \in Int
  BY RefilledType, EndpointCost, ConstantTypes DEF Ind, TypeOK
<1>4. CASE s.allowed
  <2>1. s.allowed = TRUE
    BY <1>1, <1>4, Zenon
  <2>2. found >= price /\ s.tokens = found - price
    BY <1>1, <1>4, Zenon
  <2>3. Refilled(bucket', now') = found - price
    BY <1>1, <2>2, Zenon
  <2>4. reply' = [cost |-> price, allowed |-> TRUE, left |-> found - price]
    BY <1>1, <2>1, <2>2, Zenon
  <2>5. Budget!Grant(price)
    BY <2>2, <2>3, <2>4, Zenon DEF Budget!Grant
  <2> QED
    BY <1>2, <2>5, Zenon
<1>5. CASE ~s.allowed
  <2>1. s.allowed = FALSE
    BY <1>1, <1>5, Zenon
  <2>2. ~(found >= price) /\ s.tokens = found
    BY <1>1, <1>5, Zenon
  <2>3. found < price
    BY <1>3, <2>2, SMT
  <2>4. Refilled(bucket', now') = found
    BY <1>1, <2>2, Zenon
  <2>5. reply' = [cost |-> price, allowed |-> FALSE, left |-> found]
    BY <1>1, <2>1, <2>2, Zenon
  <2>6. Budget!Refuse(price)
    BY <2>3, <2>4, <2>5, Zenon DEF Budget!Refuse
  <2> QED
    BY <1>2, <2>6, Zenon
<1> QED
  BY <1>1, <1>4, <1>5

\* Ticks that find the stamp in the past refill what the abstract tick does.
LEMMA TickDecides ==
    ASSUME Ind, Tick, bucket.exists => bucket.last_refill <= now
    PROVE  Budget!Tick
<1>1. Refilled(bucket, now + 1) = Smaller(Full, Refilled(bucket, now) + Rate)
  BY TickRefills DEF Ind, TypeOK
<1>2. now' = now + 1 /\ bucket' = bucket /\ reply' = reply
  BY DEF Tick
<1>3. Full \in Int /\ Rate \in Int /\ Refilled(bucket, now) \in Int
  BY RefilledType, ConstantTypes, BucketAssumption DEF Ind, TypeOK
<1> DEFINE level == Refilled(bucket, now)
<1> HIDE DEF level
<1>4. Smaller(Full, level + Rate)
        = IF level + Rate <= Full THEN level + Rate ELSE Full
  <2>1. \A a, b \in Int : Smaller(a, b) = IF b <= a THEN b ELSE a
    BY SMT DEF Smaller
  <2>2. level + Rate \in Int /\ Full \in Int
    BY <1>3 DEF level
  <2> QED
    BY <2>1, <2>2, Zenon
<1>5. Refilled(bucket', now')
        = IF level + Rate <= Full THEN level + Rate ELSE Full
  BY <1>1, <1>2, <1>4, Zenon DEF level
<1> QED
  BY <1>2, <1>5, Zenon DEF Budget!Tick, level

\* A tick that finds the stamp in the future, after a step back, refills nothing.
LEMMA TickWaits ==
    ASSUME Ind, Tick, bucket.exists, ~(bucket.last_refill <= now)
    PROVE  Refilled(bucket, now') = Refilled(bucket, now)
<1>1. now' = now + 1 /\ now \in Nat /\ bucket \in BucketHash
  BY DEF Tick, Ind, TypeOK
<1>2. bucket.expires = bucket.last_refill + Life /\ bucket.last_refill \in Nat
  BY <1>1 DEF Ind, Stamped, BucketHash
<1>3. Live(bucket, now) /\ Live(bucket, now + 1)
  BY <1>1, <1>2, ConstantTypes, SMT DEF Live
<1>4. /\ Larger(0, now - bucket.last_refill) = 0
      /\ Larger(0, (now + 1) - bucket.last_refill) = 0
  BY <1>1, <1>2, SMT DEF Larger
<1> QED
  BY <1>1, <1>3, <1>4, RefilledLive

\* The level the last decision left is what the hash stores.
Answered == bucket.exists => bucket.tokens = reply.left

LEMMA AnsweredStep == Ind /\ Answered /\ [Next]_vars => Answered'
<1> SUFFICES ASSUME Ind, Answered, [Next]_vars PROVE Answered'
  OBVIOUS
<1>1. ASSUME NEW e \in Endpoints, Consume(e) PROVE Answered'
  <2> DEFINE s == Script(bucket, now, Cost[e])
             price == Cost[e] * Scale
  <2>1. /\ bucket' = Written(bucket, s.tokens, now)
        /\ reply' = [cost |-> price, allowed |-> s.allowed, left |-> s.tokens]
    BY <1>1, ConsumeFacts, Zenon DEF Ind
  <2> HIDE DEF s
  <2> QED
    BY <2>1 DEF Answered, Written
<1>2. CASE Expire
  BY <1>2 DEF Expire, Answered, Missing
<1>3. CASE Tick \/ OpenWindow \/ StepBack \/ UNCHANGED vars
  BY <1>3 DEF Tick, OpenWindow, StepBack, vars, Answered
<1> QED
  BY <1>1, <1>2, <1>3 DEF Next, MonotoneNext

\* A clock that is set back loses refilled tokens and none of the stored ones.
LEMMA BackLoses ==
    ASSUME Ind, Answered, StepBack
    PROVE  Budget!Setback \/ UNCHANGED Budget!vars
<1>1. now' \in Nat /\ now' <= now /\ bucket' = bucket /\ reply' = reply
  BY BoundAssumption, SMT DEF Ind, TypeOK, StepBack
<1>2. bucket \in BucketHash /\ now \in Nat
  BY DEF Ind, TypeOK
<1>3. CASE Live(bucket, now')
  <2> DEFINE e == Larger(0, now' - bucket.last_refill)
  <2>1. e \in Nat /\ bucket.tokens \in 0..Full
    BY <1>1, <1>2, SMT DEF Larger, BucketHash
  <2>2. e * Rate \in Nat
    BY <2>1, BucketAssumption, SMT
  <2>3. Refilled(bucket, now') = Smaller(Full, bucket.tokens + e * Rate)
    BY <1>1, <1>2, <1>3, RefilledLive
  <2>4. Refilled(bucket, now') >= bucket.tokens
    BY <2>1, <2>2, <2>3, ConstantTypes, SMT DEF Smaller
  <2>5. bucket.tokens = reply.left /\ bucket.tokens \in Int
    BY <1>3, <2>1 DEF Live, Answered
  <2>6. Refilled(bucket, now') <= Refilled(bucket, now)
    BY <1>1, <1>2, BackTakes
  <2>7. Refilled(bucket, now') \in Int /\ Refilled(bucket, now) \in Int
    BY <1>1, <1>2, RefilledType, ConstantTypes, SMT
  <2>8. Refilled(bucket, now') \in reply.left .. Refilled(bucket, now)
    BY <2>4, <2>5, <2>6, <2>7, SMT
  <2> QED
    BY <1>1, <2>8 DEF Budget!Setback
<1>4. CASE ~Live(bucket, now')
  <2>1. ~Live(bucket, now)
    BY <1>1, <1>2, <1>4, SMT DEF Live, BucketHash
  <2>2. Refilled(bucket, now') = Refilled(bucket, now)
    BY <1>1, <1>2, <1>4, <2>1, RefilledIdle
  <2> QED
    BY <1>1, <2>2 DEF Budget!vars
<1> QED
  BY <1>3, <1>4

LEMMA ForwardStep ==
    ASSUME Ind, [MonotoneNext]_vars
    PROVE  Budget!ForwardNext \/ UNCHANGED Budget!vars
<1> USE DEF Budget!vars
<1>1. ASSUME NEW e \in Endpoints, Consume(e) PROVE Budget!ForwardNext
  BY <1>1, ConsumeDecides, Zenon DEF Budget!ForwardNext
<1>2. CASE Expire
  <2>1. Refilled(bucket', now') = Refilled(bucket, now)
    BY <1>2, ExpireKeepsInd
  <2> QED
    BY <1>2, <2>1 DEF Expire
<1>3. CASE Tick
  <2>1. CASE bucket.exists => bucket.last_refill <= now
    BY <1>3, <2>1, TickDecides DEF Budget!ForwardNext
  <2>2. CASE bucket.exists /\ ~(bucket.last_refill <= now)
    <3>1. Refilled(bucket, now') = Refilled(bucket, now)
      BY <1>3, <2>2, TickWaits
    <3> QED
      BY <1>3, <3>1 DEF Tick
  <2> QED
    BY <2>1, <2>2
<1>4. CASE OpenWindow
  BY <1>4 DEF OpenWindow
<1>5. CASE UNCHANGED vars
  BY <1>5 DEF vars
<1> QED
  BY <1>1, <1>2, <1>3, <1>4, <1>5 DEF MonotoneNext

\* Lazy refill, timestamp and expiry cannot be told from an ever-present budget,
\* of which a clock that is set back can only take away.
THEOREM BucketImplementsBudget == Spec => ImplementsBudget
<1>1. Init => Ind /\ Answered
  BY IndInit DEF Init, Answered, Missing
<1>2. Ind /\ Answered /\ [Next]_vars => Ind' /\ Answered'
  BY IndStep, AnsweredStep
<1>3. Ind /\ Answered /\ [Next]_vars => [Budget!Next]_(Budget!vars)
  BY ForwardStep, BackLoses DEF Next, Budget!Next
<1> QED
  BY <1>1, <1>2, <1>3, BudgetInit, PTL DEF Spec, ImplementsBudget, Budget!Spec

LEMMA MonotoneInd == MonotoneSpec => []Ind
<1>1. Ind /\ [MonotoneNext]_vars => Ind'
  BY IndStep DEF Next
<1> QED
  BY <1>1, IndInit, PTL DEF MonotoneSpec

\* Under a clock that is never set back it cannot be told from one of which nothing
\* is ever lost.
THEOREM MonotoneBucketImplementsBudget == MonotoneSpec => ImplementsForwardBudget
<1>1. Ind /\ [MonotoneNext]_vars => [Budget!ForwardNext]_(Budget!vars)
  BY ForwardStep
<1> QED
  BY <1>1, MonotoneInd, BudgetInit, PTL DEF MonotoneSpec, ImplementsForwardBudget, Budget!ForwardSpec
====
