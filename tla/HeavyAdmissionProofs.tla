---- MODULE HeavyAdmissionProofs ----
(***************************************************************************)
(* What holds of a bucket shared by a heavy call and a stream of ingests,  *)
(* for every plan, cost and pace: the safety half of HeavyIsAdmitted.      *)
(***************************************************************************)
EXTENDS HeavyAdmission, BucketScriptProofs

LEMMA Prices ==
    /\ IngestCost \in Nat /\ HeavyCost \in Nat
    /\ IngestCost * Scale \in Nat /\ HeavyCost * Scale \in Nat
    /\ HeavyCost * Scale + IngestCost * Scale <= Full
<1>1. IngestCost \in Nat /\ HeavyCost \in Nat /\ HeavyCost + IngestCost <= Capacity
  BY HeavyAssumption
<1>2. Scale \in Nat /\ Capacity \in Nat
  BY BucketAssumption
<1>3. (HeavyCost + IngestCost) * Scale <= Capacity * Scale
  BY <1>1, <1>2, SMT
<1>4. (HeavyCost + IngestCost) * Scale = HeavyCost * Scale + IngestCost * Scale
  BY <1>1, <1>2, SMT
<1>5. IngestCost * Scale \in Nat /\ HeavyCost * Scale \in Nat
  BY <1>1, <1>2, SMT
<1> QED
  BY <1>1, <1>3, <1>4, <1>5 DEF Full

\* What TypeOK says, in the form the script's lemmas ask for.
LEMMA Clocked ==
    ASSUME TypeOK
    PROVE  /\ bucket \in BucketHash /\ since \in Nat /\ since <= Life
           /\ Stamped(bucket)
           /\ bucket.exists => bucket.last_refill <= since
           /\ Refilled(bucket, since) \in 0..Full
<1>1. bucket \in BucketHash /\ since \in Nat /\ since <= Life
  BY ConstantTypes, SMT DEF TypeOK
<1>2. Stamped(bucket) /\ (bucket.exists => bucket.last_refill <= since)
  BY <1>1, ConstantTypes, SMT DEF TypeOK, Stamped
<1> QED
  BY <1>1, <1>2, RefilledType

\* One EVAL whose hash is counted from its own instant on: nothing of the script's
\* outcome depends on where the clock starts.
LEMMA ConsumeFacts ==
    ASSUME TypeOK, NEW cost \in Nat, Consume(cost)
    PROVE  LET s == Script(bucket, since, cost)
               found == Refilled(bucket, since)
               price == cost * Scale
           IN  /\ s.allowed \in BOOLEAN
               /\ s.allowed <=> found >= price
               /\ s.tokens = IF s.allowed THEN found - price ELSE found
               /\ s.tokens \in 0..Full
               /\ s.deficit = IF s.allowed THEN 0 ELSE price - found
               /\ bucket' \in BucketHash
               /\ bucket'.last_refill = 0 /\ bucket'.expires = Life
               /\ since' = 0
               /\ Refilled(bucket', since') = s.tokens
               /\ reply' = [cost |-> price, allowed |-> s.allowed, left |-> s.tokens]
<1> DEFINE s == Script(bucket, since, cost)
           found == Refilled(bucket, since)
           price == cost * Scale
<1>1. /\ bucket' = Rebased(s.bucket, since)
      /\ since' = 0
      /\ reply' = [cost |-> price, allowed |-> s.allowed, left |-> s.tokens]
  BY DEF Consume
<1> HIDE DEF s
<1>2. /\ s.allowed \in BOOLEAN
      /\ s.tokens \in 0..Full
      /\ s.allowed <=> found >= price
      /\ s.tokens = IF s.allowed THEN found - price ELSE found
      /\ s.deficit = IF s.allowed THEN 0 ELSE price - found
      /\ s.bucket = Written(bucket, s.tokens, since)
  BY Clocked, ScriptConserves, Zenon DEF s
<1>3. bucket' = Written(bucket, s.tokens, 0)
  <2>1. (since + Life) - since = 0 + Life
    BY Clocked, ConstantTypes, SMT
  <2>2. /\ s.bucket.exists = TRUE /\ s.bucket.tokens = s.tokens
        /\ s.bucket.expires = since + Life
    BY <1>2 DEF Written
  <2>3. s.bucket.expires - since = 0 + Life
    BY <2>1, <2>2, Zenon
  <2> QED
    BY <1>1, <2>2, <2>3, Zenon DEF Rebased, Written
<1>4. /\ bucket' \in BucketHash
      /\ Refilled(bucket', 0) = s.tokens
  BY <1>2, <1>3, WrittenIsRead
<1>5. bucket'.last_refill = 0 /\ bucket'.expires = Life
  BY <1>3, ConstantTypes, SMT DEF Written
<1> QED
  BY <1>1, <1>2, <1>4, <1>5, Zenon DEF s

LEMMA TypesInit == Init => TypeOK
<1> SUFFICES ASSUME Init PROVE TypeOK
  OBVIOUS
<1>1. bucket \in BucketHash /\ ~bucket.exists
  BY ConstantTypes, SMT DEF Init, Missing, BucketHash
<1>2. since \in 0..Life /\ reply \in [cost : Nat, allowed : BOOLEAN, left : 0..Full]
  BY ConstantTypes, SMT DEF Init
<1>3. quiet \in 0..Gap /\ full \in 0..Hold /\ wait \in Nat
  BY HeavyAssumption, SMT DEF Init
<1> QED
  BY <1>1, <1>2, <1>3 DEF Init, TypeOK

LEMMA ConsumeKeepsType ==
    ASSUME TypeOK, NEW cost \in Nat, Consume(cost)
    PROVE  /\ bucket' \in BucketHash
           /\ bucket'.exists => bucket'.last_refill = 0 /\ bucket'.expires = Life
           /\ since' \in 0..Life
           /\ reply' \in [cost : Nat, allowed : BOOLEAN, left : 0..Full]
<1> DEFINE s == Script(bucket, since, cost)
<1>1. /\ s.allowed \in BOOLEAN /\ s.tokens \in 0..Full
      /\ bucket' \in BucketHash
      /\ bucket'.last_refill = 0 /\ bucket'.expires = Life
      /\ since' = 0
      /\ reply' = [cost |-> cost * Scale, allowed |-> s.allowed, left |-> s.tokens]
  BY ConsumeFacts, Zenon
<1> HIDE DEF s
<1>2. cost * Scale \in Nat
  BY BucketAssumption, SMT
<1>3. reply' \in [cost : Nat, allowed : BOOLEAN, left : 0..Full]
  BY <1>1, <1>2, Zenon
<1> QED
  BY <1>1, <1>3, ConstantTypes, SMT

LEMMA TypesStep == TypeOK /\ [Next]_vars => TypeOK'
<1> SUFFICES ASSUME TypeOK, [Next]_vars PROVE TypeOK'
  OBVIOUS
<1> USE DEF TypeOK
<1>1. CASE Ingest
  <2>1. Consume(IngestCost) /\ quiet' = 0 /\ UNCHANGED <<heavy, wait, full>>
    BY <1>1 DEF Ingest
  <2>2. quiet' \in 0..Gap
    BY <2>1, HeavyAssumption, SMT
  <2> QED
    BY <2>1, <2>2, ConsumeKeepsType, Prices
<1>2. CASE HeavyCall
  <2> DEFINE s == Script(bucket, since, HeavyCost)
             found == Refilled(bucket, since)
             price == HeavyCost * Scale
  <2>1. /\ Consume(HeavyCost)
        /\ heavy' \in {"paid", "wants"}
        /\ wait' = IF s.allowed THEN 0 ELSE RetryAfterHeader(s.deficit) * Scale
        /\ UNCHANGED <<quiet, full>>
    BY <1>2 DEF HeavyCall
  <2>2. /\ s.allowed \in BOOLEAN
        /\ s.allowed <=> found >= price
        /\ s.deficit = IF s.allowed THEN 0 ELSE price - found
    BY <2>1, ConsumeFacts, Prices, Zenon
  <2> HIDE DEF s
  <2>3. found \in Int /\ price \in Int
    BY Clocked, Prices, ConstantTypes, SMT
  <2>4. wait' \in Nat
    <3>1. CASE s.allowed
      BY <2>1, <3>1
    <3>2. CASE ~s.allowed
      <4>1. s.deficit = price - found /\ ~(found >= price)
        BY <2>2, <3>2, Zenon
      <4>2. s.deficit \in Nat
        BY <2>3, <4>1, SMT
      <4>3. RetryAfterHeader(s.deficit) \in Nat
        BY <4>2, HeaderCovers
      <4>4. RetryAfterHeader(s.deficit) * Scale \in Nat
        BY <4>3, BucketAssumption, SMT
      <4> QED
        BY <2>1, <3>2, <4>4
    <3> QED
      BY <3>1, <3>2
  <2> QED
    BY <2>1, <2>4, ConsumeKeepsType, Prices
<1>3. CASE AcquireSlot
  BY <1>3, BucketAssumption, SMT DEF AcquireSlot
<1>4. CASE HeavyAgain
  BY <1>4 DEF HeavyAgain
<1>5. CASE Tick
  <2>1. since' \in 0..Life
    BY <1>5, ConstantTypes, SMT DEF Tick, Smaller
  <2>2. wait' \in Nat /\ quiet' \in 0..Gap /\ full' \in 0..Hold
    BY <1>5, HeavyAssumption, SMT DEF Tick, Smaller, Larger
  <2> QED
    BY <1>5, <2>1, <2>2 DEF Tick
<1>6. CASE UNCHANGED vars
  BY <1>6 DEF vars
<1> QED
  BY <1>1, <1>2, <1>3, <1>4, <1>5, <1>6 DEF Next

LEMMA TypesInvariant == Spec => []TypeOK
BY TypesInit, TypesStep, PTL DEF Spec

\* The hash, counted from its last EVAL, has a level between 0 and the burst and
\* lives exactly a life more.
THEOREM HeavyAdmissionTypeCorrect == Spec => []TypeOK
BY TypesInvariant

-----------------------------------------------------------------------------

\* A tick refills Rate up to the burst, also once the clock has stopped at a life.
LEMMA TickLevel ==
    ASSUME TypeOK, Tick
    PROVE  Refilled(bucket', since') = Smaller(Full, Refilled(bucket, since) + Rate)
<1>1. bucket' = bucket /\ since' = Smaller(since + 1, Life)
  BY DEF Tick
<1>2. CASE since < Life
  <2>1. since' = since + 1
    BY <1>1, <1>2, Clocked, ConstantTypes, SMT DEF Smaller
  <2> QED
    BY <1>1, <2>1, Clocked, TickRefills
<1>3. CASE since = Life
  <2>1. since' = since
    BY <1>1, <1>3, ConstantTypes, SMT DEF Smaller
  <2>2. ~Live(bucket, since)
    BY <1>3, ConstantTypes, SMT DEF TypeOK, Live
  <2>3. Refilled(bucket, since) = Full
    BY <2>2, Clocked, RefilledIdle
  <2> QED
    BY <1>1, <2>1, <2>3, ConstantTypes, BucketAssumption, SMT DEF Smaller
<1> QED
  BY <1>2, <1>3, Clocked, ConstantTypes, SMT

LEMMA BudgetInit == Init => Budget!Init
<1> SUFFICES ASSUME Init PROVE Budget!Init
  OBVIOUS
<1>1. bucket \in BucketHash /\ ~Live(bucket, since) /\ since \in Nat
  BY ConstantTypes, SMT DEF Init, Missing, BucketHash, Live
<1>2. Refilled(bucket, since) = Full
  BY <1>1, RefilledIdle
<1> QED
  BY <1>2 DEF Init, Budget!Init

\* Either client's request is granted or refused as the one budget would have it.
LEMMA ConsumeDecides ==
    ASSUME TypeOK, NEW cost \in Nat, Consume(cost)
    PROVE  Budget!Grant(cost * Scale) \/ Budget!Refuse(cost * Scale)
<1> DEFINE s == Script(bucket, since, cost)
           found == Refilled(bucket, since)
           price == cost * Scale
<1>1. /\ s.allowed \in BOOLEAN
      /\ s.allowed <=> found >= price
      /\ s.tokens = IF s.allowed THEN found - price ELSE found
      /\ Refilled(bucket', since') = s.tokens
      /\ reply' = [cost |-> price, allowed |-> s.allowed, left |-> s.tokens]
  BY ConsumeFacts, Zenon
<1> HIDE DEF s
<1>2. found \in Int /\ price \in Int
  BY Clocked, ConstantTypes, BucketAssumption, SMT
<1>3. CASE s.allowed
  <2>1. s.allowed = TRUE /\ found >= price /\ s.tokens = found - price
    BY <1>1, <1>3, Zenon
  <2>2. reply' = [cost |-> price, allowed |-> TRUE, left |-> found - price]
    BY <1>1, <2>1, Zenon
  <2> QED
    BY <1>1, <2>1, <2>2, Zenon DEF Budget!Grant
<1>4. CASE ~s.allowed
  <2>1. s.allowed = FALSE /\ ~(found >= price) /\ s.tokens = found
    BY <1>1, <1>4, Zenon
  <2>2. reply' = [cost |-> price, allowed |-> FALSE, left |-> found]
    BY <1>1, <2>1, Zenon
  <2>3. found < price
    BY <1>2, <2>1, SMT
  <2> QED
    BY <1>1, <2>1, <2>2, <2>3, Zenon DEF Budget!Refuse
<1> QED
  BY <1>1, <1>3, <1>4

LEMMA BudgetStep ==
    ASSUME TypeOK, [Next]_vars
    PROVE  Budget!ForwardNext \/ UNCHANGED Budget!vars
<1> USE DEF Budget!vars
<1>1. CASE Ingest
  <2>1. Budget!Grant(IngestCost * Scale) \/ Budget!Refuse(IngestCost * Scale)
    BY <1>1, ConsumeDecides, Prices DEF Ingest
  <2> QED
    BY <2>1, Zenon DEF Budget!ForwardNext
<1>2. CASE HeavyCall
  <2>1. Budget!Grant(HeavyCost * Scale) \/ Budget!Refuse(HeavyCost * Scale)
    BY <1>2, ConsumeDecides, Prices DEF HeavyCall
  <2> QED
    BY <2>1, Zenon DEF Budget!ForwardNext
<1>3. CASE AcquireSlot \/ HeavyAgain
  BY <1>3 DEF AcquireSlot, HeavyAgain
<1>4. CASE Tick
  <2> DEFINE level == Refilled(bucket, since)
  <2>1. Refilled(bucket', since') = Smaller(Full, level + Rate) /\ reply' = reply
    BY <1>4, TickLevel DEF Tick
  <2>2. level \in Int /\ Full \in Int /\ Rate \in Int
    BY Clocked, ConstantTypes, BucketAssumption, SMT
  <2> HIDE DEF level
  <2>3. Smaller(Full, level + Rate) = IF level + Rate <= Full THEN level + Rate ELSE Full
    <3>1. \A a, b \in Int : Smaller(a, b) = IF b <= a THEN b ELSE a
      BY SMT DEF Smaller
    <3> QED
      BY <2>2, <3>1, level + Rate \in Int, Zenon
  <2>4. Budget!Tick
    BY <2>1, <2>3, Zenon DEF Budget!Tick, level
  <2> QED
    BY <2>4 DEF Budget!ForwardNext
<1>5. CASE UNCHANGED vars
  BY <1>5 DEF vars
<1> QED
  BY <1>1, <1>2, <1>3, <1>4, <1>5 DEF Next

\* A clock that starts again at each EVAL and stops when the key has expired cannot be
\* told from one that runs on.
THEOREM SharedBucketImplementsBudget == Spec => ImplementsForwardBudget
<1>1. TypeOK /\ [Next]_vars => [Budget!ForwardNext]_(Budget!vars)
  BY BudgetStep
<1> QED
  BY <1>1, TypesInvariant, BudgetInit, PTL DEF Spec, ImplementsForwardBudget, Budget!ForwardSpec

-----------------------------------------------------------------------------

\* What the next ingest will take of the refill since the last one.
Reserve == Smaller(quiet * Rate, IngestCost * Scale)

\* The distance between two ingests refills at least what one of them costs.
Paced == Gap * Rate >= IngestCost * Scale

LEMMA ReserveType ==
    ASSUME TypeOK
    PROVE  /\ quiet * Rate \in Nat
           /\ Reserve \in Nat /\ Reserve <= IngestCost * Scale
           /\ Savings \in Int /\ Savings = Refilled(bucket, since) - Reserve
<1>1. quiet \in Nat
  BY HeavyAssumption, SMT DEF TypeOK
<1>2. quiet * Rate \in Nat
  BY <1>1, BucketAssumption, SMT
<1>3. Reserve \in Nat /\ Reserve <= IngestCost * Scale
  BY <1>2, Prices, SMT DEF Reserve, Smaller
<1>4. Refilled(bucket, since) \in Int
  BY Clocked, ConstantTypes, SMT
<1>5. Savings = Refilled(bucket, since) - Reserve
  BY DEF Savings, Reserve
<1> QED
  BY <1>2, <1>3, <1>4, <1>5, SMT

\* An ingest whose distance was kept takes its reserve, or nothing.
LEMMA IngestSpares ==
    ASSUME TypeOK, TypeOK', Paced, Ingest
    PROVE  Savings' \in Int /\ Savings' >= Savings
<1> DEFINE s == Script(bucket, since, IngestCost)
           found == Refilled(bucket, since)
           price == IngestCost * Scale
<1>1. /\ s.allowed \in BOOLEAN
      /\ s.allowed <=> found >= price
      /\ s.tokens = IF s.allowed THEN found - price ELSE found
      /\ Refilled(bucket', since') = s.tokens
  BY ConsumeFacts, Prices, Zenon DEF Ingest
<1> HIDE DEF s
<1>2. s.tokens = found - price \/ s.tokens = found
  BY <1>1, Zenon
<1>3. quiet = Gap /\ quiet' = 0
  BY HeavyAssumption, SMT DEF Ingest, TypeOK
<1>4. Reserve = price
  BY <1>3, ReserveType, Prices, SMT DEF Reserve, Smaller, Paced
<1>5. Reserve' = 0
  BY <1>3, Prices, BucketAssumption, SMT DEF Reserve, Smaller
<1>6. found \in Int /\ price \in Nat
  BY Clocked, Prices, ConstantTypes, SMT
<1>7. Savings = found - Reserve /\ Savings' = s.tokens - Reserve'
  BY <1>1, ReserveType DEF Savings, Reserve
<1> HIDE DEF found, price
<1> QED
  BY <1>2, <1>4, <1>5, <1>6, <1>7, SMT

\* A heavy call that is refused leaves the level alone, and so do the steps at the
\* semaphore.
LEMMA RefusedSpares ==
    ASSUME TypeOK, HeavyCall \/ AcquireSlot \/ HeavyAgain \/ UNCHANGED vars
    PROVE  Savings' = Savings \/ (heavy = "wants" /\ heavy' = "paid")
<1>1. CASE HeavyCall
  <2> DEFINE s == Script(bucket, since, HeavyCost)
             found == Refilled(bucket, since)
  <2>1. /\ s.allowed \in BOOLEAN
        /\ s.tokens = IF s.allowed THEN found - HeavyCost * Scale ELSE found
        /\ Refilled(bucket', since') = s.tokens
    BY <1>1, ConsumeFacts, Prices, Zenon DEF HeavyCall
  <2>2. /\ heavy = "wants" /\ quiet' = quiet
        /\ heavy' = IF s.allowed THEN "paid" ELSE "wants"
    BY <1>1 DEF HeavyCall
  <2> HIDE DEF s
  <2>3. CASE s.allowed
    BY <2>2, <2>3
  <2>4. CASE ~s.allowed
    <3>1. Refilled(bucket', since') = found
      BY <2>1, <2>4, Zenon
    <3> QED
      BY <2>2, <3>1 DEF Savings
  <2> QED
    BY <2>3, <2>4
<1>2. CASE AcquireSlot \/ HeavyAgain \/ UNCHANGED vars
  BY <1>2 DEF AcquireSlot, HeavyAgain, vars, Savings
<1> QED
  BY <1>1, <1>2

\* A tick refills as much as it reserves, and all of it is saved once the next ingest
\* has its reserve; what does not fit in the bucket was not needed for the heavy call.
LEMMA TickSaves ==
    ASSUME TypeOK, TypeOK', Tick
    PROVE  LET price == HeavyCost * Scale IN
           /\ Savings' >= Smaller(Savings, price)
           /\ quiet = Gap => Savings' >= Smaller(Savings + Rate, price)
<1> DEFINE found == Refilled(bucket, since)
           price == HeavyCost * Scale
           a == quiet * Rate
           b == quiet' * Rate
<1>1. Refilled(bucket', since') = Smaller(Full, found + Rate)
  BY TickLevel
<1>2. quiet \in Int /\ Rate \in Nat /\ quiet' = Smaller(quiet + 1, Gap) /\ quiet <= Gap /\ Gap \in Nat
  BY HeavyAssumption, BucketAssumption, SMT DEF Tick, TypeOK
<1>3. b <= a + Rate /\ a \in Int /\ b \in Int
  <2>1. quiet' \in Int /\ quiet' <= quiet + 1
    BY <1>2, SMT DEF Smaller
  <2>2. b <= (quiet + 1) * Rate /\ b \in Int
    BY <1>2, <2>1, ProductMonotone
  <2>3. (quiet + 1) * Rate = a + Rate /\ a \in Int
    BY <1>2, ProductStep
  <2> QED
    BY <2>2, <2>3
<1>4. quiet = Gap => a = b
  BY <1>2, SMT DEF Smaller
<1>5. /\ Savings = found - Smaller(a, IngestCost * Scale)
      /\ Savings' = Smaller(Full, found + Rate) - Smaller(b, IngestCost * Scale)
  BY <1>1 DEF Savings
<1>6. /\ found \in Int /\ Full \in Int /\ price \in Nat /\ IngestCost * Scale \in Nat
      /\ price + IngestCost * Scale <= Full
  BY Clocked, Prices, ConstantTypes, SMT
<1> DEFINE cheap == IngestCost * Scale
<1> HIDE DEF found, price, a, b, cheap
<1>7. /\ Savings = found - Smaller(a, cheap)
      /\ Savings' = Smaller(Full, found + Rate) - Smaller(b, cheap)
      /\ cheap \in Nat /\ price + cheap <= Full
  BY <1>5, <1>6 DEF cheap
<1>8. Savings' >= Smaller(Savings, price)
  BY <1>2, <1>3, <1>6, <1>7, SMT DEF Smaller
<1>9. quiet = Gap => Savings' >= Smaller(Savings + Rate, price)
  BY <1>2, <1>3, <1>4, <1>6, <1>7, SMT DEF Smaller
<1> QED
  BY <1>8, <1>9 DEF price

\* What a stream of ingests that keeps its distance leaves over is saved up for the
\* heavy call, for every plan and price: with the refill of one more tick at each gap
\* the level is bound to reach the heavy price.
THEOREM HeavyCallSavesUp ==
    ASSUME Paced
    PROVE  Spec => SavingsGrow
<1> DEFINE price == HeavyCost * Scale
           A == /\ Savings' >= Smaller(Savings, price) \/ (heavy = "wants" /\ heavy' = "paid")
                /\ Tick /\ quiet = Gap => Savings' >= Smaller(Savings + Rate, price)
<1>1. ASSUME TypeOK, TypeOK', [Next]_vars
      PROVE  A \/ UNCHANGED vars
  <2>1. price \in Int /\ Savings \in Int
    BY <1>1, ReserveType, Prices, SMT
  <2>2. \A x \in Int : x >= Savings => x >= Smaller(Savings, price)
    BY <2>1, SMT DEF Smaller
  <2>3. CASE Tick
    BY <1>1, <2>3, TickSaves
  <2>4. CASE Ingest /\ ~Tick
    BY <1>1, <2>2, <2>4, IngestSpares
  <2>5. CASE (HeavyCall \/ AcquireSlot \/ HeavyAgain) /\ ~Tick
    <3>1. Savings' = Savings \/ (heavy = "wants" /\ heavy' = "paid")
      BY <1>1, <2>5, RefusedSpares
    <3>2. Savings >= Savings
      BY <2>1
    <3> QED
      BY <2>1, <2>2, <2>5, <3>1, <3>2
  <2> QED
    BY <1>1, <2>3, <2>4, <2>5 DEF Next
<1>2. TypeOK /\ TypeOK' /\ [Next]_vars => [A]_vars
  BY <1>1
<1>3. Spec => [][A]_vars
  BY <1>2, TypesInvariant, PTL DEF Spec
<1> QED
  BY <1>3 DEF SavingsGrow
====
