---- MODULE AdmissionProofs ----
(***************************************************************************)
(* What the two gates promise together, for every set of requests, plans   *)
(* and size of the pool, and also when any command may raise; and that the *)
(* plans of the deployment are among those the theorems are about.         *)
(***************************************************************************)
EXTENDS Admission, TenantPlan, FiniteSetTheorems, TLAPS

Past == {"inside", "querying", "leaving", "releasing"}

Types ==
    /\ pc \in [Requests -> States]
    /\ path \in [Requests -> Paths]
    /\ handle \subseteq Requests
    /\ answer \in [Requests -> Answers]
    /\ level \in [Tenants -> Nat]
    /\ \A t \in Tenants : level[t] <= Burst[t]
    /\ slots \subseteq Requests
    /\ leftover \in [Tenants -> Nat]
    /\ strained \subseteq Tenants

\* A handle is held by a heavy request past the gate, which has its slot.
HandlesHaveSlots ==
    \A r \in handle : r \in slots /\ path[r] = "heavy" /\ pc[r] \in Past

\* Only the commands that raised part a slot from its handle, or let a heavy
\* request past the gate without one.
Unstrained ==
    /\ \A r \in Requests : Tenant[r] \notin strained =>
          /\ r \in slots => r \in handle
          /\ path[r] = "heavy" /\ pc[r] \in Past => r \in handle
    /\ \A t \in Tenants : leftover[t] > 0 => t \in strained

HeavyAtGate == \A r \in Requests : pc[r] \in {"passed", "acquiring"} => path[r] = "heavy"

Facts == Types /\ HandlesHaveSlots /\ Unstrained /\ HeavyAtGate

PoolBound == Cardinality(Busy) <= PoolSize
SlotsBound == \A t \in Tenants : Taken(t) <= Cap[t]

Ind == Facts /\ PoolBound /\ SlotsBound /\ QuietNotRefused

LEMMA Constants ==
    /\ IsFiniteSet(Requests)
    /\ PoolSize \in Nat \ {0}
    /\ \A t \in Tenants : Cap[t] \in Nat \ {0}
    /\ Burst \in [Tenants -> Nat]
    /\ \A p \in Paths : Cost[p] \in Nat
    /\ \A r \in Requests : Tenant[r] \in Tenants
BY AdmissionAssumption DEF Tenants

LEMMA RequestSets ==
    ASSUME NEW S, S \subseteq Requests
    PROVE  IsFiniteSet(S) /\ Cardinality(S) \in Nat
BY Constants, FS_Subset, FS_CardinalityType

LEMMA SmallerSets ==
    ASSUME NEW S, NEW T, T \subseteq Requests, S \subseteq T
    PROVE  Cardinality(S) <= Cardinality(T)
BY RequestSets, FS_Subset

LEMMA OneMore ==
    ASSUME NEW S, NEW T, S \subseteq Requests, NEW r \in Requests, T \subseteq S \cup {r}
    PROVE  Cardinality(T) <= Cardinality(S) + 1
<1>1. S \cup {r} \subseteq Requests
  OBVIOUS
<1>2. Cardinality(T) <= Cardinality(S \cup {r})
  BY <1>1, SmallerSets
<1>3. Cardinality(S \cup {r}) <= Cardinality(S) + 1
  BY RequestSets, FS_AddElement, SMT
<1>4. /\ Cardinality(T) \in Nat /\ Cardinality(S) \in Nat
      /\ Cardinality(S \cup {r}) \in Nat
  <2>1. T \subseteq Requests
    BY <1>1
  <2> QED
    BY <1>1, <2>1, RequestSets
<1> QED
  BY <1>2, <1>3, <1>4, SMT

LEMMA IndInit == Init => Ind
<1> SUFFICES ASSUME Init PROVE Ind
  OBVIOUS
<1>1. Facts
  BY Constants, SMT DEF Init, Facts, Types, HandlesHaveSlots, Unstrained, HeavyAtGate,
     Past, States, OnTheWire, Paths, Answers
<1>2. Busy = {} /\ \A t \in Tenants : SlotsOf(t) = {}
  BY DEF Init, Busy, SlotsOf, OnTheWire
<1>3. PoolBound /\ SlotsBound
  <2>1. Cardinality({}) = 0
    BY FS_EmptySet
  <2>2. \A t \in Tenants : leftover[t] = 0
    BY DEF Init
  <2>3. Cardinality(Busy) <= PoolSize
    BY <1>2, <2>1, Constants, SMT
  <2>4. \A t \in Tenants : Cardinality(SlotsOf(t)) + leftover[t] <= Cap[t]
    BY <1>2, <2>1, <2>2, Constants, SMT
  <2> QED
    BY <2>3, <2>4 DEF PoolBound, SlotsBound, Taken
<1>4. QuietNotRefused
  BY DEF Init, QuietNotRefused
<1> QED
  BY <1>1, <1>3, <1>4 DEF Ind

\* The facts about single requests are kept by each action.
LEMMA FactsStep == Facts /\ [Next]_vars => Facts'
<1> SUFFICES ASSUME Facts, [Next]_vars PROVE Facts'
  OBVIOUS
<1> USE Constants DEF Facts, Types, HandlesHaveSlots, Unstrained, HeavyAtGate, Past,
        States, OnTheWire, Paths, Answers, Become
<1>1. ASSUME NEW r \in Requests, Arrive(r) PROVE Facts'
  BY <1>1, SMT DEF Arrive, Strain
<1>2. ASSUME NEW r \in Requests, Consume(r) PROVE Facts'
  BY <1>2, SMT DEF Consume, Affordable, Pay, Passed
<1>3. ASSUME NEW r \in Requests, ConsumeFails(r) PROVE Facts'
  BY <1>3, SMT DEF ConsumeFails, Affordable, Pay, Passed, Strain
<1>4. ASSUME NEW r \in Requests, AskSlot(r) PROVE Facts'
  BY <1>4, SMT DEF AskSlot, Strain
<1>5. ASSUME NEW r \in Requests, Acquire(r) PROVE Facts'
  BY <1>5, SMT DEF Acquire
<1>6. ASSUME NEW r \in Requests, AcquireFails(r) PROVE Facts'
  BY <1>6, SMT DEF AcquireFails, Strain
<1>7. ASSUME NEW r \in Requests, Reply(r) PROVE Facts'
  BY <1>7, SMT DEF Reply
<1>8. ASSUME NEW r \in Requests, QueryFails(r) PROVE Facts'
  BY <1>8, SMT DEF QueryFails, Strain
<1>9. ASSUME NEW r \in Requests, Leave(r) PROVE Facts'
  BY <1>9, SMT DEF Leave, Strain
<1>10. ASSUME NEW r \in Requests, Release(r) PROVE Facts'
  BY <1>10, SMT DEF Release
<1>11. ASSUME NEW r \in Requests, ReleaseFails(r) PROVE Facts'
  BY <1>11, SMT DEF ReleaseFails, Strain
<1>12. ASSUME NEW r \in Requests, Query(r) PROVE Facts'
  BY <1>12, SMT DEF Query, Strain
<1>13. ASSUME NEW r \in Requests, Respond(r) PROVE Facts'
  BY <1>13, SMT DEF Respond
<1>14. ASSUME NEW r \in Requests, Again(r) PROVE Facts'
  BY <1>14, SMT DEF Again
<1>15. ASSUME NEW r \in Requests, Lapse(r) PROVE Facts'
  BY <1>15, SMT DEF Lapse
<1>16. ASSUME NEW t \in Tenants, Refill(t) PROVE Facts'
  BY <1>16, SMT DEF Refill
<1>17. ASSUME NEW t \in Tenants, LapseLeftover(t) PROVE Facts'
  BY <1>17, SMT DEF LapseLeftover
<1>18. CASE UNCHANGED vars
  BY <1>18 DEF vars
<1> QED
  BY <1>1, <1>2, <1>3, <1>4, <1>5, <1>6, <1>7, <1>8, <1>9, <1>10, <1>11, <1>12, <1>13,
     <1>14, <1>15, <1>16, <1>17, <1>18 DEF Next, Serve

\* A request goes on the wire only through a free connection.
LEMMA CheckoutStep ==
    ASSUME Types, PoolBound, NEW r \in Requests, NEW state \in States,
           Become(r, state), state \in OnTheWire => Connected \/ pc[r] \in OnTheWire
    PROVE  PoolBound'
<1>1. Busy \subseteq Requests /\ Cardinality(Busy) \in Nat
  BY RequestSets DEF Busy
<1>2. CASE state \in OnTheWire /\ pc[r] \notin OnTheWire
  <2>1. Busy' \subseteq Busy \cup {r} /\ Busy' \subseteq Requests
    BY DEF Types, Become, Busy
  <2>2. Cardinality(Busy') <= Cardinality(Busy) + 1 /\ Cardinality(Busy') \in Nat
    BY <1>1, <2>1, OneMore, RequestSets
  <2>3. Cardinality(Busy) < PoolSize
    BY <1>2 DEF Connected
  <2> QED
    BY <1>1, <2>2, <2>3, Constants, SMT DEF PoolBound
<1>3. CASE state \notin OnTheWire \/ pc[r] \in OnTheWire
  <2>1. Busy' \subseteq Busy /\ Busy' \subseteq Requests
    BY <1>3 DEF Types, Become, Busy
  <2>2. Cardinality(Busy') <= Cardinality(Busy) /\ Cardinality(Busy') \in Nat
    BY <1>1, <2>1, SmallerSets, RequestSets
  <2> QED
    BY <1>1, <2>2, Constants, SMT DEF PoolBound
<1> QED
  BY <1>2, <1>3

LEMMA PoolStep == Types /\ PoolBound /\ [Next]_vars => PoolBound'
<1> SUFFICES ASSUME Types, PoolBound, [Next]_vars PROVE PoolBound'
  OBVIOUS
<1>1. ASSUME NEW r \in Requests, Arrive(r) PROVE PoolBound'
  BY <1>1, CheckoutStep DEF Arrive, States, OnTheWire
<1>2. ASSUME NEW r \in Requests, Consume(r) \/ ConsumeFails(r) PROVE PoolBound'
  BY <1>2, CheckoutStep DEF Consume, ConsumeFails, Passed, States, OnTheWire
<1>3. ASSUME NEW r \in Requests, AskSlot(r) PROVE PoolBound'
  BY <1>3, CheckoutStep DEF AskSlot, States, OnTheWire
<1>4. ASSUME NEW r \in Requests, Acquire(r) \/ AcquireFails(r) PROVE PoolBound'
  BY <1>4, CheckoutStep DEF Acquire, AcquireFails, States, OnTheWire
<1>5. ASSUME NEW r \in Requests, Query(r) PROVE PoolBound'
  BY <1>5, CheckoutStep DEF Query, States, OnTheWire
<1>6. ASSUME NEW r \in Requests, Reply(r) \/ QueryFails(r) \/ Respond(r) PROVE PoolBound'
  BY <1>6, CheckoutStep DEF Reply, QueryFails, Respond, States, OnTheWire
<1>7. ASSUME NEW r \in Requests, Leave(r) PROVE PoolBound'
  BY <1>7, CheckoutStep DEF Leave, States, OnTheWire
<1>8. ASSUME NEW r \in Requests, Release(r) \/ ReleaseFails(r) \/ Again(r) PROVE PoolBound'
  BY <1>8, CheckoutStep DEF Release, ReleaseFails, Again, States, OnTheWire
<1>9. ASSUME UNCHANGED pc PROVE PoolBound'
  BY <1>9 DEF PoolBound, Busy
<1> QED
  BY <1>1, <1>2, <1>3, <1>4, <1>5, <1>6, <1>7, <1>8, <1>9
  DEF Next, Serve, Refill, Lapse, LapseLeftover, vars

\* Whoever adds a slot has room for it, and a slot whose worker goes on stays counted.
LEMMA SlotsStep == Types /\ SlotsBound /\ [Next]_vars => SlotsBound'
<1> SUFFICES ASSUME Types, SlotsBound, [Next]_vars, NEW t \in Tenants
             PROVE  Taken(t)' <= Cap[t]
  BY DEF SlotsBound
<1>1. /\ SlotsOf(t) \subseteq Requests /\ Cardinality(SlotsOf(t)) \in Nat
      /\ leftover[t] \in Nat /\ Cardinality(SlotsOf(t)) + leftover[t] <= Cap[t]
      /\ Cap[t] \in Nat
  BY RequestSets, Constants DEF SlotsOf, Types, SlotsBound, Taken
<1>2. ASSUME slots' \subseteq slots, leftover'[t] \in Nat, leftover'[t] <= leftover[t]
      PROVE  Taken(t)' <= Cap[t]
  <2>1. SlotsOf(t)' \subseteq SlotsOf(t)
    BY <1>2 DEF SlotsOf
  <2>2. Cardinality(SlotsOf(t)') <= Cardinality(SlotsOf(t)) /\ Cardinality(SlotsOf(t)') \in Nat
    BY <1>1, <2>1, SmallerSets, RequestSets
  <2> QED
    BY <1>1, <1>2, <2>2, SMT DEF Taken
<1>3. ASSUME NEW r \in Requests, HasRoom(r), slots' = slots \cup {r}, UNCHANGED leftover
      PROVE  Taken(t)' <= Cap[t]
  <2>1. CASE Tenant[r] = t
    <3>1. SlotsOf(t)' \subseteq SlotsOf(t) \cup {r}
      BY <1>3 DEF SlotsOf
    <3>2. Cardinality(SlotsOf(t)') <= Cardinality(SlotsOf(t)) + 1
      BY <1>1, <3>1, OneMore
    <3>3. Cardinality(SlotsOf(t)) + leftover[t] < Cap[t]
      BY <1>3, <2>1 DEF HasRoom, Taken
    <3>4. Cardinality(SlotsOf(t)') \in Nat
      BY <1>1, <3>1, RequestSets
    <3> QED
      BY <1>1, <1>3, <3>2, <3>3, <3>4, SMT DEF Taken
  <2>2. CASE Tenant[r] # t
    BY <1>1, <1>3, <2>2 DEF SlotsOf, Taken
  <2> QED
    BY <2>1, <2>2
<1>4. ASSUME NEW r \in Requests, Acquire(r) \/ AcquireFails(r) PROVE Taken(t)' <= Cap[t]
  BY <1>1, <1>2, <1>3, <1>4, SMT DEF Acquire, AcquireFails
<1>5. ASSUME NEW r \in Requests, Release(r) \/ ReleaseFails(r) \/ Lapse(r)
      PROVE  Taken(t)' <= Cap[t]
  BY <1>1, <1>2, <1>5, SMT DEF Release, ReleaseFails, Lapse
<1>6. ASSUME NEW r \in Requests, Again(r) PROVE Taken(t)' <= Cap[t]
  <2>1. CASE r \in slots /\ Tenant[r] = t
    <3>1. SlotsOf(t)' = SlotsOf(t) \ {r} /\ r \in SlotsOf(t)
      BY <1>6, <2>1 DEF Again, SlotsOf
    <3>2. Cardinality(SlotsOf(t)') = Cardinality(SlotsOf(t)) - 1
      BY <1>1, <3>1, RequestSets, FS_RemoveElement
    <3>3. leftover'[t] = leftover[t] + 1
      BY <1>6, <2>1 DEF Again, Types
    <3> QED
      BY <1>1, <3>2, <3>3, SMT DEF Taken
  <2>2. CASE ~(r \in slots /\ Tenant[r] = t)
    <3>1. slots' \subseteq slots /\ leftover'[t] = leftover[t]
      BY <1>6, <2>2 DEF Again, Types
    <3> QED
      BY <1>1, <1>2, <3>1, SMT
  <2> QED
    BY <2>1, <2>2
<1>7. ASSUME NEW x \in Tenants, LapseLeftover(x) PROVE Taken(t)' <= Cap[t]
  <2>1. leftover'[t] \in Nat /\ leftover'[t] <= leftover[t]
    BY <1>1, <1>7, SMT DEF LapseLeftover, Types
  <2> QED
    BY <1>2, <1>7, <2>1 DEF LapseLeftover
<1>8. ASSUME UNCHANGED <<slots, leftover>> PROVE Taken(t)' <= Cap[t]
  BY <1>1, <1>2, <1>8, SMT
<1> QED
  BY <1>4, <1>5, <1>6, <1>7, <1>8
  DEF Next, Serve, vars, Arrive, Consume, ConsumeFails, AskSlot, Reply, QueryFails,
      Leave, Query, Respond, Refill

\* A request of an unstrained tenant that fits into its cap finds room: none of the
\* slots of its tenant is left over from an earlier request, and each belongs to another
\* of its requests in flight.
LEMMA QuietHasRoom ==
    ASSUME Facts, SlotsBound, NEW r \in Requests, pc[r] = "acquiring",
           Cardinality({q \in Requests : Tenant[q] = Tenant[r]}) <= Cap[Tenant[r]],
           Tenant[r] \notin strained
    PROVE  HasRoom(r)
<1> DEFINE mine == {q \in Requests : Tenant[q] = Tenant[r]}
           others == mine \ {r}
<1>1. SlotsOf(Tenant[r]) \subseteq others
  BY DEF SlotsOf, Facts, Types, HandlesHaveSlots, Unstrained, Past
<1>2. r \in mine /\ mine \subseteq Requests /\ others \subseteq Requests
  OBVIOUS
<1>3. Cardinality(others) = Cardinality(mine) - 1
  BY <1>2, RequestSets, FS_RemoveElement
<1>4. Cardinality(SlotsOf(Tenant[r])) <= Cardinality(others)
  BY <1>1, <1>2, SmallerSets
<1>5. /\ Cardinality(SlotsOf(Tenant[r])) \in Nat /\ Cardinality(mine) \in Nat
      /\ Cardinality(others) \in Nat
  <2>1. SlotsOf(Tenant[r]) \subseteq Requests
    BY <1>1, <1>2
  <2> QED
    BY <1>2, <2>1, RequestSets
<1>6. Cardinality(mine) <= Cap[Tenant[r]]
  OBVIOUS
<1>7. leftover[Tenant[r]] = 0
  BY Constants, SMT DEF Facts, Types, Unstrained
<1> HIDE DEF mine, others
<1> QED
  BY <1>3, <1>4, <1>5, <1>6, <1>7, Constants, SMT DEF HasRoom, Taken

LEMMA QuietStep ==
    Facts /\ SlotsBound /\ QuietNotRefused /\ [Next]_vars => QuietNotRefused'
<1> SUFFICES ASSUME Facts, SlotsBound, QuietNotRefused, [Next]_vars, NEW q \in Requests,
                    Cardinality({p \in Requests : Tenant[p] = Tenant[q]}) <= Cap[Tenant[q]],
                    Tenant[q] \notin strained'
             PROVE  answer'[q] # "refused"
  BY DEF QuietNotRefused
<1>1. strained \subseteq strained'
  BY DEF Next, Serve, vars, Arrive, Consume, ConsumeFails, AskSlot, Acquire, AcquireFails,
     Reply, QueryFails, Leave, Release, ReleaseFails, Query, Respond, Again, Lapse, Refill,
     LapseLeftover, Strain
<1>2. answer[q] # "refused" /\ Tenant[q] \notin strained
  BY <1>1 DEF QuietNotRefused
<1>3. ASSUME NEW r \in Requests, Acquire(r) PROVE answer'[q] # "refused"
  <2>1. CASE r = q
    <3>1. HasRoom(r)
      BY <1>2, <1>3, <2>1, QuietHasRoom DEF Acquire
    <3> QED
      BY <1>2, <1>3, <2>1, <3>1 DEF Acquire
  <2>2. CASE r # q
    BY <1>2, <1>3, <2>2 DEF Acquire, Facts, Types
  <2> QED
    BY <2>1, <2>2
<1>4. ASSUME NEW r \in Requests, NEW a \in Answers \ {"refused"},
             answer' = [answer EXCEPT ![r] = a]
      PROVE  answer'[q] # "refused"
  BY <1>2, <1>4 DEF Facts, Types
<1>5. ASSUME NEW r \in Requests, Consume(r) \/ Query(r) \/ QueryFails(r) \/ Respond(r) \/ Again(r)
      PROVE  answer'[q] # "refused"
  BY <1>2, <1>4, <1>5 DEF Consume, Query, QueryFails, Respond, Again, Answers
<1>6. ASSUME UNCHANGED answer PROVE answer'[q] # "refused"
  BY <1>2, <1>6
<1> QED
  BY <1>3, <1>5, <1>6
  DEF Next, Serve, vars, Arrive, ConsumeFails, AskSlot, AcquireFails, Reply, Leave,
      Release, ReleaseFails, Lapse, LapseLeftover, Refill

LEMMA IndStep == Ind /\ [Next]_vars => Ind'
BY FactsStep, PoolStep, SlotsStep, QuietStep DEF Ind, Facts

LEMMA Invariant == Spec => []Ind
BY IndInit, IndStep, PTL DEF Spec

\* Every part of the state keeps its type, and no more commands are on the wire than
\* there are connections.
THEOREM AdmissionTypeCorrect == Spec => []TypeOK
<1>1. Ind => TypeOK
  BY DEF Ind, Facts, Types, PoolBound, TypeOK
<1> QED
  BY <1>1, Invariant, PTL

\* The heavy requests of a tenant in flight that have a slot are within its cap, and
\* without a command that raised there are no others.
THEOREM InFlightIsBounded == Spec => []InFlightBounded
<1>1. Ind => InFlightBounded
  <2> SUFFICES ASSUME Ind, NEW t \in Tenants
               PROVE  /\ Cardinality(InFlight(t) \cap handle) <= Cap[t]
                      /\ t \notin strained => InFlight(t) \subseteq handle
    BY DEF InFlightBounded
  <2>1. InFlight(t) \cap handle \subseteq SlotsOf(t) /\ SlotsOf(t) \subseteq Requests
    BY DEF Ind, Facts, Types, HandlesHaveSlots, InFlight, SlotsOf
  <2>2. Cardinality(InFlight(t) \cap handle) <= Cardinality(SlotsOf(t))
    BY <2>1, SmallerSets
  <2>3. /\ Cardinality(InFlight(t) \cap handle) \in Nat /\ Cardinality(SlotsOf(t)) \in Nat
        /\ Cardinality(SlotsOf(t)) <= Cap[t]
    <3>1. InFlight(t) \cap handle \subseteq Requests
      BY <2>1
    <3>2. /\ Cardinality(InFlight(t) \cap handle) \in Nat
          /\ Cardinality(SlotsOf(t)) \in Nat
      BY <2>1, <3>1, RequestSets
    <3>3. leftover[t] \in Nat /\ Cardinality(SlotsOf(t)) + leftover[t] <= Cap[t]
      BY DEF Ind, Facts, Types, SlotsBound, Taken
    <3> QED
      BY <3>2, <3>3, Constants, SMT
  <2>4. Cardinality(InFlight(t) \cap handle) <= Cap[t]
    BY <2>2, <2>3, Constants, SMT
  <2>5. t \notin strained => InFlight(t) \subseteq handle
    BY DEF Ind, Facts, Unstrained, InFlight, Past
  <2> QED
    BY <2>4, <2>5
<1> QED
  BY <1>1, Invariant, PTL

\* Whatever the others do, a tenant within its cap whose commands did not raise is not
\* told that it is over it.
THEOREM QuietTenantsAreNotRefused == Spec => []QuietNotRefused
BY Invariant, PTL DEF Ind

\* A slot stays behind only with a tenant one of whose commands raised.
THEOREM SlotsComeBack == Spec => []NothingLeftBehind
<1>1. Ind => NothingLeftBehind
  BY DEF Ind, Facts, Types, HandlesHaveSlots, Unstrained, Past, NothingLeftBehind
<1> QED
  BY <1>1, Invariant, PTL

-----------------------------------------------------------------------------

LEMMA EveryTenantHasAPlan ==
    ASSUME NEW t PROVE \E p \in PlanNames : plan_for(t) = PLANS[p]
BY SMT DEF plan_for, TENANT_PLANS, NamedTenants, PlanNames

\* For every tenant, known or not, and every path the constants meet what BucketScript,
\* TokenBucket, HeavyAdmission, ConcurrencySemaphore and Admission assume: a request,
\* also one on top of an ingest, never costs more than the burst (it would be refused
\* for ever), and an expired bucket would have been full.
THEOREM PolicyMeetsAssumptions ==
    ASSUME NEW tenant, NEW endpoint
    PROVE  LET limits == plan_for(tenant) IN
           /\ limits.burst \in Nat \ {0}
           /\ limits.requests_per_second \in Nat \ {0}
           /\ limits.max_concurrency \in Nat \ {0}
           /\ cost_of(endpoint) \in 1..limits.burst
           /\ cost_of(endpoint) + cost_of("/api/v1/events/ingest") <= limits.burst
           /\ limits.burst <= BUCKET_TTL_SECONDS * limits.requests_per_second
<1>1. PICK p \in PlanNames : plan_for(tenant) = PLANS[p]
  BY EveryTenantHasAPlan
<1>2. cost_of(endpoint) \in 1..15 /\ cost_of("/api/v1/events/ingest") = 1
  BY SMT DEF cost_of
<1>3. /\ PLANS[p].burst \in 50..1000
      /\ PLANS[p].requests_per_second \in 20..500
      /\ PLANS[p].max_concurrency \in 3..20
  BY SMT DEF PLANS, PlanNames, TierLimits
<1>4. /\ plan_for(tenant).burst \in 50..1000
      /\ plan_for(tenant).requests_per_second \in 20..500
      /\ plan_for(tenant).max_concurrency \in 3..20
  BY <1>1, <1>3
<1>5. PICK burst \in 50..1000, rate \in 20..500, cap \in 3..20, cost \in 1..15 :
        /\ burst = plan_for(tenant).burst
        /\ rate = plan_for(tenant).requests_per_second
        /\ cap = plan_for(tenant).max_concurrency
        /\ cost = cost_of(endpoint)
  BY <1>2, <1>4
<1>6. /\ burst \in Nat \ {0} /\ rate \in Nat \ {0} /\ cap \in Nat \ {0}
      /\ cost \in 1..burst /\ cost + 1 <= burst
      /\ burst <= BUCKET_TTL_SECONDS * rate
  BY SMT DEF BUCKET_TTL_SECONDS
<1> QED
  BY <1>2, <1>5, <1>6
====
