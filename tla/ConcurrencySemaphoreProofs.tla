---- MODULE ConcurrencySemaphoreProofs ----
(***************************************************************************)
(* The cap of the concurrency semaphore for every number of requests,      *)
(* every capacity, time to live and clock error, and every combination of  *)
(* faults.                                                                 *)
(***************************************************************************)
EXTENDS ConcurrencySemaphore, FiniteSetTheorems, TLAPS

\* What keeps the slot of a holder that has not outrun it: its score is not
\* older than the holder's time and the reading error together, and the key has
\* at least the rest of the slot's life to go.
Safe(r) ==
    /\ r \in slots
    /\ age[r] <= held[r] + MaxLag
    /\ keylife >= TTL - held[r]

Ind == TypeOK /\ \A r \in Holders : held[r] < Sure => Safe(r)

LEMMA Constants ==
    /\ Capacity \in Nat \ {0} /\ TTL \in Nat \ {0}
    /\ MaxAhead \in Nat /\ MaxBehind \in Nat /\ MaxLag \in Nat /\ MaxBehind <= MaxLag
    /\ Horizon \in Nat /\ Sure \in Int /\ Sure <= Horizon /\ Sure <= TTL
BY SemaphoreAssumption, SMT DEF Horizon, Sure

LEMMA RequestSets ==
    ASSUME NEW S, S \subseteq Requests
    PROVE  IsFiniteSet(S) /\ Cardinality(S) \in Nat
BY SemaphoreAssumption, FS_Subset, FS_CardinalityType

LEMMA SmallerSets ==
    ASSUME NEW S, NEW T, T \subseteq Requests, S \subseteq T
    PROVE  Cardinality(S) <= Cardinality(T)
BY RequestSets, FS_Subset

LEMMA IndInit == Init => Ind
<1> SUFFICES ASSUME Init PROVE Ind
  OBVIOUS
<1>1. TypeOK
  <2>1. Cardinality({}) = 0
    BY FS_EmptySet
  <2> QED
    BY <2>1, Constants, SMT DEF Init, TypeOK, States
<1>2. Holders = {}
  BY DEF Init, Holders
<1> QED
  BY <1>1, <1>2 DEF Ind

\* The script keeps the set within the capacity.
LEMMA ScriptKeepsCap ==
    ASSUME TypeOK, NEW r \in Requests, AcquireScript(r)
    PROVE  slots' \subseteq Requests /\ Cardinality(slots') <= Capacity
<1> DEFINE kept == slots \ Stale(r)
<1>1. kept \subseteq slots /\ slots \subseteq Requests
  BY DEF TypeOK
<1>2. Cardinality(kept) <= Cardinality(slots) /\ Cardinality(kept) \in Nat
      /\ Cardinality(slots) \in Nat /\ IsFiniteSet(kept)
  BY <1>1, SmallerSets, RequestSets
<1>3. CASE HasRoom(r)
  <2>1. slots' = kept \cup {r}
    BY <1>3 DEF AcquireScript
  <2>2. Cardinality(kept) < Capacity
    BY <1>3 DEF HasRoom
  <2>3. Cardinality(kept \cup {r}) <= Cardinality(kept) + 1
    BY <1>2, FS_AddElement, SMT
  <2>4. Cardinality(kept \cup {r}) \in Nat
    BY <1>1, RequestSets
  <2> QED
    BY <1>1, <1>2, <2>1, <2>2, <2>3, <2>4, Constants, SMT
<1>4. CASE ~HasRoom(r)
  <2>1. slots' = kept
    BY <1>4 DEF AcquireScript
  <2> QED
    BY <1>1, <1>2, <2>1, Constants, SMT DEF TypeOK
<1> QED
  BY <1>3, <1>4

\* The script keeps the slots of all holders that have not outrun theirs.
LEMMA ScriptKeepsHolders ==
    ASSUME Ind, NEW r \in Requests, pc[r] = "acquiring", AcquireScript(r),
           NEW h \in Holders, held[h] < Sure
    PROVE  held'[h] = held[h] /\ Safe(h)'
<1>1. h # r /\ h \in Requests
  BY DEF Holders
<1>2. Safe(h)
  BY DEF Ind
<1>3. /\ age[h] \in Int /\ held[h] \in Int /\ lag[r] \in Int /\ lag[r] >= -MaxAhead
      /\ held[h] >= 0
  BY <1>1, Constants, SMT DEF Ind, TypeOK
<1>4. h \notin Stale(r)
  BY <1>2, <1>3, Constants, SMT DEF Safe, Stale, Sure
<1>5. h \in slots'
  BY <1>2, <1>4 DEF Safe, AcquireScript
<1>6. age'[h] = age[h]
  BY <1>1 DEF AcquireScript, Ind, TypeOK
<1>7. held'[h] = held[h] /\ keylife' = TTL
  BY <1>1 DEF AcquireScript, Ind, TypeOK
<1>8. age'[h] <= held'[h] + MaxLag
  BY <1>2, <1>6, <1>7 DEF Safe
<1>9. keylife' >= TTL - held'[h]
  BY <1>3, <1>7, Constants, SMT
<1> QED
  BY <1>5, <1>7, <1>8, <1>9 DEF Safe

\* One run of the script, whatever becomes of its reply.
LEMMA ScriptStep ==
    ASSUME Ind, NEW r \in Requests, pc[r] = "acquiring", AcquireScript(r),
           NEW state \in States, pc' = [pc EXCEPT ![r] = state],
           state \in {"running", "releasing"} => HasRoom(r),
           lag' = [lag EXCEPT ![r] = 0]
    PROVE  Ind'
<1>1. TypeOK'
  <2>1. slots' \subseteq Requests /\ Cardinality(slots') <= Capacity
    BY ScriptKeepsCap DEF Ind
  <2>2. age' \in [Requests -> -MaxAhead..Horizon]
    <3>1. lag[r] \in -MaxAhead..Horizon
      BY Constants, SMT DEF Ind, TypeOK, Horizon
    <3> QED
      BY <3>1, SMT DEF Ind, TypeOK, AcquireScript
  <2>3. keylife' \in 0..TTL /\ held' \in [Requests -> 0..Horizon]
    BY Constants, SMT DEF Ind, TypeOK, AcquireScript
  <2>4. pc' \in [Requests -> States] /\ lag' \in [Requests -> -MaxAhead..MaxLag]
    BY Constants, SMT DEF Ind, TypeOK
  <2> QED
    BY <2>1, <2>2, <2>3, <2>4 DEF TypeOK
<1>2. ASSUME NEW h \in Holders', held'[h] < Sure PROVE Safe(h)'
  <2>1. CASE h # r
    <3>1. h \in Holders
      BY <2>1 DEF Holders, Ind, TypeOK
    <3>2. held'[h] = held[h]
      BY <2>1, <3>1 DEF AcquireScript, Ind, TypeOK, Holders
    <3> QED
      BY <1>2, <3>1, <3>2, ScriptKeepsHolders
  <2>2. CASE h = r
    <3>1. HasRoom(r)
      BY <2>2 DEF Holders, Ind, TypeOK
    <3>2. r \in slots' /\ age'[r] = lag[r] /\ keylife' = TTL /\ held'[r] = 0
      BY <3>1 DEF AcquireScript, Ind, TypeOK
    <3>3. lag[r] <= MaxLag
      BY SMT DEF Ind, TypeOK
    <3> QED
      BY <2>2, <3>2, <3>3, Constants, SMT DEF Safe
  <2> QED
    BY <2>1, <2>2
<1> QED
  BY <1>1, <1>2 DEF Ind

\* Steps that touch neither the set nor a time, and make nobody a holder.
LEMMA QuietStep ==
    ASSUME Ind, UNCHANGED <<slots, age, keylife, held>>,
           pc' \in [Requests -> States], lag' \in [Requests -> -MaxAhead..MaxLag],
           Holders' \subseteq Holders
    PROVE  Ind'
<1>1. TypeOK'
  BY DEF Ind, TypeOK
<1>2. \A h \in Holders' : held'[h] < Sure => Safe(h)'
  BY DEF Ind, Safe
<1> QED
  BY <1>1, <1>2 DEF Ind

LEMMA ReleaseStep ==
    ASSUME Ind, NEW r \in Requests, Release(r)
    PROVE  Ind'
<1>1. TypeOK'
  <2>1. slots' \subseteq slots /\ slots \subseteq Requests
    BY DEF Ind, TypeOK, Release
  <2>2. Cardinality(slots') <= Capacity
    BY <2>1, SmallerSets, RequestSets, Constants, SMT DEF Ind, TypeOK
  <2> QED
    BY <2>1, <2>2 DEF Ind, TypeOK, Release, States
<1>2. ASSUME NEW h \in Holders', held'[h] < Sure PROVE Safe(h)'
  <2>1. h # r /\ h \in Holders
    BY DEF Release, Holders, Ind, TypeOK
  <2> QED
    BY <1>2, <2>1 DEF Release, Safe, Ind
<1> QED
  BY <1>1, <1>2 DEF Ind

LEMMA AgainStep ==
    ASSUME Ind, NEW r \in Requests, Again(r)
    PROVE  Ind'
<1>1. TypeOK'
  <2>1. Horizon \in -MaxAhead..Horizon /\ Horizon \in 0..Horizon
    BY Constants, SMT
  <2> QED
    BY <2>1 DEF Ind, TypeOK, Again, States
<1>2. ASSUME NEW h \in Holders', held'[h] < Sure PROVE Safe(h)'
  <2>1. h # r /\ h \in Holders
    BY DEF Again, Holders, Ind, TypeOK
  <2> QED
    BY <1>2, <2>1 DEF Again, Safe, Ind, TypeOK
<1> QED
  BY <1>1, <1>2 DEF Ind

LEMMA TickStep ==
    ASSUME Ind, Tick
    PROVE  Ind'
<1>1. TypeOK'
  <2>1. slots' \subseteq slots /\ slots \subseteq Requests
    BY DEF Ind, TypeOK, Tick
  <2>2. Cardinality(slots') <= Capacity
    BY <2>1, SmallerSets, RequestSets, Constants, SMT DEF Ind, TypeOK
  <2>3. age' \in [Requests -> -MaxAhead..Horizon]
    BY Constants, SMT DEF Ind, TypeOK, Tick, Smaller
  <2>4. held' \in [Requests -> 0..Horizon]
    BY Constants, SMT DEF Ind, TypeOK, Tick, Smaller
  <2>5. lag' \in [Requests -> -MaxAhead..MaxLag]
    BY Constants, SMT DEF Ind, TypeOK, Tick
  <2>6. keylife' \in 0..TTL
    BY Constants, SMT DEF Ind, TypeOK, Tick
  <2> QED
    BY <2>1, <2>2, <2>3, <2>4, <2>5, <2>6 DEF Ind, TypeOK, Tick
<1>2. ASSUME NEW h \in Holders', held'[h] < Sure PROVE Safe(h)'
  <2>1. h \in Holders /\ h \in Requests
    BY DEF Holders, Tick
  <2>2. /\ held'[h] = Smaller(held[h] + 1, Horizon)
        /\ age'[h] = Smaller(age[h] + 1, Horizon)
        /\ held[h] \in Int /\ age[h] \in Int /\ keylife \in Int
    BY <2>1, Constants, SMT DEF Tick, Ind, TypeOK
  <2>3. held'[h] = held[h] + 1
    BY <1>2, <2>2, Constants, SMT DEF Smaller
  <2>4. Safe(h)
    BY <1>2, <2>1, <2>2, <2>3, Constants, SMT DEF Ind
  <2>5. keylife > 1
    BY <1>2, <2>2, <2>3, <2>4, Constants, SMT DEF Safe
  <2>6. slots' = slots /\ keylife' = keylife - 1
    BY <2>2, <2>5, SMT DEF Tick
  <2>7. age'[h] <= age[h] + 1 /\ age'[h] \in Int
    BY <2>2, Constants, SMT DEF Smaller
  <2>8. age'[h] <= held'[h] + MaxLag
    BY <2>2, <2>3, <2>4, <2>7, Constants, SMT DEF Safe
  <2>9. keylife' >= TTL - held'[h]
    BY <2>2, <2>3, <2>4, <2>6, Constants, SMT DEF Safe
  <2> QED
    BY <2>4, <2>6, <2>8, <2>9 DEF Safe
<1> QED
  BY <1>1, <1>2 DEF Ind

LEMMA IndStep == Ind /\ [Next]_vars => Ind'
<1> SUFFICES ASSUME Ind, [Next]_vars PROVE Ind'
  OBVIOUS
<1>1. ASSUME NEW r \in Requests, Step(r) PROVE Ind'
  <2>1. CASE ReadClock(r)
    BY <2>1, QuietStep, Constants, SMT
       DEF ReadClock, Ind, TypeOK, States, Holders
  <2>2. CASE Acquire(r)
    <3> DEFINE state == IF HasRoom(r) THEN "running" ELSE "refused"
    <3>1. state \in States /\ (state \in {"running", "releasing"} => HasRoom(r))
      BY DEF States
    <3> QED
      BY <2>2, <3>1, ScriptStep DEF Acquire
  <2>3. CASE AcquireLost(r)
    <3>1. "open" \in States /\ "open" \notin {"running", "releasing"}
      BY DEF States
    <3> QED
      BY <2>3, <3>1, ScriptStep DEF AcquireLost
  <2>4. CASE AcquireUnreached(r)
    BY <2>4, QuietStep, Constants, SMT
       DEF AcquireUnreached, Ind, TypeOK, States, Holders
  <2>5. CASE Finish(r)
    BY <2>5, QuietStep DEF Finish, Ind, TypeOK, States, Holders
  <2>6. CASE Release(r)
    BY <2>6, ReleaseStep
  <2>7. CASE ReleaseFails(r)
    BY <2>7, QuietStep DEF ReleaseFails, Ind, TypeOK, States, Holders
  <2>8. CASE Crash(r)
    BY <2>8, QuietStep, Constants, SMT DEF Crash, Ind, TypeOK, States, Holders
  <2>9. CASE Retry(r)
    BY <2>9, QuietStep DEF Retry, Ind, TypeOK, States, Holders
  <2>10. CASE Again(r)
    BY <2>10, AgainStep
  <2> QED
    BY <1>1, <2>1, <2>2, <2>3, <2>4, <2>5, <2>6, <2>7, <2>8, <2>9, <2>10 DEF Step
<1>2. CASE Tick
  BY <1>2, TickStep
<1>3. CASE UNCHANGED vars
  BY <1>3, QuietStep DEF vars, Ind, TypeOK, Holders
<1> QED
  BY <1>1, <1>2, <1>3 DEF Next

LEMMA IndImplies == Ind => TypeOK /\ SlotKept /\ CapHolds
<1> SUFFICES ASSUME Ind PROVE TypeOK /\ SlotKept /\ CapHolds
  OBVIOUS
<1>1. TypeOK /\ SlotKept
  BY DEF Ind, Safe, SlotKept
<1>2. CapHolds
  <2> DEFINE F == {r \in Holders : held[r] < Sure}
  <2>1. F \subseteq slots /\ slots \subseteq Requests
    BY <1>1 DEF SlotKept, TypeOK
  <2>2. Cardinality(F) <= Cardinality(slots) /\ Cardinality(slots) <= Capacity
        /\ Cardinality(F) \in Nat /\ Cardinality(slots) \in Nat
    BY <1>1, <2>1, SmallerSets, RequestSets DEF TypeOK
  <2>3. Cardinality(F) <= Capacity
    BY <2>2, Constants, SMT
  <2> QED
    BY <2>3 DEF CapHolds
<1> QED
  BY <1>1, <1>2

LEMMA IndInvariant == Spec => []Ind
<1> QED
  BY IndInit, IndStep, PTL DEF Spec

\* The sorted set never has more than Capacity members.
THEOREM SemaphoreTypeCorrect == Spec => []TypeOK
BY IndInvariant, IndImplies, PTL

\* No slot is taken from a request that has not outrun it.
THEOREM SlotsAreKept == Spec => []SlotKept
BY IndInvariant, IndImplies, PTL

\* No more than Capacity requests that got a slot and have not outrun it run.
THEOREM CapIsRespected == Spec => []CapHolds
BY IndInvariant, IndImplies, PTL

-----------------------------------------------------------------------------
\* What is known of every member of the set, also of one whose request is over:
\* its score and its true age differ by no more than the clocks and the way to
\* Redis, the key lives until the member's time is up, and it was granted.
SlotOK(r) ==
    /\ age[r] <= held[r] + MaxLag
    /\ held[r] <= age[r] + MaxAhead
    /\ keylife >= TTL - held[r]
    /\ pc[r] \in {"running", "releasing", "open", "served", "crashed"}

SlotInd == \A r \in slots : SlotOK(r)

\* The script leaves what is known of the members it keeps, and makes it true of
\* the one it adds.
LEMMA ScriptKeepsSlots ==
    ASSUME TypeOK, SlotInd, NEW r \in Requests, pc[r] = "acquiring", AcquireScript(r),
           NEW state \in States, pc' = [pc EXCEPT ![r] = state],
           HasRoom(r) => state \in {"running", "open"}
    PROVE  SlotInd'
<1> SUFFICES ASSUME NEW s \in slots' PROVE SlotOK(s)'
  BY DEF SlotInd
<1>1. keylife' = TTL /\ r \notin slots
  BY DEF AcquireScript, SlotInd, SlotOK
<1>2. CASE s # r
  <2>1. s \in slots /\ s \in Requests
    BY <1>2 DEF AcquireScript, TypeOK
  <2>2. age'[s] = age[s] /\ held'[s] = held[s] /\ pc'[s] = pc[s]
    BY <1>2, <2>1 DEF AcquireScript, TypeOK
  <2>3. held[s] \in Int /\ held[s] >= 0
    BY <2>1, Constants, SMT DEF TypeOK
  <2>4. keylife' >= TTL - held'[s]
    BY <1>1, <2>2, <2>3, Constants, SMT
  <2> QED
    BY <2>1, <2>2, <2>4 DEF SlotInd, SlotOK
<1>3. CASE s = r
  <2>1. HasRoom(r)
    BY <1>1, <1>3 DEF AcquireScript
  <2>2. age'[r] = lag[r] /\ held'[r] = 0 /\ pc'[r] = state
    BY <2>1 DEF AcquireScript, TypeOK
  <2>3. lag[r] \in Int /\ -MaxAhead <= lag[r] /\ lag[r] <= MaxLag
    BY Constants, SMT DEF TypeOK
  <2>4. state \in {"running", "open"}
    BY <2>1
  <2> QED
    BY <1>1, <1>3, <2>2, <2>3, <2>4, Constants, SMT DEF SlotOK
<1> QED
  BY <1>2, <1>3

LEMMA SlotIndStep == TypeOK /\ SlotInd /\ [Next]_vars => SlotInd'
<1> SUFFICES ASSUME TypeOK, SlotInd, [Next]_vars PROVE SlotInd'
  OBVIOUS
<1>1. ASSUME NEW r \in Requests, Step(r) PROVE SlotInd'
  <2> DEFINE granted == {"running", "releasing", "open", "served", "crashed"}
  <2>1. CASE Acquire(r)
    <3> DEFINE state == IF HasRoom(r) THEN "running" ELSE "refused"
    <3>1. state \in States /\ (HasRoom(r) => state \in {"running", "open"})
      BY DEF States
    <3> QED
      BY <2>1, <3>1, ScriptKeepsSlots DEF Acquire
  <2>2. CASE AcquireLost(r)
    <3>1. "open" \in States
      BY DEF States
    <3> QED
      BY <2>2, <3>1, ScriptKeepsSlots DEF AcquireLost
  <2>3. ASSUME slots' \subseteq slots, UNCHANGED <<age, keylife, held>>,
               \A s \in slots' : pc[s] \in granted => pc'[s] \in granted
        PROVE SlotInd'
    BY <2>3 DEF SlotInd, SlotOK
  <2>4. CASE ReadClock(r)
    BY <2>3, <2>4 DEF ReadClock, SlotInd, SlotOK, TypeOK
  <2>5. CASE AcquireUnreached(r)
    BY <2>3, <2>5 DEF AcquireUnreached, TypeOK
  <2>6. CASE Finish(r)
    BY <2>3, <2>6 DEF Finish, TypeOK
  <2>7. CASE Release(r)
    BY <2>3, <2>7 DEF Release, TypeOK
  <2>8. CASE ReleaseFails(r)
    BY <2>3, <2>8 DEF ReleaseFails, TypeOK
  <2>9. CASE Crash(r)
    BY <2>3, <2>9 DEF Crash, TypeOK
  <2>10. CASE Retry(r)
    BY <2>3, <2>10 DEF Retry, SlotInd, SlotOK, TypeOK
  <2>11. CASE Again(r)
    BY <2>11 DEF Again, SlotInd, SlotOK, TypeOK
  <2> QED
    BY <1>1, <2>1, <2>2, <2>4, <2>5, <2>6, <2>7, <2>8, <2>9, <2>10, <2>11 DEF Step
<1>2. CASE Tick
  <2> SUFFICES ASSUME NEW s \in slots' PROVE SlotOK(s)'
    BY DEF SlotInd
  <2>1. s \in slots /\ s \in Requests /\ keylife # 1
    BY <1>2 DEF Tick, TypeOK
  <2>2. age[s] \in Int /\ held[s] \in Int /\ keylife \in Nat
        /\ age[s] <= Horizon /\ held[s] <= Horizon /\ SlotOK(s)
    BY <2>1, Constants, SMT DEF TypeOK, SlotInd
  <2>3. age'[s] = Smaller(age[s] + 1, Horizon) /\ held'[s] = Smaller(held[s] + 1, Horizon)
    BY <1>2, <2>1 DEF Tick
  <2>4. age'[s] <= held'[s] + MaxLag /\ held'[s] <= age'[s] + MaxAhead
    BY <2>2, <2>3, Constants, SMT DEF Smaller, SlotOK
  <2>5. keylife' = (IF keylife > 0 THEN keylife - 1 ELSE keylife) /\ pc' = pc
    BY <1>2 DEF Tick
  <2>6. keylife' >= TTL - held'[s]
    BY <2>1, <2>2, <2>3, <2>5, Constants, SMT DEF Smaller, SlotOK, Horizon
  <2> QED
    BY <2>2, <2>4, <2>5, <2>6 DEF SlotOK
<1>3. CASE UNCHANGED vars
  BY <1>3 DEF vars, SlotInd, SlotOK
<1> QED
  BY <1>1, <1>2, <1>3 DEF Next

LEMMA SlotInvariant == Spec => [](TypeOK /\ SlotInd)
<1>1. Init => SlotInd
  BY DEF Init, SlotInd
<1> QED
  BY <1>1, SlotIndStep, SemaphoreTypeCorrect, PTL DEF Spec

-----------------------------------------------------------------------------
\* What a run of the script that finds no room leaves: Capacity members, each of
\* them younger than Horizon.
LEMMA NoRoom ==
    ASSUME TypeOK, SlotInd, NEW r \in Requests, ~HasRoom(r)
    PROVE  /\ Cardinality(slots \ Stale(r)) >= Capacity
           /\ \A s \in slots \ Stale(r) : held[s] < Horizon
<1>1. Cardinality(slots \ Stale(r)) \in Nat
  BY RequestSets DEF TypeOK
<1>2. Cardinality(slots \ Stale(r)) >= Capacity
  BY <1>1, Constants, SMT DEF HasRoom
<1>3. ASSUME NEW s \in slots \ Stale(r) PROVE held[s] < Horizon
  <2>1. s \in slots /\ s \in Requests /\ ~(age[s] >= TTL + lag[r])
    BY <1>3 DEF Stale, TypeOK
  <2>2. held[s] <= age[s] + MaxAhead
    BY <2>1 DEF SlotInd, SlotOK
  <2>3. lag[r] <= MaxLag /\ lag[r] \in Int /\ age[s] \in Int /\ held[s] \in Int
    BY <2>1, Constants, SMT DEF TypeOK
  <2> QED
    BY <2>1, <2>2, <2>3, Constants, SMT DEF Horizon
<1> QED
  BY <1>2, <1>3

\* A member the cutoff of a request evicts has had its time.
LEMMA StaleHadTime ==
    ASSUME TypeOK, SlotInd, NEW r \in Requests, NEW s \in Stale(r)
    PROVE  held[s] >= Sure
<1>1. s \in slots /\ s \in Requests /\ age[s] >= TTL + lag[r]
  BY DEF Stale, TypeOK
<1>2. age[s] <= held[s] + MaxLag
  BY <1>1 DEF SlotInd, SlotOK
<1>3. lag[r] >= -MaxAhead /\ lag[r] \in Int /\ age[s] \in Int /\ held[s] \in Int
  BY <1>1, Constants, SMT DEF TypeOK
<1> QED
  BY <1>1, <1>2, <1>3, Constants, SMT DEF Sure

LEMMA RefusalStep ==
    ASSUME TypeOK, SlotInd, [Next]_vars, NEW r \in Requests,
           pc[r] = "acquiring", pc'[r] = "refused"
    PROVE  Cardinality({s \in slots' : held[s] < Horizon}) >= Capacity
<1>1. Acquire(r)
  <2>1. PICK q \in Requests : Step(q)
    BY DEF Next, Tick, vars
  <2>2. q = r
    BY <2>1 DEF Step, ReadClock, Acquire, AcquireLost, AcquireUnreached, Finish,
                Release, ReleaseFails, Crash, Retry, Again, TypeOK
  <2> QED
    BY <2>1, <2>2 DEF Step, ReadClock, AcquireLost, AcquireUnreached, Finish,
                      Release, ReleaseFails, Crash, Retry, Again, TypeOK
<1>2. ~HasRoom(r)
  BY <1>1 DEF Acquire, TypeOK
<1>3. slots' = slots \ Stale(r)
  BY <1>1, <1>2 DEF Acquire, AcquireScript
<1>4. {s \in slots' : held[s] < Horizon} = slots \ Stale(r)
  BY <1>2, <1>3, NoRoom
<1> QED
  BY <1>2, <1>4, NoRoom

\* A request is refused only on account of Capacity slots that were taken less than
\* a time to live ago, give or take the clocks, whatever crashed or got lost.
THEOREM RefusalsAreJustified == Spec => RefusalJustified
<1>1. TypeOK /\ SlotInd /\ [Next]_vars
        => [\A r \in Requests : pc[r] = "acquiring" /\ pc'[r] = "refused"
              => Cardinality({s \in slots' : held[s] < Horizon}) >= Capacity]_vars
  BY RefusalStep
<1> QED
  BY <1>1, SlotInvariant, PTL DEF Spec, RefusalJustified

-----------------------------------------------------------------------------
\* Who may be a member when no reply is lost and no release fails.
Owned == \A s \in slots : pc[s] \in {"running", "releasing", "crashed"}

LEMMA OwnedStep ==
    ASSUME "lost" \notin Faults, "release" \notin Faults,
           TypeOK, Owned, [Next]_vars
    PROVE  Owned'
<1>1. ASSUME NEW r \in Requests, Step(r) PROVE Owned'
  <2>1. CASE Acquire(r)
    BY <2>1 DEF Acquire, AcquireScript, Owned, TypeOK
  <2>2. CASE ReadClock(r) \/ AcquireUnreached(r) \/ Finish(r) \/ Crash(r) \/ Retry(r)
    BY <2>2 DEF ReadClock, AcquireUnreached, Finish, Crash, Retry, Owned, TypeOK
  <2>3. CASE Release(r)
    BY <2>3 DEF Release, Owned, TypeOK
  <2>4. CASE Again(r)
    BY <2>4 DEF Again, Owned, TypeOK
  <2> QED
    BY <1>1, <2>1, <2>2, <2>3, <2>4 DEF Step, AcquireLost, ReleaseFails
<1>2. CASE Tick
  BY <1>2 DEF Tick, Owned
<1>3. CASE UNCHANGED vars
  BY <1>3 DEF vars, Owned
<1> QED
  BY <1>1, <1>2, <1>3 DEF Next

\* No slot outlives its request in a system that loses no reply and fails no
\* release, whatever else happens.
THEOREM NoSlotIsOrphaned ==
    ASSUME "lost" \notin Faults, "release" \notin Faults
    PROVE  Spec => []NoOrphans
<1>1. Init => Owned
  BY DEF Init, Owned
<1>2. TypeOK /\ Owned /\ [Next]_vars => Owned'
  BY OwnedStep
<1>3. Owned => NoOrphans
  BY DEF Owned, NoOrphans
<1> QED
  BY <1>1, <1>2, <1>3, SemaphoreTypeCorrect, PTL DEF Spec

-----------------------------------------------------------------------------
\* The leases of the abstract pool.
Out == [r \in slots |-> held[r]]

\* The abstract module counts as this one does.
LEMMA SameCardinality == \A S : Leases!Cardinality(S) = Cardinality(S)
BY DEF Leases!Cardinality, Cardinality

\* A run of the script with room is a Grant, one without leaves the leases of K.
LEMMA ScriptGrants ==
    ASSUME TypeOK, SlotInd, NEW r \in Requests, pc[r] = "acquiring",
           AcquireScript(r), HasRoom(r),
           Told' \in {Told, [Told EXCEPT ![r] = "granted"]}
    PROVE  Leases!Grant(r)
<1> DEFINE K == slots \ Stale(r)
<1>1. r \notin slots /\ Told[r] = "none"
  BY DEF SlotInd, SlotOK, Told
<1>2. DOMAIN Out = slots
  BY DEF Out
<1>3. K \in SUBSET slots /\ \A c \in slots \ K : Out[c] >= Sure
  BY StaleHadTime DEF Out
<1>4. slots' = K \cup {r} /\ held' = [held EXCEPT ![r] = 0]
  BY DEF AcquireScript
<1>5. Out' = [d \in K \cup {r} |-> IF d = r THEN 0 ELSE Out[d]]
  BY <1>1, <1>4 DEF Out, TypeOK
<1>6. Cardinality(K) < Capacity
  BY DEF HasRoom
<1>7. Leases!Cardinality(K) < Capacity
  BY <1>6, SameCardinality
<1> HIDE DEF K
<1> QED
  BY <1>1, <1>2, <1>3, <1>5, <1>7 DEF Leases!Grant, Leases!Kept, Out

LEMMA ScriptTakesBack ==
    ASSUME TypeOK, SlotInd, NEW r \in Requests, pc[r] = "acquiring",
           AcquireScript(r), ~HasRoom(r)
    PROVE  \E K \in Leases!Kept :
              /\ Cardinality({d \in K : Out[d] < Horizon}) >= Capacity
              /\ Out' = [d \in K |-> Out[d]]
<1> DEFINE K == slots \ Stale(r)
<1>1. r \notin slots
  BY DEF SlotInd, SlotOK
<1>2. K \in Leases!Kept
  BY StaleHadTime DEF Leases!Kept, Out
<1>3. slots' = K /\ held' = [held EXCEPT ![r] = 0]
  BY DEF AcquireScript
<1>4. Out' = [d \in K |-> Out[d]]
  BY <1>1, <1>3 DEF Out, TypeOK
<1>5. {d \in K : Out[d] < Horizon} = K
  BY NoRoom DEF Out
<1>6. Cardinality(K) >= Capacity
  BY NoRoom
<1> QED
  BY <1>2, <1>4, <1>5, <1>6

LEMMA TickTakesBack ==
    ASSUME TypeOK, SlotInd, Tick
    PROVE  Leases!Tick
<1>1. Told' = Told
  BY DEF Tick, Told
<1>2. \A c \in slots : held[c] \in Nat /\ held[c] <= Horizon
  BY Constants, SMT DEF TypeOK
<1>3. \A c \in slots : held'[c] = IF held[c] < Horizon THEN held[c] + 1 ELSE Horizon
  BY <1>2, Constants, SMT DEF Tick, TypeOK, Smaller
<1>4. slots' \in SUBSET slots
  BY DEF Tick
<1>5. \A c \in slots \ slots' : held[c] + 1 >= Sure
  <2> SUFFICES ASSUME NEW c \in slots \ slots' PROVE held[c] + 1 >= Sure
    OBVIOUS
  <2>1. keylife = 1 /\ keylife >= TTL - held[c]
    BY DEF Tick, SlotInd, SlotOK
  <2> QED
    BY <2>1, <1>2, Constants, SMT
<1>6. Out' = [c \in slots' |-> IF Out[c] < Horizon THEN Out[c] + 1 ELSE Horizon]
  BY <1>3, <1>4 DEF Out
<1>7. DOMAIN Out = slots /\ \A c \in slots : Out[c] = held[c]
  BY DEF Out
<1> QED
  BY <1>1, <1>4, <1>5, <1>6, <1>7 DEF Leases!Tick, Out

LEMMA StepImplements ==
    ASSUME TypeOK, SlotInd, [Next]_vars
    PROVE  [Leases!Next]_(Leases!vars)
<1>1. ASSUME NEW r \in Requests, Step(r) PROVE [Leases!Next]_(Leases!vars)
  <2>1. CASE Acquire(r)
    <3>1. CASE HasRoom(r)
      <4>1. Told' = [Told EXCEPT ![r] = "granted"]
        BY <2>1, <3>1 DEF Acquire, Told, TypeOK
      <4> QED
        BY <2>1, <3>1, <4>1, ScriptGrants DEF Acquire, Leases!Next
    <3>2. CASE ~HasRoom(r)
      <4>1. Told' = [Told EXCEPT ![r] = "refused"] /\ Told[r] = "none"
        BY <2>1, <3>2 DEF Acquire, Told, TypeOK
      <4>2. Leases!Refuse(r)
        BY <2>1, <3>2, <4>1, ScriptTakesBack, SameCardinality
           DEF Acquire, Leases!Refuse, Out
      <4> QED
        BY <4>2 DEF Leases!Next
    <3> QED
      BY <3>1, <3>2
  <2>2. CASE AcquireLost(r)
    <3>1. Told' = Told
      BY <2>2 DEF AcquireLost, Told, TypeOK
    <3>2. CASE HasRoom(r)
      BY <2>2, <3>1, <3>2, ScriptGrants DEF AcquireLost, Leases!Next
    <3>3. CASE ~HasRoom(r)
      <4>1. Leases!TakeBack
        BY <2>2, <3>1, <3>3, ScriptTakesBack DEF AcquireLost, Leases!TakeBack, Out
      <4> QED
        BY <4>1 DEF Leases!Next
    <3> QED
      BY <3>2, <3>3
  <2>3. CASE ReadClock(r) \/ AcquireUnreached(r) \/ Finish(r)
    <3>1. Told' = Told
      BY <2>3 DEF ReadClock, AcquireUnreached, Finish, Told, TypeOK
    <3>2. Out' = Out
      BY <2>3 DEF ReadClock, AcquireUnreached, Finish, Out
    <3> QED
      BY <3>1, <3>2 DEF Leases!vars, Out
  <2>4. CASE Release(r)
    <3>1. Told[r] = "granted" /\ Told' = [Told EXCEPT ![r] = "none"]
      BY <2>4 DEF Release, Told, TypeOK
    <3>2. Out' = [d \in DOMAIN Out \ {r} |-> Out[d]]
      BY <2>4 DEF Release, Out
    <3>3. Leases!GiveBack(r)
      BY <3>1, <3>2 DEF Leases!GiveBack, Out
    <3> QED
      BY <3>3 DEF Leases!Next
  <2>5. CASE ReleaseFails(r) \/ Crash(r) \/ Retry(r)
    <3>1. Out' = Out
      BY <2>5 DEF ReleaseFails, Crash, Retry, Out
    <3>2. Told' = [Told EXCEPT ![r] = "none"]
      BY <2>5 DEF ReleaseFails, Crash, Retry, Told, TypeOK
    <3>3. CASE Told[r] # "none"
      <4>1. Leases!Forget(r)
        BY <3>1, <3>2, <3>3 DEF Leases!Forget, Out
      <4> QED
        BY <4>1 DEF Leases!Next
    <3>4. CASE Told[r] = "none"
      BY <3>1, <3>2, <3>4 DEF Leases!vars, Out, Told
    <3> QED
      BY <3>3, <3>4
  <2>6. CASE Again(r)
    <3>1. Told' = Told
      BY <2>6 DEF Again, Told, TypeOK
    <3>2. Out' = Out
      BY <2>6 DEF Again, Out, TypeOK
    <3> QED
      BY <3>1, <3>2 DEF Leases!vars, Out
  <2> QED
    BY <1>1, <2>1, <2>2, <2>3, <2>4, <2>5, <2>6 DEF Step
<1>2. CASE Tick
  BY <1>2, TickTakesBack DEF Leases!Next
<1>3. CASE UNCHANGED vars
  BY <1>3 DEF vars, Leases!vars, Told
<1> QED
  BY <1>1, <1>2, <1>3 DEF Next

\* Whatever the clocks and the faults do, the semaphore is a pool of leases that
\* are good for Sure and stand in others' way for Horizon at most.
THEOREM SemaphoreImplementsLeases == Spec => ImplementsLeases
<1>1. Init => Leases!Init
  BY DEF Init, Leases!Init, Told
<1>2. TypeOK /\ SlotInd /\ [Next]_vars => [Leases!Next]_(Leases!vars)
  BY StepImplements
<1> QED
  BY <1>1, <1>2, SlotInvariant, PTL DEF Spec, ImplementsLeases, Leases!Spec
====
