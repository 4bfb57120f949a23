---- MODULE ConcurrencySemaphore ----
(***************************************************************************)
(* One tenant's concurrency semaphore                                      *)
(* (billing/infrastructure/concurrency_semaphore.py) with the middleware   *)
(* that takes and gives back its slots around a heavy request.             *)
(*                                                                         *)
(* Three clocks meet here: the score of a slot and the cutoff are readings *)
(* of the clock of whichever application host serves the request, taken    *)
(* before the script runs; the life of the key is counted by Redis.  Only  *)
(* differences of times matter, so every instant is kept as its distance   *)
(* from the present and a Tick moves all of them.  The state is finite     *)
(* without a bound on time.                                                *)
(***************************************************************************)
EXTENDS Integers, FiniteSets

CONSTANTS
    Requests,   \* heavy requests of the tenant the set and the workers hold at
                \* most; a request stands for its slot_id
    Capacity,   \* the plan's max_concurrency
    TTL,        \* SLOT_TTL_SECONDS, in ticks
    MaxAhead,   \* bound: a host's clock runs ahead of the true time by at most this
    MaxBehind,  \* bound: ... and behind it by at most this
    MaxLag,     \* bound: `now` is behind the true time by at most this when the
                \* script runs (a slow host clock and the way to Redis)
    Faults      \* what may go wrong: subset of the four kinds below

ASSUME SemaphoreAssumption ==
    /\ IsFiniteSet(Requests)
    /\ Capacity \in Nat \ {0}
    /\ TTL \in Nat \ {0}
    /\ MaxAhead \in Nat
    /\ MaxBehind \in Nat
    /\ MaxLag \in Nat /\ MaxBehind <= MaxLag
    /\ Faults \subseteq {"crash", "unreached", "lost", "release"}

VARIABLES
    slots,     \* members of the sorted set billing:concurrency:<tenant>
    age,       \* how far the score of a member lies in the past
    keylife,   \* what is left of the key's time to live
    pc,        \* where each request is
    lag,       \* how far `now`, as read by a request, lies in the past
    held       \* history: time since the script last ran for a request

vars == <<slots, age, keylife, pc, lag, held>>

States == {"idle", "acquiring", "running", "open", "releasing",
           "refused", "served", "crashed"}

Smaller(a, b) == IF a <= b THEN a ELSE b

\* Ages are counted up to Horizon, where every cutoff has passed them.
Horizon == TTL + MaxAhead + MaxLag

Init ==
    /\ slots = {}
    /\ age = [r \in Requests |-> Horizon]
    /\ keylife = 0
    /\ pc = [r \in Requests |-> "idle"]
    /\ lag = [r \in Requests |-> 0]
    /\ held = [r \in Requests |-> Horizon]

\* Members with score <= now - TTL, for the `now` of request r.
Stale_Never(r) == {}
Stale_CutoffNow(r) == {s \in slots : age[s] >= lag[r]}
Stale(r) == {s \in slots : age[s] >= TTL + lag[r]}

HasRoom_OffByOne(r) == Cardinality(slots \ Stale(r)) <= Capacity
HasRoom(r) == Cardinality(slots \ Stale(r)) < Capacity

\* The effect of the script: evict, then ZADD if there is room, then EXPIRE.
AcquireScript_NoExpire(r) ==
    /\ slots' = (slots \ Stale(r)) \cup (IF HasRoom(r) THEN {r} ELSE {})
    /\ age' = IF HasRoom(r) THEN [age EXCEPT ![r] = lag[r]] ELSE age
    /\ UNCHANGED keylife
    /\ held' = [held EXCEPT ![r] = 0]

AcquireScript_ExpireOnce(r) ==
    /\ slots' = (slots \ Stale(r)) \cup (IF HasRoom(r) THEN {r} ELSE {})
    /\ age' = IF HasRoom(r) THEN [age EXCEPT ![r] = lag[r]] ELSE age
    /\ keylife' = IF keylife = 0 THEN TTL ELSE keylife
    /\ held' = [held EXCEPT ![r] = 0]

AcquireScript(r) ==
    /\ slots' = (slots \ Stale(r)) \cup (IF HasRoom(r) THEN {r} ELSE {})
    /\ age' = IF HasRoom(r) THEN [age EXCEPT ![r] = lag[r]] ELSE age
    /\ keylife' = TTL
    /\ held' = [held EXCEPT ![r] = 0]

\* acquire() up to the EVAL: `now` is read from the host's clock.
ReadClock(r) ==
    /\ pc[r] = "idle"
    /\ \E l \in -MaxAhead..MaxBehind : lag' = [lag EXCEPT ![r] = l]
    /\ pc' = [pc EXCEPT ![r] = "acquiring"]
    /\ UNCHANGED <<slots, age, keylife, held>>

\* The script runs and its reply arrives: go on to the view, or answer 429.
Acquire(r) ==
    /\ pc[r] = "acquiring"
    /\ AcquireScript(r)
    /\ pc' = [pc EXCEPT ![r] = IF HasRoom(r) THEN "running" ELSE "refused"]
    /\ lag' = [lag EXCEPT ![r] = 0]

\* The script runs but its reply is lost: acquire() raises, the middleware
\* fails open and has no handle to release.
AcquireLost(r) ==
    /\ "lost" \in Faults
    /\ pc[r] = "acquiring"
    /\ AcquireScript(r)
    /\ pc' = [pc EXCEPT ![r] = "open"]
    /\ lag' = [lag EXCEPT ![r] = 0]

\* Redis is not reached: the middleware fails open.
AcquireUnreached(r) ==
    /\ "unreached" \in Faults
    /\ pc[r] = "acquiring"
    /\ pc' = [pc EXCEPT ![r] = "open"]
    /\ lag' = [lag EXCEPT ![r] = 0]
    /\ UNCHANGED <<slots, age, keylife, held>>

\* The view returns or raises: the finally block is next, except for a request
\* that failed open.
Finish_NoFinally(r) ==
    /\ pc[r] \in {"running", "open"}
    /\ pc' = [pc EXCEPT ![r] = "served"]
    /\ UNCHANGED <<slots, age, keylife, lag, held>>

Finish(r) ==
    /\ pc[r] \in {"running", "open"}
    /\ pc' = [pc EXCEPT ![r] = IF @ = "running" THEN "releasing" ELSE "served"]
    /\ UNCHANGED <<slots, age, keylife, lag, held>>

\* release(): ZREM, a no-op if the slot was evicted.
Release(r) ==
    /\ pc[r] = "releasing"
    /\ slots' = slots \ {r}
    /\ pc' = [pc EXCEPT ![r] = "served"]
    /\ UNCHANGED <<age, keylife, lag, held>>

\* release() raises before Redis sees it; the middleware logs and goes on.
ReleaseFails(r) ==
    /\ "release" \in Faults
    /\ pc[r] = "releasing"
    /\ pc' = [pc EXCEPT ![r] = "served"]
    /\ UNCHANGED <<slots, age, keylife, lag, held>>

\* The worker dies; nothing runs its finally block.
Crash(r) ==
    /\ "crash" \in Faults
    /\ pc[r] \in {"acquiring", "running", "open", "releasing"}
    /\ pc' = [pc EXCEPT ![r] = "crashed"]
    /\ lag' = [lag EXCEPT ![r] = 0]
    /\ UNCHANGED <<slots, age, keylife, held>>

\* A client answered 429 tries again.  Its slot_id was never stored, so it may
\* stand for the fresh one too.
Retry(r) ==
    /\ pc[r] = "refused"
    /\ pc' = [pc EXCEPT ![r] = "idle"]
    /\ UNCHANGED <<slots, age, keylife, lag, held>>

\* A later request of the tenant, with a fresh slot_id: one that is over makes way
\* for it, its times forgotten, as soon as the set no longer has its slot.
Again(r) ==
    /\ pc[r] \in {"served", "crashed"}
    /\ r \notin slots
    /\ pc' = [pc EXCEPT ![r] = "idle"]
    /\ age' = [age EXCEPT ![r] = Horizon]
    /\ held' = [held EXCEPT ![r] = Horizon]
    /\ UNCHANGED <<slots, keylife, lag>>

\* Time passes; Redis drops the key, members and all, when its life is over.
Tick ==
    /\ \A r \in Requests : pc[r] = "acquiring" => lag[r] < MaxLag
    /\ keylife' = IF keylife > 0 THEN keylife - 1 ELSE keylife
    /\ slots' = IF keylife = 1 THEN {} ELSE slots
    /\ age' = [r \in Requests |-> Smaller(age[r] + 1, Horizon)]
    /\ held' = [r \in Requests |-> Smaller(held[r] + 1, Horizon)]
    /\ lag' = [r \in Requests |-> IF pc[r] = "acquiring" THEN lag[r] + 1 ELSE lag[r]]
    /\ UNCHANGED pc

Step(r) ==
    \/ ReadClock(r) \/ Acquire(r) \/ AcquireLost(r) \/ AcquireUnreached(r)
    \/ Finish(r) \/ Release(r) \/ ReleaseFails(r) \/ Crash(r) \/ Retry(r)
    \/ Again(r)

Next == Tick \/ \E r \in Requests : Step(r)

\* Time passes, however busily clients retry (a Tick waits for a request whose
\* way to Redis has taken all of MaxLag, so this is strong fairness); a request
\* the middleware works on gets on with acquire(); a client answered 429
\* retries.  Nothing makes a view return: it may hang.  Nothing makes the tenant
\* send another request either, and nothing keeps it from sending them for ever.
Fairness ==
    /\ SF_vars(Tick)
    /\ \A r \in Requests :
        /\ WF_vars(Acquire(r) \/ AcquireLost(r) \/ AcquireUnreached(r))
        /\ WF_vars(ReadClock(r))
        /\ WF_vars(Retry(r))

Spec == Init /\ [][Next]_vars
FairSpec == Spec /\ Fairness

-----------------------------------------------------------------------------

TypeOK ==
    /\ slots \subseteq Requests /\ Cardinality(slots) <= Capacity
    /\ age \in [Requests -> -MaxAhead..Horizon]
    /\ keylife \in 0..TTL
    /\ pc \in [Requests -> States]
    /\ lag \in [Requests -> -MaxAhead..MaxLag]
    /\ held \in [Requests -> 0..Horizon]

\* The requests whose view may be running on the strength of a slot.
Holders == {r \in Requests : pc[r] \in {"running", "releasing"}}

\* How long a request may run and be sure of its slot: the time to live less
\* what two hosts' clocks and the way to Redis can take from it.
Sure == TTL - MaxAhead - MaxLag

\* At most Capacity requests that got a slot are in flight, counting those that
\* have not outrun their slot (concurrency_semaphore.py: "two concurrent callers
\* cannot both see one slot free and both pass"), whatever crashes, lost replies,
\* failed releases and skewed clocks there are.
CapHolds == Cardinality({r \in Holders : held[r] < Sure}) <= Capacity

\* A request that has not outrun its slot still has it: no other host's cutoff,
\* and no expiry of the key, takes it away.
SlotKept == \A r \in Holders : held[r] < Sure => r \in slots

\* A request is refused only on account of Capacity slots that were taken within
\* the last TTL, give or take the clocks: crashed holders do not count for longer
\* ("the semaphore is self-healing; no operator intervention needed").
RefusalJustified ==
    [][\A r \in Requests :
        pc[r] = "acquiring" /\ pc'[r] = "refused"
            => Cardinality({s \in slots' : held[s] < Horizon}) >= Capacity]_vars

\* No slot outlives its request ("the slot is released even if the view raises"),
\* also when other requests fail open or their workers die.  For a system in which
\* no reply is lost and no release fails: acquire() stands before the try, so a slot
\* whose reply is lost is left to the TTL.
NoOrphans == \A s \in slots : pc[s] # "served"

\* Some other request of the tenant than r is given a slot.
OtherGetsSlot(r) == \E s \in Requests \ {r} : s \notin slots /\ s \in slots'

\* A client that keeps retrying is turned away for ever only if other requests of
\* its tenant are given slots again and again (there is no queue, so they may be
\* ahead of it each time): holders that have crashed or hang for ever are not
\* enough, though each retry renews the life of the key ("a crashed worker
\* self-heals ... no operator intervention needed").
RetryAdmitted ==
    \A r \in Requests :
        []<>(pc[r] = "refused") => []<><<OtherGetsSlot(r)>>_vars

AllOver == \A r \in Requests : pc[r] \in {"served", "crashed"}

\* Once a tenant has no request any more its key disappears, whatever slots the
\* crashed ones left ("so an idle tenant's semaphore key doesn't leak memory
\* forever").
KeyGoes == <>[]AllOver => <>[](slots = {})

\* What a client of the semaphore knows of it.
Told == [r \in Requests |->
    CASE pc[r] \in {"running", "releasing"} -> "granted"
      [] pc[r] = "refused" -> "refused"
      [] OTHER -> "none"]

\* The semaphore with its clocks, sorted set and key is a pool of leases that are
\* good for Sure and stand in others' way for Horizon at most: that is the promise to
\* a caller of acquire, whatever the three clocks and the four kinds of fault do.
Leases == INSTANCE LeasePool WITH
    Clients <- Requests, MinLife <- Sure, MaxLife <- Horizon,
    lease <- [r \in slots |-> held[r]], answer <- Told
ImplementsLeases == Leases!Spec
====
