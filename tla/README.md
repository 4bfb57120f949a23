# Multi-Tenant-Billing in TLA+

A verification project for the billing service under `src/`: a Django API in front of
one Redis, with two admission gates per tenant (a token bucket and a concurrency
semaphore), an idempotent event store, and a two-phase "calculate, then generate" invoice
flow. All state that matters lives in Redis; all concurrency comes from many workers
running short sequences of Redis commands. That is what the modules here describe.

Contents: [inventory](#1-the-system) - [modules](#2-modules) - [runs](#3-what-tlc-checks) -
[findings](#4-where-the-code-and-its-comments-disagree) - [proofs](#5-what-tlaps-proves) -
[not modelled](#6-what-is-not-modelled) - [plan](#7-plan).

## 1. The system

```
 client --> RateLimitMiddleware --> ConcurrencyMiddleware --> view --> use case --> Redis
              | EVAL (token_bucket)   | EVAL / ZREM                    SET NX, XADD,
              v                       v (concurrency_semaphore)        XLEN, HGET, HSET, ...
        billing:ratelimit:T     billing:concurrency:T
```

| Part | Source (`src/billing/...`) | State | Operations | What makes it correct |
|---|---|---|---|---|
| Token bucket | `infrastructure/token_bucket.py` | hash `billing:ratelimit:T` (tokens, last_refill), expiry one hour after the last touch | `consume`: one Lua script on Redis's own clock | no window grants more than burst + rate x time; a client that waits its Retry-After finds its tokens, but for what a clock set back takes; expiry is invisible |
| Rate-limit policy | `application/rate_limiter.py`, `interfaces/.../middleware.py` (`RateLimitMiddleware`) | cost table | `check_and_consume`; 429 with Retry-After; fail open | cheap calls cannot starve dear ones (claimed) |
| Concurrency semaphore | `infrastructure/concurrency_semaphore.py`, `middleware.py` (`ConcurrencyMiddleware`) | sorted set `billing:concurrency:T`: slot -> host time | `acquire` (Lua), view, `release` in `finally`; fail open | at most `max_concurrency` in flight; no live holder evicted; crashed holders reclaimed; nobody locked out by crashed or hanging holders (there is no queue: other requests of the tenant may be ahead for ever) |
| Event repository | `infrastructure/event_repository.py`, `application/ingest_event.py` | markers `billing:idem:T:key` (7 days), stream `billing:events:T` | claim (`SET NX EX`), then `XADD` | counted once; nothing lost |
| Billing calculator | `application/billing_calculator.py` | draft hash `billing:invoice:T:id` (1 hour) | XLEN, HGET, HSET, EXPIRE | drafts expire; the quote is what was computed |
| Invoice generator | `application/invoice_generator.py` | the same hash | HGETALL, `time.time()`, HSET, EXPIRE | the amount issued is the amount quoted; an issued invoice stays readable |
| Tenant plans | `domain/tenant_plan.py` | two constant tables | `plan_for` | the caps together stay below the pool (claimed) |
| Redis client | `infrastructure/redis.py` | one pooled client per process | `get_redis_client`; a checkout per command | no more commands on the wire than connections; nobody waits for anybody |
| Views, serializers, tenant | `interfaces/api/incoming/` | none | validate, call the use case, render | each request is answered once, whatever its commands do |

Interactions. The gates and the use cases share the tenant id, Redis, and the one pool of
connections of their process (a command holds one from checkout to reply); the
event stream is written by ingestion and read (its length) by the calculator; the invoice
hash is written by the calculator and read and rewritten by the generator. The semaphore's
slots are held around the heavy views.

What is hard here:

* *Three clocks.* Redis's TIME drives the bucket (and may be set back), Redis's expiry
  drives every key, application hosts' clocks drive the semaphore's scores and cutoffs.
* *Sequences that are not transactions.* claim/XADD, HSET/EXPIRE, HGETALL/HSET/EXPIRE: other
  requests, an expiry or a death of the worker may come between any two.
* *Lost replies.* A command that raised may have been executed.
* *Fail open.* A gate that raises lets the request through, without a slot to give back.
* *One pool.* A command raises when all connections are out: gates fail open, views answer
  500, slots stay unreleased, all through somebody else's load.
* *Retries.* Clients repeat whatever was not answered with success.

`PROJECT.json` lists each hazard with its line and the properties aimed at it.

## 2. Modules

| Module | Models | Kind |
|---|---|---|
| `BucketScript` | the bucket's Lua script and the Retry-After header, as operators on integers | functions |
| `TokenBucket` | one tenant's bucket under requests, expiry and a clock that is set back | state machine, implements `RateBudget` |
| `RateBudget` | what the rate limiter promises: a level that rises with time | abstract specification |
| `HeavyAdmission` | one bucket shared by ingests and a retrying heavy call, the semaphore behind it, time unbounded | state machine, implements `RateBudget`, liveness |
| `ConcurrencySemaphore` | one tenant's semaphore with the middleware around it | state machine, implements `LeasePool` |
| `LeasePool` | what the semaphore promises: leases with a least and a greatest life | abstract specification |
| `EventRepository` | claim-then-append by concurrent first tries and retries | state machine, implements `OnceLog` |
| `OnceLog` | what ingestion promises: a log that admits an event once in a window | abstract specification |
| `Invoices` | the draft's life through concurrent calculations and generations | state machine |
| `Admission` | a process: requests of several tenants through both gates and a view, over one connection pool | state machine, composes the gates' promises |
| `TenantPlan` | the plan catalog and the endpoint costs | data |
| `MCTokenBucket`, `MCConcurrencySemaphore`, `MCEventRepository`, `MCInvoices`, `MCAdmission` | small instances | for TLC |
| `BucketScriptProofs`, `TokenBucketProofs`, `HeavyAdmissionProofs`, `ConcurrencySemaphoreProofs`, `OnceLogProofs`, `EventRepositoryProofs`, `InvoicesProofs`, `AdmissionProofs` | theorems | for TLAPS |

Operators named `X_Something` stand just before the operator `X` and are faulty variants of
it, one for each property: put in place of `X` they make TLC report that property, which
shows that the property can fail.

**BucketScript / TokenBucket.** The script's arithmetic is on reals; here the clock counts
ticks of `1/Scale` second and the level grains of `1/Scale` token, so that a tick refills
exactly `Rate` grains and nothing is rounded (the code's double-precision rounding, around
1e-13 of a token, is abstracted). `Consume(e)` is one EVAL with the decision made of its
reply: atomic in Redis, hence one step. `Expire` removes the key at its time; `Live` makes
the script see nil from that instant whether or not it was removed. `Tick` runs the clock
on, `StepBack` sets it back. `granted`, `advanced` and `promise` are history: what was
granted and how far the clock ran since an observer opened a window (any state may open
one), and a Retry-After some client relies on. A promise is voided by a grant to another
request, which may have taken the tokens; it survives refusals and clock steps. Its `wait` is
what is left of the header's seconds by the *client's* clock, which only a tick takes from: a
client that waited exactly those seconds has `wait = 0` wherever Redis's clock stands by then.
`owing` is how far that clock was set back in the meantime, less what the client waited on top
of the header; `steady` says that it was not set back.

**HeavyAdmission.** The same script, with the clock restarted at every EVAL (only time
differences reach the script), so that the state is finite without a bound on time and
liveness means something. `Gap` is how much time the tenant leaves between two ingests. A
heavy call that passes the bucket has *paid* and goes on to the semaphore (`AcquireSlot`),
which other calls may keep full for up to `Hold` ticks: then it is told to come back in a
second, and what it paid is gone. `Savings` is what is in the bucket beyond what the next ingest
will take of the refill since the last one: `SavingsGrow` says that a stream which keeps its
distance never takes from it, which is the safety half of `HeavyIsAdmitted` and fails for a
flood. That the restarted clock hides nothing is itself checked and proved: the module implements
the budget of `RateBudget` that never loses a token.

**ConcurrencySemaphore.** A request passes `idle -> acquiring` (the host's clock is read),
then the script runs: `Acquire` (reply arrives), `AcquireLost` (executed, reply lost: fail
open), `AcquireUnreached` (not executed: fail open). `Finish` is the end of the view, by
return or exception; `Release`/`ReleaseFails` the finally block; `Crash` the death of the
worker anywhere; `Retry` a client answered 429; `Again` a new request of the tenant with a
`slot_id` of its own, which takes over an identity that is over and whose slot is gone from the
set. So there is no end to a tenant's requests; `Requests` bounds how many the set and the workers
hold at a time. All instants are kept as distances from the
present: `age[r]` of a score (negative if the host's clock runs ahead), `lag[r]` of a `now`
that was read but not used yet, `keylife` of the key. `held[r]` is history. Hosts' clocks
run ahead by at most `MaxAhead` and behind by at most `MaxBehind`; `MaxLag` bounds the age
of `now` when the script runs. `Sure = TTL - MaxAhead - MaxLag` is how long a request may
run and be sure of its slot: with the code's 60 s and heavy calls under 5 s there is
ample room, and the properties say what is left when there is not. Holding longer is *not*
excluded in the model: a slow holder loses its slot, and the cap then counts only those that
have not outrun theirs. In `LeasePool` a lease has an age and nothing else: it cannot be taken
back before `MinLife` (here `Sure`), and counts in a refusal only until `MaxLife` (`Horizon`).
The mapping forgets scores, cutoffs, `now` and the key.

**EventRepository.** `marker[e]` is what is left of the life of the marker, `entries[e]` how
many entries of the stream carry the event. `Claim`/`ClaimUnreached`/`ClaimLost` are the
outcomes of SET NX EX, `Append`/`AppendFails`/`AppendLost` those of XADD; a worker may die
before each (`Crash`) or stall for any time. `Retry` is the client's, on anything but 202.
`spent` is history: the events one of whose claims took the marker and came to nothing.
In `OnceLog` the marker is a door that stays shut for a window, and a worker between its two
round trips is a ticket.

**Invoices.** Each Redis round trip is an action. `ExpireDraft` and `ExtendLife` include the
answer, which follows without another round trip. HSET on a key that has expired creates a
new hash with only the fields it writes, and EXPIRE on a missing key does nothing, as in
Redis. XLEN, HGET and the multiplication are one action: only the product is used, and
prices do not change. Amounts count the smallest unit, so rounding is the identity on them.
`raced` records the invoices whose key expired while a generation of them was running.

**Admission.** A request goes `idle -> limiting -> (passed -> acquiring ->) inside <-> querying
-> leaving (-> releasing) -> done`; the middle part in brackets is for the two heavy paths
(`_HEAVY_ENDPOINTS`), and the order is that of `settings.MIDDLEWARE`. In the states of
`OnTheWire` it holds a connection. Each command is two actions, checkout with sending
(`Arrive`, `AskSlot`, `Query`, `Leave`) and reply; it raises at the checkout when the pool is
exhausted, and, with `CommandsFail`, later, executed or not. What follows is the code's:
the gates fail open, a view answers 500, a release is given up. The gates themselves are what
the abstract modules make of them: a level of tokens (`Affordable`, `Pay`, `Refill`), and a set of
slots of which one comes free by itself (`Lapse`) only when its request is over, because a
request is taken to end within the slot's `MinLife` (60 s less the clocks; the comments put heavy
calls under 5 s) - what is left when it does not is the subject of `ConcurrencySemaphore`.
A view makes any number of round trips; its 2xx, 4xx and 500 are one answer here. A worker that is
done takes its next request at once (`Again`), with a fresh `slot_id`: a slot its last one left in
the set is then one of the tenant's `leftover`, which count against the cap like any other member
(`Taken`, the ZCARD) until they lapse (`LapseLeftover`). `strained` is history: the tenants one of whose
commands has raised. Each tenant has a plan of its own (`Cap`, `Burst`).
redis-py 5.0.4's default pool has room for 2^31 connections and `Redis.from_url` makes a pool that
raises rather than blocks; a bound comes from `max_connections` in `REDIS_URL`. The model
has the bounded pool of some 50 that `redis.py:13-14` and `tenant_plan.py` speak of.

## 3. What TLC checks

| Run | Configuration | Question | Outcome |
|---|---|---|---|
| `bucket` | `MCTokenBucket.cfg` | rate bound, Retry-After neither too short (by more than what the clock was set back while the client waited) nor (unless it was) a second too long, refinement of `RateBudget`, with clock steps and expiry | holds |
| `heavy_paced` / `heavy_flood` | `HeavyAdmissionPaced.cfg` / `HeavyAdmissionFlood.cfg` | is a retrying heavy call admitted? (paced also: what the ingests leave over stays, refinement of `RateBudget`) | yes if ingests leave refill unused / no |
| `semaphore_faults` | `MCSemaphoreSafety.cfg` | cap, no eviction of live holders, justified refusals, refinement of `LeasePool`, under every fault | holds |
| `semaphore_liveness` | `MCSemaphoreLiveness.cfg` | a client that keeps retrying gets past unless other requests get slots over and over, the key of a tenant that has stopped goes, no slot outlives its request (crashes and an unreachable Redis, no lost replies) | holds |
| `ingest` | `MCEventRepository.cfg` | counted at most once per life of the marker, every 202 (a duplicate's too) stands for a kept event and every posted event is recorded unless a claim was spent without an XADD, refinement of `OnceLog`, under every fault | holds |
| `ingest_append_fails` | `MCEventAppendFails.cfg` | the event a duplicate answer speaks of is recorded sooner or later | violated |
| `invoices` | `MCInvoicesSafety.cfg` | quoted = issued, issued stays, the last issue time stays, apart from expiry races; only requests that died leave a hash without expiry | holds |
| `invoices_amount`, `invoices_persisted` | `MCInvoices*.cfg` | the comments' unconditional claims | violated |
| `admission` | `MCAdmission.cfg` | in flight within the cap unless a gate failed open, a quiet tenant not refused for a noisy one or for its own earlier requests, slots left behind only where a command raised, everyone answered | holds |
| `admission_pool` | `MCAdmissionPool.cfg` | can one tenant exhaust a pool larger than all caps together? | yes (violated) |

**Bounds.** Bucket: 3 tokens, 2 per second, three ticks a second, a key that lives 2 s, costs
1 and 3. A refill takes longer than one tick and shorter than the key's life, fractions of
tokens occur, a rounded-up Retry-After differs from a rounded-down one, the key expires
within the 9 ticks observed, and the clock steps back by up to a second. Semaphore: three
requests on two slots (one in the liveness run), a TTL of 4 ticks against clock errors of
one tick each way, so that `Sure` is 2 and requests do outrun it; two slots let the key's life
be set by one and needed by another; time itself is not bounded. The liveness run has no
symmetry and a TTL of 2. Event repository: three attempts at one event, a marker of 2 ticks,
7 ticks observed: a marker expires three times, and an attempt may stall over it. (Events
touch no common state, so a second one adds nothing but its own copy.) Invoices: one
invoice, three generations of it, a TTL of 2 ticks in 6; one more event arrives, which is
enough to change a recomputed amount.
Heavy admission: `Hold` is 12 ticks, four times the second a refused call waits, so that it
pays and is refused several times in a row. Admission: a noisy tenant with two requests at a time, a
quiet one with one, plans of one slot and one token, two connections: the noisy tenant can be over its
cap, out of tokens, and holding the whole pool. The pool run has a third noisy request, three
connections and three tokens, and no failing commands but for want of a connection. The two tenants'
plans are equal in these runs; the theorems are about any plans.
Longer runs of the same kind only repeat these situations: every comparison in the code is
between differences of times and one TTL, and no operation involves more than one other
request of the same tenant. The theorems of section 5 have no bounds.

`CHECK_DEADLOCK FALSE` is set for the invoices only, whose requests are one-shot.

**Fairness.** `HeavyAdmission`: time passes, a client told when to retry does so, and a
request the bucket let pass gets on to the semaphore (weak fairness of `Tick`, `HeavyCall` and
`AcquireSlot`). `ConcurrencySemaphore`: time passes (strong fairness of
`Tick`, because in the model it waits for a request whose `now` has reached `MaxLag`, and
busy retries make it wait again and again), a request in the middleware gets on, a refused
client retries; a view need not end, and nothing makes a tenant send another request
(`Again`) or stop sending. `EventRepository`: a worker past the gate goes on, clients
retry what was not answered 202, and Redis is reached now and then (strong fairness of the
claim). `Admission`: what the service has begun for a request goes on - a command is answered
or raises, a thread runs (weak fairness of `Serve`) - and a view's loop of round trips ends
(strong fairness of `Respond`, for the loop goes through states in which it is not enabled).
Nothing else is assumed; no fault ever has to happen or stop, and no connection ever has to
come free.

## 4. Where the code and its comments disagree

Each of these is the subject of a run that TLC ends with a counterexample; `PROJECT.json`
quotes both sides.

1. *A flood of ingests does starve a heavy call* (`rate_limiter.py:9-10`): one bucket, and the
   heavy call needs 10 or 15 tokens at once while ingests take them one by one. `SavingsGrow` and
   the run `heavy_paced` show what is true of it.
2. *A failed XADD loses the event* (`ingest_event.py:42-44`): the marker stays, the retry is
   turned away as a duplicate. The file's "known limitation" speaks of dying processes only.
   `AcceptedIsKept` and `EventuallyRecorded` show that this gap is the only way an event is lost, and
   the theorem `OnlyTheGapLoses` that a 202 can be relied on when nothing fails in the gap.
3. *An invoice issued at 0* (`invoice_generator.py:61-62`): the draft expires between HGETALL
   and HSET, HSET re-creates it without its amount, and a second generation reads it so.
4. *200 without a record* (`test_invoice_generator.py:107-110`): the draft expires between
   HSET and EXPIRE.
5. *One tenant can exhaust the pool* (`tenant_plan.py:62-64`,
   `test_redis_pool_exhaustion.py:251-253`): the sum of the caps is below the pool's size, but a
   cap holds for the two heavy paths only. Ingests in flight are not capped, the gates' own
   commands take connections of the same pool, and each unknown tenant brings a cap of 5 of its own.
   (A pool that is not bounded in `REDIS_URL` cannot be exhausted at all; then it is not the caps
   that prevent it.)

Some more were met while modelling and show in the actions, without a run of their own:
a client that waits exactly its Retry-After while Redis's clock is set back is refused again
(the clamp at `token_bucket.py:49` counts no time until the clock is past the stamp), which is why
`RetryAfterHonoured` adds the refill of that time;
without a queue a heavy call that retries can be turned away for ever by fresh ones of its own
tenant that take each freed slot, which is what `RetryAdmitted` excepts and all it excepts;
`issued_at` is read before the HSET, so that of two *overlapping* generations the earlier time
may stay (`invoice_generator.py:68-70` has the second write overwrite it "with the later value");
`IssuedAtIsLatest` states what does hold; a quiet tenant whose release found the pool exhausted by
another one's commands has a slot less until the TTL, and may be refused for it, which is why
`QuietNotRefused` excepts tenants whose commands raised;
a retry that overtakes the first attempt's XADD is answered `duplicate=True` before anything
is recorded (`event_repository.py:134-135` says "has already recorded this event"); a
calculation that dies between HSET and EXPIRE leaves a draft for ever, which is why
`NoImmortals` excepts aborted requests (`billing_calculator.py:120-121` says "abandoned
drafts self-clean"); and a lost reply of the semaphore's script leaves a slot to the TTL,
because `acquire` stands before the `try` (`tests/unit/test_concurrency_semaphore.py:106-108`
has the `finally` block clean up after it).

## 5. What TLAPS proves

For every value of the constants allowed by the named assumptions, and without any bound on
time, requests or events beyond those constants:

* `TokenBucketTypeCorrect`, `RateIsBounded`, `RetryAfterIsHonest` (assuming
  `BucketAssumption`, `TTLCoversRefill`, `CostAssumption`, `BoundAssumption`). `WindowBound`
  alone is not inductive: nothing in it stops the next grant. `Funded` puts what could be
  granted at this moment on the left-hand side; a grant then moves tokens from one summand
  to the other, and a tick raises both sides by `Rate`. It needs `Stamped`: the expiry was set
  together with the timestamp, so that a key expires only after a whole refill
  (`TTLCoversRefill`; the slowest plan refills in 2.5 s of the 3600). `PromiseFunded` does the
  same for Retry-After: the promised tokens are there or will be refilled by the time it is due,
  `now + wait + owing`, which no step of the clock moves until it has come: a step back lowers `now` and raises
  `owing` alike, a tick takes off one of the others what it adds to `now`. At the end of the wait
  only `owing` is left between the promise and its tokens.
* `RetryAfterIsTight`: the converse: with a whole second of the wait to go the tokens are not
  there, whatever the clock did before the promise was made. Only a step back *after* it is excepted
  (`steady`): another refusal then re-stamps the hash in the past, and the same time is refilled
  twice. `PromiseTight` carries the claim on to the instant it speaks of: the level plus what can be
  refilled until then is below the price, and a tick moves `Rate` from the second to the first. It
  rests on `HeaderIsLeast` (no smaller number of seconds covers the deficit), as `PromiseFunded`
  does on `HeaderCovers`.
* `BucketImplementsBudget`: `Spec` implements `RateBudget!Spec` with the level mapped to
  `Refilled(bucket, now)`. Expiry is a stuttering step, again by `TTLCoversRefill`. A clock that
  is set back maps to `Setback`, which may take back refill but not go below what the last
  decision left. `MonotoneBucketImplementsBudget`: without such steps, it implements the budget
  without `Setback`.
* `HeavyAdmissionTypeCorrect`, `SharedBucketImplementsBudget`, `HeavyCallSavesUp` (assuming
  `BucketAssumption`, `TTLCoversRefill`, `HeavyAssumption`, the last one also that the distance of
  two ingests refills the price of one, `Gap * Rate >= IngestCost * Scale`: without it TLC finds the
  flood). A tick raises the level and the reserve alike; an ingest that kept its distance takes
  exactly the reserve; when the bucket is full it holds both prices, because together they are
  within the burst.
* `LogIsSpaced`, about the abstract log: `OncePerWindow` says nothing of a ticket that is not used
  yet; the strengthening counts entries and tickets together, and adds what is left of the window.
* `RepositoryTypeCorrect`, `RepositoryImplementsOnceLog` (assuming `RepositoryAssumption`): each
  action maps to one of `OnceLog` or a stutter; a ticket is an attempt at the XADD. It needs the
  type invariant only. `CountedOncePerWindow` is then `LogIsSpaced`, inherited through the
  refinement.
* `AcceptedEventsAreKept`, under every combination of faults. `AcceptedIsKept` says nothing of an event
  that has a marker and was not answered yet, which is what a duplicate's 202 rests on; the
  strengthening is `MarkedIsAccounted`: such an event is in the stream, on its way there, or
  `spent`. `OnlyTheGapLoses`: when no claim's reply is lost, no XADD fails and no
  worker dies, none is ever spent.
* `SemaphoreTypeCorrect`, `SlotsAreKept`, `CapIsRespected` (assuming `SemaphoreAssumption`).
  The strengthening `Safe` gives a holder's score an age of at most its running time plus the
  reading error, and the key at least the rest of the slot's life; so neither another host's
  cutoff nor the key's expiry can reach it before `Sure`. The cap then follows by counting.
  `RefusalsAreJustified`, `NoSlotIsOrphaned` (assuming that neither "lost" nor "release" is among
  the faults) and `SemaphoreImplementsLeases` rest on the same facts about *every* slot, also those of
  crashed holders and of requests that failed open.
* `InvoicesTypeCorrect`, `AmountIsKept`, `IssuedInvoiceIsKept`, `OnlyAbortsLeak` (assuming
  `InvoicesAssumption`), for any number of calculations and generations. `IssuedAsQuoted` does
  not say what a generation that is still running has in its hands. The strengthening follows
  the hash, outside `raced`: `Faithful` (a hash that is there carries the quoted amount) and
  `Committed` (as long as a generation runs, its hash is there; for a time to live after it
  answered, the hash is issued and has at least the rest of that time to live, whatever other
  generations of the same invoice did). A tick that takes the hash of a running generation puts
  it in `raced`; a tick cannot take that of one that answered less than a life ago.
  `IssueTimeIsLatest` keeps the generation that wrote last as a witness.
* `AdmissionTypeCorrect`, `InFlightIsBounded`, `QuietTenantsAreNotRefused`, `SlotsComeBack` (assuming
  `AdmissionAssumption`), for any number of requests, tenants, plans and connections. The strengthening says
  where slots and handles can be: `HandlesHaveSlots` (a handle is held by a heavy request past
  the gate, which has its slot), `Unstrained` (only for a tenant one of whose commands raised are
  slot, handle and being in flight different things) and `SlotsBound`. A quiet tenant finds room because
  the slots counted against it are those of its *other* requests in flight: a leftover slot of an
  earlier request, which `SlotsBound` counts with them, takes a command that raised.
* `PolicyMeetsAssumptions`: the constants every tenant and path really get (`plan_for`,
  `_ENDPOINT_COSTS`, the bucket's hour) meet `BucketAssumption`, `TTLCoversRefill`,
  `CostAssumption`, the costs' part of `HeavyAssumption`, the capacity's part of
  `SemaphoreAssumption` and the plans' part of `AdmissionAssumption`.

Only model-checked: the liveness properties (`HeavyIsAdmitted`, `RetryAdmitted`, `KeyGoes`,
`EventuallyRecorded`, `Answered`), which are out of the prover's reach. `SavingsGrow`,
`RefusalJustified`, `AcceptedIsKept` and `NothingLeftBehind` are safety properties close to four of them,
and proved. The other way round, `LogIsSpaced` and `MonotoneBucketImplementsBudget` are proved without a
run of their own: `OncePerWindow` is checked on `EventRepository`, which implements the log, and the
budget without `Setback` on `HeavyAdmission`.

## 6. What is not modelled

* Validation and rendering in views and serializers, URL routing, logging, the rest of the
  settings: no state. Requests without a tenant pass both gates and get a 400 without a command.
* redis-py and sockets below the level of "a command raises, executed or not".
* Several processes: a pool belongs to one, and everything else is in Redis, where the modules
  about one tenant already let any number of workers run.
* Redis's persistence and failover: Redis keeps what it was told. Restarts that lose data
  are outside the code's own promises.
* Floating-point rounding in the bucket and in amounts.
* `simulate_incident.py` and the tests: drivers, read as statements of what should hold.
* Other tenants' keys: the modules about keys are about one tenant. Tenants are taken not to share
  keys, which is so as long as tenant ids have no colon in them (`billing:idem:{tenant}:{key}`
  does not quote its parts). What tenants do share, the pool, is in `Admission`.

## 7. Plan

What is left, in the order in which it adds most:

1. Theorems about the two other abstract specifications on their own (how much `RateBudget` grants
   in a window, how many leases `LeasePool` has out), inherited like that of `OnceLog`.
2. The composition `Admission` with `RateBudget` by refinement: that its tokens are those of the
   abstract budget, step by step. (Its slots cannot be mapped to `LeasePool` as it is: the
   composition has no clock, and a lease has an age.)
3. A bound on how long a heavy call can be refused, in ticks, from `SavingsGrow`.
