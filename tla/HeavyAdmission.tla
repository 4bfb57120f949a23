---- MODULE HeavyAdmission ----
(***************************************************************************)
(* One bucket shared by a heavy call and a stream of cheap ingests of the  *)
(* same tenant, and behind it the semaphore, full for a while: does the    *)
(* heavy call, which pays at the bucket each time, ever get through?       *)
(*                                                                         *)
(* Only time differences reach the script, so the clock is restarted at    *)
(* each EVAL: since is the time since the hash was last written (and       *)
(* stops counting once the key has expired).  That keeps the state finite  *)
(* without bounding time, as liveness needs.                               *)
(***************************************************************************)
EXTENDS BucketScript

CONSTANTS
    IngestCost,   \* _ENDPOINT_COSTS of /api/v1/events/ingest
    HeavyCost,    \* _ENDPOINT_COSTS of the heavy path
    Gap,          \* ticks the tenant leaves between two ingests at least
    Hold          \* ticks for which other calls may hold all slots at most

ASSUME HeavyAssumption ==
    /\ IngestCost \in Nat \ {0} /\ HeavyCost \in Nat \ {0} /\ Gap \in Nat /\ Hold \in Nat
    /\ HeavyCost + IngestCost <= Capacity

VARIABLES
    bucket,   \* the hash, its last_refill being the origin of since
    since,    \* Redis's clock, counted from the last EVAL
    reply,    \* the last BucketDecision handed to the middleware
    heavy,    \* the heavy call: "wants" to start, has "paid" or is "admitted"
    wait,     \* ticks left of the Retry-After the heavy client honours
    quiet,    \* ticks since the last ingest, up to Gap
    full      \* ticks left until a slot of the semaphore is free

vars == <<bucket, since, reply, heavy, wait, quiet, full>>

Init ==
    /\ bucket = Missing
    /\ since = 0
    /\ reply = [cost |-> 0, allowed |-> TRUE, left |-> Full]
    /\ heavy = "wants"
    /\ wait = 0
    /\ quiet = Gap
    /\ full \in 0..Hold

\* The hash the script leaves, with the clock restarted at its last_refill.
Rebased(b, now) ==
    [exists |-> b.exists, tokens |-> b.tokens, last_refill |-> 0,
     expires |-> b.expires - now]

\* consume(): one EVAL, after which the clock starts again.
Consume(cost) ==
    LET s == Script(bucket, since, cost)
    IN  /\ bucket' = Rebased(s.bucket, since)
        /\ since' = 0
        /\ reply' = [cost |-> cost * Scale, allowed |-> s.allowed, left |-> s.tokens]

\* RateLimitMiddleware on POST /api/v1/events/ingest.
Ingest ==
    /\ quiet >= Gap
    /\ Consume(IngestCost)
    /\ quiet' = 0
    /\ UNCHANGED <<heavy, wait, full>>

\* RateLimitMiddleware on a heavy path; a 429 makes the client wait as long as
\* its Retry-After says.
HeavyCall ==
    LET s == Script(bucket, since, HeavyCost)
    IN  /\ heavy = "wants"
        /\ wait = 0
        /\ Consume(HeavyCost)
        /\ heavy' = IF s.allowed THEN "paid" ELSE "wants"
        /\ wait' = IF s.allowed THEN 0 ELSE RetryAfterHeader(s.deficit) * Scale
        /\ UNCHANGED <<quiet, full>>

\* ConcurrencyMiddleware, next in line: with all slots taken it answers 429 with a
\* Retry-After of a second, and what the bucket took is gone.
AcquireSlot ==
    /\ heavy = "paid"
    /\ heavy' = IF full = 0 THEN "admitted" ELSE "wants"
    /\ wait' = IF full = 0 THEN 0 ELSE Scale
    /\ UNCHANGED <<bucket, since, reply, quiet, full>>

\* The call is over; the tenant has another one to make.
HeavyAgain ==
    /\ heavy = "admitted"
    /\ heavy' = "wants"
    /\ full' \in 0..Hold
    /\ UNCHANGED <<bucket, since, reply, wait, quiet>>

Tick ==
    /\ since' = Smaller(since + 1, Life)
    /\ wait' = Larger(0, wait - 1)
    /\ quiet' = Smaller(quiet + 1, Gap)
    /\ full' = Larger(0, full - 1)
    /\ UNCHANGED <<bucket, reply, heavy>>

Next == Ingest \/ HeavyCall \/ AcquireSlot \/ HeavyAgain \/ Tick

\* Time passes, a client that was told when to retry does so, and a request the
\* bucket let pass gets on to the semaphore.
Fairness == WF_vars(Tick) /\ WF_vars(HeavyCall) /\ WF_vars(AcquireSlot)

Spec == Init /\ [][Next]_vars /\ Fairness

-----------------------------------------------------------------------------

\* A key that is there was stamped by the last EVAL, and expires a life later.
TypeOK ==
    /\ bucket \in BucketHash
    /\ bucket.exists => bucket.last_refill = 0 /\ bucket.expires = Life
    /\ since \in 0..Life
    /\ reply \in [cost : Nat, allowed : BOOLEAN, left : 0..Full]
    /\ heavy \in {"wants", "paid", "admitted"}
    /\ wait \in Nat
    /\ quiet \in 0..Gap
    /\ full \in 0..Hold

\* The two clients share one budget that rises with the clock and loses nothing: the
\* clock's restart at each EVAL and its end at the key's expiry do not show.
Budget == INSTANCE RateBudget WITH
    Full <- Full, Refill <- Rate, Prices <- {IngestCost * Scale, HeavyCost * Scale},
    level <- Refilled(bucket, since), decision <- reply

ImplementsForwardBudget == Budget!ForwardSpec

\* What is in the bucket beyond the refill the next ingest will take.
Savings == Refilled(bucket, since) - Smaller(quiet * Rate, IngestCost * Scale)

\* A stream of ingests that keeps its distance never takes what has been saved up for
\* the heavy call, and the time it stays away longer is saved in full: only a heavy
\* call that pays draws on it (rate_limiter.py:9-10, as far as it is true).
SavingsGrow ==
    [][LET price == HeavyCost * Scale IN
       /\ Savings' >= Smaller(Savings, price) \/ (heavy = "wants" /\ heavy' = "paid")
       /\ Tick /\ quiet = Gap => Savings' >= Smaller(Savings + Rate, price)]_vars

\* A heavy call whose client keeps retrying is admitted in the end, also when it
\* finds the semaphore full and has paid the bucket for nothing.
\* rate_limiter.py says that of every stream of ingests ("a flood of cheap
\* ingests cannot starve a heavy billing call"); it is so only of one that
\* leaves part of the refill unused (Gap * Rate > IngestCost * Scale).
HeavyIsAdmitted == heavy = "wants" ~> heavy = "admitted"
====
