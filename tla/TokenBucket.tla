---- MODULE TokenBucket ----
(***************************************************************************)
(* One tenant's token bucket: the hash in Redis, Redis's clock, and the    *)
(* requests that run the script against them.  Every caller is a single    *)
(* atomic EVAL, so an interleaving of callers is a sequence of Consume     *)
(* steps; what happens between them is the clock's doing, which runs on,   *)
(* may be stepped back (TIME is a wall clock), and lets the key expire.    *)
(***************************************************************************)
EXTENDS BucketScript

CONSTANTS
    Endpoints,     \* the guarded paths
    Cost,          \* _cost_of: tokens per request of a path
    MaxTime,       \* bound: the clock never shows more
    MaxWindow,     \* bound: ticks an observation window lasts at most
    MaxStepBack    \* bound: ticks the clock is stepped back by at most

ASSUME CostAssumption ==
    /\ Cost \in [Endpoints -> Nat \ {0}]
    /\ \A e \in Endpoints : Cost[e] <= Capacity

ASSUME BoundAssumption ==
    MaxTime \in Nat /\ MaxWindow \in Nat /\ MaxStepBack \in Nat

VARIABLES
    now,        \* what Redis's TIME shows
    bucket,     \* the hash at billing:ratelimit:<tenant>
    reply,      \* the last BucketDecision handed to the middleware
    granted,    \* history: grains granted since the window was opened
    advanced,   \* history: ticks the clock moved forward since then
    promise     \* history: a Retry-After a client was given and still relies on

vars == <<now, bucket, reply, granted, advanced, promise>>

\* wait: what is left of the header's seconds, in ticks of the client's time; owing: what
\* the clock was set back since, less what the client waited over and above the
\* header; steady: it was not set back.  cost = 0: no promise is outstanding.
NoPromise == [cost |-> 0, wait |-> 0, owing |-> 0, steady |-> TRUE]
Promised(cost, header) ==
    [cost |-> cost, wait |-> header * Scale, owing |-> 0, steady |-> TRUE]

\* A client that has waited a tick longer.
Waited(p) ==
    IF p.wait > 0 THEN [p EXCEPT !.wait = @ - 1] ELSE [p EXCEPT !.owing = Larger(0, @ - 1)]

Init ==
    /\ now = 0
    /\ bucket = Missing
    /\ reply = [cost |-> 0, allowed |-> TRUE, left |-> Full]
    /\ granted = 0
    /\ advanced = 0
    /\ promise = NoPromise

\* consume(): one EVAL and the decision made of its reply.  A grant voids the
\* promise (another request took the tokens); a rejection may make a new one.
Consume(e) ==
    LET s      == Script(bucket, now, Cost[e])
        header == RetryAfterHeader(s.deficit)
    IN  /\ bucket' = s.bucket
        /\ reply' = [cost |-> Cost[e] * Scale, allowed |-> s.allowed, left |-> s.tokens]
        /\ granted' = IF s.allowed THEN granted + Cost[e] * Scale ELSE granted
        /\ \/ s.allowed /\ promise' = NoPromise
           \/ ~s.allowed /\ promise' = Promised(Cost[e], header)
           \/ ~s.allowed /\ UNCHANGED promise
        /\ UNCHANGED <<now, advanced>>

\* Redis deletes a key whose time is up.
Expire ==
    /\ bucket.exists
    /\ now >= bucket.expires
    /\ bucket' = Missing
    /\ UNCHANGED <<now, reply, granted, advanced, promise>>

\* Time passes, for the client too.
Tick ==
    /\ now < MaxTime
    /\ advanced < MaxWindow
    /\ now' = now + 1
    /\ advanced' = advanced + 1
    /\ promise' = Waited(promise)
    /\ UNCHANGED <<bucket, reply, granted>>

\* The host's clock is set back: TIME follows.  A client that relies on a Retry-After
\* does not know.
StepBack ==
    /\ \E d \in 1..MaxStepBack :
        /\ now - d >= 0 /\ now' = now - d
        /\ promise' = [promise EXCEPT !.owing = @ + d, !.steady = FALSE]
    /\ UNCHANGED <<bucket, reply, granted, advanced>>

\* An observer starts to count.
OpenWindow ==
    /\ granted' = 0
    /\ advanced' = 0
    /\ UNCHANGED <<now, bucket, reply, promise>>

MonotoneNext ==
    \/ \E e \in Endpoints : Consume(e)
    \/ Expire
    \/ Tick
    \/ OpenWindow

Next == MonotoneNext \/ StepBack

Spec == Init /\ [][Next]_vars

\* The same under a clock that is never set back.
MonotoneSpec == Init /\ [][MonotoneNext]_vars

-----------------------------------------------------------------------------

TypeOK ==
    /\ now \in Nat
    /\ bucket \in BucketHash
    /\ reply \in [cost : Nat, allowed : BOOLEAN, left : 0..Full]
    /\ granted \in Nat
    /\ advanced \in Nat
    /\ promise \in [cost : Nat, wait : Nat, owing : Nat, steady : BOOLEAN]

\* In any window of time a tenant is granted at most its burst plus its rate
\* times the time the clock has run, whatever the interleaving of requests,
\* expiries of the key and backward clock steps (TierLimits.requests_per_second:
\* "Across a long window, a tenant on this tier cannot exceed this rate").
WindowBound == granted <= Full + advanced * Rate

\* A client that has waited as long as its Retry-After said (middleware.py:84), in time
\* of its own, finds its tokens, provided no other request of the tenant was granted
\* meanwhile; refused ones do not matter.  If the clock was set back meanwhile it may
\* be refused again (elapsed is clamped at 0, token_bucket.py:49), but what is missing
\* then is no more than the refill of the time the clock was set back, and as soon as
\* it has waited that much longer nothing is.
RetryAfterHonoured ==
    promise.cost # 0 /\ promise.wait = 0
        => Refilled(bucket, now) + promise.owing * Rate >= promise.cost * Scale

\* Nor does a Retry-After keep a client away for nothing: with a whole second of it to
\* go the tokens are not there yet, whatever became of the clock, the key and other
\* requests before; only a clock that is set back after it may count time twice.
RetryAfterTight ==
    promise.cost # 0 /\ promise.steady /\ promise.wait >= Scale
        => Refilled(bucket, now) < promise.cost * Scale

\* The lazily refilled, expiring hash decides exactly as an ever-present, eagerly
\* refilled budget does, which a clock that is set back may only make smaller: no
\* client can tell that the key was lost (token_bucket.py:29, _BUCKET_TTL_SECONDS).
Budget == INSTANCE RateBudget WITH
    Full <- Full, Refill <- Rate, Prices <- {Cost[e] * Scale : e \in Endpoints},
    level <- Refilled(bucket, now), decision <- reply

ImplementsBudget == Budget!Spec

\* Under a clock that is never set back nothing is lost either.
ImplementsForwardBudget == Budget!ForwardSpec
====
