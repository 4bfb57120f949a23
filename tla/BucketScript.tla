---- MODULE BucketScript ----
(***************************************************************************)
(* The Lua script of billing/infrastructure/token_bucket.py as a function  *)
(* from the stored hash and Redis's clock to the reply and the new hash.   *)
(*                                                                         *)
(* Units.  Redis's clock is counted in ticks of 1/Scale second and tokens  *)
(* in grains of 1/Scale token, so that one tick refills exactly Rate       *)
(* grains and all of the script's arithmetic is on integers.               *)
(***************************************************************************)
EXTENDS Integers

CONSTANTS
    Capacity,   \* ARGV[1], the plan's burst, in tokens
    Rate,       \* ARGV[2], the plan's requests_per_second, in tokens per second
    Scale,      \* ticks in a second, grains in a token
    BucketTTL   \* _BUCKET_TTL_SECONDS, in seconds

ASSUME BucketAssumption ==
    /\ Capacity \in Nat \ {0}
    /\ Rate \in Nat \ {0}
    /\ Scale \in Nat \ {0}
    /\ BucketTTL \in Nat \ {0}

\* An idle hour refills every plan's bucket (the slowest is 50 tokens at 20
\* per second): losing the key never gives more than waiting would have given.
ASSUME TTLCoversRefill == Capacity <= BucketTTL * Rate

Larger(a, b) == IF a >= b THEN a ELSE b
Smaller(a, b) == IF a <= b THEN a ELSE b

Full == Capacity * Scale
Life == BucketTTL * Scale

\* The Redis hash, with the instant at which its key expires.
BucketHash == [exists : BOOLEAN, tokens : 0..Full, last_refill : Nat, expires : Nat]
Missing == [exists |-> FALSE, tokens |-> 0, last_refill |-> 0, expires |-> 0]

\* Redis answers HMGET with nil once the key's time to live has run out,
\* whether or not the key was physically removed.
Live(b, now) == b.exists /\ now < b.expires

\* The refill: tokens default to capacity and last_refill to now, elapsed time
\* is clamped at zero, the level at capacity.
Refilled_Signed(b, now) ==
    IF Live(b, now)
    THEN Smaller(Full, b.tokens + (now - b.last_refill) * Rate)
    ELSE Full

Refilled_WholeSeconds(b, now) ==
    IF Live(b, now)
    THEN Smaller(Full, b.tokens + (Larger(0, now - b.last_refill) \div Scale) * Scale * Rate)
    ELSE Full

Refilled(b, now) ==
    LET stored == IF Live(b, now) THEN b.tokens ELSE Full
        last   == IF Live(b, now) THEN b.last_refill ELSE now
    IN  Smaller(Full, stored + Larger(0, now - last) * Rate)

\* HSET of both fields, then EXPIRE: the two branches end in the same writes.
Written_NoExpire(b, tokens, now) ==
    [exists |-> TRUE, tokens |-> tokens, last_refill |-> now,
     expires |-> IF b.exists THEN b.expires ELSE now + Life]

Written_KeepStamp(b, tokens, now) ==
    [exists |-> TRUE, tokens |-> tokens,
     last_refill |-> IF b.exists THEN b.last_refill ELSE now,
     expires |-> now + Life]

Written(b, tokens, now) ==
    [exists |-> TRUE, tokens |-> tokens, last_refill |-> now,
     expires |-> now + Life]

\* One EVAL.  deficit / (Rate * Scale) is the script's retry_after in seconds;
\* it is 0 when the request is allowed.
Script(b, now, cost) ==
    LET tokens  == Refilled(b, now)
        wanted  == cost * Scale
        allowed == tokens >= wanted
        left    == IF allowed THEN tokens - wanted ELSE tokens
    IN  [allowed |-> allowed,
         tokens  |-> left,
         deficit |-> IF allowed THEN 0 ELSE wanted - tokens,
         bucket  |-> Written(b, left, now)]

\* RateLimitMiddleware._reject: the Retry-After header, max(1, ceil(retry_after)).
RetryAfterHeader_Floor(deficit) == Larger(1, deficit \div (Rate * Scale))

RetryAfterHeader_PlusOne(deficit) == deficit \div (Rate * Scale) + 1

RetryAfterHeader(deficit) ==
    LET second == Rate * Scale   \* grains refilled in one second
    IN  Larger(1, (deficit + second - 1) \div second)

====
