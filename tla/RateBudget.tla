---- MODULE RateBudget ----
(***************************************************************************)
(* What the rate limiter promises a tenant, with no key, no timestamp and  *)
(* no time to live: a level of tokens that rises with the clock up to the  *)
(* burst, and a decision that depends on the level alone.  A clock that is *)
(* set back costs the tenant tokens and never gives any.                   *)
(***************************************************************************)
EXTENDS Integers

CONSTANTS
    Full,     \* the burst
    Refill,   \* what one tick of the clock adds
    Prices    \* what a request may cost

VARIABLES level, decision

vars == <<level, decision>>

Init ==
    /\ level = Full
    /\ decision = [cost |-> 0, allowed |-> TRUE, left |-> Full]

Tick ==
    /\ level' = IF level + Refill <= Full THEN level + Refill ELSE Full
    /\ UNCHANGED decision

Grant(c) ==
    /\ level >= c
    /\ level' = level - c
    /\ decision' = [cost |-> c, allowed |-> TRUE, left |-> level - c]

Refuse(c) ==
    /\ level < c
    /\ decision' = [cost |-> c, allowed |-> FALSE, left |-> level]
    /\ UNCHANGED level

\* The clock the level rises with is set back: of what was refilled since the last
\* decision some may be lost, but nothing is gained.
Setback ==
    /\ level' \in decision.left..level
    /\ UNCHANGED decision

ForwardNext == Tick \/ \E c \in Prices : Grant(c) \/ Refuse(c)
Next == ForwardNext \/ Setback

Spec == Init /\ [][Next]_vars

\* The same with a clock that only runs forward.
ForwardSpec == Init /\ [][ForwardNext]_vars
====
