---- MODULE Admission ----
(***************************************************************************)
(* A process of the service: requests of several tenants on their way      *)
(* through RateLimitMiddleware, ConcurrencyMiddleware and a view           *)
(* (settings.MIDDLEWARE), all of which take their connections from the one *)
(* pool of get_redis_client().                                             *)
(*                                                                         *)
(* The two gates appear as what they promise (RateBudget, LeasePool): a    *)
(* level of tokens, and a set of slots one of which comes free by itself   *)
(* only when its request is over.  What is new here is their order, their  *)
(* failing open, and the pool.  A command holds a connection from checkout *)
(* to reply; it fails at the checkout when all are out, and possibly later.*)
(***************************************************************************)
EXTENDS Integers, FiniteSets

CONSTANTS
    Requests,    \* requests in flight at a time: a worker thread each
    Tenant,      \* the X-Tenant-ID of each request
    Cap,         \* max_concurrency of each tenant's plan
    Burst,       \* burst of each tenant's plan
    Cost,        \* tokens per path, _ENDPOINT_COSTS
    PoolSize,    \* max_connections of the pool
    CommandsFail \* whether a command may raise after the checkout

Paths == {"ingest", "heavy"}
Tenants == {Tenant[r] : r \in Requests}

ASSUME AdmissionAssumption ==
    /\ IsFiniteSet(Requests)
    /\ Cap \in [Tenants -> Nat \ {0}] /\ Burst \in [Tenants -> Nat]
    /\ PoolSize \in Nat \ {0}
    /\ Cost \in [Paths -> Nat]
    /\ CommandsFail \in BOOLEAN

VARIABLES
    pc,        \* where each request is
    path,      \* the path it asked for
    handle,    \* requests that have an admitted SlotHandle to release
    answer,    \* what each request was, or is about to be, answered
    level,     \* tokens in each tenant's bucket
    slots,     \* requests whose slot_id is in their tenant's sorted set
    leftover,  \* how many more members each tenant's set has: slots of requests
               \* whose workers have gone on to another one
    strained   \* history: tenants one of whose commands has raised

vars == <<pc, path, handle, answer, level, slots, leftover, strained>>

\* The command a request waits for: the limiter's EVAL, the semaphore's EVAL, one of
\* the view's, the ZREM.
OnTheWire == {"limiting", "acquiring", "querying", "releasing"}
States == OnTheWire \cup {"idle", "passed", "inside", "leaving", "done"}
\* Two kinds of 429, and what the view answers: 2xx, 4xx, or the 500 of a command
\* that raised.
Answers == {"none", "throttled", "refused", "views"}

Init ==
    /\ pc = [r \in Requests |-> "idle"]
    /\ path = [r \in Requests |-> "ingest"]
    /\ handle = {}
    /\ answer = [r \in Requests |-> "none"]
    /\ level = Burst
    /\ slots = {}
    /\ leftover = [t \in Tenants |-> 0]
    /\ strained = {}

Become(r, state) == pc' = [pc EXCEPT ![r] = state]
Strain(r) == strained' = strained \cup {Tenant[r]}
SlotsOf(t) == {r \in slots : Tenant[r] = t}

\* ZCARD of a tenant's set.
Taken(t) == Cardinality(SlotsOf(t)) + leftover[t]

\* Connections that are out, and whether a checkout succeeds.
Busy == {r \in Requests : pc[r] \in OnTheWire}
Connected_OffByOne == Cardinality(Busy) <= PoolSize
Connected == Cardinality(Busy) < PoolSize

\* Where a request goes that the first gate lets pass: only the heavy paths have
\* a second one.
Passed(r) == IF path[r] = "heavy" THEN "passed" ELSE "inside"

-----------------------------------------------------------------------------
(* RateLimitMiddleware *)

\* check_and_consume up to the EVAL; when the pool is exhausted it raises and the
\* request passes.
Arrive(r) ==
    /\ pc[r] = "idle"
    /\ \E p \in Paths :
        /\ path' = [path EXCEPT ![r] = p]
        /\ \/ /\ Connected
              /\ Become(r, "limiting")
              /\ UNCHANGED strained
           \/ /\ ~Connected
              /\ Become(r, IF p = "heavy" THEN "passed" ELSE "inside")
              /\ Strain(r)
    /\ UNCHANGED <<handle, answer, level, slots, leftover>>

Affordable(r) == level[Tenant[r]] >= Cost[path[r]]
Pay(r) == level' = [level EXCEPT ![Tenant[r]] = @ - Cost[path[r]]]

Consume(r) ==
    /\ pc[r] = "limiting"
    /\ \/ /\ Affordable(r)
          /\ Pay(r)
          /\ Become(r, Passed(r))
          /\ UNCHANGED answer
       \/ /\ ~Affordable(r)
          /\ Become(r, "done")
          /\ answer' = [answer EXCEPT ![r] = "throttled"]
          /\ UNCHANGED level
    /\ UNCHANGED <<path, handle, slots, leftover, strained>>

\* The EVAL raises, with or without having been executed: fail open.
ConsumeFails(r) ==
    /\ CommandsFail
    /\ pc[r] = "limiting"
    /\ UNCHANGED level \/ (Affordable(r) /\ Pay(r))
    /\ Become(r, Passed(r))
    /\ Strain(r)
    /\ UNCHANGED <<path, handle, answer, slots, leftover>>

-----------------------------------------------------------------------------
(* ConcurrencyMiddleware *)

\* acquire() up to the EVAL, with the same way out.
AskSlot(r) ==
    /\ pc[r] = "passed"
    /\ \/ Connected /\ Become(r, "acquiring") /\ UNCHANGED strained
       \/ ~Connected /\ Become(r, "inside") /\ Strain(r)
    /\ UNCHANGED <<path, handle, answer, level, slots, leftover>>

HasRoom_OffByOne(r) == Taken(Tenant[r]) <= Cap[Tenant[r]]
HasRoom(r) == Taken(Tenant[r]) < Cap[Tenant[r]]

Acquire(r) ==
    /\ pc[r] = "acquiring"
    /\ \/ /\ HasRoom(r)
          /\ slots' = slots \cup {r}
          /\ handle' = handle \cup {r}
          /\ Become(r, "inside")
          /\ UNCHANGED answer
       \/ /\ ~HasRoom(r)
          /\ Become(r, "done")
          /\ answer' = [answer EXCEPT ![r] = "refused"]
          /\ UNCHANGED <<slots, handle>>
    /\ UNCHANGED <<path, level, leftover, strained>>

\* The EVAL raises, with or without having been executed: fail open, no handle.
AcquireFails(r) ==
    /\ CommandsFail
    /\ pc[r] = "acquiring"
    /\ UNCHANGED slots \/ (HasRoom(r) /\ slots' = slots \cup {r})
    /\ Become(r, "inside")
    /\ Strain(r)
    /\ UNCHANGED <<path, handle, answer, level, leftover>>

\* No finally block.
Leave_NoRelease(r) ==
    /\ pc[r] = "leaving"
    /\ Become(r, "done")
    /\ handle' = handle \ {r}
    /\ UNCHANGED <<path, answer, level, slots, leftover, strained>>

\* The finally block: a request with a handle sends its ZREM, and carries on
\* without it when there is no connection to be had.
Leave_Waits(r) ==
    /\ pc[r] = "leaving"
    /\ \/ r \in handle /\ Connected /\ Become(r, "releasing") /\ UNCHANGED <<handle, strained>>
       \/ r \notin handle /\ Become(r, "done") /\ UNCHANGED <<handle, strained>>
    /\ UNCHANGED <<path, answer, level, slots, leftover>>

Leave(r) ==
    /\ pc[r] = "leaving"
    /\ \/ /\ r \in handle /\ Connected
          /\ Become(r, "releasing")
          /\ UNCHANGED <<handle, strained>>
       \/ /\ r \notin handle
          /\ Become(r, "done")
          /\ UNCHANGED <<handle, strained>>
       \/ /\ r \in handle /\ ~Connected
          /\ Become(r, "done")
          /\ handle' = handle \ {r}
          /\ Strain(r)
    /\ UNCHANGED <<path, answer, level, slots, leftover>>

\* ZREM of a member that is not in the set, as after a fresh uuid.
Release_OtherMember(r) ==
    /\ pc[r] = "releasing"
    /\ handle' = handle \ {r}
    /\ Become(r, "done")
    /\ UNCHANGED <<path, answer, level, slots, leftover, strained>>

Release(r) ==
    /\ pc[r] = "releasing"
    /\ slots' = slots \ {r}
    /\ handle' = handle \ {r}
    /\ Become(r, "done")
    /\ UNCHANGED <<path, answer, level, leftover, strained>>

\* The ZREM raises, with or without having been executed: logged, no more.
ReleaseFails(r) ==
    /\ CommandsFail
    /\ pc[r] = "releasing"
    /\ slots' \in {slots, slots \ {r}}
    /\ handle' = handle \ {r}
    /\ Become(r, "done")
    /\ Strain(r)
    /\ UNCHANGED <<path, answer, level, leftover>>

-----------------------------------------------------------------------------
(* The views *)

\* The next command of the use case; a 500 when the pool is exhausted.
Query(r) ==
    /\ pc[r] = "inside"
    /\ \/ /\ Connected
          /\ Become(r, "querying")
          /\ UNCHANGED <<answer, strained>>
       \/ /\ ~Connected
          /\ Become(r, "leaving")
          /\ answer' = [answer EXCEPT ![r] = "views"]
          /\ Strain(r)
    /\ UNCHANGED <<path, handle, level, slots, leftover>>

\* Its reply: the use case goes on.
Reply(r) ==
    /\ pc[r] = "querying"
    /\ Become(r, "inside")
    /\ UNCHANGED <<path, handle, answer, level, slots, leftover, strained>>

QueryFails(r) ==
    /\ CommandsFail
    /\ pc[r] = "querying"
    /\ Become(r, "leaving")
    /\ answer' = [answer EXCEPT ![r] = "views"]
    /\ Strain(r)
    /\ UNCHANGED <<path, handle, level, slots, leftover>>

\* The view answers: 202 or 200 after the last command, 404, or 400 from
\* resolve_tenant and the serializer before the first one.
Respond(r) ==
    /\ pc[r] = "inside"
    /\ Become(r, "leaving")
    /\ answer' = [answer EXCEPT ![r] = "views"]
    /\ UNCHANGED <<path, handle, level, slots, leftover, strained>>

-----------------------------------------------------------------------------

\* The next request on this worker, of the same tenant and with a slot_id of its own,
\* whatever the last one came to and left in the set.
Again(r) ==
    /\ pc[r] = "done"
    /\ Become(r, "idle")
    /\ answer' = [answer EXCEPT ![r] = "none"]
    /\ path' = [path EXCEPT ![r] = "ingest"]
    /\ slots' = slots \ {r}
    /\ leftover' = IF r \in slots THEN [leftover EXCEPT ![Tenant[r]] = @ + 1] ELSE leftover
    /\ UNCHANGED <<handle, level, strained>>

\* Tokens come back, up to the burst.
Refill(t) ==
    /\ level[t] < Burst[t]
    /\ level' = [level EXCEPT ![t] = @ + 1]
    /\ UNCHANGED <<pc, path, handle, answer, slots, leftover, strained>>

\* A slot nobody released is evicted in the end (LeasePool: not before its MinLife,
\* which requests are taken to end in).
Lapse(r) ==
    /\ r \in slots /\ pc[r] = "done"
    /\ slots' = slots \ {r}
    /\ UNCHANGED <<pc, path, handle, answer, level, leftover, strained>>

LapseLeftover(t) ==
    /\ leftover[t] > 0
    /\ leftover' = [leftover EXCEPT ![t] = @ - 1]
    /\ UNCHANGED <<pc, path, handle, answer, level, slots, strained>>

\* What the service does for a request, once it has arrived.
Serve(r) ==
    \/ Consume(r) \/ ConsumeFails(r)
    \/ AskSlot(r) \/ Acquire(r) \/ AcquireFails(r)
    \/ Reply(r) \/ QueryFails(r)
    \/ Leave(r) \/ Release(r) \/ ReleaseFails(r)

Next ==
    \/ \E r \in Requests :
        Arrive(r) \/ Serve(r) \/ Query(r) \/ Respond(r) \/ Again(r) \/ Lapse(r)
    \/ \E t \in Tenants : Refill(t) \/ LapseLeftover(t)

\* Redis answers or the socket raises; threads go on; a view makes a handful of
\* round trips and then answers.
Fairness ==
    \A r \in Requests :
        WF_vars(Serve(r)) /\ SF_vars(Respond(r) \/ QueryFails(r))

Spec == Init /\ [][Next]_vars
FairSpec == Spec /\ Fairness

-----------------------------------------------------------------------------

TypeOK ==
    /\ pc \in [Requests -> States]
    /\ path \in [Requests -> Paths]
    /\ handle \subseteq Requests
    /\ answer \in [Requests -> Answers]
    /\ level \in [Tenants -> Nat]
    /\ \A t \in Tenants : level[t] <= Burst[t]
    /\ slots \subseteq Requests
    /\ leftover \in [Tenants -> Nat]
    /\ strained \subseteq Tenants
    /\ Cardinality(Busy) <= PoolSize

\* Heavy requests of a tenant past the second gate.
InFlight(t) ==
    {r \in Requests : /\ Tenant[r] = t /\ path[r] = "heavy"
                      /\ pc[r] \in {"inside", "querying", "leaving", "releasing"}}

\* Heavy requests of a tenant in flight stay within its cap; the only way round it
\* is to fail open, which takes a command of the same tenant that raised, and even
\* then those that were given a slot are within the cap.
InFlightBounded ==
    \A t \in Tenants :
        /\ Cardinality(InFlight(t) \cap handle) <= Cap[t]
        /\ t \notin strained => InFlight(t) \subseteq handle

\* A tenant that has no more than its cap of requests at a time, and none of whose
\* commands has raised, is never told 429 concurrency_limit, whatever the other tenants
\* do and however many requests it has had before (concurrency_semaphore.py: "one
\* tenant running hot can fill its own slots without starving anyone else's").  One
\* command that raised is enough to make it false: the slot it left counts against
\* the tenant's next requests, which have slot_ids of their own.
QuietNotRefused ==
    \A r \in Requests :
        /\ Cardinality({q \in Requests : Tenant[q] = Tenant[r]}) <= Cap[Tenant[r]]
        /\ Tenant[r] \notin strained
        => answer[r] # "refused"

\* A slot stays behind when its request is over, to be counted until it lapses, only
\* with a tenant one of whose commands raised: every other way through the gates and
\* the view gives it back, however full the pool is with other tenants' commands.
NothingLeftBehind ==
    /\ \A r \in slots : pc[r] = "done" => Tenant[r] \in strained
    /\ \A t \in Tenants : leftover[t] > 0 => t \in strained

\* Every request is answered: however full the pool, no one waits for another.
Answered == \A r \in Requests : pc[r] # "idle" ~> pc[r] = "done"

-----------------------------------------------------------------------------
(* What the comments say of the pool. *)

\* tenant_plan.py: with the sum of the caps under the size of the pool "no single
\* tenant can exhaust it".  Not so: its gates' own commands, and its ingests, which
\* no cap applies to, take connections too.
NoTenantExhaustsPool ==
    \A t \in Tenants : Cardinality({r \in Busy : Tenant[r] = t}) < PoolSize
====
