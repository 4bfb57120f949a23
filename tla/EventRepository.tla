---- MODULE EventRepository ----
(***************************************************************************)
(* record_event of billing/infrastructure/event_repository.py: claim the   *)
(* (tenant, idempotency_key) pair with SET NX EX, then XADD the event to   *)
(* the tenant's stream - two round trips, run by any number of workers for *)
(* first tries and retries of the same event.                              *)
(***************************************************************************)
EXTENDS Integers, FiniteSets

CONSTANTS
    Events,     \* (tenant_id, idempotency_key) pairs
    Attempts,   \* POSTs to /events/ingest, each run by a worker of its own
    TTL,        \* IDEMPOTENCY_TTL_SECONDS, in ticks
    MaxTime,    \* bound: ticks the system is observed for
    Faults      \* what may go wrong: subset of the kinds below

ASSUME RepositoryAssumption ==
    /\ IsFiniteSet(Attempts)
    /\ TTL \in Nat \ {0}
    /\ MaxTime \in Nat
    /\ Faults \subseteq {"unreached", "claimlost", "appendfails", "appendlost", "crash"}

VARIABLES
    clock,     \* ticks since the start
    marker,    \* what is left of the life of billing:idem:<tenant>:<key>; 0: no marker
    entries,   \* how many entries of the tenant's stream carry the key
    pc,        \* where each attempt is
    event,     \* the event an attempt is about
    spent      \* history: events with a claim that came to nothing: the worker was lost,
               \* or its SET or XADD failed, between the two round trips

vars == <<clock, marker, entries, pc, event, spent>>

\* "recorded" and "duplicate" are the two answers 202 carries, "error" is a 500
\* or no answer at all.
States == {"idle", "claiming", "appending", "recorded", "duplicate", "error"}

Init ==
    /\ clock = 0
    /\ marker = [e \in Events |-> 0]
    /\ entries = [e \in Events |-> 0]
    /\ pc = [a \in Attempts |-> "idle"]
    /\ event \in [Attempts -> Events]
    /\ spent = {}

Become(a, state) == pc' = [pc EXCEPT ![a] = state]

\* SET marker "1" NX EX ttl, as Redis executes it.
SetNX_WrongUnit(e) ==
    marker' = IF marker[e] = 0 THEN [marker EXCEPT ![e] = 1000 * TTL] ELSE marker

SetNX(e) ==
    marker' = IF marker[e] = 0 THEN [marker EXCEPT ![e] = TTL] ELSE marker

\* A client posts an event, for the first time or (its own retry queue, an impatient
\* timeout) once more.
Send(a) ==
    /\ pc[a] \in {"idle", "recorded", "duplicate"}
    /\ \E e \in Events : event' = [event EXCEPT ![a] = e]
    /\ Become(a, "claiming")
    /\ UNCHANGED <<clock, marker, entries, spent>>

\* _claim_idempotency: the first caller goes on to append, others are told
\* duplicate=True.
Claim_ReplyIgnored(a) ==
    /\ pc[a] = "claiming"
    /\ SetNX(event[a])
    /\ Become(a, "appending")
    /\ UNCHANGED <<clock, entries, event, spent>>

Claim_Inverted(a) ==
    /\ pc[a] = "claiming"
    /\ SetNX(event[a])
    /\ Become(a, IF marker[event[a]] = 0 THEN "duplicate" ELSE "appending")
    /\ UNCHANGED <<clock, entries, event, spent>>

Claim(a) ==
    /\ pc[a] = "claiming"
    /\ SetNX(event[a])
    /\ Become(a, IF marker[event[a]] = 0 THEN "appending" ELSE "duplicate")
    /\ UNCHANGED <<clock, entries, event, spent>>

\* client.set raises without having reached Redis.
ClaimUnreached(a) ==
    /\ "unreached" \in Faults
    /\ pc[a] = "claiming"
    /\ Become(a, "error")
    /\ UNCHANGED <<clock, marker, entries, event, spent>>

\* client.set raises, but Redis has executed it.
ClaimLost(a) ==
    /\ "claimlost" \in Faults
    /\ pc[a] = "claiming"
    /\ SetNX(event[a])
    /\ spent' = IF marker[event[a]] = 0 THEN spent \cup {event[a]} ELSE spent
    /\ Become(a, "error")
    /\ UNCHANGED <<clock, entries, event>>

\* client.xadd: one more entry in the tenant's stream.
Append(a) ==
    /\ pc[a] = "appending"
    /\ entries' = [entries EXCEPT ![event[a]] = @ + 1]
    /\ Become(a, "recorded")
    /\ UNCHANGED <<clock, marker, event, spent>>

\* client.xadd raises; the marker stays.
AppendFails(a) ==
    /\ "appendfails" \in Faults
    /\ pc[a] = "appending"
    /\ spent' = spent \cup {event[a]}
    /\ Become(a, "error")
    /\ UNCHANGED <<clock, marker, entries, event>>

\* client.xadd raises, but Redis has executed it.
AppendLost(a) ==
    /\ "appendlost" \in Faults
    /\ pc[a] = "appending"
    /\ entries' = [entries EXCEPT ![event[a]] = @ + 1]
    /\ Become(a, "error")
    /\ UNCHANGED <<clock, marker, event, spent>>

\* The worker dies; the client sees the connection close.
Crash(a) ==
    /\ "crash" \in Faults
    /\ \/ pc[a] = "claiming" /\ UNCHANGED spent
       \/ pc[a] = "appending" /\ spent' = spent \cup {event[a]}
    /\ Become(a, "error")
    /\ UNCHANGED <<clock, marker, entries, event>>

\* A client that was not answered 202 posts the event again.
Retry(a) ==
    /\ pc[a] = "error"
    /\ Become(a, "claiming")
    /\ UNCHANGED <<clock, marker, entries, event, spent>>

\* Time passes; markers whose time is up are gone.
Tick ==
    /\ clock < MaxTime
    /\ clock' = clock + 1
    /\ marker' = [e \in Events |-> IF marker[e] > 0 THEN marker[e] - 1 ELSE 0]
    /\ UNCHANGED <<entries, pc, event, spent>>

Step(a) ==
    \/ Send(a) \/ Claim(a) \/ ClaimUnreached(a) \/ ClaimLost(a)
    \/ Append(a) \/ AppendFails(a) \/ AppendLost(a) \/ Crash(a) \/ Retry(a)

Next == Tick \/ \E a \in Attempts : Step(a)

\* A worker that got its claim goes on; clients retry what was not answered
\* 202; Redis is reached now and then.
Fairness ==
    \A a \in Attempts :
        /\ SF_vars(Claim(a) \/ ClaimLost(a))
        /\ WF_vars(Append(a) \/ AppendFails(a) \/ AppendLost(a))
        /\ WF_vars(Retry(a))

Spec == Init /\ [][Next]_vars
FairSpec == Spec /\ Fairness

-----------------------------------------------------------------------------

TypeOK ==
    /\ clock \in 0..MaxTime
    /\ marker \in [Events -> 0..TTL]
    /\ entries \in [Events -> Nat]
    /\ pc \in [Attempts -> States]
    /\ event \in [Attempts -> Events]
    /\ spent \subseteq Events

\* An event is counted at most once per life of its marker: n entries need
\* (n - 1) times TTL to have passed, however many retries, crashes, lost replies
\* and stalled workers there are ("Without a dedup gate, a single logical 'user
\* clicked buy' becomes two stream entries").
OncePerWindow == \A e \in Events : entries[e] * TTL <= clock + TTL

\* Workers past the gate, on their way to the XADD.
Appending(e) == {a \in Attempts : pc[a] = "appending" /\ event[a] = e}

\* An event that is in the stream, or about to be.
Kept(e) == entries[e] > 0 \/ Appending(e) # {}

\* Whoever is answered 202 - recorded, or a duplicate of what another request posted,
\* however early - can rely on the event: it is in the stream or a worker is on its way
\* there, unless a claim of it was spent without an XADD.  Requests that never reach
\* Redis, lost replies to XADD, retries, stalls and markers that expire do no harm
\* (record_event's gate: "someone (possibly us, on an earlier attempt) has already
\* recorded this event").
AcceptedIsKept ==
    \A a \in Attempts :
        pc[a] \in {"recorded", "duplicate"} => Kept(event[a]) \/ event[a] \in spent

\* An event that is posted and retried ends up in the stream, whatever fails and
\* whoever answers: the one way to lose it is a claim that is spent without an XADD.
\* A reply lost after XADD, a refused or stalled claim, a duplicate answer to an
\* attempt that overtook the first, an expired marker do not lose it.
EventuallyRecorded ==
    \A a \in Attempts, e \in Events :
        pc[a] \in {"claiming", "error", "duplicate"} /\ event[a] = e
            ~> entries[e] > 0 \/ e \in spent

\* The marker, the stream and the workers between the two round trips are a log with
\* tickets: a worker has one between its SET and its XADD (record_event: "control only
\* reaches the XADD when we are provably the first writer for this key"), and a client
\* is told of an entry, or of a duplicate, only when there was one, or an admission.
Once == INSTANCE OnceLog WITH
    Clients <- Attempts, Window <- TTL,
    time <- clock, shut <- marker, log <- entries,
    tickets <- {t \in Attempts \X Events : t[1] \in Appending(t[2])},
    told <- [a \in Attempts |-> IF pc[a] \in {"recorded", "duplicate"} THEN pc[a] ELSE "none"]
ImplementsOnceLog == Once!Spec

-----------------------------------------------------------------------------
(* What the comments say without that exception. *)

\* ingest_event.py: duplicate=True means that the event "was already ingested - the
\* prior event is authoritative and no new record is written"; taken as weakly as
\* can be, the prior event is in the stream sooner or later.  Not so once an XADD
\* has failed.
DuplicateIsAuthoritative ==
    \A a \in Attempts, e \in Events :
        pc[a] = "duplicate" /\ event[a] = e ~> entries[e] > 0
====
