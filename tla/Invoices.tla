---- MODULE Invoices ----
(***************************************************************************)
(* The two-phase "calculate then generate" flow of one tenant:             *)
(* calculate_for (billing/application/billing_calculator.py) leaves a      *)
(* draft in Redis, generate_for (billing/application/invoice_generator.py) *)
(* issues it.  Neither is a transaction: each is a sequence of Redis round *)
(* trips between which other requests, the clock and the expiry of keys    *)
(* get their turn.                                                         *)
(***************************************************************************)
EXTENDS Integers, FiniteSets

CONSTANTS
    Calculations,   \* POSTs to /billing/calculate; each draws an invoice_id of its own
    Generations,    \* POSTs to /invoices/generate
    TTL,            \* _INVOICE_TTL_SECONDS, in ticks
    Price,          \* what an event costs the customer, from billing:pricing or the default
    MaxEvents,      \* bound: entries of the tenant's stream
    MaxTime,        \* bound: ticks the system is observed for
    Aborts          \* whether a request may die or get an error between two round trips

ASSUME InvoicesAssumption ==
    /\ TTL \in Nat \ {0}
    /\ Price \in Nat \ {0}
    /\ MaxEvents \in Nat
    /\ MaxTime \in Nat
    /\ Aborts \in BOOLEAN

VARIABLES
    clock,      \* the present
    events,     \* XLEN of billing:events:<tenant>
    invoice,    \* the hash at billing:invoice:<tenant>:<id>, by calculation
    calc,       \* where each calculation is
    quoted,     \* the amount a calculation computed, and answers once it is "done"
    gen,        \* where each generation is
    target,     \* the invoice a generation issues
    amount,     \* the amount a generation read, and answers once it is "issued"
    stamp,      \* the issued_at a generation has read from the clock
    doneAt,     \* history: when a generation was answered 200
    raced       \* history: invoices whose key expired under a running generation

vars == <<clock, events, invoice, calc, quoted, gen, target, amount, stamp, doneAt, raced>>
calcVars == <<calc, quoted>>
genVars == <<gen, target, amount, stamp, doneAt>>

\* A field HGETALL does not return.
Absent == -1

\* ttl = 0: no expiry is set.
Hash == [exists : BOOLEAN, ttl : 0..TTL, amount : Nat \cup {Absent},
         status : {"none", "draft", "issued"}, issued_at : Nat \cup {Absent}]
NoHash == [exists |-> FALSE, ttl |-> 0, amount |-> Absent,
           status |-> "none", issued_at |-> Absent]

Init ==
    /\ clock = 0
    /\ events = 0
    /\ invoice = [c \in Calculations |-> NoHash]
    /\ calc = [c \in Calculations |-> "idle"]
    /\ quoted = [c \in Calculations |-> 0]
    /\ gen = [g \in Generations |-> "idle"]
    /\ target \in [Generations -> Calculations]
    /\ amount = [g \in Generations |-> 0]
    /\ stamp = [g \in Generations |-> 0]
    /\ doneAt = [g \in Generations |-> 0]
    /\ raced = {}

\* EXPIRE on a key: nothing happens if it is not there.
Expiring_WrongUnit(h) == IF h.exists THEN [h EXCEPT !.ttl = 1000 * TTL] ELSE h
Expiring(h) == IF h.exists THEN [h EXCEPT !.ttl = TTL] ELSE h

-----------------------------------------------------------------------------
(* calculate_for *)

\* XLEN and HGET, the amount computed from them.
Calculate(c) ==
    /\ calc[c] = "idle"
    /\ quoted' = [quoted EXCEPT ![c] = events * Price]
    /\ calc' = [calc EXCEPT ![c] = "priced"]
    /\ UNCHANGED <<clock, events, invoice, genVars, raced>>

\* HSET of the whole draft under a fresh id.
WriteDraft(c) ==
    /\ calc[c] = "priced"
    /\ invoice' = [invoice EXCEPT ![c] =
           [@ EXCEPT !.exists = TRUE, !.amount = quoted[c], !.status = "draft"]]
    /\ calc' = [calc EXCEPT ![c] = "written"]
    /\ UNCHANGED <<clock, events, quoted, genVars, raced>>

\* EXPIRE, and the answer that tells the client the id and the amount.
ExpireDraft_Forgotten(c) ==
    /\ calc[c] = "written"
    /\ calc' = [calc EXCEPT ![c] = "done"]
    /\ UNCHANGED <<clock, events, invoice, quoted, genVars, raced>>

ExpireDraft(c) ==
    /\ calc[c] = "written"
    /\ invoice' = [invoice EXCEPT ![c] = Expiring(@)]
    /\ calc' = [calc EXCEPT ![c] = "done"]
    /\ UNCHANGED <<clock, events, quoted, genVars, raced>>

\* A round trip fails (500) or the worker dies: nothing cleans up.
AbortCalculation(c) ==
    /\ Aborts
    /\ calc[c] \in {"priced", "written"}
    /\ calc' = [calc EXCEPT ![c] = "aborted"]
    /\ UNCHANGED <<clock, events, invoice, quoted, genVars, raced>>

-----------------------------------------------------------------------------
(* generate_for *)

\* HGETALL of an invoice whose id the client was told; 404 if it is empty.
ReadDraft(g) ==
    /\ gen[g] = "idle"
    /\ calc[target[g]] = "done"
    /\ LET h == invoice[target[g]]
       IN  /\ gen' = [gen EXCEPT ![g] = IF h.exists THEN "read" ELSE "notfound"]
           /\ amount' = [amount EXCEPT ![g] = IF h.amount = Absent THEN 0 ELSE h.amount]
    /\ UNCHANGED <<clock, events, invoice, calcVars, target, stamp, doneAt, raced>>

\* issued_at = time.time()
ReadClock(g) ==
    /\ gen[g] = "read"
    /\ stamp' = [stamp EXCEPT ![g] = clock]
    /\ gen' = [gen EXCEPT ![g] = "stamped"]
    /\ UNCHANGED <<clock, events, invoice, calcVars, target, amount, doneAt, raced>>

\* HSET of status and issued_at, on whatever is there by now.
WriteIssued_Rewrites(g) ==
    /\ gen[g] = "stamped"
    /\ invoice' = [invoice EXCEPT ![target[g]] =
           [NoHash EXCEPT !.exists = TRUE, !.status = "issued", !.issued_at = stamp[g]]]
    /\ gen' = [gen EXCEPT ![g] = "written"]
    /\ UNCHANGED <<clock, events, calcVars, target, amount, stamp, doneAt, raced>>

WriteIssued_KeepsFirst(g) ==
    /\ gen[g] = "stamped"
    /\ invoice' = [invoice EXCEPT ![target[g]] =
           [@ EXCEPT !.exists = TRUE, !.status = "issued",
                     !.issued_at = IF @ = Absent THEN stamp[g] ELSE @]]
    /\ gen' = [gen EXCEPT ![g] = "written"]
    /\ UNCHANGED <<clock, events, calcVars, target, amount, stamp, doneAt, raced>>

WriteIssued(g) ==
    /\ gen[g] = "stamped"
    /\ invoice' = [invoice EXCEPT ![target[g]] =
           [@ EXCEPT !.exists = TRUE, !.status = "issued", !.issued_at = stamp[g]]]
    /\ gen' = [gen EXCEPT ![g] = "written"]
    /\ UNCHANGED <<clock, events, calcVars, target, amount, stamp, doneAt, raced>>

\* EXPIRE, and the answer: 200 with the amount that was read first.
ExtendLife_Forgotten(g) ==
    /\ gen[g] = "written"
    /\ gen' = [gen EXCEPT ![g] = "issued"]
    /\ doneAt' = [doneAt EXCEPT ![g] = clock]
    /\ UNCHANGED <<clock, events, invoice, calcVars, target, amount, stamp, raced>>

ExtendLife(g) ==
    /\ gen[g] = "written"
    /\ invoice' = [invoice EXCEPT ![target[g]] = Expiring(@)]
    /\ gen' = [gen EXCEPT ![g] = "issued"]
    /\ doneAt' = [doneAt EXCEPT ![g] = clock]
    /\ UNCHANGED <<clock, events, calcVars, target, amount, stamp, raced>>

AbortGeneration(g) ==
    /\ Aborts
    /\ gen[g] \in {"read", "stamped", "written"}
    /\ gen' = [gen EXCEPT ![g] = "aborted"]
    /\ UNCHANGED <<clock, events, invoice, calcVars, target, amount, stamp, doneAt, raced>>

-----------------------------------------------------------------------------

\* The ingest endpoint appends to the stream (module EventRepository).
Ingest ==
    /\ events < MaxEvents
    /\ events' = events + 1
    /\ UNCHANGED <<clock, invoice, calcVars, genVars, raced>>

Running(g) == gen[g] \in {"read", "stamped", "written"}
Expires(c) == invoice[c].exists /\ invoice[c].ttl = 1

Aged(h) ==
    IF h.exists /\ h.ttl > 0
    THEN IF h.ttl = 1 THEN NoHash ELSE [h EXCEPT !.ttl = @ - 1]
    ELSE h

Tick ==
    /\ clock < MaxTime
    /\ clock' = clock + 1
    /\ invoice' = [c \in Calculations |-> Aged(invoice[c])]
    /\ raced' = raced \cup
           {c \in Calculations : Expires(c) /\ \E g \in Generations : Running(g) /\ target[g] = c}
    /\ UNCHANGED <<events, calcVars, genVars>>

Next ==
    \/ Tick
    \/ Ingest
    \/ \E c \in Calculations :
        Calculate(c) \/ WriteDraft(c) \/ ExpireDraft(c) \/ AbortCalculation(c)
    \/ \E g \in Generations :
        \/ ReadDraft(g) \/ ReadClock(g) \/ WriteIssued(g) \/ ExtendLife(g)
        \/ AbortGeneration(g)

Spec == Init /\ [][Next]_vars

-----------------------------------------------------------------------------

TypeOK ==
    /\ clock \in 0..MaxTime
    /\ events \in 0..MaxEvents
    /\ invoice \in [Calculations -> Hash]
    /\ calc \in [Calculations -> {"idle", "priced", "written", "done", "aborted"}]
    /\ quoted \in [Calculations -> Nat]
    /\ gen \in [Generations ->
           {"idle", "read", "notfound", "stamped", "written", "issued", "aborted"}]
    /\ target \in [Generations -> Calculations]
    /\ amount \in [Generations -> Nat]
    /\ stamp \in [Generations -> 0..MaxTime]
    /\ doneAt \in [Generations -> 0..MaxTime]
    /\ raced \subseteq Calculations

\* A client that commits to an invoice is answered the amount it was quoted,
\* unless the draft expired under a running generation: however many generations
\* of it run at the same time, are repeated or die halfway, and however many events
\* arrive meanwhile.
IssuedAsQuoted ==
    \A g \in Generations :
        gen[g] = "issued" /\ target[g] \notin raced => amount[g] = quoted[target[g]]

\* After a 200 the whole issued invoice can be fetched for the full time to live,
\* with the same exception.
IssuedIsKept ==
    \A g \in Generations :
        gen[g] = "issued" /\ target[g] \notin raced /\ clock - doneAt[g] < TTL
            => LET h == invoice[target[g]]
               IN  h.exists /\ h.status = "issued" /\ h.amount = quoted[target[g]]

\* A hash with no expiry is in the hands of a request that is about to set one, or
\* was left behind by a request that died on the way.  (billing_calculator.py: a
\* missing EXPIRE "would leak drafts into Redis memory forever".)
NoImmortals ==
    \A c \in Calculations :
        invoice[c].exists /\ invoice[c].ttl = 0
            => \/ calc[c] \in {"written", "aborted"}
               \/ \E g \in Generations : gen[g] \in {"written", "aborted"} /\ target[g] = c

\* The issue time a hash carries was read by a generation that wrote it, and every
\* generation that was answered 200 had read its own by the time that one was
\* answered: of generations that follow each other the last one's time stays
\* (invoice_generator.py: "the second write ... overwrites issued_at with the later
\* value").  Of overlapping ones either may: each reads its time before its HSET, and
\* the second write may carry the earlier value.
IssuedAtIsLatest ==
    \A c \in Calculations :
        invoice[c].status = "issued" =>
            \E w \in Generations :
                /\ target[w] = c /\ invoice[c].issued_at = stamp[w]
                /\ gen[w] \in {"written", "issued", "aborted"}
                /\ gen[w] = "issued" =>
                     \A g \in Generations :
                         target[g] = c /\ gen[g] = "issued" => stamp[g] <= doneAt[w]

-----------------------------------------------------------------------------
(* What the comments and tests say without those exceptions. *)

\* invoice_generator.py: "the numbers the client saw at calculate time are the
\* numbers they're committing to".
CommittedAmount ==
    \A g \in Generations : gen[g] = "issued" => amount[g] = quoted[target[g]]

\* test_generate_refreshes_ttl: the refresh is there so that the caller is never
\* left with "a success response but no persisted record".
SuccessIsPersisted ==
    \A g \in Generations :
        gen[g] = "issued" /\ clock = doneAt[g] => invoice[target[g]].exists
====
