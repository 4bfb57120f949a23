---- MODULE OnceLog ----
(***************************************************************************)
(* What ingestion promises a tenant, without markers, round trips and      *)
(* workers: a log to which an event is admitted at most once in a Window.  *)
(* Admission hands out a ticket; a ticket is good for one entry, which may *)
(* be long in coming, and may be lost instead.                             *)
(***************************************************************************)
EXTENDS Integers

CONSTANTS Events, Clients, Window

VARIABLES
    time,      \* ticks since the start
    shut,      \* how long an event is not admitted for
    tickets,   \* who may still write an entry of which event
    log,       \* entries of each event
    told       \* the answer each client has last been given

vars == <<time, shut, tickets, log, told>>

Init ==
    /\ time = 0
    /\ shut = [e \in Events |-> 0]
    /\ tickets = {}
    /\ log = [e \in Events |-> 0]
    /\ told = [c \in Clients |-> "none"]

\* A client posts the event again, or another one.
Ask(c) ==
    /\ told[c] # "none"
    /\ told' = [told EXCEPT ![c] = "none"]
    /\ UNCHANGED <<time, shut, tickets, log>>

\* The event is admitted, and its ticket goes to c or gets lost.
Admit(c, e) ==
    /\ shut[e] = 0
    /\ shut' = [shut EXCEPT ![e] = Window]
    /\ tickets' \in {tickets, tickets \cup {<<c, e>>}}
    /\ UNCHANGED <<time, log, told>>

\* Only an event that was admitted within the last Window is called a duplicate.
TurnAway(c, e) ==
    /\ shut[e] > 0
    /\ told' = [told EXCEPT ![c] = "duplicate"]
    /\ UNCHANGED <<time, shut, tickets, log>>

\* A ticket becomes an entry; the client may not hear of it, but never hears of an
\* entry that is not there.
Write(c, e) ==
    /\ <<c, e>> \in tickets
    /\ tickets' = tickets \ {<<c, e>>}
    /\ log' = [log EXCEPT ![e] = @ + 1]
    /\ told' \in {told, [told EXCEPT ![c] = "recorded"]}
    /\ UNCHANGED <<time, shut>>

Lose(c, e) ==
    /\ <<c, e>> \in tickets
    /\ tickets' = tickets \ {<<c, e>>}
    /\ UNCHANGED <<time, shut, log, told>>

Tick ==
    /\ time' = time + 1
    /\ shut' = [e \in Events |-> IF shut[e] > 0 THEN shut[e] - 1 ELSE 0]
    /\ UNCHANGED <<tickets, log, told>>

Next ==
    \/ Tick
    \/ \E c \in Clients : Ask(c)
    \/ \E c \in Clients, e \in Events :
        Admit(c, e) \/ TurnAway(c, e) \/ Write(c, e) \/ Lose(c, e)

Spec == Init /\ [][Next]_vars

-----------------------------------------------------------------------------

\* What the Window is for: n entries of an event take n - 1 Windows, however long the
\* tickets are in coming (event_repository.py: without the gate "a single logical 'user
\* clicked buy' becomes two stream entries").
OncePerWindow == \A e \in Events : log[e] * Window <= time + Window
====
