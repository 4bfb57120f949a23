---- MODULE LeasePool ----
(***************************************************************************)
(* What a tenant's concurrency semaphore promises, without its hosts'      *)
(* clocks, sorted set and key: a pool of Capacity leases.  A lease is its  *)
(* holder's for MinLife at least, and counts against others for MaxLife at *)
(* most; in between the pool may take it back whenever it likes.           *)
(***************************************************************************)
EXTENDS Integers, FiniteSets

CONSTANTS Clients, Capacity, MinLife, MaxLife

VARIABLES
    lease,     \* for each lease that is out: its age, counted up to MaxLife
    answer     \* what each client has been told

vars == <<lease, answer>>

Init ==
    /\ lease = [c \in {} |-> 0]
    /\ answer = [c \in Clients |-> "none"]

\* The leases that are left when some that have had their MinLife are taken back.
Kept == {K \in SUBSET DOMAIN lease : \A c \in DOMAIN lease \ K : lease[c] >= MinLife}

\* A lease goes out; the client need not hear of it.
Grant(c) ==
    /\ answer[c] = "none" /\ c \notin DOMAIN lease
    /\ \E K \in Kept :
        /\ Cardinality(K) < Capacity
        /\ lease' = [d \in K \cup {c} |-> IF d = c THEN 0 ELSE lease[d]]
    /\ answer' \in {answer, [answer EXCEPT ![c] = "granted"]}

\* Only Capacity leases younger than MaxLife justify a refusal.
Refuse(c) ==
    /\ answer[c] = "none"
    /\ \E K \in Kept :
        /\ Cardinality({d \in K : lease[d] < MaxLife}) >= Capacity
        /\ lease' = [d \in K |-> lease[d]]
    /\ answer' = [answer EXCEPT ![c] = "refused"]

TakeBack ==
    /\ \E K \in Kept : lease' = [d \in K |-> lease[d]]
    /\ UNCHANGED answer

GiveBack(c) ==
    /\ answer[c] = "granted"
    /\ lease' = [d \in DOMAIN lease \ {c} |-> lease[d]]
    /\ answer' = [answer EXCEPT ![c] = "none"]

\* The holder is gone without giving its lease back, or a refused client asks again.
Forget(c) ==
    /\ answer[c] # "none"
    /\ answer' = [answer EXCEPT ![c] = "none"]
    /\ UNCHANGED lease

Tick ==
    /\ \E K \in SUBSET DOMAIN lease :
        /\ \A c \in DOMAIN lease \ K : lease[c] + 1 >= MinLife
        /\ lease' = [c \in K |-> IF lease[c] < MaxLife THEN lease[c] + 1 ELSE MaxLife]
    /\ UNCHANGED answer

Next ==
    \/ Tick \/ TakeBack
    \/ \E c \in Clients : Grant(c) \/ Refuse(c) \/ GiveBack(c) \/ Forget(c)

Spec == Init /\ [][Next]_vars
====
