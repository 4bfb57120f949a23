---- MODULE EventRepositoryProofs ----
(***************************************************************************)
(* The dedup gate for any number of events, attempts, any time to live of  *)
(* the marker and every combination of faults.  That an event is counted   *)
(* once per life of its marker is what OnceLog promises; it is proved      *)
(* there and inherited through the refinement.                             *)
(***************************************************************************)
EXTENDS EventRepository, FiniteSetTheorems, TLAPS

LEMMA Constants == IsFiniteSet(Attempts) /\ TTL \in Nat \ {0} /\ MaxTime \in Nat
BY RepositoryAssumption

LEMMA TypesInit == Init => TypeOK
BY Constants, SMT DEF Init, TypeOK, States

LEMMA TypesStep == TypeOK /\ [Next]_vars => TypeOK'
<1> SUFFICES ASSUME TypeOK, [Next]_vars PROVE TypeOK'
  OBVIOUS
<1>1. ASSUME NEW a \in Attempts, Step(a) PROVE TypeOK'
  <2>1. PICK state \in States : Become(a, state)
    BY <1>1
    DEF Step, Send, Claim, ClaimUnreached, ClaimLost, Append, AppendFails, AppendLost,
        Crash, Retry, States
  <2>2. pc' \in [Attempts -> States] /\ event[a] \in Events
    BY <2>1 DEF Become, TypeOK
  <2>3. event' \in [Attempts -> Events] /\ clock' = clock
    BY <1>1
    DEF Step, Send, Claim, ClaimUnreached, ClaimLost, Append, AppendFails, AppendLost,
        Crash, Retry, TypeOK
  <2>4. CASE Claim(a) \/ ClaimLost(a)
    <3>1. marker' \in [Events -> 0..TTL]
      BY <2>2, <2>4, Constants, SMT DEF Claim, ClaimLost, SetNX, TypeOK
    <3> QED
      BY <2>2, <2>3, <2>4, <3>1 DEF Claim, ClaimLost, TypeOK
  <2>5. CASE Append(a) \/ AppendLost(a)
    <3>1. entries' \in [Events -> Nat]
      BY <2>2, <2>5, SMT DEF Append, AppendLost, TypeOK
    <3> QED
      BY <2>2, <2>3, <2>5, <3>1 DEF Append, AppendLost, TypeOK
  <2>6. CASE Send(a) \/ ClaimUnreached(a) \/ AppendFails(a) \/ Crash(a) \/ Retry(a)
    BY <2>2, <2>3, <2>6 DEF Send, ClaimUnreached, AppendFails, Crash, Retry, TypeOK
  <2> QED
    BY <1>1, <2>4, <2>5, <2>6 DEF Step
<1>2. CASE Tick
  <2>1. ASSUME NEW e \in Events PROVE marker'[e] \in 0..TTL
    <3>1. marker[e] \in 0..TTL /\ marker'[e] = IF marker[e] > 0 THEN marker[e] - 1 ELSE 0
      BY <1>2 DEF Tick, TypeOK
    <3> QED
      BY <3>1, Constants, SMT
  <2>2. marker' \in [Events -> 0..TTL]
    BY <1>2, <2>1 DEF Tick
  <2>3. clock' \in 0..MaxTime
    BY <1>2, Constants, SMT DEF Tick, TypeOK
  <2> QED
    BY <1>2, <2>2, <2>3 DEF Tick, TypeOK
<1>3. CASE UNCHANGED vars
  BY <1>3 DEF vars, TypeOK
<1> QED
  BY <1>1, <1>2, <1>3 DEF Next

\* Clock, markers, entries and attempts stay in their ranges.
THEOREM RepositoryTypeCorrect == Spec => []TypeOK
BY TypesInit, TypesStep, PTL DEF Spec

-----------------------------------------------------------------------------
(* What a 202 stands for. *)

\* The event is in the stream, on its way there, or known to be lost.
Accounted(e) == Kept(e) \/ e \in spent

\* The marker is what a duplicate answer rests on.
MarkedIsAccounted == \A e \in Events : marker[e] > 0 => Accounted(e)

AcceptedInd == TypeOK /\ MarkedIsAccounted /\ AcceptedIsKept

\* A worker on its way to the stream gets there or is accounted for.
LEMMA AccountedStays ==
    ASSUME TypeOK, [Next]_vars, NEW e \in Events, Accounted(e)
    PROVE  Accounted(e)'
<1>1. ASSUME UNCHANGED entries, spent \subseteq spent',
             \A a \in Attempts : pc[a] = "appending" =>
                 \/ pc'[a] = "appending" /\ event'[a] = event[a]
                 \/ event[a] \in spent'
      PROVE  Accounted(e)'
  BY <1>1 DEF Accounted, Kept, Appending
<1>2. ASSUME NEW a \in Attempts, Append(a) \/ AppendLost(a) PROVE Accounted(e)'
  <2>1. PICK state \in {"recorded", "error"} : Become(a, state)
    BY <1>2 DEF Append, AppendLost
  <2>2. /\ entries' = [entries EXCEPT ![event[a]] = @ + 1]
        /\ event' = event /\ spent' = spent
        /\ event[a] \in Events /\ entries \in [Events -> Nat]
    BY <1>2 DEF Append, AppendLost, TypeOK
  <2>3. CASE event[a] = e
    BY <2>2, <2>3, SMT DEF Accounted, Kept
  <2>4. CASE event[a] # e
    BY <2>1, <2>2, <2>4 DEF Accounted, Kept, Appending, Become, TypeOK
  <2> QED
    BY <2>3, <2>4
<1>3. ASSUME NEW a \in Attempts,
             Send(a) \/ Claim(a) \/ ClaimUnreached(a) \/ ClaimLost(a) \/ Retry(a)
      PROVE  Accounted(e)'
  <2>1. UNCHANGED entries /\ spent \subseteq spent'
    BY <1>3 DEF Send, Claim, ClaimUnreached, ClaimLost, Retry
  <2>2. \A b \in Attempts :
          pc[b] = "appending" => pc'[b] = "appending" /\ event'[b] = event[b]
    BY <1>3 DEF Send, Claim, ClaimUnreached, ClaimLost, Retry, Become, TypeOK
  <2> QED
    BY <1>1, <2>1, <2>2
<1>4. ASSUME NEW a \in Attempts, AppendFails(a) \/ Crash(a) PROVE Accounted(e)'
  <2>1. UNCHANGED entries /\ spent \subseteq spent' /\ event' = event
    BY <1>4 DEF AppendFails, Crash
  <2>2. \A b \in Attempts : b # a => pc'[b] = pc[b]
    BY <1>4 DEF AppendFails, Crash, Become, TypeOK
  <2>3. pc[a] = "appending" => event[a] \in spent'
    BY <1>4 DEF AppendFails, Crash
  <2> QED
    BY <1>1, <2>1, <2>2, <2>3
<1>5. CASE Tick \/ UNCHANGED vars
  BY <1>1, <1>5 DEF Tick, vars
<1> QED
  BY <1>2, <1>3, <1>4, <1>5 DEF Next, Step

\* Whoever sets a marker is on its way to the stream, or its reply is lost.
LEMMA MarkedStep ==
    ASSUME TypeOK, MarkedIsAccounted, [Next]_vars
    PROVE  MarkedIsAccounted'
<1> SUFFICES ASSUME NEW e \in Events, marker'[e] > 0 PROVE Accounted(e)'
  BY DEF MarkedIsAccounted
<1>1. marker[e] \in 0..TTL /\ TTL \in Nat
  BY RepositoryAssumption DEF TypeOK
<1>2. CASE marker[e] > 0
  BY <1>2, AccountedStays DEF MarkedIsAccounted
<1>3. CASE marker[e] = 0
  <2>1. ~(Tick \/ UNCHANGED vars)
    BY <1>1, <1>3, SMT DEF Tick, vars
  <2>2. PICK a \in Attempts : Step(a)
    BY <2>1 DEF Next
  <2>3. Claim(a) \/ ClaimLost(a)
    BY <1>3, <2>2
    DEF Step, Send, ClaimUnreached, Append, AppendFails, AppendLost, Crash, Retry
  <2>4. event[a] = e
    BY <1>3, <2>3 DEF Claim, ClaimLost, SetNX, TypeOK
  <2>5. CASE Claim(a)
    <3>1. pc'[a] = "appending" /\ event'[a] = e
      BY <1>3, <2>4, <2>5 DEF Claim, Become, TypeOK
    <3> QED
      BY <3>1 DEF Accounted, Kept, Appending
  <2>6. CASE ClaimLost(a)
    BY <1>3, <2>4, <2>6 DEF ClaimLost, Accounted
  <2> QED
    BY <2>3, <2>5, <2>6
<1> QED
  BY <1>1, <1>2, <1>3, SMT

\* A client is told "recorded" after its XADD, and "duplicate" while there is a marker.
LEMMA AcceptedStep ==
    ASSUME AcceptedInd, [Next]_vars
    PROVE  AcceptedIsKept'
<1> SUFFICES ASSUME NEW b \in Attempts, pc'[b] \in {"recorded", "duplicate"}
             PROVE  Accounted(event[b])' /\ event'[b] = event[b]
  BY DEF AcceptedIsKept, Accounted, Kept, Appending
<1>1. event[b] \in Events
  BY DEF AcceptedInd, TypeOK
<1>2. CASE pc'[b] = pc[b] /\ event'[b] = event[b]
  BY <1>1, <1>2, AccountedStays DEF AcceptedInd, AcceptedIsKept, Accounted
<1>3. CASE ~(pc'[b] = pc[b] /\ event'[b] = event[b])
  <2>1. PICK a \in Attempts : Step(a)
    BY <1>3 DEF Next, Tick, vars
  <2>2. CASE Append(a)
    <3>1. a = b
      BY <1>3, <2>2 DEF Append, Become, AcceptedInd, TypeOK
    <3>2. Accounted(event[b])
      BY <2>2, <3>1 DEF Append, Accounted, Kept, Appending
    <3> QED
      BY <1>1, <2>2, <3>1, <3>2, AccountedStays DEF Append, AcceptedInd
  <2>3. CASE Claim(a)
    <3>1. a = b /\ marker[event[b]] # 0 /\ event' = event
      BY <1>3, <2>3 DEF Claim, Become, AcceptedInd, TypeOK
    <3>2. marker[event[b]] > 0
      <4>1. marker[event[b]] \in 0..TTL /\ TTL \in Nat
        BY <1>1, RepositoryAssumption DEF AcceptedInd, TypeOK
      <4> QED
        BY <3>1, <4>1, SMT
    <3> QED
      BY <1>1, <3>1, <3>2, AccountedStays DEF AcceptedInd, MarkedIsAccounted
  <2>4. CASE ~Append(a) /\ ~Claim(a)
    <3>1. a = b
      BY <1>3, <2>1, <2>4
      DEF Step, Send, ClaimUnreached, ClaimLost, AppendFails, AppendLost, Crash, Retry,
          Become, AcceptedInd, TypeOK
    <3>2. pc'[b] \in {"claiming", "error"}
      BY <2>1, <2>4, <3>1
      DEF Step, Send, ClaimUnreached, ClaimLost, AppendFails, AppendLost, Crash, Retry,
          Become, AcceptedInd, TypeOK
    <3> QED
      BY <3>2
  <2> QED
    BY <2>2, <2>3, <2>4
<1> QED
  BY <1>2, <1>3

\* Every 202 stands for an event that is in the stream or about to be, unless a claim of
\* it came to nothing, whatever else fails, is retried, overtaken, stalled or lost.
THEOREM AcceptedEventsAreKept == Spec => []AcceptedIsKept
<1>1. Init => AcceptedInd
  <2> SUFFICES ASSUME Init PROVE AcceptedInd
    OBVIOUS
  <2>1. TypeOK
    BY TypesInit
  <2>2. MarkedIsAccounted /\ AcceptedIsKept
    BY SMT DEF Init, MarkedIsAccounted, AcceptedIsKept
  <2> QED
    BY <2>1, <2>2 DEF AcceptedInd
<1>2. AcceptedInd /\ TypeOK' /\ [Next]_vars => AcceptedInd'
  BY MarkedStep, AcceptedStep DEF AcceptedInd
<1>3. AcceptedInd => AcceptedIsKept
  BY DEF AcceptedInd
<1> QED
  BY <1>1, <1>2, <1>3, RepositoryTypeCorrect, PTL DEF Spec

\* The exception needs a SET whose reply is lost, an XADD that fails, or a worker that
\* dies: without those, every 202 can be relied on.  Requests that never reach Redis and
\* XADDs whose reply is lost are no exception.
THEOREM OnlyTheGapLoses ==
    ASSUME Faults \subseteq {"unreached", "appendlost"}
    PROVE  Spec => [](AcceptedIsKept /\ spent = {})
<1>1. Init => spent = {}
  BY DEF Init
<1>2. spent = {} /\ [Next]_vars => (spent = {})'
  BY DEF Next, Step, Send, Claim, ClaimUnreached, ClaimLost, Append, AppendFails,
     AppendLost, Crash, Retry, Tick, vars
<1> QED
  BY <1>1, <1>2, AcceptedEventsAreKept, PTL DEF Spec

-----------------------------------------------------------------------------
(* The refinement. *)

\* The abstract state, as the instance maps it.
Tickets == {t \in Attempts \X Events : t[1] \in Appending(t[2])}
Told == [a \in Attempts |-> IF pc[a] \in {"recorded", "duplicate"} THEN pc[a] ELSE "none"]

LEMMA IsTicket ==
    ASSUME NEW a \in Attempts, NEW e \in Events
    PROVE  <<a, e>> \in Tickets <=> pc[a] = "appending" /\ event[a] = e
BY DEF Tickets, Appending

\* A step in which no one gets or uses a ticket.
LEMMA SameTickets ==
    ASSUME \A b \in Attempts :
               \/ pc'[b] = "appending" /\ pc[b] = "appending" /\ event'[b] = event[b]
               \/ pc'[b] # "appending" /\ pc[b] # "appending"
    PROVE  Tickets' = Tickets
BY DEF Tickets, Appending

\* A step in which a gets the ticket of its event.
LEMMA OneMoreTicket ==
    ASSUME TypeOK, NEW a \in Attempts, pc[a] # "appending", Become(a, "appending"),
           UNCHANGED event
    PROVE  Tickets' = Tickets \cup {<<a, event[a]>>}
<1>1. \A b \in Attempts : pc'[b] = "appending" <=> pc[b] = "appending" \/ b = a
  BY DEF Become, TypeOK
<1>2. event[a] \in Events
  BY DEF TypeOK
<1> QED
  BY <1>1, <1>2 DEF Tickets, Appending

\* A step in which a has its ticket no more.
LEMMA OneTicketLess ==
    ASSUME TypeOK, NEW a \in Attempts, pc[a] = "appending", NEW state \in States,
           state # "appending", Become(a, state), UNCHANGED event
    PROVE  Tickets' = Tickets \ {<<a, event[a]>>} /\ <<a, event[a]>> \in Tickets
<1>1. \A b \in Attempts : pc'[b] = "appending" <=> pc[b] = "appending" /\ b # a
  BY DEF Become, TypeOK
<1>2. event[a] \in Events
  BY DEF TypeOK
<1> QED
  BY <1>1, <1>2 DEF Tickets, Appending

LEMMA Tells ==
    ASSUME TypeOK, NEW a \in Attempts, NEW state \in States, Become(a, state)
    PROVE  Told' = [Told EXCEPT ![a] =
                        IF state \in {"recorded", "duplicate"} THEN state ELSE "none"]
BY DEF Told, Become, TypeOK

LEMMA OnceStep ==
    ASSUME NEW c \in Attempts, NEW d \in Events,
           Once!Admit(c, d) \/ Once!TurnAway(c, d) \/ Once!Write(c, d) \/ Once!Lose(c, d)
    PROVE  Once!Next
BY DEF Once!Next

LEMMA StepImplements ==
    ASSUME TypeOK, NEW a \in Attempts, Step(a)
    PROVE  Once!Next \/ UNCHANGED Once!vars
<1>1. PICK e \in Events : e = event[a]
  BY DEF TypeOK
<1>2. ASSUME UNCHANGED <<clock, marker, entries>>, Tickets' = Tickets,
             Told' = [Told EXCEPT ![a] = "none"]
      PROVE  Once!Next \/ UNCHANGED Once!vars
  <2>1. CASE Told[a] # "none"
    <3>1. Once!Ask(a)
      BY <1>2, <2>1 DEF Once!Ask, Tickets, Told
    <3> QED
      BY <3>1 DEF Once!Next
  <2>2. CASE Told[a] = "none"
    BY <1>2, <2>2 DEF Once!vars, Tickets, Told
  <2> QED
    BY <2>1, <2>2
<1>3. CASE Send(a) \/ ClaimUnreached(a) \/ Retry(a)
  <2>1. PICK state \in {"claiming", "error"} : Become(a, state)
    BY <1>3 DEF Send, ClaimUnreached, Retry
  <2>2. Tickets' = Tickets
    BY <1>3, SameTickets DEF Send, ClaimUnreached, Retry, Become, TypeOK
  <2>3. Told' = [Told EXCEPT ![a] = "none"]
    BY <2>1, Tells DEF States
  <2> QED
    BY <1>2, <1>3, <2>2, <2>3 DEF Send, ClaimUnreached, Retry
<1>4. CASE Claim(a) /\ marker[e] = 0
  <2>1. Become(a, "appending") /\ pc[a] # "appending" /\ UNCHANGED event
    BY <1>1, <1>4 DEF Claim
  <2>2. Tickets' = Tickets \cup {<<a, e>>}
    BY <1>1, <2>1, OneMoreTicket
  <2>3. Told' = Told
    BY <1>1, <1>4, <2>1 DEF Claim, Told, Become, TypeOK
  <2>4. Once!Admit(a, e)
    BY <1>1, <1>4, <2>2, <2>3 DEF Claim, SetNX, Once!Admit, Tickets, Told
  <2> QED
    BY <1>1, <2>4, OnceStep
<1>5. CASE Claim(a) /\ marker[e] # 0
  <2>1. Become(a, "duplicate") /\ UNCHANGED <<clock, event, marker, entries>>
    BY <1>1, <1>5 DEF Claim, SetNX
  <2>2. Tickets' = Tickets
    BY <1>1, <1>5, <2>1, SameTickets DEF Claim, Become, TypeOK
  <2>3. Told' = [Told EXCEPT ![a] = "duplicate"]
    BY <2>1, Tells DEF States
  <2>4. marker[e] > 0
    <3>1. marker[e] \in 0..TTL /\ TTL \in Nat
      BY <1>1, RepositoryAssumption DEF TypeOK
    <3> QED
      BY <1>5, <3>1, SMT
  <2>5. Once!TurnAway(a, e)
    BY <2>1, <2>2, <2>3, <2>4 DEF Once!TurnAway, Tickets, Told
  <2> QED
    BY <1>1, <2>5, OnceStep
<1>6. CASE ClaimLost(a)
  <2>1. Tickets' = Tickets
    BY <1>6, SameTickets DEF ClaimLost, Become, TypeOK
  <2>2. Told' = Told
    BY <1>6 DEF ClaimLost, Told, Become, TypeOK
  <2>3. CASE marker[e] = 0
    <3>1. Once!Admit(a, e)
      BY <1>1, <1>6, <2>1, <2>2, <2>3 DEF ClaimLost, SetNX, Once!Admit, Tickets, Told
    <3> QED
      BY <1>1, <3>1, OnceStep
  <2>4. CASE marker[e] # 0
    BY <1>1, <1>6, <2>1, <2>2, <2>4 DEF ClaimLost, SetNX, Once!vars, Tickets, Told
  <2> QED
    BY <2>3, <2>4
<1>7. CASE Append(a) \/ AppendLost(a)
  <2>1. PICK state \in {"recorded", "error"} : Become(a, state)
    BY <1>7 DEF Append, AppendLost
  <2>2. Tickets' = Tickets \ {<<a, e>>} /\ <<a, e>> \in Tickets
    BY <1>1, <1>7, <2>1, OneTicketLess DEF Append, AppendLost, States
  <2>3. Told' \in {Told, [Told EXCEPT ![a] = "recorded"]}
    BY <1>7, <2>1 DEF Append, AppendLost, Told, Become, TypeOK
  <2>4. Once!Write(a, e)
    BY <1>1, <1>7, <2>2, <2>3 DEF Append, AppendLost, Once!Write, Tickets, Told
  <2> QED
    BY <1>1, <2>4, OnceStep
<1>8. CASE (AppendFails(a) \/ Crash(a)) /\ pc[a] = "appending"
  <2>1. Become(a, "error") /\ UNCHANGED <<clock, event, marker, entries>>
    BY <1>8 DEF AppendFails, Crash
  <2>2. Tickets' = Tickets \ {<<a, e>>} /\ <<a, e>> \in Tickets
    BY <1>1, <1>8, <2>1, OneTicketLess DEF States
  <2>3. Told' = Told
    BY <1>8, <2>1 DEF Told, Become, TypeOK
  <2>4. Once!Lose(a, e)
    BY <2>1, <2>2, <2>3 DEF Once!Lose, Tickets, Told
  <2> QED
    BY <1>1, <2>4, OnceStep
<1>9. CASE Crash(a) /\ pc[a] # "appending"
  <2>1. Tickets' = Tickets
    BY <1>9, SameTickets DEF Crash, Become, TypeOK
  <2>2. Told' = [Told EXCEPT ![a] = "none"]
    BY <1>9, Tells DEF Crash, States
  <2> QED
    BY <1>2, <1>9, <2>1, <2>2 DEF Crash
<1> QED
  BY <1>3, <1>4, <1>5, <1>6, <1>7, <1>8, <1>9 DEF Step, AppendFails

\* Whatever fails, is retried or comes late, ingestion is a log to which an event is
\* admitted at most once in the life of a marker, and no client is told of an entry,
\* or of a duplicate, without cause.
THEOREM RepositoryImplementsOnceLog == Spec => ImplementsOnceLog
<1>1. Init => Once!Init
  BY DEF Init, Once!Init, Appending
<1>2. TypeOK /\ [Next]_vars => [Once!Next]_(Once!vars)
  <2> SUFFICES ASSUME TypeOK, [Next]_vars PROVE Once!Next \/ UNCHANGED Once!vars
    OBVIOUS
  <2>1. ASSUME NEW a \in Attempts, Step(a) PROVE Once!Next \/ UNCHANGED Once!vars
    BY <2>1, StepImplements
  <2>2. CASE Tick
    <3>1. Tickets' = Tickets /\ Told' = Told
      BY <2>2 DEF Tick, Tickets, Appending, Told
    <3>2. Once!Tick
      BY <2>2, <3>1 DEF Tick, Once!Tick, Tickets, Told
    <3> QED
      BY <3>2 DEF Once!Next
  <2>3. CASE UNCHANGED vars
    BY <2>3 DEF vars, Once!vars, Appending
  <2> QED
    BY <2>1, <2>2, <2>3 DEF Next
<1> QED
  BY <1>1, <1>2, RepositoryTypeCorrect, PTL DEF Spec, ImplementsOnceLog, Once!Spec

-----------------------------------------------------------------------------
(* What follows from the refinement. *)

Promise == INSTANCE OnceLogProofs WITH
    Clients <- Attempts, Window <- TTL, time <- clock, shut <- marker, log <- entries,
    tickets <- Tickets, told <- Told

\* An event is counted at most once per life of its marker.
THEOREM CountedOncePerWindow == Spec => []OncePerWindow
<1>1. Once!Spec <=> Promise!Spec
  BY DEF Once!Spec, Once!Init, Once!Next, Once!vars, Once!Ask, Once!Admit, Once!TurnAway,
     Once!Write, Once!Lose, Once!Tick, Promise!Spec, Promise!Init, Promise!Next,
     Promise!vars, Promise!Ask, Promise!Admit, Promise!TurnAway, Promise!Write,
     Promise!Lose, Promise!Tick, Tickets, Told
<1>2. Promise!Spec => []Promise!OncePerWindow
  BY Constants, Promise!LogIsSpaced DEF Promise!Sensible, Promise!IsFiniteSet, IsFiniteSet
<1>3. Promise!OncePerWindow => OncePerWindow
  BY DEF Promise!OncePerWindow, OncePerWindow
<1> QED
  BY <1>1, <1>2, <1>3, RepositoryImplementsOnceLog, PTL DEF ImplementsOnceLog
====
