---- MODULE OnceLogProofs ----
(***************************************************************************)
(* The bound a log gets from its Window, for any number of events and      *)
(* clients.  Whatever implements OnceLog inherits it.                      *)
(***************************************************************************)
EXTENDS OnceLog, FiniteSetTheorems, TLAPS

Types ==
    /\ time \in Nat
    /\ shut \in [Events -> 0..Window]
    /\ tickets \subseteq Clients \X Events
    /\ log \in [Events -> Nat]

\* Who still has a ticket for the event.
Bearers(e) == {c \in Clients : <<c, e>> \in tickets}

\* Entries and tickets of an event have each had a Window of their own, the youngest
\* of them what is gone of its Window.  OncePerWindow alone says nothing of a ticket
\* that is used long after the Window of its admission.
Spaced == \A e \in Events :
    (log[e] + Cardinality(Bearers(e))) * Window <= time + shut[e]

Ind == Types /\ Spaced

Sensible == IsFiniteSet(Clients) /\ Window \in Nat \ {0}

LEMMA BearerSets ==
    ASSUME Sensible, NEW S, S \subseteq Clients
    PROVE  IsFiniteSet(S) /\ Cardinality(S) \in Nat
BY FS_Subset, FS_CardinalityType DEF Sensible

\* Products keep the order, which the SMT backend does not find by itself.
LEMMA ProductMonotone ==
    ASSUME Sensible, NEW m \in Nat, NEW n \in Nat, m <= n
    PROVE  m * Window \in Nat /\ n * Window \in Nat /\ m * Window <= n * Window
<1>1. Window \in Nat
  BY DEF Sensible
<1>2. m * Window \in Nat /\ n * Window \in Nat /\ (n - m) * Window \in Int
  BY <1>1, SMT
<1>3. n * Window = m * Window + (n - m) * Window
  BY <1>1, SMT
<1>4. (n - m) * Window >= 0
  BY <1>1, n - m \in Nat, SMT
<1> QED
  BY <1>2, <1>3, <1>4, SMT

LEMMA IndInit == Sensible /\ Init => Ind
<1> SUFFICES ASSUME Sensible, Init PROVE Ind
  OBVIOUS
<1>1. Types
  BY SMT DEF Sensible, Init, Types
<1>2. \A e \in Events : Bearers(e) = {} /\ log[e] = 0 /\ shut[e] = 0
  BY DEF Init, Bearers
<1>3. Cardinality({}) = 0 /\ (0 + 0) * Window = 0
  BY FS_EmptySet, SMT DEF Sensible
<1>4. time = 0
  BY DEF Init
<1>5. Spaced
  <2> SUFFICES ASSUME NEW e \in Events
               PROVE  (log[e] + Cardinality(Bearers(e))) * Window <= time + shut[e]
    BY DEF Spaced
  <2>1. Bearers(e) = {} /\ log[e] = 0 /\ shut[e] = 0
    BY <1>2
  <2>2. (log[e] + Cardinality(Bearers(e))) * Window = 0
    BY <1>3, <2>1
  <2> QED
    BY <1>4, <2>1, <2>2, SMT
<1> QED
  BY <1>1, <1>5 DEF Ind

\* The bound of one event, from what a step does to its entries and tickets.
LEMMA SameCount ==
    ASSUME Sensible, Ind, NEW e \in Events, log'[e] \in Nat, Bearers(e)' \subseteq Clients,
           log'[e] + Cardinality(Bearers(e)') <= log[e] + Cardinality(Bearers(e)),
           time' + shut'[e] >= time + shut[e], time' \in Nat, shut'[e] \in Nat
    PROVE  (log'[e] + Cardinality(Bearers(e)')) * Window <= time' + shut'[e]
<1> DEFINE m == log'[e] + Cardinality(Bearers(e)')
           n == log[e] + Cardinality(Bearers(e))
<1>1. Bearers(e) \subseteq Clients /\ log[e] \in Nat /\ time \in Nat /\ shut[e] \in Int
  BY SMT DEF Bearers, Ind, Types, Sensible
<1>2. m \in Nat /\ n \in Nat /\ m <= n
  BY <1>1, BearerSets
<1>3. n * Window <= time + shut[e]
  BY DEF Ind, Spaced
<1> HIDE DEF m, n
<1>4. m * Window <= n * Window /\ m * Window \in Nat /\ n * Window \in Nat
  BY <1>2, ProductMonotone
<1>5. m * Window <= time' + shut'[e]
  BY <1>1, <1>3, <1>4, SMT
<1> QED
  BY <1>5 DEF m

\* An admission: one more ticket, for one more Window.
LEMMA AdmitStep ==
    ASSUME Sensible, Ind, NEW c \in Clients, NEW d \in Events, Admit(c, d)
    PROVE  Ind'
<1>1. /\ shut[d] = 0 /\ shut' = [shut EXCEPT ![d] = Window] /\ time' = time /\ log' = log
      /\ tickets' \subseteq tickets \cup {<<c, d>>}
  BY DEF Admit
<1>2. Window \in Nat /\ time \in Nat /\ log \in [Events -> Nat] /\ shut \in [Events -> 0..Window]
  BY DEF Sensible, Ind, Types
<1>3. Types'
  BY <1>1, <1>2, SMT DEF Ind, Types
<1>4. ASSUME NEW e \in Events
      PROVE  (log'[e] + Cardinality(Bearers(e)')) * Window <= time' + shut'[e]
  <2> DEFINE S == Bearers(e)
  <2>1. S \subseteq Clients /\ Bearers(e)' \subseteq Clients /\ S \cup {c} \subseteq Clients
    BY DEF Bearers
  <2>2. /\ Cardinality(S) \in Nat /\ Cardinality(Bearers(e)') \in Nat
        /\ IsFiniteSet(S) /\ IsFiniteSet(S \cup {c}) /\ Cardinality(S \cup {c}) \in Nat
    BY <2>1, BearerSets
  <2>3. CASE e = d
    <3>1. Bearers(e)' \subseteq S \cup {c}
      BY <1>1 DEF Bearers
    <3>2. Cardinality(Bearers(e)') <= Cardinality(S \cup {c})
      BY <2>2, <3>1, FS_Subset
    <3>3. Cardinality(S \cup {c}) <= Cardinality(S) + 1
      BY <2>2, FS_AddElement, SMT
    <3> DEFINE m == log'[e] + Cardinality(Bearers(e)')
               n == log[e] + Cardinality(S)
    <3>4. n * Window <= time + 0
      BY <1>1, <2>3 DEF Ind, Spaced
    <3>5. m \in Nat /\ n \in Nat /\ m <= n + 1
      BY <1>1, <1>2, <2>2, <3>2, <3>3, SMT
    <3> HIDE DEF m, n
    <3>6. m * Window <= (n + 1) * Window /\ m * Window \in Nat
      BY <3>5, n + 1 \in Nat, ProductMonotone
    <3>7. (n + 1) * Window = n * Window + Window /\ n * Window \in Nat
      BY <1>2, <3>5, SMT
    <3>8. m * Window <= time + Window
      BY <1>2, <3>4, <3>6, <3>7, SMT
    <3>9. time' + shut'[e] = time + Window
      BY <1>1, <1>2, <2>3
    <3> QED
      BY <3>8, <3>9 DEF m
  <2>4. CASE e # d
    <3>1. Bearers(e)' \subseteq S
      BY <1>1, <2>4 DEF Bearers
    <3>2. Cardinality(Bearers(e)') <= Cardinality(S)
      BY <2>2, <3>1, FS_Subset
    <3>3. log'[e] = log[e] /\ log[e] \in Nat /\ shut'[e] = shut[e] /\ shut[e] \in Nat
      BY <1>1, <1>2, <2>4, SMT
    <3> QED
      BY <1>1, <1>2, <2>1, <2>2, <3>2, <3>3, SameCount, SMT
  <2> QED
    BY <2>3, <2>4
<1> QED
  BY <1>3, <1>4 DEF Ind, Spaced

\* A ticket becomes an entry or is lost: their number does not rise.
LEMMA UseStep ==
    ASSUME Sensible, Ind, NEW c \in Clients, NEW d \in Events, <<c, d>> \in tickets,
           tickets' = tickets \ {<<c, d>>}, UNCHANGED <<time, shut>>,
           log' \in {log, [log EXCEPT ![d] = @ + 1]}
    PROVE  Ind'
<1>1. /\ time \in Nat /\ log \in [Events -> Nat]
      /\ shut \in [Events -> 0..Window] /\ Window \in Nat
  BY DEF Sensible, Ind, Types
<1>2. log' \in [Events -> Nat]
  BY <1>1, SMT
<1>3. Types'
  BY <1>2 DEF Ind, Types
<1>4. ASSUME NEW e \in Events
      PROVE  (log'[e] + Cardinality(Bearers(e)')) * Window <= time' + shut'[e]
  <2> DEFINE S == Bearers(e)
  <2>1. S \subseteq Clients /\ Bearers(e)' \subseteq Clients
    BY DEF Bearers
  <2>2. /\ Cardinality(S) \in Nat /\ Cardinality(Bearers(e)') \in Nat
        /\ IsFiniteSet(S) /\ log[e] \in Nat /\ shut[e] \in Nat
    BY <1>1, <2>1, BearerSets, SMT
  <2>3. CASE e = d
    <3>1. Bearers(e)' = S \ {c} /\ c \in S
      BY <2>3 DEF Bearers
    <3>2. Cardinality(S \ {c}) = Cardinality(S) - 1
      BY <2>2, <3>1, FS_RemoveElement
    <3>3. log'[e] \in {log[e], log[e] + 1}
      BY <1>1, <2>3
    <3>4. log'[e] + Cardinality(Bearers(e)') <= log[e] + Cardinality(S) /\ log'[e] \in Nat
      BY <2>2, <3>1, <3>2, <3>3, SMT
    <3> QED
      BY <1>1, <2>1, <2>2, <3>4, SameCount, SMT
  <2>4. CASE e # d
    <3>1. Bearers(e)' = S /\ log'[e] = log[e]
      BY <1>1, <2>4 DEF Bearers
    <3> QED
      BY <1>1, <2>1, <2>2, <3>1, SameCount, SMT
  <2> QED
    BY <2>3, <2>4
<1> QED
  BY <1>3, <1>4 DEF Ind, Spaced

LEMMA TickStep ==
    ASSUME Sensible, Ind, Tick
    PROVE  Ind'
<1>1. /\ time \in Nat /\ time' = time + 1 /\ Window \in Nat
      /\ shut' = [e \in Events |-> IF shut[e] > 0 THEN shut[e] - 1 ELSE 0]
      /\ UNCHANGED <<tickets, log>>
  BY DEF Sensible, Ind, Types, Tick
<1>2. ASSUME NEW e \in Events
      PROVE  shut[e] \in 0..Window /\ shut'[e] \in 0..Window /\ shut'[e] >= shut[e] - 1
  <2>1. shut[e] \in 0..Window /\ shut'[e] = IF shut[e] > 0 THEN shut[e] - 1 ELSE 0
    BY <1>1 DEF Ind, Types
  <2> QED
    BY <1>1, <2>1, SMT
<1>3. Types'
  BY <1>1, <1>2 DEF Ind, Types
<1>4. ASSUME NEW e \in Events
      PROVE  (log'[e] + Cardinality(Bearers(e)')) * Window <= time' + shut'[e]
  <2>1. Bearers(e)' = Bearers(e) /\ Bearers(e) \subseteq Clients /\ log'[e] = log[e]
    BY <1>1 DEF Bearers
  <2>2. Cardinality(Bearers(e)) \in Nat /\ log[e] \in Nat
    BY <2>1, BearerSets DEF Ind, Types
  <2>3. time' + shut'[e] >= time + shut[e] /\ time' \in Nat /\ shut'[e] \in Nat
    BY <1>1, <1>2, SMT
  <2> QED
    BY <2>1, <2>2, <2>3, SameCount, SMT
<1> QED
  BY <1>3, <1>4 DEF Ind, Spaced

LEMMA IndStep == Sensible /\ Ind /\ [Next]_vars => Ind'
<1> SUFFICES ASSUME Sensible, Ind, [Next]_vars PROVE Ind'
  OBVIOUS
<1>1. ASSUME UNCHANGED <<time, shut, tickets, log>> PROVE Ind'
  BY <1>1 DEF Ind, Types, Spaced, Bearers
<1>2. ASSUME NEW c \in Clients, Ask(c) PROVE Ind'
  BY <1>1, <1>2 DEF Ask
<1>3. ASSUME NEW c \in Clients, NEW e \in Events, Admit(c, e) PROVE Ind'
  BY <1>3, AdmitStep
<1>4. ASSUME NEW c \in Clients, NEW e \in Events, TurnAway(c, e) PROVE Ind'
  BY <1>1, <1>4 DEF TurnAway
<1>5. ASSUME NEW c \in Clients, NEW e \in Events, Write(c, e) \/ Lose(c, e) PROVE Ind'
  BY <1>5, UseStep DEF Write, Lose
<1>6. CASE Tick
  BY <1>6, TickStep
<1>7. CASE UNCHANGED vars
  BY <1>1, <1>7 DEF vars
<1> QED
  BY <1>2, <1>3, <1>4, <1>5, <1>6, <1>7 DEF Next

\* However late the tickets are used, n entries of an event take n - 1 Windows.
THEOREM LogIsSpaced ==
    ASSUME Sensible
    PROVE  Spec => []OncePerWindow
<1>1. Init => Ind
  BY IndInit
<1>2. Ind /\ [Next]_vars => Ind'
  BY IndStep
<1>3. Ind => OncePerWindow
  <2> SUFFICES ASSUME Ind, NEW e \in Events PROVE log[e] * Window <= time + Window
    BY DEF OncePerWindow
  <2> DEFINE n == log[e] + Cardinality(Bearers(e))
  <2>1. /\ log[e] \in Nat /\ shut[e] \in 0..Window /\ time \in Nat /\ Window \in Nat
        /\ Bearers(e) \subseteq Clients
    BY DEF Sensible, Ind, Types, Bearers
  <2>2. n \in Nat /\ log[e] <= n
    BY <2>1, BearerSets, SMT
  <2>3. n * Window <= time + shut[e]
    BY DEF Ind, Spaced
  <2> HIDE DEF n
  <2>4. log[e] * Window <= n * Window /\ n * Window \in Nat /\ log[e] * Window \in Nat
    BY <2>1, <2>2, ProductMonotone
  <2> QED
    BY <2>1, <2>3, <2>4, SMT
<1> QED
  BY <1>1, <1>2, <1>3, PTL DEF Spec
====
