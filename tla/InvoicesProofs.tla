---- MODULE InvoicesProofs ----
(***************************************************************************)
(* The two-phase invoice flow for any number of calculations and           *)
(* generations, any price and any time to live.                            *)
(***************************************************************************)
EXTENDS Invoices, TLAPS

\* The hash of a calculation: not there before it is written; afterwards, unless
\* it expired under a generation, it carries the amount that was quoted.
Faithful(c) ==
    /\ calc[c] \in {"idle", "priced"} => invoice[c] = NoHash
    /\ c \notin raced /\ invoice[c].exists => invoice[c].amount = quoted[c]

\* A generation, unless its invoice expired under one: it works on a hash that is
\* there, with the quoted amount, and leaves it issued and with a life ahead.
Committed(g) ==
    LET c == target[g]
        h == invoice[c]
    IN  /\ gen[g] # "idle" => calc[c] = "done"
        /\ doneAt[g] <= clock
        /\ c \notin raced =>
             /\ Running(g) => h.exists
             /\ Running(g) \/ gen[g] = "issued" => amount[g] = quoted[c]
             /\ gen[g] = "written" => h.status = "issued"
             /\ gen[g] = "issued" /\ clock - doneAt[g] < TTL =>
                  /\ h.exists /\ h.status = "issued"
                  /\ h.ttl >= TTL - (clock - doneAt[g])

Ind ==
    /\ TypeOK
    /\ \A c \in Calculations : Faithful(c)
    /\ \A g \in Generations : Committed(g)
    /\ NoImmortals

LEMMA Constants == TTL \in Nat \ {0} /\ Price \in Nat \ {0} /\ MaxEvents \in Nat /\ MaxTime \in Nat
BY InvoicesAssumption

LEMMA EmptyHash ==
    /\ NoHash \in Hash
    /\ NoHash.exists = FALSE /\ NoHash.ttl = 0
BY Constants, SMT DEF NoHash, Hash, Absent

\* EXPIRE on a hash that is there gives it a full life and changes nothing else.
LEMMA ExpiringHash ==
    ASSUME NEW h \in Hash
    PROVE  /\ Expiring(h) \in Hash
           /\ Expiring(h).exists = h.exists /\ Expiring(h).amount = h.amount
           /\ Expiring(h).status = h.status
           /\ h.exists => Expiring(h).ttl = TTL
           /\ ~h.exists => Expiring(h) = h
BY Constants, SMT DEF Expiring, Hash

\* HSET of a whole draft, and HSET of the two fields that issue it.
LEMMA DraftHash ==
    ASSUME NEW h \in Hash, NEW n \in Nat, NEW r,
           r = [h EXCEPT !.exists = TRUE, !.amount = n, !.status = "draft"]
    PROVE  r \in Hash /\ r.exists /\ r.amount = n
<1>1. r \in Hash
  BY Zenon DEF Hash
<1>2. r.exists
  BY SMT DEF Hash
<1>3. r.amount = n
  BY SMT DEF Hash
<1> QED
  BY <1>1, <1>2, <1>3

Issued(h, t) == [h EXCEPT !.exists = TRUE, !.status = "issued", !.issued_at = t]

LEMMA IssuedHash ==
    ASSUME NEW h \in Hash, NEW t \in Nat
    PROVE  /\ Issued(h, t) \in Hash
           /\ Issued(h, t).exists /\ Issued(h, t).status = "issued"
           /\ Issued(h, t).amount = h.amount /\ Issued(h, t).ttl = h.ttl
<1>1. PICK r : r = Issued(h, t)
  OBVIOUS
<1>2. r = [h EXCEPT !.exists = TRUE, !.status = "issued", !.issued_at = t]
  BY <1>1 DEF Issued
<1>3. r \in Hash
  BY <1>2, Zenon DEF Hash
<1>4. r.exists
  BY <1>2, SMT DEF Hash
<1>5. r.status = "issued"
  BY <1>2, SMT DEF Hash
<1>6. r.amount = h.amount
  BY <1>2, SMT DEF Hash
<1>7. r.ttl = h.ttl
  BY <1>2, SMT DEF Hash
<1> QED
  BY <1>1, <1>3, <1>4, <1>5, <1>6, <1>7

\* A tick of the clock takes a hash away or leaves it with one tick less to live.
LEMMA AgedHash ==
    ASSUME NEW h \in Hash
    PROVE  /\ Aged(h) \in Hash
           /\ h.exists /\ h.ttl = 1 => Aged(h) = NoHash
           /\ ~h.exists => Aged(h) = h
           /\ h.exists /\ h.ttl # 1 =>
                /\ Aged(h).exists /\ Aged(h).amount = h.amount /\ Aged(h).status = h.status
                /\ h.ttl = 0 => Aged(h).ttl = 0
                /\ h.ttl # 0 => Aged(h).ttl = h.ttl - 1
<1>1. CASE h.exists /\ h.ttl = 1
  BY <1>1, EmptyHash, SMT DEF Aged
<1>2. CASE h.exists /\ h.ttl = 0
  BY <1>2, SMT DEF Aged
<1>3. CASE h.exists /\ h.ttl \notin {0, 1}
  <2>1. h.ttl \in 0..TTL
    BY DEF Hash
  <2>2. Aged(h) = [h EXCEPT !.ttl = h.ttl - 1]
    BY <1>3, <2>1, Constants, SMT DEF Aged
  <2>3. h.ttl - 1 \in 0..TTL
    BY <1>3, <2>1, Constants, SMT
  <2> QED
    BY <1>3, <2>2, <2>3, SMT DEF Hash
<1>4. CASE ~h.exists
  BY <1>4 DEF Aged
<1> QED
  BY <1>1, <1>2, <1>3, <1>4

LEMMA IndInit == Init => Ind
<1> SUFFICES ASSUME Init PROVE Ind
  OBVIOUS
<1>1. TypeOK
  BY Constants, EmptyHash, SMT DEF Init, TypeOK
<1>2. ASSUME NEW c \in Calculations PROVE Faithful(c)
  BY EmptyHash DEF Init, Faithful
<1>3. ASSUME NEW g \in Generations PROVE Committed(g)
  <2>1. gen[g] = "idle" /\ doneAt[g] = 0 /\ clock = 0
    BY DEF Init
  <2> QED
    BY <2>1, SMT DEF Committed, Running
<1>4. NoImmortals
  BY EmptyHash DEF Init, NoImmortals
<1> QED
  BY <1>1, <1>2, <1>3, <1>4 DEF Ind

-----------------------------------------------------------------------------
(* The steps of calculate_for.  None touches an invoice a generation knows. *)

LEMMA CalculateStep ==
    ASSUME Ind, NEW c \in Calculations, Calculate(c)
    PROVE  Ind'
<1>1. TypeOK'
  <2>1. events * Price \in Nat
    BY Constants, SMT DEF Ind, TypeOK
  <2> QED
    BY <2>1, SMT DEF Ind, TypeOK, Calculate, genVars
<1>2. ASSUME NEW d \in Calculations PROVE Faithful(d)'
  BY EmptyHash DEF Ind, TypeOK, Faithful, Calculate
<1>3. ASSUME NEW g \in Generations PROVE Committed(g)'
  <2>1. Committed(g) /\ target[g] \in Calculations
    BY DEF Ind, TypeOK
  <2> QED
    BY <2>1 DEF Ind, TypeOK, Committed, Running, Calculate, genVars
<1>4. NoImmortals'
  BY DEF Ind, TypeOK, NoImmortals, Calculate, genVars
<1> QED
  BY <1>1, <1>2, <1>3, <1>4 DEF Ind

LEMMA WriteDraftStep ==
    ASSUME Ind, NEW c \in Calculations, WriteDraft(c)
    PROVE  Ind'
<1> DEFINE h == [invoice[c] EXCEPT !.exists = TRUE, !.amount = quoted[c], !.status = "draft"]
<1>1. h \in Hash /\ h.exists /\ h.amount = quoted[c]
  <2>1. invoice[c] \in Hash /\ quoted[c] \in Nat
    BY DEF Ind, TypeOK
  <2> QED
    BY <2>1, DraftHash
<1>2. invoice' = [invoice EXCEPT ![c] = h] /\ invoice \in [Calculations -> Hash]
  BY DEF WriteDraft, Ind, TypeOK
<1>3. TypeOK'
  <2>1. invoice' \in [Calculations -> Hash]
    BY <1>1, <1>2
  <2> QED
    BY <2>1 DEF Ind, TypeOK, WriteDraft, genVars
<1>4. ASSUME NEW d \in Calculations PROVE Faithful(d)'
  BY <1>1, <1>2 DEF Ind, TypeOK, Faithful, WriteDraft
<1>5. ASSUME NEW g \in Generations PROVE Committed(g)'
  <2>1. Committed(g) /\ target[g] \in Calculations
    BY DEF Ind, TypeOK
  <2>2. gen[g] # "idle" => target[g] # c
    BY <2>1 DEF Committed, WriteDraft
  <2> QED
    BY <1>2, <2>1, <2>2 DEF Ind, TypeOK, Committed, Running, WriteDraft, genVars
<1>6. NoImmortals'
  BY <1>2 DEF Ind, TypeOK, NoImmortals, WriteDraft, genVars
<1> QED
  BY <1>3, <1>4, <1>5, <1>6 DEF Ind

LEMMA ExpireDraftStep ==
    ASSUME Ind, NEW c \in Calculations, ExpireDraft(c)
    PROVE  Ind'
<1> DEFINE h == Expiring(invoice[c])
<1>1. invoice' = [invoice EXCEPT ![c] = h] /\ invoice \in [Calculations -> Hash]
  BY DEF ExpireDraft, Ind, TypeOK
<1>2. /\ h \in Hash /\ h.exists = invoice[c].exists /\ h.amount = invoice[c].amount
      /\ h.exists => h.ttl = TTL
  BY <1>1, ExpiringHash
<1>3. TypeOK'
  <2>1. invoice' \in [Calculations -> Hash]
    BY <1>1, <1>2
  <2> QED
    BY <2>1 DEF Ind, TypeOK, ExpireDraft, genVars
<1>4. ASSUME NEW d \in Calculations PROVE Faithful(d)'
  BY <1>1, <1>2 DEF Ind, TypeOK, Faithful, ExpireDraft
<1>5. ASSUME NEW g \in Generations PROVE Committed(g)'
  <2>1. Committed(g) /\ target[g] \in Calculations
    BY DEF Ind, TypeOK
  <2>2. gen[g] # "idle" => target[g] # c
    BY <2>1 DEF Committed, ExpireDraft
  <2> QED
    BY <1>1, <2>1, <2>2 DEF Ind, TypeOK, Committed, Running, ExpireDraft, genVars
<1>6. ASSUME NEW d \in Calculations, invoice'[d].exists, invoice'[d].ttl = 0
      PROVE  \/ calc'[d] \in {"written", "aborted"}
             \/ \E g \in Generations : gen'[g] \in {"written", "aborted"} /\ target'[g] = d
  <2>1. d # c
    BY <1>1, <1>2, <1>6, Constants, SMT
  <2> QED
    BY <1>1, <1>6, <2>1 DEF Ind, TypeOK, NoImmortals, ExpireDraft, genVars
<1> QED
  BY <1>3, <1>4, <1>5, <1>6 DEF Ind, NoImmortals

LEMMA AbortCalculationStep ==
    ASSUME Ind, NEW c \in Calculations, AbortCalculation(c)
    PROVE  Ind'
<1>1. TypeOK'
  BY DEF Ind, TypeOK, AbortCalculation, genVars
<1>2. ASSUME NEW d \in Calculations PROVE Faithful(d)'
  BY DEF Ind, TypeOK, Faithful, AbortCalculation
<1>3. ASSUME NEW g \in Generations PROVE Committed(g)'
  <2>1. Committed(g) /\ target[g] \in Calculations
    BY DEF Ind, TypeOK
  <2> QED
    BY <2>1 DEF Ind, TypeOK, Committed, Running, AbortCalculation, genVars
<1>4. NoImmortals'
  BY DEF Ind, TypeOK, NoImmortals, AbortCalculation, genVars
<1> QED
  BY <1>1, <1>2, <1>3, <1>4 DEF Ind

-----------------------------------------------------------------------------
(* The steps of generate_for. *)

LEMMA ReadDraftStep ==
    ASSUME Ind, NEW g \in Generations, ReadDraft(g)
    PROVE  Ind'
<1> DEFINE h == invoice[target[g]]
           n == IF h.amount = Absent THEN 0 ELSE h.amount
           s == IF h.exists THEN "read" ELSE "notfound"
<1>1. /\ target[g] \in Calculations /\ h \in Hash /\ calc[target[g]] = "done"
      /\ quoted[target[g]] \in Nat /\ Faithful(target[g])
  BY DEF Ind, TypeOK, ReadDraft
<1>2. gen' = [gen EXCEPT ![g] = s] /\ amount' = [amount EXCEPT ![g] = n]
  BY DEF ReadDraft
<1>3. n \in Nat
  BY <1>1, SMT DEF Hash
<1>4. target[g] \notin raced /\ h.exists => n = quoted[target[g]]
  BY <1>1, SMT DEF Faithful, Absent
<1>5. TypeOK'
  BY <1>2, <1>3 DEF Ind, TypeOK, ReadDraft, calcVars
<1>6. ASSUME NEW d \in Calculations PROVE Faithful(d)'
  BY DEF Ind, TypeOK, Faithful, ReadDraft, calcVars
<1>7. ASSUME NEW k \in Generations PROVE Committed(k)'
  <2>1. Committed(k) /\ target[k] \in Calculations
    BY DEF Ind, TypeOK
  <2>2. CASE k = g
    BY <1>1, <1>2, <1>4, <2>1, <2>2 DEF Ind, TypeOK, Committed, Running, ReadDraft, calcVars
  <2>3. CASE k # g
    BY <1>2, <2>1, <2>3 DEF Ind, TypeOK, Committed, Running, ReadDraft, calcVars
  <2> QED
    BY <2>2, <2>3
<1>8. NoImmortals'
  <2>1. gen[g] = "idle" /\ \A k \in Generations : k # g => gen'[k] = gen[k]
    BY DEF Ind, TypeOK, ReadDraft
  <2> QED
    BY <2>1 DEF Ind, TypeOK, NoImmortals, ReadDraft, calcVars
<1> QED
  BY <1>5, <1>6, <1>7, <1>8 DEF Ind

LEMMA ReadClockStep ==
    ASSUME Ind, NEW g \in Generations, ReadClock(g)
    PROVE  Ind'
<1>1. TypeOK'
  BY DEF Ind, TypeOK, ReadClock, calcVars
<1>2. ASSUME NEW d \in Calculations PROVE Faithful(d)'
  BY DEF Ind, TypeOK, Faithful, ReadClock, calcVars
<1>3. ASSUME NEW k \in Generations PROVE Committed(k)'
  <2>1. Committed(k) /\ target[k] \in Calculations
    BY DEF Ind, TypeOK
  <2> QED
    BY <2>1 DEF Ind, TypeOK, Committed, Running, ReadClock, calcVars
<1>4. NoImmortals'
  <2>1. gen[g] = "read" /\ \A k \in Generations : k # g => gen'[k] = gen[k]
    BY DEF Ind, TypeOK, ReadClock
  <2> QED
    BY <2>1 DEF Ind, TypeOK, NoImmortals, ReadClock, calcVars
<1> QED
  BY <1>1, <1>2, <1>3, <1>4 DEF Ind

LEMMA WriteIssuedStep ==
    ASSUME Ind, NEW g \in Generations, WriteIssued(g)
    PROVE  Ind'
<1> DEFINE c == target[g]
           h == Issued(invoice[c], stamp[g])
<1>1. /\ c \in Calculations /\ invoice[c] \in Hash /\ stamp[g] \in Nat
      /\ gen[g] = "stamped" /\ Committed(g)
  BY Constants DEF Ind, TypeOK, WriteIssued
<1>2. /\ h \in Hash /\ h.exists /\ h.status = "issued"
      /\ h.amount = invoice[c].amount /\ h.ttl = invoice[c].ttl
  <2>1. invoice[c] \in Hash /\ stamp[g] \in Nat
    BY <1>1
  <2> QED
    BY <2>1, IssuedHash
<1>3. invoice' = [invoice EXCEPT ![c] = h] /\ invoice \in [Calculations -> Hash]
  BY DEF WriteIssued, Issued, Ind, TypeOK
<1> HIDE DEF h
<1>4. calc[c] = "done" /\ (c \notin raced => invoice[c].exists)
  BY <1>1 DEF Committed, Running
<1>5. TypeOK'
  <2>1. invoice' \in [Calculations -> Hash]
    BY <1>2, <1>3
  <2> QED
    BY <2>1 DEF Ind, TypeOK, WriteIssued, calcVars
<1>6. ASSUME NEW d \in Calculations PROVE Faithful(d)'
  BY <1>1, <1>2, <1>3, <1>4 DEF Ind, TypeOK, Faithful, WriteIssued, calcVars
<1>7. ASSUME NEW k \in Generations PROVE Committed(k)'
  <2>1. Committed(k) /\ target[k] \in Calculations
    BY DEF Ind, TypeOK
  <2>2. CASE target[k] = c
    <3>1. invoice'[target'[k]] = h
      BY <1>1, <1>3, <2>2 DEF WriteIssued
    <3> QED
      BY <1>1, <1>2, <2>1, <2>2, <3>1
      DEF Ind, TypeOK, Committed, Running, WriteIssued, calcVars
  <2>3. CASE target[k] # c
    <3>1. invoice'[target'[k]] = invoice[target[k]] /\ k # g
      BY <1>1, <1>3, <2>1, <2>3 DEF WriteIssued
    <3> QED
      BY <2>1, <3>1 DEF Ind, TypeOK, Committed, Running, WriteIssued, calcVars
  <2> QED
    BY <2>2, <2>3
<1>8. NoImmortals'
  <2>1. /\ gen'[g] = "written" /\ target' = target /\ calc' = calc
        /\ \A k \in Generations : k # g => gen'[k] = gen[k]
    BY DEF Ind, TypeOK, WriteIssued, calcVars
  <2> QED
    BY <1>1, <1>3, <2>1 DEF Ind, NoImmortals
<1> QED
  BY <1>5, <1>6, <1>7, <1>8 DEF Ind

LEMMA ExtendLifeStep ==
    ASSUME Ind, NEW g \in Generations, ExtendLife(g)
    PROVE  Ind'
<1> DEFINE c == target[g]
           h == Expiring(invoice[c])
<1>1. /\ c \in Calculations /\ invoice[c] \in Hash
      /\ gen[g] = "written" /\ Committed(g)
  BY DEF Ind, TypeOK, ExtendLife
<1>2. /\ h \in Hash /\ h.exists = invoice[c].exists /\ h.amount = invoice[c].amount
      /\ h.status = invoice[c].status
      /\ h.exists => h.ttl = TTL
      /\ ~invoice[c].exists => h = invoice[c]
  BY <1>1, ExpiringHash
<1>3. invoice' = [invoice EXCEPT ![c] = h] /\ invoice \in [Calculations -> Hash]
  BY DEF ExtendLife, Ind, TypeOK
<1> HIDE DEF h
<1>4. /\ calc[c] = "done"
      /\ c \notin raced =>
           invoice[c].exists /\ invoice[c].status = "issued" /\ amount[g] = quoted[c]
  BY <1>1 DEF Committed, Running
<1>5. TypeOK'
  <2>1. invoice' \in [Calculations -> Hash]
    BY <1>2, <1>3
  <2> QED
    BY <2>1 DEF Ind, TypeOK, ExtendLife, calcVars
<1>6. ASSUME NEW d \in Calculations PROVE Faithful(d)'
  BY <1>1, <1>2, <1>3, <1>4 DEF Ind, TypeOK, Faithful, ExtendLife, calcVars
<1>7. ASSUME NEW k \in Generations PROVE Committed(k)'
  <2>1. /\ Committed(k) /\ target[k] \in Calculations
        /\ clock \in Nat /\ doneAt[k] \in Nat
    BY Constants DEF Ind, TypeOK
  <2>2. CASE k = g
    <3>1. /\ invoice'[target'[k]] = h /\ gen'[k] = "issued" /\ doneAt'[k] = clock
          /\ calc' = calc /\ quoted' = quoted /\ raced' = raced /\ clock' = clock
          /\ amount' = amount /\ target' = target
      BY <1>1, <1>3, <2>2 DEF Ind, TypeOK, ExtendLife, calcVars
    <3> QED
      BY <1>1, <1>2, <1>4, <2>1, <2>2, <3>1, Constants DEF Committed, Running
  <2>3. CASE k # g
    <3>1. /\ gen'[k] = gen[k] /\ doneAt'[k] = doneAt[k]
          /\ calc' = calc /\ quoted' = quoted /\ raced' = raced /\ clock' = clock
          /\ amount' = amount /\ target' = target
      BY <2>3 DEF Ind, TypeOK, ExtendLife, calcVars
    <3>2. CASE target[k] = c
      <4>1. invoice'[target'[k]] = h
        BY <1>1, <1>3, <3>1, <3>2
      <4> QED
        BY <1>2, <1>4, <2>1, <3>1, <3>2, <4>1, Constants DEF Committed, Running
    <3>3. CASE target[k] # c
      <4>1. invoice'[target'[k]] = invoice[target[k]]
        BY <1>3, <2>1, <3>1, <3>3
      <4> QED
        BY <2>1, <3>1, <4>1 DEF Committed, Running
    <3> QED
      BY <3>2, <3>3
  <2> QED
    BY <2>2, <2>3
<1>8. NoImmortals'
  <2>1. /\ target' = target /\ calc' = calc
        /\ \A k \in Generations : k # g => gen'[k] = gen[k]
    BY DEF Ind, TypeOK, ExtendLife, calcVars
  <2>2. SUFFICES ASSUME NEW d \in Calculations, invoice'[d].exists, invoice'[d].ttl = 0
        PROVE  \/ calc'[d] \in {"written", "aborted"}
               \/ \E k \in Generations : gen'[k] \in {"written", "aborted"} /\ target'[k] = d
    BY DEF NoImmortals
  <2>3. d # c
    BY <1>1, <1>2, <1>3, <2>2, Constants, SMT
  <2> QED
    BY <1>3, <2>1, <2>2, <2>3 DEF Ind, NoImmortals
<1> QED
  BY <1>5, <1>6, <1>7, <1>8 DEF Ind

LEMMA AbortGenerationStep ==
    ASSUME Ind, NEW g \in Generations, AbortGeneration(g)
    PROVE  Ind'
<1>1. TypeOK'
  BY DEF Ind, TypeOK, AbortGeneration, calcVars
<1>2. ASSUME NEW d \in Calculations PROVE Faithful(d)'
  BY DEF Ind, TypeOK, Faithful, AbortGeneration, calcVars
<1>3. ASSUME NEW k \in Generations PROVE Committed(k)'
  <2>1. Committed(k) /\ target[k] \in Calculations
    BY DEF Ind, TypeOK
  <2> QED
    BY <2>1 DEF Ind, TypeOK, Committed, Running, AbortGeneration, calcVars
<1>4. NoImmortals'
  <2>1. gen'[g] = "aborted" /\ \A k \in Generations : k # g => gen'[k] = gen[k]
    BY DEF Ind, TypeOK, AbortGeneration
  <2> QED
    BY <2>1 DEF Ind, TypeOK, NoImmortals, AbortGeneration, calcVars
<1> QED
  BY <1>1, <1>2, <1>3, <1>4 DEF Ind

-----------------------------------------------------------------------------
(* The stream and the clock. *)

LEMMA IngestStep ==
    ASSUME Ind, Ingest
    PROVE  Ind'
<1>1. TypeOK'
  BY Constants DEF Ind, TypeOK, Ingest, calcVars, genVars
<1>2. ASSUME NEW d \in Calculations PROVE Faithful(d)'
  BY DEF Ind, Faithful, Ingest, calcVars
<1>3. ASSUME NEW k \in Generations PROVE Committed(k)'
  BY DEF Ind, Committed, Running, Ingest, calcVars, genVars
<1>4. NoImmortals'
  BY DEF Ind, NoImmortals, Ingest, calcVars, genVars
<1> QED
  BY <1>1, <1>2, <1>3, <1>4 DEF Ind

\* A hash that expires under a running generation is remembered in raced; one that
\* a finished generation left had at least as much life as was promised.
LEMMA TickStep ==
    ASSUME Ind, Tick
    PROVE  Ind'
<1>1. /\ clock \in Nat /\ clock' = clock + 1 /\ clock' \in 0..MaxTime
      /\ invoice' = [c \in Calculations |-> Aged(invoice[c])]
      /\ \A c \in Calculations : invoice[c] \in Hash /\ invoice'[c] = Aged(invoice[c])
      /\ raced \subseteq raced'
  BY Constants DEF Ind, TypeOK, Tick
<1>2. /\ calc' = calc /\ quoted' = quoted /\ gen' = gen /\ target' = target
      /\ amount' = amount /\ stamp' = stamp /\ doneAt' = doneAt /\ events' = events
  BY DEF Tick, calcVars, genVars
<1>3. TypeOK'
  <2>1. invoice' \in [Calculations -> Hash]
    BY <1>1, AgedHash
  <2>2. raced' \subseteq Calculations
    BY DEF Ind, TypeOK, Tick
  <2> QED
    BY <1>1, <1>2, <2>1, <2>2, Constants DEF Ind, TypeOK
<1>4. ASSUME NEW c \in Calculations PROVE Faithful(c)'
  <2>1. Faithful(c) /\ invoice[c] \in Hash /\ invoice'[c] = Aged(invoice[c])
    BY <1>1 DEF Ind
  <2> QED
    BY <1>1, <1>2, <2>1, AgedHash, EmptyHash DEF Faithful
<1>5. ASSUME NEW g \in Generations PROVE Committed(g)'
  <2> DEFINE c == target[g]
             h == invoice[c]
  <2>1. /\ Committed(g) /\ c \in Calculations /\ h \in Hash
        /\ invoice'[c] = Aged(h) /\ doneAt[g] \in Nat
    BY <1>1, Constants DEF Ind, TypeOK
  <2>2. h.ttl \in 0..TTL
    BY <2>1 DEF Hash
  <2>3. CASE c \in raced'
    BY <1>1, <1>2, <2>1, <2>3 DEF Committed
  <2>4. CASE c \notin raced' /\ Running(g)
    <3>1. c \notin raced /\ h.exists /\ h.ttl # 1
      BY <1>1, <2>1, <2>4 DEF Committed, Tick, Expires
    <3>2. Aged(h).exists /\ Aged(h).status = h.status
      BY <2>1, <3>1, AgedHash
    <3> QED
      BY <1>1, <1>2, <2>1, <2>4, <3>1, <3>2 DEF Committed, Running
  <2>5. CASE c \notin raced' /\ gen[g] = "issued" /\ clock' - doneAt[g] < TTL
    <3>1. /\ c \notin raced /\ h.exists /\ h.status = "issued"
          /\ h.ttl >= TTL - (clock - doneAt[g])
      BY <1>1, <2>1, <2>5, Constants DEF Committed
    <3>2. h.ttl # 0 /\ h.ttl # 1
      BY <1>1, <2>1, <2>2, <2>5, <3>1, Constants, SMT
    <3>3. Aged(h).exists /\ Aged(h).status = h.status /\ Aged(h).ttl = h.ttl - 1
      BY <2>1, <3>1, <3>2, AgedHash
    <3>4. Aged(h).ttl >= TTL - (clock' - doneAt[g])
      BY <1>1, <2>1, <2>2, <3>1, <3>3, Constants, SMT
    <3> QED
      BY <1>1, <1>2, <2>1, <2>5, <3>1, <3>3, <3>4 DEF Committed, Running
  <2>6. CASE c \notin raced' /\ ~Running(g) /\ ~(gen[g] = "issued" /\ clock' - doneAt[g] < TTL)
    BY <1>1, <1>2, <2>1, <2>6 DEF Committed, Running
  <2> QED
    BY <2>3, <2>4, <2>5, <2>6
<1>6. NoImmortals'
  <2>1. SUFFICES ASSUME NEW c \in Calculations, invoice'[c].exists, invoice'[c].ttl = 0
        PROVE  \/ calc[c] \in {"written", "aborted"}
               \/ \E g \in Generations : gen[g] \in {"written", "aborted"} /\ target[g] = c
    BY <1>2 DEF NoImmortals
  <2>2. invoice[c] \in Hash /\ invoice'[c] = Aged(invoice[c]) /\ invoice[c].ttl \in 0..TTL
    BY <1>1 DEF Hash
  <2>3. invoice[c].exists /\ invoice[c].ttl = 0
    BY <2>1, <2>2, AgedHash, EmptyHash, SMT
  <2> QED
    BY <2>3 DEF Ind, NoImmortals
<1> QED
  BY <1>3, <1>4, <1>5, <1>6 DEF Ind

-----------------------------------------------------------------------------

LEMMA IndStep == Ind /\ [Next]_vars => Ind'
<1> SUFFICES ASSUME Ind, [Next]_vars PROVE Ind'
  OBVIOUS
<1>1. CASE Tick
  BY <1>1, TickStep
<1>2. CASE Ingest
  BY <1>2, IngestStep
<1>3. ASSUME NEW c \in Calculations,
             Calculate(c) \/ WriteDraft(c) \/ ExpireDraft(c) \/ AbortCalculation(c)
      PROVE  Ind'
  BY <1>3, CalculateStep, WriteDraftStep, ExpireDraftStep, AbortCalculationStep
<1>4. ASSUME NEW g \in Generations,
             \/ ReadDraft(g) \/ ReadClock(g) \/ WriteIssued(g) \/ ExtendLife(g)
             \/ AbortGeneration(g)
      PROVE  Ind'
  BY <1>4, ReadDraftStep, ReadClockStep, WriteIssuedStep, ExtendLifeStep, AbortGenerationStep
<1>5. CASE UNCHANGED vars
  <2> USE <1>5 DEF vars
  <2>1. TypeOK'
    BY DEF Ind, TypeOK
  <2>2. ASSUME NEW c \in Calculations PROVE Faithful(c)'
    BY DEF Ind, Faithful
  <2>3. ASSUME NEW g \in Generations PROVE Committed(g)'
    BY DEF Ind, Committed, Running
  <2>4. NoImmortals'
    BY DEF Ind, NoImmortals
  <2> QED
    BY <2>1, <2>2, <2>3, <2>4 DEF Ind
<1> QED
  BY <1>1, <1>2, <1>3, <1>4, <1>5 DEF Next

LEMMA IndInvariant == Spec => []Ind
BY IndInit, IndStep, PTL DEF Spec

\* Every field keeps its type: a hash field is absent or of the type its one writer
\* gives it, and the time to live never exceeds the hour the code asks for.
THEOREM InvoicesTypeCorrect == Spec => []TypeOK
<1>1. Ind => TypeOK
  BY DEF Ind
<1> QED
  BY <1>1, IndInvariant, PTL

\* generate_for answers the amount calculate_for quoted for that invoice, whatever
\* runs in between, unless the draft expired under a running generation.
THEOREM AmountIsKept == Spec => []IssuedAsQuoted
<1>1. Ind => IssuedAsQuoted
  BY DEF Ind, TypeOK, Committed, IssuedAsQuoted
<1> QED
  BY <1>1, IndInvariant, PTL

\* After generate_for answered 200, the issued invoice, with the amount quoted, can
\* be fetched for a full time to live, with the same exception.
THEOREM IssuedInvoiceIsKept == Spec => []IssuedIsKept
<1>1. ASSUME Ind PROVE IssuedIsKept
  <2>1. SUFFICES ASSUME NEW g \in Generations, gen[g] = "issued", target[g] \notin raced,
                        clock - doneAt[g] < TTL
        PROVE  LET h == invoice[target[g]]
               IN  h.exists /\ h.status = "issued" /\ h.amount = quoted[target[g]]
    BY DEF IssuedIsKept
  <2>2. Committed(g) /\ target[g] \in Calculations /\ Faithful(target[g])
    BY <1>1 DEF Ind, TypeOK
  <2> QED
    BY <2>1, <2>2 DEF Committed, Faithful
<1> QED
  BY <1>1, IndInvariant, PTL

\* A key of calculate_for or generate_for without an expiry is one whose request
\* is between HSET and EXPIRE, or died there.
THEOREM OnlyAbortsLeak == Spec => []NoImmortals
<1>1. Ind => NoImmortals
  BY DEF Ind
<1> QED
  BY <1>1, IndInvariant, PTL

-----------------------------------------------------------------------------
(* Whose issue time a hash carries. *)

Wrote(g) == gen[g] \in {"written", "issued"}

\* w wrote the hash of c last: what it has of issued_at is w's, and whoever else
\* wrote it and lives had read the clock by the time w was answered.
LastWriter(c, w) ==
    /\ target[w] = c /\ invoice[c].issued_at = stamp[w]
    /\ Wrote(w) \/ gen[w] = "aborted"
    /\ \A g \in Generations :
        target[g] = c /\ Wrote(g)
            => stamp[g] <= IF gen[w] = "issued" THEN doneAt[w] ELSE clock

StampInd ==
    /\ \A g \in Generations : stamp[g] <= clock
    /\ \A c \in Calculations :
        invoice[c].status = "issued" => \E w \in Generations : LastWriter(c, w)

\* A step that issues nothing, lets no generation past its HSET and leaves the
\* times alone, but for one a generation that has not written yet reads.
LEMMA StampQuiet ==
    ASSUME TypeOK, StampInd, target' = target, clock' \in Nat, clock' >= clock,
           doneAt' = doneAt,
           \A g \in Generations : stamp'[g] <= clock',
           \A g \in Generations : Wrote(g) \/ gen[g] = "aborted" =>
               /\ stamp'[g] = stamp[g]
               /\ gen'[g] = gen[g] \/ (gen'[g] = "aborted" /\ gen[g] = "written"),
           \A g \in Generations : Wrote(g)' => Wrote(g),
           \A c \in Calculations : invoice'[c].status = "issued" =>
               invoice[c].status = "issued" /\ invoice'[c].issued_at = invoice[c].issued_at
    PROVE  StampInd'
<1> SUFFICES ASSUME NEW c \in Calculations, invoice'[c].status = "issued"
             PROVE  \E w \in Generations : LastWriter(c, w)'
  BY DEF StampInd
<1>1. PICK w \in Generations : LastWriter(c, w)
  BY DEF StampInd
<1>2. /\ stamp'[w] = stamp[w] /\ invoice'[c].issued_at = invoice[c].issued_at
      /\ Wrote(w)' \/ gen'[w] = "aborted"
      /\ gen'[w] = "issued" <=> gen[w] = "issued"
  BY <1>1 DEF LastWriter, Wrote
<1>3. ASSUME NEW g \in Generations, target[g] = c, Wrote(g)'
      PROVE  stamp'[g] <= IF gen'[w] = "issued" THEN doneAt[w] ELSE clock'
  <2>1. Wrote(g) /\ stamp'[g] = stamp[g] /\ stamp[g] \in Int /\ clock \in Int
    BY <1>3, Constants, SMT DEF TypeOK
  <2>2. stamp[g] <= IF gen[w] = "issued" THEN doneAt[w] ELSE clock
    BY <1>1, <1>3, <2>1 DEF LastWriter
  <2> QED
    BY <1>2, <2>1, <2>2, SMT
<1> QED
  BY <1>1, <1>2, <1>3 DEF LastWriter

LEMMA ExpiringIssue ==
    ASSUME NEW h \in Hash
    PROVE  Expiring(h).status = h.status /\ Expiring(h).issued_at = h.issued_at
BY SMT DEF Expiring, Hash

LEMMA AgedIssue ==
    ASSUME NEW h \in Hash, Aged(h).status = "issued"
    PROVE  h.status = "issued" /\ Aged(h).issued_at = h.issued_at
<1>1. CASE h.exists /\ h.ttl = 1
  BY <1>1, SMT DEF Aged, NoHash
<1>2. CASE ~(h.exists /\ h.ttl = 1)
  BY <1>2, SMT DEF Aged, Hash
<1> QED
  BY <1>1, <1>2

LEMMA WriteDraftIssue ==
    ASSUME NEW h \in Hash, NEW n \in Nat
    PROVE  [h EXCEPT !.exists = TRUE, !.amount = n, !.status = "draft"].status = "draft"
BY SMT DEF Hash

\* HSET by generation g: its own time is the last one written.
LEMMA StampWrite ==
    ASSUME TypeOK, StampInd, NEW g \in Generations, WriteIssued(g)
    PROVE  StampInd'
<1> DEFINE c0 == target[g]
           h == Issued(invoice[c0], stamp[g])
<1>1. /\ c0 \in Calculations /\ invoice[c0] \in Hash /\ stamp[g] \in Nat /\ gen[g] = "stamped"
      /\ gen' = [gen EXCEPT ![g] = "written"]
      /\ UNCHANGED <<clock, target, stamp, doneAt>>
  BY Constants DEF TypeOK, WriteIssued
<1>2. invoice' = [invoice EXCEPT ![c0] = h]
  BY DEF WriteIssued, Issued
<1>3. h.issued_at = stamp[g]
  <2>1. PICK r : r = [invoice[c0] EXCEPT !.exists = TRUE, !.status = "issued",
                                         !.issued_at = stamp[g]]
    OBVIOUS
  <2>2. r.issued_at = stamp[g]
    BY <1>1, <2>1, SMT DEF Hash
  <2> QED
    BY <2>1, <2>2 DEF Issued
<1> HIDE DEF h
<1>4. ASSUME NEW c \in Calculations, invoice'[c].status = "issued"
      PROVE  \E w \in Generations : LastWriter(c, w)'
  <2>1. CASE c = c0
    <3>1. invoice'[c].issued_at = stamp'[g]
      BY <1>1, <1>2, <1>3, <2>1 DEF TypeOK
    <3>2. gen'[g] = "written"
      BY <1>1 DEF TypeOK
    <3>3. \A k \in Generations : stamp'[k] <= clock'
      BY <1>1 DEF StampInd
    <3>4. LastWriter(c, g)'
      BY <1>1, <2>1, <3>1, <3>2, <3>3 DEF LastWriter, Wrote
    <3> QED
      BY <3>4
  <2>2. CASE c # c0
    <3>1. invoice'[c] = invoice[c]
      BY <1>2, <2>2 DEF TypeOK
    <3>2. PICK w \in Generations : LastWriter(c, w)
      BY <1>4, <3>1 DEF StampInd
    <3>3. \A k \in Generations : target[k] = c => gen'[k] = gen[k]
      BY <1>1, <2>2 DEF TypeOK
    <3>4. LastWriter(c, w)'
      BY <1>1, <3>1, <3>2, <3>3 DEF LastWriter, Wrote
    <3> QED
      BY <3>4
  <2> QED
    BY <2>1, <2>2
<1> QED
  BY <1>1, <1>4 DEF StampInd

\* Generation g is answered: everyone who wrote had read the clock before.
LEMMA StampAnswer ==
    ASSUME TypeOK, StampInd, NEW g \in Generations, ExtendLife(g)
    PROVE  StampInd'
<1>1. /\ gen[g] = "written" /\ gen' = [gen EXCEPT ![g] = "issued"]
      /\ doneAt' = [doneAt EXCEPT ![g] = clock]
      /\ UNCHANGED <<clock, target, stamp>>
  BY DEF ExtendLife
<1>2. \A c \in Calculations : invoice'[c].status = invoice[c].status
                           /\ invoice'[c].issued_at = invoice[c].issued_at
  BY ExpiringIssue DEF ExtendLife, TypeOK
<1>3. ASSUME NEW c \in Calculations, invoice'[c].status = "issued"
      PROVE  \E w \in Generations : LastWriter(c, w)'
  <2>1. PICK w \in Generations : LastWriter(c, w)
    BY <1>2, <1>3 DEF StampInd
  <2>2. \A k \in Generations : Wrote(k)' <=> Wrote(k)
    BY <1>1 DEF Wrote, TypeOK
  <2>3. \A k \in Generations : stamp[k] <= clock
    BY DEF StampInd
  <2>4. CASE w = g
    <3>1. gen'[w] = "issued" /\ doneAt'[w] = clock
      BY <1>1, <2>4 DEF TypeOK
    <3>2. LastWriter(c, w)'
      BY <1>1, <1>2, <2>1, <2>2, <2>3, <3>1 DEF LastWriter, Wrote
    <3> QED
      BY <3>2
  <2>5. CASE w # g
    <3>1. gen'[w] = gen[w] /\ doneAt'[w] = doneAt[w]
      BY <1>1, <2>5 DEF TypeOK
    <3>2. Wrote(w)' \/ gen'[w] = "aborted"
      BY <2>1, <2>2, <3>1 DEF LastWriter
    <3>3. LastWriter(c, w)'
      BY <1>1, <1>2, <2>1, <2>2, <3>1, <3>2 DEF LastWriter
    <3> QED
      BY <3>3
  <2> QED
    BY <2>4, <2>5
<1> QED
  BY <1>1, <1>3 DEF StampInd

LEMMA StampStep == TypeOK /\ TypeOK' /\ StampInd /\ [Next]_vars => StampInd'
<1> SUFFICES ASSUME TypeOK, TypeOK', StampInd, [Next]_vars PROVE StampInd'
  OBVIOUS
<1>1. clock \in Nat /\ \A g \in Generations : stamp[g] <= clock
  BY Constants DEF TypeOK, StampInd
<1>2. CASE Tick
  <2>1. clock' = clock + 1 /\ UNCHANGED <<gen, target, stamp, doneAt>>
    BY <1>2 DEF Tick, genVars
  <2>2. \A g \in Generations : stamp[g] \in Int
    BY Constants DEF TypeOK
  <2>3. \A g \in Generations : stamp'[g] <= clock'
    BY <1>1, <2>1, <2>2, SMT
  <2>4. \A c \in Calculations : invoice'[c].status = "issued" =>
          invoice[c].status = "issued" /\ invoice'[c].issued_at = invoice[c].issued_at
    BY <1>2, AgedIssue DEF Tick, TypeOK
  <2> QED
    BY <1>1, <2>1, <2>3, <2>4, StampQuiet DEF Wrote
<1>3. ASSUME NEW c \in Calculations, WriteDraft(c) PROVE StampInd'
  <2>1. \A d \in Calculations : invoice'[d].status = "issued" =>
          invoice[d].status = "issued" /\ invoice'[d].issued_at = invoice[d].issued_at
    <3>1. ASSUME NEW d \in Calculations, invoice'[d].status = "issued" PROVE d # c
      <4>1. invoice[c] \in Hash /\ quoted[c] \in Nat /\ invoice \in [Calculations -> Hash]
        BY DEF TypeOK
      <4>2. invoice'[c] = [invoice[c] EXCEPT !.exists = TRUE, !.amount = quoted[c],
                                             !.status = "draft"]
        BY <1>3, <4>1 DEF WriteDraft
      <4>3. invoice'[c].status = "draft"
        BY <4>1, <4>2, WriteDraftIssue
      <4> QED
        BY <3>1, <4>3
    <3> QED
      BY <1>3, <3>1 DEF WriteDraft, TypeOK
  <2> QED
    BY <1>1, <1>3, <2>1, StampQuiet DEF WriteDraft, genVars, Wrote
<1>4. ASSUME NEW c \in Calculations, ExpireDraft(c) PROVE StampInd'
  <2>1. \A d \in Calculations : invoice'[d].status = invoice[d].status
                             /\ invoice'[d].issued_at = invoice[d].issued_at
    BY <1>4, ExpiringIssue DEF ExpireDraft, TypeOK
  <2> QED
    BY <1>1, <1>4, <2>1, StampQuiet DEF ExpireDraft, genVars, Wrote
<1>5. ASSUME NEW c \in Calculations, Calculate(c) \/ AbortCalculation(c) PROVE StampInd'
  BY <1>1, <1>5, StampQuiet DEF Calculate, AbortCalculation, genVars, Wrote
<1>6. CASE Ingest \/ UNCHANGED vars
  BY <1>1, <1>6, StampQuiet DEF Ingest, vars, genVars, calcVars, Wrote
<1>7. ASSUME NEW g \in Generations, ReadDraft(g) \/ ReadClock(g) \/ AbortGeneration(g)
      PROVE  StampInd'
  <2>1. /\ UNCHANGED <<clock, invoice, target, doneAt>>
        /\ gen[g] \in {"idle", "read", "stamped", "written"}
        /\ \A k \in Generations : k # g => gen'[k] = gen[k] /\ stamp'[k] = stamp[k]
        /\ stamp'[g] = stamp[g] \/ (gen[g] = "read" /\ stamp'[g] = clock)
        /\ gen'[g] \in {"read", "notfound", "stamped", "aborted"}
        /\ gen[g] = "written" => gen'[g] = "aborted" /\ stamp'[g] = stamp[g]
    BY <1>7 DEF ReadDraft, ReadClock, AbortGeneration, TypeOK
  <2>2. \A k \in Generations : stamp'[k] <= clock'
    BY <1>1, <2>1, SMT
  <2>3. \A k \in Generations : Wrote(k) \/ gen[k] = "aborted" =>
          /\ stamp'[k] = stamp[k]
          /\ gen'[k] = gen[k] \/ (gen'[k] = "aborted" /\ gen[k] = "written")
    BY <2>1 DEF Wrote
  <2>4. \A k \in Generations : Wrote(k)' => Wrote(k)
    BY <2>1 DEF Wrote
  <2> QED
    BY <1>1, <2>1, <2>2, <2>3, <2>4, StampQuiet, SMT
<1> QED
  BY <1>2, <1>3, <1>4, <1>5, <1>6, <1>7, StampWrite, StampAnswer DEF Next

\* Of generations that follow each other the last one's issue time stays.
THEOREM IssueTimeIsLatest == Spec => []IssuedAtIsLatest
<1>1. Init => StampInd
  BY DEF Init, StampInd, NoHash
<1>2. Ind => TypeOK
  BY DEF Ind
<1>3. TypeOK /\ StampInd => IssuedAtIsLatest
  BY DEF StampInd, LastWriter, Wrote, IssuedAtIsLatest
<1> QED
  BY <1>1, <1>2, <1>3, StampStep, IndInvariant, PTL DEF Spec
====
