---- MODULE MCTokenBucket ----
(* Small instances of TokenBucket: 3 tokens, 2 per second, third-of-a-second *)
(* ticks, a key that lives 2 seconds, an ingest (1 token) and a generate (3). *)
EXTENDS TokenBucket

MCEndpoints == {"ingest", "generate"}
MCCost == [e \in MCEndpoints |-> IF e = "ingest" THEN 1 ELSE 3]
====
