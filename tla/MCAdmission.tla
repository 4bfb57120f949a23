---- MODULE MCAdmission ----
(* Small instances of Admission: a noisy tenant with two or three requests at a *)
(* time and a quiet one with one.                                              *)
EXTENDS Admission

CONSTANTS n1, n2, n3, q1

MCTenant == [r \in Requests |-> IF r = q1 THEN "quiet" ELSE "noisy"]
MCCost == [p \in Paths |-> 1]

OneSlot == [t \in Tenants |-> 1]
OneToken == [t \in Tenants |-> 1]
ThreeTokens == [t \in Tenants |-> 3]
====
