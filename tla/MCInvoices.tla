---- MODULE MCInvoices ----
(* Small instances of Invoices. *)
EXTENDS Invoices, TLC

CONSTANTS c1, g1, g2, g3

Interchangeable == Permutations(Generations)
====
