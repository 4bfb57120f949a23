---- MODULE MCConcurrencySemaphore ----
(* Small instances of ConcurrencySemaphore. *)
EXTENDS ConcurrencySemaphore, TLC

CONSTANTS r1, r2, r3

Interchangeable == Permutations(Requests)

AllFaults == {"crash", "unreached", "lost", "release"}
NothingLost == {"crash", "unreached"}
====
