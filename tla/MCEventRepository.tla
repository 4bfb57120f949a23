---- MODULE MCEventRepository ----
(* Small instances of EventRepository. *)
EXTENDS EventRepository

CONSTANTS a1, a2, a3, e1

OnlyAppendFails == {"appendfails"}
AllFaults == {"unreached", "claimlost", "appendfails", "appendlost", "crash"}
====
