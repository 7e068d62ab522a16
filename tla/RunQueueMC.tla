----------------------------- MODULE RunQueueMC -----------------------------
(* Small instances of RunQueue. *)
EXTENDS RunQueue

OneSession == [t \in Turn |-> 1]
TwoSessions == [t \in Turn |-> t]
=============================================================================
