------------------------------- MODULE MCEventStore -------------------------------
(* Small instances of EventStore: the events differ only by name. *)
EXTENDS EventStore, TLC

Interchangeable == Permutations(Events)
===============================================================================
