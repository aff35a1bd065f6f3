------------------------------ MODULE MCWriterLock ------------------------------
(* Small instances of WriterLock. *)
EXTENDS WriterLock, TLC

Symmetry == Permutations(Processes)
===============================================================================
