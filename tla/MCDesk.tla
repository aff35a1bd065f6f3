--------------------------------- MODULE MCDesk ---------------------------------
(* Small instances of Desk. *)
EXTENDS Desk, TLC

Symmetry == Permutations(Proposals) \union Permutations(Auths)
===============================================================================
