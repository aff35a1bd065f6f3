------------------------------ MODULE MCConnection ------------------------------
(* Small instances of Connection: calls that nest, on a child that only talks or closes its input; two calls on one
   that also exits or is closed; one call through everything that may happen to a command alone, and to one that
   leaves its output or has a descendant that does. *)
EXTENDS Connection

MCHappenings ==
  {"forks", "leaves output", "never starts", "exits", "input breaks", "closes", "keeper dies", "owner dies", "output limit"}

MCBounds ==
  { [calls |-> 4, said |-> 1, may |-> {"input breaks"}],
    [calls |-> 3, said |-> 2, may |-> {}],
    [calls |-> 2, said |-> 1, may |-> {"exits", "input breaks", "closes"}],
    [calls |-> 1, said |-> 2, may |-> MCHappenings \ {"forks", "leaves output"}],
    [calls |-> 1, said |-> 1, may |-> MCHappenings \ {"input breaks"}] }
===============================================================================
