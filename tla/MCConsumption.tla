------------------------------ MODULE MCConsumption ------------------------------
(* Small instances of Consumption. *)
EXTENDS Consumption
===============================================================================
