----------------------------- MODULE MCEvidenceLedger -----------------------------
(* A small instance of EvidenceLedger: two results, one of holdout trials, a *)
(* selection that cites each, and a promotion request for the sound one.     *)
EXTENDS EvidenceLedger

CONSTANTS result, holdout, selection, peeking, request

RefersTo ==
  [r \in {result, holdout, selection, peeking, request} |->
     CASE r \in {result, holdout} -> {}
       [] r = selection -> {result}
       [] r = peeking -> {holdout}
       [] r = request -> {selection}]
===============================================================================
