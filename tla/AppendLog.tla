-------------------------------- MODULE AppendLog --------------------------------
(***************************************************************************)
(* What a durable log promises its writer: what was acknowledged stays, in *)
(* the order it was put; only what was put and not yet acknowledged may be *)
(* lost, from the end.  EventStore is shown to implement it.               *)
(***************************************************************************)
EXTENDS Naturals, Sequences

CONSTANT Events

VARIABLES
  stored,  \* what a reader finds
  acked    \* how many of them were acknowledged

vars == <<stored, acked>>

Init == stored = << >> /\ acked = 0

Put(e) ==
  /\ \A i \in 1 .. Len(stored) : stored[i] # e
  /\ stored' = Append(stored, e)
  /\ UNCHANGED acked

Acknowledge ==
  /\ acked' = Len(stored)
  /\ UNCHANGED stored

Lose(k) ==
  /\ stored' = SubSeq(stored, 1, k)
  /\ UNCHANGED acked

Next ==
  \/ \E e \in Events : Put(e)
  \/ Acknowledge
  \/ \E k \in acked .. Len(stored) : Lose(k)

Spec == Init /\ [][Next]_vars
===============================================================================
