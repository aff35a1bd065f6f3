------------------------------ MODULE Lifecycle ------------------------------
(* The session lifecycle of adapters/pi/lifecycle.ts: a pure fold of the       *)
(* events an attachment recorded into the lifecycle events they imply.         *)
(*                                                                             *)
(* A recorded event is [id, k, v]: its identity <<instance, n>> (instance 0    *)
(* for a durable entry), its kind and the one payload value the fold reads. A  *)
(* lifecycle event is [id, k, runOpen, seq]; its identity <<instance, n, k,    *)
(* index>> is that of the event it derives from, its kind and its place among  *)
(* the events derived from it. Text, stop reasons beyond the three that decide *)
(* an outcome, usage and the store's recovery report are left out.             *)
EXTENDS Integers, Sequences

Idle == [open |-> FALSE, turnOpen |-> FALSE, last |-> "none", gaveUp |-> FALSE]

(* No instance was attached yet (instance 0, which never ended).               *)
Initial == [known |-> FALSE, instance |-> 0, ended |-> TRUE, run |-> Idle, emitted |-> 0]

Outcome(run) ==
    CASE run.gaveUp -> "run-failed"
      [] ~run.gaveUp /\ run.last = "error" -> "run-failed"
      [] ~run.gaveUp /\ run.last = "aborted" -> "run-aborted"
      [] ~run.gaveUp /\ run.last = "none" -> "run-unclassified"
      [] OTHER -> "run-completed"

(* What an attach says of the observation before it: an instance whose exit    *)
(* was never recorded lost its observer.                                       *)
LostUnnoticed(state) == <<>>
Lost(state) == IF state.ended THEN <<>> ELSE <<"observer-lost">>

(* The lifecycle kinds an event implies, in the order they are emitted.        *)
Implied(state, event) ==
    LET run == state.run IN
    CASE event.k = "attached" ->
           Lost(state) \o <<IF state.known THEN "session-resumed" ELSE "session-started">>
      [] event.k = "exited" ->
           <<IF state.ended THEN "anomaly" ELSE IF run.open THEN "runtime-exited" ELSE "detached">>
      [] event.k = "run-started" ->
           IF state.ended THEN <<"anomaly">> ELSE IF run.open THEN <<>> ELSE <<"run-started">>
      [] event.k = "turn-started" ->
           IF ~run.open THEN <<"anomaly">>
           ELSE (IF run.turnOpen THEN <<"anomaly">> ELSE <<>>) \o <<"turn-started">>
      [] event.k = "turn-finished" ->
           <<IF run.open /\ run.turnOpen THEN "turn-completed" ELSE "anomaly">>
      [] event.k = "settled" ->
           IF ~run.open THEN <<"anomaly">>
           ELSE (IF run.turnOpen THEN <<"anomaly">> ELSE <<>>) \o <<Outcome(run)>>
      [] event.k = "control" -> <<event.v>>
      [] event.k = "compacted" -> <<"compacted">>
      [] event.k = "unrecognized" -> <<"unrecognized">>
      [] OTHER -> <<>>

(* The run after an event.                                                     *)
RunAfter(state, event) ==
    LET run == state.run IN
    CASE event.k \in {"attached", "settled"} -> Idle
      [] event.k = "exited" /\ ~state.ended -> Idle
      [] event.k = "run-started" /\ ~state.ended /\ ~run.open -> [Idle EXCEPT !.open = TRUE]
      [] event.k = "turn-started" /\ run.open -> [run EXCEPT !.turnOpen = TRUE]
      [] event.k = "turn-finished" /\ run.open /\ run.turnOpen ->
           [run EXCEPT !.turnOpen = FALSE, !.last = IF event.v = "none" THEN @ ELSE event.v]
      [] event.k = "message" /\ run.open /\ event.v # "none" -> [run EXCEPT !.last = event.v]
      [] event.k = "gave-up" /\ run.open -> [run EXCEPT !.gaveUp = TRUE]
      [] OTHER -> run

(* One recorded event: the next state and the lifecycle events it implies.     *)
Step(state, event) ==
    LET kinds == Implied(state, event) IN
    [state |-> [known |-> state.known \/ event.k = "attached",
                instance |-> IF event.k = "attached" THEN event.id[1] ELSE state.instance,
                ended |-> event.k # "attached" /\ (event.k = "exited" \/ state.ended),
                run |-> RunAfter(state, event),
                emitted |-> state.emitted + Len(kinds)],
     events |-> [n \in 1..Len(kinds) |->
                   [id |-> <<event.id[1], event.id[2], kinds[n], n>>, k |-> kinds[n],
                    runOpen |-> state.run.open, seq |-> state.emitted + n]]]

(* The fold of a recorded stream.                                              *)
Start == [state |-> Initial, events |-> <<>>]
Extended(folded, event) ==
    LET step == Step(folded.state, event) IN
    [state |-> step.state, events |-> folded.events \o step.events]
Fold(events) ==
    LET upTo[n \in 0..Len(events)] ==
          IF n = 0 THEN Start ELSE Extended(upTo[n - 1], events[n])
    IN  upTo[Len(events)]

(* The events at the given places, in their order (what a filter keeps).       *)
Selected(events, places) ==
    LET upTo[n \in 0..Len(events)] ==
          IF n = 0 THEN <<>>
          ELSE IF n \in places THEN Append(upTo[n - 1], events[n]) ELSE upTo[n - 1]
    IN  upTo[Len(events)]
=============================================================================
