----------------------------- MODULE MCAttachment -----------------------------
EXTENDS Attachment

Nothing == [opens |-> 1, instances |-> 1, entries |-> 0, lives |-> 0, faults |-> 0, controls |-> 0,
            crashes |-> 0, rewrites |-> 0, kinds |-> {}, pipe |-> 1, announces |-> FALSE,
            timeouts |-> FALSE, closes |-> FALSE, terminates |-> FALSE]
RunKinds == {<<"run-started", "none">>, <<"settled", "none">>}

(* Runs over a crash, and over a Pi that ends by itself.                       *)
Crashes == [Nothing EXCEPT !.opens = 2, !.instances = 2, !.lives = 2, !.crashes = 1, !.kinds = RunKinds]
(* Entries over settled runs.                                                  *)
Turns == [Nothing EXCEPT !.entries = 2, !.lives = 2, !.pipe = 2,
                         !.kinds = {<<"settled", "none">>, <<"compacted", "none">>}]
(* Entries over a reconnect and a rewritten session.                           *)
Reads == [Nothing EXCEPT !.instances = 2, !.entries = 2, !.rewrites = 1]
(* A session closed and opened again.                                          *)
Reopens == [Nothing EXCEPT !.opens = 2, !.instances = 2, !.entries = 1, !.lives = 1, !.closes = TRUE,
                           !.kinds = {<<"run-started", "none">>}]
(* Every end, at every moment.                                                 *)
Ends == [Nothing EXCEPT !.entries = 1, !.lives = 1, !.faults = 1, !.controls = 1,
                        !.timeouts = TRUE, !.closes = TRUE, !.terminates = TRUE,
                        !.kinds = {<<"settled", "none">>}]
(* The events of a run, in any order.                                          *)
Lives == [Nothing EXCEPT !.lives = 3, !.kinds = RunKinds \union
            {<<"turn-started", "none">>, <<"turn-finished", "error">>, <<"message", "aborted">>,
             <<"gave-up", "none">>}]
(* A Pi that announces the entries it appends.                                 *)
Announced == [Nothing EXCEPT !.entries = 2, !.lives = 1, !.announces = TRUE,
                             !.kinds = {<<"settled", "none">>}]
AnnouncedAgain == [Announced EXCEPT !.instances = 2, !.lives = 0]
MCAnnounced == {AnnouncedAgain}
MCBounds == {Crashes, Turns, Reads, Reopens, Ends, Lives, Announced}
=============================================================================
