----------------------------- MODULE MCAcpClient -----------------------------
EXTENDS AcpClient

None == [prompts |-> 0, cancels |-> 0, closeSessions |-> 0, closes |-> 0, states |-> 0, perms |-> 0,
         nested |-> 0, answers |-> {"accepted"}, kinds |-> {"operator"}, timeouts |-> FALSE,
         eof |-> FALSE, exits |-> FALSE]
AllAnswers == {"accepted", "invalid", "unreadable", "refused"}

(* Prompts, their answers and the work reported, in every order.               *)
Prompts == [None EXCEPT !.prompts = 2, !.states = 4, !.answers = AllAnswers, !.exits = TRUE]
(* What observers do inside a record.                                          *)
Observers == [None EXCEPT !.prompts = 1, !.cancels = 1, !.closeSessions = 1, !.closes = 1,
                          !.states = 2, !.nested = 2]
(* An operator who decides while the work is cancelled, ends or is closed.     *)
Decisions == [None EXCEPT !.prompts = 1, !.cancels = 1, !.closeSessions = 1, !.states = 2, !.perms = 1,
                          !.kinds = {"operator", "reject", "none", "malformed"}, !.exits = TRUE]
(* Closes of the session that are refused, over two runs.                      *)
Refusals == [None EXCEPT !.cancels = 1, !.closeSessions = 2, !.states = 3, !.perms = 1]
(* Every end at every moment of a prompt, and of a permission.                 *)
Ends == [None EXCEPT !.prompts = 1, !.closes = 1, !.states = 2, !.answers = {"accepted", "refused"},
                     !.timeouts = TRUE, !.eof = TRUE, !.exits = TRUE]
EndsAsked == [None EXCEPT !.closeSessions = 1, !.closes = 1, !.states = 2, !.perms = 1,
                          !.timeouts = TRUE, !.eof = TRUE, !.exits = TRUE]
(* What observers do inside the record of a decision.                          *)
Inside == [None EXCEPT !.cancels = 1, !.closeSessions = 1, !.closes = 1, !.states = 2, !.perms = 1,
                       !.nested = 2, !.kinds = {"operator", "reject"}]
MCBounds == {Prompts, Observers, Decisions, Refusals, Ends, EndsAsked, Inside}
(* A second prompt before the first one's answer.                              *)
TwoPrompts == [None EXCEPT !.prompts = 2, !.states = 2]
MCTwoPrompts == {TwoPrompts}
(* A cancel inside the record of an approval.                                  *)
MCDecided == {[Inside EXCEPT !.closeSessions = 0, !.closes = 0]}
=============================================================================
