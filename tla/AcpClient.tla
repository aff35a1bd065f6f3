------------------------------ MODULE AcpClient ------------------------------
(* An attachment of an ACP v2 agent (adapters/acp/client-v2.ts, class          *)
(* AcpClientV2) once its session is open: prompts and the foreground work the  *)
(* agent reports, cancellation, the agent's permission requests, the end of    *)
(* the session, of the attachment and of the agent's process.                  *)
(*                                                                             *)
(* JavaScript runs one callback at a time, but whoever observes the records    *)
(* is called in the middle of one and may call the client again: each frame of *)
(* the stack is what is left of a callback after the record it made, and a     *)
(* call made while the stack is not empty is an observer's. A promise that is  *)
(* settled is seen later: other messages may be read before the call it        *)
(* belongs to goes on (woken). What is recorded and sent is kept in log.       *)
(*                                                                             *)
(* Negotiation and the opening of the session, replay, the conversation that   *)
(* updates build, session/list and text, ids and reasons are left out.         *)
EXTENDS Integers, Sequences

CONSTANTS
    Bounds      \* scenarios: how many prompts, cancels, session closes, closes, agent's
                \* states and permission requests, how many of them observers make; the
                \* answers and permission requests there are, and whether requests time
                \* out, the agent's output ends and its process ends

VARIABLES
    stack,      \* the callbacks that wait for an observer, the innermost first
    runs,       \* every run opened; one opened by prompt() stands for the call too
    cur,        \* #run: its number, 0 for null
    raw,        \* #rawResults of session/prompt: the run whose answer it is, 0 for none
    perms,      \* the agent's permission requests
    session,    \* "open" | "closing" (#sessionClosing) | "over" (#sessionClosed)
    closer,     \* the closeSession() under way: [st, run, had, outcome]
    closed,     \* #closed
    closing,    \* close(): "no" | "ending" | "done"
    captured,   \* the run close() found open
    unusable,   \* #unusable
    exit,       \* whether #exit is known
    log,        \* what was recorded and sent, in order
    used,       \* what was spent of the scenario's bounds
    bound       \* the scenario of this behaviour

endVars == <<session, closer, closed, closing, captured, unusable, exit>>
vars == <<stack, runs, cur, raw, perms, endVars, log, used, bound>>

Counted == {"prompts", "cancels", "closeSessions", "closes", "states", "perms", "nested"}
Answers == {"accepted", "invalid", "unreadable", "refused"}
Kinds == {"operator", "reject", "none", "malformed"}
Scenarios ==
    [prompts : Nat, cancels : Nat, closeSessions : Nat, closes : Nat, states : Nat, perms : Nat,
     nested : Nat, answers : SUBSET Answers, kinds : SUBSET Kinds, timeouts : BOOLEAN,
     eof : BOOLEAN, exits : BOOLEAN]

ASSUME BoundsAssumption == Bounds \subseteq Scenarios

NoCloser == [st |-> "no", run |-> 0, had |-> FALSE, outcome |-> "none"]

NewRun(call) ==
    [prompted |-> call, started |-> FALSE, stop |-> FALSE, sent |-> ~call, withdrawn |-> FALSE,
     call |-> IF call THEN "recording" ELSE "none", answer |-> "none", outcome |-> "none", took |-> 0,
     completed |-> "open"]

Gone == closed \/ unusable \/ exit
Usable == ~Gone /\ session = "open"

Spend(what) ==
    /\ used[what] < bound[what] /\ (stack # <<>> => used.nested < bound.nested)
    /\ used' = [used EXCEPT ![what] = @ + 1, !.nested = IF stack = <<>> THEN @ ELSE @ + 1]

(* The callback that runs now calls the observer and goes on with f.           *)
Records(f) == stack' = <<f>> \o stack
Log(entries) == log' = log \o entries
Said(k, r) == [k |-> k, run |-> r]
Happened(k, r) == \E n \in DOMAIN log : log[n].k = k /\ log[n].run = r

(* No promise that is settled is still to be seen: timers and the process's    *)
(* end come after.                                                             *)
Rested ==
    /\ stack = <<>> /\ closer.st # "woken"
    /\ \A r \in DOMAIN runs : runs[r].call # "woken"
    /\ \A q \in DOMAIN perms : perms[q].st \notin {"asked", "woken"}

-----------------------------------------------------------------------------
(* A run's waiter is told once.                                                *)
Settled(run, how) == [run EXCEPT !.completed = IF @ = "open" THEN how ELSE @]

(* #closeRun with an error, and #endRun.                                       *)
Closed(rs, r) == IF r = 0 THEN rs ELSE [rs EXCEPT ![r] = Settled(@, "rejected")]
Current(r) == IF cur = r THEN 0 ELSE cur

(* The handlers that wait are not waited for any longer.                       *)
SettlesNone(qs) == qs
SettlePermissions(qs) ==
    [q \in DOMAIN qs |-> IF qs[q].st = "waiting" THEN [qs[q] EXCEPT !.st = "woken", !.answer = "adapter"]
                         ELSE qs[q]]

-----------------------------------------------------------------------------
(* prompt(): refused while work is open; recorded, then sent unless the        *)
(* observer ended what it was for.                                             *)
Prompt ==
    /\ Usable /\ cur = 0 /\ Spend("prompts")
    /\ runs' = Append(runs, NewRun(TRUE)) /\ cur' = Len(runs) + 1
    /\ Records([f |-> "prompt", run |-> Len(runs) + 1])
    /\ UNCHANGED <<raw, perms, endVars, log, bound>>

Withdrawn(r) == runs[r].withdrawn \/ Gone \/ session # "open"

PromptSentAnyway(r) ==
    /\ runs' = [runs EXCEPT ![r].call = "sent", ![r].sent = TRUE] /\ Log(<<Said("prompt", r)>>)
    /\ UNCHANGED cur

PromptSent(r) ==
    IF Withdrawn(r)
    THEN /\ runs' = [runs EXCEPT ![r].call = "failed"] /\ cur' = Current(r) /\ UNCHANGED log
    ELSE /\ runs' = [runs EXCEPT ![r].call = "sent", ![r].sent = TRUE] /\ Log(<<Said("prompt", r)>>)
         /\ UNCHANGED cur

PromptGoesOn ==
    /\ stack # <<>> /\ Head(stack).f = "prompt" /\ stack' = Tail(stack) /\ PromptSent(Head(stack).run)
    /\ UNCHANGED <<raw, perms, endVars, used, bound>>

(* The agent's answer is read: one that accepts nothing parts the run from the *)
(* prompt before a later report of work is seen.                               *)
RefusalNotNoticed(r, answer) == runs[r].prompted
StillPrompted(r, answer) == runs[r].prompted /\ (cur = r => answer = "accepted")

PromptAnswered(r) ==
    /\ stack = <<>> /\ ~unusable /\ runs[r].sent /\ runs[r].call # "none" /\ runs[r].answer = "none"
    /\ \E answer \in bound.answers :
          /\ runs' = [runs EXCEPT ![r].answer = answer, ![r].prompted = StillPrompted(r, answer),
                        ![r].outcome = IF runs[r].call # "sent" THEN @
                                       ELSE IF answer \in {"accepted", "invalid"} THEN "result" ELSE "error",
                        ![r].call = IF @ = "sent" THEN "woken" ELSE @]
          /\ raw' = IF answer = "refused" THEN 0 ELSE r
    /\ UNCHANGED <<stack, cur, perms, endVars, log, used, bound>>

(* A request that is not answered in time, or never will be.                   *)
Lost == Gone /\ stack = <<>>
PromptFails(r) ==
    /\ runs[r].call = "sent" /\ (Lost \/ (Rested /\ bound.timeouts))
    /\ runs' = [runs EXCEPT ![r].call = "woken", ![r].outcome = "error"]
    /\ UNCHANGED <<stack, cur, raw, perms, endVars, log, used, bound>>

(* prompt() goes on: with the raw result of the method, whoever's it is.       *)
PromptReturns(r) ==
    /\ stack = <<>> /\ runs[r].call = "woken"
    /\ LET accepted == runs[r].outcome = "result" /\ raw # 0 /\ runs[raw].answer = "accepted"
           left == cur = r /\ ~accepted /\ ~runs[r].started
           kept == cur = r /\ ~accepted /\ runs[r].started /\ runs[r].outcome = "result"
           rs == IF left THEN Closed(runs, r) ELSE runs IN
       /\ runs' = [rs EXCEPT ![r].call = IF accepted THEN "returned" ELSE "failed",
                             ![r].took = IF accepted THEN raw ELSE 0,
                             ![r].prompted = @ /\ ~kept]
       /\ cur' = IF left THEN 0 ELSE cur
    /\ raw' = IF runs[r].outcome = "result" THEN 0 ELSE raw
    /\ UNCHANGED <<stack, perms, endVars, log, used, bound>>

(* The agent reports no end in time: the waiter is told, the run stays open.   *)
CompletionTimesOut ==
    /\ Rested /\ bound.timeouts /\ cur # 0 /\ runs[cur].call # "none" /\ runs[cur].completed = "open"
    /\ runs' = Closed(runs, cur)
    /\ UNCHANGED <<stack, cur, raw, perms, endVars, log, used, bound>>

-----------------------------------------------------------------------------
(* Foreground work as the agent reports it. The run a report is about is fixed *)
(* before the observer sees it.                                                *)
LateAfterExit == Gone
Late == Gone \/ session = "over"

AgentReports(state) ==
    /\ stack = <<>> /\ ~unusable /\ Spend("states")
    /\ IF Late THEN UNCHANGED <<stack, runs, cur>>
       ELSE LET opens == state = "running" /\ cur = 0 IN
            /\ runs' = IF opens THEN Append(runs, NewRun(FALSE)) ELSE runs
            /\ cur' = IF opens THEN Len(runs) + 1 ELSE cur
            /\ Records([f |-> state, run |-> IF opens THEN Len(runs) + 1 ELSE cur])
    /\ UNCHANGED <<raw, perms, endVars, log, bound>>

(* The report's run when it is still the one that is open.                     *)
OfRun(r) == r # 0 /\ cur = r

StateGoesOn ==
    /\ stack # <<>> /\ Head(stack).f \in {"running", "idle", "stopped"}
    /\ LET f == Head(stack)
           r == f.run
           starts == OfRun(r) /\ f.f = "running" /\ ~runs[r].started
           ends == OfRun(r) /\ (f.f = "stopped" \/ (f.f = "idle" /\ runs[r].started)) IN
       /\ runs' = IF starts THEN [runs EXCEPT ![r].started = TRUE] ELSE runs
       /\ CASE starts -> Log(<<[k |-> IF runs[r].prompted THEN "started" ELSE "started-alone", run |-> r,
                                answer |-> runs[r].answer]>>)
            [] ends -> Log(<<Said(IF runs[r].started THEN "ended" ELSE "ended-unstarted", r)>>)
            [] OTHER -> UNCHANGED log
       /\ stack' = IF ends THEN <<[f |-> "end", run |-> r]>> \o Tail(stack) ELSE Tail(stack)
    /\ UNCHANGED <<cur, raw, perms, endVars, used, bound>>

EndRun ==
    /\ stack # <<>> /\ Head(stack).f = "end" /\ stack' = Tail(stack)
    /\ cur' = Current(Head(stack).run)
    /\ runs' = [runs EXCEPT ![Head(stack).run] = Settled(@, "resolved")]
    /\ UNCHANGED <<raw, perms, endVars, log, used, bound>>

-----------------------------------------------------------------------------
(* cancel(): before the prompt is sent it withdraws it; else the agent is told *)
(* and nothing waits for an operator's decision any longer.                    *)
Cancel ==
    /\ cur # 0 /\ ~runs[cur].stop /\ ~closed /\ ~unusable /\ session = "open" /\ Spend("cancels")
    /\ runs' = [runs EXCEPT ![cur].stop = TRUE, ![cur].withdrawn = ~runs[cur].sent]
    /\ IF runs[cur].sent
       THEN /\ Records([f |-> "cancel", run |-> cur]) /\ Log(<<Said("stop", cur)>>)
       ELSE /\ UNCHANGED stack /\ Log(<<Said("withdrawn", cur)>>)
    /\ UNCHANGED <<cur, raw, perms, endVars, bound>>

CancelGoesOn ==
    /\ stack # <<>> /\ Head(stack).f = "cancel" /\ stack' = Tail(stack)
    /\ perms' = SettlePermissions(perms)
    /\ UNCHANGED <<runs, cur, raw, endVars, log, used, bound>>

-----------------------------------------------------------------------------
(* The agent asks for permission. kind says what the client could answer: what *)
(* the operator decides, the agent's own reject option, or nothing; or that    *)
(* the request is malformed.                                                   *)
PermissionAsked ==
    /\ stack = <<>> /\ ~unusable /\ Spend("perms")
    /\ \E kind \in bound.kinds :
          perms' = Append(perms, [st |-> "asked", kind |-> kind, late |-> Late, run |-> 0,
                                  answer |-> "none", told |-> "none"])
    /\ UNCHANGED <<stack, runs, cur, raw, endVars, log, bound>>

(* Foreground work the client still stands behind.                             *)
CanApprove(r) == r # 0 /\ cur = r /\ ~runs[r].stop /\ Usable

Cancelling(r) == (r # 0 /\ runs[r].stop) \/ ~Usable

(* What is not decided is answered at once. A decision is recorded first, and  *)
(* whoever observes the record runs before the answer is handed over.          *)
Told(q, r, what) ==
    /\ perms' = [perms EXCEPT ![q].st = "answered", ![q].run = r, ![q].told = what]
    /\ UNCHANGED <<stack, log>>

Decided(q, r, what) ==
    /\ perms' = [perms EXCEPT ![q].st = "deciding", ![q].run = r, ![q].told = what]
    /\ Records([f |-> "decided", run |-> 0])
    /\ IF what = "approved" THEN Log(<<Said("approves", r)>>) ELSE UNCHANGED log

(* The request reaches its handler; an operator is asked only while the work   *)
(* is one to stand behind. A malformed request is refused, a late one is told  *)
(* that it is cancelled, and neither is decided.                               *)
PermissionHandled(q) ==
    /\ stack = <<>> /\ perms[q].st = "asked"
    /\ LET unfit == perms[q].late \/ perms[q].kind = "malformed"
           kind == IF CanApprove(cur) THEN perms[q].kind ELSE "none" IN
       \/ unfit /\ Told(q, 0, IF perms[q].late THEN "cancelled" ELSE "error")
       \/ ~unfit /\ kind = "none" /\ Cancelling(cur) /\ Decided(q, cur, "cancelled")
       \/ ~unfit /\ kind = "none" /\ ~Cancelling(cur) /\ Told(q, cur, "error")
       \/ ~unfit /\ kind = "reject" /\ Decided(q, cur, "rejected")
       \/ /\ ~unfit /\ kind = "operator"
          /\ perms' = [perms EXCEPT ![q].st = "waiting", ![q].run = cur] /\ UNCHANGED <<stack, log>>
    /\ UNCHANGED <<runs, cur, raw, endVars, used, bound>>

OperatorAnswers(q) ==
    /\ perms[q].st = "waiting"
    /\ \E answer \in {"approve", "cancel", "throws"} :
          perms' = [perms EXCEPT ![q].st = "woken", ![q].answer = answer]
    /\ UNCHANGED <<stack, runs, cur, raw, endVars, log, used, bound>>

(* What the operator answered counts if the work is still one to stand behind. *)
StoodWhenAsked(q) == TRUE
Stands(q) == CanApprove(perms[q].run)

PermissionDecided(q) ==
    /\ stack = <<>> /\ perms[q].st = "woken"
    /\ LET r == perms[q].run
           approved == Stands(q) /\ perms[q].answer = "approve"
           refused == Stands(q) /\ perms[q].answer = "cancel" IN
       \/ approved /\ Decided(q, r, "approved")
       \/ refused /\ Decided(q, r, "operator-cancelled")
       \/ ~approved /\ ~refused /\ Cancelling(r) /\ Decided(q, r, "cancelled")
       \/ ~approved /\ ~refused /\ ~Cancelling(r) /\ Told(q, r, "error")
    /\ UNCHANGED <<runs, cur, raw, endVars, used, bound>>

(* The decision recorded is the answer, whatever was called in its record; the *)
(* connection writes it a few promise turns later.                             *)
PermissionGoesOn(q) ==
    /\ stack # <<>> /\ Head(stack).f = "decided" /\ stack' = Tail(stack)
    /\ perms[q].st = "deciding" /\ perms' = [perms EXCEPT ![q].st = "answered"]
    /\ IF perms[q].told = "approved" THEN Log(<<Said("approved", perms[q].run)>>) ELSE UNCHANGED log
    /\ UNCHANGED <<runs, cur, raw, endVars, used, bound>>

-----------------------------------------------------------------------------
(* closeSession(): no work is started while it is under way; a refusal gives   *)
(* the run back what cancel() had or had not asked of it.                      *)
CloseSession ==
    /\ Usable /\ Spend("closeSessions")
    /\ session' = "closing"
    /\ closer' = [st |-> "recording", run |-> cur, had |-> cur # 0 /\ runs[cur].stop, outcome |-> "none"]
    /\ runs' = IF cur = 0 THEN runs ELSE [runs EXCEPT ![cur].stop = TRUE]
    /\ Log(<<Said("closing", cur)>>) /\ Records([f |-> "close-session", run |-> cur])
    /\ UNCHANGED <<cur, raw, perms, closed, closing, captured, unusable, exit, bound>>

CloseSessionGoesOn ==
    /\ stack # <<>> /\ Head(stack).f = "close-session" /\ stack' = Tail(stack)
    /\ closer' = [closer EXCEPT !.st = "sent"]
    /\ UNCHANGED <<runs, cur, raw, perms, session, closed, closing, captured, unusable, exit, log, used,
                   bound>>

CloseSessionAnswered ==
    /\ stack = <<>> /\ ~unusable /\ closer.st = "sent"
    /\ \E outcome \in {"accepted", "refused"} : closer' = [closer EXCEPT !.st = "woken", !.outcome = outcome]
    /\ UNCHANGED <<stack, runs, cur, raw, perms, session, closed, closing, captured, unusable, exit, log,
                   used, bound>>

CloseSessionFails ==
    /\ closer.st = "sent" /\ (Lost \/ (Rested /\ bound.timeouts))
    /\ closer' = [closer EXCEPT !.st = "woken", !.outcome = "failed"]
    /\ UNCHANGED <<stack, runs, cur, raw, perms, session, closed, closing, captured, unusable, exit, log,
                   used, bound>>

RestoresNoStop == FALSE
RestoredStop == closer.had

(* It goes on. The run may have ended meanwhile, or another one begun.         *)
CloseSessionReturns ==
    /\ stack = <<>> /\ closer.st = "woken" /\ closer' = NoCloser
    /\ IF closer.outcome = "refused"
       THEN /\ session' = "open" /\ Log(<<Said("refused", 0)>>)
            /\ runs' = IF OfRun(closer.run) THEN [runs EXCEPT ![cur].stop = RestoredStop] ELSE runs
            /\ UNCHANGED <<cur, perms>>
       ELSE /\ session' = "over" /\ Log(<<Said("over", 0)>>)
            /\ runs' = Closed(runs, cur) /\ cur' = 0 /\ perms' = SettlePermissions(perms)
    /\ UNCHANGED <<stack, raw, closed, closing, captured, unusable, exit, used, bound>>

-----------------------------------------------------------------------------
(* close(): the attachment and its process end.                                *)
Closes ==
    /\ closed' = TRUE /\ closing' = "ending" /\ captured' = cur
    /\ perms' = SettlePermissions(perms) /\ Log(<<Said("closed", cur)>>)

Close ==
    /\ closing = "no" /\ Spend("closes") /\ Closes
    /\ UNCHANGED <<stack, runs, cur, raw, session, closer, unusable, exit, bound>>

CloseReturns ==
    /\ stack = <<>> /\ closing = "ending" /\ exit /\ closing' = "done"
    /\ IF OfRun(captured) THEN runs' = Closed(runs, cur) /\ cur' = 0 ELSE UNCHANGED <<runs, cur>>
    /\ UNCHANGED <<stack, raw, perms, session, closer, closed, captured, unusable, exit, log, used, bound>>

(* The agent's output ended. If its process has not, the attachment is closed. *)
ConnectionCloses ==
    /\ stack = <<>> /\ bound.eof /\ ~unusable /\ ~closed /\ unusable' = TRUE
    /\ perms' = SettlePermissions(perms)
    /\ UNCHANGED <<stack, runs, cur, raw, session, closer, closed, closing, captured, exit, log, used, bound>>

ConnectionFaults ==
    /\ Rested /\ unusable /\ ~closed /\ ~exit /\ closing = "no" /\ Closes
    /\ UNCHANGED <<stack, runs, cur, raw, session, closer, unusable, exit, used, bound>>

(* The process ends, by itself or because it was closed.                       *)
ExitSeen ==
    /\ Rested /\ ~exit /\ (bound.exits \/ closing = "ending") /\ exit' = TRUE
    /\ Records([f |-> "exit", run |-> 0]) /\ Log(<<Said("exited", 0)>>)
    /\ UNCHANGED <<runs, cur, raw, perms, session, closer, closed, closing, captured, unusable, used, bound>>

ExitEndsNothing == UNCHANGED <<runs, cur, log>>
ExitEnds ==
    IF cur = 0 THEN UNCHANGED <<runs, cur, log>>
    ELSE runs' = Closed(runs, cur) /\ cur' = 0 /\ Log(<<Said("interrupted", cur)>>)

ExitGoesOn ==
    /\ stack # <<>> /\ Head(stack).f = "exit" /\ stack' = Tail(stack) /\ ExitEnds
    /\ UNCHANGED <<raw, perms, endVars, used, bound>>

-----------------------------------------------------------------------------
Init ==
    /\ bound \in Bounds /\ used = [what \in Counted |-> 0]
    /\ stack = <<>> /\ runs = <<>> /\ cur = 0 /\ raw = 0 /\ perms = <<>> /\ log = <<>>
    /\ session = "open" /\ closer = NoCloser /\ closed = FALSE /\ closing = "no" /\ captured = 0
    /\ unusable = FALSE /\ exit = FALSE

Calls == Prompt \/ Cancel \/ CloseSession \/ Close
Agent ==
    \/ PermissionAsked \/ CloseSessionAnswered \/ ConnectionCloses \/ ExitSeen
    \/ \E state \in {"running", "idle", "stopped"} : AgentReports(state)
    \/ \E r \in DOMAIN runs : PromptAnswered(r)
    \/ \E q \in DOMAIN perms : OperatorAnswers(q)
Runs ==
    \/ PromptGoesOn \/ StateGoesOn \/ EndRun \/ CancelGoesOn \/ CloseSessionGoesOn \/ ExitGoesOn
    \/ CloseSessionReturns \/ CloseReturns \/ ConnectionFaults
    \/ \E r \in DOMAIN runs : PromptReturns(r)
    \/ \E q \in DOMAIN perms : PermissionHandled(q) \/ PermissionDecided(q) \/ PermissionGoesOn(q)
Fails == CloseSessionFails \/ (\E r \in DOMAIN runs : PromptFails(r)) \/ CompletionTimesOut

Next == Calls \/ Agent \/ Runs \/ Fails

(* What is called runs on; a call that cannot be answered any more fails; a    *)
(* closed process ends (ProcessGroup).                                         *)
Goes == Runs \/ (Gone /\ Fails) \/ (closed /\ ExitSeen)

Spec == Init /\ [][Next]_vars /\ WF_vars(Goes)

-----------------------------------------------------------------------------
(* Until entry n its run's work was not asked to stop, by cancel() or by a     *)
(* close of the session that was not refused since, and had not ended.         *)
Wanted(n) ==
    \A m \in 1..n - 1 :
        /\ log[m].k \in {"stop", "ended", "ended-unstarted", "interrupted"} => log[m].run # log[n].run
        /\ log[m].k \notin {"over", "closed", "exited"}
        /\ log[m].k = "closing" => \E l \in m..n : log[l].k = "refused"

(* The operator's approval is decided on only for work still wanted, whenever  *)
(* the operator decides; and it is given only for a decision, after nothing    *)
(* but what was called inside that decision's own record.                      *)
Nested == {"stop", "closing", "closed"}
ApprovalsAreWanted ==
    \A n \in DOMAIN log :
        /\ log[n].k = "approves" => Wanted(n)
        /\ log[n].k = "approved" =>
              \E d \in 1..n - 1 : /\ log[d] = Said("approves", log[n].run)
                                 /\ \A m \in d + 1..n - 1 : log[m].k \in Nested

(* Asked of the moment the approval is given, the same is false: the observer  *)
(* of the decision may cancel or close, and nothing is asked again.            *)
ApprovalsReachWantedWork == \A n \in DOMAIN log : log[n].k = "approved" => Wanted(n)

(* A permission whose work is over for the client is answered, even when the   *)
(* operator never does; a close of the session that may be refused is no end.  *)
Unwanted(q) ==
    /\ q \in DOMAIN perms /\ perms[q].st = "waiting"
    /\ closed \/ unusable \/ session = "over" \/ Happened("stop", perms[q].run)
PermissionsAreReleased ==
    \A q \in 1..2 : Unwanted(q) ~> q \in DOMAIN perms /\ perms[q].st = "answered"

(* Work is attributed to a prompt only if no answer to that prompt was read    *)
(* that did not accept it, however late prompt() itself sees the answer.       *)
AttributionIsProven ==
    \A n \in DOMAIN log : log[n].k = "started" => log[n].answer \in {"none", "accepted"}

(* The runs recorded alternate: none starts while another is on record as      *)
(* open, none ends twice, and nothing starts once the session or process ended.*)
Begins(n) == log[n].k \in {"started", "started-alone"}
Finishes(n) == log[n].k \in {"ended", "ended-unstarted", "interrupted"}
RunsAlternate ==
    \A n \in DOMAIN log : \A m \in 1..n - 1 :
        /\ Begins(n) => log[m].k \notin {"over", "exited"}
        /\ Begins(n) \/ Finishes(n) => (Finishes(m) => log[m].run # log[n].run)
        /\ Begins(n) /\ Begins(m) => /\ log[m].run # log[n].run
                                     /\ \E l \in m..n : log[l].k = "ended" /\ log[l].run = log[m].run

(* No prompt is sent once its session or attachment is being closed, or after  *)
(* it was withdrawn, also by an observer of the prompt's own record.           *)
NothingSentToTheClosed ==
    \A n \in DOMAIN log : log[n].k = "prompt" => \A m \in 1..n - 1 :
        /\ log[m].k \notin {"over", "closed", "exited"}
        /\ log[m].k = "withdrawn" => log[m].run # log[n].run
        /\ log[m].k = "closing" => \E l \in m..n : log[l].k = "refused"

(* Nothing is decided on in favour of, or sent to, what has ended.             *)
NothingForWhatEnded == ApprovalsAreWanted /\ NothingSentToTheClosed

(* The record of the runs is true: in order, each of the prompt it is said of. *)
RunsAreTrue == AttributionIsProven /\ RunsAlternate

(* A refused close of the session leaves the run as it was: asked to stop if   *)
(* and only if cancel() asked it.                                              *)
RefusedCloseChangesNothing ==
    stack = <<>> /\ session = "open" /\ cur # 0 => (runs[cur].stop <=> Happened("stop", cur))

(* Once the attachment is closed, or its agent's process or output ended,      *)
(* every call returns and whoever waits for the end of a run is told.          *)
WaitersAreReleased ==
    Gone ~> /\ closer.st = "no"
            /\ \A r \in DOMAIN runs : /\ runs[r].call \notin {"recording", "sent", "woken"}
                                      /\ runs[r].call = "returned" => runs[r].completed # "open"

(* Whoever waits for what is over is told: the agent of a permission, a call   *)
(* of its return, a waiter of the end of its run.                              *)
EveryoneIsTold == PermissionsAreReleased /\ WaitersAreReleased

(* The message a prompt returns is the one its own answer accepted.            *)
AcceptedIsOwn == \A r \in DOMAIN runs : runs[r].call = "returned" => runs[r].took = r
=============================================================================
