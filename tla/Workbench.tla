------------------------------ MODULE Workbench ------------------------------
(***************************************************************************)
(* The DEVELOP workbench of an attached Pi session: the command broker     *)
(* (adapters/pi/workbench.ts), its interventions                           *)
(* (adapters/pi/workbench-interventions.ts), the terminal that approves    *)
(* (cli/workbench.ts) and the synchronous part of the intervention desk's  *)
(* apply (adapters/pi/intervention.ts).  A paired page, or the terminal,   *)
(* asks for a prompt, a work attempt's brief, a steer, a queue or a stop;  *)
(* the operator decides on the terminal; what was true when it was asked   *)
(* is checked again in the same turn of the event loop that sends it.      *)
(*                                                                         *)
(* An action is one uninterrupted turn of the event loop: the code between *)
(* two awaits.  The bytes of a message, its digest and its phrase are the  *)
(* identity of the request.                                                *)
(***************************************************************************)
EXTENDS Naturals, Sequences

CONSTANTS
  Requests,   \* request identities (a proposal digest each); bounds how many are made
  Attempts,   \* prepared work attempts
  MaxGrants,  \* bound: how many times a page is paired
  Faults,     \* bound: which of AllFaults happen in the instance
  None,       \* no request, no attempt
  Elsewhere   \* an attempt authorised by another process

ASSUME GrantsAssumption == MaxGrants \in Nat
ASSUME NoneAssumption == None \notin Requests \union Attempts /\ Elsewhere \notin Requests \union {None}

AllFaults == {"grant expires", "pi exits", "store fails", "close", "end", "spent elsewhere"}

VARIABLES
  req,        \* req[r]: what the broker holds of request r
  command,    \* the broker's last prompt or attempt, or None
  screen,     \* the approver calls not yet answered, oldest first: the head is on the terminal
  pi,         \* the requests written to Pi
  spent,      \* spent[a]: the request the attempt a was authorised for, None, or Elsewhere
  grant,      \* the grant the page holds, 0 when there is none
  grants,     \* how many grants were given
  live,       \* the Pi process is running
  run,        \* a run is open
  closing,    \* the desk's final finish began
  ended,      \* the broker ended or was disposed
  recording   \* the session's store takes records

session == <<grant, grants, live, run, closing, ended, recording>>
vars == <<req, command, screen, pi, spent, session>>

Prompts == {"prompt"}
Interventions == {"steer", "queue", "stop"}
Kinds == Prompts \union Interventions
States == {"none", "awaiting", "dispatching", "accepted", "refused", "unknown"}
Answers == {"allow", "deny", "null"}
Questions == Answers \union {"none", "waiting", "asked"}
Replies == {"none", "ok", "odd", "declined", "lost"}
Steps == {"proposed", "allow", "deny", "dispatched", "accepted", "refused"}

Request ==
  [kind : Kinds \union {"none"}, attempt : Attempts \union {None}, state : States,
   question : Questions, grant : 0 .. MaxGrants, late : BOOLEAN, aborted : BOOLEAN,
   superseded : BOOLEAN, victim : Requests \union {None}, reply : Replies, chain : Seq(Steps)]

Fresh ==
  [kind |-> "none", attempt |-> None, state |-> "none", question |-> "none", grant |-> 0,
   late |-> FALSE, aborted |-> FALSE, superseded |-> FALSE, victim |-> None,
   reply |-> "none", chain |-> << >>]

Init ==
  /\ req = [r \in Requests |-> Fresh]
  /\ command = None
  /\ screen = << >>
  /\ pi = {}
  /\ spent = [a \in Attempts |-> None]
  /\ grant = 0
  /\ grants = 0
  /\ live = TRUE
  /\ run \in BOOLEAN
  /\ closing = FALSE
  /\ ended = FALSE
  /\ recording = TRUE

IsPrompt(r) == req[r].kind \in Prompts
Awaiting(r) == req[r].state = "awaiting"
Granted(g) == g # 0 /\ g = grant /\ ~ended

(* Recording appends to the request's chain, or throws when the store is gone. *)
Recorded(chain, steps) == IF recording THEN chain \o steps ELSE chain

-----------------------------------------------------------------------------
(* The session around the broker.                                          *)

(* The page presents a pairing code: any earlier grant is replaced. *)
Pair ==
  /\ ~ended
  /\ live
  /\ grants < MaxGrants
  /\ grants' = grants + 1
  /\ grant' = grants + 1
  /\ UNCHANGED <<req, command, screen, pi, spent, live, run, closing, ended, recording>>

(* The grant's hour passes. *)
GrantExpires ==
  /\ "grant expires" \in Faults
  /\ grant # 0
  /\ grant' = 0
  /\ UNCHANGED <<req, command, screen, pi, spent, grants, live, run, closing, ended, recording>>

RunChanges ==
  /\ live
  /\ run' = ~run
  /\ UNCHANGED <<req, command, screen, pi, spent, grant, grants, live, closing, ended, recording>>

(* Pi exits or is lost; its open run is interrupted. *)
PiExits ==
  /\ "pi exits" \in Faults
  /\ live
  /\ live' = FALSE
  /\ run' = FALSE
  /\ UNCHANGED <<req, command, screen, pi, spent, grant, grants, closing, ended, recording>>

(* An append fails: the store is dead and every later record throws. *)
StoreFails ==
  /\ "store fails" \in Faults
  /\ recording
  /\ recording' = FALSE
  /\ UNCHANGED <<req, command, screen, pi, spent, grant, grants, live, run, closing, ended>>

(* The broker aborts its one prompt, and every awaiting intervention; an   *)
(* abort that comes after the answer was acted on is of no consequence.    *)
Aborting ==
  [r \in Requests |->
     IF Awaiting(r) THEN [req[r] EXCEPT !.aborted = TRUE] ELSE req[r]]

(* The desk's final finish begins: beginClose. *)
BeginClose ==
  /\ "close" \in Faults
  /\ ~closing
  /\ closing' = TRUE
  /\ req' = Aborting
  /\ UNCHANGED <<command, screen, pi, spent, grant, grants, live, run, ended, recording>>

(* endSession (Pi is gone, seen at its exit or at the next request) and    *)
(* dispose (the host stops, after a finish or because something failed):   *)
(* the grant is revoked with them.                                         *)
End ==
  /\ "end" \in Faults
  /\ ~ended
  /\ ended' = TRUE
  /\ grant' = 0
  /\ req' = Aborting
  /\ UNCHANGED <<command, screen, pi, spent, grants, live, run, closing, recording>>

(* Another process writes the one authorisation of an attempt. *)
SpentElsewhere(a) ==
  /\ "spent elsewhere" \in Faults
  /\ spent[a] = None
  /\ spent' = [spent EXCEPT ![a] = Elsewhere]
  /\ UNCHANGED <<req, command, screen, pi, session>>

-----------------------------------------------------------------------------
(* Requests.                                                               *)

PromptInFlight == command # None /\ req[command].state \in {"awaiting", "dispatching"}

PromptOffered ==
  /\ ~ended /\ live /\ ~closing /\ ~run
  /\ ~PromptInFlight
  /\ ~ \E r \in Requests : req[r].kind \in Interventions /\ Awaiting(r)

(* A prompt from the page, or a prepared attempt from the page or typed on *)
(* the terminal (grant 0).  The proposal is recorded, then asked.          *)
Propose(r, a, g) ==
  /\ req[r].kind = "none"
  /\ PromptOffered
  /\ recording
  /\ \/ Granted(g)
     \/ g = 0 /\ a # None
  /\ a # None => spent[a] = None
  /\ req' = [req EXCEPT ![r] = [Fresh EXCEPT !.kind = "prompt", !.attempt = a, !.grant = g,
               !.state = "awaiting", !.question = "asked", !.chain = <<"proposed">>]]
  /\ command' = r
  /\ screen' = Append(screen, r)
  /\ UNCHANGED <<pi, spent, session>>

(* The steer or queue whose approval a new one must wait for, and a stop supersedes. *)
AwaitingChange(r) == req[r].kind \in {"steer", "queue"} /\ Awaiting(r) /\ ~req[r].superseded

StopInFlight == \E r \in Requests : req[r].kind = "stop" /\ req[r].state \in {"awaiting", "dispatching"}

InterventionOffered(op) ==
  /\ ~ended /\ live /\ ~closing /\ run
  /\ ~StopInFlight
  /\ ~(command # None /\ Awaiting(command))
  /\ op # "stop" => \A r \in Requests : ~AwaitingChange(r)

(* A steer, a queue, or a stop with nothing to supersede: asked at once. *)
Intervene(r, op) ==
  /\ req[r].kind = "none"
  /\ Granted(grant)
  /\ InterventionOffered(op)
  /\ recording
  /\ \A v \in Requests : ~AwaitingChange(v)
  /\ req' = [req EXCEPT ![r] = [Fresh EXCEPT !.kind = op, !.grant = grant, !.state = "awaiting",
               !.question = "asked", !.chain = <<"proposed">>]]
  /\ screen' = Append(screen, r)
  /\ UNCHANGED <<command, pi, spent, session>>

(* Mutant: the stop asks at once, beside the question it superseded. *)
StopAsksBeside(r, v) ==
  /\ req[r].kind = "none" /\ Granted(grant) /\ InterventionOffered("stop") /\ recording
  /\ AwaitingChange(v)
  /\ req' = [req EXCEPT
       ![r] = [Fresh EXCEPT !.kind = "stop", !.grant = grant, !.state = "awaiting",
                 !.question = "asked", !.victim = v, !.chain = <<"proposed">>],
       ![v].superseded = TRUE,
       ![v].aborted = TRUE]
  /\ screen' = Append(screen, r)
  /\ UNCHANGED <<command, pi, spent, session>>

(* A stop while a steer or queue awaits approval: that one is superseded,  *)
(* its question aborted, and the stop waits for it to settle before asking.*)
StopSupersedes(r, v) ==
  /\ req[r].kind = "none"
  /\ Granted(grant)
  /\ InterventionOffered("stop")
  /\ recording
  /\ AwaitingChange(v)
  /\ req' = [req EXCEPT
       ![r] = [Fresh EXCEPT !.kind = "stop", !.grant = grant, !.state = "awaiting",
                 !.question = "waiting", !.victim = v, !.chain = <<"proposed">>],
       ![v].superseded = TRUE,
       ![v].aborted = TRUE]
  /\ UNCHANGED <<command, screen, pi, spent, session>>

(* The superseded request has settled: the stop asks, unless it was        *)
(* withdrawn or the session closes.                                        *)
StopAsks(r) ==
  /\ req[r].question = "waiting"
  /\ ~Awaiting(req[r].victim)
  /\ IF ~req[r].aborted /\ ~closing /\ ~ended
     THEN /\ req' = [req EXCEPT ![r].question = "asked"]
          /\ screen' = Append(screen, r)
     ELSE /\ req' = [req EXCEPT ![r].question = "null"]
          /\ UNCHANGED screen
  /\ UNCHANGED <<command, pi, spent, session>>

(* The page withdraws a request that still awaits its approval. *)
Discard(r) ==
  /\ Granted(grant) /\ live
  /\ Awaiting(r)
  /\ IsPrompt(r) => r = command
  /\ req' = [req EXCEPT ![r].aborted = TRUE]
  /\ UNCHANGED <<command, screen, pi, spent, session>>

(* The approval window of a request passes. *)
WindowPasses(r) ==
  /\ req[r].state \in {"awaiting"}
  /\ ~req[r].late
  /\ req' = [req EXCEPT ![r].late = TRUE]
  /\ UNCHANGED <<command, screen, pi, spent, session>>

-----------------------------------------------------------------------------
(* The terminal.                                                           *)

Answered(r, answer) ==
  /\ screen # << >> /\ r = Head(screen)
  /\ req' = [req EXCEPT ![r].question = answer]
  /\ screen' = Tail(screen)
  /\ UNCHANGED <<command, pi, spent, session>>

(* The operator types the exact phrase of the question shown, or any other line. *)
Type(r) ==
  /\ ~req[r].aborted
  /\ \E answer \in {"allow", "deny"} : Answered(r, answer)

(* Mutant: the approval window never ends a question. *)
CancelledByAbortOnly(r) == req[r].aborted /\ Answered(r, "null")

(* The question is aborted, or its time is over. *)
Cancelled(r) ==
  /\ req[r].aborted \/ req[r].late
  /\ Answered(r, "null")

-----------------------------------------------------------------------------
(* From the answer to the send: one turn of the event loop.                *)

Decided(r) == Awaiting(r) /\ req[r].question \in Answers

(* Past its approval a request no longer has a question, a window or an abort. *)
Past(q, state, chain) ==
  [q EXCEPT !.state = state, !.question = "none", !.late = FALSE, !.aborted = FALSE,
            !.victim = None, !.chain = chain]

Settle(r, steps) ==
  /\ req' = [req EXCEPT ![r] = Past(@, "refused", Recorded(@.chain, steps))]
  /\ UNCHANGED <<command, screen, pi, spent, session>>

(* Mutant: an approval typed as the request was superseded is acted on. *)
LateAnswerCounts(r) == closing \/ ended \/ req[r].question = "null" \/ ~recording

(* Nothing was approved: the request was superseded, the session is        *)
(* closing, no answer came, or the answer cannot be recorded.              *)
NotDecided(r) ==
  \/ req[r].superseded
  \/ closing \/ ended
  \/ req[r].question = "null"
  \/ ~recording

NotApproved(r) ==
  /\ Decided(r)
  /\ NotDecided(r)
  /\ Settle(r, <<"refused">>)

Denied(r) ==
  /\ Decided(r)
  /\ ~NotDecided(r)
  /\ req[r].question = "deny"
  /\ Settle(r, <<"deny", "refused">>)

(* Mutant: what held when the request was made is not checked again. *)
GateAtProposal(r) == ~req[r].late /\ live /\ (IsPrompt(r) <=> ~run)

(* The gate at the moment of sending.  A prompt needs an idle session and  *)
(* its page's grant, if a page asked; an intervention an open run.         *)
GateOpen(r) ==
  /\ ~req[r].late
  /\ live
  /\ req[r].grant # 0 \/ ~IsPrompt(r) => Granted(req[r].grant)
  /\ IsPrompt(r) <=> ~run

Approved(r) == Decided(r) /\ ~NotDecided(r) /\ req[r].question = "allow"

GateRefuses(r) ==
  /\ Approved(r)
  /\ ~GateOpen(r)
  /\ Settle(r, <<"allow", "refused">>)

(* The attempt cannot be bound: it is spent, it changed while it was read, *)
(* or its authorisation could not be written.                              *)
AttemptRefused(r) ==
  /\ Approved(r)
  /\ GateOpen(r)
  /\ req[r].attempt # None
  /\ Settle(r, <<"allow", "refused">>)

(* Mutants of the send: the attempt's own record is not what decides, and  *)
(* the dispatch is recorded only with Pi's reply.                          *)
SendAs(r, binding, steps) ==
  /\ Approved(r) /\ GateOpen(r)
  /\ binding
  /\ req' = [req EXCEPT ![r] = Past(@, "dispatching", @.chain \o steps)]
  /\ pi' = pi \union {r}
  /\ UNCHANGED <<command, screen, session>>
SendCheckedAtRequest(r) == SendAs(r, UNCHANGED spent, <<"allow", "dispatched">>)
SendUnrecorded(r) ==
  SendAs(r, req[r].attempt = None /\ UNCHANGED spent, <<"allow">>)

(* The authorisation of the attempt is written, once. *)
Bind(r) ==
  IF req[r].attempt = None THEN UNCHANGED spent
  ELSE /\ spent[req[r].attempt] = None
       /\ spent' = [spent EXCEPT ![req[r].attempt] = r]

(* The store dies on the dispatch record: nothing is written, and an       *)
(* attempt stays bound to a request that was never sent.                   *)
DispatchUnrecorded(r) ==
  /\ "store fails" \in Faults
  /\ Approved(r)
  /\ GateOpen(r)
  /\ Bind(r)
  /\ recording' = FALSE
  /\ req' = [req EXCEPT ![r] = Past(@, "refused", @.chain \o <<"allow">>)]
  /\ UNCHANGED <<command, screen, pi, grant, grants, live, run, closing, ended>>

(* The authorisation is recorded, an attempt is bound, the dispatch (for   *)
(* an intervention, the request) is recorded, and the bytes are written.   *)
Send(r) ==
  /\ Approved(r)
  /\ GateOpen(r)
  /\ Bind(r)
  /\ req' = [req EXCEPT ![r] = Past(@, "dispatching", @.chain \o <<"allow", "dispatched">>)]
  /\ pi' = pi \union {r}
  /\ UNCHANGED <<command, screen, session>>

-----------------------------------------------------------------------------
(* Pi's reply.                                                             *)

Outcome(r, reply, state, steps) ==
  /\ req[r].state = "dispatching"
  /\ req' = [req EXCEPT ![r].state = state, ![r].reply = reply, ![r].chain = Recorded(@, steps)]
  /\ UNCHANGED <<command, screen, pi, spent, session>>

(* Pi accepts.  Accepting is itself recorded, so with the store gone the   *)
(* outcome is unknown.                                                     *)
Accepted(r) ==
  /\ live
  /\ Outcome(r, "ok", IF recording THEN "accepted" ELSE "unknown", <<"accepted">>)

OddReplyAsState(r) ==   \* mutant: the unknown disposition becomes the state
  IsPrompt(r) /\ live /\ Outcome(r, "odd", "odd", << >>)

(* A disposition this version does not know. *)
OddReply(r) ==
  /\ IsPrompt(r)
  /\ live
  /\ Outcome(r, "odd", "unknown", << >>)

(* Pi refuses.  An intervention's refusal passes through records that      *)
(* throw when the store is gone, and is then unknown.                      *)
DeclinedByPi(r) ==
  /\ live
  /\ Outcome(r, "declined", IF recording \/ IsPrompt(r) THEN "refused" ELSE "unknown", <<"refused">>)

LostIsRefused(r) ==   \* mutant: no reply is reported as not sent
  Outcome(r, "lost", "refused", <<"refused">>)

(* The reply never comes: a timeout, a lost connection, a protocol fault.  *)
(* A prompt records nothing more; an intervention records the failure.     *)
LostReply(r) ==
  Outcome(r, "lost", "unknown", IF IsPrompt(r) THEN << >> ELSE <<"refused">>)

-----------------------------------------------------------------------------
Page ==
  \/ Pair \/ GrantExpires
  \/ \E r \in Requests :
       \/ \E a \in Attempts \union {None}, g \in {0, grant} : Propose(r, a, g)
       \/ \E op \in Interventions : Intervene(r, op)
       \/ \E v \in Requests : StopSupersedes(r, v)
       \/ Discard(r)

Process ==
  \/ RunChanges \/ PiExits \/ StoreFails \/ BeginClose \/ End
  \/ \E a \in Attempts : SpentElsewhere(a)
  \/ \E r \in Requests : WindowPasses(r)

Terminal == \E r \in Requests : Type(r) \/ Cancelled(r)

Continue(r) ==
  StopAsks(r) \/ NotApproved(r) \/ Denied(r) \/ GateRefuses(r) \/ AttemptRefused(r)
  \/ DispatchUnrecorded(r) \/ Send(r)

Reply(r) == Accepted(r) \/ OddReply(r) \/ DeclinedByPi(r) \/ LostReply(r)

Next ==
  \/ Page
  \/ Process
  \/ Terminal
  \/ \E r \in Requests : Continue(r) \/ Reply(r)

Spec == Init /\ [][Next]_vars

(* The approval timer fires, an aborted question is released, and a        *)
(* resolved promise runs on.  Nobody has to ask, type or answer.           *)
Fairness ==
  \A r \in Requests :
    /\ WF_vars(WindowPasses(r))
    /\ WF_vars(Cancelled(r))
    /\ WF_vars(Continue(r))

FairSpec == Spec /\ Fairness
-----------------------------------------------------------------------------
(* Properties.                                                             *)

TypeOK ==
  /\ req \in [Requests -> Request]
  /\ command \in Requests \union {None}
  /\ screen \in Seq(Requests)
  /\ pi \subseteq Requests
  /\ spent \in [Attempts -> Requests \union {None, Elsewhere}]
  /\ grant \in 0 .. MaxGrants
  /\ grants \in 0 .. MaxGrants
  /\ {live, run, closing, ended, recording} \subseteq BOOLEAN

(* The terminal has one question at a time (workbench-interventions.ts:614,*)
(* cli/workbench.ts:100): across prompts, attempts, steers, queues and a   *)
(* stop that superseded one, the broker never has two approver calls open. *)
OneQuestion == Len(screen) <= 1

(* A stop's question is only asked once the request it superseded is       *)
(* settled, unsent, with its refusal on record; and a request it           *)
(* superseded is never approved, whatever the terminal answered for it.    *)
SupersededIsCancelled ==
  \A r \in Requests :
    /\ req[r].superseded => r \notin pi /\ \A i \in DOMAIN req[r].chain : req[r].chain[i] # "allow"
    /\ req[r].victim # None /\ req[r].question \in {"asked", "allow", "deny"} =>
         req[req[r].victim].state = "refused"

(* The terminal asks one question at a time, and none for what a stop      *)
(* superseded.                                                             *)
QuestionsInTurn == OneQuestion /\ SupersededIsCancelled

(* What the page is told is what happened: refused means that nothing was  *)
(* written or that Pi itself declined it, accepted that Pi said so, and    *)
(* anything written without an answer is unknown, never refused.           *)
ViewsAreTruthful ==
  \A r \in Requests :
    /\ req[r].state = "refused" => r \notin pi \/ req[r].reply = "declined"
    /\ req[r].state = "accepted" => r \in pi /\ req[r].reply = "ok"
    /\ req[r].state = "unknown" => r \in pi

(* Whatever was written to Pi was proposed, then approved on the terminal, *)
(* then recorded as sent, in that order and once each, before anything     *)
(* else of it was recorded.                                                *)
SentIsOnRecord ==
  \A r \in pi :
    /\ Len(req[r].chain) \in 3 .. 4
    /\ req[r].chain[1] = "proposed" /\ req[r].chain[2] = "allow" /\ req[r].chain[3] = "dispatched"

(* An attempt is sent at most once, over every request made for it here    *)
(* and every other process, and only after its authorisation was written   *)
(* for that very request.                                                  *)
AttemptSentOnce ==
  \A r \in pi : req[r].attempt # None => spent[req[r].attempt] = r

(* Nothing is written once the session is closing, the broker has ended,   *)
(* Pi is gone or the page that asked lost its grant; a prompt is never     *)
(* written while a run is open or while another prompt's reply is awaited, *)
(* and an intervention never without a run.                                *)
SendsAreGated ==
  [][\A r \in pi' \ pi :
       /\ live /\ ~closing /\ ~ended
       /\ req[r].grant \in {0, grant}
       /\ IF IsPrompt(r)
          THEN ~run /\ \A q \in Requests \ {r} : IsPrompt(q) => req[q].state # "dispatching"
          ELSE run /\ req[r].grant # 0]_vars

(* Every request leaves the approval slot: answered, timed out, withdrawn, *)
(* superseded or closed, it never holds the terminal for ever.             *)
ApprovalsSettle == \A r \in Requests : Awaiting(r) ~> ~Awaiting(r)
=============================================================================
