---------------------------------- MODULE Desk ----------------------------------
(***************************************************************************)
(* The intervention desk of an attached session                            *)
(* (adapters/pi/intervention.ts), the control socket that drives it        *)
(* (cli/control.ts), the workbench page that drives it beside the socket   *)
(* (adapters/pi/workbench-interventions.ts) and the host that closes the   *)
(* session (cli/harness.ts).  The store outlives the process: a later      *)
(* process folds the recorded chains back into the desk's memory.          *)
(*                                                                         *)
(* An action is one turn of the event loop.  Messages of the socket are    *)
(* started one at a time, so a message is handled when it starts; only     *)
(* `finish` and `close` hold the ones behind them.  The Pi session, the    *)
(* capability evidence and the stored messages stay as proposed.           *)
(***************************************************************************)
EXTENDS Naturals

CONSTANTS
  Proposals,  \* proposals, by digest
  Auths,      \* authorizations
  None,       \* no proposal, no authorization
  MaxOpens,   \* bound: processes that attach, one after the other
  Faults      \* bound: which of AllFaults happen in the instance

ASSUME OpensAssumption == MaxOpens \in Nat \ {0}
ASSUME NoneAssumption == None \notin Proposals \union Auths

AllFaults == {"crash", "pi exits", "store fails", "authorization ages"}

VARIABLES
  chain,      \* chain[p]: what the store holds of proposal p
  auth,       \* auth[x]: the authorization x as recorded, and whether it is too old to act on
  written,    \* written[p]: how many times p was written to Pi
  flight,     \* the requests whose apply awaits Pi
  view,       \* view[p]: what the page says of p, in this process
  control,    \* the socket's message that holds the queue, and the applies it waits for
  host,       \* the host's final finish, and the applies it waits for
  phase,      \* how far the process is in closing the session
  live,       \* Pi runs and the attachment is open
  run,        \* a run is open
  recording,  \* the store takes records
  opens       \* how many processes have attached

store == <<chain, auth>>
memory == <<flight, view, control, host, phase>>
session == <<live, run, recording, opens>>
vars == <<store, written, memory, session>>

Outcomes == {"accepted", "declined", "failed"}
Consequences == Outcomes \union {"none", "pending"}
Views == {"none", "awaiting", "sent", "joined", "accepted", "refused", "unknown"}
Phases == {"open", "asked", "finishing", "stopping", "closing", "closed", "crashed"}

Chain == [proposed : BOOLEAN, request : Auths \union {None}, outcome : Outcomes \union {"none"},
          consequence : Consequences, consequences : 0 .. 2, due : BOOLEAN]
Auth == [of : Proposals \union {None}, allow : BOOLEAN, old : BOOLEAN]
Wait == [kind : {"none", "finish", "close"}, applies : SUBSET Proposals]

Idle == [kind |-> "none", applies |-> {}]

Init ==
  /\ chain = [p \in Proposals |-> [proposed |-> FALSE, request |-> None, outcome |-> "none",
                consequence |-> "none", consequences |-> 0, due |-> FALSE]]
  /\ auth = [x \in Auths |-> [of |-> None, allow |-> FALSE, old |-> FALSE]]
  /\ written = [p \in Proposals |-> 0]
  /\ phase = "open"
  /\ flight = {}
  /\ view = [p \in Proposals |-> "none"]
  /\ control = Idle
  /\ host = Idle
  /\ live = TRUE
  /\ run \in BOOLEAN
  /\ recording = TRUE
  /\ opens = 1

Running == phase \notin {"closed", "crashed"}

(* The socket starts its next message: none before it is still being handled. *)
Serving == phase \in {"open", "asked", "finishing", "stopping"} /\ control.kind = "none"

(* The page's requests are taken until a final finish begins. *)
PageServed == phase = "open" /\ control.kind # "close"

-----------------------------------------------------------------------------
(* Proposing and authorizing.                                              *)

Proposed(p) ==
  /\ recording
  /\ ~chain[p].proposed
  /\ chain' = [chain EXCEPT ![p].proposed = TRUE]

Propose(p) ==
  /\ Serving
  /\ Proposed(p)
  /\ UNCHANGED <<auth, written, memory, session>>

PageProposes(p) ==
  /\ PageServed
  /\ live /\ run
  /\ Proposed(p)
  /\ view' = [view EXCEPT ![p] = "awaiting"]
  /\ UNCHANGED <<auth, written, flight, control, host, phase, session>>

Authorized(p, x, allow) ==
  /\ recording
  /\ chain[p].proposed
  /\ auth[x].of = None
  /\ auth' = [auth EXCEPT ![x] = [of |-> p, allow |-> allow, old |-> FALSE]]

(* The client confirms the digest, or another one: a decision either way. *)
Authorize(p, x, allow) ==
  /\ Serving
  /\ Authorized(p, x, allow)
  /\ UNCHANGED <<chain, written, memory, session>>

Ages(x) ==
  /\ "authorization ages" \in Faults
  /\ auth[x].of # None /\ ~auth[x].old
  /\ auth' = [auth EXCEPT ![x].old = TRUE]
  /\ UNCHANGED <<chain, written, memory, session>>

-----------------------------------------------------------------------------
(* Applying.                                                               *)

(* Mutant: only the applies of this process are known. *)
SentHere(p) == p \in flight

(* A recorded request makes every later apply a duplicate. *)
Sent(p) == chain[p].request # None

(* Mutant: a decision does not age. *)
StandingPermission(a, p) == a.of = p /\ a.allow /\ live /\ run

(* The gate: the decision allows this proposal and is recent, and Pi runs. *)
Gate(a, p) == a.of = p /\ a.allow /\ ~a.old /\ live /\ run

(* The request is recorded, then written to Pi. *)
Sends(p, x) ==
  /\ chain' = [chain EXCEPT ![p].request = x]
  /\ written' = [written EXCEPT ![p] = @ + 1]
  /\ flight' = flight \union {p}

Apply(p, x) ==
  /\ Serving
  /\ chain[p].proposed
  /\ recording
  /\ ~Sent(p)
  /\ Gate(auth[x], p)
  /\ Sends(p, x)
  /\ UNCHANGED <<auth, view, control, host, phase, session>>

(* The append of the request fails: nothing is written, the store is dead, *)
(* and the record may all the same be found by the next process.           *)
RequestNotRecorded(p, x) ==
  /\ "store fails" \in Faults
  /\ Serving
  /\ chain[p].proposed
  /\ recording
  /\ ~Sent(p)
  /\ Gate(auth[x], p)
  /\ recording' = FALSE
  /\ chain' \in {chain, [chain EXCEPT ![p].request = x]}
  /\ UNCHANGED <<auth, written, memory, live, run, opens>>

(* What the page says of a request another apply sent. *)
Known(outcome) ==
  CASE outcome = "accepted" -> "accepted"
    [] outcome \in {"declined", "failed"} -> "refused"
    [] outcome = "none" -> "unknown"

(* The operator approves the page's request on the terminal: the decision  *)
(* and the apply are one turn.                                             *)
PageApplies(p, x) ==
  /\ PageServed
  /\ view[p] = "awaiting"
  /\ Authorized(p, x, TRUE)
  /\ \/ /\ ~Sent(p) /\ Gate(auth'[x], p)
        /\ Sends(p, x)
        /\ view' = [view EXCEPT ![p] = "sent"]
     \/ /\ ~Sent(p) /\ ~Gate(auth'[x], p)
        /\ view' = [view EXCEPT ![p] = "refused"]
        /\ UNCHANGED <<chain, written, flight>>
     \/ /\ Sent(p)
        /\ view' = [view EXCEPT ![p] = IF p \in flight THEN "joined" ELSE Known(chain[p].outcome)]
        /\ UNCHANGED <<chain, written, flight>>
  /\ UNCHANGED <<control, host, phase, session>>

(* Declined, withdrawn, expired or unanswered; the desk records that it is *)
(* not sent unless its request is already recorded.                        *)
PageRefuses(p) ==
  /\ phase \in {"open", "asked", "finishing", "stopping"}
  /\ view[p] = "awaiting"
  /\ view' = [view EXCEPT ![p] = "refused"]
  /\ UNCHANGED <<store, written, flight, control, host, phase, session>>

(* Pi replies, or refuses, or the wait fails: time is over or Pi is gone.  *)
(* Whether or not it can be recorded, the apply is no longer in flight.    *)
Reply(p, outcome) ==
  /\ Running
  /\ p \in flight
  /\ outcome # "failed" => live
  /\ flight' = flight \ {p}
  /\ chain' = IF recording THEN [chain EXCEPT ![p].outcome = outcome] ELSE chain
  /\ view' = [view EXCEPT ![p] =
       CASE @ = "sent" /\ (~recording \/ outcome = "failed") -> "unknown"
         [] @ = "sent" -> IF outcome = "accepted" THEN "accepted" ELSE "refused"
         [] @ = "joined" -> IF recording THEN Known(outcome) ELSE "unknown"
         [] OTHER -> @]
  /\ UNCHANGED <<auth, written, control, host, phase, session>>

-----------------------------------------------------------------------------
(* Finishing.                                                              *)

(* A `finish` or `close` message: the applies in flight now are waited for. *)
ControlFinish(kind) ==
  /\ Serving
  /\ control' = [kind |-> kind, applies |-> flight]
  /\ UNCHANGED <<store, written, flight, view, host, phase, session>>

(* `close` was answered, or a signal came. *)
HostFinish ==
  /\ phase \in {"open", "asked"}
  /\ phase' = "finishing"
  /\ host' = [kind |-> "close", applies |-> flight]
  /\ chain' = [p \in Proposals |-> [chain[p] EXCEPT !.due = Sent(p)]]
  /\ UNCHANGED <<auth, written, flight, view, control, session>>

Settled(w) == w.kind # "none" /\ w.applies \intersect flight = {}

(* Mutant: what is to be recorded is decided before the wait. *)
DecidedBeforeWait(p) == Sent(p)

(* A request without a consequence yet. *)
Open(p) == Sent(p) /\ chain[p].consequence = "none"

(* Mutant: a request Pi has not answered is left for later. *)
AnsweredOnly(c) == IF c.outcome = "none" THEN "none" ELSE c.outcome

Acceptance(c) == IF c.outcome = "none" THEN "pending" ELSE c.outcome

(* The consequence of every request without one, in one turn. *)
Concluded(ps) ==
  [p \in Proposals |->
     IF p \in ps /\ Open(p)
     THEN [chain[p] EXCEPT !.consequence = Acceptance(chain[p]), !.consequences = @ + 1]
     ELSE chain[p]]

(* The finish of the socket's message ends.  Only a finish that recorded   *)
(* everything asks the host to close.                                      *)
ControlConcludes ==
  /\ Running
  /\ control.kind # "none"
  /\ chain' = IF recording THEN Concluded(Proposals) ELSE chain
  /\ control' = Idle
  /\ phase' = IF control.kind = "close" /\ phase = "open" /\ (recording \/ \A p \in Proposals : ~Open(p))
              THEN "asked" ELSE phase
  /\ UNCHANGED <<auth, written, flight, view, host, session>>

ControlSettled == Settled(control) /\ ControlConcludes

(* The wait's timer fires first. *)
ControlTimesOut == ~Settled(control) /\ ControlConcludes

HostConcludes ==
  /\ phase = "finishing"
  /\ chain' = IF recording THEN Concluded(Proposals) ELSE chain
  /\ host' = Idle
  /\ phase' = "stopping"
  /\ UNCHANGED <<auth, written, flight, view, control, session>>

HostSettled == Settled(host) /\ HostConcludes

(* Mutant: the wait has no timer. *)
NeverTimesOut == Settled(host) /\ HostConcludes

HostTimesOut == ~Settled(host) /\ HostConcludes

(* The store dies in the middle of the records of a finish. *)
FinishNotRecorded(ps) ==
  /\ "store fails" \in Faults
  /\ recording
  /\ \E p \in Proposals \ ps : Open(p)
  /\ recording' = FALSE
  /\ chain' = Concluded(ps)
  /\ \/ /\ Running
        /\ control.kind # "none"
        /\ control' = Idle
        /\ UNCHANGED <<host, phase>>
     \/ /\ phase = "finishing"
        /\ host' = Idle
        /\ phase' = "stopping"
        /\ UNCHANGED control
  /\ UNCHANGED <<auth, written, flight, view, live, run, opens>>

(* The server has answered what was queued and its connections are gone:   *)
(* the session closes, and Pi is ended.                                    *)
SessionCloses ==
  /\ phase = "stopping"
  /\ control.kind = "none"
  /\ phase' = "closing"
  /\ live' = FALSE
  /\ UNCHANGED <<store, written, flight, view, control, host, run, recording, opens>>

(* The process ends, and with it what only its memory held. *)
Ends(how) ==
  /\ phase' = how
  /\ flight' = {}
  /\ view' = [p \in Proposals |-> "none"]
  /\ control' = Idle
  /\ host' = Idle
  /\ live' = FALSE
  /\ run' = FALSE
  /\ UNCHANGED <<store, written, recording, opens>>

(* The store closes; a reply that comes now is not recorded. *)
StoreCloses ==
  /\ phase = "closing"
  /\ Ends("closed")

-----------------------------------------------------------------------------
(* Around the desk.                                                        *)

Crash ==
  /\ "crash" \in Faults
  /\ Running
  /\ Ends("crashed")

(* A line that is not JSON is recorded, in a record of no proposal, and    *)
(* answered.  With a dead store the record throws inside the queue, which  *)
(* nothing catches: the rejection ends the process.                        *)
Malformed ==
  /\ Serving
  /\ IF recording THEN UNCHANGED vars ELSE Ends("crashed")

StoreFails ==
  /\ "store fails" \in Faults
  /\ Running
  /\ recording
  /\ recording' = FALSE
  /\ UNCHANGED <<store, written, memory, live, run, opens>>

PiExits ==
  /\ "pi exits" \in Faults
  /\ Running
  /\ live
  /\ live' = FALSE
  /\ run' = FALSE
  /\ UNCHANGED <<store, written, memory, recording, opens>>

RunChanges ==
  /\ Running
  /\ live
  /\ run' = ~run
  /\ UNCHANGED <<store, written, memory, live, recording, opens>>

(* A later process attaches: the desk is rebuilt from the store. *)
Reattach ==
  /\ ~Running
  /\ opens < MaxOpens
  /\ opens' = opens + 1
  /\ phase' = "open"
  /\ flight' = {}
  /\ view' = [p \in Proposals |-> "none"]
  /\ control' = Idle
  /\ host' = Idle
  /\ chain' = [p \in Proposals |-> [chain[p] EXCEPT !.due = FALSE]]
  /\ live' = TRUE
  /\ run' = FALSE
  /\ recording' = TRUE
  /\ UNCHANGED <<auth, written>>

Next ==
  \/ \E p \in Proposals : Propose(p) \/ PageProposes(p) \/ PageRefuses(p)
  \/ \E p \in Proposals, x \in Auths :
       \/ \E allow \in BOOLEAN : Authorize(p, x, allow)
       \/ Apply(p, x) \/ RequestNotRecorded(p, x) \/ PageApplies(p, x)
  \/ \E x \in Auths : Ages(x)
  \/ \E p \in Proposals, outcome \in Outcomes : Reply(p, outcome)
  \/ \E kind \in {"finish", "close"} : ControlFinish(kind)
  \/ ControlSettled \/ ControlTimesOut
  \/ HostFinish \/ HostSettled \/ HostTimesOut
  \/ \E ps \in SUBSET Proposals : FinishNotRecorded(ps)
  \/ SessionCloses \/ StoreCloses
  \/ Crash \/ Malformed \/ StoreFails \/ PiExits \/ RunChanges \/ Reattach

Spec == Init /\ [][Next]_vars

(* The timers of a finish fire and the closing code runs to its end.  The  *)
(* connections that are left when the server stops listening carry a line  *)
(* each, and end when it is answered or after the client's own time limit. *)
FairSpec ==
  /\ Spec
  /\ WF_vars(ControlSettled \/ ControlTimesOut)
  /\ WF_vars(HostSettled \/ HostTimesOut)
  /\ SF_vars(SessionCloses)
  /\ WF_vars(StoreCloses)

-----------------------------------------------------------------------------
(* Types of the state. *)
TypeOK ==
  /\ chain \in [Proposals -> Chain]
  /\ auth \in [Auths -> Auth]
  /\ written \in [Proposals -> 0 .. 2]
  /\ flight \subseteq Proposals
  /\ view \in [Proposals -> Views]
  /\ control \in Wait /\ host \in Wait
  /\ phase \in Phases
  /\ live \in BOOLEAN /\ run \in BOOLEAN /\ recording \in BOOLEAN
  /\ opens \in 1 .. MaxOpens

(* A proposal reaches Pi at most once, however many clients, drivers and   *)
(* processes apply it, and whatever was recorded before a crash.           *)
WrittenOnce == \A p \in Proposals : written[p] <= 1

(* What is written was allowed: the request on record names a decision for *)
(* this proposal, and that decision was still recent when Pi was written.  *)
WrittenOnAllow ==
  [][\A p \in Proposals : written'[p] # written[p] =>
       /\ live /\ run
       /\ \E x \in Auths : /\ chain'[p].request = x
                           /\ auth'[x] = [of |-> p, allow |-> TRUE, old |-> FALSE]]_vars

(* A request has one consequence, though a finish of the socket and the    *)
(* host's wait side by side and each process finishes again; it repeats    *)
(* the outcome on record, and only one still pending may be outrun.        *)
OneConsequence ==
  \A p \in Proposals :
    /\ chain[p].consequences <= 1
    /\ chain[p].consequence \in Outcomes => chain[p].consequence = chain[p].outcome
    /\ chain[p].consequence # "none" => Sent(p)

(* Every request on record when the host begins to finish has its          *)
(* consequence when the session has closed, if the store lived.            *)
FinishCoversWhatWasSent ==
  phase = "closed" /\ recording => \A p \in Proposals : chain[p].due => ~Open(p)

(* A session that is asked to close does so, or its process dies. *)
CloseEnds == phase = "finishing" ~> phase \in {"closed", "crashed"}

-----------------------------------------------------------------------------
(* What a comment of the code says and the code does not do.               *)

(* "For every request: ... the consequence, once", before the session      *)
(* closes.                                                                 *)
EveryRequestConcluded ==
  phase = "closed" /\ recording => \A p \in Proposals : ~Open(p)
===============================================================================
