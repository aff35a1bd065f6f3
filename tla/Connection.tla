------------------------------- MODULE Connection -------------------------------
(***************************************************************************)
(* One line connection (adapters/rpc-jsonl/rpc-connection.ts): the child's *)
(* only writer, which correlates its answers by the ids it assigns and     *)
(* ends it within bounded time.                                            *)
(*                                                                         *)
(* request() runs the caller's code while it copies the command (getters,  *)
(* toJSON) and the observers' code as it writes it, and either may call    *)
(* request() again.  `frames` is that call stack: while it is not empty,   *)
(* no event of the loop (a timer, an answer, an exit) is handled.          *)
(***************************************************************************)
EXTENDS ProcessGroup, Sequences, SequencesExt, FiniteSetsExt, TLC

CONSTANTS
  MaxBacklog,  \* maxInputBacklogBytes, in commands
  MaxUnsent    \* MAX_UNSENT_IDS

ASSUME CapsAssumption ==
  /\ MaxBacklog \in Nat \ {0} /\ MaxUnsent \in Nat \ {0}

VARIABLES
  nextId,      \* #nextId
  unsent,      \* #unsent: each id with those given back before it
  evicted,     \* ids the cap made it forget
  pending,     \* #pending: from an id to the call that waits for it
  req,         \* every call of request() so far: its id, how it stands, whose answer it got
  frames,      \* the synchronous call stack, innermost first
  notices,     \* #notices
  observed,    \* what the last of the observers was told, in order
  wrote,       \* the calls whose record was written, in order
  pipe,        \* records written and not yet taken by the child
  received,    \* records the child has taken
  said,        \* the answers the child wrote
  heard,       \* how many of them were decoded
  told,        \* what was reported about answers nobody waited for
  stdinFailed, stdoutOpen, limited,  \* #stdinFailed, #stdoutOpen, #outputLimitExceeded
  terminated,  \* "no", "drained" or "abandoned": how `terminated` was resolved
  closing,     \* close() was called
  escalate,    \* the timer of close(): "off", "term", "kill"
  reap         \* #reapGroup: "no", "due", "grace", "releasing", "done"

callVars == <<nextId, unsent, evicted, pending, req, frames, notices, observed, wrote>>
lineVars == <<pipe, received, said, heard, told>>
endVars  == <<stdinFailed, stdoutOpen, limited, terminated, closing, escalate, reap>>
vars     == <<groupVars, callVars, lineVars, endVars>>

Calls == 1..bound.calls   \* bound: calls of request()
Ids   == 1..bound.calls
Out   == Len(said) - heard

Outcomes == {"copied", "waiting", "answered", "mismatch", "refused", "input failed", "exited", "timed out"}

TypeOK ==
  /\ GroupTypeOK
  /\ nextId \in 0..bound.calls
  /\ DOMAIN unsent \subseteq Ids /\ (\A i \in DOMAIN unsent : unsent[i] \subseteq DOMAIN unsent) /\ evicted \subseteq Ids
  /\ DOMAIN pending \subseteq Ids /\ \A i \in DOMAIN pending : pending[i] \in DOMAIN req
  /\ req \in Seq([id : Ids, st : Outcomes, by : 0..bound.calls])
  /\ frames \in Seq([k : {"copy", "announce", "unsent", "failing"}, r : 0..bound.calls])
  /\ notices \in Seq([r : Calls, status : {"sent", "undelivered"}])
  /\ observed \in Seq([r : Calls, status : {"sent", "undelivered"}])
  /\ wrote \in Seq(Calls) /\ pipe \in Seq(Calls) /\ received \subseteq Calls
  /\ said \in Seq([id : Ids, by : 0..bound.calls, echo : BOOLEAN])
  /\ heard \in 0..Len(said)
  /\ told \subseteq [fault : {"stale", "unknown"}, sent : BOOLEAN]
  /\ stdinFailed \in BOOLEAN /\ stdoutOpen \in BOOLEAN /\ limited \in BOOLEAN
  /\ terminated \in {"no", "drained", "abandoned"}
  /\ closing \in BOOLEAN
  /\ escalate \in {"off", "term", "kill"}
  /\ reap \in {"no", "due", "grace", "releasing", "done"}

Init ==
  /\ GroupInit
  /\ nextId = 0 /\ unsent = <<>> /\ evicted = {} /\ pending = <<>> /\ req = <<>>
  /\ frames = <<>> /\ notices = <<>> /\ observed = <<>> /\ wrote = <<>>
  /\ pipe = <<>> /\ received = {} /\ said = <<>> /\ heard = 0 /\ told = {}
  /\ stdinFailed = FALSE /\ stdoutOpen = TRUE /\ limited = FALSE
  /\ terminated = "no" /\ closing = FALSE /\ escalate = "off" /\ reap = "no"

(***************************************************************************)
(* Calls, the ids they reserve, and the notices of what was written.       *)
(***************************************************************************)

Turn == owner /\ frames = <<>>
In(k) == owner /\ frames # <<>> /\ Head(frames).k = k
Frame(k, r) == [k |-> k, r |-> r]
Inner == Head(frames).r

\* A getter or toJSON of the command being copied, an observer of the notice being told, or plain code calls request().
Call ==
  /\ Turn \/ In("copy") \/ In("announce")
  /\ Len(req) < bound.calls
  /\ nextId' = nextId + 1
  /\ req' = Append(req, [id |-> nextId', st |-> "copied", by |-> 0])
  /\ frames' = <<Frame("copy", Len(req'))>> \o frames
  /\ UNCHANGED <<groupVars, unsent, evicted, pending, notices, observed, wrote, lineVars, endVars>>

Given(ids) == [i \in ids |-> unsent[i] \intersect ids]

\* #markUnsent: past the cap, the oldest is forgotten.
Remember(id) ==
  LET grown == IF id \in DOMAIN unsent THEN unsent
               ELSE [i \in DOMAIN unsent \union {id} |-> IF i = id THEN DOMAIN unsent ELSE unsent[i]]
  IN IF Cardinality(DOMAIN grown) > MaxUnsent
     THEN \E oldest \in DOMAIN grown :
            /\ grown[oldest] = {}
            /\ unsent' = [i \in DOMAIN grown \ {oldest} |-> grown[i] \ {oldest}]
            /\ evicted' = evicted \union {oldest}
     ELSE unsent' = grown /\ UNCHANGED evicted

\* Mutant of Release: the counter goes back by one whichever id is given back.
ReleasesLatest(id) == nextId' = nextId - 1 /\ UNCHANGED <<unsent, evicted>>

\* #release: the latest reservation is undone, with the unsent ones right before it.
Release(id) ==
  IF id = nextId
  THEN \E last \in (0..(id - 1)) \ DOMAIN unsent :
         /\ (last + 1)..(id - 1) \subseteq DOMAIN unsent
         /\ nextId' = last /\ unsent' = Given({i \in DOMAIN unsent : i <= last})
         /\ UNCHANGED evicted
  ELSE Remember(id) /\ UNCHANGED nextId

\* #refuseWrite
CannotWrite == exit # "none" \/ closing \/ stdinFailed \/ Len(pipe) >= MaxBacklog

\* The command is malformed, or its record cannot be written now: the id is given back.
Refuses ==
  /\ In("copy")
  /\ Release(req[Inner].id)
  /\ req' = [req EXCEPT ![Inner].st = "refused"]
  /\ frames' = Tail(frames)
  /\ UNCHANGED <<groupVars, pending, notices, observed, wrote, lineVars, endVars>>

\* Mutant of Announce: a notice written by an observer is told before the one being told.
AnnouncesNestedFirst(notice, below) ==
  /\ notices' = <<notice>> \o notices
  /\ frames' = IF \E i \in DOMAIN frames : frames[i].k = "announce" THEN below ELSE <<Frame("announce", 0)>> \o below

\* #announce: queued, and told at once unless an observer wrote while it was being told of an earlier one.
Announce(notice, below) ==
  /\ notices' = Append(notices, notice)
  /\ frames' = IF \E i \in DOMAIN frames : frames[i].k = "announce" THEN below ELSE <<Frame("announce", 0)>> \o below

\* The call waits for its answer, its record is written and the observers are told.
Writes ==
  /\ In("copy") /\ ~CannotWrite
  /\ pending' = [i \in DOMAIN pending \union {req[Inner].id} |-> IF i = req[Inner].id THEN Inner ELSE pending[i]]
  /\ req' = [req EXCEPT ![Inner].st = "waiting"]
  /\ pipe' = Append(pipe, Inner)
  /\ wrote' = Append(wrote, Inner)
  /\ Announce([r |-> Inner, status |-> "sent"], Tail(frames))
  /\ UNCHANGED <<groupVars, nextId, unsent, evicted, observed, received, said, heard, told, endVars>>

\* The first observer has been told of the oldest notice, and may have called; now the last one is.
Tells ==
  /\ In("announce")
  /\ observed' = Append(observed, Head(notices))
  /\ notices' = Tail(notices)
  /\ frames' = IF notices' = <<>> THEN Tail(frames) ELSE frames
  /\ UNCHANGED <<groupVars, nextId, unsent, evicted, pending, req, wrote, lineVars, endVars>>

\* `outcome` for every call that still waits: the loops of #onStdinFailure and of `terminated`.
FailPending(outcome) ==
  /\ pending' = <<>>
  /\ req' = [r \in DOMAIN req |->
       IF \E i \in DOMAIN pending : pending[i] = r THEN [req[r] EXCEPT !.st = outcome] ELSE req[r]]

(* The child closed its input, or is gone: every buffered write fails in turn, and then the stream. *)
InputBreaks ==
  /\ Turn /\ pipe # <<>> /\ ("command" \notin members \/ "input breaks" \in bound.may)
  /\ frames' = <<Frame("failing", 0)>>
  /\ UNCHANGED <<groupVars, nextId, unsent, evicted, pending, req, notices, observed, wrote, lineVars, endVars>>

WriteFails ==
  /\ In("failing") /\ pipe # <<>>
  /\ pipe' = Tail(pipe)
  /\ Announce([r |-> Head(pipe), status |-> "undelivered"], <<Frame("unsent", Head(pipe))>> \o frames)
  /\ UNCHANGED <<groupVars, nextId, unsent, evicted, pending, req, observed, wrote, received, said, heard, told, endVars>>

\* Mutant of MarksUnsent: a failed write leaves its id issued.
LeavesIssued ==
  /\ In("unsent")
  /\ frames' = Tail(frames)
  /\ UNCHANGED <<groupVars, nextId, unsent, evicted, pending, req, notices, observed, wrote, lineVars, endVars>>

MarksUnsent ==
  /\ In("unsent")
  /\ Remember(req[Inner].id)
  /\ frames' = Tail(frames)
  /\ UNCHANGED <<groupVars, nextId, pending, req, notices, observed, wrote, lineVars, endVars>>

InputFailed ==
  /\ In("failing") /\ pipe = <<>>
  /\ frames' = Tail(frames)
  /\ IF stdinFailed \/ exit # "none"
     THEN UNCHANGED <<pending, req, stdinFailed>>
     ELSE stdinFailed' = TRUE /\ FailPending("input failed")
  /\ UNCHANGED <<groupVars, nextId, unsent, evicted, notices, observed, wrote, lineVars,
                 stdoutOpen, limited, terminated, closing, escalate, reap>>

(***************************************************************************)
(* The child's side of the two pipes, answers, timeouts.                   *)
(***************************************************************************)

ChildReads ==
  /\ "command" \in members /\ Turn /\ pipe # <<>>
  /\ received' = received \union {Head(pipe)}
  /\ pipe' = Tail(pipe)
  /\ UNCHANGED <<groupVars, callVars, said, heard, told, endVars>>

\* The child answers a command it read, once or again, rightly or under another command's name, or makes an id up.
ChildAnswers ==
  /\ "command" \in writers /\ Len(said) < bound.said
  /\ \/ \E r \in received, echo \in BOOLEAN : said' = Append(said, [id |-> req[r].id, by |-> r, echo |-> echo])
     \/ \E id \in Ids : said' = Append(said, [id |-> id, by |-> 0, echo |-> TRUE])
  /\ UNCHANGED <<groupVars, callVars, pipe, received, heard, told, endVars>>

Drop(id) == [i \in DOMAIN pending \ {id} |-> pending[i]]

\* #issued
Issued(id) == id <= nextId /\ id \notin DOMAIN unsent

\* Ids whose record the child has, or may still get.
SentIds == {req[r].id : r \in received \union ToSet(pipe)}

\* #response
Response(a) ==
  IF a.id \in DOMAIN pending
  THEN /\ pending' = Drop(a.id)
       /\ req' = [req EXCEPT ![pending[a.id]] =
            [@ EXCEPT !.st = IF a.echo THEN "answered" ELSE "mismatch", !.by = a.by]]
       /\ UNCHANGED told
  ELSE /\ told' = told \union {[fault |-> IF Issued(a.id) THEN "stale" ELSE "unknown",
                                 sent |-> a.id \in SentIds \union evicted]}
       /\ UNCHANGED <<pending, req>>

Hears ==
  /\ Turn /\ stdoutOpen /\ terminated # "abandoned" /\ Out > 0
  /\ heard' = heard + 1
  /\ IF limited THEN UNCHANGED <<pending, req, told>> ELSE Response(said[heard + 1])
  /\ UNCHANGED <<groupVars, nextId, unsent, evicted, frames, notices, observed, wrote, pipe, received, said, endVars>>

\* The output passes its limit: the group is killed and the rest of the output is dropped.
LimitPassed ==
  /\ Turn /\ stdoutOpen /\ terminated # "abandoned" /\ Out > 0 /\ ~limited /\ "output limit" \in bound.may
  /\ limited' = TRUE
  /\ heard' = heard + 1
  /\ KillGroup
  /\ UNCHANGED <<bound, owner, keeper, ran, members, writers, alive, exit, callVars, pipe, received, said, told,
                 stdinFailed, stdoutOpen, terminated, closing, escalate, reap>>

\* The timer of a request: whatever waits under its id is forgotten, and the call fails.
TimesOut ==
  /\ Turn
  /\ \E r \in DOMAIN req :
       /\ req[r].st = "waiting"
       /\ pending' = Drop(req[r].id)
       /\ req' = [req EXCEPT ![r].st = "timed out"]
  /\ UNCHANGED <<groupVars, nextId, unsent, evicted, frames, notices, observed, wrote, lineVars, endVars>>

(***************************************************************************)
(* The end of the connection.                                              *)
(***************************************************************************)

\* `terminated` resolves, once: what still waits fails with the exit, and the group is due to be reaped.
Terminates(how) ==
  /\ terminated' = how
  /\ reap' = "due"
  /\ escalate' = "off"
  /\ FailPending("exited")

\* Mutant of ExitSeen: whatever still waits fails as soon as the exit is known.
ExitFailsAll ==
  /\ Turn
  /\ KeeperReports \/ KeeperGone \/ KeeperUnstarted
  /\ stdoutOpen' = (stdoutOpen /\ (exit # "none" \/ exit' # "spawn failed"))
  /\ FailPending("exited")
  /\ IF exit = "none" /\ ~stdoutOpen' /\ terminated = "no"
     THEN terminated' = "drained" /\ reap' = "due" /\ escalate' = "off"
     ELSE UNCHANGED <<terminated, reap, escalate>>
  /\ UNCHANGED <<nextId, unsent, evicted, frames, notices, observed, wrote, lineVars, stdinFailed, limited, closing>>

\* #onExit, in the turn that learns of it
ExitSeen ==
  /\ Turn
  /\ KeeperReports \/ KeeperGone \/ KeeperUnstarted
  /\ stdoutOpen' = (stdoutOpen /\ (exit # "none" \/ exit' # "spawn failed"))
  /\ IF exit = "none" /\ ~stdoutOpen' /\ terminated = "no"
     THEN Terminates("drained")
     ELSE UNCHANGED <<terminated, reap, escalate, pending, req>>
  /\ UNCHANGED <<nextId, unsent, evicted, frames, notices, observed, wrote, lineVars, stdinFailed, limited, closing>>

\* Nobody holds the child's output open any more, whoever still runs, and all of it was read.
OutputCloses ==
  /\ Turn /\ stdoutOpen /\ writers = {} /\ Out = 0
  /\ stdoutOpen' = FALSE
  /\ IF exit # "none" /\ terminated = "no"
     THEN Terminates("drained")
     ELSE UNCHANGED <<terminated, reap, escalate, pending, req>>
  /\ UNCHANGED <<groupVars, nextId, unsent, evicted, frames, notices, observed, wrote, lineVars, stdinFailed, limited, closing>>

\* The drain grace ends with the output still open: the group is released and the output abandoned.
DrainExpires ==
  /\ Turn /\ exit # "none" /\ stdoutOpen /\ terminated = "no"
  /\ KillGroup
  /\ Terminates("abandoned")
  /\ UNCHANGED <<bound, owner, keeper, ran, members, writers, alive, exit, nextId, unsent, evicted, frames, notices, observed, wrote,
                 lineVars, stdinFailed, stdoutOpen, limited, closing>>

Close ==
  /\ Turn /\ ~closing /\ "closes" \in bound.may
  /\ closing' = TRUE
  /\ escalate' = IF exit = "none" THEN "term" ELSE "off"
  /\ UNCHANGED <<groupVars, callVars, lineVars, stdinFailed, stdoutOpen, limited, terminated, reap>>

\* terminate(): SIGKILL at once, and close.
Terminate ==
  /\ Turn /\ ~closing /\ "closes" \in bound.may
  /\ closing' = TRUE
  /\ escalate' = IF exit = "none" THEN "term" ELSE "off"
  /\ KillGroup
  /\ UNCHANGED <<bound, owner, keeper, ran, members, writers, alive, exit, callVars, lineVars,
                 stdinFailed, stdoutOpen, limited, terminated, reap>>

\* Mutant of SendsTerm: SIGTERM is the last word.
SendsTermOnly ==
  /\ Turn /\ escalate = "term"
  /\ escalate' = "off"
  /\ UNCHANGED <<groupVars, callVars, lineVars, stdinFailed, stdoutOpen, limited, terminated, closing, reap>>

\* closeTimeoutMs passed: SIGTERM, which nobody need obey.
SendsTerm ==
  /\ Turn /\ escalate = "term"
  /\ escalate' = IF exit = "none" THEN "kill" ELSE "off"
  /\ UNCHANGED <<groupVars, callVars, lineVars, stdinFailed, stdoutOpen, limited, terminated, closing, reap>>

SendsKill ==
  /\ Turn /\ escalate = "kill"
  /\ escalate' = "off"
  /\ IF exit = "none" THEN KillGroup ELSE UNCHANGED killed
  /\ UNCHANGED <<bound, owner, keeper, ran, members, writers, alive, exit, callVars, lineVars,
                 stdinFailed, stdoutOpen, limited, terminated, closing, reap>>

\* Mutant of Reaps: a drained connection takes its group for ended, and reaps nobody.
DrainedIsReaped ==
  /\ Turn
  /\ \/ reap = "due" /\ LiveMembers /\ terminated = "abandoned" /\ reap' = "grace" /\ UNCHANGED killed
     \/ reap = "due" /\ terminated = "drained" /\ reap' = "releasing" /\ UNCHANGED killed
     \/ reap = "due" /\ ~LiveMembers /\ terminated = "abandoned" /\ reap' = "releasing" /\ KillGroup
     \/ reap = "grace" /\ reap' = "releasing" /\ KillGroup
  /\ UNCHANGED <<bound, owner, keeper, ran, members, writers, alive, exit, callVars, lineVars,
                 stdinFailed, stdoutOpen, limited, terminated, closing, escalate>>

\* #reapGroup: survivors get SIGTERM and a grace; then, or at once, the group is released.
Reaps ==
  /\ Turn
  /\ \/ reap = "due" /\ LiveMembers /\ reap' = "grace" /\ UNCHANGED killed
     \/ reap = "due" /\ ~LiveMembers /\ reap' = "releasing" /\ KillGroup
     \/ reap = "grace" /\ reap' = "releasing" /\ KillGroup
  /\ UNCHANGED <<bound, owner, keeper, ran, members, writers, alive, exit, callVars, lineVars,
                 stdinFailed, stdoutOpen, limited, terminated, closing, escalate>>

\* release(): the keeper is gone and nobody is seen alive, or RELEASE_TIMEOUT_MS passed.
Released ==
  /\ Turn /\ reap = "releasing"
  /\ reap' = "done"
  /\ UNCHANGED <<groupVars, callVars, lineVars, stdinFailed, stdoutOpen, limited, terminated, closing, escalate>>

OwnerDies ==
  /\ owner /\ "owner dies" \in bound.may
  /\ owner' = FALSE
  /\ nextId' = 0 /\ unsent' = <<>> /\ evicted' = {} /\ pending' = <<>> /\ req' = <<>>
  /\ frames' = <<>> /\ notices' = <<>> /\ observed' = <<>> /\ wrote' = <<>>
  /\ pipe' = <<>> /\ received' = {} /\ said' = <<>> /\ heard' = 0 /\ told' = {}
  /\ stdinFailed' = FALSE /\ stdoutOpen' = TRUE /\ limited' = FALSE
  /\ terminated' = "no" /\ closing' = FALSE /\ escalate' = "off" /\ reap' = "no"
  /\ alive' = TRUE /\ exit' = "none"
  /\ UNCHANGED <<bound, keeper, ran, members, writers, killed>>

System ==
  /\ Forks \/ KeeperEnds \/ KeeperEndsGroup \/ \E p \in {"command", "child"} : MemberEnds(p) \/ LeavesOutput(p)
  /\ UNCHANGED <<callVars, lineVars, endVars>>

Calling == Call \/ Refuses \/ Writes \/ Tells \/ WriteFails \/ MarksUnsent \/ InputFailed
Talking == InputBreaks \/ ChildReads \/ ChildAnswers \/ Hears \/ LimitPassed \/ TimesOut
Ending  == ExitSeen \/ OutputCloses \/ DrainExpires \/ Close \/ Terminate \/ SendsTerm \/ SendsKill \/ Reaps \/ Released

Next == Calling \/ Talking \/ Ending \/ OwnerDies \/ System

Spec == Init /\ [][Next]_vars

(***************************************************************************)
(* Fairness: a call that runs returns, the loop delivers its events, a     *)
(* timer that is set fires, and a process that was sent SIGKILL ends.      *)
(* Nothing is assumed of the child: it may ignore its closed input and     *)
(* SIGTERM for ever, and no request timer is needed.                       *)
(***************************************************************************)
Fairness ==
  /\ WF_vars(Refuses \/ Writes)
  /\ WF_vars(Tells) /\ WF_vars(WriteFails) /\ WF_vars(MarksUnsent) /\ WF_vars(InputFailed)
  /\ WF_vars(ExitSeen) /\ WF_vars(DrainExpires) /\ WF_vars(SendsTerm) /\ WF_vars(SendsKill)
  /\ WF_vars(Reaps) /\ WF_vars(Released)
  /\ WF_vars(killed /\ System /\ members' # members)
  /\ WF_vars(killed /\ System /\ keeper' # keeper)
  /\ WF_vars(KeeperEndsGroup /\ UNCHANGED <<callVars, lineVars, endVars>>)

FairSpec == Spec /\ Fairness

--------------------------------------------------------------------------------
(* An answer the child wrote for one call is never handed to another, however ids were handed back and used again,
   and an answer that is late reaches nobody (request, #release, #response). *)
AnswersReachTheirCall ==
  \A r \in DOMAIN req : req[r].st \in {"answered", "mismatch"} => req[r].by \in {0, r}

(* An answer nobody waits for is called unknown only when its id was never sent, and stale only when it was, or when
   the cap made the connection forget that it was not (#issued, #markUnsent). *)
FaultsAreTrue ==
  \A f \in told : f.fault = IF f.sent THEN "stale" ELSE "unknown"

(* A call fails with the exit only when no answer to it is left in the drained output: what the child wrote just
   before it exited still settles its request (#onExit, #maybeTerminated). *)
LastWordsAreHeard ==
  terminated = "drained" /\ ~limited =>
    \A r \in DOMAIN req : req[r].st = "exited" => \A i \in DOMAIN said : said[i].by # r

(* Observers are told of every record written, in the order of the writes though they write themselves, and of a
   failed one only after they were told it was sent (#write, #announce). *)
ToldInWriteOrder ==
  LET seen == observed \o notices
      IsSent(i) == seen[i].status = "sent"
  IN /\ \A n \in DOMAIN wrote : \E i \in DOMAIN seen : IsSent(i) /\ seen[i].r = wrote[n]
     /\ \A i \in DOMAIN seen : IsSent(i) =>
          \E n \in DOMAIN wrote :
            /\ wrote[n] = seen[i].r
            /\ \A j \in 1..(i - 1) : IsSent(j) => \E m \in 1..(n - 1) : wrote[m] = seen[j].r
     /\ \A i \in DOMAIN seen : ~IsSent(i) => \E j \in 1..(i - 1) : IsSent(j) /\ seen[j].r = seen[i].r

(* What the connection tells is true: a call is given its own answer, also when the exit is known before the answer
   is read, a fault says what became of its id, and observers see the writes in their order. *)
ToldTruly == AnswersReachTheirCall /\ LastWordsAreHeard /\ FaultsAreTrue /\ ToldInWriteOrder

(* When a connection has been reaped, whoever still runs of its group has been sent SIGKILL: no descendant that left
   stdout alone, and nobody a dead keeper left behind, survives it (#reapGroup, release, #killOrphans). *)
NobodyIsLeft == reap = "done" => members = {} \/ killed

(* close() returns and no call is registered as waiting any more, whatever the child does, unless this process dies
   first. A call whose registration another one overwrote is ended by its own timer alone (request). *)
CloseEnds ==
  closing ~> (~owner \/ (reap = "done" /\ pending = <<>>))

(* A group whose owner died ends with it, as long as its keeper outlived the owner (KEEPER: the control socket
   closes, and it kills its own group). *)
GroupEndsWithOwner == (~owner /\ keeper = "up") ~> members = {}
===============================================================================
