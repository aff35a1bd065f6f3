--------------------------- MODULE Workbench_proofs ---------------------------
(***************************************************************************)
(* Proofs about the workbench for any number of requests, attempts and     *)
(* pairings, and any set of faults.  The invariant Inv says, beside what   *)
(* the properties state, what each request's record looks like in each of  *)
(* its states (RequestOK), who may hold the approval slot (SlotInv), and   *)
(* how a stop and the request it superseded stand to each other (StopInv). *)
(***************************************************************************)
EXTENDS Workbench, SequenceTheorems, TLAPS

SentChain(chain) ==
  /\ 3 <= Len(chain) /\ Len(chain) <= 4
  /\ chain[1] = "proposed" /\ chain[2] = "allow" /\ chain[3] = "dispatched"

(* What holds of one request in each state it can be in. *)
RequestOK(r) ==
  /\ req[r].state = "none" <=> req[r].kind = "none"
  /\ req[r].state = "awaiting" <=> req[r].question # "none"
  /\ req[r].state = "awaiting" => Len(req[r].chain) = 1 /\ req[r].chain[1] = "proposed"
  /\ req[r].state = "dispatching" => Len(req[r].chain) <= 3
  /\ req[r].state \in {"dispatching", "accepted", "unknown"} => r \in pi
  /\ req[r].state = "accepted" => req[r].reply = "ok"
  /\ req[r].state = "refused" => r \notin pi \/ req[r].reply = "declined"
  /\ r \in pi =>
       /\ req[r].state \notin {"none", "awaiting"}
       /\ SentChain(req[r].chain)
       /\ req[r].attempt # None => spent[req[r].attempt] = r
       /\ ~req[r].superseded
  /\ req[r].superseded =>
       /\ req[r].kind \in {"steer", "queue"}
       /\ req[r].state \in {"awaiting", "refused"}
       /\ \A i \in DOMAIN req[r].chain : req[r].chain[i] # "allow"
  /\ IsPrompt(r) /\ req[r].state \in {"awaiting", "dispatching"} => r = command
  /\ req[r].kind \in Interventions => req[r].grant # 0
  /\ req[r].victim # None => req[r].kind = "stop"
  /\ req[r].question = "waiting" => req[r].victim # None

RequestInv == \A r \in Requests : RequestOK(r)

Waits(r, v) == req[r].question = "waiting" /\ req[r].victim = v

(* One question, and two requests awaiting approval only when one is a     *)
(* stop waiting for the other to settle.                                   *)
SlotInv ==
  /\ Len(screen) <= 1
  /\ \A r \in Requests : req[r].question = "asked" <=> screen = <<r>>
  /\ \A r, q \in Requests :
       r # q /\ Awaiting(r) /\ Awaiting(q) => Waits(r, q) \/ Waits(q, r)

StopInv ==
  /\ \A r \in Requests : req[r].victim # None =>
       /\ req[req[r].victim].superseded
       /\ req[r].question \in {"asked", "allow", "deny"} => req[req[r].victim].state = "refused"
  /\ \A v \in Requests : req[v].superseded /\ Awaiting(v) => \E s \in Requests : Waits(s, v)

Inv == TypeOK /\ RequestInv /\ SlotInv /\ StopInv

-----------------------------------------------------------------------------
USE GrantsAssumption, NoneAssumption

(* A sequence of one element is the tuple of that element. *)
LEMMA OneElement ==
  ASSUME NEW S, NEW s \in Seq(S), Len(s) = 1
  PROVE  s = <<s[1]>> /\ s[1] \in S
<1>1. s[1] \in S
  BY ElementOfSeq
<1>2. <<s[1]>> \in Seq(S) /\ Len(<<s[1]>>) = 1 /\ <<s[1]>>[1] = s[1]
  BY <1>1
<1> QED
  BY <1>1, <1>2, SeqEqual

(* With at most one question, the screen shows the one or nothing. *)
LEMMA OneScreen ==
  ASSUME screen \in Seq(Requests), Len(screen) <= 1, screen # << >>
  PROVE  screen = <<Head(screen)>> /\ Head(screen) \in Requests /\ Tail(screen) = << >>
<1>1. Len(screen) \in Nat /\ Len(screen) # 0
  BY EmptySeq
<1>2. Len(screen) = 1
  <2>1. \A n \in Nat : n # 0 /\ n <= 1 => n = 1
    OBVIOUS
  <2> QED
    BY <1>1, <2>1, Zenon
<1>3. Head(screen) = screen[1] /\ Tail(screen) \in Seq(Requests) /\ Len(Tail(screen)) = 0
  BY <1>2, HeadTailProperties
<1>4. Tail(screen) = << >>
  BY <1>3, EmptySeq
<1> QED
  BY <1>2, <1>3, <1>4, OneElement

(* Recording steps to a chain of steps leaves a chain of steps. *)
LEMMA RecordedType ==
  ASSUME NEW chain \in Seq(Steps), NEW steps \in Seq(Steps)
  PROVE  Recorded(chain, steps) \in Seq(Steps)
  BY ConcatProperties DEF Recorded

(* The approval and dispatch records extend a fresh proposal's chain. *)
LEMMA SendChain ==
  ASSUME NEW chain \in Seq(Steps), Len(chain) = 1, chain[1] = "proposed"
  PROVE  /\ chain \o <<"allow", "dispatched">> \in Seq(Steps)
         /\ SentChain(chain \o <<"allow", "dispatched">>)
         /\ Len(chain \o <<"allow", "dispatched">>) <= 3
<1>1. <<"allow", "dispatched">> \in Seq(Steps) /\ Len(<<"allow", "dispatched">>) = 2
  BY DEF Steps
<1> QED
  BY <1>1, ConcatProperties DEF SentChain

(* One more record after the dispatch leaves the first three in place. *)
LEMMA ReplyChain ==
  \A chain \in Seq(Steps), step \in Steps :
    SentChain(chain) /\ Len(chain) <= 3 => SentChain(Recorded(chain, <<step>>)) /\ SentChain(Recorded(chain, << >>))
<1>1. \A chain \in Seq(Steps), step \in Steps :
        SentChain(chain) /\ Len(chain) <= 3 => SentChain(chain \o <<step>>)
  BY DEF SentChain
<1>2. \A chain \in Seq(Steps) : chain \o << >> = chain
  BY ConcatEmptySeq
<1> QED
  BY <1>1, <1>2 DEF Recorded

(* A superseded request's refusal adds no approval to its chain. *)
LEMMA RefusalChain ==
  ASSUME NEW chain \in Seq(Steps), Len(chain) = 1, chain[1] = "proposed"
  PROVE  \A i \in DOMAIN (chain \o <<"refused">>) : (chain \o <<"refused">>)[i] # "allow"
<1>1. <<"refused">> \in Seq(Steps) /\ Len(<<"refused">>) = 1
  BY DEF Steps
<1>2. chain \o <<"refused">> \in Seq(Steps) /\ Len(chain \o <<"refused">>) = 2
  BY <1>1, ConcatProperties
<1>3. \A i \in 1 .. 2 : (chain \o <<"refused">>)[i] \in {"proposed", "refused"}
  BY <1>1, ConcatProperties
<1> QED
  BY <1>2, <1>3, LenProperties

LEMMA InitInv == Init => Inv
<1> SUFFICES ASSUME Init PROVE Inv
    OBVIOUS
<1>1. TypeOK
  <2>1. Fresh \in Request
    BY EmptySeq DEF Request, Fresh, Kinds, States, Questions, Replies
  <2>2. screen \in Seq(Requests)
    BY EmptySeq DEF Init
  <2>3. {live, run, closing, ended, recording} \subseteq BOOLEAN
    BY DEF Init
  <2>4. grant \in 0 .. MaxGrants /\ grants \in 0 .. MaxGrants
    BY DEF Init, GrantsAssumption
  <2> QED
    BY <2>1, <2>2, <2>3, <2>4, Zenon DEF Init, TypeOK
<1>2. RequestInv
  BY DEF Init, RequestInv, RequestOK, Fresh, IsPrompt, Prompts, Interventions
<1>3. SlotInv
  BY DEF Init, SlotInv, Fresh, Awaiting
<1>4. StopInv
  BY DEF Init, StopInv, Fresh, Awaiting
<1> QED
  BY <1>1, <1>2, <1>3, <1>4 DEF Inv

-----------------------------------------------------------------------------
(* Type correctness.                                                       *)

LEMMA SessionType ==
  ASSUME TypeOK, UNCHANGED <<req, command, screen, pi, spent>>,
         Pair \/ GrantExpires \/ RunChanges \/ PiExits \/ StoreFails
  PROVE  TypeOK'
<1>1. CASE Pair
  <2>1. grants + 1 \in 0 .. MaxGrants
    BY <1>1, GrantsAssumption DEF Pair, TypeOK
  <2> QED
    BY <1>1, <2>1, Zenon DEF Pair, TypeOK
<1>2. CASE GrantExpires
  <2>1. 0 \in 0 .. MaxGrants
    BY GrantsAssumption
  <2> QED
    BY <1>2, <2>1, Zenon DEF GrantExpires, TypeOK
<1>3. CASE RunChanges
  BY <1>3 DEF RunChanges, TypeOK
<1>4. CASE PiExits
  BY <1>4 DEF PiExits, TypeOK
<1>5. CASE StoreFails
  BY <1>5 DEF StoreFails, TypeOK
<1> QED
  BY <1>1, <1>2, <1>3, <1>4, <1>5

LEMMA AbortingType ==
  ASSUME TypeOK, BeginClose \/ End
  PROVE  TypeOK'
<1>1. Aborting \in [Requests -> Request]
  <2>1. \A q \in Request : [q EXCEPT !.aborted = TRUE] \in Request
    BY DEF Request
  <2> QED
    BY <2>1 DEF Aborting, TypeOK
<1>2. CASE BeginClose
  BY <1>1, <1>2 DEF BeginClose, TypeOK
<1>3. CASE End
  <2>1. 0 \in 0 .. MaxGrants
    BY GrantsAssumption
  <2>2. {live, run, closing, ended', recording} \subseteq BOOLEAN
    BY <1>3 DEF End, TypeOK
  <2> QED
    BY <1>1, <1>3, <2>1, <2>2, Zenon DEF End, TypeOK
<1> QED
  BY <1>2, <1>3

LEMMA ProposeType ==
  ASSUME TypeOK, NEW r \in Requests, NEW a \in Attempts \union {None}, NEW g \in {0, grant}, Propose(r, a, g)
  PROVE  TypeOK'
<1>1. <<"proposed">> \in Seq(Steps)
  BY DEF Steps
<1>2. g \in 0 .. MaxGrants
  BY DEF TypeOK
<1>3. req'[r] \in Request
  BY <1>1, <1>2 DEF Propose, TypeOK, Request, Fresh, Kinds, Prompts, States, Questions, Replies
<1>4. req' \in [Requests -> Request]
  BY <1>3 DEF Propose, TypeOK
<1>5. screen' \in Seq(Requests)
  BY AppendProperties DEF Propose, TypeOK
<1> QED
  BY <1>4, <1>5 DEF Propose, TypeOK, session

(* A request that takes no more than a new record and keeps the rest.      *)
LEMMA RequestChange ==
  ASSUME TypeOK, NEW r \in Requests, NEW q \in Request,
         req' = [req EXCEPT ![r] = q], screen' \in Seq(Requests), pi' \subseteq Requests,
         spent' \in [Attempts -> Requests \union {None, Elsewhere}],
         UNCHANGED <<command, grant, grants, live, run, closing, ended>>, recording' \in BOOLEAN
  PROVE  TypeOK'
  BY DEF TypeOK

LEMMA InterveneType ==
  ASSUME TypeOK, NEW r \in Requests, NEW op \in Interventions, Intervene(r, op)
  PROVE  TypeOK'
<1> DEFINE q == [Fresh EXCEPT !.kind = op, !.grant = grant, !.state = "awaiting",
                   !.question = "asked", !.chain = <<"proposed">>]
<1>1. <<"proposed">> \in Seq(Steps)
  BY DEF Steps
<1>2. q \in Request
  BY <1>1 DEF TypeOK, Request, Fresh, Kinds, Interventions, States, Questions, Replies
<1>3. screen' \in Seq(Requests)
  BY AppendProperties DEF Intervene, TypeOK
<1> HIDE DEF q
<1> QED
  BY <1>2, <1>3, RequestChange DEF Intervene, q, TypeOK, session

LEMMA StopSupersedesType ==
  ASSUME TypeOK, NEW r \in Requests, NEW v \in Requests, StopSupersedes(r, v)
  PROVE  TypeOK'
<1>1. <<"proposed">> \in Seq(Steps)
  BY DEF Steps
<1>2. \A q \in Requests : req'[q] \in Request
  <2> SUFFICES ASSUME NEW q \in Requests PROVE req'[q] \in Request
    OBVIOUS
  <2>1. req[q] \in Request
    BY DEF TypeOK
  <2>2. CASE q = r
    BY <1>1, <2>2 DEF StopSupersedes, TypeOK, Request, Fresh, Kinds, Interventions, States, Questions, Replies
  <2>3. CASE q # r
    BY <2>1, <2>3 DEF StopSupersedes, TypeOK, Request
  <2> QED
    BY <2>2, <2>3
<1>3. req' \in [Requests -> Request]
  BY <1>2 DEF StopSupersedes, TypeOK
<1> QED
  BY <1>3 DEF StopSupersedes, TypeOK, session

(* Setting one of a request's flags, its question, or its outcome.         *)
LEMMA SettingType ==
  ASSUME NEW q \in Request
  PROVE  /\ [q EXCEPT !.aborted = TRUE] \in Request
         /\ [q EXCEPT !.late = TRUE] \in Request
         /\ \A question \in Questions : [q EXCEPT !.question = question] \in Request
         /\ \A reply \in Replies, state \in States, chain \in Seq(Steps) :
              [q EXCEPT !.state = state, !.reply = reply, !.chain = chain] \in Request
         /\ \A state \in States, chain \in Seq(Steps) : Past(q, state, chain) \in Request
<1>1. [q EXCEPT !.aborted = TRUE] \in Request /\ [q EXCEPT !.late = TRUE] \in Request
  BY DEF Request
<1>2. \A question \in Questions : [q EXCEPT !.question = question] \in Request
  BY DEF Request
<1>3. \A reply \in Replies, state \in States, chain \in Seq(Steps) :
        [q EXCEPT !.state = state, !.reply = reply, !.chain = chain] \in Request
  BY DEF Request
<1>4. \A state \in States, chain \in Seq(Steps) : Past(q, state, chain) \in Request
  BY DEF Request, Past, Questions
<1> QED
  BY <1>1, <1>2, <1>3, <1>4

LEMMA QuestionType ==
  ASSUME TypeOK, NEW r \in Requests,
         StopAsks(r) \/ Discard(r) \/ WindowPasses(r) \/ Type(r) \/ Cancelled(r)
  PROVE  TypeOK'
<1>0. req[r] \in Request /\ {"asked", "null", "allow", "deny"} \subseteq Questions
  BY DEF TypeOK, Questions, Answers
<1>1. CASE StopAsks(r)
  <2>1. \A question \in Questions : [req[r] EXCEPT !.question = question] \in Request
    BY <1>0, SettingType
  <2>2. screen' \in Seq(Requests)
    <3>1. screen \in Seq(Requests) /\ Append(screen, r) \in Seq(Requests)
      BY AppendProperties DEF TypeOK
    <3> QED
      BY <1>1, <3>1, Zenon DEF StopAsks
  <2>3. req' \in [Requests -> Request]
    BY <1>0, <1>1, <2>1 DEF StopAsks, TypeOK
  <2> QED
    BY <1>1, <2>2, <2>3 DEF StopAsks, TypeOK, session
<1>2. CASE Discard(r)
  BY <1>0, <1>2, SettingType DEF Discard, TypeOK, session
<1>3. CASE WindowPasses(r)
  BY <1>0, <1>3, SettingType DEF WindowPasses, TypeOK, session
<1>4. ASSUME NEW answer \in Questions, Answered(r, answer)
      PROVE  TypeOK'
  <2>1. [req[r] EXCEPT !.question = answer] \in Request
    BY <1>0, SettingType
  <2>2. screen' \in Seq(Requests)
    BY <1>4, HeadTailProperties DEF Answered, TypeOK
  <2>3. req' \in [Requests -> Request]
    BY <1>4, <2>1 DEF Answered, TypeOK
  <2> QED
    BY <1>4, <2>2, <2>3 DEF Answered, TypeOK, session
<1> QED
  BY <1>0, <1>1, <1>2, <1>3, <1>4 DEF Type, Cancelled

LEMMA SettleType ==
  ASSUME TypeOK, NEW r \in Requests,
         NotApproved(r) \/ Denied(r) \/ GateRefuses(r) \/ AttemptRefused(r)
  PROVE  TypeOK'
<1>0. req[r] \in Request /\ req[r].chain \in Seq(Steps) /\ "refused" \in States
  BY DEF TypeOK, Request, States
<1>1. ASSUME NEW steps \in Seq(Steps), Settle(r, steps)
      PROVE  TypeOK'
  <2>1. Past(req[r], "refused", Recorded(req[r].chain, steps)) \in Request
    BY <1>0, RecordedType, SettingType
  <2>2. req' \in [Requests -> Request]
    BY <1>1, <2>1 DEF Settle, TypeOK
  <2> QED
    BY <1>1, <2>2 DEF Settle, TypeOK, session
<1>2. <<"refused">> \in Seq(Steps) /\ <<"deny", "refused">> \in Seq(Steps) /\ <<"allow", "refused">> \in Seq(Steps)
  BY DEF Steps
<1> QED
  BY <1>1, <1>2 DEF NotApproved, Denied, GateRefuses, AttemptRefused

LEMMA BindType ==
  ASSUME TypeOK, NEW r \in Requests, Bind(r)
  PROVE  spent' \in [Attempts -> Requests \union {None, Elsewhere}]
  BY DEF Bind, TypeOK, Request

LEMMA SendType ==
  ASSUME TypeOK, NEW r \in Requests, Send(r) \/ DispatchUnrecorded(r)
  PROVE  TypeOK'
<1>0. req[r] \in Request /\ req[r].chain \in Seq(Steps) /\ {"refused", "dispatching"} \subseteq States
  BY DEF TypeOK, Request, States
<1>1. CASE Send(r)
  <2>1. <<"allow", "dispatched">> \in Seq(Steps)
    BY DEF Steps
  <2>2. req[r].chain \o <<"allow", "dispatched">> \in Seq(Steps)
    BY <1>0, <2>1, ConcatProperties
  <2>3. Past(req[r], "dispatching", req[r].chain \o <<"allow", "dispatched">>) \in Request
    BY <1>0, <2>2, SettingType
  <2>4. req' \in [Requests -> Request]
    BY <1>1, <2>3 DEF Send, TypeOK
  <2> QED
    BY <1>1, <2>4, BindType DEF Send, TypeOK, session
<1>2. CASE DispatchUnrecorded(r)
  <2>1. <<"allow">> \in Seq(Steps)
    BY DEF Steps
  <2>2. req[r].chain \o <<"allow">> \in Seq(Steps)
    BY <1>0, <2>1, ConcatProperties
  <2>3. Past(req[r], "refused", req[r].chain \o <<"allow">>) \in Request
    BY <1>0, <2>2, SettingType
  <2>4. req' \in [Requests -> Request]
    BY <1>2, <2>3 DEF DispatchUnrecorded, TypeOK
  <2> QED
    BY <1>2, <2>4, BindType DEF DispatchUnrecorded, TypeOK
<1> QED
  BY <1>1, <1>2

LEMMA ReplyType ==
  ASSUME TypeOK, NEW r \in Requests, Reply(r)
  PROVE  TypeOK'
<1>0. req[r] \in Request /\ req[r].chain \in Seq(Steps)
  BY DEF TypeOK, Request
<1>1. ASSUME NEW reply \in Replies, NEW state \in States, NEW steps \in Seq(Steps),
             Outcome(r, reply, state, steps)
      PROVE  TypeOK'
  <2>1. [req[r] EXCEPT !.state = state, !.reply = reply, !.chain = Recorded(req[r].chain, steps)] \in Request
    BY <1>0, RecordedType, SettingType
  <2>2. req' = [req EXCEPT ![r] =
                  [req[r] EXCEPT !.state = state, !.reply = reply, !.chain = Recorded(req[r].chain, steps)]]
    BY <1>1 DEF Outcome, TypeOK
  <2>3. req' \in [Requests -> Request]
    BY <2>1, <2>2 DEF TypeOK
  <2> QED
    BY <1>1, <2>3 DEF Outcome, TypeOK, session
<1>2. << >> \in Seq(Steps) /\ <<"accepted">> \in Seq(Steps) /\ <<"refused">> \in Seq(Steps)
  BY EmptySeq DEF Steps
<1>3. /\ {"ok", "odd", "declined", "lost"} \subseteq Replies
      /\ {"accepted", "unknown", "refused"} \subseteq States
  BY DEF Replies, States
<1> QED
  BY <1>1, <1>2, <1>3 DEF Reply, Accepted, OddReply, DeclinedByPi, LostReply

LEMMA TypeStep == TypeOK /\ [Next]_vars => TypeOK'
<1> SUFFICES ASSUME TypeOK, [Next]_vars PROVE TypeOK'
    OBVIOUS
<1>1. CASE UNCHANGED vars
  BY <1>1, Zenon DEF vars, session, TypeOK
<1>2. CASE Pair \/ GrantExpires \/ RunChanges \/ PiExits \/ StoreFails
  BY <1>2, SessionType DEF Pair, GrantExpires, RunChanges, PiExits, StoreFails
<1>3. CASE BeginClose \/ End
  BY <1>3, AbortingType
<1>4. ASSUME NEW a \in Attempts, SpentElsewhere(a) PROVE TypeOK'
  BY <1>4 DEF SpentElsewhere, TypeOK, session
<1>5. ASSUME NEW r \in Requests,
             \/ \E a \in Attempts \union {None}, g \in {0, grant} : Propose(r, a, g)
             \/ \E op \in Interventions : Intervene(r, op)
             \/ \E v \in Requests : StopSupersedes(r, v)
      PROVE  TypeOK'
  BY <1>5, ProposeType, InterveneType, StopSupersedesType
<1>6. ASSUME NEW r \in Requests,
             StopAsks(r) \/ Discard(r) \/ WindowPasses(r) \/ Type(r) \/ Cancelled(r)
      PROVE  TypeOK'
  BY <1>6, QuestionType
<1>7. ASSUME NEW r \in Requests,
             \/ NotApproved(r) \/ Denied(r) \/ GateRefuses(r) \/ AttemptRefused(r)
             \/ Send(r) \/ DispatchUnrecorded(r) \/ Reply(r)
      PROVE  TypeOK'
  BY <1>7, SettleType, SendType, ReplyType
<1> QED
  BY <1>1, <1>2, <1>3, <1>4, <1>5, <1>6, <1>7, Zenon DEF Next, Page, Process, Terminal, Continue

-----------------------------------------------------------------------------
(* What each request's record looks like.                                  *)

(* A step that leaves a request's record, its sending and its attempt's    *)
(* authorisation alone keeps RequestOK of it.                              *)
LEMMA Untouched ==
  ASSUME RequestInv, NEW x \in Requests, req'[x] = req[x], x \in pi' <=> x \in pi,
         command' = command,
         x \in pi /\ req[x].attempt # None => spent'[req[x].attempt] = spent[req[x].attempt]
  PROVE  RequestOK(x)'
  BY DEF RequestInv, RequestOK, IsPrompt

LEMMA SessionRequests ==
  ASSUME RequestInv, UNCHANGED <<req, command, pi, spent>>
  PROVE  RequestInv'
  BY DEF RequestInv, RequestOK, IsPrompt

LEMMA AbortingRequests ==
  ASSUME TypeOK, RequestInv, req' = Aborting, UNCHANGED <<command, pi, spent>>
  PROVE  RequestInv'
<1> SUFFICES ASSUME NEW x \in Requests PROVE RequestOK(x)'
    BY DEF RequestInv
<1>1. req[x] \in Request /\ (req'[x] = req[x] \/ req'[x] = [req[x] EXCEPT !.aborted = TRUE])
  BY DEF Aborting, TypeOK
<1>2. CASE req'[x] = req[x]
  BY <1>2, Untouched
<1>3. CASE req'[x] = [req[x] EXCEPT !.aborted = TRUE]
  BY <1>1, <1>3 DEF RequestInv, RequestOK, IsPrompt, Request
<1> QED
  BY <1>1, <1>2, <1>3

LEMMA SpentRequests ==
  ASSUME TypeOK, RequestInv, NEW a \in Attempts, SpentElsewhere(a)
  PROVE  RequestInv'
<1> SUFFICES ASSUME NEW x \in Requests PROVE RequestOK(x)'
    BY DEF RequestInv
<1>1. x \in pi /\ req[x].attempt # None => req[x].attempt \in Attempts /\ spent[req[x].attempt] = x
  BY DEF RequestInv, RequestOK, TypeOK, Request
<1> QED
  BY <1>1, Untouched DEF SpentElsewhere, TypeOK, Request

LEMMA ProposeRequests ==
  ASSUME TypeOK, RequestInv, NEW r \in Requests, NEW a \in Attempts \union {None}, NEW g \in {0, grant}, Propose(r, a, g)
  PROVE  RequestInv'
<1>0. req[r].state = "none" /\ r \notin pi
  BY DEF Propose, RequestInv, RequestOK
<1> SUFFICES ASSUME NEW x \in Requests PROVE RequestOK(x)'
    BY DEF RequestInv
<1>1. CASE x = r
  <2>1. req'[r] = [Fresh EXCEPT !.kind = "prompt", !.attempt = a, !.grant = g,
               !.state = "awaiting", !.question = "asked", !.chain = <<"proposed">>]
    BY DEF Propose, TypeOK
  <2>2. /\ req'[r].kind = "prompt" /\ req'[r].state = "awaiting" /\ req'[r].question = "asked"
        /\ ~req'[r].superseded /\ req'[r].victim = None
        /\ req'[r].chain = <<"proposed">>
    BY <2>1 DEF Fresh
  <2>3. Len(req'[r].chain) = 1 /\ req'[r].chain[1] = "proposed"
    BY <2>2
  <2>4. pi' = pi /\ command' = r
    BY DEF Propose
  <2> QED
    BY <1>0, <1>1, <2>2, <2>3, <2>4 DEF RequestOK, IsPrompt, Prompts, Interventions
<1>2. CASE x # r
  <2>1. req'[x] = req[x] /\ pi' = pi /\ spent' = spent
    BY <1>2 DEF Propose, TypeOK
  <2>2. ~(IsPrompt(x) /\ req[x].state \in {"awaiting", "dispatching"})
    BY NoneAssumption DEF Propose, PromptOffered, PromptInFlight, RequestInv, RequestOK
  <2> QED
    BY <2>1, <2>2 DEF RequestInv, RequestOK, IsPrompt
<1> QED
  BY <1>1, <1>2

LEMMA InterveneRequests ==
  ASSUME TypeOK, RequestInv, NEW r \in Requests, NEW op \in Interventions, Intervene(r, op)
  PROVE  RequestInv'
<1>0. req[r].state = "none" /\ r \notin pi
  BY DEF Intervene, RequestInv, RequestOK
<1> SUFFICES ASSUME NEW x \in Requests PROVE RequestOK(x)'
    BY DEF RequestInv
<1>1. CASE x = r
  <2>1. req'[r] = [Fresh EXCEPT !.kind = op, !.grant = grant, !.state = "awaiting",
                     !.question = "asked", !.chain = <<"proposed">>]
    BY DEF Intervene, TypeOK
  <2>2. /\ req'[r].kind = op /\ req'[r].state = "awaiting" /\ req'[r].question = "asked"
        /\ ~req'[r].superseded /\ req'[r].victim = None
        /\ req'[r].chain = <<"proposed">>
    BY <2>1 DEF Fresh
  <2>3. Len(req'[r].chain) = 1 /\ req'[r].chain[1] = "proposed"
    BY <2>2
  <2>4. pi' = pi /\ req'[r].grant = grant /\ grant # 0
    BY <2>1 DEF Intervene, Granted, Fresh
  <2> QED
    BY <1>0, <1>1, <2>2, <2>3, <2>4 DEF RequestOK, IsPrompt, Prompts, Interventions
<1>2. CASE x # r
  BY <1>2, Untouched DEF Intervene, TypeOK
<1> QED
  BY <1>1, <1>2

LEMMA StopSupersedesRequests ==
  ASSUME TypeOK, RequestInv, NEW r \in Requests, NEW v \in Requests, StopSupersedes(r, v)
  PROVE  RequestInv'
<1>0. req[r].state = "none" /\ r \notin pi /\ r # v /\ v # None
  BY NoneAssumption DEF StopSupersedes, AwaitingChange, Awaiting, RequestInv, RequestOK
<1> SUFFICES ASSUME NEW x \in Requests PROVE RequestOK(x)'
    BY DEF RequestInv
<1>1. CASE x = r
  <2>1. req'[r] = [Fresh EXCEPT !.kind = "stop", !.grant = grant, !.state = "awaiting",
                     !.question = "waiting", !.victim = v, !.chain = <<"proposed">>]
    BY <1>0 DEF StopSupersedes, TypeOK
  <2>2. /\ req'[r].kind = "stop" /\ req'[r].state = "awaiting" /\ req'[r].question = "waiting"
        /\ ~req'[r].superseded /\ req'[r].victim = v
        /\ req'[r].chain = <<"proposed">>
    BY <2>1 DEF Fresh
  <2>3. Len(req'[r].chain) = 1 /\ req'[r].chain[1] = "proposed"
    BY <2>2
  <2>4. pi' = pi /\ req'[r].grant = grant /\ grant # 0
    BY <2>1 DEF StopSupersedes, Granted, Fresh
  <2> QED
    BY <1>0, <1>1, <2>2, <2>3, <2>4 DEF RequestOK, IsPrompt, Prompts, Interventions
<1>2. CASE x = v
  <2>1. req'[v] = [req[v] EXCEPT !.superseded = TRUE, !.aborted = TRUE] /\ req[v] \in Request
    BY <1>0 DEF StopSupersedes, TypeOK
  <2>2. \A i \in DOMAIN req[v].chain : req[v].chain[i] # "allow"
    <3>1. Len(req[v].chain) = 1 /\ req[v].chain[1] = "proposed" /\ req[v].chain \in Seq(Steps)
      BY DEF StopSupersedes, AwaitingChange, Awaiting, RequestInv, RequestOK, TypeOK, Request
    <3> QED
      BY <3>1, LenProperties
  <2>3. req[v].kind \in {"steer", "queue"} /\ req[v].state = "awaiting" /\ RequestOK(v) /\ pi' = pi
    BY DEF StopSupersedes, AwaitingChange, Awaiting, RequestInv
  <2>4. /\ req'[v].kind = req[v].kind /\ req'[v].state = req[v].state /\ req'[v].question = req[v].question
        /\ req'[v].chain = req[v].chain /\ req'[v].victim = req[v].victim /\ req'[v].grant = req[v].grant
        /\ req'[v].reply = req[v].reply /\ req'[v].attempt = req[v].attempt
    BY <2>1 DEF Request
  <2> QED
    BY <1>2, <2>2, <2>3, <2>4 DEF RequestOK, IsPrompt, Prompts
<1>3. CASE x # r /\ x # v
  BY <1>3, Untouched DEF StopSupersedes, TypeOK
<1> QED
  BY <1>1, <1>2, <1>3

LEMMA QuestionRequests ==
  ASSUME TypeOK, RequestInv, NEW r \in Requests,
         StopAsks(r) \/ Discard(r) \/ WindowPasses(r) \/ Type(r) \/ Cancelled(r),
         screen \in Seq(Requests), screen # << >> => req[Head(screen)].question = "asked"
  PROVE  RequestInv'
<1> SUFFICES ASSUME NEW x \in Requests PROVE RequestOK(x)'
    BY DEF RequestInv
<1>0. /\ \/ req' = [req EXCEPT ![r].aborted = TRUE]
         \/ req' = [req EXCEPT ![r].late = TRUE]
         \/ \E question \in {"asked", "null", "allow", "deny"} :
              req' = [req EXCEPT ![r].question = question] /\ req[r].question # "none"
      /\ command' = command /\ pi' = pi /\ spent' = spent
  BY DEF StopAsks, Discard, WindowPasses, Type, Cancelled, Answered
<1>1. CASE x = r
  <2>1. req[r] \in Request /\ RequestOK(r)
    BY DEF TypeOK, RequestInv
  <2>2. /\ req'[r].kind = req[r].kind /\ req'[r].state = req[r].state
        /\ req'[r].question = "none" <=> req[r].question = "none"
        /\ req'[r].question = "waiting" => req[r].question = "waiting"
        /\ req'[r].chain = req[r].chain /\ req'[r].victim = req[r].victim /\ req'[r].grant = req[r].grant
        /\ req'[r].reply = req[r].reply /\ req'[r].attempt = req[r].attempt
        /\ req'[r].superseded = req[r].superseded
    BY <1>0, <2>1 DEF Request, TypeOK
  <2> QED
    BY <1>0, <1>1, <2>1, <2>2 DEF RequestOK, IsPrompt
<1>2. CASE x # r
  BY <1>0, <1>2, Untouched DEF TypeOK
<1> QED
  BY <1>1, <1>2

LEMMA SettleRequests ==
  ASSUME TypeOK, RequestInv, NEW r \in Requests,
         NotApproved(r) \/ Denied(r) \/ GateRefuses(r) \/ AttemptRefused(r)
  PROVE  RequestInv'
<1> SUFFICES ASSUME NEW x \in Requests PROVE RequestOK(x)'
    BY DEF RequestInv
<1>0. /\ Awaiting(r) /\ command' = command /\ pi' = pi /\ spent' = spent
      /\ \E steps \in {<<"refused">>, <<"deny", "refused">>, <<"allow", "refused">>} :
           /\ req' = [req EXCEPT ![r] = Past(req[r], "refused", Recorded(req[r].chain, steps))]
           /\ req[r].superseded => steps = <<"refused">>
  BY DEF NotApproved, Denied, GateRefuses, AttemptRefused, Approved, Settle, Decided, NotDecided, TypeOK
<1>1. CASE x = r
  <2>1. req[r] \in Request /\ RequestOK(r) /\ req[r].state = "awaiting" /\ req[r].chain \in Seq(Steps)
    BY <1>0 DEF TypeOK, RequestInv, Awaiting, Request
  <2>2. /\ req'[r].kind = req[r].kind /\ req'[r].state = "refused" /\ req'[r].question = "none"
        /\ req'[r].victim = None /\ req'[r].grant = req[r].grant
        /\ req'[r].reply = req[r].reply /\ req'[r].attempt = req[r].attempt
        /\ req'[r].superseded = req[r].superseded
    BY <1>0, <2>1 DEF Request, TypeOK, Past
  <2>3. req[r].superseded => req'[r].chain = Recorded(req[r].chain, <<"refused">>)
    BY <1>0, <2>1 DEF Request, TypeOK, Past
  <2>4. req[r].superseded => \A i \in DOMAIN req'[r].chain : req'[r].chain[i] # "allow"
    BY <2>1, <2>3, RefusalChain DEF RequestOK, Recorded
  <2> QED
    BY <1>0, <1>1, <2>1, <2>2, <2>4 DEF RequestOK, IsPrompt
<1>2. CASE x # r
  BY <1>0, <1>2, Untouched DEF TypeOK
<1> QED
  BY <1>1, <1>2

(* Binding an attempt takes one that no earlier request was sent for.      *)
LEMMA BindFrame ==
  ASSUME TypeOK, RequestInv, NEW r \in Requests, Bind(r), NEW x \in pi, req[x].attempt # None
  PROVE  spent'[req[x].attempt] = spent[req[x].attempt]
<1>1. x \in Requests /\ req[x].attempt \in Attempts /\ spent[req[x].attempt] = x
  BY DEF TypeOK, RequestInv, RequestOK, Request
<1>2. x # None
  BY <1>1, NoneAssumption
<1> QED
  BY <1>1, <1>2 DEF Bind, TypeOK, Request

LEMMA SendRequests ==
  ASSUME TypeOK, RequestInv, NEW r \in Requests, Send(r) \/ DispatchUnrecorded(r)
  PROVE  RequestInv'
<1> SUFFICES ASSUME NEW x \in Requests PROVE RequestOK(x)'
    BY DEF RequestInv
<1>0. /\ Awaiting(r) /\ ~req[r].superseded /\ command' = command /\ Bind(r)
  BY DEF Send, DispatchUnrecorded, Approved, Decided, NotDecided
<1>1. CASE x = r /\ Send(r)
  <2>1. req[r] \in Request /\ RequestOK(r) /\ req[r].state = "awaiting" /\ req[r].chain \in Seq(Steps)
    BY <1>0 DEF TypeOK, RequestInv, Awaiting, Request
  <2>2. req'[r] = Past(req[r], "dispatching", req[r].chain \o <<"allow", "dispatched">>) /\ pi' = pi \union {r}
    BY <1>1 DEF Send, TypeOK
  <2>3. /\ req'[r].kind = req[r].kind /\ req'[r].state = "dispatching" /\ req'[r].question = "none"
        /\ req'[r].victim = None /\ req'[r].grant = req[r].grant
        /\ req'[r].reply = req[r].reply /\ req'[r].attempt = req[r].attempt
        /\ req'[r].superseded = req[r].superseded
        /\ req'[r].chain = req[r].chain \o <<"allow", "dispatched">>
    BY <2>1, <2>2 DEF Request, Past
  <2>4. SentChain(req'[r].chain) /\ Len(req'[r].chain) <= 3
    BY <2>1, <2>3, SendChain DEF RequestOK
  <2>5. req[r].attempt # None => spent'[req[r].attempt] = r
    BY <1>0, <2>1 DEF Bind, TypeOK, Request
  <2> QED
    BY <1>0, <1>1, <2>1, <2>2, <2>3, <2>4, <2>5 DEF RequestOK, IsPrompt
<1>2. CASE x = r /\ DispatchUnrecorded(r)
  <2>1. req[r] \in Request /\ RequestOK(r) /\ req[r].state = "awaiting"
    BY <1>0 DEF TypeOK, RequestInv, Awaiting
  <2>2. req'[r] = Past(req[r], "refused", req[r].chain \o <<"allow">>) /\ pi' = pi
    BY <1>2 DEF DispatchUnrecorded, TypeOK
  <2>3. /\ req'[r].kind = req[r].kind /\ req'[r].state = "refused" /\ req'[r].question = "none"
        /\ req'[r].victim = None /\ req'[r].grant = req[r].grant
        /\ req'[r].superseded = req[r].superseded
    BY <2>1, <2>2 DEF Request, Past
  <2> QED
    BY <1>0, <1>2, <2>1, <2>2, <2>3 DEF RequestOK, IsPrompt
<1>3. CASE x # r
  <2>1. req'[x] = req[x] /\ (x \in pi' <=> x \in pi)
    BY <1>3 DEF Send, DispatchUnrecorded, TypeOK
  <2> QED
    BY <1>0, <2>1, BindFrame, Untouched
<1> QED
  BY <1>1, <1>2, <1>3

LEMMA OutcomeRequests ==
  ASSUME TypeOK, RequestInv, NEW r \in Requests, NEW reply \in Replies,
         NEW state \in {"accepted", "unknown", "refused"}, NEW steps, Outcome(r, reply, state, steps),
         steps = << >> \/ \E step \in Steps : steps = <<step>>,
         state = "accepted" => reply = "ok", state = "refused" => reply = "declined"
  PROVE  RequestInv'
<1> SUFFICES ASSUME NEW x \in Requests PROVE RequestOK(x)'
    BY DEF RequestInv
<1>0. /\ req[r].state = "dispatching" /\ command' = command /\ pi' = pi /\ spent' = spent
      /\ req' = [req EXCEPT ![r].state = state, ![r].reply = reply, ![r].chain = Recorded(@, steps)]
  BY DEF Outcome
<1>1. CASE x = r
  <2>1. req[r] \in Request /\ RequestOK(r) /\ r \in pi /\ req[r].chain \in Seq(Steps)
    BY <1>0 DEF TypeOK, RequestInv, RequestOK, Request
  <2>2. /\ req'[r].kind = req[r].kind /\ req'[r].question = req[r].question
        /\ req'[r].victim = req[r].victim /\ req'[r].grant = req[r].grant
        /\ req'[r].attempt = req[r].attempt /\ req'[r].superseded = req[r].superseded
        /\ req'[r].state = state /\ req'[r].reply = reply
        /\ req'[r].chain = Recorded(req[r].chain, steps)
    BY <1>0, <2>1 DEF Request, TypeOK
  <2>3. SentChain(req[r].chain) /\ Len(req[r].chain) <= 3
    BY <1>0, <2>1 DEF RequestOK
  <2>4. SentChain(req'[r].chain)
    <3>1. CASE steps = << >>
      <4>1. "refused" \in Steps
        BY DEF Steps
      <4> QED
        BY <2>1, <2>2, <2>3, <3>1, <4>1, ReplyChain
    <3>2. CASE \E step \in Steps : steps = <<step>>
      BY <2>1, <2>2, <2>3, <3>2, ReplyChain
    <3> QED
      BY <3>1, <3>2
  <2>5. req[r].question = "none" /\ req[r].kind # "none" /\ ~req[r].superseded
        /\ (req[r].attempt # None => spent[req[r].attempt] = r)
        /\ (req[r].kind \in Interventions => req[r].grant # 0)
        /\ (req[r].victim # None => req[r].kind = "stop")
    BY <1>0, <2>1 DEF RequestOK
  <2> QED
    BY <1>0, <1>1, <2>1, <2>2, <2>4, <2>5 DEF RequestOK, IsPrompt
<1>2. CASE x # r
  <2>1. req'[x] = req[x]
    BY <1>0, <1>2 DEF TypeOK
  <2> QED
    BY <1>0, <2>1, Untouched
<1> QED
  BY <1>1, <1>2

LEMMA ReplyRequests ==
  ASSUME TypeOK, RequestInv, NEW r \in Requests, Reply(r)
  PROVE  RequestInv'
<1>0. /\ {"ok", "odd", "declined", "lost"} \subseteq Replies
      /\ {"accepted", "refused"} \subseteq Steps
  BY DEF Replies, Steps
<1>1. CASE Accepted(r)
  <2>1. PICK state \in {"accepted", "unknown"} : Outcome(r, "ok", state, <<"accepted">>)
    BY <1>1 DEF Accepted
  <2> QED
    BY <1>0, <2>1, OutcomeRequests
<1>2. CASE OddReply(r)
  BY <1>0, <1>2, OutcomeRequests DEF OddReply
<1>3. CASE DeclinedByPi(r)
  <2>1. PICK state \in {"refused", "unknown"} : Outcome(r, "declined", state, <<"refused">>)
    BY <1>3 DEF DeclinedByPi
  <2> QED
    BY <1>0, <2>1, OutcomeRequests
<1>4. CASE LostReply(r)
  <2>1. PICK steps \in {<< >>, <<"refused">>} : Outcome(r, "lost", "unknown", steps)
    BY <1>4 DEF LostReply
  <2> QED
    BY <1>0, <2>1, OutcomeRequests
<1> QED
  BY <1>1, <1>2, <1>3, <1>4 DEF Reply

-----------------------------------------------------------------------------
(* The approval slot, and a stop with the request it superseded.           *)

(* A step that moves no question and settles nothing superseded.           *)
LEMMA SlotFrame ==
  ASSUME TypeOK, SlotInv, StopInv, screen' = screen,
         \A x \in Requests :
           /\ req'[x].question = req[x].question
           /\ req'[x].victim = req[x].victim
           /\ req'[x].superseded = req[x].superseded
           /\ req'[x].state = "awaiting" <=> req[x].state = "awaiting"
           /\ req[x].superseded /\ req[x].state = "refused" => req'[x].state = "refused"
  PROVE  SlotInv' /\ StopInv'
<1>1. \A x \in Requests : req[x].victim # None => req[x].victim \in Requests
  BY DEF TypeOK, Request
<1>2. SlotInv'
  BY DEF SlotInv, Awaiting, Waits
<1>3. StopInv'
  BY <1>1 DEF StopInv, Awaiting, Waits
<1> QED
  BY <1>2, <1>3

LEMMA VictimType ==
  ASSUME TypeOK
  PROVE  \A x \in Requests : req[x].victim # None => req[x].victim \in Requests
  BY DEF TypeOK, Request

LEMMA AbortingSlot ==
  ASSUME Inv, req' = Aborting, screen' = screen
  PROVE  SlotInv' /\ StopInv'
<1>1. \A x \in Requests : req[x] \in Request /\ (req'[x] = req[x] \/ req'[x] = [req[x] EXCEPT !.aborted = TRUE])
  BY DEF Aborting, Inv, TypeOK
<1>2. \A x \in Requests : /\ req'[x].question = req[x].question
                            /\ req'[x].victim = req[x].victim
                            /\ req'[x].superseded = req[x].superseded
                            /\ req'[x].state = req[x].state
  <2> TAKE x \in Requests
  <2>1. CASE req'[x] = req[x]
    BY <2>1
  <2>2. CASE req'[x] = [req[x] EXCEPT !.aborted = TRUE]
    BY <1>1, <2>2 DEF Request
  <2> QED
    BY <1>1, <2>1, <2>2
<1> QED
  BY <1>2, SlotFrame DEF Inv

LEMMA FlagSlot ==
  ASSUME Inv, NEW r \in Requests, Discard(r) \/ WindowPasses(r)
  PROVE  SlotInv' /\ StopInv'
<1>1. \A x \in Requests : req[x] \in Request /\ (req'[x] = req[x] \/ req'[x] = [req[x] EXCEPT !.aborted = TRUE]
                            \/ req'[x] = [req[x] EXCEPT !.late = TRUE])
  BY DEF Discard, WindowPasses, Inv, TypeOK
<1>2. \A x \in Requests : /\ req'[x].question = req[x].question
                            /\ req'[x].victim = req[x].victim
                            /\ req'[x].superseded = req[x].superseded
                            /\ req'[x].state = req[x].state
  <2> TAKE x \in Requests
  <2>1. CASE req'[x] = req[x]
    BY <2>1
  <2>2. CASE req'[x] = [req[x] EXCEPT !.aborted = TRUE]
    BY <1>1, <2>2 DEF Request
  <2>3. CASE req'[x] = [req[x] EXCEPT !.late = TRUE]
    BY <1>1, <2>3 DEF Request
  <2> QED
    BY <1>1, <2>1, <2>2, <2>3
<1> QED
  BY <1>2, SlotFrame DEF Inv, Discard, WindowPasses

LEMMA ReplySlot ==
  ASSUME Inv, NEW r \in Requests, Reply(r)
  PROVE  SlotInv' /\ StopInv'
<1>1. ASSUME NEW reply \in Replies, NEW state \in {"accepted", "unknown", "refused"}, NEW steps,
             Outcome(r, reply, state, steps)
      PROVE  SlotInv' /\ StopInv'
  <2>1. req[r] \in Request /\ req[r].state = "dispatching"
    BY <1>1 DEF Outcome, Inv, TypeOK
  <2>2. /\ req'[r].question = req[r].question /\ req'[r].victim = req[r].victim
        /\ req'[r].superseded = req[r].superseded /\ req'[r].state = state
    BY <1>1, <2>1 DEF Outcome, Inv, TypeOK, Request
  <2>3. \A x \in Requests \ {r} : req'[x] = req[x]
    BY <1>1 DEF Outcome, Inv, TypeOK
  <2>4. screen' = screen
    BY <1>1 DEF Outcome
  <2> QED
    BY <2>1, <2>2, <2>3, <2>4, SlotFrame DEF Inv
<1>2. {"ok", "odd", "declined", "lost"} \subseteq Replies
  BY DEF Replies
<1> QED
  BY <1>1, <1>2 DEF Reply, Accepted, OddReply, DeclinedByPi, LostReply

(* An awaiting request that was answered leaves the slot.                  *)
LEMMA LeaveSlot ==
  ASSUME Inv, NEW r \in Requests, Decided(r), screen' = screen,
         NEW state \in {"refused", "dispatching"}, NEW chain,
         req' = [req EXCEPT ![r] = Past(req[r], state, chain)]
  PROVE  SlotInv' /\ StopInv'
<1>0. /\ req[r] \in Request /\ RequestOK(r)
      /\ req[r].state = "awaiting" /\ req[r].question \notin {"asked", "waiting", "none"}
  BY DEF Inv, TypeOK, RequestInv, Decided, Awaiting, Answers
<1>1. /\ req'[r].question = "none" /\ req'[r].victim = None /\ req'[r].state = state
      /\ req'[r].superseded = req[r].superseded
  BY <1>0 DEF Past, Request, Inv, TypeOK
<1>2. \A x \in Requests \ {r} : req'[x] = req[x]
  BY DEF Inv, TypeOK
<1>3. SlotInv'
  BY <1>0, <1>1, <1>2 DEF Inv, SlotInv, Awaiting, Waits
<1>4. \A x \in Requests : req'[x].victim # None =>
        /\ req'[req'[x].victim].superseded
        /\ req'[x].question \in {"asked", "allow", "deny"} => req'[req'[x].victim].state = "refused"
  <2> SUFFICES ASSUME NEW x \in Requests, req'[x].victim # None
               PROVE  /\ req'[req'[x].victim].superseded
                      /\ req'[x].question \in {"asked", "allow", "deny"} => req'[req'[x].victim].state = "refused"
    OBVIOUS
  <2>1. x # r /\ req'[x] = req[x] /\ req[x].victim \in Requests
    BY <1>1, <1>2 DEF Inv, TypeOK, Request
  <2> QED
    BY <1>0, <1>1, <1>2, <2>1 DEF Inv, StopInv
<1>5. \A v \in Requests : req'[v].superseded /\ req'[v].state = "awaiting" =>
        \E s \in Requests : req'[s].question = "waiting" /\ req'[s].victim = v
  BY <1>0, <1>1, <1>2 DEF Inv, StopInv, Awaiting, Waits
<1>6. StopInv'
  BY <1>4, <1>5 DEF StopInv, Awaiting, Waits
<1> QED
  BY <1>3, <1>6

LEMMA ContinueSlot ==
  ASSUME Inv, NEW r \in Requests,
         \/ NotApproved(r) \/ Denied(r) \/ GateRefuses(r) \/ AttemptRefused(r)
         \/ DispatchUnrecorded(r) \/ Send(r)
  PROVE  SlotInv' /\ StopInv'
<1>1. /\ Decided(r) /\ screen' = screen
      /\ \E state \in {"refused", "dispatching"} : \E chain :
           req' = [req EXCEPT ![r] = Past(req[r], state, chain)]
  <2>1. CASE NotApproved(r) \/ Denied(r) \/ GateRefuses(r) \/ AttemptRefused(r)
    BY <2>1 DEF NotApproved, Denied, GateRefuses, AttemptRefused, Approved, Settle
  <2>2. CASE DispatchUnrecorded(r)
    BY <2>2 DEF DispatchUnrecorded, Approved
  <2>3. CASE Send(r)
    BY <2>3 DEF Send, Approved
  <2> QED
    BY <2>1, <2>2, <2>3
<1> QED
  BY <1>1, LeaveSlot

(* The terminal's question ends: the slot's screen is free.                *)
LEMMA AnsweredSlot ==
  ASSUME Inv, NEW r \in Requests, NEW answer \in Answers, Answered(r, answer)
  PROVE  SlotInv' /\ StopInv'
<1>0. /\ screen = <<r>> /\ screen' = << >> /\ req[r] \in Request /\ req[r].question = "asked"
  <2>1. screen = <<Head(screen)>> /\ Tail(screen) = << >>
    BY OneScreen DEF Answered, Inv, TypeOK, SlotInv
  <2>2. screen = <<r>> /\ screen' = << >>
    BY <2>1 DEF Answered
  <2> QED
    BY <2>2 DEF Inv, TypeOK, SlotInv
<1>1. /\ req'[r].question = answer /\ req'[r].victim = req[r].victim /\ req'[r].state = req[r].state
      /\ req'[r].superseded = req[r].superseded
  BY <1>0 DEF Answered, Request, Inv, TypeOK
<1>2. \A x \in Requests \ {r} : req'[x] = req[x]
  BY DEF Answered, Inv, TypeOK
<1>3. \A x \in Requests : req'[x].question # "asked"
  <2>1. answer # "asked"
    BY DEF Answers
  <2>2. \A x \in Requests \ {r} : <<r>> # <<x>>
    OBVIOUS
  <2> QED
    BY <1>0, <1>1, <1>2, <2>1, <2>2 DEF Inv, SlotInv
<1>4. SlotInv'
  <2>1. Len(screen') <= 1 /\ \A x \in Requests : screen' # <<x>>
    BY <1>0
  <2>2. \A x, q \in Requests : x # q /\ Awaiting(x)' /\ Awaiting(q)' => Waits(x, q)' \/ Waits(q, x)'
    BY <1>0, <1>1, <1>2 DEF Inv, SlotInv, Awaiting, Waits
  <2> QED
    BY <1>3, <2>1, <2>2 DEF SlotInv
<1>5. \A x \in Requests : req'[x].victim # None =>
        /\ req'[req'[x].victim].superseded
        /\ req'[x].question \in {"asked", "allow", "deny"} => req'[req'[x].victim].state = "refused"
  <2> SUFFICES ASSUME NEW x \in Requests, req'[x].victim # None
               PROVE  /\ req'[req'[x].victim].superseded
                      /\ req'[x].question \in {"asked", "allow", "deny"} => req'[req'[x].victim].state = "refused"
    OBVIOUS
  <2>1. req'[x].victim = req[x].victim
    BY <1>1, <1>2
  <2>2. req[x].victim \in Requests
    BY <2>1, VictimType DEF Inv
  <2>3. /\ req'[req[x].victim].superseded = req[req[x].victim].superseded
        /\ req'[req[x].victim].state = req[req[x].victim].state
    BY <1>1, <1>2, <2>2
  <2>4. req'[x].question \in {"asked", "allow", "deny"} => req[x].question \in {"asked", "allow", "deny"}
    BY <1>0, <1>2
  <2> QED
    BY <2>1, <2>3, <2>4 DEF Inv, StopInv
<1>6. \A v \in Requests : req'[v].superseded /\ req'[v].state = "awaiting" =>
        \E s \in Requests : req'[s].question = "waiting" /\ req'[s].victim = v
  BY <1>0, <1>1, <1>2 DEF Inv, StopInv, Awaiting, Waits
<1>7. StopInv'
  BY <1>5, <1>6 DEF StopInv, Awaiting, Waits
<1> QED
  BY <1>4, <1>7

LEMMA StopAsksSlot ==
  ASSUME Inv, NEW r \in Requests, StopAsks(r)
  PROVE  SlotInv' /\ StopInv'
<1>0. /\ req[r] \in Request /\ RequestOK(r) /\ req[r].question = "waiting" /\ req[r].victim \in Requests
      /\ req[r].kind = "stop" /\ ~req[r].superseded /\ req[r].state = "awaiting"
      /\ req[req[r].victim].state # "awaiting"
  BY DEF StopAsks, Inv, TypeOK, RequestInv, RequestOK, Request, Awaiting
<1>1. req[req[r].victim].superseded /\ req[req[r].victim].state = "refused"
  BY <1>0, NoneAssumption DEF Inv, RequestInv, RequestOK, StopInv
<1>2. \A x \in Requests \ {r} : req[x].state # "awaiting"
  <2> SUFFICES ASSUME NEW x \in Requests \ {r}, req[x].state = "awaiting" PROVE FALSE
    OBVIOUS
  <2>1. Waits(r, x) \/ Waits(x, r)
    BY <1>0 DEF Inv, SlotInv, Awaiting
  <2>2. ~Waits(r, x)
    BY <1>0 DEF Waits
  <2>3. ~Waits(x, r)
    BY <1>0, NoneAssumption DEF Waits, Inv, StopInv
  <2> QED
    BY <2>1, <2>2, <2>3
<1>3. \E question \in {"asked", "null"} :
        /\ req' = [req EXCEPT ![r].question = question]
        /\ screen' = IF question = "asked" THEN Append(screen, r) ELSE screen
  BY DEF StopAsks
<1>4. PICK question \in {"asked", "null"} :
        /\ req' = [req EXCEPT ![r].question = question]
        /\ screen' = IF question = "asked" THEN Append(screen, r) ELSE screen
  BY <1>3
<1>5. /\ req'[r].question = question /\ req'[r].victim = req[r].victim /\ req'[r].state = req[r].state
      /\ req'[r].superseded = req[r].superseded
  BY <1>0, <1>4 DEF Request, Inv, TypeOK
<1>6. \A x \in Requests \ {r} : req'[x] = req[x]
  BY <1>4 DEF Inv, TypeOK
<1>7. \A x \in Requests : req[x].question # "asked"
  BY <1>0, <1>2 DEF Inv, RequestInv, RequestOK
<1>8. screen = << >>
  <2> SUFFICES ASSUME screen # << >> PROVE FALSE
    OBVIOUS
  <2>1. screen = <<Head(screen)>> /\ Head(screen) \in Requests
    BY OneScreen DEF Inv, TypeOK, SlotInv
  <2> QED
    BY <1>7, <2>1 DEF Inv, SlotInv
<1>9. SlotInv'
  <2>1. \A x, q \in Requests : x # q => ~(Awaiting(x)' /\ Awaiting(q)')
    BY <1>2, <1>6 DEF Awaiting
  <2>2. CASE question = "asked"
    <3>1. screen' = <<r>> /\ Len(screen') <= 1
      BY <1>4, <1>8, <2>2
    <3>2. \A x \in Requests \ {r} : <<r>> # <<x>>
      OBVIOUS
    <3> QED
      BY <1>5, <1>6, <1>7, <2>1, <2>2, <3>1, <3>2 DEF SlotInv
  <2>3. CASE question = "null"
    <3>1. screen' = << >> /\ Len(screen') <= 1 /\ \A x \in Requests : screen' # <<x>>
      BY <1>4, <1>8, <2>3
    <3>2. \A x \in Requests : req'[x].question # "asked"
      BY <1>5, <1>6, <1>7, <2>3
    <3> QED
      BY <2>1, <3>1, <3>2 DEF SlotInv
  <2> QED
    BY <1>4, <2>2, <2>3
<1>10. StopInv'
  <2>1. \A x \in Requests : req'[x].victim # None =>
          /\ req'[req'[x].victim].superseded
          /\ req'[x].question \in {"asked", "allow", "deny"} => req'[req'[x].victim].state = "refused"
    <3> SUFFICES ASSUME NEW x \in Requests, req'[x].victim # None
                 PROVE  /\ req'[req'[x].victim].superseded
                        /\ req'[x].question \in {"asked", "allow", "deny"} => req'[req'[x].victim].state = "refused"
      OBVIOUS
    <3>0. req'[x].victim = req[x].victim
      BY <1>5, <1>6
    <3>1. req'[x].victim = req[x].victim /\ req[x].victim \in Requests
      BY <3>0, VictimType DEF Inv
    <3>2. req[req[x].victim].superseded /\ req[x].victim # r
      BY <1>0, <3>1 DEF Inv, StopInv
    <3> QED
      BY <1>0, <1>1, <1>5, <1>6, <3>1, <3>2 DEF Inv, StopInv
  <2>2. \A v \in Requests : ~(req'[v].superseded /\ req'[v].state = "awaiting")
    BY <1>0, <1>2, <1>5, <1>6
  <2> QED
    BY <2>1, <2>2 DEF StopInv, Awaiting
<1> QED
  BY <1>9, <1>10

(* Nothing holds the slot: the screen is empty.                            *)
LEMMA FreeScreen ==
  ASSUME Inv, \A x \in Requests : ~Awaiting(x)
  PROVE  screen = << >>
<1> SUFFICES ASSUME screen # << >> PROVE FALSE
    OBVIOUS
<1>1. screen = <<Head(screen)>> /\ Head(screen) \in Requests
  BY OneScreen DEF Inv, TypeOK, SlotInv
<1>2. req[Head(screen)].question = "asked"
  BY <1>1 DEF Inv, SlotInv
<1> QED
  BY <1>1, <1>2 DEF Inv, RequestInv, RequestOK, Awaiting

(* Asking a fresh request when nothing else awaits.                        *)
LEMMA AskSlot ==
  ASSUME Inv, NEW r \in Requests, \A x \in Requests : ~Awaiting(x), NEW q,
         q.question = "asked", q.victim = None, ~q.superseded,
         req' = [req EXCEPT ![r] = q], screen' = Append(screen, r), ~req[r].superseded
  PROVE  SlotInv' /\ StopInv'
<1>0. screen = << >>
  BY FreeScreen
<1>1. screen' = <<r>> /\ Len(screen') <= 1
  BY <1>0
<1>2. req'[r] = q /\ \A x \in Requests \ {r} : req'[x] = req[x]
  BY DEF Inv, TypeOK
<1>3. \A x \in Requests \ {r} : <<r>> # <<x>> /\ req[x].question # "asked" /\ req[x].state # "awaiting"
  BY DEF Inv, RequestInv, RequestOK, Awaiting
<1>4. SlotInv'
  BY <1>1, <1>2, <1>3 DEF SlotInv, Awaiting
<1>5. \A x \in Requests : req'[x].victim # None =>
        /\ req'[req'[x].victim].superseded
        /\ req'[x].question \in {"asked", "allow", "deny"} => req'[req'[x].victim].state = "refused"
  <2> SUFFICES ASSUME NEW x \in Requests, req'[x].victim # None
               PROVE  /\ req'[req'[x].victim].superseded
                      /\ req'[x].question \in {"asked", "allow", "deny"} => req'[req'[x].victim].state = "refused"
    OBVIOUS
  <2>1. x # r /\ req'[x] = req[x]
    BY <1>2
  <2>2. req[x].victim \in Requests /\ req[req[x].victim].superseded
    BY <2>1, VictimType DEF Inv, StopInv
  <2>3. req[x].victim # r
    BY <2>2
  <2> QED
    BY <1>2, <2>1, <2>2, <2>3 DEF Inv, StopInv
<1>6. \A v \in Requests : ~(req'[v].superseded /\ req'[v].state = "awaiting")
  BY <1>2, <1>3
<1> QED
  BY <1>4, <1>5, <1>6 DEF StopInv, Awaiting

LEMMA ProposeSlot ==
  ASSUME Inv, NEW r \in Requests, NEW a \in Attempts \union {None}, NEW g \in {0, grant}, Propose(r, a, g)
  PROVE  SlotInv' /\ StopInv'
<1> DEFINE q == [Fresh EXCEPT !.kind = "prompt", !.attempt = a, !.grant = g,
                   !.state = "awaiting", !.question = "asked", !.chain = <<"proposed">>]
<1>1. \A x \in Requests : ~Awaiting(x)
  <2> SUFFICES ASSUME NEW x \in Requests, Awaiting(x) PROVE FALSE
    OBVIOUS
  <2>1. req[x].kind \in Kinds
    BY DEF Inv, TypeOK, Request, RequestInv, RequestOK, Awaiting
  <2>2. req[x].kind \notin Interventions
    BY DEF Propose, PromptOffered
  <2>3. x = command /\ command # None
    BY <2>1, <2>2, NoneAssumption DEF Inv, RequestInv, RequestOK, Awaiting, IsPrompt, Kinds
  <2> QED
    BY <2>3 DEF Propose, PromptOffered, PromptInFlight, Awaiting
<1>2. ~req[r].superseded
  BY DEF Propose, Inv, RequestInv, RequestOK
<1>3. q.question = "asked" /\ q.victim = None /\ ~q.superseded
  BY DEF Fresh
<1>4. req' = [req EXCEPT ![r] = q] /\ screen' = Append(screen, r)
  BY DEF Propose
<1> HIDE DEF q
<1> QED
  BY <1>1, <1>2, <1>3, <1>4, AskSlot

(* With no stop in flight nothing superseded still awaits.                 *)
LEMMA NothingSuperseded ==
  ASSUME Inv, ~StopInFlight, NEW v \in Requests, Awaiting(v)
  PROVE  ~req[v].superseded /\ req[v].kind \in {"prompt", "steer", "queue"}
<1>1. \A s \in Requests : req[s].question # "waiting"
  BY DEF StopInFlight, Inv, RequestInv, RequestOK
<1>2. ~req[v].superseded
  BY <1>1 DEF Inv, StopInv, Waits
<1>3. req[v].kind \in Kinds /\ req[v].kind # "stop"
  BY DEF Inv, TypeOK, Request, RequestInv, RequestOK, Awaiting, StopInFlight
<1> QED
  BY <1>2, <1>3 DEF Kinds, Prompts, Interventions

LEMMA InterveneSlot ==
  ASSUME Inv, NEW r \in Requests, NEW op \in Interventions, Intervene(r, op)
  PROVE  SlotInv' /\ StopInv'
<1> DEFINE q == [Fresh EXCEPT !.kind = op, !.grant = grant, !.state = "awaiting",
                   !.question = "asked", !.chain = <<"proposed">>]
<1>1. \A x \in Requests : ~Awaiting(x)
  <2> SUFFICES ASSUME NEW x \in Requests, Awaiting(x) PROVE FALSE
    OBVIOUS
  <2>1. ~req[x].superseded /\ req[x].kind \in {"prompt", "steer", "queue"}
    BY NothingSuperseded DEF Intervene, InterventionOffered
  <2>2. req[x].kind = "prompt"
    BY <2>1 DEF Intervene, AwaitingChange
  <2>3. x = command /\ command # None
    BY <2>2, NoneAssumption DEF Inv, RequestInv, RequestOK, Awaiting, IsPrompt, Prompts
  <2> QED
    BY <2>3 DEF Intervene, InterventionOffered
<1>2. ~req[r].superseded
  BY DEF Intervene, Inv, RequestInv, RequestOK
<1>3. q.question = "asked" /\ q.victim = None /\ ~q.superseded
  BY DEF Fresh
<1>4. req' = [req EXCEPT ![r] = q] /\ screen' = Append(screen, r)
  BY DEF Intervene
<1> HIDE DEF q
<1> QED
  BY <1>1, <1>2, <1>3, <1>4, AskSlot

LEMMA StopSupersedesSlot ==
  ASSUME Inv, NEW r \in Requests, NEW v \in Requests, StopSupersedes(r, v)
  PROVE  SlotInv' /\ StopInv'
<1>0. /\ req[r].state = "none" /\ req[r].question = "none" /\ ~req[r].superseded /\ r # v
      /\ req[v].state = "awaiting" /\ ~req[v].superseded /\ req[v] \in Request
  BY DEF StopSupersedes, AwaitingChange, Awaiting, Inv, TypeOK, RequestInv, RequestOK
<1>1. \A x \in Requests \ {v} : req[x].state # "awaiting"
  <2> SUFFICES ASSUME NEW x \in Requests \ {v}, Awaiting(x) PROVE FALSE
    BY DEF Awaiting
  <2>1. Waits(x, v) \/ Waits(v, x)
    BY <1>0 DEF Inv, SlotInv, Awaiting
  <2>2. \A s \in Requests : req[s].question # "waiting"
    BY DEF StopSupersedes, InterventionOffered, StopInFlight, Inv, RequestInv, RequestOK
  <2> QED
    BY <2>1, <2>2 DEF Waits
<1>2. /\ req'[r].question = "waiting" /\ req'[r].victim = v /\ req'[r].state = "awaiting" /\ ~req'[r].superseded
  BY <1>0 DEF StopSupersedes, Fresh, Inv, TypeOK
<1>3. /\ req'[v].superseded /\ req'[v].question = req[v].question /\ req'[v].state = req[v].state
      /\ req'[v].victim = req[v].victim
  BY <1>0 DEF StopSupersedes, Inv, TypeOK, Request
<1>4. (\A x \in Requests \ {r, v} : req'[x] = req[x]) /\ screen' = screen
  BY DEF StopSupersedes, Inv, TypeOK
<1>5. SlotInv'
  <2>1. \A x \in Requests : req'[x].question = "asked" <=> req[x].question = "asked"
    BY <1>0, <1>2, <1>3, <1>4
  <2>2. \A x, q \in Requests : x # q /\ Awaiting(x)' /\ Awaiting(q)' => Waits(x, q)' \/ Waits(q, x)'
    BY <1>1, <1>2, <1>3, <1>4 DEF Awaiting, Waits
  <2> QED
    BY <1>4, <2>1, <2>2 DEF Inv, SlotInv
<1>6. \A x \in Requests : req'[x].victim # None =>
        /\ req'[req'[x].victim].superseded
        /\ req'[x].question \in {"asked", "allow", "deny"} => req'[req'[x].victim].state = "refused"
  <2> SUFFICES ASSUME NEW x \in Requests, req'[x].victim # None
               PROVE  /\ req'[req'[x].victim].superseded
                      /\ req'[x].question \in {"asked", "allow", "deny"} => req'[req'[x].victim].state = "refused"
    OBVIOUS
  <2>1. CASE x = r
    BY <1>2, <1>3, <2>1
  <2>2. CASE x # r
    <3>1. req'[x].victim = req[x].victim /\ req'[x].question = req[x].question
      BY <1>3, <1>4, <2>2
    <3>2. req[x].victim \in Requests /\ req[req[x].victim].superseded
      BY <3>1, VictimType DEF Inv, StopInv
    <3>3. req[x].victim \notin {r, v}
      BY <1>0, <3>2
    <3> QED
      BY <1>4, <3>1, <3>2, <3>3 DEF Inv, StopInv
  <2> QED
    BY <2>1, <2>2
<1>7. \A u \in Requests : req'[u].superseded /\ req'[u].state = "awaiting" =>
        \E s \in Requests : req'[s].question = "waiting" /\ req'[s].victim = u
  BY <1>1, <1>2, <1>3, <1>4
<1> QED
  BY <1>5, <1>6, <1>7 DEF StopInv, Awaiting, Waits

-----------------------------------------------------------------------------
(* Every step keeps the invariant.                                         *)

LEMMA SessionStep ==
  ASSUME Inv, UNCHANGED <<req, command, screen, pi, spent>>
  PROVE  RequestInv' /\ SlotInv' /\ StopInv'
<1>1. RequestInv'
  BY SessionRequests DEF Inv
<1>2. SlotInv' /\ StopInv'
  BY SlotFrame DEF Inv
<1> QED
  BY <1>1, <1>2

LEMMA AnswerStep ==
  ASSUME Inv, NEW r \in Requests, Type(r) \/ Cancelled(r)
  PROVE  SlotInv' /\ StopInv'
<1>1. {"allow", "deny", "null"} \subseteq Answers
  BY DEF Answers
<1> QED
  BY <1>1, AnsweredSlot DEF Type, Cancelled

LEMMA QuestionStep ==
  ASSUME Inv, NEW r \in Requests,
         StopAsks(r) \/ Discard(r) \/ WindowPasses(r) \/ Type(r) \/ Cancelled(r)
  PROVE  RequestInv' /\ SlotInv' /\ StopInv'
<1>1. screen # << >> => req[Head(screen)].question = "asked"
  <2> SUFFICES ASSUME screen # << >> PROVE req[Head(screen)].question = "asked"
    OBVIOUS
  <2>1. screen = <<Head(screen)>> /\ Head(screen) \in Requests
    BY OneScreen DEF Inv, TypeOK, SlotInv
  <2> QED
    BY <2>1 DEF Inv, SlotInv
<1>2. RequestInv'
  BY <1>1, QuestionRequests DEF Inv, TypeOK
<1>3. SlotInv' /\ StopInv'
  BY StopAsksSlot, FlagSlot, AnswerStep
<1> QED
  BY <1>2, <1>3

LEMMA InvStep == Inv /\ [Next]_vars => Inv'
<1> SUFFICES ASSUME Inv, [Next]_vars PROVE RequestInv' /\ SlotInv' /\ StopInv'
    BY TypeStep DEF Inv
<1>0. TypeOK /\ RequestInv
  BY DEF Inv
<1>1. CASE UNCHANGED vars
  BY <1>1, SessionStep DEF vars
<1>2. CASE Pair \/ GrantExpires \/ RunChanges \/ PiExits \/ StoreFails
  BY <1>2, SessionStep DEF Pair, GrantExpires, RunChanges, PiExits, StoreFails
<1>3. CASE BeginClose \/ End
  BY <1>0, <1>3, AbortingRequests, AbortingSlot DEF BeginClose, End
<1>4. ASSUME NEW a \in Attempts, SpentElsewhere(a) PROVE RequestInv' /\ SlotInv' /\ StopInv'
  <2>1. RequestInv'
    BY <1>0, <1>4, SpentRequests
  <2> QED
    BY <1>4, <2>1, SlotFrame DEF Inv, SpentElsewhere
<1>5. ASSUME NEW r \in Requests, NEW a \in Attempts \union {None}, NEW g \in {0, grant}, Propose(r, a, g)
      PROVE  RequestInv' /\ SlotInv' /\ StopInv'
  BY <1>0, <1>5, ProposeRequests, ProposeSlot
<1>6. ASSUME NEW r \in Requests, NEW op \in Interventions, Intervene(r, op)
      PROVE  RequestInv' /\ SlotInv' /\ StopInv'
  BY <1>0, <1>6, InterveneRequests, InterveneSlot
<1>7. ASSUME NEW r \in Requests, NEW v \in Requests, StopSupersedes(r, v)
      PROVE  RequestInv' /\ SlotInv' /\ StopInv'
  BY <1>0, <1>7, StopSupersedesRequests, StopSupersedesSlot
<1>8. ASSUME NEW r \in Requests,
             StopAsks(r) \/ Discard(r) \/ WindowPasses(r) \/ Type(r) \/ Cancelled(r)
      PROVE  RequestInv' /\ SlotInv' /\ StopInv'
  BY <1>8, QuestionStep
<1>9. ASSUME NEW r \in Requests, NotApproved(r) \/ Denied(r) \/ GateRefuses(r) \/ AttemptRefused(r)
      PROVE  RequestInv' /\ SlotInv' /\ StopInv'
  BY <1>0, <1>9, SettleRequests, ContinueSlot
<1>10. ASSUME NEW r \in Requests, Send(r) \/ DispatchUnrecorded(r)
       PROVE  RequestInv' /\ SlotInv' /\ StopInv'
  BY <1>0, <1>10, SendRequests, ContinueSlot
<1>11. ASSUME NEW r \in Requests, Reply(r)
       PROVE  RequestInv' /\ SlotInv' /\ StopInv'
  BY <1>0, <1>11, ReplyRequests, ReplySlot
<1> QED
  BY <1>1, <1>2, <1>3, <1>4, <1>5, <1>6, <1>7, <1>8, <1>9, <1>10, <1>11, Zenon
     DEF Next, Page, Process, Terminal, Continue

(* The invariant holds of every behaviour.                                 *)
THEOREM Invariance == Spec => []Inv
<1> QED
  BY InitInv, InvStep, PTL DEF Spec

(* TypeOK: every request, grant and screen keeps its type.                 *)
THEOREM TypeCorrect == Spec => []TypeOK
<1>1. Inv => TypeOK
  BY DEF Inv
<1> QED
  BY <1>1, Invariance, PTL

(* OneQuestion: the terminal is never asked two questions at once          *)
(* (workbench-interventions.ts, #drive waits for c.supersedes.done).       *)
THEOREM OneQuestionAtATime == Spec => []OneQuestion
<1>1. Inv => OneQuestion
  BY DEF Inv, SlotInv, OneQuestion
<1> QED
  BY <1>1, Invariance, PTL

(* SupersededIsCancelled: what a stop superseded is never approved or sent *)
(* and is refused before the stop is asked.                                *)
THEOREM SupersededNeverSent == Spec => []SupersededIsCancelled
<1>1. Inv => SupersededIsCancelled
  BY DEF Inv, RequestInv, RequestOK, StopInv, SupersededIsCancelled
<1> QED
  BY <1>1, Invariance, PTL

(* ViewsAreTruthful: refused, accepted and unknown say what was written    *)
(* and what Pi answered (workbench.ts, the end of #run).                   *)
THEOREM ViewsTruthful == Spec => []ViewsAreTruthful
<1>1. Inv => ViewsAreTruthful
  BY DEF Inv, RequestInv, RequestOK, ViewsAreTruthful
<1> QED
  BY <1>1, Invariance, PTL

(* SentIsOnRecord: nothing is written to Pi before its proposal, approval  *)
(* and dispatch are on record, in that order.                              *)
THEOREM SentOnRecord == Spec => []SentIsOnRecord
<1>1. Inv => SentIsOnRecord
  <2> SUFFICES ASSUME Inv, NEW r \in pi
               PROVE  /\ Len(req[r].chain) \in 3 .. 4
                      /\ req[r].chain[1] = "proposed" /\ req[r].chain[2] = "allow" /\ req[r].chain[3] = "dispatched"
    BY DEF SentIsOnRecord
  <2>1. r \in Requests /\ SentChain(req[r].chain) /\ req[r].chain \in Seq(Steps)
    BY DEF Inv, TypeOK, RequestInv, RequestOK, Request
  <2>2. Len(req[r].chain) \in Nat
    BY <2>1, LenProperties
  <2>3. \A n \in Nat : 3 <= n /\ n <= 4 => n \in 3 .. 4
    OBVIOUS
  <2>4. Len(req[r].chain) \in 3 .. 4
    BY <2>1, <2>2, <2>3, Zenon DEF SentChain
  <2> QED
    BY <2>1, <2>4, Zenon DEF SentChain
<1> QED
  BY <1>1, Invariance, PTL

(* AttemptSentOnce: an attempt is written to Pi for the one request its    *)
(* write-once authorisation names (develop-attempt-dispatch.ts:217).       *)
THEOREM AttemptsSentOnce == Spec => []AttemptSentOnce
<1>1. Inv => AttemptSentOnce
  BY DEF Inv, TypeOK, RequestInv, RequestOK, AttemptSentOnce
<1> QED
  BY <1>1, Invariance, PTL

(* SendsAreGated: what is written passes the gate in the turn that writes  *)
(* it (workbench.ts:752), and no two prompts are outstanding together.     *)
THEOREM SendsGated == Spec => SendsAreGated
<1> DEFINE Gated(r) ==
      /\ live /\ ~closing /\ ~ended
      /\ req[r].grant \in {0, grant}
      /\ IF IsPrompt(r)
         THEN ~run /\ \A q \in Requests \ {r} : IsPrompt(q) => req[q].state # "dispatching"
         ELSE run /\ req[r].grant # 0
<1>1. ASSUME Inv, NEW r \in Requests, Send(r) PROVE Gated(r)
  <2>1. /\ live /\ ~closing /\ ~ended /\ (IsPrompt(r) <=> ~run) /\ Awaiting(r)
        /\ req[r].grant # 0 \/ ~IsPrompt(r) => req[r].grant = grant /\ req[r].grant # 0
    BY <1>1 DEF Send, Approved, NotDecided, GateOpen, Granted, Decided
  <2>2. IsPrompt(r) => \A q \in Requests \ {r} : IsPrompt(q) => req[q].state # "dispatching"
    BY <1>1, <2>1 DEF Inv, RequestInv, RequestOK, Awaiting
  <2> QED
    BY <2>1, <2>2
<1>2. Inv /\ [Next]_vars => [\A r \in pi' \ pi : Gated(r)]_vars
  <2> SUFFICES ASSUME Inv, Next, NEW r \in pi' \ pi PROVE Gated(r)
    OBVIOUS
  <2>1. \E s \in Requests : Send(s)
    <3>1. CASE Page
      BY <3>1 DEF Page, Pair, GrantExpires, Propose, Intervene, StopSupersedes, Discard
    <3>2. CASE Process
      BY <3>2 DEF Process, RunChanges, PiExits, StoreFails, BeginClose, End, SpentElsewhere, WindowPasses
    <3>3. CASE Terminal
      BY <3>3 DEF Terminal, Type, Cancelled, Answered
    <3>4. ASSUME NEW s \in Requests, Continue(s) PROVE Send(s)
      BY <3>4 DEF Continue, StopAsks, NotApproved, Denied, GateRefuses, AttemptRefused, DispatchUnrecorded, Settle
    <3>5. ASSUME NEW s \in Requests, Reply(s) PROVE FALSE
      BY <3>5 DEF Reply, Accepted, OddReply, DeclinedByPi, LostReply, Outcome
    <3> QED
      BY <3>1, <3>2, <3>3, <3>4, <3>5 DEF Next
  <2>2. PICK s \in Requests : Send(s)
    BY <2>1
  <2>3. r = s
    BY <2>2 DEF Send
  <2> QED
    BY <1>1, <2>2, <2>3
<1> QED
  BY <1>2, Invariance, PTL DEF Spec, SendsAreGated

(* One question at a time is on the terminal, and never that of a request  *)
(* a stop superseded after the stop is asked.                              *)
THEOREM QuestionsTakeTurns == Spec => []QuestionsInTurn
  BY OneQuestionAtATime, SupersededNeverSent, PTL DEF QuestionsInTurn

=============================================================================
