------------------------------ MODULE Desk_proofs ------------------------------
(***************************************************************************)
(* The safety of the desk, for any number of proposals, authorizations and *)
(* attaching processes: what a proposal's chain can hold together with its *)
(* write to Pi and its apply in flight is one inductive invariant, and the *)
(* consequences of a closing session are a second one beside it.           *)
(***************************************************************************)
EXTENDS Desk, TLAPS

(* A proposal written to Pi has its request on record; only one that still *)
(* awaits its outcome is in flight; a consequence has its count, repeats   *)
(* the outcome or was recorded while there was none.                       *)
Coherent(p) ==
  /\ written[p] <= 1
  /\ written[p] = 1 => Sent(p)
  /\ p \in flight => Sent(p) /\ chain[p].outcome = "none"
  /\ ~Sent(p) => chain[p].outcome = "none" /\ chain[p].consequence = "none"
  /\ chain[p].consequences = IF chain[p].consequence = "none" THEN 0 ELSE 1
  /\ chain[p].consequence \in Outcomes => chain[p].consequence = chain[p].outcome

(* What was sent when the host began to finish is concluded once it has    *)
(* stopped waiting, unless the store died.                                 *)
Covered(p) ==
  /\ chain[p].due => Sent(p)
  /\ phase \in {"stopping", "closing", "closed"} /\ recording /\ chain[p].due => ~Open(p)

IInv ==
  /\ TypeOK
  /\ \A p \in Proposals : Coherent(p) /\ Covered(p)

LEMMA InitInv == Init => IInv
  BY OpensAssumption, NoneAssumption
     DEF Init, IInv, TypeOK, Coherent, Covered, Sent, Open, Chain, Auth, Wait, Idle, Views, Phases,
         Outcomes, Consequences

(* The parts of the state a step leaves alone keep the invariant.          *)
LEMMA StutterInv == IInv /\ UNCHANGED vars => IInv'
  BY DEF IInv, vars, store, memory, session, TypeOK, Coherent, Covered, Sent, Open

-----------------------------------------------------------------------------
(* Proposing and authorizing.                                              *)

LEMMA ProposeInv ==
  ASSUME IInv, NEW p \in Proposals, Propose(p) \/ PageProposes(p) \/ PageRefuses(p)
  PROVE  IInv'
<1>1. CASE Propose(p)
  <2>1. TypeOK'
    BY <1>1 DEF IInv, TypeOK, Propose, Proposed, memory, session, Chain
  <2>2. \A q \in Proposals : Coherent(q)' /\ Covered(q)'
    BY <1>1 DEF IInv, TypeOK, Propose, Proposed, memory, session, Chain, Coherent, Covered, Sent, Open
  <2> QED BY <2>1, <2>2 DEF IInv
<1>2. CASE PageProposes(p)
  <2>1. TypeOK'
    BY <1>2 DEF IInv, TypeOK, PageProposes, Proposed, session, Chain, Views
  <2>2. \A q \in Proposals : Coherent(q)' /\ Covered(q)'
    BY <1>2 DEF IInv, TypeOK, PageProposes, Proposed, session, Chain, Coherent, Covered, Sent, Open
  <2> QED BY <2>1, <2>2 DEF IInv
<1>3. CASE PageRefuses(p)
  BY <1>3 DEF IInv, TypeOK, PageRefuses, store, session, Views, Coherent, Covered, Sent, Open
<1> QED BY <1>1, <1>2, <1>3

LEMMA AuthorizeInv ==
  ASSUME IInv, NEW p \in Proposals, NEW x \in Auths,
         (\E allow \in BOOLEAN : Authorize(p, x, allow)) \/ Ages(x)
  PROVE  IInv'
<1>1. ASSUME NEW allow \in BOOLEAN, Authorize(p, x, allow) PROVE IInv'
  BY <1>1 DEF IInv, TypeOK, Authorize, Authorized, memory, session, Auth, Coherent, Covered, Sent, Open
<1>2. CASE Ages(x)
  BY <1>2 DEF IInv, TypeOK, Ages, memory, session, Auth, Coherent, Covered, Sent, Open
<1> QED BY <1>1, <1>2

-----------------------------------------------------------------------------
(* Applying.                                                               *)

(* A send keeps every chain coherent: the request was not on record.       *)
LEMMA SendsInv ==
  ASSUME IInv, NEW p \in Proposals, NEW x \in Auths, ~Sent(p), Sends(p, x),
         phase \notin {"closing", "closed"}, UNCHANGED <<phase, recording>>
  PROVE  /\ chain' \in [Proposals -> Chain] /\ written' \in [Proposals -> 0 .. 2]
         /\ flight' \subseteq Proposals
         /\ \A q \in Proposals : Coherent(q)' /\ Covered(q)'
<1>1. x # None
  BY NoneAssumption
<1>2. written[p] = 0 /\ p \notin flight
  BY DEF IInv, TypeOK, Coherent
<1>3. chain' \in [Proposals -> Chain] /\ written' \in [Proposals -> 0 .. 2] /\ flight' \subseteq Proposals
  BY <1>2 DEF IInv, TypeOK, Sends, Chain
<1>4. ASSUME NEW q \in Proposals PROVE Coherent(q)' /\ Covered(q)'
  <2>1. CASE q = p
    BY <1>1, <1>2, <2>1 DEF IInv, TypeOK, Sends, Chain, Coherent, Covered, Sent, Open
  <2>2. CASE q # p
    BY <2>2 DEF IInv, TypeOK, Sends, Chain, Coherent, Covered, Sent, Open
  <2> QED BY <2>1, <2>2
<1> QED BY <1>3, <1>4

LEMMA ApplyInv ==
  ASSUME IInv, NEW p \in Proposals, NEW x \in Auths,
         Apply(p, x) \/ RequestNotRecorded(p, x) \/ PageApplies(p, x)
  PROVE  IInv'
<1>1. CASE Apply(p, x)
  <2>1. ~Sent(p) /\ Sends(p, x) /\ phase \notin {"closing", "closed"} /\ UNCHANGED <<phase, recording>>
    BY <1>1 DEF Apply, Serving, session
  <2>2. /\ chain' \in [Proposals -> Chain] /\ written' \in [Proposals -> 0 .. 2]
        /\ flight' \subseteq Proposals
        /\ \A q \in Proposals : Coherent(q)' /\ Covered(q)'
    BY <2>1, SendsInv
  <2>3. TypeOK'
    BY <1>1, <2>2 DEF IInv, TypeOK, Apply, session
  <2> QED BY <2>2, <2>3 DEF IInv
<1>2. CASE RequestNotRecorded(p, x)
  <2>1. CASE chain' = chain
    BY <1>2, <2>1 DEF IInv, TypeOK, RequestNotRecorded, memory, Coherent, Covered, Sent, Open
  <2>2. CASE chain' = [chain EXCEPT ![p].request = x]
    <3>1. x # None
      BY NoneAssumption
    <3>2. TypeOK'
      BY <1>2, <2>2 DEF IInv, TypeOK, RequestNotRecorded, memory, Chain
    <3>3. \A q \in Proposals : Coherent(q)' /\ Covered(q)'
      BY <1>2, <2>2, <3>1 DEF IInv, TypeOK, RequestNotRecorded, memory, Chain, Coherent, Covered, Sent, Open
    <3> QED BY <3>2, <3>3 DEF IInv
  <2> QED BY <1>2, <2>1, <2>2 DEF RequestNotRecorded
<1>3. CASE PageApplies(p, x)
  <2>1. auth' \in [Auths -> Auth]
    BY <1>3 DEF IInv, TypeOK, PageApplies, Authorized, Auth
  <2>2. view' \in [Proposals -> Views]
    BY <1>3 DEF IInv, TypeOK, PageApplies, Views, Chain, Known, Outcomes
  <2>3. CASE ~Sent(p) /\ Sends(p, x)
    <3>1. phase \notin {"closing", "closed"} /\ UNCHANGED <<phase, recording>>
      BY <1>3 DEF PageApplies, PageServed, session
    <3>2. /\ chain' \in [Proposals -> Chain] /\ written' \in [Proposals -> 0 .. 2]
          /\ flight' \subseteq Proposals
          /\ \A q \in Proposals : Coherent(q)' /\ Covered(q)'
      BY <2>3, <3>1, SendsInv
    <3>3. TypeOK'
      BY <1>3, <2>1, <2>2, <3>2 DEF IInv, TypeOK, PageApplies, session
    <3> QED BY <3>2, <3>3 DEF IInv
  <2>4. CASE UNCHANGED <<chain, written, flight>>
    <3>1. TypeOK'
      BY <1>3, <2>1, <2>2, <2>4 DEF IInv, TypeOK, PageApplies, session
    <3>2. \A q \in Proposals : Coherent(q)' /\ Covered(q)'
      BY <1>3, <2>4 DEF IInv, PageApplies, session, Coherent, Covered, Sent, Open
    <3> QED BY <3>1, <3>2 DEF IInv
  <2> QED BY <1>3, <2>3, <2>4 DEF PageApplies
<1> QED BY <1>1, <1>2, <1>3

LEMMA ReplyInv ==
  ASSUME IInv, NEW p \in Proposals, NEW outcome \in Outcomes, Reply(p, outcome)
  PROVE  IInv'
<1>1. Sent(p) /\ chain[p].outcome = "none" /\ chain[p].consequence \in {"none", "pending"}
  BY DEF IInv, TypeOK, Reply, Coherent, Chain, Consequences, Outcomes
<1>2. chain' \in [Proposals -> Chain]
  BY DEF IInv, TypeOK, Reply, Chain, Outcomes
<1>3. view' \in [Proposals -> Views]
  <2>1. SUFFICES ASSUME NEW q \in Proposals PROVE view'[q] \in Views
    BY DEF IInv, TypeOK, Reply
  <2>2. CASE q # p
    BY <2>2 DEF IInv, TypeOK, Reply
  <2>3. CASE q = p
    BY <2>3 DEF IInv, TypeOK, Reply, Views, Known, Outcomes
  <2> QED BY <2>2, <2>3
<1>4. TypeOK'
  BY <1>2, <1>3 DEF IInv, TypeOK, Reply, session
<1>5. \A q \in Proposals : Coherent(q)' /\ Covered(q)'
  <2>1. CASE ~recording
    BY <2>1 DEF IInv, Reply, session, Coherent, Covered, Sent, Open
  <2>2. CASE recording
    <3> SUFFICES ASSUME NEW q \in Proposals PROVE Coherent(q)' /\ Covered(q)'
      OBVIOUS
    <3>1. CASE q = p
      <4>1. /\ chain'[p].request = chain[p].request /\ chain'[p].outcome = outcome
            /\ chain'[p].consequence = chain[p].consequence
            /\ chain'[p].consequences = chain[p].consequences
            /\ chain'[p].due = chain[p].due
            /\ p \notin flight' /\ written' = written /\ phase' = phase /\ recording' = recording
        BY <2>2 DEF IInv, TypeOK, Reply, session, Chain
      <4>2. Coherent(p) /\ Covered(p)
        BY DEF IInv
      <4>3. Coherent(p)'
        BY <1>1, <4>1, <4>2 DEF Coherent, Sent, Outcomes
      <4>4. Covered(p)'
        BY <4>1, <4>2 DEF Covered, Sent, Open
      <4> QED BY <3>1, <4>3, <4>4
    <3>2. CASE q # p
      BY <2>2, <3>2 DEF IInv, TypeOK, Reply, session, Chain, Coherent, Covered, Sent, Open
    <3> QED BY <3>1, <3>2
  <2> QED BY <2>1, <2>2 DEF IInv, TypeOK
<1> QED BY <1>4, <1>5 DEF IInv

-----------------------------------------------------------------------------
(* Finishing.                                                              *)

(* Concluding some chains keeps them coherent, and leaves none of them     *)
(* open.                                                                   *)
LEMMA ConcludedCoherent ==
  ASSUME IInv, NEW ps \in SUBSET Proposals, chain' = Concluded(ps), UNCHANGED <<written, flight>>
  PROVE  /\ chain' \in [Proposals -> Chain]
         /\ \A q \in Proposals : /\ Coherent(q)'
                                 /\ chain'[q].due = chain[q].due
                                 /\ Sent(q)' <=> Sent(q)
                                 /\ Open(q)' => Open(q) /\ q \notin ps
<1> SUFFICES ASSUME NEW q \in Proposals
             PROVE /\ chain'[q] \in Chain
                   /\ Coherent(q)'
                   /\ chain'[q].due = chain[q].due
                   /\ Sent(q)' <=> Sent(q)
                   /\ Open(q)' => Open(q) /\ q \notin ps
  BY DEF Concluded
<1>1. CASE q \in ps /\ Open(q)
  <2>1. /\ chain'[q] \in Chain
        /\ chain'[q].consequence = Acceptance(chain[q])
        /\ chain'[q].consequences = 1
        /\ chain'[q].request = chain[q].request
        /\ chain'[q].outcome = chain[q].outcome
        /\ chain'[q].due = chain[q].due
    <3>1. chain'[q] = [chain[q] EXCEPT !.consequence = Acceptance(chain[q]), !.consequences = @ + 1]
      BY <1>1 DEF Concluded
    <3>2. chain[q] \in Chain /\ chain[q].consequences = 0
      BY <1>1 DEF IInv, TypeOK, Coherent, Open
    <3>3. Acceptance(chain[q]) \in Consequences
      BY <3>2 DEF Acceptance, Chain, Consequences, Outcomes
    <3>4. chain'[q] = [chain[q] EXCEPT !.consequence = Acceptance(chain[q]), !.consequences = 1]
      BY <3>1, <3>2
    <3>5. ASSUME NEW c \in Chain, NEW v \in Consequences,
                 chain'[q] = [c EXCEPT !.consequence = v, !.consequences = 1]
          PROVE  /\ chain'[q] \in Chain
                 /\ chain'[q].consequence = v /\ chain'[q].consequences = 1
                 /\ chain'[q].request = c.request /\ chain'[q].outcome = c.outcome
                 /\ chain'[q].due = c.due
      <4>1. [c EXCEPT !.consequence = v, !.consequences = 1] =
              [proposed |-> c.proposed, request |-> c.request, outcome |-> c.outcome,
               consequence |-> v, consequences |-> 1, due |-> c.due]
        BY <3>5 DEF Chain
      <4>2. 1 \in 0 .. 2
        OBVIOUS
      <4>3. /\ c.proposed \in BOOLEAN /\ c.request \in Auths \union {None}
            /\ c.outcome \in Outcomes \union {"none"} /\ c.due \in BOOLEAN
        BY <3>5 DEF Chain
      <4> QED BY <3>5, <4>1, <4>2, <4>3 DEF Chain
    <3> QED BY <3>2, <3>3, <3>4, <3>5
  <2>2. Acceptance(chain[q]) # "none"
        /\ (Acceptance(chain[q]) \in Outcomes => Acceptance(chain[q]) = chain[q].outcome)
    BY DEF IInv, TypeOK, Acceptance, Chain, Outcomes
  <2> QED BY <1>1, <2>1, <2>2 DEF IInv, Coherent, Sent, Open
<1>2. CASE ~(q \in ps /\ Open(q))
  <2>1. chain'[q] = chain[q]
    BY <1>2 DEF Concluded
  <2> QED BY <1>2, <2>1 DEF IInv, TypeOK, Coherent, Sent, Open
<1> QED BY <1>1, <1>2

LEMMA ControlFinishInv ==
  ASSUME IInv, NEW kind \in {"finish", "close"}, ControlFinish(kind)
  PROVE  IInv'
  BY DEF IInv, TypeOK, ControlFinish, store, session, Wait, Coherent, Covered, Sent, Open

LEMMA HostFinishInv == ASSUME IInv, HostFinish PROVE IInv'
<1>1. ASSUME NEW q \in Proposals
      PROVE /\ chain'[q] \in Chain
            /\ chain'[q].request = chain[q].request /\ chain'[q].outcome = chain[q].outcome
            /\ chain'[q].consequence = chain[q].consequence
            /\ chain'[q].consequences = chain[q].consequences
            /\ chain'[q].due = Sent(q)
  BY DEF IInv, TypeOK, HostFinish, Chain, Sent
<1>2. TypeOK'
  <2>1. chain' \in [Proposals -> Chain]
    BY <1>1 DEF HostFinish
  <2> QED BY <2>1 DEF IInv, TypeOK, HostFinish, session, Wait, Phases
<1>3. ASSUME NEW q \in Proposals PROVE Coherent(q)' /\ Covered(q)'
  <2>1. Coherent(q) /\ written' = written /\ flight' = flight /\ phase' = "finishing"
    BY DEF IInv, HostFinish
  <2> QED BY <1>1, <2>1 DEF Coherent, Covered, Sent
<1> QED BY <1>2, <1>3 DEF IInv

LEMMA ControlConcludesInv == ASSUME IInv, ControlConcludes PROVE IInv'
<1>1. CASE ~recording
  BY <1>1 DEF IInv, TypeOK, ControlConcludes, session, Wait, Idle, Phases, Coherent, Covered, Sent, Open
<1>2. CASE recording
  <2>1. chain' = Concluded(Proposals)
    BY <1>2 DEF ControlConcludes
  <2>2. /\ chain' \in [Proposals -> Chain]
        /\ \A q \in Proposals : /\ Coherent(q)' /\ chain'[q].due = chain[q].due
                                /\ Sent(q)' <=> Sent(q)
                                /\ Open(q)' => Open(q) /\ q \notin Proposals
    BY <2>1, ConcludedCoherent DEF ControlConcludes
  <2>3. TypeOK'
    BY <2>2 DEF IInv, TypeOK, ControlConcludes, session, Wait, Idle, Phases
  <2>4. \A q \in Proposals : Covered(q)'
    BY <2>2 DEF IInv, Covered
  <2> QED BY <2>2, <2>3, <2>4 DEF IInv
<1> QED BY <1>1, <1>2 DEF IInv, TypeOK

LEMMA HostConcludesInv == ASSUME IInv, HostConcludes PROVE IInv'
<1>1. CASE ~recording
  BY <1>1 DEF IInv, TypeOK, HostConcludes, session, Wait, Idle, Phases, Coherent, Covered, Sent, Open
<1>2. CASE recording
  <2>1. chain' = Concluded(Proposals)
    BY <1>2 DEF HostConcludes
  <2>2. /\ chain' \in [Proposals -> Chain]
        /\ \A q \in Proposals : /\ Coherent(q)' /\ chain'[q].due = chain[q].due
                                /\ Sent(q)' <=> Sent(q)
                                /\ Open(q)' => Open(q) /\ q \notin Proposals
    BY <2>1, ConcludedCoherent DEF HostConcludes
  <2>3. TypeOK'
    BY <2>2 DEF IInv, TypeOK, HostConcludes, session, Wait, Idle, Phases
  <2>4. \A q \in Proposals : Covered(q)'
    BY <2>2 DEF IInv, Covered
  <2> QED BY <2>2, <2>3, <2>4 DEF IInv
<1> QED BY <1>1, <1>2 DEF IInv, TypeOK

LEMMA FinishNotRecordedInv ==
  ASSUME IInv, NEW ps \in SUBSET Proposals, FinishNotRecorded(ps)
  PROVE  IInv'
<1>1. /\ chain' \in [Proposals -> Chain]
      /\ \A q \in Proposals : /\ Coherent(q)' /\ chain'[q].due = chain[q].due
                              /\ Sent(q)' <=> Sent(q)
                              /\ Open(q)' => Open(q) /\ q \notin ps
  BY ConcludedCoherent DEF FinishNotRecorded
<1>2. TypeOK'
  <2>1. control' \in Wait /\ host' \in Wait /\ phase' \in Phases
    <3>1. CASE control' = Idle /\ UNCHANGED <<host, phase>>
      BY <3>1 DEF IInv, TypeOK, Wait, Idle
    <3>2. CASE host' = Idle /\ phase' = "stopping" /\ UNCHANGED control
      BY <3>2 DEF IInv, TypeOK, Wait, Idle, Phases
    <3> QED BY <3>1, <3>2 DEF FinishNotRecorded
  <2> QED BY <1>1, <2>1 DEF IInv, TypeOK, FinishNotRecorded
<1>3. \A q \in Proposals : Covered(q)'
  BY <1>1 DEF IInv, Covered, FinishNotRecorded
<1> QED BY <1>1, <1>2, <1>3 DEF IInv

LEMMA EndsInv == ASSUME IInv, NEW how \in {"closed", "crashed"}, Ends(how),
                        how = "closed" => phase = "closing"
                 PROVE  IInv'
  BY DEF IInv, TypeOK, Ends, store, Wait, Idle, Views, Phases, Coherent, Covered, Sent, Open

LEMMA ClosingInv == ASSUME IInv, SessionCloses \/ StoreCloses PROVE IInv'
<1>1. CASE SessionCloses
  BY <1>1 DEF IInv, TypeOK, SessionCloses, store, Phases, Coherent, Covered, Sent, Open
<1>2. CASE StoreCloses
  BY <1>2, EndsInv DEF StoreCloses
<1> QED BY <1>1, <1>2

-----------------------------------------------------------------------------
(* Around the desk.                                                        *)

LEMMA FaultInv ==
  ASSUME IInv, Crash \/ Malformed \/ StoreFails \/ PiExits \/ RunChanges
  PROVE  IInv'
<1>1. CASE Crash
  BY <1>1, EndsInv DEF Crash
<1>2. CASE Malformed
  BY <1>2, EndsInv, StutterInv DEF Malformed
<1>3. CASE StoreFails
  BY <1>3 DEF IInv, TypeOK, StoreFails, store, memory, Coherent, Covered, Sent, Open
<1>4. CASE PiExits
  BY <1>4 DEF IInv, TypeOK, PiExits, store, memory, Coherent, Covered, Sent, Open
<1>5. CASE RunChanges
  BY <1>5 DEF IInv, TypeOK, RunChanges, store, memory, Coherent, Covered, Sent, Open
<1> QED BY <1>1, <1>2, <1>3, <1>4, <1>5

LEMMA ReattachInv == ASSUME IInv, Reattach PROVE IInv'
<1>1. ASSUME NEW q \in Proposals
      PROVE /\ chain'[q] \in Chain
            /\ chain'[q].request = chain[q].request /\ chain'[q].outcome = chain[q].outcome
            /\ chain'[q].consequence = chain[q].consequence
            /\ chain'[q].consequences = chain[q].consequences
            /\ ~chain'[q].due
  BY DEF IInv, TypeOK, Reattach, Chain
<1>2. TypeOK'
  <2>1. chain' \in [Proposals -> Chain]
    BY <1>1 DEF Reattach
  <2>2. opens' \in 1 .. MaxOpens
    BY OpensAssumption DEF IInv, TypeOK, Reattach
  <2> QED BY <2>1, <2>2 DEF IInv, TypeOK, Reattach, Wait, Idle, Views, Phases
<1>3. ASSUME NEW q \in Proposals PROVE Coherent(q)' /\ Covered(q)'
  BY <1>1 DEF IInv, Reattach, Coherent, Covered, Sent, Open
<1> QED BY <1>2, <1>3 DEF IInv

LEMMA NextInv == IInv /\ [Next]_vars => IInv'
<1> SUFFICES ASSUME IInv, [Next]_vars PROVE IInv'
  OBVIOUS
<1>1. ASSUME NEW p \in Proposals, Propose(p) \/ PageProposes(p) \/ PageRefuses(p) PROVE IInv'
  BY <1>1, ProposeInv
<1>2. ASSUME NEW p \in Proposals, NEW x \in Auths, NEW allow \in BOOLEAN, Authorize(p, x, allow)
      PROVE IInv'
  BY <1>2, AuthorizeInv
<1>3. ASSUME NEW p \in Proposals, NEW x \in Auths,
             Apply(p, x) \/ RequestNotRecorded(p, x) \/ PageApplies(p, x)
      PROVE IInv'
  BY <1>3, ApplyInv
<1>4. ASSUME NEW x \in Auths, Ages(x) PROVE IInv'
  BY <1>4 DEF IInv, TypeOK, Ages, memory, session, Auth, Coherent, Covered, Sent, Open
<1>5. ASSUME NEW p \in Proposals, NEW outcome \in Outcomes, Reply(p, outcome) PROVE IInv'
  BY <1>5, ReplyInv
<1>6. ASSUME NEW kind \in {"finish", "close"}, ControlFinish(kind) PROVE IInv'
  BY <1>6, ControlFinishInv
<1>7. CASE ControlSettled \/ ControlTimesOut
  BY <1>7, ControlConcludesInv DEF ControlSettled, ControlTimesOut
<1>8. CASE HostFinish \/ HostSettled \/ HostTimesOut
  BY <1>8, HostFinishInv, HostConcludesInv DEF HostSettled, HostTimesOut
<1>9. ASSUME NEW ps \in SUBSET Proposals, FinishNotRecorded(ps) PROVE IInv'
  BY <1>9, FinishNotRecordedInv
<1>10. CASE SessionCloses \/ StoreCloses
  BY <1>10, ClosingInv
<1>11. CASE Crash \/ Malformed \/ StoreFails \/ PiExits \/ RunChanges
  BY <1>11, FaultInv
<1>12. CASE Reattach
  BY <1>12, ReattachInv
<1>13. CASE UNCHANGED vars
  BY <1>13, StutterInv
<1> QED BY <1>1, <1>2, <1>3, <1>4, <1>5, <1>6, <1>7, <1>8, <1>9, <1>10, <1>11, <1>12, <1>13 DEF Next

-----------------------------------------------------------------------------
(* The invariant holds in every behaviour of the desk.                     *)
THEOREM Invariance == Spec => []IInv
  BY InitInv, NextInv, PTL DEF Spec

(* Chains, decisions, waits and phases keep their types, for any number of *)
(* proposals, authorizations and processes.                                *)
THEOREM TypeCorrect == Spec => []TypeOK
<1>1. IInv => TypeOK
  BY DEF IInv
<1> QED BY <1>1, Invariance, PTL

(* A proposal is written to Pi at most once, across clients, drivers,      *)
(* crashes and later processes.                                            *)
THEOREM AtMostOnce == Spec => []WrittenOnce
<1>1. IInv => WrittenOnce
  BY DEF IInv, Coherent, WrittenOnce
<1> QED BY <1>1, Invariance, PTL

(* A request has at most one consequence, and it says what the outcome on  *)
(* record says.                                                            *)
THEOREM ConsequenceOnce == Spec => []OneConsequence
<1>1. ASSUME IInv, NEW p \in Proposals
      PROVE /\ chain[p].consequences <= 1
            /\ chain[p].consequence \in Outcomes => chain[p].consequence = chain[p].outcome
            /\ chain[p].consequence # "none" => Sent(p)
  <2>1. Coherent(p)
    BY <1>1 DEF IInv
  <2> QED BY <2>1 DEF Coherent
<1>2. IInv => OneConsequence
  BY <1>1 DEF OneConsequence
<1> QED BY <1>2, Invariance, PTL

(* What was sent before the host began to finish is concluded when the     *)
(* session has closed.                                                     *)
THEOREM SentBeforeFinishConcluded == Spec => []FinishCoversWhatWasSent
<1>1. IInv => FinishCoversWhatWasSent
  BY DEF IInv, Covered, FinishCoversWhatWasSent
<1> QED BY <1>1, Invariance, PTL

(* Every write to Pi carries a recent decision that allowed it, and the    *)
(* request on record names it.                                             *)
THEOREM AllowedWrites == Spec => WrittenOnAllow
<1> DEFINE Allowed(p) ==
      /\ live /\ run
      /\ \E x \in Auths : /\ chain'[p].request = x
                          /\ auth'[x] = [of |-> p, allow |-> TRUE, old |-> FALSE]
<1>1. ASSUME IInv, Next, NEW p \in Proposals, written'[p] # written[p] PROVE Allowed(p)
  <2>1. PICK q \in Proposals, x \in Auths : Apply(q, x) \/ (PageApplies(q, x) /\ Sends(q, x) /\ Gate(auth'[x], q))
    BY <1>1 DEF Next, Propose, PageProposes, PageRefuses, Authorize, RequestNotRecorded, PageApplies, Ages, Reply,
       ControlFinish, ControlSettled, ControlTimesOut, ControlConcludes, HostFinish, HostSettled, HostTimesOut,
       HostConcludes, FinishNotRecorded, SessionCloses, StoreCloses, Crash, Malformed, Ends, StoreFails, PiExits,
       RunChanges, Reattach, store, memory, session, vars
  <2>2. Sends(q, x) /\ Gate(auth'[x], q)
    BY <2>1 DEF Apply
  <2>3. p = q /\ chain'[p].request = x
    BY <1>1, <2>2 DEF IInv, TypeOK, Sends, Chain
  <2>4. auth' \in [Auths -> Auth]
    <3>1. CASE Apply(q, x)
      BY <1>1, <3>1 DEF IInv, TypeOK, Apply
    <3>2. CASE PageApplies(q, x)
      BY <1>1, <3>2 DEF IInv, TypeOK, PageApplies, Authorized, Auth
    <3> QED BY <2>1, <3>1, <3>2
  <2>5. live /\ run /\ auth'[x].of = p /\ auth'[x].allow /\ ~auth'[x].old
    BY <2>1, <2>2, <2>3 DEF Gate, Apply, PageApplies, session
  <2> QED BY <2>3, <2>4, <2>5 DEF Auth
<1>2. IInv /\ [Next]_vars => [\A p \in Proposals : written'[p] # written[p] => Allowed(p)]_vars
  BY <1>1
<1> QED BY <1>2, Invariance, PTL DEF Spec, WrittenOnAllow

===============================================================================
