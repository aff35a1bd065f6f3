--------------------------- MODULE Connection_proofs ---------------------------
(***************************************************************************)
(* For any number of calls, nested in any way, and any child: what a       *)
(* connection tells its callers is true (ToldTruly), and who is left of    *)
(* its group when it was reaped has been killed (NobodyIsLeft).            *)
(*                                                                         *)
(* A call holds its id while it is copied, while its record is in the pipe *)
(* or with the child, and while its failed write is being reported.  No    *)
(* two calls hold one id, and no held id was given back.                   *)
(***************************************************************************)
EXTENDS Connection, TLAPS

Holding(k) == frames[k].k \in {"copy", "unsent"}
InPipe(r) == \E j \in DOMAIN pipe : pipe[j] = r
InFrame(r) == \E k \in DOMAIN frames : Holding(k) /\ frames[k].r = r
Delivered(r) == r \in received \/ InPipe(r)
Holds(r) == Delivered(r) \/ InFrame(r)

CallRecord == [id : Nat, st : Outcomes, by : Nat]
AnswerRecord == [id : Nat \ {0}, by : Nat, echo : BOOLEAN]
FrameRecord == [k : {"copy", "announce", "unsent", "failing"}, r : Nat]

Shape ==
  /\ nextId \in Nat
  /\ req \in Seq(CallRecord)
  /\ frames \in Seq(FrameRecord)
  /\ pipe \in Seq(Nat)
  /\ said \in Seq(AnswerRecord)
  /\ heard \in 0..Len(said)

(* Where a call is: in one place at most. *)
Places ==
  /\ received \subseteq DOMAIN req
  /\ \A j \in DOMAIN pipe : pipe[j] \in DOMAIN req /\ pipe[j] \notin received
  /\ \A i, j \in DOMAIN pipe : pipe[i] = pipe[j] => i = j
  /\ \A k \in DOMAIN frames : Holding(k) => frames[k].r \in DOMAIN req /\ ~Delivered(frames[k].r)
  /\ \A k, l \in DOMAIN frames : Holding(k) /\ Holding(l) /\ frames[k].r = frames[l].r => k = l

(* Every id up to the counter is held by one call, was given back, or was forgotten. *)
IdsKept ==
  /\ \A r \in DOMAIN req : Holds(r) =>
       req[r].id \in 1..nextId /\ req[r].id \notin DOMAIN unsent /\ req[r].id \notin evicted
  /\ \A r, q \in DOMAIN req : Holds(r) /\ Holds(q) /\ req[r].id = req[q].id => r = q
  /\ DOMAIN unsent \subseteq 1..nextId /\ evicted \subseteq 1..nextId
  /\ DOMAIN unsent \intersect evicted = {}
  /\ \A i \in 1..nextId : i \in DOMAIN unsent \/ i \in evicted \/ \E r \in DOMAIN req : Holds(r) /\ req[r].id = i

(* A call that waits under an id is the one whose answer carries it. *)
Waits ==
  \A i \in DOMAIN pending :
    /\ pending[i] \in DOMAIN req /\ req[pending[i]].id = i
    /\ \A r \in DOMAIN req : Delivered(r) /\ req[r].id = i => pending[i] = r

Answers ==
  \A n \in DOMAIN said : said[n].by # 0 => said[n].by \in received /\ said[n].id = req[said[n].by].id

CallInv == Shape /\ Places /\ IdsKept /\ Waits /\ Answers

-------------------------------------------------------------------------------
(* What a step of a call does to its place, apart from the ids. *)

SameIds == DOMAIN req' = DOMAIN req /\ \A r \in DOMAIN req : req'[r].id = req[r].id

LEMMA KeptIds ==
  ASSUME Shape, IdsKept, SameIds, UNCHANGED <<nextId, unsent, evicted>>,
         \A r \in DOMAIN req : Holds(r)' <=> Holds(r)
  PROVE  IdsKept'
BY DEF IdsKept, SameIds

(* An id that is remembered as given back, or makes the oldest one forgotten. *)
LEMMA Remembered ==
  ASSUME NEW id, id \notin DOMAIN unsent, Remember(id)
  PROVE  \/ DOMAIN unsent' = DOMAIN unsent \union {id} /\ evicted' = evicted
         \/ \E oldest \in DOMAIN unsent \union {id} :
              DOMAIN unsent' = (DOMAIN unsent \union {id}) \ {oldest} /\ evicted' = evicted \union {oldest}
<1> DEFINE grown == [i \in DOMAIN unsent \union {id} |-> IF i = id THEN DOMAIN unsent ELSE unsent[i]]
<1>1. CASE Cardinality(DOMAIN grown) > MaxUnsent
  <2>1. PICK oldest \in DOMAIN grown :
          /\ unsent' = [i \in DOMAIN grown \ {oldest} |-> grown[i] \ {oldest}]
          /\ evicted' = evicted \union {oldest}
    BY <1>1 DEF Remember
  <2>2. DOMAIN grown = DOMAIN unsent \union {id} /\ DOMAIN unsent' = DOMAIN grown \ {oldest}
    BY <2>1
  <2> QED BY <2>1, <2>2
<1>2. CASE ~(Cardinality(DOMAIN grown) > MaxUnsent)
  BY <1>2 DEF Remember
<1> QED BY <1>1, <1>2

LEMMA RememberedIds ==
  ASSUME Shape, IdsKept, SameIds, NEW r \in DOMAIN req, Holds(r), Remember(req[r].id), nextId' = nextId,
         \A q \in DOMAIN req : Holds(q)' <=> (Holds(q) /\ q # r)
  PROVE  IdsKept'
<1> DEFINE id == req[r].id
<1>1. id \in 1..nextId /\ id \notin DOMAIN unsent /\ id \notin evicted /\ nextId \in Nat
  BY DEF IdsKept, Shape
<1>2. \/ DOMAIN unsent' = DOMAIN unsent \union {id} /\ evicted' = evicted
      \/ \E oldest \in DOMAIN unsent \union {id} :
           DOMAIN unsent' = (DOMAIN unsent \union {id}) \ {oldest} /\ evicted' = evicted \union {oldest}
  BY <1>1, Remembered
<1>3. /\ \A i : (i \in DOMAIN unsent' \/ i \in evicted') <=> (i \in DOMAIN unsent \/ i \in evicted \/ i = id)
      /\ DOMAIN unsent' \intersect evicted' = {}
  <2>1. DOMAIN unsent \intersect evicted = {} /\ id \notin DOMAIN unsent /\ id \notin evicted
    BY <1>1 DEF IdsKept
  <2>2. CASE DOMAIN unsent' = DOMAIN unsent \union {id} /\ evicted' = evicted
    <3> HIDE DEF id
    <3> QED BY <2>1, <2>2
  <2>3. ASSUME NEW oldest \in DOMAIN unsent \union {id},
               DOMAIN unsent' = (DOMAIN unsent \union {id}) \ {oldest}, evicted' = evicted \union {oldest}
        PROVE  /\ \A i : (i \in DOMAIN unsent' \/ i \in evicted') <=> (i \in DOMAIN unsent \/ i \in evicted \/ i = id)
               /\ DOMAIN unsent' \intersect evicted' = {}
    <3> HIDE DEF id
    <3> QED BY <2>1, <2>3
  <2> QED BY <1>2, <2>2, <2>3
<1>4. \A q \in DOMAIN req : Holds(q)' => req'[q].id = req[q].id /\ req[q].id # id /\ Holds(q)
  BY DEF IdsKept, SameIds
<1>5. \A q \in DOMAIN req' : Holds(q)' =>
        req'[q].id \in 1..nextId' /\ req'[q].id \notin DOMAIN unsent' /\ req'[q].id \notin evicted'
  BY <1>3, <1>4 DEF IdsKept, SameIds
<1>6. \A p, q \in DOMAIN req' : Holds(p)' /\ Holds(q)' /\ req'[p].id = req'[q].id => p = q
  BY <1>4 DEF IdsKept, SameIds
<1>7. DOMAIN unsent' \subseteq 1..nextId' /\ evicted' \subseteq 1..nextId'
  BY <1>1, <1>3 DEF IdsKept
<1>8. \A i \in 1..nextId' : i \in DOMAIN unsent' \/ i \in evicted' \/ \E q \in DOMAIN req' : Holds(q)' /\ req'[q].id = i
  BY <1>3, <1>4 DEF IdsKept, SameIds
<1> QED BY <1>3, <1>5, <1>6, <1>7, <1>8 DEF IdsKept

(* The ids after a call that was not sent gave its id back. *)
LEMMA ReleasedIds ==
  ASSUME Shape, IdsKept, SameIds, NEW r \in DOMAIN req, Holds(r), Release(req[r].id),
         \A q \in DOMAIN req : Holds(q)' <=> (Holds(q) /\ q # r)
  PROVE  IdsKept' /\ nextId' \in Nat
<1> DEFINE id == req[r].id
<1>1. id \in 1..nextId /\ id \notin DOMAIN unsent /\ id \notin evicted /\ nextId \in Nat
  BY DEF IdsKept, Shape
<1>2. CASE id = nextId
  <2>1. PICK last \in (0..(id - 1)) \ DOMAIN unsent :
          /\ (last + 1)..(id - 1) \subseteq DOMAIN unsent
          /\ nextId' = last /\ unsent' = Given({i \in DOMAIN unsent : i <= last})
          /\ UNCHANGED evicted
    BY <1>2 DEF Release
  <2>2. DOMAIN unsent' = {i \in DOMAIN unsent : i <= last}
    BY <2>1 DEF Given
  <2>3. last \in Nat /\ last < id /\ \A i \in 1..nextId : i # id /\ i \notin DOMAIN unsent => i <= last
    BY <1>1, <1>2, <2>1
  <2>4. \A q \in DOMAIN req : Holds(q)' => req'[q].id = req[q].id /\ req[q].id # id /\ Holds(q)
    BY DEF IdsKept, SameIds
  <2>5. \A q \in DOMAIN req' : Holds(q)' =>
          req'[q].id \in 1..nextId' /\ req'[q].id \notin DOMAIN unsent' /\ req'[q].id \notin evicted'
    BY <2>1, <2>2, <2>3, <2>4 DEF IdsKept, SameIds
  <2>6. \A p, q \in DOMAIN req' : Holds(p)' /\ Holds(q)' /\ req'[p].id = req'[q].id => p = q
    BY <2>4 DEF IdsKept, SameIds
  <2>7. DOMAIN unsent' \subseteq 1..nextId' /\ DOMAIN unsent' \intersect evicted' = {}
    <3>1. DOMAIN unsent \subseteq 1..nextId /\ DOMAIN unsent \intersect evicted = {} /\ evicted' = evicted /\ nextId' = last
      BY <2>1 DEF IdsKept
    <3> QED BY <1>1, <2>2, <2>3, <3>1
  <2>8. evicted' \subseteq 1..nextId'
    BY <1>1, <2>1, <2>3 DEF IdsKept
  <2>9. \A i \in 1..nextId' : i \in DOMAIN unsent' \/ i \in evicted' \/ \E q \in DOMAIN req' : Holds(q)' /\ req'[q].id = i
    <3> SUFFICES ASSUME NEW i \in 1..nextId', i \notin DOMAIN unsent', i \notin evicted'
                 PROVE  \E q \in DOMAIN req' : Holds(q)' /\ req'[q].id = i
      OBVIOUS
    <3>1. i \in 1..nextId /\ i # id /\ i \notin DOMAIN unsent /\ i \notin evicted
      BY <1>1, <1>2, <2>1, <2>2, <2>3
    <3>2. PICK q \in DOMAIN req : Holds(q) /\ req[q].id = i
      BY <3>1 DEF IdsKept
    <3> QED BY <3>1, <3>2 DEF SameIds
  <2> QED BY <2>1, <2>3, <2>5, <2>6, <2>7, <2>8, <2>9 DEF IdsKept
<1>3. CASE id # nextId
  BY <1>1, <1>3, RememberedIds DEF Release
<1> QED BY <1>2, <1>3

-------------------------------------------------------------------------------
(* What the steps of the call stack do to the places of calls. *)

LEMMA Popped ==
  ASSUME Shape, Places, frames # << >>, frames' = Tail(frames), UNCHANGED <<pipe, received>>, DOMAIN req' = DOMAIN req
  PROVE  /\ Places'
         /\ frames' \in Seq(FrameRecord)
         /\ \A r : Delivered(r)' <=> Delivered(r)
         /\ \A r : Holds(r)' <=> Holds(r) /\ ~(Holding(1) /\ frames[1].r = r)
<1>1. /\ frames' \in Seq(FrameRecord)
      /\ \A k \in DOMAIN frames' : k \in Nat /\ k + 1 \in DOMAIN frames /\ frames'[k] = frames[k + 1]
      /\ \A k \in DOMAIN frames : k # 1 => k - 1 \in DOMAIN frames' /\ frames[k] = frames'[k - 1]
      /\ 1 \in DOMAIN frames
  <2>1. frames \in Seq(FrameRecord)
    BY DEF Shape
  <2>2. frames' \in Seq(FrameRecord) /\ Len(frames') = Len(frames) - 1 /\ Len(frames) \in Nat /\ Len(frames) # 0
    BY <2>1
  <2>3. DOMAIN frames = 1..Len(frames) /\ DOMAIN frames' = 1..Len(frames')
    BY <2>1, <2>2
  <2>4. \A k \in 1..Len(frames') : frames'[k] = frames[k + 1]
    BY <2>1, <2>2
  <2>5. \A k \in 1..Len(frames') : k \in Nat /\ k + 1 \in 1..Len(frames)
    BY <2>2
  <2>6. \A k \in 1..Len(frames) : k # 1 => k - 1 \in 1..Len(frames') /\ frames[k] = frames'[k - 1]
    BY <2>2, <2>4
  <2> QED BY <2>2, <2>3, <2>4, <2>5, <2>6
<1>2. \A r : Delivered(r)' <=> Delivered(r)
  BY DEF Delivered, InPipe
<1>3. \A k \in DOMAIN frames' : Holding(k)' => Holding(k + 1)
  BY <1>1 DEF Holding
<1>4. \A k \in DOMAIN frames : k # 1 /\ Holding(k) => Holding(k - 1)'
  BY <1>1 DEF Holding
<1>5. Places'
  <2>1. \A k \in DOMAIN frames' : Holding(k)' => frames'[k].r \in DOMAIN req'
    BY <1>1, <1>3 DEF Places
  <2>2. \A k \in DOMAIN frames' : Holding(k)' => ~Delivered(frames[k + 1].r) /\ frames'[k].r = frames[k + 1].r
    BY <1>1, <1>3 DEF Places
  <2>3. \A k \in DOMAIN frames' : Holding(k)' => (~Delivered(frames[k].r))'
    BY <2>2, <1>2
  <2>4. \A k, l \in DOMAIN frames' : Holding(k)' /\ Holding(l)' /\ frames'[k].r = frames'[l].r => k = l
    <3> SUFFICES ASSUME NEW k \in DOMAIN frames', NEW l \in DOMAIN frames',
                        Holding(k)', Holding(l)', frames'[k].r = frames'[l].r
                 PROVE  k = l
      OBVIOUS
    <3>1. k \in Nat /\ l \in Nat /\ k + 1 \in DOMAIN frames /\ l + 1 \in DOMAIN frames
          /\ Holding(k + 1) /\ Holding(l + 1) /\ frames[k + 1].r = frames[l + 1].r
      BY <1>1, <1>3
    <3>2. k + 1 = l + 1
      BY <3>1 DEF Places
    <3> QED BY <3>1, <3>2
  <2>5. /\ received' \subseteq DOMAIN req'
        /\ \A j \in DOMAIN pipe' : pipe'[j] \in DOMAIN req' /\ pipe'[j] \notin received'
        /\ \A i, j \in DOMAIN pipe' : pipe'[i] = pipe'[j] => i = j
    BY DEF Places
  <2> QED BY <2>1, <2>3, <2>4, <2>5 DEF Places
<1>6. \A r : InFrame(r)' <=> InFrame(r) /\ ~(Holding(1) /\ frames[1].r = r)
  <2>1. ASSUME NEW r, InFrame(r)' PROVE InFrame(r) /\ ~(Holding(1) /\ frames[1].r = r)
    <3>1. PICK k \in DOMAIN frames' : Holding(k)' /\ frames'[k].r = r
      BY <2>1 DEF InFrame
    <3>2. k + 1 \in DOMAIN frames /\ Holding(k + 1) /\ frames[k + 1].r = r /\ k + 1 # 1
      BY <1>1, <1>3, <3>1
    <3> QED BY <1>1, <3>2 DEF InFrame, Places
  <2>2. ASSUME NEW r, InFrame(r), ~(Holding(1) /\ frames[1].r = r) PROVE InFrame(r)'
    <3>1. PICK k \in DOMAIN frames : Holding(k) /\ frames[k].r = r
      BY <2>2 DEF InFrame
    <3>2. k # 1
      BY <2>2, <3>1
    <3>3. k - 1 \in DOMAIN frames' /\ Holding(k - 1)' /\ frames'[k - 1].r = r
      BY <1>1, <1>4, <3>1, <3>2
    <3> QED BY <3>3 DEF InFrame
  <2> QED BY <2>1, <2>2
<1>7. \A r : Holding(1) /\ frames[1].r = r => ~Delivered(r)
  BY <1>1 DEF Places
<1> QED BY <1>1, <1>2, <1>5, <1>6, <1>7 DEF Holds

LEMMA Pushed ==
  ASSUME Shape, NEW f \in FrameRecord,
         NEW g \in Seq(FrameRecord)
  PROVE  /\ <<f>> \o g \in Seq(FrameRecord)
         /\ 1 \in DOMAIN (<<f>> \o g) /\ (<<f>> \o g)[1] = f
         /\ \A n \in DOMAIN (<<f>> \o g) : n # 1 => n - 1 \in DOMAIN g /\ (<<f>> \o g)[n] = g[n - 1]
         /\ \A k \in DOMAIN g : k \in Nat /\ k > 0 /\ k + 1 \in DOMAIN (<<f>> \o g) /\ (<<f>> \o g)[k + 1] = g[k]
<1>1. <<f>> \in Seq(FrameRecord) /\ Len(<<f>>) = 1
  OBVIOUS
<1>2. <<f>> \o g \in Seq(FrameRecord) /\ Len(<<f>> \o g) = Len(g) + 1 /\ Len(g) \in Nat
  BY <1>1
<1>3. DOMAIN (<<f>> \o g) = 1..(Len(g) + 1) /\ DOMAIN g = 1..Len(g)
  BY <1>2
<1>4. (<<f>> \o g)[1] = f
  BY <1>1
<1>5. \A k \in 1..Len(g) : k \in Nat /\ k > 0 /\ k + 1 \in 1..(Len(g) + 1) /\ (<<f>> \o g)[k + 1] = g[k]
  BY <1>1, <1>2
<1>6. \A n \in 1..(Len(g) + 1) : n # 1 => n - 1 \in 1..Len(g) /\ (<<f>> \o g)[n] = g[n - 1]
  BY <1>1, <1>2
<1>7. 1 \in 1..(Len(g) + 1)
  BY <1>2
<1> QED BY <1>2, <1>3, <1>4, <1>5, <1>6, <1>7

-------------------------------------------------------------------------------
(* What the steps do to the statuses of calls. *)

LEMMA Failed ==
  ASSUME Shape, NEW o \in Outcomes, FailPending(o)
  PROVE  /\ req' \in Seq(CallRecord) /\ SameIds /\ DOMAIN pending' = {}
         /\ \A r \in DOMAIN req : req'[r].by = req[r].by /\ req'[r].st \in {req[r].st, o}
<1>1. req \in Seq(CallRecord) /\ DOMAIN req' = DOMAIN req /\ DOMAIN req = 1..Len(req) /\ Len(req) \in Nat
  BY DEF Shape, FailPending
<1>2. \A r \in DOMAIN req : req[r] \in CallRecord /\ req'[r] \in {req[r], [req[r] EXCEPT !.st = o]}
  BY <1>1 DEF FailPending
<1>3. \A r \in DOMAIN req : req'[r] \in CallRecord /\ req'[r].id = req[r].id /\ req'[r].by = req[r].by
                            /\ req'[r].st \in {req[r].st, o}
  BY <1>2 DEF CallRecord
<1>4. req' = [r \in 1..Len(req) |-> req'[r]]
  BY <1>1 DEF FailPending
<1>5. req' \in Seq(CallRecord)
  BY <1>1, <1>3, <1>4
<1> QED BY <1>1, <1>3, <1>5 DEF FailPending, SameIds

LEMMA Changed ==
  ASSUME Shape, NEW r \in DOMAIN req, NEW o \in Outcomes, NEW b \in Nat,
         req' = [req EXCEPT ![r] = [@ EXCEPT !.st = o, !.by = b]]
  PROVE  /\ req' \in Seq(CallRecord) /\ SameIds
         /\ req'[r].st = o /\ req'[r].by = b /\ \A q \in DOMAIN req : q # r => req'[q] = req[q]
<1>1. req \in Seq(CallRecord) /\ req[r] \in CallRecord
  BY DEF Shape
<1>2. [req[r] EXCEPT !.st = o, !.by = b] \in CallRecord
  BY <1>1 DEF CallRecord
<1>3. req' \in Seq(CallRecord)
  BY <1>1, <1>2
<1>4. DOMAIN req' = DOMAIN req /\ req'[r] = [req[r] EXCEPT !.st = o, !.by = b]
  BY <1>1
<1>5. \A q \in DOMAIN req : q # r => req'[q] = req[q]
  BY <1>1
<1> QED BY <1>1, <1>3, <1>4, <1>5 DEF SameIds, CallRecord

LEMMA StatusChanged ==
  ASSUME Shape, NEW r \in DOMAIN req, NEW o \in Outcomes, req' = [req EXCEPT ![r].st = o]
  PROVE  /\ req' \in Seq(CallRecord) /\ SameIds
         /\ req'[r].st = o /\ req'[r].by = req[r].by /\ \A q \in DOMAIN req : q # r => req'[q] = req[q]
<1>1. req \in Seq(CallRecord) /\ req[r] \in CallRecord
  BY DEF Shape
<1>2. [req[r] EXCEPT !.st = o] \in CallRecord
  BY <1>1 DEF CallRecord
<1>3. req' \in Seq(CallRecord)
  BY <1>1, <1>2
<1>4. DOMAIN req' = DOMAIN req /\ req'[r] = [req[r] EXCEPT !.st = o]
  BY <1>1
<1>5. \A q \in DOMAIN req : q # r => req'[q] = req[q]
  BY <1>1
<1> QED BY <1>1, <1>3, <1>4, <1>5 DEF SameIds, CallRecord

(* A step that moves no call, gives no id back and lets nobody wait who did not. *)
LEMMA Still ==
  ASSUME CallInv, UNCHANGED <<nextId, unsent, evicted, frames, pipe, received, said>>, heard' \in 0..Len(said),
         req' \in Seq(CallRecord), SameIds,
         \A i \in DOMAIN pending' : i \in DOMAIN pending /\ pending'[i] = pending[i]
  PROVE  CallInv'
<1>1. Shape'
  BY DEF CallInv, Shape
<1>2. \A r : (Delivered(r)' <=> Delivered(r)) /\ (Holds(r)' <=> Holds(r))
  BY DEF Delivered, InPipe, Holds, InFrame, Holding
<1>3. Places'
  BY <1>2 DEF CallInv, Places, SameIds, Holding
<1>4. IdsKept'
  BY <1>2, KeptIds DEF CallInv
<1>5. Waits'
  BY <1>2 DEF CallInv, Waits, SameIds
<1>6. Answers'
  BY DEF CallInv, Answers, SameIds, Places
<1> QED BY <1>1, <1>3, <1>4, <1>5, <1>6 DEF CallInv

-------------------------------------------------------------------------------
(* The steps, one by one. *)

LEMMA CallKeeps == CallInv /\ Call => CallInv'
<1> SUFFICES ASSUME CallInv, Call PROVE CallInv'
  OBVIOUS
<1> DEFINE new == [id |-> nextId', st |-> "copied", by |-> 0]
           n == Len(req) + 1
<1>1. req \in Seq(CallRecord) /\ Len(req) \in Nat /\ DOMAIN req = 1..Len(req) /\ new \in CallRecord
      /\ nextId \in Nat /\ nextId' = nextId + 1 /\ frames \in Seq(FrameRecord)
  <2>1. req \in Seq(CallRecord) /\ nextId \in Nat /\ nextId' = nextId + 1 /\ frames \in Seq(FrameRecord)
    BY DEF CallInv, Shape, Call
  <2>2. nextId' \in Nat /\ "copied" \in Outcomes
    BY <2>1 DEF Outcomes
  <2>3. new \in CallRecord
    BY <2>2 DEF CallRecord
  <2> QED BY <2>1, <2>3
<1>2. req' \in Seq(CallRecord) /\ Len(req') = n /\ DOMAIN req' = 1..n /\ req'[n] = new
      /\ \A r \in DOMAIN req : req'[r] = req[r]
  BY <1>1 DEF Call
<1>3. Frame("copy", n) \in FrameRecord /\ frames' = <<Frame("copy", n)>> \o frames
  BY <1>1, <1>2 DEF Call, Frame, FrameRecord
<1>4. /\ frames' \in Seq(FrameRecord)
      /\ 1 \in DOMAIN frames' /\ frames'[1] = Frame("copy", n)
      /\ \A k \in DOMAIN frames' : k # 1 => k - 1 \in DOMAIN frames /\ frames'[k] = frames[k - 1]
      /\ \A k \in DOMAIN frames : k \in Nat /\ k > 0 /\ k + 1 \in DOMAIN frames' /\ frames'[k + 1] = frames[k]
  BY <1>1, <1>3, Pushed DEF CallInv
<1>5. UNCHANGED <<unsent, evicted, pending, pipe, received, said, heard>>
  BY DEF Call, lineVars
<1>6. \A r : Delivered(r)' <=> Delivered(r)
  BY <1>5 DEF Delivered, InPipe
<1>7. n \notin DOMAIN req /\ DOMAIN req' = DOMAIN req \union {n}
  BY <1>1, <1>2
<1>8. \A r : Holds(r) => r \in DOMAIN req
  BY DEF CallInv, Places, Holds, Delivered, InPipe, InFrame
<1>9. \A r : Holds(r)' <=> Holds(r) \/ r = n
  <2>1. \A k \in DOMAIN frames' : Holding(k)' => IF k = 1 THEN frames'[k].r = n
                                                          ELSE Holding(k - 1) /\ frames'[k].r = frames[k - 1].r
    BY <1>4 DEF Holding, Frame
  <2>2. \A k \in DOMAIN frames : Holding(k) => Holding(k + 1)' /\ frames'[k + 1].r = frames[k].r
    BY <1>4 DEF Holding
  <2>3. Holding(1)' /\ frames'[1].r = n
    BY <1>4 DEF Holding, Frame
  <2>4. \A r : InFrame(r)' <=> InFrame(r) \/ r = n
    BY <1>4, <2>1, <2>2, <2>3 DEF InFrame
  <2> QED BY <1>6, <2>4 DEF Holds
<1>10. Shape'
  BY <1>1, <1>2, <1>4, <1>5 DEF CallInv, Shape
<1>11. Places'
  <2>1. \A k \in DOMAIN frames' : Holding(k)' =>
          IF k = 1 THEN frames'[k].r = n
          ELSE Holding(k - 1) /\ frames'[k].r = frames[k - 1].r /\ k - 1 \in DOMAIN frames /\ frames[k - 1].r \in DOMAIN req
    BY <1>4 DEF Holding, Frame, CallInv, Places
  <2>2. ~Delivered(n)
    BY <1>7, <1>8 DEF Holds
  <2>3. \A k \in DOMAIN frames' : Holding(k)' => frames'[k].r \in DOMAIN req' /\ ~Delivered(frames'[k].r)
    BY <1>4, <1>7, <2>1, <2>2 DEF CallInv, Places
  <2>4. \A k, l \in DOMAIN frames' : Holding(k)' /\ Holding(l)' /\ frames'[k].r = frames'[l].r => k = l
    <3> SUFFICES ASSUME NEW k \in DOMAIN frames', NEW l \in DOMAIN frames',
                        Holding(k)', Holding(l)', frames'[k].r = frames'[l].r
                 PROVE  k = l
      OBVIOUS
    <3>1. k \in Nat /\ l \in Nat
      BY <1>4
    <3>2. CASE k = 1 \/ l = 1
      BY <1>7, <2>1, <3>2
    <3>3. CASE k # 1 /\ l # 1
      <4>1. k - 1 = l - 1
        BY <2>1, <3>3 DEF CallInv, Places
      <4> QED BY <3>1, <4>1
    <3> QED BY <3>2, <3>3
  <2>5. \A k \in DOMAIN frames' : Holding(k)' => (~Delivered(frames[k].r))'
    BY <1>6, <2>3
  <2> QED BY <1>5, <1>7, <2>3, <2>4, <2>5 DEF CallInv, Places
<1>12. IdsKept'
  <2>1. \A r \in DOMAIN req : Holds(r) => req[r].id \in 1..nextId /\ req'[r].id = req[r].id
    BY <1>2 DEF CallInv, IdsKept
  <2>2. req'[n].id = nextId + 1 /\ nextId + 1 \notin DOMAIN unsent /\ nextId + 1 \notin evicted
    BY <1>1, <1>2 DEF CallInv, IdsKept
  <2>3. \A r \in DOMAIN req' : Holds(r)' =>
          req'[r].id \in 1..nextId' /\ req'[r].id \notin DOMAIN unsent' /\ req'[r].id \notin evicted'
    BY <1>1, <1>5, <1>7, <1>9, <2>1, <2>2 DEF CallInv, IdsKept
  <2>4. \A r, q \in DOMAIN req' : Holds(r)' /\ Holds(q)' /\ req'[r].id = req'[q].id => r = q
    BY <1>1, <1>7, <1>9, <1>8, <2>1, <2>2 DEF CallInv, IdsKept
  <2>5. DOMAIN unsent' \subseteq 1..nextId' /\ evicted' \subseteq 1..nextId' /\ DOMAIN unsent' \intersect evicted' = {}
    BY <1>1, <1>5 DEF CallInv, IdsKept
  <2>6. \A i \in 1..nextId' : i \in DOMAIN unsent' \/ i \in evicted' \/ \E r \in DOMAIN req' : Holds(r)' /\ req'[r].id = i
    <3> SUFFICES ASSUME NEW i \in 1..nextId', i # nextId + 1, i \notin DOMAIN unsent, i \notin evicted
                 PROVE  \E r \in DOMAIN req' : Holds(r)' /\ req'[r].id = i
      BY <1>5, <1>7, <1>9, <2>2
    <3>1. i \in 1..nextId
      BY <1>1
    <3> QED BY <1>7, <1>9, <2>1, <3>1 DEF CallInv, IdsKept
  <2> QED BY <2>3, <2>4, <2>5, <2>6 DEF IdsKept
<1>13. Waits'
  <2>1. \A r : Delivered(r) => r \in DOMAIN req
    BY <1>8 DEF Holds
  <2> QED BY <1>2, <1>5, <1>6, <1>7, <2>1 DEF CallInv, Waits
<1>14. Answers'
  BY <1>2, <1>5, <1>7 DEF CallInv, Answers, Places
<1> QED BY <1>10, <1>11, <1>12, <1>13, <1>14 DEF CallInv

(* The innermost frame is left, and the call it was copying or reporting holds nothing any more. *)
LEMMA Leaves ==
  ASSUME CallInv, frames # << >>, Holding(1), frames' = Tail(frames),
         UNCHANGED <<pipe, received, said, heard>>, nextId' \in Nat,
         req' \in Seq(CallRecord), SameIds,
         \A i \in DOMAIN pending' : i \in DOMAIN pending /\ pending'[i] = pending[i]
  PROVE  /\ Shape' /\ Places' /\ Waits' /\ Answers'
         /\ frames[1].r \in DOMAIN req /\ Holds(frames[1].r)
         /\ \A q \in DOMAIN req : Holds(q)' <=> (Holds(q) /\ q # frames[1].r)
<1>1. /\ Places' /\ frames' \in Seq(FrameRecord)
      /\ \A r : Delivered(r)' <=> Delivered(r)
      /\ \A r : Holds(r)' <=> Holds(r) /\ ~(Holding(1) /\ frames[1].r = r)
  BY Popped DEF CallInv, SameIds
<1>2. 1 \in DOMAIN frames
  BY DEF CallInv, Shape
<1>3. frames[1].r \in DOMAIN req /\ Holds(frames[1].r)
  BY <1>2 DEF CallInv, Places, Holds, InFrame
<1>4. Shape'
  BY <1>1 DEF CallInv, Shape
<1>5. Waits'
  BY <1>1 DEF CallInv, Waits, SameIds
<1>6. Answers'
  BY DEF CallInv, Answers, SameIds, Places
<1> QED BY <1>1, <1>3, <1>4, <1>5, <1>6

LEMMA RefusesKeeps == CallInv /\ Refuses => CallInv'
<1> SUFFICES ASSUME CallInv, Refuses PROVE CallInv'
  OBVIOUS
<1>1. frames # << >> /\ Holding(1) /\ frames' = Tail(frames) /\ Inner = frames[1].r
  BY DEF Refuses, In, Holding, Inner, CallInv, Shape
<1>2. UNCHANGED <<pending, pipe, received, said, heard>> /\ Release(req[Inner].id)
  BY DEF Refuses, lineVars
<1>3. Inner \in DOMAIN req
  BY <1>1 DEF CallInv, Shape, Places
<1>4. req' \in Seq(CallRecord) /\ SameIds
  BY <1>3, StatusChanged DEF CallInv, Refuses, Outcomes
<1>5. \A q : Holds(q)' <=> (Holds(q) /\ q # Inner)
  BY <1>1, <1>2, <1>4, Popped DEF CallInv, SameIds
<1>6. Holds(Inner)
  BY <1>1 DEF CallInv, Shape, Holds, InFrame
<1>7. IdsKept' /\ nextId' \in Nat
  BY <1>2, <1>3, <1>4, <1>5, <1>6, ReleasedIds DEF CallInv
<1> QED BY <1>1, <1>2, <1>4, <1>7, Leaves DEF CallInv

LEMMA MarksUnsentKeeps == CallInv /\ MarksUnsent => CallInv'
<1> SUFFICES ASSUME CallInv, MarksUnsent PROVE CallInv'
  OBVIOUS
<1>1. frames # << >> /\ Holding(1) /\ frames' = Tail(frames) /\ Inner = frames[1].r
  BY DEF MarksUnsent, In, Holding, Inner, CallInv, Shape
<1>2. UNCHANGED <<nextId, pending, req, pipe, received, said, heard>> /\ Remember(req[Inner].id)
  BY DEF MarksUnsent, lineVars
<1>3. Inner \in DOMAIN req /\ Holds(Inner)
  BY <1>1 DEF CallInv, Shape, Places, Holds, InFrame
<1>4. req' \in Seq(CallRecord) /\ SameIds /\ nextId' \in Nat
  BY <1>2 DEF CallInv, Shape, SameIds
<1>5. \A q : Holds(q)' <=> (Holds(q) /\ q # Inner)
  BY <1>1, <1>2, Popped DEF CallInv
<1>6. IdsKept'
  BY <1>2, <1>3, <1>4, <1>5, RememberedIds DEF CallInv
<1> QED BY <1>1, <1>2, <1>4, <1>6, Leaves DEF CallInv

(* The innermost frame, of no call, is left; or nothing changes on the stack. *)
LEMMA NobodyMoves ==
  ASSUME CallInv, UNCHANGED <<nextId, unsent, evicted, pipe, received, said, heard>>,
         \/ frames' = frames
         \/ frames # << >> /\ ~Holding(1) /\ frames' = Tail(frames),
         req' \in Seq(CallRecord), SameIds,
         \A i \in DOMAIN pending' : i \in DOMAIN pending /\ pending'[i] = pending[i]
  PROVE  CallInv'
<1>1. CASE frames' = frames
  BY <1>1, Still DEF CallInv, Shape
<1>2. CASE frames # << >> /\ ~Holding(1) /\ frames' = Tail(frames)
  <2>1. /\ Places' /\ frames' \in Seq(FrameRecord)
        /\ \A r : (Delivered(r)' <=> Delivered(r)) /\ (Holds(r)' <=> Holds(r))
    BY <1>2, Popped DEF CallInv, SameIds
  <2>2. Shape'
    BY <2>1 DEF CallInv, Shape
  <2>3. IdsKept'
    BY <2>1, KeptIds DEF CallInv
  <2>4. Waits'
    BY <2>1 DEF CallInv, Waits, SameIds
  <2>5. Answers'
    BY DEF CallInv, Answers, SameIds, Places
  <2> QED BY <2>1, <2>2, <2>3, <2>4, <2>5 DEF CallInv
<1> QED BY <1>1, <1>2

LEMMA TellsKeeps == CallInv /\ Tells => CallInv'
<1> SUFFICES ASSUME CallInv, Tells PROVE CallInv'
  OBVIOUS
<1>1. ~Holding(1) /\ frames # << >> /\ (frames' = frames \/ frames' = Tail(frames))
  BY DEF Tells, In, Holding, CallInv, Shape
<1>2. UNCHANGED <<nextId, unsent, evicted, pending, req, pipe, received, said, heard>>
  BY DEF Tells, lineVars
<1>3. req' \in Seq(CallRecord) /\ SameIds
  BY <1>2 DEF CallInv, Shape, SameIds
<1> QED BY <1>1, <1>2, <1>3, NobodyMoves

LEMMA InputFailedKeeps == CallInv /\ InputFailed => CallInv'
<1> SUFFICES ASSUME CallInv, InputFailed PROVE CallInv'
  OBVIOUS
<1>1. ~Holding(1) /\ frames # << >> /\ frames' = Tail(frames)
  <2>1. frames # << >> /\ Head(frames).k = "failing" /\ frames' = Tail(frames)
    BY DEF InputFailed, In
  <2> QED BY <2>1 DEF Holding, CallInv, Shape
<1>2. UNCHANGED <<nextId, unsent, evicted, pipe, received, said, heard>>
  BY DEF InputFailed, lineVars
<1>3. req' \in Seq(CallRecord) /\ SameIds /\ (pending' = pending \/ DOMAIN pending' = {})
  <2>1. CASE UNCHANGED <<pending, req>>
    BY <2>1 DEF CallInv, Shape, SameIds
  <2>2. CASE FailPending("input failed")
    BY <2>2, Failed DEF CallInv, Outcomes
  <2> QED BY <2>1, <2>2 DEF InputFailed
<1> QED BY <1>1, <1>2, <1>3, NobodyMoves

LEMMA InputBreaksKeeps == CallInv /\ InputBreaks => CallInv'
<1> SUFFICES ASSUME CallInv, InputBreaks PROVE CallInv'
  OBVIOUS
<1>1. frames = << >> /\ frames' = <<Frame("failing", 0)>>
  BY DEF InputBreaks, Turn
<1>2. UNCHANGED <<nextId, unsent, evicted, pending, req, pipe, received, said, heard>>
  BY DEF InputBreaks, lineVars
<1>3. frames' \in Seq(FrameRecord) /\ DOMAIN frames = {} /\ \A k \in DOMAIN frames' : ~Holding(k)'
  BY <1>1 DEF Frame, FrameRecord, Holding
<1>4. \A r : (Delivered(r)' <=> Delivered(r)) /\ (Holds(r)' <=> Holds(r))
  BY <1>2, <1>3 DEF Holds, Delivered, InPipe, InFrame
<1>5. SameIds
  BY <1>2 DEF SameIds
<1>6. Shape' /\ Places'
  BY <1>2, <1>3 DEF CallInv, Shape, Places
<1>7. IdsKept'
  BY <1>2, <1>4, <1>5, KeptIds DEF CallInv
<1>8. Waits' /\ Answers'
  BY <1>2, <1>4 DEF CallInv, Waits, Answers
<1> QED BY <1>6, <1>7, <1>8 DEF CallInv

(* What #announce pushes: the frames below it and, at most, one of no call. *)
LEMMA Announced ==
  ASSUME Shape, NEW g \in Seq(FrameRecord), frames' = g \/ frames' = <<Frame("announce", 0)>> \o g
  PROVE  /\ frames' \in Seq(FrameRecord)
         /\ \A n \in DOMAIN frames' : Holding(n)' =>
              \E k \in DOMAIN g : g[k].k \in {"copy", "unsent"} /\ g[k] = frames'[n]
         /\ \A k \in DOMAIN g : g[k].k \in {"copy", "unsent"} => \E n \in DOMAIN frames' : Holding(n)' /\ g[k] = frames'[n]
         /\ (\A k, l \in DOMAIN g : g[k].k \in {"copy", "unsent"} /\ g[l].k \in {"copy", "unsent"} /\ g[k].r = g[l].r => k = l)
            => \A n, o \in DOMAIN frames' : Holding(n)' /\ Holding(o)' /\ frames'[n].r = frames'[o].r => n = o
<1> DEFINE f == Frame("announce", 0)
<1>1. f \in FrameRecord /\ f.k = "announce"
  BY DEF Frame, FrameRecord
<1>2. CASE frames' = g
  BY <1>2 DEF Holding
<1>3. CASE frames' = <<f>> \o g
  <2>1. /\ frames' \in Seq(FrameRecord)
        /\ 1 \in DOMAIN frames' /\ frames'[1] = f
        /\ \A n \in DOMAIN frames' : n # 1 => n - 1 \in DOMAIN g /\ frames'[n] = g[n - 1]
        /\ \A k \in DOMAIN g : k \in Nat /\ k > 0 /\ k + 1 \in DOMAIN frames' /\ frames'[k + 1] = g[k]
    BY <1>1, <1>3, Pushed
  <2>2. \A n \in DOMAIN frames' : Holding(n)' => n # 1 /\ g[n - 1].k \in {"copy", "unsent"}
    BY <1>1, <2>1 DEF Holding
  <2>3. \A k \in DOMAIN g : g[k].k \in {"copy", "unsent"} => Holding(k + 1)'
    BY <2>1 DEF Holding
  <2>4. ASSUME \A k, l \in DOMAIN g : g[k].k \in {"copy", "unsent"} /\ g[l].k \in {"copy", "unsent"} /\ g[k].r = g[l].r => k = l,
               NEW n \in DOMAIN frames', NEW o \in DOMAIN frames', Holding(n)', Holding(o)', frames'[n].r = frames'[o].r
        PROVE  n = o
    <3>1. n \in Nat /\ o \in Nat
      BY <2>1
    <3>2. /\ n - 1 \in DOMAIN g /\ g[n - 1].k \in {"copy", "unsent"} /\ g[n - 1] = frames'[n]
          /\ o - 1 \in DOMAIN g /\ g[o - 1].k \in {"copy", "unsent"} /\ g[o - 1] = frames'[o]
      BY <2>1, <2>2, <2>4
    <3>3. n - 1 = o - 1
      BY <2>4, <3>2
    <3> QED BY <3>1, <3>3
  <2> QED BY <2>1, <2>2, <2>3, <2>4
<1> QED BY <1>2, <1>3

LEMMA WritesKeeps == CallInv /\ Writes => CallInv'
<1> SUFFICES ASSUME CallInv, Writes PROVE CallInv'
  OBVIOUS
<1> DEFINE g == Tail(frames)
<1>1. frames \in Seq(FrameRecord) /\ frames # << >> /\ Inner = frames[1].r /\ Holding(1) /\ 1 \in DOMAIN frames
  BY DEF Writes, In, Holding, Inner, CallInv, Shape
<1>2. /\ g \in Seq(FrameRecord)
      /\ \A k \in DOMAIN g : k \in Nat /\ k + 1 \in DOMAIN frames /\ k + 1 # 1 /\ g[k] = frames[k + 1]
      /\ \A k \in DOMAIN frames : k # 1 => k - 1 \in DOMAIN g /\ frames[k] = g[k - 1]
  <2>1. g \in Seq(FrameRecord) /\ Len(g) = Len(frames) - 1 /\ Len(frames) \in Nat /\ Len(frames) # 0
    BY <1>1
  <2>2. DOMAIN frames = 1..Len(frames) /\ DOMAIN g = 1..Len(g)
    BY <1>1, <2>1
  <2>3. \A k \in 1..Len(g) : k \in Nat /\ k + 1 \in 1..Len(frames) /\ k + 1 # 1 /\ g[k] = frames[k + 1]
    BY <1>1, <2>1
  <2>4. \A k \in 1..Len(frames) : k # 1 => k - 1 \in 1..Len(g) /\ frames[k] = g[k - 1]
    BY <2>1, <2>3
  <2> QED BY <2>1, <2>2, <2>3, <2>4
<1>3. Inner \in DOMAIN req /\ ~Delivered(Inner) /\ Holds(Inner)
  BY <1>1 DEF CallInv, Places, Holds, InFrame
<1>4. \A k \in DOMAIN g : g[k].k \in {"copy", "unsent"} =>
        g[k].r # Inner /\ g[k].r \in DOMAIN req /\ ~Delivered(g[k].r)
  BY <1>1, <1>2 DEF CallInv, Places, Holding
<1>5. \A k, l \in DOMAIN g : g[k].k \in {"copy", "unsent"} /\ g[l].k \in {"copy", "unsent"} /\ g[k].r = g[l].r => k = l
  <2> SUFFICES ASSUME NEW k \in DOMAIN g, NEW l \in DOMAIN g, g[k].k \in {"copy", "unsent"},
                      g[l].k \in {"copy", "unsent"}, g[k].r = g[l].r
               PROVE  k = l
    OBVIOUS
  <2>1. k \in Nat /\ l \in Nat
    BY <1>2
  <2>2. k + 1 \in DOMAIN frames /\ l + 1 \in DOMAIN frames /\ Holding(k + 1) /\ Holding(l + 1)
        /\ frames[k + 1].r = frames[l + 1].r
    BY <1>2 DEF Holding
  <2>3. k + 1 = l + 1
    BY <2>2 DEF CallInv, Places
  <2> QED BY <2>1, <2>3
<1>6. frames' = g \/ frames' = <<Frame("announce", 0)>> \o g
  BY DEF Writes, Announce
<1>7. /\ frames' \in Seq(FrameRecord)
      /\ \A n \in DOMAIN frames' : Holding(n)' => \E k \in DOMAIN g : g[k].k \in {"copy", "unsent"} /\ g[k] = frames'[n]
      /\ \A k \in DOMAIN g : g[k].k \in {"copy", "unsent"} => \E n \in DOMAIN frames' : Holding(n)' /\ g[k] = frames'[n]
      /\ \A n, o \in DOMAIN frames' : Holding(n)' /\ Holding(o)' /\ frames'[n].r = frames'[o].r => n = o
  <2> HIDE DEF g
  <2> QED BY <1>2, <1>5, <1>6, Announced DEF CallInv
<1>8. UNCHANGED <<nextId, unsent, evicted, received, said, heard>> /\ pipe' = Append(pipe, Inner)
      /\ pending' = [i \in DOMAIN pending \union {req[Inner].id} |-> IF i = req[Inner].id THEN Inner ELSE pending[i]]
  BY DEF Writes
<1>9. req' \in Seq(CallRecord) /\ SameIds
  BY <1>3, StatusChanged DEF CallInv, Writes, Outcomes
<1>10. /\ pipe' \in Seq(Nat) /\ Len(pipe) \in Nat /\ Len(pipe') = Len(pipe) + 1
       /\ DOMAIN pipe = 1..Len(pipe) /\ DOMAIN pipe' = 1..(Len(pipe) + 1)
       /\ pipe'[Len(pipe) + 1] = Inner /\ \A j \in 1..Len(pipe) : pipe'[j] = pipe[j]
  <2>1. pipe \in Seq(Nat) /\ Inner \in Nat
    BY <1>3 DEF CallInv, Shape
  <2> QED BY <1>8, <2>1
<1>11. \A r : InPipe(r)' <=> InPipe(r) \/ r = Inner
  BY <1>10 DEF InPipe
<1>12. \A r : Delivered(r)' <=> Delivered(r) \/ r = Inner
  BY <1>8, <1>11 DEF Delivered
<1>13. \A r : InFrame(r)' <=> InFrame(r) /\ r # Inner
  <2>1. ASSUME NEW r, InFrame(r)' PROVE InFrame(r) /\ r # Inner
    <3>1. PICK n \in DOMAIN frames' : Holding(n)' /\ frames'[n].r = r
      BY <2>1 DEF InFrame
    <3>2. PICK k \in DOMAIN g : g[k].k \in {"copy", "unsent"} /\ g[k].r = r
      BY <1>7, <3>1
    <3>3. k + 1 \in DOMAIN frames /\ Holding(k + 1) /\ frames[k + 1].r = r /\ r # Inner
      BY <1>2, <1>4, <3>2 DEF Holding
    <3> QED BY <3>3 DEF InFrame
  <2>2. ASSUME NEW r, InFrame(r), r # Inner PROVE InFrame(r)'
    <3>1. PICK k \in DOMAIN frames : Holding(k) /\ frames[k].r = r
      BY <2>2 DEF InFrame
    <3>2. k - 1 \in DOMAIN g /\ g[k - 1].k \in {"copy", "unsent"} /\ g[k - 1].r = r
      BY <1>1, <1>2, <2>2, <3>1 DEF Holding
    <3> HIDE DEF g
    <3>3. PICK n \in DOMAIN frames' : Holding(n)' /\ g[k - 1] = frames'[n]
      BY <1>7, <3>2
    <3> QED BY <3>2, <3>3 DEF InFrame
  <2> QED BY <2>1, <2>2
<1>14. \A r : Holds(r)' <=> Holds(r)
  BY <1>3, <1>12, <1>13 DEF Holds
<1>15. Shape'
  BY <1>7, <1>8, <1>9, <1>10 DEF CallInv, Shape
<1>16. IdsKept'
  BY <1>8, <1>9, <1>14, KeptIds DEF CallInv
<1>17. Places'
  <2>1. \A n \in DOMAIN frames' : Holding(n)' =>
          frames'[n].r \in DOMAIN req' /\ frames'[n].r # Inner /\ ~Delivered(frames'[n].r)
    BY <1>4, <1>7, <1>9 DEF SameIds
  <2>2. \A n \in DOMAIN frames' : Holding(n)' => (~Delivered(frames[n].r))'
    BY <1>12, <2>1
  <2>3. \A j \in DOMAIN pipe' : pipe'[j] \in DOMAIN req' /\ pipe'[j] \notin received'
    BY <1>3, <1>8, <1>9, <1>10 DEF CallInv, Places, SameIds, Delivered
  <2>4. \A i, j \in DOMAIN pipe' : pipe'[i] = pipe'[j] => i = j
    BY <1>3, <1>10 DEF CallInv, Places, Delivered, InPipe
  <2>5. received' \subseteq DOMAIN req'
    BY <1>8, <1>9 DEF CallInv, Places, SameIds
  <2> QED BY <1>7, <2>1, <2>2, <2>3, <2>4, <2>5 DEF Places
<1>18. Waits'
  <2>1. \A r \in DOMAIN req : Delivered(r) => req[r].id # req[Inner].id
    BY <1>3 DEF CallInv, IdsKept, Holds
  <2>2. DOMAIN pending' = DOMAIN pending \union {req[Inner].id} /\ pending'[req[Inner].id] = Inner
        /\ \A i \in DOMAIN pending : i # req[Inner].id => pending'[i] = pending[i]
    BY <1>8
  <2>3. ASSUME NEW i \in DOMAIN pending'
        PROVE  /\ pending'[i] \in DOMAIN req /\ req[pending'[i]].id = i
               /\ \A r \in DOMAIN req : (Delivered(r) \/ r = Inner) /\ req[r].id = i => pending'[i] = r
    <3>1. CASE i = req[Inner].id
      BY <1>3, <2>1, <2>2, <3>1
    <3>2. CASE i # req[Inner].id
      BY <2>2, <2>3, <3>2 DEF CallInv, Waits
    <3> QED BY <3>1, <3>2
  <2> QED BY <1>9, <1>12, <2>3 DEF Waits, SameIds
<1>19. Answers'
  BY <1>8, <1>9 DEF CallInv, Answers, SameIds, Places
<1> QED BY <1>15, <1>16, <1>17, <1>18, <1>19 DEF CallInv

(* What Tail does to the records in the pipe. *)
LEMMA Taken ==
  ASSUME Shape, Places, pipe # << >>, pipe' = Tail(pipe)
  PROVE  /\ pipe' \in Seq(Nat) /\ 1 \in DOMAIN pipe /\ Head(pipe) = pipe[1] /\ Head(pipe) \in Nat
         /\ \A j \in DOMAIN pipe' : j \in Nat /\ j + 1 \in DOMAIN pipe /\ j + 1 # 1 /\ pipe'[j] = pipe[j + 1]
         /\ \A r : InPipe(r)' <=> InPipe(r) /\ r # Head(pipe)
         /\ \A i, j \in DOMAIN pipe' : pipe'[i] = pipe'[j] => i = j
         /\ Head(pipe) \in DOMAIN req /\ InPipe(Head(pipe))
<1>1. pipe \in Seq(Nat)
  BY DEF Shape
<1>2. pipe' \in Seq(Nat) /\ Len(pipe') = Len(pipe) - 1 /\ Len(pipe) \in Nat /\ Len(pipe) # 0
  BY <1>1
<1>3. DOMAIN pipe = 1..Len(pipe) /\ DOMAIN pipe' = 1..Len(pipe') /\ Head(pipe) = pipe[1] /\ Head(pipe) \in Nat
  BY <1>1, <1>2
<1>4. \A j \in 1..Len(pipe') : j \in Nat /\ j + 1 \in 1..Len(pipe) /\ j + 1 # 1 /\ pipe'[j] = pipe[j + 1]
  BY <1>1, <1>2
<1>5. \A j \in 1..Len(pipe) : j # 1 => j - 1 \in 1..Len(pipe') /\ pipe[j] = pipe'[j - 1]
  BY <1>2, <1>4
<1>6. 1 \in DOMAIN pipe
  BY <1>2, <1>3
<1>7. \A i, j \in DOMAIN pipe : pipe[i] = pipe[j] => i = j
  BY DEF Places
<1>8. \A r : InPipe(r)' <=> InPipe(r) /\ r # Head(pipe)
  <2>1. ASSUME NEW r, InPipe(r)' PROVE InPipe(r) /\ r # Head(pipe)
    <3>1. PICK j \in DOMAIN pipe' : pipe'[j] = r
      BY <2>1 DEF InPipe
    <3>2. j + 1 \in DOMAIN pipe /\ pipe[j + 1] = r /\ j + 1 # 1
      BY <1>3, <1>4, <3>1
    <3> QED BY <1>3, <1>6, <1>7, <3>2 DEF InPipe
  <2>2. ASSUME NEW r, InPipe(r), r # Head(pipe) PROVE InPipe(r)'
    <3>1. PICK j \in DOMAIN pipe : pipe[j] = r
      BY <2>2 DEF InPipe
    <3>2. j - 1 \in DOMAIN pipe' /\ pipe'[j - 1] = r
      BY <1>3, <1>5, <2>2, <3>1
    <3> QED BY <3>2 DEF InPipe
  <2> QED BY <2>1, <2>2
<1>9. \A i, j \in DOMAIN pipe' : pipe'[i] = pipe'[j] => i = j
  <2> SUFFICES ASSUME NEW i \in DOMAIN pipe', NEW j \in DOMAIN pipe', pipe'[i] = pipe'[j] PROVE i = j
    OBVIOUS
  <2>1. i \in Nat /\ j \in Nat /\ i + 1 \in DOMAIN pipe /\ j + 1 \in DOMAIN pipe /\ pipe[i + 1] = pipe[j + 1]
    BY <1>3, <1>4
  <2>2. i + 1 = j + 1
    BY <1>7, <2>1
  <2> QED BY <2>1, <2>2
<1>10. Head(pipe) \in DOMAIN req /\ InPipe(Head(pipe))
  BY <1>3, <1>6 DEF Places, InPipe
<1> QED BY <1>2, <1>3, <1>4, <1>6, <1>8, <1>9, <1>10

LEMMA ChildReadsKeeps == CallInv /\ ChildReads => CallInv'
<1> SUFFICES ASSUME CallInv, ChildReads PROVE CallInv'
  OBVIOUS
<1>1. UNCHANGED <<nextId, unsent, evicted, pending, req, frames, said, heard>>
      /\ pipe # << >> /\ pipe' = Tail(pipe) /\ received' = received \union {Head(pipe)}
  BY DEF ChildReads, callVars
<1>2. /\ pipe' \in Seq(Nat)
      /\ \A j \in DOMAIN pipe' : j + 1 \in DOMAIN pipe /\ j + 1 # 1 /\ pipe'[j] = pipe[j + 1]
      /\ \A r : InPipe(r)' <=> InPipe(r) /\ r # Head(pipe)
      /\ \A i, j \in DOMAIN pipe' : pipe'[i] = pipe'[j] => i = j
      /\ Head(pipe) \in DOMAIN req /\ InPipe(Head(pipe))
  BY <1>1, Taken DEF CallInv
<1>3. \A r : (Delivered(r)' <=> Delivered(r))
  BY <1>1, <1>2 DEF Delivered
<1>4. \A r : Holds(r)' <=> Holds(r)
  BY <1>1, <1>3 DEF Holds, InFrame, Holding
<1>5. Shape'
  BY <1>1, <1>2 DEF CallInv, Shape
<1>6. Places'
  <2>1. received' \subseteq DOMAIN req'
    BY <1>1, <1>2 DEF CallInv, Places
  <2>2. \A j \in DOMAIN pipe' : (InPipe(pipe[j]))'
    BY DEF InPipe
  <2>3. \A r : InPipe(r) => r \in DOMAIN req /\ r \notin received
    BY DEF InPipe, CallInv, Places
  <2>4. \A j \in DOMAIN pipe' : pipe'[j] \in DOMAIN req' /\ pipe'[j] \notin received'
    BY <1>1, <1>2, <2>2, <2>3
  <2>5. \A k \in DOMAIN frames' : Holding(k)' => frames'[k].r \in DOMAIN req' /\ ~Delivered(frames'[k].r)
    BY <1>1 DEF CallInv, Places, Holding
  <2>6. \A k \in DOMAIN frames' : Holding(k)' => (~Delivered(frames[k].r))'
    BY <1>3, <2>5
  <2>7. \A k, l \in DOMAIN frames' : Holding(k)' /\ Holding(l)' /\ frames'[k].r = frames'[l].r => k = l
    BY <1>1 DEF CallInv, Places, Holding
  <2> QED BY <1>2, <2>1, <2>4, <2>5, <2>6, <2>7 DEF Places
<1>7. IdsKept'
  BY <1>1, <1>4, KeptIds DEF CallInv, SameIds
<1>8. Waits'
  BY <1>1, <1>3 DEF CallInv, Waits
<1>9. Answers'
  BY <1>1 DEF CallInv, Answers
<1> QED BY <1>5, <1>6, <1>7, <1>8, <1>9 DEF CallInv

LEMMA WriteFailsKeeps == CallInv /\ WriteFails => CallInv'
<1> SUFFICES ASSUME CallInv, WriteFails PROVE CallInv'
  OBVIOUS
<1> DEFINE h == Head(pipe)
           f == Frame("unsent", h)
           g == <<f>> \o frames
<1>1. UNCHANGED <<nextId, unsent, evicted, pending, req, received, said, heard>>
      /\ pipe # << >> /\ pipe' = Tail(pipe)
      /\ (frames' = g \/ frames' = <<Frame("announce", 0)>> \o g)
  BY DEF WriteFails, Announce
<1>2. /\ pipe' \in Seq(Nat) /\ h \in Nat
      /\ \A r : InPipe(r)' <=> InPipe(r) /\ r # h
      /\ \A i, j \in DOMAIN pipe' : pipe'[i] = pipe'[j] => i = j
      /\ h \in DOMAIN req /\ InPipe(h)
  BY <1>1, Taken DEF CallInv
<1>3. f \in FrameRecord /\ f.k = "unsent" /\ f.r = h
  BY <1>2 DEF Frame, FrameRecord
<1>4. /\ g \in Seq(FrameRecord)
      /\ 1 \in DOMAIN g /\ g[1] = f
      /\ \A n \in DOMAIN g : n # 1 => n - 1 \in DOMAIN frames /\ g[n] = frames[n - 1]
      /\ \A k \in DOMAIN frames : k \in Nat /\ k > 0 /\ k + 1 \in DOMAIN g /\ g[k + 1] = frames[k]
  <2>1. frames \in Seq(FrameRecord)
    BY DEF CallInv, Shape
  <2> HIDE DEF f
  <2> QED BY <1>3, <2>1, Pushed DEF CallInv
<1> HIDE DEF f, g, h
<1>5. \A n \in DOMAIN g : g[n].k \in {"copy", "unsent"} =>
        IF n = 1 THEN g[n].r = h ELSE Holding(n - 1) /\ n - 1 \in DOMAIN frames /\ g[n].r = frames[n - 1].r
  BY <1>3, <1>4 DEF Holding
<1>6. \A k \in DOMAIN frames : Holding(k) => frames[k].r # h /\ frames[k].r \in DOMAIN req /\ ~Delivered(frames[k].r)
  BY <1>2 DEF CallInv, Places, Delivered
<1>7. \A k, l \in DOMAIN g : g[k].k \in {"copy", "unsent"} /\ g[l].k \in {"copy", "unsent"} /\ g[k].r = g[l].r => k = l
  <2> SUFFICES ASSUME NEW k \in DOMAIN g, NEW l \in DOMAIN g, g[k].k \in {"copy", "unsent"},
                      g[l].k \in {"copy", "unsent"}, g[k].r = g[l].r
               PROVE  k = l
    OBVIOUS
  <2>1. k \in Nat /\ l \in Nat
    BY <1>4
  <2>2. CASE k = 1 \/ l = 1
    BY <1>5, <1>6, <2>2
  <2>3. CASE k # 1 /\ l # 1
    <3>1. k - 1 = l - 1
      BY <1>5, <2>3 DEF CallInv, Places
    <3> QED BY <2>1, <3>1
  <2> QED BY <2>2, <2>3
<1>8. /\ frames' \in Seq(FrameRecord)
      /\ \A n \in DOMAIN frames' : Holding(n)' => \E k \in DOMAIN g : g[k].k \in {"copy", "unsent"} /\ g[k] = frames'[n]
      /\ \A k \in DOMAIN g : g[k].k \in {"copy", "unsent"} => \E n \in DOMAIN frames' : Holding(n)' /\ g[k] = frames'[n]
      /\ \A n, o \in DOMAIN frames' : Holding(n)' /\ Holding(o)' /\ frames'[n].r = frames'[o].r => n = o
  BY <1>1, <1>4, <1>7, Announced DEF CallInv
<1>9. \A r : Delivered(r)' <=> Delivered(r) /\ r # h
  <2>1. h \notin received
    BY <1>2 DEF CallInv, Places, InPipe
  <2> QED BY <1>1, <1>2, <2>1 DEF Delivered
<1>10. \A r : InFrame(r)' <=> InFrame(r) \/ r = h
  <2>1. ASSUME NEW r, InFrame(r)' PROVE InFrame(r) \/ r = h
    <3>1. PICK n \in DOMAIN frames' : Holding(n)' /\ frames'[n].r = r
      BY <2>1 DEF InFrame
    <3>2. PICK k \in DOMAIN g : g[k].k \in {"copy", "unsent"} /\ g[k].r = r
      BY <1>8, <3>1
    <3> QED BY <1>5, <3>2 DEF InFrame
  <2>2. ASSUME NEW r, InFrame(r) \/ r = h PROVE InFrame(r)'
    <3>1. PICK k \in DOMAIN g : g[k].k \in {"copy", "unsent"} /\ g[k].r = r
      <4>1. CASE r = h
        BY <1>3, <1>4, <4>1
      <4>2. CASE InFrame(r)
        BY <1>4, <4>2 DEF InFrame, Holding
      <4> QED BY <2>2, <4>1, <4>2
    <3>2. PICK n \in DOMAIN frames' : Holding(n)' /\ g[k] = frames'[n]
      BY <1>8, <3>1
    <3> QED BY <3>1, <3>2 DEF InFrame
  <2> QED BY <2>1, <2>2
<1>11. \A r : Holds(r)' <=> Holds(r)
  BY <1>2, <1>9, <1>10 DEF Holds, Delivered
<1>12. Shape'
  BY <1>1, <1>2, <1>8 DEF CallInv, Shape
<1>13. Places'
  <2>1. \A n \in DOMAIN frames' : Holding(n)' =>
          frames'[n].r \in DOMAIN req' /\ (frames'[n].r = h \/ ~Delivered(frames'[n].r))
    <3> SUFFICES ASSUME NEW n \in DOMAIN frames', Holding(n)'
                 PROVE  frames'[n].r \in DOMAIN req' /\ (frames'[n].r = h \/ ~Delivered(frames'[n].r))
      OBVIOUS
    <3>1. PICK k \in DOMAIN g : g[k].k \in {"copy", "unsent"} /\ g[k].r = frames'[n].r
      BY <1>8
    <3> QED BY <1>1, <1>2, <1>5, <1>6, <3>1
  <2>2. \A n \in DOMAIN frames' : Holding(n)' => (~Delivered(frames[n].r))'
    BY <1>9, <2>1
  <2>3. \A j \in DOMAIN pipe' : (InPipe(pipe[j]))'
    BY DEF InPipe
  <2>4. \A r : InPipe(r) => r \in DOMAIN req /\ r \notin received
    BY DEF InPipe, CallInv, Places
  <2>5. \A j \in DOMAIN pipe' : pipe'[j] \in DOMAIN req' /\ pipe'[j] \notin received'
    BY <1>1, <1>2, <2>3, <2>4
  <2>6. received' \subseteq DOMAIN req'
    BY <1>1 DEF CallInv, Places
  <2> QED BY <1>2, <1>8, <2>1, <2>2, <2>5, <2>6 DEF Places
<1>14. IdsKept'
  BY <1>1, <1>11, KeptIds DEF CallInv, SameIds
<1>15. Waits'
  BY <1>1, <1>9 DEF CallInv, Waits
<1>16. Answers'
  BY <1>1 DEF CallInv, Answers
<1> QED BY <1>12, <1>13, <1>14, <1>15, <1>16 DEF CallInv

LEMMA ChildAnswersKeeps == CallInv /\ bound.calls \in Nat /\ ChildAnswers => CallInv'
<1> SUFFICES ASSUME CallInv, bound.calls \in Nat, ChildAnswers PROVE CallInv'
  OBVIOUS
<1>1. UNCHANGED <<nextId, unsent, evicted, pending, req, frames, pipe, received, heard>>
  BY DEF ChildAnswers, callVars
<1>2. PICK a \in AnswerRecord :
        said' = Append(said, a) /\ (a.by # 0 => a.by \in received /\ a.id = req[a.by].id)
  <2>1. CASE \E r \in received, echo \in BOOLEAN : said' = Append(said, [id |-> req[r].id, by |-> r, echo |-> echo])
    <3>1. PICK r \in received, echo \in BOOLEAN : said' = Append(said, [id |-> req[r].id, by |-> r, echo |-> echo])
      BY <2>1
    <3>2. r \in DOMAIN req /\ r \in Nat /\ Holds(r)
      BY DEF CallInv, Places, Shape, Holds, Delivered
    <3>3. req[r].id \in Nat \ {0}
      BY <3>2 DEF CallInv, IdsKept, Shape
    <3>4. [id |-> req[r].id, by |-> r, echo |-> echo] \in AnswerRecord
      BY <3>2, <3>3 DEF AnswerRecord
    <3> QED BY <3>1, <3>4
  <2>2. CASE \E id \in Ids : said' = Append(said, [id |-> id, by |-> 0, echo |-> TRUE])
    <3>1. PICK id \in Ids : said' = Append(said, [id |-> id, by |-> 0, echo |-> TRUE])
      BY <2>2
    <3>2. [id |-> id, by |-> 0, echo |-> TRUE] \in AnswerRecord
      BY DEF Ids, AnswerRecord
    <3> QED BY <3>1, <3>2
  <2> QED BY <2>1, <2>2 DEF ChildAnswers
<1>3. /\ said' \in Seq(AnswerRecord)
      /\ Len(said) \in Nat /\ Len(said') = Len(said) + 1
      /\ DOMAIN said' = 1..(Len(said) + 1) /\ DOMAIN said = 1..Len(said)
      /\ said'[Len(said) + 1] = a /\ \A n \in 1..Len(said) : said'[n] = said[n]
  <2>1. said \in Seq(AnswerRecord)
    BY DEF CallInv, Shape
  <2> QED BY <1>2, <2>1
<1>4. Shape'
  BY <1>1, <1>3 DEF CallInv, Shape
<1>5. \A r : (Delivered(r)' <=> Delivered(r)) /\ (Holds(r)' <=> Holds(r))
  BY <1>1 DEF Delivered, InPipe, Holds, InFrame, Holding
<1>6. Places'
  BY <1>1, <1>5 DEF CallInv, Places, Holding
<1>7. IdsKept'
  BY <1>1, <1>5, KeptIds DEF CallInv, SameIds
<1>8. Waits'
  BY <1>1, <1>5 DEF CallInv, Waits
<1>9. Answers'
  BY <1>1, <1>2, <1>3 DEF CallInv, Answers
<1> QED BY <1>4, <1>6, <1>7, <1>8, <1>9 DEF CallInv

(* What #response does: the call that waited is given the answer, and nobody else. *)
LEMMA Responded ==
  ASSUME CallInv, NEW a \in AnswerRecord, Response(a)
  PROVE  /\ req' \in Seq(CallRecord) /\ SameIds
         /\ \A i \in DOMAIN pending' : i \in DOMAIN pending /\ pending'[i] = pending[i]
         /\ \A r \in DOMAIN req :
              \/ req'[r] = req[r]
              \/ a.id \in DOMAIN pending /\ r = pending[a.id] /\ req'[r].by = a.by /\ req'[r].st \in {"answered", "mismatch"}
<1>1. CASE a.id \in DOMAIN pending
  <2> DEFINE r == pending[a.id]
             o == IF a.echo THEN "answered" ELSE "mismatch"
  <2>1. pending' = Drop(a.id) /\ req' = [req EXCEPT ![r] = [@ EXCEPT !.st = o, !.by = a.by]]
    BY <1>1 DEF Response
  <2>2. r \in DOMAIN req /\ o \in Outcomes /\ o \in {"answered", "mismatch"} /\ a.by \in Nat
    BY <1>1 DEF CallInv, Waits, Outcomes, AnswerRecord
  <2>3. \A i \in DOMAIN pending' : i \in DOMAIN pending /\ pending'[i] = pending[i]
    BY <2>1 DEF Drop
  <2> HIDE DEF r, o
  <2>4. /\ req' \in Seq(CallRecord) /\ SameIds
        /\ req'[r].st = o /\ req'[r].by = a.by /\ \A q \in DOMAIN req : q # r => req'[q] = req[q]
    BY <2>1, <2>2, Changed DEF CallInv
  <2> QED BY <1>1, <2>2, <2>3, <2>4 DEF r
<1>2. CASE a.id \notin DOMAIN pending
  BY <1>2 DEF Response, CallInv, Shape, SameIds
<1> QED BY <1>1, <1>2

LEMMA HeardAnswer ==
  ASSUME CallInv, Out > 0
  PROVE  heard + 1 \in DOMAIN said /\ heard + 1 \in 0..Len(said) /\ said[heard + 1] \in AnswerRecord
<1>1. said \in Seq(AnswerRecord) /\ heard \in 0..Len(said) /\ Len(said) \in Nat
  BY DEF CallInv, Shape
<1>2. heard + 1 \in 1..Len(said) /\ heard + 1 \in 0..Len(said)
  BY <1>1 DEF Out
<1>3. DOMAIN said = 1..Len(said) /\ \A n \in 1..Len(said) : said[n] \in AnswerRecord
  BY <1>1
<1> QED BY <1>2, <1>3

LEMMA HearsKeeps == CallInv /\ Hears => CallInv'
<1> SUFFICES ASSUME CallInv, Hears PROVE CallInv'
  OBVIOUS
<1>1. UNCHANGED <<nextId, unsent, evicted, frames, pipe, received, said>> /\ heard' = heard + 1 /\ Out > 0
  BY DEF Hears
<1>2. /\ req' \in Seq(CallRecord) /\ SameIds
      /\ \A i \in DOMAIN pending' : i \in DOMAIN pending /\ pending'[i] = pending[i]
  <2>1. CASE limited
    BY <2>1 DEF Hears, CallInv, Shape, SameIds
  <2>2. CASE ~limited
    BY <1>1, <2>2, HeardAnswer, Responded DEF Hears
  <2> QED BY <2>1, <2>2
<1> QED BY <1>1, <1>2, HeardAnswer, Still

LEMMA TimesOutKeeps == CallInv /\ TimesOut => CallInv'
<1> SUFFICES ASSUME CallInv, TimesOut PROVE CallInv'
  OBVIOUS
<1>1. PICK r \in DOMAIN req : pending' = Drop(req[r].id) /\ req' = [req EXCEPT ![r].st = "timed out"]
  BY DEF TimesOut
<1>2. req' \in Seq(CallRecord) /\ SameIds
  BY <1>1, StatusChanged DEF CallInv, Outcomes
<1>3. \A i \in DOMAIN pending' : i \in DOMAIN pending /\ pending'[i] = pending[i]
  BY <1>1 DEF Drop
<1>4. UNCHANGED <<nextId, unsent, evicted, frames, pipe, received, said, heard>> /\ heard \in 0..Len(said)
  BY DEF TimesOut, lineVars, CallInv, Shape
<1> QED BY <1>2, <1>3, <1>4, Still

(* The end of the connection fails the calls that wait, or leaves them alone. *)
LEMMA EndsKeep ==
  ASSUME CallInv, UNCHANGED <<nextId, unsent, evicted, frames, pipe, received, said, heard>>,
         UNCHANGED <<pending, req>> \/ FailPending("exited")
  PROVE  CallInv'
<1>1. /\ req' \in Seq(CallRecord) /\ SameIds
      /\ \A i \in DOMAIN pending' : i \in DOMAIN pending /\ pending'[i] = pending[i]
  <2>1. CASE UNCHANGED <<pending, req>>
    BY <2>1 DEF CallInv, Shape, SameIds
  <2>2. CASE FailPending("exited")
    BY <2>2, Failed DEF CallInv, Outcomes
  <2> QED BY <2>1, <2>2
<1>2. heard' \in 0..Len(said)
  BY DEF CallInv, Shape
<1> QED BY <1>1, <1>2, Still

LEMMA LimitPassedKeeps == CallInv /\ LimitPassed => CallInv'
<1> SUFFICES ASSUME CallInv, LimitPassed PROVE CallInv'
  OBVIOUS
<1>1. UNCHANGED <<nextId, unsent, evicted, pending, req, frames, pipe, received, said>> /\ heard' = heard + 1 /\ Out > 0
  BY DEF LimitPassed, callVars
<1>2. req' \in Seq(CallRecord) /\ SameIds
  BY <1>1 DEF CallInv, Shape, SameIds
<1> QED BY <1>1, <1>2, HeardAnswer, Still

LEMMA EndingKeeps == CallInv /\ (Ending \/ System \/ UNCHANGED vars) => CallInv'
<1> SUFFICES ASSUME CallInv, Ending \/ System \/ UNCHANGED vars PROVE CallInv'
  OBVIOUS
<1>1. /\ UNCHANGED <<nextId, unsent, evicted, frames, pipe, received, said, heard>>
      /\ UNCHANGED <<pending, req>> \/ FailPending("exited")
  BY DEF Ending, System, ExitSeen, OutputCloses, DrainExpires, Terminates, Close, Terminate, SendsTerm, SendsKill,
         Reaps, Released, vars, callVars, lineVars
<1> QED BY <1>1, EndsKeep

LEMMA EmptyHolds ==
  ASSUME nextId = 0, unsent = << >>, evicted = {}, pending = << >>, req = << >>, frames = << >>, pipe = << >>,
         received = {}, said = << >>, heard = 0
  PROVE  CallInv
<1>1. Shape
  BY DEF Shape
<1>2. Places
  BY DEF Places
<1>3. IdsKept
  BY DEF IdsKept
<1>4. Waits /\ Answers
  BY DEF Waits, Answers
<1> QED BY <1>1, <1>2, <1>3, <1>4 DEF CallInv

LEMMA OwnerDiesKeeps == OwnerDies => CallInv'
<1> SUFFICES ASSUME OwnerDies PROVE CallInv'
  OBVIOUS
<1>1. /\ nextId' = 0 /\ unsent' = << >> /\ evicted' = {} /\ pending' = << >> /\ req' = << >> /\ frames' = << >>
      /\ pipe' = << >> /\ received' = {} /\ said' = << >> /\ heard' = 0
  BY DEF OwnerDies
<1>2. Shape'
  BY <1>1 DEF Shape
<1>3. Places'
  BY <1>1 DEF Places
<1>4. IdsKept'
  BY <1>1 DEF IdsKept
<1>5. Waits' /\ Answers'
  BY <1>1 DEF Waits, Answers
<1> QED BY <1>2, <1>3, <1>4, <1>5 DEF CallInv

LEMMA CallInvStep == CallInv /\ bound.calls \in Nat /\ [Next]_vars => CallInv'
<1> SUFFICES ASSUME CallInv, bound.calls \in Nat, [Next]_vars PROVE CallInv'
  OBVIOUS
<1>1. CASE Calling
  BY <1>1, CallKeeps, RefusesKeeps, WritesKeeps, TellsKeeps, WriteFailsKeeps, MarksUnsentKeeps, InputFailedKeeps DEF Calling
<1>2. CASE Talking
  BY <1>2, InputBreaksKeeps, ChildReadsKeeps, ChildAnswersKeeps, HearsKeeps, LimitPassedKeeps, TimesOutKeeps DEF Talking
<1>3. CASE Ending \/ System \/ UNCHANGED vars
  BY <1>3, EndingKeeps
<1>4. CASE OwnerDies
  BY <1>4, OwnerDiesKeeps
<1> QED BY <1>1, <1>2, <1>3, <1>4 DEF Next

-------------------------------------------------------------------------------
(* Answers reach the call they were written for. *)

ByOwn == \A r \in DOMAIN req : req[r].by \in {0, r}

(* Whatever was heard is waited for no more. *)
Settled == ~limited => \A k \in 1..heard : \A i \in DOMAIN pending : pending[i] # said[k].by

(* An answer for a call that waits is handed to it, and it waits no more. *)
LEMMA OwnAnswer ==
  ASSUME CallInv, NEW n \in DOMAIN said, said[n].by # 0
  PROVE  \A i \in DOMAIN pending :
           /\ i = said[n].id => pending[i] = said[n].by
           /\ pending[i] = said[n].by => i = said[n].id
<1>1. said[n].by \in received /\ said[n].id = req[said[n].by].id /\ said[n].by \in DOMAIN req /\ Delivered(said[n].by)
  BY DEF CallInv, Answers, Places, Delivered
<1> QED BY <1>1 DEF CallInv, Waits

LEMMA ByOwnStep == CallInv /\ ByOwn /\ [Next]_vars => ByOwn'
<1> SUFFICES ASSUME CallInv, ByOwn, [Next]_vars PROVE ByOwn'
  OBVIOUS
<1>1. CASE Call
  <2>1. /\ req \in Seq(CallRecord)
        /\ req' = Append(req, [id |-> nextId', st |-> "copied", by |-> 0])
    BY <1>1 DEF Call, CallInv, Shape
  <2>2. /\ Len(req) \in Nat /\ DOMAIN req = 1..Len(req) /\ DOMAIN req' = 1..(Len(req) + 1)
        /\ \A r \in 1..Len(req) : req'[r] = req[r]
        /\ req'[Len(req) + 1] = [id |-> nextId', st |-> "copied", by |-> 0]
    BY <2>1
  <2>3. req'[Len(req) + 1].by = 0
    BY <2>2
  <2> QED BY <2>2, <2>3 DEF ByOwn
<1>2. CASE Refuses \/ Writes
  <2>1. PICK o \in Outcomes : req' = [req EXCEPT ![Inner].st = o]
    BY <1>2 DEF Refuses, Writes, Outcomes
  <2>2. Inner \in DOMAIN req
    BY <1>2 DEF Refuses, Writes, In, Inner, CallInv, Shape, Places, Holding
  <2>3. SameIds /\ \A r \in DOMAIN req : req'[r].by = req[r].by
    <3> HIDE DEF Inner
    <3> QED BY <2>1, <2>2, StatusChanged DEF CallInv
  <2> QED BY <2>3 DEF ByOwn, SameIds
<1>3. CASE Hears
  <2>1. CASE limited
    BY <1>3, <2>1 DEF Hears, ByOwn
  <2>2. CASE ~limited
    <3> DEFINE a == said[heard + 1]
    <3>1. Response(a) /\ a \in AnswerRecord /\ heard + 1 \in DOMAIN said
      BY <1>3, <2>2, HeardAnswer DEF Hears
    <3>2. SameIds /\ \A r \in DOMAIN req :
            \/ req'[r] = req[r]
            \/ a.id \in DOMAIN pending /\ r = pending[a.id] /\ req'[r].by = a.by
      <4> HIDE DEF a
      <4> QED BY <3>1, Responded
    <3>3. a.by # 0 /\ a.id \in DOMAIN pending => pending[a.id] = a.by
      BY <3>1, OwnAnswer
    <3> HIDE DEF a
    <3> QED BY <3>2, <3>3 DEF ByOwn, SameIds
  <2> QED BY <2>1, <2>2
<1>4. CASE TimesOut
  <2>1. PICK r \in DOMAIN req : req' = [req EXCEPT ![r].st = "timed out"]
    BY <1>4 DEF TimesOut
  <2>2. SameIds /\ \A q \in DOMAIN req : req'[q].by = req[q].by
    BY <2>1, StatusChanged DEF CallInv, Outcomes
  <2> QED BY <2>2 DEF ByOwn, SameIds
<1>5. CASE \E o \in Outcomes : FailPending(o)
  <2>1. SameIds /\ \A q \in DOMAIN req : req'[q].by = req[q].by
    BY <1>5, Failed DEF CallInv
  <2> QED BY <2>1 DEF ByOwn, SameIds
<1>6. CASE req' = req
  BY <1>6 DEF ByOwn
<1>7. CASE OwnerDies
  <2>1. req' = << >>
    BY <1>7 DEF OwnerDies
  <2> QED BY <2>1 DEF ByOwn
<1>8. (InputFailed \/ Ending) => (\E o \in Outcomes : FailPending(o)) \/ req' = req
  <2>1. InputFailed => FailPending("input failed") \/ req' = req
    BY DEF InputFailed
  <2>2. Ending => FailPending("exited") \/ req' = req
    BY DEF Ending, ExitSeen, OutputCloses, DrainExpires, Terminates, Close, Terminate, SendsTerm, SendsKill, Reaps,
           Released, callVars
  <2> QED BY <2>1, <2>2 DEF Outcomes
<1>9. (Tells \/ WriteFails \/ MarksUnsent \/ InputBreaks \/ ChildReads \/ ChildAnswers \/ LimitPassed \/ System \/ UNCHANGED vars)
      => req' = req
  BY DEF Tells, WriteFails, MarksUnsent, InputBreaks, ChildReads, ChildAnswers, LimitPassed, System, vars, callVars
<1> QED BY <1>1, <1>2, <1>3, <1>4, <1>5, <1>6, <1>7, <1>8, <1>9 DEF Next, Calling, Talking

-------------------------------------------------------------------------------
(* Faults say what became of the id. *)

LEMMA IssuedIsSent ==
  ASSUME CallInv, frames = << >>, NEW id \in Nat \ {0}
  PROVE  Issued(id) <=> id \in SentIds \union evicted
<1>1. \A r \in DOMAIN req : Holds(r) <=> Delivered(r)
  BY DEF Holds, InFrame
<1>2. \A r : Delivered(r) <=> r \in received \union ToSet(pipe)
  BY DEF Delivered, InPipe, ToSet
<1>3. \A r : Delivered(r) => r \in DOMAIN req
  BY DEF Delivered, InPipe, CallInv, Places
<1>4. id \in SentIds <=> \E r \in DOMAIN req : Holds(r) /\ req[r].id = id
  BY <1>1, <1>2, <1>3 DEF SentIds
<1>5. nextId \in Nat
  BY DEF CallInv, Shape
<1>6. ASSUME Issued(id) PROVE id \in SentIds \union evicted
  <2>1. id \in 1..nextId /\ id \notin DOMAIN unsent
    BY <1>5, <1>6 DEF Issued
  <2> QED BY <1>4, <2>1 DEF CallInv, IdsKept
<1>7. ASSUME id \in SentIds \union evicted PROVE Issued(id)
  <2>1. id \in 1..nextId /\ id \notin DOMAIN unsent
    BY <1>4, <1>7 DEF CallInv, IdsKept
  <2> QED BY <1>5, <2>1 DEF Issued
<1> QED BY <1>6, <1>7

LEMMA FaultsStep == CallInv /\ FaultsAreTrue /\ [Next]_vars => FaultsAreTrue'
<1> SUFFICES ASSUME CallInv, FaultsAreTrue, [Next]_vars PROVE FaultsAreTrue'
  OBVIOUS
<1>1. CASE Hears /\ ~limited
  <2> DEFINE a == said[heard + 1]
  <2>1. Response(a) /\ a \in AnswerRecord /\ frames = << >>
    BY <1>1, HeardAnswer DEF Hears, Turn
  <2>2. a.id \in Nat \ {0}
    BY <2>1 DEF AnswerRecord
  <2> HIDE DEF a
  <2>3. Issued(a.id) <=> a.id \in SentIds \union evicted
    BY <2>1, <2>2, IssuedIsSent
  <2>4. \/ told' = told
        \/ told' = told \union {[fault |-> IF Issued(a.id) THEN "stale" ELSE "unknown", sent |-> a.id \in SentIds \union evicted]}
    BY <2>1 DEF Response
  <2>5. ASSUME NEW x \in told' PROVE x.fault = IF x.sent THEN "stale" ELSE "unknown"
    <3>1. CASE x \in told
      BY <3>1 DEF FaultsAreTrue
    <3>2. CASE x = [fault |-> IF Issued(a.id) THEN "stale" ELSE "unknown", sent |-> a.id \in SentIds \union evicted]
      <4>1. x.fault = (IF Issued(a.id) THEN "stale" ELSE "unknown") /\ x.sent = (a.id \in SentIds \union evicted)
        BY <3>2
      <4> QED BY <2>3, <4>1
    <3> QED BY <2>4, <2>5, <3>1, <3>2
  <2> QED BY <2>5 DEF FaultsAreTrue
<1>2. CASE told' = told
  BY <1>2 DEF FaultsAreTrue
<1>3. CASE OwnerDies
  BY <1>3 DEF OwnerDies, FaultsAreTrue
<1>4. ~(Hears /\ ~limited) /\ ~OwnerDies => told' = told
  BY DEF Next, Calling, Talking, Ending, System, Call, Refuses, Writes, Tells, WriteFails, MarksUnsent, InputFailed,
         InputBreaks, ChildReads, ChildAnswers, Hears, LimitPassed, TimesOut, ExitSeen, OutputCloses, DrainExpires,
         Close, Terminate, SendsTerm, SendsKill, Reaps, Released, vars, lineVars
<1> QED BY <1>1, <1>2, <1>3, <1>4

-------------------------------------------------------------------------------
(* The last words of the child are heard before its calls fail with the exit. *)

(* What is known of a connection as it ends, and that what was heard is settled. *)
EndInv ==
  /\ ~stdoutOpen => writers = {} /\ heard = Len(said)
  /\ ~ran => writers = {} /\ said = << >>
  /\ keeper = "unstarted" => ~ran
  /\ terminated = "drained" => ~stdoutOpen
  /\ terminated = "no" => \A r \in DOMAIN req : req[r].st # "exited"

LEMMA SettledStep == CallInv /\ Settled /\ [Next]_vars => Settled'
<1> SUFFICES ASSUME CallInv, Settled, [Next]_vars PROVE Settled'
  OBVIOUS
<1>1. CASE Writes
  <2>1. UNCHANGED <<limited, heard, said>> /\ pending' = [i \in DOMAIN pending \union {req[Inner].id} |-> IF i = req[Inner].id THEN Inner ELSE pending[i]]
    BY <1>1 DEF Writes, endVars
  <2>2. Inner \in DOMAIN req /\ ~Delivered(Inner) /\ Inner # 0
    BY <1>1 DEF Writes, In, Inner, CallInv, Shape, Places, Holding
  <2>3. \A k \in 1..heard : k \in DOMAIN said /\ said[k].by # Inner
    <3>1. \A k \in 1..heard : k \in DOMAIN said
      BY DEF CallInv, Shape
    <3> QED BY <2>2, <3>1 DEF CallInv, Answers, Delivered
  <2>4. \A i \in DOMAIN pending' : pending'[i] = Inner \/ (i \in DOMAIN pending /\ pending'[i] = pending[i])
    <3>1. DOMAIN pending' = DOMAIN pending \union {req[Inner].id}
      BY <2>1
    <3>2. \A i \in DOMAIN pending \union {req[Inner].id} : pending'[i] = IF i = req[Inner].id THEN Inner ELSE pending[i]
      BY <2>1, Zenon
    <3> QED BY <3>1, <3>2, Zenon
  <2> QED BY <2>1, <2>3, <2>4 DEF Settled
<1>2. CASE Hears /\ ~limited
  <2> DEFINE a == said[heard + 1]
  <2>1. Response(a) /\ a \in AnswerRecord /\ heard + 1 \in DOMAIN said /\ heard' = heard + 1 /\ said' = said
    BY <1>2, HeardAnswer DEF Hears
  <2>2. \A i \in DOMAIN pending' : i \in DOMAIN pending /\ pending'[i] = pending[i] /\ i # a.id
    BY <2>1 DEF Response, Drop
  <2>3. \A i \in DOMAIN pending' : pending[i] \in DOMAIN req /\ pending[i] # 0
    BY <2>2 DEF CallInv, Waits, Shape
  <2>4. \A i \in DOMAIN pending' : pending[i] # a.by
    BY <2>1, <2>2, <2>3, OwnAnswer
  <2>5. heard \in Nat
    BY DEF CallInv, Shape
  <2>6. \A k \in 1..heard' : k = heard + 1 \/ k \in 1..heard
    BY <2>1, <2>5
  <2> HIDE DEF a
  <2>7. \A k \in 1..heard : \A i \in DOMAIN pending : pending[i] # said[k].by
    BY <1>2 DEF Settled
  <2>8. \A k \in 1..heard' : \A i \in DOMAIN pending' : pending'[i] # said[k].by
    BY <2>2, <2>4, <2>6, <2>7 DEF a
  <2> QED BY <2>1, <2>8 DEF Settled
<1>3. CASE ChildAnswers
  <2>1. PICK a : said' = Append(said, a) /\ UNCHANGED <<limited, heard, pending>>
    BY <1>3 DEF ChildAnswers, callVars, endVars
  <2>2. \A k \in 1..heard : said'[k] = said[k]
    <3>1. said \in Seq(AnswerRecord) /\ heard \in 0..Len(said)
      BY DEF CallInv, Shape
    <3>2. \A k \in 1..Len(said) : said'[k] = said[k]
      BY <2>1, <3>1
    <3>3. \A k \in 1..heard : k \in 1..Len(said)
      BY <3>1
    <3> QED BY <3>2, <3>3
  <2> QED BY <2>1, <2>2 DEF Settled
<1>4. CASE OwnerDies
  <2>1. heard' = 0
    BY <1>4 DEF OwnerDies
  <2> QED BY <2>1 DEF Settled
<1>5. CASE /\ limited => limited'
           /\ UNCHANGED <<heard, said>> \/ limited'
           /\ \A i \in DOMAIN pending' : i \in DOMAIN pending /\ pending'[i] = pending[i]
  BY <1>5 DEF Settled
<1>6. CASE TimesOut
  <2>1. UNCHANGED <<limited, heard, said>> /\ \A i \in DOMAIN pending' : i \in DOMAIN pending /\ pending'[i] = pending[i]
    BY <1>6 DEF TimesOut, Drop, lineVars, endVars
  <2> QED BY <1>5, <2>1
<1>7. CASE Hears /\ limited
  BY <1>5, <1>7 DEF Hears, endVars
<1>8. CASE InputFailed \/ Ending
  <2>1. UNCHANGED <<limited, heard, said>>
    BY <1>8 DEF InputFailed, Ending, ExitSeen, OutputCloses, DrainExpires, Terminates, Close, Terminate, SendsTerm,
           SendsKill, Reaps, Released, lineVars
  <2>2. pending' = pending \/ pending' = << >>
    BY <1>8 DEF InputFailed, Ending, ExitSeen, OutputCloses, DrainExpires, Terminates, Close, Terminate, SendsTerm,
           SendsKill, Reaps, Released, callVars, FailPending
  <2>3. \A i \in DOMAIN pending' : i \in DOMAIN pending /\ pending'[i] = pending[i]
    BY <2>2
  <2> QED BY <1>5, <2>1, <2>3
<1>9. (Call \/ Refuses \/ Tells \/ WriteFails \/ MarksUnsent \/ InputBreaks \/ ChildReads \/ LimitPassed \/ System \/ UNCHANGED vars)
      => pending' = pending /\ (UNCHANGED <<limited, heard, said>> \/ limited')
  BY DEF Call, Refuses, Tells, WriteFails, MarksUnsent, InputBreaks, ChildReads, LimitPassed, System, vars, callVars,
         lineVars, endVars
<1> QED BY <1>1, <1>2, <1>3, <1>4, <1>5, <1>6, <1>7, <1>8, <1>9 DEF Next, Calling, Talking

LEMMA EndInvStep == CallInv /\ EndInv /\ [Next]_vars => EndInv'
<1> SUFFICES ASSUME CallInv, EndInv, [Next]_vars PROVE EndInv'
  OBVIOUS
<1>1. CASE Calling
  <2>1. UNCHANGED <<ran, writers, keeper, stdoutOpen, terminated, said, heard>>
    BY <1>1 DEF Calling, Call, Refuses, Writes, Tells, WriteFails, MarksUnsent, InputFailed, groupVars, lineVars, endVars
  <2>2. DOMAIN req' = {} \/ \A r \in DOMAIN req' : req'[r].st # "exited" \/ (r \in DOMAIN req /\ req'[r].st = req[r].st)
    <3>1. CASE Call
      <4>1. req \in Seq(CallRecord) /\ req' = Append(req, [id |-> nextId', st |-> "copied", by |-> 0])
        BY <3>1 DEF Call, CallInv, Shape
      <4>2. /\ Len(req) \in Nat /\ DOMAIN req = 1..Len(req) /\ DOMAIN req' = 1..(Len(req) + 1)
            /\ \A r \in 1..Len(req) : req'[r] = req[r]
            /\ req'[Len(req) + 1] = [id |-> nextId', st |-> "copied", by |-> 0]
        BY <4>1
      <4>3. req'[Len(req) + 1].st # "exited"
        BY <4>2
      <4> QED BY <4>2, <4>3
    <3>2. CASE Refuses \/ Writes
      <4>1. PICK o \in Outcomes : req' = [req EXCEPT ![Inner].st = o] /\ o # "exited"
        BY <3>2 DEF Refuses, Writes, Outcomes
      <4>2. Inner \in DOMAIN req
        BY <3>2 DEF Refuses, Writes, In, Inner, CallInv, Shape, Places, Holding
      <4> HIDE DEF Inner
      <4> QED BY <4>1, <4>2, StatusChanged DEF CallInv, SameIds
    <3>3. CASE InputFailed
      <4>1. CASE FailPending("input failed")
        BY <4>1, Failed DEF CallInv, SameIds, Outcomes
      <4>2. CASE req' = req
        BY <4>2
      <4> QED BY <3>3, <4>1, <4>2 DEF InputFailed
    <3>4. CASE Tells \/ WriteFails \/ MarksUnsent
      BY <3>4 DEF Tells, WriteFails, MarksUnsent
    <3> QED BY <1>1, <3>1, <3>2, <3>3, <3>4 DEF Calling
  <2> QED BY <2>1, <2>2 DEF EndInv
<1>2. CASE InputBreaks \/ ChildReads \/ ChildAnswers
  <2>1. UNCHANGED <<ran, writers, keeper, stdoutOpen, terminated, heard, req>>
    BY <1>2 DEF InputBreaks, ChildReads, ChildAnswers, groupVars, callVars, lineVars, endVars
  <2>2. said' = said \/ "command" \in writers
    BY <1>2 DEF InputBreaks, ChildReads, ChildAnswers, lineVars
  <2> QED BY <2>1, <2>2 DEF EndInv
<1>3. CASE Hears \/ LimitPassed
  <2>1. UNCHANGED <<ran, writers, keeper, stdoutOpen, terminated, said>> /\ stdoutOpen
    BY <1>3 DEF Hears, LimitPassed, groupVars, endVars
  <2>2. DOMAIN req' = DOMAIN req /\ \A r \in DOMAIN req : req'[r].st # "exited" \/ req'[r].st = req[r].st
    <3>1. CASE LimitPassed \/ (Hears /\ limited)
      BY <3>1 DEF LimitPassed, Hears, callVars
    <3>2. CASE Hears /\ ~limited
      BY <3>2, HeardAnswer, Responded DEF Hears, SameIds
    <3> QED BY <1>3, <3>1, <3>2
  <2> QED BY <2>1, <2>2 DEF EndInv
<1>4. CASE TimesOut
  <2>1. UNCHANGED <<ran, writers, keeper, stdoutOpen, terminated, said, heard>>
    BY <1>4 DEF TimesOut, groupVars, lineVars, endVars
  <2>2. PICK r \in DOMAIN req : req' = [req EXCEPT ![r].st = "timed out"]
    BY <1>4 DEF TimesOut
  <2>3. DOMAIN req' = DOMAIN req /\ \A q \in DOMAIN req : req'[q].st # "exited" \/ req'[q].st = req[q].st
    BY <2>2, StatusChanged DEF CallInv, SameIds, Outcomes
  <2> QED BY <2>1, <2>3 DEF EndInv
<1>5. CASE ExitSeen
  <2>1. UNCHANGED <<ran, writers, keeper, said, heard>>
    BY <1>5 DEF ExitSeen, KeeperReports, KeeperGone, KeeperUnstarted, lineVars
  <2>2. stdoutOpen /\ ~stdoutOpen' => ~ran
    BY <1>5 DEF ExitSeen, KeeperReports, KeeperGone, KeeperUnstarted, EndInv
  <2>3. heard = 0 \/ said # << >>
    BY DEF CallInv, Shape
  <2>4. said = << >> => Len(said) = 0
    OBVIOUS
  <2>5. \/ terminated' = "drained" /\ ~stdoutOpen'
        \/ UNCHANGED <<terminated, req>> /\ (~stdoutOpen => ~stdoutOpen')
    BY <1>5 DEF ExitSeen, Terminates
  <2> QED BY <2>1, <2>2, <2>3, <2>4, <2>5 DEF EndInv
<1>6. CASE OutputCloses
  <2>1. UNCHANGED <<ran, writers, keeper, said, heard>> /\ ~stdoutOpen' /\ writers = {} /\ Out = 0
    BY <1>6 DEF OutputCloses, groupVars, lineVars
  <2>2. heard = Len(said)
    BY <2>1 DEF CallInv, Shape, Out
  <2>3. terminated' = "drained" \/ UNCHANGED <<terminated, req>>
    BY <1>6 DEF OutputCloses, Terminates
  <2> QED BY <2>1, <2>2, <2>3 DEF EndInv
<1>7. CASE DrainExpires
  BY <1>7 DEF DrainExpires, Terminates, lineVars, EndInv
<1>8. CASE Close \/ Terminate \/ SendsTerm \/ SendsKill \/ Reaps \/ Released
  <2>1. UNCHANGED <<ran, writers, keeper, stdoutOpen, terminated, said, heard, req>>
    BY <1>8 DEF Close, Terminate, SendsTerm, SendsKill, Reaps, Released, groupVars, callVars, lineVars
  <2> QED BY <2>1 DEF EndInv
<1>9. CASE OwnerDies
  <2>1. /\ UNCHANGED <<ran, writers, keeper>> /\ stdoutOpen' = TRUE /\ terminated' = "no"
        /\ said' = << >> /\ req' = << >>
    BY <1>9 DEF OwnerDies
  <2> QED BY <2>1 DEF EndInv
<1>10. CASE System
  <2>1. UNCHANGED <<ran, stdoutOpen, terminated, said, heard, req>>
    BY <1>10 DEF System, Forks, KeeperEnds, KeeperEndsGroup, MemberEnds, LeavesOutput, callVars, lineVars, endVars
  <2>2. (writers = {} => writers' = {}) /\ (keeper' = "unstarted" => keeper = "unstarted")
    BY <1>10 DEF System, Forks, KeeperEnds, KeeperEndsGroup, MemberEnds, LeavesOutput
  <2> QED BY <2>1, <2>2 DEF EndInv
<1>11. CASE UNCHANGED vars
  BY <1>11 DEF vars, groupVars, callVars, lineVars, endVars, EndInv
<1> QED BY <1>1, <1>2, <1>3, <1>4, <1>5, <1>6, <1>7, <1>8, <1>9, <1>10, <1>11 DEF Next, Talking, Ending

(* No call that failed with the exit could still have been answered. *)
LEMMA WordsStep == CallInv /\ EndInv /\ Settled /\ LastWordsAreHeard /\ [Next]_vars => LastWordsAreHeard'
<1> SUFFICES ASSUME CallInv, EndInv, Settled, LastWordsAreHeard, [Next]_vars, terminated' = "drained", ~limited'
             PROVE  \A r \in DOMAIN req' : req'[r].st = "exited" => \A i \in DOMAIN said' : said'[i].by # r
  BY DEF LastWordsAreHeard
<1>0. EndInv'
  BY EndInvStep
<1>1. ~limited /\ said' = said /\ heard' = heard
  <2>1. ~limited
    BY DEF Next, Calling, Talking, Ending, System, Call, Refuses, Writes, Tells, WriteFails, MarksUnsent, InputFailed,
           InputBreaks, ChildReads, ChildAnswers, Hears, LimitPassed, TimesOut, ExitSeen, OutputCloses, DrainExpires,
           Close, Terminate, SendsTerm, SendsKill, Reaps, Released, OwnerDies, vars, endVars
  <2>2. ~stdoutOpen' /\ writers' = {}
    BY <1>0 DEF EndInv
  <2>3. ~ChildAnswers /\ ~Hears /\ ~LimitPassed /\ ~OwnerDies
    <3>1. Hears \/ LimitPassed => stdoutOpen /\ stdoutOpen' = stdoutOpen
      BY DEF Hears, LimitPassed, endVars
    <3>2. ChildAnswers => writers' # {}
      BY DEF ChildAnswers, groupVars
    <3>3. OwnerDies => stdoutOpen'
      BY DEF OwnerDies
    <3> QED BY <2>2, <3>1, <3>2, <3>3
  <2>4. said' = said /\ heard' = heard
    BY <2>3 DEF Next, Calling, Talking, Ending, System, Call, Refuses, Writes, Tells, WriteFails, MarksUnsent, InputFailed,
           InputBreaks, ChildReads, TimesOut, ExitSeen, OutputCloses, DrainExpires,
           Close, Terminate, SendsTerm, SendsKill, Reaps, Released, vars, lineVars
  <2> QED BY <2>1, <2>4
<1>2. CASE terminated = "drained"
  <2>1. \A r \in DOMAIN req' : req'[r].st = "exited" => r \in DOMAIN req /\ req[r].st = "exited"
    <3>1. ~ChildAnswers /\ ~Hears /\ ~LimitPassed /\ ~OwnerDies
      BY <1>2, <1>0 DEF EndInv, ChildAnswers, Hears, LimitPassed, OwnerDies, groupVars, endVars
    <3>2. CASE Call
      <4>1. req \in Seq(CallRecord) /\ req' = Append(req, [id |-> nextId', st |-> "copied", by |-> 0])
        BY <3>2 DEF Call, CallInv, Shape
      <4>2. /\ Len(req) \in Nat /\ DOMAIN req = 1..Len(req) /\ DOMAIN req' = 1..(Len(req) + 1)
            /\ \A r \in 1..Len(req) : req'[r] = req[r]
            /\ req'[Len(req) + 1] = [id |-> nextId', st |-> "copied", by |-> 0]
        BY <4>1
      <4>3. req'[Len(req) + 1].st # "exited"
        BY <4>2
      <4> QED BY <4>2, <4>3
    <3>3. CASE Refuses \/ Writes
      <4>1. PICK o \in Outcomes : req' = [req EXCEPT ![Inner].st = o] /\ o # "exited"
        BY <3>3 DEF Refuses, Writes, Outcomes
      <4>2. Inner \in DOMAIN req
        BY <3>3 DEF Refuses, Writes, In, Inner, CallInv, Shape, Places, Holding
      <4> HIDE DEF Inner
      <4> QED BY <4>1, <4>2, StatusChanged DEF CallInv, SameIds
    <3>4. CASE InputFailed
      <4>1. CASE FailPending("input failed")
        BY <4>1, Failed DEF CallInv, SameIds, Outcomes
      <4>2. CASE req' = req
        BY <4>2
      <4> QED BY <3>4, <4>1, <4>2 DEF InputFailed
    <3>5. CASE TimesOut
      <4>1. PICK r \in DOMAIN req : req' = [req EXCEPT ![r].st = "timed out"]
        BY <3>5 DEF TimesOut
      <4> QED BY <4>1, StatusChanged DEF CallInv, SameIds, Outcomes
    <3>6. ~Call /\ ~Refuses /\ ~Writes /\ ~InputFailed /\ ~TimesOut => req' = req
      BY <1>2, <3>1 DEF Next, Calling, Talking, Ending, System, Tells, WriteFails, MarksUnsent,
           InputBreaks, ChildReads, ExitSeen, OutputCloses, DrainExpires, Terminates,
           Close, Terminate, SendsTerm, SendsKill, Reaps, Released, vars, callVars
    <3> QED BY <3>2, <3>3, <3>4, <3>5, <3>6
  <2> QED BY <1>1, <1>2, <2>1 DEF LastWordsAreHeard
<1>3. CASE terminated # "drained"
  <2>1. FailPending("exited") /\ terminated = "no"
    BY <1>3 DEF Next, Calling, Talking, Ending, System, Call, Refuses, Writes, Tells, WriteFails, MarksUnsent, InputFailed,
           InputBreaks, ChildReads, ChildAnswers, Hears, LimitPassed, TimesOut, ExitSeen, OutputCloses, DrainExpires, Terminates,
           Close, Terminate, SendsTerm, SendsKill, Reaps, Released, OwnerDies, vars, endVars
  <2>2. \A r \in DOMAIN req' : req'[r].st = "exited" => \E i \in DOMAIN pending : pending[i] = r
    <3>1. \A r \in DOMAIN req : req[r].st # "exited"
      BY <2>1 DEF EndInv
    <3> QED BY <2>1, <3>1 DEF FailPending
  <2>3. \A k \in DOMAIN said : k \in 1..heard
    <3>1. heard = Len(said)
      BY <1>0, <1>1 DEF EndInv
    <3> QED BY <3>1 DEF CallInv, Shape
  <2> QED BY <1>1, <2>2, <2>3 DEF Settled
<1> QED BY <1>2, <1>3

-------------------------------------------------------------------------------
(* Observers are told what was written, in the order of the writes. *)

NoticeRecord == [r : Nat, status : {"sent", "undelivered"}]

Ordered(seen, w) ==
  /\ \A n \in DOMAIN w : \E i \in DOMAIN seen : seen[i].status = "sent" /\ seen[i].r = w[n]
  /\ \A i \in DOMAIN seen : seen[i].status = "sent" =>
       \E n \in DOMAIN w :
         /\ w[n] = seen[i].r
         /\ \A j \in 1..(i - 1) : seen[j].status = "sent" => \E m \in 1..(n - 1) : w[m] = seen[j].r
  /\ \A i \in DOMAIN seen : seen[i].status # "sent" =>
       \E j \in 1..(i - 1) : seen[j].status = "sent" /\ seen[j].r = seen[i].r

(* Somebody is being told exactly when there is something to tell, and by one frame only. *)
Telling ==
  /\ \A k, l \in DOMAIN frames : frames[k].k = "announce" /\ frames[l].k = "announce" => k = l
  /\ \A k \in DOMAIN frames : frames[k].k = "announce" => notices # << >>

ToldInv ==
  /\ observed \in Seq(NoticeRecord) /\ notices \in Seq(NoticeRecord) /\ wrote \in Seq(Nat)
  /\ Telling
  /\ Ordered(observed \o notices, wrote)
  /\ \A j \in DOMAIN pipe : \E n \in DOMAIN wrote : wrote[n] = pipe[j]

LEMMA Appended ==
  ASSUME NEW S, NEW s \in Seq(S), NEW x \in S
  PROVE  /\ Append(s, x) \in Seq(S) /\ Len(s) \in Nat
         /\ DOMAIN s = 1..Len(s) /\ DOMAIN Append(s, x) = 1..(Len(s) + 1)
         /\ Append(s, x)[Len(s) + 1] = x /\ \A i \in 1..Len(s) : Append(s, x)[i] = s[i]
         /\ Append(s, x) # << >>
OBVIOUS

LEMMA OrderedSent ==
  ASSUME NEW seen \in Seq(NoticeRecord), NEW w \in Seq(Nat), NEW x \in NoticeRecord, x.status = "sent", Ordered(seen, w)
  PROVE  Ordered(Append(seen, x), Append(w, x.r))
<1> DEFINE s == Append(seen, x)
           v == Append(w, x.r)
<1>1. /\ Len(seen) \in Nat /\ DOMAIN seen = 1..Len(seen) /\ DOMAIN s = 1..(Len(seen) + 1)
      /\ s[Len(seen) + 1] = x /\ \A i \in 1..Len(seen) : s[i] = seen[i]
  BY Appended
<1>2. x.r \in Nat
  BY DEF NoticeRecord
<1>3. /\ Len(w) \in Nat /\ DOMAIN w = 1..Len(w) /\ DOMAIN v = 1..(Len(w) + 1)
      /\ v[Len(w) + 1] = x.r /\ \A i \in 1..Len(w) : v[i] = w[i]
  BY <1>2, Appended
<1> HIDE DEF s, v
<1>4. \A n \in DOMAIN v : \E i \in DOMAIN s : s[i].status = "sent" /\ s[i].r = v[n]
  <2> SUFFICES ASSUME NEW n \in DOMAIN v PROVE \E i \in DOMAIN s : s[i].status = "sent" /\ s[i].r = v[n]
    OBVIOUS
  <2>1. CASE n = Len(w) + 1
    BY <1>1, <1>3, <2>1
  <2>2. CASE n # Len(w) + 1
    <3>1. n \in DOMAIN w /\ v[n] = w[n]
      BY <1>3, <2>2
    <3>2. PICK i \in DOMAIN seen : seen[i].status = "sent" /\ seen[i].r = w[n]
      BY <3>1 DEF Ordered
    <3> QED BY <1>1, <3>1, <3>2
  <2> QED BY <2>1, <2>2
<1>5. ASSUME NEW i \in DOMAIN s, s[i].status = "sent"
      PROVE  \E n \in DOMAIN v :
               /\ v[n] = s[i].r
               /\ \A j \in 1..(i - 1) : s[j].status = "sent" => \E m \in 1..(n - 1) : v[m] = s[j].r
  <2>1. CASE i = Len(seen) + 1
    <3>1. Len(w) + 1 \in DOMAIN v /\ v[Len(w) + 1] = s[i].r
      BY <1>1, <1>3, <2>1
    <3>2. ASSUME NEW j \in 1..(i - 1), s[j].status = "sent" PROVE \E m \in 1..((Len(w) + 1) - 1) : v[m] = s[j].r
      <4>1. j \in DOMAIN seen /\ seen[j] = s[j]
        BY <1>1, <2>1, <3>2
      <4>2. PICK m \in DOMAIN w : w[m] = seen[j].r
        BY <3>2, <4>1 DEF Ordered
      <4>3. m \in 1..((Len(w) + 1) - 1) /\ v[m] = w[m]
        BY <1>3
      <4> QED BY <4>1, <4>2, <4>3
    <3> QED BY <3>1, <3>2
  <2>2. CASE i # Len(seen) + 1
    <3>1. i \in DOMAIN seen /\ s[i] = seen[i] /\ \A j \in 1..(i - 1) : s[j] = seen[j]
      BY <1>1, <2>2
    <3>2. PICK n \in DOMAIN w :
            /\ w[n] = seen[i].r
            /\ \A j \in 1..(i - 1) : seen[j].status = "sent" => \E m \in 1..(n - 1) : w[m] = seen[j].r
      BY <1>5, <3>1 DEF Ordered
    <3>3. n \in DOMAIN v /\ v[n] = w[n] /\ \A m \in 1..(n - 1) : v[m] = w[m]
      BY <1>3
    <3> QED BY <3>1, <3>2, <3>3
  <2> QED BY <2>1, <2>2
<1>6. ASSUME NEW i \in DOMAIN s, s[i].status # "sent"
      PROVE  \E j \in 1..(i - 1) : s[j].status = "sent" /\ s[j].r = s[i].r
  <2>1. i \in DOMAIN seen /\ s[i] = seen[i] /\ \A j \in 1..(i - 1) : s[j] = seen[j]
    BY <1>1, <1>6
  <2>2. PICK j \in 1..(i - 1) : seen[j].status = "sent" /\ seen[j].r = seen[i].r
    BY <1>6, <2>1 DEF Ordered
  <2>3. s[j] = seen[j]
    BY <2>1
  <2> QED BY <2>1, <2>2, <2>3
<1>7. Ordered(s, v)
  BY <1>4, <1>5, <1>6 DEF Ordered
<1> QED BY <1>7 DEF s, v

LEMMA OrderedUndelivered ==
  ASSUME NEW seen \in Seq(NoticeRecord), NEW w \in Seq(Nat), NEW x \in NoticeRecord, x.status # "sent", Ordered(seen, w),
         \E n \in DOMAIN w : w[n] = x.r
  PROVE  Ordered(Append(seen, x), w)
<1> DEFINE s == Append(seen, x)
<1>1. /\ Len(seen) \in Nat /\ DOMAIN seen = 1..Len(seen) /\ DOMAIN s = 1..(Len(seen) + 1)
      /\ s[Len(seen) + 1] = x /\ \A i \in 1..Len(seen) : s[i] = seen[i]
  BY Appended
<1> HIDE DEF s
<1>2. \A n \in DOMAIN w : \E i \in DOMAIN s : s[i].status = "sent" /\ s[i].r = w[n]
  <2> SUFFICES ASSUME NEW n \in DOMAIN w PROVE \E i \in DOMAIN s : s[i].status = "sent" /\ s[i].r = w[n]
    OBVIOUS
  <2>1. PICK i \in DOMAIN seen : seen[i].status = "sent" /\ seen[i].r = w[n]
    BY DEF Ordered
  <2> QED BY <1>1, <2>1
<1>3. ASSUME NEW i \in DOMAIN s, s[i].status = "sent"
      PROVE  \E n \in DOMAIN w :
               /\ w[n] = s[i].r
               /\ \A j \in 1..(i - 1) : s[j].status = "sent" => \E m \in 1..(n - 1) : w[m] = s[j].r
  <2>1. i \in DOMAIN seen /\ s[i] = seen[i] /\ \A j \in 1..(i - 1) : s[j] = seen[j]
    BY <1>1, <1>3
  <2>2. PICK n \in DOMAIN w :
          /\ w[n] = seen[i].r
          /\ \A j \in 1..(i - 1) : seen[j].status = "sent" => \E m \in 1..(n - 1) : w[m] = seen[j].r
    <3>1. seen[i].status = "sent"
      BY <1>3, <2>1
    <3>2. \A k \in DOMAIN seen : seen[k].status = "sent" =>
            \E n \in DOMAIN w :
              /\ w[n] = seen[k].r
              /\ \A j \in 1..(k - 1) : seen[j].status = "sent" => \E m \in 1..(n - 1) : w[m] = seen[j].r
      BY Zenon DEF Ordered
    <3> QED BY ONLY <2>1, <3>1, <3>2, Zenon
  <2> QED BY <2>1, <2>2
<1>4. ASSUME NEW i \in DOMAIN s, s[i].status # "sent"
      PROVE  \E j \in 1..(i - 1) : s[j].status = "sent" /\ s[j].r = s[i].r
  <2>1. CASE i = Len(seen) + 1
    <3>1. PICK n \in DOMAIN w : w[n] = x.r
      OBVIOUS
    <3>2. PICK j \in DOMAIN seen : seen[j].status = "sent" /\ seen[j].r = w[n]
      BY DEF Ordered
    <3>3. j \in 1..(i - 1) /\ s[j] = seen[j] /\ s[i] = x
      BY <1>1, <2>1
    <3> QED BY <3>1, <3>2, <3>3
  <2>2. CASE i # Len(seen) + 1
    <3>1. i \in DOMAIN seen /\ s[i] = seen[i] /\ \A j \in 1..(i - 1) : s[j] = seen[j]
      BY <1>1, <2>2
    <3>2. PICK j \in 1..(i - 1) : seen[j].status = "sent" /\ seen[j].r = seen[i].r
      BY <1>4, <3>1 DEF Ordered
    <3>3. s[j] = seen[j]
      BY <3>1
    <3> QED BY <3>1, <3>2, <3>3
  <2> QED BY <2>1, <2>2
<1>5. Ordered(s, w)
  BY <1>2, <1>3, <1>4 DEF Ordered
<1> QED BY <1>5 DEF s

(* A notice queued comes last; telling it moves it from one list to the other. *)
LEMMA Queued ==
  ASSUME NEW o \in Seq(NoticeRecord), NEW q \in Seq(NoticeRecord), NEW x \in NoticeRecord
  PROVE  o \o Append(q, x) = Append(o \o q, x) /\ o \o q \in Seq(NoticeRecord) /\ Append(q, x) \in Seq(NoticeRecord)
<1>1. o \o q \in Seq(NoticeRecord) /\ Append(q, x) \in Seq(NoticeRecord)
  OBVIOUS
<1>2. o \o Append(q, x) \in Seq(NoticeRecord) /\ Append(o \o q, x) \in Seq(NoticeRecord)
  BY <1>1
<1>3. Len(o \o Append(q, x)) = Len(o) + Len(q) + 1 /\ Len(Append(o \o q, x)) = Len(o) + Len(q) + 1
      /\ Len(o) \in Nat /\ Len(q) \in Nat
  OBVIOUS
<1>4. \A i \in 1..(Len(o) + Len(q) + 1) : (o \o Append(q, x))[i] = Append(o \o q, x)[i]
  OBVIOUS
<1> QED BY <1>1, <1>2, <1>3, <1>4

LEMMA Moved ==
  ASSUME NEW o \in Seq(NoticeRecord), NEW q \in Seq(NoticeRecord), q # << >>
  PROVE  /\ Append(o, Head(q)) \o Tail(q) = o \o q
         /\ Append(o, Head(q)) \in Seq(NoticeRecord) /\ Tail(q) \in Seq(NoticeRecord)
<1>1. Head(q) \in NoticeRecord /\ Tail(q) \in Seq(NoticeRecord) /\ Len(q) \in Nat /\ Len(q) # 0 /\ Len(Tail(q)) = Len(q) - 1
      /\ Len(o) \in Nat
  OBVIOUS
<1>2. Append(o, Head(q)) \in Seq(NoticeRecord) /\ Len(Append(o, Head(q))) = Len(o) + 1
  BY <1>1
<1>3. o \o q \in Seq(NoticeRecord) /\ Append(o, Head(q)) \o Tail(q) \in Seq(NoticeRecord)
      /\ Len(o \o q) = Len(o) + Len(q) /\ Len(Append(o, Head(q)) \o Tail(q)) = Len(o) + Len(q)
  BY <1>1, <1>2
<1>4. ASSUME NEW i \in 1..(Len(o) + Len(q)) PROVE (Append(o, Head(q)) \o Tail(q))[i] = (o \o q)[i]
  <2>1. CASE i <= Len(o)
    BY <1>1, <1>2, <2>1
  <2>2. CASE i = Len(o) + 1
    BY <1>1, <1>2, <2>2
  <2>3. CASE i > Len(o) + 1
    <3>1. (Append(o, Head(q)) \o Tail(q))[i] = Tail(q)[i - (Len(o) + 1)]
      BY <1>1, <1>2, <2>3
    <3>2. Tail(q)[i - (Len(o) + 1)] = q[i - Len(o)]
      BY <1>1, <2>3
    <3>3. (o \o q)[i] = q[i - Len(o)]
      BY <1>1, <2>3
    <3> QED BY <3>1, <3>2, <3>3
  <2> QED BY <1>1, <2>1, <2>2, <2>3
<1> QED BY <1>1, <1>2, <1>3, <1>4

(* The frames that #announce leaves: nobody else tells, and there is something to tell. *)
LEMMA TellingAfter ==
  ASSUME Shape, NEW g \in Seq(FrameRecord), NEW x, Announce(x, g), notices \in Seq(NoticeRecord), x \in NoticeRecord,
         \A k, l \in DOMAIN g : g[k].k = "announce" /\ g[l].k = "announce" => k = l,
         \A k \in DOMAIN g : g[k].k = "announce" => \E i \in DOMAIN frames : frames[i].k = "announce"
  PROVE  Telling'
<1>1. notices' # << >>
  BY Appended DEF Announce
<1>2. CASE frames' = g
  BY <1>1, <1>2 DEF Telling
<1>3. CASE frames' # g
  <2>1. frames' = <<Frame("announce", 0)>> \o g /\ \A k \in DOMAIN g : g[k].k # "announce"
    BY <1>3 DEF Announce
  <2>2. Frame("announce", 0) \in FrameRecord
    BY DEF Frame, FrameRecord
  <2>3. \A n \in DOMAIN frames' : n # 1 => n - 1 \in DOMAIN g /\ frames'[n] = g[n - 1]
    BY <2>1, <2>2, Pushed
  <2>4. \A n \in DOMAIN frames' : frames'[n].k = "announce" => n = 1
    BY <2>1, <2>3
  <2> QED BY <1>1, <2>4 DEF Telling
<1> QED BY <1>2, <1>3

LEMMA Beneath ==
  ASSUME Shape, frames # << >>
  PROVE  /\ Tail(frames) \in Seq(FrameRecord) /\ Head(frames) = frames[1] /\ 1 \in DOMAIN frames
         /\ \A k \in DOMAIN Tail(frames) : k \in Nat /\ k + 1 \in DOMAIN frames /\ k + 1 # 1 /\ Tail(frames)[k] = frames[k + 1]
<1>1. frames \in Seq(FrameRecord) /\ Len(frames) \in Nat /\ Len(frames) # 0 /\ DOMAIN frames = 1..Len(frames)
  BY DEF Shape
<1>2. Tail(frames) \in Seq(FrameRecord) /\ Len(Tail(frames)) = Len(frames) - 1 /\ DOMAIN Tail(frames) = 1..Len(Tail(frames))
  BY <1>1
<1>3. \A k \in 1..Len(Tail(frames)) : k \in Nat /\ k + 1 \in 1..Len(frames) /\ k + 1 # 1 /\ Tail(frames)[k] = frames[k + 1]
  BY <1>1, <1>2
<1> QED BY <1>1, <1>2, <1>3

(* One frame at most of the rest of the stack tells. *)
LEMMA TellsOnce ==
  ASSUME Shape, Telling, frames # << >>
  PROVE  /\ \A k, l \in DOMAIN Tail(frames) : Tail(frames)[k].k = "announce" /\ Tail(frames)[l].k = "announce" => k = l
         /\ \A k \in DOMAIN Tail(frames) : Tail(frames)[k].k = "announce" =>
              frames[1].k # "announce" /\ \E i \in DOMAIN frames : frames[i].k = "announce"
<1> DEFINE t == Tail(frames)
<1>1. /\ 1 \in DOMAIN frames
      /\ \A k \in DOMAIN t : k \in Nat /\ k + 1 \in DOMAIN frames /\ k + 1 # 1 /\ t[k] = frames[k + 1]
  BY Beneath
<1> HIDE DEF t
<1>2. ASSUME NEW k \in DOMAIN t, NEW l \in DOMAIN t, t[k].k = "announce", t[l].k = "announce" PROVE k = l
  <2>1. k \in Nat /\ l \in Nat /\ k + 1 \in DOMAIN frames /\ l + 1 \in DOMAIN frames
        /\ frames[k + 1].k = "announce" /\ frames[l + 1].k = "announce"
    BY <1>1, <1>2
  <2>2. k + 1 = l + 1
    BY <2>1 DEF Telling
  <2> QED BY <2>1, <2>2
<1>3. ASSUME NEW k \in DOMAIN t, t[k].k = "announce"
      PROVE  frames[1].k # "announce" /\ \E i \in DOMAIN frames : frames[i].k = "announce"
  <2>1. k + 1 \in DOMAIN frames /\ frames[k + 1].k = "announce" /\ k + 1 # 1
    BY <1>1, <1>3
  <2> QED BY <1>1, <2>1 DEF Telling
<1>4. /\ \A k, l \in DOMAIN t : t[k].k = "announce" /\ t[l].k = "announce" => k = l
      /\ \A k \in DOMAIN t : t[k].k = "announce" => frames[1].k # "announce" /\ \E i \in DOMAIN frames : frames[i].k = "announce"
  BY <1>2, <1>3
<1> QED BY <1>4 DEF t

LEMMA ToldWrites == CallInv /\ ToldInv /\ Writes => ToldInv'
<1> SUFFICES ASSUME CallInv, ToldInv, Writes PROVE ToldInv'
  OBVIOUS
<1> DEFINE x == [r |-> Inner, status |-> "sent"]
           h == Inner
<1>1. frames # << >> /\ Head(frames).k = "copy" /\ wrote' = Append(wrote, h) /\ observed' = observed /\ pipe' = Append(pipe, h)
      /\ Announce(x, Tail(frames)) /\ notices' = Append(notices, x)
  BY DEF Writes, In, Announce
<1>2. h \in Nat /\ x \in NoticeRecord /\ x.r = h /\ x.status = "sent"
  <2>1. Inner \in DOMAIN req
    BY <1>1 DEF Inner, CallInv, Shape, Places, Holding
  <2>2. Inner \in Nat
    BY <2>1 DEF CallInv, Shape
  <2> QED BY <2>2 DEF NoticeRecord
<1> HIDE DEF x, h
<1>3. Telling'
  BY <1>1, <1>2, Beneath, TellsOnce, TellingAfter DEF CallInv, ToldInv
<1>4. /\ observed' \o notices' = Append(observed \o notices, x) /\ observed \o notices \in Seq(NoticeRecord)
      /\ notices' \in Seq(NoticeRecord) /\ observed' \in Seq(NoticeRecord)
  BY <1>1, <1>2, Queued DEF ToldInv
<1>5. Ordered(Append(observed \o notices, x), Append(wrote, x.r))
  BY <1>2, <1>4, OrderedSent DEF ToldInv
<1>6. Ordered(observed \o notices, wrote)'
  <2>1. Append(wrote, x.r) = wrote'
    BY <1>1, <1>2
  <2>2. Ordered(observed' \o notices', wrote')
    BY <1>4, <1>5, <2>1
  <2> QED BY <2>2 DEF Ordered
<1>7. wrote' \in Seq(Nat) /\ \A j \in DOMAIN pipe' : \E n \in DOMAIN wrote' : wrote'[n] = pipe'[j]
  <2>1. /\ wrote' \in Seq(Nat) /\ Len(wrote) \in Nat /\ DOMAIN wrote = 1..Len(wrote) /\ DOMAIN wrote' = 1..(Len(wrote) + 1)
        /\ wrote'[Len(wrote) + 1] = h /\ \A n \in 1..Len(wrote) : wrote'[n] = wrote[n]
    BY <1>1, <1>2, Appended DEF ToldInv
  <2>2. /\ Len(pipe) \in Nat /\ DOMAIN pipe = 1..Len(pipe) /\ DOMAIN pipe' = 1..(Len(pipe) + 1)
        /\ pipe'[Len(pipe) + 1] = h /\ \A n \in 1..Len(pipe) : pipe'[n] = pipe[n]
    BY <1>1, <1>2, Appended DEF CallInv, Shape
  <2>3. ASSUME NEW j \in DOMAIN pipe' PROVE \E n \in DOMAIN wrote' : wrote'[n] = pipe'[j]
    <3>1. CASE j = Len(pipe) + 1
      BY <2>1, <2>2, <3>1
    <3>2. CASE j # Len(pipe) + 1
      <4>1. j \in DOMAIN pipe /\ pipe'[j] = pipe[j]
        BY <2>2, <3>2
      <4>2. PICK n \in DOMAIN wrote : wrote[n] = pipe[j]
        BY <4>1 DEF ToldInv
      <4>3. n \in DOMAIN wrote' /\ wrote'[n] = wrote[n]
        BY <2>1
      <4> QED BY <4>1, <4>2, <4>3
    <3> QED BY <3>1, <3>2
  <2> QED BY <2>1, <2>3
<1> QED BY <1>3, <1>4, <1>6, <1>7 DEF ToldInv

LEMMA ToldWriteFails == CallInv /\ ToldInv /\ WriteFails => ToldInv'
<1> SUFFICES ASSUME CallInv, ToldInv, WriteFails PROVE ToldInv'
  OBVIOUS
<1> DEFINE h == Head(pipe)
           x == [r |-> h, status |-> "undelivered"]
           f == Frame("unsent", h)
           g == <<f>> \o frames
<1>1. UNCHANGED <<wrote, observed>> /\ pipe # << >> /\ pipe' = Tail(pipe) /\ Announce(x, g) /\ notices' = Append(notices, x)
  BY DEF WriteFails, Announce
<1>2. /\ h \in Nat /\ 1 \in DOMAIN pipe /\ h = pipe[1]
      /\ \A j \in DOMAIN pipe' : j + 1 \in DOMAIN pipe /\ pipe'[j] = pipe[j + 1]
  BY <1>1, Taken DEF CallInv
<1>3. x \in NoticeRecord /\ x.r = h /\ x.status # "sent" /\ f \in FrameRecord /\ f.k = "unsent"
  BY <1>2 DEF NoticeRecord, Frame, FrameRecord
<1>4. /\ g \in Seq(FrameRecord) /\ 1 \in DOMAIN g /\ g[1] = f
      /\ \A n \in DOMAIN g : n # 1 => n - 1 \in DOMAIN frames /\ g[n] = frames[n - 1]
  <2>1. frames \in Seq(FrameRecord)
    BY DEF CallInv, Shape
  <2> HIDE DEF f
  <2> QED BY <1>3, <2>1, Pushed DEF CallInv
<1>5. g \in Seq(FrameRecord) /\ \A n \in DOMAIN g : n \in Nat
  BY <1>4
<1> HIDE DEF h, x, f, g
<1>6. \A n \in DOMAIN g : g[n].k = "announce" => n - 1 \in DOMAIN frames /\ frames[n - 1].k = "announce"
  BY <1>3, <1>4
<1>7. ASSUME NEW k \in DOMAIN g, NEW l \in DOMAIN g, g[k].k = "announce", g[l].k = "announce" PROVE k = l
  <2>1. k - 1 = l - 1
    BY <1>6, <1>7 DEF ToldInv, Telling
  <2> QED BY <1>5, <2>1
<1>8. Telling'
  BY <1>1, <1>3, <1>5, <1>6, <1>7, TellingAfter DEF CallInv, ToldInv
<1>9. /\ observed' \o notices' = Append(observed \o notices, x) /\ observed \o notices \in Seq(NoticeRecord)
      /\ notices' \in Seq(NoticeRecord) /\ observed' \in Seq(NoticeRecord)
  BY <1>1, <1>3, Queued DEF ToldInv
<1>10. Ordered(Append(observed \o notices, x), wrote)
  <2>1. \E n \in DOMAIN wrote : wrote[n] = x.r
    BY <1>2, <1>3 DEF ToldInv
  <2> QED BY <1>3, <1>9, <2>1, OrderedUndelivered DEF ToldInv
<1>11. Ordered(observed \o notices, wrote)'
  <2>1. Ordered(observed' \o notices', wrote')
    BY <1>1, <1>9, <1>10
  <2> QED BY <2>1 DEF Ordered
<1>12. \A j \in DOMAIN pipe' : \E n \in DOMAIN wrote' : wrote'[n] = pipe'[j]
  BY <1>1, <1>2 DEF ToldInv
<1> QED BY <1>1, <1>8, <1>9, <1>11, <1>12 DEF ToldInv

LEMMA ToldTells == CallInv /\ ToldInv /\ Tells => ToldInv'
<1> SUFFICES ASSUME CallInv, ToldInv, Tells PROVE ToldInv'
  OBVIOUS
<1>1. /\ frames # << >> /\ Head(frames).k = "announce" /\ UNCHANGED <<wrote, pipe>>
      /\ observed' = Append(observed, Head(notices)) /\ notices' = Tail(notices)
      /\ frames' = IF notices' = << >> THEN Tail(frames) ELSE frames
  BY DEF Tells, In, lineVars
<1>2. 1 \in DOMAIN frames /\ frames[1].k = "announce"
  BY <1>1, Beneath DEF CallInv
<1>3. notices # << >>
  BY <1>2 DEF ToldInv, Telling
<1>4. observed' \o notices' = observed \o notices /\ observed' \in Seq(NoticeRecord) /\ notices' \in Seq(NoticeRecord)
  BY <1>1, <1>3, Moved DEF ToldInv
<1>5. Telling'
  <2>1. CASE notices' = << >>
    <3>1. frames' = Tail(frames) /\ \A k \in DOMAIN Tail(frames) : Tail(frames)[k].k # "announce"
      BY <1>1, <1>2, <2>1, TellsOnce DEF CallInv, ToldInv
    <3>2. \A k \in DOMAIN frames' : frames'[k].k # "announce"
      BY <3>1
    <3> QED BY <3>2 DEF Telling
  <2>2. CASE notices' # << >>
    <3>1. frames' = frames
      BY <1>1, <2>2
    <3> QED BY <2>2, <3>1 DEF ToldInv, Telling
  <2> QED BY <2>1, <2>2
<1>6. Ordered(observed \o notices, wrote)'
  <2>1. Ordered(observed' \o notices', wrote')
    BY <1>1, <1>4 DEF ToldInv
  <2> QED BY <2>1 DEF Ordered
<1> QED BY <1>1, <1>4, <1>5, <1>6 DEF ToldInv

LEMMA ToldKept ==
  ASSUME ToldInv, UNCHANGED <<observed, notices, wrote>>, Telling', \A j \in DOMAIN pipe' : \E i \in DOMAIN pipe : pipe'[j] = pipe[i]
  PROVE  ToldInv'
<1>1. Ordered(observed \o notices, wrote)'
  <2>1. Ordered(observed' \o notices', wrote')
    BY DEF ToldInv
  <2> QED BY <2>1 DEF Ordered
<1>2. \A j \in DOMAIN pipe' : \E n \in DOMAIN wrote' : wrote'[n] = pipe'[j]
  BY DEF ToldInv
<1> QED BY <1>1, <1>2 DEF ToldInv

LEMMA ToldStep == CallInv /\ ToldInv /\ [Next]_vars => ToldInv'
<1> SUFFICES ASSUME CallInv, ToldInv, [Next]_vars PROVE ToldInv'
  OBVIOUS
<1>1. CASE Call
  <2> DEFINE f == Frame("copy", Len(req'))
  <2>1. UNCHANGED <<observed, notices, wrote, pipe>> /\ frames' = <<f>> \o frames
    BY <1>1 DEF Call, lineVars
  <2>2. f.k = "copy" /\ f \in FrameRecord
    <3>1. req \in Seq(CallRecord) /\ \E new : req' = Append(req, new)
      BY <1>1 DEF Call, CallInv, Shape
    <3>2. Len(req') \in Nat
      BY <3>1
    <3> QED BY <3>2 DEF Frame, FrameRecord
  <2>3. frames \in Seq(FrameRecord)
    BY DEF CallInv, Shape
  <2> HIDE DEF f
  <2>4. /\ frames' \in Seq(FrameRecord) /\ frames'[1] = f
        /\ \A n \in DOMAIN frames' : n # 1 => n - 1 \in DOMAIN frames /\ frames'[n] = frames[n - 1]
    BY <2>1, <2>2, <2>3, Pushed DEF CallInv
  <2>5. \A n \in DOMAIN frames' : n \in Nat
    BY <2>4
  <2>6. \A n \in DOMAIN frames' : frames'[n].k = "announce" => n - 1 \in DOMAIN frames /\ frames[n - 1].k = "announce"
    BY <2>2, <2>4
  <2>7. ASSUME NEW k \in DOMAIN frames', NEW l \in DOMAIN frames', frames'[k].k = "announce", frames'[l].k = "announce"
        PROVE  k = l
    <3>1. k - 1 = l - 1
      BY <2>6, <2>7 DEF ToldInv, Telling
    <3> QED BY <2>5, <3>1
  <2>8. Telling'
    BY <2>1, <2>6, <2>7 DEF ToldInv, Telling
  <2> QED BY <2>1, <2>8, ToldKept
<1>2. CASE Refuses \/ MarksUnsent \/ InputFailed
  <2>1. UNCHANGED <<observed, notices, wrote, pipe>> /\ frames # << >> /\ frames' = Tail(frames)
    BY <1>2 DEF Refuses, MarksUnsent, InputFailed, In, lineVars
  <2>2. /\ \A k, l \in DOMAIN frames' : frames'[k].k = "announce" /\ frames'[l].k = "announce" => k = l
        /\ \A k \in DOMAIN frames' : frames'[k].k = "announce" => \E i \in DOMAIN frames : frames[i].k = "announce"
    BY <2>1, TellsOnce DEF CallInv, ToldInv
  <2>3. Telling'
    BY <2>1, <2>2 DEF ToldInv, Telling
  <2> QED BY <2>1, <2>3, ToldKept
<1>3. CASE InputBreaks
  <2>1. UNCHANGED <<observed, notices, wrote, pipe>> /\ frames' = <<Frame("failing", 0)>>
    BY <1>3 DEF InputBreaks, lineVars
  <2>2. DOMAIN frames' = {1} /\ frames'[1].k = "failing"
    BY <2>1 DEF Frame
  <2>3. Telling'
    BY <2>2 DEF Telling
  <2> QED BY <2>1, <2>3, ToldKept
<1>4. CASE ChildReads
  <2>1. UNCHANGED <<observed, notices, wrote, frames>> /\ pipe # << >> /\ pipe' = Tail(pipe)
    BY <1>4 DEF ChildReads, callVars
  <2>2. \A j \in DOMAIN pipe' : \E i \in DOMAIN pipe : pipe'[j] = pipe[i]
    BY <2>1, Taken DEF CallInv
  <2>3. Telling'
    BY <2>1 DEF ToldInv, Telling
  <2> QED BY <2>1, <2>2, <2>3, ToldKept
<1>5. CASE OwnerDies
  <2>1. /\ observed' = << >> /\ notices' = << >> /\ wrote' = << >> /\ frames' = << >> /\ pipe' = << >>
    BY <1>5 DEF OwnerDies
  <2>2. observed' \o notices' = << >>
    BY <2>1
  <2>3. Ordered(<< >>, << >>)
    BY DEF Ordered
  <2>4. Ordered(observed \o notices, wrote)'
    <3>1. Ordered(observed' \o notices', wrote')
      BY <2>1, <2>2, <2>3
    <3> QED BY <3>1 DEF Ordered
  <2>5. Telling'
    BY <2>1 DEF Telling
  <2>6. \A j \in DOMAIN pipe' : \E n \in DOMAIN wrote' : wrote'[n] = pipe'[j]
    BY <2>1
  <2>7. observed' \in Seq(NoticeRecord) /\ notices' \in Seq(NoticeRecord) /\ wrote' \in Seq(Nat)
    BY <2>1
  <2> QED BY <2>4, <2>5, <2>6, <2>7 DEF ToldInv
<1>6. CASE UNCHANGED <<observed, notices, wrote, frames, pipe>>
  <2>1. Telling'
    BY <1>6 DEF ToldInv, Telling
  <2> QED BY <1>6, <2>1, ToldKept
<1>7. (ChildAnswers \/ Hears \/ LimitPassed \/ TimesOut \/ Ending \/ System \/ UNCHANGED vars)
      => UNCHANGED <<observed, notices, wrote, frames, pipe>>
  BY DEF ChildAnswers, Hears, LimitPassed, TimesOut, Ending, System, ExitSeen, OutputCloses, DrainExpires,
         Close, Terminate, SendsTerm, SendsKill, Reaps, Released, vars, callVars, lineVars
<1> QED BY <1>1, <1>2, <1>3, <1>4, <1>5, <1>6, <1>7, ToldWrites, ToldWriteFails, ToldTells DEF Next, Calling, Talking

-------------------------------------------------------------------------------
(* Whoever is left of a group is killed. *)

GroupInv ==
  /\ killed \in BOOLEAN /\ alive \in BOOLEAN
  /\ keeper = "unstarted" => ~ran
  /\ ~ran => members = {}
  /\ ~alive => members = {} \/ killed
  /\ reap \in {"releasing", "done"} => members = {} \/ killed

LEMMA GroupStep == GroupInv /\ [Next]_vars => GroupInv'
<1> SUFFICES ASSUME GroupInv, [Next]_vars PROVE GroupInv'
  OBVIOUS
<1>1. CASE Calling \/ InputBreaks \/ ChildReads \/ ChildAnswers \/ Hears \/ TimesOut \/ Close \/ SendsTerm \/ UNCHANGED vars
  <2>1. UNCHANGED <<keeper, ran, members, killed, alive, reap>>
    BY <1>1 DEF Calling, Call, Refuses, Writes, Tells, WriteFails, MarksUnsent, InputFailed, InputBreaks, ChildReads,
         ChildAnswers, Hears, TimesOut, Close, SendsTerm, vars, groupVars, endVars
  <2> QED BY <2>1 DEF GroupInv
<1>2. CASE LimitPassed \/ Terminate \/ SendsKill
  <2>1. UNCHANGED <<keeper, ran, members, alive, reap>> /\ (killed => killed') /\ killed' \in BOOLEAN
    BY <1>2 DEF LimitPassed, Terminate, SendsKill, KillGroup, GroupInv
  <2> QED BY <2>1 DEF GroupInv
<1>3. CASE ExitSeen
  <2>1. KeeperReports \/ KeeperGone \/ KeeperUnstarted
    BY <1>3 DEF ExitSeen
  <2>2. reap' = reap \/ reap' = "due"
    BY <1>3 DEF ExitSeen, Terminates
  <2>3. CASE KeeperReports
    <3>1. UNCHANGED <<keeper, ran, members, killed, alive>>
      BY <2>3 DEF KeeperReports
    <3> QED BY <2>2, <3>1 DEF GroupInv
  <2>4. CASE KeeperGone
    <3>1. UNCHANGED <<keeper, ran, members>> /\ alive' = FALSE /\ killed' = (killed \/ members # {})
      BY <2>4 DEF KeeperGone
    <3> QED BY <2>2, <3>1 DEF GroupInv
  <2>5. CASE KeeperUnstarted
    <3>1. UNCHANGED <<keeper, ran, members, killed>> /\ alive' = FALSE /\ keeper = "unstarted"
      BY <2>5 DEF KeeperUnstarted
    <3> QED BY <2>2, <3>1 DEF GroupInv
  <2> QED BY <2>1, <2>3, <2>4, <2>5
<1>4. CASE OutputCloses \/ DrainExpires
  <2>1. UNCHANGED <<keeper, ran, members, alive>> /\ (killed => killed') /\ killed' \in BOOLEAN /\ reap' \in {reap, "due"}
    BY <1>4 DEF OutputCloses, DrainExpires, Terminates, KillGroup, groupVars, GroupInv
  <2> QED BY <2>1 DEF GroupInv
<1>5. CASE Reaps
  <2>1. UNCHANGED <<keeper, ran, members, alive>> /\ (killed => killed') /\ killed' \in BOOLEAN
        /\ (reap' = "grace" \/ killed' = (killed \/ alive))
    BY <1>5 DEF Reaps, KillGroup, GroupInv
  <2> QED BY <2>1 DEF GroupInv
<1>6. CASE Released
  <2>1. UNCHANGED <<keeper, ran, members, killed, alive>> /\ reap = "releasing"
    BY <1>6 DEF Released, groupVars
  <2> QED BY <2>1 DEF GroupInv
<1>7. CASE OwnerDies
  <2>1. UNCHANGED <<keeper, ran, members, killed>> /\ alive' = TRUE /\ reap' = "no"
    BY <1>7 DEF OwnerDies
  <2> QED BY <2>1 DEF GroupInv
<1>8. CASE System
  <2>1. UNCHANGED <<ran, alive, reap>> /\ (killed => killed') /\ killed' \in BOOLEAN
    BY <1>8 DEF System, Forks, KeeperEnds, KeeperEndsGroup, MemberEnds, LeavesOutput, endVars, GroupInv
  <2>2. (members = {} => members' = {}) /\ (keeper' = "unstarted" => keeper = "unstarted")
    BY <1>8 DEF System, Forks, KeeperEnds, KeeperEndsGroup, MemberEnds, LeavesOutput
  <2> QED BY <2>1, <2>2 DEF GroupInv
<1> QED BY <1>1, <1>2, <1>3, <1>4, <1>5, <1>6, <1>7, <1>8 DEF Next, Talking, Ending

-------------------------------------------------------------------------------
(* The bound of a behaviour does not change. *)
LEMMA BoundStep == bound \in Bounds /\ [Next]_vars => bound' \in Bounds
BY DEF Next, Calling, Talking, Ending, System, Call, Refuses, Writes, Tells, WriteFails, MarksUnsent, InputFailed,
       InputBreaks, ChildReads, ChildAnswers, Hears, LimitPassed, TimesOut, ExitSeen, OutputCloses, DrainExpires,
       Close, Terminate, SendsTerm, SendsKill, Reaps, Released, OwnerDies, Forks, KeeperEnds, KeeperEndsGroup, MemberEnds, LeavesOutput,
       KeeperReports, KeeperGone, KeeperUnstarted, vars, groupVars

(* What the connection tells is true (ToldTruly), for any number of calls, however they nest and whatever the child
   writes, and whatever the two caps are. *)
THEOREM TrueWords == Spec => []ToldTruly
<1> DEFINE Inv == bound \in Bounds /\ CallInv /\ ByOwn /\ FaultsAreTrue /\ Settled /\ EndInv /\ LastWordsAreHeard /\ ToldInv
<1>1. Init => Inv
  <2> SUFFICES ASSUME Init PROVE Inv
    OBVIOUS
  <2>1. bound \in Bounds /\ writers = IF ran THEN {"command"} ELSE {}
    BY DEF Init, GroupInit
  <2>2. CallInv
    BY EmptyHolds DEF Init
  <2>3. ByOwn /\ FaultsAreTrue /\ Settled /\ LastWordsAreHeard
    <3>1. req = << >> /\ told = {} /\ pending = << >> /\ terminated = "no"
      BY DEF Init
    <3>2. DOMAIN req = {} /\ DOMAIN pending = {}
      BY <3>1
    <3> QED BY <3>1, <3>2 DEF ByOwn, FaultsAreTrue, Settled, LastWordsAreHeard
  <2>4. EndInv
    <3>1. keeper = "unstarted" => ~ran
      BY DEF Init, GroupInit
    <3>2. req = << >> /\ said = << >> /\ stdoutOpen = TRUE /\ terminated = "no"
      BY DEF Init
    <3>3. DOMAIN req = {}
      BY <3>2
    <3> QED BY <2>1, <3>1, <3>2, <3>3 DEF EndInv
  <2>5. ToldInv
    <3>1. observed = << >> /\ notices = << >> /\ wrote = << >> /\ frames = << >> /\ pipe = << >>
      BY DEF Init
    <3>2. observed \o notices = << >>
      BY <3>1
    <3> QED BY <3>1, <3>2 DEF ToldInv, Telling, Ordered
  <2> QED BY <2>1, <2>2, <2>3, <2>4, <2>5
<1>2. Inv /\ [Next]_vars => Inv'
  <2> SUFFICES ASSUME Inv, [Next]_vars PROVE Inv'
    OBVIOUS
  <2>1. bound.calls \in Nat /\ bound' \in Bounds
    BY BoundStep, BoundsAssumption
  <2>2. CallInv' /\ ByOwn' /\ FaultsAreTrue'
    BY <2>1, CallInvStep, ByOwnStep, FaultsStep
  <2>3. Settled' /\ EndInv' /\ LastWordsAreHeard' /\ ToldInv'
    BY SettledStep, EndInvStep, WordsStep, ToldStep
  <2> QED BY <2>1, <2>2, <2>3
<1>3. Inv => ToldTruly
  <2> SUFFICES ASSUME Inv PROVE ToldTruly
    OBVIOUS
  <2>1. AnswersReachTheirCall
    BY DEF ByOwn, AnswersReachTheirCall
  <2>2. ToldInWriteOrder
    BY DEF ToldInv, Ordered, ToldInWriteOrder
  <2> QED BY <2>1, <2>2 DEF ToldTruly
<1> HIDE DEF Inv
<1> QED BY <1>1, <1>2, <1>3, PTL DEF Spec

(* Whoever still runs of a group that was reaped has been sent SIGKILL (NobodyIsLeft), whatever its processes do and
   whichever of them dies first. *)
THEOREM GroupReaped == Spec => []NobodyIsLeft
<1>1. Init => GroupInv
  BY DEF Init, GroupInit, GroupInv
<1>2. GroupInv => NobodyIsLeft
  BY DEF GroupInv, NobodyIsLeft
<1> QED BY <1>1, <1>2, GroupStep, PTL DEF Spec
===============================================================================
