----------------------------- MODULE Capture_proofs -----------------------------
(***************************************************************************)
(* The recording proxy's capture: how it is written and how it is searched.*)
(*                                                                         *)
(* The capture log, for any number of exchanges, opens and failures: an    *)
(* event that is found has its body, what was recorded is found or         *)
(* counted, and a reader finds one end of an exchange at most and a        *)
(* request without one only where its marker is due or was counted.        *)
(*                                                                         *)
(* The consumption scan, for any capture in any order, any checks and      *)
(* closing searches: a finding is the first increase but for the bodies    *)
(* that could not be read, and "not observed" overlooks none.  IInv says   *)
(* what a scan knows between its slices (ScanOK) and what the last answer  *)
(* rests on (AnswerOK).                                                    *)
(***************************************************************************)
EXTENDS CaptureLog, Consumption, FiniteSetTheorems, WellFoundedInduction, TLAPS

(* What the operations of a queue and of a file make of them.              *)

LEMMA TailOf ==
  ASSUME NEW R, NEW s \in Seq(R), s # << >>
  PROVE  /\ Tail(s) \in Seq(R) /\ Len(s) \in Nat \ {0} /\ Len(Tail(s)) = Len(s) - 1
         /\ \A i \in 1 .. Len(s) - 1 : Tail(s)[i] = s[i + 1]
OBVIOUS

LEMMA ConcatOf ==
  ASSUME NEW R, NEW s \in Seq(R), NEW p \in Seq(R)
  PROVE  /\ s \o p \in Seq(R) /\ Len(s \o p) = Len(s) + Len(p)
         /\ \A i \in 1 .. Len(s) : (s \o p)[i] = s[i]
         /\ \A i \in 1 .. Len(p) : (s \o p)[Len(s) + i] = p[i]
<1>1. Len(s) \in Nat /\ Len(p) \in Nat
  OBVIOUS
<1>2. Len(s \o p) = Len(s) + Len(p)
  OBVIOUS
<1>3. s \o p \in Seq(R)
  OBVIOUS
<1>4. \A i \in 1 .. Len(s) : (s \o p)[i] = s[i]
  OBVIOUS
<1>5. ASSUME NEW i \in 1 .. Len(p) PROVE (s \o p)[Len(s) + i] = p[i]
  BY <1>1, <1>2
<1> QED BY <1>2, <1>3, <1>4, <1>5

LEMMA PairBehind ==
  ASSUME NEW R, NEW s \in Seq(R), NEW a \in R, NEW b \in R
  PROVE  LET t == s \o <<a, b>>
         IN  /\ t \in Seq(R) /\ Len(s) \in Nat /\ Len(t) = Len(s) + 2
             /\ \A i \in 1 .. Len(s) : t[i] = s[i]
             /\ t[Len(s) + 1] = a /\ t[Len(s) + 2] = b
<1> DEFINE p == <<a, b>>
           t == s \o p
<1>1. p \in Seq(R) /\ Len(p) = 2 /\ p[1] = a /\ p[2] = b
  OBVIOUS
<1> HIDE DEF p
<1>2. p \in Seq(R)
  BY <1>1
<1>4. s \o p \in Seq(R) /\ Len(s \o p) = Len(s) + Len(p)
  BY <1>2, ConcatOf
<1>5. \A i \in 1 .. Len(s) : (s \o p)[i] = s[i]
  BY <1>2, ConcatOf
<1>6. \A i \in 1 .. Len(p) : (s \o p)[Len(s) + i] = p[i]
  BY <1>2, ConcatOf
<1>3. Len(s) \in Nat
  OBVIOUS
<1>7. t = s \o p
  OBVIOUS
<1> HIDE DEF t
<1>8. /\ t \in Seq(R) /\ Len(t) = Len(s) + 2
      /\ \A i \in 1 .. Len(s) : t[i] = s[i]
      /\ t[Len(s) + 1] = a /\ t[Len(s) + 2] = b
  BY <1>1, <1>3, <1>4, <1>5, <1>6, <1>7
<1> QED BY <1>3, <1>8 DEF p, t

LEMMA AppendOf ==
  ASSUME NEW R, NEW s \in Seq(R), NEW r \in R
  PROVE  /\ Append(s, r) \in Seq(R) /\ Len(s) \in Nat /\ Len(Append(s, r)) = Len(s) + 1
         /\ Append(s, r)[Len(s) + 1] = r /\ \A i \in 1 .. Len(s) : Append(s, r)[i] = s[i]
OBVIOUS

LEMMA PrefixOf ==
  ASSUME NEW R, NEW s \in Seq(R), NEW k \in 0 .. Len(s)
  PROVE  /\ SubSeq(s, 1, k) \in Seq(R) /\ Len(SubSeq(s, 1, k)) = k
         /\ \A i \in 1 .. k : SubSeq(s, 1, k)[i] = s[i]
OBVIOUS

(* A frame written is the last one found, or lies behind a torn one.       *)
LEMMA WrittenLog ==
  ASSUME NEW R, NEW f \in Logs(R), NEW r \in R, NEW new \in Written(f, r)
  PROVE  /\ new \in Logs(R) /\ new.synced = f.synced
         /\ f.rest = "none" => new.frames = Append(f.frames, r) /\ new.rest = "none"
         /\ f.rest # "none" => new.frames = f.frames /\ new.rest # "none"
<1>1. CASE f.rest = "none"
  <2>1. new = [f EXCEPT !.frames = Append(@, r)]
    BY <1>1 DEF Written
  <2>2. Append(f.frames, r) \in Seq(R)
    BY AppendOf DEF Logs
  <2> QED BY <1>1, <2>1, <2>2 DEF Logs
<1>2. CASE f.rest # "none"
  <2>1. PICK rest \in {f.rest, "corrupt"} : new = [f EXCEPT !.behind = Append(@, r), !.rest = rest]
    BY <1>2 DEF Written
  <2>2. rest \in Rests /\ rest # "none"
    BY <1>2 DEF Logs, Rests
  <2>3. Append(f.behind, r) \in Seq(R)
    BY AppendOf DEF Logs
  <2> QED BY <1>2, <2>1, <2>2, <2>3 DEF Logs
<1> QED BY <1>1, <1>2

(* What a stop or an open leaves is the front of what was there.           *)
Front(new, old) ==
  /\ new \in Logs(Events) /\ new.synced <= Len(new.frames)
  /\ Len(new.frames) <= Len(old.frames)
  /\ \A i \in 1 .. Len(new.frames) : new.frames[i] = old.frames[i]

LEMMA FrontCut ==
  ASSUME NEW f \in Logs(Events), NEW k \in 0 .. Len(f.frames), NEW rest \in Rests
  PROVE  Front([CutTo(f, k) EXCEPT !.rest = rest], f) /\ Front(CutTo(f, k), f)
<1> DEFINE cut == SubSeq(f.frames, 1, k)
<1>1. f.frames \in Seq(Events) /\ k \in Nat /\ k <= Len(f.frames) /\ << >> \in Seq(Events)
  BY DEF Logs
<1>2. cut \in Seq(Events) /\ Len(cut) = k /\ \A i \in 1 .. k : cut[i] = f.frames[i]
  BY <1>1, PrefixOf
<1>3. CutTo(f, k) = [frames |-> cut, rest |-> "none", behind |-> << >>, synced |-> k]
  BY DEF CutTo
<1> HIDE DEF cut
<1> DEFINE new == CutTo(f, k)
<1>4. Front(new, f)
  BY <1>1, <1>2, <1>3 DEF Front, Logs, Rests
<1>5. new \in Logs(Events)
  BY <1>4 DEF Front
<1> HIDE DEF new
<1>6. Front([new EXCEPT !.rest = rest], f)
  BY <1>4, <1>5 DEF Front, Logs
<1> QED BY <1>4, <1>6 DEF new

LEMMA FrontStop ==
  ASSUME NEW f \in Logs(Events), NEW new \in AfterStop(f)
  PROVE  Front(new, f)
<1>1. f.frames \in Seq(Events) /\ f.synced \in Nat /\ Len(f.frames) \in Nat
  BY DEF Logs
<1>2. CASE new = Synced(f)
  BY <1>1, <1>2 DEF Synced, Front, Logs
<1>3. ASSUME NEW k \in f.synced .. Len(f.frames) - 1, NEW rest \in {"none", "torn"},
             new = [CutTo(f, k) EXCEPT !.rest = rest]
      PROVE  Front(new, f)
  <2>1. k \in 0 .. Len(f.frames) /\ rest \in Rests
    BY <1>1 DEF Rests
  <2> QED BY <1>3, <2>1, FrontCut
<1> QED BY <1>2, <1>3 DEF AfterStop

LEMMA FrontHeld ==
  ASSUME NEW new, NEW old \in Logs(Events), Front(new, old)
  PROVE  Held(new.frames) \subseteq Held(old.frames)
<1>1. Len(new.frames) \in Nat /\ Len(old.frames) \in Nat
  BY DEF Front, Logs
<1> QED BY <1>1 DEF Front, Held

-----------------------------------------------------------------------------
(* The markers of an open.                                                 *)

LEMMA Greatest ==
  ASSUME NEW n \in Nat, NEW S \in SUBSET (1 .. n), S # {}
  PROVE  \E k \in S : \A i \in S : i <= k
<1> DEFINE T == {n - i : i \in S}
           Less == {p \in Nat \X Nat : p[1] < p[2]}
<1>1. IsWellFoundedOn(Less, Nat)
  BY NatLessThanWellFounded DEF OpToRel
<1>2. T \in SUBSET Nat
  OBVIOUS
<1>3. T # {}
  <2>1. PICK i \in S : TRUE
    OBVIOUS
  <2>2. n - i \in T
    BY <2>1
  <2> QED BY <2>2
<1>4. PICK m \in T : \A l \in T : <<l, m>> \notin Less
  <2> HIDE DEF T, Less
  <2> QED BY <1>1, <1>2, <1>3, WFMin
<1>5. PICK k \in S : m = n - k
  OBVIOUS
<1>6. ASSUME NEW i \in S PROVE i <= k
  <2>1. n - i \in T /\ n - i \in Nat /\ m \in Nat
    BY <1>2
  <2>2. ~ (n - i < m)
    BY <1>4, <2>1
  <2> QED BY <1>5, <2>2
<1> QED BY <1>6

Requests(s, x) == {i \in 1 .. Len(s) : s[i].kind = "request" /\ s[i].number = x}

(* A number to mark has a last request, whose recording the marker names.  *)
LEMMA MarkerOf ==
  ASSUME NEW s \in Seq(Events), NEW x \in ToMark(s)
  PROVE  \E k \in Requests(s, x) :
           /\ \A i \in Requests(s, x) : i <= k
           /\ Marker(s, x) = Event("interrupted", x, s[k].recording)
           /\ Marker(s, x) \in Events
<1>1. Len(s) \in Nat
  OBVIOUS
<1>2. Requests(s, x) \in SUBSET (1 .. Len(s)) /\ Requests(s, x) # {}
  BY DEF ToMark, OpenIn, Requests
<1>3. \E k \in Requests(s, x) : \A i \in Requests(s, x) : i <= k
  BY <1>1, <1>2, Greatest
<1> DEFINE k == CHOOSE i \in Requests(s, x) : \A j \in Requests(s, x) : j <= i
<1>4. k \in Requests(s, x) /\ \A i \in Requests(s, x) : i <= k
  BY <1>3
<1>5. LastRecording(s, x) = s[k].recording
  BY DEF LastRecording, Requests
<1> HIDE DEF k
<1>6. s[k] \in Events /\ x \in Exchanges
  BY <1>4 DEF Requests, ToMark
<1>7. Event("interrupted", x, s[k].recording) \in Events
  BY <1>6 DEF Event, Events, Kinds
<1> QED BY <1>4, <1>5, <1>7 DEF Marker

LEMMA FewToMark ==
  ASSUME NEW s \in Seq(Events)
  PROVE  Cardinality(ToMark(s)) \in Nat
<1> DEFINE number == [i \in 1 .. Len(s) |-> s[i].number]
           numbers == {s[i].number : i \in 1 .. Len(s)}
<1>1. number \in Surjection(1 .. Len(s), numbers)
  BY DEF Surjection
<1>2. IsFiniteSet(1 .. Len(s))
  BY FS_Interval
<1>3. IsFiniteSet(numbers)
  <2> HIDE DEF number, numbers
  <2> QED BY <1>1, <1>2, FS_Surjection
<1>4. ToMark(s) \in SUBSET numbers
  BY DEF ToMark, OpenIn
<1> HIDE DEF numbers
<1> QED BY <1>3, <1>4, FS_Subset, FS_CardinalityType

(* The queue an open begins with holds the markers, each number once.      *)
LEMMA Marking ==
  ASSUME NEW s \in Seq(Events), NEW n \in Nat, NEW order \in [1 .. n -> ToMark(s)],
         NEW q, q = [i \in 1 .. n |-> Frame(Marker(s, order[i]))]
  PROVE  /\ q \in Seq(Operations) /\ Len(q) = n
         /\ \A i \in 1 .. n : q[i] = Frame(Marker(s, order[i]))
<1>1. \A x \in ToMark(s) : Marker(s, x) \in Events
  BY MarkerOf
<1>2. \A i \in 1 .. n : Frame(Marker(s, order[i])) \in Operations
  BY <1>1 DEF Frame, Operations
<1> QED BY <1>2

-----------------------------------------------------------------------------
(* Types, and what a program point knows of the queue.                     *)

Base ==
  /\ TypeOK
  /\ pc = "sync" => Running("log")
  /\ pc = "closed" => queue = << >>
  /\ pc # "closed" => opens \in 1 .. MaxOpens

LEMMA BaseInit == Init => Base
<1>1. EmptyLog \in Logs(Events) /\ EmptyLog.synced <= Len(EmptyLog.frames)
  BY DEF EmptyLog, Logs, Rests
<1> QED BY <1>1, CaptureAssumption DEF Init, Base, TypeOK, Steps

(* The steps of the queue's first operation take it off the queue or leave *)
(* the queue as it is.                                                     *)
LEMMA BaseNext == Base /\ [Next]_vars => Base'
<1> SUFFICES ASSUME Base, [Next]_vars PROVE Base'
  OBVIOUS
<1> USE DEF Base
<1>1. /\ log \in Logs(Events) /\ log.frames \in Seq(Events) /\ Len(log.frames) \in 0 .. Len(log.frames)
      /\ queue \in Seq(Operations)
  BY DEF TypeOK, Logs
<1>2. CASE Open
  <2>1. Front(log', log) \/ log' = log
    BY <1>1, <1>2, FrontCut DEF Open, Rests
  <2>2. opens' \in 1 .. MaxOpens
    BY <1>2, CaptureAssumption DEF Open, TypeOK
  <2>3. PICK order \in [1 .. Cardinality(ToMark(log.frames)) -> ToMark(log.frames)] :
          queue' = [i \in 1 .. Cardinality(ToMark(log.frames)) |-> Frame(Marker(log.frames, order[i]))]
    BY <1>2 DEF Open
  <2>4. queue' \in Seq(Operations)
    BY <1>1, <2>3, FewToMark, Marking
  <2>5. recorded' \subseteq Events
    <3>1. \A x \in ToMark(log.frames) : Marker(log.frames, x) \in Events
      BY <1>1, MarkerOf
    <3> QED BY <1>2, <3>1 DEF Open
  <2>6. log' \in Logs(Events) /\ log'.synced <= Len(log'.frames)
    BY <2>1 DEF Front, TypeOK
  <2> QED BY <1>2, <2>2, <2>4, <2>5, <2>6 DEF Open, TypeOK, Steps
<1>3. ASSUME NEW e \in Events, Record(e), pc # "closed", exchange' \in [Exchanges -> {"new", "open", "ended"}]
      PROVE Base'
  <2>1. Body(e) \in Operations /\ Frame(e) \in Operations
    BY DEF Body, Frame, Operations
  <2>2. queue' \in Seq(Operations) /\ (queue # << >> => queue'[1] = queue[1] /\ queue' # << >>)
    <3>1. queue' = queue \o <<Body(e), Frame(e)>>
      BY <1>3 DEF Record, BodyFirst
    <3>2. /\ queue' \in Seq(Operations) /\ Len(queue) \in Nat /\ Len(queue') = Len(queue) + 2
          /\ \A i \in 1 .. Len(queue) : queue'[i] = queue[i]
      BY <1>1, <2>1, <3>1, PairBehind
    <3> QED BY <1>1, <3>2
  <2> QED BY <1>3, <2>2 DEF Record, TypeOK, Running
<1>4. ASSUME NEW x \in Exchanges, Request(x) \/ End(x) PROVE Base'
  <2>1. Event("request", x, opens) \in Events /\ Event("ended", x, opens) \in Events
    BY <1>4 DEF Request, End, Event, Events, Kinds
  <2>2. pc # "closed" /\ exchange' \in [Exchanges -> {"new", "open", "ended"}]
    BY <1>4 DEF Request, End, TypeOK
  <2> QED BY <1>3, <1>4, <2>1, <2>2 DEF Request, End
<1>5. CASE queue # << >> /\ queue' = Tail(queue) /\ pc' = "write" /\ UNCHANGED <<exchange, recorded, opens>>
           /\ pc # "closed" /\ log' \in Logs(Events) /\ log'.synced <= Len(log'.frames)
           /\ blobs' \subseteq Events /\ failed' \subseteq Operations
  <2>1. queue' \in Seq(Operations)
    BY <1>1, <1>5, TailOf
  <2> QED BY <1>5, <2>1 DEF TypeOK, Steps
<1>6. queue # << >> => queue[1] \in Operations /\ queue[1].event \in Events
  <2>1. queue # << >> => Len(queue) \in Nat \ {0}
    BY <1>1, TailOf
  <2>2. queue # << >> => queue[1] \in Operations
    BY <1>1, <2>1
  <2> QED BY <2>2 DEF Operations
<1>7. CASE StoreBody
  BY <1>5, <1>6, <1>7 DEF StoreBody, Running, TypeOK
<1>8. CASE Write
  <2>1. log' \in Written(log, queue[1].event) /\ queue[1].event \in Events
    BY <1>6, <1>8 DEF Write, Running
  <2>2. /\ log' \in Logs(Events) /\ log'.synced = log.synced
        /\ log'.frames = Append(log.frames, queue[1].event) \/ log'.frames = log.frames
    BY <1>1, <2>1, WrittenLog
  <2>3. log'.synced <= Len(log'.frames)
    <3>1. Len(Append(log.frames, queue[1].event)) = Len(log.frames) + 1
      BY <1>1, <2>1, AppendOf
    <3>2. log.synced \in Nat /\ log.synced <= Len(log.frames) /\ Len(log.frames) \in Nat
      BY <1>1 DEF TypeOK, Logs
    <3> QED BY <2>2, <3>1, <3>2
  <2> QED BY <1>8, <2>2, <2>3 DEF Write, Running, TypeOK, Steps
<1>9. log' = Synced(log) => log' \in Logs(Events) /\ log'.synced <= Len(log'.frames)
  BY <1>1 DEF Synced, Logs
<1>10. CASE Sync
  BY <1>5, <1>9, <1>10 DEF Sync, Running, TypeOK
<1>11. log' = HalfWritten(log) => log' \in Logs(Events) /\ log'.synced <= Len(log'.frames)
  BY <1>1 DEF HalfWritten, Logs, Rests, TypeOK
<1>12. CASE WriteFails \/ ShortWrite
  BY <1>5, <1>6, <1>11, <1>12 DEF WriteFails, ShortWrite, Running, NextAfterFailure, TypeOK
<1>13. CASE Close \/ ProcessEnds \/ MachineStops
  <2>1. log' = log \/ Front(log', log)
    BY <1>1, <1>13, FrontStop DEF Close, ProcessEnds, MachineStops
  <2>2. log' \in Logs(Events) /\ log'.synced <= Len(log'.frames)
    BY <2>1 DEF Front, TypeOK
  <2>3. /\ queue' = << >> /\ pc' = "closed" /\ recorded' = {} /\ exchange' = [x \in Exchanges |-> "new"]
        /\ UNCHANGED <<blobs, failed, opens>>
    BY <1>13 DEF Close, ProcessEnds, MachineStops, Down
  <2> QED BY <2>2, <2>3 DEF TypeOK, Steps
<1>14. CASE UNCHANGED vars
  BY <1>14 DEF vars, TypeOK, Running
<1> QED BY <1>2, <1>4, <1>7, <1>8, <1>10, <1>12, <1>13, <1>14 DEF Next, Queue

-----------------------------------------------------------------------------
(* The ways a step goes, in the terms the properties need.                 *)

(* The first operation is done: it leaves the queue. *)
Pop ==
  /\ queue # << >> /\ queue' = Tail(queue)
  /\ pc # "closed" /\ pc' = "write"
  /\ log'.frames = log.frames /\ (log'.rest = "none" => log.rest = "none")
  /\ UNCHANGED <<exchange, recorded, opens>>

StoredOne == Pop /\ queue[1].to = "blobs" /\ blobs' = blobs \union {queue[1].event} /\ UNCHANGED failed
SyncedOne == Pop /\ queue[1].to = "log" /\ pc = "sync" /\ UNCHANGED <<blobs, failed>>
CountedOne == Pop /\ failed' = failed \union {queue[1]} /\ UNCHANGED blobs

WroteOne ==
  /\ queue # << >> /\ queue[1].to = "log" /\ pc = "write" /\ pc' = "sync"
  /\ log.rest = "none" => log'.frames = Append(log.frames, queue[1].event) /\ log'.rest = "none"
  /\ log.rest # "none" => log'.frames = log.frames /\ log'.rest # "none"
  /\ UNCHANGED <<blobs, queue, failed, exchange, recorded, opens>>

RecordedOne(e) ==
  /\ pc # "closed" /\ queue' = queue \o <<Body(e), Frame(e)>> /\ recorded' = recorded \union {e}
  /\ UNCHANGED <<log, blobs, pc, failed, opens>>

WentDown ==
  /\ pc' = "closed" /\ queue' = << >> /\ UNCHANGED <<blobs, failed, opens>>
  /\ Len(log'.frames) <= Len(log.frames) /\ \A i \in 1 .. Len(log'.frames) : log'.frames[i] = log.frames[i]

(* A log is opened again: its frames stay, and the queue holds the markers.*)
OpenedIt ==
  LET open == ToMark(log.frames)
  IN  /\ pc = "closed" /\ pc' = "write" /\ opens' = opens + 1 /\ log'.frames = log.frames
      /\ UNCHANGED <<blobs, failed>> /\ exchange' = [x \in Exchanges |-> "new"]
      /\ recorded' = {Marker(log.frames, x) : x \in open}
      /\ \E order \in [1 .. Cardinality(open) -> open] :
           /\ \A x \in open : \E i \in 1 .. Cardinality(open) : order[i] = x
           /\ queue' \in Seq(Operations) /\ Len(queue') = Cardinality(open)
           /\ \A i \in 1 .. Cardinality(open) : queue'[i] = Frame(Marker(log.frames, order[i]))

LEMMA Ways ==
  ASSUME Base, [Next]_vars
  PROVE  \/ StoredOne \/ SyncedOne \/ CountedOne \/ WroteOne \/ WentDown \/ OpenedIt
         \/ \E x \in Exchanges : Request(x) /\ Event("request", x, opens) \in Events
                                 /\ RecordedOne(Event("request", x, opens))
         \/ \E x \in Exchanges : End(x) /\ Event("ended", x, opens) \in Events
                                 /\ RecordedOne(Event("ended", x, opens))
         \/ UNCHANGED vars
<1>1. /\ log \in Logs(Events) /\ log.frames \in Seq(Events) /\ Len(log.frames) \in 0 .. Len(log.frames)
      /\ queue \in Seq(Operations)
  BY DEF Base, TypeOK, Logs
<1>2. queue # << >> => queue[1] \in Operations /\ queue[1].event \in Events
  <2>1. queue # << >> => Len(queue) \in Nat \ {0}
    BY <1>1, TailOf
  <2>2. queue # << >> => queue[1] \in Operations
    BY <1>1, <2>1
  <2> QED BY <2>2 DEF Operations
<1>3. ASSUME Open PROVE OpenedIt
  <2> DEFINE open == ToMark(log.frames)
             n == Cardinality(open)
  <2>1. log'.frames = log.frames
    <3>1. CutTo(log, Len(log.frames)).frames = SubSeq(log.frames, 1, Len(log.frames))
      BY DEF CutTo
    <3>2. SubSeq(log.frames, 1, Len(log.frames)) = log.frames
      BY <1>1
    <3> QED BY <1>3, <3>1, <3>2 DEF Open
  <2>2. PICK order \in [1 .. n -> open] :
          /\ \A x \in open : \E i \in 1 .. n : order[i] = x
          /\ queue' = [i \in 1 .. n |-> Frame(Marker(log.frames, order[i]))]
    BY <1>3 DEF Open
  <2>3. recorded' = {Marker(log.frames, x) : x \in open}
    BY <1>3 DEF Open
  <2>4. n \in Nat
    BY <1>1, FewToMark
  <2>5. /\ queue' \in Seq(Operations) /\ Len(queue') = n
        /\ \A i \in 1 .. n : queue'[i] = Frame(Marker(log.frames, order[i]))
    <3>1. order \in [1 .. n -> ToMark(log.frames)] /\ log.frames \in Seq(Events)
      BY <1>1
    <3> HIDE DEF n, open
    <3>2. queue' = [i \in 1 .. n |-> Frame(Marker(log.frames, order[i]))]
      BY <2>2
    <3> QED BY <3>1, <3>2, <2>4, Marking
  <2> QED BY <1>3, <2>1, <2>2, <2>3, <2>5 DEF Open, OpenedIt
<1>4. ASSUME NEW x \in Exchanges, Request(x)
      PROVE  Event("request", x, opens) \in Events /\ RecordedOne(Event("request", x, opens))
  BY <1>4 DEF Request, Record, BodyFirst, RecordedOne, Event, Events, Kinds, Base
<1>5. ASSUME NEW x \in Exchanges, End(x)
      PROVE  Event("ended", x, opens) \in Events /\ RecordedOne(Event("ended", x, opens))
  BY <1>5 DEF End, Record, BodyFirst, RecordedOne, Event, Events, Kinds, Base
<1>6. ASSUME StoreBody PROVE StoredOne
  BY <1>6 DEF StoreBody, Running, StoredOne, Pop
<1>7. ASSUME Write PROVE WroteOne
  <2>1. log' \in Written(log, queue[1].event) /\ queue[1].event \in Events
    BY <1>2, <1>7 DEF Write, Running
  <2>2. /\ log.rest = "none" => log'.frames = Append(log.frames, queue[1].event) /\ log'.rest = "none"
        /\ log.rest # "none" => log'.frames = log.frames /\ log'.rest # "none"
    BY <1>1, <2>1, WrittenLog
  <2> QED BY <1>7, <2>2 DEF Write, Running, WroteOne
<1>8. ASSUME Sync PROVE SyncedOne
  BY <1>1, <1>8 DEF Sync, Synced, Base, Running, SyncedOne, Pop, Logs
<1>9. ASSUME WriteFails \/ ShortWrite PROVE CountedOne
  <2>1. log' \in {log, HalfWritten(log)}
    BY <1>9 DEF WriteFails, ShortWrite
  <2>2. log'.frames = log.frames /\ (log'.rest = "none" => log.rest = "none")
    BY <1>1, <2>1 DEF HalfWritten, Logs
  <2> QED BY <1>9, <2>2 DEF WriteFails, ShortWrite, Running, NextAfterFailure, CountedOne, Pop
<1>10. ASSUME Close \/ ProcessEnds \/ MachineStops PROVE WentDown
  <2>1. Len(log'.frames) <= Len(log.frames) /\ \A i \in 1 .. Len(log'.frames) : log'.frames[i] = log.frames[i]
    <3>1. CASE log' = log
      BY <1>1, <3>1
    <3>2. CASE log' \in AfterStop(log)
      BY <1>1, <3>2, FrontStop DEF Front
    <3> QED BY <1>10, <3>1, <3>2 DEF Close, ProcessEnds, MachineStops
  <2> QED BY <1>10, <2>1 DEF Close, ProcessEnds, MachineStops, Down, WentDown
<1> QED BY <1>3, <1>4, <1>5, <1>6, <1>7, <1>8, <1>9, <1>10 DEF Next, Queue

(* Every variable keeps its type, for any exchanges, opens and failures.   *)
THEOREM TypeCorrect == Spec => []TypeOK
<1>1. Base => TypeOK
  BY DEF Base
<1> QED BY <1>1, BaseInit, BaseNext, PTL DEF Spec

-----------------------------------------------------------------------------
(* Bodies come before events.                                              *)

HasBody(e, b, f) == e.kind = "interrupted" \/ e \in b \/ Body(e) \in f

(* An event in the queue has its body, or the body is queued before it.    *)
BodyInv ==
  /\ \A e \in Held(log.frames) : HasBody(e, blobs, failed)
  /\ \A i \in 1 .. Len(queue) : queue[i].to = "log" =>
       HasBody(queue[i].event, blobs, failed) \/ \E j \in 1 .. i - 1 : queue[j] = Body(queue[i].event)

LEMMA BodyPop ==
  ASSUME Base, BodyInv, StoredOne \/ SyncedOne \/ CountedOne
  PROVE  BodyInv'
<1>1. queue \in Seq(Operations) /\ queue # << >> /\ queue' = Tail(queue) /\ log'.frames = log.frames
  BY DEF Base, TypeOK, StoredOne, SyncedOne, CountedOne, Pop
<1>2. /\ Len(queue) \in Nat \ {0} /\ Len(queue') = Len(queue) - 1
      /\ \A i \in 1 .. Len(queue) - 1 : queue'[i] = queue[i + 1]
  BY <1>1, TailOf
<1>3. blobs \subseteq blobs' /\ failed \subseteq failed'
  BY DEF StoredOne, SyncedOne, CountedOne
<1>4. \A e \in Events : HasBody(e, blobs, failed) => HasBody(e, blobs', failed')
  BY <1>3 DEF HasBody
<1>5. \A e \in Events : queue[1] = Body(e) => HasBody(e, blobs', failed')
  BY DEF HasBody, Body, StoredOne, SyncedOne, CountedOne
<1>6. \A e \in Held(log'.frames) : HasBody(e, blobs', failed')
  BY <1>1, <1>3 DEF BodyInv, HasBody
<1>7. ASSUME NEW i \in 1 .. Len(queue'), queue'[i].to = "log"
      PROVE  HasBody(queue'[i].event, blobs', failed') \/ \E j \in 1 .. i - 1 : queue'[j] = Body(queue'[i].event)
  <2> DEFINE e == queue[i + 1].event
  <2>1. i + 1 \in 1 .. Len(queue) /\ queue'[i] = queue[i + 1] /\ e \in Events
    <3>1. i + 1 \in 1 .. Len(queue) /\ queue'[i] = queue[i + 1]
      BY <1>2
    <3>2. queue[i + 1] \in Operations
      BY <1>1, <3>1
    <3> QED BY <3>1, <3>2 DEF Operations
  <2> HIDE DEF e
  <2>2. HasBody(e, blobs, failed) \/ \E j \in 1 .. i : queue[j] = Body(e)
    <3>1. queue[i + 1].to = "log" /\ e = queue[i + 1].event
      BY <1>7, <2>1 DEF e
    <3>2. HasBody(queue[i + 1].event, blobs, failed) \/ \E j \in 1 .. i + 1 - 1 : queue[j] = Body(queue[i + 1].event)
      BY <2>1, <3>1 DEF BodyInv
    <3> QED BY <1>2, <3>1, <3>2
  <2>3. CASE HasBody(e, blobs, failed)
    BY <1>4, <2>1, <2>3 DEF e
  <2>4. ASSUME NEW j \in 1 .. i, queue[j] = Body(e)
        PROVE  HasBody(e, blobs', failed') \/ \E k \in 1 .. i - 1 : queue'[k] = Body(e)
    <3>1. CASE j = 1
      BY <1>5, <2>1, <2>4, <3>1
    <3>2. CASE j # 1
      <4>1. j - 1 \in 1 .. i - 1 /\ j - 1 \in 1 .. Len(queue) - 1 /\ (j - 1) + 1 = j
        BY <1>2, <2>1, <3>2
      <4>2. queue'[j - 1] = queue[j]
        BY <1>2, <4>1
      <4> QED BY <2>4, <4>1, <4>2
    <3> QED BY <3>1, <3>2
  <2> QED BY <2>1, <2>2, <2>3, <2>4 DEF e
<1> QED BY <1>6, <1>7 DEF BodyInv

LEMMA BodyNext == Base /\ BodyInv /\ [Next]_vars => BodyInv'
<1> SUFFICES ASSUME Base, BodyInv, [Next]_vars PROVE BodyInv'
  OBVIOUS
<1>1. log \in Logs(Events) /\ log.frames \in Seq(Events) /\ queue \in Seq(Operations)
  BY DEF Base, TypeOK, Logs
<1>2. CASE StoredOne \/ SyncedOne \/ CountedOne
  BY <1>2, BodyPop
<1>3. CASE WroteOne
  <2>1. Len(queue) \in Nat \ {0} /\ queue[1] \in Operations /\ queue[1].event \in Events
    <3>1. Len(queue) \in Nat \ {0}
      BY <1>1, <1>3, TailOf DEF WroteOne
    <3>2. queue[1] \in Operations
      BY <1>1, <3>1
    <3> QED BY <3>1, <3>2 DEF Operations
  <2>2. HasBody(queue[1].event, blobs, failed)
    BY <1>3, <2>1 DEF BodyInv, WroteOne
  <2>3. Held(Append(log.frames, queue[1].event)) \subseteq Held(log.frames) \union {queue[1].event}
    BY <1>1, <2>1, AppendOf DEF Held
  <2>4. Held(log'.frames) \subseteq Held(log.frames) \union {queue[1].event}
    BY <1>3, <2>3 DEF WroteOne, Held
  <2>5. UNCHANGED <<queue, blobs, failed>>
    BY <1>3 DEF WroteOne
  <2> QED BY <2>2, <2>4, <2>5 DEF BodyInv
<1>4. ASSUME NEW e \in Events, RecordedOne(e) PROVE BodyInv'
  <2>1. /\ queue' = queue \o <<Body(e), Frame(e)>> /\ Body(e) \in Operations /\ Frame(e) \in Operations
        /\ UNCHANGED <<log, blobs, failed>>
    BY <1>4 DEF RecordedOne, Body, Frame, Operations
  <2>2. /\ Len(queue) \in Nat /\ Len(queue') = Len(queue) + 2
        /\ \A i \in 1 .. Len(queue) : queue'[i] = queue[i]
        /\ queue'[Len(queue) + 1] = Body(e) /\ queue'[Len(queue) + 2] = Frame(e)
    BY <1>1, <2>1, PairBehind
  <2>3. ASSUME NEW i \in 1 .. Len(queue'), queue'[i].to = "log"
        PROVE  HasBody(queue'[i].event, blobs, failed) \/ \E j \in 1 .. i - 1 : queue'[j] = Body(queue'[i].event)
    <3>1. CASE i \in 1 .. Len(queue)
      <4>1. queue'[i] = queue[i] /\ \A j \in 1 .. i - 1 : queue'[j] = queue[j]
        BY <2>2, <3>1
      <4> QED BY <2>3, <3>1, <4>1 DEF BodyInv
    <3>2. CASE i = Len(queue) + 1
      BY <2>2, <2>3, <3>2 DEF Body
    <3>3. CASE i = Len(queue) + 2
      <4>1. Len(queue) + 1 \in 1 .. i - 1 /\ queue'[i].event = e
        BY <2>2, <3>3 DEF Frame
      <4> QED BY <2>2, <4>1
    <3> QED BY <2>2, <3>1, <3>2, <3>3
  <2> QED BY <2>1, <2>3 DEF BodyInv
<1>5. CASE WentDown
  <2>1. Held(log'.frames) \subseteq Held(log.frames) /\ Len(queue') = 0
    <3>1. Len(log.frames) \in Nat /\ Len(log'.frames) \in Nat
      BY <1>1, BaseNext DEF Base, TypeOK, Logs
    <3> QED BY <1>5, <3>1 DEF WentDown, Held
  <2> QED BY <1>5, <2>1 DEF WentDown, BodyInv
<1>6. CASE OpenedIt
  <2>1. Held(log'.frames) = Held(log.frames) /\ UNCHANGED <<blobs, failed>>
    BY <1>6 DEF OpenedIt, Held
  <2>2. \A i \in 1 .. Len(queue') : queue'[i].event.kind = "interrupted"
    BY <1>6 DEF OpenedIt, Frame, Marker, Event
  <2> QED BY <2>1, <2>2 DEF BodyInv, HasBody
<1>7. CASE UNCHANGED vars
  BY <1>7 DEF vars, BodyInv
<1> QED BY <1>2, <1>3, <1>4, <1>5, <1>6, <1>7, Ways

(* An event that a reader finds has its body or a body whose write was     *)
(* counted as failed, wherever the process or the machine stops, for any   *)
(* number of exchanges (record.ts, async-append.ts).                       *)
THEOREM BodiesFirst == Spec => []BodiesBeforeEvents
<1>1. Init => BodyInv
  BY DEF Init, EmptyLog, BodyInv, Held
<1>2. BodyInv => BodiesBeforeEvents
  BY DEF BodyInv, HasBody, BodiesBeforeEvents
<1> QED BY <1>1, <1>2, BaseInit, BaseNext, BodyNext, PTL DEF Spec

-----------------------------------------------------------------------------
(* What was recorded is found or counted.                                  *)

Waiting(e) == \E i \in 1 .. Len(queue) : queue[i] = Frame(e)

CountInv ==
  pc # "closed" /\ log.rest = "none" =>
    /\ \A e \in recorded : e \in Held(log.frames) \/ Frame(e) \in failed \/ Waiting(e)
    /\ pc = "sync" => queue[1].event \in Held(log.frames)

LEMMA CountPop ==
  ASSUME Base, CountInv, StoredOne \/ SyncedOne \/ CountedOne
  PROVE  CountInv'
<1> SUFFICES ASSUME log'.rest = "none", NEW e \in recorded
             PROVE  e \in Held(log.frames) \/ Frame(e) \in failed' \/ \E i \in 1 .. Len(queue') : queue'[i] = Frame(e)
  BY DEF CountInv, Waiting, StoredOne, SyncedOne, CountedOne, Pop, Held
<1>1. queue \in Seq(Operations) /\ queue # << >> /\ queue' = Tail(queue) /\ log.rest = "none" /\ pc # "closed"
  BY DEF Base, TypeOK, StoredOne, SyncedOne, CountedOne, Pop
<1>2. /\ Len(queue) \in Nat \ {0} /\ Len(queue') = Len(queue) - 1
      /\ \A i \in 1 .. Len(queue) - 1 : queue'[i] = queue[i + 1]
  BY <1>1, TailOf
<1>3. failed \subseteq failed'
  BY DEF StoredOne, SyncedOne, CountedOne
<1>4. CASE e \in Held(log.frames) \/ Frame(e) \in failed
  BY <1>3, <1>4
<1>5. ASSUME NEW i \in 1 .. Len(queue), queue[i] = Frame(e)
      PROVE  e \in Held(log.frames) \/ Frame(e) \in failed' \/ \E k \in 1 .. Len(queue') : queue'[k] = Frame(e)
  <2>1. CASE i = 1
    BY <1>1, <1>5, <2>1 DEF StoredOne, SyncedOne, CountedOne, Frame, CountInv
  <2>2. CASE i # 1
    <3>1. i - 1 \in 1 .. Len(queue') /\ i - 1 \in 1 .. Len(queue) - 1 /\ (i - 1) + 1 = i
      BY <1>2, <2>2
    <3>2. queue'[i - 1] = queue[i]
      BY <1>2, <3>1
    <3> QED BY <1>5, <3>1, <3>2
  <2> QED BY <2>1, <2>2
<1> QED BY <1>1, <1>4, <1>5 DEF CountInv, Waiting

LEMMA CountNext == Base /\ CountInv /\ [Next]_vars => CountInv'
<1> SUFFICES ASSUME Base, CountInv, [Next]_vars PROVE CountInv'
  OBVIOUS
<1>1. log \in Logs(Events) /\ log.frames \in Seq(Events) /\ queue \in Seq(Operations)
  BY DEF Base, TypeOK, Logs
<1>2. CASE StoredOne \/ SyncedOne \/ CountedOne
  BY <1>2, CountPop
<1>3. CASE WroteOne /\ log.rest # "none"
  BY <1>3 DEF WroteOne, CountInv
<1>4. CASE WroteOne /\ log.rest = "none"
  <2>1. Len(queue) \in Nat \ {0} /\ queue[1] \in Operations /\ queue[1].event \in Events
    <3>1. Len(queue) \in Nat \ {0}
      BY <1>1, <1>4, TailOf DEF WroteOne
    <3>2. queue[1] \in Operations
      BY <1>1, <3>1
    <3> QED BY <3>1, <3>2 DEF Operations
  <2> DEFINE r == queue[1].event
             t == Append(log.frames, r)
  <2>2. Len(log.frames) \in Nat /\ Len(t) = Len(log.frames) + 1 /\ t[Len(log.frames) + 1] = r
        /\ \A i \in 1 .. Len(log.frames) : t[i] = log.frames[i]
    BY <1>1, <2>1, AppendOf
  <2>3. log'.frames = t /\ pc # "closed" /\ UNCHANGED <<queue, recorded, failed>>
    BY <1>4 DEF WroteOne
  <2> HIDE DEF t
  <2>4. Held(log.frames) \subseteq Held(t) /\ r \in Held(t)
    BY <2>2 DEF Held
  <2> QED BY <1>4, <2>3, <2>4 DEF CountInv, Waiting
<1>5. ASSUME NEW e \in Events, RecordedOne(e) PROVE CountInv'
  <2>1. /\ queue' = queue \o <<Body(e), Frame(e)>> /\ Body(e) \in Operations /\ Frame(e) \in Operations
        /\ UNCHANGED <<log, failed, pc>> /\ recorded' = recorded \union {e} /\ pc # "closed"
    BY <1>5 DEF RecordedOne, Body, Frame, Operations
  <2>2. /\ Len(queue) \in Nat /\ Len(queue') = Len(queue) + 2
        /\ \A i \in 1 .. Len(queue) : queue'[i] = queue[i] /\ i \in 1 .. Len(queue')
        /\ queue'[Len(queue) + 2] = Frame(e)
    BY <1>1, <2>1, PairBehind
  <2>3. \A f : Waiting(f) => \E i \in 1 .. Len(queue') : queue'[i] = Frame(f)
    BY <2>2 DEF Waiting
  <2>4. \E i \in 1 .. Len(queue') : queue'[i] = Frame(e)
    BY <2>2
  <2>5. pc = "sync" => queue'[1] = queue[1]
    <3>1. pc = "sync" => 1 \in 1 .. Len(queue)
      BY <1>1, TailOf DEF Base, Running
    <3> QED BY <2>2, <3>1
  <2> QED BY <2>1, <2>3, <2>4, <2>5 DEF CountInv, Waiting
<1>6. CASE WentDown
  BY <1>6 DEF WentDown, CountInv
<1>7. CASE OpenedIt
  <2>1. pc' = "write" /\ \A e \in recorded' : \E i \in 1 .. Len(queue') : queue'[i] = Frame(e)
    BY <1>7 DEF OpenedIt
  <2> QED BY <2>1 DEF CountInv, Waiting
<1>8. CASE UNCHANGED vars
  BY <1>8 DEF vars, CountInv, Waiting
<1> QED BY <1>2, <1>3, <1>4, <1>5, <1>6, <1>7, <1>8, Ways

(* Everything recorded is found once the queue is idle, or was counted as  *)
(* failed, as long as no frame of the log is torn: a failed operation      *)
(* loses what it was to write and nothing else (async-append.ts 77).       *)
THEOREM NothingLostUncounted == Spec => []RecordedOrCounted
<1>1. Init => CountInv
  BY DEF Init, CountInv
<1>2. CountInv => RecordedOrCounted
  BY DEF CountInv, Waiting, RecordedOrCounted, Found
<1> QED BY <1>1, <1>2, BaseInit, BaseNext, CountNext, PTL DEF Spec

-----------------------------------------------------------------------------
(* The markers of recordings that were cut off.                            *)

(* Frame i of the queue has still to be written. *)
Pending(i) == i \in 1 .. Len(queue) /\ queue[i].to = "log" /\ ~ (pc = "sync" /\ i = 1)

Same(e, f) == e.number = f.number /\ e.recording = f.recording
IsEnd(e) == e.kind \in Ends
ItsMarker(e) == [e EXCEPT !.kind = "interrupted"]

(* What may not come after e: anything of an exchange that has ended.      *)
Clash(e, f) == Same(e, f) /\ IsEnd(e) /\ (IsEnd(f) \/ f.kind = "request")

(* f says that the number of request e is another recording's by now.      *)
Over(e, f) == e.kind = "request" /\ f.number = e.number /\ f.recording # e.recording

Settled(e, n) ==
  \/ \E p \in 1 .. n : IsEnd(log.frames[p]) /\ Same(log.frames[p], e)
  \/ Frame(ItsMarker(e)) \in failed

NoClash ==
  /\ \A i, j \in 1 .. Len(log.frames) : i < j => ~ Clash(log.frames[i], log.frames[j])
  /\ \A i \in 1 .. Len(log.frames) : \A j \in 1 .. Len(queue) :
       Pending(j) => ~ Clash(log.frames[i], queue[j].event)
  /\ \A i, j \in 1 .. Len(queue) : Pending(i) /\ Pending(j) /\ i < j => ~ Clash(queue[i].event, queue[j].event)

(* What the proxy knows of an exchange of this recording. *)
IsKnown(e) ==
  e.recording = opens =>
    /\ e.kind = "request" => exchange[e.number] # "new"
    /\ IsEnd(e) => exchange[e.number] = "ended"

Dated ==
  /\ \A i \in 1 .. Len(log.frames) : log.frames[i].recording <= opens
  /\ pc # "closed" =>
       /\ \A i \in 1 .. Len(log.frames) : IsKnown(log.frames[i])
       /\ \A i \in 1 .. Len(queue) : Pending(i) => queue[i].event.recording <= opens /\ IsKnown(queue[i].event)

(* The markers come first, and nothing else is of an earlier recording. *)
MarkersFirst ==
  pc # "closed" =>
    /\ \A i, j \in 1 .. Len(queue) :
         Pending(i) /\ Pending(j) /\ i < j /\ queue[i].event.recording = opens => queue[j].event.recording = opens
    /\ \A i \in 1 .. Len(log.frames) : \A j \in 1 .. Len(queue) :
         log.frames[i].recording = opens /\ Pending(j) => queue[j].event.recording = opens
    /\ \A i \in 1 .. Len(queue) :
         Pending(i) /\ queue[i].event.recording # opens => queue[i].event.kind = "interrupted"

(* Before a number is used again, its earlier request has been settled.    *)
SettledBefore ==
  \A i, j \in 1 .. Len(log.frames) :
    i < j /\ Over(log.frames[i], log.frames[j]) => Settled(log.frames[i], j - 1)

(* A request of an earlier recording is settled, or its marker is queued   *)
(* before whatever else is of its number.                                  *)
MarkerQueued(e) ==
  \E m \in 1 .. Len(queue) :
    /\ Pending(m) /\ queue[m] = Frame(ItsMarker(e))
    /\ \A j \in 1 .. m - 1 : Pending(j) => queue[j].event.number # e.number

SettledOrQueued ==
  pc # "closed" /\ log.rest = "none" =>
    \A i \in 1 .. Len(log.frames) :
      log.frames[i].kind = "request" /\ log.frames[i].recording # opens =>
        Settled(log.frames[i], Len(log.frames)) \/ MarkerQueued(log.frames[i])

MarkInv == NoClash /\ Dated /\ MarkersFirst /\ SettledBefore /\ SettledOrQueued

LEMMA MarkInit == Init => MarkInv
<1> SUFFICES ASSUME Init PROVE MarkInv
  OBVIOUS
<1>1. log.frames = << >> /\ queue = << >> /\ pc = "closed"
  BY DEF Init, EmptyLog
<1> QED BY <1>1 DEF MarkInv, NoClash, Dated, MarkersFirst, SettledBefore, SettledOrQueued

LEMMA MarkPop ==
  ASSUME Base, MarkInv, StoredOne \/ SyncedOne \/ CountedOne
  PROVE  MarkInv'
<1>1. /\ queue \in Seq(Operations) /\ queue # << >> /\ queue' = Tail(queue) /\ pc # "closed" /\ pc' = "write"
      /\ log'.frames = log.frames /\ (log'.rest = "none" => log.rest = "none") /\ UNCHANGED <<exchange, opens>>
  BY DEF Base, TypeOK, StoredOne, SyncedOne, CountedOne, Pop
<1>2. /\ Len(queue) \in Nat \ {0} /\ Len(queue') = Len(queue) - 1
      /\ \A i \in 1 .. Len(queue) - 1 : queue'[i] = queue[i + 1]
  BY <1>1, TailOf
<1>3. \A i \in 1 .. Len(queue') : /\ queue'[i] = queue[i + 1] /\ i + 1 \in 1 .. Len(queue)
                                  /\ Pending(i)' => Pending(i + 1)
  <2> SUFFICES ASSUME NEW i \in 1 .. Len(queue')
               PROVE  queue'[i] = queue[i + 1] /\ i + 1 \in 1 .. Len(queue) /\ (Pending(i)' => Pending(i + 1))
    OBVIOUS
  <2>1. queue'[i] = queue[i + 1] /\ i + 1 \in 1 .. Len(queue) /\ i + 1 # 1
    BY <1>2
  <2> QED BY <2>1 DEF Pending
<1>4. NoClash'
  <2>1. \A i \in 1 .. Len(log'.frames) : \A j \in 1 .. Len(queue') :
          Pending(j)' => ~ Clash(log'.frames[i], queue'[j].event)
    BY <1>1, <1>3 DEF MarkInv, NoClash
  <2>2. ASSUME NEW i \in 1 .. Len(queue'), NEW j \in 1 .. Len(queue'), Pending(i)', Pending(j)', i < j
        PROVE  ~ Clash(queue'[i].event, queue'[j].event)
    <3>1. Pending(i + 1) /\ Pending(j + 1) /\ i + 1 < j + 1
      BY <1>2, <1>3, <2>2
    <3> QED BY <1>3, <3>1 DEF MarkInv, NoClash
  <2> QED BY <1>1, <2>1, <2>2 DEF MarkInv, NoClash
<1>5. Dated'
  BY <1>1, <1>3 DEF MarkInv, Dated, IsKnown
<1>6. MarkersFirst'
  <2>1. ASSUME NEW i \in 1 .. Len(queue'), NEW j \in 1 .. Len(queue'), Pending(i)', Pending(j)', i < j,
               queue'[i].event.recording = opens
        PROVE  queue'[j].event.recording = opens
    <3>1. Pending(i + 1) /\ Pending(j + 1) /\ i + 1 < j + 1
      BY <1>2, <1>3, <2>1
    <3> QED BY <1>1, <1>3, <2>1, <3>1 DEF MarkInv, MarkersFirst
  <2> QED BY <1>1, <1>3, <2>1 DEF MarkInv, MarkersFirst
<1>7. failed \subseteq failed'
  BY DEF StoredOne, SyncedOne, CountedOne
<1>9. SettledBefore'
  BY <1>1, <1>7 DEF MarkInv, SettledBefore, Settled
<1>10. ASSUME log.rest = "none", NEW i \in 1 .. Len(log.frames), MarkerQueued(log.frames[i])
       PROVE  Frame(ItsMarker(log.frames[i])) \in failed' \/ MarkerQueued(log.frames[i])'
  <2> DEFINE e == log.frames[i]
  <2>1. PICK m \in 1 .. Len(queue) :
          /\ Pending(m) /\ queue[m] = Frame(ItsMarker(e))
          /\ \A j \in 1 .. m - 1 : Pending(j) => queue[j].event.number # e.number
    BY <1>10 DEF MarkerQueued
  <2>2. CASE m = 1
    <3>1. queue[1] = Frame(ItsMarker(e)) /\ queue[1].to = "log" /\ pc # "sync"
      BY <2>1, <2>2 DEF Pending
    <3> QED BY <3>1 DEF StoredOne, SyncedOne, CountedOne
  <2>3. CASE m # 1
    <3>1. m - 1 \in 1 .. Len(queue') /\ m - 1 \in 1 .. Len(queue) - 1 /\ (m - 1) + 1 = m
      BY <1>2, <2>3
    <3>2. queue'[m - 1] = Frame(ItsMarker(e)) /\ Pending(m - 1)'
      BY <1>1, <1>2, <2>1, <3>1 DEF Pending
    <3>3. ASSUME NEW j \in 1 .. (m - 1) - 1, Pending(j)' PROVE queue'[j].event.number # e.number
      <4>1. j \in 1 .. Len(queue') /\ j + 1 \in 1 .. m - 1
        BY <1>2, <3>1
      <4> QED BY <1>3, <2>1, <3>3, <4>1
    <3>4. log'.frames[i] = e
      BY <1>1
    <3> HIDE DEF e
    <3> QED BY <3>1, <3>2, <3>3, <3>4 DEF MarkerQueued, e
  <2> QED BY <2>2, <2>3
<1>11. SettledOrQueued'
  BY <1>1, <1>7, <1>10 DEF MarkInv, SettledOrQueued, Settled
<1> QED BY <1>4, <1>5, <1>6, <1>9, <1>11 DEF MarkInv

(* The first frame of the queue is written where a reader finds it.        *)
LEMMA MarkWrote ==
  ASSUME Base, MarkInv, WroteOne, log.rest = "none"
  PROVE  MarkInv'
<1>0. PICK f, n : f = queue[1].event /\ n = Len(log.frames)
  OBVIOUS
<1>1. /\ log.frames \in Seq(Events) /\ queue \in Seq(Operations) /\ queue # << >>
      /\ log'.frames = Append(log.frames, f) /\ log'.rest = "none" /\ pc # "closed" /\ pc' = "sync"
      /\ queue[1].to = "log" /\ pc = "write" /\ UNCHANGED <<queue, failed, exchange, opens>>
  BY <1>0 DEF Base, TypeOK, Logs, WroteOne
<1>2. Len(queue) \in Nat \ {0} /\ 1 \in 1 .. Len(queue)
  BY <1>0, <1>1, TailOf
<1>3. f \in Events
  <2>1. queue[1] \in Operations
    BY <1>1, <1>2
  <2> QED BY <1>0, <2>1 DEF Operations
<1>4. /\ n \in Nat /\ Len(log'.frames) = n + 1 /\ log'.frames[n + 1] = f
      /\ \A i \in 1 .. n : log'.frames[i] = log.frames[i]
  BY <1>0, <1>1, <1>3, AppendOf
<1>5. Pending(1)
  BY <1>0, <1>1, <1>2 DEF Pending
<1>6. \A i \in 1 .. Len(queue) : Pending(i)' => Pending(i) /\ i # 1 /\ 1 < i
  BY <1>0, <1>1, <1>2 DEF Pending
<1>7. NoClash'
  <2>1. \A i, j \in 1 .. n + 1 : i < j => ~ Clash(log'.frames[i], log'.frames[j])
    <3> SUFFICES ASSUME NEW i \in 1 .. n + 1, NEW j \in 1 .. n + 1, i < j
                 PROVE  ~ Clash(log'.frames[i], log'.frames[j])
      OBVIOUS
    <3>1. CASE j \in 1 .. n
      <4>1. i \in 1 .. n
        BY <1>0, <1>4, <3>1
      <4> QED BY <1>0, <1>4, <3>1, <4>1 DEF MarkInv, NoClash
    <3>2. CASE j = n + 1
      <4>1. i \in 1 .. n
        BY <1>0, <1>4, <3>2
      <4> QED BY <1>0, <1>2, <1>4, <1>5, <3>2, <4>1 DEF MarkInv, NoClash
    <3> QED BY <1>0, <1>4, <3>1, <3>2
  <2>2. ASSUME NEW i \in 1 .. n + 1, NEW j \in 1 .. Len(queue), Pending(j)'
        PROVE  ~ Clash(log'.frames[i], queue[j].event)
    <3>1. CASE i \in 1 .. n
      BY <1>0, <1>4, <1>6, <2>2, <3>1 DEF MarkInv, NoClash
    <3>2. CASE i = n + 1
      BY <1>0, <1>2, <1>4, <1>5, <1>6, <2>2, <3>2 DEF MarkInv, NoClash
    <3> QED BY <1>0, <1>4, <3>1, <3>2
  <2>3. \A i, j \in 1 .. Len(queue) : Pending(i)' /\ Pending(j)' /\ i < j => ~ Clash(queue[i].event, queue[j].event)
    BY <1>0, <1>6 DEF MarkInv, NoClash
  <2> QED BY <1>0, <1>1, <1>4, <2>1, <2>2, <2>3 DEF NoClash
<1>8. Dated'
  <2>1. \A i \in 1 .. n + 1 : i = n + 1 \/ i \in 1 .. n
    BY <1>0, <1>4
  <2>2. f.recording <= opens /\ IsKnown(f)
    BY <1>0, <1>1, <1>2, <1>5 DEF MarkInv, Dated
  <2>3. \A i \in 1 .. n + 1 : log'.frames[i].recording <= opens /\ IsKnown(log'.frames[i])
    BY <1>0, <1>1, <1>4, <2>1, <2>2 DEF MarkInv, Dated
  <2> QED BY <1>0, <1>1, <1>4, <1>6, <2>3 DEF MarkInv, Dated, IsKnown
<1>9. MarkersFirst'
  <2>1. \A i \in 1 .. n + 1 : i = n + 1 \/ i \in 1 .. n
    BY <1>0, <1>4
  <2>2. \A i, j \in 1 .. Len(queue) :
         Pending(i)' /\ Pending(j)' /\ i < j /\ queue[i].event.recording = opens => queue[j].event.recording = opens
    BY <1>0, <1>1, <1>6 DEF MarkInv, MarkersFirst
  <2>3. ASSUME NEW i \in 1 .. n + 1, NEW j \in 1 .. Len(queue), log'.frames[i].recording = opens, Pending(j)'
        PROVE  queue[j].event.recording = opens
    <3>1. CASE i \in 1 .. n
      BY <1>0, <1>1, <1>4, <1>6, <2>3, <3>1 DEF MarkInv, MarkersFirst
    <3>2. CASE i = n + 1
      BY <1>0, <1>1, <1>2, <1>4, <1>5, <1>6, <2>3, <3>2 DEF MarkInv, MarkersFirst
    <3> QED BY <2>1, <3>1, <3>2
  <2>4. \A i \in 1 .. Len(queue) : Pending(i)' /\ queue[i].event.recording # opens => queue[i].event.kind = "interrupted"
    BY <1>1, <1>6 DEF MarkInv, MarkersFirst
  <2> QED BY <1>0, <1>1, <1>4, <2>2, <2>3, <2>4 DEF MarkersFirst
<1>10. ASSUME NEW e, NEW k \in 0 .. n, Settled(e, k) PROVE Settled(e, k)'
  BY <1>0, <1>1, <1>4, <1>10 DEF Settled
<1>11. ASSUME NEW e, MarkerQueued(e), f.number = e.number
       PROVE  f = ItsMarker(e)
  <2>1. PICK m \in 1 .. Len(queue) :
          /\ Pending(m) /\ queue[m] = Frame(ItsMarker(e))
          /\ \A j \in 1 .. m - 1 : Pending(j) => queue[j].event.number # e.number
    BY <1>11 DEF MarkerQueued
  <2>2. m = 1
    <3>1. m # 1 => 1 \in 1 .. m - 1
      BY <1>2
    <3> QED BY <1>0, <1>5, <1>11, <2>1, <3>1
  <2> QED BY <1>0, <2>1, <2>2 DEF Frame
<1>12. \A i \in 1 .. n : log.frames[i] \in Events
  BY <1>0, <1>1
<1>13. SettledBefore'
  <2>1. ASSUME NEW i \in 1 .. n + 1, NEW j \in 1 .. n + 1, i < j,
               NEW e, e = log'.frames[i], Over(e, log'.frames[j])
        PROVE  Settled(e, j - 1)'
    <3>1. i \in 1 .. n /\ log.frames[i] = e /\ j - 1 \in 0 .. n
      BY <1>4, <2>1
    <3>2. e \in Events
      BY <1>12, <3>1
    <3>3. CASE j \in 1 .. n
      <4>1. Settled(e, j - 1)
        BY <1>0, <1>4, <2>1, <3>1, <3>3 DEF MarkInv, SettledBefore
      <4> QED BY <1>10, <3>1, <4>1
    <3>4. CASE j = n + 1
      <4>1. Over(e, f) /\ j - 1 = n
        BY <1>4, <2>1, <3>4
      <4>2. e.recording # opens
        BY <1>0, <1>1, <1>2, <1>5, <3>1, <4>1 DEF MarkInv, MarkersFirst, Over
      <4>3. Settled(e, n) \/ MarkerQueued(e)
        BY <1>0, <1>1, <3>1, <4>1, <4>2 DEF MarkInv, SettledOrQueued, Over
      <4>4. ~ MarkerQueued(e)
        <5>1. MarkerQueued(e) => f = ItsMarker(e)
          BY <1>11, <4>1 DEF Over
        <5>2. ItsMarker(e).recording = e.recording
          BY <3>2 DEF ItsMarker, Events
        <5> QED BY <4>1, <5>1, <5>2 DEF Over
      <4> QED BY <1>10, <3>1, <4>1, <4>3, <4>4
    <3> QED BY <1>4, <3>3, <3>4
  <2> QED BY <1>4, <2>1 DEF SettledBefore
<1>14. SettledOrQueued'
  <2>1. ASSUME NEW i \in 1 .. n + 1, NEW e, e = log'.frames[i], e.kind = "request", e.recording # opens
        PROVE  Settled(e, n + 1)' \/ MarkerQueued(e)'
    <3>1. i \in 1 .. n
      <4>1. f.recording # opens => f.kind = "interrupted"
        BY <1>0, <1>1, <1>2, <1>5 DEF MarkInv, MarkersFirst
      <4> QED BY <1>4, <2>1, <4>1
    <3>2. e = log.frames[i] /\ e \in Events
      BY <1>4, <1>12, <2>1, <3>1
    <3>3. Settled(e, n) \/ MarkerQueued(e)
      BY <1>0, <1>1, <2>1, <3>1, <3>2 DEF MarkInv, SettledOrQueued
    <3>4. CASE Settled(e, n)
      BY <1>1, <1>4, <3>4 DEF Settled
    <3>5. CASE MarkerQueued(e)
      <4>1. PICK m \in 1 .. Len(queue) :
              /\ Pending(m) /\ queue[m] = Frame(ItsMarker(e))
              /\ \A j \in 1 .. m - 1 : Pending(j) => queue[j].event.number # e.number
        BY <3>5 DEF MarkerQueued
      <4>2. CASE m = 1
        <5>1. f = ItsMarker(e)
          BY <1>0, <4>1, <4>2 DEF Frame
        <5>2. IsEnd(f) /\ Same(f, e)
          BY <3>2, <5>1 DEF ItsMarker, IsEnd, Ends, Same, Events
        <5>3. n + 1 \in 1 .. n + 1
          BY <1>4
        <5> QED BY <1>4, <5>2, <5>3 DEF Settled
      <4>3. CASE m # 1
        <5>1. Pending(m)'
          BY <1>1, <4>1, <4>3 DEF Pending
        <5>2. \A j \in 1 .. m - 1 : Pending(j)' => queue'[j].event.number # e.number
          <6>1. \A j \in 1 .. m - 1 : j \in 1 .. Len(queue)
            BY <1>2
          <6> QED BY <1>1, <1>6, <4>1, <6>1
        <5>3. m \in 1 .. Len(queue') /\ queue'[m] = Frame(ItsMarker(e))
          BY <1>1, <4>1
        <5> QED BY <5>1, <5>2, <5>3 DEF MarkerQueued
      <4> QED BY <4>2, <4>3
    <3> QED BY <3>3, <3>4, <3>5
  <2> QED BY <1>1, <1>4, <2>1 DEF SettledOrQueued
<1> QED BY <1>7, <1>8, <1>9, <1>13, <1>14 DEF MarkInv

(* A torn log is not written to where a reader looks.                      *)
LEMMA MarkWroteBehind ==
  ASSUME Base, MarkInv, WroteOne, log.rest # "none"
  PROVE  MarkInv'
<1>1. /\ log'.frames = log.frames /\ log'.rest # "none" /\ pc # "closed"
      /\ UNCHANGED <<queue, failed, exchange, opens>>
  BY DEF WroteOne
<1>2. \A i \in 1 .. Len(queue) : Pending(i)' => Pending(i)
  BY <1>1 DEF WroteOne, Pending
<1>3. NoClash'
  BY <1>1, <1>2 DEF MarkInv, NoClash
<1>4. Dated'
  BY <1>1, <1>2 DEF MarkInv, Dated, IsKnown
<1>5. MarkersFirst'
  BY <1>1, <1>2 DEF MarkInv, MarkersFirst
<1>6. SettledBefore' /\ SettledOrQueued'
  BY <1>1 DEF MarkInv, SettledBefore, SettledOrQueued, Settled
<1> QED BY <1>3, <1>4, <1>5, <1>6 DEF MarkInv

(* A request or an end of this recording is queued.                        *)
LEMMA MarkRecorded ==
  ASSUME Base, MarkInv, NEW x \in Exchanges, NEW e \in Events, RecordedOne(e),
         \/ Request(x) /\ e = Event("request", x, opens)
         \/ End(x) /\ e = Event("ended", x, opens)
  PROVE  MarkInv'
<1>1. /\ log.frames \in Seq(Events) /\ queue \in Seq(Operations) /\ exchange \in [Exchanges -> {"new", "open", "ended"}]
      /\ opens \in Nat
  BY DEF Base, TypeOK, Logs
<1>2. /\ pc # "closed" /\ queue' = queue \o <<Body(e), Frame(e)>> /\ UNCHANGED <<log, pc, failed, opens>>
      /\ Body(e) \in Operations /\ Frame(e) \in Operations
  BY DEF RecordedOne, Body, Frame, Operations
<1>3. PICK n : n = Len(queue)
  OBVIOUS
<1>4. /\ n \in Nat /\ Len(queue') = n + 2
      /\ \A i \in 1 .. n : queue'[i] = queue[i]
      /\ queue'[n + 1] = Body(e) /\ queue'[n + 2] = Frame(e)
  BY <1>1, <1>2, <1>3, PairBehind
<1>5. \A i \in 1 .. n + 2 : Pending(i)' => (i \in 1 .. n /\ Pending(i) /\ queue'[i] = queue[i]) \/ i = n + 2
  <2>1. \A i \in 1 .. n + 2 : i \in 1 .. n \/ i = n + 1 \/ i = n + 2
    BY <1>4
  <2>2. ~ Pending(n + 1)'
    BY <1>4 DEF Pending, Body
  <2> QED BY <1>2, <1>3, <1>4, <2>1, <2>2 DEF Pending
<1>6. queue'[n + 2].event = e /\ e.number = x /\ e.recording = opens /\ e.kind \in {"request", "ended"}
  BY <1>4 DEF Frame, Event
<1>7. /\ e.kind = "request" => exchange[x] = "new" /\ exchange' = [exchange EXCEPT ![x] = "open"]
      /\ e.kind = "ended" => exchange[x] # "ended" /\ exchange' = [exchange EXCEPT ![x] = "ended"]
  BY DEF Request, End, Event
<1>8. \A g : IsKnown(g) => ~ Clash(g, e)
  BY <1>6, <1>7 DEF IsKnown, Clash, Same, IsEnd, Ends
<1>9. NoClash'
  <2>1. ASSUME NEW i \in 1 .. Len(log.frames), NEW j \in 1 .. n + 2, Pending(j)'
        PROVE  ~ Clash(log.frames[i], queue'[j].event)
    <3>1. CASE j = n + 2
      BY <1>2, <1>6, <1>8, <3>1 DEF MarkInv, Dated
    <3>2. CASE j # n + 2
      BY <1>3, <1>5, <2>1, <3>2 DEF MarkInv, NoClash
    <3> QED BY <3>1, <3>2
  <2>2. ASSUME NEW i \in 1 .. n + 2, NEW j \in 1 .. n + 2, Pending(i)', Pending(j)', i < j
        PROVE  ~ Clash(queue'[i].event, queue'[j].event)
    <3>1. i \in 1 .. n /\ Pending(i) /\ queue'[i] = queue[i]
      <4>1. i # n + 2
        BY <1>4, <2>2
      <4> QED BY <1>5, <2>2, <4>1
    <3>2. CASE j = n + 2
      BY <1>2, <1>3, <1>6, <1>8, <3>1, <3>2 DEF MarkInv, Dated
    <3>3. CASE j # n + 2
      BY <1>3, <1>5, <2>2, <3>1, <3>3 DEF MarkInv, NoClash
    <3> QED BY <3>2, <3>3
  <2> QED BY <1>2, <1>4, <2>1, <2>2 DEF MarkInv, NoClash
<1>10. \A g \in Events : IsKnown(g) => IsKnown(g)'
  <2> SUFFICES ASSUME NEW g \in Events, IsKnown(g), g.recording = opens
               PROVE  (g.kind = "request" => exchange'[g.number] # "new") /\ (IsEnd(g) => exchange'[g.number] = "ended")
    BY <1>2 DEF IsKnown
  <2>1. g.number \in Exchanges
    BY DEF Events
  <2> QED BY <1>1, <1>6, <1>7, <2>1 DEF IsKnown
<1>11. IsKnown(e)'
  BY <1>1, <1>2, <1>6, <1>7 DEF IsKnown, IsEnd, Ends
<1>12. Dated'
  <2>1. \A i \in 1 .. Len(log.frames) : IsKnown(log.frames[i])'
    BY <1>1, <1>2, <1>10 DEF MarkInv, Dated
  <2>2. ASSUME NEW i \in 1 .. n + 2, Pending(i)', NEW g, g = queue'[i].event
        PROVE  g.recording <= opens /\ IsKnown(g)'
    <3>1. CASE i = n + 2
      BY <1>1, <1>6, <1>11, <2>2, <3>1
    <3>2. CASE i # n + 2
      <4>1. i \in 1 .. Len(queue) /\ Pending(i) /\ queue'[i] = queue[i]
        BY <1>3, <1>5, <2>2, <3>2
      <4>2. queue[i] \in Operations
        BY <1>1, <4>1
      <4>3. g \in Events /\ g = queue[i].event
        BY <2>2, <4>1, <4>2 DEF Operations
      <4>4. g.recording <= opens /\ IsKnown(g)
        BY <1>2, <4>1, <4>3 DEF MarkInv, Dated
      <4> QED BY <1>10, <4>3, <4>4
    <3> QED BY <3>1, <3>2
  <2> QED BY <1>2, <1>4, <2>1, <2>2 DEF MarkInv, Dated
<1>13. MarkersFirst'
  <2>1. ASSUME NEW i \in 1 .. n + 2, NEW j \in 1 .. n + 2, Pending(i)', Pending(j)', i < j,
               queue'[i].event.recording = opens
        PROVE  queue'[j].event.recording = opens
    <3>1. i \in 1 .. n /\ Pending(i) /\ queue'[i] = queue[i]
      <4>1. i # n + 2
        BY <1>4, <2>1
      <4> QED BY <1>5, <2>1, <4>1
    <3> QED BY <1>2, <1>3, <1>5, <1>6, <2>1, <3>1 DEF MarkInv, MarkersFirst
  <2>2. \A i \in 1 .. Len(log.frames) : \A j \in 1 .. n + 2 :
          log.frames[i].recording = opens /\ Pending(j)' => queue'[j].event.recording = opens
    BY <1>2, <1>3, <1>5, <1>6 DEF MarkInv, MarkersFirst
  <2>3. \A i \in 1 .. n + 2 : Pending(i)' /\ queue'[i].event.recording # opens => queue'[i].event.kind = "interrupted"
    BY <1>2, <1>3, <1>5, <1>6 DEF MarkInv, MarkersFirst
  <2> QED BY <1>2, <1>4, <2>1, <2>2, <2>3 DEF MarkersFirst
<1>14. SettledBefore'
  BY <1>2 DEF MarkInv, SettledBefore, Settled
<1>15. SettledOrQueued'
  <2>1. ASSUME NEW g, MarkerQueued(g) PROVE MarkerQueued(g)'
    <3>1. PICK m \in 1 .. Len(queue) :
            /\ Pending(m) /\ queue[m] = Frame(ItsMarker(g))
            /\ \A j \in 1 .. m - 1 : Pending(j) => queue[j].event.number # g.number
      BY <2>1 DEF MarkerQueued
    <3>2. m \in 1 .. n + 2 /\ queue'[m] = Frame(ItsMarker(g)) /\ Pending(m)'
      BY <1>2, <1>3, <1>4, <3>1 DEF Pending
    <3>3. ASSUME NEW j \in 1 .. m - 1, Pending(j)' PROVE queue'[j].event.number # g.number
      <4>1. j \in 1 .. n /\ j \in 1 .. n + 2 /\ j # n + 2
        BY <1>3, <1>4
      <4> QED BY <1>5, <3>1, <3>3, <4>1
    <3> QED BY <1>4, <3>2, <3>3 DEF MarkerQueued
  <2> QED BY <1>2, <2>1 DEF MarkInv, SettledOrQueued, Settled
<1> QED BY <1>9, <1>12, <1>13, <1>14, <1>15 DEF MarkInv

(* What is left after a stop is the front of the log: whatever settled a   *)
(* request did so before its number was used again.                        *)
LEMMA MarkDown ==
  ASSUME Base, MarkInv, WentDown, Base'
  PROVE  MarkInv'
<1>1. PICK n : n = Len(log'.frames)
  OBVIOUS
<1>2. /\ n \in Nat /\ Len(log.frames) \in Nat /\ n <= Len(log.frames)
      /\ \A i \in 1 .. n : log'.frames[i] = log.frames[i] /\ i \in 1 .. Len(log.frames)
      /\ pc' = "closed" /\ Len(queue') = 0 /\ UNCHANGED <<failed, opens>>
  <2>1. Len(log'.frames) \in Nat /\ Len(log.frames) \in Nat
    BY DEF Base, TypeOK, Logs
  <2> QED BY <1>1, <2>1 DEF WentDown
<1>3. NoClash' /\ Dated' /\ MarkersFirst' /\ SettledOrQueued'
  <2>1. NoClash'
    BY <1>1, <1>2 DEF MarkInv, NoClash
  <2>2. Dated'
    BY <1>1, <1>2 DEF MarkInv, Dated
  <2>3. MarkersFirst'
    BY <1>1, <1>2 DEF MarkInv, MarkersFirst
  <2>4. SettledOrQueued'
    BY <1>1, <1>2 DEF MarkInv, SettledOrQueued
  <2> QED BY <2>1, <2>2, <2>3, <2>4
<1>4. SettledBefore'
  <2>1. ASSUME NEW i \in 1 .. n, NEW j \in 1 .. n, i < j, NEW e, e = log'.frames[i], Over(e, log'.frames[j])
        PROVE  Settled(e, j - 1)'
    <3>1. Settled(e, j - 1)
      BY <1>2, <2>1 DEF MarkInv, SettledBefore
    <3>2. \A p \in 1 .. j - 1 : log'.frames[p] = log.frames[p]
      BY <1>2
    <3> QED BY <1>2, <3>1, <3>2 DEF Settled
  <2> QED BY <1>1, <2>1 DEF SettledBefore
<1> QED BY <1>3, <1>4 DEF MarkInv

(* The orders of an open name every number to mark once.                   *)
LEMMA EachOnce ==
  ASSUME NEW S, NEW n \in Nat, n = Cardinality(S), NEW order \in [1 .. n -> S],
         \A x \in S : \E i \in 1 .. n : order[i] = x
  PROVE  \A i, j \in 1 .. n : order[i] = order[j] => i = j
<1>1. IsFiniteSet(1 .. n) /\ Cardinality(1 .. n) = n
  BY FS_Interval
<1>2. order \in Surjection(1 .. n, S)
  BY DEF Surjection
<1>3. order \in Injection(1 .. n, S)
  <2>1. Cardinality(1 .. n) = Cardinality(S)
    BY <1>1
  <2>2. Cardinality(S) = Cardinality(1 .. n) <=> order \in Injection(1 .. n, S)
    BY <1>1, <1>2, FS_Surjection, Zenon
  <2> QED BY <2>1, <2>2
<1> QED BY <1>3 DEF Injection, IsInjective

(* A log is opened again: the markers it queues are due.                   *)
LEMMA MarkOpened ==
  ASSUME Base, MarkInv, OpenedIt
  PROVE  MarkInv'
<1>1. PICK s, open, n : s = log.frames /\ open = ToMark(log.frames) /\ n = Cardinality(ToMark(log.frames))
  OBVIOUS
<1>2. PICK order \in [1 .. n -> open] :
        /\ \A x \in open : \E i \in 1 .. n : order[i] = x
        /\ Len(queue') = n /\ \A i \in 1 .. n : queue'[i] = Frame(Marker(s, order[i]))
  BY <1>1 DEF OpenedIt
<1>3. /\ s \in Seq(Events) /\ Len(s) \in Nat /\ n \in Nat /\ opens \in Nat /\ opens' = opens + 1 /\ log'.frames = s
      /\ pc' = "write" /\ UNCHANGED failed
  <2>1. s \in Seq(Events)
    BY <1>1 DEF Base, TypeOK, Logs
  <2> QED BY <1>1, <2>1, FewToMark DEF OpenedIt, Base, TypeOK
<1>4. \A i, j \in 1 .. n : order[i] = order[j] => i = j
  <2>1. n \in Nat /\ n = Cardinality(open)
    BY <1>1, <1>3
  <2> QED BY <1>2, <2>1, EachOnce
<1>5. ASSUME NEW i \in 1 .. n
      PROVE  \E k \in Requests(s, order[i]) :
               /\ \A l \in Requests(s, order[i]) : l <= k
               /\ queue'[i].event = Event("interrupted", order[i], s[k].recording)
               /\ queue'[i] = Frame(Event("interrupted", order[i], s[k].recording))
  <2>1. order[i] \in ToMark(s)
    BY <1>1
  <2>2. PICK k \in Requests(s, order[i]) :
          /\ \A l \in Requests(s, order[i]) : l <= k
          /\ Marker(s, order[i]) = Event("interrupted", order[i], s[k].recording)
    BY <1>1, <1>3, <2>1, MarkerOf
  <2>3. queue'[i] = Frame(Event("interrupted", order[i], s[k].recording))
    BY <1>2, <2>2
  <2>4. queue'[i].event = Event("interrupted", order[i], s[k].recording)
    BY <2>3 DEF Frame
  <2> WITNESS k \in Requests(s, order[i])
  <2> QED BY <2>2, <2>3, <2>4
<1>6. \A i \in 1 .. n : queue'[i].event.kind = "interrupted" /\ queue'[i].event.number = order[i] /\ queue'[i].to = "log"
  <2> SUFFICES ASSUME NEW i \in 1 .. n
               PROVE  queue'[i].event.kind = "interrupted" /\ queue'[i].event.number = order[i] /\ queue'[i].to = "log"
    OBVIOUS
  <2>1. PICK k \in Requests(s, order[i]) : queue'[i] = Frame(Event("interrupted", order[i], s[k].recording))
    BY <1>5
  <2>2. queue'[i].event = Event("interrupted", order[i], s[k].recording) /\ queue'[i].to = "log"
    BY <2>1 DEF Frame
  <2> QED BY <2>2 DEF Event
<1>7. \A i \in 1 .. Len(s) : s[i] \in Events /\ s[i].recording \in Nat /\ s[i].recording <= opens
                             /\ s[i].recording # opens + 1
  <2>1. \A i \in 1 .. Len(s) : s[i] \in Events
    BY <1>3
  <2>2. \A i \in 1 .. Len(s) : s[i].recording \in Nat
    BY <2>1, CaptureAssumption DEF Events
  <2> QED BY <1>1, <1>3, <2>1, <2>2 DEF MarkInv, Dated
<1>8. \A i \in 1 .. n : queue'[i].event.recording <= opens /\ queue'[i].event.recording # opens + 1
  <2> SUFFICES ASSUME NEW i \in 1 .. n
               PROVE  queue'[i].event.recording <= opens /\ queue'[i].event.recording # opens + 1
    OBVIOUS
  <2>1. PICK k \in Requests(s, order[i]) : queue'[i].event = Event("interrupted", order[i], s[k].recording)
    BY <1>5
  <2>2. k \in 1 .. Len(s)
    BY DEF Requests
  <2> QED BY <1>7, <2>1, <2>2 DEF Event
<1>9. NoClash'
  <2>1. ASSUME NEW i \in 1 .. Len(s), NEW j \in 1 .. n, Clash(s[i], queue'[j].event)
        PROVE  FALSE
    <3>1. PICK k \in Requests(s, order[j]) :
            /\ \A l \in Requests(s, order[j]) : l <= k
            /\ queue'[j].event = Event("interrupted", order[j], s[k].recording)
      BY <1>5
    <3>2. k \in 1 .. Len(s) /\ s[k].kind = "request" /\ s[k].number = order[j]
      BY DEF Requests
    <3>3. IsEnd(s[i]) /\ s[i].number = order[j] /\ s[i].recording = s[k].recording
      BY <2>1, <3>1 DEF Clash, Same, Event
    <3>4. ~ (i < k)
      <4>1. i < k => ~ Clash(s[i], s[k])
        BY <1>1, <3>2 DEF MarkInv, NoClash
      <4> QED BY <3>2, <3>3, <4>1 DEF Clash, Same
    <3>5. i # k
      BY <3>2, <3>3 DEF IsEnd, Ends
    <3>6. OpenIn(s, order[j])
      BY <1>1 DEF ToMark
    <3>7. PICK l \in 1 .. Len(s) : /\ s[l].kind = "request" /\ s[l].number = order[j]
                                   /\ \A m \in l + 1 .. Len(s) : ~ (s[m].kind \in Ends /\ s[m].number = order[j])
      BY <3>6 DEF OpenIn
    <3>8. l <= k
      BY <3>1, <3>7 DEF Requests
    <3>9. i \in l + 1 .. Len(s)
      BY <1>3, <3>2, <3>4, <3>5, <3>8
    <3> QED BY <3>3, <3>7, <3>9 DEF IsEnd
  <2>2. ASSUME NEW i \in 1 .. n, NEW j \in 1 .. n, i < j PROVE ~ Clash(queue'[i].event, queue'[j].event)
    BY <1>3, <1>4, <1>6, <2>2 DEF Clash, Same
  <2>3. \A i, j \in 1 .. Len(s) : i < j => ~ Clash(s[i], s[j])
    BY <1>1 DEF MarkInv, NoClash
  <2> QED BY <1>2, <1>3, <2>1, <2>2, <2>3 DEF NoClash
<1>10. Dated' /\ MarkersFirst'
  <2>1. \A i \in 1 .. Len(s) : s[i].recording <= opens' /\ s[i].recording # opens'
    BY <1>3, <1>7
  <2>2. \A i \in 1 .. n : queue'[i].event.recording <= opens' /\ queue'[i].event.recording # opens'
    <3>1. ASSUME NEW i \in 1 .. n PROVE queue'[i].event.recording \in Nat
      <4>1. PICK k \in Requests(s, order[i]) : queue'[i].event = Event("interrupted", order[i], s[k].recording)
        BY <1>5
      <4>2. k \in 1 .. Len(s)
        BY DEF Requests
      <4> QED BY <1>7, <4>1, <4>2 DEF Event
    <3> QED BY <1>3, <1>8, <3>1
  <2>3. Dated'
    BY <1>2, <1>3, <2>1, <2>2 DEF Dated, IsKnown
  <2>4. MarkersFirst'
    BY <1>2, <1>3, <1>6, <2>1, <2>2 DEF MarkersFirst
  <2> QED BY <2>3, <2>4
<1>11. SettledBefore'
  BY <1>1, <1>3 DEF MarkInv, SettledBefore, Settled
<1>12. SettledOrQueued'
  <2>1. ASSUME NEW i \in 1 .. Len(s), NEW e, e = s[i], e.kind = "request", ~ Settled(e, Len(s))
        PROVE  MarkerQueued(e)'
    <3> DEFINE x == e.number
    <3>1. ASSUME NEW j \in i + 1 .. Len(s), s[j].kind \in Ends \/ s[j].kind = "request", s[j].number = x
          PROVE  s[j].kind = "request" /\ s[j].recording = e.recording
      <4>1. j \in 1 .. Len(s) /\ i < j /\ j - 1 \in 0 .. Len(s)
        BY <1>3
      <4>2. s[j].recording = e.recording
        <5>1. Over(e, s[j]) => Settled(e, j - 1)
          BY <1>1, <2>1, <4>1 DEF MarkInv, SettledBefore
        <5>2. Settled(e, j - 1) => Settled(e, Len(s))
          <6>1. \A p \in 1 .. j - 1 : p \in 1 .. Len(s)
            BY <1>3, <4>1
          <6> QED BY <6>1 DEF Settled
        <5> QED BY <2>1, <3>1, <5>1, <5>2 DEF Over
      <4>3. s[j].kind \notin Ends
        BY <1>1, <2>1, <3>1, <4>1, <4>2 DEF Settled, IsEnd, Same
      <4> QED BY <3>1, <4>2, <4>3
    <3>2. x \in open
      <4>1. x \in Exchanges
        BY <1>7, <2>1 DEF Events
      <4>2. OpenIn(s, x)
        BY <2>1, <3>1 DEF OpenIn, Ends
      <4> QED BY <1>1, <4>1, <4>2 DEF ToMark
    <3>3. PICK m \in 1 .. n : order[m] = x
      BY <1>2, <3>2
    <3>4. PICK k \in Requests(s, x) :
            /\ \A l \in Requests(s, x) : l <= k
            /\ queue'[m] = Frame(Event("interrupted", x, s[k].recording))
      BY <1>5, <3>3
    <3>5. s[k].recording = e.recording
      <4>1. i \in Requests(s, x)
        BY <2>1 DEF Requests
      <4>2. i <= k /\ k \in 1 .. Len(s) /\ s[k].kind = "request" /\ s[k].number = x
        BY <3>4, <4>1 DEF Requests
      <4>3. i = k \/ k \in i + 1 .. Len(s)
        BY <1>3, <4>2
      <4> QED BY <2>1, <3>1, <4>2, <4>3
    <3>6. ItsMarker(e) = Event("interrupted", x, e.recording)
      BY <1>7, <2>1 DEF ItsMarker, Event, Events
    <3>7. queue'[m] = Frame(ItsMarker(e)) /\ m \in 1 .. Len(queue') /\ Pending(m)'
      BY <1>2, <1>3, <1>6, <3>4, <3>5, <3>6 DEF Pending
    <3>8. \A j \in 1 .. m - 1 : queue'[j].event.number # e.number
      <4>1. \A j \in 1 .. m - 1 : j \in 1 .. n /\ j # m
        BY <1>3
      <4> QED BY <1>4, <1>6, <3>3, <4>1
    <3> QED BY <3>7, <3>8 DEF MarkerQueued
  <2> QED BY <1>1, <1>3, <2>1 DEF SettledOrQueued, Settled
<1> QED BY <1>9, <1>10, <1>11, <1>12 DEF MarkInv

LEMMA MarkNext == Base /\ MarkInv /\ [Next]_vars => MarkInv'
<1> SUFFICES ASSUME Base, MarkInv, [Next]_vars PROVE MarkInv'
  OBVIOUS
<1>1. Base'
  BY BaseNext
<1>2. CASE UNCHANGED vars
  BY <1>2 DEF vars, MarkInv, NoClash, Dated, IsKnown, MarkersFirst, SettledBefore, SettledOrQueued, Settled,
              MarkerQueued, Pending
<1> QED BY <1>1, <1>2, MarkPop, MarkWrote, MarkWroteBehind, MarkRecorded, MarkDown, MarkOpened, Ways

(* A reader finds at most one end of an exchange, and a request without    *)
(* one stays open for the next open unless its marker was counted as       *)
(* failed, however often the log is opened and whatever fails or stops     *)
(* (capture-log.ts 77, 113).                                               *)
THEOREM MarkersAreRight == Spec => []MarkedOnce
<1>1. Base /\ MarkInv => MarkedOnce
  <2> SUFFICES ASSUME Base, MarkInv PROVE MarkedOnce
    OBVIOUS
  <2>1. log.frames \in Seq(Events) /\ Len(log.frames) \in Nat
    BY DEF Base, TypeOK, Logs
  <2>2. EndsOnce
    <3> SUFFICES ASSUME NEW i \in 1 .. Len(log.frames), NEW j \in 1 .. Len(log.frames),
                        IsEnd(log.frames[i]), IsEnd(log.frames[j]), Same(log.frames[i], log.frames[j])
                 PROVE  i = j
      BY DEF EndsOnce, IsEnd, Same
    <3>1. Clash(log.frames[i], log.frames[j]) /\ Clash(log.frames[j], log.frames[i])
      BY DEF Clash, Same
    <3> QED BY <3>1 DEF MarkInv, NoClash
  <2>3. OpenStaysOpen
    <3> SUFFICES ASSUME NEW i \in 1 .. Len(log.frames), NEW e, e = log.frames[i], e.kind = "request",
                        \A f \in Held(log.frames) : ~ (IsEnd(f) /\ Same(f, e)), Frame(ItsMarker(e)) \notin failed
                 PROVE  OpenIn(log.frames, e.number)
      BY DEF OpenStaysOpen, Held, IsEnd, Same, ItsMarker
    <3>1. \A p \in 1 .. Len(log.frames) : ~ (IsEnd(log.frames[p]) /\ Same(log.frames[p], e))
      BY DEF Held
    <3>2. ASSUME NEW j \in i + 1 .. Len(log.frames), IsEnd(log.frames[j]), log.frames[j].number = e.number
          PROVE  FALSE
      <4>1. j \in 1 .. Len(log.frames) /\ i < j /\ \A p \in 1 .. j - 1 : p \in 1 .. Len(log.frames)
        BY <2>1
      <4>2. Over(e, log.frames[j])
        BY <3>1, <3>2, <4>1 DEF Over, Same
      <4>3. Settled(e, j - 1)
        BY <4>1, <4>2 DEF MarkInv, SettledBefore
      <4> QED BY <3>1, <4>1, <4>3 DEF Settled
    <3> QED BY <3>2 DEF OpenIn, IsEnd
  <2> QED BY <2>2, <2>3 DEF MarkedOnce
<1> QED BY <1>1, BaseInit, BaseNext, MarkInit, MarkNext, PTL DEF Spec

-----------------------------------------------------------------------------
(* The consumption scan: sets of exchange numbers.                         *)

LEMMA LeastOf ==
  ASSUME NEW S \in SUBSET Nat, S # {}
  PROVE  \E x \in S : \A y \in S : x <= y
<1> DEFINE Less == {p \in Nat \X Nat : p[1] < p[2]}
<1>1. IsWellFoundedOn(Less, Nat)
  BY NatLessThanWellFounded DEF OpToRel
<1>2. PICK x \in S : \A y \in S : <<y, x>> \notin Less
  <2> HIDE DEF Less
  <2> QED BY <1>1, WFMin
<1>3. ASSUME NEW y \in S PROVE x <= y
  <2>1. ~ (y < x)
    BY <1>2
  <2> QED BY <2>1
<1> QED BY <1>3

LEMMA MinIs ==
  ASSUME NEW S \in SUBSET Nat, S # {}
  PROVE  Min(S) \in S /\ \A y \in S : Min(S) <= y
BY LeastOf DEF Min

Great(S) == \E x \in S : \A y \in S : x >= y

LEMMA GreatestOf ==
  ASSUME NEW S \in SUBSET Nat, IsFiniteSet(S), S # {}
  PROVE  Great(S)
<1> DEFINE Bad == {n \in Nat : \E T \in SUBSET Nat :
                     IsFiniteSet(T) /\ Cardinality(T) = n /\ T # {} /\ ~ Great(T)}
<1> SUFFICES ASSUME ~ Great(S) PROVE FALSE
  OBVIOUS
<1>1. Cardinality(S) \in Bad
  BY FS_CardinalityType
<1>2. PICK n \in Bad : \A m \in Bad : n <= m
  <2>1. Bad \in SUBSET Nat /\ Bad # {}
    BY <1>1
  <2> HIDE DEF Bad
  <2> QED BY <2>1, LeastOf
<1>3. PICK T \in SUBSET Nat : IsFiniteSet(T) /\ Cardinality(T) = n /\ T # {} /\ ~ Great(T)
  BY <1>2
<1>4. PICK x \in T : TRUE
  BY <1>3
<1> DEFINE U == T \ {x}
<1>5. IsFiniteSet(U) /\ Cardinality(U) = n - 1 /\ U \in SUBSET Nat
  BY <1>3, <1>4, FS_RemoveElement
<1>6. n \in Nat /\ n - 1 \in Nat
  <2>1. n \in Nat /\ Cardinality(U) \in Nat
    BY <1>3, <1>5, FS_CardinalityType
  <2> QED BY <2>1, <1>5
<1>7. U = {} => Great(T)
  <2> SUFFICES ASSUME U = {} PROVE Great(T)
    OBVIOUS
  <2>1. \A y \in T : x >= y
    OBVIOUS
  <2> QED BY <1>4, <2>1 DEF Great
<1>8. U # {} => Great(U)
  <2>1. n - 1 \notin Bad
    BY <1>2, <1>6
  <2> HIDE DEF U
  <2> QED BY <2>1, <1>5, <1>6
<1>9. Great(U) => Great(T)
  <2> SUFFICES ASSUME NEW m \in U, \A y \in U : m >= y PROVE Great(T)
    BY DEF Great
  <2>1. CASE m >= x
    BY <2>1 DEF Great
  <2>2. CASE x > m
    <3>1. \A y \in T : x >= y
      BY <2>2
    <3> QED BY <1>4, <3>1 DEF Great
  <2> QED BY <2>1, <2>2
<1> QED BY <1>3, <1>7, <1>8, <1>9

LEMMA MaxIs ==
  ASSUME NEW S \in SUBSET Nat, IsFiniteSet(S), S # {}
  PROVE  Max(S) \in S /\ \A y \in S : y <= Max(S)
<1>1. PICK x \in S : \A y \in S : x >= y
  BY GreatestOf DEF Great
<1>2. Max(S) \in S /\ \A y \in S : Max(S) >= y
  BY <1>1 DEF Max
<1> QED BY <1>2

Lists(s, n, es) ==
  /\ s \in [1 .. n -> es]
  /\ {s[i] : i \in 1 .. n} = es
  /\ \A i, j \in 1 .. n : i < j => s[i] < s[j]

LEMMA ListExists ==
  ASSUME NEW S \in SUBSET Nat, IsFiniteSet(S)
  PROVE  \E s : Lists(s, Cardinality(S), S)
<1> DEFINE Bad == {n \in Nat : \E T \in SUBSET Nat :
                     IsFiniteSet(T) /\ Cardinality(T) = n /\ ~ \E s : Lists(s, n, T)}
<1> SUFFICES ASSUME ~ \E s : Lists(s, Cardinality(S), S) PROVE FALSE
  OBVIOUS
<1>1. Cardinality(S) \in Bad
  BY FS_CardinalityType
<1>2. PICK n \in Bad : \A m \in Bad : n <= m
  <2>1. Bad \in SUBSET Nat /\ Bad # {}
    BY <1>1
  <2> HIDE DEF Bad
  <2> QED BY <2>1, LeastOf
<1>3. PICK T \in SUBSET Nat : IsFiniteSet(T) /\ Cardinality(T) = n /\ ~ \E s : Lists(s, n, T)
  BY <1>2
<1>4. n \in Nat
  BY <1>2
<1>5. T # {}
  <2> SUFFICES ASSUME T = {} PROVE FALSE
    OBVIOUS
  <2>1. n = 0
    BY <1>3, FS_EmptySet
  <2>2. Lists([i \in 1 .. 0 |-> 0], 0, T)
    BY DEF Lists
  <2> QED BY <1>3, <2>1, <2>2
<1>6. PICK x \in T : \A y \in T : x >= y
  BY <1>3, <1>5, GreatestOf DEF Great
<1> DEFINE U == T \ {x}
<1>7. IsFiniteSet(U) /\ Cardinality(U) = n - 1 /\ U \in SUBSET Nat
  BY <1>3, <1>6, FS_RemoveElement
<1>8. n - 1 \in Nat
  BY <1>7, FS_CardinalityType
<1>9. PICK s : Lists(s, n - 1, U)
  <2>1. n - 1 \notin Bad
    BY <1>2, <1>4, <1>8
  <2> HIDE DEF U
  <2> QED BY <2>1, <1>7, <1>8
<1> DEFINE r == [i \in 1 .. n |-> IF i = n THEN x ELSE s[i]]
<1>10. \A i \in 1 .. n : i # n => i \in 1 .. n - 1
  BY <1>4
<1>11. \A i \in 1 .. n - 1 : s[i] \in U /\ i \in 1 .. n /\ i # n
  BY <1>4, <1>8, <1>9 DEF Lists
<1>12. r \in [1 .. n -> T]
  BY <1>6, <1>10, <1>11
<1>13. {r[i] : i \in 1 .. n} = T
  <2>1. ASSUME NEW y \in T PROVE \E i \in 1 .. n : r[i] = y
    <3>1. CASE y = x
      BY <3>1, <1>4, <1>8
    <3>2. CASE y # x
      <4>1. PICK i \in 1 .. n - 1 : s[i] = y
        BY <3>2, <1>9 DEF Lists
      <4> QED BY <4>1, <1>11
    <3> QED BY <3>1, <3>2
  <2> QED BY <1>12, <2>1
<1>14. ASSUME NEW i \in 1 .. n, NEW j \in 1 .. n, i < j PROVE r[i] < r[j]
  <2>1. i # n /\ i \in 1 .. n - 1
    BY <1>4, <1>14
  <2>2. CASE j = n
    <3>1. s[i] \in T /\ s[i] # x /\ T \in SUBSET Nat
      BY <2>1, <1>11, <1>3
    <3>2. s[i] < x
      <4>1. s[i] \in Nat /\ x \in Nat /\ x >= s[i]
        BY <3>1, <1>6
      <4> QED BY <4>1, <3>1
    <3> QED BY <2>1, <2>2, <3>2
  <2>3. CASE j # n
    <3>1. s[i] < s[j]
      BY <2>1, <2>3, <1>9, <1>10, <1>14 DEF Lists
    <3> QED BY <2>1, <2>3, <3>1
  <2> QED BY <2>2, <2>3
<1>15. Lists(r, n, T)
  BY <1>12, <1>13, <1>14 DEF Lists
<1> QED BY <1>3, <1>15

LEMMA AscendingIs ==
  ASSUME NEW es \in SUBSET Nat, IsFiniteSet(es), NEW s, s = Ascending(es)
  PROVE  /\ s \in Seq(es) /\ Len(s) \in Nat
         /\ {s[i] : i \in 1 .. Len(s)} = es
         /\ \A i, j \in 1 .. Len(s) : i < j => s[i] < s[j]
<1>1. PICK z : Lists(z, Cardinality(es), es)
  BY ListExists
<1>2. Lists(s, Cardinality(es), es)
  <2>1. \E q \in [1 .. Cardinality(es) -> es] :
          /\ {q[i] : i \in 1 .. Cardinality(es)} = es
          /\ \A i, j \in 1 .. Cardinality(es) : i < j => q[i] < q[j]
    BY <1>1 DEF Lists
  <2>2. /\ s \in [1 .. Cardinality(es) -> es]
        /\ {s[i] : i \in 1 .. Cardinality(es)} = es
        /\ \A i, j \in 1 .. Cardinality(es) : i < j => s[i] < s[j]
    BY <2>1, Zenon DEF Ascending
  <2> QED BY <2>2 DEF Lists
<1>3. Cardinality(es) \in Nat
  BY FS_CardinalityType
<1>4. s \in Seq(es) /\ Len(s) = Cardinality(es)
  BY <1>2, <1>3 DEF Lists
<1> QED BY <1>2, <1>3, <1>4 DEF Lists

-----------------------------------------------------------------------------
(* What is known of a scan s that has read the first n requests of the     *)
(* capture c, for a request recorded with delivery point a when p requests *)
(* had been captured.                                                      *)

Shows(c, n) == {c[i].exchange : i \in 1 .. n}
Carries(c, e) == c[CHOOSE i \in 1 .. Len(c) : c[i].exchange = e].count
Place(c, a, p, n) == IF a # None THEN a + 1 ELSE IF n > p THEN c[p + 1].exchange ELSE None

(* It has met nothing but what was captured. *)
Within(c, s, n) ==
  /\ s.retry \subseteq Shows(c, n) /\ s.seen \subseteq Shows(c, n) /\ s.missing \subseteq Shows(c, n)
  /\ s.below \in Shows(c, n) \union {None}

(* Its baseline is the count of the request it names, or that one is missing. *)
Grounded(c, s) ==
  /\ s.baseline \notin {None, Infinite} => s.baseline = IF s.below = None THEN 0 ELSE Carries(c, s.below)
  /\ s.baseline = Infinite => s.below \in s.missing
  /\ s.baseline \in {None, Infinite} => s.next = s.from

(* What it passed, and need not try again, carries the message no more often, or was not readable; *)
(* but for a finding whose record failed. *)
Judged(c, s, st) ==
  /\ s.next >= s.from
  /\ s.next > s.from => \A e \in s.seen : e < s.next
  /\ st => \A e \in s.seen \ s.retry : s.from <= e /\ e < s.next => Carries(c, e) <= s.baseline \/ e \in s.missing

(* What it has to try again lies behind it, unless a newer baseline was found. *)
Behind(s, re) == ~ re => \A e \in s.retry \union s.missing : e < s.next

ScanOK(c, a, p, st, re, s, n) ==
  IF s.from = None THEN s = NewScan
  ELSE s.from = Place(c, a, p, n) /\ Within(c, s, n) /\ Grounded(c, s) /\ Judged(c, s, st) /\ Behind(s, re)

(* No exchange is captured twice. *)
Distinct(c) == \A i, j \in 1 .. Len(c) : c[i].exchange = c[j].exchange => i = j

Covered(c, n) == IF n = None THEN Len(c) ELSE n

ScanInv ==
  /\ Distinct(capture)
  /\ ScanOK(capture, at, prior, storing, replaced, scan, Covered(capture, snapshot))

(* The answer, in the capture it was given for. *)
RuleOf(c, n, from) ==
  LET before == Below(Shows(c, n), from)
      baseline == IF before = None THEN 0 ELSE Carries(c, before)
  IN {e \in Shows(c, n) : e >= from /\ Carries(c, e) > baseline}

AnswerOK(c, st, re, an) ==
  /\ an.status = "observed" =>
       /\ an.from # None /\ an.exchange \in RuleOf(c, an.upTo, an.from)
       /\ re \/ \A e \in RuleOf(c, an.upTo, an.from) : e < an.exchange => e \in an.missing
  /\ an.status = "not-observed" /\ st /\ an.from # None => RuleOf(c, an.upTo, an.from) = {}

IInv == ScanTypeOK /\ ScanInv /\ Len(consumed) <= 1 /\ AnswerOK(capture, storing, replaced, answer)

-----------------------------------------------------------------------------
(* A search of what is to be read: the lost ones again, then those ahead.  *)

Again(s) == {e \in s.retry : e >= s.from}
Ahead(s, entries) == {e \in entries : e >= s.next}
Hit(s, e, bounded) == Readable(e, bounded) /\ Count(e) > s.baseline

(* How far it got, in the list of the ones and then of the others. *)
Reached(s, entries, bounded, r, retried, passed) ==
  /\ passed # {} => retried = Again(s)
  /\ r.scan = [s EXCEPT !.retry = Again(s) \ retried, !.next = r.scan.next, !.seen = @ \union passed,
                        !.missing = {e \in @ \union (retried \union passed) :
                                       e \in retried \union passed => ~ Readable(e, bounded)}]
  /\ IF passed = {} THEN r.scan.next = s.next
     ELSE r.scan.next \in {e + 1 : e \in passed} /\ \A e \in passed : e < r.scan.next
  /\ r.kind \in {"found", "more", "end"}
  /\ IF r.kind = "found"
     THEN /\ Hit(s, r.exchange, bounded)
          /\ \A e \in retried \union passed : Hit(s, e, bounded) => e = r.exchange
          /\ \/ r.exchange \in retried /\ passed = {} /\ \A e \in Again(s) : e < r.exchange => e \in retried
             \/ r.exchange \in passed /\ \A e \in Ahead(s, entries) : e < r.exchange => e \in passed
     ELSE r.exchange = None /\ \A e \in retried \union passed : ~ Hit(s, e, bounded)
  /\ r.kind = "end" => retried = Again(s) /\ passed = Ahead(s, entries)

LEMMA LesserOf ==
  ASSUME NEW a \in Nat, NEW b \in Nat
  PROVE  Min({a, b}) = IF a <= b THEN a ELSE b
<1>1. {a, b} \in SUBSET Nat /\ {a, b} # {}
  OBVIOUS
<1>2. Min({a, b}) \in {a, b} /\ \A y \in {a, b} : Min({a, b}) <= y
  BY <1>1, MinIs
<1> QED BY <1>2

LEMMA AdvancedIs ==
  ASSUME NEW s \in Scans, NEW entries \in SUBSET Numbers, NEW reads \in Nat, NEW bounded \in BOOLEAN,
         NEW r, r = Advanced(s, entries, reads, bounded), s.from \in Nat
  PROVE  \E retried \in SUBSET Again(s), passed \in SUBSET Ahead(s, entries) :
           Reached(s, entries, bounded, r, retried, passed)
<1> DEFINE again == Ascending(Again(s))
           ahead == Ascending(Ahead(s, entries))
           todo == again \o ahead
           k == Len(again)
           n == Len(todo)
           m == Min({reads, n})
           hits == {i \in 1 .. m : Hit(s, todo[i], bounded)}
           stop == IF hits = {} THEN m ELSE Min(hits)
           read == {todo[i] : i \in 1 .. stop}
           retried == {again[i] : i \in 1 .. Min({stop, k})}
           passed == {todo[i] : i \in k + 1 .. stop}
<1>1. /\ r.kind = IF hits # {} THEN "found" ELSE IF stop < n THEN "more" ELSE "end"
      /\ r.exchange = IF hits = {} THEN None ELSE todo[stop]
      /\ r.scan = [s EXCEPT !.retry = Again(s) \ retried,
                            !.next = IF passed = {} THEN @ ELSE Max(passed) + 1,
                            !.seen = @ \union passed,
                            !.missing = {e \in @ \union read : e \in read => ~ Readable(e, bounded)}]
  BY DEF Advanced, Again, Ahead, Hit
<1>2. Again(s) \in SUBSET Numbers /\ Ahead(s, entries) \in SUBSET Numbers /\ Numbers \in SUBSET Nat
  BY NumbersAssumption DEF Again, Ahead, Scans
<1>3. IsFiniteSet(Again(s)) /\ IsFiniteSet(Ahead(s, entries))
  BY <1>2, NumbersAssumption, FS_Subset
<1>4. /\ again \in Seq(Again(s)) /\ k \in Nat
      /\ {again[i] : i \in 1 .. k} = Again(s)
      /\ \A i, j \in 1 .. k : i < j => again[i] < again[j]
  BY <1>2, <1>3, AscendingIs
<1>5. /\ ahead \in Seq(Ahead(s, entries)) /\ Len(ahead) \in Nat
      /\ {ahead[i] : i \in 1 .. Len(ahead)} = Ahead(s, entries)
      /\ \A i, j \in 1 .. Len(ahead) : i < j => ahead[i] < ahead[j]
  BY <1>2, <1>3, AscendingIs
<1> HIDE DEF again, ahead
<1>6. n = k + Len(ahead) /\ n \in Nat
  BY <1>4, <1>5
<1>7. \A i \in 1 .. k : todo[i] = again[i]
  BY <1>4, <1>5
<1>8. ASSUME NEW i \in k + 1 .. n PROVE todo[i] = ahead[i - k] /\ i - k \in 1 .. Len(ahead)
  BY <1>4, <1>5, <1>6
<1> HIDE DEF todo, k, n
<1>9. m \in Nat /\ m <= n
  BY <1>6, LesserOf
<1> HIDE DEF m
<1>10. hits # {} => stop \in hits /\ \A i \in hits : stop <= i
  <2>1. hits \in SUBSET Nat
    BY <1>9
  <2> HIDE DEF hits
  <2> QED BY <2>1, MinIs
<1>11. hits = {} => stop = m
  OBVIOUS
<1>12. stop \in 0 .. m /\ stop \in 0 .. n
  BY <1>9, <1>10, <1>11, <1>6
<1>36. stop \in Nat /\ k \in Nat /\ n \in Nat /\ stop <= n /\ (stop <= k \/ stop > k)
  BY <1>12, <1>9, <1>4, <1>6
<1>13. hits = {} => \A i \in 1 .. stop : ~ Hit(s, todo[i], bounded)
  BY <1>11
<1>14. hits # {} => stop \in 1 .. n /\ Hit(s, todo[stop], bounded) /\ \A i \in 1 .. stop : Hit(s, todo[i], bounded) => i = stop
  <2> SUFFICES ASSUME hits # {} PROVE stop \in 1 .. n /\ Hit(s, todo[stop], bounded) /\ \A i \in 1 .. stop : Hit(s, todo[i], bounded) => i = stop
    OBVIOUS
  <2>1. stop \in 1 .. m /\ Hit(s, todo[stop], bounded) /\ \A i \in hits : stop <= i
    BY <1>10
  <2> HIDE DEF stop
  <2>2. ASSUME NEW i \in 1 .. stop, Hit(s, todo[i], bounded) PROVE i = stop
    <3>1. i \in hits
      BY <2>1, <2>2, <1>9
    <3> QED BY <2>1, <2>2, <3>1, <1>9
  <2> QED BY <2>1, <2>2, <1>9, <1>6
<1>15. hits = {} \/ hits # {}
  OBVIOUS
<1> HIDE DEF hits, stop
<1>16. Min({stop, k}) = IF stop <= k THEN stop ELSE k
  BY <1>12, <1>6, <1>4, LesserOf
<1>17. retried \in SUBSET Again(s)
  BY <1>16, <1>4, <1>12, <1>6
<1>18. ASSUME NEW i \in k + 1 .. stop PROVE todo[i] = ahead[i - k] /\ i - k \in 1 .. Len(ahead)
  BY <1>8, <1>12, <1>6, <1>4
<1>19. passed \in SUBSET Ahead(s, entries)
  BY <1>18, <1>5
<1>20. stop > k => retried = Again(s)
  BY <1>16, <1>4, <1>12, <1>6
<1>21. stop <= k <=> passed = {}
  <2>1. stop <= k => passed = {}
    BY <1>12, <1>4, <1>6
  <2>2. stop > k => todo[stop] \in passed
    BY <1>12, <1>4, <1>6
  <2>3. passed # {} \/ passed = {}
    OBVIOUS
  <2> HIDE DEF passed
  <2>4. todo[stop] \in passed => passed # {}
    OBVIOUS
  <2>5. ~ (stop <= k /\ stop > k)
    BY <1>36
  <2> QED BY <2>1, <2>2, <2>4, <2>5, <1>36
<1>22. read = retried \union passed
  <2>1. ASSUME NEW i \in 1 .. stop PROVE todo[i] \in retried \union passed
    <3>1. CASE i <= k
      <4>1. i \in 1 .. k /\ i \in 1 .. Min({stop, k})
        BY <3>1, <1>16, <1>12, <1>4, <1>6
      <4> QED BY <4>1, <1>7
    <3>2. CASE i > k
      BY <3>2, <1>12, <1>4, <1>6
    <3>3. i <= k \/ i > k
      BY <1>36
    <3> QED BY <3>1, <3>2, <3>3
  <2>2. ASSUME NEW i \in 1 .. Min({stop, k}) PROVE again[i] \in read
    <3>1. i \in 1 .. k /\ i \in 1 .. stop
      BY <1>16, <1>12, <1>4, <1>6
    <3>2. todo[i] = again[i]
      BY <3>1, <1>7
    <3> QED BY <3>1, <3>2
  <2>3. ASSUME NEW i \in k + 1 .. stop PROVE todo[i] \in read
    BY <1>12, <1>4, <1>6
  <2> QED BY <2>1, <2>2, <2>3
<1>23. passed # {} => Max(passed) \in passed /\ \A e \in passed : e < Max(passed) + 1
  <2>1. passed \in SUBSET Nat /\ IsFiniteSet(passed)
    BY <1>19, <1>2, <1>3, FS_Subset
  <2> HIDE DEF passed
  <2>2. passed # {} => Max(passed) \in passed /\ \A e \in passed : e <= Max(passed)
    BY <2>1, MaxIs
  <2>3. ASSUME passed # {}, NEW e \in passed PROVE e < Max(passed) + 1
    <3>1. Max(passed) \in Nat /\ e \in Nat /\ e <= Max(passed)
      BY <2>1, <2>2, <2>3
    <3> QED BY <3>1
  <2> QED BY <2>2, <2>3
<1>24. r.scan.next = IF passed = {} THEN s.next ELSE Max(passed) + 1
  BY <1>1 DEF Scans
<1>25. \A e \in read : \E i \in 1 .. stop : e = todo[i]
  OBVIOUS
<1>26. hits # {} => \A e \in read : Hit(s, e, bounded) => e = r.exchange
  BY <1>1, <1>14, <1>25
<1>27. hits = {} => r.exchange = None /\ \A e \in read : ~ Hit(s, e, bounded)
  BY <1>1, <1>13, <1>25
<1>28. hits # {} /\ stop <= k => /\ r.exchange \in retried
                                 /\ \A e \in Again(s) : e < r.exchange => e \in retried
  <2> SUFFICES ASSUME hits # {}, stop <= k
               PROVE  r.exchange \in retried /\ \A e \in Again(s) : e < r.exchange => e \in retried
    OBVIOUS
  <2>1. stop \in 1 .. k /\ Min({stop, k}) = stop /\ r.exchange = again[stop]
    BY <1>1, <1>14, <1>16, <1>7, <1>4, <1>6
  <2>2. ASSUME NEW i \in 1 .. k, again[i] < again[stop] PROVE i \in 1 .. stop
    <3>1. ~ (stop < i)
      <4> SUFFICES ASSUME stop < i PROVE FALSE
        OBVIOUS
      <4>1. again[stop] < again[i]
        BY <2>1, <1>4
      <4>2. again[stop] \in Nat /\ again[i] \in Nat
        BY <2>1, <1>4, <1>2
      <4> QED BY <4>1, <4>2, <2>2
    <3> QED BY <3>1, <2>1, <1>4
  <2>3. r.exchange \in retried
    <3>1. stop \in 1 .. Min({stop, k})
      BY <2>1, <1>36
    <3> QED BY <3>1, <2>1
  <2>4. ASSUME NEW e \in Again(s), e < r.exchange PROVE e \in retried
    <3>1. PICK i \in 1 .. k : again[i] = e
      BY <1>4
    <3>2. i \in 1 .. Min({stop, k})
      BY <3>1, <2>1, <2>2, <2>4
    <3> QED BY <3>1, <3>2
  <2> QED BY <2>3, <2>4
<1>29. hits # {} /\ stop > k => /\ r.exchange \in passed
                                /\ \A e \in Ahead(s, entries) : e < r.exchange => e \in passed
  <2> SUFFICES ASSUME hits # {}, stop > k
               PROVE  r.exchange \in passed /\ \A e \in Ahead(s, entries) : e < r.exchange => e \in passed
    OBVIOUS
  <2>1. stop \in k + 1 .. n /\ r.exchange = todo[stop] /\ stop \in k + 1 .. stop
    BY <1>1, <1>14, <1>4, <1>6
  <2>2. todo[stop] = ahead[stop - k] /\ stop - k \in 1 .. Len(ahead)
    BY <2>1, <1>8
  <2>3. ASSUME NEW j \in 1 .. Len(ahead), ahead[j] < ahead[stop - k] PROVE ahead[j] \in passed
    <3>1. ~ (stop - k < j)
      <4> SUFFICES ASSUME stop - k < j PROVE FALSE
        OBVIOUS
      <4>1. ahead[stop - k] < ahead[j]
        BY <2>2, <1>5
      <4>2. ahead[stop - k] \in Nat /\ ahead[j] \in Nat
        BY <2>2, <1>5, <1>2
      <4> QED BY <4>1, <4>2, <2>3
    <3>2. j + k \in k + 1 .. stop /\ j = (j + k) - k
      BY <3>1, <2>1, <1>4, <1>5, <1>6
    <3>3. todo[j + k] = ahead[(j + k) - k]
      BY <3>2, <1>18
    <3> QED BY <3>2, <3>3
  <2> QED BY <2>1, <2>2, <2>3, <1>5
<1>30. r.kind = "end" => retried = Again(s) /\ passed = Ahead(s, entries)
  <2> SUFFICES ASSUME r.kind = "end" PROVE retried = Again(s) /\ passed = Ahead(s, entries)
    OBVIOUS
  <2>1. stop = n
    BY <1>1, <1>12, <1>6
  <2>2. retried = Again(s)
    BY <2>1, <1>16, <1>4, <1>5, <1>6
  <2>3. ASSUME NEW j \in 1 .. Len(ahead) PROVE ahead[j] \in passed
    <3>2. j + k \in k + 1 .. stop /\ j = (j + k) - k
      BY <2>1, <1>4, <1>5, <1>6
    <3>3. todo[j + k] = ahead[(j + k) - k]
      BY <3>2, <1>18
    <3> QED BY <3>2, <3>3
  <2>4. Ahead(s, entries) \subseteq passed
    BY <2>3, <1>5
  <2> QED BY <2>2, <2>4, <1>19
<1>31. IF r.kind = "found"
       THEN /\ Hit(s, r.exchange, bounded)
            /\ \A e \in retried \union passed : Hit(s, e, bounded) => e = r.exchange
            /\ \/ r.exchange \in retried /\ passed = {} /\ \A e \in Again(s) : e < r.exchange => e \in retried
               \/ r.exchange \in passed /\ \A e \in Ahead(s, entries) : e < r.exchange => e \in passed
       ELSE r.exchange = None /\ \A e \in retried \union passed : ~ Hit(s, e, bounded)
  <2> HIDE DEF retried, passed, read
  <2>1. CASE hits # {}
    <3>1. r.kind = "found" /\ r.exchange = todo[stop]
      BY <1>1, <2>1
    <3>2. stop <= k \/ stop > k
      BY <1>12, <1>4, <1>6
    <3> QED BY <2>1, <3>1, <3>2, <1>14, <1>21, <1>22, <1>26, <1>28, <1>29
  <2>2. CASE hits = {}
    <3>1. r.kind # "found"
      BY <1>1, <2>2
    <3> QED BY <2>2, <3>1, <1>22, <1>27
  <2> QED BY <2>1, <2>2
<1> HIDE DEF retried, passed, read
<1>32. passed # {} => retried = Again(s)
  BY <1>20, <1>21, <1>12, <1>4, <1>6
<1>33. r.scan = [s EXCEPT !.retry = Again(s) \ retried, !.next = r.scan.next, !.seen = @ \union passed,
                          !.missing = {e \in @ \union (retried \union passed) :
                                         e \in retried \union passed => ~ Readable(e, bounded)}]
  BY <1>1, <1>22 DEF Scans
<1>34. IF passed = {} THEN r.scan.next = s.next
       ELSE r.scan.next \in {e + 1 : e \in passed} /\ \A e \in passed : e < r.scan.next
  <2>1. passed \in SUBSET Nat
    BY <1>19, <1>2
  <2>2. CASE passed = {}
    BY <2>2, <1>24
  <2>3. CASE passed # {}
    <3>1. Max(passed) \in Nat /\ r.scan.next = Max(passed) + 1
      BY <2>1, <2>3, <1>23, <1>24
    <3>2. r.scan.next \in {e + 1 : e \in passed}
      BY <3>1, <2>3, <1>23
    <3> QED BY <2>3, <3>1, <3>2, <1>23
  <2> QED BY <2>2, <2>3
<1>35. r.kind \in {"found", "more", "end"}
  BY <1>1
<1> QED BY <1>17, <1>19, <1>30, <1>31, <1>32, <1>33, <1>34, <1>35 DEF Reached

-----------------------------------------------------------------------------
(* The capture only grows.                                                 *)

LEMMA ShowsIn ==
  ASSUME NEW c \in Seq(Entry), NEW n \in 0 .. Len(c)
  PROVE  /\ Shows(c, n) \in SUBSET Numbers /\ Shows(c, n) \in SUBSET Nat /\ IsFiniteSet(Shows(c, n))
         /\ \A i \in 1 .. n : c[i] \in Entry /\ c[i].exchange \in Shows(c, n)
<1>1. \A i \in 1 .. n : c[i] \in Entry
  OBVIOUS
<1>2. Shows(c, n) \in SUBSET Numbers
  BY <1>1 DEF Shows, Entry
<1> QED BY <1>1, <1>2, NumbersAssumption, FS_Subset DEF Shows

LEMMA CarriesIn ==
  ASSUME NEW c \in Seq(Entry), NEW e \in Shows(c, Len(c))
  PROVE  Carries(c, e) \in Counts /\ Carries(c, e) \in Nat /\ Carries(c, e) < Infinite /\ Infinite \in Nat
<1>1. PICK i \in 1 .. Len(c) : c[i].exchange = e
  BY DEF Shows
<1> DEFINE j == CHOOSE k \in 1 .. Len(c) : c[k].exchange = e
<1>2. j \in 1 .. Len(c)
  BY <1>1
<1>3. c[j] \in Entry
  BY <1>2
<1>4. Carries(c, e) \in Counts
  BY <1>3 DEF Carries, Entry
<1>5. Counts \union {0} \in SUBSET Nat /\ IsFiniteSet(Counts \union {0})
  BY CountsAssumption, FS_AddElement
<1>6. Max(Counts \union {0}) \in Nat /\ Carries(c, e) <= Max(Counts \union {0})
  BY <1>4, <1>5, MaxIs
<1>7. Carries(c, e) \in Nat
  BY <1>4, <1>5
<1> QED BY <1>4, <1>6, <1>7 DEF Infinite

LEMMA InfiniteIs == Infinite \in Nat /\ Infinite # 0
<1>5. Counts \union {0} \in SUBSET Nat /\ IsFiniteSet(Counts \union {0}) /\ Counts \union {0} # {}
  BY CountsAssumption, FS_AddElement
<1>6. Max(Counts \union {0}) \in Nat
  BY <1>5, MaxIs
<1> QED BY <1>6 DEF Infinite

LEMMA ShowsMore ==
  ASSUME NEW c \in Seq(Entry), NEW m \in 0 .. Len(c), NEW n \in 0 .. Len(c), m <= n
  PROVE  Shows(c, m) \subseteq Shows(c, n)
BY DEF Shows

LEMMA AppendOne ==
  ASSUME NEW c \in Seq(Entry), NEW x \in Entry, x.exchange \notin Shows(c, Len(c)), Distinct(c)
  PROVE  LET d == Append(c, x)
         IN  /\ d \in Seq(Entry) /\ Len(d) = Len(c) + 1 /\ Len(c) \in Nat
             /\ \A i \in 1 .. Len(c) : d[i] = c[i]
             /\ Distinct(d)
             /\ \A n \in 0 .. Len(c) : Shows(d, n) = Shows(c, n)
             /\ \A e \in Shows(c, Len(c)) : Carries(d, e) = Carries(c, e)
<1> DEFINE d == Append(c, x)
<1>1. d \in Seq(Entry) /\ Len(d) = Len(c) + 1 /\ Len(c) \in Nat /\ d[Len(c) + 1] = x
  OBVIOUS
<1>2. \A i \in 1 .. Len(c) : d[i] = c[i]
  OBVIOUS
<1> HIDE DEF d
<1>3. \A i \in 1 .. Len(d) : i \in 1 .. Len(c) \/ i = Len(c) + 1
  BY <1>1
<1>4. \A i \in 1 .. Len(c) : c[i].exchange # x.exchange
  BY DEF Shows
<1>5. Distinct(d)
  BY <1>1, <1>2, <1>3, <1>4 DEF Distinct
<1>6. \A n \in 0 .. Len(c) : Shows(d, n) = Shows(c, n)
  BY <1>1, <1>2 DEF Shows
<1>7. ASSUME NEW e \in Shows(c, Len(c)) PROVE Carries(d, e) = Carries(c, e)
  <2>1. PICK i \in 1 .. Len(c) : c[i].exchange = e
    BY DEF Shows
  <2>2. (CHOOSE k \in 1 .. Len(c) : c[k].exchange = e) = i
    BY <2>1 DEF Distinct
  <2>3. i \in 1 .. Len(d) /\ d[i].exchange = e
    BY <2>1, <1>1, <1>2
  <2>4. (CHOOSE k \in 1 .. Len(d) : d[k].exchange = e) = i
    BY <2>3, <1>5 DEF Distinct
  <2> QED BY <2>1, <2>2, <2>4, <1>2 DEF Carries
<1> QED BY <1>1, <1>2, <1>5, <1>6, <1>7 DEF d

-----------------------------------------------------------------------------
(* What stays true of a scan while nothing of it is read.                  *)

LEMMA NewScanIs == NewScan \in Scans /\ NewScan.from = None
BY InfiniteIs DEF NewScan, Scans

LEMMA NewScanOK ==
  ASSUME NEW c, NEW a, NEW p, NEW st, NEW re, NEW n
  PROVE  ScanOK(c, a, p, st, re, NewScan, n)
BY NewScanIs DEF ScanOK

(* More of the capture, a dead store and a newer baseline take nothing away. *)
LEMMA MoreShown ==
  ASSUME NEW c \in Seq(Entry), NEW a, NEW p \in 0 .. Len(c), NEW st \in BOOLEAN, NEW re \in BOOLEAN, NEW s \in Scans,
         NEW m \in 0 .. Len(c), NEW n \in 0 .. Len(c), m <= n, ScanOK(c, a, p, st, re, s, m),
         NEW st2 \in BOOLEAN, st2 => st, NEW re2 \in BOOLEAN, re => re2
  PROVE  ScanOK(c, a, p, st2, re2, s, n)
<1>1. CASE s.from = None
  BY <1>1 DEF ScanOK
<1>2. CASE s.from # None
  <2>1. s.from = Place(c, a, p, m) /\ Within(c, s, m) /\ Grounded(c, s) /\ Judged(c, s, st) /\ Behind(s, re)
    BY <1>2 DEF ScanOK
  <2>2. s.from = Place(c, a, p, n)
    BY <2>1, <1>2 DEF Place
  <2>3. Within(c, s, n)
    BY <2>1, ShowsMore DEF Within
  <2>4. Judged(c, s, st2) /\ Behind(s, re2)
    BY <2>1 DEF Judged, Behind
  <2> QED BY <1>2, <2>1, <2>2, <2>3, <2>4 DEF ScanOK
<1> QED BY <1>1, <1>2

LEMMA OneMore ==
  ASSUME NEW c \in Seq(Entry), NEW x \in Entry, x.exchange \notin Shows(c, Len(c)), Distinct(c),
         NEW a, NEW p \in 0 .. Len(c), NEW st, NEW re, NEW s \in Scans,
         NEW n \in 0 .. Len(c), ScanOK(c, a, p, st, re, s, n)
  PROVE  ScanOK(Append(c, x), a, p, st, re, s, n)
<1> DEFINE d == Append(c, x)
<1>1. /\ d \in Seq(Entry) /\ Len(d) = Len(c) + 1 /\ Len(c) \in Nat
      /\ \A i \in 1 .. Len(c) : d[i] = c[i]
      /\ \A k \in 0 .. Len(c) : Shows(d, k) = Shows(c, k)
      /\ \A e \in Shows(c, Len(c)) : Carries(d, e) = Carries(c, e)
  BY AppendOne
<1> HIDE DEF d
<1>2. CASE s.from = None
  BY <1>2 DEF ScanOK, d
<1>3. CASE s.from # None
  <2>1. s.from = Place(c, a, p, n) /\ Within(c, s, n) /\ Grounded(c, s) /\ Judged(c, s, st) /\ Behind(s, re)
    BY <1>3 DEF ScanOK
  <2>2. Place(d, a, p, n) = Place(c, a, p, n)
    BY <1>1 DEF Place
  <2>3. Within(d, s, n)
    BY <2>1, <1>1 DEF Within
  <2>4. Shows(c, n) \subseteq Shows(c, Len(c))
    BY <1>1, ShowsMore
  <2>5. \A e \in Shows(c, n) : Carries(d, e) = Carries(c, e)
    BY <2>4, <1>1
  <2>6. s.seen \subseteq Shows(c, n) /\ (s.below = None \/ s.below \in Shows(c, n))
    BY <2>1 DEF Within
  <2>7. Grounded(d, s)
    BY <2>1, <2>5, <2>6 DEF Grounded
  <2>8. Judged(d, s, st)
    BY <2>1, <2>5, <2>6 DEF Judged
  <2> QED BY <1>3, <2>1, <2>2, <2>3, <2>7, <2>8 DEF ScanOK, d
<1> QED BY <1>2, <1>3

(* A new check knows where the last one stopped. *)
LEMMA RenewedOK ==
  ASSUME NEW c, NEW a, NEW p, NEW st, NEW re, NEW n, NEW s \in Scans, ScanOK(c, a, p, st, re, s, n)
  PROVE  /\ Renewed(s) \in Scans /\ ScanOK(c, a, p, st, re, Renewed(s), n)
         /\ Renewed(s).from = s.from /\ Renewed(s).missing = s.missing
         /\ Renewed(s).below = s.below \/ Renewed(s).baseline = None
<1>1. s.baseline # Infinite \/ s.from # None
  BY InfiniteIs, PointsAssumption DEF ScanOK, NewScan
<1> DEFINE t == Renewed(s)
<1>2. CASE s.baseline = Infinite
  <2>1. /\ t \in Scans /\ t.from = s.from /\ t.missing = s.missing /\ t.baseline = None /\ t.below = None
        /\ t.retry = s.missing /\ t.next = s.from /\ t.seen = s.seen
    BY <1>1, <1>2 DEF Renewed, Scans
  <2> HIDE DEF t
  <2>2. s.from = Place(c, a, p, n) /\ Within(c, s, n) /\ Grounded(c, s) /\ Judged(c, s, st) /\ Behind(s, re)
    BY <1>1, <1>2 DEF ScanOK
  <2>3. s.from \in Nat /\ s.next = s.from
    BY <1>1, <1>2, <2>2 DEF Grounded, Scans
  <2>4. Within(c, t, n)
    BY <2>1, <2>2 DEF Within
  <2>5. Grounded(c, t)
    BY <2>1, InfiniteIs, PointsAssumption DEF Grounded
  <2>6. Judged(c, t, st)
    <3>1. \A e \in t.seen : e \in Nat
      BY <2>1, NumbersAssumption DEF Scans
    <3> QED BY <2>1, <2>3, <3>1 DEF Judged
  <2>7. Behind(t, re)
    BY <2>1, <2>2, <2>3 DEF Behind
  <2> QED BY <1>1, <1>2, <2>1, <2>2, <2>4, <2>5, <2>6, <2>7 DEF ScanOK, t
<1>3. CASE s.baseline # Infinite
  <2>1. /\ t \in Scans /\ t = [s EXCEPT !.retry = @ \union s.missing]
        /\ t.from = s.from /\ t.missing = s.missing /\ t.baseline = s.baseline /\ t.below = s.below
        /\ t.retry = s.retry \union s.missing /\ t.next = s.next /\ t.seen = s.seen
    BY <1>3 DEF Renewed, Scans
  <2>2. CASE s.from = None
    <3>1. t = s
      BY <2>1, <2>2 DEF ScanOK, NewScan
    <3> QED BY <2>1, <3>1, <2>2
  <2>3. CASE s.from # None
    <3> HIDE DEF t
    <3>2. s.from = Place(c, a, p, n) /\ Within(c, s, n) /\ Grounded(c, s) /\ Judged(c, s, st) /\ Behind(s, re)
      BY <2>3 DEF ScanOK
    <3>4. Within(c, t, n)
      BY <2>1, <3>2 DEF Within
    <3>5. Grounded(c, t)
      BY <2>1, <3>2 DEF Grounded
    <3>6. Judged(c, t, st)
      BY <2>1, <3>2 DEF Judged
    <3>7. Behind(t, re)
      BY <2>1, <3>2 DEF Behind
    <3> QED BY <2>3, <2>1, <3>2, <3>4, <3>5, <3>6, <3>7 DEF ScanOK, t
  <2> QED BY <2>2, <2>3
<1> QED BY <1>2, <1>3

-----------------------------------------------------------------------------
(* A slice takes its baseline.                                             *)

LEMMA PlaceIn ==
  ASSUME NEW c \in Seq(Entry), NEW a \in Points, NEW p \in Nat, NEW n \in 0 .. Len(c)
  PROVE  Place(c, a, p, n) \in Nat \union {None}
<1>1. CASE a # None
  BY <1>1, PointsAssumption DEF Place
<1>2. CASE a = None /\ n > p
  <2>1. p + 1 \in 1 .. n
    BY <1>2
  <2>2. c[p + 1].exchange \in Nat
    BY <2>1, ShowsIn
  <2> QED BY <1>2, <2>2 DEF Place
<1>3. CASE a = None /\ ~ (n > p)
  BY <1>3 DEF Place
<1> QED BY <1>1, <1>2, <1>3

LEMMA BelowIs ==
  ASSUME NEW es \in SUBSET Numbers, NEW from \in Nat
  PROVE  LET below == Below(es, from)
         IN  below # None => below \in es /\ below \in Nat /\ below < from
<1> DEFINE earlier == {e \in es : e < from}
<1>1. earlier \in SUBSET Nat /\ IsFiniteSet(earlier)
  BY NumbersAssumption, FS_Subset
<1>2. earlier # {} => Max(earlier) \in earlier
  <2> HIDE DEF earlier
  <2> QED BY <1>1, MaxIs
<1> QED BY <1>1, <1>2 DEF Below

(* A scan that is placed and has the baseline of what it reads. *)
Ready(c, a, p, st, re, s, n) ==
  /\ s \in Scans /\ s.from \in Nat /\ s.from = Place(c, a, p, n)
  /\ s.below = Below(Shows(c, n), s.from) /\ s.baseline # None
  /\ Within(c, s, n) /\ Grounded(c, s) /\ Judged(c, s, st) /\ Behind(s, re)

LEMMA PlacedOK ==
  ASSUME NEW c \in Seq(Entry), NEW a \in Points, NEW p \in Nat, NEW n \in 0 .. Len(c),
         NEW st \in BOOLEAN, NEW re \in BOOLEAN, NEW s \in Scans, ScanOK(c, a, p, st, re, s, n),
         NEW from, from = Place(c, a, p, n), from # None, NEW t, t = Placed(s, from)
  PROVE  /\ t \in Scans /\ t.from = from /\ from \in Nat
         /\ Within(c, t, n) /\ Grounded(c, t) /\ Judged(c, t, st) /\ Behind(t, re)
         /\ t = s \/ (t.missing = {} /\ t.baseline = None)
<1>1. from \in Nat
  BY PlaceIn
<1>2. CASE s.from = None
  <2>1. s = NewScan
    BY <1>2 DEF ScanOK
  <2>6. s.missing = {} /\ s.seen = {}
    BY <2>1 DEF NewScan
  <2>7. s.from # from /\ t = [s EXCEPT !.from = from, !.baseline = None, !.below = None, !.retry = {}, !.next = from]
    BY <1>2 DEF Placed
  <2>2. /\ t \in Scans /\ t.from = from /\ t.missing = {} /\ t.baseline = None /\ t.below = None
        /\ t.retry = {} /\ t.seen = {} /\ t.next = from
    BY <1>1, <2>6, <2>7 DEF Scans
  <2> HIDE DEF NewScan
  <2>3. Within(c, t, n)
    BY <2>2 DEF Within
  <2>4. Grounded(c, t)
    BY <2>2, InfiniteIs, PointsAssumption DEF Grounded
  <2>5. Judged(c, t, st) /\ Behind(t, re)
    BY <1>1, <2>2 DEF Judged, Behind
  <2> QED BY <1>1, <2>2, <2>3, <2>4, <2>5
<1>3. CASE s.from # None
  <2>1. s.from = from /\ t = s
    BY <1>3 DEF ScanOK, Placed
  <2> QED BY <1>1, <1>3, <2>1 DEF ScanOK
<1> QED BY <1>2, <1>3

LEMMA BasedOK ==
  ASSUME capture \in Seq(Entry), NEW n \in 0 .. Len(capture), NEW st \in BOOLEAN, NEW re0 \in BOOLEAN,
         NEW re \in BOOLEAN, re0 => re, NEW bounded,
         NEW s \in Scans, s.from \in Nat, Within(capture, s, n), Grounded(capture, s), Judged(capture, s, st), Behind(s, re0),
         NEW below, below = Below(Shows(capture, n), s.from), NeedsBaseline(s, below),
         NEW t, t = Based(s, below, bounded)
  PROVE  /\ t \in Scans /\ t.from = s.from /\ t.below = below /\ t.baseline # None
         /\ Within(capture, t, n) /\ Grounded(capture, t) /\ Judged(capture, t, st)
         /\ (s.baseline # None /\ s.missing # {} => re) => Behind(t, re)
<1> DEFINE readable == below = None \/ Readable(below, bounded)
<1>1. Shows(capture, n) \in SUBSET Numbers /\ Numbers \in SUBSET Nat
  BY ShowsIn, NumbersAssumption
<1>2. below = None \/ (below \in Shows(capture, n) /\ below \in Nat /\ below < s.from /\ below \in Numbers)
  BY <1>1, BelowIs
<1>3. Shows(capture, n) \subseteq Shows(capture, Len(capture))
  BY ShowsMore
<1>4. below # None => Count(below) = Carries(capture, below)
  BY DEF Count, EntryOf, Carries
<1>5. below # None => Carries(capture, below) \in Nat /\ Carries(capture, below) < Infinite
  BY <1>2, <1>3, CarriesIn
<1>6. Infinite \in Nat /\ Infinite # 0
  BY InfiniteIs
<1>7. /\ t.from = s.from /\ t.below = below /\ t.seen = s.seen
      /\ t.baseline = IF below = None THEN 0 ELSE IF readable THEN Carries(capture, below) ELSE Infinite
      /\ t.next = IF s.baseline # None THEN s.from ELSE s.next
      /\ t.retry = IF s.baseline # None THEN {} ELSE s.retry
      /\ t.missing = IF below = None THEN s.missing ELSE IF readable THEN s.missing \ {below} ELSE s.missing \union {below}
      /\ t = [from |-> t.from, baseline |-> t.baseline, below |-> t.below, retry |-> t.retry, next |-> t.next,
              seen |-> t.seen, missing |-> t.missing]
  BY <1>4 DEF Based, Scans
<1> HIDE DEF readable
<1>8. t.baseline \in 0 .. Infinite
  BY <1>5, <1>6, <1>7
<1>9. t.next = s.from
  BY <1>7 DEF Grounded
<1>10. t.retry \in SUBSET Numbers /\ t.missing \in SUBSET Numbers /\ t.seen \in SUBSET Numbers
  BY <1>2, <1>7 DEF Scans
<1>11. t \in Scans
  BY <1>2, <1>7, <1>8, <1>9, <1>10 DEF Scans
<1>12. Within(capture, t, n)
  BY <1>2, <1>7 DEF Within
<1>13. Grounded(capture, t)
  <2>1. t.baseline = Infinite => below # None /\ ~ readable
    BY <1>5, <1>6, <1>7
  <2>2. t.baseline = Infinite => t.below \in t.missing
    BY <2>1, <1>7
  <2>3. t.baseline # Infinite => t.baseline = IF t.below = None THEN 0 ELSE Carries(capture, t.below)
    BY <1>7
  <2> QED BY <2>2, <2>3, <1>7, <1>9 DEF Grounded
<1>14. Judged(capture, t, st)
  <2>1. \A e \in t.seen : e \in Nat
    BY <1>1, <1>10
  <2> QED BY <2>1, <1>7, <1>9 DEF Judged
<1>15. ASSUME s.baseline # None /\ s.missing # {} => re PROVE Behind(t, re)
  <2> SUFFICES ASSUME ~ re, NEW e \in t.retry \union t.missing PROVE e < t.next
    BY DEF Behind
  <2>1. \A x \in s.retry \union s.missing : x < s.next
    BY DEF Behind
  <2>2. (e = below /\ below # None) \/ e \in s.retry \union s.missing
    BY <1>7
  <2>3. CASE s.baseline = None
    <3>1. s.next = s.from
      BY <2>3 DEF Grounded
    <3> QED BY <2>1, <2>2, <3>1, <1>2, <1>9
  <2>4. CASE s.baseline # None
    <3>1. s.missing = {} /\ t.retry = {}
      BY <2>4, <1>7, <1>15
    <3>2. e = below /\ below # None
      BY <3>1, <1>7
    <3> QED BY <3>2, <1>2, <1>9
  <2> QED BY <2>3, <2>4
<1>16. t.baseline # None
  BY <1>8, PointsAssumption
<1> QED BY <1>7, <1>11, <1>12, <1>13, <1>14, <1>15, <1>16

LEMMA RelevantOK ==
  ASSUME NEW c \in Seq(Entry), NEW n \in 0 .. Len(c), NEW st \in BOOLEAN, NEW re \in BOOLEAN,
         NEW s \in Scans, s.from \in Nat, Within(c, s, n), Grounded(c, s), Judged(c, s, st),
         NEW t, t = Relevant(s)
  PROVE  /\ t \in Scans /\ t.from = s.from /\ t.below = s.below /\ t.baseline = s.baseline
         /\ Within(c, t, n) /\ Grounded(c, t) /\ Judged(c, t, st)
         /\ Behind(s, re) => Behind(t, re)
<1>1. /\ t \in Scans /\ t.from = s.from /\ t.below = s.below /\ t.baseline = s.baseline
      /\ t.next = s.next /\ t.seen = s.seen
      /\ t.retry = {e \in s.retry : e >= s.from \/ e = s.below}
      /\ t.missing = {e \in s.missing : e >= s.from \/ e = s.below}
  BY DEF Relevant, Scans
<1>2. Within(c, t, n)
  BY <1>1 DEF Within
<1>3. Grounded(c, t)
  BY <1>1 DEF Grounded
<1>4. Judged(c, t, st)
  <2>1. \A e \in s.seen : e \in Nat
    BY NumbersAssumption DEF Scans
  <2>2. \A e \in s.seen : s.from <= e => e >= s.from
    BY <2>1
  <2>3. t.next >= t.from
    BY <1>1 DEF Judged
  <2>4. t.next > t.from => \A e \in t.seen : e < t.next
    BY <1>1 DEF Judged
  <2>5. ASSUME st, NEW e \in t.seen \ t.retry, t.from <= e, e < t.next
        PROVE  Carries(c, e) <= t.baseline \/ e \in t.missing
    <3>1. e >= s.from /\ e \in s.seen \ s.retry
      BY <2>5, <2>2, <1>1
    <3>2. Carries(c, e) <= s.baseline \/ e \in s.missing
      BY <2>5, <3>1, <1>1 DEF Judged
    <3> QED BY <3>1, <3>2, <1>1
  <2> QED BY <2>3, <2>4, <2>5 DEF Judged
<1>5. Behind(s, re) => Behind(t, re)
  BY <1>1 DEF Behind
<1> QED BY <1>1, <1>2, <1>3, <1>4, <1>5

LEMMA LateOK ==
  ASSUME NEW c \in Seq(Entry), NEW n \in 0 .. Len(c), NEW st \in BOOLEAN, NEW re \in BOOLEAN,
         NEW s \in Scans, s.from \in Nat, Within(c, s, n), Grounded(c, s), Judged(c, s, st),
         NEW t, t = WithLate(s, Shows(c, n))
  PROVE  /\ t \in Scans /\ t.from = s.from /\ t.below = s.below /\ t.baseline = s.baseline
         /\ t.next = s.next /\ t.missing = s.missing
         /\ Within(c, t, n) /\ Grounded(c, t) /\ Judged(c, t, st) /\ (Behind(s, re) => Behind(t, re))
         /\ \A e \in t.seen : e < t.next
         /\ \A e \in Shows(c, n) : e >= t.from /\ e < t.next => e \in t.seen
<1> DEFINE kept == IF s.next <= s.from THEN {} ELSE s.seen
           late == {e \in Shows(c, n) : e >= s.from /\ e < s.next /\ e \notin kept}
<1>0. Shows(c, n) \in SUBSET Numbers /\ \A e \in Shows(c, n) : e \in Nat
  BY ShowsIn
<1>1. s.next \in Nat /\ s.next >= s.from /\ kept \in SUBSET s.seen /\ \A e \in kept : e < s.next
  BY DEF Judged, Scans
<1>2. late \in SUBSET Shows(c, n) /\ \A e \in late : e < s.next /\ e \notin kept
  OBVIOUS
<1>3. \A e \in Shows(c, n) : e >= s.from /\ e < s.next => e \in kept \union late
  OBVIOUS
<1>4. t = [s EXCEPT !.seen = kept \union late, !.retry = @ \union late]
  BY DEF WithLate
<1> HIDE DEF kept, late
<1>5. /\ t \in Scans /\ t.from = s.from /\ t.below = s.below /\ t.baseline = s.baseline
      /\ t.next = s.next /\ t.missing = s.missing
      /\ t.seen = kept \union late /\ t.retry = s.retry \union late
  BY <1>0, <1>1, <1>2, <1>4 DEF Scans
<1>6. Within(c, t, n)
  BY <1>1, <1>2, <1>5 DEF Within
<1>7. Grounded(c, t)
  BY <1>5 DEF Grounded
<1>8. Behind(s, re) => Behind(t, re)
  BY <1>2, <1>5 DEF Behind
<1>9. \A e \in t.seen : e < t.next
  BY <1>1, <1>2, <1>5
<1>10. Judged(c, t, st)
  <2>1. ASSUME st, NEW e \in t.seen \ t.retry, t.from <= e, e < t.next
        PROVE  Carries(c, e) <= t.baseline \/ e \in t.missing
    <3>1. e \in s.seen \ s.retry
      BY <1>1, <1>5
    <3> QED BY <2>1, <3>1, <1>5 DEF Judged
  <2> QED BY <2>1, <1>1, <1>5, <1>9 DEF Judged
<1> QED BY <1>3, <1>5, <1>6, <1>7, <1>8, <1>9, <1>10

-----------------------------------------------------------------------------
(* A slice reads on.                                                       *)

(* What it finds is an increase, the first but for the missing ones; at its end there is none but those. *)
ReadsOn(s, n, st, re, r) ==
  /\ r.scan \in Scans /\ r.scan.from = s.from /\ r.scan.below = s.below /\ r.scan.baseline = s.baseline
  /\ Within(capture, r.scan, n) /\ Grounded(capture, r.scan)
  /\ Judged(capture, r.scan, st /\ r.kind # "found") /\ Behind(r.scan, re)
  /\ r.kind = "found" => /\ r.exchange \in Shows(capture, n) /\ r.exchange >= s.from
                         /\ Carries(capture, r.exchange) > s.baseline
  /\ r.kind = "found" /\ st /\ ~ re =>
       \A e \in Shows(capture, n) : /\ e >= s.from /\ Carries(capture, e) > s.baseline
                                    /\ e < r.exchange
                                    => e \in r.scan.missing
  /\ r.kind = "end" /\ st =>
       \A e \in Shows(capture, n) : /\ e >= s.from /\ Carries(capture, e) > s.baseline
                                    => e \in r.scan.missing

LEMMA ReadOn ==
  ASSUME capture \in Seq(Entry), NEW n \in 0 .. Len(capture), NEW st \in BOOLEAN, NEW re \in BOOLEAN,
         NEW bounded, NEW s \in Scans, s.from \in Nat, s.baseline \in Nat, s.baseline # Infinite,
         Within(capture, s, n), Grounded(capture, s), Judged(capture, s, st), Behind(s, re),
         \A e \in s.seen : e < s.next,
         \A e \in Shows(capture, n) : e >= s.from /\ e < s.next => e \in s.seen,
         NEW r, NEW retried \in SUBSET Again(s), NEW passed \in SUBSET Ahead(s, Shows(capture, n)),
         Reached(s, Shows(capture, n), bounded, r, retried, passed)
  PROVE  ReadsOn(s, n, st, re, r)
<1> DEFINE read == retried \union passed
           t == r.scan
           entries == Shows(capture, n)
<1>1. entries \in SUBSET Numbers /\ Numbers \in SUBSET Nat /\ \A e \in entries : e \in Nat
  BY ShowsIn, NumbersAssumption
<1>2. \A e \in entries : Count(e) = Carries(capture, e) /\ Carries(capture, e) \in Nat
  <2>1. entries \subseteq Shows(capture, Len(capture))
    BY ShowsMore
  <2> QED BY <2>1, CarriesIn DEF Count, EntryOf, Carries
<1>3. /\ passed # {} => retried = Again(s)
      /\ t = [s EXCEPT !.retry = Again(s) \ retried, !.next = t.next, !.seen = @ \union passed,
                       !.missing = {e \in @ \union read : e \in read => ~ Readable(e, bounded)}]
      /\ IF passed = {} THEN t.next = s.next ELSE t.next \in {e + 1 : e \in passed} /\ \A e \in passed : e < t.next
      /\ r.kind \in {"found", "more", "end"}
      /\ IF r.kind = "found"
         THEN /\ Hit(s, r.exchange, bounded)
              /\ \A e \in read : Hit(s, e, bounded) => e = r.exchange
              /\ \/ r.exchange \in retried /\ passed = {} /\ \A e \in Again(s) : e < r.exchange => e \in retried
                 \/ r.exchange \in passed /\ \A e \in Ahead(s, entries) : e < r.exchange => e \in passed
         ELSE r.exchange = None /\ \A e \in read : ~ Hit(s, e, bounded)
      /\ r.kind = "end" => retried = Again(s) /\ passed = Ahead(s, entries)
  BY DEF Reached
<1>4. retried \in SUBSET s.retry /\ retried \in SUBSET entries /\ passed \in SUBSET entries /\ read \in SUBSET entries
  BY DEF Again, Ahead, Within
<1>5. \A e \in passed : e >= s.next
  BY DEF Ahead
<1>6. \A e \in retried : e >= s.from
  BY DEF Again
<1>7. s.next \in Nat /\ s.from \in Nat /\ s.next >= s.from
  BY DEF Scans, Judged
<1> HIDE DEF read, t, entries
<1>8. t.next \in Nat /\ t.next >= s.next
  <2>1. CASE passed = {}
    BY <2>1, <1>3, <1>7
  <2>2. CASE passed # {}
    <3>3. PICK x \in passed : t.next = x + 1
      BY <2>2, <1>3
    <3>5. x \in Nat /\ x >= s.next
      BY <1>4, <1>1, <1>5
    <3> QED BY <3>3, <3>5, <1>7
  <2> QED BY <2>1, <2>2
<1>9. /\ t \in Scans /\ t.from = s.from /\ t.below = s.below /\ t.baseline = s.baseline
      /\ t.retry = Again(s) \ retried /\ t.seen = s.seen \union passed
      /\ t.missing = {e \in s.missing \union read : e \in read => ~ Readable(e, bounded)}
  <2>1. Again(s) \in SUBSET Numbers /\ passed \in SUBSET Numbers /\ read \in SUBSET Numbers
    BY <1>1, <1>4 DEF Again, Scans
  <2>2. t = [s EXCEPT !.retry = Again(s) \ retried, !.next = t.next, !.seen = @ \union passed,
                      !.missing = {e \in @ \union read : e \in read => ~ Readable(e, bounded)}]
    BY <1>3
  <2>3. /\ t.from = s.from /\ t.below = s.below /\ t.baseline = s.baseline
        /\ t.retry = Again(s) \ retried /\ t.seen = s.seen \union passed
        /\ t.missing = {e \in s.missing \union read : e \in read => ~ Readable(e, bounded)}
        /\ t = [from |-> t.from, baseline |-> t.baseline, below |-> t.below, retry |-> t.retry, next |-> t.next,
                 seen |-> t.seen, missing |-> t.missing]
    BY <2>2 DEF Scans
  <2>4. t.retry \in SUBSET Numbers /\ t.seen \in SUBSET Numbers /\ t.missing \in SUBSET Numbers
    BY <2>1, <2>3 DEF Scans
  <2>5. t \in Scans
    BY <2>3, <2>4, <1>8 DEF Scans
  <2> QED BY <2>3, <2>5
<1>10. Within(capture, t, n)
  <2>1. Again(s) \subseteq s.retry
    BY DEF Again
  <2> QED BY <2>1, <1>4, <1>9 DEF Within, entries
<1>11. Grounded(capture, t)
  <2>1. s.baseline \notin {None, Infinite}
    BY PointsAssumption
  <2> QED BY <2>1, <1>9 DEF Grounded
<1>12. Behind(t, re)
  <2> SUFFICES ASSUME ~ re, NEW e \in t.retry \union t.missing PROVE e < t.next
    BY DEF Behind
  <2>1. \A x \in s.retry \union s.missing : x < s.next
    BY DEF Behind
  <2>2. e \in s.retry \/ e \in s.missing \/ e \in passed
    BY <1>9, <1>4 DEF Again, read
  <2>3. CASE e \in passed
    BY <2>3, <1>3
  <2>4. CASE e \in s.retry \/ e \in s.missing
    <3>1. e < s.next /\ e \in Nat
      BY <2>1, <2>4, <1>1 DEF Scans
    <3> QED BY <3>1, <1>7, <1>8
  <2> QED BY <2>2, <2>3, <2>4
<1>13. ASSUME NEW e \in read, ~ Hit(s, e, bounded) PROVE Carries(capture, e) <= s.baseline \/ e \in t.missing
  <2>1. CASE Readable(e, bounded)
    <3>1. ~ (Carries(capture, e) > s.baseline)
      BY <2>1, <1>13, <1>2, <1>4 DEF Hit
    <3>2. Carries(capture, e) \in Nat
      BY <1>2, <1>4
    <3> QED BY <3>1, <3>2
  <2>2. CASE ~ Readable(e, bounded)
    BY <2>2, <1>9
  <2> QED BY <2>1, <2>2
<1>14. \A e \in s.missing \ read : e \in t.missing
  BY <1>9
<1>15. ASSUME NEW e \in s.seen \ s.retry, st, e >= s.from, e < s.next
       PROVE  Carries(capture, e) <= s.baseline \/ e \in t.missing
  <2>1. e \in Nat /\ s.from <= e
    BY <1>1, <1>15 DEF Scans
  <2>2. Carries(capture, e) <= s.baseline \/ e \in s.missing
    BY <1>15, <2>1 DEF Judged
  <2>3. e \notin passed
    BY <2>1, <1>5, <1>7, <1>15
  <2>4. e \notin read
    BY <2>3, <1>4, <1>15 DEF read
  <2> QED BY <2>2, <2>4, <1>14
<1>16. Judged(capture, t, st /\ r.kind # "found")
  <2>1. t.next >= t.from
    BY <1>7, <1>8, <1>9
  <2>2. \A e \in t.seen : e < t.next
    <3>1. ASSUME NEW e \in s.seen PROVE e < t.next
      <4>1. e \in Nat /\ e < s.next
        BY <1>1 DEF Scans
      <4> QED BY <4>1, <1>7, <1>8
    <3>2. \A e \in passed : e < t.next
      BY <1>3
    <3> QED BY <3>1, <3>2, <1>9
  <2>3. ASSUME st, r.kind # "found", NEW e \in t.seen \ t.retry, t.from <= e, e < t.next
        PROVE  Carries(capture, e) <= t.baseline \/ e \in t.missing
    <3>1. \A x \in read : ~ Hit(s, x, bounded)
      BY <2>3, <1>3
    <3>2. CASE e \in read
      BY <3>1, <3>2, <1>13, <1>9
    <3>3. CASE e \notin read
      <4>1. e \in s.seen /\ e \in Nat
        BY <3>3, <2>3, <1>9, <1>1 DEF read, Scans
      <4>2. e >= s.from /\ e < s.next
        BY <4>1, <2>3, <1>9
      <4>3. e \notin s.retry
        BY <4>2, <3>3, <2>3, <1>9 DEF read, Again
      <4> QED BY <4>1, <4>2, <4>3, <2>3, <1>15, <1>9
    <3> QED BY <3>2, <3>3
  <2> QED BY <2>1, <2>2, <2>3 DEF Judged
<1>17. r.kind = "found" => r.exchange \in read /\ r.exchange \in entries /\ r.exchange >= s.from /\ Carries(capture, r.exchange) > s.baseline
  <2> SUFFICES ASSUME r.kind = "found"
               PROVE  r.exchange \in read /\ r.exchange \in entries /\ r.exchange >= s.from /\ Carries(capture, r.exchange) > s.baseline
    OBVIOUS
  <2>1. r.exchange \in retried \/ r.exchange \in passed
    BY <1>3
  <2>2. r.exchange \in read /\ r.exchange \in entries /\ r.exchange \in Nat
    BY <2>1, <1>4, <1>1 DEF read
  <2>3. r.exchange >= s.from
    <3>1. CASE r.exchange \in retried
      BY <3>1, <1>6
    <3>2. CASE r.exchange \in passed
      BY <3>2, <2>2, <1>5, <1>7
    <3> QED BY <2>1, <3>1, <3>2
  <2>4. Hit(s, r.exchange, bounded)
    BY <1>3
  <2> QED BY <2>2, <2>3, <2>4, <1>2 DEF Hit
<1>18. ASSUME r.kind = "found", st, ~ re, NEW e \in entries, e >= s.from, Carries(capture, e) > s.baseline, e < r.exchange
       PROVE  e \in t.missing
  <2>6. e \in Nat /\ r.exchange \in Nat
    BY <1>17, <1>18, <1>1
  <2>7. Carries(capture, e) \in Nat
    BY <1>18, <1>2
  <2>1. e \in Nat /\ r.exchange \in Nat /\ e # r.exchange /\ ~ (Carries(capture, e) <= s.baseline)
    BY <2>6, <2>7, <1>18
  <2>2. CASE e \in read
    <3>1. ~ Hit(s, e, bounded)
      BY <2>1, <2>2, <1>18, <1>3
    <3> QED BY <2>1, <2>2, <3>1, <1>13
  <2>3. CASE e \notin read /\ e \in s.retry
    <3>1. e \in Again(s)
      BY <2>3, <1>18 DEF Again
    <3>2. e < s.next
      BY <2>3, <1>18 DEF Behind
    <3>3. retried # Again(s)
      BY <2>3, <3>1 DEF read
    <3>4. passed = {}
      BY <3>3, <1>3
    <3>5. \A x \in Again(s) : x < r.exchange => x \in retried
      BY <3>4, <1>18, <1>3
    <3> QED BY <3>1, <3>5, <1>18, <2>3 DEF read
  <2>4. CASE e \notin read /\ e \notin s.retry /\ e < s.next
    <3>1. e \in s.seen
      BY <2>4, <1>18 DEF entries
    <3> QED BY <2>1, <2>4, <3>1, <1>18, <1>15
  <2>5. CASE e \notin read /\ ~ (e < s.next)
    <3>1. e \in Ahead(s, entries)
      BY <2>1, <2>5, <1>18, <1>7 DEF Ahead
    <3>2. CASE r.exchange \in passed
      <4>1. e \in passed
        BY <3>1, <3>2, <1>18, <1>3, <1>17
      <4> QED BY <4>1, <2>5 DEF read
    <3>3. CASE r.exchange \notin passed
      <4>1. r.exchange \in s.retry
        BY <3>3, <1>17, <1>18, <1>4 DEF read
      <4>2. r.exchange < s.next
        BY <4>1, <1>18 DEF Behind
      <4> QED BY <4>2, <2>1, <2>5, <1>18, <1>7
    <3> QED BY <3>2, <3>3
  <2> QED BY <2>2, <2>3, <2>4, <2>5
<1>19. ASSUME r.kind = "end", st, NEW e \in entries, e >= s.from, Carries(capture, e) > s.baseline
       PROVE  e \in t.missing
  <2>1. e \in Nat /\ ~ (Carries(capture, e) <= s.baseline)
    BY <1>19, <1>1, <1>2
  <2>2. CASE e \in read
    <3>1. ~ Hit(s, e, bounded)
      BY <2>2, <1>19, <1>3
    <3> QED BY <2>1, <2>2, <3>1, <1>13
  <2>3. CASE e \notin read
    <3>1. e \notin Again(s) /\ e \notin Ahead(s, entries)
      BY <2>3, <1>19, <1>3 DEF read
    <3>2. e \notin s.retry /\ e < s.next
      BY <3>1, <2>1, <1>19, <1>7 DEF Again, Ahead
    <3>3. e \in s.seen
      BY <3>2, <1>19 DEF entries
    <3> QED BY <2>1, <3>2, <3>3, <1>19, <1>15
  <2> QED BY <2>2, <2>3
<1> QED BY <1>9, <1>10, <1>11, <1>12, <1>16, <1>17, <1>18, <1>19 DEF t, entries, ReadsOn

Taken(s, from, entries, bounded) ==
  LET placed == Placed(s, from)
      below == Below(entries, from)
  IN Relevant(IF NeedsBaseline(placed, below) THEN Based(placed, below, bounded) ELSE placed)

LEMMA TakenOK ==
  ASSUME capture \in Seq(Entry), at \in Points, prior \in Nat, NEW n \in 0 .. Len(capture),
         NEW st \in BOOLEAN, NEW re0 \in BOOLEAN, NEW re \in BOOLEAN, re0 => re,
         NEW s \in Scans, ScanOK(capture, at, prior, st, re0, s, n), NEW bounded,
         NEW from, from = Place(capture, at, prior, n), from # None,
         NEW entries, entries = Shows(capture, n), NEW b, b = Taken(s, from, entries, bounded)
  PROVE  /\ b \in Scans /\ b.from = from /\ from \in Nat /\ b.below = Below(entries, from) /\ b.baseline # None
         /\ Within(capture, b, n) /\ Grounded(capture, b) /\ Judged(capture, b, st)
         /\ (s.from # None /\ s.missing # {} /\ s.baseline # None /\ Below(entries, from) # s.below => re) => Behind(b, re)
<1> DEFINE placed == Placed(s, from)
           below == Below(entries, from)
           taken == IF NeedsBaseline(placed, below) THEN Based(placed, below, bounded) ELSE placed
<1>1. /\ placed \in Scans /\ placed.from = from /\ from \in Nat
      /\ Within(capture, placed, n) /\ Grounded(capture, placed) /\ Judged(capture, placed, st) /\ Behind(placed, re0)
      /\ placed = s \/ (placed.missing = {} /\ placed.baseline = None)
  BY PlacedOK
<1>2. b = Relevant(taken)
  BY DEF Taken
<1>3. below = Below(Shows(capture, n), placed.from)
  BY <1>1
<1> DEFINE newer == s.from # None /\ s.missing # {} /\ s.baseline # None /\ below # s.below
<1> HIDE DEF placed, below, newer
<1>4. CASE NeedsBaseline(placed, below)
  <2>1. placed.baseline # None /\ placed.missing # {} => newer
    <3> SUFFICES ASSUME placed.baseline # None, placed.missing # {} PROVE newer
      OBVIOUS
    <3>1. placed = s /\ s.from # None
      BY <1>1, PointsAssumption
    <3>2. s.below # below
      BY <3>1, <1>4 DEF NeedsBaseline
    <3> QED BY <3>1, <3>2 DEF newer
  <2>2. taken = Based(placed, below, bounded)
    BY <1>4
  <2> HIDE DEF taken
  <2>3. /\ taken \in Scans /\ taken.from = placed.from /\ taken.below = below /\ taken.baseline # None
        /\ Within(capture, taken, n) /\ Grounded(capture, taken) /\ Judged(capture, taken, st)
        /\ (placed.baseline # None /\ placed.missing # {} => re) => Behind(taken, re)
    <3>1. placed \in Scans /\ placed.from \in Nat
      BY <1>1
    <3>2. Within(capture, placed, n) /\ Grounded(capture, placed) /\ Judged(capture, placed, st) /\ Behind(placed, re0)
      BY <1>1
    <3> QED BY <3>1, <3>2, <1>3, <1>4, <2>2, BasedOK
  <2>4. /\ b \in Scans /\ b.from = taken.from /\ b.below = taken.below /\ b.baseline = taken.baseline
        /\ Within(capture, b, n) /\ Grounded(capture, b) /\ Judged(capture, b, st)
        /\ Behind(taken, re) => Behind(b, re)
    BY <1>1, <1>2, <2>3, RelevantOK
  <2> QED BY <1>1, <2>1, <2>3, <2>4 DEF below, newer
<1>5. CASE ~ NeedsBaseline(placed, below)
  <2>1. taken = placed /\ placed.baseline # None /\ placed.below = below
    BY <1>5 DEF NeedsBaseline
  <2> HIDE DEF taken
  <2>2. Behind(placed, re)
    BY <1>1 DEF Behind
  <2>4. /\ b \in Scans /\ b.from = placed.from /\ b.below = placed.below /\ b.baseline = placed.baseline
        /\ Within(capture, b, n) /\ Grounded(capture, b) /\ Judged(capture, b, st)
        /\ Behind(placed, re) => Behind(b, re)
    BY <1>1, <1>2, <2>1, RelevantOK
  <2> QED BY <1>1, <2>1, <2>2, <2>4 DEF below
<1> QED BY <1>4, <1>5

LEMMA RuleIs ==
  ASSUME capture \in Seq(Entry), NEW n \in 0 .. Len(capture), NEW s \in Scans, Grounded(capture, s),
         s.baseline \notin {None, Infinite}, s.below = Below(Shows(capture, n), s.from)
  PROVE  RuleOf(capture, n, s.from) = {e \in Shows(capture, n) : e >= s.from /\ Carries(capture, e) > s.baseline}
BY DEF RuleOf, Grounded

(* What a slice of a scan returns, when the store takes records (st) and newer baselines are noted (re). *)
SliceSays(n, st, re, r) ==
  /\ r.scan \in Scans /\ r.kind \in {"found", "more", "end"} /\ r.exchange \in Numbers \union {None}
  /\ ScanOK(capture, at, prior, st /\ r.kind # "found", re, r.scan, n)
  /\ r.kind = "found" =>
       /\ From(n) # None /\ r.exchange \in RuleOf(capture, n, From(n))
       /\ st /\ ~ re => \A e \in RuleOf(capture, n, From(n)) : e < r.exchange => e \in r.scan.missing
  /\ r.kind = "end" /\ st /\ From(n) # None /\ r.scan.missing = {} => RuleOf(capture, n, From(n)) = {}

LEMMA SliceOK ==
  ASSUME capture \in Seq(Entry), at \in Points, prior \in Nat, NEW n \in 0 .. Len(capture),
         NEW st \in BOOLEAN, NEW re0 \in BOOLEAN, NEW re \in BOOLEAN, re0 => re,
         NEW s \in Scans, ScanOK(capture, at, prior, st, re0, s, n), prior <= Len(capture),
         NEW reads \in Nat \ {0}, NEW bounded \in BOOLEAN, NEW r, r = Slice(s, n, reads, bounded),
         s.from # None /\ s.missing # {} /\ s.baseline # None /\ r.scan.below # s.below => re
  PROVE  SliceSays(n, st, re, r)
<1> DEFINE entries == Shows(capture, n)
           from == Place(capture, at, prior, n)
           b == Taken(s, from, entries, bounded)
           late == WithLate(b, entries)
           below == Below(entries, from)
           left == IF NeedsBaseline(Placed(s, from), below) /\ below # None THEN reads - 1 ELSE reads
<1>1. Entries(n) = entries /\ From(n) = from
  BY DEF Entries, Shows, From, Place
<1>2. r = IF from = None THEN [kind |-> "end", exchange |-> None, scan |-> s]
          ELSE IF b.baseline = Infinite THEN [kind |-> "end", exchange |-> None, scan |-> b]
          ELSE Advanced(late, entries, left, bounded)
  BY <1>1 DEF Slice, Taken
<1>3. entries \in SUBSET Numbers /\ \A e \in entries : e \in Nat
  BY ShowsIn
<1>4. left \in Nat
  OBVIOUS
<1> HIDE DEF left
<1>5. CASE from = None
  <2>1. r.scan = s /\ r.kind = "end" /\ r.exchange = None
    BY <1>2, <1>5
  <2>2. ScanOK(capture, at, prior, st, re, s, n)
    BY MoreShown
  <2>3. (st /\ r.kind # "found") = st
    BY <2>1
  <2> QED BY <2>1, <2>2, <2>3, <1>1, <1>5 DEF SliceSays
<1>6. CASE from # None
  <2> HIDE DEF entries, from, b, below
  <2>1. /\ b \in Scans /\ b.from = from /\ from \in Nat /\ b.below = below /\ b.baseline # None
        /\ Within(capture, b, n) /\ Grounded(capture, b) /\ Judged(capture, b, st)
        /\ (s.from # None /\ s.missing # {} /\ s.baseline # None /\ below # s.below => re) => Behind(b, re)
    BY <1>6, TakenOK DEF entries, from, b, below
  <2>2. CASE b.baseline = Infinite
    <3>1. r.scan = b /\ r.kind = "end" /\ r.exchange = None
      BY <1>2, <1>6, <2>2
    <3>2. s.from # None /\ s.missing # {} /\ s.baseline # None /\ below # s.below => re
      BY <3>1, <2>1
    <3>3. Behind(b, re)
      BY <3>2, <2>1
    <3>4. ScanOK(capture, at, prior, st, re, b, n)
      BY <1>6, <2>1, <3>3 DEF ScanOK, from
    <3>5. b.missing # {}
      BY <2>1, <2>2 DEF Grounded
    <3>6. (st /\ r.kind # "found") = st
      BY <3>1
    <3> QED BY <2>1, <3>1, <3>4, <3>5, <3>6 DEF SliceSays
  <2>3. CASE b.baseline # Infinite
    <3>1. late \in Scans /\ late.from = b.from /\ late.below = b.below /\ late.baseline = b.baseline
      BY <2>1, LateOK DEF entries
    <3>2. r = Advanced(late, entries, left, bounded)
      BY <1>2, <1>6, <2>3
    <3> HIDE DEF late
    <3>3. PICK retried \in SUBSET Again(late), passed \in SUBSET Ahead(late, entries) :
            Reached(late, entries, bounded, r, retried, passed)
      BY <1>3, <1>4, <2>1, <3>1, <3>2, AdvancedIs
    <3>4. r.scan.below = late.below
      BY <3>1, <3>3 DEF Reached, Scans
    <3>5. s.from # None /\ s.missing # {} /\ s.baseline # None /\ below # s.below => re
      BY <2>1, <3>1, <3>4
    <3>6. Behind(b, re)
      BY <3>5, <2>1
    <3>7. /\ Within(capture, late, n) /\ Grounded(capture, late) /\ Judged(capture, late, st) /\ Behind(late, re)
          /\ \A e \in late.seen : e < late.next
          /\ \A e \in entries : e >= late.from /\ e < late.next => e \in late.seen
      BY <2>1, <3>6, LateOK DEF entries, late
    <3>8. late.baseline \in Nat /\ late.baseline \notin {None, Infinite}
      <4>1. late.baseline \in 0 .. Infinite
        BY <3>1, <2>1 DEF Scans
      <4> QED BY <4>1, <3>1, <2>1, <2>3
    <3>9. /\ r.scan \in Scans /\ r.scan.from = late.from /\ r.scan.below = late.below /\ r.scan.baseline = late.baseline
          /\ Within(capture, r.scan, n) /\ Grounded(capture, r.scan)
          /\ Judged(capture, r.scan, st /\ r.kind # "found") /\ Behind(r.scan, re)
          /\ r.kind = "found" => /\ r.exchange \in entries /\ r.exchange >= late.from
                                 /\ Carries(capture, r.exchange) > late.baseline
          /\ r.kind = "found" /\ st /\ ~ re =>
               \A e \in entries : /\ e >= late.from /\ Carries(capture, e) > late.baseline
                                  /\ e < r.exchange
                                  => e \in r.scan.missing
          /\ r.kind = "end" /\ st =>
               \A e \in entries : /\ e >= late.from /\ Carries(capture, e) > late.baseline
                                  => e \in r.scan.missing
      <4>1. late.from \in Nat /\ late.baseline # Infinite
        BY <2>1, <3>1, <3>8
      <4>2. passed \in SUBSET Ahead(late, Shows(capture, n)) /\ Reached(late, Shows(capture, n), bounded, r, retried, passed)
        BY <3>3 DEF entries
      <4>3. \A e \in Shows(capture, n) : e >= late.from /\ e < late.next => e \in late.seen
        BY <3>7 DEF entries
      <4>4. ReadsOn(late, n, st, re, r)
        BY <3>1, <3>3, <3>7, <3>8, <4>1, <4>2, <4>3, ReadOn
      <4> QED BY <4>4 DEF entries, ReadsOn
    <3>10. RuleOf(capture, n, from) = {e \in entries : e >= late.from /\ Carries(capture, e) > late.baseline}
      <4>1. late.below = Below(Shows(capture, n), late.from)
        BY <2>1, <3>1 DEF below, entries
      <4> QED BY <4>1, <3>1, <3>7, <3>8, <2>1, RuleIs DEF entries
    <3>11. r.kind \in {"found", "more", "end"} /\ r.exchange \in Numbers \union {None}
      BY <3>3, <3>9, <1>3 DEF Reached
    <3>12. ScanOK(capture, at, prior, st /\ r.kind # "found", re, r.scan, n)
      <4>1. r.scan.from = Place(capture, at, prior, n) /\ r.scan.from # None
        BY <1>6, <2>1, <3>1, <3>9 DEF from
      <4> QED BY <4>1, <3>9 DEF ScanOK
    <3>13. r.kind = "found" => r.exchange \in RuleOf(capture, n, from)
      BY <3>9, <3>10
    <3>14. r.kind = "found" /\ st /\ ~ re => \A e \in RuleOf(capture, n, from) : e < r.exchange => e \in r.scan.missing
      BY <3>9, <3>10
    <3>15. r.kind = "end" /\ st /\ r.scan.missing = {} => RuleOf(capture, n, from) = {}
      BY <3>9, <3>10
    <3> QED BY <1>1, <1>6, <3>9, <3>11, <3>12, <3>13, <3>14, <3>15 DEF SliceSays
  <2> QED BY <2>2, <2>3
<1> QED BY <1>5, <1>6

-----------------------------------------------------------------------------
(* Every step.                                                             *)

LEMMA RuleMore ==
  ASSUME NEW c \in Seq(Entry), NEW x \in Entry, x.exchange \notin Shows(c, Len(c)), Distinct(c),
         NEW n \in 0 .. Len(c), NEW from \in Nat
  PROVE  RuleOf(Append(c, x), n, from) = RuleOf(c, n, from)
<1> DEFINE d == Append(c, x)
           before == Below(Shows(c, n), from)
<1>1. /\ Len(c) \in Nat
      /\ Shows(d, n) = Shows(c, n)
      /\ \A e \in Shows(c, Len(c)) : Carries(d, e) = Carries(c, e)
  BY AppendOne
<1>2. Shows(c, n) \subseteq Shows(c, Len(c))
  BY <1>1, ShowsMore
<1>3. \A e \in Shows(c, n) : Carries(d, e) = Carries(c, e)
  BY <1>1, <1>2
<1>4. before # None => before \in Shows(c, n)
  BY ShowsIn, BelowIs
<1> HIDE DEF d
<1> QED BY <1>1, <1>3, <1>4 DEF RuleOf, d

LEMMA AnswerMore ==
  ASSUME NEW c \in Seq(Entry), NEW x \in Entry, x.exchange \notin Shows(c, Len(c)), Distinct(c),
         NEW st, NEW re, NEW an \in Answers, an.upTo <= Len(c), AnswerOK(c, st, re, an)
  PROVE  AnswerOK(Append(c, x), st, re, an)
<1>1. an.upTo \in 0 .. Len(c)
  BY DEF Answers
<1>2. an.from # None => RuleOf(Append(c, x), an.upTo, an.from) = RuleOf(c, an.upTo, an.from)
  BY <1>1, RuleMore DEF Answers
<1> QED BY <1>2 DEF AnswerOK

LEMMA AnswerStays ==
  ASSUME NEW c, NEW st \in BOOLEAN, NEW re \in BOOLEAN, NEW an, AnswerOK(c, st, re, an),
         NEW st2 \in BOOLEAN, st2 => st, NEW re2 \in BOOLEAN, re => re2
  PROVE  AnswerOK(c, st2, re2, an)
BY DEF AnswerOK

LEMMA SearchStep ==
  ASSUME IInv, NEW fresh \in BOOLEAN, NEW reads \in Nat \ {0}, NEW bounded \in BOOLEAN,
         Search(fresh, reads, bounded)
  PROVE  /\ scan' \in Scans /\ replaced' \in BOOLEAN
         /\ snapshot' \in 0 .. Len(capture) \union {None}
         /\ consumed' \in Seq(Numbers) /\ Len(consumed') <= 1
         /\ answer' \in Answers /\ answer'.upTo <= Len(capture)
         /\ ScanOK(capture, at, prior, storing, replaced', scan', Covered(capture, snapshot'))
         /\ AnswerOK(capture, storing, replaced', answer')
<1> DEFINE renews == fresh \/ snapshot = None
           upTo == IF renews THEN Len(capture) ELSE snapshot
           s == IF renews THEN Renewed(scan) ELSE scan
<1>1. /\ capture \in Seq(Entry) /\ at \in Points /\ prior \in 0 .. Len(capture) /\ Len(capture) \in Nat
      /\ scan \in Scans /\ snapshot \in 0 .. Len(capture) \union {None}
      /\ storing \in BOOLEAN /\ replaced \in BOOLEAN /\ consumed \in Seq(Numbers) /\ Len(consumed) <= 1
      /\ answer \in Answers /\ answer.upTo <= Len(capture)
      /\ ScanOK(capture, at, prior, storing, replaced, scan, Covered(capture, snapshot))
      /\ AnswerOK(capture, storing, replaced, answer)
  BY DEF IInv, ScanTypeOK, ScanInv
<1>2. consumed = << >>
  BY DEF Search
<1>3. PICK r : /\ r = Slice(s, upTo, reads, bounded)
               /\ replaced' = (replaced \/ (scan.from # None /\ scan.missing # {} /\ r.scan.below # scan.below))
               /\ IF r.kind = "more"
                  THEN scan' = r.scan /\ snapshot' = upTo /\ UNCHANGED <<consumed, answer>>
                  ELSE Ended(r, upTo)
  BY DEF Search
<1> DEFINE m == Covered(capture, snapshot)
<1>4. m \in 0 .. Len(capture) /\ upTo \in 0 .. Len(capture) /\ m <= upTo
  BY <1>1, PointsAssumption DEF Covered
<1>5. ScanOK(capture, at, prior, storing, replaced, scan, upTo)
  <2> HIDE DEF m, upTo
  <2>1. ScanOK(capture, at, prior, storing, replaced, scan, m)
    BY <1>1 DEF m
  <2> QED BY <2>1, <1>1, <1>4, MoreShown
<1>6. /\ s \in Scans /\ ScanOK(capture, at, prior, storing, replaced, s, upTo)
      /\ s.from = scan.from /\ s.missing = scan.missing
      /\ s.below = scan.below \/ s.baseline = None
  BY <1>1, <1>5, RenewedOK
<1> HIDE DEF s, upTo, renews, m
<1>7. PICK re \in BOOLEAN : re = replaced'
  <2>1. replaced' \in BOOLEAN
    BY <1>1, <1>3
  <2> QED BY <2>1
<1>8. (replaced => re) /\ (s.from # None /\ s.missing # {} /\ s.baseline # None /\ r.scan.below # s.below => re)
  BY <1>1, <1>3, <1>6, <1>7
<1>9. /\ r.scan \in Scans /\ r.kind \in {"found", "more", "end"} /\ r.exchange \in Numbers \union {None}
      /\ ScanOK(capture, at, prior, storing /\ r.kind # "found", re, r.scan, upTo)
      /\ r.kind = "found" =>
           /\ From(upTo) # None /\ r.exchange \in RuleOf(capture, upTo, From(upTo))
           /\ storing /\ ~ re => \A e \in RuleOf(capture, upTo, From(upTo)) : e < r.exchange => e \in r.scan.missing
      /\ r.kind = "end" /\ storing /\ From(upTo) # None /\ r.scan.missing = {} => RuleOf(capture, upTo, From(upTo)) = {}
  <2>1. prior \in Nat /\ prior <= Len(capture)
    BY <1>1
  <2>2. r = Slice(s, upTo, reads, bounded)
    BY <1>3
  <2>3. SliceSays(upTo, storing, re, r)
    BY <1>1, <1>4, <1>6, <1>8, <2>1, <2>2, SliceOK
  <2> QED BY <2>3 DEF SliceSays
<1>10. From(upTo) \in Nat \union {None}
  <2>1. From(upTo) = Place(capture, at, prior, upTo)
    BY DEF From, Place
  <2> QED BY <2>1, <1>1, <1>4, PlaceIn
<1>11. upTo \in Nat /\ upTo <= Len(capture) /\ upTo # None /\ Len(capture) # None
  BY <1>1, <1>4, PointsAssumption
<1>12. CASE r.kind = "more"
  <2>1. scan' = r.scan /\ snapshot' = upTo /\ consumed' = consumed /\ answer' = answer
    BY <1>3, <1>12
  <2>2. Covered(capture, snapshot') = upTo
    BY <2>1, <1>11 DEF Covered
  <2>3. (storing /\ r.kind # "found") = storing
    BY <1>1, <1>12
  <2>4. ScanOK(capture, at, prior, storing, replaced', scan', Covered(capture, snapshot'))
    BY <2>1, <2>2, <2>3, <1>7, <1>9
  <2>5. AnswerOK(capture, storing, replaced', answer')
    BY <2>1, <1>1, <1>7, <1>8, AnswerStays
  <2> QED BY <2>1, <2>4, <2>5, <1>1, <1>4, <1>7, <1>9
<1>13. CASE r.kind # "more"
  <2> DEFINE status == IF r.kind = "found" THEN IF storing THEN "observed" ELSE "incomplete"
                       ELSE IF r.scan.missing # {} THEN "incomplete" ELSE "not-observed"
  <2>1. /\ snapshot' = None
        /\ IF r.kind = "found" /\ storing THEN consumed' = Append(consumed, r.exchange) /\ scan' = NewScan
           ELSE consumed' = consumed /\ scan' = r.scan
        /\ answer' = [status |-> status, exchange |-> r.exchange, from |-> From(upTo), upTo |-> upTo,
                      missing |-> r.scan.missing]
    BY <1>3, <1>13 DEF Ended
  <2>2. status \in Statuses
    BY DEF Statuses
  <2>3. /\ status = "observed" => r.kind = "found" /\ storing
        /\ status = "not-observed" => r.kind = "end" /\ r.scan.missing = {}
    BY <1>9, <1>13
  <2> HIDE DEF status
  <2>4. /\ answer'.status = status /\ answer'.exchange = r.exchange /\ answer'.from = From(upTo)
        /\ answer'.upTo = upTo /\ answer'.missing = r.scan.missing
    BY <2>1
  <2>5. answer' \in Answers /\ answer'.upTo <= Len(capture)
    BY <2>1, <2>2, <1>9, <1>10, <1>11 DEF Answers, Scans
  <2>6. AnswerOK(capture, storing, replaced', answer')
    BY <2>3, <2>4, <1>7, <1>9 DEF AnswerOK
  <2>7. Covered(capture, snapshot') = Len(capture) /\ snapshot' \in 0 .. Len(capture) \union {None}
    BY <2>1 DEF Covered
  <2>8. CASE r.kind = "found" /\ storing
    <3>1. consumed' = Append(consumed, r.exchange) /\ scan' = NewScan
      BY <2>1, <2>8
    <3>2. r.exchange \in Numbers
      <4>1. r.exchange # None
        <5>1. r.exchange \in Shows(capture, upTo)
          BY <1>9, <2>8 DEF RuleOf
        <5> QED BY <5>1, <1>1, <1>4, ShowsIn, PointsAssumption
      <4> QED BY <4>1, <1>9
    <3>3. consumed' \in Seq(Numbers) /\ Len(consumed') <= 1
      BY <3>1, <3>2, <1>2, <1>1
    <3> QED BY <3>1, <3>3, <2>5, <2>6, <2>7, <1>7, NewScanIs, NewScanOK
  <2>9. CASE ~ (r.kind = "found" /\ storing)
    <3>1. consumed' = consumed /\ scan' = r.scan
      BY <2>1, <2>9
    <3>2. (storing /\ r.kind # "found") = storing
      BY <1>1, <2>9
    <3>3. ScanOK(capture, at, prior, storing, re, r.scan, upTo)
      BY <3>2, <1>9
    <3>4. ScanOK(capture, at, prior, storing, re, r.scan, Len(capture))
      <4>1. Len(capture) \in 0 .. Len(capture)
        BY <1>1
      <4> QED BY <3>3, <4>1, <1>1, <1>4, <1>9, <1>11, MoreShown
    <3> QED BY <3>1, <3>4, <2>5, <2>6, <2>7, <1>1, <1>7, <1>9
  <2> QED BY <2>8, <2>9
<1> QED BY <1>12, <1>13

LEMMA ScanInitOK == ScanInit => IInv
<1> SUFFICES ASSUME ScanInit PROVE IInv
  OBVIOUS
<1>1. PICK first \in SUBSET Captured, point \in Points, carried \in [Numbers -> Counts] :
        /\ capture = [i \in 1 .. Cardinality(first) |->
                        [exchange |-> Ascending(first)[i], count |-> carried[Ascending(first)[i]], large |-> FALSE]]
        /\ at = point /\ prior = Cardinality(first)
  BY DEF ScanInit
<1>2. first \in SUBSET Numbers /\ first \in SUBSET Nat /\ IsFiniteSet(first)
  BY NumbersAssumption, FS_Subset
<1> DEFINE s == Ascending(first)
           n == Cardinality(first)
<1>3. n \in Nat
  BY <1>2, FS_CardinalityType
<1>4. Lists(s, n, first)
  <2>1. PICK z : Lists(z, n, first)
    BY <1>2, ListExists
  <2>2. \E q \in [1 .. n -> first] :
          /\ {q[i] : i \in 1 .. n} = first
          /\ \A i, j \in 1 .. n : i < j => q[i] < q[j]
    BY <2>1 DEF Lists
  <2>3. /\ s \in [1 .. n -> first]
        /\ {s[i] : i \in 1 .. n} = first
        /\ \A i, j \in 1 .. n : i < j => s[i] < s[j]
    BY <2>2, Zenon DEF Ascending
  <2> QED BY <2>3 DEF Lists
<1> HIDE DEF s, n
<1>5. capture = [i \in 1 .. n |-> [exchange |-> s[i], count |-> carried[s[i]], large |-> FALSE]] /\ prior = n
  BY <1>1 DEF s, n
<1>6. \A i \in 1 .. n : s[i] \in Numbers /\ s[i] \in Nat /\ carried[s[i]] \in Counts
  BY <1>2, <1>4 DEF Lists
<1>7. capture \in Seq(Entry) /\ Len(capture) = n
  <2>1. capture \in [1 .. n -> Entry]
    BY <1>5, <1>6 DEF Entry
  <2>2. DOMAIN capture = 1 .. n
    BY <1>5
  <2> QED BY <2>1, <2>2, <1>3
<1>8. \A i \in 1 .. n : capture[i].exchange = s[i]
  BY <1>5
<1>9. Distinct(capture)
  <2> SUFFICES ASSUME NEW i \in 1 .. n, NEW j \in 1 .. n, s[i] = s[j] PROVE i = j
    BY <1>7, <1>8 DEF Distinct
  <2>1. ~ (s[i] < s[j]) /\ ~ (s[j] < s[i])
    BY <1>6
  <2>2. ~ (i < j) /\ ~ (j < i)
    BY <2>1, <1>4 DEF Lists
  <2> QED BY <2>2, <1>3
<1>10. /\ lost = {} /\ faults \in FaultSets /\ scan = NewScan /\ snapshot = None /\ check = "none"
       /\ closing = FALSE /\ storing = TRUE /\ consumed = << >> /\ concluded = "none"
       /\ answer = NoAnswer /\ replaced = FALSE /\ at \in Points
  BY <1>1 DEF ScanInit
<1>11. NoAnswer \in Answers /\ NoAnswer.upTo = 0 /\ NoAnswer.status = "none"
  BY DEF NoAnswer, Answers, Statuses
<1>12. ScanTypeOK
  <2>1. prior \in 0 .. Len(capture) /\ answer.upTo <= Len(capture)
    BY <1>3, <1>5, <1>7, <1>10, <1>11
  <2>2. scan \in Scans /\ answer \in Answers
    BY <1>10, <1>11, NewScanIs
  <2>3. snapshot \in 0 .. Len(capture) \union {None} /\ check \in {"none", "asked", "reading"} /\ concluded \in Statuses
    BY <1>10 DEF Statuses
  <2>4. {closing, storing, replaced} \subseteq BOOLEAN /\ lost \subseteq Numbers /\ consumed \in Seq(Numbers)
    <3>1. << >> \in Seq(Numbers)
      OBVIOUS
    <3>2. closing \in BOOLEAN /\ storing \in BOOLEAN /\ replaced \in BOOLEAN
      BY <1>10
    <3> QED BY <3>1, <3>2, <1>10
  <2> QED BY <2>1, <2>2, <2>3, <2>4, <1>7, <1>10 DEF ScanTypeOK
<1>13. ScanInv
  BY <1>9, <1>10, NewScanOK DEF ScanInv
<1>14. AnswerOK(capture, storing, replaced, answer) /\ Len(consumed) <= 1
  BY <1>10, <1>11 DEF AnswerOK
<1> QED BY <1>12, <1>13, <1>14 DEF IInv

LEMMA ScanNextOK == IInv /\ [ScanNext]_scanVars => IInv'
<1> SUFFICES ASSUME IInv, [ScanNext]_scanVars PROVE IInv'
  OBVIOUS
<1>1. /\ capture \in Seq(Entry) /\ lost \subseteq Numbers /\ at \in Points /\ faults \in FaultSets
      /\ prior \in 0 .. Len(capture) /\ Len(capture) \in Nat
      /\ scan \in Scans /\ snapshot \in 0 .. Len(capture) \union {None}
      /\ check \in {"none", "asked", "reading"}
      /\ closing \in BOOLEAN /\ storing \in BOOLEAN /\ replaced \in BOOLEAN
      /\ consumed \in Seq(Numbers) /\ Len(consumed) <= 1 /\ concluded \in Statuses
      /\ answer \in Answers /\ answer.upTo <= Len(capture)
      /\ Distinct(capture)
      /\ ScanOK(capture, at, prior, storing, replaced, scan, Covered(capture, snapshot))
      /\ AnswerOK(capture, storing, replaced, answer)
  BY DEF IInv, ScanTypeOK, ScanInv
<1>2. Covered(capture, snapshot) \in 0 .. Len(capture)
  BY <1>1, PointsAssumption DEF Covered
(* What a step that leaves the capture alone has to keep. *)
<1> DEFINE Kept == /\ scan' \in Scans /\ replaced' \in BOOLEAN /\ snapshot' \in 0 .. Len(capture) \union {None}
                   /\ consumed' \in Seq(Numbers) /\ Len(consumed') <= 1
                   /\ answer' \in Answers /\ answer'.upTo <= Len(capture)
                   /\ ScanOK(capture, at, prior, storing', replaced', scan', Covered(capture, snapshot'))
                   /\ AnswerOK(capture, storing', replaced', answer')
           Others == /\ UNCHANGED <<capture, faults, at, prior>> /\ lost' \subseteq Numbers
                     /\ check' \in {"none", "asked", "reading"} /\ closing' \in BOOLEAN /\ storing' \in BOOLEAN
                     /\ concluded' \in Statuses
<1>3. Kept /\ Others => IInv'
  <2> SUFFICES ASSUME Kept, Others PROVE IInv'
    OBVIOUS
  <2>1. capture' = capture /\ at' = at /\ prior' = prior /\ faults' = faults
    OBVIOUS
  <2>2. ScanTypeOK'
    BY <1>1, <2>1 DEF ScanTypeOK
  <2>3. ScanInv'
    BY <1>1, <2>1 DEF ScanInv
  <2> QED BY <2>1, <2>2, <2>3 DEF IInv
<1>4. UNCHANGED <<scan, snapshot, consumed, answer, replaced, storing>> => Kept
  BY <1>1
<1>5. ASSUME NEW fresh \in BOOLEAN, NEW reads \in Nat \ {0}, NEW bounded \in BOOLEAN,
             Search(fresh, reads, bounded), UNCHANGED storing
      PROVE  Kept
  BY <1>5, SearchStep
<1>6. Known /\ UNCHANGED storing => Kept
  <2> SUFFICES ASSUME Known, UNCHANGED storing PROVE Kept
    OBVIOUS
  <2>1. /\ consumed # << >> /\ scan' = NewScan /\ snapshot' = None /\ consumed' = consumed /\ replaced' = replaced
        /\ answer' = [NoAnswer EXCEPT !.status = "known", !.exchange = consumed[Len(consumed)]]
    BY DEF Known
  <2>2. consumed[Len(consumed)] \in Numbers
    BY <1>1, <2>1
  <2>3. answer' \in Answers /\ answer'.upTo = 0 /\ answer'.status = "known"
    BY <2>1, <2>2 DEF NoAnswer, Answers, Statuses
  <2>4. AnswerOK(capture, storing', replaced', answer')
    BY <2>3 DEF AnswerOK
  <2> QED BY <1>1, <2>1, <2>3, <2>4, NewScanIs, NewScanOK
<1>7. [NoAnswer EXCEPT !.status = "incomplete"] \in Answers /\ [NoAnswer EXCEPT !.status = "incomplete"].upTo = 0
      /\ [NoAnswer EXCEPT !.status = "incomplete"].status = "incomplete"
  BY DEF NoAnswer, Answers, Statuses
<1>8. ASSUME NEW bounded \in BOOLEAN, NotIndexed(bounded), UNCHANGED storing PROVE Kept
  <2>1. /\ scan' = Renewed(scan) /\ snapshot' = None /\ consumed' = consumed /\ replaced' = replaced
        /\ answer' = [NoAnswer EXCEPT !.status = "incomplete"] /\ storing' = storing
    BY <1>8 DEF NotIndexed
  <2>2. Covered(capture, snapshot') = Len(capture) /\ Len(capture) \in 0 .. Len(capture)
    BY <2>1, <1>1 DEF Covered
  <2>3. ScanOK(capture, at, prior, storing, replaced, scan, Len(capture))
    BY <1>1, <1>2, <2>2, MoreShown
  <2>4. Renewed(scan) \in Scans /\ ScanOK(capture, at, prior, storing, replaced, Renewed(scan), Len(capture))
    BY <1>1, <2>3, RenewedOK
  <2>5. AnswerOK(capture, storing', replaced', answer')
    BY <2>1, <1>7 DEF AnswerOK
  <2> QED BY <1>1, <1>7, <2>1, <2>2, <2>4, <2>5
<1>9. CASE Capture
  <2>2. PICK x \in Entry : x.exchange \notin Shows(capture, Len(capture)) /\ capture' = Append(capture, x)
    <3>1. PICK e \in Numbers \ Entries(Len(capture)), k \in Counts, huge \in BOOLEAN :
            capture' = Append(capture, [exchange |-> e, count |-> k, large |-> huge])
      BY <1>9 DEF Capture
    <3>3. e \notin Shows(capture, Len(capture))
      BY <3>1 DEF Entries, Shows
    <3>4. [exchange |-> e, count |-> k, large |-> huge] \in Entry
      BY <3>1 DEF Entry
    <3> QED BY <3>1, <3>3, <3>4
  <2>4. UNCHANGED <<lost, faults, at, prior, scan, snapshot, check, closing, storing, consumed, concluded, answer, replaced>>
    BY <1>9 DEF Capture
  <2>12. PICK d : d = Append(capture, x)
    OBVIOUS
  <2>5. d \in Seq(Entry) /\ Len(d) = Len(capture) + 1 /\ Distinct(d)
    BY <1>1, <2>2, <2>12, AppendOne
  <2>13. Len(d) \in Nat /\ Len(capture) <= Len(d)
    BY <2>5, <1>1
  <2> DEFINE m == Covered(capture, snapshot)
             n == Covered(d, snapshot)
  <2>7. m \in 0 .. Len(d) /\ n \in 0 .. Len(d) /\ m <= n
    <3>1. m \in Nat /\ m <= Len(capture)
      BY <1>2, <1>1
    <3>2. CASE snapshot = None
      BY <3>1, <3>2, <2>13, <1>1 DEF Covered
    <3>3. CASE snapshot # None
      <4>1. n = m
        BY <3>3 DEF Covered
      <4> QED BY <3>1, <4>1, <2>13, <1>1
    <3> QED BY <3>2, <3>3
  <2>6. ScanOK(d, at, prior, storing, replaced, scan, m)
    BY <1>1, <1>2, <2>2, <2>12, OneMore
  <2> HIDE DEF m, n
  <2>14. prior \in 0 .. Len(d)
    BY <1>1, <2>13
  <2>8. ScanOK(d, at, prior, storing, replaced, scan, n)
    BY <1>1, <2>5, <2>6, <2>7, <2>14, MoreShown
  <2>9. AnswerOK(d, storing, replaced, answer)
    BY <1>1, <2>2, <2>12, AnswerMore
  <2>15. capture' = d
    BY <2>2, <2>12
  <2>10. ScanTypeOK'
    <3>1. snapshot \in 0 .. Len(d) \union {None}
      BY <1>1, <2>13
    <3>2. answer.upTo <= Len(d)
      BY <1>1, <2>13 DEF Answers
    <3> QED BY <1>1, <2>4, <2>5, <2>14, <2>15, <3>1, <3>2 DEF ScanTypeOK
  <2>11. ScanInv'
    BY <2>4, <2>5, <2>8, <2>15 DEF ScanInv, n
  <2> QED BY <1>1, <2>4, <2>9, <2>10, <2>11, <2>15 DEF IInv
<1>10. CASE BodyLost
  <2>1. lost' \subseteq Numbers
    <3>1. Entries(Len(capture)) \subseteq Numbers
      <4>1. Len(capture) \in 0 .. Len(capture) /\ Entries(Len(capture)) = Shows(capture, Len(capture))
        BY <1>1 DEF Entries, Shows
      <4> QED BY <1>1, <4>1, ShowsIn
    <3> QED BY <1>1, <1>10, <3>1 DEF BodyLost
  <2> QED BY <1>1, <1>3, <1>4, <1>10, <2>1 DEF BodyLost
<1>11. CASE BodyBack
  BY <1>1, <1>3, <1>4, <1>11 DEF BodyBack
<1>12. CASE Check
  BY <1>1, <1>3, <1>4, <1>12 DEF Check, input
<1>13. CASE Step
  <2>1. UNCHANGED <<capture, lost, faults, at, prior, closing, storing, concluded>>
    BY <1>13 DEF Step, input
  <2>2. Kept /\ check' \in {"none", "asked", "reading"}
    <3>1. CASE Known /\ check' = "none"
      BY <2>1, <3>1, <1>6
    <3>2. CASE NotIndexed(TRUE) /\ check' = "none"
      BY <2>1, <3>2, <1>8
    <3>3. ASSUME NEW reads \in 1 .. SliceRequests, Search(check = "asked", reads, TRUE),
                 IF snapshot' = None THEN check' = "none" ELSE check' \in {"reading", "none"}
          PROVE  Kept /\ check' \in {"none", "asked", "reading"}
      <4>1. reads \in Nat \ {0} /\ (check = "asked") \in BOOLEAN
        BY SliceAssumption
      <4>2. Kept
        BY <2>1, <3>3, <4>1, <1>5
      <4> QED BY <3>3, <4>2
    <3> QED BY <1>13, <3>1, <3>2, <3>3 DEF Step
  <2> QED BY <1>1, <1>3, <2>1, <2>2
<1>14. CASE CheckStops
  <2>1. /\ UNCHANGED <<capture, lost, faults, at, prior, scan, snapshot, closing, storing, consumed, concluded, replaced>>
        /\ check' = "none" /\ answer' = [NoAnswer EXCEPT !.status = "incomplete"]
    BY <1>14 DEF CheckStops, input
  <2>2. AnswerOK(capture, storing', replaced', answer')
    BY <2>1, <1>7 DEF AnswerOK
  <2> QED BY <1>1, <1>3, <1>7, <2>1, <2>2
<1>15. CASE Finish
  <2>1. UNCHANGED <<capture, lost, faults, at, prior, check, closing, storing>>
    BY <1>15 DEF Finish, input
  <2>2. Kept
    <3>1. CASE Known
      BY <2>1, <3>1, <1>6
    <3>2. CASE Search(TRUE, 2 * Cardinality(Numbers) + 1, FALSE)
      <4>1. 2 * Cardinality(Numbers) + 1 \in Nat \ {0}
        <5>1. Cardinality(Numbers) \in Nat
          BY NumbersAssumption, FS_CardinalityType
        <5> QED BY <5>1
      <4> QED BY <2>1, <3>2, <4>1, <1>5
    <3> QED BY <1>15, <3>1, <3>2 DEF Finish
  <2>3. concluded' \in Statuses
    <3>1. concluded' = IF storing THEN answer'.status ELSE concluded
      BY <1>15 DEF Finish
    <3> QED BY <2>2, <3>1, <1>1 DEF Answers
  <2> QED BY <1>1, <1>3, <2>1, <2>2, <2>3
<1>16. CASE BeginClose
  BY <1>1, <1>3, <1>4, <1>16 DEF BeginClose, input
<1>17. CASE StoreFails
  <2>1. /\ UNCHANGED <<capture, lost, faults, at, prior, scan, snapshot, check, closing, consumed, concluded, answer, replaced>>
        /\ storing' = FALSE
    BY <1>17 DEF StoreFails, input
  <2>3. storing' \in BOOLEAN /\ (storing' => storing)
    BY <2>1
  <2>2. /\ ScanOK(capture, at, prior, storing', replaced, scan, Covered(capture, snapshot))
        /\ AnswerOK(capture, storing', replaced, answer)
    BY <1>1, <1>2, <2>3, MoreShown, AnswerStays
  <2> QED BY <1>1, <1>3, <2>1, <2>2, <2>3
<1>18. CASE UNCHANGED scanVars
  BY <1>1, <1>3, <1>4, <1>18 DEF scanVars, input
<1> QED BY <1>9, <1>10, <1>11, <1>12, <1>13, <1>14, <1>15, <1>16, <1>17, <1>18 DEF ScanNext

LEMMA ScanCorrect == ScanSpec => []IInv
<1>1. ScanInit => IInv
  BY ScanInitOK
<1>2. IInv /\ [ScanNext]_scanVars => IInv'
  BY ScanNextOK
<1> QED BY <1>1, <1>2, PTL DEF ScanSpec

(* The state of the search keeps its types, for any exchanges, counts, checks and faults. *)
THEOREM ScanTypeCorrect == ScanSpec => []ScanTypeOK
<1>1. IInv => ScanTypeOK
  BY DEF IInv
<1> QED BY <1>1, ScanCorrect, PTL

LEMMA AnsweredIs == IInv /\ answer.from # None => Answered = RuleOf(capture, answer.upTo, answer.from)
BY DEF Answered, Increases, RuleOf, Entries, Shows, Count, EntryOf, Carries

(* A finding is an increase, the first but for those that could not be read, and it is recorded *)
(* once, for any capture, in any order, and any checks and closing searches (intervention.ts). *)
THEOREM TheFirstIsFound == ScanSpec => []FindingsAreFirst
<1>1. IInv => FindingsAreFirst
  BY AnsweredIs DEF IInv, AnswerOK, FindingsAreFirst
<1> QED BY <1>1, ScanCorrect, PTL

(* "Not observed" is said only when no request carries the message, for any capture and checks. *)
THEOREM NothingIsOverlooked == ScanSpec => []NegativesAreComplete
<1>1. IInv => NegativesAreComplete
  BY AnsweredIs DEF IInv, AnswerOK, NegativesAreComplete
<1> QED BY <1>1, ScanCorrect, PTL
===============================================================================
