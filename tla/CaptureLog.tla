-------------------------------- MODULE CaptureLog --------------------------------
(***************************************************************************)
(* The recording proxy's capture log (adapters/openai-proxy/capture-log.ts *)
(* and record.ts) over the asynchronous queue (storage/async-append.ts).   *)
(* An exchange is recorded as its request and, later, its end; each event  *)
(* refers to a body, which is queued for the blob store before the event   *)
(* is queued for the frame log.  The queue runs one operation at a time,   *)
(* one system call a step; a failed operation is counted and the next one  *)
(* runs.  A log that is opened again marks the exchanges it shows open.    *)
(*                                                                         *)
(* Each recording (a capture.started) numbers its exchanges from 1 again.  *)
(***************************************************************************)
EXTENDS FrameLog, FiniteSets

CONSTANTS
  Exchanges,   \* bound: the exchange numbers of a recording
  MaxOpens,    \* bound: how often the log is opened
  MaxFailures, \* bound: how many operations fail
  Faults       \* bound: which of AllFaults happen in the instance

ASSUME CaptureAssumption ==
  Exchanges \subseteq Nat /\ MaxOpens \in Nat /\ MaxFailures \in Nat

AllFaults == {"process ends", "machine stops", "write fails", "short write"}

VARIABLES
  log,      \* the frame log: events
  blobs,    \* the bodies stored, by the event that refers to them
  queue,    \* the operations queued, the first one running
  pc,       \* of the first operation: what it does next; or the log is closed
  failed,   \* the operations that failed, which are counted
  exchange, \* what the proxy knows of each exchange of this recording
  recorded, \* the events recorded since the log was opened
  opens     \* recordings so far

vars == <<log, blobs, queue, pc, failed, exchange, recorded, opens>>

Kinds == {"request", "ended", "interrupted"}
Events == [kind : Kinds, number : Exchanges, recording : 1 .. MaxOpens]
Operations == [to : {"blobs", "log"}, event : Events]
Steps == {"closed", "write", "sync"}

Event(kind, x, r) == [kind |-> kind, number |-> x, recording |-> r]
Frame(e) == [to |-> "log", event |-> e]
Body(e) == [to |-> "blobs", event |-> e]

Init ==
  /\ log = EmptyLog
  /\ blobs = {}
  /\ queue = << >>
  /\ pc = "closed"
  /\ failed = {}
  /\ exchange = [x \in Exchanges |-> "new"]
  /\ recorded = {}
  /\ opens = 0

-----------------------------------------------------------------------------
(* Opening.                                                                *)

Ends == {"ended", "interrupted"}

(* Mutant: a marker does not close its exchange. *)
OnlyEndsClose(s, x) ==
  \E i \in 1 .. Len(s) : /\ s[i].kind = "request" /\ s[i].number = x
                         /\ \A j \in i + 1 .. Len(s) : ~ (s[j].kind = "ended" /\ s[j].number = x)

(* The number is open: a request that no end of that number follows. *)
OpenIn(s, x) ==
  \E i \in 1 .. Len(s) : /\ s[i].kind = "request" /\ s[i].number = x
                         /\ \A j \in i + 1 .. Len(s) : ~ (s[j].kind \in Ends /\ s[j].number = x)

(* Mutant: the exchanges that were in flight are not looked for. *)
NothingToMark(s) == {}

ToMark(s) == {x \in Exchanges : OpenIn(s, x)}

(* The recording of the last request of that number. *)
LastRecording(s, x) ==
  LET requests == {i \in 1 .. Len(s) : s[i].kind = "request" /\ s[i].number = x}
  IN  s[CHOOSE i \in requests : \A j \in requests : j <= i].recording

Marker(s, x) == Event("interrupted", x, LastRecording(s, x))

(* The event store is opened, which cuts a torn tail, and a marker is      *)
(* queued for every open number.  A log sealed by a corrupt frame is still *)
(* written to: the queue does not ask the store.                           *)
Open ==
  /\ pc = "closed"
  /\ opens < MaxOpens
  /\ opens' = opens + 1
  /\ log' = IF log.rest = "torn" THEN CutTo(log, Len(log.frames)) ELSE log
  /\ LET open == ToMark(log.frames) IN
       \E order \in [1 .. Cardinality(open) -> open] :
         /\ \A x \in open : \E i \in 1 .. Cardinality(open) : order[i] = x
         /\ queue' = [i \in 1 .. Cardinality(open) |-> Frame(Marker(log.frames, order[i]))]
         /\ recorded' = {Marker(log.frames, x) : x \in open}
  /\ pc' = "write"
  /\ exchange' = [x \in Exchanges |-> "new"]
  /\ UNCHANGED <<blobs, failed>>

-----------------------------------------------------------------------------
(* Recording.                                                              *)

(* Mutant: the event is queued before the body it refers to. *)
EventFirst(e) == <<Frame(e), Body(e)>>

BodyFirst(e) == <<Body(e), Frame(e)>>

Record(e) ==
  /\ queue' = queue \o BodyFirst(e)
  /\ recorded' = recorded \union {e}
  /\ UNCHANGED <<log, blobs, pc, failed, opens>>

(* Exchanges start in the order of their numbers. *)
Request(x) ==
  /\ pc # "closed"
  /\ exchange[x] = "new"
  /\ \A y \in Exchanges : y < x => exchange[y] # "new"
  /\ exchange' = [exchange EXCEPT ![x] = "open"]
  /\ Record(Event("request", x, opens))

(* The response is complete, the upstream failed, or the client is gone,   *)
(* and then perhaps before the request was complete, which is not recorded.*)
End(x) ==
  /\ pc # "closed"
  /\ \/ exchange[x] = "open"
     \/ exchange[x] = "new" /\ \A y \in Exchanges : y < x => exchange[y] # "new"
  /\ exchange' = [exchange EXCEPT ![x] = "ended"]
  /\ Record(Event("ended", x, opens))

-----------------------------------------------------------------------------
(* The queue.                                                              *)

Running(to) == queue # << >> /\ queue[1].to = to

(* A body is written to a new file and synced, which then gets its name; a *)
(* body that is there already is left as it is.                            *)
StoreBody ==
  /\ pc = "write" /\ Running("blobs")
  /\ blobs' = blobs \union {queue[1].event}
  /\ queue' = Tail(queue)
  /\ UNCHANGED <<log, pc, failed, exchange, recorded, opens>>

Write ==
  /\ pc = "write" /\ Running("log")
  /\ log' \in Written(log, queue[1].event)
  /\ pc' = "sync"
  /\ UNCHANGED <<blobs, queue, failed, exchange, recorded, opens>>

Sync ==
  /\ pc = "sync"
  /\ log' = Synced(log)
  /\ queue' = Tail(queue)
  /\ pc' = "write"
  /\ UNCHANGED <<blobs, failed, exchange, recorded, opens>>

(* Mutant: a failure is not counted. *)
NextUncounted == queue' = Tail(queue) /\ pc' = "write" /\ UNCHANGED failed

(* Mutant: a failure stops the queue. *)
StopsQueue == queue' = queue /\ pc' = "stopped" /\ failed' = failed \union {queue[1]}

(* A failure is counted, and the next operation runs. *)
NextAfterFailure == queue' = Tail(queue) /\ pc' = "write" /\ failed' = failed \union {queue[1]}

(* The operation fails before it wrote anything, or its sync fails. *)
WriteFails ==
  /\ "write fails" \in Faults
  /\ pc \in {"write", "sync"} /\ queue # << >>
  /\ Cardinality(failed) < MaxFailures
  /\ NextAfterFailure
  /\ UNCHANGED <<log, blobs, exchange, recorded, opens>>

(* A part of the frame is written.  Nothing is cut: what the queue writes  *)
(* next is written behind it.                                              *)
ShortWrite ==
  /\ "short write" \in Faults
  /\ pc = "write" /\ Running("log")
  /\ Cardinality(failed) < MaxFailures
  /\ log' = HalfWritten(log)
  /\ NextAfterFailure
  /\ UNCHANGED <<blobs, exchange, recorded, opens>>

-----------------------------------------------------------------------------
(* Around the log.                                                         *)

Down ==
  /\ pc' = "closed"
  /\ queue' = << >>
  /\ recorded' = {}
  /\ exchange' = [x \in Exchanges |-> "new"]
  /\ UNCHANGED <<blobs, failed, opens>>

(* The log is flushed and closed, and the proxy stops. *)
Close ==
  /\ pc = "write" /\ queue = << >>
  /\ Down
  /\ UNCHANGED log

ProcessEnds ==
  /\ "process ends" \in Faults
  /\ pc # "closed"
  /\ Down
  /\ UNCHANGED log

MachineStops ==
  /\ "machine stops" \in Faults
  /\ Down
  /\ log' \in AfterStop(log)

Queue == StoreBody \/ Write \/ Sync \/ WriteFails \/ ShortWrite

Next ==
  \/ Open
  \/ \E x \in Exchanges : Request(x) \/ End(x)
  \/ Queue
  \/ Close \/ ProcessEnds \/ MachineStops

Spec == Init /\ [][Next]_vars

(* Every operation of the queue ends: the threadpool calls return, with an *)
(* error or without, and the event loop runs what follows.                 *)
FairSpec == Spec /\ WF_vars(Queue)

-----------------------------------------------------------------------------
(* Types of the state. *)
TypeOK ==
  /\ log \in Logs(Events)
  /\ log.synced <= Len(log.frames)
  /\ blobs \subseteq Events
  /\ queue \in Seq(Operations)
  /\ pc \in Steps
  /\ failed \subseteq Operations
  /\ exchange \in [Exchanges -> {"new", "open", "ended"}]
  /\ recorded \subseteq Events
  /\ opens \in 0 .. MaxOpens

(* An event that a reader finds refers to a body that is stored, or whose  *)
(* write was counted as failed, wherever the process or the machine        *)
(* stopped; a reader of the recording takes a missing body for tampering   *)
(* (cassette.ts 194).  Markers have no body.                               *)
BodiesBeforeEvents ==
  \A e \in Held(log.frames) : e.kind = "interrupted" \/ e \in blobs \/ Body(e) \in failed

(* A reader finds at most one end of an exchange, whatever failed, and     *)
(* however often its log was opened again: a marker is not repeated, and   *)
(* not written for an exchange whose end was recorded (capture-log.ts 77). *)
EndsOnce ==
  \A i, j \in 1 .. Len(log.frames) :
    /\ log.frames[i].kind \in Ends
    /\ log.frames[j].kind \in Ends
    /\ log.frames[i].number = log.frames[j].number
    /\ log.frames[i].recording = log.frames[j].recording
    => i = j

(* Everything recorded and not counted as failed is found by a reader once *)
(* the queue is idle, as long as no frame of the log is torn.              *)
Found == \A e \in recorded : e \in Held(log.frames) \/ Frame(e) \in failed
RecordedOrCounted == pc # "closed" /\ queue = << >> /\ log.rest = "none" => Found

(* A request that its own recording never ended, and no marker ended, is   *)
(* still open for the next open of the log, unless its marker was counted  *)
(* as failed (capture-log.ts 113).                                         *)
OpenStaysOpen ==
  \A e \in Held(log.frames) :
    /\ e.kind = "request"
    /\ \A f \in Held(log.frames) :
         ~ (f.kind \in Ends /\ f.number = e.number /\ f.recording = e.recording)
    /\ Frame([e EXCEPT !.kind = "interrupted"]) \notin failed
    => OpenIn(log.frames, e.number)

(* The markers of a recording that was cut off are right: none is missing  *)
(* for good, and none is written twice.                                    *)
MarkedOnce == EndsOnce /\ OpenStaysOpen

(* Whatever fails, the queue comes to rest: a failure never stops it       *)
(* (async-append.ts 77).                                                   *)
QueueDrains == []<>(queue = << >>)

(* What a comment of the code says and the code does not do: everything    *)
(* queued before a completed idle() is on disk (async-append.ts 7), where  *)
(* a reader finds it, or has failed.                                       *)
IdleMeansOnDisk == pc # "closed" /\ queue = << >> => Found
===============================================================================
