------------------------------ MODULE Attachment ------------------------------
(* The recorder of one Pi session (adapters/pi/attachment.ts, class            *)
(* PiSessionAttachmentV0): one process of Endophasia at a time opens the       *)
(* session's store, runs Pi on the session, records what Pi reports and what   *)
(* the session file holds, and derives the lifecycle from what it recorded.    *)
(*                                                                             *)
(* Code between two awaits runs at once, except that the process may die       *)
(* between two writes: an action that records leaves the events in todo, and   *)
(* they are ingested one by one before anything else happens. The store keeps  *)
(* what it acknowledged (EventStore), one attachment writes it (WriterLock),   *)
(* and a request is answered, or fails once its process is gone and its output *)
(* read or given up (Connection).                                              *)
EXTENDS Lifecycle, SequencesExt, FiniteSetsExt

CONSTANTS
    Bounds      \* scenarios: how many opens, instances, entries, live events, given-up
                \* outputs, controls, crashes and rewrites; the live events there are,
                \* what Pi's pipe holds, and whether Pi announces entries, requests time
                \* out and the session is closed or terminated

VARIABLES
    stored,     \* the stored events
    todo,       \* the writes of the code that runs now
    seen,       \* #seen: the identities of the stored events
    cursor,     \* #cursor: the entry recorded last, 0 for none
    leaf,       \* #leaf: the leaf recorded last, 0 for none
    life,       \* #lifecycle
    phase,      \* "down" | "up" | "shut" (the store is closed)
    client,     \* #client: an instance, 0 for null
    context,    \* #context and #ownedClient: the instance launched last, 0 for null
    lives,      \* live events numbered by the context
    named,      \* whether #piSessionId is known
    opened,     \* #storeOpenRecorded
    closed,     \* #closed
    closing,    \* #close: "no" | "reading" | "ending" | "draining"
    calling,    \* openSession or reconnect: "no" | "launch" | "state" | "ending" | "reading"
    opening,    \* whether that call is openSession
    queue,      \* #work: the callers of the catch-ups that wait, the running one first
    reading,    \* the catch-up at its await: [inst, since, again, broken]
    control,    \* the control at its await: [inst, action]
    st,         \* Pi's processes: "none" | "run" | "gone" | "reported" | "drained"
    ends,       \* the processes that were told to end
    asks,       \* the requests each has not answered
    out,        \* what each wrote that was not read
    file,       \* the entries of Pi's session file, in order
    unsaid,     \* those of them that Pi is about to announce
    due,        \* the entries a catch-up was owed for, since the launch
    missed,     \* whether a read failed since the launch
    used,       \* what was spent of the scenario's bounds
    bound       \* the scenario of this behaviour

indexVars == <<seen, cursor, leaf, life, lives>>
storeVars == <<stored, todo, indexVars>>
connectVars == <<client, context, named, opened, calling, opening>>
endVars == <<phase, closed, closing, ends>>
readVars == <<queue, reading>>
piVars == <<st, asks, out>>
fileVars == <<file, unsaid>>
ghostVars == <<due, missed>>
recorderVars == <<storeVars, connectVars, endVars, readVars, control, piVars, fileVars, used, bound, ghostVars>>

(* What Pi reports: a kind and, where the fold reads one, why a message ended. *)
LiveKinds == {"run-started", "turn-started", "turn-finished", "message", "gave-up", "settled",
              "compacted", "unrecognized"}
Reasons == {"none", "error", "aborted", "other"}

ASSUME BoundsAssumption ==
    \A b \in Bounds :
        /\ b.instances \in Nat /\ b.kinds \subseteq LiveKinds \X Reasons
        /\ b.timeouts \in BOOLEAN /\ b.announces \in BOOLEAN

NoRead == [inst |-> 0, since |-> 0, again |-> FALSE, broken |-> FALSE]
Counted == {"opens", "instances", "entries", "lives", "faults", "controls", "crashes", "rewrites"}
NoControl == [inst |-> 0, action |-> "none"]
Instances == UNION {1..b.instances : b \in Bounds}

(* The connection's own word for a process it may write to: it does not know   *)
(* of an exit that was not reported yet.                                       *)
Running(i) == i # 0 /\ st[i] \in {"run", "gone"} /\ i \notin ends

(* The code that runs now has run to its next await: its writes are done, and  *)
(* the catch-up whose turn it is has read its cursor.                          *)
Quiet == todo = <<>> /\ (queue = <<>> \/ reading # NoRead)

Spend(what) == used[what] < bound[what] /\ used' = [used EXCEPT ![what] = @ + 1]

EntryId(e) == <<0, e>>
Recorded(events) == Selected(events, {n \in DOMAIN events : Len(events[n].id) = 2})
Derived(events) == Selected(events, {n \in DOMAIN events : Len(events[n].id) = 4})
Ids(events) == {events[n].id : n \in DOMAIN events}
EntriesIn(events) == {x.id[2] : x \in {y \in ToSet(events) : y.k = "entry"}}

-----------------------------------------------------------------------------
(* Recording. The events of one step are numbered from the context's counter;  *)
(* an entry has its own identity.                                              *)
Live(n, k, v) == [id |-> <<context, lives + n>>, k |-> k, v |-> v]
Entry(e) == [id |-> EntryId(e), k |-> "entry", v |-> "none"]
LeafAt(n, e) == [id |-> <<context, lives + n>>, k |-> "leaf", v |-> "none", leaf |-> e]

(* What the code that runs now will ingest, in turn.                           *)
Record(events) ==
    /\ IF phase = "up"
       THEN /\ todo' = todo \o events
            /\ lives' = lives + Cardinality({n \in DOMAIN events : events[n].k # "entry"})
       ELSE UNCHANGED <<todo, lives>>
    /\ UNCHANGED <<stored, seen, cursor, leaf, life>>

(* #index: the entry and the leaf recorded last.                               *)
LastEntry(events, before) ==
    LET entries == {n \in DOMAIN events : events[n].k = "entry"} IN
    IF entries = {} THEN before ELSE events[Max(entries)].id[2]
LastLeaf(events, before) ==
    LET leaves == {n \in DOMAIN events : events[n].k = "leaf"} IN
    IF leaves = {} THEN before ELSE events[Max(leaves)].leaf

(* #ingest: an event that was not stored is, and then what the fold derives of *)
(* it. A lifecycle event that is repaired is stored alone.                     *)
IngestedAgain(event) ==
    IF Len(event.id) = 4 THEN <<event>> ELSE <<event>> \o Step(life, event).events
Ingested(event) ==
    IF event.id \in seen THEN <<>>
    ELSE IF Len(event.id) = 4 THEN <<event>>
    ELSE <<event>> \o Step(life, event).events

StoreNext ==
    /\ todo # <<>> /\ todo' = Tail(todo)
    /\ LET event == Head(todo) IN
       /\ stored' = stored \o Ingested(event)
       /\ seen' = seen \union Ids(Ingested(event))
       /\ cursor' = LastEntry(Ingested(event), cursor) /\ leaf' = LastLeaf(Ingested(event), leaf)
       /\ life' = IF Len(event.id) = 4 \/ event.id \in seen THEN life ELSE Step(life, event).state
    /\ UNCHANGED <<lives, connectVars, endVars, readVars, control, piVars, fileVars, used, bound, ghostVars>>

(* The constructor: the index and the lifecycle are rebuilt from the store,    *)
(* and the lifecycle events it lacks are stored.                               *)
RepairsNothing == <<>>
Repairs ==
    LET all == Fold(Recorded(stored)).events IN
    Selected(all, {n \in DOMAIN all : all[n].id \notin Ids(stored)})

OpenSession ==
    /\ phase = "down" /\ Spend("opens")
    /\ phase' = "up" /\ todo' = Repairs
    /\ seen' = Ids(stored)
    /\ cursor' = LastEntry(stored, 0) /\ leaf' = LastLeaf(stored, 0)
    /\ life' = Fold(Recorded(stored)).state
    /\ calling' = "launch" /\ opening' = TRUE
    /\ UNCHANGED <<stored, lives, client, context, named, opened, closed, closing, ends, readVars,
                   control, piVars, fileVars, bound, ghostVars>>

-----------------------------------------------------------------------------
(* Connecting.                                                                 *)

(* openSession terminates the session when its connect failed.                 *)
GiveUp ==
    IF opening /\ phase = "up"
    THEN /\ closed' = TRUE /\ closing' = IF closing = "no" THEN "ending" ELSE closing
         /\ ends' = ends \union ({context} \ {0})
    ELSE UNCHANGED <<closed, closing, ends>>

Launch ==
    /\ Quiet /\ phase = "up" /\ calling = "launch" /\ ~closed /\ Spend("instances")
    /\ LET i == used.instances + 1 IN
       /\ client' = i /\ context' = i /\ lives' = 0
       /\ st' = [st EXCEPT ![i] = "run"] /\ asks' = [asks EXCEPT ![i] = <<-2>>]
    /\ calling' = "state" /\ due' = ToSet(file) /\ missed' = FALSE
    /\ UNCHANGED <<stored, todo, seen, cursor, leaf, life, named, opened, opening, endVars, readVars,
                   control, out, fileVars, bound>>

(* connect refuses: the attachment was closed meanwhile.                       *)
LaunchRefused ==
    /\ Quiet /\ calling = "launch" /\ closed /\ calling' = "no" /\ GiveUp
    /\ UNCHANGED <<storeVars, client, context, named, opened, opening, phase, readVars, control,
                   piVars, fileVars, used, bound, ghostVars>>

(* The answer to get_state.                                                    *)
Identified ==
    /\ named' = TRUE /\ opened' = TRUE
    /\ Record((IF opened THEN <<>> ELSE <<Live(1, "store-opened", "none")>>)
              \o <<Live(IF opened THEN 1 ELSE 2, "attached", "none")>>)
    /\ calling' = "reading" /\ queue' = Append(queue, "connect")
    /\ UNCHANGED <<client, context, opening, endVars, reading, control, ghostVars, asks>>

(* get_state was not answered in time: the connection is closed, and connect   *)
(* fails once it ended.                                                        *)
StateTimesOut ==
    /\ Quiet /\ calling = "state" /\ st[context] # "drained" /\ bound.timeouts
    /\ calling' = "ending" /\ ends' = ends \union {context}
    /\ UNCHANGED <<storeVars, client, context, named, opened, opening, phase, closed, closing,
                   readVars, control, piVars, fileVars, used, bound, ghostVars>>

StateFails ==
    /\ Quiet /\ calling \in {"state", "ending"} /\ st[context] = "drained"
    /\ client' = 0 /\ calling' = "no" /\ GiveUp
    /\ UNCHANGED <<storeVars, context, named, opened, opening, phase, readVars, control, piVars,
                   fileVars, used, bound, ghostVars>>

(* The operator reconnects, one call at a time; the runtime is identified      *)
(* again before it is launched.                                                *)
Reconnect ==
    /\ Quiet /\ phase = "up" /\ calling = "no" /\ closing = "no" /\ ~Running(client)
    /\ used.instances < bound.instances
    /\ client' = 0 /\ calling' = "launch" /\ opening' = FALSE
    /\ UNCHANGED <<storeVars, context, named, opened, endVars, readVars, control, piVars, fileVars, used,
                   bound, ghostVars>>

-----------------------------------------------------------------------------
(* Catching up: serialized, each from the entry recorded last when it starts.  *)

(* The running catch-up is over; its caller goes on. close() goes on to end Pi.*)
ReadDone(ok) ==
    /\ queue' = Tail(queue) /\ reading' = NoRead
    /\ missed' = (missed \/ ~ok)
    /\ calling' = IF Head(queue) = "connect" THEN "no" ELSE calling
    /\ CASE Head(queue) = "connect" /\ ~ok -> GiveUp
         [] Head(queue) = "close" -> /\ closed' = TRUE /\ closing' = "ending"
                                     /\ ends' = ends \union ({context} \ {0})
         [] OTHER -> UNCHANGED <<closed, closing, ends>>

(* The request for the entries after since (0: all): it breaks on a process    *)
(* that is gone.                                                               *)
Asks(i, since, again) ==
    /\ reading' = [inst |-> i, since |-> since, again |-> again, broken |-> st[i] = "gone"]
    /\ asks' = IF st[i] = "gone" THEN asks ELSE [asks EXCEPT ![i] = Append(@, IF again THEN 0 ELSE since)]

Readable == todo = <<>> /\ queue # <<>> /\ reading = NoRead /\ phase # "down"

StartRead ==
    /\ Readable /\ named /\ Running(client) /\ Asks(client, cursor, FALSE)
    /\ UNCHANGED <<storeVars, connectVars, endVars, queue, control, st, out, fileVars, used, bound,
                   ghostVars>>

(* Pi does not run: there is nothing to read.                                  *)
SkipRead ==
    /\ Readable /\ ~(named /\ Running(client)) /\ ReadDone(TRUE)
    /\ UNCHANGED <<storeVars, client, context, named, opened, opening, phase, control, piVars, fileVars,
                   used, bound, due>>

(* The entries that answer a read, and what is recorded of them.               *)
Caught(page) ==
    LET entries == page.entries
        added == Selected(entries, {n \in DOMAIN entries : EntryId(entries[n]) \notin seen})
        report == reading.since = 0 \/ reading.again \/ added # <<>> IN
    /\ Record([n \in DOMAIN added |-> Entry(added[n])]
              \o (IF report THEN <<Live(1, "catch-up", "none")>> ELSE <<>>)
              \o (IF leaf = page.leaf THEN <<>>
                  ELSE <<LeafAt(IF report THEN 2 ELSE 1, page.leaf)>>))
    /\ ReadDone(TRUE)
    /\ UNCHANGED <<client, context, named, opened, opening, phase, control, due, asks>>

(* Pi does not know the cursor: everything is read.                            *)
RefusedIsNothingNew ==
    /\ ReadDone(TRUE)
    /\ UNCHANGED <<storeVars, client, context, named, opened, opening, phase, control, due, asks>>

ReadAgain ==
    /\ Running(reading.inst) /\ Asks(reading.inst, reading.since, TRUE)
    /\ UNCHANGED <<storeVars, connectVars, endVars, queue, control, ghostVars>>

(* The second read is refused at once: the process was told to end, or is known*)
(* to have ended.                                                              *)
CannotReadAgain ==
    /\ ~Running(reading.inst) /\ ReadDone(FALSE)
    /\ UNCHANGED <<storeVars, client, context, named, opened, opening, phase, control, due, asks>>

(* The read failed because Pi ended: the connection failed it, or its input    *)
(* broke and the exit was then reported. The second read has no such excuse.   *)
ReadLost ==
    /\ Quiet /\ reading # NoRead
    /\ \/ st[reading.inst] = "drained"
       \/ reading.broken /\ (reading.again \/ st[reading.inst] = "reported")
    /\ ReadDone(~reading.again)
    /\ UNCHANGED <<storeVars, client, context, named, opened, opening, phase, control, piVars, fileVars,
                   used, bound, due>>

(* The read timed out, or its input failed on a Pi whose exit stays unreported:*)
(* an answer that comes after that is nobody's.                                *)
ReadFails ==
    /\ Quiet /\ reading # NoRead /\ bound.timeouts /\ ReadDone(FALSE)
    /\ LET waiting == asks[reading.inst]
           unread == out[reading.inst] IN
       /\ asks' = [asks EXCEPT ![reading.inst] = Selected(@, {n \in DOMAIN waiting : waiting[n] < 0})]
       /\ out' = [out EXCEPT ![reading.inst] =
                     Selected(@, {n \in DOMAIN unread : unread[n].t \notin {"page", "unknown"}})]
    /\ UNCHANGED <<storeVars, client, context, named, opened, opening, phase, control, st, fileVars,
                   used, bound, due>>

-----------------------------------------------------------------------------
(* Live events, heard only from the process that is the client.                *)

(* The ends of a run's parts, at which Pi's entries are read back.             *)
Boundary == {"turn-finished", "settled", "compacted"}

LiveHeard(m) ==
    /\ Record(<<Live(1, m.k, m.v)>>)
    /\ queue' = IF m.k \in Boundary THEN Append(queue, "event") ELSE queue
    /\ due' = IF m.k \in Boundary THEN due \union m.had ELSE due
    /\ UNCHANGED <<connectVars, endVars, reading, control, missed, asks>>

(* Pi announces an entry it stored.                                            *)
EntryHeard(m) ==
    /\ IF named THEN Record(<<Entry(m.e)>>) ELSE UNCHANGED storeVars
    /\ UNCHANGED <<connectVars, endVars, readVars, control, ghostVars, asks>>

Unheard == UNCHANGED <<storeVars, connectVars, endVars, readVars, control, ghostVars, asks>>

-----------------------------------------------------------------------------
(* Controls: what was asked, and what became of the asking. A prompt that      *)
(* fails or is refused is not recorded.                                        *)
Says(action, what) ==
    IF action = "abort" THEN <<Live(1, "control", what)>>
    ELSE IF what = "stop-refused" THEN <<>> ELSE <<Live(1, "prompt", what)>>

Controls(action) ==
    /\ Quiet /\ client # 0 /\ control = NoControl /\ calling = "no" /\ closing = "no"
    /\ Running(client) /\ Spend("controls")
    /\ Record(Says(action, "stop-requested"))
    /\ control' = [inst |-> client, action |-> action]
    /\ asks' = IF st[client] = "gone" THEN asks ELSE [asks EXCEPT ![client] = Append(@, -1)]
    /\ UNCHANGED <<connectVars, endVars, readVars, st, out, fileVars, bound, ghostVars>>

Answered(what) ==
    /\ Record(Says(control.action, what)) /\ control' = NoControl
    /\ UNCHANGED <<connectVars, endVars, readVars, ghostVars, asks>>

ControlFails ==
    /\ Quiet /\ control # NoControl /\ st[control.inst] = "drained" /\ Answered("stop-refused")
    /\ UNCHANGED <<st, out, fileVars, used, bound>>

-----------------------------------------------------------------------------
(* Reading what a process wrote: until it is drained, also after its exit.     *)
Hears(i) ==
    /\ Quiet /\ st[i] \in {"run", "gone", "reported"} /\ out[i] # <<>>
    /\ LET m == Head(out[i]) IN
       CASE m.t = "state" -> IF calling = "state" /\ context = i THEN Identified ELSE Unheard
         [] m.t = "page" -> IF reading.inst = i THEN Caught(m) ELSE Unheard
         [] m.t = "unknown" -> IF reading.inst # i THEN Unheard
                               ELSE IF Running(i) THEN ReadAgain ELSE CannotReadAgain
         [] m.t = "control" -> IF control.inst = i THEN Answered(m.v) ELSE Unheard
         [] m.t = "live" -> IF client = i THEN LiveHeard(m) ELSE Unheard
         [] m.t = "entry" -> IF client = i THEN EntryHeard(m) ELSE Unheard
    /\ out' = [out EXCEPT ![i] = Tail(@)]
    /\ UNCHANGED <<st, fileVars, used, bound>>

(* The exit is reported, before or after the last output was read.             *)
ExitReported(i) ==
    /\ Quiet /\ st[i] = "gone" /\ st' = [st EXCEPT ![i] = "reported"]
    /\ IF client = i
       THEN /\ client' = 0
            /\ Record(<<Live(1, "exited", IF closed THEN "expected" ELSE "unexpected")>>)
       ELSE UNCHANGED <<client, storeVars>>
    /\ UNCHANGED <<context, named, opened, calling, opening, endVars, readVars, control, asks, out,
                   fileVars, used, bound, ghostVars>>

(* The output ends; a descendant of Pi that holds it makes the rest given up.  *)
Drained(i) ==
    /\ Quiet /\ st[i] = "reported" /\ st' = [st EXCEPT ![i] = "drained"]
    /\ IF out[i] = <<>> THEN UNCHANGED used ELSE Spend("faults")
    /\ out' = [out EXCEPT ![i] = <<>>]
    /\ UNCHANGED <<storeVars, connectVars, endVars, readVars, control, asks, fileVars, bound, ghostVars>>

-----------------------------------------------------------------------------
(* Pi, from how the attachment uses it.                                        *)
obsVars == <<storeVars, connectVars, endVars, readVars, control, ghostVars, bound>>

Sends(i, m) == out' = [out EXCEPT ![i] = Append(@, m)]
NewEntry == used.entries + used.rewrites + 1
Leaf == IF file = <<>> THEN 0 ELSE Last(file)
After(e) == SubSeq(file, IF e = 0 THEN 1 ELSE CHOOSE n \in DOMAIN file : n > 1 /\ file[n - 1] = e, Len(file))
EntriesAfter(e) == IF e = Leaf THEN <<>> ELSE After(e)

PiAnswers(i) ==
    /\ Quiet /\ st[i] = "run" /\ asks[i] # <<>>
    /\ asks' = [asks EXCEPT ![i] = Tail(@)]
    /\ LET ask == Head(asks[i]) IN
       CASE ask = -2 -> Sends(i, [t |-> "state"])
         [] ask = -1 -> \E v \in {"stop-accepted", "stop-refused"} : Sends(i, [t |-> "control", v |-> v])
         [] ask >= 0 /\ ask \in ToSet(file) \union {0} ->
                Sends(i, [t |-> "page", entries |-> EntriesAfter(ask), leaf |-> Leaf])
         [] OTHER -> Sends(i, [t |-> "unknown"])
    /\ UNCHANGED <<obsVars, st, fileVars, used>>

PiAppends(i) ==
    /\ Quiet /\ st[i] = "run" /\ Spend("entries")
    /\ LET e == NewEntry IN
       /\ file' = Append(file, e)
       /\ unsaid' = IF bound.announces THEN Append(unsaid, e) ELSE unsaid
    /\ UNCHANGED <<obsVars, piVars>>

PiAnnounces(i) ==
    /\ Quiet /\ st[i] = "run" /\ unsaid # <<>> /\ Len(out[i]) < bound.pipe
    /\ Sends(i, [t |-> "entry", e |-> Head(unsaid)]) /\ unsaid' = Tail(unsaid)
    /\ UNCHANGED <<obsVars, st, asks, file, used>>

PiSays(i) ==
    /\ Quiet /\ st[i] = "run" /\ Spend("lives") /\ Len(out[i]) < bound.pipe
    /\ \E k \in bound.kinds : Sends(i, [t |-> "live", k |-> k[1], v |-> k[2], had |-> ToSet(file)])
    /\ UNCHANGED <<obsVars, st, asks, fileVars>>

PiExits(i) ==
    /\ Quiet /\ st[i] = "run" /\ st' = [st EXCEPT ![i] = "gone"] /\ asks' = [asks EXCEPT ![i] = <<>>]
    /\ unsaid' = <<>> /\ UNCHANGED <<obsVars, out, file, used>>

(* Another program replaces the end of the session file.                       *)
Rewritten ==
    /\ Quiet /\ \A i \in Instances : st[i] # "run"
    /\ file # <<>> /\ Spend("rewrites")
    /\ file' = Append(Front(file), NewEntry)
    /\ UNCHANGED <<obsVars, piVars, unsaid>>

-----------------------------------------------------------------------------
(* Ending.                                                                     *)
CloseSession ==
    /\ Quiet /\ phase = "up" /\ bound.closes /\ calling = "no" /\ closing = "no"
    /\ closing' = "reading" /\ queue' = Append(queue, "close")
    /\ UNCHANGED <<storeVars, connectVars, phase, closed, ends, reading, control, piVars, fileVars, used,
                   bound, ghostVars>>

TerminateLeavesPi ==
    /\ Quiet /\ phase = "up" /\ bound.terminates /\ ~closed /\ closed' = TRUE
    /\ closing' = IF closing = "no" THEN "ending" ELSE closing
    /\ UNCHANGED <<storeVars, connectVars, phase, ends, readVars, control, piVars, fileVars, used, bound,
                   ghostVars>>

(* Also during an ordinary close, or while the session opens.                  *)
Terminate ==
    /\ Quiet /\ phase = "up" /\ bound.terminates /\ ~closed /\ closed' = TRUE
    /\ closing' = IF closing = "no" THEN "ending" ELSE closing
    /\ ends' = ends \union ({context} \ {0})
    /\ UNCHANGED <<storeVars, connectVars, phase, readVars, control, piVars, fileVars, used, bound,
                   ghostVars>>

(* The last process has ended and its output is read.                          *)
Ended ==
    /\ Quiet /\ closing = "ending" /\ (context # 0 => st[context] = "drained")
    /\ closing' = "draining"
    /\ UNCHANGED <<storeVars, connectVars, phase, closed, ends, readVars, control, piVars, fileVars,
                   used, bound, ghostVars>>

Shut ==
    /\ Quiet /\ phase = "up" /\ closing = "draining" /\ queue = <<>> /\ phase' = "shut"
    /\ UNCHANGED <<storeVars, connectVars, closed, closing, ends, readVars, control, piVars, fileVars,
                   used, bound, ghostVars>>

(* Nothing of the process is left; its Pi processes die with it.               *)
Gone ==
    /\ phase' = "down" /\ todo' = <<>> /\ seen' = {} /\ cursor' = 0 /\ leaf' = 0 /\ life' = Initial
    /\ lives' = 0 /\ client' = 0 /\ context' = 0 /\ named' = FALSE /\ opened' = FALSE
    /\ calling' = "no" /\ opening' = FALSE /\ closed' = FALSE /\ closing' = "no" /\ ends' = {}
    /\ queue' = <<>> /\ reading' = NoRead /\ control' = NoControl
    /\ st' = [i \in Instances |-> "none"] /\ asks' = [i \in Instances |-> <<>>]
    /\ out' = [i \in Instances |-> <<>>] /\ due' = {} /\ missed' = FALSE
    /\ unsaid' = <<>> /\ UNCHANGED <<file, bound>>

Leave == phase = "shut" /\ Quiet /\ Gone /\ UNCHANGED <<stored, used>>

(* A crash may leave an event on the disk without what it implies.            *)
Killed ==
    /\ phase = "up" /\ Spend("crashes") /\ Gone
    /\ IF todo = <<>> THEN UNCHANGED stored
       ELSE LET written == Ingested(Head(todo)) IN
            \E n \in 0..Len(written) : stored' = stored \o SubSeq(written, 1, n)

-----------------------------------------------------------------------------
RecorderInit ==
    /\ bound \in Bounds /\ used = [what \in Counted |-> 0]
    /\ stored = <<>> /\ todo = <<>> /\ seen = {} /\ cursor = 0 /\ leaf = 0 /\ life = Initial
    /\ lives = 0 /\ phase = "down" /\ client = 0 /\ context = 0 /\ named = FALSE /\ opened = FALSE
    /\ calling = "no" /\ opening = FALSE /\ closed = FALSE /\ closing = "no" /\ ends = {}
    /\ queue = <<>> /\ reading = NoRead /\ control = NoControl
    /\ st = [i \in Instances |-> "none"] /\ asks = [i \in Instances |-> <<>>]
    /\ out = [i \in Instances |-> <<>>] /\ file = <<>> /\ unsaid = <<>> /\ due = {} /\ missed = FALSE

PiDoes(i) == PiAnswers(i) \/ PiAppends(i) \/ PiAnnounces(i) \/ PiSays(i) \/ PiExits(i)
Seen(i) == Hears(i) \/ ExitReported(i) \/ Drained(i)
Runs == \/ StoreNext \/ StartRead \/ SkipRead \/ Launch \/ LaunchRefused \/ StateFails \/ ReadLost
        \/ ControlFails \/ Ended \/ Shut
Chooses == \/ OpenSession \/ StateTimesOut \/ Reconnect \/ ReadFails \/ CloseSession \/ Terminate \/ Leave \/ Killed
           \/ Rewritten \/ \E action \in {"abort", "prompt"} : Controls(action)

RecorderNext == Runs \/ Chooses \/ \E i \in Instances : PiDoes(i) \/ Seen(i)

(* The code runs on, a process told to end does (SIGKILL at the last), what it *)
(* wrote is read and a request that is not answered times out.                 *)
Goes == \/ Runs
        \/ phase = "up" /\ (ReadFails \/ StateTimesOut)
        \/ \E i \in Instances : Seen(i) \/ (i \in ends /\ PiExits(i))

RecorderSpec == RecorderInit /\ [][RecorderNext]_recorderVars /\ WF_recorderVars(Goes)

-----------------------------------------------------------------------------
(* When an attachment has run to an await, the lifecycle it has stored is the  *)
(* fold of what it has recorded, each event once and in the order implied:     *)
(* over crashes between an event and what it implies, repairs and reconnects.  *)
LifecycleIsFold ==
    phase = "up" /\ todo = <<>> => Derived(stored) = Fold(Recorded(stored)).events

(* No event, and so no entry of Pi's session, is stored twice, though every    *)
(* open, reconnect, turn and settled run reads entries again.                  *)
RecordedOnce == \A m, n \in DOMAIN stored : m # n => stored[m].id # stored[n].id

(* Once no catch-up is left, every entry the session held when Pi was started, *)
(* or when a turn or a run was reported finished, is recorded, if no read      *)
(* failed and none of the entries was removed from the session.                *)
Settled == phase = "up" /\ Running(client) /\ calling = "no" /\ queue = <<>> /\ todo = <<>>
CaughtUp ==
    Settled /\ ~missed /\ (bound.announces => used.instances = 1) =>
         (due \intersect ToSet(file)) \subseteq EntriesIn(stored)

(* What is recorded of Pi's session is neither doubled nor, once caught up, short *)
(* of an entry.                                                                *)
EntriesRecordedOnce == RecordedOnce /\ CaughtUp

(* The same, of a Pi that announces every entry it appends, in order.          *)
CaughtUpAnnounced ==
    Settled /\ ~missed => (due \intersect ToSet(file)) \subseteq EntriesIn(stored)

(* The recorded runs alternate: none starts before the last one was concluded, *)
(* and none is concluded twice, whatever was lost with an exit or a crash.     *)
Concluding == {"run-completed", "run-failed", "run-aborted", "run-unclassified", "runtime-exited",
               "observer-lost"}
Started(x) == x.k = "run-started"
OfRun(x) == Started(x) \/ (x.k \in Concluding /\ x.runOpen)
Alternate(events) ==
    LET runs == {n \in DOMAIN events : OfRun(events[n])} IN
    /\ \A n \in runs : (\A m \in runs : n <= m) => Started(events[n])
    /\ \A m, n \in runs : (m < n /\ \A l \in runs : l <= m \/ n <= l) =>
                            (Started(events[m]) <=> ~Started(events[n]))

RunsConcluded == Alternate(Derived(stored))

(* A close or a terminate ends, with the store closed: whatever catch-up,      *)
(* connect or control is under way, and whether Pi answers or not.             *)
CloseEnds == closing # "no" /\ bound.timeouts ~> phase # "up"
=============================================================================
