-------------------------------- MODULE EventStore --------------------------------
(***************************************************************************)
(* The durable event store (storage/event-store.ts): an event is taken     *)
(* into memory, then appended to the frame log and synced.  A store that   *)
(* is opened again reads the valid frames, then cuts a torn tail, whose    *)
(* bytes it first keeps aside.                                             *)
(*                                                                         *)
(* A step is one system call that changes a file, and the machine may stop *)
(* between any two.                                                        *)
(***************************************************************************)
EXTENDS FrameLog

CONSTANTS
  Events,    \* events, by id
  None,      \* no event
  MaxOpens,  \* bound: how often the store is opened
  Faults     \* bound: which of AllFaults happen in the instance

ASSUME StoreAssumption == None \notin Events /\ MaxOpens \in Nat

AllFaults == {"crash", "write fails", "damage"}

VARIABLES
  disk,    \* the log file
  saved,   \* the events whose bytes a cut has kept aside
  mem,     \* the events of the open store, in order
  pc,      \* the state of the open store, or its next step
  doing,   \* the event being appended
  acked,   \* the events whose ingest returned, in order
  spoiled, \* the events whose own frame the medium has damaged
  opens

vars == <<disk, saved, mem, pc, doing, acked, spoiled, opens>>

Steps == {"down", "loaded", "kept", "ready", "append", "sync", "dead", "readonly"}

Init ==
  /\ disk = EmptyLog
  /\ saved = {}
  /\ mem = << >>
  /\ pc = "down"
  /\ doing = None
  /\ acked = << >>
  /\ spoiled = {}
  /\ opens = 0

-----------------------------------------------------------------------------
(* Opening.                                                                *)

(* Every valid frame is read and validated before anything is changed; a   *)
(* frame that does not verify seals the store: it is only read.            *)
Open ==
  /\ pc = "down"
  /\ opens < MaxOpens
  /\ opens' = opens + 1
  /\ mem' = disk.frames
  /\ pc' = CASE disk.rest = "none" -> "ready"
             [] disk.rest = "torn" -> "loaded"
             [] disk.rest = "corrupt" -> "readonly"
  /\ UNCHANGED <<disk, saved, doing, acked, spoiled>>

(* A reader's open changes no file, and ingests nothing. *)
OpenReadOnly ==
  /\ pc = "down"
  /\ opens < MaxOpens
  /\ opens' = opens + 1
  /\ mem' = disk.frames
  /\ pc' = "readonly"
  /\ UNCHANGED <<disk, saved, doing, acked, spoiled>>

(* Mutant: the file is replaced without keeping what is cut. *)
CutAtOnce ==
  /\ pc = "loaded"
  /\ disk' = CutTo(disk, Len(disk.frames))
  /\ pc' = "ready"
  /\ UNCHANGED <<saved, mem, doing, acked, spoiled, opens>>

(* The bytes of the tail are written aside and synced. *)
Keep ==
  /\ pc = "loaded"
  /\ saved' = saved \union Held(disk.behind)
  /\ pc' = "kept"
  /\ UNCHANGED <<disk, mem, doing, acked, spoiled, opens>>

(* The valid frames, written to a new file and synced, replace the log.    *)
Cut ==
  /\ pc = "kept"
  /\ disk' = CutTo(disk, Len(disk.frames))
  /\ pc' = "ready"
  /\ UNCHANGED <<saved, mem, doing, acked, spoiled, opens>>

-----------------------------------------------------------------------------
(* Ingesting.                                                              *)

(* Mutant: a duplicate is not looked for. *)
AnyIsNew(e) == TRUE

(* The in-memory store refuses an event it holds. *)
New(e) == e \notin Held(mem)

(* The in-memory store takes the event first. *)
Ingest(e) ==
  /\ pc = "ready"
  /\ New(e)
  /\ mem' = Append(mem, e)
  /\ doing' = e
  /\ pc' = "append"
  /\ UNCHANGED <<disk, saved, acked, spoiled, opens>>

(* The frame is written behind whatever the file holds: damage that left   *)
(* the size of the file as it was is not noticed.                          *)
Write ==
  /\ pc = "append"
  /\ disk' \in Written(disk, doing)
  /\ pc' = "sync"
  /\ UNCHANGED <<saved, mem, doing, acked, spoiled, opens>>

Sync ==
  /\ pc = "sync"
  /\ disk' = Synced(disk)
  /\ acked' = Append(acked, doing)
  /\ doing' = None
  /\ pc' = "ready"
  /\ UNCHANGED <<saved, mem, spoiled, opens>>

(* Mutant: a failed write leaves the store in use. *)
StaysInUse == pc' = "ready"

(* The memory has outrun the log: every later operation throws. *)
Dies == pc' = "dead"

(* Nothing was written, some of the frame, or all of it and the sync       *)
(* failed.                                                                 *)
WriteFails ==
  /\ "write fails" \in Faults
  /\ \/ /\ pc = "append"
        /\ disk' \in {disk, HalfWritten(disk)}
     \/ pc = "sync" /\ UNCHANGED disk
  /\ Dies
  /\ doing' = None
  /\ UNCHANGED <<saved, mem, acked, spoiled, opens>>

(* A step of the recovery fails and the open throws, before or after the   *)
(* new file has taken the place of the log.                                *)
OpenFails ==
  /\ "write fails" \in Faults
  /\ \/ pc \in {"loaded", "kept"} /\ UNCHANGED disk
     \/ pc = "kept" /\ disk' = CutUnsynced(disk, Len(disk.frames))
  /\ pc' = "down"
  /\ mem' = << >>
  /\ UNCHANGED <<saved, doing, acked, spoiled, opens>>

-----------------------------------------------------------------------------
(* Around the store.                                                       *)

Down ==
  /\ pc' = "down"
  /\ mem' = << >>
  /\ doing' = None
  /\ UNCHANGED <<saved, acked, spoiled, opens>>

Close ==
  /\ pc \in {"ready", "dead", "readonly"}
  /\ Down
  /\ UNCHANGED disk

(* The machine stops. *)
Crash ==
  /\ "crash" \in Faults
  /\ Down
  /\ disk' \in AfterStop(disk)

(* The medium damages a frame. *)
Damage(k) ==
  /\ "damage" \in Faults
  /\ disk.rest = "none"
  /\ k <= disk.synced
  /\ disk' \in Damaged(disk, k)
  /\ spoiled' = spoiled \union {disk.frames[k]}
  /\ UNCHANGED <<saved, mem, pc, doing, acked, opens>>

Next ==
  \/ Open \/ OpenReadOnly \/ Keep \/ Cut \/ OpenFails
  \/ \E e \in Events : Ingest(e)
  \/ Write \/ Sync \/ WriteFails
  \/ Close \/ Crash
  \/ \E k \in 1 .. Len(disk.frames) : Damage(k)

Spec == Init /\ [][Next]_vars

-----------------------------------------------------------------------------
(* Types of the state. *)
TypeOK ==
  /\ disk \in Logs(Events)
  /\ disk.synced <= Len(disk.frames)
  /\ saved \subseteq Events
  /\ mem \in Seq(Events)
  /\ pc \in Steps
  /\ doing \in Events \union {None}
  /\ acked \in Seq(Events)
  /\ spoiled \subseteq Events
  /\ opens \in 0 .. MaxOpens

(* A store that takes events shows exactly what its log holds: in-memory   *)
(* state that has outrun the log is never served (event-store.ts 24-26),   *)
(* and no frame is ever appended behind a torn one.                        *)
MemoryIsLog == pc = "ready" /\ spoiled = {} => mem = disk.frames /\ disk.rest = "none"

(* Bytes that an append once acknowledged are not destroyed by any open,   *)
(* cut, failed write or stop: only what the medium itself damaged is gone  *)
(* (log.ts 19-23).                                                         *)
NothingDestroyed ==
  Held(acked) \subseteq Held(disk.frames) \union Held(disk.behind) \union saved \union spoiled

(* The log never holds an event twice, whatever was in doubt when a store  *)
(* died: a duplicate would make the store unopenable (event-store.ts 17).  *)
OpensAgain ==
  \A i, j \in 1 .. Len(disk.frames) : disk.frames[i] = disk.frames[j] => i = j

(* The log can be opened, and whoever uses the store sees what it holds.   *)
LogIsSound == MemoryIsLog /\ OpensAgain

(* As long as the medium damages nothing the store is a durable log:       *)
(* everything up to the last event that ingest acknowledged is what every  *)
(* later reader finds, in that order.                                      *)
Acknowledged == {0} \union {i \in 1 .. Len(disk.frames) : disk.frames[i] \in Held(acked)}
AckedUpTo == CHOOSE k \in Acknowledged : \A i \in Acknowledged : i <= k

Durable == INSTANCE AppendLog WITH stored <- disk.frames, acked <- AckedUpTo

ImplementsAppendLog ==
  /\ Durable!Init
  /\ [][spoiled' = {} => Durable!Next \/ UNCHANGED Durable!vars]_vars
===============================================================================
