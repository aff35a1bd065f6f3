------------------------------ MODULE EvidenceLedger ------------------------------
(***************************************************************************)
(* The durable evidence ledger (storage/ledger.ts): records that refer to  *)
(* earlier records, in the frame log, beside an identity file written on   *)
(* the first append and a snapshot that repeats a prefix of the log.  An   *)
(* open replays the log with the full validation and compares the snapshot *)
(* with it; what does not agree makes the ledger unopenable.               *)
(*                                                                         *)
(* A step is one system call that changes a file.  Damage of the medium is *)
(* EventStore's subject: here the log is torn only by a write.             *)
(***************************************************************************)
EXTENDS FrameLog

CONSTANTS
  Records,    \* records, by id
  None,       \* no record
  Needs,      \* the records each record refers to
  Selections, \* the records that are selection decisions
  Holdouts,   \* the results that contain promotion-holdout trials
  MaxOpens,   \* bound: how often the ledger is opened
  Faults      \* bound: which of AllFaults happen in the instance

ASSUME LedgerAssumption ==
  None \notin Records /\ MaxOpens \in Nat /\ Needs \in [Records -> SUBSET Records]

AllFaults == {"process ends", "machine stops", "write fails", "identity fails"}

VARIABLES
  log,      \* the log file
  meta,     \* is the identity file there?
  snap,     \* the records of the snapshot file; none when there is no such file
  pc,       \* the state of the open ledger, or its next step
  mem,      \* the records of the open ledger
  metaSeen, \* does the open ledger believe the identity file is there?
  doing,    \* the record being appended
  acked,    \* the records whose append returned, in order
  unnamed,  \* the records whose append threw at the identity file
  opens

vars == <<log, meta, snap, pc, mem, metaSeen, doing, acked, unnamed, opens>>

Steps == {"down", "loaded", "ready", "identity", "append", "sync", "snapshot", "compact", "dead"}

Init ==
  /\ log = EmptyLog
  /\ meta = FALSE
  /\ snap = << >>
  /\ pc = "down"
  /\ mem = << >>
  /\ metaSeen = FALSE
  /\ doing = None
  /\ acked = << >>
  /\ unnamed = {}
  /\ opens = 0

-----------------------------------------------------------------------------
(* Opening.                                                                *)

(* The in-memory ledger takes a record whose id is new and whose           *)
(* references it holds; a selection never cites a holdout result.          *)
Takes(s, r) ==
  /\ r \notin Held(s)
  /\ Needs[r] \subseteq Held(s)
  /\ r \in Selections => Needs[r] \intersect Holdouts = {}

Replays(s) == \A i \in 1 .. Len(s) : Takes(SubSeq(s, 1, i - 1), s[i])

(* The snapshot covers no more than the log, and agrees with it. *)
Agrees == Len(snap) <= Len(log.frames) /\ snap = SubSeq(log.frames, 1, Len(snap))

Openable == Replays(log.frames) /\ Agrees

(* An open that does not validate throws and leaves everything as found. *)
Open ==
  /\ pc = "down"
  /\ opens < MaxOpens
  /\ Openable
  /\ opens' = opens + 1
  /\ mem' = log.frames
  /\ metaSeen' = meta
  /\ pc' = IF log.rest = "torn" THEN "loaded" ELSE "ready"
  /\ UNCHANGED <<log, meta, snap, doing, acked, unnamed>>

Recover ==
  /\ pc = "loaded"
  /\ log' = CutTo(log, Len(log.frames))
  /\ pc' = "ready"
  /\ UNCHANGED <<meta, snap, mem, metaSeen, doing, acked, unnamed, opens>>

-----------------------------------------------------------------------------
(* Appending.                                                              *)

(* The in-memory ledger takes the record first. *)
Ingest(r) ==
  /\ pc = "ready"
  /\ Takes(mem, r)
  /\ mem' = Append(mem, r)
  /\ doing' = r
  /\ metaSeen' = TRUE
  /\ pc' = IF metaSeen THEN "append" ELSE "identity"
  /\ UNCHANGED <<log, meta, snap, acked, unnamed, opens>>

(* Mutant: the identity file is left for a later append. *)
IdentityLater ==
  /\ pc = "identity"
  /\ pc' = "append"
  /\ UNCHANGED <<log, meta, snap, mem, metaSeen, doing, acked, unnamed, opens>>

WriteIdentity ==
  /\ pc = "identity"
  /\ meta' = TRUE
  /\ pc' = "append"
  /\ UNCHANGED <<log, snap, mem, metaSeen, doing, acked, unnamed, opens>>

(* The append throws before the log was touched, and the ledger stays in   *)
(* use: only a failed write of the log marks it dead.                      *)
IdentityFails ==
  /\ "identity fails" \in Faults
  /\ pc = "identity"
  /\ meta' \in BOOLEAN
  /\ doing' = None
  /\ unnamed' = unnamed \union {doing}
  /\ pc' = "ready"
  /\ UNCHANGED <<log, snap, mem, metaSeen, acked, opens>>

Write ==
  /\ pc = "append"
  /\ log' \in Written(log, doing)
  /\ pc' = "sync"
  /\ UNCHANGED <<meta, snap, mem, metaSeen, doing, acked, unnamed, opens>>

Sync ==
  /\ pc = "sync"
  /\ log' = Synced(log)
  /\ acked' = Append(acked, doing)
  /\ doing' = None
  /\ pc' = "ready"
  /\ UNCHANGED <<meta, snap, mem, metaSeen, unnamed, opens>>

(* Mutant: a failed write leaves the ledger in use. *)
StaysInUse == pc' = "ready"

Dies == pc' = "dead"

WriteFails ==
  /\ "write fails" \in Faults
  /\ \/ pc = "append" /\ log' \in {log, HalfWritten(log)}
     \/ pc = "sync" /\ UNCHANGED log
  /\ Dies
  /\ doing' = None
  /\ UNCHANGED <<meta, snap, mem, metaSeen, acked, unnamed, opens>>

-----------------------------------------------------------------------------
(* Taking a snapshot.                                                      *)

BeginSnapshot ==
  /\ pc = "ready"
  /\ pc' = "snapshot"
  /\ UNCHANGED <<log, meta, snap, mem, metaSeen, doing, acked, unnamed, opens>>

(* The snapshot of the memory takes the place of the one before. *)
WriteSnapshot ==
  /\ pc = "snapshot"
  /\ snap' = mem
  /\ pc' = "compact"
  /\ UNCHANGED <<log, meta, mem, metaSeen, doing, acked, unnamed, opens>>

(* Mutant: the records the snapshot covers are cut from the log. *)
CutsCovered == log' = CutTo(log, 0)

(* The log is written anew with the records the snapshot covers. *)
KeepsCovered == log' = CutTo(log, Len(mem))

Compact ==
  /\ pc = "compact"
  /\ Len(mem) <= Len(log.frames)
  /\ KeepsCovered
  /\ pc' = "ready"
  /\ UNCHANGED <<meta, snap, mem, metaSeen, doing, acked, unnamed, opens>>

(* The log refuses to be cut to more frames than it has. *)
CompactRefused ==
  /\ pc = "compact"
  /\ Len(mem) > Len(log.frames)
  /\ pc' = "ready"
  /\ UNCHANGED <<log, meta, snap, mem, metaSeen, doing, acked, unnamed, opens>>

(* A step of the snapshot or of the recovery fails, before or after the    *)
(* new file has taken its place.                                           *)
RewriteFails ==
  /\ "write fails" \in Faults
  /\ \/ pc = "snapshot" /\ snap' \in {snap, mem} /\ UNCHANGED log
     \/ /\ pc \in {"compact", "loaded"}
        /\ Len(mem) <= Len(log.frames)
        /\ log' \in {log, CutUnsynced(log, Len(mem))}
        /\ UNCHANGED snap
  /\ IF pc = "loaded" THEN pc' = "down" /\ mem' = << >> ELSE pc' = "ready" /\ UNCHANGED mem
  /\ UNCHANGED <<meta, metaSeen, doing, acked, unnamed, opens>>

-----------------------------------------------------------------------------
(* Around the ledger.                                                      *)

Down ==
  /\ pc' = "down"
  /\ mem' = << >>
  /\ metaSeen' = FALSE
  /\ doing' = None
  /\ UNCHANGED <<meta, snap, acked, unnamed, opens>>

Close ==
  /\ pc \in {"ready", "dead"}
  /\ Down
  /\ UNCHANGED log

(* The process ends between two system calls: the files are as it left them. *)
ProcessEnds ==
  /\ "process ends" \in Faults
  /\ Down
  /\ UNCHANGED log

(* The machine stops, at any time. *)
MachineStops ==
  /\ "machine stops" \in Faults
  /\ Down
  /\ log' \in AfterStop(log)

Next ==
  \/ Open \/ Recover
  \/ \E r \in Records : Ingest(r)
  \/ WriteIdentity \/ IdentityFails \/ Write \/ Sync \/ WriteFails
  \/ BeginSnapshot \/ WriteSnapshot \/ Compact \/ CompactRefused \/ RewriteFails
  \/ Close \/ ProcessEnds \/ MachineStops

Spec == Init /\ [][Next]_vars

-----------------------------------------------------------------------------
(* Types of the state. *)
TypeOK ==
  /\ log \in Logs(Records)
  /\ log.synced <= Len(log.frames)
  /\ meta \in BOOLEAN
  /\ snap \in Seq(Records)
  /\ pc \in Steps
  /\ mem \in Seq(Records)
  /\ metaSeen \in BOOLEAN
  /\ doing \in Records \union {None}
  /\ acked \in Seq(Records)
  /\ unnamed \subseteq Records
  /\ opens \in 0 .. MaxOpens

(* The rest holds of ledgers whose identity file was written when it was   *)
(* due: an append that throws there leaves its record in the memory only.  *)
Named == unnamed = {}

(* A ledger that is in use shows the log: memory that has outrun the log   *)
(* is dead (ledger.ts 69-70, 242-243).                                     *)
MemoryIsLog == Named /\ pc = "ready" => mem = log.frames

(* The files can be opened again between any two system calls of an        *)
(* append, a snapshot or a recovery, whichever of them fails and whatever  *)
(* stops, as long as no snapshot covers a frame that is not synced.        *)
OpensAgain == Named /\ Len(snap) <= log.synced => Openable

(* The log by itself replays with the full validation, also after a stop   *)
(* of the machine took unsynced records from its end, and never holds a    *)
(* record without the identity file that says whose it is.                 *)
LogReplays == Named => Replays(log.frames) /\ (log.frames # << >> => meta)

(* The files open, the log replays, and whoever uses the ledger sees it.   *)
LedgerIsSound == MemoryIsLog /\ OpensAgain /\ LogReplays

(* Every record whose append returned is in the log, synced, and in the    *)
(* order of the appends.                                                   *)
AckedKept ==
  \A i \in 1 .. Len(acked) : \E k \in 1 .. log.synced :
    /\ log.frames[k] = acked[i]
    /\ \A j \in 1 .. i - 1 : acked[j] \in Held(SubSeq(log.frames, 1, k - 1))

(* What a comment of the code says and the code does not do: a crash       *)
(* between the two steps of a snapshot is harmless (ledger.ts 17-19).      *)
SnapshotIsHarmless == Named => Openable
===============================================================================
