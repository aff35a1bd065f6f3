------------------------------- MODULE WriterLock -------------------------------
(***************************************************************************)
(* The writer lock of a store root (adapters/pi/attachment.ts): a file     *)
(* created exclusively, holding the process id of its owner.  An opener    *)
(* that finds it reads it, probes the process and removes a lock whose     *)
(* process is gone, then tries once more.  One step is one system call:    *)
(* nothing holds the file between two of them.                             *)
(***************************************************************************)
EXTENDS Naturals

CONSTANTS
  Processes,  \* the processes that open the root, by process id
  Absent,     \* there is no lock file
  MaxOpens,   \* bound: how often a process opens the root
  Faults      \* bound: which of {"exit", "disk"} happen in the instance

ASSUME LockAssumption ==
  /\ Absent \notin Processes
  /\ MaxOpens \in Nat

VARIABLES
  lock,     \* the lock file: Absent, or the process that created it
  written,  \* the process id is in the file
  left,     \* its creator failed to write the file, or to remove it, and goes on
  at,       \* at[i]: the next step of process i
  attempt,  \* attempt[i]: which of its two attempts i is in
  seen,     \* seen[i]: the process id i read from the lock
  opens     \* opens[i]: how often i has opened the root

lockVars == <<lock, written, left, at, attempt, seen, opens>>

Places == {"idle", "create", "write", "read", "probe", "remove", "held", "refused", "failed", "dead"}

LockInit ==
  /\ lock = Absent
  /\ written = FALSE
  /\ left = FALSE
  /\ at = [i \in Processes |-> "idle"]
  /\ attempt = [i \in Processes |-> 0]
  /\ seen = [i \in Processes |-> Absent]
  /\ opens = [i \in Processes |-> 0]

Goes(i, from, to) == at[i] = from /\ at' = [at EXCEPT ![i] = to]

(* A process opens the root, again when an earlier open was refused,       *)
(* failed or was released.                                                 *)
OpenRoot(i) ==
  /\ opens[i] < MaxOpens
  /\ at[i] \in {"idle", "refused", "failed"}
  /\ at' = [at EXCEPT ![i] = "create"]
  /\ attempt' = [attempt EXCEPT ![i] = 0]
  /\ seen' = [seen EXCEPT ![i] = Absent]
  /\ opens' = [opens EXCEPT ![i] = @ + 1]
  /\ UNCHANGED <<lock, written, left>>

(* Created exclusively, or found. *)
Create(i) ==
  /\ Goes(i, "create", IF lock = Absent THEN "write" ELSE "read")
  /\ lock' = IF lock = Absent THEN i ELSE lock
  /\ written' = (lock # Absent /\ written)
  /\ left' = (lock # Absent /\ left)
  /\ UNCHANGED <<attempt, seen, opens>>

(* Writes through the descriptor: a file removed meanwhile stays removed.  *)
WriteOwner(i) ==
  /\ Goes(i, "write", "held")
  /\ written' = (written \/ lock = i)
  /\ UNCHANGED <<lock, left, attempt, seen, opens>>

(* A call on the file fails and the open throws, for a failed read that    *)
(* the root is locked: nothing is undone.  The file of a failed write, or  *)
(* of a failed close after it, stays.                                      *)
DiskFails(i) ==
  /\ "disk" \in Faults /\ at[i] \in {"create", "write", "read", "remove"}
  /\ at' = [at EXCEPT ![i] = "failed"]
  /\ LET own == at[i] = "write" /\ lock = i IN
     left' = (left \/ own) /\ written' \in {written, written \/ own}
  /\ UNCHANGED <<lock, attempt, seen, opens>>

(* Mutant: a lock that does not parse is taken for a stale one. *)
BlankIsStale(i) ==
  /\ Goes(i, "read", IF written THEN "probe" ELSE "remove")
  /\ seen' = [seen EXCEPT ![i] = IF written THEN lock ELSE Absent]
  /\ UNCHANGED <<lock, written, left, attempt, opens>>

(* A lock that is gone or does not parse is treated as held. *)
ReadOwner(i) ==
  /\ Goes(i, "read", IF written THEN "probe" ELSE "refused")
  /\ seen' = [seen EXCEPT ![i] = IF written THEN lock ELSE Absent]
  /\ UNCHANGED <<lock, written, left, attempt, opens>>

Alive(i) == at[i] # "dead"

(* Mutant: a lock whose process is gone is held all the same. *)
ProbeNeverStale(i) ==
  /\ Goes(i, "probe", "refused")
  /\ UNCHANGED <<lock, written, left, attempt, seen, opens>>

Probe(i) ==
  /\ Goes(i, "probe", IF Alive(seen[i]) THEN "refused" ELSE "remove")
  /\ UNCHANGED <<lock, written, left, attempt, seen, opens>>

(* Mutant: an opener retries as long as it finds stale locks. *)
RetriesForEver(i) ==
  /\ Goes(i, "remove", "create")
  /\ lock' = Absent
  /\ written' = FALSE
  /\ left' = FALSE
  /\ attempt' = [attempt EXCEPT ![i] = @ + 1]
  /\ UNCHANGED <<seen, opens>>

(* The stale lock is removed by name, and the second attempt is the last. *)
Remove(i) ==
  /\ Goes(i, "remove", IF attempt[i] = 0 THEN "create" ELSE "refused")
  /\ lock' = Absent
  /\ written' = FALSE
  /\ left' = FALSE
  /\ attempt' = [attempt EXCEPT ![i] = 1]
  /\ UNCHANGED <<seen, opens>>

(* Mutant: the release is marked done and the file left. *)
ReleaseLeaves(i) ==
  /\ Goes(i, "held", "idle")
  /\ UNCHANGED <<lock, written, left, attempt, seen, opens>>

(* The session closes and removes the lock by name. *)
Release(i) ==
  /\ Goes(i, "held", "idle")
  /\ lock' = Absent
  /\ written' = FALSE
  /\ left' = FALSE
  /\ UNCHANGED <<attempt, seen, opens>>

(* The removal fails, after the release was marked done.                   *)
ReleaseFails(i) ==
  /\ "disk" \in Faults
  /\ Goes(i, "held", "idle")
  /\ left' = (left \/ lock = i)
  /\ UNCHANGED <<lock, written, attempt, seen, opens>>

(* The process ends: it crashed, or its work was done. *)
Exit(i) ==
  /\ "exit" \in Faults
  /\ at[i] # "dead"
  /\ at' = [at EXCEPT ![i] = "dead"]
  /\ UNCHANGED <<lock, written, left, attempt, seen, opens>>

Opener(i) == Create(i) \/ WriteOwner(i) \/ ReadOwner(i) \/ Probe(i) \/ Remove(i)

LockNext ==
  \E i \in Processes : OpenRoot(i) \/ Opener(i) \/ Release(i) \/ DiskFails(i) \/ ReleaseFails(i) \/ Exit(i)

LockSpec == LockInit /\ [][LockNext]_lockVars

(* An opener runs its few system calls to the end unless its process dies. *)
LockFairSpec == LockSpec /\ \A i \in Processes : WF_lockVars(Opener(i))

-----------------------------------------------------------------------------
(* Types of the state. *)
LockTypeOK ==
  /\ lock \in Processes \union {Absent}
  /\ written \in BOOLEAN
  /\ left \in BOOLEAN
  /\ at \in [Processes -> Places]
  /\ attempt \in [Processes -> 0 .. 1]
  /\ seen \in [Processes -> Processes \union {Absent}]
  /\ opens \in [Processes -> 0 .. MaxOpens]

(* "One session attachment per root at a time, so two writers cannot each  *)
(* extend the event log from a different in-memory view."                  *)
OneWriter == \A i, j \in Processes : at[i] = "held" /\ at[j] = "held" => i = j

(* While no process has died the lock excludes: there is one writer, and   *)
(* it is the one the file names; nobody who was refused, and nobody who    *)
(* released the lock, has taken the file away.                             *)
AllLive == \A i \in Processes : at[i] # "dead"
LockNamesHolder == \A i \in Processes : at[i] = "held" => lock = i /\ written

ExclusiveWhileAllLive == AllLive => OneWriter /\ LockNamesHolder

(* A lock file is somebody's: its creator holds it, is about to, or died.  *)
(* False where a disk fails: the creator that could not write the file     *)
(* goes on and leaves it blank, and nobody ever takes a blank lock.        *)
NoOrphanOfTheLiving == lock # Absent => at[lock] \in {"write", "held", "dead"}

(* Only a failed call of its own creator leaves a lock of the living: no   *)
(* race, no retry, no other's removal and no failure of another's call.    *)
OnlyFailuresOrphan == NoOrphanOfTheLiving \/ left

(* A lock file keeps everybody else out, and only for somebody who will    *)
(* release it, has died, or was failed by the disk.                        *)
LockIsSound == OnlyFailuresOrphan /\ ExclusiveWhileAllLive

(* A lock a dead process left whole does not outlive it: an opener that is *)
(* left alone gets the lock, unless a call of its own fails.               *)
Alone(i) == \A j \in Processes \ {i} : at[j] = "dead"

StaleLockReplaced ==
  \A i \in Processes :
    Alone(i) /\ at[i] = "create" /\ attempt[i] = 0 /\ (lock = Absent \/ (written /\ lock # i))
      ~> at[i] \in {"held", "failed", "dead"}
===============================================================================
