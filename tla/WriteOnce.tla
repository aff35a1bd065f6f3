------------------------------ MODULE WriteOnce ------------------------------
(***************************************************************************)
(* Write-once record files (storage/write-once.ts): the attempt records    *)
(* and verification receipts of DEVELOP.  Several processes write records  *)
(* into one directory with no lock.  A record is written whole into a      *)
(* temporary file, fsynced, and hard-linked to its final name, which the   *)
(* file system refuses when the name exists.  Writers may stall, fail at   *)
(* any system call, or die; the machine may lose power.                    *)
(***************************************************************************)
EXTENDS Naturals

CONSTANTS
  Writers,    \* the processes
  Names,      \* final names in the directory
  MaxCalls,   \* bound: how many calls one writer makes, over all its lives
  None        \* no file, no call

ASSUME MaxCallsAssumption == MaxCalls \in Nat \ {0}
ASSUME NoneAssumption == None \notin Names \union (Writers \X (1 .. MaxCalls))

(* A call is the writer and its number.  It stands for its random temporary  *)
(* name, its inode and its bytes: no two calls share any of them.            *)
Calls == Writers \X (1 .. MaxCalls)

VARIABLES
  pc,         \* pc[w]: where w is in writeOnceSyncV0
  call,       \* call[w]: the number of w's current or last call
  target,     \* target[c]: the final name call c writes
  temporary,  \* the calls whose temporary name exists in the directory
  old,        \* the temporary files at least a minute old
  body,       \* body[c]: what the inode holds of c's record
  final,      \* final[n]: the call whose inode the final name n links, or None
  flushed,    \* the final names whose directory entry was fsynced
  result      \* result[c]: what c returned, "pending" until it does

vars == <<pc, call, target, temporary, old, body, final, flushed, result>>

Steps == {"idle", "sweep", "opened", "written", "synced", "linked", "kept", "cleanup"}

(* Less than all of the record, all of it, or all of it fsynced. *)
Bodies == {"partial", "whole", "durable"}

Results == {"pending", "created", "exists", "failed"}

Current(w) == <<w, call[w]>>

(* What a reader of a final name is given: nothing, or the linked bytes. *)
Read(n) == IF final[n] = None THEN None ELSE body[final[n]]

Init ==
  /\ pc = [w \in Writers |-> "idle"]
  /\ call = [w \in Writers |-> 0]
  /\ target = [c \in Calls |-> None]
  /\ temporary = {}
  /\ old = {}
  /\ body = [c \in Calls |-> "partial"]
  /\ final = [n \in Names |-> None]
  /\ flushed = {}
  /\ result = [c \in Calls |-> "pending"]

At(w, from, to) == pc[w] = from /\ pc' = [pc EXCEPT ![w] = to]

(* The caller asks for a record named n.  MaxCalls bounds the calls of a writer. *)
Begin(w, n) ==
  /\ At(w, "idle", "sweep")
  /\ call[w] < MaxCalls
  /\ call' = [call EXCEPT ![w] = @ + 1]
  /\ target' = [target EXCEPT ![<<w, call[w] + 1>>] = n]
  /\ UNCHANGED <<temporary, old, body, final, flushed, result>>

(* The sweep removes temporary files that are a minute old, whoever made   *)
(* them.  It may stop early: any error ends it quietly.                    *)
Sweep(w, c) ==
  /\ pc[w] = "sweep"
  /\ c \in temporary \intersect old
  /\ temporary' = temporary \ {c}
  /\ old' = old \ {c}
  /\ UNCHANGED <<pc, call, target, body, final, flushed, result>>

(* O_CREAT|O_EXCL of a fresh random name. *)
Open(w) ==
  /\ At(w, "sweep", "opened")
  /\ temporary' = temporary \union {Current(w)}
  /\ UNCHANGED <<call, target, old, body, final, flushed, result>>

Write(w) ==
  /\ At(w, "opened", "written")
  /\ body' = [body EXCEPT ![Current(w)] = "whole"]
  /\ UNCHANGED <<call, target, temporary, old, final, flushed, result>>

NoFsync(w) ==   \* mutant: the bytes are linked without being fsynced
  /\ At(w, "written", "synced")
  /\ UNCHANGED <<call, target, temporary, old, body, final, flushed, result>>

Fsync(w) ==
  /\ At(w, "written", "synced")
  /\ body' = [body EXCEPT ![Current(w)] = "durable"]
  /\ UNCHANGED <<call, target, temporary, old, final, flushed, result>>

(* Any system call up to the link may fail (a short write throws and       *)
(* leaves part of the bytes); so may the beforeLink hook.  Everything from *)
(* here runs through the finally block, which removes the temporary name.  *)
Fail(w) ==
  /\ pc[w] \in {"sweep", "opened", "written", "synced"}
  /\ pc' = [pc EXCEPT ![w] = "cleanup"]
  /\ result' = [result EXCEPT ![Current(w)] = "failed"]
  /\ UNCHANGED <<call, target, temporary, old, body, final, flushed>>

(* Mutant: the record is renamed into place, which replaces what is there. *)
LinkByRename(w) ==
  /\ At(w, "synced", "linked")
  /\ Current(w) \in temporary
  /\ final' = [final EXCEPT ![target[Current(w)]] = Current(w)]
  /\ UNCHANGED <<call, target, temporary, old, body, flushed, result>>

(* linkSync: the name is free and the temporary name is still there. *)
Link(w) ==
  LET c == Current(w)
      n == target[c]
  IN  /\ At(w, "synced", "linked")
      /\ c \in temporary
      /\ final[n] = None
      /\ final' = [final EXCEPT ![n] = c]
      /\ UNCHANGED <<call, target, temporary, old, body, flushed, result>>

(* Mutants of the refused link: a taken name reported as this call's own   *)
(* record, the raw errno returned, and a missing temporary file not caught.*)
RefusedAs(w, c, taken, missing) ==
  /\ At(w, "synced", "cleanup")
  /\ \/ c \notin temporary /\ result' = [result EXCEPT ![c] = missing]
     \/ c \in temporary /\ final[target[c]] # None /\ result' = [result EXCEPT ![c] = taken]
  /\ UNCHANGED <<call, target, temporary, old, body, final, flushed>>
LinkRefusedAsCreated(w) == RefusedAs(w, Current(w), "created", "failed")
LinkRefusedErrno(w) == RefusedAs(w, Current(w), "EEXIST", "failed")
LinkRefusedUncaught(w) == Current(w) \in temporary /\ RefusedAs(w, Current(w), "exists", "failed")

(* linkSync refused: the final name exists (EEXIST) or, when a sweep took  *)
(* the stalled writer's temporary file away, there is nothing to link.     *)
LinkRefused(w) ==
  LET c == Current(w)
      n == target[c]
  IN  /\ At(w, "synced", "cleanup")
      /\ \/ c \notin temporary /\ result' = [result EXCEPT ![c] = "failed"]
         \/ /\ c \in temporary
            /\ final[n] # None
            /\ result' = [result EXCEPT ![c] = "exists"]
      /\ UNCHANGED <<call, target, temporary, old, body, final, flushed>>

(* The directory is fsynced, best effort: a failure here is swallowed. *)
SyncDirectory(w) ==
  /\ At(w, "linked", "kept")
  /\ flushed' \in {flushed, {n \in Names : final[n] # None}}
  /\ UNCHANGED <<call, target, temporary, old, body, final, result>>

(* Mutant: a directory that cannot be fsynced is reported as a failure. *)
CreatedOrFailed(w) ==
  /\ At(w, "kept", "cleanup")
  /\ \E answer \in {"created", "failed"} : result' = [result EXCEPT ![Current(w)] = answer]
  /\ UNCHANGED <<call, target, temporary, old, body, final, flushed>>

(* The call has created the record whatever became of the fsync. *)
Created(w) ==
  /\ At(w, "kept", "cleanup")
  /\ result' = [result EXCEPT ![Current(w)] = "created"]
  /\ UNCHANGED <<call, target, temporary, old, body, final, flushed>>

(* The finally block: the temporary name is removed (or left for a sweep   *)
(* when even that fails) and the call returns.                             *)
Return(w) ==
  LET c == Current(w) IN
  /\ At(w, "cleanup", "idle")
  /\ \/ temporary' = temporary \ {c} /\ old' = old \ {c}
     \/ UNCHANGED <<temporary, old>>
  /\ UNCHANGED <<call, target, body, final, flushed, result>>

(* A minute passes over a temporary file: its writer crashed or stalled. *)
GrowOld(c) ==
  /\ c \in temporary \ old
  /\ old' = old \union {c}
  /\ UNCHANGED <<pc, call, target, temporary, body, final, flushed, result>>

(* The writer dies between two steps; what is on disk stays. *)
Crash(w) ==
  /\ pc[w] # "idle"
  /\ pc' = [pc EXCEPT ![w] = "idle"]
  /\ UNCHANGED <<call, target, temporary, old, body, final, flushed, result>>

(* Power is lost.  Every process dies; bytes that were not fsynced may be  *)
(* cut short and directory entries that were not fsynced may be gone.      *)
PowerLoss ==
  /\ pc' = [w \in Writers |-> "idle"]
  /\ body' \in {body, [c \in Calls |-> IF body[c] = "whole" THEN "partial" ELSE body[c]]}
  /\ \E gone \in SUBSET (Names \ flushed) :
       final' = [n \in Names |-> IF n \in gone THEN None ELSE final[n]]
  /\ temporary' \in {temporary, {}}
  /\ old' = old \intersect temporary'
  /\ flushed' = {n \in Names : final'[n] # None}
  /\ UNCHANGED <<call, target, result>>

Step(w) ==
  \/ \E n \in Names : Begin(w, n)
  \/ \E c \in Calls : Sweep(w, c)
  \/ Open(w) \/ Write(w) \/ Fsync(w) \/ Fail(w)
  \/ Link(w) \/ LinkRefused(w) \/ SyncDirectory(w) \/ Created(w) \/ Return(w)

Next ==
  \/ \E w \in Writers : Step(w) \/ Crash(w)
  \/ \E c \in Calls : GrowOld(c)
  \/ PowerLoss

Spec == Init /\ [][Next]_vars

(* A call is synchronous code: a process that is not killed runs it to the *)
(* end.  Only what leaves a program point is fair, not the choice to begin.*)
Progress(w) ==
  Open(w) \/ Write(w) \/ Fsync(w) \/ Link(w) \/ LinkRefused(w)
    \/ SyncDirectory(w) \/ Created(w) \/ Return(w)

FairSpec == Spec /\ \A w \in Writers : WF_vars(Progress(w))
-----------------------------------------------------------------------------
(* Properties.                                                             *)

TypeOK ==
  /\ pc \in [Writers -> Steps]
  /\ call \in [Writers -> 0 .. MaxCalls]
  /\ target \in [Calls -> Names \union {None}]
  /\ temporary \subseteq Calls
  /\ old \subseteq temporary
  /\ body \in [Calls -> Bodies]
  /\ final \in [Names -> Calls \union {None}]
  /\ flushed \subseteq Names
  /\ result \in [Calls -> Results]

(* A reader sees a record whole or not at all (write-once.ts:7): whatever  *)
(* a name links was written whole and made durable before it was linked,   *)
(* so not even a power loss can tear it.                                   *)
WholeRecords ==
  \A n \in Names :
    /\ Read(n) \in {None, "durable"}
    /\ final[n] # None => target[final[n]] = n

(* "failed: nothing was written" and "exists: left as it is" are true for  *)
(* ever: the bytes of such a call are under no final name, whichever       *)
(* system call failed and whatever a sweep removed meanwhile.              *)
RefusedLeftNothing ==
  \A c \in Calls : result[c] \in {"failed", "exists"} =>
    \A n \in Names : final[n] # c

(* No half record and no half answer: what a name links is whole, and what *)
(* was refused is under no name.                                           *)
NothingByHalves == WholeRecords /\ RefusedLeftNothing

(* A record is never replaced and never removed by any writer; only a power *)
(* loss takes one, and never one whose name was made durable.               *)
NeverReplaced ==
  [][\A n \in Names : final[n] # None /\ final'[n] # final[n] =>
        n \notin flushed /\ final'[n] = None /\ \A w \in Writers : pc'[w] = "idle"]_vars

(* No writer waits for another: a call that is not killed returns. *)
CallsReturn == \A w \in Writers : (pc[w] # "idle") ~> (pc[w] = "idle")

(* The directory implements the write-once records its callers rely on. *)
Record == INSTANCE WriteOnceRecord
  WITH held <- final, durable <- flushed, told <- result, wants <- target
RecordSpec == Record!Spec
=============================================================================
