--------------------------------- MODULE FrameLog ---------------------------------
(***************************************************************************)
(* The frame log of storage/log.ts, as operators on one file: what each    *)
(* system call, a stop of the machine and damage of the medium make of it. *)
(* EventStore, EvidenceLedger and CaptureLog are written over it.          *)
(*                                                                         *)
(* A frame is the record it holds.  A log has the frames a reader accepts, *)
(* what ends them, the frames behind that which nobody reads, and how many *)
(* of the accepted frames a stop of the machine cannot take.               *)
(***************************************************************************)
EXTENDS Naturals, Sequences

Rests == {"none", "torn", "corrupt"}

Logs(R) == [frames : Seq(R), rest : Rests, behind : Seq(R), synced : Nat]

EmptyLog == [frames |-> << >>, rest |-> "none", behind |-> << >>, synced |-> 0]

Held(s) == {s[i] : i \in 1 .. Len(s)}

(* The whole frame is written at the end of the file.  Behind a torn frame *)
(* its bytes are not found, or are taken for the rest of that frame, whose *)
(* digest then fails.                                                      *)
Written(log, r) ==
  IF log.rest = "none" THEN {[log EXCEPT !.frames = Append(@, r)]}
  ELSE {[log EXCEPT !.behind = Append(@, r), !.rest = rest] : rest \in {log.rest, "corrupt"}}

(* A part of the frame is written. *)
HalfWritten(log) == IF log.rest = "none" THEN [log EXCEPT !.rest = "torn"] ELSE log

(* Mutant: the file is not synced. *)
NotSynced(log) == log

(* Mutant: a torn frame is counted with the others. *)
SyncsOneTooMany(log) == [log EXCEPT !.synced = Len(log.frames) + 1]

(* The file is synced. *)
Synced(log) == [log EXCEPT !.synced = Len(log.frames)]

(* The first frames, in a new synced file that takes the place of the log. *)
CutTo(log, k) ==
  [frames |-> SubSeq(log.frames, 1, k), rest |-> "none", behind |-> << >>, synced |-> k]

(* The same, with the new name of the file not yet made to last. *)
CutUnsynced(log, k) == [CutTo(log, k) EXCEPT !.synced = log.synced]

(* The machine stops: of what was not synced any part from the front is    *)
(* left, the last of it possibly torn.  What is left has lasted.           *)
AfterStop(log) ==
  {Synced(log)} \union
  {[CutTo(log, k) EXCEPT !.rest = rest] :
     k \in log.synced .. Len(log.frames) - 1, rest \in {"none", "torn"}}

(* The medium damages synced frame k: its digest no longer verifies, or    *)
(* its length now reaches past the end of the file.                        *)
Damaged(log, k) ==
  {[frames |-> SubSeq(log.frames, 1, k - 1), rest |-> rest, synced |-> k - 1,
    behind |-> SubSeq(log.frames, k + 1, Len(log.frames))] : rest \in {"torn", "corrupt"}}
===============================================================================
