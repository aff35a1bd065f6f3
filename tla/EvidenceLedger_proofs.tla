------------------------- MODULE EvidenceLedger_proofs -------------------------
(***************************************************************************)
(* The durable evidence ledger, for any set of records and references: a   *)
(* record whose append returned is never lost, and a ledger whose identity *)
(* file was written when it was due replays, opens again and shows its log *)
(* after any failure and any stop, as long as its snapshot covers nothing  *)
(* that was not synced.                                                    *)
(***************************************************************************)
EXTENDS EvidenceLedger, TLAPS

(* What the operations of a file make of its fields.                       *)

LEMMA HeldAppend ==
  ASSUME NEW R, NEW s \in Seq(R), NEW r \in R
  PROVE  /\ Append(s, r) \in Seq(R)
         /\ Held(Append(s, r)) = Held(s) \union {r}
<1> DEFINE t == Append(s, r)
<1>1. t \in Seq(R) /\ Len(t) = Len(s) + 1 /\ t[Len(s) + 1] = r /\ \A i \in 1 .. Len(s) : t[i] = s[i]
  OBVIOUS
<1>2. 1 .. Len(t) = (1 .. Len(s)) \union {Len(s) + 1}
  BY <1>1
<1> HIDE DEF t
<1>3. Held(t) = Held(s) \union {r}
  BY <1>1, <1>2 DEF Held
<1> QED BY <1>1, <1>3 DEF t

LEMMA Prefix ==
  ASSUME NEW R, NEW s \in Seq(R), NEW k \in 0 .. Len(s)
  PROVE  /\ SubSeq(s, 1, k) \in Seq(R) /\ Len(SubSeq(s, 1, k)) = k
         /\ \A i \in 1 .. k : SubSeq(s, 1, k)[i] = s[i]
         /\ Held(SubSeq(s, 1, k)) = {s[i] : i \in 1 .. k}
<1>1. /\ SubSeq(s, 1, k) \in Seq(R) /\ Len(SubSeq(s, 1, k)) = k
      /\ \A i \in 1 .. k : SubSeq(s, 1, k)[i] = s[i]
  OBVIOUS
<1> QED BY <1>1 DEF Held

LEMMA WrittenFields ==
  ASSUME NEW R, NEW file \in Logs(R), NEW r \in R, NEW new \in Written(file, r)
  PROVE  /\ new \in Logs(R) /\ new.synced = file.synced
         /\ file.rest = "none" =>
              new.frames = Append(file.frames, r) /\ new.rest = "none"
         /\ file.rest # "none" =>
              new.frames = file.frames /\ new.rest # "none"
<1>1. CASE file.rest = "none"
  <2>1. new = [file EXCEPT !.frames = Append(@, r)]
    BY <1>1 DEF Written
  <2> QED BY <1>1, <2>1, HeldAppend DEF Logs
<1>2. CASE file.rest # "none"
  <2>1. PICK rest \in {file.rest, "corrupt"} : new = [file EXCEPT !.behind = Append(@, r), !.rest = rest]
    BY <1>2 DEF Written
  <2>2. rest \in Rests /\ rest # "none"
    BY <1>2 DEF Logs, Rests
  <2> QED BY <1>2, <2>1, <2>2, HeldAppend DEF Logs
<1> QED BY <1>1, <1>2

LEMMA CutFields ==
  ASSUME NEW R, NEW file \in Logs(R), NEW k \in 0 .. Len(file.frames)
  PROVE  /\ CutTo(file, k) \in Logs(R)
         /\ CutTo(file, k).frames = SubSeq(file.frames, 1, k) /\ CutTo(file, k).behind = << >>
         /\ CutTo(file, k).rest = "none" /\ CutTo(file, k).synced = k
<1>1. SubSeq(file.frames, 1, k) \in Seq(R) /\ << >> \in Seq(R)
  BY Prefix DEF Logs
<1> QED BY <1>1 DEF CutTo, Logs, Rests

LEMMA UnsyncedFields ==
  ASSUME NEW R, NEW file \in Logs(R), NEW k \in 0 .. Len(file.frames)
  PROVE  /\ CutUnsynced(file, k) \in Logs(R)
         /\ CutUnsynced(file, k).frames = SubSeq(file.frames, 1, k) /\ CutUnsynced(file, k).behind = << >>
         /\ CutUnsynced(file, k).rest = "none" /\ CutUnsynced(file, k).synced = file.synced
<1> DEFINE cut == CutTo(file, k)
<1>1. /\ cut \in Logs(R) /\ cut.frames = SubSeq(file.frames, 1, k)
      /\ cut.behind = << >> /\ cut.rest = "none"
  BY CutFields
<1>2. CutUnsynced(file, k) = [cut EXCEPT !.synced = file.synced]
  BY DEF CutUnsynced
<1> HIDE DEF cut
<1> QED BY <1>1, <1>2 DEF Logs

LEMMA StopFields ==
  ASSUME NEW R, NEW file \in Logs(R), NEW new \in AfterStop(file)
  PROVE  \/ new = [file EXCEPT !.synced = Len(file.frames)]
         \/ \E k \in file.synced .. Len(file.frames) - 1 :
              /\ new \in Logs(R) /\ new.frames = SubSeq(file.frames, 1, k)
              /\ new.synced = k /\ new.behind = << >>
<1>1. ASSUME NEW k \in file.synced .. Len(file.frames) - 1, NEW rest \in {"none", "torn"},
             new = [CutTo(file, k) EXCEPT !.rest = rest]
      PROVE  /\ new \in Logs(R) /\ new.frames = SubSeq(file.frames, 1, k)
             /\ new.synced = k /\ new.behind = << >>
  <2>1. k \in 0 .. Len(file.frames)
    BY DEF Logs
  <2> DEFINE cut == CutTo(file, k)
  <2>2. cut \in Logs(R) /\ cut.frames = SubSeq(file.frames, 1, k) /\ cut.behind = << >> /\ cut.synced = k
    BY <2>1, CutFields
  <2>3. new = [cut EXCEPT !.rest = rest]
    BY <1>1
  <2> HIDE DEF cut
  <2> QED BY <2>2, <2>3 DEF Logs, Rests
<1> QED BY <1>1 DEF AfterStop, Synced

(* What a prefix, or one record more, means to the replay.                 *)

LEMMA PrefixOfPrefix ==
  ASSUME NEW R, NEW s \in Seq(R), NEW k \in 0 .. Len(s), NEW m \in 0 .. k
  PROVE  SubSeq(SubSeq(s, 1, k), 1, m) = SubSeq(s, 1, m)
<1> DEFINE t == SubSeq(s, 1, k)
<1>1. t \in Seq(R) /\ Len(t) = k /\ \A i \in 1 .. k : t[i] = s[i]
  BY Prefix
<1>2. m \in 0 .. Len(s) /\ m \in 0 .. Len(t)
  BY <1>1
<1> HIDE DEF t
<1>3. SubSeq(t, 1, m) \in Seq(R) /\ Len(SubSeq(t, 1, m)) = m /\ \A i \in 1 .. m : SubSeq(t, 1, m)[i] = t[i]
  BY <1>1, <1>2, Prefix
<1>4. SubSeq(s, 1, m) \in Seq(R) /\ Len(SubSeq(s, 1, m)) = m /\ \A i \in 1 .. m : SubSeq(s, 1, m)[i] = s[i]
  BY <1>2, Prefix
<1>5. SubSeq(t, 1, m) = SubSeq(s, 1, m)
  BY <1>1, <1>3, <1>4
<1> QED BY <1>5 DEF t

LEMMA PrefixOfAppend ==
  ASSUME NEW R, NEW s \in Seq(R), NEW r \in R, NEW m \in 0 .. Len(s)
  PROVE  SubSeq(Append(s, r), 1, m) = SubSeq(s, 1, m)
<1> DEFINE t == Append(s, r)
<1>1. t \in Seq(R) /\ Len(t) = Len(s) + 1 /\ \A i \in 1 .. Len(s) : t[i] = s[i]
  OBVIOUS
<1>2. m \in 0 .. Len(t)
  BY <1>1
<1> HIDE DEF t
<1>3. SubSeq(t, 1, m) \in Seq(R) /\ Len(SubSeq(t, 1, m)) = m /\ \A i \in 1 .. m : SubSeq(t, 1, m)[i] = t[i]
  BY <1>1, <1>2, Prefix
<1>4. SubSeq(s, 1, m) \in Seq(R) /\ Len(SubSeq(s, 1, m)) = m /\ \A i \in 1 .. m : SubSeq(s, 1, m)[i] = s[i]
  BY Prefix
<1>5. SubSeq(t, 1, m) = SubSeq(s, 1, m)
  BY <1>1, <1>3, <1>4
<1> QED BY <1>5 DEF t

LEMMA Whole ==
  ASSUME NEW R, NEW s \in Seq(R)
  PROVE  SubSeq(s, 1, Len(s)) = s
OBVIOUS

LEMMA ReplaysPrefix ==
  ASSUME NEW R, NEW s \in Seq(R), NEW k \in 0 .. Len(s), Replays(s)
  PROVE  Replays(SubSeq(s, 1, k))
<1> DEFINE t == SubSeq(s, 1, k)
<1>1. Len(t) = k /\ \A i \in 1 .. k : t[i] = s[i]
  BY Prefix
<1>2. ASSUME NEW i \in 1 .. k PROVE SubSeq(t, 1, i - 1) = SubSeq(s, 1, i - 1) /\ i \in 1 .. Len(s)
  BY PrefixOfPrefix
<1> HIDE DEF t
<1>3. Replays(t)
  BY <1>1, <1>2 DEF Replays
<1> QED BY <1>3 DEF t

LEMMA ReplaysAppend ==
  ASSUME NEW R, NEW s \in Seq(R), NEW r \in R, Replays(s), Takes(s, r)
  PROVE  Replays(Append(s, r))
<1> DEFINE t == Append(s, r)
<1>1. /\ Len(s) \in Nat /\ Len(t) = Len(s) + 1 /\ t[Len(s) + 1] = r
      /\ \A i \in 1 .. Len(s) : t[i] = s[i]
  OBVIOUS
<1>2. \A m \in 0 .. Len(s) : SubSeq(t, 1, m) = SubSeq(s, 1, m)
  BY PrefixOfAppend
<1>3. SubSeq(s, 1, Len(s)) = s
  BY Whole
<1> HIDE DEF t
<1>4. ASSUME NEW i \in 1 .. Len(t) PROVE Takes(SubSeq(t, 1, i - 1), t[i])
  <2>1. CASE i \in 1 .. Len(s)
    <3>1. i - 1 \in 0 .. Len(s)
      BY <1>1, <2>1
    <3>2. SubSeq(t, 1, i - 1) = SubSeq(s, 1, i - 1) /\ t[i] = s[i]
      BY <1>1, <1>2, <2>1, <3>1
    <3> QED BY <2>1, <3>2 DEF Replays
  <2>2. CASE i = Len(s) + 1
    <3>1. i - 1 = Len(s) /\ Len(s) \in 0 .. Len(s)
      BY <1>1, <2>2
    <3>2. SubSeq(t, 1, i - 1) = s
      BY <1>2, <1>3, <3>1
    <3> QED BY <1>1, <2>2, <3>2
  <2> QED BY <1>1, <2>1, <2>2
<1> QED BY <1>4 DEF Replays, t

-----------------------------------------------------------------------------
(* Types, and what each step of an open ledger finds: the memory is never  *)
(* behind the log, and is ahead of it while a record is being appended.    *)

Sound(file) == file \in Logs(Records) /\ file.synced <= Len(file.frames)

Appending ==
  /\ log.rest # "corrupt"
  /\ pc \in {"ready", "identity", "append", "sync", "snapshot", "compact"} =>
       log.rest = "none" /\ Len(log.frames) <= Len(mem)
  /\ pc = "loaded" => Len(log.frames) = Len(mem)
  /\ pc \in {"identity", "append"} => Len(log.frames) < Len(mem) /\ doing \in Records
  /\ pc = "sync" =>
       doing \in Records /\ log.synced < Len(log.frames) /\ log.frames[Len(log.frames)] = doing

Base == TypeOK /\ Appending

(* What a step makes of the log: it adds the record being appended, or a   *)
(* stop of the machine leaves a front of it, or the frames stay.           *)
Adds ==
  /\ Write
  /\ log'.frames = Append(log.frames, doing)
  /\ log'.synced = log.synced
  /\ log'.rest = "none"

Stops ==
  /\ MachineStops
  /\ \E k \in log.synced .. Len(log.frames) : log'.frames = SubSeq(log.frames, 1, k) /\ log'.synced = k

Stays ==
  /\ log'.frames = log.frames
  /\ log'.synced \in log.synced .. Len(log.frames)
  /\ ~ Write

LEMMA Ways ==
  ASSUME Base, [Next]_vars
  PROVE  Sound(log') /\ (Adds \/ Stops \/ Stays)
<1>1. /\ log \in Logs(Records) /\ log.synced \in Nat /\ log.synced <= Len(log.frames)
      /\ log.frames \in Seq(Records) /\ Len(log.frames) \in Nat
      /\ mem \in Seq(Records) /\ Len(mem) \in Nat
  BY DEF Base, TypeOK, Logs
<1>2. Len(log.frames) \in 0 .. Len(log.frames) /\ SubSeq(log.frames, 1, Len(log.frames)) = log.frames
  BY <1>1, Whole
<1>3. CASE Write
  <2>1. doing \in Records /\ log.rest = "none" /\ log' \in Written(log, doing)
    BY <1>3 DEF Write, Base, Appending
  <2>2. log' \in Logs(Records) /\ log'.synced = log.synced /\ log'.frames = Append(log.frames, doing) /\ log'.rest = "none"
    BY <1>1, <2>1, WrittenFields
  <2>3. Len(log'.frames) = Len(log.frames) + 1
    BY <1>1, <2>1, <2>2
  <2> QED BY <1>1, <1>3, <2>2, <2>3 DEF Sound, Adds
<1>4. CASE MachineStops
  <2>1. log' \in AfterStop(log)
    BY <1>4 DEF MachineStops
  <2>2. CASE log' = [log EXCEPT !.synced = Len(log.frames)]
    <3>1. log' \in Logs(Records) /\ log'.frames = log.frames /\ log'.synced = Len(log.frames)
      BY <1>1, <2>2 DEF Logs
    <3>2. Len(log.frames) \in log.synced .. Len(log.frames)
      BY <1>1
    <3> QED BY <1>1, <1>2, <1>4, <3>1, <3>2 DEF Sound, Stops
  <2>3. ASSUME NEW k \in log.synced .. Len(log.frames) - 1,
               log' \in Logs(Records), log'.frames = SubSeq(log.frames, 1, k), log'.synced = k
        PROVE  Sound(log') /\ Stops
    <3>1. k \in 0 .. Len(log.frames) /\ k \in log.synced .. Len(log.frames)
      BY <1>1
    <3>2. Len(log'.frames) = k
      BY <1>1, <2>3, <3>1, Prefix
    <3> QED BY <1>1, <1>4, <2>3, <3>1, <3>2 DEF Sound, Stops
  <2> QED BY <1>1, <2>1, <2>2, <2>3, StopFields
<1> DEFINE Kept == Sound(log') /\ log'.frames = log.frames /\ log'.synced \in log.synced .. Len(log.frames)
<1>5. ASSUME UNCHANGED log PROVE Kept
  BY <1>1, <1>5 DEF Sound
<1>6. ASSUME log' = Synced(log) PROVE Kept
  <2>1. log' \in Logs(Records) /\ log'.frames = log.frames /\ log'.synced = Len(log.frames)
    BY <1>1, <1>6 DEF Synced, Logs
  <2> QED BY <1>1, <2>1 DEF Sound
<1>7. ASSUME log' = HalfWritten(log) PROVE Kept
  <2>1. log' \in Logs(Records) /\ log'.frames = log.frames /\ log'.synced = log.synced
    BY <1>1, <1>7 DEF HalfWritten, Logs, Rests
  <2> QED BY <1>1, <2>1 DEF Sound
<1>8. ASSUME log' \in {CutTo(log, Len(log.frames)), CutUnsynced(log, Len(log.frames))} PROVE Kept
  <2>1. log' \in Logs(Records) /\ log'.frames = log.frames /\ log'.synced \in {log.synced, Len(log.frames)}
    BY <1>1, <1>2, <1>8, CutFields, UnsyncedFields
  <2> QED BY <1>1, <2>1 DEF Sound
<1>9. Write \/ MachineStops \/ log' \in {log, Synced(log), HalfWritten(log), CutTo(log, Len(log.frames)),
                                         CutUnsynced(log, Len(log.frames))}
  <2>1. CASE Compact \/ RewriteFails
    <3>1. UNCHANGED log \/ (Len(mem) = Len(log.frames) /\ log' \in {CutTo(log, Len(mem)), CutUnsynced(log, Len(mem))})
      <4>1. pc \in {"compact", "loaded"} /\ Len(mem) <= Len(log.frames) => Len(mem) = Len(log.frames)
        BY <1>1 DEF Base, Appending
      <4> QED BY <2>1, <4>1 DEF Compact, KeepsCovered, RewriteFails
    <3> QED BY <3>1
  <2> QED BY <2>1 DEF Next, vars, Open, Recover, Ingest, WriteIdentity, IdentityFails, Sync, WriteFails, BeginSnapshot,
                      WriteSnapshot, CompactRefused, Close, ProcessEnds
<1>10. CASE ~ Write /\ ~ MachineStops
  BY <1>5, <1>6, <1>7, <1>8, <1>9, <1>10 DEF Stays
<1> QED BY <1>3, <1>4, <1>10

LEMMA BaseInit == Init => Base
<1>1. EmptyLog \in Logs(Records) /\ EmptyLog.synced <= Len(EmptyLog.frames)
  BY DEF EmptyLog, Logs, Rests
<1>2. Init => TypeOK
  <2>1. << >> \in Seq(Records) /\ 0 \in 0 .. MaxOpens /\ {} \subseteq Records /\ None \in Records \union {None}
    BY LedgerAssumption
  <2> QED BY <1>1, <2>1 DEF Init, TypeOK, Steps
<1>3. Init => Appending
  BY DEF Init, EmptyLog, Appending
<1> QED BY <1>2, <1>3 DEF Base

LEMMA TypeNext == Base /\ [Next]_vars => TypeOK'
<1> SUFFICES ASSUME Base, [Next]_vars PROVE TypeOK'
  OBVIOUS
<1>1. log' \in Logs(Records) /\ log'.synced <= Len(log'.frames)
  BY Ways DEF Sound
<1>2. log.frames \in Seq(Records) /\ mem \in Seq(Records) /\ << >> \in Seq(Records)
  BY DEF Base, TypeOK, Logs
<1>3. mem' \in Seq(Records)
  <2>1. ASSUME NEW r \in Records, Ingest(r) PROVE mem' \in Seq(Records)
    BY <1>2, <2>1 DEF Ingest
  <2>2. mem' \in {mem, << >>, log.frames} \/ \E r \in Records : Ingest(r)
    BY DEF Next, vars, Open, Recover, WriteIdentity, IdentityFails, Write, Sync, WriteFails, BeginSnapshot, WriteSnapshot,
           Compact, CompactRefused, RewriteFails, Close, ProcessEnds, MachineStops, Down
  <2> QED BY <1>2, <2>1, <2>2
<1>4. acked' \in Seq(Records)
  <2>1. ASSUME Sync PROVE acked' \in Seq(Records)
    BY <2>1 DEF Sync, Base, TypeOK, Appending
  <2>2. acked' = acked \/ Sync
    BY DEF Next, vars, Open, Recover, Ingest, WriteIdentity, IdentityFails, Write, WriteFails, BeginSnapshot, WriteSnapshot,
           Compact, CompactRefused, RewriteFails, Close, ProcessEnds, MachineStops, Down
  <2> QED BY <2>1, <2>2 DEF Base, TypeOK
<1>5. snap' \in Seq(Records)
  <2>1. snap' \in {snap, mem}
    BY DEF Next, vars, Open, Recover, Ingest, WriteIdentity, IdentityFails, Write, Sync, WriteFails, BeginSnapshot,
           WriteSnapshot, Compact, CompactRefused, RewriteFails, Close, ProcessEnds, MachineStops, Down
  <2> QED BY <1>2, <2>1 DEF Base, TypeOK
<1>6. meta' \in BOOLEAN /\ metaSeen' \in BOOLEAN
  <2>1. meta' \in {meta, TRUE} \union BOOLEAN /\ metaSeen' \in {metaSeen, meta, TRUE, FALSE}
    BY DEF Next, vars, Open, Recover, Ingest, WriteIdentity, IdentityFails, Write, Sync, WriteFails, BeginSnapshot,
           WriteSnapshot, Compact, CompactRefused, RewriteFails, Close, ProcessEnds, MachineStops, Down
  <2> QED BY <2>1 DEF Base, TypeOK
<1>7. doing' \in Records \union {None} /\ unnamed' \subseteq Records
  <2>1. doing' \in {doing, None} \union Records
    BY DEF Next, vars, Open, Recover, Ingest, WriteIdentity, IdentityFails, Write, Sync, WriteFails, BeginSnapshot,
           WriteSnapshot, Compact, CompactRefused, RewriteFails, Close, ProcessEnds, MachineStops, Down
  <2>2. unnamed' = unnamed \/ (pc = "identity" /\ unnamed' = unnamed \union {doing})
    BY DEF Next, vars, Open, Recover, Ingest, WriteIdentity, IdentityFails, Write, Sync, WriteFails, BeginSnapshot,
           WriteSnapshot, Compact, CompactRefused, RewriteFails, Close, ProcessEnds, MachineStops, Down
  <2> QED BY <2>1, <2>2 DEF Base, TypeOK, Appending
<1>8. opens' \in 0 .. MaxOpens
  <2>1. UNCHANGED opens \/ (opens < MaxOpens /\ opens' = opens + 1)
    BY DEF Next, vars, Open, Recover, Ingest, WriteIdentity, IdentityFails, Write, Sync, WriteFails, BeginSnapshot,
           WriteSnapshot, Compact, CompactRefused, RewriteFails, Close, ProcessEnds, MachineStops, Down
  <2> QED BY <2>1, LedgerAssumption DEF Base, TypeOK
<1>9. pc' \in Steps
  <2>1. pc' \in {pc, "down", "loaded", "ready", "append", "identity", "sync", "snapshot", "compact", "dead"}
    BY DEF Next, vars, Open, Recover, Ingest, WriteIdentity, IdentityFails, Write, Sync, WriteFails, Dies, BeginSnapshot,
           WriteSnapshot, Compact, CompactRefused, RewriteFails, Close, ProcessEnds, MachineStops, Down
  <2> QED BY <2>1 DEF Base, TypeOK, Steps
<1> QED BY <1>1, <1>3, <1>4, <1>5, <1>6, <1>7, <1>8, <1>9 DEF TypeOK

(* Only damage of the medium makes a digest fail: a stop leaves a torn     *)
(* frame, and nothing is written behind one.                               *)
LEMMA NeverCorrupt == Base /\ [Next]_vars => log'.rest # "corrupt"
<1> SUFFICES ASSUME Base, [Next]_vars PROVE log'.rest # "corrupt"
  OBVIOUS
<1>1. log \in Logs(Records) /\ log.rest # "corrupt"
  BY DEF Base, TypeOK, Appending
<1>2. CASE Write
  <2>1. ~ Stops /\ ~ Stays
    BY <1>2 DEF Write, Stops, MachineStops, Down, Stays
  <2> QED BY <2>1, Ways DEF Adds
<1>3. CASE log' \in AfterStop(log)
  <2>1. ASSUME NEW k \in log.synced .. Len(log.frames) - 1, NEW rest \in {"none", "torn"},
               log' = [CutTo(log, k) EXCEPT !.rest = rest]
        PROVE  log'.rest # "corrupt"
    BY <2>1 DEF CutTo
  <2>2. CASE log' = Synced(log)
    BY <1>1, <2>2 DEF Synced, Logs
  <2> QED BY <1>3, <2>1, <2>2 DEF AfterStop
<1>4. ASSUME NEW k, log' \in {CutTo(log, k), CutUnsynced(log, k)} PROVE log'.rest # "corrupt"
  BY <1>4 DEF CutTo, CutUnsynced
<1>5. CASE log' \in {log, Synced(log), HalfWritten(log)}
  <2>1. CASE log' = Synced(log)
    BY <1>1, <2>1 DEF Synced, Logs
  <2>2. CASE log' = HalfWritten(log)
    BY <1>1, <2>2 DEF HalfWritten, Logs
  <2> QED BY <1>1, <1>5, <2>1, <2>2
<1>6. \/ Write \/ log' \in AfterStop(log) \/ log' \in {log, Synced(log), HalfWritten(log)}
      \/ log' \in {CutTo(log, Len(mem)), CutUnsynced(log, Len(mem))} \/ log' = CutTo(log, Len(log.frames))
  BY DEF Next, vars, Open, Recover, Ingest, WriteIdentity, IdentityFails, Sync, WriteFails, BeginSnapshot, WriteSnapshot,
         Compact, KeepsCovered, CompactRefused, RewriteFails, Close, ProcessEnds, MachineStops, Down
<1> QED BY <1>2, <1>3, <1>4, <1>5, <1>6

LEMMA AppendingNext == Base /\ [Next]_vars => Appending'
<1> SUFFICES ASSUME Base, [Next]_vars PROVE Appending'
  OBVIOUS
<1>1. /\ log.frames \in Seq(Records) /\ Len(log.frames) \in Nat /\ log.synced \in Nat /\ log.synced <= Len(log.frames)
      /\ mem \in Seq(Records) /\ Len(mem) \in Nat /\ log.rest \in Rests /\ log'.rest # "corrupt"
  BY NeverCorrupt DEF Base, TypeOK, Logs
<1>2. CASE UNCHANGED vars
  BY <1>2 DEF vars, Base, Appending
<1>3. ASSUME NEW r \in Records, Ingest(r) PROVE Appending'
  <2>1. Len(mem') = Len(mem) + 1
    BY <1>1, <1>3 DEF Ingest
  <2> QED BY <1>1, <1>3, <2>1 DEF Ingest, Base, Appending
<1>4. CASE Write
  <2>1. Adds /\ doing \in Records
    BY <1>4, Ways DEF Stops, MachineStops, Down, Stays, Write, Base, Appending
  <2>2. Len(log'.frames) = Len(log.frames) + 1 /\ log'.frames[Len(log'.frames)] = doing
    <3>1. log'.frames = Append(log.frames, doing)
      BY <2>1 DEF Adds
    <3> QED BY <1>1, <2>1, <3>1
  <2>3. pc' = "sync" /\ UNCHANGED <<mem, doing>> /\ log'.rest = "none" /\ log'.synced = log.synced
        /\ Len(log.frames) < Len(mem)
    BY <1>4, <2>1 DEF Write, Adds, Base, Appending
  <2> QED BY <1>1, <2>1, <2>2, <2>3 DEF Appending
<1>5. CASE Open
  BY <1>1, <1>5 DEF Open, Base, Appending, Rests
<1>6. CASE Recover
  <2>1. log'.frames = log.frames /\ log'.rest = "none"
    BY <1>1, <1>6, Whole DEF Recover, CutTo
  <2> QED BY <1>1, <1>6, <2>1 DEF Recover, Base, Appending
<1>7. CASE Compact
  <2>1. Len(mem) = Len(log.frames)
    BY <1>1, <1>7 DEF Compact, Base, Appending
  <2>2. log'.frames = log.frames /\ log'.rest = "none"
    BY <1>1, <1>7, <2>1, Whole DEF Compact, KeepsCovered, CutTo
  <2> QED BY <1>1, <1>7, <2>1, <2>2 DEF Compact, Base, Appending
<1>8. CASE RewriteFails
  <2>1. CASE pc = "loaded"
    BY <1>1, <1>8, <2>1 DEF RewriteFails, Appending
  <2>2. CASE pc # "loaded" /\ UNCHANGED log
    BY <1>8, <2>2 DEF RewriteFails, Base, Appending
  <2>3. CASE pc # "loaded" /\ log' = CutUnsynced(log, Len(mem)) /\ Len(mem) <= Len(log.frames)
    <3>1. pc = "compact" \/ UNCHANGED log
      BY <1>8, <2>3 DEF RewriteFails
    <3>2. ASSUME pc = "compact" PROVE Appending'
      <4>1. Len(mem) = Len(log.frames)
        BY <1>1, <2>3, <3>2 DEF Base, Appending
      <4>2. Len(log.frames) \in 0 .. Len(log.frames) /\ log \in Logs(Records)
        BY <1>1 DEF Base, TypeOK
      <4>3. log' = CutUnsynced(log, Len(log.frames)) /\ SubSeq(log.frames, 1, Len(log.frames)) = log.frames
        BY <1>1, <2>3, <4>1, Whole
      <4>4. log'.frames = log.frames /\ log'.rest = "none"
        BY <4>2, <4>3, UnsyncedFields
      <4> QED BY <1>1, <1>8, <2>3, <4>1, <4>4, <3>2 DEF RewriteFails, Appending
    <3> QED BY <2>2, <2>3, <3>1, <3>2
  <2> QED BY <1>8, <2>1, <2>2, <2>3 DEF RewriteFails
<1>9. CASE Sync
  <2>1. log'.frames = log.frames /\ log'.rest = log.rest
    BY <1>9 DEF Sync, Synced, Base, TypeOK, Logs
  <2> QED BY <1>1, <1>9, <2>1 DEF Sync, Base, Appending
<1>10. CASE WriteIdentity \/ IdentityFails \/ BeginSnapshot \/ WriteSnapshot \/ CompactRefused
  BY <1>1, <1>10 DEF WriteIdentity, IdentityFails, BeginSnapshot, WriteSnapshot, CompactRefused, Base, Appending
<1>11. CASE WriteFails \/ Close \/ ProcessEnds \/ MachineStops
  <2>1. pc' \in {"down", "dead"}
    BY <1>11 DEF WriteFails, Dies, Close, ProcessEnds, MachineStops, Down
  <2> QED BY <1>1, <2>1 DEF Appending
<1> QED BY <1>2, <1>3, <1>4, <1>5, <1>6, <1>7, <1>8, <1>9, <1>10, <1>11 DEF Next

(* The memory of a ledger in use is never behind its log.                  *)
THEOREM BaseHolds == Spec => []Base
<1>1. Base /\ [Next]_vars => Base'
  BY TypeNext, AppendingNext DEF Base
<1> QED BY <1>1, BaseInit, PTL DEF Spec

(* Every variable keeps its type, for any records, references and opens.   *)
THEOREM TypeCorrect == Spec => []TypeOK
<1>1. Base => TypeOK
  BY DEF Base
<1> QED BY <1>1, BaseHolds, PTL

-----------------------------------------------------------------------------
(* What is kept.                                                           *)

(* An append adds to the end and is acknowledged once its frame is synced; *)
(* everything else leaves the synced frames where they are.                *)
LEMMA AckedNext == Base /\ AckedKept /\ [Next]_vars => AckedKept'
<1> SUFFICES ASSUME Base, AckedKept, [Next]_vars PROVE AckedKept'
  OBVIOUS
<1>1. PICK s, t, n, m : s = log.frames /\ t = log'.frames /\ n = log.synced /\ m = log'.synced
  OBVIOUS
<1>2. /\ s \in Seq(Records) /\ Len(s) \in Nat /\ n \in Nat /\ n <= Len(s) /\ acked \in Seq(Records) /\ Len(acked) \in Nat
      /\ t \in Seq(Records) /\ Len(t) \in Nat /\ m \in Nat /\ m <= Len(t)
  BY <1>1, Ways DEF Base, TypeOK, Logs, Sound
<1>3. n <= m /\ \A k \in 0 .. n : SubSeq(t, 1, k) = SubSeq(s, 1, k) /\ (k > 0 => t[k] = s[k])
  <2>1. CASE Adds
    <3>1. t = Append(s, doing) /\ doing \in Records /\ m = n
      BY <1>1, <2>1 DEF Adds, Write, Base, Appending
    <3>2. \A k \in 0 .. n : SubSeq(t, 1, k) = SubSeq(s, 1, k)
      BY <1>2, <3>1, PrefixOfAppend
    <3>3. \A k \in 1 .. n : t[k] = s[k]
      BY <1>2, <3>1
    <3> QED BY <1>2, <3>1, <3>2, <3>3
  <2>2. CASE Stops
    <3>1. PICK c \in n .. Len(s) : t = SubSeq(s, 1, c) /\ m = c
      BY <1>1, <2>2 DEF Stops
    <3>2. c \in 0 .. Len(s) /\ \A k \in 0 .. n : k \in 0 .. c
      BY <1>2, <3>1
    <3>3. \A k \in 0 .. n : SubSeq(t, 1, k) = SubSeq(s, 1, k)
      BY <1>2, <3>1, <3>2, PrefixOfPrefix
    <3>4. \A k \in 1 .. n : t[k] = s[k]
      BY <1>2, <3>1, <3>2, Prefix
    <3> QED BY <1>2, <3>1, <3>3, <3>4
  <2>3. CASE Stays
    BY <1>1, <1>2, <2>3 DEF Stays
  <2> QED BY <2>1, <2>2, <2>3, Ways
<1>4. ASSUME NEW i \in 1 .. Len(acked)
      PROVE  \E k \in 1 .. m : /\ t[k] = acked[i]
                               /\ \A j \in 1 .. i - 1 : acked[j] \in Held(SubSeq(t, 1, k - 1))
  <2>1. PICK k \in 1 .. n : /\ s[k] = acked[i]
                            /\ \A j \in 1 .. i - 1 : acked[j] \in Held(SubSeq(s, 1, k - 1))
    BY <1>1 DEF AckedKept
  <2>2. k \in 1 .. m /\ k \in 0 .. n /\ k - 1 \in 0 .. n /\ k > 0
    BY <1>2, <1>3, <2>1
  <2>3. t[k] = s[k] /\ SubSeq(t, 1, k - 1) = SubSeq(s, 1, k - 1)
    BY <1>3, <2>2
  <2> QED BY <2>1, <2>2, <2>3
<1>5. CASE UNCHANGED acked
  BY <1>1, <1>4, <1>5 DEF AckedKept
<1>6. CASE Sync
  <2>1. /\ pc = "sync" /\ acked' = Append(acked, doing) /\ t = s /\ m = Len(s)
        /\ n < Len(s) /\ s[Len(s)] = doing /\ doing \in Records
    BY <1>1, <1>6 DEF Sync, Synced, Base, TypeOK, Logs, Appending
  <2>2. /\ Len(acked') = Len(acked) + 1 /\ acked'[Len(acked) + 1] = doing
        /\ \A i \in 1 .. Len(acked) : acked'[i] = acked[i]
    BY <1>2, <2>1
  <2>3. ASSUME NEW j \in 1 .. Len(acked) PROVE acked[j] \in Held(SubSeq(t, 1, Len(s) - 1))
    <3>1. PICK k \in 1 .. n : s[k] = acked[j]
      BY <1>1 DEF AckedKept
    <3>2. Len(s) - 1 \in 0 .. Len(s) /\ k \in 1 .. Len(s) - 1
      BY <1>2, <2>1
    <3>3. Held(SubSeq(s, 1, Len(s) - 1)) = {s[i] : i \in 1 .. Len(s) - 1}
      BY <1>2, <3>2, Prefix
    <3> QED BY <2>1, <3>1, <3>2, <3>3
  <2>4. ASSUME NEW i \in 1 .. Len(acked')
        PROVE  \E k \in 1 .. m : /\ t[k] = acked'[i]
                                 /\ \A j \in 1 .. i - 1 : acked'[j] \in Held(SubSeq(t, 1, k - 1))
    <3>1. CASE i \in 1 .. Len(acked)
      <4>1. \A j \in 1 .. i - 1 : acked'[j] = acked[j]
        BY <1>2, <2>2, <3>1
      <4> QED BY <1>4, <2>2, <3>1, <4>1
    <3>2. CASE i = Len(acked) + 1
      <4>1. Len(s) \in 1 .. m /\ t[Len(s)] = acked'[i]
        BY <1>2, <2>1, <2>2, <3>2
      <4>2. \A j \in 1 .. i - 1 : acked'[j] \in Held(SubSeq(t, 1, Len(s) - 1))
        BY <1>2, <2>2, <2>3, <3>2
      <4> QED BY <4>1, <4>2
    <3> QED BY <1>2, <2>2, <3>1, <3>2
  <2> QED BY <1>1, <2>4 DEF AckedKept
<1> QED BY <1>5, <1>6 DEF Next, vars, Open, Recover, Ingest, WriteIdentity, IdentityFails, Write, WriteFails, BeginSnapshot,
          WriteSnapshot, Compact, CompactRefused, RewriteFails, Close, ProcessEnds, MachineStops, Down

(* A record whose append returned is in the log, synced, behind every      *)
(* record acknowledged before it, whatever fails, is recovered, compacted  *)
(* or stopped, and also when an identity file could not be written and the *)
(* memory has outrun the log (ledger.ts 233-243, log.ts).                  *)
THEOREM NothingAckedIsLost == Spec => []AckedKept
<1>1. Init => AckedKept
  BY DEF Init, AckedKept
<1> QED BY <1>1, AckedNext, BaseHolds, PTL DEF Spec

-----------------------------------------------------------------------------
(* A ledger whose identity file was written when it was due.               *)

(* The memory is the log, or ahead of it by the record being appended,     *)
(* which the log would take; the log replays; the identity file is there   *)
(* as soon as it is believed to be; and a snapshot that covers no more     *)
(* than the log is the front of it, which it is while the ledger is open.  *)
MemoryInv ==
  /\ pc \in {"loaded", "ready", "sync", "snapshot", "compact"} => mem = log.frames
  /\ pc \in {"identity", "append"} => mem = Append(log.frames, doing) /\ Takes(log.frames, doing)
  /\ Replays(log.frames)

IdentityInv ==
  /\ pc \in {"append", "sync"} => meta
  /\ pc \in {"loaded", "ready", "snapshot", "compact"} /\ metaSeen => meta
  /\ log.frames # << >> => meta

SnapshotInv ==
  /\ Len(snap) <= Len(log.frames) => snap = SubSeq(log.frames, 1, Len(snap))
  /\ pc # "down" => Len(snap) <= Len(log.frames)

(* What is unnamed stays so. *)
LEMMA NamedBefore == [Next]_vars /\ Named' => Named
  BY DEF Named, Next, vars, Open, Recover, Ingest, WriteIdentity, IdentityFails, Write, Sync, WriteFails, BeginSnapshot,
         WriteSnapshot, Compact, CompactRefused, RewriteFails, Close, ProcessEnds, MachineStops, Down

LEMMA MemoryNext ==
  ASSUME Base, MemoryInv, [Next]_vars, Named'
  PROVE  MemoryInv'
<1>1. /\ log.frames \in Seq(Records) /\ Len(log.frames) \in Nat /\ log.synced \in Nat /\ log.synced <= Len(log.frames)
  BY DEF Base, TypeOK, Logs
<1>2. CASE Adds
  <2>1. doing \in Records /\ mem = Append(log.frames, doing) /\ Takes(log.frames, doing) /\ Replays(log.frames)
    BY <1>2 DEF Adds, Write, Base, Appending, MemoryInv
  <2>2. Replays(log'.frames)
    BY <1>1, <1>2, <2>1, ReplaysAppend DEF Adds
  <2> QED BY <1>2, <2>1, <2>2 DEF Adds, Write, MemoryInv
<1>3. CASE Stops
  <2>1. PICK k \in log.synced .. Len(log.frames) : log'.frames = SubSeq(log.frames, 1, k)
    BY <1>3 DEF Stops
  <2>2. k \in 0 .. Len(log.frames) /\ Replays(log.frames)
    BY <1>1 DEF MemoryInv
  <2>3. Replays(log'.frames) /\ pc' = "down"
    BY <1>1, <1>3, <2>1, <2>2, ReplaysPrefix DEF Stops, MachineStops, Down
  <2> QED BY <2>3 DEF MemoryInv
<1>4. CASE Stays
  <2>1. log'.frames = log.frames /\ Replays(log.frames)
    BY <1>4 DEF Stays, MemoryInv
  <2>2. ASSUME NEW r \in Records, Ingest(r) PROVE MemoryInv'
    BY <2>1, <2>2 DEF Ingest, MemoryInv
  <2>3. CASE Open \/ Recover \/ WriteIdentity \/ BeginSnapshot \/ WriteSnapshot \/ Compact \/ CompactRefused \/ Sync
    BY <2>1, <2>3 DEF Open, Recover, WriteIdentity, BeginSnapshot, WriteSnapshot, Compact, CompactRefused, Sync, MemoryInv
  <2>4. CASE RewriteFails
    BY <2>1, <2>4 DEF RewriteFails, MemoryInv
  <2>5. CASE IdentityFails
    <3>1. doing \in unnamed'
      BY <2>5 DEF IdentityFails
    <3> QED BY <3>1 DEF Named
  <2>6. CASE WriteFails \/ Close \/ ProcessEnds \/ MachineStops
    <3>1. pc' \in {"down", "dead"}
      BY <2>6 DEF WriteFails, Dies, Close, ProcessEnds, MachineStops, Down
    <3> QED BY <2>1, <3>1 DEF MemoryInv
  <2>7. CASE UNCHANGED vars
    BY <2>7 DEF vars, MemoryInv
  <2> QED BY <1>4, <2>2, <2>3, <2>4, <2>5, <2>6, <2>7 DEF Next, Stays
<1> QED BY <1>2, <1>3, <1>4, Ways

LEMMA IdentityNext ==
  ASSUME Base, IdentityInv, [Next]_vars, Named'
  PROVE  IdentityInv'
<1>1. log.frames \in Seq(Records) /\ log.synced \in Nat /\ log.synced <= Len(log.frames) /\ meta \in BOOLEAN
  BY DEF Base, TypeOK, Logs
<1>2. CASE Adds
  BY <1>2 DEF Adds, Write, IdentityInv
<1>3. CASE Stops
  <2>1. log.frames = << >> => log'.frames = << >>
    BY <1>1, <1>3 DEF Stops
  <2> QED BY <1>3, <2>1 DEF Stops, MachineStops, Down, IdentityInv
<1>4. CASE Stays
  <2>1. log'.frames = log.frames
    BY <1>4 DEF Stays
  <2>2. ASSUME NEW r \in Records, Ingest(r) PROVE IdentityInv'
    BY <2>1, <2>2 DEF Ingest, IdentityInv
  <2>3. CASE Open \/ Recover \/ WriteIdentity \/ BeginSnapshot \/ WriteSnapshot \/ Compact \/ CompactRefused \/ Sync
    BY <2>1, <2>3 DEF Open, Recover, WriteIdentity, BeginSnapshot, WriteSnapshot, Compact, CompactRefused, Sync, IdentityInv
  <2>4. CASE RewriteFails
    BY <2>1, <2>4 DEF RewriteFails, IdentityInv
  <2>5. CASE IdentityFails
    <3>1. doing \in unnamed'
      BY <2>5 DEF IdentityFails
    <3> QED BY <3>1 DEF Named
  <2>6. CASE WriteFails \/ Close \/ ProcessEnds \/ MachineStops
    <3>1. pc' \in {"down", "dead"} /\ UNCHANGED meta
      BY <2>6 DEF WriteFails, Dies, Close, ProcessEnds, MachineStops, Down
    <3> QED BY <2>1, <3>1 DEF IdentityInv
  <2>7. CASE UNCHANGED vars
    BY <2>7 DEF vars, IdentityInv
  <2> QED BY <1>4, <2>2, <2>3, <2>4, <2>5, <2>6, <2>7 DEF Next, Stays
<1> QED BY <1>2, <1>3, <1>4, Ways

LEMMA SnapshotNext ==
  ASSUME Base, MemoryInv, SnapshotInv, [Next]_vars
  PROVE  SnapshotInv'
<1>1. /\ log.frames \in Seq(Records) /\ Len(log.frames) \in Nat /\ log.synced \in Nat /\ log.synced <= Len(log.frames)
      /\ snap \in Seq(Records) /\ Len(snap) \in Nat
  BY DEF Base, TypeOK, Logs
<1>2. CASE Adds
  <2>1. pc = "append" /\ doing \in Records /\ UNCHANGED snap /\ Len(snap) <= Len(log.frames)
    BY <1>2 DEF Adds, Write, Base, Appending, SnapshotInv
  <2>2. Len(log'.frames) = Len(log.frames) + 1
    BY <1>1, <1>2, <2>1 DEF Adds
  <2>3. SubSeq(log'.frames, 1, Len(snap)) = SubSeq(log.frames, 1, Len(snap))
    BY <1>1, <1>2, <2>1, PrefixOfAppend DEF Adds
  <2> QED BY <1>1, <2>1, <2>2, <2>3 DEF SnapshotInv
<1>3. CASE Stops
  <2>1. PICK k \in log.synced .. Len(log.frames) : log'.frames = SubSeq(log.frames, 1, k)
    BY <1>3 DEF Stops
  <2>2. k \in 0 .. Len(log.frames)
    BY <1>1
  <2>3. Len(log'.frames) = k /\ pc' = "down" /\ UNCHANGED snap
    <3>1. Len(log'.frames) = k
      BY <1>1, <2>1, <2>2, Prefix
    <3> QED BY <1>3, <3>1 DEF Stops, MachineStops, Down
  <2>4. ASSUME Len(snap) <= k PROVE snap = SubSeq(log'.frames, 1, Len(snap))
    <3>1. Len(snap) \in 0 .. k /\ Len(snap) <= Len(log.frames)
      BY <1>1, <2>2, <2>4
    <3> QED BY <1>1, <2>1, <2>2, <3>1, PrefixOfPrefix DEF SnapshotInv
  <2> QED BY <2>3, <2>4 DEF SnapshotInv
<1>4. CASE Stays
  <2>1. log'.frames = log.frames
    BY <1>4 DEF Stays
  <2>2. CASE UNCHANGED snap
    <3>1. pc' # "down" => pc # "down" \/ Open
      BY DEF Next, vars, Recover, Ingest, WriteIdentity, IdentityFails, Write, Sync, WriteFails, BeginSnapshot,
             WriteSnapshot, Compact, CompactRefused, RewriteFails, Close, ProcessEnds, MachineStops, Down
    <3>2. Open => Len(snap) <= Len(log.frames)
      BY DEF Open, Openable, Agrees
    <3> QED BY <2>1, <2>2, <3>1, <3>2 DEF SnapshotInv
  <2>3. CASE snap' = mem /\ pc = "snapshot"
    <3>1. snap' = log.frames
      BY <2>3 DEF MemoryInv
    <3>2. SubSeq(log.frames, 1, Len(log.frames)) = log.frames
      BY <1>1, Whole
    <3> QED BY <1>1, <2>1, <3>1, <3>2 DEF SnapshotInv
  <2>4. UNCHANGED snap \/ (snap' = mem /\ pc = "snapshot")
    BY DEF Next, vars, Open, Recover, Ingest, WriteIdentity, IdentityFails, Write, Sync, WriteFails, BeginSnapshot,
           WriteSnapshot, Compact, CompactRefused, RewriteFails, Close, ProcessEnds, MachineStops, Down
  <2> QED BY <2>2, <2>3, <2>4
<1> QED BY <1>2, <1>3, <1>4, Ways

(* While no append threw at the identity file, the log replays with the    *)
(* full validation, whoever uses the ledger sees it, and the files open    *)
(* again between any two system calls whatever failed or stopped, as long  *)
(* as the snapshot covers only synced frames (ledger.ts 69-70, 164-199,    *)
(* 242-243).                                                               *)
THEOREM TheLedgerIsSound == Spec => []LedgerIsSound
<1> DEFINE IInv == Named => MemoryInv /\ IdentityInv /\ SnapshotInv
<1>1. Init => IInv
  <2> SUFFICES ASSUME Init PROVE MemoryInv /\ IdentityInv /\ SnapshotInv
    OBVIOUS
  <2>1. log.frames = << >> /\ snap = << >> /\ pc = "down" /\ Len(<< >>) = 0
    BY DEF Init, EmptyLog
  <2>2. SubSeq(<< >>, 1, 0) = << >>
    OBVIOUS
  <2> QED BY <2>1, <2>2 DEF MemoryInv, IdentityInv, SnapshotInv, Replays
<1>2. Base /\ IInv /\ [Next]_vars => IInv'
  <2> SUFFICES ASSUME Base, IInv, [Next]_vars, Named' PROVE (MemoryInv /\ IdentityInv /\ SnapshotInv)'
    OBVIOUS
  <2>1. MemoryInv /\ IdentityInv /\ SnapshotInv
    BY NamedBefore
  <2> QED BY <2>1, MemoryNext, IdentityNext, SnapshotNext
<1>3. Base /\ IInv => LedgerIsSound
  <2> SUFFICES ASSUME Base, Named, MemoryInv, IdentityInv, SnapshotInv PROVE LedgerIsSound
    BY DEF LedgerIsSound, MemoryIsLog, OpensAgain, LogReplays
  <2>1. Len(snap) <= log.synced => Len(snap) <= Len(log.frames)
    BY DEF Base, TypeOK, Logs
  <2> QED BY <2>1 DEF LedgerIsSound, MemoryIsLog, OpensAgain, LogReplays, Openable, Agrees,
                      MemoryInv, IdentityInv, SnapshotInv
<1> HIDE DEF IInv
<1> QED BY <1>1, <1>2, <1>3, BaseHolds, PTL DEF Spec
===============================================================================
