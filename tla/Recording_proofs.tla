---------------------------- MODULE Recording_proofs ----------------------------
(***************************************************************************)
(* The store and the recorder that writes it, for any set of events, any   *)
(* number of opens and any scenario.                                       *)
(*                                                                         *)
(* EventStore: what a store that takes events shows is its log, which      *)
(* holds no event twice; nothing acknowledged is destroyed; and while the  *)
(* medium damages nothing, every step is a step of AppendLog or changes    *)
(* nothing it shows.                                                       *)
(*                                                                         *)
(* Attachment: what is stored of the lifecycle is the fold of what was     *)
(* recorded (LifecycleIsFold), its runs alternate (RunsConcluded), and of  *)
(* Pi's session no event is stored twice and, once no catch-up is left,    *)
(* no entry is missing (EntriesRecordedOnce).                              *)
(***************************************************************************)
EXTENDS EventStore, Attachment, FiniteSetTheorems, WellFoundedInduction, SequenceTheorems, TLAPS

-----------------------------------------------------------------------------
(* EventStore.                                                             *)


(* What the operations of a file make of its fields.                       *)

LEMMA HeldAppend ==
  ASSUME NEW R, NEW s \in Seq(R), NEW r \in R
  PROVE  /\ Append(s, r) \in Seq(R)
         /\ Held(Append(s, r)) = Held(s) \union {r}
<1> DEFINE t == Append(s, r)
<1>1. t \in Seq(R) /\ Len(t) = Len(s) + 1 /\ t[Len(s) + 1] = r /\ \A i \in 1 .. Len(s) : t[i] = s[i]
  OBVIOUS
<1>2. 1 .. Len(t) = (1 .. Len(s)) \union {Len(s) + 1}
  BY <1>1
<1> HIDE DEF t
<1>3. Held(t) = Held(s) \union {r}
  BY <1>1, <1>2 DEF Held
<1> QED BY <1>1, <1>3 DEF t

LEMMA Prefix ==
  ASSUME NEW R, NEW s \in Seq(R), NEW k \in 0 .. Len(s)
  PROVE  /\ SubSeq(s, 1, k) \in Seq(R) /\ Len(SubSeq(s, 1, k)) = k
         /\ \A i \in 1 .. k : SubSeq(s, 1, k)[i] = s[i]
         /\ Held(SubSeq(s, 1, k)) = {s[i] : i \in 1 .. k}
<1>1. /\ SubSeq(s, 1, k) \in Seq(R) /\ Len(SubSeq(s, 1, k)) = k
      /\ \A i \in 1 .. k : SubSeq(s, 1, k)[i] = s[i]
  OBVIOUS
<1> QED BY <1>1 DEF Held

LEMMA WrittenFields ==
  ASSUME NEW R, NEW log \in Logs(R), NEW r \in R, NEW new \in Written(log, r)
  PROVE  /\ new \in Logs(R) /\ new.synced = log.synced
         /\ log.rest = "none" =>
              new.frames = Append(log.frames, r) /\ new.behind = log.behind /\ new.rest = "none"
         /\ log.rest # "none" =>
              new.frames = log.frames /\ new.behind = Append(log.behind, r) /\ new.rest # "none"
<1>1. CASE log.rest = "none"
  <2>1. new = [log EXCEPT !.frames = Append(@, r)]
    BY <1>1 DEF Written
  <2> QED BY <1>1, <2>1, HeldAppend DEF Logs
<1>2. CASE log.rest # "none"
  <2>1. PICK rest \in {log.rest, "corrupt"} : new = [log EXCEPT !.behind = Append(@, r), !.rest = rest]
    BY <1>2 DEF Written
  <2>2. rest \in Rests /\ rest # "none"
    BY <1>2 DEF Logs, Rests
  <2> QED BY <1>2, <2>1, <2>2, HeldAppend DEF Logs
<1> QED BY <1>1, <1>2

LEMMA CutFields ==
  ASSUME NEW R, NEW log \in Logs(R), NEW k \in 0 .. Len(log.frames)
  PROVE  /\ CutTo(log, k) \in Logs(R)
         /\ CutTo(log, k).frames = SubSeq(log.frames, 1, k) /\ CutTo(log, k).behind = << >>
         /\ CutTo(log, k).rest = "none" /\ CutTo(log, k).synced = k
<1>1. SubSeq(log.frames, 1, k) \in Seq(R) /\ << >> \in Seq(R)
  BY Prefix DEF Logs
<1> QED BY <1>1 DEF CutTo, Logs, Rests

LEMMA UnsyncedFields ==
  ASSUME NEW R, NEW log \in Logs(R), NEW k \in 0 .. Len(log.frames)
  PROVE  /\ CutUnsynced(log, k) \in Logs(R)
         /\ CutUnsynced(log, k).frames = SubSeq(log.frames, 1, k) /\ CutUnsynced(log, k).behind = << >>
         /\ CutUnsynced(log, k).rest = "none" /\ CutUnsynced(log, k).synced = log.synced
<1> DEFINE cut == CutTo(log, k)
<1>1. /\ cut \in Logs(R) /\ cut.frames = SubSeq(log.frames, 1, k)
      /\ cut.behind = << >> /\ cut.rest = "none"
  BY CutFields
<1>2. CutUnsynced(log, k) = [cut EXCEPT !.synced = log.synced]
  BY DEF CutUnsynced
<1> HIDE DEF cut
<1> QED BY <1>1, <1>2 DEF Logs

LEMMA StopFields ==
  ASSUME NEW R, NEW log \in Logs(R), NEW new \in AfterStop(log)
  PROVE  \/ new = [log EXCEPT !.synced = Len(log.frames)]
         \/ \E k \in log.synced .. Len(log.frames) - 1 :
              /\ new \in Logs(R) /\ new.frames = SubSeq(log.frames, 1, k)
              /\ new.synced = k /\ new.behind = << >>
<1>1. ASSUME NEW k \in log.synced .. Len(log.frames) - 1, NEW rest \in {"none", "torn"},
             new = [CutTo(log, k) EXCEPT !.rest = rest]
      PROVE  /\ new \in Logs(R) /\ new.frames = SubSeq(log.frames, 1, k)
             /\ new.synced = k /\ new.behind = << >>
  <2>1. k \in 0 .. Len(log.frames)
    BY DEF Logs
  <2> DEFINE cut == CutTo(log, k)
  <2>2. cut \in Logs(R) /\ cut.frames = SubSeq(log.frames, 1, k) /\ cut.behind = << >> /\ cut.synced = k
    BY <2>1, CutFields
  <2>3. new = [cut EXCEPT !.rest = rest]
    BY <1>1
  <2> HIDE DEF cut
  <2> QED BY <2>2, <2>3 DEF Logs, Rests
<1> QED BY <1>1 DEF AfterStop, Synced

LEMMA DamagedFields ==
  ASSUME NEW R, NEW log \in Logs(R), NEW k \in 1 .. Len(log.frames), NEW new \in Damaged(log, k)
  PROVE  /\ new \in Logs(R) /\ new.rest # "none" /\ new.synced = k - 1
         /\ new.frames = SubSeq(log.frames, 1, k - 1)
         /\ new.behind = SubSeq(log.frames, k + 1, Len(log.frames))
         /\ Held(log.frames) \subseteq Held(new.frames) \union {log.frames[k]} \union Held(new.behind)
<1> DEFINE front == SubSeq(log.frames, 1, k - 1)
           back == SubSeq(log.frames, k + 1, Len(log.frames))
           n == Len(log.frames)
<1>1. log.frames \in Seq(R) /\ n \in Nat /\ k \in 1 .. n
  BY DEF Logs
<1>2. front \in Seq(R) /\ Len(front) = k - 1 /\ \A i \in 1 .. k - 1 : front[i] = log.frames[i]
  BY <1>1
<1>3. back \in Seq(R) /\ Len(back) = n - k /\ \A i \in 1 .. n - k : back[i] = log.frames[k + i]
  BY <1>1
<1>4. PICK rest \in {"torn", "corrupt"} :
        new = [frames |-> front, rest |-> rest, synced |-> k - 1, behind |-> back]
  BY DEF Damaged
<1>5. Held(log.frames) \subseteq Held(front) \union {log.frames[k]} \union Held(back)
  <2> SUFFICES ASSUME NEW i \in 1 .. n PROVE log.frames[i] \in Held(front) \union {log.frames[k]} \union Held(back)
    BY DEF Held
  <2>1. CASE i < k
    BY <1>1, <1>2, <2>1 DEF Held
  <2>2. CASE i > k
    <3>1. i - k \in 1 .. n - k /\ back[i - k] = log.frames[i]
      BY <1>1, <1>3, <2>2
    <3> QED BY <1>3, <3>1 DEF Held
  <2> QED BY <1>1, <2>1, <2>2
<1> HIDE DEF front, back
<1>6. /\ new \in Logs(R) /\ new.rest # "none" /\ new.synced = k - 1
      /\ new.frames = front /\ new.behind = back
  BY <1>1, <1>2, <1>3, <1>4 DEF Logs, Rests
<1> QED BY <1>5, <1>6 DEF front, back

-----------------------------------------------------------------------------
(* Types, and that a program never synced more than the log holds.         *)

LEMMA TypeInit == Init => TypeOK
<1>1. EmptyLog \in Logs(Events) /\ EmptyLog.synced <= Len(EmptyLog.frames)
  BY DEF EmptyLog, Logs, Rests
<1> QED BY <1>1, StoreAssumption DEF Init, TypeOK, Steps

(* A file's own part of the type. *)
Sound(log) == log \in Logs(Events) /\ log.synced <= Len(log.frames)

(* The whole of the frames is all of them. *)
LEMMA WholePrefix ==
  ASSUME NEW R, NEW s \in Seq(R)
  PROVE  SubSeq(s, 1, Len(s)) = s
OBVIOUS

(* An append is of an event. *)
Busy == pc \in {"append", "sync"} => doing \in Events

LEMMA DiskNext == TypeOK /\ Busy /\ [Next]_vars => Sound(disk)'
<1> SUFFICES ASSUME TypeOK, Busy, [Next]_vars PROVE Sound(disk')
  BY DEF Sound
<1>1. /\ Sound(disk) /\ disk \in Logs(Events)
      /\ disk.frames \in Seq(Events) /\ disk.synced \in Nat /\ Len(disk.frames) \in Nat
  BY DEF TypeOK, Sound, Logs
<1>2. CASE UNCHANGED disk
  BY <1>1, <1>2
<1>3. CASE Write
  <2>1. doing \in Events
    BY <1>3 DEF Write, Busy
  <2>2. disk' \in Written(disk, doing)
    BY <1>3 DEF Write
  <2>3. Len(Append(disk.frames, doing)) = Len(disk.frames) + 1
    BY <1>1, <2>1
  <2> QED BY <1>1, <2>1, <2>2, <2>3, WrittenFields DEF Sound
<1>4. CASE disk' = Synced(disk)
  BY <1>1, <1>4 DEF Synced, Sound, Logs
<1>5. CASE disk' = HalfWritten(disk)
  BY <1>1, <1>5 DEF HalfWritten, Sound, Logs, Rests
<1>6. CASE disk' \in {CutTo(disk, Len(disk.frames)), CutUnsynced(disk, Len(disk.frames))}
  <2>1. Len(disk.frames) \in 0 .. Len(disk.frames) /\ SubSeq(disk.frames, 1, Len(disk.frames)) = disk.frames
    BY <1>1, WholePrefix
  <2>2. CASE disk' = CutTo(disk, Len(disk.frames))
    BY <1>1, <2>1, <2>2, CutFields DEF Sound
  <2>3. CASE disk' = CutUnsynced(disk, Len(disk.frames))
    BY <1>1, <2>1, <2>3, UnsyncedFields DEF Sound
  <2> QED BY <1>6, <2>2, <2>3
<1>7. CASE disk' \in AfterStop(disk)
  <2>1. CASE disk' = [disk EXCEPT !.synced = Len(disk.frames)]
    BY <1>1, <2>1 DEF Sound, Logs
  <2>2. ASSUME NEW k \in disk.synced .. Len(disk.frames) - 1,
               disk' \in Logs(Events), disk'.frames = SubSeq(disk.frames, 1, k), disk'.synced = k
        PROVE  Sound(disk')
    BY <1>1, <2>2, Prefix DEF Sound
  <2> QED BY <1>1, <1>7, <2>1, <2>2, StopFields
<1>8. ASSUME NEW k \in 1 .. Len(disk.frames), disk' \in Damaged(disk, k) PROVE Sound(disk')
  <2>1. k - 1 \in 0 .. Len(disk.frames)
    BY <1>1
  <2> QED BY <1>1, <1>8, <2>1, DamagedFields, Prefix DEF Sound
<1> QED BY <1>2, <1>3, <1>4, <1>5, <1>6, <1>7, <1>8
        DEF Next, vars, Open, OpenReadOnly, Keep, Cut, OpenFails, Ingest, Write, Sync, WriteFails, Close, Crash, Damage

LEMMA TypeNext == TypeOK /\ Busy /\ [Next]_vars => TypeOK' /\ Busy'
<1> SUFFICES ASSUME TypeOK, Busy, [Next]_vars PROVE TypeOK' /\ Busy'
  OBVIOUS
<1>1. disk' \in Logs(Events) /\ disk'.synced <= Len(disk'.frames)
  BY DiskNext DEF Sound
<1>2. disk.frames \in Seq(Events) /\ Held(disk.behind) \subseteq Events /\ Held(disk.frames) \subseteq Events
  BY DEF TypeOK, Logs, Held
<1>3. Busy'
  <2>1. CASE Write \/ UNCHANGED vars \/ \E k \in 1 .. Len(disk.frames) : Damage(k)
    BY <2>1 DEF Busy, Write, Damage, vars
  <2>2. CASE \E e \in Events : Ingest(e)
    BY <2>2 DEF Busy, Ingest
  <2>3. CASE Open
    BY <1>1, <2>3 DEF Busy, Open, TypeOK, Logs, Rests
  <2>4. CASE OpenReadOnly \/ Keep \/ Cut \/ OpenFails \/ Sync \/ WriteFails \/ Close \/ Crash
    <3>1. pc' \in {"down", "readonly", "kept", "ready", "dead"}
      BY <2>4 DEF OpenReadOnly, Keep, Cut, OpenFails, Sync, WriteFails, Dies, Close, Crash, Down
    <3> QED BY <3>1 DEF Busy
  <2> QED BY <2>1, <2>2, <2>3, <2>4 DEF Next
<1>4. saved' \subseteq Events
  BY <1>2 DEF TypeOK, Next, vars, Open, OpenReadOnly, Keep, Cut, OpenFails, Ingest, Write, Sync, WriteFails,
         Close, Crash, Damage, Down
<1>5. mem' \in Seq(Events)
  <2>1. ASSUME NEW e \in Events, Ingest(e) PROVE mem' \in Seq(Events)
    BY <2>1 DEF Ingest, TypeOK
  <2>2. mem' \in {mem, << >>, disk.frames} \/ \E e \in Events : Ingest(e)
    BY DEF Next, vars, Open, OpenReadOnly, Keep, Cut, OpenFails, Write, Sync, WriteFails, Close, Crash, Damage, Down
  <2>3. mem \in Seq(Events) /\ << >> \in Seq(Events)
    BY DEF TypeOK
  <2> QED BY <1>2, <2>1, <2>2, <2>3
<1>6. acked' \in Seq(Events)
  <2>1. ASSUME Sync PROVE acked' \in Seq(Events)
    BY <2>1 DEF Sync, TypeOK, Busy
  <2>2. acked' = acked \/ Sync
    BY DEF Next, vars, Open, OpenReadOnly, Keep, Cut, OpenFails, Ingest, Write, WriteFails, Close, Crash, Damage, Down
  <2> QED BY <2>1, <2>2 DEF TypeOK
<1>7. spoiled' \subseteq Events
  <2>1. ASSUME NEW k \in 1 .. Len(disk.frames), Damage(k) PROVE spoiled' \subseteq Events
    BY <1>2, <2>1 DEF Damage, TypeOK
  <2> QED BY <2>1 DEF TypeOK, Next, vars, Open, OpenReadOnly, Keep, Cut, OpenFails, Ingest, Write, Sync, WriteFails,
                      Close, Crash, Down
<1>8. doing' \in Events \union {None}
  BY DEF TypeOK, Next, vars, Open, OpenReadOnly, Keep, Cut, OpenFails, Ingest, Write, Sync, WriteFails,
         Close, Crash, Damage, Down
<1>9. opens' \in 0 .. MaxOpens
  <2>1. opens' = opens \/ (opens < MaxOpens /\ opens' = opens + 1)
    BY DEF Next, vars, Open, OpenReadOnly, Keep, Cut, OpenFails, Ingest, Write, Sync, WriteFails, Close, Crash, Damage, Down
  <2> QED BY <2>1, StoreAssumption DEF TypeOK
<1>10. pc' \in Steps
  <2>1. CASE Open
    BY <1>1, <2>1 DEF Open, TypeOK, Logs, Rests, Steps
  <2> QED BY <2>1 DEF TypeOK, Next, vars, OpenReadOnly, Keep, Cut, OpenFails, Ingest, Write, Sync, WriteFails,
         Close, Crash, Damage, Down, Dies, Steps
<1> QED BY <1>1, <1>3, <1>4, <1>5, <1>6, <1>7, <1>8, <1>9, <1>10 DEF TypeOK

-----------------------------------------------------------------------------
(* The invariant.                                                          *)

(* Whatever lies behind the readable frames is behind something that ends  *)
(* them, and then all of them are synced: a stop of the machine takes      *)
(* nothing that was acknowledged behind damage.                            *)
OnDisk ==
  /\ disk.rest = "none" => disk.behind = << >>
  /\ disk.behind # << >> => disk.synced = Len(disk.frames)

(* A recovery is of a torn log, keeps what it cuts first, and has read all *)
(* that stays.                                                             *)
Recovering ==
  /\ pc \in {"loaded", "kept"} => disk.rest = "torn" /\ mem = disk.frames
  /\ pc = "kept" => Held(disk.behind) \subseteq saved

(* The memory holds what the log shows, and more by the event appended; a  *)
(* log in use has lost its end only to damage, which takes synced frames.  *)
InMemory ==
  /\ pc \in {"ready", "append", "sync"} /\ disk.rest # "none" => disk.synced = Len(disk.frames)
  /\ pc \in {"ready", "append", "sync"} => Held(disk.frames) \subseteq Held(mem)
  /\ pc \in {"append", "sync"} => doing \in Held(mem)
  /\ pc = "append" => doing \notin Held(disk.frames)
  /\ pc = "sync" => doing \in Held(disk.frames) \union Held(disk.behind) \union spoiled

(* What was acknowledged is among the synced frames, or not readable but   *)
(* there.                                                                  *)
SyncedFrames == {disk.frames[i] : i \in 1 .. disk.synced}
Kept == Held(acked) \subseteq SyncedFrames \union Held(disk.behind) \union saved \union spoiled

(* Without damage the memory is the log, up to the event appended.         *)
Shown ==
  spoiled = {} =>
    /\ saved = {} /\ disk.behind = << >>
    /\ pc \in {"ready", "append", "sync"} => disk.rest = "none"
    /\ pc \in {"ready", "sync"} => mem = disk.frames
    /\ pc = "append" => mem = Append(disk.frames, doing)
    /\ pc = "sync" => disk.frames # << >> /\ disk.frames[Len(disk.frames)] = doing

IInv == TypeOK /\ Busy /\ OnDisk /\ Recovering /\ InMemory /\ OpensAgain /\ Kept /\ Shown

LEMMA InvInit == Init => IInv
<1> SUFFICES ASSUME Init PROVE IInv
  OBVIOUS
<1>1. TypeOK
  BY TypeInit
<1>2. disk = EmptyLog /\ pc = "down" /\ acked = << >> /\ saved = {}
  BY DEF Init
<1>3. disk.frames = << >> /\ disk.behind = << >> /\ disk.synced = 0 /\ Held(acked) = {}
  BY <1>2 DEF EmptyLog, Held
<1> QED BY <1>1, <1>2, <1>3 DEF IInv, Busy, OnDisk, Recovering, InMemory, OpensAgain, Kept, Shown

(* A step that leaves the file, what was kept aside, what was acknowledged *)
(* and what was damaged alone keeps the parts that are about those.        *)
LEMMA FilesAlone ==
  ASSUME OnDisk, OpensAgain, Kept, UNCHANGED <<disk, acked, spoiled, saved>>
  PROVE  OnDisk' /\ OpensAgain' /\ Kept'
BY DEF OnDisk, OpensAgain, Kept, SyncedFrames

-----------------------------------------------------------------------------
(* The steps.                                                              *)

LEMMA OpenKeeps ==
  ASSUME IInv, Open \/ OpenReadOnly \/ Keep \/ (\E e \in Events : Ingest(e)) \/ Close \/ UNCHANGED vars,
         TypeOK', Busy'
  PROVE  IInv'
<1>1. OnDisk /\ OpensAgain /\ Kept /\ Recovering /\ InMemory /\ Shown
  BY DEF IInv
<1>2. disk \in Logs(Events) /\ mem \in Seq(Events)
  BY DEF IInv, TypeOK
<1>3. CASE Open
  <2>1. OnDisk' /\ OpensAgain' /\ Kept'
    BY <1>1, <1>3, FilesAlone DEF Open
  <2>2. /\ pc' \in {"ready", "loaded", "readonly"} /\ mem' = disk.frames /\ UNCHANGED <<disk, saved, spoiled>>
    BY <1>2, <1>3 DEF Open, Logs, Rests
  <2>3. pc' = "ready" => disk.rest = "none"
    BY <1>2, <1>3 DEF Open, Logs, Rests
  <2>4. pc' = "loaded" => disk.rest = "torn"
    BY <1>2, <1>3 DEF Open, Logs, Rests
  <2>5. Recovering' /\ InMemory' /\ Shown'
    BY <1>1, <2>2, <2>3, <2>4 DEF Recovering, InMemory, Shown
  <2> QED BY <2>1, <2>5 DEF IInv
<1>4. CASE OpenReadOnly \/ Close
  <2>1. OnDisk' /\ OpensAgain' /\ Kept'
    BY <1>1, <1>4, FilesAlone DEF OpenReadOnly, Close, Down
  <2>2. pc' \in {"readonly", "down"} /\ UNCHANGED <<disk, saved, spoiled>>
    BY <1>4 DEF OpenReadOnly, Close, Down
  <2>3. Recovering' /\ InMemory' /\ Shown'
    BY <1>1, <2>2 DEF Recovering, InMemory, Shown
  <2> QED BY <2>1, <2>3 DEF IInv
<1>5. CASE Keep
  <2>1. UNCHANGED <<disk, mem, acked, spoiled>> /\ pc = "loaded" /\ pc' = "kept" /\ saved' = saved \union Held(disk.behind)
    BY <1>5 DEF Keep
  <2>2. OnDisk' /\ OpensAgain' /\ Kept'
    BY <1>1, <2>1 DEF OnDisk, OpensAgain, Kept, SyncedFrames
  <2>3. Recovering' /\ InMemory'
    BY <1>1, <2>1 DEF Recovering, InMemory
  <2>4. Held(<< >>) = {}
    BY DEF Held
  <2>5. Shown'
    BY <1>1, <2>1, <2>4 DEF Shown
  <2> QED BY <2>2, <2>3, <2>5 DEF IInv
<1>6. ASSUME NEW e \in Events, Ingest(e) PROVE IInv'
  <2>1. /\ UNCHANGED <<disk, saved, acked, spoiled>> /\ pc = "ready" /\ pc' = "append"
        /\ mem' = Append(mem, e) /\ doing' = e /\ e \notin Held(mem)
    BY <1>6 DEF Ingest, New
  <2>2. OnDisk' /\ OpensAgain' /\ Kept'
    BY <1>1, <2>1, FilesAlone
  <2>3. Held(mem') = Held(mem) \union {e}
    BY <1>2, <2>1, HeldAppend
  <2>4. Recovering' /\ InMemory'
    BY <1>1, <2>1, <2>3 DEF Recovering, InMemory
  <2>5. Shown'
    BY <1>1, <2>1 DEF Shown
  <2> QED BY <2>2, <2>4, <2>5 DEF IInv
<1>7. CASE UNCHANGED vars
  <2>1. OnDisk' /\ OpensAgain' /\ Kept'
    BY <1>1, <1>7, FilesAlone DEF vars
  <2>2. Recovering' /\ InMemory' /\ Shown'
    BY <1>1, <1>7 DEF vars, Recovering, InMemory, Shown
  <2> QED BY <2>1, <2>2 DEF IInv
<1> QED BY <1>3, <1>4, <1>5, <1>6, <1>7

LEMMA WriteKeeps ==
  ASSUME IInv, Write, TypeOK', Busy'
  PROVE  IInv'
<1>1. OnDisk /\ OpensAgain /\ Kept /\ Recovering /\ InMemory /\ Shown /\ doing \in Events
  BY DEF IInv, Busy, Write
<1>2. disk \in Logs(Events) /\ disk.frames \in Seq(Events) /\ disk.behind \in Seq(Events) /\ disk.synced <= Len(disk.frames)
      /\ disk.synced \in Nat
  BY DEF IInv, TypeOK, Logs
<1>3. disk' \in Written(disk, doing) /\ pc = "append" /\ pc' = "sync" /\ UNCHANGED <<saved, mem, doing, acked, spoiled>>
  BY DEF Write
<1>4. disk'.synced = disk.synced
  BY <1>1, <1>2, <1>3, WrittenFields
<1>5. CASE disk.rest = "none"
  <2>1. disk'.frames = Append(disk.frames, doing) /\ disk'.behind = disk.behind /\ disk'.rest = "none"
    BY <1>1, <1>2, <1>3, <1>5, WrittenFields
  <2> DEFINE grown == Append(disk.frames, doing)
             n == Len(disk.frames)
  <2>2. n \in Nat /\ Len(grown) = n + 1 /\ grown[n + 1] = doing /\ \A i \in 1 .. n : grown[i] = disk.frames[i]
    BY <1>1, <1>2
  <2>3. Held(disk'.frames) = Held(disk.frames) \union {doing}
    BY <1>1, <1>2, <2>1, HeldAppend
  <2>4. disk'.frames = grown
    BY <2>1
  <2> HIDE DEF grown
  <2>5. OpensAgain'
    <3> SUFFICES ASSUME NEW i \in 1 .. n + 1, NEW j \in 1 .. n + 1, grown[i] = grown[j] PROVE i = j
      BY <2>2, <2>4 DEF OpensAgain
    <3>1. \A k \in 1 .. n : disk.frames[k] # doing
      BY <1>1, <1>3 DEF InMemory, Held
    <3>2. CASE i \in 1 .. n /\ j \in 1 .. n
      BY <1>1, <2>2, <3>2 DEF OpensAgain
    <3>3. CASE i = n + 1 \/ j = n + 1
      BY <2>2, <3>1, <3>3
    <3> QED BY <2>2, <3>2, <3>3
  <2>6. SyncedFrames' = SyncedFrames
    <3>1. \A i \in 1 .. disk.synced : disk'.frames[i] = disk.frames[i]
      BY <1>2, <2>2, <2>4
    <3> QED BY <1>4, <3>1 DEF SyncedFrames
  <2>7. OnDisk' /\ Kept'
    BY <1>1, <1>3, <1>5, <2>1, <2>6 DEF OnDisk, Kept
  <2>8. Recovering' /\ InMemory'
    BY <1>1, <1>3, <2>1, <2>3 DEF Recovering, InMemory
  <2>9. Shown'
    <3>1. disk'.frames # << >> /\ disk'.frames[Len(disk'.frames)] = doing
      BY <2>2, <2>4
    <3>2. spoiled = {} => mem = disk'.frames
      BY <1>1, <1>3, <2>1 DEF Shown
    <3> QED BY <1>1, <1>3, <2>1, <3>1, <3>2 DEF Shown
  <2> QED BY <2>5, <2>7, <2>8, <2>9 DEF IInv
<1>6. CASE disk.rest # "none"
  <2>1. disk'.frames = disk.frames /\ disk'.behind = Append(disk.behind, doing) /\ disk'.rest # "none"
    BY <1>1, <1>2, <1>3, <1>6, WrittenFields
  <2>2. Held(disk'.behind) = Held(disk.behind) \union {doing}
    BY <1>1, <1>2, <2>1, HeldAppend
  <2>3. spoiled # {}
    BY <1>1, <1>3, <1>6 DEF Shown
  <2>4. OpensAgain' /\ Kept'
    BY <1>1, <1>3, <1>4, <2>1, <2>2 DEF OpensAgain, Kept, SyncedFrames
  <2>5. Recovering' /\ InMemory' /\ Shown'
    BY <1>1, <1>3, <1>4, <1>6, <2>1, <2>2, <2>3 DEF Recovering, InMemory, Shown
  <2>6. OnDisk'
    BY <1>1, <1>3, <1>4, <1>6, <2>1 DEF OnDisk, InMemory
  <2> QED BY <2>4, <2>5, <2>6 DEF IInv
<1> QED BY <1>5, <1>6

LEMMA SyncKeeps ==
  ASSUME IInv, Sync, TypeOK', Busy'
  PROVE  IInv'
<1>1. OnDisk /\ OpensAgain /\ Kept /\ Recovering /\ InMemory /\ Shown /\ doing \in Events
  BY DEF IInv, Busy, Sync
<1>2. disk \in Logs(Events) /\ disk.synced <= Len(disk.frames) /\ disk.synced \in Nat /\ acked \in Seq(Events)
      /\ Len(disk.frames) \in Nat
  BY DEF IInv, TypeOK, Logs
<1>3. /\ pc = "sync" /\ pc' = "ready" /\ acked' = Append(acked, doing) /\ UNCHANGED <<saved, mem, spoiled>>
  BY DEF Sync
<1>4. /\ disk'.frames = disk.frames /\ disk'.behind = disk.behind /\ disk'.rest = disk.rest
      /\ disk'.synced = Len(disk.frames)
  BY <1>2 DEF Sync, Synced, Logs
<1>5. Held(acked') = Held(acked) \union {doing}
  BY <1>1, <1>2, <1>3, HeldAppend
<1>6. OnDisk' /\ OpensAgain' /\ Recovering' /\ InMemory' /\ Shown'
  BY <1>1, <1>3, <1>4 DEF OnDisk, OpensAgain, Recovering, InMemory, Shown
<1>7. Kept'
  <2>1. SyncedFrames' = Held(disk.frames) /\ SyncedFrames \subseteq Held(disk.frames)
    BY <1>2, <1>4 DEF SyncedFrames, Held
  <2>2. doing \in Held(disk.frames) \union Held(disk.behind) \union spoiled
    BY <1>1, <1>3 DEF InMemory
  <2> QED BY <1>1, <1>3, <1>4, <1>5, <2>1, <2>2 DEF Kept
<1> QED BY <1>6, <1>7 DEF IInv

(* A write that fails leaves a dead store and, at most, a torn log.        *)
LEMMA WriteFailsKeeps ==
  ASSUME IInv, WriteFails, TypeOK', Busy'
  PROVE  IInv'
<1>1. OnDisk /\ OpensAgain /\ Kept /\ Recovering /\ InMemory /\ Shown
  BY DEF IInv
<1>2. disk \in Logs(Events)
  BY DEF IInv, TypeOK
<1>3. pc' = "dead" /\ UNCHANGED <<saved, acked, spoiled>>
  BY DEF WriteFails, Dies
<1>4. disk'.frames = disk.frames /\ disk'.behind = disk.behind /\ disk'.synced = disk.synced
      /\ (disk'.rest = "none" => disk.rest = "none")
  <2>1. disk' \in {disk, HalfWritten(disk)}
    BY DEF WriteFails
  <2> QED BY <1>2, <2>1 DEF HalfWritten, Logs
<1>5. OnDisk' /\ OpensAgain' /\ Kept' /\ Recovering' /\ InMemory' /\ Shown'
  BY <1>1, <1>3, <1>4 DEF OnDisk, OpensAgain, Kept, SyncedFrames, Recovering, InMemory, Shown
<1> QED BY <1>5 DEF IInv

(* The torn tail is cut, by an open that succeeds or one that then fails.  *)
LEMMA CutKeeps ==
  ASSUME IInv, Cut \/ OpenFails, TypeOK', Busy'
  PROVE  IInv'
<1>1. OnDisk /\ OpensAgain /\ Kept /\ Recovering /\ InMemory /\ Shown
  BY DEF IInv
<1>2. disk \in Logs(Events) /\ disk.frames \in Seq(Events) /\ Len(disk.frames) \in 0 .. Len(disk.frames)
      /\ disk.synced \in Nat /\ disk.synced <= Len(disk.frames)
  BY DEF IInv, TypeOK, Logs
<1>3. CASE OpenFails /\ UNCHANGED disk
  <2>1. pc' = "down" /\ UNCHANGED <<disk, saved, acked, spoiled>>
    BY <1>3 DEF OpenFails
  <2>2. OnDisk' /\ OpensAgain' /\ Kept'
    BY <1>1, <2>1, FilesAlone
  <2>3. Recovering' /\ InMemory' /\ Shown'
    BY <1>1, <2>1 DEF Recovering, InMemory, Shown
  <2> QED BY <2>2, <2>3 DEF IInv
<1>4. CASE Cut \/ (OpenFails /\ pc = "kept" /\ disk' = CutUnsynced(disk, Len(disk.frames)))
  <2>1. /\ pc = "kept" /\ UNCHANGED <<saved, acked, spoiled>>
        /\ pc' = "down" \/ (pc' = "ready" /\ mem' = mem)
    BY <1>4 DEF Cut, OpenFails
  <2>2. /\ disk'.frames = disk.frames /\ disk'.behind = << >> /\ disk'.rest = "none"
        /\ disk'.synced = disk.synced \/ disk'.synced = Len(disk.frames)
    <3>1. SubSeq(disk.frames, 1, Len(disk.frames)) = disk.frames
      BY <1>2, WholePrefix
    <3>2. disk' \in {CutTo(disk, Len(disk.frames)), CutUnsynced(disk, Len(disk.frames))}
      BY <1>4 DEF Cut
    <3>3. CASE disk' = CutTo(disk, Len(disk.frames))
      BY <1>2, <3>1, <3>3, CutFields
    <3>4. CASE disk' = CutUnsynced(disk, Len(disk.frames))
      BY <1>2, <3>1, <3>4, UnsyncedFields
    <3> QED BY <3>2, <3>3, <3>4
  <2>3. Kept'
    <3>1. SyncedFrames \subseteq SyncedFrames'
      <4>1. \A i \in 1 .. disk.synced : i \in 1 .. disk'.synced
        BY <1>2, <2>2
      <4> QED BY <2>2, <4>1 DEF SyncedFrames
    <3>2. Held(disk.behind) \subseteq saved
      BY <1>1, <2>1 DEF Recovering
    <3> QED BY <1>1, <2>1, <3>1, <3>2 DEF Kept
  <2>4. OnDisk' /\ OpensAgain' /\ Recovering' /\ InMemory' /\ Shown'
    BY <1>1, <2>1, <2>2 DEF OnDisk, OpensAgain, Recovering, InMemory, Shown
  <2> QED BY <2>3, <2>4 DEF IInv
<1> QED BY <1>3, <1>4 DEF OpenFails

LEMMA CrashKeeps ==
  ASSUME IInv, Crash, TypeOK', Busy'
  PROVE  IInv'
<1>1. OnDisk /\ OpensAgain /\ Kept /\ Recovering /\ InMemory /\ Shown
  BY DEF IInv
<1>2. disk \in Logs(Events) /\ disk.frames \in Seq(Events) /\ Len(disk.frames) \in Nat
      /\ disk.synced \in Nat /\ disk.synced <= Len(disk.frames)
  BY DEF IInv, TypeOK, Logs
<1>3. pc' = "down" /\ UNCHANGED <<saved, acked, spoiled>> /\ disk' \in AfterStop(disk)
  BY DEF Crash, Down
<1>4. Recovering' /\ InMemory'
  BY <1>3 DEF Recovering, InMemory
<1>5. CASE disk' = [disk EXCEPT !.synced = Len(disk.frames)]
  <2>1. /\ disk'.frames = disk.frames /\ disk'.behind = disk.behind /\ disk'.rest = disk.rest
        /\ disk'.synced = Len(disk.frames)
    BY <1>2, <1>5 DEF Logs
  <2>2. SyncedFrames \subseteq SyncedFrames'
    BY <1>2, <2>1 DEF SyncedFrames
  <2>3. OnDisk' /\ OpensAgain' /\ Kept' /\ Shown'
    BY <1>1, <1>3, <2>1, <2>2 DEF OnDisk, OpensAgain, Kept, Shown
  <2> QED BY <1>4, <2>3 DEF IInv
<1>6. ASSUME NEW k \in disk.synced .. Len(disk.frames) - 1, disk'.frames = SubSeq(disk.frames, 1, k),
             disk'.synced = k, disk'.behind = << >>
      PROVE  IInv'
  <2>1. k \in 0 .. Len(disk.frames)
    BY <1>2
  <2>2. Len(disk'.frames) = k /\ \A i \in 1 .. k : disk'.frames[i] = disk.frames[i]
    BY <1>2, <1>6, <2>1, Prefix
  <2>3. SyncedFrames \subseteq SyncedFrames'
    <3>1. \A i \in 1 .. disk.synced : i \in 1 .. k
      BY <1>2
    <3> QED BY <1>6, <2>2, <3>1 DEF SyncedFrames
  <2>4. Held(disk.behind) = {}
    <3>1. disk.behind = << >>
      BY <1>1, <1>2 DEF OnDisk
    <3> QED BY <3>1 DEF Held
  <2>5. OpensAgain'
    <3>1. \A i \in 1 .. k : i \in 1 .. Len(disk.frames)
      BY <2>1
    <3> QED BY <1>1, <2>2, <3>1 DEF OpensAgain
  <2>6. OnDisk' /\ Kept' /\ Shown'
    BY <1>1, <1>3, <1>6, <2>2, <2>3, <2>4 DEF OnDisk, Kept, Shown
  <2> QED BY <1>4, <2>5, <2>6 DEF IInv
<1> QED BY <1>2, <1>3, <1>5, <1>6, StopFields

LEMMA DamageKeeps ==
  ASSUME IInv, NEW k \in 1 .. Len(disk.frames), Damage(k), TypeOK', Busy'
  PROVE  IInv'
<1>1. OnDisk /\ OpensAgain /\ Kept /\ Recovering /\ InMemory /\ Shown
  BY DEF IInv
<1>2. disk \in Logs(Events) /\ disk.frames \in Seq(Events) /\ Len(disk.frames) \in Nat
      /\ disk.synced \in Nat /\ disk.synced <= Len(disk.frames)
  BY DEF IInv, TypeOK, Logs
<1>3. /\ disk' \in Damaged(disk, k) /\ disk.rest = "none" /\ k <= disk.synced
      /\ spoiled' = spoiled \union {disk.frames[k]} /\ UNCHANGED <<saved, mem, pc, doing, acked>>
  BY DEF Damage
<1>4. /\ disk'.rest # "none" /\ disk'.synced = k - 1 /\ disk'.frames = SubSeq(disk.frames, 1, k - 1)
      /\ Held(disk.frames) \subseteq Held(disk'.frames) \union {disk.frames[k]} \union Held(disk'.behind)
  <2>1. disk \in Logs(Events) /\ disk' \in Damaged(disk, k)
    BY <1>2, <1>3
  <2>2. disk'.rest # "none" /\ disk'.synced = k - 1 /\ disk'.frames = SubSeq(disk.frames, 1, k - 1)
    BY <2>1, DamagedFields
  <2>3. Held(disk.frames) \subseteq Held(disk'.frames) \union {disk.frames[k]} \union Held(disk'.behind)
    BY <2>1, DamagedFields
  <2> QED BY <2>2, <2>3
<1>5. Len(disk'.frames) = k - 1 /\ \A i \in 1 .. k - 1 : disk'.frames[i] = disk.frames[i]
  BY <1>2, <1>4, Prefix
<1>6. Held(disk'.frames) \subseteq Held(disk.frames) /\ Held(disk'.frames) = SyncedFrames'
  BY <1>2, <1>4, <1>5 DEF Held, SyncedFrames
<1>7. Held(disk.behind) = {}
  <2>1. disk.behind = << >>
    BY <1>1, <1>3 DEF OnDisk
  <2> QED BY <2>1 DEF Held
<1>8. OnDisk' /\ Recovering'
  BY <1>1, <1>3, <1>4, <1>5 DEF OnDisk, Recovering
<1>9. OpensAgain'
  <2>1. \A i \in 1 .. k - 1 : i \in 1 .. Len(disk.frames)
    BY <1>2
  <2> QED BY <1>1, <1>5, <2>1 DEF OpensAgain
<1>10. Kept'
  <2>1. SyncedFrames \subseteq Held(disk.frames)
    BY <1>2 DEF SyncedFrames, Held
  <2> QED BY <1>1, <1>3, <1>4, <1>6, <1>7, <2>1 DEF Kept
<1>11. InMemory'
  BY <1>1, <1>3, <1>4, <1>5, <1>6, <1>7 DEF InMemory
<1>12. Shown'
  BY <1>3 DEF Shown
<1> QED BY <1>8, <1>9, <1>10, <1>11, <1>12 DEF IInv

LEMMA InvNext == IInv /\ [Next]_vars => IInv'
<1> SUFFICES ASSUME IInv, [Next]_vars PROVE IInv'
  OBVIOUS
<1>1. TypeOK' /\ Busy'
  BY TypeNext DEF IInv
<1> QED BY <1>1, OpenKeeps, WriteKeeps, SyncKeeps, WriteFailsKeeps, CutKeeps, CrashKeeps, DamageKeeps DEF Next

THEOREM Invariance == Spec => []IInv
BY InvInit, InvNext, PTL DEF Spec

(* Every variable keeps its type, for any events and any number of opens.  *)
THEOREM TypeCorrect == Spec => []TypeOK
<1>1. IInv => TypeOK
  BY DEF IInv
<1> QED BY <1>1, Invariance, PTL

(* A store that takes events shows exactly its log, as long as the medium  *)
(* damages nothing, and its log never holds an event twice, also with      *)
(* damage, failed writes and stops of the machine at any step              *)
(* (event-store.ts 17, 24).                                                *)
THEOREM SoundLog == Spec => []LogIsSound
<1>1. IInv => LogIsSound
  BY DEF IInv, Shown, LogIsSound, MemoryIsLog
<1> QED BY <1>1, Invariance, PTL

(* What ingest acknowledged is readable, or its bytes are behind damage or *)
(* kept aside: no open, cut, failed write or stop destroys it (log.ts 19). *)
THEOREM NeverDestroyed == Spec => []NothingDestroyed
<1>1. IInv => NothingDestroyed
  <2> SUFFICES ASSUME IInv PROVE NothingDestroyed
    OBVIOUS
  <2>1. disk.synced \in Nat /\ Len(disk.frames) \in Nat /\ disk.synced <= Len(disk.frames)
    BY DEF IInv, TypeOK, Logs
  <2>2. SyncedFrames \subseteq Held(disk.frames)
    BY <2>1 DEF SyncedFrames, Held
  <2> QED BY <2>2 DEF IInv, Kept, NothingDestroyed
<1> QED BY <1>1, Invariance, PTL

-----------------------------------------------------------------------------
(* The store implements AppendLog.                                         *)

LEMMA TheGreatest ==
  ASSUME NEW S \in SUBSET Nat, NEW k \in S, \A i \in S : i <= k
  PROVE  (CHOOSE m \in S : \A i \in S : i <= m) = k
<1> DEFINE m == CHOOSE n \in S : \A i \in S : i <= n
<1>1. m \in S /\ \A i \in S : i <= m
  OBVIOUS
<1>2. m \in Nat /\ k \in Nat /\ m <= k /\ k <= m
  BY <1>1
<1> HIDE DEF m
<1>3. m = k
  BY <1>2
<1> QED BY <1>3 DEF m

(* There is a last acknowledged frame, or none.                            *)
HasLast == spoiled = {} => \E k \in Acknowledged : \A i \in Acknowledged : i <= k

LEMMA AcknowledgedAre ==
  ASSUME IInv
  PROVE  /\ Acknowledged \subseteq Nat
         /\ spoiled = {} => Held(acked) \subseteq SyncedFrames /\ \A i \in Acknowledged : i <= disk.synced
<1>1. disk.frames \in Seq(Events) /\ Len(disk.frames) \in Nat /\ disk.synced \in Nat /\ disk.synced <= Len(disk.frames)
  BY DEF IInv, TypeOK, Logs
<1>2. Acknowledged \subseteq Nat
  BY <1>1 DEF Acknowledged
<1>3. ASSUME spoiled = {}
      PROVE  Held(acked) \subseteq SyncedFrames /\ \A i \in Acknowledged : i <= disk.synced
  <2>1. Held(disk.behind) = {} /\ saved = {}
    BY <1>3 DEF IInv, Shown, Held
  <2>2. Held(acked) \subseteq SyncedFrames
    BY <1>3, <2>1 DEF IInv, Kept
  <2>3. ASSUME NEW i \in 1 .. Len(disk.frames), disk.frames[i] \in Held(acked) PROVE i <= disk.synced
    <3>1. PICK j \in 1 .. disk.synced : disk.frames[i] = disk.frames[j]
      BY <2>2, <2>3 DEF SyncedFrames
    <3>2. j \in 1 .. Len(disk.frames)
      BY <1>1
    <3>3. i = j
      BY <3>1, <3>2 DEF IInv, OpensAgain
    <3> QED BY <1>1, <3>3
  <2> QED BY <1>1, <2>2, <2>3 DEF Acknowledged
<1> QED BY <1>2, <1>3

(* What a reader finds and what was acknowledged do not change.            *)
LEMMA NothingShown ==
  ASSUME HasLast, UNCHANGED acked, spoiled' = {} => spoiled = {}, disk'.frames = disk.frames
  PROVE  HasLast' /\ UNCHANGED Durable!vars
<1>1. Acknowledged' = Acknowledged
  BY DEF Acknowledged
<1>2. AckedUpTo' = AckedUpTo
  BY <1>1 DEF AckedUpTo
<1> QED BY <1>1, <1>2 DEF HasLast, Durable!vars

(* A frame that is written is put.                                         *)
LEMMA WritePuts ==
  ASSUME IInv, HasLast, Write, spoiled = {}
  PROVE  HasLast' /\ Durable!Next
<1>1. disk \in Logs(Events) /\ disk.frames \in Seq(Events) /\ disk.rest = "none" /\ doing \in Events
      /\ doing \notin Held(disk.frames) /\ disk.synced \in Nat /\ disk.synced <= Len(disk.frames)
  BY DEF IInv, TypeOK, Logs, Busy, Write, Shown, InMemory
<1> DEFINE grown == Append(disk.frames, doing)
           n == Len(disk.frames)
<1>2. disk'.frames = grown /\ UNCHANGED <<acked, spoiled>>
  BY <1>1, WrittenFields DEF Write
<1>3. n \in Nat /\ Len(grown) = n + 1 /\ grown[n + 1] = doing /\ \A i \in 1 .. n : grown[i] = disk.frames[i]
  BY <1>1
<1> HIDE DEF grown
<1>4. doing \notin Held(acked)
  <2>1. SyncedFrames \subseteq Held(disk.frames)
    BY <1>1, <1>3 DEF SyncedFrames, Held
  <2> QED BY <1>1, <2>1, AcknowledgedAre
<1>5. Acknowledged' = Acknowledged
  <2>1. \A i \in 1 .. n + 1 : grown[i] \in Held(acked) <=> i \in 1 .. n /\ disk.frames[i] \in Held(acked)
    BY <1>3, <1>4
  <2> QED BY <1>2, <1>3, <2>1 DEF Acknowledged
<1>6. AckedUpTo' = AckedUpTo
  BY <1>5 DEF AckedUpTo
<1>7. \A i \in 1 .. n : disk.frames[i] # doing
  BY <1>1 DEF Held
<1>8. Durable!Put(doing)
  BY <1>2, <1>6, <1>7 DEF Durable!Put, grown
<1> QED BY <1>1, <1>2, <1>5, <1>8 DEF HasLast, Durable!Next

(* A frame that is synced is acknowledged, with all before it.             *)
LEMMA SyncAcknowledges ==
  ASSUME IInv, Sync, spoiled = {}
  PROVE  HasLast' /\ Durable!Next
<1>1. disk \in Logs(Events) /\ disk.frames \in Seq(Events) /\ doing \in Events /\ acked \in Seq(Events)
      /\ disk.frames # << >> /\ disk.frames[Len(disk.frames)] = doing
  BY DEF IInv, TypeOK, Logs, Busy, Sync, Shown
<1> DEFINE n == Len(disk.frames)
<1>2. n \in Nat \ {0}
  BY <1>1
<1>3. disk'.frames = disk.frames /\ acked' = Append(acked, doing) /\ UNCHANGED spoiled
  BY <1>1 DEF Sync, Synced, Logs
<1>4. doing \in Held(acked')
  BY <1>1, <1>3, HeldAppend
<1>5. n \in Acknowledged' /\ Acknowledged' \in SUBSET Nat /\ \A i \in Acknowledged' : i <= n
  BY <1>1, <1>2, <1>3, <1>4 DEF Acknowledged
<1>6. AckedUpTo' = n
  BY <1>5, TheGreatest DEF AckedUpTo
<1>7. Durable!Acknowledge
  BY <1>3, <1>6 DEF Durable!Acknowledge
<1> QED BY <1>5, <1>7 DEF HasLast, Durable!Next

(* A stop of the machine loses from the end, and nothing acknowledged.     *)
LEMMA CrashLoses ==
  ASSUME IInv, HasLast, Crash, spoiled = {}
  PROVE  HasLast' /\ (Durable!Next \/ UNCHANGED Durable!vars)
<1>1. disk \in Logs(Events) /\ disk.frames \in Seq(Events) /\ Len(disk.frames) \in Nat
      /\ disk.synced \in Nat /\ disk.synced <= Len(disk.frames)
  BY DEF IInv, TypeOK, Logs
<1>2. disk' \in AfterStop(disk) /\ UNCHANGED <<acked, spoiled>>
  BY DEF Crash, Down
<1>3. CASE disk' = [disk EXCEPT !.synced = Len(disk.frames)]
  <2>1. disk'.frames = disk.frames
    BY <1>1, <1>3 DEF Logs
  <2> QED BY <1>2, <2>1, NothingShown
<1>4. ASSUME NEW k \in disk.synced .. Len(disk.frames) - 1, disk'.frames = SubSeq(disk.frames, 1, k)
      PROVE  HasLast' /\ Durable!Next
  <2>1. k \in 0 .. Len(disk.frames)
    BY <1>1
  <2>2. Len(disk'.frames) = k /\ \A i \in 1 .. k : disk'.frames[i] = disk.frames[i]
    BY <1>1, <1>4, <2>1, Prefix
  <2>3. \A i \in Acknowledged : i <= k /\ i \in Nat
    BY <1>1, AcknowledgedAre
  <2>4. Acknowledged' = Acknowledged
    BY <1>1, <1>2, <2>1, <2>2, <2>3 DEF Acknowledged
  <2>5. AckedUpTo' = AckedUpTo
    BY <2>4 DEF AckedUpTo
  <2>6. AckedUpTo \in Acknowledged
    BY DEF HasLast, AckedUpTo
  <2>7. k \in AckedUpTo .. Len(disk.frames)
    BY <1>1, <2>1, <2>3, <2>6
  <2>8. Durable!Lose(k)
    BY <1>4, <2>5 DEF Durable!Lose
  <2> QED BY <1>2, <2>4, <2>7, <2>8 DEF HasLast, Durable!Next
<1> QED BY <1>1, <1>2, <1>3, <1>4, StopFields

LEMMA StepRefines ==
  IInv /\ HasLast /\ [Next]_vars =>
    HasLast' /\ (spoiled' = {} => Durable!Next \/ UNCHANGED Durable!vars)
<1> SUFFICES ASSUME IInv, HasLast, [Next]_vars
             PROVE  HasLast' /\ (spoiled' = {} => Durable!Next \/ UNCHANGED Durable!vars)
  OBVIOUS
<1>1. disk \in Logs(Events) /\ disk.frames \in Seq(Events) /\ Len(disk.frames) \in 0 .. Len(disk.frames)
  BY DEF IInv, TypeOK, Logs
<1>2. spoiled' = {} => spoiled = {}
  BY DEF Next, vars, Open, OpenReadOnly, Keep, Cut, OpenFails, Ingest, Write, Sync, WriteFails, Close, Crash,
         Damage, Down
<1>3. CASE spoiled' # {}
  BY <1>3 DEF HasLast
<1>4. CASE spoiled' = {} /\ Write
  BY <1>2, <1>4, WritePuts
<1>5. CASE spoiled' = {} /\ Sync
  BY <1>2, <1>5, SyncAcknowledges
<1>6. CASE spoiled' = {} /\ Crash
  BY <1>2, <1>6, CrashLoses
<1>7. CASE UNCHANGED acked /\ disk' \in {disk, HalfWritten(disk), CutTo(disk, Len(disk.frames)),
                                         CutUnsynced(disk, Len(disk.frames))}
  <2>1. HalfWritten(disk).frames = disk.frames
    BY <1>1 DEF HalfWritten, Logs
  <2>2. /\ CutTo(disk, Len(disk.frames)).frames = disk.frames
        /\ CutUnsynced(disk, Len(disk.frames)).frames = disk.frames
    <3>1. SubSeq(disk.frames, 1, Len(disk.frames)) = disk.frames
      BY <1>1, WholePrefix
    <3>2. CutTo(disk, Len(disk.frames)).frames = SubSeq(disk.frames, 1, Len(disk.frames))
      BY <1>1, CutFields
    <3>3. CutUnsynced(disk, Len(disk.frames)).frames = SubSeq(disk.frames, 1, Len(disk.frames))
      BY <1>1, UnsyncedFields
    <3> QED BY <3>1, <3>2, <3>3
  <2>3. disk'.frames = disk.frames
    BY <1>7, <2>1, <2>2
  <2> QED BY <1>2, <1>7, <2>3, NothingShown
<1>8. ASSUME NEW k \in 1 .. Len(disk.frames), Damage(k) PROVE spoiled' # {}
  BY <1>8 DEF Damage
<1>9. CASE Open \/ OpenReadOnly \/ Keep \/ Cut \/ OpenFails \/ (\E e \in Events : Ingest(e)) \/ WriteFails \/ Close
           \/ UNCHANGED vars
  <2>1. UNCHANGED acked /\ disk' \in {disk, HalfWritten(disk), CutTo(disk, Len(disk.frames)),
                                      CutUnsynced(disk, Len(disk.frames))}
    BY <1>9 DEF vars, Open, OpenReadOnly, Keep, Cut, OpenFails, Ingest, WriteFails, Close, Down
  <2> QED BY <1>7, <2>1
<1> QED BY <1>3, <1>4, <1>5, <1>6, <1>8, <1>9 DEF Next

(* While the medium damages nothing, the detailed store is a durable log:  *)
(* a frame written is put, a sync acknowledges, a stop of the machine      *)
(* loses only from the end what was not acknowledged, and nothing else     *)
(* shows (event-store.ts, log.ts).                                         *)
THEOREM DurableLog == Spec => ImplementsAppendLog
<1>1. Init => Durable!Init /\ HasLast
  <2> SUFFICES ASSUME Init PROVE Durable!Init /\ HasLast
    OBVIOUS
  <2>1. disk.frames = << >>
    BY DEF Init, EmptyLog
  <2>2. Acknowledged = {0}
    BY <2>1 DEF Acknowledged
  <2>3. AckedUpTo = 0
    BY <2>2, TheGreatest DEF AckedUpTo
  <2> QED BY <2>1, <2>2, <2>3 DEF Durable!Init, HasLast
<1>2. IInv /\ HasLast /\ [Next]_vars => HasLast' /\ [spoiled' = {} => Durable!Next \/ UNCHANGED Durable!vars]_vars
  BY StepRefines
<1> QED BY <1>1, <1>2, Invariance, PTL DEF Spec, ImplementsAppendLog

-----------------------------------------------------------------------------
(* Attachment: the functions the model is written with.                    *)

(* Induction up to a bound, over a set.                                    *)
LEMMA UpTo ==
  ASSUME NEW N \in Nat, NEW T, 0 \in T, \A n \in 0 .. N - 1 : n \in T => n + 1 \in T
  PROVE  0 .. N \subseteq T
<1> DEFINE Left == {n \in 0 .. N : n \notin T}
<1>1. SUFFICES ASSUME Left # {} PROVE FALSE
  OBVIOUS
<1>2. Left \subseteq Nat
  OBVIOUS
<1>3. PICK x \in Left : \A y \in Left : ~(<<y, x>> \in OpToRel(<, Nat))
  BY ONLY <1>1, <1>2, WFMin, NatLessThanWellFounded
<1>4. \A y \in Left : ~(y < x)
  BY <1>2, <1>3 DEF OpToRel
<1>5. x \in 1 .. N /\ x - 1 \in 0 .. N - 1
  OBVIOUS
<1>6. x - 1 \in T
  BY <1>4, <1>5
<1>7. x - 1 + 1 \in T
  BY <1>5, <1>6
<1> QED BY <1>5, <1>7

-----------------------------------------------------------------------------
(* What Selected keeps.                                                    *)

Selects(f, s, places) ==
  f = [n \in 0 .. Len(s) |->
         IF n = 0 THEN << >>
         ELSE IF n \in places THEN Append(f[n - 1], s[n]) ELSE f[n - 1]]

LEMMA SelectionExists ==
  ASSUME NEW S, NEW s \in Seq(S), NEW places
  PROVE  \E f : Selects(f, s, places)
<1> DEFINE Upto(k, f) == f = [n \in 0 .. k |->
                           IF n = 0 THEN << >>
                           ELSE IF n \in places THEN Append(f[n - 1], s[n]) ELSE f[n - 1]]
           T == {k \in 0 .. Len(s) : \E f : Upto(k, f)}
<1>1. Len(s) \in Nat
  OBVIOUS
<1>2. 0 \in T
  <2> DEFINE f == [n \in 0 .. 0 |-> << >>]
  <2>1. Upto(0, f)
    OBVIOUS
  <2> HIDE DEF f, Upto
  <2> QED BY <1>1, <2>1
<1>3. ASSUME NEW k \in 0 .. Len(s) - 1, k \in T
      PROVE  k + 1 \in T
  <2>1. PICK f : Upto(k, f)
    BY <1>3
  <2> DEFINE g == [n \in 0 .. k + 1 |->
                     IF n <= k THEN f[n]
                     ELSE IF n \in places THEN Append(f[k], s[n]) ELSE f[k]]
  <2>2. \A n \in 0 .. k + 1 :
           g[n] = IF n = 0 THEN << >>
                  ELSE IF n \in places THEN Append(g[n - 1], s[n]) ELSE g[n - 1]
    <3> TAKE n \in 0 .. k + 1
    <3>1. CASE n = 0
      BY <2>1, <3>1
    <3>2. CASE n \in 1 .. k
      <4>1. n \in 0 .. k /\ n - 1 \in 0 .. k /\ n # 0 /\ g[n] = f[n] /\ g[n - 1] = f[n - 1]
        BY <3>2
      <4>2. f[n] = IF n = 0 THEN << >>
                   ELSE IF n \in places THEN Append(f[n - 1], s[n]) ELSE f[n - 1]
        BY <2>1, <4>1
      <4> QED BY <4>1, <4>2
    <3>3. CASE n = k + 1
      <4>1. n # 0 /\ ~(n <= k) /\ g[n - 1] = f[k]
        BY <3>3
      <4> QED BY <3>3, <4>1
    <3> QED BY <3>1, <3>2, <3>3
  <2>3. Upto(k + 1, g)
    BY <2>2
  <2> HIDE DEF g, Upto
  <2> QED BY <1>1, <2>3
<1> HIDE DEF T
<1>4. 0 .. Len(s) \subseteq T
  BY <1>1, <1>2, <1>3, UpTo
<1>5. Len(s) \in T
  BY <1>1, <1>4
<1> QED BY <1>5 DEF T, Selects

LEMMA SelectionIs ==
  ASSUME NEW S, NEW s \in Seq(S), NEW places
  PROVE  \E f : Selects(f, s, places) /\ Selected(s, places) = f[Len(s)]
<1> DEFINE f == CHOOSE f : Selects(f, s, places)
<1>1. Selects(f, s, places)
  BY SelectionExists
<1>2. Selected(s, places) = f[Len(s)]
  BY DEF Selected, Selects
<1> HIDE DEF f
<1> QED BY <1>1, <1>2

(* Two selections agree as far as their sequences and places do.           *)
LEMMA SelectionsAgree ==
  ASSUME NEW S, NEW s \in Seq(S), NEW t \in Seq(S), NEW P, NEW Q, NEW f, NEW g,
         Selects(f, s, P), Selects(g, t, Q), NEW N \in Nat, N <= Len(s), N <= Len(t),
         \A n \in 1 .. N : s[n] = t[n] /\ (n \in P <=> n \in Q)
  PROVE  \A n \in 0 .. N : f[n] = g[n]
<1> DEFINE T == {n \in 0 .. N : f[n] = g[n]}
<1>1. Len(s) \in Nat /\ Len(t) \in Nat
  OBVIOUS
<1>2. 0 \in T
  BY <1>1 DEF Selects
<1>3. ASSUME NEW n \in 0 .. N - 1, n \in T
      PROVE  n + 1 \in T
  <2>1. n + 1 \in 1 .. N /\ n + 1 \in 0 .. Len(s) /\ n + 1 \in 0 .. Len(t) /\ n + 1 # 0 /\ (n + 1) - 1 = n
    BY <1>1, <1>3
  <2>2. f[n + 1] = IF n + 1 \in P THEN Append(f[n], s[n + 1]) ELSE f[n]
    BY <2>1 DEF Selects
  <2>3. g[n + 1] = IF n + 1 \in Q THEN Append(g[n], t[n + 1]) ELSE g[n]
    BY <2>1 DEF Selects
  <2> QED BY <1>3, <2>1, <2>2, <2>3
<1> HIDE DEF T
<1>4. 0 .. N \subseteq T
  BY <1>2, <1>3, UpTo
<1> QED BY <1>4 DEF T

LEMMA SelectedSame ==
  ASSUME NEW S, NEW s \in Seq(S), NEW P, NEW Q, \A n \in 1 .. Len(s) : n \in P <=> n \in Q
  PROVE  Selected(s, P) = Selected(s, Q)
<1>1. Len(s) \in Nat
  OBVIOUS
<1>2. PICK f : Selects(f, s, P) /\ Selected(s, P) = f[Len(s)]
  BY SelectionIs
<1>3. PICK g : Selects(g, s, Q) /\ Selected(s, Q) = g[Len(s)]
  BY SelectionIs
<1>4. \A n \in 0 .. Len(s) : f[n] = g[n]
  BY <1>1, <1>2, <1>3, SelectionsAgree
<1> QED BY <1>1, <1>2, <1>3, <1>4

LEMMA SelectedNone ==
  ASSUME NEW P
  PROVE  Selected(<< >>, P) = << >>
<1>1. << >> \in Seq({}) /\ Len(<< >>) = 0
  OBVIOUS
<1>2. PICK f : Selects(f, << >>, P) /\ Selected(<< >>, P) = f[0]
  BY <1>1, SelectionIs
<1> QED BY <1>1, <1>2 DEF Selects

LEMMA SelectedAppend ==
  ASSUME NEW S, NEW s \in Seq(S), NEW e \in S, NEW P
  PROVE  Selected(Append(s, e), P) =
           IF Len(s) + 1 \in P THEN Append(Selected(s, P), e) ELSE Selected(s, P)
<1> DEFINE t == Append(s, e)
<1>1. /\ Len(s) \in Nat /\ t \in Seq(S) /\ Len(t) = Len(s) + 1 /\ t[Len(s) + 1] = e
      /\ \A n \in 1 .. Len(s) : s[n] = t[n]
  OBVIOUS
<1> HIDE DEF t
<1>2. PICK f : Selects(f, s, P) /\ Selected(s, P) = f[Len(s)]
  BY SelectionIs
<1>3. PICK g : Selects(g, t, P) /\ Selected(t, P) = g[Len(t)]
  BY <1>1, SelectionIs
<1>4. f[Len(s)] = g[Len(s)]
  <2>1. \A n \in 0 .. Len(s) : f[n] = g[n]
    BY <1>1, <1>2, <1>3, SelectionsAgree
  <2> QED BY <1>1, <2>1
<1>5. g[Len(s) + 1] = IF Len(s) + 1 \in P THEN Append(g[Len(s)], e) ELSE g[Len(s)]
  <2> DEFINE N == Len(s) + 1
             KeptAt(n) == IF n = 0 THEN << >> ELSE IF n \in P THEN Append(g[n - 1], t[n]) ELSE g[n - 1]
  <2>1. g = [n \in 0 .. Len(t) |-> KeptAt(n)]
    BY <1>3 DEF Selects
  <2>2. N \in 0 .. Len(t) /\ N # 0 /\ N - 1 = Len(s) /\ t[N] = e
    BY <1>1
  <2> HIDE DEF N
  <2>3. g[N] = KeptAt(N)
    <3> HIDE DEF KeptAt
    <3> QED BY <2>1, <2>2
  <2>4. KeptAt(N) = IF N \in P THEN Append(g[Len(s)], e) ELSE g[Len(s)]
    BY <2>2
  <2> QED BY <2>3, <2>4 DEF N
<1> QED BY <1>1, <1>2, <1>3, <1>4, <1>5 DEF t

(* Induction on a sequence, from the front: what holds of the empty one    *)
(* and, when it holds of a front of s, of the next longer front.           *)
LEMMA Fronts ==
  ASSUME NEW S, NEW s \in Seq(S), NEW n \in 0 .. Len(s)
  PROVE  /\ SubSeq(s, 1, n) \in Seq(S) /\ Len(SubSeq(s, 1, n)) = n
         /\ \A i \in 1 .. n : SubSeq(s, 1, n)[i] = s[i]
         /\ n < Len(s) => SubSeq(s, 1, n + 1) = Append(SubSeq(s, 1, n), s[n + 1])
         /\ n = 0 => SubSeq(s, 1, n) = << >>
         /\ n = Len(s) => SubSeq(s, 1, n) = s
<1>1. Len(s) \in Nat
  OBVIOUS
<1>2. /\ SubSeq(s, 1, n) \in Seq(S) /\ Len(SubSeq(s, 1, n)) = n
      /\ \A i \in 1 .. n : SubSeq(s, 1, n)[i] = s[i]
  OBVIOUS
<1>3. n < Len(s) => SubSeq(s, 1, n + 1) = Append(SubSeq(s, 1, n), s[n + 1])
  OBVIOUS
<1>4. n = 0 => SubSeq(s, 1, n) = << >>
  OBVIOUS
<1>5. n = Len(s) => SubSeq(s, 1, n) = s
  OBVIOUS
<1> QED BY <1>2, <1>3, <1>4, <1>5

(* What is kept was there, and what is there at a place is kept.           *)
LEMMA SelectedFrom ==
  ASSUME NEW S, NEW s \in Seq(S), NEW P
  PROVE  /\ Selected(s, P) \in Seq({s[i] : i \in P \cap (1 .. Len(s))})
         /\ \A i \in P \cap (1 .. Len(s)) : \E j \in 1 .. Len(Selected(s, P)) : Selected(s, P)[j] = s[i]
<1> DEFINE K(n) == {s[i] : i \in P \cap (1 .. n)}
           front(n) == SubSeq(s, 1, n)
           Good(n) == /\ Selected(front(n), P) \in Seq(K(n))
                      /\ \A i \in P \cap (1 .. n) :
                           \E j \in 1 .. Len(Selected(front(n), P)) : Selected(front(n), P)[j] = s[i]
           T == {n \in 0 .. Len(s) : Good(n)}
<1>1. Len(s) \in Nat
  OBVIOUS
<1>2. Good(0)
  <2>1. front(0) = << >>
    BY <1>1, Fronts
  <2>2. Selected(front(0), P) = << >>
    BY <2>1, SelectedNone
  <2>3. << >> \in Seq(K(0)) /\ P \cap (1 .. 0) = {}
    <3> HIDE DEF K
    <3> QED BY EmptySeq
  <2> HIDE DEF front, K
  <2> QED BY <2>2, <2>3
<1>3. ASSUME NEW n \in 0 .. Len(s) - 1, Good(n)
      PROVE  Good(n + 1)
  <2> DEFINE old == Selected(front(n), P)
             new == Selected(front(n + 1), P)
  <2>1. /\ n \in 0 .. Len(s) /\ front(n) \in Seq(S) /\ Len(front(n)) = n
        /\ front(n + 1) = Append(front(n), s[n + 1]) /\ s[n + 1] \in S
    <3>1. n \in 0 .. Len(s) /\ n < Len(s) /\ s[n + 1] \in S
      BY <1>1
    <3> QED BY <3>1, Fronts
  <2>2. new = IF n + 1 \in P THEN Append(old, s[n + 1]) ELSE old
    <3> DEFINE u == front(n)
               x == s[n + 1]
    <3>1. u \in Seq(S) /\ Len(u) = n /\ x \in S /\ front(n + 1) = Append(u, x)
      BY <2>1
    <3> HIDE DEF u, x, front
    <3>2. Selected(Append(u, x), P) = IF Len(u) + 1 \in P THEN Append(Selected(u, P), x) ELSE Selected(u, P)
      BY <3>1, SelectedAppend
    <3> QED BY <3>1, <3>2 DEF u, x
  <2>3. K(n) \subseteq K(n + 1)
    BY <1>1
  <2>4. old \in Seq(K(n)) /\ \A i \in P \cap (1 .. n) : \E j \in 1 .. Len(old) : old[j] = s[i]
    BY <1>3
  <2>5. 1 .. n + 1 = (1 .. n) \union {n + 1}
    BY <1>1
  <2>6. n + 1 \in P => s[n + 1] \in K(n + 1)
    BY <1>1
  <2> HIDE DEF old, new, K
  <2>7. CASE n + 1 \in P
    <3>1. old \in Seq(K(n + 1)) /\ Len(old) \in Nat
      BY <2>3, <2>4
    <3>2. new \in Seq(K(n + 1)) /\ Len(new) = Len(old) + 1 /\ new[Len(old) + 1] = s[n + 1]
          /\ \A j \in 1 .. Len(old) : new[j] = old[j]
      BY <2>2, <2>6, <2>7, <3>1
    <3>3. ASSUME NEW i \in P \cap (1 .. n + 1)
          PROVE  \E j \in 1 .. Len(new) : new[j] = s[i]
      <4>1. CASE i = n + 1
        BY <3>1, <3>2, <4>1
      <4>2. CASE i \in P \cap (1 .. n)
        <5>1. PICK j \in 1 .. Len(old) : old[j] = s[i]
          BY <2>4, <4>2
        <5> QED BY <3>1, <3>2, <5>1
      <4> QED BY <2>5, <3>3, <4>1, <4>2
    <3> QED BY <3>2, <3>3 DEF new
  <2>8. CASE n + 1 \notin P
    <3>1. new = old
      BY <2>2, <2>8
    <3>2. old \in Seq(K(n + 1))
      BY <2>3, <2>4
    <3>3. P \cap (1 .. n + 1) = P \cap (1 .. n)
      BY <2>5, <2>8
    <3> QED BY <2>4, <3>1, <3>2, <3>3 DEF new
  <2> QED BY <2>7, <2>8
<1> HIDE DEF Good
<1>4. 0 .. Len(s) \subseteq T
  <2>1. 0 \in T
    BY <1>1, <1>2
  <2>2. ASSUME NEW n \in 0 .. Len(s) - 1, n \in T PROVE n + 1 \in T
    BY <1>1, <1>3, <2>2
  <2> HIDE DEF T
  <2> QED BY <1>1, <2>1, <2>2, UpTo
<1>5. Good(Len(s))
  BY <1>1, <1>4
<1>6. front(Len(s)) = s
  BY <1>1, Fronts
<1> QED BY <1>5, <1>6 DEF Good

-----------------------------------------------------------------------------
(* What Fold makes of one more event.                                      *)

Folds(f, s) == f = [n \in 0 .. Len(s) |-> IF n = 0 THEN Start ELSE Extended(f[n - 1], s[n])]

LEMMA FoldExists ==
  ASSUME NEW S, NEW s \in Seq(S)
  PROVE  \E f : Folds(f, s)
<1> DEFINE Upto(k, f) == f = [n \in 0 .. k |-> IF n = 0 THEN Start ELSE Extended(f[n - 1], s[n])]
           T == {k \in 0 .. Len(s) : \E f : Upto(k, f)}
<1>1. Len(s) \in Nat
  OBVIOUS
<1>2. 0 \in T
  <2> DEFINE f == [n \in 0 .. 0 |-> Start]
  <2>1. Upto(0, f)
    OBVIOUS
  <2> HIDE DEF f, Upto
  <2> QED BY <1>1, <2>1
<1>3. ASSUME NEW k \in 0 .. Len(s) - 1, k \in T
      PROVE  k + 1 \in T
  <2>1. PICK f : Upto(k, f)
    BY <1>3
  <2> DEFINE g == [n \in 0 .. k + 1 |-> IF n <= k THEN f[n] ELSE Extended(f[k], s[n])]
  <2>2. \A n \in 0 .. k + 1 : g[n] = IF n = 0 THEN Start ELSE Extended(g[n - 1], s[n])
    <3> TAKE n \in 0 .. k + 1
    <3>1. CASE n = 0
      BY <2>1, <3>1
    <3>2. CASE n \in 1 .. k
      <4>1. n \in 0 .. k /\ n - 1 \in 0 .. k /\ n # 0 /\ g[n] = f[n] /\ g[n - 1] = f[n - 1]
        BY <3>2
      <4>2. f[n] = IF n = 0 THEN Start ELSE Extended(f[n - 1], s[n])
        BY <2>1, <4>1
      <4> QED BY <4>1, <4>2
    <3>3. CASE n = k + 1
      <4>1. n # 0 /\ ~(n <= k) /\ g[n - 1] = f[k]
        BY <3>3
      <4> QED BY <3>3, <4>1
    <3> QED BY <3>1, <3>2, <3>3
  <2>3. Upto(k + 1, g)
    BY <2>2
  <2> HIDE DEF g, Upto
  <2> QED BY <1>1, <2>3
<1> HIDE DEF T
<1>4. 0 .. Len(s) \subseteq T
  BY <1>1, <1>2, <1>3, UpTo
<1>5. Len(s) \in T
  BY <1>1, <1>4
<1> QED BY <1>5 DEF T, Folds

LEMMA FoldIs ==
  ASSUME NEW S, NEW s \in Seq(S)
  PROVE  \E f : Folds(f, s) /\ Fold(s) = f[Len(s)]
<1> DEFINE f == CHOOSE f : Folds(f, s)
<1>1. Folds(f, s)
  BY FoldExists
<1>2. Fold(s) = f[Len(s)]
  BY DEF Fold, Folds
<1> HIDE DEF f
<1> QED BY <1>1, <1>2

LEMMA FoldNone == Fold(<< >>) = Start
<1>1. << >> \in Seq({}) /\ Len(<< >>) = 0
  OBVIOUS
<1>2. PICK f : Folds(f, << >>) /\ Fold(<< >>) = f[0]
  BY <1>1, FoldIs
<1> QED BY <1>1, <1>2 DEF Folds

LEMMA FoldAppend ==
  ASSUME NEW S, NEW s \in Seq(S), NEW e \in S
  PROVE  Fold(Append(s, e)) = Extended(Fold(s), e)
<1> DEFINE t == Append(s, e)
<1>1. /\ Len(s) \in Nat /\ t \in Seq(S) /\ Len(t) = Len(s) + 1 /\ t[Len(s) + 1] = e
      /\ \A n \in 1 .. Len(s) : t[n] = s[n]
  OBVIOUS
<1> HIDE DEF t
<1>2. PICK f : Folds(f, s) /\ Fold(s) = f[Len(s)]
  BY FoldIs
<1>3. PICK g : Folds(g, t) /\ Fold(t) = g[Len(t)]
  BY <1>1, FoldIs
<1> DEFINE T == {n \in 0 .. Len(s) : g[n] = f[n]}
<1>4. 0 \in T
  BY <1>1, <1>2, <1>3 DEF Folds
<1>5. ASSUME NEW n \in 0 .. Len(s) - 1, n \in T
      PROVE  n + 1 \in T
  <2>1. /\ n + 1 \in 1 .. Len(s) /\ n + 1 \in 0 .. Len(s) /\ n + 1 \in 0 .. Len(t)
        /\ n + 1 # 0 /\ (n + 1) - 1 = n
    BY <1>1
  <2>2. f[n + 1] = Extended(f[n], s[n + 1])
    BY <1>2, <2>1 DEF Folds
  <2>3. g[n + 1] = Extended(g[n], t[n + 1])
    BY <1>3, <2>1 DEF Folds
  <2> QED BY <1>1, <1>5, <2>1, <2>2, <2>3
<1> HIDE DEF T
<1>6. 0 .. Len(s) \subseteq T
  BY <1>1, <1>4, <1>5, UpTo
<1>7. g[Len(s)] = f[Len(s)]
  BY <1>1, <1>6 DEF T
<1>8. g[Len(s) + 1] = Extended(g[Len(s)], e)
  <2>1. Len(s) + 1 \in 0 .. Len(t) /\ Len(s) + 1 # 0 /\ (Len(s) + 1) - 1 = Len(s)
    BY <1>1
  <2>2. g[Len(s) + 1] = Extended(g[Len(s)], t[Len(s) + 1])
    BY <1>3, <2>1 DEF Folds
  <2> QED BY <1>1, <2>2
<1> QED BY <1>1, <1>2, <1>3, <1>7, <1>8 DEF t

-----------------------------------------------------------------------------
(* Events: what is recorded, and what the fold derives of it.              *)

Stops == {"stop-requested", "stop-accepted", "stop-refused"}
EventIds == Nat \X Nat
Recordings ==
  [id : EventIds, k : {"control", "prompt"}, v : Stops]
    \union [id : EventIds, k : {"entry", "store-opened", "attached", "catch-up"}, v : {"none"}]
    \union [id : EventIds, k : {"exited"}, v : {"expected", "unexpected"}]
    \union [id : EventIds, k : LiveKinds, v : Reasons]
    \union [id : EventIds, k : {"leaf"}, v : {"none"}, leaf : Nat]
Outcomes == {"run-completed", "run-failed", "run-aborted", "run-unclassified"}
Asides == {"session-started", "session-resumed", "anomaly", "detached", "turn-started",
           "turn-completed", "compacted", "unrecognized"} \union Stops
LifecycleKinds == {"run-started"} \union Concluding \union Asides
Derivations == [id : Nat \X Nat \X LifecycleKinds \X Nat, k : LifecycleKinds, runOpen : BOOLEAN, seq : Nat]
Stored == Recordings \union Derivations

(* The event a lifecycle event is derived of.                              *)
Origin(x) == <<x.id[1], x.id[2]>>

LEMMA EventFacts ==
  ASSUME NEW x \in Recordings
  PROVE  /\ x.id \in EventIds /\ Len(x.id) = 2 /\ x.id = <<x.id[1], x.id[2]>>
         /\ x.id[1] \in Nat /\ x.id[2] \in Nat
         /\ x.k = "control" => x.v \in Stops
         /\ x.v \in Stops \union Reasons \union {"expected", "unexpected"}
         /\ x.k \in LiveKinds => x.v \in Reasons
<1>1. x.id \in EventIds
  BY DEF Recordings
<1>2. x.k = "control" => x.v \in Stops
  BY DEF Recordings, LiveKinds
<1>3. x.v \in Stops \union Reasons \union {"expected", "unexpected"}
  BY DEF Recordings, Reasons
<1>4. x.k \in LiveKinds => x.v \in Reasons
  BY DEF Recordings, LiveKinds
<1>5. x.id = <<x.id[1], x.id[2]>> /\ x.id[1] \in Nat /\ x.id[2] \in Nat
  BY <1>1 DEF EventIds
<1>6. Len(x.id) = 2
  <2>1. PICK a, b : x.id = <<a, b>>
    BY <1>5
  <2> QED BY <2>1
<1> QED BY <1>1, <1>2, <1>3, <1>4, <1>5, <1>6

LEMMA DerivationFacts ==
  ASSUME NEW x \in Derivations
  PROVE  /\ Len(x.id) = 4 /\ x.id = <<x.id[1], x.id[2], x.id[3], x.id[4]>>
         /\ Origin(x) \in EventIds /\ x.k \in LifecycleKinds /\ x.runOpen \in BOOLEAN
<1>1. x.id \in Nat \X Nat \X LifecycleKinds \X Nat /\ x.k \in LifecycleKinds /\ x.runOpen \in BOOLEAN
  BY DEF Derivations
<1>2. x.id = <<x.id[1], x.id[2], x.id[3], x.id[4]>> /\ Origin(x) \in EventIds
  BY <1>1 DEF Origin, EventIds
<1>3. Len(x.id) = 4
  <2>1. PICK a, b, c, d : x.id = <<a, b, c, d>>
    BY <1>2
  <2> QED BY <2>1
<1> QED BY <1>1, <1>2, <1>3

LEMMA Lengths ==
  /\ \A x \in Recordings : Len(x.id) = 2
  /\ \A x \in Derivations : Len(x.id) = 4
BY EventFacts, DerivationFacts

LEMMA Apart ==
  ASSUME NEW x \in Recordings, NEW y \in Derivations
  PROVE  x # y /\ x.id # y.id
BY Lengths

LEMMA RecordedAppend ==
  ASSUME NEW s \in Seq(Stored), NEW e \in Stored
  PROVE  /\ e \in Recordings => Recorded(Append(s, e)) = Append(Recorded(s), e)
                             /\ Derived(Append(s, e)) = Derived(s)
         /\ e \in Derivations => Recorded(Append(s, e)) = Recorded(s)
                                 /\ Derived(Append(s, e)) = Append(Derived(s), e)
<1> DEFINE t == Append(s, e)
           P(u, l) == {n \in DOMAIN u : Len(u[n].id) = l}
<1>1. /\ Len(s) \in Nat /\ t \in Seq(Stored) /\ Len(t) = Len(s) + 1 /\ t[Len(s) + 1] = e
      /\ \A n \in 1 .. Len(s) : t[n] = s[n]
      /\ DOMAIN s = 1 .. Len(s) /\ DOMAIN t = 1 .. Len(t)
  OBVIOUS
<1>2. ASSUME NEW l
      PROVE  Selected(t, P(t, l)) = IF Len(e.id) = l THEN Append(Selected(s, P(s, l)), e)
                                    ELSE Selected(s, P(s, l))
  <2>1. Selected(t, P(t, l)) = IF Len(s) + 1 \in P(t, l) THEN Append(Selected(s, P(t, l)), e)
                               ELSE Selected(s, P(t, l))
    <3> DEFINE Q == P(t, l)
    <3> HIDE DEF Q
    <3>1. Selected(Append(s, e), Q) = IF Len(s) + 1 \in Q THEN Append(Selected(s, Q), e) ELSE Selected(s, Q)
      BY SelectedAppend
    <3> QED BY <3>1 DEF Q
  <2>2. \A n \in 1 .. Len(s) : n \in P(t, l) <=> n \in P(s, l)
    BY <1>1
  <2>3. Selected(s, P(t, l)) = Selected(s, P(s, l))
    <3> HIDE DEF P, t
    <3> QED BY <2>2, SelectedSame
  <2>4. Len(s) + 1 \in P(t, l) <=> Len(e.id) = l
    BY <1>1
  <2> HIDE DEF P, t
  <2> QED BY <2>1, <2>3, <2>4
<1>3. e \in Recordings => Len(e.id) = 2
  BY ONLY Lengths
<1>4. e \in Derivations => Len(e.id) = 4
  BY ONLY Lengths
<1>5. /\ Recorded(t) = Selected(t, P(t, 2)) /\ Recorded(s) = Selected(s, P(s, 2))
      /\ Derived(t) = Selected(t, P(t, 4)) /\ Derived(s) = Selected(s, P(s, 4))
  BY DEF Recorded, Derived
<1> HIDE DEF P, t
<1>6. Recorded(t) = IF Len(e.id) = 2 THEN Append(Recorded(s), e) ELSE Recorded(s)
  BY <1>2, <1>5
<1>7. Derived(t) = IF Len(e.id) = 4 THEN Append(Derived(s), e) ELSE Derived(s)
  BY <1>2, <1>5
<1>8. ASSUME e \in Recordings
      PROVE  Recorded(t) = Append(Recorded(s), e) /\ Derived(t) = Derived(s)
  <2>1. Len(e.id) = 2 /\ 2 # 4
    BY <1>3, <1>8
  <2> QED BY ONLY <1>6, <1>7, <2>1
<1>9. ASSUME e \in Derivations
      PROVE  Recorded(t) = Recorded(s) /\ Derived(t) = Append(Derived(s), e)
  <2>1. Len(e.id) = 4 /\ 2 # 4
    BY <1>4, <1>9
  <2> QED BY ONLY <1>6, <1>7, <2>1
<1> QED BY <1>8, <1>9 DEF t

LEMMA RecordedTyped ==
  ASSUME NEW s \in Seq(Stored)
  PROVE  /\ Recorded(s) \in Seq(Recordings)
         /\ Derived(s) \in Seq(Derivations)
         /\ \A j \in 1 .. Len(Derived(s)) : \E i \in 1 .. Len(s) : s[i] = Derived(s)[j]
         /\ \A i \in 1 .. Len(s) : s[i] \in Derivations => \E j \in 1 .. Len(Derived(s)) : Derived(s)[j] = s[i]
<1> DEFINE P(l) == {n \in DOMAIN s : Len(s[n].id) = l}
           K(l) == {s[i] : i \in P(l) \cap (1 .. Len(s))}
<1>1. \A i \in 1 .. Len(s) : s[i] \in Stored
  OBVIOUS
<1>2. DOMAIN s = 1 .. Len(s)
  OBVIOUS
<1>3. K(2) \subseteq Recordings
  <2>1. \A i \in 1 .. Len(s) : Len(s[i].id) = 2 => s[i] \in Recordings
    BY <1>1, Lengths DEF Stored
  <2> QED BY <2>1
<1>4. K(4) \subseteq Derivations
  <2>1. \A i \in 1 .. Len(s) : Len(s[i].id) = 4 => s[i] \in Derivations
    BY <1>1, Lengths DEF Stored
  <2> QED BY <2>1
<1>5. Selected(s, P(2)) \in Seq(K(2)) /\ Selected(s, P(4)) \in Seq(K(4))
  BY SelectedFrom
<1>6. Recorded(s) \in Seq(Recordings) /\ Derived(s) \in Seq(Derivations)
  <2>1. Recorded(s) = Selected(s, P(2)) /\ Derived(s) = Selected(s, P(4))
    BY DEF Recorded, Derived
  <2> HIDE DEF K, P
  <2> QED BY <1>3, <1>4, <1>5, <2>1
<1>7. ASSUME NEW j \in 1 .. Len(Derived(s))
      PROVE  \E i \in 1 .. Len(s) : s[i] = Derived(s)[j]
  <2>1. Derived(s) = Selected(s, P(4))
    BY DEF Derived
  <2>2. Derived(s) \in Seq(K(4))
    BY <1>5, <2>1
  <2>3. Derived(s)[j] \in K(4)
    <3> HIDE DEF K
    <3> QED BY <2>2
  <2> QED BY <2>3
<1>8. ASSUME NEW i \in 1 .. Len(s), s[i] \in Derivations
      PROVE  \E j \in 1 .. Len(Derived(s)) : Derived(s)[j] = s[i]
  <2>1. i \in P(4) \cap (1 .. Len(s))
    BY <1>2, <1>8, Lengths
  <2>2. Derived(s) = Selected(s, P(4))
    BY DEF Derived
  <2> DEFINE Q == P(4)
  <2>3. i \in Q \cap (1 .. Len(s)) /\ Derived(s) = Selected(s, Q)
    BY <2>1, <2>2
  <2> HIDE DEF Q
  <2>4. \A n \in Q \cap (1 .. Len(s)) : \E j \in 1 .. Len(Selected(s, Q)) : Selected(s, Q)[j] = s[n]
    BY SelectedFrom
  <2> QED BY <2>3, <2>4
<1> QED BY <1>6, <1>7, <1>8

LEMMA MoreDerived ==
  ASSUME NEW s \in Seq(Stored), NEW t \in Seq(Derivations)
  PROVE  /\ s \o t \in Seq(Stored)
         /\ Recorded(s \o t) = Recorded(s)
         /\ Derived(s \o t) = Derived(s) \o t
<1> DEFINE front(n) == SubSeq(t, 1, n)
           Good(n) == /\ s \o front(n) \in Seq(Stored)
                      /\ Recorded(s \o front(n)) = Recorded(s)
                      /\ Derived(s \o front(n)) = Derived(s) \o front(n)
           T == {n \in 0 .. Len(t) : Good(n)}
<1>1. Len(t) \in Nat /\ Derived(s) \in Seq(Derivations)
  BY RecordedTyped
<1>2. Good(0)
  <2>1. front(0) = << >>
    BY <1>1, Fronts
  <2>2. s \o << >> = s /\ Derived(s) \o << >> = Derived(s)
    BY <1>1
  <2> HIDE DEF front
  <2> QED BY <2>1, <2>2
<1>3. ASSUME NEW n \in 0 .. Len(t) - 1, Good(n)
      PROVE  Good(n + 1)
  <2>1. n \in 0 .. Len(t) /\ n < Len(t) /\ t[n + 1] \in Derivations
    BY <1>1
  <2>2. front(n) \in Seq(Derivations) /\ front(n + 1) = Append(front(n), t[n + 1])
    BY <2>1, Fronts
  <2> DEFINE u == s \o front(n)
             e == t[n + 1]
  <2>3. u \in Seq(Stored) /\ Recorded(u) = Recorded(s) /\ Derived(u) = Derived(s) \o front(n)
    BY <1>3
  <2>4. e \in Derivations /\ e \in Stored
    BY <2>1 DEF Stored
  <2> HIDE DEF front, e
  <2>5. s \o front(n + 1) = Append(u, e)
    <3>1. front(n + 1) = Append(front(n), e)
      BY <2>2 DEF e
    <3>2. front(n) \in Seq(Stored)
      BY <2>2 DEF Stored
    <3>3. s \o Append(front(n), e) = Append(s \o front(n), e)
      BY <2>4, <3>2
    <3> QED BY <3>1, <3>3
  <2>6. Derived(s) \o front(n + 1) = Append(Derived(s) \o front(n), e)
    <3>1. front(n + 1) = Append(front(n), e)
      BY <2>2 DEF e
    <3>2. Derived(s) \o Append(front(n), e) = Append(Derived(s) \o front(n), e)
      BY <1>1, <2>2, <2>4
    <3> QED BY <3>1, <3>2
  <2> HIDE DEF u
  <2>7. Append(u, e) \in Seq(Stored)
    BY <2>3, <2>4
  <2>8. Recorded(Append(u, e)) = Recorded(u) /\ Derived(Append(u, e)) = Append(Derived(u), e)
    BY <2>3, <2>4, RecordedAppend
  <2> QED BY <2>3, <2>5, <2>6, <2>7, <2>8
<1> HIDE DEF Good
<1>4. 0 .. Len(t) \subseteq T
  <2>1. 0 \in T
    BY <1>1, <1>2
  <2>2. ASSUME NEW n \in 0 .. Len(t) - 1, n \in T PROVE n + 1 \in T
    BY <1>1, <1>3, <2>2
  <2> HIDE DEF T
  <2> QED BY <1>1, <2>1, <2>2, UpTo
<1>5. Good(Len(t))
  BY <1>1, <1>4
<1>6. front(Len(t)) = t
  BY <1>1, Fronts
<1> QED BY <1>5, <1>6 DEF Good

(* What is not among the ids of a front of s, when s repeats no id, is the *)
(* rest of it.                                                             *)
LEMMA TheRest ==
  ASSUME NEW S, NEW s \in Seq(S), NEW p \in 0 .. Len(s), NEW places,
         \A n \in 1 .. Len(s) : n \in places <=> n > p
  PROVE  Selected(s, places) = SubSeq(s, p + 1, Len(s))
<1> DEFINE g(n) == IF n <= p THEN << >> ELSE SubSeq(s, p + 1, n)
           T == {n \in 0 .. Len(s) : Selected(SubSeq(s, 1, n), places) = g(n)}
<1>1. Len(s) \in Nat /\ p \in Nat
  OBVIOUS
<1>2. 0 \in T
  <2>1. SubSeq(s, 1, 0) = << >>
    BY <1>1, Fronts
  <2>2. Selected(<< >>, places) = << >>
    BY SelectedNone
  <2>3. g(0) = << >>
    BY <1>1
  <2> HIDE DEF g
  <2>4. Selected(SubSeq(s, 1, 0), places) = g(0)
    BY <2>1, <2>2, <2>3
  <2> QED BY <1>1, <2>4
<1>3. ASSUME NEW n \in 0 .. Len(s) - 1, n \in T
      PROVE  n + 1 \in T
  <2> DEFINE u == SubSeq(s, 1, n)
             e == s[n + 1]
  <2>1. n \in 0 .. Len(s) /\ n < Len(s) /\ e \in S /\ n + 1 \in 1 .. Len(s)
    BY <1>1
  <2>2. u \in Seq(S) /\ Len(u) = n /\ SubSeq(s, 1, n + 1) = Append(u, e)
    BY <2>1, Fronts
  <2>3. Selected(u, places) = g(n)
    BY <1>3
  <2> HIDE DEF u, e
  <2>4. Selected(Append(u, e), places)
          = IF n + 1 \in places THEN Append(Selected(u, places), e) ELSE Selected(u, places)
    <3>1. Selected(Append(u, e), places)
            = IF Len(u) + 1 \in places THEN Append(Selected(u, places), e) ELSE Selected(u, places)
      BY <2>1, <2>2, SelectedAppend
    <3> QED BY <2>2, <3>1
  <2>5. CASE n + 1 <= p
    <3>1. g(n) = << >> /\ g(n + 1) = << >>
      BY <1>1, <2>1, <2>5
    <3>2. n + 1 \notin places
      BY <1>1, <2>1, <2>5
    <3> HIDE DEF g
    <3>3. Selected(SubSeq(s, 1, n + 1), places) = g(n + 1)
      BY <2>2, <2>3, <2>4, <3>1, <3>2
    <3> QED BY <2>1, <3>3
  <2>6. CASE n + 1 > p
    <3>1. g(n + 1) = Append(g(n), e)
      <4>1. CASE n = p
        <5>1. g(n) = << >> /\ g(n + 1) = SubSeq(s, n + 1, n + 1)
          BY <1>1, <4>1
        <5>2. SubSeq(s, n + 1, n + 1) = << s[n + 1] >>
          <6> DEFINE w == SubSeq(s, n + 1, n + 1)
          <6>1. n + 1 \in Nat /\ s \in Seq(S) /\ n + 1 <= Len(s) /\ 1 <= n + 1
            BY <1>1, <2>1
          <6>2. \A i \in n + 1 .. n + 1 : s[i] \in S
            BY <6>1
          <6>3. w \in Seq(S)
            BY <6>1, <6>2
          <6>4. Len(w) = 1
            BY <6>1
          <6>5. w[1] = s[n + 1]
            BY <6>1
          <6>6. w \in Seq(S) /\ Len(w) = 1 /\ w[1] = s[n + 1]
            BY <6>3, <6>4, <6>5
          <6> HIDE DEF w
          <6>7. w = << s[n + 1] >>
            BY <6>6
          <6> QED BY <6>7 DEF w
        <5> QED BY <5>1, <5>2 DEF e
      <4>2. CASE n > p
        <5>1. g(n) = SubSeq(s, p + 1, n) /\ g(n + 1) = SubSeq(s, p + 1, n + 1)
          BY <1>1, <2>1, <4>2
        <5>2. SubSeq(s, p + 1, n + 1) = Append(SubSeq(s, p + 1, n), s[n + 1])
          BY <1>1, <2>1, <4>2
        <5> QED BY <5>1, <5>2 DEF e
      <4> QED BY <1>1, <2>1, <2>6, <4>1, <4>2
    <3>2. n + 1 \in places
      BY <2>1, <2>6
    <3> HIDE DEF g
    <3>3. Selected(SubSeq(s, 1, n + 1), places) = g(n + 1)
      BY <2>2, <2>3, <2>4, <3>1, <3>2
    <3> QED BY <2>1, <3>3
  <2> QED BY <1>1, <2>1, <2>5, <2>6
<1>4. 0 .. Len(s) \subseteq T
  <2> HIDE DEF T
  <2> QED BY <1>1, <1>2, <1>3, UpTo
<1>5. Selected(SubSeq(s, 1, Len(s)), places) = g(Len(s))
  BY <1>1, <1>4
<1>6. SubSeq(s, 1, Len(s)) = s
  BY <1>1, Fronts
<1>7. g(Len(s)) = SubSeq(s, p + 1, Len(s))
  <2>1. CASE p = Len(s)
    BY <1>1, <2>1
  <2>2. CASE p < Len(s)
    BY <1>1, <2>2
  <2> QED BY <1>1, <2>1, <2>2
<1> HIDE DEF g
<1> QED BY <1>5, <1>6, <1>7

-----------------------------------------------------------------------------
(* One step of the fold.                                                   *)

RunStates == [open : BOOLEAN, turnOpen : BOOLEAN, last : Reasons, gaveUp : BOOLEAN]
States == [known : BOOLEAN, instance : Nat, ended : BOOLEAN, run : RunStates, emitted : Nat]

(* A run is open only while its instance is observed.                      *)
OpenIsObserved(state) == state.run.open => ~state.ended

LEMMA RunAfterTyped ==
  ASSUME NEW state \in States, NEW e \in Recordings
  PROVE  RunAfter(state, e) \in RunStates
<1>1. state.run \in RunStates /\ state.ended \in BOOLEAN
  BY DEF States
<1>2. Idle \in RunStates /\ [Idle EXCEPT !.open = TRUE] \in RunStates
  BY DEF Idle, RunStates, Reasons
<1>3. e.k \in LiveKinds => e.v \in Reasons
  BY EventFacts
<1>4. "turn-finished" \in LiveKinds /\ "message" \in LiveKinds
  BY DEF LiveKinds
<1> DEFINE run == state.run
<1>5. [run EXCEPT !.turnOpen = TRUE] \in RunStates /\ [run EXCEPT !.gaveUp = TRUE] \in RunStates
  BY <1>1 DEF RunStates
<1>6. e.k = "turn-finished" =>
        [run EXCEPT !.turnOpen = FALSE, !.last = IF e.v = "none" THEN @ ELSE e.v] \in RunStates
  BY <1>1, <1>3, <1>4 DEF RunStates
<1>7. e.k = "message" => [run EXCEPT !.last = e.v] \in RunStates
  BY <1>1, <1>3, <1>4 DEF RunStates
<1> QED BY <1>1, <1>2, <1>5, <1>6, <1>7 DEF RunAfter

(* The kinds an event implies are none of a run, or they open one, or they *)
(* conclude the open one.                                                  *)
Quietly(kinds) == \A n \in 1 .. Len(kinds) : kinds[n] \in Asides
Opens(kinds) == kinds = << "run-started" >>
Concludes(kinds) ==
  \E p \in 1 .. Len(kinds) : kinds[p] \in Concluding /\ \A n \in 1 .. Len(kinds) : n # p => kinds[n] \in Asides

LEMMA KindsApart ==
  /\ \A k \in Concluding : k # "run-started" /\ k \notin Asides
  /\ "run-started" \notin Asides
BY DEF Concluding, Asides, Stops

Implies(state, e) ==
  LET kinds == Implied(state, e)
      after == RunAfter(state, e).open IN
  /\ kinds \in Seq(LifecycleKinds)
  /\ state.run.open =>
       \/ Quietly(kinds) /\ after
       \/ Concludes(kinds) /\ ~after
  /\ ~state.run.open =>
       \/ Opens(kinds) /\ after
       \/ ~after /\ (Quietly(kinds) \/ Concludes(kinds))
  /\ after => e.k # "exited" /\ (e.k = "attached" \/ ~state.ended)

LEMMA Join ==
  ASSUME NEW j, NEW k
  PROVE  << >> \o << k >> = << k >> /\ << j >> \o << k >> = << j, k >>
<1> DEFINE S == {j, k}
<1>1. << >> \in Seq(S) /\ << j >> \in Seq(S) /\ << k >> \in Seq(S) /\ << j, k >> \in Seq(S)
  OBVIOUS
<1>2. /\ Len(<< j >>) = 1 /\ Len(<< k >>) = 1 /\ << j >>[1] = j /\ << k >>[1] = k
      /\ Len(<< j, k >>) = 2 /\ << j, k >>[1] = j /\ << j, k >>[2] = k
  OBVIOUS
<1> HIDE DEF S
<1>3. << >> \o << k >> = << k >>
  BY <1>1
<1> DEFINE a == << j >>
           b == << k >>
           c == << j, k >>
           d == a \o b
<1>4. a \in Seq(S) /\ b \in Seq(S) /\ Len(a) = 1 /\ Len(b) = 1 /\ a[1] = j /\ b[1] = k
  BY <1>1, <1>2
<1> HIDE DEF a, b
<1>5. d \in Seq(S) /\ Len(d) = 2 /\ d[1] = j /\ d[2] = k
  <2>1. /\ d \in Seq(S) /\ Len(d) = Len(a) + Len(b)
        /\ \A n \in 1 .. Len(a) + Len(b) : d[n] = IF n <= Len(a) THEN a[n] ELSE b[n - Len(a)]
    BY <1>4, ConcatProperties
  <2> HIDE DEF d
  <2> QED BY <1>4, <2>1
<1>6. c \in Seq(S) /\ Len(c) = 2 /\ c[1] = j /\ c[2] = k
  BY <1>1, <1>2
<1> HIDE DEF c, d
<1>7. d = c
  BY <1>5, <1>6
<1> QED BY <1>3, <1>7 DEF a, b, c, d

LEMMA OneAside ==
  ASSUME NEW k \in Asides
  PROVE  << k >> \in Seq(LifecycleKinds) /\ Quietly(<< k >>)
<1>1. k \in LifecycleKinds
  BY DEF LifecycleKinds
<1>2. Len(<< k >>) = 1 /\ << k >>[1] = k
  OBVIOUS
<1> QED BY <1>1, <1>2 DEF Quietly

LEMMA OneConclusion ==
  ASSUME NEW k \in Concluding
  PROVE  << k >> \in Seq(LifecycleKinds) /\ Concludes(<< k >>)
<1>1. k \in LifecycleKinds
  BY DEF LifecycleKinds
<1>2. Len(<< k >>) = 1 /\ << k >>[1] = k /\ \A n \in 1 .. 1 : n = 1
  OBVIOUS
<1> QED BY <1>1, <1>2 DEF Concludes

LEMMA AsideThen ==
  ASSUME NEW j \in Asides, NEW k \in Asides \union Concluding
  PROVE  /\ << j, k >> \in Seq(LifecycleKinds)
         /\ k \in Asides => Quietly(<< j, k >>)
         /\ k \in Concluding => Concludes(<< j, k >>) /\ Concludes(<< k, j >>)
         /\ << k, j >> \in Seq(LifecycleKinds)
<1>1. j \in LifecycleKinds /\ k \in LifecycleKinds
  BY DEF LifecycleKinds
<1>2. /\ Len(<< j, k >>) = 2 /\ << j, k >>[1] = j /\ << j, k >>[2] = k
      /\ Len(<< k, j >>) = 2 /\ << k, j >>[1] = k /\ << k, j >>[2] = j
      /\ \A n \in 1 .. 2 : n = 1 \/ n = 2
  OBVIOUS
<1>3. << j, k >> \in Seq(LifecycleKinds) /\ << k, j >> \in Seq(LifecycleKinds)
  BY <1>1
<1>4. k \in Asides => Quietly(<< j, k >>)
  BY <1>2 DEF Quietly
<1>5. k \in Concluding => Concludes(<< j, k >>)
  BY <1>2 DEF Concludes
<1>6. k \in Concluding => Concludes(<< k, j >>)
  BY <1>2 DEF Concludes
<1> QED BY <1>3, <1>4, <1>5, <1>6

LEMMA ImpliedKinds ==
  ASSUME NEW state \in States, NEW e \in Recordings, OpenIsObserved(state)
  PROVE  Implies(state, e)
<1> DEFINE kinds == Implied(state, e)
           next == RunAfter(state, e)
           run == state.run
<1> USE DEF OpenIsObserved
<1>1. /\ run.open \in BOOLEAN /\ run.turnOpen \in BOOLEAN /\ state.ended \in BOOLEAN /\ state.known \in BOOLEAN
  BY DEF States, RunStates
<1>2. /\ {"anomaly", "session-started", "session-resumed", "detached", "turn-started",
          "turn-completed", "compacted", "unrecognized"} \subseteq Asides
      /\ {"observer-lost", "runtime-exited"} \subseteq Concluding
      /\ Outcome(run) \in Concluding
      /\ Stops \subseteq Asides
  BY DEF Asides, Concluding, Outcome
<1>3. Idle.open = FALSE /\ [Idle EXCEPT !.open = TRUE].open = TRUE
  BY DEF Idle
<1>4. << >> \in Seq(LifecycleKinds) /\ Quietly(<< >>)
  BY DEF Quietly
<1>5. CASE e.k = "attached"
  <2>1. next = Idle
    BY <1>5 DEF RunAfter
  <2> DEFINE k == IF state.known THEN "session-resumed" ELSE "session-started"
  <2>2. k \in Asides
    BY <1>2
  <2>3. kinds = IF state.ended THEN << >> \o << k >> ELSE << "observer-lost" >> \o << k >>
    BY <1>5 DEF Implied, Lost
  <2>4. << >> \o << k >> = << k >> /\ << "observer-lost" >> \o << k >> = << "observer-lost", k >>
    BY Join
  <2> HIDE DEF k, kinds, next
  <2>5. kinds \in Seq(LifecycleKinds) /\ (Quietly(kinds) \/ Concludes(kinds))
    BY <1>2, <2>2, <2>3, <2>4, OneAside, AsideThen
  <2>6. run.open => Concludes(kinds)
    BY <1>1, <1>2, <2>2, <2>3, <2>4, AsideThen
  <2> QED BY <1>3, <1>5, <2>1, <2>5, <2>6 DEF Implies, kinds, next
<1>6. CASE e.k = "exited"
  <2>1. kinds = << IF state.ended THEN "anomaly" ELSE IF run.open THEN "runtime-exited" ELSE "detached" >>
    BY <1>6 DEF Implied
  <2>2. ~next.open
    BY <1>1, <1>3, <1>6 DEF RunAfter
  <2> HIDE DEF kinds, next
  <2>3. CASE run.open
    <3>1. kinds = << "runtime-exited" >>
      BY <2>1, <2>3
    <3> QED BY <1>2, <2>2, <2>3, <3>1, OneConclusion DEF Implies, kinds, next
  <2>4. CASE ~run.open
    <3>1. kinds = << "anomaly" >> \/ kinds = << "detached" >>
      BY <2>1, <2>4
    <3>2. kinds \in Seq(LifecycleKinds) /\ Quietly(kinds)
      BY <1>2, <3>1, OneAside
    <3> QED BY <2>2, <2>4, <3>2 DEF Implies, kinds, next
  <2> QED BY <2>3, <2>4
<1>7. CASE e.k = "run-started"
  <2>1. CASE state.ended
    <3>1. kinds = << "anomaly" >> /\ next = run /\ ~run.open
      BY <1>1, <1>7, <2>1 DEF Implied, RunAfter
    <3> HIDE DEF kinds, next
    <3>2. kinds \in Seq(LifecycleKinds) /\ Quietly(kinds)
      BY <1>2, <3>1, OneAside
    <3> QED BY <3>1, <3>2 DEF Implies, kinds, next
  <2>2. CASE ~state.ended /\ run.open
    <3>1. kinds = << >> /\ next = run
      BY <1>1, <1>7, <2>2 DEF Implied, RunAfter
    <3> HIDE DEF kinds, next
    <3> QED BY <1>4, <1>7, <2>2, <3>1 DEF Implies, kinds, next
  <2>3. CASE ~state.ended /\ ~run.open
    <3>1. kinds = << "run-started" >> /\ next.open = TRUE
      BY <1>1, <1>3, <1>7, <2>3 DEF Implied, RunAfter
    <3>2. << "run-started" >> \in Seq(LifecycleKinds)
      BY DEF LifecycleKinds
    <3> HIDE DEF kinds, next
    <3> QED BY <1>7, <2>3, <3>1, <3>2 DEF Implies, Opens, kinds, next
  <2> QED BY <1>1, <2>1, <2>2, <2>3
<1>8. CASE e.k \in {"turn-started", "turn-finished"}
  <2>1. next.open = run.open
    BY <1>1, <1>8 DEF RunAfter, States, RunStates
  <2>2. \/ kinds = << "anomaly" >> \/ kinds = << "turn-completed" >>
        \/ kinds = << >> \o << "turn-started" >> \/ kinds = << "anomaly" >> \o << "turn-started" >>
    BY <1>1, <1>8 DEF Implied
  <2>3. << >> \o << "turn-started" >> = << "turn-started" >>
        /\ << "anomaly" >> \o << "turn-started" >> = << "anomaly", "turn-started" >>
    BY Join
  <2> HIDE DEF kinds, next
  <2>4. kinds \in Seq(LifecycleKinds) /\ Quietly(kinds)
    BY <1>2, <2>2, <2>3, OneAside, AsideThen
  <2> QED BY <1>1, <1>8, <2>1, <2>4 DEF Implies, kinds, next
<1>9. CASE e.k = "settled"
  <2>1. next = Idle
    BY <1>9 DEF RunAfter
  <2>2. CASE ~run.open
    <3>1. kinds = << "anomaly" >>
      BY <1>9, <2>2 DEF Implied
    <3> HIDE DEF kinds, next
    <3>2. kinds \in Seq(LifecycleKinds) /\ Quietly(kinds)
      BY <1>2, <3>1, OneAside
    <3> QED BY <1>3, <2>1, <2>2, <3>2 DEF Implies, kinds, next
  <2>3. CASE run.open
    <3>1. kinds = << >> \o << Outcome(run) >> \/ kinds = << "anomaly" >> \o << Outcome(run) >>
      BY <1>9, <2>3 DEF Implied
    <3>2. << >> \o << Outcome(run) >> = << Outcome(run) >>
          /\ << "anomaly" >> \o << Outcome(run) >> = << "anomaly", Outcome(run) >>
      BY Join
    <3> HIDE DEF kinds, next
    <3>3. kinds \in Seq(LifecycleKinds) /\ Concludes(kinds)
      BY <1>2, <3>1, <3>2, OneConclusion, AsideThen
    <3> QED BY <1>3, <2>1, <2>3, <3>3 DEF Implies, kinds, next
  <2> QED BY <1>1, <2>2, <2>3
<1>10. CASE e.k \notin {"attached", "exited", "run-started", "turn-started", "turn-finished", "settled"}
  <2>1. next.open = run.open
    BY <1>1, <1>10 DEF RunAfter, States, RunStates
  <2>2. \/ kinds = << >> \/ kinds = << "compacted" >> \/ kinds = << "unrecognized" >>
        \/ e.k = "control" /\ kinds = << e.v >>
    BY <1>10 DEF Implied
  <2>3. e.k = "control" => e.v \in Asides
    BY <1>2, EventFacts
  <2> HIDE DEF kinds, next
  <2>4. kinds \in Seq(LifecycleKinds) /\ Quietly(kinds)
    BY <1>2, <1>4, <2>2, <2>3, OneAside
  <2> QED BY <1>1, <1>10, <2>1, <2>4 DEF Implies, kinds, next
<1> QED BY <1>5, <1>6, <1>7, <1>8, <1>9, <1>10

(* What a step of the fold does to the run: nothing, or it opens a run that *)
(* was closed, or concludes one that was open.                             *)
OnlyOfRun(events, p) == OfRun(events[p]) /\ \A n \in 1 .. Len(events) : n # p => ~OfRun(events[n])
StepRuns(open, events, after) ==
  \/ (after <=> open) /\ \A n \in 1 .. Len(events) : ~OfRun(events[n])
  \/ /\ after <=> ~open
     /\ \E p \in 1 .. Len(events) : OnlyOfRun(events, p) /\ (Started(events[p]) <=> ~open)

StepFacts(state, e) ==
  LET step == Step(state, e) IN
  /\ step.state \in States /\ OpenIsObserved(step.state)
  /\ step.events \in Seq(Derivations)
  /\ \A n \in 1 .. Len(step.events) : Origin(step.events[n]) = e.id /\ step.events[n].id[4] = n
  /\ StepRuns(state.run.open, step.events, step.state.run.open)

LEMMA StepOK ==
  ASSUME NEW state \in States, NEW e \in Recordings, OpenIsObserved(state)
  PROVE  StepFacts(state, e)
<1> DEFINE kinds == Implied(state, e)
           events == Step(state, e).events
           next == Step(state, e).state
<1>1. Implies(state, e)
  BY ImpliedKinds
<1>2. kinds \in Seq(LifecycleKinds)
  BY <1>1 DEF Implies
<1>3. Len(kinds) \in Nat /\ \A n \in 1 .. Len(kinds) : kinds[n] \in LifecycleKinds
  <2> HIDE DEF kinds
  <2> QED BY <1>2
<1>4. /\ e.id[1] \in Nat /\ e.id[2] \in Nat /\ e.id = << e.id[1], e.id[2] >>
      /\ state.emitted \in Nat /\ state.run.open \in BOOLEAN
  BY EventFacts DEF States, RunStates
<1>5. events = [n \in 1 .. Len(kinds) |->
                  [id |-> << e.id[1], e.id[2], kinds[n], n >>, k |-> kinds[n],
                   runOpen |-> state.run.open, seq |-> state.emitted + n]]
  BY DEF Step
<1> HIDE DEF kinds, events
<1>6. \A n \in 1 .. Len(kinds) : /\ events[n] \in Derivations /\ events[n].k = kinds[n]
                                 /\ events[n].runOpen = state.run.open
                                 /\ Origin(events[n]) = e.id /\ events[n].id[4] = n
  <2> TAKE n \in 1 .. Len(kinds)
  <2>1. events[n] = [id |-> << e.id[1], e.id[2], kinds[n], n >>, k |-> kinds[n],
                     runOpen |-> state.run.open, seq |-> state.emitted + n]
    BY <1>5
  <2>2. n \in Nat /\ state.emitted + n \in Nat
    BY <1>3, <1>4
  <2>3. << e.id[1], e.id[2], kinds[n], n >> \in Nat \X Nat \X LifecycleKinds \X Nat
    BY <1>3, <1>4, <2>2
  <2>4. events[n] \in Derivations
    BY <1>3, <1>4, <2>1, <2>2, <2>3 DEF Derivations
  <2>5. Origin(events[n]) = << e.id[1], e.id[2] >> /\ events[n].id[4] = n
    BY <2>1 DEF Origin
  <2> QED BY <1>4, <2>1, <2>4, <2>5
<1>7. events \in Seq(Derivations) /\ Len(events) = Len(kinds)
  <2>1. \A n \in 1 .. Len(kinds) : events[n] \in Derivations
    BY <1>6
  <2> QED BY <1>3, <1>5, <2>1
<1>8. next \in States
  <2>1. RunAfter(state, e) \in RunStates
    BY RunAfterTyped
  <2>2. state.emitted + Len(kinds) \in Nat
    BY <1>3, <1>4
  <2>3. next = [known |-> state.known \/ e.k = "attached",
                instance |-> IF e.k = "attached" THEN e.id[1] ELSE state.instance,
                ended |-> e.k # "attached" /\ (e.k = "exited" \/ state.ended),
                run |-> RunAfter(state, e),
                emitted |-> state.emitted + Len(kinds)]
    BY DEF Step, kinds
  <2>4. next.known \in BOOLEAN /\ next.ended \in BOOLEAN
    BY <2>3
  <2>5. next.instance \in Nat
    BY <1>4, <2>3 DEF States
  <2> HIDE DEF next
  <2> QED BY <2>1, <2>2, <2>3, <2>4, <2>5 DEF States
<1>9. /\ next.run.open = RunAfter(state, e).open
      /\ next.ended = (e.k # "attached" /\ (e.k = "exited" \/ state.ended))
  BY DEF Step, States
<1>10. OpenIsObserved(next)
  BY <1>1, <1>9 DEF Implies, OpenIsObserved
<1>11. StepRuns(state.run.open, events, next.run.open)
  <2> DEFINE open == state.run.open
             after == next.run.open
  <2>1. \A n \in 1 .. Len(events) :
           OfRun(events[n]) <=> kinds[n] = "run-started" \/ (kinds[n] \in Concluding /\ open)
    BY <1>6, <1>7 DEF OfRun, Started
  <2>2. \A n \in 1 .. Len(events) : Started(events[n]) <=> kinds[n] = "run-started"
    BY <1>6, <1>7 DEF Started
  <2>3. open \in BOOLEAN /\ after \in BOOLEAN
    BY <1>4, <1>8 DEF States, RunStates
  <2>4. /\ open => \/ Quietly(kinds) /\ after
                   \/ Concludes(kinds) /\ ~after
        /\ ~open => \/ Opens(kinds) /\ after
                    \/ ~after /\ (Quietly(kinds) \/ Concludes(kinds))
    BY <1>1, <1>9 DEF Implies, kinds
  <2> HIDE DEF open, after, next
  <2>5. CASE Quietly(kinds) /\ (after <=> open)
    <3>1. \A n \in 1 .. Len(events) : ~OfRun(events[n])
      BY <1>7, <2>1, <2>5, KindsApart DEF Quietly
    <3> QED BY <2>5, <3>1 DEF StepRuns, open, after
  <2>6. CASE Concludes(kinds) /\ open /\ ~after
    <3>1. PICK p \in 1 .. Len(kinds) : /\ kinds[p] \in Concluding
                                       /\ \A n \in 1 .. Len(kinds) : n # p => kinds[n] \in Asides
      BY <2>6 DEF Concludes
    <3>2. OnlyOfRun(events, p) /\ ~Started(events[p]) /\ p \in 1 .. Len(events)
      BY <1>7, <2>1, <2>2, <2>6, <3>1, KindsApart DEF OnlyOfRun
    <3> QED BY <2>6, <3>2 DEF StepRuns, open, after
  <2>7. CASE Opens(kinds) /\ ~open /\ after
    <3>1. Len(kinds) = 1 /\ kinds[1] = "run-started"
      BY <2>7 DEF Opens
    <3>2. OnlyOfRun(events, 1) /\ Started(events[1]) /\ 1 \in 1 .. Len(events)
      BY <1>7, <2>1, <2>2, <3>1 DEF OnlyOfRun
    <3> QED BY <2>7, <3>2 DEF StepRuns, open, after
  <2>8. CASE Concludes(kinds) /\ ~open /\ ~after
    <3>1. \A n \in 1 .. Len(kinds) : kinds[n] # "run-started"
      BY <2>8, KindsApart DEF Concludes
    <3>2. \A n \in 1 .. Len(events) : ~OfRun(events[n])
      BY <1>7, <2>1, <2>8, <3>1
    <3> QED BY <2>8, <3>2 DEF StepRuns, open, after
  <2> QED BY <2>3, <2>4, <2>5, <2>6, <2>7, <2>8
<1> QED BY <1>6, <1>7, <1>8, <1>10, <1>11 DEF StepFacts, events

(* Runs alternate over one more step of the fold.                          *)
OpenAfter(events) ==
  \E n \in 1 .. Len(events) :
    Started(events[n]) /\ \A m \in 1 .. Len(events) : OfRun(events[m]) => m <= n

LEMMA StartedIsOfRun ==
  ASSUME NEW x
  PROVE  Started(x) => OfRun(x)
BY DEF OfRun

LEMMA RunsGoOn ==
  ASSUME NEW s \in Seq(Derivations), NEW t \in Seq(Derivations), NEW after \in BOOLEAN,
         Alternate(s), StepRuns(OpenAfter(s), t, after)
  PROVE  Alternate(s \o t) /\ (OpenAfter(s \o t) <=> after)
<1> DEFINE u == s \o t
<1>1. /\ Len(s) \in Nat /\ Len(t) \in Nat /\ u \in Seq(Derivations) /\ Len(u) = Len(s) + Len(t)
      /\ \A n \in 1 .. Len(s) : u[n] = s[n]
      /\ \A n \in 1 .. Len(t) : u[Len(s) + n] = t[n]
  BY ConcatProperties
<1>2. DOMAIN s = 1 .. Len(s) /\ DOMAIN u = 1 .. Len(u)
  BY <1>1
<1> HIDE DEF u
<1>3. \A n \in 1 .. Len(u) : n \in 1 .. Len(s) \/ (n - Len(s) \in 1 .. Len(t) /\ u[n] = t[n - Len(s)])
  <2> TAKE n \in 1 .. Len(u)
  <2>1. CASE n <= Len(s)
    BY <1>1, <2>1
  <2>2. CASE n > Len(s)
    <3>1. n - Len(s) \in 1 .. Len(t) /\ Len(s) + (n - Len(s)) = n
      BY <1>1, <2>2
    <3> QED BY <1>1, <3>1
  <2> QED BY <1>1, <2>1, <2>2
<1>4. /\ \A n \in 1 .. Len(s) : (OfRun(s[n]) /\ \A m \in 1 .. Len(s) : OfRun(s[m]) => n <= m) => Started(s[n])
      /\ \A m, n \in 1 .. Len(s) :
           OfRun(s[m]) /\ OfRun(s[n]) /\ m < n /\ (\A l \in 1 .. Len(s) : OfRun(s[l]) => l <= m \/ n <= l) =>
             (Started(s[m]) <=> ~Started(s[n]))
  BY <1>2 DEF Alternate
<1>5. SUFFICES
        /\ \A n \in 1 .. Len(u) : (OfRun(u[n]) /\ \A m \in 1 .. Len(u) : OfRun(u[m]) => n <= m) => Started(u[n])
        /\ \A m, n \in 1 .. Len(u) :
             OfRun(u[m]) /\ OfRun(u[n]) /\ m < n /\ (\A l \in 1 .. Len(u) : OfRun(u[l]) => l <= m \/ n <= l) =>
               (Started(u[m]) <=> ~Started(u[n]))
        /\ OpenAfter(u) <=> after
  BY <1>2 DEF Alternate, u
<1>6. CASE (after <=> OpenAfter(s)) /\ \A n \in 1 .. Len(t) : ~OfRun(t[n])
  <2>1. \A n \in 1 .. Len(u) : OfRun(u[n]) => n \in 1 .. Len(s) /\ OfRun(s[n])
    BY <1>1, <1>3, <1>6
  <2>2. \A n \in 1 .. Len(s) : n \in 1 .. Len(u) /\ u[n] = s[n]
    BY <1>1
  <2>3. OpenAfter(u) <=> OpenAfter(s)
    BY <2>1, <2>2, StartedIsOfRun DEF OpenAfter
  <2>4. \A n \in 1 .. Len(u) : (OfRun(u[n]) /\ \A m \in 1 .. Len(u) : OfRun(u[m]) => n <= m) => Started(u[n])
    BY <1>4, <2>1, <2>2
  <2>5. \A m, n \in 1 .. Len(u) :
             OfRun(u[m]) /\ OfRun(u[n]) /\ m < n /\ (\A l \in 1 .. Len(u) : OfRun(u[l]) => l <= m \/ n <= l) =>
               (Started(u[m]) <=> ~Started(u[n]))
    BY <1>4, <2>1, <2>2
  <2> QED BY <1>6, <2>3, <2>4, <2>5
<1>7. CASE /\ after <=> ~OpenAfter(s)
           /\ \E p \in 1 .. Len(t) : OnlyOfRun(t, p) /\ (Started(t[p]) <=> ~OpenAfter(s))
  <2>1. PICK p \in 1 .. Len(t) : OnlyOfRun(t, p) /\ (Started(t[p]) <=> ~OpenAfter(s))
    BY <1>7
  <2> DEFINE q == Len(s) + p
  <2>2. q \in 1 .. Len(u) /\ q > Len(s) /\ OfRun(u[q]) /\ (Started(u[q]) <=> ~OpenAfter(s))
    BY <1>1, <2>1 DEF OnlyOfRun
  <2>3. \A n \in 1 .. Len(u) : OfRun(u[n]) => n = q \/ (n \in 1 .. Len(s) /\ OfRun(s[n]))
    <3> TAKE n \in 1 .. Len(u)
    <3>1. CASE n \in 1 .. Len(s)
      BY <1>1, <3>1
    <3>2. CASE n \notin 1 .. Len(s)
      <4>1. n - Len(s) \in 1 .. Len(t) /\ u[n] = t[n - Len(s)]
        BY <1>3, <3>2
      <4>2. OfRun(u[n]) => n - Len(s) = p
        BY <2>1, <4>1 DEF OnlyOfRun
      <4> QED BY <1>1, <2>1, <4>1, <4>2
    <3> QED BY <3>1, <3>2
  <2>4. \A n \in 1 .. Len(s) : n \in 1 .. Len(u) /\ u[n] = s[n] /\ n < q
    BY <1>1, <2>2
  <2> HIDE DEF q
  <2>5. q \in Nat
    BY <1>1, <2>2
  <2>6. OpenAfter(u) <=> Started(u[q])
    <3>1. Started(u[q]) => OpenAfter(u)
      BY <2>2, <2>3, <2>4, <2>5 DEF OpenAfter
    <3>2. ASSUME OpenAfter(u)
          PROVE  Started(u[q])
      <4>1. PICK n \in 1 .. Len(u) : Started(u[n]) /\ \A m \in 1 .. Len(u) : OfRun(u[m]) => m <= n
        BY <3>2 DEF OpenAfter
      <4>2. q <= n /\ OfRun(u[n])
        BY <2>2, <4>1, StartedIsOfRun
      <4>3. n = q
        BY <1>1, <2>3, <2>4, <2>5, <4>2
      <4> QED BY <4>1, <4>3
    <3> QED BY <3>1, <3>2
  <2>7. ASSUME NEW n \in 1 .. Len(u), OfRun(u[n]), \A m \in 1 .. Len(u) : OfRun(u[m]) => n <= m
        PROVE  Started(u[n])
    <3>1. CASE n = q
      <4>1. \A m \in 1 .. Len(s) : ~OfRun(s[m])
        BY <1>1, <2>4, <2>5, <2>7, <3>1
      <4>2. ~OpenAfter(s)
        BY <4>1, StartedIsOfRun DEF OpenAfter
      <4> QED BY <2>2, <3>1, <4>2
    <3>2. CASE n \in 1 .. Len(s) /\ OfRun(s[n])
      BY <1>4, <2>4, <2>7, <3>2
    <3> QED BY <2>3, <2>7, <3>1, <3>2
  <2>8. ASSUME NEW m \in 1 .. Len(u), NEW n \in 1 .. Len(u), OfRun(u[m]), OfRun(u[n]), m < n,
               \A l \in 1 .. Len(u) : OfRun(u[l]) => l <= m \/ n <= l
        PROVE  Started(u[m]) <=> ~Started(u[n])
    <3>1. m \in 1 .. Len(s) /\ OfRun(s[m])
      <4>1. m # q
        BY <1>1, <2>3, <2>4, <2>5, <2>8
      <4> QED BY <2>3, <2>8, <4>1
    <3>2. CASE n \in 1 .. Len(s) /\ OfRun(s[n])
      BY <1>4, <2>4, <2>8, <3>1, <3>2
    <3>3. CASE n = q
      <4>1. \A l \in 1 .. Len(s) : OfRun(s[l]) => l <= m
        BY <1>1, <2>4, <2>5, <2>8, <3>3
      <4>2. OpenAfter(s) <=> Started(s[m])
        <5>1. Started(s[m]) => OpenAfter(s)
          BY <3>1, <4>1 DEF OpenAfter
        <5>2. ASSUME OpenAfter(s)
              PROVE  Started(s[m])
          <6>1. PICK k \in 1 .. Len(s) : Started(s[k]) /\ \A l \in 1 .. Len(s) : OfRun(s[l]) => l <= k
            BY <5>2 DEF OpenAfter
          <6>2. k <= m /\ m <= k
            BY <3>1, <4>1, <6>1, StartedIsOfRun
          <6>3. k = m
            BY <1>1, <3>1, <6>2
          <6> QED BY <6>1, <6>3
        <5> QED BY <5>1, <5>2
      <4> QED BY <2>2, <2>4, <3>1, <3>3, <4>2
    <3> QED BY <2>3, <2>8, <3>2, <3>3
  <2> QED BY <1>7, <2>2, <2>6, <2>7, <2>8
<1> QED BY <1>6, <1>7 DEF StepRuns

(* Runs that alternate do so in every front.                               *)
LEMMA AlternateFront ==
  ASSUME NEW s \in Seq(Derivations), NEW t \in Seq(Derivations), Alternate(s \o t)
  PROVE  Alternate(s)
<1> DEFINE u == s \o t
<1>1. /\ Len(s) \in Nat /\ Len(t) \in Nat /\ u \in Seq(Derivations) /\ Len(u) = Len(s) + Len(t)
      /\ \A n \in 1 .. Len(s) : u[n] = s[n]
  BY ConcatProperties
<1>2. DOMAIN s = 1 .. Len(s) /\ DOMAIN u = 1 .. Len(u)
  BY <1>1
<1>3. Alternate(u)
  OBVIOUS
<1> HIDE DEF u
<1>4. \A n \in 1 .. Len(s) : n \in 1 .. Len(u) /\ u[n] = s[n]
  BY <1>1
<1>5. ASSUME NEW n \in 1 .. Len(s), OfRun(s[n]), \A m \in 1 .. Len(s) : OfRun(s[m]) => n <= m
      PROVE  Started(s[n])
  <2>1. \A m \in 1 .. Len(u) : OfRun(u[m]) => n <= m
    BY <1>1, <1>4, <1>5
  <2> QED BY <1>2, <1>3, <1>4, <1>5, <2>1 DEF Alternate
<1>6. ASSUME NEW m \in 1 .. Len(s), NEW n \in 1 .. Len(s), OfRun(s[m]), OfRun(s[n]), m < n,
             \A l \in 1 .. Len(s) : OfRun(s[l]) => l <= m \/ n <= l
      PROVE  Started(s[m]) <=> ~Started(s[n])
  <2>1. \A l \in 1 .. Len(u) : OfRun(u[l]) => l <= m \/ n <= l
    <3> TAKE l \in 1 .. Len(u)
    <3>1. CASE l \in 1 .. Len(s)
      BY <1>4, <1>6, <3>1
    <3>2. CASE l \notin 1 .. Len(s)
      BY <1>1, <3>2
    <3> QED BY <3>1, <3>2
  <2> QED BY <1>2, <1>3, <1>4, <1>6, <2>1 DEF Alternate
<1> QED BY <1>2, <1>5, <1>6 DEF Alternate

-----------------------------------------------------------------------------
(* The invariant.                                                          *)

Processes == Instances \union {0}
Messages ==
  [t : {"state", "unknown"}]
    \union [t : {"page"}, entries : Seq(Nat), leaf : Nat]
    \union [t : {"control"}, v : Stops]
    \union [t : {"live"}, k : LiveKinds, v : Reasons, had : SUBSET Nat]
    \union [t : {"entry"}, e : Nat]

StoreTyped ==
  /\ stored \in Seq(Stored)
  /\ todo \in Seq(Recordings) \union Seq(Derivations)
  /\ cursor \in Nat /\ leaf \in Nat /\ life \in States /\ lives \in Nat
ConnectTyped ==
  /\ client \in Processes /\ context \in Processes
  /\ named \in BOOLEAN /\ opened \in BOOLEAN /\ opening \in BOOLEAN
  /\ calling \in {"no", "launch", "state", "ending", "reading"}
  /\ calling \in {"state", "ending"} => context \in Instances
EndTyped ==
  /\ phase \in {"down", "up", "shut"} /\ closed \in BOOLEAN /\ ends \subseteq Instances
  /\ closing \in {"no", "reading", "ending", "draining"}
ReadTyped ==
  /\ queue \in Seq({"connect", "event", "close"})
  /\ reading \in [inst : Processes, since : Nat, again : BOOLEAN, broken : BOOLEAN]
  /\ reading # NoRead => queue # << >> /\ reading.inst \in Instances
ControlTyped == control \in [inst : Processes, action : {"none", "abort", "prompt"}]
PiTyped ==
  /\ st \in [Instances -> {"none", "run", "gone", "reported", "drained"}]
  /\ asks \in [Instances -> Seq(Int)] /\ out \in [Instances -> Seq(Messages)]
FileTyped == file \in Seq(Nat) /\ unsaid \in Seq(Nat)
GhostTyped == due \subseteq Nat /\ missed \in BOOLEAN
BoundTyped == used \in [Counted -> Nat] /\ bound \in Bounds

RecorderTypeOK ==
  /\ StoreTyped /\ ConnectTyped /\ EndTyped /\ ReadTyped /\ ControlTyped
  /\ PiTyped /\ FileTyped /\ GhostTyped /\ BoundTyped

Folded(s) == Fold(Recorded(s))

(* What the fold derives of what is stored: typed, each once, of a stored  *)
(* event, with runs that alternate and the last of them as the state says. *)
FoldOK(s) ==
  /\ Folded(s).state \in States /\ OpenIsObserved(Folded(s).state)
  /\ Folded(s).events \in Seq(Derivations)
  /\ Alternate(Folded(s).events) /\ (OpenAfter(Folded(s).events) <=> Folded(s).state.run.open)
  /\ \A m, n \in 1 .. Len(Folded(s).events) : m # n => Folded(s).events[m].id # Folded(s).events[n].id
  /\ \A n \in 1 .. Len(Folded(s).events) : Origin(Folded(s).events[n]) \in Ids(s)

Once(s) == \A m, n \in 1 .. Len(s) : m # n => s[m].id # s[n].id

FrontOf(all, s) == Len(s) <= Len(all) /\ s = SubSeq(all, 1, Len(s))

(* What is stored of it: a front, and all of it but what the code that     *)
(* runs now is repairing.                                                  *)
OweInv ==
  /\ phase # "up" => todo = << >>
  /\ phase = "down" => FrontOf(Folded(stored).events, Derived(stored))
  /\ phase # "down" =>
       /\ seen = Ids(stored) /\ life = Folded(stored).state
       /\ \/ todo \in Seq(Recordings) /\ Folded(stored).events = Derived(stored)
          \/ todo \in Seq(Derivations) /\ Folded(stored).events = Derived(stored) \o todo

StoreInv == FoldOK(stored) /\ Once(stored) /\ OweInv
RecorderInv == RecorderTypeOK /\ StoreInv

-----------------------------------------------------------------------------
(* What one more stored event makes of it.                                 *)

LEMMA IdsOf ==
  ASSUME NEW s \in Seq(Stored)
  PROVE  /\ \A n \in 1 .. Len(s) : s[n].id \in Ids(s) /\ s[n] \in Stored
         /\ \A i \in Ids(s) : \E n \in 1 .. Len(s) : s[n].id = i
BY DEF Ids

LEMMA IdsJoin ==
  ASSUME NEW s \in Seq(Stored), NEW t \in Seq(Stored)
  PROVE  Ids(s \o t) = Ids(s) \union Ids(t)
<1> DEFINE u == s \o t
<1>1. /\ Len(s) \in Nat /\ Len(t) \in Nat /\ u \in Seq(Stored) /\ Len(u) = Len(s) + Len(t)
      /\ \A n \in 1 .. Len(s) + Len(t) : u[n] = IF n <= Len(s) THEN s[n] ELSE t[n - Len(s)]
  BY ConcatProperties
<1>2. DOMAIN s = 1 .. Len(s) /\ DOMAIN t = 1 .. Len(t) /\ DOMAIN u = 1 .. Len(u)
  BY <1>1
<1> HIDE DEF u
<1>3. ASSUME NEW n \in 1 .. Len(u)
      PROVE  u[n].id \in Ids(s) \union Ids(t)
  <2>1. CASE n <= Len(s)
    BY <1>1, <1>2, <2>1 DEF Ids
  <2>2. CASE n > Len(s)
    <3>1. n - Len(s) \in 1 .. Len(t) /\ u[n] = t[n - Len(s)]
      BY <1>1, <2>2
    <3> QED BY <1>2, <3>1 DEF Ids
  <2> QED BY <1>1, <2>1, <2>2
<1>4. ASSUME NEW n \in 1 .. Len(s)
      PROVE  s[n].id \in Ids(u)
  <2>1. n \in 1 .. Len(u) /\ u[n] = s[n]
    BY <1>1
  <2> QED BY <1>2, <2>1 DEF Ids
<1>5. ASSUME NEW n \in 1 .. Len(t)
      PROVE  t[n].id \in Ids(u)
  <2>1. Len(s) + n \in 1 .. Len(s) + Len(t) /\ ~(Len(s) + n <= Len(s)) /\ (Len(s) + n) - Len(s) = n
    BY <1>1
  <2>2. u[Len(s) + n] = t[n]
    BY <1>1, <2>1
  <2> QED BY <1>1, <1>2, <2>1, <2>2 DEF Ids
<1> QED BY <1>2, <1>3, <1>4, <1>5 DEF Ids, u

(* The id of a lifecycle event that is stored is one of the fold's front.  *)
LEMMA StoredDerivation ==
  ASSUME NEW s \in Seq(Stored), NEW x \in Derivations, x.id \in Ids(s)
  PROVE  \E j \in 1 .. Len(Derived(s)) : Derived(s)[j].id = x.id
<1>1. PICK n \in 1 .. Len(s) : s[n].id = x.id /\ s[n] \in Stored
  BY IdsOf
<1>2. s[n] \in Derivations
  BY <1>1, Apart DEF Stored
<1> QED BY <1>1, <1>2, RecordedTyped

LEMMA FrontIs ==
  ASSUME NEW s \in Seq(Derivations), NEW t \in Seq(Derivations)
  PROVE  FrontOf(s \o t, s)
<1> DEFINE u == s \o t
           v == SubSeq(u, 1, Len(s))
<1>1. /\ Len(s) \in Nat /\ Len(t) \in Nat /\ u \in Seq(Derivations) /\ Len(u) = Len(s) + Len(t)
      /\ \A n \in 1 .. Len(s) : u[n] = s[n]
  BY ConcatProperties
<1> HIDE DEF u
<1>2. Len(s) \in 0 .. Len(u)
  BY <1>1
<1>3. v \in Seq(Derivations) /\ Len(v) = Len(s) /\ \A i \in 1 .. Len(s) : v[i] = u[i]
  BY <1>1, <1>2, Fronts
<1> HIDE DEF v
<1>4. v = s
  BY <1>1, <1>3
<1> QED BY <1>1, <1>4 DEF FrontOf, u, v

LEMMA FrontAndRest ==
  ASSUME NEW all \in Seq(Derivations), NEW s \in Seq(Derivations), FrontOf(all, s)
  PROVE  LET rest == SubSeq(all, Len(s) + 1, Len(all)) IN
         rest \in Seq(Derivations) /\ s \o rest = all
<1> DEFINE p == Len(s)
<1>1. p \in Nat /\ Len(all) \in Nat /\ p <= Len(all) /\ s = SubSeq(all, 1, p)
  BY DEF FrontOf
<1> HIDE DEF p
<1>2. 1 \in 1 .. Len(all) + 1 /\ p \in 1 - 1 .. Len(all) /\ Len(all) \in p .. Len(all)
  BY <1>1
<1>3. SubSeq(all, 1, p) \o SubSeq(all, p + 1, Len(all)) = SubSeq(all, 1, Len(all))
  BY <1>2, ConcatAdjacentSubSeq
<1>4. SubSeq(all, 1, Len(all)) = all
  BY <1>1, Fronts
<1>5. SubSeq(all, p + 1, Len(all)) \in Seq(Derivations)
  <2>1. \A i \in p + 1 .. Len(all) : all[i] \in Derivations
    BY <1>1
  <2> QED BY <1>1, <2>1
<1> QED BY <1>1, <1>3, <1>4, <1>5 DEF p

(* A repaired lifecycle event.                                             *)
LEMMA Repaired ==
  ASSUME NEW s \in Seq(Stored), FoldOK(s), Once(s), NEW x \in Derivations, x.id \notin Ids(s)
  PROVE  LET t == Append(s, x) IN
         /\ t \in Seq(Stored) /\ FoldOK(t) /\ Once(t) /\ Ids(t) = Ids(s) \union {x.id}
         /\ Folded(t) = Folded(s) /\ Derived(t) = Append(Derived(s), x)
<1> DEFINE t == Append(s, x)
<1>1. /\ x \in Stored /\ Len(s) \in Nat /\ t \in Seq(Stored) /\ Len(t) = Len(s) + 1 /\ t[Len(s) + 1] = x
      /\ \A n \in 1 .. Len(s) : t[n] = s[n]
  BY DEF Stored
<1>2. Recorded(t) = Recorded(s) /\ Derived(t) = Append(Derived(s), x)
  BY <1>1, RecordedAppend
<1>3. Folded(t) = Folded(s)
  BY <1>2 DEF Folded
<1>4. DOMAIN s = 1 .. Len(s) /\ DOMAIN t = 1 .. Len(t)
  BY <1>1
<1> HIDE DEF t
<1>5. 1 .. Len(t) = (1 .. Len(s)) \union {Len(s) + 1}
  BY <1>1
<1>6. Ids(t) = Ids(s) \union {x.id}
  BY <1>1, <1>4, <1>5 DEF Ids
<1>7. FoldOK(t)
  BY <1>3, <1>6 DEF FoldOK
<1>8. Once(t)
  <2>1. \A n \in 1 .. Len(s) : t[n].id \in Ids(s) /\ t[n].id = s[n].id
    BY <1>1, <1>4 DEF Ids
  <2>2. \A m, n \in 1 .. Len(s) : m # n => s[m].id # s[n].id
    BY DEF Once
  <2>3. ASSUME NEW m \in 1 .. Len(t), NEW n \in 1 .. Len(t), m # n
        PROVE  t[m].id # t[n].id
    <3>1. CASE m \in 1 .. Len(s) /\ n \in 1 .. Len(s)
      BY <2>1, <2>2, <2>3, <3>1
    <3>2. CASE m = Len(s) + 1 /\ n \in 1 .. Len(s)
      BY <1>1, <2>1, <3>2
    <3>3. CASE n = Len(s) + 1 /\ m \in 1 .. Len(s)
      BY <1>1, <2>1, <3>3
    <3> QED BY <1>5, <2>3, <3>1, <3>2, <3>3
  <2> QED BY <2>3 DEF Once
<1> QED BY <1>1, <1>2, <1>3, <1>6, <1>7, <1>8 DEF t

(* A recorded event, with a front of what the fold derives of it.          *)
LEMMA Ingests ==
  ASSUME NEW s \in Seq(Stored), FoldOK(s), Once(s), Folded(s).events = Derived(s),
         NEW e \in Recordings, e.id \notin Ids(s),
         NEW k \in 0 .. Len(Step(Folded(s).state, e).events)
  PROVE  LET step == Step(Folded(s).state, e)
             t == Append(s, e) \o SubSeq(step.events, 1, k) IN
         /\ t \in Seq(Stored) /\ FoldOK(t) /\ Once(t)
         /\ Folded(t).state = step.state
         /\ Folded(t).events = Derived(s) \o step.events
         /\ Derived(t) = Derived(s) \o SubSeq(step.events, 1, k)
<1> DEFINE state == Folded(s).state
           step == Step(state, e)
           all == Folded(s).events
           evs == step.events
           some == SubSeq(evs, 1, k)
           r == Append(s, e)
           t == r \o some
<1>1. state \in States /\ OpenIsObserved(state) /\ all \in Seq(Derivations)
  BY DEF FoldOK
<1>2. StepFacts(state, e)
  BY <1>1, StepOK
<1>3. /\ step.state \in States /\ OpenIsObserved(step.state) /\ evs \in Seq(Derivations)
      /\ \A n \in 1 .. Len(evs) : Origin(evs[n]) = e.id /\ evs[n].id[4] = n
      /\ StepRuns(state.run.open, evs, step.state.run.open)
  BY <1>2 DEF StepFacts
<1>4. e \in Stored /\ r \in Seq(Stored) /\ Recorded(r) = Append(Recorded(s), e) /\ Derived(r) = Derived(s)
  BY RecordedAppend DEF Stored
<1>5. /\ Len(s) \in Nat /\ Len(r) = Len(s) + 1 /\ r[Len(s) + 1] = e
      /\ \A n \in 1 .. Len(s) : r[n] = s[n]
  OBVIOUS
<1>6. Len(evs) \in Nat /\ k \in Nat /\ k <= Len(evs)
  BY <1>3
<1>7. some \in Seq(Derivations) /\ Len(some) = k /\ \A n \in 1 .. k : some[n] = evs[n]
  <2> HIDE DEF evs
  <2> QED BY <1>3, <1>6, Fronts
<1> HIDE DEF some, r
<1>8. t \in Seq(Stored) /\ Recorded(t) = Recorded(r) /\ Derived(t) = Derived(r) \o some
  BY <1>4, <1>7, MoreDerived
<1>9. Folded(t) = Extended(Folded(s), e)
  <2>1. Recorded(s) \in Seq(Recordings)
    BY RecordedTyped
  <2>2. Fold(Append(Recorded(s), e)) = Extended(Fold(Recorded(s)), e)
    BY <2>1, FoldAppend
  <2> HIDE DEF t
  <2> QED BY <1>4, <1>8, <2>2 DEF Folded
<1>10. Folded(t).state = step.state /\ Folded(t).events = all \o evs
  BY <1>9 DEF Extended
<1>11. \A x \in Derivations : Origin(x) = e.id => x.id \notin Ids(s)
  <2>1. SUFFICES ASSUME NEW x \in Derivations, Origin(x) = e.id, x.id \in Ids(s) PROVE FALSE
    OBVIOUS
  <2>2. PICK j \in 1 .. Len(Derived(s)) : Derived(s)[j].id = x.id
    BY <2>1, StoredDerivation
  <2>3. Origin(Derived(s)[j]) \in Ids(s)
    BY <2>2 DEF FoldOK
  <2>4. Origin(Derived(s)[j]) = Origin(x)
    BY <2>2 DEF Origin
  <2> QED BY <2>1, <2>3, <2>4
<1>12. /\ \A n \in 1 .. Len(t) : t[n].id = (IF n <= Len(s) THEN s[n].id ELSE IF n = Len(s) + 1 THEN e.id
                                            ELSE evs[n - (Len(s) + 1)].id)
       /\ Len(t) = Len(s) + 1 + k
  <2>1. some \in Seq(Stored)
    BY <1>7 DEF Stored
  <2>2. /\ Len(t) = Len(r) + Len(some)
        /\ \A n \in 1 .. Len(r) + Len(some) : t[n] = IF n <= Len(r) THEN r[n] ELSE some[n - Len(r)]
    BY <1>4, <2>1, ConcatProperties
  <2> HIDE DEF t, evs
  <2>3. Len(t) = Len(s) + 1 + k
    BY <1>5, <1>6, <1>7, <2>2
  <2>4. ASSUME NEW n \in 1 .. Len(t)
        PROVE  t[n].id = IF n <= Len(s) THEN s[n].id ELSE IF n = Len(s) + 1 THEN e.id
                         ELSE evs[n - (Len(s) + 1)].id
    <3>1. CASE n <= Len(s)
      BY <1>5, <1>6, <1>7, <2>2, <3>1
    <3>2. CASE n = Len(s) + 1
      BY <1>5, <1>6, <1>7, <2>2, <3>2
    <3>3. CASE n > Len(s) + 1
      <4>1. n - (Len(s) + 1) \in 1 .. k /\ t[n] = some[n - (Len(s) + 1)]
        BY <1>5, <1>6, <1>7, <2>2, <2>3, <3>3
      <4> QED BY <1>5, <1>6, <1>7, <3>3, <4>1
    <3> QED BY <1>5, <2>3, <3>1, <3>2, <3>3
  <2> QED BY <2>3, <2>4
<1>13. /\ \A n \in 1 .. Len(s) : s[n].id \in Ids(s) /\ s[n].id \in Ids(t)
       /\ e.id \in Ids(t)
  <2>1. Ids(s) \subseteq Ids(r) /\ e.id \in Ids(r)
    <3>1. r \in Seq(Stored) /\ DOMAIN r = 1 .. Len(r) /\ DOMAIN s = 1 .. Len(s)
      BY <1>4
    <3>2. \A n \in 1 .. Len(s) : n \in 1 .. Len(r) /\ r[n].id = s[n].id
      BY <1>5
    <3>3. Len(s) + 1 \in 1 .. Len(r) /\ r[Len(s) + 1].id = e.id
      BY <1>5
    <3> QED BY <3>1, <3>2, <3>3 DEF Ids
  <2>2. some \in Seq(Stored)
    BY <1>7 DEF Stored
  <2>3. Ids(t) = Ids(r) \union Ids(some)
    BY <1>4, <2>2, IdsJoin
  <2>4. \A n \in 1 .. Len(s) : s[n].id \in Ids(s)
    BY IdsOf
  <2> HIDE DEF t
  <2> QED BY <2>1, <2>3, <2>4
<1>14. \A n \in 1 .. Len(evs) : evs[n] \in Derivations /\ evs[n].id \notin Ids(s) /\ evs[n].id # e.id
  <2>1. \A n \in 1 .. Len(evs) : evs[n] \in Derivations
    <3> HIDE DEF evs
    <3> QED BY <1>3
  <2>2. \A n \in 1 .. Len(evs) : evs[n].id # e.id
    <3> HIDE DEF evs
    <3> QED BY <2>1, Apart
  <2> HIDE DEF evs
  <2> QED BY <1>3, <1>11, <2>1, <2>2
<1>15. \A m, n \in 1 .. Len(evs) : m # n => evs[m].id # evs[n].id
  <2> HIDE DEF evs
  <2> QED BY <1>3
<1>16. Once(t)
  <2> HIDE DEF t, evs, all, step, state
  <2>1. SUFFICES ASSUME NEW m \in 1 .. Len(t), NEW n \in 1 .. Len(t), m < n
                 PROVE  t[m].id # t[n].id
    <3>1. \A m, n \in 1 .. Len(t) : m # n => m < n \/ n < m
      BY <1>5, <1>6, <1>12
    <3> QED BY <2>1, <3>1 DEF Once
  <2>2. CASE n <= Len(s)
    <3>1. m \in 1 .. Len(s) /\ n \in 1 .. Len(s) /\ m # n /\ t[m].id = s[m].id /\ t[n].id = s[n].id
      BY <1>5, <1>12, <2>1, <2>2
    <3> QED BY <3>1 DEF Once
  <2>3. CASE n = Len(s) + 1
    <3>1. m \in 1 .. Len(s) /\ t[m].id = s[m].id /\ t[n].id = e.id
      BY <1>5, <1>12, <2>1, <2>3
    <3> QED BY <1>13, <3>1
  <2>4. CASE n > Len(s) + 1
    <3>1. n - (Len(s) + 1) \in 1 .. Len(evs) /\ t[n].id = evs[n - (Len(s) + 1)].id
      BY <1>5, <1>6, <1>12, <2>1, <2>4
    <3>2. CASE m <= Len(s)
      <4>1. m \in 1 .. Len(s) /\ t[m].id = s[m].id
        BY <1>5, <1>12, <2>1, <3>2
      <4> QED BY <1>13, <1>14, <3>1, <4>1
    <3>3. CASE m = Len(s) + 1
      <4>1. t[m].id = e.id
        BY <1>5, <1>12, <2>1, <3>3
      <4> QED BY <1>14, <3>1, <4>1
    <3>4. CASE m > Len(s) + 1
      <4>1. /\ m - (Len(s) + 1) \in 1 .. Len(evs) /\ t[m].id = evs[m - (Len(s) + 1)].id
            /\ m - (Len(s) + 1) # n - (Len(s) + 1)
        BY <1>5, <1>6, <1>12, <2>1, <3>4
      <4> QED BY <1>15, <3>1, <4>1
    <3> QED BY <1>5, <2>1, <3>2, <3>3, <3>4
  <2> QED BY <1>5, <1>12, <2>1, <2>2, <2>3, <2>4
<1>17. FoldOK(t)
  <2> DEFINE both == all \o evs
  <2>1. /\ both \in Seq(Derivations) /\ Len(both) = Len(all) + Len(evs)
        /\ \A n \in 1 .. Len(all) + Len(evs) : both[n] = IF n <= Len(all) THEN all[n] ELSE evs[n - Len(all)]
        /\ Len(all) \in Nat
    <3> HIDE DEF evs, all
    <3> QED BY <1>1, <1>3, ConcatProperties
  <2>2. Alternate(all) /\ (OpenAfter(all) <=> state.run.open)
    BY DEF FoldOK
  <2>3. OpenAfter(all) \in BOOLEAN /\ step.state.run.open \in BOOLEAN /\ state.run.open \in BOOLEAN
    <3> HIDE DEF step, state
    <3> QED BY <1>1, <1>3 DEF States, RunStates, OpenAfter
  <2>4. Alternate(both) /\ (OpenAfter(both) <=> step.state.run.open)
    <3>1. StepRuns(OpenAfter(all), evs, step.state.run.open)
      <4>1. OpenAfter(all) = state.run.open
        BY <2>2, <2>3
      <4> HIDE DEF evs, all, step, state
      <4> QED BY <1>3, <4>1
    <3> DEFINE after == step.state.run.open
    <3> HIDE DEF evs, all, step, state
    <3>2. after \in BOOLEAN /\ StepRuns(OpenAfter(all), evs, after)
      BY <2>3, <3>1
    <3> HIDE DEF after
    <3>3. Alternate(all \o evs) /\ (OpenAfter(all \o evs) <=> after)
      BY <1>1, <1>3, <2>2, <3>2, RunsGoOn
    <3> QED BY <3>3 DEF after
  <2>5. /\ \A m, n \in 1 .. Len(all) : m # n => all[m].id # all[n].id
        /\ \A n \in 1 .. Len(all) : Origin(all[n]) \in Ids(s)
    BY DEF FoldOK
  <2>6. \A n \in 1 .. Len(all) : all[n].id \in Ids(s)
    <3>1. \A j \in 1 .. Len(Derived(s)) : \E i \in 1 .. Len(s) : s[i] = Derived(s)[j]
      BY RecordedTyped
    <3>2. all = Derived(s)
      OBVIOUS
    <3> HIDE DEF all
    <3> QED BY <1>13, <3>1, <3>2
  <2>7. Ids(s) \subseteq Ids(t)
    <3> HIDE DEF t
    <3> QED BY <1>13, IdsOf
  <2> HIDE DEF all, evs, both, t
  <2>8. ASSUME NEW m \in 1 .. Len(both), NEW n \in 1 .. Len(both), m < n
        PROVE  both[m].id # both[n].id
    <3>1. CASE n <= Len(all)
      BY <1>6, <2>1, <2>5, <2>8, <3>1
    <3>2. CASE n > Len(all)
      <4>1. n - Len(all) \in 1 .. Len(evs) /\ both[n] = evs[n - Len(all)]
        BY <1>6, <2>1, <2>8, <3>2
      <4>2. CASE m <= Len(all)
        <5>1. both[m].id \in Ids(s)
          BY <1>6, <2>1, <2>6, <2>8, <4>2
        <5> QED BY <1>14, <4>1, <5>1
      <4>3. CASE m > Len(all)
        <5>1. /\ m - Len(all) \in 1 .. Len(evs) /\ both[m] = evs[m - Len(all)]
              /\ m - Len(all) # n - Len(all)
          BY <1>6, <2>1, <2>8, <4>3
        <5> QED BY <1>15, <4>1, <5>1
      <4> QED BY <2>1, <2>8, <4>2, <4>3
    <3> QED BY <2>1, <2>8, <3>1, <3>2
  <2>9. \A m, n \in 1 .. Len(both) : m # n => both[m].id # both[n].id
    <3>1. \A m, n \in 1 .. Len(both) : m # n => m < n \/ n < m
      BY <1>6, <2>1
    <3> QED BY <2>8, <3>1
  <2>10. ASSUME NEW n \in 1 .. Len(both)
         PROVE  Origin(both[n]) \in Ids(t)
    <3>1. CASE n <= Len(all)
      <4>1. n \in 1 .. Len(all) /\ both[n] = all[n]
        BY <1>6, <2>1, <3>1
      <4> QED BY <2>5, <2>7, <4>1
    <3>2. CASE n > Len(all)
      <4>1. n - Len(all) \in 1 .. Len(evs) /\ both[n] = evs[n - Len(all)]
        BY <1>6, <2>1, <3>2
      <4> QED BY <1>3, <1>13, <4>1
    <3> QED BY <2>1, <3>1, <3>2
  <2> QED BY <1>3, <1>10, <2>1, <2>4, <2>9, <2>10 DEF FoldOK, both
<1>18. Folded(t).events = Derived(s) \o evs
  BY <1>10
<1>19. Derived(t) = Derived(s) \o some
  BY <1>4, <1>8
<1> QED BY <1>8, <1>10, <1>16, <1>17, <1>18, <1>19 DEF r, some

LEMMA HeadFirst ==
  ASSUME NEW S, NEW s \in Seq(S), s # << >>
  PROVE  /\ s = << Head(s) >> \o Tail(s) /\ Head(s) \in S /\ Tail(s) \in Seq(S)
         /\ \A T : \A t \in Seq(T) : S \subseteq T => t \o s = Append(t, Head(s)) \o Tail(s)
<1>1. /\ Len(s) \in Nat \ {0} /\ Head(s) \in S /\ Tail(s) \in Seq(S) /\ Len(Tail(s)) = Len(s) - 1
      /\ \A i \in 1 .. Len(Tail(s)) : Tail(s)[i] = s[i + 1]
      /\ Head(s) = s[1]
  BY HeadTailProperties
<1> DEFINE h == << Head(s) >>
           u == h \o Tail(s)
<1>2. h \in Seq(S) /\ Len(h) = 1 /\ h[1] = s[1]
  BY <1>1
<1>3. /\ u \in Seq(S) /\ Len(u) = Len(s)
      /\ \A i \in 1 .. Len(s) : u[i] = IF i <= 1 THEN h[i] ELSE Tail(s)[i - 1]
  <2> HIDE DEF h
  <2>1. /\ h \o Tail(s) \in Seq(S) /\ Len(h \o Tail(s)) = Len(h) + Len(Tail(s))
        /\ \A i \in 1 .. Len(h) + Len(Tail(s)) : (h \o Tail(s))[i] = IF i <= Len(h) THEN h[i] ELSE Tail(s)[i - Len(h)]
    BY <1>1, <1>2, ConcatProperties
  <2>2. Len(h) + Len(Tail(s)) = Len(s)
    BY <1>1, <1>2
  <2> QED BY <1>2, <2>1, <2>2
<1>4. u = s
  <2> HIDE DEF u, h
  <2>1. ASSUME NEW i \in 1 .. Len(s)
        PROVE  u[i] = s[i]
    <3>1. CASE i = 1
      BY <1>1, <1>2, <1>3, <3>1
    <3>2. CASE i > 1
      <4>1. i - 1 \in 1 .. Len(Tail(s)) /\ u[i] = Tail(s)[i - 1]
        BY <1>1, <1>3, <3>2
      <4> QED BY <1>1, <4>1
    <3> QED BY <3>1, <3>2
  <2> QED BY <1>3, <2>1, SeqEqual
<1>5. ASSUME NEW T, NEW t \in Seq(T), S \subseteq T
      PROVE  t \o s = Append(t, Head(s)) \o Tail(s)
  <2>1. Tail(s) \in Seq(T) /\ h \in Seq(T) /\ Head(s) \in T
    BY <1>1, <1>2, <1>5, SeqMonotonic
  <2>2. Append(t, Head(s)) = t \o h
    BY <2>1, AppendIsConcat
  <2> HIDE DEF h
  <2>3. (t \o h) \o Tail(s) = t \o (h \o Tail(s))
    BY <2>1, ConcatAssociative
  <2> QED BY <1>4, <2>2, <2>3 DEF u
<1> QED BY <1>1, <1>4, <1>5

LEMMA MaxIs ==
  ASSUME NEW N \in Nat, NEW A, A \subseteq 1 .. N, A # {}
  PROVE  Max(A) \in A /\ \A x \in A : x <= Max(A)
<1> DEFINE T == {n \in Nat : \A B \in SUBSET (1 .. n) : B # {} => \E x \in B : \A y \in B : x >= y}
<1>1. 0 \in T
  <2>1. 1 .. 0 = {}
    OBVIOUS
  <2>2. \A B \in SUBSET (1 .. 0) : B = {}
    BY <2>1
  <2> QED BY <2>2
<1>2. ASSUME NEW n \in 0 .. N - 1, n \in T
      PROVE  n + 1 \in T
  <2> n + 1 \in Nat
    OBVIOUS
  <2>1. ASSUME NEW B \in SUBSET (1 .. n + 1), B # {}
        PROVE  \E x \in B : \A y \in B : x >= y
    <3>1. CASE n + 1 \in B
      BY <3>1
    <3>2. CASE n + 1 \notin B
      <4>1. B \in SUBSET (1 .. n)
        BY <3>2
      <4> QED BY <1>2, <2>1, <4>1
    <3> QED BY <3>1, <3>2
  <2> QED BY <2>1
<1>3. N \in T
  <2> HIDE DEF T
  <2>1. 0 .. N \subseteq T
    BY <1>1, <1>2, UpTo
  <2> QED BY <2>1
<1>4. PICK x \in A : \A y \in A : x >= y
  BY <1>3
<1>5. Max(A) \in A /\ \A y \in A : Max(A) >= y
  BY <1>4 DEF Max
<1> QED BY <1>5

LEMMA LastTyped ==
  ASSUME NEW s \in Seq(Stored), NEW before \in Nat
  PROVE  LastEntry(s, before) \in Nat /\ LastLeaf(s, before) \in Nat
<1>1. Len(s) \in Nat /\ DOMAIN s = 1 .. Len(s) /\ \A n \in 1 .. Len(s) : s[n] \in Stored
  OBVIOUS
<1>2. LastEntry(s, before) \in Nat
  <2> DEFINE entries == {n \in DOMAIN s : s[n].k = "entry"}
  <2>1. CASE entries = {}
    BY <2>1 DEF LastEntry
  <2>2. CASE entries # {}
    <3>1. entries \subseteq 1 .. Len(s)
      BY <1>1
    <3> HIDE DEF entries
    <3>2. Max(entries) \in 1 .. Len(s)
      BY <1>1, <2>2, <3>1, MaxIs
    <3>3. s[Max(entries)].id[2] \in Nat
      <4>1. PICK x \in Stored : x = s[Max(entries)]
        BY <1>1, <3>2
      <4>2. CASE x \in Recordings
        BY <4>1, <4>2, EventFacts
      <4>3. CASE x \in Derivations
        BY <4>1, <4>3 DEF Derivations
      <4> QED BY <4>2, <4>3 DEF Stored
    <3> QED BY <2>2, <3>3 DEF LastEntry, entries
  <2> QED BY <2>1, <2>2
<1>3. LastLeaf(s, before) \in Nat
  <2> DEFINE leaves == {n \in DOMAIN s : s[n].k = "leaf"}
  <2>1. CASE leaves = {}
    BY <2>1 DEF LastLeaf
  <2>2. CASE leaves # {}
    <3>1. leaves \subseteq 1 .. Len(s)
      BY <1>1
    <3>2. \A n \in leaves : s[n].k = "leaf"
      OBVIOUS
    <3> HIDE DEF leaves
    <3>3. Max(leaves) \in 1 .. Len(s) /\ s[Max(leaves)].k = "leaf"
      BY <1>1, <2>2, <3>1, <3>2, MaxIs
    <3>4. s[Max(leaves)].leaf \in Nat
      <4>1. PICK x \in Stored : x = s[Max(leaves)]
        BY <1>1, <3>3
      <4>2. x.k = "leaf"
        BY <3>3, <4>1
      <4>3. x \notin Derivations
        BY <4>2 DEF Derivations, LifecycleKinds, Concluding, Asides, Stops
      <4>4. x.leaf \in Nat
        BY <4>2, <4>3 DEF Stored, Recordings, LiveKinds
      <4> QED BY <4>1, <4>4
    <3> QED BY <2>2, <3>4 DEF LastLeaf, leaves
  <2> QED BY <2>1, <2>2
<1> QED BY <1>2, <1>3

-----------------------------------------------------------------------------
(* Steps that store nothing.                                               *)

(* What they may do to what is stored and owed.                            *)
StoresNothing ==
  /\ UNCHANGED <<stored, seen, life>> /\ todo = << >>
  /\ phase' = phase \/ (phase = "up" /\ phase' = "shut")
  /\ todo' \in Seq(Recordings) /\ (phase' # "up" => todo' = << >>)

LEMMA NothingOwed ==
  ASSUME stored \in Seq(Stored), OweInv, phase # "down", todo = << >>
  PROVE  Folded(stored).events = Derived(stored)
<1>1. Derived(stored) \in Seq(Derivations)
  BY RecordedTyped
<1>2. Derived(stored) \o << >> = Derived(stored)
  BY <1>1, ConcatEmptySeq
<1> QED BY <1>2 DEF OweInv

LEMMA StoreKept == RecorderTypeOK /\ StoreInv /\ StoresNothing => StoreInv'
<1> SUFFICES ASSUME RecorderTypeOK, StoreInv, StoresNothing PROVE StoreInv'
  OBVIOUS
<1>1. stored' = stored /\ seen' = seen /\ life' = life
  BY DEF StoresNothing
<1>2. FoldOK(stored') /\ Once(stored')
  BY <1>1 DEF StoreInv
<1>3. OweInv'
  <2>1. stored \in Seq(Stored) /\ OweInv
    BY DEF RecorderTypeOK, StoreTyped, StoreInv
  <2>2. CASE phase = "down"
    BY <1>1, <2>1, <2>2 DEF OweInv, StoresNothing
  <2>3. CASE phase # "down"
    <3>1. Folded(stored).events = Derived(stored) /\ seen = Ids(stored) /\ life = Folded(stored).state
      BY <2>1, <2>3, NothingOwed DEF StoresNothing, OweInv
    <3> QED BY <1>1, <2>3, <3>1 DEF OweInv, StoresNothing
  <2> QED BY <2>2, <2>3
<1> QED BY <1>2, <1>3 DEF StoreInv

-----------------------------------------------------------------------------
(* The steps that store.                                                   *)

(* What becomes of the head of the code's writes: a recorded event, with a *)
(* front of what is derived of it; nothing, when it is stored already; or  *)
(* a repaired lifecycle event.                                             *)
Fresh(e) ==
  /\ e \in Recordings /\ e.id \notin Ids(stored) /\ Folded(stored).events = Derived(stored)
  /\ Ingested(e) = << e >> \o Step(Folded(stored).state, e).events
Known(e) ==
  /\ e \in Recordings /\ e.id \in Ids(stored) /\ Ingested(e) = << >>
  /\ Folded(stored).events = Derived(stored)
Lacking(e) ==
  /\ e \in Derivations /\ e.id \notin Ids(stored) /\ Ingested(e) = << e >>
  /\ Folded(stored).events = Derived(stored) \o << e >> \o Tail(todo)
  /\ Tail(todo) \in Seq(Derivations)

LEMMA HeadOwed ==
  ASSUME RecorderTypeOK, StoreInv, todo # << >>
  PROVE  /\ phase = "up" /\ seen = Ids(stored) /\ life = Folded(stored).state
         /\ Lacking(Head(todo)) \/ (Tail(todo) \in Seq(Recordings) /\ (Fresh(Head(todo)) \/ Known(Head(todo))))
<1> DEFINE e == Head(todo)
           all == Folded(stored).events
<1>1. /\ phase = "up" /\ seen = Ids(stored) /\ life = Folded(stored).state
      /\ \/ todo \in Seq(Recordings) /\ all = Derived(stored)
         \/ todo \in Seq(Derivations) /\ all = Derived(stored) \o todo
  BY DEF StoreInv, OweInv
<1>2. stored \in Seq(Stored) /\ Derived(stored) \in Seq(Derivations)
  BY RecordedTyped DEF RecorderTypeOK, StoreTyped
<1>3. CASE todo \in Seq(Recordings) /\ all = Derived(stored)
  <2>1. e \in Recordings /\ Tail(todo) \in Seq(Recordings)
    BY <1>3, HeadTailProperties
  <2>2. Len(e.id) = 2
    BY <2>1, Lengths
  <2>3. CASE e.id \in Ids(stored)
    BY <1>1, <1>3, <2>1, <2>3 DEF Known, Ingested
  <2>4. CASE e.id \notin Ids(stored)
    <3>1. Len(e.id) # 4 /\ e.id \notin seen
      <4> HIDE DEF e, all
      <4> QED BY <1>1, <2>2, <2>4
    <3>2. Ingested(e) = << e >> \o Step(life, e).events
      <4> HIDE DEF e, all
      <4> QED BY ONLY <3>1, Zenon DEF Ingested
    <3> QED BY <1>1, <1>3, <2>1, <2>4, <3>2 DEF Fresh
  <2> QED BY <1>1, <2>1, <2>3, <2>4
<1>4. CASE todo \in Seq(Derivations) /\ all = Derived(stored) \o todo
  <2>1. e \in Derivations /\ Tail(todo) \in Seq(Derivations) /\ todo = << e >> \o Tail(todo) /\ << e >> \in Seq(Derivations)
    BY <1>4, HeadFirst
  <2>2. Len(e.id) = 4
    BY <2>1, Lengths
  <2> DEFINE d == Derived(stored)
  <2>3. all = d \o << e >> \o Tail(todo)
    BY <1>2, <1>4, <2>1, ConcatAssociative
  <2>4. e.id \notin Ids(stored)
    <3>1. SUFFICES ASSUME e.id \in Ids(stored) PROVE FALSE
      OBVIOUS
    <3>2. PICK j \in 1 .. Len(d) : d[j].id = e.id
      BY <1>2, <2>1, <3>1, StoredDerivation
    <3> HIDE DEF d, all
    <3>3. /\ d \in Seq(Derivations) /\ todo \in Seq(Derivations) /\ todo # << >> /\ todo[1] = e
          /\ Len(todo) \in Nat \ {0}
      BY <1>2, <1>4, <2>1, EmptySeq DEF d
    <3>4. /\ Len(d) \in Nat /\ Len(all) = Len(d) + Len(todo)
          /\ \A n \in 1 .. Len(d) + Len(todo) : all[n] = IF n <= Len(d) THEN d[n] ELSE todo[n - Len(d)]
      BY <1>4, <3>3, ConcatProperties DEF d
    <3>5. j \in 1 .. Len(all) /\ Len(d) + 1 \in 1 .. Len(all) /\ j # Len(d) + 1 /\ all[j].id = all[Len(d) + 1].id
      <4>1. Len(d) + 1 \in 1 .. Len(d) + Len(todo) /\ ~(Len(d) + 1 <= Len(d)) /\ Len(d) + 1 - Len(d) = 1
        BY <3>3, <3>4
      <4>2. all[Len(d) + 1] = e
        BY <3>3, <3>4, <4>1
      <4> QED BY <3>2, <3>3, <3>4, <4>2
    <3> QED BY <3>5 DEF StoreInv, FoldOK, all
  <2>5. Ingested(e) = << e >>
    BY <1>1, <2>2, <2>4 DEF Ingested
  <2> QED BY <1>1, <2>1, <2>3, <2>4, <2>5 DEF Lacking
<1> QED BY <1>1, <1>3, <1>4

LEMMA StoreNextKeeps == RecorderTypeOK /\ StoreInv /\ StoreNext => stored' \in Seq(Stored) /\ StoreInv'
<1> SUFFICES ASSUME RecorderTypeOK, StoreInv, StoreNext PROVE stored' \in Seq(Stored) /\ StoreInv'
  OBVIOUS
<1> DEFINE e == Head(todo)
           s == stored
<1>1. /\ todo # << >> /\ todo' = Tail(todo) /\ stored' = s \o Ingested(e)
      /\ seen' = seen \union Ids(Ingested(e)) /\ phase' = phase
      /\ life' = IF Len(e.id) = 4 \/ e.id \in seen THEN life ELSE Step(life, e).state
  BY DEF StoreNext, endVars
<1>2. s \in Seq(Stored) /\ FoldOK(s) /\ Once(s) /\ Derived(s) \in Seq(Derivations)
  BY RecordedTyped DEF RecorderTypeOK, StoreTyped, StoreInv
<1>3. /\ phase = "up" /\ seen = Ids(s) /\ life = Folded(s).state
      /\ Lacking(e) \/ (Tail(todo) \in Seq(Recordings) /\ (Fresh(e) \/ Known(e)))
  BY <1>1, HeadOwed
<1> HIDE DEF e, s
<1>4. CASE Tail(todo) \in Seq(Recordings) /\ Fresh(e)
  <2> DEFINE step == Step(Folded(s).state, e)
             evs == step.events
             k == Len(evs)
             t == Append(s, e) \o SubSeq(evs, 1, k)
  <2>1. e \in Recordings /\ e.id \notin Ids(s) /\ Folded(s).events = Derived(s) /\ Ingested(e) = << e >> \o evs
    BY <1>4 DEF Fresh, s
  <2>2. evs \in Seq(Derivations) /\ Len(e.id) = 2
    <3>1. StepFacts(Folded(s).state, e)
      BY <1>2, <2>1, StepOK DEF FoldOK
    <3> QED BY <2>1, <3>1, Lengths DEF StepFacts
  <2>3. k \in 0 .. Len(evs)
    <3> HIDE DEF evs
    <3> QED BY <2>2
  <2>4. /\ t \in Seq(Stored) /\ FoldOK(t) /\ Once(t)
        /\ Folded(t).state = step.state
        /\ Folded(t).events = Derived(s) \o evs
        /\ Derived(t) = Derived(s) \o SubSeq(evs, 1, k)
    BY <1>2, <2>1, <2>3, Ingests
  <2> HIDE DEF step
  <2>5. SubSeq(evs, 1, k) = evs
    BY <2>2, SubSeqFull
  <2>6. t = stored' /\ Ids(t) = seen' /\ life' = step.state
    <3>1. << e >> \in Seq(Stored) /\ evs \in Seq(Stored) /\ e \in Stored
      <4> HIDE DEF evs
      <4> QED BY <2>1, <2>2, SeqMonotonic DEF Stored
    <3>2. Append(s, e) = s \o << e >>
      BY <1>2, <3>1, AppendIsConcat
    <3>3. (s \o << e >>) \o evs = s \o (<< e >> \o evs) /\ << e >> \o evs \in Seq(Stored)
      <4> HIDE DEF evs
      <4> QED BY <1>2, <3>1, ConcatAssociative, ConcatProperties
    <3>4. t = stored'
      BY <1>1, <2>1, <2>5, <3>2, <3>3
    <3>5. Ids(s \o (<< e >> \o evs)) = Ids(s) \union Ids(<< e >> \o evs)
      <4> DEFINE w == << e >> \o evs
      <4> HIDE DEF w
      <4>1. w \in Seq(Stored)
        BY <3>3 DEF w
      <4>2. Ids(s \o w) = Ids(s) \union Ids(w)
        BY <1>2, <4>1, IdsJoin
      <4> QED BY <4>2 DEF w
    <3>6. Ids(t) = seen'
      BY <1>1, <1>3, <2>1, <3>4, <3>5
    <3>7. life' = step.state
      BY <1>1, <1>3, <2>1, <2>2 DEF step
    <3> QED BY <3>4, <3>6, <3>7
  <2>7. Folded(t).events = Derived(t)
    BY <2>4, <2>5
  <2> HIDE DEF t
  <2> QED BY <1>1, <1>3, <1>4, <2>4, <2>6, <2>7 DEF StoreInv, OweInv
<1>5. CASE Tail(todo) \in Seq(Recordings) /\ Known(e)
  <2>1. e.id \in Ids(s) /\ Ingested(e) = << >> /\ Folded(s).events = Derived(s)
    BY <1>5 DEF Known, s
  <2>2. stored' = s /\ seen' = Ids(s) /\ life' = life
    <3>1. s \o << >> = s
      BY <1>2, ConcatEmptySeq
    <3>2. Ids(<< >>) = {}
      BY DEF Ids
    <3> QED BY <1>1, <1>3, <2>1, <3>1, <3>2
  <2> QED BY <1>1, <1>2, <1>3, <1>5, <2>1, <2>2 DEF StoreInv, OweInv
<1>6. CASE Lacking(e)
  <2> DEFINE t == Append(s, e)
  <2>1. /\ e \in Derivations /\ e.id \notin Ids(s) /\ Ingested(e) = << e >>
        /\ Folded(s).events = Derived(s) \o << e >> \o Tail(todo)
        /\ Tail(todo) \in Seq(Derivations) /\ Len(e.id) = 4
    BY <1>6, Lengths DEF Lacking, s
  <2>2. /\ t \in Seq(Stored) /\ FoldOK(t) /\ Once(t) /\ Ids(t) = Ids(s) \union {e.id}
        /\ Folded(t) = Folded(s) /\ Derived(t) = Append(Derived(s), e)
    BY <1>2, <2>1, Repaired
  <2>3. t = s \o << e >> /\ Append(Derived(s), e) = Derived(s) \o << e >>
    BY <1>2, <2>1, AppendIsConcat DEF Stored
  <2>4. stored' = t /\ seen' = Ids(t) /\ life' = Folded(t).state
    <3>1. Ids(<< e >>) = {e.id}
      BY DEF Ids
    <3> QED BY <1>1, <1>3, <2>1, <2>2, <2>3, <3>1
  <2>5. Folded(t).events = Derived(t) \o Tail(todo)
    BY <2>1, <2>2, <2>3
  <2> HIDE DEF t
  <2> QED BY <1>1, <1>3, <2>1, <2>2, <2>4, <2>5 DEF StoreInv, OweInv
<1> QED BY <1>3, <1>4, <1>5, <1>6

(* What is missing of the fold is its rest, and opening stores it.         *)
LEMMA RepairsAreTheRest ==
  ASSUME stored \in Seq(Stored), FoldOK(stored), FrontOf(Folded(stored).events, Derived(stored))
  PROVE  Repairs \in Seq(Derivations) /\ Folded(stored).events = Derived(stored) \o Repairs
<1> DEFINE all == Folded(stored).events
           d == Derived(stored)
           p == Len(d)
           places == {n \in DOMAIN all : all[n].id \notin Ids(stored)}
<1>1. /\ all \in Seq(Derivations) /\ d \in Seq(Derivations)
      /\ \A j \in 1 .. Len(d) : \E i \in 1 .. Len(stored) : stored[i] = d[j]
      /\ \A m, n \in 1 .. Len(all) : m # n => all[m].id # all[n].id
  BY RecordedTyped DEF FoldOK
<1>2. FrontOf(all, d)
  OBVIOUS
<1>3. Repairs = Selected(all, places)
  BY DEF Repairs, Folded
<1>4. /\ \A n \in 1 .. Len(stored) : stored[n].id \in Ids(stored)
      /\ \A x \in Derivations : x.id \in Ids(stored) => \E j \in 1 .. Len(d) : d[j].id = x.id
  BY IdsOf, StoredDerivation
<1> HIDE DEF all, d
<1>5. p \in 0 .. Len(all) /\ Len(all) \in Nat /\ DOMAIN all = 1 .. Len(all) /\ \A n \in 1 .. p : all[n] = d[n]
  <2>1. p \in Nat /\ Len(all) \in Nat /\ p <= Len(all) /\ d = SubSeq(all, 1, p)
    BY <1>1, <1>2 DEF FrontOf
  <2>2. \A n \in 1 .. p : SubSeq(all, 1, p)[n] = all[n]
    <3> HIDE DEF p
    <3> QED BY <1>1, <2>1, Fronts
  <2> HIDE DEF p
  <2>3. DOMAIN all = 1 .. Len(all)
    BY <1>1
  <2> QED BY <2>1, <2>2, <2>3
<1>6. \A n \in 1 .. Len(all) : n \in places <=> n > p
  <2> SUFFICES ASSUME NEW n \in 1 .. Len(all) PROVE n \in places <=> n > p
    OBVIOUS
  <2>1. CASE n <= p
    <3>1. n \in 1 .. p /\ all[n] = d[n]
      BY <1>5, <2>1
    <3>2. all[n].id \in Ids(stored)
      BY <1>1, <1>4, <3>1
    <3> QED BY <1>5, <2>1, <3>2
  <2>2. CASE n > p
    <3>1. all[n] \in Derivations
      BY <1>1
    <3>2. ASSUME all[n].id \in Ids(stored) PROVE FALSE
      <4>1. PICK j \in 1 .. p : d[j].id = all[n].id
        BY <1>4, <3>1, <3>2
      <4>2. j \in 1 .. Len(all) /\ j # n /\ all[j].id = all[n].id
        BY <1>5, <2>2, <4>1
      <4> QED BY <1>1, <4>2
    <3> QED BY <1>5, <2>2, <3>2
  <2> QED BY <1>5, <2>1, <2>2
<1>7. Selected(all, places) = SubSeq(all, p + 1, Len(all))
  <2> HIDE DEF p, places
  <2> QED BY <1>1, <1>5, <1>6, TheRest
<1>8. SubSeq(all, p + 1, Len(all)) \in Seq(Derivations) /\ d \o SubSeq(all, p + 1, Len(all)) = all
  BY <1>1, <1>2, FrontAndRest
<1> QED BY <1>3, <1>7, <1>8 DEF all, d

LEMMA OpenSessionKeeps == RecorderTypeOK /\ StoreInv /\ OpenSession => todo' \in Seq(Derivations) /\ StoreInv'
<1> SUFFICES ASSUME RecorderTypeOK, StoreInv, OpenSession PROVE todo' \in Seq(Derivations) /\ StoreInv'
  OBVIOUS
<1>1. /\ phase = "down" /\ phase' = "up" /\ todo' = Repairs /\ seen' = Ids(stored)
      /\ life' = Folded(stored).state /\ stored' = stored
  BY DEF OpenSession, Folded
<1>2. Repairs \in Seq(Derivations) /\ Folded(stored).events = Derived(stored) \o Repairs
  <2>1. FrontOf(Folded(stored).events, Derived(stored))
    BY <1>1 DEF StoreInv, OweInv
  <2>2. stored \in Seq(Stored) /\ FoldOK(stored)
    BY DEF RecorderTypeOK, StoreTyped, StoreInv
  <2> QED BY <2>1, <2>2, RepairsAreTheRest
<1> QED BY <1>1, <1>2 DEF StoreInv, OweInv

(* A process that is gone leaves a front of the fold.                      *)
LEMMA DownIs ==
  ASSUME stored' \in Seq(Stored), phase' = "down", todo' = << >>, FoldOK(stored'), Once(stored'),
         FrontOf(Folded(stored').events, Derived(stored'))
  PROVE  StoreInv'
BY DEF StoreInv, OweInv

LEMMA LeaveKeeps == RecorderTypeOK /\ StoreInv /\ Leave => StoreInv'
<1> SUFFICES ASSUME RecorderTypeOK, StoreInv, Leave PROVE StoreInv'
  OBVIOUS
<1>1. phase = "shut" /\ todo = << >> /\ phase' = "down" /\ todo' = << >> /\ stored' = stored
  BY DEF Leave, Gone, Quiet
<1>2. Folded(stored).events = Derived(stored) /\ Derived(stored) \in Seq(Derivations)
  BY <1>1, NothingOwed, RecordedTyped DEF RecorderTypeOK, StoreTyped, StoreInv
<1>3. FrontOf(Derived(stored), Derived(stored))
  BY <1>2, Fronts DEF FrontOf
<1>4. FoldOK(stored') /\ Once(stored') /\ stored' \in Seq(Stored)
  BY <1>1 DEF RecorderTypeOK, StoreTyped, StoreInv
<1> QED BY <1>1, <1>2, <1>3, <1>4, DownIs

LEMMA KilledKeeps == RecorderTypeOK /\ StoreInv /\ Killed => stored' \in Seq(Stored) /\ StoreInv'
<1> SUFFICES ASSUME RecorderTypeOK, StoreInv, Killed PROVE stored' \in Seq(Stored) /\ StoreInv'
  OBVIOUS
<1> DEFINE e == Head(todo)
           s == stored
           d == Derived(stored)
<1>1. /\ phase = "up" /\ phase' = "down" /\ todo' = << >>
      /\ \/ todo = << >> /\ stored' = s
         \/ /\ todo # << >>
            /\ \E n \in 0 .. Len(Ingested(e)) : stored' = s \o SubSeq(Ingested(e), 1, n)
  BY DEF Killed, Gone
<1>2. s \in Seq(Stored) /\ FoldOK(s) /\ Once(s) /\ d \in Seq(Derivations)
  BY RecordedTyped DEF RecorderTypeOK, StoreTyped, StoreInv
<1>3. ASSUME stored' = s
      PROVE  stored' \in Seq(Stored) /\ StoreInv'
  <2>1. \/ Folded(s).events = d
        \/ todo \in Seq(Derivations) /\ Folded(s).events = d \o todo
    BY <1>1 DEF StoreInv, OweInv
  <2>2. FrontOf(Folded(s).events, d)
    <3>1. CASE Folded(s).events = d
      BY <1>2, <3>1, Fronts DEF FrontOf
    <3>2. CASE todo \in Seq(Derivations) /\ Folded(s).events = d \o todo
      BY <1>2, <3>2, FrontIs
    <3> QED BY <2>1, <3>1, <3>2
  <2> QED BY <1>1, <1>2, <1>3, <2>2, DownIs
<1>4. CASE todo = << >>
  BY <1>1, <1>3, <1>4
<1>5. CASE todo # << >>
  <2>1. PICK n \in 0 .. Len(Ingested(e)) : stored' = s \o SubSeq(Ingested(e), 1, n)
    BY <1>1, <1>5
  <2>2. Lacking(e) \/ Fresh(e) \/ Known(e)
    BY <1>5, HeadOwed
  <2> HIDE DEF e, s, d
  <2>3. ASSUME n = 0
        PROVE  stored' = s
    <3>1. SubSeq(Ingested(e), 1, 0) = << >>
      BY SubSeqEmpty
    <3> QED BY <1>2, <2>1, <2>3, <3>1, ConcatEmptySeq
  <2>4. CASE Known(e)
    <3>1. Len(Ingested(e)) = 0
      BY <2>4 DEF Known
    <3> QED BY <1>3, <2>1, <2>3, <3>1
  <2>5. CASE Lacking(e)
    <3>1. /\ e \in Derivations /\ e.id \notin Ids(s) /\ Ingested(e) = << e >>
          /\ Folded(s).events = d \o << e >> \o Tail(todo) /\ Tail(todo) \in Seq(Derivations)
      BY <2>5 DEF Lacking, s, d
    <3>2. n = 0 \/ n = 1
      BY <2>1, <3>1
    <3>3. CASE n = 1
      <4> DEFINE t == Append(s, e)
      <4>1. t = s \o << e >> /\ Append(d, e) = d \o << e >>
        BY <1>2, <3>1, AppendIsConcat DEF Stored
      <4>2. stored' = t
        <5>1. SubSeq(<< e >>, 1, 1) = << e >>
          <6>1. << e >> \in Seq(Derivations) /\ Len(<< e >>) = 1
            BY <3>1
          <6> QED BY <6>1, SubSeqFull
        <5> QED BY <2>1, <3>1, <3>3, <4>1, <5>1
      <4>3. /\ t \in Seq(Stored) /\ FoldOK(t) /\ Once(t)
            /\ Folded(t) = Folded(s) /\ Derived(t) = Append(d, e)
        BY <1>2, <3>1, Repaired DEF d, s
      <4>4. FrontOf(Folded(t).events, Derived(t))
        <5>1. Append(d, e) \in Seq(Derivations)
          BY <1>2, <3>1
        <5>2. FrontOf(Append(d, e) \o Tail(todo), Append(d, e))
          BY <3>1, <5>1, FrontIs
        <5> QED BY <3>1, <4>1, <4>3, <5>2
      <4> HIDE DEF t
      <4> QED BY <1>1, <4>2, <4>3, <4>4, DownIs
    <3> QED BY <1>3, <2>3, <3>2, <3>3
  <2>6. CASE Fresh(e)
    <3> DEFINE step == Step(Folded(s).state, e)
               evs == step.events
               k == n - 1
               some == SubSeq(evs, 1, k)
               t == Append(s, e) \o some
    <3>1. e \in Recordings /\ e.id \notin Ids(s) /\ Folded(s).events = d /\ Ingested(e) = << e >> \o evs
      BY <2>6 DEF Fresh, s, d
    <3>2. evs \in Seq(Derivations) /\ Len(evs) \in Nat
      <4>1. StepFacts(Folded(s).state, e)
        BY <1>2, <3>1, StepOK DEF FoldOK
      <4> QED BY <4>1 DEF StepFacts
    <3>3. << e >> \in Seq(Stored) /\ evs \in Seq(Stored) /\ e \in Stored /\ Len(<< e >>) = 1
      <4> HIDE DEF evs
      <4> QED BY <3>1, <3>2, SeqMonotonic DEF Stored
    <3> HIDE DEF step
    <3>4. Len(Ingested(e)) = 1 + Len(evs) /\ Ingested(e) \in Seq(Stored)
      <4> HIDE DEF evs
      <4> QED BY <3>1, <3>3, ConcatProperties
    <3>5. CASE n # 0
      <4>1. k \in 0 .. Len(evs)
        <5> HIDE DEF evs
        <5> QED BY <2>1, <3>2, <3>4, <3>5
      <4>2. /\ t \in Seq(Stored) /\ FoldOK(t) /\ Once(t)
            /\ Folded(t).events = d \o evs
            /\ Derived(t) = d \o some
        <5> HIDE DEF k
        <5> QED BY <1>2, <3>1, <4>1, Ingests DEF step, d, s
      <4> HIDE DEF evs
      <4>3. some \in Seq(Derivations) /\ Len(some) = k /\ \A i \in 1 .. k : some[i] = evs[i]
        <5> HIDE DEF k
        <5> QED BY <3>2, <4>1, Fronts
      <4>4. SubSeq(Ingested(e), 1, n) = << e >> \o some
        <5> DEFINE w == << e >> \o evs
                   u == << e >> \o some
                   v == SubSeq(w, 1, n)
        <5>1. some \in Seq(Stored)
          <6> HIDE DEF some
          <6> QED BY <4>3, SeqMonotonic DEF Stored
        <5>2. /\ w \in Seq(Stored) /\ Len(w) = 1 + Len(evs)
              /\ \A i \in 1 .. 1 + Len(evs) : w[i] = IF i <= 1 THEN << e >>[i] ELSE evs[i - 1]
          BY <3>3, ConcatProperties
        <5> HIDE DEF some
        <5>3. /\ u \in Seq(Stored) /\ Len(u) = 1 + Len(some)
              /\ \A i \in 1 .. 1 + Len(some) : u[i] = IF i <= 1 THEN << e >>[i] ELSE some[i - 1]
          BY <3>3, <5>1, ConcatProperties
        <5> HIDE DEF w, u
        <5>4. n \in 0 .. Len(w)
          BY <2>1, <3>1, <3>4, <5>2 DEF w
        <5>5. v \in Seq(Stored) /\ Len(v) = n /\ \A i \in 1 .. n : v[i] = w[i]
          BY <5>2, <5>4, Fronts
        <5> HIDE DEF v
        <5>6. Len(u) = n
          BY <2>1, <4>3, <5>3
        <5>7. ASSUME NEW i \in 1 .. n
              PROVE  v[i] = u[i]
          <6>1. CASE i = 1
            BY <3>2, <4>1, <4>3, <5>2, <5>3, <5>4, <5>5, <6>1
          <6>2. CASE i > 1
            <7>1. i - 1 \in 1 .. k /\ i \in 1 .. 1 + Len(evs) /\ i \in 1 .. 1 + Len(some)
              BY <2>1, <3>2, <4>1, <4>3, <5>2, <5>4, <6>2
            <7>2. w[i] = evs[i - 1] /\ u[i] = some[i - 1]
              BY <5>2, <5>3, <6>2, <7>1
            <7> QED BY <4>3, <5>5, <7>1, <7>2
          <6> QED BY <2>1, <6>1, <6>2
        <5>8. v = u
          BY <5>3, <5>5, <5>6, <5>7, SeqEqual
        <5> QED BY <3>1, <5>8 DEF v, w, u
      <4>5. stored' = t
        <5>1. some \in Seq(Stored)
          <6> HIDE DEF some
          <6> QED BY <4>3, SeqMonotonic DEF Stored
        <5> HIDE DEF some
        <5>2. Append(s, e) = s \o << e >>
          BY <1>2, <3>3, AppendIsConcat
        <5>3. (s \o << e >>) \o some = s \o (<< e >> \o some)
          BY <1>2, <3>3, <5>1, ConcatAssociative
        <5> QED BY <2>1, <4>4, <5>2, <5>3
      <4>6. FrontOf(d \o evs, d \o some)
        <5> DEFINE rest == SubSeq(evs, k + 1, Len(evs))
        <5>1. some \o rest = evs /\ rest \in Seq(Derivations)
          <6>1. FrontOf(evs, some)
            BY <3>2, <4>1, <4>3 DEF FrontOf
          <6>2. /\ SubSeq(evs, Len(some) + 1, Len(evs)) \in Seq(Derivations)
                /\ some \o SubSeq(evs, Len(some) + 1, Len(evs)) = evs
            <7> HIDE DEF some
            <7> QED BY <3>2, <4>3, <6>1, FrontAndRest
          <6> QED BY <4>3, <6>2
        <5> HIDE DEF rest, some
        <5>2. (d \o some) \o rest = d \o (some \o rest)
          <6>1. d \in Seq(Derivations) /\ some \in Seq(Derivations) /\ rest \in Seq(Derivations)
            BY <1>2, <4>3, <5>1 DEF d
          <6> QED BY <6>1, ConcatAssociative
        <5>3. d \o some \in Seq(Derivations)
          BY <1>2, <4>3, ConcatProperties
        <5>4. FrontOf((d \o some) \o rest, d \o some)
          BY <5>1, <5>3, FrontIs
        <5> QED BY <5>1, <5>2, <5>4
      <4>7. FrontOf(Folded(t).events, Derived(t))
        BY <4>2, <4>6
      <4> HIDE DEF t
      <4> QED BY <1>1, <4>2, <4>5, <4>7, DownIs
    <3> QED BY <1>3, <2>3, <3>5
  <2> QED BY <2>2, <2>4, <2>5, <2>6
<1> QED BY <1>4, <1>5

LEMMA StoreStart == RecorderInit => StoreInv
<1> SUFFICES ASSUME RecorderInit PROVE StoreInv
  OBVIOUS
<1>1. stored = << >> /\ todo = << >> /\ phase = "down"
  BY DEF RecorderInit
<1>2. Recorded(<< >>) = << >> /\ Derived(<< >>) = << >>
  BY SelectedNone DEF Recorded, Derived
<1>3. Folded(<< >>) = Start
  BY <1>2, FoldNone DEF Folded
<1>4. Start.state \in States /\ OpenIsObserved(Start.state) /\ Start.events = << >> /\ Start.state.run.open = FALSE
  BY DEF Start, Initial, Idle, States, RunStates, Reasons, OpenIsObserved
<1>5. << >> \in Seq(Derivations) /\ Len(<< >>) = 0 /\ 1 .. 0 = {} /\ DOMAIN << >> = {}
  BY EmptySeq
<1>6. Alternate(<< >>) /\ ~OpenAfter(<< >>)
  BY <1>5 DEF Alternate, OpenAfter
<1>7. FoldOK(<< >>)
  BY <1>3, <1>4, <1>5, <1>6 DEF FoldOK
<1>8. Once(<< >>)
  BY <1>5 DEF Once
<1>9. FrontOf(<< >>, << >>)
  BY <1>5, SubSeqFull DEF FrontOf
<1> QED BY <1>1, <1>2, <1>3, <1>4, <1>7, <1>8, <1>9 DEF StoreInv, OweInv

-----------------------------------------------------------------------------
(* The types.                                                              *)

LEMMA InstancesAre ==
  /\ Instances \subseteq Nat \ {0} /\ Instances \subseteq Processes /\ Processes \subseteq Nat
  /\ \A p \in Processes : p # 0 => p \in Instances
<1>1. \A b \in Bounds : 1 .. b.instances \subseteq Nat \ {0}
  BY BoundsAssumption
<1>2. Instances \subseteq Nat \ {0}
  BY <1>1 DEF Instances
<1> QED BY <1>2 DEF Processes

LEMMA SpendTyped ==
  ASSUME BoundTyped, NEW what \in Counted, Spend(what)
  PROVE  used' \in [Counted -> Nat] /\ used[what] \in Nat /\ used[what] < bound[what]
BY DEF BoundTyped, Spend

LEMMA SelectedTyped ==
  ASSUME NEW S, NEW s \in Seq(S), NEW P
  PROVE  Selected(s, P) \in Seq(S)
<1> DEFINE T == {s[i] : i \in P \cap (1 .. Len(s))}
<1>1. Selected(s, P) \in Seq(T)
  BY SelectedFrom
<1>2. T \subseteq S
  OBVIOUS
<1> HIDE DEF T
<1> QED BY <1>1, <1>2, SeqMonotonic

LEMMA RecordTyped ==
  ASSUME StoreTyped, todo = << >>, NEW events \in Seq(Recordings), Record(events)
  PROVE  /\ StoreTyped' /\ UNCHANGED <<stored, seen, life>>
         /\ todo' \in Seq(Recordings) /\ (phase # "up" => todo' = << >>)
<1>1. << >> \in Seq(Recordings) /\ << >> \o events = events
  BY ConcatEmptySeq, EmptySeq
<1>2. CASE phase = "up"
  <2> DEFINE live == {n \in DOMAIN events : events[n].k # "entry"}
  <2>1. todo' = events /\ lives' = lives + Cardinality(live)
    BY <1>1, <1>2 DEF Record
  <2>2. Cardinality(live) \in Nat
    <3>1. Len(events) \in Nat /\ DOMAIN events = 1 .. Len(events)
      OBVIOUS
    <3>2. IsFiniteSet(1 .. Len(events))
      BY <3>1, FS_Interval
    <3>3. live \in SUBSET (1 .. Len(events))
      BY <3>1
    <3> HIDE DEF live
    <3> QED BY <3>2, <3>3, FS_Subset, FS_CardinalityType
  <2> HIDE DEF live
  <2>3. UNCHANGED <<stored, seen, cursor, leaf, life>>
    BY DEF Record
  <2> QED BY <1>2, <2>1, <2>2, <2>3 DEF StoreTyped
<1>3. CASE phase # "up"
  <2>1. UNCHANGED <<stored, seen, cursor, leaf, life, todo, lives>>
    BY <1>3 DEF Record
  <2> QED BY <1>1, <1>3, <2>1 DEF StoreTyped
<1> QED BY <1>2, <1>3

LEMMA StoreUntouched ==
  ASSUME StoreTyped, todo = << >>, UNCHANGED storeVars
  PROVE  /\ StoreTyped' /\ UNCHANGED <<stored, seen, life>>
         /\ todo' \in Seq(Recordings) /\ todo' = << >>
<1>1. UNCHANGED <<stored, todo, seen, cursor, leaf, life, lives>>
  BY DEF storeVars, indexVars
<1>2. << >> \in Seq(Recordings)
  BY EmptySeq
<1> QED BY <1>1, <1>2 DEF StoreTyped

(* What is recorded is a recorded event.                                   *)
LEMMA Recordable ==
  ASSUME context \in Nat, lives \in Nat
  PROVE  /\ \A n \in Nat : \A v \in Stops : \A k \in {"control", "prompt"} : << Live(n, k, v) >> \in Seq(Recordings)
         /\ \A n \in Nat : \A k \in {"store-opened", "attached", "catch-up"} : << Live(n, k, "none") >> \in Seq(Recordings)
         /\ \A n \in Nat : \A v \in {"expected", "unexpected"} : << Live(n, "exited", v) >> \in Seq(Recordings)
         /\ \A n \in Nat : \A k \in LiveKinds : \A v \in Reasons : << Live(n, k, v) >> \in Seq(Recordings)
         /\ \A e \in Nat : Entry(e) \in Recordings
         /\ \A n, e \in Nat : << LeafAt(n, e) >> \in Seq(Recordings)
         /\ << >> \in Seq(Recordings)
<1>1. \A n \in Nat : << context, lives + n >> \in EventIds
  BY DEF EventIds
<1>2. ASSUME NEW x \in Recordings
      PROVE  << x >> \in Seq(Recordings)
  OBVIOUS
<1>3. \A n \in Nat : \A v \in Stops : \A k \in {"control", "prompt"} : Live(n, k, v) \in Recordings
  BY <1>1 DEF Live, Recordings
<1>4. \A n \in Nat : \A k \in {"store-opened", "attached", "catch-up"} : Live(n, k, "none") \in Recordings
  BY <1>1 DEF Live, Recordings
<1>5. \A n \in Nat : \A v \in {"expected", "unexpected"} : Live(n, "exited", v) \in Recordings
  BY <1>1 DEF Live, Recordings
<1>6. \A n \in Nat : \A k \in LiveKinds : \A v \in Reasons : Live(n, k, v) \in Recordings
  BY <1>1 DEF Live, Recordings
<1>7. \A e \in Nat : Entry(e) \in Recordings
  BY DEF Entry, EntryId, Recordings, EventIds
<1>8. \A n, e \in Nat : LeafAt(n, e) \in Recordings
  BY <1>1 DEF LeafAt, Recordings
<1> QED BY <1>2, <1>3, <1>4, <1>5, <1>6, <1>7, <1>8, EmptySeq

LEMMA SaysTyped ==
  ASSUME context \in Nat, lives \in Nat, NEW action, NEW what \in Stops
  PROVE  Says(action, what) \in Seq(Recordings)
BY Recordable DEF Says

LEMMA GiveUpTyped ==
  ASSUME ConnectTyped, EndTyped, GiveUp, phase' = phase
  PROVE  EndTyped'
<1>1. {context} \ {0} \subseteq Instances
  BY InstancesAre DEF ConnectTyped
<1> QED BY <1>1 DEF GiveUp, EndTyped

(* A catch-up that is over.                                                *)
LEMMA ReadDoneTyped ==
  ASSUME ConnectTyped, EndTyped, ReadTyped, GhostTyped, queue # << >>, NEW ok \in BOOLEAN, ReadDone(ok),
         UNCHANGED <<phase, client, context, named, opened, opening, due>>
  PROVE  ConnectTyped' /\ EndTyped' /\ ReadTyped' /\ GhostTyped'
<1>1. EndTyped'
  <2>1. CASE Head(queue) = "connect" /\ ~ok
    <3>1. GiveUp
      BY <2>1 DEF ReadDone
    <3> QED BY <3>1, GiveUpTyped
  <2>2. CASE Head(queue) = "close"
    <3>1. closed' = TRUE /\ closing' = "ending" /\ ends' = ends \union ({context} \ {0})
      BY <2>2 DEF ReadDone
    <3>2. {context} \ {0} \subseteq Instances
      BY InstancesAre DEF ConnectTyped
    <3> QED BY <3>1, <3>2 DEF EndTyped
  <2>3. CASE ~(Head(queue) = "connect" /\ ~ok) /\ Head(queue) # "close"
    <3>1. UNCHANGED <<closed, closing, ends>>
      BY <2>3 DEF ReadDone
    <3> QED BY <3>1 DEF EndTyped
  <2> QED BY <2>1, <2>2, <2>3
<1>2. ConnectTyped'
  BY DEF ReadDone, ConnectTyped
<1>3. ReadTyped'
  <2>1. queue' = Tail(queue) /\ reading' = NoRead
    BY DEF ReadDone
  <2>2. Tail(queue) \in Seq({"connect", "event", "close"})
    BY HeadTailProperties DEF ReadTyped
  <2>3. NoRead \in [inst : Processes, since : Nat, again : BOOLEAN, broken : BOOLEAN]
    BY DEF NoRead, Processes
  <2> QED BY <2>1, <2>2, <2>3 DEF ReadTyped
<1>4. GhostTyped'
  BY DEF ReadDone, GhostTyped
<1> QED BY <1>1, <1>2, <1>3, <1>4

LEMMA AsksTyped ==
  ASSUME ReadTyped, PiTyped, queue # << >>, queue' = queue, NEW i \in Instances, NEW since \in Nat, NEW again \in BOOLEAN,
         Asks(i, since, again)
  PROVE  ReadTyped' /\ asks' \in [Instances -> Seq(Int)]
<1>1. reading' \in [inst : Processes, since : Nat, again : BOOLEAN, broken : BOOLEAN] /\ reading'.inst = i
  BY InstancesAre DEF Asks
<1>2. ReadTyped'
  BY <1>1 DEF ReadTyped
<1>3. asks' \in [Instances -> Seq(Int)]
  <2>1. (IF again THEN 0 ELSE since) \in Int
    OBVIOUS
  <2> QED BY <2>1 DEF Asks, PiTyped
<1> QED BY <1>2, <1>3

LEMMA SendsTyped ==
  ASSUME PiTyped, NEW i \in Instances, NEW m \in Messages, Sends(i, m)
  PROVE  out' \in [Instances -> Seq(Messages)]
BY DEF Sends, PiTyped

LEMMA MessagesAre ==
  ASSUME NEW m \in Messages
  PROVE  /\ m.t \in {"state", "unknown", "page", "control", "live", "entry"}
         /\ m.t = "page" => m.entries \in Seq(Nat) /\ m.leaf \in Nat
         /\ m.t = "control" => m.v \in Stops
         /\ m.t = "live" => m.k \in LiveKinds /\ m.v \in Reasons /\ m.had \subseteq Nat
         /\ m.t = "entry" => m.e \in Nat
BY DEF Messages

-----------------------------------------------------------------------------
(* Every other step keeps the types and stores nothing.                    *)

Undisturbed == RecorderTypeOK' /\ StoresNothing

LEMMA Untouched ==
  /\ ConnectTyped /\ UNCHANGED connectVars => ConnectTyped'
  /\ EndTyped /\ UNCHANGED endVars => EndTyped'
  /\ ReadTyped /\ UNCHANGED readVars => ReadTyped'
  /\ ControlTyped /\ UNCHANGED control => ControlTyped'
  /\ PiTyped /\ UNCHANGED piVars => PiTyped'
  /\ FileTyped /\ UNCHANGED fileVars => FileTyped'
  /\ GhostTyped /\ UNCHANGED ghostVars => GhostTyped'
  /\ BoundTyped /\ UNCHANGED <<used, bound>> => BoundTyped'
<1>1. ConnectTyped /\ UNCHANGED connectVars => ConnectTyped'
  BY DEF ConnectTyped, connectVars
<1>2. EndTyped /\ UNCHANGED endVars => EndTyped'
  BY DEF EndTyped, endVars
<1>3. ReadTyped /\ UNCHANGED readVars => ReadTyped'
  BY DEF ReadTyped, readVars
<1>4. ControlTyped /\ UNCHANGED control => ControlTyped'
  BY DEF ControlTyped
<1>5. PiTyped /\ UNCHANGED piVars => PiTyped'
  BY DEF PiTyped, piVars
<1>6. FileTyped /\ UNCHANGED fileVars => FileTyped'
  BY DEF FileTyped, fileVars
<1>7. GhostTyped /\ UNCHANGED ghostVars => GhostTyped'
  BY DEF GhostTyped, ghostVars
<1>8. BoundTyped /\ UNCHANGED <<used, bound>> => BoundTyped'
  BY DEF BoundTyped
<1> QED BY <1>1, <1>2, <1>3, <1>4, <1>5, <1>6, <1>7, <1>8

LEMMA LaunchKeeps == RecorderTypeOK /\ Launch => Undisturbed
<1> SUFFICES ASSUME RecorderTypeOK, Launch PROVE Undisturbed
  OBVIOUS
<1> USE DEF RecorderTypeOK
<1> DEFINE i == used.instances + 1
<1>1. i \in Instances
  <2>1. used.instances \in Nat /\ used.instances < bound.instances
    BY SpendTyped DEF Launch, Counted
  <2>2. bound \in Bounds /\ bound.instances \in Nat
    BY BoundsAssumption DEF BoundTyped
  <2>3. i \in 1 .. bound.instances
    BY <2>1, <2>2
  <2> QED BY <2>2, <2>3 DEF Instances
<1>2. /\ client' = i /\ context' = i /\ lives' = 0 /\ st' = [st EXCEPT ![i] = "run"] /\ asks' = [asks EXCEPT ![i] = <<-2>>]
      /\ calling' = "state" /\ due' = ToSet(file) /\ missed' = FALSE
      /\ UNCHANGED <<stored, todo, seen, cursor, leaf, life, named, opened, opening, out, bound>>
  BY DEF Launch
<1>3. todo = << >> /\ UNCHANGED endVars /\ UNCHANGED readVars /\ UNCHANGED control /\ UNCHANGED fileVars
  BY DEF Launch, Quiet
<1> HIDE DEF i
<1>4. StoreTyped' /\ StoresNothing
  <2>1. phase' = phase /\ << >> \in Seq(Recordings)
    BY <1>3, EmptySeq DEF endVars
  <2> QED BY <1>2, <1>3, <2>1 DEF StoreTyped, StoresNothing
<1>5. ConnectTyped'
  BY <1>1, <1>2 DEF ConnectTyped, Processes
<1>6. PiTyped'
  <2>1. <<-2>> \in Seq(Int)
    OBVIOUS
  <2> QED BY <1>1, <1>2, <2>1 DEF PiTyped
<1>7. GhostTyped'
  <2>1. ToSet(file) \subseteq Nat
    BY DEF FileTyped, ToSet
  <2> QED BY <1>2, <2>1 DEF GhostTyped
<1>8. BoundTyped'
  BY <1>2, SpendTyped DEF Launch, Counted, BoundTyped
<1> QED BY <1>3, <1>4, <1>5, <1>6, <1>7, <1>8, Untouched DEF Undisturbed

(* What a step that touches neither store, phase nor Pi's side must show.  *)
LEMMA StillNothing ==
  ASSUME StoreTyped, todo = << >>, UNCHANGED storeVars, phase' = phase \/ (phase = "up" /\ phase' = "shut")
  PROVE  StoreTyped' /\ StoresNothing
BY StoreUntouched DEF StoresNothing

LEMMA LaunchRefusedKeeps == RecorderTypeOK /\ LaunchRefused => Undisturbed
<1> SUFFICES ASSUME RecorderTypeOK, LaunchRefused PROVE Undisturbed
  OBVIOUS
<1> USE DEF RecorderTypeOK
<1>1. todo = << >> /\ phase' = phase /\ UNCHANGED storeVars
  BY DEF LaunchRefused, Quiet
<1>2. StoreTyped' /\ StoresNothing
  BY <1>1, StillNothing
<1>3. EndTyped'
  BY <1>1, GiveUpTyped DEF LaunchRefused
<1>4. ConnectTyped'
  BY DEF LaunchRefused, ConnectTyped
<1>5. UNCHANGED <<readVars, control, piVars, fileVars, used, bound, ghostVars>>
  BY DEF LaunchRefused
<1> QED BY <1>2, <1>3, <1>4, <1>5, Untouched DEF Undisturbed

LEMMA StateTimesOutKeeps == RecorderTypeOK /\ StateTimesOut => Undisturbed
<1> SUFFICES ASSUME RecorderTypeOK, StateTimesOut PROVE Undisturbed
  OBVIOUS
<1> USE DEF RecorderTypeOK
<1>1. /\ todo = << >> /\ phase' = phase /\ UNCHANGED storeVars /\ calling = "state" /\ calling' = "ending"
      /\ ends' = ends \union {context}
      /\ UNCHANGED <<client, context, named, opened, opening, phase, closed, closing>>
  BY DEF StateTimesOut, Quiet
<1>2. StoreTyped' /\ StoresNothing
  BY <1>1, StillNothing
<1>3. EndTyped' /\ ConnectTyped'
  BY <1>1 DEF EndTyped, ConnectTyped
<1>4. UNCHANGED <<readVars, control, piVars, fileVars, used, bound, ghostVars>>
  BY DEF StateTimesOut
<1> QED BY <1>2, <1>3, <1>4, Untouched DEF Undisturbed

LEMMA StateFailsKeeps == RecorderTypeOK /\ StateFails => Undisturbed
<1> SUFFICES ASSUME RecorderTypeOK, StateFails PROVE Undisturbed
  OBVIOUS
<1> USE DEF RecorderTypeOK
<1>1. /\ todo = << >> /\ phase' = phase /\ UNCHANGED storeVars /\ client' = 0 /\ calling' = "no" /\ GiveUp
      /\ UNCHANGED <<context, named, opened, opening>>
  BY DEF StateFails, Quiet
<1>2. StoreTyped' /\ StoresNothing
  BY <1>1, StillNothing
<1>3. EndTyped' /\ ConnectTyped'
  BY <1>1, GiveUpTyped DEF ConnectTyped, Processes
<1>4. UNCHANGED <<readVars, control, piVars, fileVars, used, bound, ghostVars>>
  BY DEF StateFails
<1> QED BY <1>2, <1>3, <1>4, Untouched DEF Undisturbed

LEMMA ReconnectKeeps == RecorderTypeOK /\ Reconnect => Undisturbed
<1> SUFFICES ASSUME RecorderTypeOK, Reconnect PROVE Undisturbed
  OBVIOUS
<1> USE DEF RecorderTypeOK
<1>1. /\ todo = << >> /\ UNCHANGED storeVars /\ UNCHANGED endVars /\ client' = 0 /\ calling' = "launch" /\ opening' = FALSE
      /\ UNCHANGED <<context, named, opened>>
  BY DEF Reconnect, Quiet
<1>2. StoreTyped' /\ StoresNothing
  BY <1>1, StillNothing DEF endVars
<1>3. ConnectTyped'
  BY <1>1 DEF ConnectTyped, Processes
<1>4. UNCHANGED <<endVars, readVars, control, piVars, fileVars, used, bound, ghostVars>>
  BY DEF Reconnect
<1> QED BY <1>2, <1>3, <1>4, Untouched DEF Undisturbed

LEMMA StartReadKeeps == RecorderTypeOK /\ StartRead => Undisturbed
<1> SUFFICES ASSUME RecorderTypeOK, StartRead PROVE Undisturbed
  OBVIOUS
<1> USE DEF RecorderTypeOK
<1>1. /\ todo = << >> /\ UNCHANGED storeVars /\ UNCHANGED endVars /\ queue # << >> /\ queue' = queue
      /\ Asks(client, cursor, FALSE) /\ Running(client) /\ st' = st /\ out' = out
  BY DEF StartRead, Readable
<1>2. StoreTyped' /\ StoresNothing
  BY <1>1, StillNothing DEF endVars
<1>3. client \in Instances /\ cursor \in Nat
  BY <1>1, InstancesAre DEF Running, ConnectTyped, StoreTyped
<1>4. ReadTyped' /\ asks' \in [Instances -> Seq(Int)]
  BY <1>1, <1>3, AsksTyped
<1>5. PiTyped'
  BY <1>1, <1>4 DEF PiTyped
<1>6. UNCHANGED <<connectVars, endVars, control, fileVars, used, bound, ghostVars>>
  BY DEF StartRead
<1> QED BY <1>2, <1>4, <1>5, <1>6, Untouched DEF Undisturbed

LEMMA SkipReadKeeps == RecorderTypeOK /\ SkipRead => Undisturbed
<1> SUFFICES ASSUME RecorderTypeOK, SkipRead PROVE Undisturbed
  OBVIOUS
<1> USE DEF RecorderTypeOK
<1>1. /\ todo = << >> /\ UNCHANGED storeVars /\ phase' = phase /\ queue # << >> /\ ReadDone(TRUE)
      /\ UNCHANGED <<phase, client, context, named, opened, opening, due>>
  BY DEF SkipRead, Readable
<1>2. StoreTyped' /\ StoresNothing
  BY <1>1, StillNothing
<1>3. ConnectTyped' /\ EndTyped' /\ ReadTyped' /\ GhostTyped'
  BY <1>1, ReadDoneTyped
<1>4. UNCHANGED <<control, piVars, fileVars, used, bound>>
  BY DEF SkipRead
<1> QED BY <1>2, <1>3, <1>4, Untouched DEF Undisturbed

LEMMA ReadLostKeeps == RecorderTypeOK /\ ReadLost => Undisturbed
<1> SUFFICES ASSUME RecorderTypeOK, ReadLost PROVE Undisturbed
  OBVIOUS
<1> USE DEF RecorderTypeOK
<1>1. /\ todo = << >> /\ UNCHANGED storeVars /\ phase' = phase /\ queue # << >> /\ ReadDone(~reading.again)
      /\ UNCHANGED <<phase, client, context, named, opened, opening, due>> /\ (~reading.again) \in BOOLEAN
  BY DEF ReadLost, Quiet, ReadTyped
<1>2. StoreTyped' /\ StoresNothing
  BY <1>1, StillNothing
<1>3. ConnectTyped' /\ EndTyped' /\ ReadTyped' /\ GhostTyped'
  BY <1>1, ReadDoneTyped
<1>4. UNCHANGED <<control, piVars, fileVars, used, bound>>
  BY DEF ReadLost
<1> QED BY <1>2, <1>3, <1>4, Untouched DEF Undisturbed

LEMMA ReadFailsKeeps == RecorderTypeOK /\ ReadFails => Undisturbed
<1> SUFFICES ASSUME RecorderTypeOK, ReadFails PROVE Undisturbed
  OBVIOUS
<1> USE DEF RecorderTypeOK
<1>1. /\ todo = << >> /\ UNCHANGED storeVars /\ phase' = phase /\ queue # << >> /\ ReadDone(FALSE)
      /\ UNCHANGED <<phase, client, context, named, opened, opening, due>> /\ reading.inst \in Instances
  BY DEF ReadFails, Quiet, ReadTyped
<1>2. StoreTyped' /\ StoresNothing
  BY <1>1, StillNothing
<1>3. ConnectTyped' /\ EndTyped' /\ ReadTyped' /\ GhostTyped'
  BY <1>1, ReadDoneTyped
<1>4. PiTyped'
  <2> DEFINE i == reading.inst
             kept == Selected(asks[i], {n \in DOMAIN asks[i] : asks[i][n] < 0})
             unheard == Selected(out[i], {n \in DOMAIN out[i] : out[i][n].t \notin {"page", "unknown"}})
  <2>1. asks' = [asks EXCEPT ![i] = kept] /\ out' = [out EXCEPT ![i] = unheard] /\ st' = st
    BY DEF ReadFails
  <2>2. kept \in Seq(Int)
    BY <1>1, SelectedTyped DEF PiTyped
  <2>3. unheard \in Seq(Messages)
    BY <1>1, SelectedTyped DEF PiTyped
  <2> HIDE DEF kept, unheard
  <2> QED BY <1>1, <2>1, <2>2, <2>3 DEF PiTyped
<1>5. UNCHANGED <<control, fileVars, used, bound>>
  BY DEF ReadFails
<1> QED BY <1>2, <1>3, <1>4, <1>5, Untouched DEF Undisturbed

(* What a step that records must show.                                     *)
LEMMA RecordsNothingStored ==
  ASSUME StoreTyped, todo = << >>, NEW events \in Seq(Recordings), Record(events), phase' = phase
  PROVE  StoreTyped' /\ StoresNothing
BY RecordTyped DEF StoresNothing

LEMMA Numbered ==
  ASSUME RecorderTypeOK
  PROVE  context \in Nat /\ lives \in Nat
BY InstancesAre DEF RecorderTypeOK, ConnectTyped, StoreTyped

LEMMA ControlsKeeps ==
  ASSUME NEW action \in {"abort", "prompt"}, RecorderTypeOK, Controls(action)
  PROVE  Undisturbed
<1> USE DEF RecorderTypeOK
<1>1. /\ todo = << >> /\ Record(Says(action, "stop-requested")) /\ UNCHANGED endVars /\ Running(client)
      /\ control' = [inst |-> client, action |-> action] /\ st' = st /\ out' = out
      /\ asks' = IF st[client] = "gone" THEN asks ELSE [asks EXCEPT ![client] = Append(@, -1)]
  BY DEF Controls, Quiet
<1>2. StoreTyped' /\ StoresNothing
  <2>1. Says(action, "stop-requested") \in Seq(Recordings)
    BY Numbered, SaysTyped DEF Stops
  <2> QED BY <1>1, <2>1, RecordsNothingStored DEF endVars
<1>3. client \in Instances
  BY <1>1, InstancesAre DEF Running, ConnectTyped
<1>4. ControlTyped' /\ PiTyped'
  BY <1>1, <1>3, InstancesAre DEF ControlTyped, PiTyped
<1>5. BoundTyped'
  BY SpendTyped DEF Controls, Counted, BoundTyped
<1>6. UNCHANGED <<connectVars, endVars, readVars, fileVars, ghostVars>>
  BY DEF Controls
<1> QED BY <1>2, <1>4, <1>5, <1>6, Untouched DEF Undisturbed

LEMMA AnsweredTyped ==
  ASSUME RecorderTypeOK, todo = << >>, NEW what \in Stops, Answered(what)
  PROVE  StoreTyped' /\ StoresNothing /\ ControlTyped'
         /\ ConnectTyped' /\ EndTyped' /\ ReadTyped' /\ GhostTyped'
<1> USE DEF RecorderTypeOK
<1>1. /\ Record(Says(control.action, what)) /\ control' = NoControl
      /\ UNCHANGED <<connectVars, endVars, readVars, ghostVars, asks>>
  BY DEF Answered
<1>2. Says(control.action, what) \in Seq(Recordings)
  BY Numbered, SaysTyped
<1>3. phase' = phase
  BY <1>1 DEF endVars
<1>4. StoreTyped' /\ StoresNothing
  BY <1>1, <1>2, <1>3, RecordsNothingStored
<1>5. ControlTyped'
  BY <1>1 DEF ControlTyped, NoControl, Processes
<1> QED BY <1>1, <1>4, <1>5, Untouched

LEMMA ControlFailsKeeps == RecorderTypeOK /\ ControlFails => Undisturbed
<1> SUFFICES ASSUME RecorderTypeOK, ControlFails PROVE Undisturbed
  OBVIOUS
<1>1. /\ todo = << >> /\ Answered("stop-refused") /\ "stop-refused" \in Stops
      /\ UNCHANGED <<st, out, fileVars, used, bound>> /\ asks' = asks
  BY DEF ControlFails, Quiet, Stops, Answered
<1>2. /\ StoreTyped' /\ StoresNothing /\ ControlTyped'
      /\ ConnectTyped' /\ EndTyped' /\ ReadTyped' /\ GhostTyped'
  BY <1>1, AnsweredTyped
<1>3. PiTyped' /\ FileTyped' /\ BoundTyped'
  BY <1>1, Untouched DEF RecorderTypeOK, piVars
<1> QED BY <1>2, <1>3 DEF Undisturbed, RecorderTypeOK

(* What the process wrote, heard: everything but Pi's side.                *)
Heard == /\ StoreTyped' /\ StoresNothing /\ ConnectTyped' /\ EndTyped' /\ ReadTyped' /\ ControlTyped' /\ GhostTyped'
         /\ asks' \in [Instances -> Seq(Int)]

LEMMA UnheardTyped ==
  ASSUME RecorderTypeOK, todo = << >>, Unheard
  PROVE  Heard
<1>1. UNCHANGED <<storeVars, connectVars, endVars, readVars, control, ghostVars, asks>>
  BY DEF Unheard
<1>2. StoreTyped' /\ StoresNothing
  BY <1>1, StillNothing DEF RecorderTypeOK, endVars
<1> QED BY <1>1, <1>2, Untouched DEF Heard, RecorderTypeOK, PiTyped

LEMMA IdentifiedTyped ==
  ASSUME RecorderTypeOK, todo = << >>, Identified
  PROVE  Heard
<1> USE DEF RecorderTypeOK
<1> DEFINE first == IF opened THEN << >> ELSE << Live(1, "store-opened", "none") >>
           second == << Live(IF opened THEN 1 ELSE 2, "attached", "none") >>
<1>1. /\ named' = TRUE /\ opened' = TRUE /\ Record(first \o second) /\ calling' = "reading"
      /\ queue' = Append(queue, "connect")
      /\ UNCHANGED <<client, context, opening, endVars, reading, control, ghostVars, asks>>
  BY DEF Identified
<1>2. first \in Seq(Recordings) /\ second \in Seq(Recordings)
  BY Numbered, Recordable
<1> HIDE DEF first, second
<1>3. StoreTyped' /\ StoresNothing
  <2>1. first \o second \in Seq(Recordings)
    BY <1>2, ConcatProperties
  <2> QED BY <1>1, <2>1, RecordsNothingStored DEF endVars
<1>4. ConnectTyped'
  BY <1>1 DEF ConnectTyped
<1>5. ReadTyped'
  <2>1. Append(queue, "connect") \in Seq({"connect", "event", "close"}) /\ Append(queue, "connect") # << >>
    BY AppendProperties DEF ReadTyped
  <2> QED BY <1>1, <2>1 DEF ReadTyped
<1>6. EndTyped' /\ ControlTyped' /\ GhostTyped'
  BY <1>1, Untouched
<1> QED BY <1>1, <1>3, <1>4, <1>5, <1>6 DEF Heard, PiTyped

LEMMA CaughtTyped ==
  ASSUME RecorderTypeOK, todo = << >>, queue # << >>, NEW page, page.entries \in Seq(Nat), page.leaf \in Nat,
         Caught(page)
  PROVE  Heard
<1> USE DEF RecorderTypeOK
<1> DEFINE entries == page.entries
           added == Selected(entries, {n \in DOMAIN entries : EntryId(entries[n]) \notin seen})
           report == reading.since = 0 \/ reading.again \/ added # << >>
           first == [n \in DOMAIN added |-> Entry(added[n])]
           second == IF report THEN << Live(1, "catch-up", "none") >> ELSE << >>
           third == IF leaf = page.leaf THEN << >> ELSE << LeafAt(IF report THEN 2 ELSE 1, page.leaf) >>
<1>1. /\ Record(first \o second \o third) /\ ReadDone(TRUE)
      /\ UNCHANGED <<client, context, named, opened, opening, phase, control, due, asks>>
  BY DEF Caught
<1>2. added \in Seq(Nat)
  BY SelectedTyped
<1> HIDE DEF added
<1>3. first \in Seq(Recordings)
  <2>1. Len(added) \in Nat /\ DOMAIN added = 1 .. Len(added) /\ \A n \in 1 .. Len(added) : added[n] \in Nat
    BY <1>2
  <2>2. \A n \in 1 .. Len(added) : Entry(added[n]) \in Recordings
    BY <2>1, Numbered, Recordable
  <2> QED BY <2>1, <2>2
<1>4. second \in Seq(Recordings) /\ third \in Seq(Recordings)
  <2> HIDE DEF report
  <2> QED BY Numbered, Recordable
<1> HIDE DEF first, second, third
<1>5. StoreTyped' /\ StoresNothing
  <2>1. first \o second \in Seq(Recordings)
    BY <1>3, <1>4, ConcatProperties
  <2>2. first \o second \o third \in Seq(Recordings)
    BY <1>4, <2>1, ConcatProperties
  <2> QED BY <1>1, <2>2, RecordsNothingStored
<1>6. ConnectTyped' /\ EndTyped' /\ ReadTyped' /\ GhostTyped'
  BY <1>1, ReadDoneTyped
<1>7. ControlTyped' /\ asks' \in [Instances -> Seq(Int)]
  BY <1>1 DEF ControlTyped, PiTyped
<1> QED BY <1>5, <1>6, <1>7 DEF Heard

LEMMA ReadAgainTyped ==
  ASSUME RecorderTypeOK, todo = << >>, queue # << >>, reading.inst \in Instances, ReadAgain
  PROVE  Heard
<1> USE DEF RecorderTypeOK
<1>1. /\ Asks(reading.inst, reading.since, TRUE) /\ queue' = queue
      /\ UNCHANGED <<storeVars, connectVars, endVars, control, ghostVars>>
  BY DEF ReadAgain
<1>2. StoreTyped' /\ StoresNothing
  BY <1>1, StillNothing DEF endVars
<1>3. reading.since \in Nat
  BY DEF ReadTyped
<1>4. ReadTyped' /\ asks' \in [Instances -> Seq(Int)]
  BY <1>1, <1>3, AsksTyped
<1> QED BY <1>1, <1>2, <1>4, Untouched DEF Heard

LEMMA CannotReadAgainTyped ==
  ASSUME RecorderTypeOK, todo = << >>, queue # << >>, CannotReadAgain
  PROVE  Heard
<1> USE DEF RecorderTypeOK
<1>1. /\ ReadDone(FALSE)
      /\ UNCHANGED <<storeVars, client, context, named, opened, opening, phase, control, due, asks>>
  BY DEF CannotReadAgain
<1>2. StoreTyped' /\ StoresNothing
  BY <1>1, StillNothing
<1>3. ConnectTyped' /\ EndTyped' /\ ReadTyped' /\ GhostTyped'
  BY <1>1, ReadDoneTyped
<1> QED BY <1>1, <1>2, <1>3 DEF Heard, ControlTyped, PiTyped

LEMMA LiveHeardTyped ==
  ASSUME RecorderTypeOK, todo = << >>, NEW m, m.k \in LiveKinds, m.v \in Reasons, m.had \subseteq Nat, LiveHeard(m)
  PROVE  Heard
<1> USE DEF RecorderTypeOK
<1>1. /\ Record(<< Live(1, m.k, m.v) >>)
      /\ queue' = (IF m.k \in Boundary THEN Append(queue, "event") ELSE queue)
      /\ due' = IF m.k \in Boundary THEN due \union m.had ELSE due
      /\ UNCHANGED <<connectVars, endVars, reading, control, missed, asks>>
  BY DEF LiveHeard
<1>2. StoreTyped' /\ StoresNothing
  <2>1. << Live(1, m.k, m.v) >> \in Seq(Recordings)
    BY Numbered, Recordable
  <2> QED BY <1>1, <2>1, RecordsNothingStored DEF endVars
<1>3. ReadTyped'
  <2>1. Append(queue, "event") \in Seq({"connect", "event", "close"}) /\ Append(queue, "event") # << >>
    BY AppendProperties DEF ReadTyped
  <2> QED BY <1>1, <2>1 DEF ReadTyped
<1>4. GhostTyped'
  BY <1>1 DEF GhostTyped
<1> QED BY <1>1, <1>2, <1>3, <1>4, Untouched DEF Heard, PiTyped

LEMMA EntryHeardTyped ==
  ASSUME RecorderTypeOK, todo = << >>, NEW m, m.e \in Nat, EntryHeard(m)
  PROVE  Heard
<1> USE DEF RecorderTypeOK
<1>1. /\ IF named THEN Record(<< Entry(m.e) >>) ELSE UNCHANGED storeVars
      /\ UNCHANGED <<connectVars, endVars, readVars, control, ghostVars, asks>>
  BY DEF EntryHeard
<1>2. phase' = phase
  BY <1>1 DEF endVars
<1>3. StoreTyped' /\ StoresNothing
  <2>1. << Entry(m.e) >> \in Seq(Recordings)
    BY Numbered, Recordable
  <2>2. CASE named
    BY <1>1, <1>2, <2>1, <2>2, RecordsNothingStored
  <2>3. CASE ~named
    BY <1>1, <1>2, <2>3, StillNothing
  <2> QED BY <2>2, <2>3
<1> QED BY <1>1, <1>3, Untouched DEF Heard, PiTyped

LEMMA HearsKeeps ==
  ASSUME NEW i \in Instances, RecorderTypeOK, Hears(i)
  PROVE  Undisturbed
<1> DEFINE m == Head(out[i])
<1>1. /\ todo = << >> /\ out[i] # << >> /\ out' = [out EXCEPT ![i] = Tail(@)]
      /\ UNCHANGED <<st, fileVars, used, bound>>
      /\ CASE m.t = "state" -> IF calling = "state" /\ context = i THEN Identified ELSE Unheard
           [] m.t = "page" -> IF reading.inst = i THEN Caught(m) ELSE Unheard
           [] m.t = "unknown" -> IF reading.inst # i THEN Unheard
                                 ELSE IF Running(i) THEN ReadAgain ELSE CannotReadAgain
           [] m.t = "control" -> IF control.inst = i THEN Answered(m.v) ELSE Unheard
           [] m.t = "live" -> IF client = i THEN LiveHeard(m) ELSE Unheard
           [] m.t = "entry" -> IF client = i THEN EntryHeard(m) ELSE Unheard
  BY DEF Hears, Quiet
<1>2. out[i] \in Seq(Messages)
  BY DEF RecorderTypeOK, PiTyped
<1>3. m \in Messages /\ Tail(out[i]) \in Seq(Messages)
  BY <1>1, <1>2, HeadTailProperties
<1>4. reading.inst = i => queue # << >> /\ reading.inst \in Instances
  <2>1. NoRead.inst = 0 /\ i # 0
    BY InstancesAre DEF NoRead
  <2> QED BY <2>1 DEF RecorderTypeOK, ReadTyped
<1> HIDE DEF m
<1>5. /\ m.t \in {"state", "unknown", "page", "control", "live", "entry"}
      /\ m.t = "page" => m.entries \in Seq(Nat) /\ m.leaf \in Nat
      /\ m.t = "control" => m.v \in Stops
      /\ m.t = "live" => m.k \in LiveKinds /\ m.v \in Reasons /\ m.had \subseteq Nat
      /\ m.t = "entry" => m.e \in Nat
  BY <1>3, MessagesAre
<1>6. Heard
  <2>1. CASE m.t = "state"
    <3>1. Identified \/ Unheard
      BY <1>1, <2>1
    <3> QED BY <1>1, <3>1, IdentifiedTyped, UnheardTyped
  <2>2. CASE m.t = "page"
    <3>1. Unheard \/ (reading.inst = i /\ Caught(m))
      BY <1>1, <2>2
    <3> QED BY <1>1, <1>4, <1>5, <2>2, <3>1, CaughtTyped, UnheardTyped
  <2>3. CASE m.t = "unknown"
    <3>1. Unheard \/ (reading.inst = i /\ (ReadAgain \/ CannotReadAgain))
      BY <1>1, <2>3
    <3> QED BY <1>1, <1>4, <3>1, ReadAgainTyped, CannotReadAgainTyped, UnheardTyped
  <2>4. CASE m.t = "control"
    <3>1. Unheard \/ Answered(m.v)
      BY <1>1, <2>4
    <3>2. ASSUME Answered(m.v) PROVE Heard
      <4>1. asks' = asks
        BY <3>2 DEF Answered
      <4> QED BY <1>1, <1>5, <2>4, <3>2, <4>1, AnsweredTyped DEF Heard, RecorderTypeOK, PiTyped
    <3> QED BY <1>1, <3>1, <3>2, UnheardTyped
  <2>5. CASE m.t = "live"
    <3>1. Unheard \/ LiveHeard(m)
      BY <1>1, <2>5
    <3> QED BY <1>1, <1>5, <2>5, <3>1, LiveHeardTyped, UnheardTyped
  <2>6. CASE m.t = "entry"
    <3>1. Unheard \/ EntryHeard(m)
      BY <1>1, <2>6
    <3> QED BY <1>1, <1>5, <2>6, <3>1, EntryHeardTyped, UnheardTyped
  <2> QED BY <1>5, <2>1, <2>2, <2>3, <2>4, <2>5, <2>6
<1>7. PiTyped'
  BY <1>1, <1>3, <1>6 DEF Heard, RecorderTypeOK, PiTyped
<1>8. FileTyped' /\ BoundTyped'
  BY <1>1, Untouched DEF RecorderTypeOK
<1> QED BY <1>6, <1>7, <1>8 DEF Undisturbed, Heard, RecorderTypeOK

LEMMA ExitReportedKeeps ==
  ASSUME NEW i \in Instances, RecorderTypeOK, ExitReported(i)
  PROVE  Undisturbed
<1> USE DEF RecorderTypeOK
<1> DEFINE said == << Live(1, "exited", IF closed THEN "expected" ELSE "unexpected") >>
<1>1. /\ todo = << >> /\ st' = [st EXCEPT ![i] = "reported"]
      /\ \/ client' = 0 /\ Record(said)
         \/ UNCHANGED <<client, storeVars>>
      /\ UNCHANGED <<context, named, opened, calling, opening, endVars, asks, out>>
  BY DEF ExitReported, Quiet
<1>2. phase' = phase
  BY <1>1 DEF endVars
<1>3. StoreTyped' /\ StoresNothing
  <2>1. said \in Seq(Recordings)
    BY Numbered, Recordable
  <2> HIDE DEF said
  <2>2. CASE Record(said)
    BY <1>1, <1>2, <2>1, <2>2, RecordsNothingStored
  <2>3. CASE UNCHANGED storeVars
    BY <1>1, <1>2, <2>3, StillNothing
  <2> QED BY <1>1, <2>2, <2>3
<1>4. ConnectTyped'
  <2>1. client' \in Processes
    BY <1>1 DEF ConnectTyped, Processes
  <2> QED BY <1>1, <2>1 DEF ConnectTyped
<1>5. PiTyped'
  BY <1>1 DEF PiTyped
<1>6. UNCHANGED <<endVars, readVars, control, fileVars, used, bound, ghostVars>>
  BY DEF ExitReported
<1> QED BY <1>3, <1>4, <1>5, <1>6, Untouched DEF Undisturbed

LEMMA DrainedKeeps ==
  ASSUME NEW i \in Instances, RecorderTypeOK, Drained(i)
  PROVE  Undisturbed
<1> USE DEF RecorderTypeOK
<1>1. /\ todo = << >> /\ st' = [st EXCEPT ![i] = "drained"] /\ out' = [out EXCEPT ![i] = << >>] /\ asks' = asks
      /\ UNCHANGED <<storeVars, connectVars, endVars, readVars, control, fileVars, bound, ghostVars>>
  BY DEF Drained, Quiet
<1>2. StoreTyped' /\ StoresNothing
  BY <1>1, StillNothing DEF endVars
<1>3. PiTyped'
  BY <1>1, EmptySeq DEF PiTyped
<1>4. BoundTyped'
  <2>1. used' = used \/ Spend("faults")
    BY DEF Drained
  <2> QED BY <1>1, <2>1, SpendTyped DEF BoundTyped, Counted
<1> QED BY <1>1, <1>2, <1>3, <1>4, Untouched DEF Undisturbed

(* Pi's side.                                                              *)
LEMMA NothingHeard ==
  ASSUME RecorderTypeOK, todo = << >>, UNCHANGED obsVars
  PROVE  /\ StoreTyped' /\ StoresNothing /\ ConnectTyped' /\ EndTyped' /\ ReadTyped' /\ ControlTyped' /\ GhostTyped'
         /\ bound' = bound
<1>1. UNCHANGED <<storeVars, connectVars, endVars, readVars, control, ghostVars, bound>>
  BY DEF obsVars
<1>2. StoreTyped' /\ StoresNothing
  BY <1>1, StillNothing DEF RecorderTypeOK, endVars
<1> QED BY <1>1, <1>2, Untouched DEF RecorderTypeOK

LEMMA AfterTyped ==
  ASSUME FileTyped, NEW e, e \in ToSet(file) \union {0}
  PROVE  EntriesAfter(e) \in Seq(Nat) /\ Leaf \in Nat
<1>1. file \in Seq(Nat) /\ Len(file) \in Nat /\ DOMAIN file = 1 .. Len(file) /\ \A n \in 1 .. Len(file) : file[n] \in Nat
  BY DEF FileTyped
<1>2. Leaf \in Nat
  <2>1. file # << >> => Len(file) \in 1 .. Len(file)
    BY <1>1, EmptySeq
  <2> QED BY <1>1, <2>1 DEF Leaf, Last
<1>3. ASSUME NEW a \in 1 .. Len(file) + 1
      PROVE  SubSeq(file, a, Len(file)) \in Seq(Nat)
  <2>1. \A n \in a .. Len(file) : file[n] \in Nat
    BY <1>1
  <2> QED BY <1>1, <2>1, SubSeqProperties
<1>4. EntriesAfter(e) \in Seq(Nat)
  <2>1. CASE e = Leaf
    BY <2>1, EmptySeq DEF EntriesAfter
  <2>2. CASE e # Leaf /\ e = 0
    <3>1. After(e) = SubSeq(file, 1, Len(file))
      BY <2>2 DEF After
    <3> QED BY <1>1, <1>3, <2>2, <3>1 DEF EntriesAfter
  <2>3. CASE e # Leaf /\ e # 0
    <3>1. PICK j \in 1 .. Len(file) : file[j] = e
      BY <1>1, <2>3 DEF ToSet
    <3>2. j # Len(file)
      <4>1. file # << >>
        BY <1>1, <3>1
      <4> QED BY <2>3, <3>1, <4>1 DEF Leaf, Last
    <3>3. j + 1 \in DOMAIN file /\ j + 1 > 1 /\ file[(j + 1) - 1] = e
      <4> DEFINE N == Len(file)
      <4>1. N \in Nat /\ j \in 1 .. N /\ j # N
        BY <1>1, <3>2
      <4> HIDE DEF N
      <4>2. j \in Nat /\ j + 1 <= N /\ (j + 1) - 1 = j /\ j + 1 > 1
        BY ONLY <4>1
      <4>3. j + 1 \in 1 .. N
        BY ONLY <4>1, <4>2
      <4> QED BY <1>1, <3>1, <4>2, <4>3 DEF N
    <3> DEFINE a == CHOOSE n \in DOMAIN file : n > 1 /\ file[n - 1] = e
    <3>4. a \in DOMAIN file
      BY <3>3
    <3>5. After(e) = SubSeq(file, a, Len(file))
      BY <2>3 DEF After
    <3> HIDE DEF a
    <3> QED BY <1>1, <1>3, <2>3, <3>4, <3>5 DEF EntriesAfter
  <2> QED BY <2>1, <2>2, <2>3
<1> QED BY <1>2, <1>4

LEMMA PiAnswersKeeps ==
  ASSUME NEW i \in Instances, RecorderTypeOK, PiAnswers(i)
  PROVE  Undisturbed
<1> USE DEF RecorderTypeOK
<1> DEFINE ask == Head(asks[i])
<1>1. /\ todo = << >> /\ asks[i] # << >> /\ asks' = [asks EXCEPT ![i] = Tail(@)]
      /\ UNCHANGED <<obsVars, st, fileVars, used>>
      /\ CASE ask = -2 -> Sends(i, [t |-> "state"])
           [] ask = -1 -> \E v \in {"stop-accepted", "stop-refused"} : Sends(i, [t |-> "control", v |-> v])
           [] ask >= 0 /\ ask \in ToSet(file) \union {0} ->
                  Sends(i, [t |-> "page", entries |-> EntriesAfter(ask), leaf |-> Leaf])
           [] OTHER -> Sends(i, [t |-> "unknown"])
  BY DEF PiAnswers, Quiet
<1>2. asks' \in [Instances -> Seq(Int)] /\ ask \in Int
  <2>1. asks[i] \in Seq(Int)
    BY DEF PiTyped
  <2>2. Tail(asks[i]) \in Seq(Int) /\ ask \in Int
    BY <1>1, <2>1, HeadTailProperties
  <2> HIDE DEF ask
  <2> QED BY <1>1, <2>2 DEF PiTyped
<1> HIDE DEF ask
<1>3. out' \in [Instances -> Seq(Messages)]
  <2>1. CASE ask = -2
    <3>1. [t |-> "state"] \in Messages
      BY DEF Messages
    <3>2. Sends(i, [t |-> "state"])
      BY <1>1, <2>1
    <3> QED BY <3>1, <3>2, SendsTyped
  <2>2. CASE ask = -1
    <3>1. \A v \in {"stop-accepted", "stop-refused"} : [t |-> "control", v |-> v] \in Messages
      BY DEF Messages, Stops
    <3>2. \E v \in {"stop-accepted", "stop-refused"} : Sends(i, [t |-> "control", v |-> v])
      BY <1>1, <2>2
    <3> QED BY <3>1, <3>2, SendsTyped
  <2>3. CASE ask # -2 /\ ask # -1 /\ ask >= 0 /\ ask \in ToSet(file) \union {0}
    <3> DEFINE page == [t |-> "page", entries |-> EntriesAfter(ask), leaf |-> Leaf]
    <3>1. EntriesAfter(ask) \in Seq(Nat) /\ Leaf \in Nat
      BY <2>3, AfterTyped
    <3>2. page \in Messages
      BY <3>1 DEF Messages
    <3>3. Sends(i, page)
      BY <1>1, <2>3
    <3> HIDE DEF page
    <3> QED BY <3>2, <3>3, SendsTyped
  <2>4. CASE ask # -2 /\ ask # -1 /\ ~(ask >= 0 /\ ask \in ToSet(file) \union {0})
    <3>1. [t |-> "unknown"] \in Messages
      BY DEF Messages
    <3>2. Sends(i, [t |-> "unknown"])
      BY <1>1, <2>4
    <3> QED BY <3>1, <3>2, SendsTyped
  <2> QED BY <2>1, <2>2, <2>3, <2>4
<1>4. PiTyped' /\ FileTyped'
  BY <1>1, <1>2, <1>3, Untouched DEF PiTyped
<1>5. BoundTyped'
  BY <1>1, NothingHeard DEF BoundTyped
<1> QED BY <1>1, <1>4, <1>5, NothingHeard DEF Undisturbed

LEMMA NewEntryTyped ==
  ASSUME BoundTyped
  PROVE  NewEntry \in Nat
BY DEF BoundTyped, NewEntry, Counted

LEMMA PiAppendsKeeps ==
  ASSUME NEW i \in Instances, RecorderTypeOK, PiAppends(i)
  PROVE  Undisturbed
<1> USE DEF RecorderTypeOK
<1>1. /\ todo = << >> /\ Spend("entries") /\ file' = Append(file, NewEntry)
      /\ unsaid' = (IF bound.announces THEN Append(unsaid, NewEntry) ELSE unsaid) /\ UNCHANGED <<obsVars, piVars>>
  BY DEF PiAppends, Quiet
<1>2. FileTyped'
  BY <1>1, NewEntryTyped DEF FileTyped
<1>3. BoundTyped'
  BY <1>1, SpendTyped, NothingHeard DEF BoundTyped, Counted
<1> QED BY <1>1, <1>2, <1>3, NothingHeard, Untouched DEF Undisturbed

LEMMA PiAnnouncesKeeps ==
  ASSUME NEW i \in Instances, RecorderTypeOK, PiAnnounces(i)
  PROVE  Undisturbed
<1> USE DEF RecorderTypeOK
<1>1. /\ todo = << >> /\ unsaid # << >> /\ Sends(i, [t |-> "entry", e |-> Head(unsaid)]) /\ unsaid' = Tail(unsaid)
      /\ UNCHANGED <<obsVars, st, asks, file, used>>
  BY DEF PiAnnounces, Quiet
<1>2. Head(unsaid) \in Nat /\ Tail(unsaid) \in Seq(Nat)
  BY <1>1, HeadTailProperties DEF FileTyped
<1>3. [t |-> "entry", e |-> Head(unsaid)] \in Messages
  BY <1>2 DEF Messages
<1>4. PiTyped'
  BY <1>1, <1>3, SendsTyped DEF PiTyped
<1>5. FileTyped' /\ BoundTyped'
  BY <1>1, <1>2, NothingHeard DEF FileTyped, BoundTyped
<1> QED BY <1>1, <1>4, <1>5, NothingHeard DEF Undisturbed

LEMMA PiSaysKeeps ==
  ASSUME NEW i \in Instances, RecorderTypeOK, PiSays(i)
  PROVE  Undisturbed
<1> USE DEF RecorderTypeOK
<1>1. /\ todo = << >> /\ Spend("lives") /\ UNCHANGED <<obsVars, st, asks, fileVars>>
  BY DEF PiSays, Quiet
<1>2. PICK k \in bound.kinds : Sends(i, [t |-> "live", k |-> k[1], v |-> k[2], had |-> ToSet(file)])
  BY DEF PiSays
<1>3. k[1] \in LiveKinds /\ k[2] \in Reasons
  BY <1>2, BoundsAssumption DEF BoundTyped
<1>4. [t |-> "live", k |-> k[1], v |-> k[2], had |-> ToSet(file)] \in Messages
  <2>1. ToSet(file) \in SUBSET Nat
    BY DEF FileTyped, ToSet
  <2> QED BY <1>3, <2>1 DEF Messages
<1>5. PiTyped'
  BY <1>1, <1>2, <1>4, SendsTyped DEF PiTyped
<1>6. BoundTyped'
  BY <1>1, SpendTyped, NothingHeard DEF BoundTyped, Counted
<1> QED BY <1>1, <1>5, <1>6, NothingHeard, Untouched DEF Undisturbed

LEMMA PiExitsKeeps ==
  ASSUME NEW i \in Instances, RecorderTypeOK, PiExits(i)
  PROVE  Undisturbed
<1> USE DEF RecorderTypeOK
<1>1. /\ todo = << >> /\ st' = [st EXCEPT ![i] = "gone"] /\ asks' = [asks EXCEPT ![i] = << >>]
      /\ unsaid' = << >> /\ UNCHANGED <<obsVars, out, file, used>>
  BY DEF PiExits, Quiet
<1>2. PiTyped' /\ FileTyped'
  BY <1>1, EmptySeq DEF PiTyped, FileTyped
<1>3. BoundTyped'
  BY <1>1, NothingHeard DEF BoundTyped
<1> QED BY <1>1, <1>2, <1>3, NothingHeard DEF Undisturbed

LEMMA RewrittenKeeps == RecorderTypeOK /\ Rewritten => Undisturbed
<1> SUFFICES ASSUME RecorderTypeOK, Rewritten PROVE Undisturbed
  OBVIOUS
<1> USE DEF RecorderTypeOK
<1>1. /\ todo = << >> /\ file # << >> /\ Spend("rewrites") /\ file' = Append(Front(file), NewEntry)
      /\ UNCHANGED <<obsVars, piVars, unsaid>>
  BY DEF Rewritten, Quiet
<1>2. Front(file) \in Seq(Nat)
  <2>1. file \in Seq(Nat) /\ Len(file) - 1 \in 0 .. Len(file)
    BY <1>1, EmptySeq DEF FileTyped
  <2> QED BY <2>1, Fronts DEF Front
<1>3. FileTyped'
  BY <1>1, <1>2, NewEntryTyped DEF FileTyped
<1>4. BoundTyped'
  BY <1>1, SpendTyped, NothingHeard DEF BoundTyped, Counted
<1> QED BY <1>1, <1>3, <1>4, NothingHeard, Untouched DEF Undisturbed

(* Ending.                                                                 *)
LEMMA EndsKeep ==
  /\ RecorderTypeOK /\ CloseSession => Undisturbed
  /\ RecorderTypeOK /\ Terminate => Undisturbed
  /\ RecorderTypeOK /\ Ended => Undisturbed
  /\ RecorderTypeOK /\ Shut => Undisturbed
<1> USE DEF RecorderTypeOK
<1>1. ASSUME RecorderTypeOK, CloseSession
      PROVE  Undisturbed
  <2>1. /\ todo = << >> /\ closing' = "reading" /\ queue' = Append(queue, "close") /\ phase' = phase
        /\ UNCHANGED <<storeVars, connectVars, closed, ends, reading, control, piVars, fileVars, used, bound, ghostVars>>
    BY <1>1 DEF CloseSession, Quiet
  <2>2. StoreTyped' /\ StoresNothing
    BY <1>1, <2>1, StillNothing
  <2>3. EndTyped' /\ ReadTyped'
    <3>1. Append(queue, "close") \in Seq({"connect", "event", "close"}) /\ Append(queue, "close") # << >>
      BY <1>1, AppendProperties DEF ReadTyped
    <3> QED BY <1>1, <2>1, <3>1 DEF EndTyped, ReadTyped
  <2> QED BY <1>1, <2>1, <2>2, <2>3, Untouched DEF Undisturbed
<1>2. ASSUME RecorderTypeOK, Terminate
      PROVE  Undisturbed
  <2>1. /\ todo = << >> /\ closed' = TRUE /\ closing' \in {"ending", closing} /\ phase' = phase
        /\ ends' = ends \union ({context} \ {0})
        /\ UNCHANGED <<storeVars, connectVars, readVars, control, piVars, fileVars, used, bound, ghostVars>>
    BY <1>2 DEF Terminate, Quiet
  <2>2. StoreTyped' /\ StoresNothing
    BY <1>2, <2>1, StillNothing
  <2>3. EndTyped'
    BY <1>2, <2>1, InstancesAre DEF EndTyped, ConnectTyped
  <2> QED BY <1>2, <2>1, <2>2, <2>3, Untouched DEF Undisturbed
<1>3. ASSUME RecorderTypeOK, Ended
      PROVE  Undisturbed
  <2>1. /\ todo = << >> /\ closing' = "draining" /\ phase' = phase /\ UNCHANGED <<closed, ends>>
        /\ UNCHANGED <<storeVars, connectVars, readVars, control, piVars, fileVars, used, bound, ghostVars>>
    BY <1>3 DEF Ended, Quiet
  <2>2. StoreTyped' /\ StoresNothing
    BY <1>3, <2>1, StillNothing
  <2>3. EndTyped'
    BY <1>3, <2>1 DEF EndTyped
  <2> QED BY <1>3, <2>1, <2>2, <2>3, Untouched DEF Undisturbed
<1>4. ASSUME RecorderTypeOK, Shut
      PROVE  Undisturbed
  <2>1. /\ todo = << >> /\ phase = "up" /\ phase' = "shut" /\ UNCHANGED <<closed, closing, ends>>
        /\ UNCHANGED <<storeVars, connectVars, readVars, control, piVars, fileVars, used, bound, ghostVars>>
    BY <1>4 DEF Shut, Quiet
  <2>2. StoreTyped' /\ StoresNothing
    BY <1>4, <2>1, StillNothing
  <2>3. EndTyped'
    BY <1>4, <2>1 DEF EndTyped
  <2> QED BY <1>4, <2>1, <2>2, <2>3, Untouched DEF Undisturbed
<1> QED BY <1>1, <1>2, <1>3, <1>4

-----------------------------------------------------------------------------
(* The invariant, and what it shows.                                       *)

LEMMA GoneTyped ==
  ASSUME RecorderTypeOK, Gone, stored' \in Seq(Stored), used' \in [Counted -> Nat]
  PROVE  RecorderTypeOK'
<1> USE DEF RecorderTypeOK
<1>1. Initial \in States /\ NoRead.inst \in Processes /\ 0 \in Processes
  BY DEF Initial, Idle, States, RunStates, Reasons, NoRead, Processes
<1>2. StoreTyped'
  BY <1>1, EmptySeq DEF Gone, StoreTyped
<1>3. ConnectTyped'
  BY <1>1 DEF Gone, ConnectTyped
<1>4. EndTyped' /\ GhostTyped'
  BY DEF Gone, EndTyped, GhostTyped
<1>5. ReadTyped'
  <2>1. queue' = << >> /\ reading' = NoRead
    BY DEF Gone
  <2> QED BY <1>1, <2>1, EmptySeq DEF ReadTyped, NoRead
<1>6. ControlTyped'
  <2>1. control' = NoControl
    BY DEF Gone
  <2> QED BY <1>1, <2>1 DEF ControlTyped, NoControl
<1>7. PiTyped'
  BY EmptySeq DEF Gone, PiTyped
<1>8. FileTyped'
  BY EmptySeq DEF Gone, FileTyped
<1>9. BoundTyped'
  BY DEF Gone, BoundTyped
<1> QED BY <1>2, <1>3, <1>4, <1>5, <1>6, <1>7, <1>8, <1>9

LEMMA RecorderStarts == RecorderInit => RecorderInv
<1> SUFFICES ASSUME RecorderInit PROVE RecorderInv
  OBVIOUS
<1>1. StoreInv
  BY StoreStart
<1>2. Initial \in States /\ NoRead.inst \in Processes /\ 0 \in Processes
  BY DEF Initial, Idle, States, RunStates, Reasons, NoRead, Processes
<1>3. StoreTyped
  BY <1>2, EmptySeq DEF RecorderInit, StoreTyped
<1>4. ConnectTyped
  BY <1>2 DEF RecorderInit, ConnectTyped
<1>5. EndTyped /\ GhostTyped
  BY DEF RecorderInit, EndTyped, GhostTyped
<1>6. ReadTyped
  <2>1. queue = << >> /\ reading = NoRead
    BY DEF RecorderInit
  <2> QED BY <1>2, <2>1, EmptySeq DEF ReadTyped, NoRead
<1>7. ControlTyped
  BY <1>2 DEF RecorderInit, ControlTyped, NoControl
<1>8. PiTyped /\ FileTyped
  BY EmptySeq DEF RecorderInit, PiTyped, FileTyped
<1>9. BoundTyped
  BY DEF RecorderInit, BoundTyped
<1> QED BY <1>1, <1>3, <1>4, <1>5, <1>6, <1>7, <1>8, <1>9 DEF RecorderInv, RecorderTypeOK

LEMMA OpenSessionTyped ==
  ASSUME RecorderTypeOK, StoreInv, OpenSession
  PROVE  RecorderTypeOK'
<1> USE DEF RecorderTypeOK
<1>1. /\ phase' = "up" /\ cursor' = LastEntry(stored, 0) /\ leaf' = LastLeaf(stored, 0)
      /\ life' = Folded(stored).state /\ calling' = "launch" /\ opening' = TRUE
      /\ UNCHANGED <<stored, lives, client, context, named, opened, closed, closing, ends>>
      /\ UNCHANGED <<readVars, control, piVars, fileVars, bound, ghostVars>>
  BY DEF OpenSession, Folded
<1>2. todo' \in Seq(Derivations)
  BY OpenSessionKeeps
<1>3. StoreTyped'
  <2>1. LastEntry(stored, 0) \in Nat /\ LastLeaf(stored, 0) \in Nat
    BY LastTyped DEF StoreTyped
  <2>2. Folded(stored).state \in States
    BY DEF StoreInv, FoldOK
  <2> QED BY <1>1, <1>2, <2>1, <2>2 DEF StoreTyped
<1>4. ConnectTyped' /\ EndTyped'
  BY <1>1 DEF ConnectTyped, EndTyped
<1>5. BoundTyped'
  BY <1>1, SpendTyped DEF OpenSession, BoundTyped, Counted
<1> QED BY <1>1, <1>3, <1>4, <1>5, Untouched

LEMMA StoreNextTyped ==
  ASSUME RecorderTypeOK, StoreInv, StoreNext
  PROVE  RecorderTypeOK'
<1> USE DEF RecorderTypeOK
<1> DEFINE e == Head(todo)
           more == Ingested(e)
<1>1. /\ todo # << >> /\ todo' = Tail(todo)
      /\ cursor' = LastEntry(more, cursor) /\ leaf' = LastLeaf(more, leaf) /\ lives' = lives
      /\ life' = IF Len(e.id) = 4 \/ e.id \in seen THEN life ELSE Step(life, e).state
      /\ UNCHANGED <<connectVars, endVars, readVars, control, piVars, fileVars, used, bound, ghostVars>>
  BY DEF StoreNext
<1>2. stored' \in Seq(Stored) /\ StoreInv'
  BY StoreNextKeeps
<1>3. phase = "up" /\ phase' = "up"
  <2>1. phase = "up"
    BY <1>1, HeadOwed
  <2> QED BY <1>1, <2>1 DEF endVars
<1>4. life' \in States
  BY <1>2, <1>3 DEF StoreInv, OweInv, FoldOK
<1>5. more \in Seq(Stored) /\ Tail(todo) \in Seq(Recordings) \union Seq(Derivations)
  <2>1. Lacking(e) \/ (Tail(todo) \in Seq(Recordings) /\ (Fresh(e) \/ Known(e)))
    BY <1>1, HeadOwed
  <2> HIDE DEF e
  <2>2. CASE Lacking(e)
    BY <2>2 DEF Lacking, Stored
  <2>3. CASE Known(e)
    BY <2>1, <2>3, EmptySeq DEF Known, Lacking
  <2>4. CASE Fresh(e)
    <3> DEFINE evs == Step(Folded(stored).state, e).events
    <3>1. e \in Recordings /\ more = << e >> \o evs
      BY <2>4 DEF Fresh
    <3>2. evs \in Seq(Derivations)
      <4>1. StepFacts(Folded(stored).state, e)
        BY <3>1, StepOK DEF StoreInv, FoldOK
      <4> QED BY <4>1 DEF StepFacts
    <3> HIDE DEF evs
    <3>3. << e >> \in Seq(Stored) /\ evs \in Seq(Stored)
      BY <3>1, <3>2, SeqMonotonic DEF Stored
    <3> QED BY <2>1, <3>1, <3>3, ConcatProperties DEF Lacking
  <2> QED BY <2>1, <2>2, <2>3, <2>4
<1> HIDE DEF more
<1>6. LastEntry(more, cursor) \in Nat /\ LastLeaf(more, leaf) \in Nat
  BY <1>5, LastTyped DEF StoreTyped
<1>7. StoreTyped'
  BY <1>1, <1>2, <1>4, <1>5, <1>6 DEF StoreTyped
<1> QED BY <1>1, <1>7, Untouched

LEMMA RecorderKeeps == RecorderInv /\ [RecorderNext]_recorderVars => RecorderInv'
<1> SUFFICES ASSUME RecorderInv, [RecorderNext]_recorderVars PROVE RecorderInv'
  OBVIOUS
<1>1. RecorderTypeOK /\ StoreInv
  BY DEF RecorderInv
<1>2. ASSUME Undisturbed PROVE RecorderInv'
  BY <1>1, <1>2, StoreKept DEF Undisturbed, RecorderInv
<1>3. CASE Runs
  <2>1. CASE StoreNext
    BY <1>1, <2>1, StoreNextKeeps, StoreNextTyped DEF RecorderInv
  <2>2. CASE StartRead
    BY <1>1, <1>2, <2>2, StartReadKeeps
  <2>3. CASE SkipRead
    BY <1>1, <1>2, <2>3, SkipReadKeeps
  <2>4. CASE Launch
    BY <1>1, <1>2, <2>4, LaunchKeeps
  <2>5. CASE LaunchRefused
    BY <1>1, <1>2, <2>5, LaunchRefusedKeeps
  <2>6. CASE StateFails
    BY <1>1, <1>2, <2>6, StateFailsKeeps
  <2>7. CASE ReadLost
    BY <1>1, <1>2, <2>7, ReadLostKeeps
  <2>8. CASE ControlFails
    BY <1>1, <1>2, <2>8, ControlFailsKeeps
  <2>9. CASE Ended
    BY <1>1, <1>2, <2>9, EndsKeep
  <2>10. CASE Shut
    BY <1>1, <1>2, <2>10, EndsKeep
  <2> QED BY <1>3, <2>1, <2>2, <2>3, <2>4, <2>5, <2>6, <2>7, <2>8, <2>9, <2>10 DEF Runs
<1>4. CASE Chooses
  <2>1. CASE OpenSession
    BY <1>1, <2>1, OpenSessionKeeps, OpenSessionTyped DEF RecorderInv
  <2>2. CASE StateTimesOut
    BY <1>1, <1>2, <2>2, StateTimesOutKeeps
  <2>3. CASE Reconnect
    BY <1>1, <1>2, <2>3, ReconnectKeeps
  <2>4. CASE ReadFails
    BY <1>1, <1>2, <2>4, ReadFailsKeeps
  <2>5. CASE CloseSession
    BY <1>1, <1>2, <2>5, EndsKeep
  <2>6. CASE Terminate
    BY <1>1, <1>2, <2>6, EndsKeep
  <2>7. CASE Leave
    <3>1. StoreInv'
      BY <1>1, <2>7, LeaveKeeps
    <3>2. Gone /\ stored' = stored /\ used' = used
      BY <2>7 DEF Leave
    <3>3. RecorderTypeOK'
      BY <1>1, <3>2, GoneTyped DEF RecorderTypeOK, StoreTyped, BoundTyped
    <3> QED BY <3>1, <3>3 DEF RecorderInv
  <2>8. CASE Killed
    <3>1. StoreInv' /\ stored' \in Seq(Stored)
      BY <1>1, <2>8, KilledKeeps
    <3>2. Gone /\ Spend("crashes")
      BY <2>8 DEF Killed
    <3>3. used' \in [Counted -> Nat]
      BY <1>1, <3>2, SpendTyped DEF Counted, RecorderTypeOK
    <3>4. RecorderTypeOK'
      BY <1>1, <3>1, <3>2, <3>3, GoneTyped
    <3> QED BY <3>1, <3>4 DEF RecorderInv
  <2>9. CASE Rewritten
    BY <1>1, <1>2, <2>9, RewrittenKeeps
  <2>10. CASE \E action \in {"abort", "prompt"} : Controls(action)
    BY <1>1, <1>2, <2>10, ControlsKeeps
  <2> QED BY <1>4, <2>1, <2>2, <2>3, <2>4, <2>5, <2>6, <2>7, <2>8, <2>9, <2>10 DEF Chooses
<1>5. CASE \E i \in Instances : PiDoes(i) \/ Seen(i)
  <2>1. PICK i \in Instances : PiDoes(i) \/ Seen(i)
    BY <1>5
  <2>2. CASE PiDoes(i)
    BY <1>1, <1>2, <2>2, PiAnswersKeeps, PiAppendsKeeps, PiAnnouncesKeeps, PiSaysKeeps, PiExitsKeeps DEF PiDoes
  <2>3. CASE Seen(i)
    BY <1>1, <1>2, <2>3, HearsKeeps, ExitReportedKeeps, DrainedKeeps DEF Seen
  <2> QED BY <2>1, <2>2, <2>3
<1>6. CASE UNCHANGED recorderVars
  <2>1. /\ UNCHANGED <<stored, todo, seen, cursor, leaf, life, lives>>
        /\ UNCHANGED <<connectVars, endVars, readVars, control, piVars, fileVars, used, bound, ghostVars>>
    BY <1>6 DEF recorderVars, storeVars, indexVars
  <2>2. RecorderTypeOK'
    BY <1>1, <2>1, Untouched DEF RecorderTypeOK, StoreTyped
  <2>3. StoreInv'
    BY <1>1, <2>1 DEF StoreInv, OweInv, endVars
  <2> QED BY <2>2, <2>3 DEF RecorderInv
<1> QED BY <1>3, <1>4, <1>5, <1>6 DEF RecorderNext

THEOREM RecorderInvariance == RecorderSpec => []RecorderInv
BY RecorderStarts, RecorderKeeps, PTL DEF RecorderSpec

(* Every variable of the recorder keeps its type.                          *)
THEOREM RecorderTypeCorrect == RecorderSpec => []RecorderTypeOK
<1>1. RecorderInv => RecorderTypeOK
  BY DEF RecorderInv
<1> QED BY <1>1, RecorderInvariance, PTL

(* What an attachment has stored of the lifecycle, once its code awaits,   *)
(* is the fold of what it recorded (#ingest and the constructor's repair). *)
THEOREM StoredIsFold == RecorderSpec => []LifecycleIsFold
<1>1. RecorderInv => LifecycleIsFold
  <2> SUFFICES ASSUME RecorderInv, phase = "up", todo = << >>
               PROVE  Derived(stored) = Fold(Recorded(stored)).events
    BY DEF LifecycleIsFold
  <2>1. Folded(stored).events = Derived(stored)
    BY NothingOwed DEF RecorderInv, RecorderTypeOK, StoreTyped, StoreInv
  <2> QED BY <2>1 DEF Folded
<1> QED BY <1>1, RecorderInvariance, PTL

(* The stored runs alternate, also in the front that a crash leaves.       *)
THEOREM RunsAlternate == RecorderSpec => []RunsConcluded
<1>1. RecorderInv => RunsConcluded
  <2> SUFFICES ASSUME RecorderInv PROVE Alternate(Derived(stored))
    BY DEF RunsConcluded
  <2> DEFINE all == Folded(stored).events
             d == Derived(stored)
  <2>1. stored \in Seq(Stored) /\ FoldOK(stored) /\ OweInv /\ phase \in {"down", "up", "shut"}
    BY DEF RecorderInv, RecorderTypeOK, StoreTyped, EndTyped, StoreInv
  <2>2. d \in Seq(Derivations) /\ all \in Seq(Derivations) /\ Alternate(all)
    BY <2>1, RecordedTyped DEF FoldOK
  <2>3. FrontOf(all, d) \/ all = d \/ (todo \in Seq(Derivations) /\ all = d \o todo)
    BY <2>1 DEF OweInv
  <2> HIDE DEF all, d
  <2>4. CASE FrontOf(all, d)
    <3> DEFINE rest == SubSeq(all, Len(d) + 1, Len(all))
    <3>1. rest \in Seq(Derivations) /\ d \o rest = all
      BY <2>2, <2>4, FrontAndRest
    <3> HIDE DEF rest
    <3>2. Alternate(d \o rest)
      BY <2>2, <3>1
    <3>3. Alternate(d)
      BY <2>2, <3>1, <3>2, AlternateFront
    <3> QED BY <3>3 DEF d
  <2>5. CASE all = d
    BY <2>2, <2>5 DEF d
  <2>6. CASE todo \in Seq(Derivations) /\ all = d \o todo
    <3>1. Alternate(d \o todo)
      BY <2>2, <2>6
    <3>2. Alternate(d)
      BY <2>2, <2>6, <3>1, AlternateFront
    <3> QED BY <3>2 DEF d
  <2> QED BY <2>3, <2>4, <2>5, <2>6
<1> QED BY <1>1, RecorderInvariance, PTL

(* No event is stored twice.                                               *)
THEOREM StoredOnce == RecorderSpec => []RecordedOnce
<1>1. RecorderInv => RecordedOnce
  <2> SUFFICES ASSUME RecorderInv PROVE RecordedOnce
    OBVIOUS
  <2>1. DOMAIN stored = 1 .. Len(stored) /\ Once(stored)
    BY DEF RecorderInv, RecorderTypeOK, StoreTyped, StoreInv
  <2> QED BY <2>1 DEF RecordedOnce, Once
<1> QED BY <1>1, RecorderInvariance, PTL

-----------------------------------------------------------------------------
(* No entry is skipped.                                                    *)

(* The number given last, the entries of Pi's file, and those recorded or  *)
(* about to be.                                                            *)
Latest == used.entries + used.rewrites
Learnt == EntriesIn(stored) \union EntriesIn(todo)
Sent(i) == Held(out[i])
Asked(i) == Held(asks[i])
Increasing(s) == \A m, n \in 1 .. Len(s) : m < n => s[m] < s[n]
Within(S) == S \subseteq 1 .. Latest

(* Entries are numbered as they are made.                                  *)
NumbersOK ==
  /\ Increasing(file)
  /\ Within(Held(file)) /\ Within(Learnt) /\ Within(Held(unsaid)) /\ Within(due)

(* An entry is told from an event by its identity.                         *)
KindsIn(s) == \A n \in 1 .. Len(s) : s[n] \in Recordings => (s[n].k = "entry" <=> s[n].id[1] = 0)
KindsOK == KindsIn(stored) /\ KindsIn(todo)

MessageOK(m) ==
  /\ m.t = "page" => m.leaf <= Latest /\ Held(m.entries) \subseteq 1 .. m.leaf /\ Increasing(m.entries)
  /\ m.t = "entry" => Within({m.e})
  /\ m.t = "live" => Within(m.had)
MessagesOK ==
  \A i \in Instances : (\A m \in Sent(i) : MessageOK(m)) /\ (\A a \in Asked(i) : a \in -2 .. Latest)

(* Processes not yet launched do nothing, and before the first nothing is  *)
(* known of the session.                                                   *)
ProcessesOK ==
  /\ \A i \in Instances : i > used.instances => st[i] = "none"
  /\ \A i \in Instances : st[i] = "none" => Sent(i) = {} /\ Asked(i) = {}
  /\ context = 0 => \A i \in Instances : st[i] = "none"
  /\ client <= used.instances /\ reading.inst <= used.instances
  /\ used.instances = 0 => ~named /\ Held(file) = {} /\ Learnt = {} /\ Held(unsaid) = {}

(* Where a connect is, and what was recorded last.                         *)
OneConnect(q, c) ==
  \A k \in 1 .. Len(q) : q[k] = "connect" =>
    c = "reading" /\ \A j \in 1 .. Len(q) : q[j] = "connect" => j = k
CallsOK ==
  /\ ~named => reading = NoRead
  /\ phase = "down" \/ calling = "launch" => client = 0
  /\ phase = "down" => context = 0 /\ calling = "no"
  /\ client # 0 /\ calling \in {"no", "reading"} => named
  /\ control # NoControl => context # 0
  /\ OneConnect(queue, calling)
  /\ cursor \in EntriesIn(stored) \union {0}

(* Of a Pi that does not announce, an entry is recorded after all of the   *)
(* file before it.                                                         *)
Earlier(s, n, x) == \E l \in 1 .. n - 1 : s[l].k = "entry" /\ s[l].id[2] = x
Ordering(s) ==
  \A n \in 1 .. Len(s) : s[n].k = "entry" =>
    \A x \in Held(file) : x < s[n].id[2] => x \in EntriesIn(stored) \/ Earlier(s, n, x)
OrderOK ==
  ~bound.announces =>
    /\ Held(unsaid) = {} /\ \A i \in Instances : \A m \in Sent(i) : m.t # "entry"
    /\ \A y \in EntriesIn(stored), x \in Held(file) : x < y => x \in EntriesIn(stored)
    /\ Ordering(todo)

(* When the property says something.                                       *)
Claimed == phase = "up" /\ ~missed /\ Running(client) /\ (bound.announces => used.instances = 1)

(* What is asked for, or answers, leaves nothing of the file out before it.*)
AskCovers(a) == a >= 0 => \A x \in Held(file) : x <= a => x \in Learnt
Covers(m) == m.t = "page" => \A x \in Held(file) : x <= m.leaf => x \in Learnt \union Held(m.entries)
CoverOK ==
  ~bound.announces \/ Claimed =>
    \A i \in Instances : (\A a \in Asked(i) : AskCovers(a)) /\ (\A m \in Sent(i) : Covers(m))

(* At most one answer is on the way, and it is the read's.                 *)
IsAnswer(m) == m.t \in {"page", "unknown"}
OneAnswer(o, a, its) ==
  /\ \A j, k \in 1 .. Len(o) : IsAnswer(o[j]) /\ IsAnswer(o[k]) => j = k
  /\ \A j, k \in 1 .. Len(a) : a[j] >= 0 /\ a[k] >= 0 => j = k
  /\ (\E x \in Held(a) : x >= 0) => its /\ \A m \in Held(o) : ~IsAnswer(m)
  /\ (\E m \in Held(o) : IsAnswer(m)) => its
OneAnswerFor(i) == OneAnswer(out[i], asks[i], reading.inst = i)

(* What is owed is recorded, or a catch-up that will record it is due, is  *)
(* asked for or is answered.                                               *)
Owed == due \cap Held(file)
ComingFor(i) ==
  \/ Owed \subseteq Learnt
  \/ Len(queue) >= 2
  \/ queue # << >> /\ reading = NoRead
  \/ queue # << >> /\ reading.inst = i
       /\ \A m \in Sent(i) : m.t = "page" => Owed \subseteq Learnt \union Held(m.entries)

(* The first catch-up of a Pi that announces reads from the start.         *)
FirstFor(i) ==
  /\ calling \in {"state", "ending"} => ~named /\ Learnt = {}
  /\ calling = "reading" =>
       queue # << >> /\ Head(queue) = "connect" /\ (reading = NoRead => Learnt = {})

(* Once it is answered, what is not recorded is announced, in order.       *)
Said(o) == {m.e : m \in {n \in Held(o) : n.t = "entry"}}
InTurn(o, u) ==
  /\ \A j, k \in 1 .. Len(o) : j < k /\ o[j].t = "entry" /\ o[k].t = "entry" => o[j].e < o[k].e
  /\ \A x \in Said(o), y \in Held(u) : x < y
  /\ Increasing(u)
ToCome(i) == Said(out[i]) \union Held(unsaid)
Found(i, x) == x \in Learnt \/ \E m \in Sent(i) : m.t = "page" /\ x <= m.leaf
Follows(i) ==
  /\ \A y \in Learnt, x \in Held(file) : x < y => Found(i, x)
  /\ \A y \in ToCome(i), x \in Held(file) : x < y => Found(i, x) \/ x \in ToCome(i)
  /\ st[i] = "run" => \A x \in Held(file) : Found(i, x) \/ x \in ToCome(i)
ToldFor(i) ==
  /\ InTurn(out[i], unsaid)
  /\ calling = "no" \/ (\E m \in Sent(i) : m.t = "page") => Follows(i)

ClaimFor(i) ==
  /\ OneAnswerFor(i)
  /\ calling \in {"no", "reading"} => ComingFor(i)
  /\ bound.announces => FirstFor(i) /\ ToldFor(i)
ClaimOK == \A i \in Instances : Claimed /\ i = client => ClaimFor(i)

KnowledgeOK == NumbersOK /\ KindsOK /\ MessagesOK /\ ProcessesOK /\ OrderOK /\ CoverOK
CatchUpInv == KnowledgeOK /\ CallsOK /\ ClaimOK

-----------------------------------------------------------------------------
(* What sequences hold.                                                    *)

LEMMA HeldIs ==
  ASSUME NEW S, NEW s \in Seq(S)
  PROVE  /\ Held(s) \subseteq S /\ ToSet(s) = Held(s)
         /\ \A n \in 1 .. Len(s) : s[n] \in Held(s)
         /\ \A x \in Held(s) : \E n \in 1 .. Len(s) : s[n] = x
         /\ Held(s) = {} <=> s = << >>
<1>1. DOMAIN s = 1 .. Len(s) /\ Len(s) \in Nat
  OBVIOUS
<1>2. Held(s) = {} => s = << >>
  <2>1. s # << >> => s[1] \in Held(s)
    BY <1>1 DEF Held
  <2> QED BY <2>1
<1>3. s = << >> => Held(s) = {}
  <2>1. s = << >> => 1 .. Len(s) = {}
    BY <1>1, EmptySeq
  <2> QED BY <2>1 DEF Held
<1>4. Held(s) \subseteq S /\ ToSet(s) = Held(s)
  BY <1>1 DEF Held, ToSet
<1>5. /\ \A n \in 1 .. Len(s) : s[n] \in Held(s)
      /\ \A x \in Held(s) : \E n \in 1 .. Len(s) : s[n] = x
  BY DEF Held
<1> QED BY <1>2, <1>3, <1>4, <1>5

LEMMA HeldNone == Held(<< >>) = {} /\ Len(<< >>) = 0
<1>1. << >> \in Seq({}) /\ Len(<< >>) = 0
  BY EmptySeq
<1> QED BY <1>1, HeldIs

LEMMA HeldHead ==
  ASSUME NEW S, NEW s \in Seq(S), s # << >>
  PROVE  /\ Head(s) = s[1] /\ Head(s) \in Held(s) /\ Held(s) = {Head(s)} \union Held(Tail(s))
         /\ Tail(s) \in Seq(S) /\ Len(Tail(s)) = Len(s) - 1 /\ Len(s) \in Nat \ {0}
         /\ \A n \in 1 .. Len(Tail(s)) : n + 1 \in 1 .. Len(s) /\ Tail(s)[n] = s[n + 1]
<1>1. /\ Len(s) \in Nat \ {0} /\ Head(s) \in S /\ Tail(s) \in Seq(S) /\ Len(Tail(s)) = Len(s) - 1
      /\ \A i \in 1 .. Len(Tail(s)) : Tail(s)[i] = s[i + 1]
      /\ Head(s) = s[1]
  BY HeadTailProperties
<1>2. \A n \in 1 .. Len(Tail(s)) : n + 1 \in 1 .. Len(s)
  BY <1>1
<1>3. \A n \in 1 .. Len(s) : n = 1 \/ n - 1 \in 1 .. Len(Tail(s))
  BY <1>1
<1>4. Held(s) = {Head(s)} \union Held(Tail(s))
  <2>1. ASSUME NEW x \in Held(s)
        PROVE  x = Head(s) \/ x \in Held(Tail(s))
    <3>1. PICK n \in 1 .. Len(s) : x = s[n]
      BY DEF Held
    <3>2. CASE n = 1
      BY <1>1, <3>1, <3>2
    <3>3. CASE n # 1
      <4>1. n - 1 \in 1 .. Len(Tail(s)) /\ Tail(s)[n - 1] = s[n]
        BY <1>1, <1>3, <3>3
      <4> QED BY <3>1, <4>1 DEF Held
    <3> QED BY <3>2, <3>3
  <2>2. Head(s) \in Held(s)
    BY <1>1 DEF Held
  <2>3. Held(Tail(s)) \subseteq Held(s)
    BY <1>1, <1>2 DEF Held
  <2> QED BY <2>1, <2>2, <2>3
<1>5. Head(s) \in Held(s)
  BY <1>4
<1> QED BY <1>1, <1>2, <1>4, <1>5

LEMMA AppendIs ==
  ASSUME NEW S, NEW s \in Seq(S), NEW e \in S
  PROVE  /\ Append(s, e) \in Seq(S) /\ Held(Append(s, e)) = Held(s) \union {e}
         /\ Len(Append(s, e)) = Len(s) + 1 /\ Len(s) \in Nat /\ Append(s, e)[Len(s) + 1] = e
         /\ \A n \in 1 .. Len(s) : Append(s, e)[n] = s[n]
         /\ Append(s, e) # << >>
<1>1. Held(Append(s, e)) = Held(s) \union {e}
  BY HeldAppend
<1> QED BY <1>1

LEMMA HeldJoin ==
  ASSUME NEW S, NEW s \in Seq(S), NEW t \in Seq(S)
  PROVE  Held(s \o t) = Held(s) \union Held(t)
<1> DEFINE u == s \o t
<1>1. /\ Len(s) \in Nat /\ Len(t) \in Nat /\ u \in Seq(S) /\ Len(u) = Len(s) + Len(t)
      /\ \A n \in 1 .. Len(u) : u[n] = IF n <= Len(s) THEN s[n] ELSE t[n - Len(s)]
  BY ConcatProperties
<1> HIDE DEF u
<1>2. ASSUME NEW x \in Held(u) PROVE x \in Held(s) \union Held(t)
  <2>1. PICK n \in 1 .. Len(u) : x = u[n]
    BY DEF Held
  <2>2. CASE n <= Len(s)
    <3>1. n \in 1 .. Len(s)
      BY <1>1, <2>2
    <3> QED BY <1>1, <2>1, <2>2, <3>1 DEF Held
  <2>3. CASE ~(n <= Len(s))
    <3>1. n - Len(s) \in 1 .. Len(t)
      BY <1>1, <2>3
    <3> QED BY <1>1, <2>1, <2>3, <3>1 DEF Held
  <2> QED BY <2>2, <2>3
<1>3. ASSUME NEW x \in Held(s) PROVE x \in Held(u)
  <2>1. PICK n \in 1 .. Len(s) : x = s[n]
    BY DEF Held
  <2>2. n \in 1 .. Len(u) /\ n <= Len(s)
    BY <1>1
  <2> QED BY <1>1, <2>1, <2>2 DEF Held
<1>4. ASSUME NEW x \in Held(t) PROVE x \in Held(u)
  <2>1. PICK n \in 1 .. Len(t) : x = t[n]
    BY DEF Held
  <2>2. n + Len(s) \in 1 .. Len(u) /\ ~(n + Len(s) <= Len(s)) /\ (n + Len(s)) - Len(s) = n
    BY <1>1
  <2> QED BY <1>1, <2>1, <2>2 DEF Held
<1> QED BY <1>2, <1>3, <1>4 DEF u

LEMMA HeldSelected ==
  ASSUME NEW S, NEW s \in Seq(S), NEW P
  PROVE  Held(Selected(s, P)) = {s[i] : i \in P \cap (1 .. Len(s))}
<1> DEFINE T == {s[i] : i \in P \cap (1 .. Len(s))}
<1>1. /\ Selected(s, P) \in Seq(T)
      /\ \A i \in P \cap (1 .. Len(s)) : \E j \in 1 .. Len(Selected(s, P)) : Selected(s, P)[j] = s[i]
  BY SelectedFrom
<1>2. \A x \in T : x \in Held(Selected(s, P))
  BY <1>1 DEF Held
<1> HIDE DEF T
<1>3. Held(Selected(s, P)) \subseteq T
  BY <1>1, HeldIs
<1> QED BY <1>2, <1>3 DEF T

(* What is kept of an increasing sequence increases.                       *)
LEMMA IncreasingAppend ==
  ASSUME NEW s \in Seq(Nat), NEW e \in Nat
  PROVE  Increasing(Append(s, e)) <=> Increasing(s) /\ \A x \in Held(s) : x < e
<1> DEFINE t == Append(s, e)
<1>1. /\ Len(t) = Len(s) + 1 /\ Len(s) \in Nat /\ t[Len(s) + 1] = e
      /\ \A n \in 1 .. Len(s) : t[n] = s[n]
  BY AppendIs
<1>2. \A n \in 1 .. Len(t) : n \in 1 .. Len(s) \/ n = Len(s) + 1
  BY <1>1
<1>3. \A n \in 1 .. Len(s) : n \in 1 .. Len(t) /\ n < Len(s) + 1
  BY <1>1
<1>4. Len(s) + 1 \in 1 .. Len(t)
  BY <1>1
<1> HIDE DEF t
<1>5. Increasing(t) => Increasing(s)
  BY <1>1, <1>3 DEF Increasing
<1>6. Increasing(t) => \A x \in Held(s) : x < e
  BY <1>1, <1>3, <1>4 DEF Increasing, Held
<1>7. ASSUME Increasing(s), \A x \in Held(s) : x < e, NEW m \in 1 .. Len(t), NEW n \in 1 .. Len(t), m < n
      PROVE  t[m] < t[n]
  <2>1. m \in 1 .. Len(s)
    BY <1>1, <1>2, <1>7
  <2>2. CASE n \in 1 .. Len(s)
    BY <1>1, <1>7, <2>1, <2>2 DEF Increasing
  <2>3. CASE n = Len(s) + 1
    <3>1. s[m] \in Held(s)
      BY <2>1 DEF Held
    <3> QED BY <1>1, <1>7, <2>1, <2>3, <3>1
  <2> QED BY <1>2, <2>2, <2>3
<1>8. Increasing(s) /\ (\A x \in Held(s) : x < e) => Increasing(t)
  BY <1>7 DEF Increasing
<1> QED BY <1>5, <1>6, <1>8 DEF t

LEMMA IncreasingNone == Increasing(<< >>)
BY HeldNone DEF Increasing

LEMMA IncreasingSelected ==
  ASSUME NEW s \in Seq(Nat), NEW P, Increasing(s)
  PROVE  Increasing(Selected(s, P))
<1> DEFINE front(n) == SubSeq(s, 1, n)
           T == {n \in 0 .. Len(s) : Increasing(Selected(front(n), P))}
<1>1. Len(s) \in Nat
  OBVIOUS
<1>2. 0 \in T
  <2>1. 0 \in 0 .. Len(s)
    BY <1>1
  <2>2. front(0) = << >>
    BY <2>1, Fronts
  <2> QED BY <2>1, <2>2, SelectedNone, IncreasingNone
<1>3. ASSUME NEW n \in 0 .. Len(s) - 1, n \in T
      PROVE  n + 1 \in T
  <2>1. /\ n \in 0 .. Len(s) /\ n < Len(s) /\ n + 1 \in 0 .. Len(s) /\ n + 1 \in 1 .. Len(s)
        /\ Increasing(Selected(front(n), P))
    <3>1. Increasing(Selected(front(n), P))
      BY <1>3
    <3> HIDE DEF front, T
    <3> QED BY <1>1, <3>1
  <2>2. front(n) \in Seq(Nat) /\ Len(front(n)) = n /\ front(n + 1) = Append(front(n), s[n + 1])
        /\ \A i \in 1 .. n : front(n)[i] = s[i]
    BY <2>1, Fronts
  <2>3. s[n + 1] \in Nat
    BY <2>1
  <2> DEFINE k == Selected(front(n), P)
  <2>4. k \in Seq(Nat)
    <3> HIDE DEF front
    <3> QED BY <2>2, SelectedTyped
  <2>5. \A x \in Held(k) : x < s[n + 1]
    <3> HIDE DEF front
    <3>1. Held(k) = {front(n)[i] : i \in P \cap (1 .. Len(front(n)))}
      BY <2>2, HeldSelected
    <3> HIDE DEF k
    <3>2. \A i \in 1 .. n : i \in 1 .. Len(s) /\ i < n + 1
      BY <2>1
    <3>3. \A i \in 1 .. n : s[i] < s[n + 1]
      BY <2>1, <3>2 DEF Increasing
    <3> QED BY <2>2, <3>1, <3>3
  <2>6. Selected(front(n + 1), P) = IF n + 1 \in P THEN Append(k, s[n + 1]) ELSE k
    <3> HIDE DEF front
    <3>1. PICK f : f = front(n)
      OBVIOUS
    <3>2. f \in Seq(Nat)
      BY <2>2, <3>1
    <3>3. Selected(Append(f, s[n + 1]), P) =
            IF Len(f) + 1 \in P THEN Append(Selected(f, P), s[n + 1]) ELSE Selected(f, P)
      BY <2>3, <3>2, SelectedAppend
    <3> QED BY <2>2, <3>1, <3>3 DEF k
  <2>7. Increasing(Selected(front(n + 1), P))
    <3>1. Increasing(k)
      BY <2>1
    <3> HIDE DEF front, k
    <3>2. Increasing(Append(k, s[n + 1]))
      BY <2>3, <2>4, <2>5, <3>1, IncreasingAppend
    <3> QED BY <2>6, <3>1, <3>2
  <2> QED BY <2>1, <2>7
<1> HIDE DEF T
<1>4. Len(s) \in T
  <2>1. 0 .. Len(s) \subseteq T
    BY <1>1, <1>2, <1>3, UpTo
  <2> QED BY <1>1, <2>1
<1>5. front(Len(s)) = s
  BY <1>1, Fronts
<1> QED BY <1>4, <1>5 DEF T

LEMMA IncreasingTail ==
  ASSUME NEW s \in Seq(Nat), s # << >>, Increasing(s)
  PROVE  Increasing(Tail(s)) /\ \A x \in Held(Tail(s)) : Head(s) < x
<1>1. /\ Head(s) = s[1] /\ Len(Tail(s)) = Len(s) - 1 /\ Len(s) \in Nat \ {0}
      /\ \A n \in 1 .. Len(Tail(s)) : n + 1 \in 1 .. Len(s) /\ Tail(s)[n] = s[n + 1]
  BY HeldHead
<1>2. Increasing(Tail(s))
  <2> SUFFICES ASSUME NEW m \in 1 .. Len(Tail(s)), NEW n \in 1 .. Len(Tail(s)), m < n
               PROVE  Tail(s)[m] < Tail(s)[n]
    BY DEF Increasing
  <2>1. m + 1 \in 1 .. Len(s) /\ n + 1 \in 1 .. Len(s) /\ m + 1 < n + 1
    BY <1>1
  <2> QED BY <1>1, <2>1 DEF Increasing
<1>3. ASSUME NEW n \in 1 .. Len(Tail(s))
      PROVE  Head(s) < Tail(s)[n]
  <2>1. 1 \in 1 .. Len(s) /\ n + 1 \in 1 .. Len(s) /\ 1 < n + 1
    BY <1>1
  <2> QED BY <1>1, <2>1 DEF Increasing
<1> QED BY <1>2, <1>3 DEF Held

-----------------------------------------------------------------------------
(* The entries of a sequence of events.                                    *)

LEMMA EntriesAre ==
  ASSUME NEW S, NEW s \in Seq(S)
  PROVE  /\ \A e : e \in EntriesIn(s) <=> \E n \in 1 .. Len(s) : s[n].k = "entry" /\ s[n].id[2] = e
         /\ EntriesIn(s) = {x.id[2] : x \in {y \in Held(s) : y.k = "entry"}}
<1>1. ToSet(s) = Held(s)
  BY HeldIs
<1> QED BY <1>1 DEF EntriesIn, Held

LEMMA EntriesJoin ==
  ASSUME NEW S, NEW s \in Seq(S), NEW t \in Seq(S)
  PROVE  EntriesIn(s \o t) = EntriesIn(s) \union EntriesIn(t)
<1>1. s \o t \in Seq(S)
  BY ConcatProperties
<1>2. Held(s \o t) = Held(s) \union Held(t)
  BY HeldJoin
<1> DEFINE u == s \o t
<1>3. /\ EntriesIn(u) = {x.id[2] : x \in {y \in Held(u) : y.k = "entry"}}
      /\ EntriesIn(s) = {x.id[2] : x \in {y \in Held(s) : y.k = "entry"}}
      /\ EntriesIn(t) = {x.id[2] : x \in {y \in Held(t) : y.k = "entry"}}
  BY <1>1, EntriesAre
<1> HIDE DEF u
<1> QED BY <1>2, <1>3 DEF u

LEMMA EntriesNone == EntriesIn(<< >>) = {}
<1>1. << >> \in Seq({})
  BY EmptySeq
<1>2. EntriesIn(<< >>) = {x.id[2] : x \in {y \in Held(<< >>) : y.k = "entry"}}
  BY <1>1, EntriesAre
<1>3. {y \in {} : y.k = "entry"} = {}
  OBVIOUS
<1> QED BY <1>2, <1>3, HeldNone

LEMMA DerivedIsNoEntry ==
  /\ \A x \in Derivations : x.k # "entry"
  /\ \A s \in Seq(Derivations) : EntriesIn(s) = {}
<1>1. \A x \in Derivations : x.k # "entry"
  BY DEF Derivations, LifecycleKinds, Concluding, Asides, Stops
<1>2. ASSUME NEW s \in Seq(Derivations)
      PROVE  EntriesIn(s) = {}
  BY <1>1, EntriesAre
<1> QED BY <1>1, <1>2

-----------------------------------------------------------------------------
(* Steps that leave the file and the store as they are.                    *)

LEMMA LatestTyped == BoundTyped => Latest \in Nat
BY DEF BoundTyped, Counted, Latest

(* What may be recorded next.                                              *)
TodoOK(s) ==
  /\ KindsIn(s) /\ Within(EntriesIn(s)) /\ (used.instances = 0 => EntriesIn(s) = {})
  /\ ~bound.announces => Ordering(s)

(* What may be sent, and asked for, next.                                  *)
Fits(m) ==
  /\ MessageOK(m) /\ (m.t = "entry" => bound.announces)
  /\ ~bound.announces \/ Claimed => Covers(m)
AskFits(a) == a \in -2 .. Latest /\ (~bound.announces \/ Claimed => AskCovers(a))

Exchanges ==
  \A i \in Instances :
    /\ st'[i] = "none" <=> st[i] = "none"
    /\ \A m \in Sent(i)' : m \in Sent(i) \/ (st[i] # "none" /\ Fits(m)')
    /\ \A a \in Asked(i)' : a \in Asked(i) \/ (st[i] # "none" /\ AskFits(a)')

Moves ==
  /\ UNCHANGED <<file, bound, stored, context>>
  /\ used'.instances = used.instances /\ used'.entries = used.entries /\ used'.rewrites = used.rewrites
  /\ Held(unsaid') \subseteq Held(unsaid) /\ Within(due')
  /\ todo' = todo \/ (todo = << >> /\ TodoOK(todo'))
  /\ client' \in {client, 0} /\ reading'.inst \in {0, client, reading.inst}
  /\ used.instances = 0 => ~named'
  /\ Exchanges
  /\ Claimed' => Claimed

LEMMA MovesKeeps ==
  ASSUME RecorderTypeOK, RecorderTypeOK', KnowledgeOK, Moves
  PROVE  KnowledgeOK'
<1>1. /\ file' = file /\ bound' = bound /\ stored' = stored /\ context' = context
      /\ Latest' = Latest /\ used'.instances = used.instances /\ Held(unsaid)' \subseteq Held(unsaid) /\ Within(due')
      /\ client' \in {client, 0} /\ reading'.inst \in {0, client, reading.inst}
      /\ (used.instances = 0 => ~named') /\ Exchanges /\ (Claimed' => Claimed)
  BY DEF Moves, Latest
<1>2. stored \in Seq(Stored) /\ EntriesIn(<< >>) = {} /\ EntriesIn(stored)' = EntriesIn(stored) /\ Held(file)' = Held(file)
  BY <1>1, EntriesNone DEF RecorderTypeOK, StoreTyped
<1>3. /\ todo' = todo \/ (todo = << >> /\ TodoOK(todo'))
      /\ EntriesIn(todo)' = EntriesIn(todo')
  BY DEF Moves
<1>4. Learnt \subseteq Learnt' /\ (used.instances = 0 => Learnt' = Learnt) /\ Within(Learnt')
  <2>1. CASE todo' = todo
    <3>1. Learnt' = Learnt
      BY <1>2, <1>3, <2>1 DEF Learnt
    <3> QED BY <3>1 DEF KnowledgeOK, NumbersOK
  <2>2. CASE todo = << >> /\ TodoOK(todo')
    <3>1. Learnt = EntriesIn(stored) /\ Learnt' = EntriesIn(stored) \union EntriesIn(todo')
      BY <1>2, <1>3, <2>2 DEF Learnt
    <3>2. Within(EntriesIn(todo')) /\ (used.instances = 0 => EntriesIn(todo') = {})
      BY <2>2 DEF TodoOK
    <3> QED BY <3>1, <3>2 DEF KnowledgeOK, NumbersOK, Within
  <2> QED BY <1>3, <2>1, <2>2
<1>5. NumbersOK'
  BY <1>1, <1>2, <1>4 DEF KnowledgeOK, NumbersOK, Within
<1>6. KindsOK'
  BY <1>1, <1>3 DEF KnowledgeOK, KindsOK, TodoOK, KindsIn
<1>7. \A m : MessageOK(m)' <=> MessageOK(m)
  BY <1>1 DEF MessageOK, Within
<1>8. MessagesOK'
  <2> SUFFICES ASSUME NEW i \in Instances
               PROVE  (\A m \in Sent(i)' : MessageOK(m)') /\ (\A a \in Asked(i)' : a \in -2 .. Latest')
    BY DEF MessagesOK
  <2>1. ASSUME NEW m \in Sent(i)'
        PROVE  MessageOK(m)'
    <3>1. m \in Sent(i) \/ Fits(m)'
      BY <1>1 DEF Exchanges
    <3> QED BY <1>7, <3>1 DEF KnowledgeOK, MessagesOK, Fits
  <2>2. ASSUME NEW a \in Asked(i)'
        PROVE  a \in -2 .. Latest'
    <3>1. a \in Asked(i) \/ AskFits(a)'
      BY <1>1 DEF Exchanges
    <3> QED BY <1>1, <3>1 DEF KnowledgeOK, MessagesOK, AskFits
  <2> QED BY <2>1, <2>2
<1>9. ProcessesOK'
  <2> USE DEF KnowledgeOK, ProcessesOK
  <2>1. client' <= used'.instances /\ reading'.inst <= used'.instances
    <3>1. used.instances \in Nat
      BY DEF RecorderTypeOK, BoundTyped, Counted
    <3> QED BY <1>1, <3>1
  <2>2. \A i \in Instances : i > used'.instances => st'[i] = "none"
    BY <1>1 DEF Exchanges
  <2>3. \A i \in Instances : st'[i] = "none" => Sent(i)' = {} /\ Asked(i)' = {}
    BY <1>1 DEF Exchanges
  <2>4. context' = 0 => \A i \in Instances : st'[i] = "none"
    BY <1>1 DEF Exchanges
  <2>5. used'.instances = 0 => ~named' /\ Held(file)' = {} /\ Learnt' = {} /\ Held(unsaid)' = {}
    BY <1>1, <1>2, <1>4
  <2> QED BY <2>1, <2>2, <2>3, <2>4, <2>5
<1>10. OrderOK'
  <2> SUFFICES ASSUME ~bound.announces
               PROVE  OrderOK'
    BY <1>1 DEF OrderOK
  <2>1. OrderOK
    BY DEF KnowledgeOK
  <2>2. Held(unsaid)' = {}
    BY <1>1, <2>1 DEF OrderOK
  <2>3. \A i \in Instances : \A m \in Sent(i)' : m.t # "entry"
    BY <1>1, <2>1 DEF OrderOK, Exchanges, Fits
  <2>4. \A s : Ordering(s)' <=> Ordering(s)
    BY <1>1, <1>2 DEF Ordering, Earlier
  <2>5. Ordering(todo')
    BY <1>3, <2>1 DEF OrderOK, TodoOK
  <2>6. Ordering(todo)'
    BY <1>2, <2>5 DEF Ordering, Earlier
  <2> QED BY <1>2, <2>1, <2>2, <2>3, <2>6 DEF OrderOK
<1>11. CoverOK'
  <2> SUFFICES ASSUME ~bound.announces \/ Claimed', NEW i \in Instances
               PROVE  (\A a \in Asked(i)' : AskCovers(a)') /\ (\A m \in Sent(i)' : Covers(m)')
    BY <1>1 DEF CoverOK
  <2>1. (\A a \in Asked(i) : AskCovers(a)) /\ (\A m \in Sent(i) : Covers(m))
    BY <1>1 DEF KnowledgeOK, CoverOK
  <2>2. \A m : Covers(m) => Covers(m)'
    BY <1>2, <1>4 DEF Covers
  <2>3. \A a : AskCovers(a) => AskCovers(a)'
    BY <1>2, <1>4 DEF AskCovers
  <2>4. \A m \in Sent(i)' : Covers(m)'
    <3> TAKE m \in Sent(i)'
    <3>1. m \in Sent(i) \/ Fits(m)'
      BY <1>1 DEF Exchanges
    <3> QED BY <1>1, <2>1, <2>2, <3>1 DEF Fits
  <2>5. \A a \in Asked(i)' : AskCovers(a)'
    <3> TAKE a \in Asked(i)'
    <3>1. a \in Asked(i) \/ AskFits(a)'
      BY <1>1 DEF Exchanges
    <3> QED BY <1>1, <2>1, <2>3, <3>1 DEF AskFits
  <2> QED BY <2>4, <2>5
<1> QED BY <1>5, <1>6, <1>8, <1>9, <1>10, <1>11 DEF KnowledgeOK

(* A step the client takes no notice of, with nothing more learnt.         *)
Unnoticed ==
  /\ Claimed' => Claimed
  /\ UNCHANGED <<client, named, queue, reading, file, unsaid, due, bound>>
  /\ calling' = calling \/ (calling = "state" /\ calling' = "ending")
  /\ Learnt' = Learnt
  /\ client # 0 => out'[client] = out[client] /\ asks'[client] = asks[client] /\ st'[client] = st[client]

(* What is on the way stays so while the pages and the announcements do.   *)
LEMMA ToldStays ==
  ASSUME NEW i, ToldFor(i), file' = file, Learnt' = Learnt, ToCome(i)' = ToCome(i), InTurn(out'[i], unsaid'),
         st'[i] = "run" => st[i] = "run", calling' = "no" => calling = "no",
         \A m : m.t = "page" => (m \in Sent(i)' <=> m \in Sent(i))
  PROVE  ToldFor(i)'
<1>1. \A x : Found(i, x)' <=> Found(i, x)
  BY DEF Found
<1>2. Follows(i) => Follows(i)'
  BY <1>1 DEF Follows
<1>3. (\E m \in Sent(i)' : m.t = "page") => \E m \in Sent(i) : m.t = "page"
  OBVIOUS
<1>4. InTurn(out[i], unsaid)'
  OBVIOUS
<1> QED BY <1>2, <1>3, <1>4 DEF ToldFor

LEMMA UnnoticedKeeps ==
  ASSUME ClaimOK, Unnoticed
  PROVE  ClaimOK'
<1> SUFFICES ASSUME NEW i \in Instances, Claimed', i = client'
             PROVE  ClaimFor(i)'
  BY DEF ClaimOK
<1>1. /\ Claimed /\ client = i /\ (calling' = calling \/ (calling = "state" /\ calling' = "ending")) /\ named' = named /\ queue' = queue /\ reading' = reading
      /\ file' = file /\ unsaid' = unsaid /\ due' = due /\ bound' = bound /\ Learnt' = Learnt
  BY DEF Unnoticed
<1>2. ClaimFor(i)
  BY <1>1 DEF ClaimOK
<1>3. out'[i] = out[i] /\ asks'[i] = asks[i] /\ st'[i] = st[i]
  <2>1. i # 0
    BY <1>1 DEF Claimed, Running
  <2> QED BY <1>1, <2>1 DEF Unnoticed
<1>4. Sent(i)' = Sent(i) /\ Asked(i)' = Asked(i) /\ Held(file)' = Held(file) /\ ToCome(i)' = ToCome(i)
  BY <1>1, <1>3 DEF Sent, Asked, ToCome
<1>5. OneAnswerFor(i)'
  BY <1>1, <1>2, <1>3 DEF OneAnswerFor, ClaimFor
<1>6. Owed' = Owed
  BY <1>1, <1>4 DEF Owed
<1>7. ComingFor(i)' <=> ComingFor(i)
  BY <1>1, <1>4, <1>6 DEF ComingFor
<1>8. FirstFor(i) => FirstFor(i)'
  BY <1>1 DEF FirstFor
<1>9. ToldFor(i) => ToldFor(i)'
  <2>1. ToldFor(i) => InTurn(out'[i], unsaid')
    BY <1>1, <1>3 DEF ToldFor
  <2> QED BY <1>1, <1>3, <1>4, <2>1, ToldStays
<1> QED BY <1>1, <1>2, <1>5, <1>7, <1>8, <1>9 DEF ClaimFor

LEMMA NotClaimed == ~Claimed' => ClaimOK'
BY DEF ClaimOK

-----------------------------------------------------------------------------
(* A queue with one connect.                                               *)

LEMMA QueueTail ==
  ASSUME NEW S, NEW q \in Seq(S), q # << >>, NEW c, OneConnect(q, c)
  PROVE  OneConnect(Tail(q), IF Head(q) = "connect" THEN "no" ELSE c)
<1>1. /\ Head(q) = q[1] /\ Len(q) \in Nat \ {0} /\ Len(Tail(q)) = Len(q) - 1
      /\ \A n \in 1 .. Len(Tail(q)) : n + 1 \in 1 .. Len(q) /\ Tail(q)[n] = q[n + 1]
  BY HeldHead
<1>2. ASSUME NEW k \in 1 .. Len(Tail(q)), Tail(q)[k] = "connect"
      PROVE  /\ Head(q) # "connect" /\ c = "reading"
             /\ \A j \in 1 .. Len(Tail(q)) : Tail(q)[j] = "connect" => j = k
  <2>1. k + 1 \in 1 .. Len(q) /\ q[k + 1] = "connect"
    BY <1>1, <1>2
  <2>2. c = "reading" /\ \A j \in 1 .. Len(q) : q[j] = "connect" => j = k + 1
    BY <2>1 DEF OneConnect
  <2>3. Head(q) # "connect"
    <3>1. 1 \in 1 .. Len(q) /\ 1 # k + 1
      BY <1>1
    <3> QED BY <1>1, <2>2, <3>1
  <2>4. ASSUME NEW j \in 1 .. Len(Tail(q)), Tail(q)[j] = "connect"
        PROVE  j = k
    <3>1. j + 1 \in 1 .. Len(q) /\ q[j + 1] = "connect"
      BY <1>1, <2>4
    <3>2. j + 1 = k + 1
      BY <2>2, <3>1
    <3> QED BY <3>2
  <2> QED BY <2>2, <2>3, <2>4
<1> QED BY <1>2 DEF OneConnect

LEMMA QueueAppend ==
  ASSUME NEW S, NEW q \in Seq(S), NEW x \in S, NEW c, OneConnect(q, c)
  PROVE  /\ x # "connect" => OneConnect(Append(q, x), c)
         /\ c # "reading" => OneConnect(Append(q, x), "reading")
<1> DEFINE t == Append(q, x)
<1>1. /\ Len(t) = Len(q) + 1 /\ Len(q) \in Nat /\ t[Len(q) + 1] = x
      /\ \A n \in 1 .. Len(q) : t[n] = q[n]
  BY AppendIs
<1>2. \A n \in 1 .. Len(t) : n \in 1 .. Len(q) \/ n = Len(q) + 1
  BY <1>1
<1> HIDE DEF t
<1>3. x # "connect" => OneConnect(t, c)
  BY <1>1, <1>2 DEF OneConnect
<1>4. c # "reading" => OneConnect(t, "reading")
  BY <1>1, <1>2 DEF OneConnect
<1> QED BY <1>3, <1>4 DEF t

-----------------------------------------------------------------------------
(* One answer on the way.                                                  *)

LEMMA AnswerRead ==
  ASSUME NEW o \in Seq(Messages), o # << >>, NEW a, NEW its, OneAnswer(o, a, its)
  PROVE  /\ OneAnswer(Tail(o), a, its)
         /\ IsAnswer(Head(o)) => \A any : OneAnswer(Tail(o), a, any)
         /\ IsAnswer(Head(o)) => (\A m \in Held(Tail(o)) : ~IsAnswer(m)) /\ (\A x \in Held(a) : ~(x >= 0))
<1>1. /\ Head(o) = o[1] /\ Len(o) \in Nat \ {0} /\ Len(Tail(o)) = Len(o) - 1 /\ Held(o) = {Head(o)} \union Held(Tail(o))
      /\ \A n \in 1 .. Len(Tail(o)) : n + 1 \in 1 .. Len(o) /\ Tail(o)[n] = o[n + 1]
  BY HeldHead
<1>2. ASSUME NEW j \in 1 .. Len(Tail(o)), NEW k \in 1 .. Len(Tail(o)), IsAnswer(Tail(o)[j]), IsAnswer(Tail(o)[k])
      PROVE  j = k
  <2>1. j + 1 \in 1 .. Len(o) /\ k + 1 \in 1 .. Len(o) /\ IsAnswer(o[j + 1]) /\ IsAnswer(o[k + 1])
    BY <1>1, <1>2
  <2>2. j + 1 = k + 1
    BY <2>1 DEF OneAnswer
  <2> QED BY <2>2
<1>3. ASSUME IsAnswer(Head(o)), NEW m \in Held(Tail(o))
      PROVE  ~IsAnswer(m)
  <2>1. PICK k \in 1 .. Len(Tail(o)) : m = Tail(o)[k]
    BY DEF Held
  <2>2. k + 1 \in 1 .. Len(o) /\ o[k + 1] = m /\ 1 \in 1 .. Len(o) /\ k + 1 # 1
    BY <1>1, <2>1
  <2> QED BY <1>1, <1>3, <2>2 DEF OneAnswer
<1>4. IsAnswer(Head(o)) => \A x \in Held(a) : ~(x >= 0)
  BY <1>1 DEF OneAnswer
<1>5. OneAnswer(Tail(o), a, its)
  BY <1>1, <1>2 DEF OneAnswer
<1>6. IsAnswer(Head(o)) => \A any : OneAnswer(Tail(o), a, any)
  BY <1>2, <1>3, <1>4 DEF OneAnswer
<1> QED BY <1>3, <1>4, <1>5, <1>6

LEMMA OneMore ==
  ASSUME NEW o \in Seq(Messages), NEW m \in Messages
  PROVE  /\ /\ \A j, k \in 1 .. Len(o) : IsAnswer(o[j]) /\ IsAnswer(o[k]) => j = k
            /\ ~IsAnswer(m) \/ \A n \in Held(o) : ~IsAnswer(n)
            => \A j, k \in 1 .. Len(Append(o, m)) : IsAnswer(Append(o, m)[j]) /\ IsAnswer(Append(o, m)[k]) => j = k
         /\ Held(Append(o, m)) = Held(o) \union {m}
<1> DEFINE t == Append(o, m)
<1>1. /\ Len(t) = Len(o) + 1 /\ Len(o) \in Nat /\ t[Len(o) + 1] = m /\ Held(t) = Held(o) \union {m}
      /\ \A n \in 1 .. Len(o) : t[n] = o[n]
  BY AppendIs
<1>2. \A n \in 1 .. Len(t) : n \in 1 .. Len(o) \/ n = Len(o) + 1
  BY <1>1
<1>3. \A n \in 1 .. Len(o) : o[n] \in Held(o)
  BY DEF Held
<1> HIDE DEF t
<1>4. ASSUME \A j, k \in 1 .. Len(o) : IsAnswer(o[j]) /\ IsAnswer(o[k]) => j = k,
             ~IsAnswer(m) \/ \A n \in Held(o) : ~IsAnswer(n)
      PROVE  \A j, k \in 1 .. Len(t) : IsAnswer(t[j]) /\ IsAnswer(t[k]) => j = k
  BY <1>1, <1>2, <1>3, <1>4
<1> QED BY <1>1, <1>4 DEF t

LEMMA AnotherAsk ==
  ASSUME NEW a \in Seq(Int), NEW x \in Int
  PROVE  /\ /\ \A j, k \in 1 .. Len(a) : a[j] >= 0 /\ a[k] >= 0 => j = k
            /\ x < 0 \/ \A y \in Held(a) : ~(y >= 0)
            => \A j, k \in 1 .. Len(Append(a, x)) : Append(a, x)[j] >= 0 /\ Append(a, x)[k] >= 0 => j = k
         /\ Held(Append(a, x)) = Held(a) \union {x}
<1> DEFINE t == Append(a, x)
<1>1. /\ Len(t) = Len(a) + 1 /\ Len(a) \in Nat /\ t[Len(a) + 1] = x /\ Held(t) = Held(a) \union {x}
      /\ \A n \in 1 .. Len(a) : t[n] = a[n]
  BY AppendIs
<1>2. \A n \in 1 .. Len(t) : n \in 1 .. Len(a) \/ n = Len(a) + 1
  BY <1>1
<1>3. \A n \in 1 .. Len(a) : a[n] \in Held(a)
  BY DEF Held
<1>4. x < 0 => ~(x >= 0)
  OBVIOUS
<1> HIDE DEF t
<1>5. ASSUME \A j, k \in 1 .. Len(a) : a[j] >= 0 /\ a[k] >= 0 => j = k,
             x < 0 \/ \A y \in Held(a) : ~(y >= 0)
      PROVE  \A j, k \in 1 .. Len(t) : t[j] >= 0 /\ t[k] >= 0 => j = k
  BY <1>1, <1>2, <1>3, <1>4, <1>5
<1> QED BY <1>1, <1>5 DEF t

LEMMA AskTaken ==
  ASSUME NEW a \in Seq(Int), a # << >>,
         \A j, k \in 1 .. Len(a) : a[j] >= 0 /\ a[k] >= 0 => j = k
  PROVE  /\ \A j, k \in 1 .. Len(Tail(a)) : Tail(a)[j] >= 0 /\ Tail(a)[k] >= 0 => j = k
         /\ Head(a) >= 0 => \A x \in Held(Tail(a)) : ~(x >= 0)
         /\ Held(a) = {Head(a)} \union Held(Tail(a)) /\ Head(a) \in Int
<1>1. /\ Head(a) = a[1] /\ Len(a) \in Nat \ {0} /\ Len(Tail(a)) = Len(a) - 1 /\ Held(a) = {Head(a)} \union Held(Tail(a))
      /\ \A n \in 1 .. Len(Tail(a)) : n + 1 \in 1 .. Len(a) /\ Tail(a)[n] = a[n + 1]
  BY HeldHead
<1>2. ASSUME NEW j \in 1 .. Len(Tail(a)), NEW k \in 1 .. Len(Tail(a)), Tail(a)[j] >= 0, Tail(a)[k] >= 0
      PROVE  j = k
  <2>1. j + 1 \in 1 .. Len(a) /\ k + 1 \in 1 .. Len(a) /\ a[j + 1] >= 0 /\ a[k + 1] >= 0
    BY <1>1, <1>2
  <2>2. j + 1 = k + 1
    BY <2>1
  <2> QED BY <2>2
<1>3. ASSUME Head(a) >= 0, NEW x \in Held(Tail(a))
      PROVE  ~(x >= 0)
  <2>1. PICK k \in 1 .. Len(Tail(a)) : x = Tail(a)[k]
    BY DEF Held
  <2>2. k + 1 \in 1 .. Len(a) /\ a[k + 1] = x /\ 1 \in 1 .. Len(a) /\ k + 1 # 1
    BY <1>1, <2>1
  <2> QED BY <1>1, <1>3, <2>2
<1>4. Head(a) \in Int
  BY HeadTailProperties
<1> QED BY <1>1, <1>2, <1>3, <1>4

-----------------------------------------------------------------------------
(* What is announced, in turn.                                             *)

LEMMA TurnRead ==
  ASSUME NEW o \in Seq(Messages), o # << >>, NEW u, InTurn(o, u)
  PROVE  /\ InTurn(Tail(o), u)
         /\ Head(o).t # "entry" => Said(Tail(o)) = Said(o)
         /\ Head(o).t = "entry" =>
              /\ Said(o) = Said(Tail(o)) \union {Head(o).e}
              /\ \A x \in Said(Tail(o)) \union Held(u) : Head(o).e < x
<1>1. /\ Head(o) = o[1] /\ Len(o) \in Nat \ {0} /\ Len(Tail(o)) = Len(o) - 1 /\ Held(o) = {Head(o)} \union Held(Tail(o))
      /\ \A n \in 1 .. Len(Tail(o)) : n + 1 \in 1 .. Len(o) /\ Tail(o)[n] = o[n + 1]
  BY HeldHead
<1>2. /\ Head(o).t # "entry" => Said(Tail(o)) = Said(o)
      /\ Head(o).t = "entry" => Said(o) = Said(Tail(o)) \union {Head(o).e}
  BY <1>1 DEF Said
<1>3. ASSUME NEW j \in 1 .. Len(Tail(o)), NEW k \in 1 .. Len(Tail(o)), j < k, Tail(o)[j].t = "entry", Tail(o)[k].t = "entry"
      PROVE  Tail(o)[j].e < Tail(o)[k].e
  <2>1. j + 1 \in 1 .. Len(o) /\ k + 1 \in 1 .. Len(o) /\ j + 1 < k + 1
    BY <1>1, <1>3
  <2> QED BY <1>1, <1>3, <2>1 DEF InTurn
<1>4. \A x \in Said(Tail(o)), y \in Held(u) : x < y
  BY <1>2 DEF InTurn
<1>5. InTurn(Tail(o), u)
  BY <1>3, <1>4 DEF InTurn
<1>6. ASSUME Head(o).t = "entry", NEW x \in Said(Tail(o)) \union Held(u)
      PROVE  Head(o).e < x
  <2>1. CASE x \in Held(u)
    <3>1. Head(o).e \in Said(o)
      BY <1>2, <1>6
    <3> QED BY <2>1, <3>1 DEF InTurn
  <2>2. CASE x \in Said(Tail(o))
    <3>1. PICK k \in 1 .. Len(Tail(o)) : Tail(o)[k].t = "entry" /\ x = Tail(o)[k].e
      BY <2>2 DEF Said, Held
    <3>2. k + 1 \in 1 .. Len(o) /\ o[k + 1] = Tail(o)[k] /\ 1 \in 1 .. Len(o) /\ 1 < k + 1
      BY <1>1
    <3> QED BY <1>1, <1>6, <3>1, <3>2 DEF InTurn
  <2> QED BY <2>1, <2>2
<1> QED BY <1>2, <1>5, <1>6

LEMMA TurnSent ==
  ASSUME NEW o \in Seq(Messages), NEW m \in Messages, NEW u \in Seq(Nat), InTurn(o, u)
  PROVE  /\ m.t # "entry" => InTurn(Append(o, m), u) /\ Said(Append(o, m)) = Said(o)
         /\ m.t = "entry" /\ u # << >> /\ m.e = Head(u) =>
              /\ InTurn(Append(o, m), Tail(u))
              /\ Said(Append(o, m)) \union Held(Tail(u)) = Said(o) \union Held(u)
<1> DEFINE t == Append(o, m)
<1>1. /\ Len(t) = Len(o) + 1 /\ Len(o) \in Nat /\ t[Len(o) + 1] = m /\ Held(t) = Held(o) \union {m}
      /\ \A n \in 1 .. Len(o) : t[n] = o[n]
  BY AppendIs
<1>2. \A n \in 1 .. Len(t) : n \in 1 .. Len(o) \/ n = Len(o) + 1
  BY <1>1
<1> HIDE DEF t
<1>3. m.t # "entry" => Said(t) = Said(o)
  BY <1>1 DEF Said
<1>4. m.t = "entry" => Said(t) = Said(o) \union {m.e}
  BY <1>1 DEF Said
<1>5. ASSUME NEW j \in 1 .. Len(t), NEW k \in 1 .. Len(t), j < k, t[j].t = "entry", t[k].t = "entry",
             m.t = "entry" => \A x \in Said(o) : x < m.e
      PROVE  t[j].e < t[k].e
  <2>1. j \in 1 .. Len(o) /\ t[j] = o[j]
    BY <1>1, <1>2, <1>5
  <2>2. CASE k \in 1 .. Len(o)
    BY <1>1, <1>5, <2>1, <2>2 DEF InTurn
  <2>3. CASE k = Len(o) + 1
    <3>1. o[j].e \in Said(o)
      BY <1>5, <2>1 DEF Said, Held
    <3> QED BY <1>1, <1>5, <2>1, <2>3, <3>1
  <2> QED BY <1>2, <2>2, <2>3
<1>6. m.t # "entry" => InTurn(t, u)
  BY <1>3, <1>5 DEF InTurn
<1>7. ASSUME m.t = "entry", u # << >>, m.e = Head(u)
      PROVE  InTurn(t, Tail(u)) /\ Said(t) \union Held(Tail(u)) = Said(o) \union Held(u)
  <2>1. Head(u) \in Held(u) /\ Held(u) = {Head(u)} \union Held(Tail(u))
    BY <1>7, HeldHead
  <2>2. Increasing(Tail(u)) /\ \A x \in Held(Tail(u)) : Head(u) < x
    BY <1>7, IncreasingTail DEF InTurn
  <2>3. \A x \in Said(o) : x < m.e
    BY <1>7, <2>1 DEF InTurn
  <2>4. \A x \in Said(t), y \in Held(Tail(u)) : x < y
    BY <1>4, <1>7, <2>1, <2>2 DEF InTurn
  <2> QED BY <1>4, <1>5, <1>7, <2>1, <2>2, <2>3, <2>4 DEF InTurn
<1> QED BY <1>3, <1>6, <1>7 DEF t

LEMMA TurnMade ==
  ASSUME NEW o, NEW u \in Seq(Nat), NEW e \in Nat, InTurn(o, u), \A x \in Said(o) \union Held(u) : x < e
  PROVE  InTurn(o, Append(u, e))
<1>1. Increasing(Append(u, e))
  BY IncreasingAppend DEF InTurn
<1>2. Held(Append(u, e)) = Held(u) \union {e}
  BY AppendIs
<1> QED BY <1>1, <1>2 DEF InTurn

-----------------------------------------------------------------------------
(* Steps that move neither Pi nor what it wrote.                           *)

LEMMA ClaimFrom ==
  ASSUME RecorderTypeOK, phase' = "up" => phase = "up", missed => missed', client' \in {client, 0}, ends \subseteq ends',
         bound' = bound, used'.instances = used.instances,
         \A i \in Instances : st'[i] \in {"run", "gone"} => st[i] \in {"run", "gone"}
  PROVE  Claimed' => Claimed /\ client' = client
<1>1. client # 0 => client \in Instances
  BY InstancesAre DEF RecorderTypeOK, ConnectTyped
<1> SUFFICES ASSUME Claimed' PROVE Claimed /\ client' = client
  OBVIOUS
<1>2. client' = client /\ client # 0 /\ st'[client] \in {"run", "gone"} /\ client \notin ends' /\ phase' = "up" /\ ~missed'
      /\ (bound'.announces => used'.instances = 1)
  BY DEF Claimed, Running
<1> QED BY <1>1, <1>2 DEF Claimed, Running

LEMMA StillMoves ==
  ASSUME RecorderTypeOK, KnowledgeOK,
         UNCHANGED <<stored, todo, cursor, file, unsaid, st, asks, out, bound, due, context, named>>,
         used'.instances = used.instances, used'.entries = used.entries, used'.rewrites = used.rewrites,
         client' \in {client, 0}, reading'.inst \in {0, client, reading.inst}, Claimed' => Claimed
  PROVE  Moves
<1>1. Exchanges
  BY DEF Exchanges, Sent, Asked
<1>2. Within(due')
  BY DEF KnowledgeOK, NumbersOK
<1>3. used.instances = 0 => ~named'
  BY DEF KnowledgeOK, ProcessesOK
<1> QED BY <1>1, <1>2, <1>3 DEF Moves

LEMMA StillKeeps ==
  ASSUME RecorderTypeOK, RecorderTypeOK', KnowledgeOK,
         UNCHANGED <<stored, todo, cursor, file, unsaid, st, asks, out, bound, due, context, named, missed>>,
         used'.instances = used.instances, used'.entries = used.entries, used'.rewrites = used.rewrites,
         client' \in {client, 0}, reading'.inst \in {0, client, reading.inst},
         ends \subseteq ends', phase' = "up" => phase = "up"
  PROVE  KnowledgeOK' /\ (Claimed' => Claimed) /\ EntriesIn(stored)' = EntriesIn(stored) /\ Learnt' = Learnt
<1>1. Claimed' => Claimed
  BY ClaimFrom
<1>2. Moves
  BY <1>1, StillMoves
<1>3. Learnt' = Learnt
  BY DEF Learnt
<1> QED BY <1>1, <1>2, <1>3, MovesKeeps

LEMMA LaunchRefusedCatches ==
  ASSUME RecorderTypeOK, RecorderTypeOK', CatchUpInv, LaunchRefused
  PROVE  CatchUpInv'
<1>1. /\ UNCHANGED <<stored, todo, cursor, file, unsaid, st, asks, out, bound, due, context, named, missed, used, client,
                     reading, queue, phase, control>>
      /\ calling = "launch" /\ calling' = "no"
  BY DEF LaunchRefused, storeVars, indexVars, readVars, piVars, fileVars, ghostVars
<1>2. ends \subseteq ends'
  BY DEF LaunchRefused, GiveUp
<1>3. KnowledgeOK' /\ (Claimed' => Claimed) /\ EntriesIn(stored)' = EntriesIn(stored)
  BY <1>1, <1>2, StillKeeps DEF CatchUpInv
<1>4. CallsOK'
  BY <1>1, <1>3 DEF CatchUpInv, CallsOK, OneConnect
<1>5. ~Claimed'
  BY <1>1 DEF CatchUpInv, CallsOK, Claimed, Running
<1> QED BY <1>3, <1>4, <1>5, NotClaimed DEF CatchUpInv

LEMMA StateTimesOutCatches ==
  ASSUME RecorderTypeOK, RecorderTypeOK', CatchUpInv, StateTimesOut
  PROVE  CatchUpInv'
<1>1. /\ UNCHANGED <<stored, todo, cursor, file, unsaid, st, asks, out, bound, due, context, named, missed, used, client,
                     reading, queue, phase, control>>
      /\ calling = "state" /\ calling' = "ending" /\ ends \subseteq ends'
  BY DEF StateTimesOut, storeVars, indexVars, readVars, piVars, fileVars, ghostVars
<1>2. KnowledgeOK' /\ (Claimed' => Claimed) /\ EntriesIn(stored)' = EntriesIn(stored) /\ Learnt' = Learnt
  BY <1>1, StillKeeps DEF CatchUpInv
<1>3. CallsOK'
  BY <1>1, <1>2 DEF CatchUpInv, CallsOK, OneConnect
<1>4. Unnoticed
  BY <1>1, <1>2 DEF Unnoticed
<1> QED BY <1>2, <1>3, <1>4, UnnoticedKeeps DEF CatchUpInv

LEMMA StateFailsCatches ==
  ASSUME RecorderTypeOK, RecorderTypeOK', CatchUpInv, StateFails
  PROVE  CatchUpInv'
<1>1. /\ UNCHANGED <<stored, todo, cursor, file, unsaid, st, asks, out, bound, due, context, named, missed, used,
                     reading, queue, phase, control>>
      /\ calling # "reading" /\ calling' = "no" /\ client' = 0
  BY DEF StateFails, storeVars, indexVars, readVars, piVars, fileVars, ghostVars
<1>2. ends \subseteq ends'
  BY DEF StateFails, GiveUp
<1>3. KnowledgeOK' /\ EntriesIn(stored)' = EntriesIn(stored)
  BY <1>1, <1>2, StillKeeps DEF CatchUpInv
<1>4. CallsOK'
  BY <1>1, <1>3 DEF CatchUpInv, CallsOK, OneConnect
<1>5. ~Claimed'
  BY <1>1 DEF Claimed, Running
<1> QED BY <1>3, <1>4, <1>5, NotClaimed DEF CatchUpInv

LEMMA ReconnectCatches ==
  ASSUME RecorderTypeOK, RecorderTypeOK', CatchUpInv, Reconnect
  PROVE  CatchUpInv'
<1>1. /\ UNCHANGED <<stored, todo, cursor, file, unsaid, st, asks, out, bound, due, context, named, missed, used,
                     reading, queue, phase, ends, control>>
      /\ calling = "no" /\ calling' = "launch" /\ client' = 0 /\ phase = "up"
  BY DEF Reconnect, storeVars, indexVars, readVars, piVars, fileVars, ghostVars, endVars
<1>3. KnowledgeOK' /\ EntriesIn(stored)' = EntriesIn(stored)
  BY <1>1, StillKeeps DEF CatchUpInv
<1>4. CallsOK'
  BY <1>1, <1>3 DEF CatchUpInv, CallsOK, OneConnect
<1>5. ~Claimed'
  BY <1>1 DEF Claimed, Running
<1> QED BY <1>3, <1>4, <1>5, NotClaimed DEF CatchUpInv

LEMMA EndsCatch ==
  ASSUME RecorderTypeOK, RecorderTypeOK', CatchUpInv, Terminate \/ Ended \/ Shut
  PROVE  CatchUpInv'
<1>1. /\ UNCHANGED <<stored, todo, cursor, file, unsaid, st, asks, out, bound, due, context, named, missed, used, client,
                     reading, queue, calling, control>>
      /\ ends \subseteq ends'
  BY DEF Terminate, Ended, Shut, storeVars, indexVars, readVars, piVars, fileVars, ghostVars, connectVars
<1>2. (phase' = phase \/ phase' = "shut") /\ (phase' = "up" => phase = "up")
  BY DEF Terminate, Ended, Shut
<1>3. KnowledgeOK' /\ (Claimed' => Claimed) /\ EntriesIn(stored)' = EntriesIn(stored) /\ Learnt' = Learnt
  BY <1>1, <1>2, StillKeeps DEF CatchUpInv
<1>4. CallsOK'
  BY <1>1, <1>2, <1>3 DEF CatchUpInv, CallsOK, OneConnect
<1>5. Unnoticed
  BY <1>1, <1>3 DEF Unnoticed
<1> QED BY <1>3, <1>4, <1>5, UnnoticedKeeps DEF CatchUpInv

-----------------------------------------------------------------------------
(* One more catch-up in the queue.                                         *)

(* Whoever is served after the catch-up under way reads what is owed.      *)
LEMMA ComingQueued ==
  ASSUME RecorderTypeOK, NEW x \in {"connect", "event", "close"}, NEW i, queue' = Append(queue, x), reading' = reading
  PROVE  ComingFor(i)'
<1>1. queue \in Seq({"connect", "event", "close"}) /\ (reading # NoRead => queue # << >>)
  BY DEF RecorderTypeOK, ReadTyped
<1>2. Len(queue') = Len(queue) + 1 /\ Len(queue) \in Nat /\ queue' # << >>
  BY <1>1, AppendIs
<1>3. CASE queue = << >>
  BY <1>1, <1>2, <1>3 DEF ComingFor
<1>4. CASE queue # << >>
  <2>1. Len(queue) # 0
    BY <1>1, <1>4
  <2> QED BY <1>2, <2>1 DEF ComingFor
<1> QED BY <1>3, <1>4

LEMMA CloseSessionCatches ==
  ASSUME RecorderTypeOK, RecorderTypeOK', CatchUpInv, CloseSession
  PROVE  CatchUpInv'
<1>1. /\ UNCHANGED <<stored, todo, cursor, file, unsaid, st, asks, out, bound, due, context, named, missed, used, client,
                     reading, calling, phase, ends, control>>
      /\ queue' = Append(queue, "close") /\ calling = "no"
  BY DEF CloseSession, storeVars, indexVars, piVars, fileVars, ghostVars, connectVars
<1>2. KnowledgeOK' /\ (Claimed' => Claimed) /\ EntriesIn(stored)' = EntriesIn(stored) /\ Learnt' = Learnt
  BY <1>1, StillKeeps DEF CatchUpInv
<1>3. OneConnect(queue', calling')
  <2>1. queue \in Seq({"connect", "event", "close"}) /\ OneConnect(queue, calling)
    BY DEF RecorderTypeOK, ReadTyped, CatchUpInv, CallsOK
  <2> QED BY <1>1, <2>1, QueueAppend
<1>4. CallsOK'
  BY <1>1, <1>2, <1>3 DEF CatchUpInv, CallsOK
<1>5. ClaimOK'
  <2> SUFFICES ASSUME NEW i \in Instances, Claimed', i = client'
               PROVE  ClaimFor(i)'
    BY DEF ClaimOK
  <2>1. ClaimFor(i)
    BY <1>1, <1>2 DEF CatchUpInv, ClaimOK
  <2>2. ComingFor(i)'
    BY <1>1, ComingQueued
  <2>3. OneAnswerFor(i)'
    BY <1>1, <2>1 DEF ClaimFor, OneAnswerFor
  <2>4. FirstFor(i)'
    BY <1>1 DEF FirstFor
  <2>5. ToldFor(i) => ToldFor(i)'
    <3>1. Sent(i)' = Sent(i) /\ ToCome(i)' = ToCome(i)
      BY <1>1 DEF Sent, ToCome
    <3>2. ToldFor(i) => InTurn(out'[i], unsaid')
      BY <1>1 DEF ToldFor
    <3> QED BY <1>1, <1>2, <3>1, <3>2, ToldStays
  <2> QED BY <1>1, <2>1, <2>2, <2>3, <2>4, <2>5 DEF ClaimFor
<1> QED BY <1>2, <1>4, <1>5 DEF CatchUpInv

-----------------------------------------------------------------------------
(* Catch-ups that end without an answer.                                   *)

(* Of a client the claim is about, when Pi announces there is no other.    *)
LEMMA OnlyOne ==
  ASSUME RecorderTypeOK, Claimed, bound.announces, NEW j \in Instances, j <= used.instances, client <= used.instances
  PROVE  j = client
<1>1. client \in Instances /\ used.instances = 1
  BY InstancesAre DEF RecorderTypeOK, ConnectTyped, Claimed, Running
<1>2. \A n \in Instances : n \in Nat /\ n # 0
  BY InstancesAre
<1> QED BY <1>1, <1>2

LEMMA NoAnswer ==
  ASSUME NEW o, NEW a, NEW its, OneAnswer(o, a, its), ~its
  PROVE  /\ \A m \in Held(o) : ~IsAnswer(m) /\ m.t # "page"
         /\ \A x \in Held(a) : ~(x >= 0)
         /\ \A any : OneAnswer(o, a, any)
BY DEF OneAnswer, IsAnswer

LEMMA CallsAfterRead ==
  ASSUME RecorderTypeOK, CallsOK, queue # << >>, NEW ok, ReadDone(ok),
         UNCHANGED <<named, client, context, phase, control, cursor>>, EntriesIn(stored)' = EntriesIn(stored)
  PROVE  /\ CallsOK'
         /\ queue' = Tail(queue) /\ reading' = NoRead /\ ends \subseteq ends' /\ missed' = (missed \/ ~ok)
         /\ Head(queue) = "connect" => calling = "reading" /\ calling' = "no"
         /\ Head(queue) # "connect" => calling' = calling
<1>1. /\ queue' = Tail(queue) /\ reading' = NoRead /\ missed' = (missed \/ ~ok)
      /\ calling' = IF Head(queue) = "connect" THEN "no" ELSE calling
  BY DEF ReadDone
<1>2. ends \subseteq ends'
  <2>1. CASE Head(queue) = "connect" /\ ~ok
    <3>1. GiveUp
      BY <2>1 DEF ReadDone
    <3> QED BY <3>1 DEF GiveUp
  <2>2. CASE Head(queue) = "close"
    BY <2>2 DEF ReadDone
  <2>3. CASE ~(Head(queue) = "connect" /\ ~ok) /\ Head(queue) # "close"
    BY <2>3 DEF ReadDone
  <2> QED BY <2>1, <2>2, <2>3
<1>3. queue \in Seq({"connect", "event", "close"}) /\ OneConnect(queue, calling)
  BY DEF RecorderTypeOK, ReadTyped, CallsOK
<1>4. OneConnect(queue', calling')
  BY <1>1, <1>3, QueueTail
<1>5. Head(queue) = "connect" => calling = "reading"
  <2>1. Head(queue) = queue[1] /\ Len(queue) \in Nat \ {0}
    BY <1>3, HeldHead
  <2>2. 1 \in 1 .. Len(queue)
    BY <2>1
  <2> QED BY <1>3, <2>1, <2>2 DEF OneConnect
<1>6. CallsOK'
  BY <1>1, <1>4, <1>5 DEF CallsOK
<1> QED BY <1>1, <1>2, <1>5, <1>6

(* Whoever waits behind the catch-up that ended reads what is owed.        *)
LEMMA ComingNext ==
  ASSUME RecorderTypeOK, NEW i, ComingFor(i), queue # << >>, reading # NoRead, reading.inst # i,
         queue' = Tail(queue), reading' = NoRead, Owed \cap Learnt \subseteq Learnt', Owed' = Owed
  PROVE  ComingFor(i)'
<1>1. queue \in Seq({"connect", "event", "close"})
  BY DEF RecorderTypeOK, ReadTyped
<1>2. Owed \subseteq Learnt \/ Len(queue) >= 2
  BY DEF ComingFor
<1>3. Len(Tail(queue)) = Len(queue) - 1 /\ Tail(queue) \in Seq({"connect", "event", "close"}) /\ Len(queue) \in Nat
  BY <1>1, HeldHead
<1>4. CASE Owed \subseteq Learnt
  BY <1>4 DEF ComingFor
<1>5. CASE Len(queue) >= 2
  <2>1. Len(queue') # 0
    BY <1>3, <1>5
  <2>2. queue' # << >>
    BY <2>1, EmptySeq
  <2> QED BY <2>2 DEF ComingFor
<1> QED BY <1>2, <1>4, <1>5

LEMMA SkipReadCatches ==
  ASSUME RecorderTypeOK, RecorderTypeOK', CatchUpInv, SkipRead
  PROVE  CatchUpInv'
<1>1. /\ UNCHANGED <<stored, todo, cursor, file, unsaid, st, asks, out, bound, due, context, named, used, client, phase,
                     control>>
      /\ queue # << >> /\ reading = NoRead /\ ~(named /\ Running(client)) /\ ReadDone(TRUE)
  BY DEF SkipRead, Readable, storeVars, indexVars, piVars, fileVars
<1>2. /\ CallsOK'
      /\ queue' = Tail(queue) /\ reading' = NoRead /\ ends \subseteq ends' /\ missed' = (missed \/ ~TRUE)
      /\ Head(queue) = "connect" => calling = "reading" /\ calling' = "no"
      /\ Head(queue) # "connect" => calling' = calling
  BY <1>1, CallsAfterRead DEF CatchUpInv
<1>3. missed' = missed
  BY <1>2 DEF RecorderTypeOK, GhostTyped
<1>4. KnowledgeOK' /\ (Claimed' => Claimed) /\ Learnt' = Learnt
  BY <1>1, <1>2, <1>3, StillKeeps DEF CatchUpInv
<1>5. ClaimOK'
  <2> SUFFICES ASSUME NEW i \in Instances, Claimed', i = client'
               PROVE  ClaimFor(i)'
    BY DEF ClaimOK
  <2>1. ClaimFor(i) /\ Claimed /\ i = client
    BY <1>1, <1>4 DEF CatchUpInv, ClaimOK
  <2>2. calling \notin {"no", "reading"} /\ calling' = calling
    BY <1>1, <1>2, <2>1 DEF CatchUpInv, CallsOK, Claimed, Running
  <2>3. OneAnswerFor(i)'
    BY <1>1, <1>2, <2>1 DEF ClaimFor, OneAnswerFor
  <2>4. FirstFor(i) => FirstFor(i)'
    BY <1>1, <1>4, <2>2 DEF FirstFor
  <2>5. ToldFor(i) => ToldFor(i)'
    <3>1. Sent(i)' = Sent(i) /\ ToCome(i)' = ToCome(i)
      BY <1>1 DEF Sent, ToCome
    <3>2. ToldFor(i) => InTurn(out'[i], unsaid')
      BY <1>1 DEF ToldFor
    <3> QED BY <1>1, <1>4, <2>2, <3>1, <3>2, ToldStays
  <2> QED BY <1>1, <2>1, <2>2, <2>3, <2>4, <2>5 DEF ClaimFor
<1> QED BY <1>2, <1>4, <1>5 DEF CatchUpInv

LEMMA ReadLostCatches ==
  ASSUME RecorderTypeOK, RecorderTypeOK', CatchUpInv, ReadLost
  PROVE  CatchUpInv'
<1>1. /\ UNCHANGED <<stored, todo, cursor, file, unsaid, st, asks, out, bound, due, context, named, used, client, phase,
                     control>>
      /\ reading # NoRead /\ (st[reading.inst] \in {"reported", "drained"} \/ reading.again)
      /\ ReadDone(~reading.again)
  BY DEF ReadLost, storeVars, indexVars, piVars, fileVars
<1>2. reading # NoRead /\ queue # << >> /\ reading.inst \in Instances /\ reading.again \in BOOLEAN
  BY <1>1 DEF RecorderTypeOK, ReadTyped
<1>3. /\ CallsOK'
      /\ queue' = Tail(queue) /\ reading' = NoRead /\ ends \subseteq ends' /\ missed' = (missed \/ ~~reading.again)
      /\ Head(queue) = "connect" => calling = "reading" /\ calling' = "no"
      /\ Head(queue) # "connect" => calling' = calling
  BY <1>1, <1>2, CallsAfterRead DEF CatchUpInv
<1>4. missed => missed'
  BY <1>3
<1>5. Claimed' => Claimed /\ client' = client
  BY <1>1, <1>3, <1>4, ClaimFrom
<1>6. Moves
  BY <1>1, <1>3, <1>5, StillMoves DEF CatchUpInv, NoRead
<1>7. KnowledgeOK' /\ Learnt' = Learnt
  BY <1>1, <1>6, MovesKeeps DEF CatchUpInv, Learnt
<1>8. ClaimOK'
  <2> SUFFICES ASSUME NEW i \in Instances, Claimed', i = client'
               PROVE  ClaimFor(i)'
    BY DEF ClaimOK
  <2>1. ClaimFor(i) /\ Claimed /\ i = client
    BY <1>1, <1>5 DEF CatchUpInv, ClaimOK
  <2>2. reading.inst # i
    BY <1>1, <1>3, <2>1 DEF Claimed, Running
  <2>3. OneAnswerFor(i)'
    <3>1. NoRead.inst # i
      BY InstancesAre DEF NoRead
    <3> QED BY <1>1, <1>3, <2>1, <2>2, <3>1 DEF ClaimFor, OneAnswerFor
  <2>4. calling' \in {"no", "reading"} => ComingFor(i)'
    <3>1. Owed' = Owed
      BY <1>1 DEF Owed
    <3>2. calling' \in {"no", "reading"} => calling \in {"no", "reading"}
      BY <1>3
    <3> QED BY <1>2, <1>3, <1>7, <2>1, <2>2, <3>1, <3>2, ComingNext DEF ClaimFor
  <2>5. ~bound.announces
    <3>1. client <= used.instances /\ reading.inst <= used.instances
      BY DEF CatchUpInv, KnowledgeOK, ProcessesOK
    <3> QED BY <1>2, <2>1, <2>2, <3>1, OnlyOne
  <2> QED BY <1>1, <2>3, <2>4, <2>5 DEF ClaimFor
<1> QED BY <1>3, <1>7, <1>8 DEF CatchUpInv

LEMMA ReadFailsCatches ==
  ASSUME RecorderTypeOK, RecorderTypeOK', CatchUpInv, ReadFails
  PROVE  CatchUpInv'
<1> DEFINE r == reading.inst
           A == {n \in DOMAIN asks[r] : asks[r][n] < 0}
           O == {n \in DOMAIN out[r] : out[r][n].t \notin {"page", "unknown"}}
<1>1. /\ UNCHANGED <<stored, todo, cursor, file, unsaid, st, bound, due, context, named, used, client, phase, control>>
      /\ reading # NoRead /\ ReadDone(FALSE)
      /\ asks' = [asks EXCEPT ![r] = Selected(asks[r], A)] /\ out' = [out EXCEPT ![r] = Selected(out[r], O)]
  BY DEF ReadFails, storeVars, indexVars, fileVars
<1>2. queue # << >> /\ r \in Instances
  BY <1>1 DEF RecorderTypeOK, ReadTyped
<1> HIDE DEF A, O
<1>3. /\ CallsOK' /\ reading' = NoRead /\ missed' = (missed \/ ~FALSE)
  BY <1>1, <1>2, CallsAfterRead DEF CatchUpInv
<1>4. ~Claimed'
  BY <1>3 DEF Claimed
<1>5. Exchanges
  <2>1. asks[r] \in Seq(Int) /\ out[r] \in Seq(Messages)
    BY <1>2 DEF RecorderTypeOK, PiTyped
  <2>2. Held(Selected(asks[r], A)) = {asks[r][i] : i \in A \cap (1 .. Len(asks[r]))}
    BY <2>1, HeldSelected
  <2>3. Held(Selected(out[r], O)) = {out[r][i] : i \in O \cap (1 .. Len(out[r]))}
    BY <2>1, HeldSelected
  <2>4. Held(Selected(asks[r], A)) \subseteq Held(asks[r]) /\ Held(Selected(out[r], O)) \subseteq Held(out[r])
    BY <2>2, <2>3 DEF Held
  <2>5. \A i \in Instances : Sent(i)' \subseteq Sent(i) /\ Asked(i)' \subseteq Asked(i)
    BY <1>1, <1>2, <2>4 DEF Sent, Asked, RecorderTypeOK, PiTyped
  <2> QED BY <1>1, <2>5 DEF Exchanges
<1>6. Moves
  <2>1. Within(due') /\ (used.instances = 0 => ~named')
    BY <1>1 DEF CatchUpInv, KnowledgeOK, NumbersOK, ProcessesOK, Within
  <2> QED BY <1>1, <1>3, <1>4, <1>5, <2>1 DEF Moves, NoRead
<1>7. KnowledgeOK'
  BY <1>6, MovesKeeps DEF CatchUpInv
<1> QED BY <1>3, <1>4, <1>7, NotClaimed DEF CatchUpInv

-----------------------------------------------------------------------------
(* A catch-up that asks.                                                   *)

(* One more request to a process that runs, or none.                       *)
LEMMA AskedMore ==
  ASSUME RecorderTypeOK, NEW i \in Instances, st[i] # "none", NEW x \in Int, AskFits(x)', UNCHANGED <<st, out>>,
         asks' = IF st[i] = "gone" THEN asks ELSE [asks EXCEPT ![i] = Append(@, x)]
  PROVE  Exchanges /\ asks'[i] \in {asks[i], Append(asks[i], x)} /\ \A j \in Instances : j # i => asks'[j] = asks[j]
<1>1. asks[i] \in Seq(Int) /\ asks \in [Instances -> Seq(Int)]
  BY DEF RecorderTypeOK, PiTyped
<1>2. asks'[i] \in {asks[i], Append(asks[i], x)} /\ \A j \in Instances : j # i => asks'[j] = asks[j]
  BY <1>1
<1>3. Held(Append(asks[i], x)) = Held(asks[i]) \union {x}
  BY <1>1, AppendIs
<1>4. \A j \in Instances : \A a \in Asked(j)' : a \in Asked(j) \/ (j = i /\ a = x)
  BY <1>2, <1>3 DEF Asked
<1>5. \A j \in Instances : Sent(j)' = Sent(j)
  BY DEF Sent
<1>6. Exchanges
  BY <1>4, <1>5 DEF Exchanges
<1> QED BY <1>2, <1>6

LEMMA StartReadCatches ==
  ASSUME RecorderTypeOK, RecorderTypeOK', CatchUpInv, StartRead
  PROVE  CatchUpInv'
<1>0. PICK c \in Instances : c = client
  BY InstancesAre DEF StartRead, Running, RecorderTypeOK, ConnectTyped
<1>1. /\ UNCHANGED <<stored, todo, cursor, file, unsaid, st, out, bound, due, missed, context, named, used, client, phase,
                     control, calling, queue, ends>>
      /\ queue # << >> /\ reading = NoRead /\ named /\ Running(c) /\ todo = << >> /\ phase # "down"
      /\ reading'.inst = c
      /\ asks' = IF st[c] = "gone" THEN asks ELSE [asks EXCEPT ![c] = Append(@, cursor)]
  BY <1>0 DEF StartRead, Readable, Asks, storeVars, indexVars, fileVars, connectVars, endVars, ghostVars
<1>2. c \in Instances /\ c # 0 /\ st[c] # "none"
  BY <1>1, InstancesAre DEF Running
<1>3. Claimed' <=> Claimed
  BY <1>1 DEF Claimed, Running
<1>4. Learnt' = Learnt /\ Latest' = Latest /\ Held(file)' = Held(file) /\ EntriesIn(stored)' = EntriesIn(stored)
  BY <1>1 DEF Learnt, Latest
<1>5. Claimed => ClaimFor(c)
  BY <1>0 DEF CatchUpInv, ClaimOK
<1>6. Claimed => (\A m \in Sent(c) : ~IsAnswer(m) /\ m.t # "page") /\ \A x \in Asked(c) : ~(x >= 0)
  <2>1. reading.inst # c
    BY <1>1, <1>2 DEF NoRead
  <2>2. Claimed => OneAnswer(out[c], asks[c], reading.inst = c)
    BY <1>5 DEF ClaimFor, OneAnswerFor
  <2> QED BY <2>1, <2>2, NoAnswer DEF Sent, Asked
<1>7. /\ cursor \in EntriesIn(stored) \union {0} /\ cursor \in Nat /\ EntriesIn(stored) \subseteq Learnt
      /\ Within(Learnt) /\ Within(Held(file)) /\ Latest \in Nat
  BY LatestTyped DEF RecorderTypeOK, StoreTyped, CatchUpInv, CallsOK, Learnt, KnowledgeOK, NumbersOK
<1>8. AskFits(cursor)'
  <2>1. cursor \in -2 .. Latest
    BY <1>7 DEF Within
  <2>2. ASSUME ~bound.announces \/ Claimed, NEW x \in Held(file), x <= cursor
        PROVE  x \in Learnt
    <3>1. x \in Nat /\ x > 0 /\ (x = cursor \/ x < cursor)
      BY <1>7, <2>2 DEF Within
    <3>2. CASE cursor = 0
      BY <3>1, <3>2
    <3>3. CASE x = cursor /\ cursor # 0
      BY <1>7, <3>3
    <3>4. CASE x < cursor /\ cursor # 0 /\ ~bound.announces
      BY <1>7, <3>4 DEF CatchUpInv, KnowledgeOK, OrderOK
    <3>5. CASE x < cursor /\ cursor # 0 /\ bound.announces
      <4>1. Claimed /\ cursor \in Learnt
        BY <1>7, <2>2, <3>5
      <4>2. FirstFor(c) /\ ToldFor(c)
        BY <1>5, <3>5, <4>1 DEF ClaimFor
      <4>3. calling = "no"
        BY <1>0, <1>1, <1>2, <4>1, <4>2 DEF FirstFor, CatchUpInv, CallsOK, RecorderTypeOK, ConnectTyped
      <4>4. Found(c, x)
        BY <3>5, <4>1, <4>2, <4>3 DEF ToldFor, Follows
      <4> QED BY <1>6, <4>1, <4>4 DEF Found
    <3> QED BY <3>1, <3>2, <3>3, <3>4, <3>5
  <2>3. ~bound.announces \/ Claimed => AskCovers(cursor)'
    BY <1>1, <1>4, <2>2 DEF AskCovers
  <2> QED BY <1>1, <1>3, <1>4, <2>1, <2>3 DEF AskFits
<1>9. Exchanges /\ asks'[c] \in {asks[c], Append(asks[c], cursor)}
  <2>1. PICK x \in Nat : x = cursor
    BY <1>7
  <2>2. AskFits(x)'
    BY <1>1, <1>8, <2>1 DEF AskFits, AskCovers
  <2>3. asks' = IF st[c] = "gone" THEN asks ELSE [asks EXCEPT ![c] = Append(@, x)]
    BY <1>1, <2>1
  <2> QED BY <1>1, <1>2, <2>1, <2>2, <2>3, AskedMore
<1>10. KnowledgeOK'
  <2>1. Within(due') /\ (used.instances = 0 => ~named')
    BY <1>1 DEF CatchUpInv, KnowledgeOK, NumbersOK, ProcessesOK, Within
  <2>2. Moves
    BY <1>1, <1>3, <1>9, <2>1, <1>0 DEF Moves
  <2> QED BY <2>2, MovesKeeps DEF CatchUpInv
<1>11. CallsOK'
  BY <1>1, <1>4 DEF CatchUpInv, CallsOK, OneConnect
<1>12. ClaimOK'
  <2> SUFFICES ASSUME Claimed PROVE ClaimFor(c)'
    BY <1>0, <1>1, <1>3 DEF ClaimOK
  <2>1. ClaimFor(c)
    BY <1>5
  <2>2. OneAnswerFor(c)'
    <3>1. asks[c] \in Seq(Int) /\ cursor \in Int
      BY <1>2, <1>7 DEF RecorderTypeOK, PiTyped
    <3>2. /\ OneAnswer(out[c], asks[c], reading.inst = c)
          /\ (\A m \in Held(out[c]) : ~IsAnswer(m)) /\ \A y \in Held(asks[c]) : ~(y >= 0)
      BY <1>6, <2>1 DEF ClaimFor, OneAnswerFor, Sent, Asked
    <3>3. \A j, k \in 1 .. Len(Append(asks[c], cursor)) :
             Append(asks[c], cursor)[j] >= 0 /\ Append(asks[c], cursor)[k] >= 0 => j = k
      BY <3>1, <3>2, AnotherAsk DEF OneAnswer
    <3>4. OneAnswer(out[c], asks'[c], TRUE)
      BY <1>9, <3>2, <3>3 DEF OneAnswer
    <3> QED BY <1>1, <3>4 DEF OneAnswerFor
  <2>3. Sent(c)' = Sent(c) /\ ToCome(c)' = ToCome(c)
    BY <1>1 DEF Sent, ToCome
  <2>4. ComingFor(c)'
    BY <1>1, <1>6, <2>3 DEF ComingFor
  <2>5. FirstFor(c) => FirstFor(c)'
    <3>1. reading'.inst # 0
      BY <1>1, <1>2
    <3>2. reading' # NoRead
      BY <3>1 DEF NoRead
    <3> QED BY <1>1, <1>4, <3>2 DEF FirstFor
  <2>6. ToldFor(c) => ToldFor(c)'
    <3>1. ToldFor(c) => InTurn(out'[c], unsaid')
      BY <1>1 DEF ToldFor
    <3> QED BY <1>1, <1>4, <2>3, <3>1, ToldStays
  <2> QED BY <1>1, <2>1, <2>2, <2>4, <2>5, <2>6 DEF ClaimFor
<1> QED BY <1>10, <1>11, <1>12 DEF CatchUpInv

-----------------------------------------------------------------------------
(* What is recorded that is no entry.                                      *)

Notes(s) == s \in Seq(Recordings) /\ \A n \in 1 .. Len(s) : s[n].k # "entry" /\ s[n].id[1] # 0

LEMMA NotesAre ==
  ASSUME context \in Nat, context # 0, lives \in Nat
  PROVE  /\ \A n \in Nat : \A v \in Stops : \A k \in {"control", "prompt"} : Notes(<< Live(n, k, v) >>)
         /\ \A n \in Nat : \A k \in {"store-opened", "attached", "catch-up"} : Notes(<< Live(n, k, "none") >>)
         /\ \A n \in Nat : \A v \in {"expected", "unexpected"} : Notes(<< Live(n, "exited", v) >>)
         /\ \A n \in Nat : \A k \in LiveKinds : \A v \in Reasons : Notes(<< Live(n, k, v) >>)
         /\ \A n, e \in Nat : Notes(<< LeafAt(n, e) >>)
         /\ Notes(<< >>)
<1>1. ASSUME NEW x, << x >> \in Seq(Recordings), x.k # "entry", x.id[1] # 0
      PROVE  Notes(<< x >>)
  BY <1>1 DEF Notes
<1>2. \A n \in Nat : \A k, v : Live(n, k, v).k = k /\ Live(n, k, v).id[1] # 0
  BY DEF Live
<1>3. \A n, e \in Nat : LeafAt(n, e).k = "leaf" /\ LeafAt(n, e).id[1] # 0
  BY DEF LeafAt
<1>4. \A k \in LiveKinds \union {"control", "prompt", "store-opened", "attached", "catch-up", "exited", "leaf"} : k # "entry"
  BY DEF LiveKinds
<1>5. \A n \in Nat : \A v \in Stops : \A k \in {"control", "prompt"} : Notes(<< Live(n, k, v) >>)
  BY <1>1, <1>2, <1>4, Recordable
<1>6. \A n \in Nat : \A k \in {"store-opened", "attached", "catch-up"} : Notes(<< Live(n, k, "none") >>)
  BY <1>1, <1>2, <1>4, Recordable
<1>7. \A n \in Nat : \A v \in {"expected", "unexpected"} : Notes(<< Live(n, "exited", v) >>)
  BY <1>1, <1>2, <1>4, Recordable
<1>8. \A n \in Nat : \A k \in LiveKinds : \A v \in Reasons : Notes(<< Live(n, k, v) >>)
  BY <1>1, <1>2, <1>4, Recordable
<1>9. \A n, e \in Nat : Notes(<< LeafAt(n, e) >>)
  BY <1>1, <1>3, <1>4, Recordable
<1>10. Notes(<< >>)
  BY EmptySeq DEF Notes
<1> QED BY <1>5, <1>6, <1>7, <1>8, <1>9, <1>10

LEMMA NotesJoin ==
  ASSUME NEW s, NEW t, Notes(s), Notes(t)
  PROVE  Notes(s \o t)
<1> DEFINE u == s \o t
<1>1. s \in Seq(Recordings) /\ t \in Seq(Recordings)
  BY DEF Notes
<1>2. /\ Len(s) \in Nat /\ Len(t) \in Nat /\ u \in Seq(Recordings) /\ Len(u) = Len(s) + Len(t)
      /\ \A n \in 1 .. Len(u) : u[n] = IF n <= Len(s) THEN s[n] ELSE t[n - Len(s)]
  BY <1>1, ConcatProperties
<1> HIDE DEF u
<1>3. ASSUME NEW n \in 1 .. Len(u)
      PROVE  u[n].k # "entry" /\ u[n].id[1] # 0
  <2>1. CASE n <= Len(s)
    BY <1>2, <2>1 DEF Notes
  <2>2. CASE ~(n <= Len(s))
    <3>1. n - Len(s) \in 1 .. Len(t) /\ u[n] = t[n - Len(s)]
      BY <1>2, <2>2
    <3> QED BY <3>1 DEF Notes
  <2> QED BY <2>1, <2>2
<1>4. Notes(u)
  BY <1>2, <1>3 DEF Notes
<1> QED BY <1>4 DEF u

LEMMA NotesFit ==
  ASSUME NEW s, Notes(s)
  PROVE  EntriesIn(s) = {} /\ TodoOK(s)
<1>1. s \in Seq(Recordings)
  BY DEF Notes
<1>2. EntriesIn(s) = {}
  BY <1>1, EntriesAre DEF Notes
<1>3. KindsIn(s) /\ Ordering(s)
  BY DEF Notes, KindsIn, Ordering
<1> QED BY <1>2, <1>3 DEF TodoOK, Within

LEMMA RecordsNotes ==
  ASSUME RecorderTypeOK, todo = << >>, NEW s, Notes(s), Record(s)
  PROVE  /\ UNCHANGED <<stored, cursor>> /\ (todo' = todo \/ (todo = << >> /\ TodoOK(todo')))
         /\ Learnt' = Learnt /\ EntriesIn(stored)' = EntriesIn(stored)
<1>1. << >> \o s = s
  BY ConcatEmptySeq DEF Notes
<1>2. UNCHANGED <<stored, cursor>> /\ (todo' = todo \/ todo' = s)
  BY <1>1 DEF Record
<1>3. EntriesIn(s) = {} /\ TodoOK(s) /\ EntriesIn(<< >>) = {}
  BY NotesFit, EntriesNone
<1>4. EntriesIn(todo') = {} /\ EntriesIn(todo) = {}
  BY <1>2, <1>3
<1>5. Learnt' = Learnt
  BY <1>2, <1>4 DEF Learnt
<1> QED BY <1>2, <1>3, <1>5

(* A context that has a process is one.                                    *)
LEMMA ContextIs ==
  ASSUME RecorderTypeOK, ProcessesOK, NEW i \in Instances, st[i] # "none"
  PROVE  context \in Nat /\ context # 0 /\ lives \in Nat /\ i <= used.instances /\ used.instances # 0
<1>1. context \in Nat /\ lives \in Nat
  BY Numbered
<1>2. context # 0
  BY DEF ProcessesOK
<1>3. i \in Nat /\ i # 0 /\ used.instances \in Nat
  BY InstancesAre DEF RecorderTypeOK, BoundTyped, Counted
<1>4. ~(i > used.instances)
  BY DEF ProcessesOK
<1> QED BY <1>1, <1>2, <1>3, <1>4

(* A step that records notes, sends and asks.                              *)
LEMMA NotesMove ==
  ASSUME RecorderTypeOK, KnowledgeOK, UNCHANGED <<file, bound, context, named, stored, cursor>>,
         used'.instances = used.instances, used'.entries = used.entries, used'.rewrites = used.rewrites,
         Held(unsaid') \subseteq Held(unsaid), Within(due'),
         todo' = todo \/ (todo = << >> /\ TodoOK(todo')),
         client' \in {client, 0}, reading'.inst \in {0, client, reading.inst},
         Exchanges, Claimed' => Claimed
  PROVE  Moves
BY DEF Moves, KnowledgeOK, ProcessesOK

LEMMA SaysNotes ==
  ASSUME context \in Nat, context # 0, lives \in Nat, NEW action, NEW what \in Stops
  PROVE  Notes(Says(action, what))
BY NotesAre DEF Says

(* What is spent of one bound is spent of no other.                        *)
LEMMA SpentElsewhere ==
  ASSUME BoundTyped, NEW what \in {"opens", "lives", "faults", "controls", "crashes"}, Spend(what)
  PROVE  used'.instances = used.instances /\ used'.entries = used.entries /\ used'.rewrites = used.rewrites
<1>1. \A other \in Counted : other # what => used'[other] = used[other]
  BY DEF BoundTyped, Spend
<1>2. "instances" \in Counted /\ "entries" \in Counted /\ "rewrites" \in Counted
  BY DEF Counted
<1>3. "instances" # what /\ "entries" # what /\ "rewrites" # what
  OBVIOUS
<1> QED BY <1>1, <1>2, <1>3

-----------------------------------------------------------------------------
(* Controls, exits and the end of the output.                              *)

LEMMA ControlsCatches ==
  ASSUME RecorderTypeOK, RecorderTypeOK', CatchUpInv, NEW action \in {"abort", "prompt"}, Controls(action)
  PROVE  CatchUpInv'
<1>0. PICK c \in Instances : c = client
  BY InstancesAre DEF Controls, Running, RecorderTypeOK, ConnectTyped
<1>1. /\ UNCHANGED <<file, unsaid, st, out, bound, due, missed, context, named, client, phase, calling, queue, reading, ends>>
      /\ Running(c) /\ todo = << >> /\ calling = "no"
      /\ control' # NoControl => context # 0
      /\ used'.instances = used.instances /\ used'.entries = used.entries /\ used'.rewrites = used.rewrites
      /\ Record(Says(action, "stop-requested"))
      /\ asks' = IF st[c] = "gone" THEN asks ELSE [asks EXCEPT ![c] = Append(@, -1)]
  <2>1. st[c] # "none" /\ context # 0
    <3>1. st[c] # "none"
      BY <1>0 DEF Controls, Running
    <3> QED BY <3>1, ContextIs DEF CatchUpInv, KnowledgeOK
  <2>2. used'.instances = used.instances /\ used'.entries = used.entries /\ used'.rewrites = used.rewrites
    <3>1. Spend("controls")
      BY DEF Controls
    <3> QED BY <3>1, SpentElsewhere DEF RecorderTypeOK
  <2> QED BY <1>0, <2>1, <2>2 DEF Controls, Quiet, fileVars, connectVars, endVars, ghostVars, readVars
<1>2. st[c] # "none"
  BY <1>1 DEF Running
<1>3. context \in Nat /\ context # 0 /\ lives \in Nat
  BY <1>2, ContextIs DEF CatchUpInv, KnowledgeOK
<1>4. Notes(Says(action, "stop-requested"))
  BY <1>3, SaysNotes DEF Stops
<1>5. /\ UNCHANGED <<stored, cursor>> /\ (todo' = todo \/ (todo = << >> /\ TodoOK(todo')))
      /\ Learnt' = Learnt /\ EntriesIn(stored)' = EntriesIn(stored)
  BY <1>1, <1>4, RecordsNotes
<1>6. Claimed' <=> Claimed
  BY <1>1 DEF Claimed, Running
<1>7. Exchanges /\ asks'[c] \in {asks[c], Append(asks[c], -1)}
  <2>1. AskFits(-1)'
    <3>1. Latest' \in Nat
      BY <1>1, LatestTyped DEF RecorderTypeOK, Latest
    <3>2. -1 \in -2 .. Latest'
      BY <3>1
    <3>3. AskCovers(-1)'
      BY DEF AskCovers
    <3> QED BY <3>2, <3>3 DEF AskFits
  <2>2. -1 \in Int /\ UNCHANGED <<st, out>>
    BY <1>1
  <2> QED BY <1>1, <1>2, <2>1, <2>2, AskedMore
<1>8. KnowledgeOK'
  <2>1. Within(due')
    BY <1>1 DEF CatchUpInv, KnowledgeOK, NumbersOK, Within
  <2>2. Moves
    BY <1>1, <1>5, <1>6, <1>7, <2>1, NotesMove DEF CatchUpInv
  <2> QED BY <2>2, MovesKeeps DEF CatchUpInv
<1>9. CallsOK'
  BY <1>1, <1>5 DEF CatchUpInv, CallsOK, OneConnect
<1>10. ClaimOK'
  <2> SUFFICES ASSUME Claimed PROVE ClaimFor(c)'
    BY <1>0, <1>1, <1>6 DEF ClaimOK
  <2>1. ClaimFor(c)
    BY <1>0 DEF CatchUpInv, ClaimOK
  <2>2. OneAnswerFor(c)'
    <3>1. asks[c] \in Seq(Int) /\ -1 \in Int /\ ~(-1 >= 0)
      BY DEF RecorderTypeOK, PiTyped
    <3>2. OneAnswer(out[c], asks[c], reading.inst = c)
      BY <2>1 DEF ClaimFor, OneAnswerFor
    <3>3. /\ Held(Append(asks[c], -1)) = Held(asks[c]) \union {-1}
          /\ \A j, k \in 1 .. Len(Append(asks[c], -1)) :
               Append(asks[c], -1)[j] >= 0 /\ Append(asks[c], -1)[k] >= 0 => j = k
      <4>1. \A j, k \in 1 .. Len(asks[c]) : asks[c][j] >= 0 /\ asks[c][k] >= 0 => j = k
        BY <3>2 DEF OneAnswer
      <4>2. -1 < 0
        OBVIOUS
      <4> QED BY ONLY <3>1, <4>1, <4>2, AnotherAsk
    <3>4. OneAnswer(out[c], asks'[c], reading.inst = c)
      BY <1>7, <3>1, <3>2, <3>3 DEF OneAnswer
    <3> QED BY <1>1, <3>4 DEF OneAnswerFor
  <2>3. Sent(c)' = Sent(c) /\ ToCome(c)' = ToCome(c) /\ Owed' = Owed
    BY <1>1 DEF Sent, ToCome, Owed
  <2>4. ComingFor(c)'
    BY <1>1, <1>5, <2>1, <2>3 DEF ComingFor, ClaimFor
  <2>5. FirstFor(c) => FirstFor(c)'
    BY <1>1 DEF FirstFor
  <2>6. ToldFor(c) => ToldFor(c)'
    <3>1. ToldFor(c) => InTurn(out'[c], unsaid')
      BY <1>1 DEF ToldFor
    <3> QED BY <1>1, <1>5, <2>3, <3>1, ToldStays
  <2> QED BY <1>1, <2>1, <2>2, <2>4, <2>5, <2>6 DEF ClaimFor
<1> QED BY <1>8, <1>9, <1>10 DEF CatchUpInv

LEMMA ControlFailsCatches ==
  ASSUME RecorderTypeOK, RecorderTypeOK', CatchUpInv, ControlFails
  PROVE  CatchUpInv'
<1>1. /\ UNCHANGED <<file, unsaid, st, out, asks, bound, used, due, missed, context, named, client, phase, calling, queue, reading, ends>>
      /\ todo = << >> /\ control # NoControl /\ control' = NoControl
      /\ Record(Says(control.action, "stop-refused"))
  BY DEF ControlFails, Answered, Quiet, fileVars, connectVars, endVars, ghostVars, readVars
<1>2. Notes(Says(control.action, "stop-refused"))
  <2>1. context # 0
    BY <1>1 DEF CatchUpInv, CallsOK
  <2> QED BY <2>1, Numbered, SaysNotes DEF Stops
<1>3. /\ UNCHANGED <<stored, cursor>> /\ (todo' = todo \/ (todo = << >> /\ TodoOK(todo')))
      /\ Learnt' = Learnt /\ EntriesIn(stored)' = EntriesIn(stored)
  BY <1>1, <1>2, RecordsNotes
<1>4. Claimed' <=> Claimed
  BY <1>1 DEF Claimed, Running
<1>5. KnowledgeOK'
  <2>1. Within(due') /\ Exchanges
    BY <1>1 DEF CatchUpInv, KnowledgeOK, NumbersOK, Within, Exchanges, Sent, Asked
  <2>2. Moves
    BY <1>1, <1>3, <1>4, <2>1, NotesMove DEF CatchUpInv
  <2> QED BY <2>2, MovesKeeps DEF CatchUpInv
<1>6. CallsOK'
  BY <1>1, <1>3 DEF CatchUpInv, CallsOK, OneConnect
<1>7. Unnoticed
  BY <1>1, <1>3, <1>4 DEF Unnoticed
<1> QED BY <1>5, <1>6, <1>7, UnnoticedKeeps DEF CatchUpInv

LEMMA ExitReportedCatches ==
  ASSUME RecorderTypeOK, RecorderTypeOK', CatchUpInv, NEW i \in Instances, ExitReported(i)
  PROVE  CatchUpInv'
<1> DEFINE said == << Live(1, "exited", IF closed THEN "expected" ELSE "unexpected") >>
<1>1. /\ UNCHANGED <<file, unsaid, out, asks, bound, used, due, missed, context, named, phase, calling, queue, reading, ends,
                     control>>
      /\ todo = << >> /\ st[i] = "gone" /\ st' = [st EXCEPT ![i] = "reported"]
      /\ \/ client = i /\ client' = 0 /\ Record(said)
         \/ client # i /\ client' = client /\ UNCHANGED <<stored, todo, cursor>>
  BY DEF ExitReported, Quiet, fileVars, endVars, ghostVars, readVars, storeVars, indexVars
<1>2. Notes(said)
  <2>1. context \in Nat /\ context # 0 /\ lives \in Nat
    BY <1>1, ContextIs DEF CatchUpInv, KnowledgeOK
  <2> QED BY <2>1, NotesAre
<1> HIDE DEF said
<1>3. /\ UNCHANGED <<stored, cursor>> /\ (todo' = todo \/ (todo = << >> /\ TodoOK(todo')))
      /\ Learnt' = Learnt /\ EntriesIn(stored)' = EntriesIn(stored)
  <2>1. CASE Record(said)
    BY <1>1, <1>2, <2>1, RecordsNotes
  <2>2. CASE UNCHANGED <<stored, todo, cursor>>
    BY <2>2 DEF Learnt
  <2> QED BY <1>1, <2>1, <2>2
<1>4. Claimed' => Claimed /\ client' = client
  <2>1. \A j \in Instances : st'[j] \in {"run", "gone"} => st[j] \in {"run", "gone"}
    BY <1>1 DEF RecorderTypeOK, PiTyped
  <2> QED BY <1>1, <2>1, ClaimFrom
<1>5. KnowledgeOK'
  <2>1. Within(due')
    BY <1>1 DEF CatchUpInv, KnowledgeOK, NumbersOK, Within
  <2>2. Exchanges
    BY <1>1 DEF Exchanges, Sent, Asked, RecorderTypeOK, PiTyped
  <2>3. Moves
    BY <1>1, <1>3, <1>4, <2>1, <2>2, NotesMove DEF CatchUpInv
  <2> QED BY <2>3, MovesKeeps DEF CatchUpInv
<1>6. CallsOK'
  BY <1>1, <1>3 DEF CatchUpInv, CallsOK, OneConnect
<1>7. ClaimOK'
  <2>1. CASE client = i
    <3>1. client' # client
      BY <1>1, <2>1, InstancesAre
    <3> QED BY <1>4, <3>1, NotClaimed
  <2>2. CASE client # i
    <3>1. client # 0 => client \in Instances
      BY InstancesAre DEF RecorderTypeOK, ConnectTyped
    <3>2. Unnoticed
      BY <1>1, <1>3, <1>4, <2>2, <3>1 DEF Unnoticed, RecorderTypeOK, PiTyped
    <3> QED BY <3>2, UnnoticedKeeps DEF CatchUpInv
  <2> QED BY <2>1, <2>2
<1> QED BY <1>5, <1>6, <1>7 DEF CatchUpInv

LEMMA DrainedCatches ==
  ASSUME RecorderTypeOK, RecorderTypeOK', CatchUpInv, NEW i \in Instances, Drained(i)
  PROVE  CatchUpInv'
<1>1. /\ UNCHANGED <<file, unsaid, asks, bound, due, missed, context, named, phase, calling, queue, reading, ends,
                     control, stored, todo, cursor, client>>
      /\ st[i] = "reported" /\ st' = [st EXCEPT ![i] = "drained"] /\ out' = [out EXCEPT ![i] = << >>]
      /\ used'.instances = used.instances /\ used'.entries = used.entries /\ used'.rewrites = used.rewrites
  <2>1. used'.instances = used.instances /\ used'.entries = used.entries /\ used'.rewrites = used.rewrites
    BY DEF Drained, Spend, RecorderTypeOK, BoundTyped, Counted
  <2> QED BY <2>1 DEF Drained, Quiet, fileVars, endVars, ghostVars, readVars, storeVars, indexVars, connectVars
<1>2. Claimed' => Claimed /\ client' = client
  <2>1. \A j \in Instances : st'[j] \in {"run", "gone"} => st[j] \in {"run", "gone"}
    BY <1>1 DEF RecorderTypeOK, PiTyped
  <2> QED BY <1>1, <2>1, ClaimFrom
<1>3. Learnt' = Learnt /\ EntriesIn(stored)' = EntriesIn(stored)
  BY <1>1 DEF Learnt
<1>4. KnowledgeOK'
  <2>1. Within(due')
    BY <1>1 DEF CatchUpInv, KnowledgeOK, NumbersOK, Within
  <2>2. \A j \in Instances : out'[j] = out[j] \/ out'[j] = << >>
    BY <1>1 DEF RecorderTypeOK, PiTyped
  <2>3. \A j \in Instances : Sent(j)' \subseteq Sent(j)
    BY <2>2, HeldNone DEF Sent
  <2>4. Exchanges
    BY <1>1, <2>3 DEF Exchanges, Asked, RecorderTypeOK, PiTyped
  <2>5. Moves
    BY <1>1, <1>2, <2>1, <2>4, NotesMove DEF CatchUpInv
  <2> QED BY <2>5, MovesKeeps DEF CatchUpInv
<1>5. CallsOK'
  BY <1>1, <1>3 DEF CatchUpInv, CallsOK, OneConnect
<1>6. ClaimOK'
  <2>1. CASE client = i
    <3>1. ~Claimed'
      BY <1>1, <2>1 DEF Claimed, Running, RecorderTypeOK, PiTyped
    <3> QED BY <3>1, NotClaimed
  <2>2. CASE client # i
    <3>1. client # 0 => client \in Instances
      BY InstancesAre DEF RecorderTypeOK, ConnectTyped
    <3>2. Unnoticed
      BY <1>1, <1>2, <1>3, <2>2, <3>1 DEF Unnoticed, RecorderTypeOK, PiTyped
    <3> QED BY <3>2, UnnoticedKeeps DEF CatchUpInv
  <2> QED BY <2>1, <2>2
<1> QED BY <1>4, <1>5, <1>6 DEF CatchUpInv

-----------------------------------------------------------------------------
(* Pi's steps that leave its file.                                         *)

LEMMA SentAside ==
  ASSUME NEW o \in Seq(Messages), NEW a, NEW its, OneAnswer(o, a, its), NEW m \in Messages, ~IsAnswer(m)
  PROVE  OneAnswer(Append(o, m), a, its)
BY OneMore DEF OneAnswer

LEMMA AskGone ==
  ASSUME NEW o, NEW a \in Seq(Int), a # << >>, NEW its, OneAnswer(o, a, its)
  PROVE  OneAnswer(o, Tail(a), its)
BY AskTaken DEF OneAnswer

LEMMA SentAnswer ==
  ASSUME NEW o \in Seq(Messages), NEW a \in Seq(Int), a # << >>, Head(a) >= 0, NEW its, OneAnswer(o, a, its),
         NEW m \in Messages
  PROVE  OneAnswer(Append(o, m), Tail(a), its) /\ its /\ \A n \in Held(o) : ~IsAnswer(n)
<1>1. /\ \A j, k \in 1 .. Len(Tail(a)) : Tail(a)[j] >= 0 /\ Tail(a)[k] >= 0 => j = k
      /\ \A x \in Held(Tail(a)) : ~(x >= 0)
      /\ Held(a) = {Head(a)} \union Held(Tail(a))
  BY AskTaken DEF OneAnswer
<1>2. its /\ \A n \in Held(o) : ~IsAnswer(n)
  BY <1>1 DEF OneAnswer
<1>3. /\ \A j, k \in 1 .. Len(Append(o, m)) : IsAnswer(Append(o, m)[j]) /\ IsAnswer(Append(o, m)[k]) => j = k
  BY <1>2, OneMore DEF OneAnswer
<1> QED BY <1>1, <1>2, <1>3 DEF OneAnswer

LEMMA ObsAre ==
  ASSUME UNCHANGED obsVars
  PROVE  UNCHANGED <<stored, todo, cursor, client, context, named, calling, phase, ends, queue, reading, control, due,
                     missed, bound>>
BY DEF obsVars, storeVars, indexVars, connectVars, endVars, readVars, ghostVars

LEMMA PiMoves ==
  ASSUME RecorderTypeOK, RecorderTypeOK', CatchUpInv, UNCHANGED obsVars, file' = file,
         used'.instances = used.instances, used'.entries = used.entries, used'.rewrites = used.rewrites,
         Held(unsaid') \subseteq Held(unsaid), Exchanges, Claimed' => Claimed
  PROVE  KnowledgeOK' /\ CallsOK' /\ Learnt' = Learnt /\ Owed' = Owed
<1>1. UNCHANGED <<stored, todo, cursor, client, context, named, calling, phase, ends, queue, reading, control, due,
                  missed, bound>>
  BY ObsAre
<1>2. Learnt' = Learnt /\ EntriesIn(stored)' = EntriesIn(stored) /\ Owed' = Owed
  BY <1>1 DEF Learnt, Owed
<1>3. Within(due')
  BY <1>1 DEF CatchUpInv, KnowledgeOK, NumbersOK, Within
<1>4. Moves
  BY <1>1, <1>3, NotesMove DEF CatchUpInv
<1>5. KnowledgeOK'
  BY <1>4, MovesKeeps DEF CatchUpInv
<1>6. CallsOK'
  BY <1>1, <1>2 DEF CatchUpInv, CallsOK, OneConnect
<1> QED BY <1>2, <1>5, <1>6

(* What is sent to a claim's client, or by another process.                *)
LEMMA SentMore ==
  ASSUME RecorderTypeOK, NEW i \in Instances, st[i] # "none", NEW m \in Messages, Fits(m)', Sends(i, m), st' = st,
         \A j \in Instances : Asked(j)' \subseteq Asked(j)
  PROVE  /\ Exchanges /\ out'[i] = Append(out[i], m) /\ \A j \in Instances : j # i => out'[j] = out[j]
         /\ Sent(i)' = Sent(i) \union {m}
<1>1. out[i] \in Seq(Messages) /\ out'[i] = Append(out[i], m) /\ \A j \in Instances : j # i => out'[j] = out[j]
  BY DEF Sends, RecorderTypeOK, PiTyped
<1>2. Sent(i)' = Sent(i) \union {m}
  BY <1>1, AppendIs DEF Sent
<1>3. \A j \in Instances : j # i => Sent(j)' = Sent(j)
  BY <1>1 DEF Sent
<1>4. Exchanges
  BY <1>2, <1>3 DEF Exchanges
<1> QED BY <1>1, <1>2, <1>4

LEMMA PiSaysCatches ==
  ASSUME RecorderTypeOK, RecorderTypeOK', CatchUpInv, NEW i \in Instances, PiSays(i)
  PROVE  CatchUpInv'
<1>1. /\ UNCHANGED <<obsVars, st, asks, file, unsaid>> /\ st[i] = "run"
      /\ used'.instances = used.instances /\ used'.entries = used.entries /\ used'.rewrites = used.rewrites
  <2>1. Spend("lives") /\ BoundTyped
    BY DEF PiSays, RecorderTypeOK
  <2> QED BY <2>1, SpentElsewhere DEF PiSays, fileVars
<1>2. PICK k \in bound.kinds : Sends(i, [t |-> "live", k |-> k[1], v |-> k[2], had |-> ToSet(file)])
  BY DEF PiSays
<1> DEFINE m == [t |-> "live", k |-> k[1], v |-> k[2], had |-> ToSet(file)]
<1>3. PICK n \in Messages : n = m
  <2>1. k[1] \in LiveKinds /\ k[2] \in Reasons
    BY <1>2, BoundsAssumption DEF RecorderTypeOK, BoundTyped
  <2>2. ToSet(file) \in SUBSET Nat
    BY DEF RecorderTypeOK, FileTyped, ToSet
  <2> QED BY <2>1, <2>2 DEF Messages
<1>4. Sends(i, n) /\ n.t = "live" /\ n.had = Held(file)
  BY <1>2, <1>3, HeldIs DEF RecorderTypeOK, FileTyped
<1> HIDE DEF m
<1>5. Fits(n)'
  BY <1>1, <1>4 DEF Fits, MessageOK, Covers, Within, Latest, CatchUpInv, KnowledgeOK, NumbersOK
<1>6. /\ Exchanges /\ out'[i] = Append(out[i], n) /\ \A j \in Instances : j # i => out'[j] = out[j]
      /\ Sent(i)' = Sent(i) \union {n}
  BY <1>1, <1>4, <1>5, SentMore DEF Asked
<1>7. UNCHANGED <<stored, todo, cursor, client, context, named, calling, phase, ends, queue, reading, control, due,
                  missed, bound>>
  BY <1>1, ObsAre
<1>8. Claimed' <=> Claimed
  BY <1>1, <1>7 DEF Claimed, Running
<1>9. KnowledgeOK' /\ CallsOK' /\ Learnt' = Learnt /\ Owed' = Owed
  BY <1>1, <1>6, <1>8, PiMoves
<1>10. ClaimOK'
  <2> SUFFICES ASSUME NEW c \in Instances, Claimed, c = client PROVE ClaimFor(c)'
    BY <1>7, <1>8 DEF ClaimOK
  <2>1. ClaimFor(c)
    BY DEF CatchUpInv, ClaimOK
  <2>2. CASE c = i
    <3>1. out[c] \in Seq(Messages) /\ unsaid \in Seq(Nat)
      BY DEF RecorderTypeOK, PiTyped, FileTyped
    <3>2. OneAnswerFor(c)'
      <4>1. OneAnswer(Append(out[c], n), asks[c], reading.inst = c)
        BY <1>4, <2>1, <3>1, SentAside DEF ClaimFor, OneAnswerFor, IsAnswer
      <4> QED BY <1>1, <1>6, <1>7, <2>2, <4>1 DEF OneAnswerFor
    <3>3. \A p : p.t = "page" => (p \in Sent(c)' <=> p \in Sent(c))
      BY <1>4, <1>6, <2>2
    <3>4. ComingFor(c) => ComingFor(c)'
      BY <1>7, <1>9, <3>3 DEF ComingFor
    <3>5. FirstFor(c) => FirstFor(c)'
      BY <1>7, <1>9 DEF FirstFor
    <3>6. ToldFor(c) => ToldFor(c)'
      <4>1. ToldFor(c) => InTurn(Append(out[c], n), unsaid) /\ Said(Append(out[c], n)) = Said(out[c])
        BY <1>4, <3>1, TurnSent DEF ToldFor
      <4>2. ToldFor(c) => InTurn(out'[c], unsaid') /\ ToCome(c)' = ToCome(c)
        BY <1>1, <1>6, <2>2, <4>1 DEF ToCome
      <4> QED BY <1>1, <1>7, <1>9, <3>3, <4>2, ToldStays
    <3> QED BY <1>7, <2>1, <3>2, <3>4, <3>5, <3>6 DEF ClaimFor
  <2>3. CASE c # i
    <3>1. Unnoticed
      BY <1>1, <1>6, <1>7, <1>8, <1>9, <2>3 DEF Unnoticed
    <3>2. ClaimOK' /\ Claimed' /\ c = client'
      BY <1>7, <1>8, <3>1, UnnoticedKeeps DEF CatchUpInv
    <3> QED BY <3>2 DEF ClaimOK
  <2> QED BY <2>2, <2>3
<1> QED BY <1>9, <1>10 DEF CatchUpInv

LEMMA PiExitsCatches ==
  ASSUME RecorderTypeOK, RecorderTypeOK', CatchUpInv, NEW i \in Instances, PiExits(i)
  PROVE  CatchUpInv'
<1>1. /\ UNCHANGED <<obsVars, out, file, used>> /\ st[i] = "run" /\ st' = [st EXCEPT ![i] = "gone"]
      /\ asks' = [asks EXCEPT ![i] = << >>] /\ unsaid' = << >>
  BY DEF PiExits
<1>2. UNCHANGED <<stored, todo, cursor, client, context, named, calling, phase, ends, queue, reading, control, due,
                  missed, bound>>
  BY <1>1, ObsAre
<1>3. \A j \in Instances : (j # i => asks'[j] = asks[j] /\ st'[j] = st[j]) /\ asks'[i] = << >> /\ st'[i] = "gone"
  BY <1>1 DEF RecorderTypeOK, PiTyped
<1>4. Held(unsaid') = {} /\ \A j \in Instances : Asked(j)' \subseteq Asked(j) /\ Sent(j)' = Sent(j)
  BY <1>1, <1>3, HeldNone DEF Asked, Sent
<1>5. Claimed' => Claimed
  <2>1. \A j \in Instances : st'[j] \in {"run", "gone"} => st[j] \in {"run", "gone"}
    BY <1>1, <1>3
  <2>2. client \in Instances \/ client = 0
    BY InstancesAre DEF RecorderTypeOK, ConnectTyped
  <2> QED BY <1>1, <1>2, <2>1, <2>2 DEF Claimed, Running
<1>6. KnowledgeOK' /\ CallsOK' /\ Learnt' = Learnt /\ Owed' = Owed
  <2>1. Exchanges
    BY <1>1, <1>3, <1>4 DEF Exchanges
  <2> QED BY <1>1, <1>4, <1>5, <2>1, PiMoves
<1>7. ClaimOK'
  <2> SUFFICES ASSUME NEW c \in Instances, Claimed, Claimed', c = client PROVE ClaimFor(c)'
    BY <1>2, <1>5 DEF ClaimOK
  <2>1. ClaimFor(c)
    BY DEF CatchUpInv, ClaimOK
  <2>2. bound.announces => c = i
    <3>1. i <= used.instances /\ client <= used.instances
      BY <1>1, ContextIs DEF CatchUpInv, KnowledgeOK, ProcessesOK
    <3> QED BY <3>1, OnlyOne
  <2>3. CASE c = i
    <3>1. OneAnswerFor(c)'
      <4>1. \A j, k \in 1 .. Len(<< >>) : j = k
        BY HeldNone
      <4>2. OneAnswer(out[c], << >>, reading.inst = c)
        BY <2>1, <4>1, HeldNone DEF ClaimFor, OneAnswerFor, OneAnswer
      <4> QED BY <1>1, <1>2, <1>3, <2>3, <4>2 DEF OneAnswerFor
    <3>2. ComingFor(c) => ComingFor(c)'
      BY <1>2, <1>4, <1>6 DEF ComingFor
    <3>3. FirstFor(c) => FirstFor(c)'
      BY <1>2, <1>6 DEF FirstFor
    <3>4. ToldFor(c) => ToldFor(c)'
      <4> SUFFICES ASSUME ToldFor(c) PROVE ToldFor(c)'
        OBVIOUS
      <4>1. InTurn(out[c], unsaid')
        BY <1>1, <1>4, IncreasingNone DEF ToldFor, InTurn
      <4>2. InTurn(out[c], unsaid)'
        BY <1>1, <4>1
      <4>3. \A x : Found(c, x)' <=> Found(c, x)
        BY <1>4, <1>6 DEF Found
      <4>4. ToCome(c)' = Said(out[c]) /\ ToCome(c) = Said(out[c]) \union Held(unsaid)
        BY <1>1, <1>4 DEF ToCome
      <4>5. \A y \in Said(out[c]), x \in Held(unsaid) : ~(x < y)
        <5>1. \A y \in Said(out[c]), x \in Held(unsaid) : y < x
          BY DEF ToldFor, InTurn
        <5>2. \A y \in Said(out[c]) : y \in Nat
          BY MessagesAre DEF Said, Held, RecorderTypeOK, PiTyped
        <5>3. \A x \in Held(unsaid) : x \in Nat
          BY DEF Held, RecorderTypeOK, FileTyped
        <5> QED BY <5>1, <5>2, <5>3
      <4>6. Follows(c) => Follows(c)'
        <5> SUFFICES ASSUME Follows(c) PROVE Follows(c)'
          OBVIOUS
        <5>1. \A y \in Learnt, x \in Held(file) : x < y => Found(c, x)
          BY DEF Follows
        <5>2. \A y \in Said(out[c]), x \in Held(file) : x < y => Found(c, x) \/ x \in Said(out[c])
          BY <4>4, <4>5 DEF Follows
        <5>3. st'[c] # "run"
          BY <1>3, <2>3
        <5> QED BY <1>1, <1>6, <4>3, <4>4, <5>1, <5>2, <5>3 DEF Follows
      <4> QED BY <1>2, <1>4, <4>2, <4>6 DEF ToldFor
    <3> QED BY <1>2, <2>1, <3>1, <3>2, <3>3, <3>4 DEF ClaimFor
  <2>4. CASE c # i
    <3>1. unsaid' = unsaid
      <4>1. Held(unsaid) = {}
        BY <2>2, <2>4 DEF CatchUpInv, KnowledgeOK, OrderOK
      <4>2. unsaid = << >>
        BY <4>1, HeldIs DEF RecorderTypeOK, FileTyped
      <4> QED BY <1>1, <4>2
    <3>2. Unnoticed
      BY <1>1, <1>2, <1>3, <1>5, <1>6, <2>4, <3>1 DEF Unnoticed
    <3>3. ClaimOK' /\ c = client'
      BY <1>2, <3>2, UnnoticedKeeps DEF CatchUpInv
    <3> QED BY <3>3 DEF ClaimOK
  <2> QED BY <2>3, <2>4
<1> QED BY <1>6, <1>7 DEF CatchUpInv

LEMMA PiAnnouncesCatches ==
  ASSUME RecorderTypeOK, RecorderTypeOK', CatchUpInv, NEW i \in Instances, PiAnnounces(i)
  PROVE  CatchUpInv'
<1>1. /\ UNCHANGED <<obsVars, st, asks, file, used>> /\ st[i] = "run" /\ unsaid # << >> /\ unsaid' = Tail(unsaid)
      /\ Sends(i, [t |-> "entry", e |-> Head(unsaid)])
  BY DEF PiAnnounces
<1>2. /\ unsaid \in Seq(Nat) /\ Tail(unsaid) \in Seq(Nat) /\ Held(unsaid) = {Head(unsaid)} \union Held(Tail(unsaid))
      /\ Head(unsaid) \in Nat
  BY <1>1, HeldHead, HeadTailProperties DEF RecorderTypeOK, FileTyped
<1>3. PICK n \in Messages : n = [t |-> "entry", e |-> Head(unsaid)]
  BY <1>2 DEF Messages
<1>4. Sends(i, n) /\ n.t = "entry" /\ n.e = Head(unsaid)
  BY <1>1, <1>3
<1>5. bound.announces
  BY <1>2 DEF CatchUpInv, KnowledgeOK, OrderOK
<1>6. Fits(n)'
  <2>1. bound'.announces /\ Latest' = Latest
    BY <1>1, <1>5, ObsAre DEF Latest
  <2>2. n.e \in 1 .. Latest
    BY <1>2, <1>4 DEF CatchUpInv, KnowledgeOK, NumbersOK, Within
  <2> QED BY <1>4, <2>1, <2>2 DEF Fits, MessageOK, Covers, Within
<1>7. /\ Exchanges /\ out'[i] = Append(out[i], n) /\ \A j \in Instances : j # i => out'[j] = out[j]
      /\ Sent(i)' = Sent(i) \union {n}
  BY <1>1, <1>4, <1>6, SentMore DEF Asked
<1>8. UNCHANGED <<stored, todo, cursor, client, context, named, calling, phase, ends, queue, reading, control, due,
                  missed, bound>>
  BY <1>1, ObsAre
<1>9. Claimed' <=> Claimed
  BY <1>1, <1>8 DEF Claimed, Running
<1>10. KnowledgeOK' /\ CallsOK' /\ Learnt' = Learnt /\ Owed' = Owed
  BY <1>1, <1>2, <1>7, <1>9, PiMoves
<1>11. ClaimOK'
  <2> SUFFICES ASSUME NEW c \in Instances, Claimed, c = client PROVE ClaimFor(c)'
    BY <1>8, <1>9 DEF ClaimOK
  <2>1. ClaimFor(c)
    BY DEF CatchUpInv, ClaimOK
  <2>2. c = i
    <3>1. i <= used.instances /\ client <= used.instances
      BY <1>1, ContextIs DEF CatchUpInv, KnowledgeOK, ProcessesOK
    <3> QED BY <1>5, <3>1, OnlyOne
  <2>3. out[c] \in Seq(Messages)
    BY DEF RecorderTypeOK, PiTyped
  <2>4. OneAnswerFor(c)'
    <3>1. OneAnswer(Append(out[c], n), asks[c], reading.inst = c)
      BY <1>4, <2>1, <2>3, SentAside DEF ClaimFor, OneAnswerFor, IsAnswer
    <3> QED BY <1>1, <1>7, <1>8, <2>2, <3>1 DEF OneAnswerFor
  <2>5. \A p : p.t = "page" => (p \in Sent(c)' <=> p \in Sent(c))
    BY <1>4, <1>7, <2>2
  <2>6. ComingFor(c) => ComingFor(c)'
    BY <1>8, <1>10, <2>5 DEF ComingFor
  <2>7. FirstFor(c) => FirstFor(c)'
    BY <1>8, <1>10 DEF FirstFor
  <2>8. ToldFor(c) => ToldFor(c)'
    <3>1. ToldFor(c) => /\ InTurn(Append(out[c], n), Tail(unsaid))
                        /\ Said(Append(out[c], n)) \union Held(Tail(unsaid)) = Said(out[c]) \union Held(unsaid)
      BY <1>1, <1>2, <1>4, <2>3, TurnSent DEF ToldFor
    <3>2. ToldFor(c) => InTurn(out'[c], unsaid') /\ ToCome(c)' = ToCome(c)
      BY <1>1, <1>7, <2>2, <3>1 DEF ToCome
    <3> QED BY <1>1, <1>8, <1>10, <2>5, <3>2, ToldStays
  <2> QED BY <1>8, <2>1, <2>4, <2>6, <2>7, <2>8 DEF ClaimFor
<1> QED BY <1>10, <1>11 DEF CatchUpInv

-----------------------------------------------------------------------------
(* What Pi answers.                                                        *)

LEMMA RestIs ==
  ASSUME NEW s \in Seq(Nat), Increasing(s), NEW a \in 1 .. Len(s) + 1
  PROVE  LET t == SubSeq(s, a, Len(s)) IN
         /\ t \in Seq(Nat) /\ Increasing(t) /\ Held(t) \subseteq Held(s)
         /\ \A n \in a .. Len(s) : s[n] \in Held(t)
<1> DEFINE t == SubSeq(s, a, Len(s))
<1>1. Len(s) \in Nat /\ a \in Nat /\ \A n \in a .. Len(s) : s[n] \in Nat /\ n \in 1 .. Len(s)
  OBVIOUS
<1>2. /\ t \in Seq(Nat) /\ Len(t) = (IF a <= Len(s) THEN Len(s) - a + 1 ELSE 0)
      /\ \A k \in 1 .. Len(s) - a + 1 : t[k] = s[a + k - 1]
  BY <1>1, SubSeqProperties
<1> HIDE DEF t
<1>3. \A k \in 1 .. Len(t) : k \in Nat /\ a + k - 1 \in 1 .. Len(s) /\ t[k] = s[a + k - 1]
  BY <1>1, <1>2
<1>4. Increasing(t)
  <2> SUFFICES ASSUME NEW j \in 1 .. Len(t), NEW k \in 1 .. Len(t), j < k PROVE t[j] < t[k]
    BY DEF Increasing
  <2>1. a + j - 1 \in 1 .. Len(s) /\ a + k - 1 \in 1 .. Len(s) /\ a + j - 1 < a + k - 1
    BY <1>1, <1>3
  <2> QED BY <1>3, <2>1 DEF Increasing
<1>5. Held(t) \subseteq Held(s)
  BY <1>3 DEF Held
<1>6. ASSUME NEW n \in a .. Len(s)
      PROVE  s[n] \in Held(t)
  <2>1. n - a + 1 \in 1 .. Len(t) /\ a + (n - a + 1) - 1 = n
    BY <1>1, <1>2
  <2>2. t[n - a + 1] = s[n]
    BY <1>3, <2>1
  <2> QED BY <2>1, <2>2 DEF Held
<1> QED BY <1>2, <1>4, <1>5, <1>6 DEF t

LEMMA LeafIs ==
  ASSUME FileTyped, Increasing(file)
  PROVE  Leaf \in Held(file) \union {0} /\ \A x \in Held(file) : x <= Leaf
<1>1. file \in Seq(Nat) /\ Len(file) \in Nat
  BY DEF FileTyped
<1>2. CASE file = << >>
  BY <1>2, HeldNone DEF Leaf
<1>3. CASE file # << >>
  <2>1. Len(file) \in 1 .. Len(file) /\ Leaf = file[Len(file)]
    BY <1>1, <1>3, EmptySeq DEF Leaf, Last
  <2>2. ASSUME NEW x \in Held(file)
        PROVE  x <= Leaf
    <3>1. PICK n \in 1 .. Len(file) : x = file[n]
      BY DEF Held
    <3>2. n = Len(file) \/ n < Len(file)
      BY <1>1
    <3>3. file[n] \in Nat /\ file[Len(file)] \in Nat
      BY <1>1, <2>1
    <3> QED BY <2>1, <3>1, <3>2, <3>3 DEF Increasing
  <2> QED BY <2>1, <2>2 DEF Held
<1> QED BY <1>2, <1>3

LEMMA AfterIs ==
  ASSUME FileTyped, Increasing(file), NEW e, e \in ToSet(file) \union {0}, \A x \in Held(file) : x > 0
  PROVE  /\ EntriesAfter(e) \in Seq(Nat) /\ Increasing(EntriesAfter(e)) /\ Held(EntriesAfter(e)) \subseteq Held(file)
         /\ \A x \in Held(file) : x > e => x \in Held(EntriesAfter(e))
<1>1. file \in Seq(Nat) /\ Len(file) \in Nat /\ DOMAIN file = 1 .. Len(file) /\ \A n \in 1 .. Len(file) : file[n] \in Nat
  BY DEF FileTyped
<1>2. Leaf \in Held(file) \union {0} /\ \A x \in Held(file) : x <= Leaf /\ x \in Nat
  BY <1>1, LeafIs DEF Held
<1>3. CASE e = Leaf
  <2>1. EntriesAfter(e) = << >>
    BY <1>3 DEF EntriesAfter
  <2>2. Leaf \in Nat
    BY <1>1, <1>2 DEF Held
  <2>3. \A x \in Held(file) : ~(x > e)
    BY <1>2, <1>3, <2>2
  <2>4. << >> \in Seq(Nat)
    BY EmptySeq
  <2> QED BY <2>1, <2>3, <2>4, HeldNone, IncreasingNone
<1>4. CASE e # Leaf /\ e = 0
  <2>1. EntriesAfter(e) = SubSeq(file, 1, Len(file)) /\ 1 \in 1 .. Len(file) + 1
    BY <1>1, <1>4 DEF EntriesAfter, After
  <2>2. \A x \in Held(file) : \E n \in 1 .. Len(file) : file[n] = x
    BY DEF Held
  <2> DEFINE t == SubSeq(file, 1, Len(file))
  <2>3. t \in Seq(Nat) /\ Increasing(t) /\ Held(t) \subseteq Held(file) /\ \A n \in 1 .. Len(file) : file[n] \in Held(t)
    BY <1>1, <2>1, RestIs
  <2> HIDE DEF t
  <2>4. \A x \in Held(file) : x \in Held(t)
    BY <2>2, <2>3
  <2> QED BY <2>1, <2>3, <2>4 DEF t
<1>5. CASE e # Leaf /\ e # 0
  <2>1. PICK j \in 1 .. Len(file) : file[j] = e
    BY <1>1, <1>5 DEF ToSet
  <2>2. j # Len(file)
    <3>1. file # << >>
      BY <1>1, <2>1
    <3> QED BY <1>5, <2>1, <3>1 DEF Leaf, Last
  <2> DEFINE N == Len(file)
  <2>3. j + 1 \in 1 .. N /\ j + 1 > 1 /\ (j + 1) - 1 = j
    <3>1. N \in Nat /\ j \in 1 .. N /\ j # N
      BY <1>1, <2>2
    <3> HIDE DEF N
    <3> QED BY ONLY <3>1
  <2> DEFINE a == CHOOSE n \in DOMAIN file : n > 1 /\ file[n - 1] = e
  <2>4. a \in DOMAIN file /\ a > 1 /\ file[a - 1] = e
    BY <1>1, <2>1, <2>3
  <2>5. EntriesAfter(e) = SubSeq(file, a, Len(file))
    BY <1>5 DEF EntriesAfter, After
  <2> HIDE DEF a, N
  <2>6. a \in 1 .. Len(file) + 1 /\ a - 1 \in 1 .. Len(file)
    BY <1>1, <2>4
  <2>7. ASSUME NEW x \in Held(file), x > e
        PROVE  \E n \in a .. Len(file) : file[n] = x
    <3>1. PICK n \in 1 .. Len(file) : x = file[n]
      BY DEF Held
    <3>2. CASE n < a
      <4>1. n = a - 1 \/ n < a - 1
        BY <2>6, <3>2
      <4>2. file[n] = file[a - 1] \/ file[n] < file[a - 1]
        BY <2>6, <4>1 DEF Increasing
      <4>3. x = e \/ x < e
        BY <2>4, <3>1, <4>2
      <4>4. x \in Nat /\ e \in Nat
        BY <1>1, <2>1, <3>1
      <4> QED BY <2>7, <4>3, <4>4
    <3>3. CASE n >= a
      <4>1. n \in a .. Len(file)
        BY <2>6, <3>3
      <4> QED BY <3>1, <4>1
    <3> QED BY <2>6, <3>2, <3>3
  <2> DEFINE t == SubSeq(file, a, Len(file))
  <2>8. t \in Seq(Nat) /\ Increasing(t) /\ Held(t) \subseteq Held(file) /\ \A n \in a .. Len(file) : file[n] \in Held(t)
    BY <1>1, <2>6, RestIs
  <2> HIDE DEF t
  <2>9. \A x \in Held(file) : x > e => x \in Held(t)
    BY <2>7, <2>8
  <2> QED BY <2>5, <2>8, <2>9 DEF t
<1> QED BY <1>3, <1>4, <1>5

(* What is answered: a page of what is after the entry asked for, or that  *)
(* there is no such entry, or another request.                             *)
AnswerTo(ask, m) ==
  \/ m.t \in {"state", "control"}
  \/ m.t = "unknown" /\ ask >= 0
  \/ m.t = "page" /\ ask >= 0 /\ ask \in ToSet(file) \union {0} /\ m.entries = EntriesAfter(ask) /\ m.leaf = Leaf

LEMMA PiAnswersIs ==
  ASSUME RecorderTypeOK, CatchUpInv, NEW i \in Instances, PiAnswers(i)
  PROVE  /\ UNCHANGED <<obsVars, st, file, unsaid, used>> /\ st[i] = "run" /\ asks[i] # << >>
         /\ asks'[i] = Tail(asks[i]) /\ \A j \in Instances : j # i => asks'[j] = asks[j]
         /\ \E m \in Messages : Sends(i, m) /\ AnswerTo(Head(asks[i]), m)
<1> DEFINE ask == Head(asks[i])
<1>1. /\ asks[i] # << >> /\ asks' = [asks EXCEPT ![i] = Tail(@)] /\ st[i] = "run"
      /\ UNCHANGED <<obsVars, st, file, unsaid, used>>
      /\ CASE ask = -2 -> Sends(i, [t |-> "state"])
           [] ask = -1 -> \E v \in {"stop-accepted", "stop-refused"} : Sends(i, [t |-> "control", v |-> v])
           [] ask >= 0 /\ ask \in ToSet(file) \union {0} ->
                  Sends(i, [t |-> "page", entries |-> EntriesAfter(ask), leaf |-> Leaf])
           [] OTHER -> Sends(i, [t |-> "unknown"])
  BY DEF PiAnswers, fileVars
<1>2. asks \in [Instances -> Seq(Int)]
  BY DEF RecorderTypeOK, PiTyped
<1>3. ask \in Held(asks[i]) /\ asks'[i] = Tail(asks[i]) /\ \A j \in Instances : j # i => asks'[j] = asks[j]
  BY <1>1, <1>2, HeldHead
<1>4. ask \in Int /\ (ask = -2 \/ ask = -1 \/ ask >= 0)
  <2>1. ask \in -2 .. Latest /\ Latest \in Nat
    BY <1>3, LatestTyped DEF CatchUpInv, KnowledgeOK, MessagesOK, Asked, RecorderTypeOK
  <2> HIDE DEF ask
  <2> QED BY <2>1
<1> HIDE DEF ask
<1>5. CASE ask = -2
  <2>1. [t |-> "state"] \in Messages /\ Sends(i, [t |-> "state"])
    BY <1>1, <1>5 DEF Messages
  <2>2. AnswerTo(ask, [t |-> "state"])
    BY DEF AnswerTo
  <2> QED BY <1>1, <1>3, <2>1, <2>2 DEF ask
<1>6. CASE ask = -1
  <2>1. PICK v \in {"stop-accepted", "stop-refused"} : Sends(i, [t |-> "control", v |-> v])
    BY <1>1, <1>6
  <2>2. [t |-> "control", v |-> v] \in Messages /\ AnswerTo(ask, [t |-> "control", v |-> v])
    BY DEF AnswerTo, Messages, Stops
  <2> QED BY <1>1, <1>3, <2>1, <2>2 DEF ask
<1>7. CASE ask >= 0 /\ ask \in ToSet(file) \union {0}
  <2> DEFINE m == [t |-> "page", entries |-> EntriesAfter(ask), leaf |-> Leaf]
  <2>1. EntriesAfter(ask) \in Seq(Nat) /\ Leaf \in Nat
    BY <1>7, AfterTyped DEF RecorderTypeOK
  <2>2. m \in Messages
    BY <2>1 DEF Messages
  <2>3. ask # -2 /\ ask # -1
    BY <1>4, <1>7
  <2>4. Sends(i, m) /\ AnswerTo(ask, m)
    BY <1>1, <1>7, <2>3 DEF AnswerTo
  <2> QED BY <1>1, <1>3, <2>2, <2>4 DEF ask
<1>8. CASE ask >= 0 /\ ask \notin ToSet(file) \union {0}
  <2>1. ask # -2 /\ ask # -1
    BY <1>4, <1>8
  <2>2. [t |-> "unknown"] \in Messages /\ Sends(i, [t |-> "unknown"]) /\ AnswerTo(ask, [t |-> "unknown"])
    BY <1>1, <1>8, <2>1 DEF AnswerTo, Messages
  <2> QED BY <1>1, <1>3, <2>2 DEF ask
<1> QED BY <1>4, <1>5, <1>6, <1>7, <1>8

LEMMA PiAnswersCatches ==
  ASSUME RecorderTypeOK, RecorderTypeOK', CatchUpInv, NEW i \in Instances, PiAnswers(i)
  PROVE  CatchUpInv'
<1>1. /\ UNCHANGED <<obsVars, st, file, unsaid, used>> /\ st[i] = "run" /\ asks[i] # << >>
      /\ asks'[i] = Tail(asks[i]) /\ \A j \in Instances : j # i => asks'[j] = asks[j]
  BY PiAnswersIs
<1>2. PICK n \in Messages : Sends(i, n) /\ AnswerTo(Head(asks[i]), n)
  BY PiAnswersIs
<1>3. PICK ask \in Int : ask = Head(asks[i]) /\ ask \in Asked(i)
  <2>1. asks[i] \in Seq(Int)
    BY DEF RecorderTypeOK, PiTyped
  <2> QED BY <1>1, <2>1, HeldHead, HeadTailProperties DEF Asked
<1>4. UNCHANGED <<stored, todo, cursor, client, context, named, calling, phase, ends, queue, reading, control, due,
                  missed, bound>>
  BY <1>1, ObsAre
<1>5. (Claimed' <=> Claimed) /\ Learnt' = Learnt /\ Latest' = Latest /\ Held(file)' = Held(file)
  BY <1>1, <1>4 DEF Claimed, Running, Learnt, Latest
<1>6. n.t # "entry" /\ (n.t = "page" => \A x \in Held(file) : x <= n.leaf)
      /\ MessageOK(n) /\ (~bound.announces \/ Claimed => Covers(n))
  <2>1. CASE n.t # "page"
    <3>1. n.t \in {"state", "control", "unknown"}
      BY <1>2, <2>1 DEF AnswerTo
    <3> QED BY <3>1 DEF MessageOK, Covers
  <2>2. CASE n.t = "page"
    <3>1. ask >= 0 /\ ask \in ToSet(file) \union {0} /\ n.entries = EntriesAfter(ask) /\ n.leaf = Leaf
      BY <1>2, <1>3, <2>2 DEF AnswerTo
    <3>2. FileTyped /\ Increasing(file) /\ Held(file) \subseteq 1 .. Latest /\ Latest \in Nat
      BY LatestTyped DEF RecorderTypeOK, CatchUpInv, KnowledgeOK, NumbersOK, Within
    <3>3. Leaf \in Held(file) \union {0} /\ \A x \in Held(file) : x <= Leaf
      BY <3>2, LeafIs
    <3>4. \A x \in Held(file) : x > 0 /\ x \in Nat
      BY <3>2
    <3>5. /\ Increasing(EntriesAfter(ask)) /\ Held(EntriesAfter(ask)) \subseteq Held(file)
          /\ \A x \in Held(file) : x > ask => x \in Held(EntriesAfter(ask))
      BY <3>1, <3>2, <3>4, AfterIs
    <3>6. MessageOK(n)
      <4>1. Leaf \in 0 .. Latest
        BY <3>2, <3>3
      <4>2. Held(file) \subseteq 1 .. Leaf
        <5>1. \A x \in Held(file) : x \in Nat /\ x > 0 /\ x <= Leaf
          BY <3>3, <3>4
        <5>2. Leaf \in Int
          BY <4>1
        <5> QED BY <5>1, <5>2
      <4> QED BY <2>2, <3>1, <3>5, <4>1, <4>2 DEF MessageOK
    <3>7. ~bound.announces \/ Claimed => Covers(n)
      <4>1. ~bound.announces \/ Claimed => AskCovers(ask)
        BY <1>3 DEF CatchUpInv, KnowledgeOK, CoverOK
      <4>2. ~bound.announces \/ Claimed => \A x \in Held(file) : x \in Learnt \/ x > ask
        BY <3>1, <3>4, <4>1 DEF AskCovers
      <4> QED BY <3>1, <3>5, <4>2 DEF Covers
    <3> QED BY <2>2, <3>1, <3>3, <3>6, <3>7
  <2> QED BY <2>1, <2>2
<1>7. Fits(n)'
  BY <1>4, <1>5, <1>6 DEF Fits, MessageOK, Covers, Within
<1>8. /\ Exchanges /\ out'[i] = Append(out[i], n) /\ \A j \in Instances : j # i => out'[j] = out[j]
      /\ Sent(i)' = Sent(i) \union {n}
  <2>1. Held(Tail(asks[i])) \subseteq Held(asks[i])
    <3>1. asks[i] \in Seq(Int)
      BY DEF RecorderTypeOK, PiTyped
    <3> QED BY <1>1, <3>1, HeldHead
  <2>2. \A j \in Instances : Asked(j)' \subseteq Asked(j)
    BY <1>1, <2>1 DEF Asked
  <2> QED BY <1>1, <1>2, <1>7, <2>2, SentMore
<1>9. KnowledgeOK' /\ CallsOK' /\ Learnt' = Learnt /\ Owed' = Owed
  BY <1>1, <1>5, <1>8, PiMoves
<1>10. ClaimOK'
  <2> SUFFICES ASSUME NEW c \in Instances, Claimed, c = client PROVE ClaimFor(c)'
    BY <1>4, <1>5 DEF ClaimOK
  <2>1. ClaimFor(c)
    BY DEF CatchUpInv, ClaimOK
  <2>2. CASE c = i
    <3>1. out[c] \in Seq(Messages) /\ unsaid \in Seq(Nat) /\ asks[c] \in Seq(Int)
      BY DEF RecorderTypeOK, PiTyped, FileTyped
    <3>2. OneAnswerFor(c)'
      <4>1. OneAnswer(out[c], asks[c], reading.inst = c)
        BY <2>1 DEF ClaimFor, OneAnswerFor
      <4>2. OneAnswer(Append(out[c], n), Tail(asks[c]), reading.inst = c)
        <5>1. CASE ~IsAnswer(n)
          <6>1. OneAnswer(out[c], Tail(asks[c]), reading.inst = c)
            BY <1>1, <2>2, <3>1, <4>1, AskGone
          <6> QED BY <3>1, <5>1, <6>1, SentAside
        <5>2. CASE IsAnswer(n)
          <6>1. Head(asks[c]) >= 0
            BY <1>2, <2>2, <5>2 DEF AnswerTo, IsAnswer
          <6> QED BY <1>1, <2>2, <3>1, <4>1, <6>1, SentAnswer
        <5> QED BY <5>1, <5>2
      <4> QED BY <1>1, <1>4, <1>8, <2>2, <4>2 DEF OneAnswerFor
    <3>3. ComingFor(c) => ComingFor(c)'
      <4>1. n.t = "page" => Owed \subseteq Learnt \union Held(n.entries)
        BY <1>6 DEF Covers, Owed
      <4> QED BY <1>4, <1>8, <1>9, <2>2, <4>1 DEF ComingFor
    <3>4. FirstFor(c) => FirstFor(c)'
      BY <1>4, <1>9 DEF FirstFor
    <3>5. ToldFor(c) => ToldFor(c)'
      <4> SUFFICES ASSUME ToldFor(c) PROVE ToldFor(c)'
        OBVIOUS
      <4>1. InTurn(Append(out[c], n), unsaid) /\ Said(Append(out[c], n)) = Said(out[c])
        BY <1>6, <3>1, TurnSent DEF ToldFor
      <4>2. InTurn(out'[c], unsaid') /\ ToCome(c)' = ToCome(c)
        BY <1>1, <1>8, <2>2, <4>1 DEF ToCome
      <4>3. CASE n.t # "page"
        <5>1. \A p : p.t = "page" => (p \in Sent(c)' <=> p \in Sent(c))
          BY <1>8, <2>2, <4>3
        <5> QED BY <1>1, <1>4, <1>9, <4>2, <5>1, ToldStays
      <4>4. CASE n.t = "page"
        <5>1. \A x \in Held(file) : Found(c, x)'
          BY <1>6, <1>8, <2>2, <4>4 DEF Found
        <5>2. Follows(c)'
          BY <1>5, <5>1 DEF Follows
        <5> QED BY <4>2, <5>2 DEF ToldFor
      <4> QED BY <4>3, <4>4
    <3> QED BY <1>4, <2>1, <3>2, <3>3, <3>4, <3>5 DEF ClaimFor
  <2>3. CASE c # i
    <3>1. Unnoticed
      BY <1>1, <1>4, <1>5, <1>8, <2>3 DEF Unnoticed
    <3>2. ClaimOK' /\ Claimed' /\ c = client'
      BY <1>4, <1>5, <3>1, UnnoticedKeeps DEF CatchUpInv
    <3> QED BY <3>2 DEF ClaimOK
  <2> QED BY <2>2, <2>3
<1> QED BY <1>9, <1>10 DEF CatchUpInv

-----------------------------------------------------------------------------
(* What is heard.                                                          *)

(* Process i's next message is taken.                                      *)
Takes(i, m) ==
  /\ todo = << >> /\ (queue = << >> \/ reading # NoRead)
  /\ st[i] # "none" /\ out[i] # << >> /\ m = Head(out[i]) /\ m \in Sent(i)
  /\ out'[i] = Tail(out[i]) /\ \A j \in Instances : j # i => out'[j] = out[j]
  /\ UNCHANGED <<st, file, unsaid, used, bound>>

LEMMA HearsIs ==
  ASSUME RecorderTypeOK, NEW i \in Instances, Hears(i)
  PROVE  \E m \in Messages :
           /\ Takes(i, m)
           /\ m.t = "state" => IF calling = "state" /\ context = i THEN Identified ELSE Unheard
           /\ m.t = "page" => IF reading.inst = i THEN Caught(m) ELSE Unheard
           /\ m.t = "unknown" => IF reading.inst # i THEN Unheard
                                 ELSE IF Running(i) THEN ReadAgain ELSE CannotReadAgain
           /\ m.t = "control" => IF control.inst = i THEN Answered(m.v) ELSE Unheard
           /\ m.t = "live" => IF client = i THEN LiveHeard(m) ELSE Unheard
           /\ m.t = "entry" => IF client = i THEN EntryHeard(m) ELSE Unheard
<1> DEFINE m == Head(out[i])
<1>1. /\ todo = << >> /\ (queue = << >> \/ reading # NoRead)
      /\ st[i] \in {"run", "gone", "reported"} /\ out[i] # << >> /\ out' = [out EXCEPT ![i] = Tail(@)]
      /\ UNCHANGED <<st, file, unsaid, used, bound>>
      /\ CASE m.t = "state" -> IF calling = "state" /\ context = i THEN Identified ELSE Unheard
           [] m.t = "page" -> IF reading.inst = i THEN Caught(m) ELSE Unheard
           [] m.t = "unknown" -> IF reading.inst # i THEN Unheard
                                 ELSE IF Running(i) THEN ReadAgain ELSE CannotReadAgain
           [] m.t = "control" -> IF control.inst = i THEN Answered(m.v) ELSE Unheard
           [] m.t = "live" -> IF client = i THEN LiveHeard(m) ELSE Unheard
           [] m.t = "entry" -> IF client = i THEN EntryHeard(m) ELSE Unheard
  BY DEF Hears, Quiet, fileVars
<1>2. out \in [Instances -> Seq(Messages)]
  BY DEF RecorderTypeOK, PiTyped
<1>3. m \in Messages /\ m \in Sent(i)
  BY <1>1, <1>2, HeldHead, HeadTailProperties DEF Sent
<1>4. m.t \in {"state", "unknown", "page", "control", "live", "entry"}
  BY <1>3, MessagesAre
<1>5. Takes(i, m)
  BY <1>1, <1>2, <1>3 DEF Takes
<1> HIDE DEF m
<1>6. m.t = "state" => IF calling = "state" /\ context = i THEN Identified ELSE Unheard
  BY <1>1
<1>7. m.t = "page" => IF reading.inst = i THEN Caught(m) ELSE Unheard
  BY <1>1
<1>8. m.t = "unknown" => IF reading.inst # i THEN Unheard
                         ELSE IF Running(i) THEN ReadAgain ELSE CannotReadAgain
  BY <1>1
<1>9. m.t = "control" => IF control.inst = i THEN Answered(m.v) ELSE Unheard
  BY <1>1
<1>10. m.t = "live" => IF client = i THEN LiveHeard(m) ELSE Unheard
  BY <1>1
<1>11. m.t = "entry" => IF client = i THEN EntryHeard(m) ELSE Unheard
  BY <1>1
<1> QED BY <1>3, <1>5, <1>6, <1>7, <1>8, <1>9, <1>10, <1>11

(* A message that is taken is on the way no more.                          *)
LEMMA TakesIs ==
  ASSUME RecorderTypeOK, NEW i \in Instances, NEW m \in Messages, Takes(i, m)
  PROVE  /\ out[i] \in Seq(Messages) /\ out[i] # << >> /\ m = Head(out[i])
         /\ Sent(i) = {m} \union Sent(i)' /\ \A j \in Instances : Sent(j)' \subseteq Sent(j)
<1>1. out[i] \in Seq(Messages) /\ out[i] # << >> /\ m = Head(out[i]) /\ out'[i] = Tail(out[i])
  BY DEF Takes, RecorderTypeOK, PiTyped
<1>2. Held(out[i]) = {m} \union Held(Tail(out[i]))
  BY <1>1, HeldHead
<1>3. Sent(i) = {m} \union Sent(i)'
  BY <1>1, <1>2 DEF Sent
<1>4. \A j \in Instances : j # i => Sent(j)' = Sent(j)
  BY DEF Takes, Sent
<1> QED BY <1>1, <1>3, <1>4

(* Of a message that neither answers a read nor announces an entry, nothing*)
(* of what is on the way is lost.                                          *)
LEMMA TakenAside ==
  ASSUME RecorderTypeOK, NEW i \in Instances, NEW m \in Messages, Takes(i, m), NEW c \in Instances, OneAnswerFor(c),
         c = i => ~IsAnswer(m)
  PROVE  /\ OneAnswer(out'[c], asks[c], reading.inst = c)
         /\ \A p : p.t = "page" => (p \in Sent(c)' <=> p \in Sent(c))
         /\ ToldFor(c) /\ (c = i => m.t # "entry") => InTurn(out'[c], unsaid') /\ ToCome(c)' = ToCome(c)
<1>1. /\ out[i] \in Seq(Messages) /\ out[i] # << >> /\ m = Head(out[i])
      /\ Sent(i) = {m} \union Sent(i)'
  BY TakesIs
<1>2. out'[i] = Tail(out[i]) /\ (\A j \in Instances : j # i => out'[j] = out[j]) /\ unsaid' = unsaid
  BY DEF Takes
<1>3. CASE c = i
  <2>1. OneAnswer(out'[c], asks[c], reading.inst = c)
    BY <1>1, <1>2, <1>3, AnswerRead DEF OneAnswerFor
  <2>2. \A p : p.t = "page" => (p \in Sent(c)' <=> p \in Sent(c))
    BY <1>1, <1>3 DEF IsAnswer
  <2>3. ToldFor(c) /\ m.t # "entry" => InTurn(Tail(out[c]), unsaid) /\ Said(Tail(out[c])) = Said(out[c])
    BY <1>1, <1>3, TurnRead DEF ToldFor
  <2>4. ToldFor(c) /\ m.t # "entry" => InTurn(out'[c], unsaid') /\ ToCome(c)' = ToCome(c)
    BY <1>2, <1>3, <2>3 DEF ToCome
  <2> QED BY <1>3, <2>1, <2>2, <2>4
<1>4. CASE c # i
  BY <1>2, <1>4 DEF OneAnswerFor, Sent, ToCome, ToldFor
<1> QED BY <1>3, <1>4

LEMMA TakesMoves ==
  ASSUME RecorderTypeOK, RecorderTypeOK', KnowledgeOK, NEW i \in Instances, NEW m \in Messages, Takes(i, m),
         UNCHANGED <<context, client, stored, cursor>>, Within(due'), todo' = todo \/ TodoOK(todo'),
         reading'.inst \in {0, client, reading.inst}, Claimed' => Claimed,
         \A j \in Instances : \A a \in Asked(j)' : a \in Asked(j) \/ (st[j] # "none" /\ AskFits(a)')
  PROVE  KnowledgeOK'
<1>1. /\ UNCHANGED <<st, file, unsaid, used, bound>> /\ todo = << >>
  BY DEF Takes
<1>2. used.instances # 0
  BY ContextIs DEF Takes, KnowledgeOK
<1>3. Exchanges
  BY <1>1, TakesIs DEF Exchanges
<1>4. Moves
  BY <1>1, <1>2, <1>3 DEF Moves
<1> QED BY <1>4, MovesKeeps

(* A message the client need not know of.                                  *)
LEMMA AsideCatches ==
  ASSUME RecorderTypeOK, RecorderTypeOK', CatchUpInv, NEW i \in Instances, NEW m \in Messages, Takes(i, m),
         UNCHANGED <<context, client, stored, cursor, named, phase, calling, queue, reading, due, missed, asks, ends>>,
         control' \in {control, NoControl}, todo' = todo \/ TodoOK(todo'), Learnt' = Learnt,
         client = i /\ IsAnswer(m) => reading.inst # i, client = i => m.t # "entry"
  PROVE  CatchUpInv'
<1>1. UNCHANGED <<st, file, unsaid, used, bound>>
  BY DEF Takes
<1>2. Claimed' <=> Claimed
  BY <1>1 DEF Claimed, Running
<1>3. KnowledgeOK'
  <2>1. Within(due')
    BY DEF CatchUpInv, KnowledgeOK, NumbersOK, Within
  <2>2. \A j \in Instances : Asked(j)' = Asked(j)
    BY DEF Asked
  <2> QED BY <1>2, <2>1, <2>2, TakesMoves DEF CatchUpInv
<1>4. CallsOK'
  <2>1. EntriesIn(stored)' = EntriesIn(stored)
    OBVIOUS
  <2> QED BY <2>1 DEF CatchUpInv, CallsOK, OneConnect
<1>5. ClaimOK'
  <2> SUFFICES ASSUME NEW c \in Instances, Claimed, c = client PROVE ClaimFor(c)'
    BY <1>2 DEF ClaimOK
  <2>1. ClaimFor(c)
    BY DEF CatchUpInv, ClaimOK
  <2>2. c = i => ~IsAnswer(m)
    <3>1. m \in Held(out[i])
      BY DEF Takes, Sent
    <3> QED BY <2>1, <3>1, NoAnswer DEF ClaimFor, OneAnswerFor
  <2>3. /\ OneAnswer(out'[c], asks[c], reading.inst = c)
        /\ \A p : p.t = "page" => (p \in Sent(c)' <=> p \in Sent(c))
        /\ ToldFor(c) => InTurn(out'[c], unsaid') /\ ToCome(c)' = ToCome(c)
    <3>1. OneAnswerFor(c) /\ (c = i => m.t # "entry")
      BY <2>1 DEF ClaimFor
    <3> QED BY <2>2, <3>1, TakenAside
  <2>4. OneAnswerFor(c)'
    BY <2>3 DEF OneAnswerFor
  <2>5. ComingFor(c) => ComingFor(c)'
    <3>1. Owed' = Owed
      BY <1>1 DEF Owed
    <3> QED BY <2>3, <3>1 DEF ComingFor
  <2>6. FirstFor(c) => FirstFor(c)'
    BY DEF FirstFor
  <2>7. ToldFor(c) => ToldFor(c)'
    BY <1>1, <2>3, ToldStays
  <2> QED BY <1>1, <2>1, <2>4, <2>5, <2>6, <2>7 DEF ClaimFor
<1> QED BY <1>3, <1>4, <1>5 DEF CatchUpInv

LEMMA UnheardCatches ==
  ASSUME RecorderTypeOK, RecorderTypeOK', CatchUpInv, NEW i \in Instances, NEW m \in Messages, Takes(i, m), Unheard,
         client = i /\ IsAnswer(m) => reading.inst # i, client = i => m.t # "entry"
  PROVE  CatchUpInv'
<1>1. UNCHANGED <<context, client, stored, cursor, named, phase, calling, queue, reading, due, missed, asks, ends, control, todo>>
  BY DEF Unheard, storeVars, indexVars, connectVars, endVars, readVars, ghostVars
<1>2. Learnt' = Learnt
  BY <1>1 DEF Learnt
<1> QED BY <1>1, <1>2, AsideCatches

LEMMA AnsweredCatches ==
  ASSUME RecorderTypeOK, RecorderTypeOK', CatchUpInv, NEW i \in Instances, NEW m \in Messages, Takes(i, m), m.t = "control",
         Answered(m.v)
  PROVE  CatchUpInv'
<1>1. /\ UNCHANGED <<context, client, named, phase, calling, queue, reading, due, missed, asks, ends>>
      /\ control' = NoControl /\ Record(Says(control.action, m.v)) /\ todo = << >>
  BY DEF Answered, connectVars, endVars, readVars, ghostVars, Takes
<1>2. context \in Nat /\ context # 0 /\ lives \in Nat
  BY ContextIs DEF Takes, CatchUpInv, KnowledgeOK
<1>3. m.v \in Stops
  BY MessagesAre
<1>4. Notes(Says(control.action, m.v))
  BY <1>2, <1>3, SaysNotes
<1>5. /\ UNCHANGED <<stored, cursor>> /\ (todo' = todo \/ (todo = << >> /\ TodoOK(todo')))
      /\ Learnt' = Learnt
  BY <1>1, <1>4, RecordsNotes
<1> QED BY <1>1, <1>5, AsideCatches DEF IsAnswer

LEMMA LiveHeardCatches ==
  ASSUME RecorderTypeOK, RecorderTypeOK', CatchUpInv, NEW i \in Instances, NEW m \in Messages, Takes(i, m), m.t = "live",
         LiveHeard(m)
  PROVE  CatchUpInv'
<1>1. /\ UNCHANGED <<context, client, named, phase, calling, reading, missed, asks, ends, control>>
      /\ Record(<< Live(1, m.k, m.v) >>) /\ todo = << >>
      /\ \/ m.k \in Boundary /\ queue' = Append(queue, "event") /\ due' = due \union m.had
         \/ m.k \notin Boundary /\ queue' = queue /\ due' = due
      /\ UNCHANGED <<st, file, unsaid, used, bound>>
  BY DEF LiveHeard, connectVars, endVars, ghostVars, Takes
<1>2. context \in Nat /\ context # 0 /\ lives \in Nat
  BY ContextIs DEF Takes, CatchUpInv, KnowledgeOK
<1>3. Notes(<< Live(1, m.k, m.v) >>)
  <2>1. m.k \in LiveKinds /\ m.v \in Reasons
    BY MessagesAre
  <2> QED BY <1>2, <2>1, NotesAre
<1>4. /\ UNCHANGED <<stored, cursor>> /\ (todo' = todo \/ (todo = << >> /\ TodoOK(todo')))
      /\ Learnt' = Learnt /\ EntriesIn(stored)' = EntriesIn(stored)
  BY <1>1, <1>3, RecordsNotes
<1>5. CASE queue' = queue /\ due' = due
  BY <1>1, <1>4, <1>5, AsideCatches DEF IsAnswer
<1>6. CASE queue' = Append(queue, "event") /\ due' = due \union m.had
  <2>1. Claimed' <=> Claimed
    BY <1>1 DEF Claimed, Running
  <2>2. KnowledgeOK'
    <3>1. Within(due')
      <4>1. Within(m.had)
        BY DEF Takes, CatchUpInv, KnowledgeOK, MessagesOK, MessageOK
      <4> QED BY <1>6, <4>1 DEF CatchUpInv, KnowledgeOK, NumbersOK, Within
    <3>2. \A j \in Instances : Asked(j)' = Asked(j)
      BY <1>1 DEF Asked
    <3> QED BY <1>1, <1>4, <2>1, <3>1, <3>2, TakesMoves DEF CatchUpInv
  <2>3. CallsOK'
    <3>1. queue \in Seq({"connect", "event", "close"}) /\ OneConnect(queue, calling)
      BY DEF RecorderTypeOK, ReadTyped, CatchUpInv, CallsOK
    <3>2. OneConnect(queue', calling')
      BY <1>1, <1>6, <3>1, QueueAppend
    <3> QED BY <1>1, <1>4, <3>2 DEF CatchUpInv, CallsOK
  <2>4. ClaimOK'
    <3> SUFFICES ASSUME NEW c \in Instances, Claimed, c = client PROVE ClaimFor(c)'
      BY <1>1, <2>1 DEF ClaimOK
    <3>1. ClaimFor(c)
      BY DEF CatchUpInv, ClaimOK
    <3>2. /\ OneAnswer(out'[c], asks[c], reading.inst = c)
          /\ \A p : p.t = "page" => (p \in Sent(c)' <=> p \in Sent(c))
          /\ ToldFor(c) => InTurn(out'[c], unsaid') /\ ToCome(c)' = ToCome(c)
      BY <3>1, TakenAside DEF ClaimFor, IsAnswer
    <3>3. OneAnswerFor(c)'
      BY <1>1, <3>2 DEF OneAnswerFor
    <3>4. ComingFor(c)'
      BY <1>1, <1>6, ComingQueued
    <3>5. FirstFor(c) => FirstFor(c)'
      <4>1. queue \in Seq({"connect", "event", "close"})
        BY DEF RecorderTypeOK, ReadTyped
      <4>2. queue # << >> => queue' # << >> /\ Head(queue') = Head(queue)
        <5>1. /\ queue' # << >> /\ Len(queue) \in Nat /\ \A n \in 1 .. Len(queue) : queue'[n] = queue[n]
              /\ queue' \in Seq({"connect", "event", "close"})
          BY <1>6, <4>1, AppendIs
        <5>2. queue # << >> => Head(queue) = queue[1] /\ Len(queue) # 0 /\ Head(queue') = queue'[1]
          BY <4>1, <5>1, HeldHead
        <5>3. queue # << >> => 1 \in 1 .. Len(queue)
          BY <5>1, <5>2
        <5> QED BY <5>1, <5>2, <5>3
      <4> QED BY <1>1, <1>4, <4>2 DEF FirstFor
    <3>6. ToldFor(c) => ToldFor(c)'
      BY <1>1, <1>4, <3>2, ToldStays
    <3> QED BY <1>1, <3>1, <3>3, <3>4, <3>5, <3>6 DEF ClaimFor
  <2> QED BY <2>2, <2>3, <2>4 DEF CatchUpInv
<1> QED BY <1>1, <1>5, <1>6

LEMMA IdentifiedCatches ==
  ASSUME RecorderTypeOK, RecorderTypeOK', CatchUpInv, NEW i \in Instances, NEW m \in Messages, Takes(i, m), m.t = "state",
         calling = "state", context = i, Identified
  PROVE  CatchUpInv'
<1> DEFINE first == IF opened THEN << >> ELSE << Live(1, "store-opened", "none") >>
           second == << Live(IF opened THEN 1 ELSE 2, "attached", "none") >>
<1>1. /\ UNCHANGED <<context, client, phase, reading, missed, due, asks, ends, control>>
      /\ Record(first \o second) /\ todo = << >> /\ named' = TRUE /\ calling' = "reading"
      /\ queue' = Append(queue, "connect") /\ (queue = << >> \/ reading # NoRead)
      /\ UNCHANGED <<st, file, unsaid, used, bound>>
  BY DEF Identified, endVars, ghostVars, Takes
<1>2. context \in Nat /\ context # 0 /\ lives \in Nat
  BY ContextIs DEF Takes, CatchUpInv, KnowledgeOK
<1>3. Notes(first \o second)
  <2>1. Notes(first) /\ Notes(second)
    BY <1>2, NotesAre
  <2> HIDE DEF first, second
  <2> QED BY <2>1, NotesJoin
<1> HIDE DEF first, second
<1>4. /\ UNCHANGED <<stored, cursor>> /\ (todo' = todo \/ (todo = << >> /\ TodoOK(todo')))
      /\ Learnt' = Learnt /\ EntriesIn(stored)' = EntriesIn(stored)
  BY <1>1, <1>3, RecordsNotes
<1>5. Claimed' <=> Claimed
  BY <1>1 DEF Claimed, Running
<1>6. KnowledgeOK'
  <2>1. Within(due') /\ \A j \in Instances : Asked(j)' = Asked(j)
    BY <1>1 DEF CatchUpInv, KnowledgeOK, NumbersOK, Within, Asked
  <2> QED BY <1>1, <1>4, <1>5, <2>1, TakesMoves DEF CatchUpInv
<1>7. CallsOK'
  <2>1. queue \in Seq({"connect", "event", "close"}) /\ OneConnect(queue, calling)
    BY DEF RecorderTypeOK, ReadTyped, CatchUpInv, CallsOK
  <2>2. OneConnect(queue', calling')
    BY <1>1, <2>1, QueueAppend
  <2> QED BY <1>1, <1>4, <2>2 DEF CatchUpInv, CallsOK
<1>8. ClaimOK'
  <2> SUFFICES ASSUME NEW c \in Instances, Claimed, c = client PROVE ClaimFor(c)'
    BY <1>1, <1>5 DEF ClaimOK
  <2>1. ClaimFor(c)
    BY DEF CatchUpInv, ClaimOK
  <2>2. /\ OneAnswer(out'[c], asks[c], reading.inst = c)
        /\ \A p : p.t = "page" => (p \in Sent(c)' <=> p \in Sent(c))
        /\ ToldFor(c) => InTurn(out'[c], unsaid') /\ ToCome(c)' = ToCome(c)
    BY <2>1, TakenAside DEF ClaimFor, IsAnswer
  <2>3. OneAnswerFor(c)'
    BY <1>1, <2>2 DEF OneAnswerFor
  <2>4. ComingFor(c)'
    BY <1>1, ComingQueued
  <2>5. FirstFor(c) => FirstFor(c)'
    <3> SUFFICES ASSUME FirstFor(c) PROVE FirstFor(c)'
      OBVIOUS
    <3>1. ~named /\ Learnt = {}
      BY DEF FirstFor
    <3>2. queue = << >>
      BY <1>1, <3>1 DEF CatchUpInv, CallsOK
    <3>3. Head(queue') = "connect" /\ queue' # << >>
      <4>1. queue' = << "connect" >>
        BY <1>1, <3>2
      <4> QED BY <4>1
    <3> QED BY <1>1, <1>4, <3>1, <3>3 DEF FirstFor
  <2>6. ToldFor(c) => ToldFor(c)'
    BY <1>1, <1>4, <2>2, ToldStays
  <2> QED BY <1>1, <2>1, <2>3, <2>4, <2>5, <2>6 DEF ClaimFor
<1> QED BY <1>6, <1>7, <1>8 DEF CatchUpInv

-----------------------------------------------------------------------------
(* Entries that are heard.                                                 *)

(* No page is on the way while Pi's session is not known.                  *)
LEMMA NoPageUnnamed ==
  ASSUME RecorderTypeOK, CallsOK, NEW c \in Instances, OneAnswerFor(c), ~named
  PROVE  \A p \in Sent(c) : p.t # "page"
<1>1. reading.inst # c
  BY InstancesAre DEF CallsOK, NoRead
<1> QED BY <1>1, NoAnswer DEF OneAnswerFor, Sent

LEMMA EntryHeardCatches ==
  ASSUME RecorderTypeOK, RecorderTypeOK', CatchUpInv, NEW i \in Instances, NEW m \in Messages, Takes(i, m), m.t = "entry",
         client = i, EntryHeard(m)
  PROVE  CatchUpInv'
<1>1. /\ UNCHANGED <<context, client, named, phase, calling, queue, reading, due, missed, asks, ends, control>>
      /\ todo = << >> /\ (queue = << >> \/ reading # NoRead)
      /\ UNCHANGED <<st, file, unsaid, used, bound>>
  BY DEF EntryHeard, connectVars, endVars, readVars, ghostVars, Takes
<1>2. bound.announces
  BY DEF Takes, CatchUpInv, KnowledgeOK, OrderOK
<1>3. PICK e \in Nat : e = m.e
  BY MessagesAre
<1>4. Within({e})
  BY <1>3 DEF Takes, CatchUpInv, KnowledgeOK, MessagesOK, MessageOK
<1>5. used.instances # 0
  BY ContextIs DEF Takes, CatchUpInv, KnowledgeOK
<1> DEFINE new == << Entry(e) >>
<1>6. EntriesIn(new) = {e} /\ TodoOK(new)
  <2>1. Entry(e) \in Recordings /\ Entry(e).k = "entry" /\ Entry(e).id = <<0, e>>
    BY Numbered, Recordable DEF Entry, EntryId
  <2>2. new \in Seq(Recordings) /\ Len(new) = 1 /\ new[1] = Entry(e)
    BY <2>1
  <2> HIDE DEF new
  <2>3. \A n \in 1 .. Len(new) : new[n].k = "entry" /\ new[n].id[2] = e /\ new[n].id[1] = 0
    BY <2>1, <2>2
  <2>4. EntriesIn(new) = {e}
    <3>1. 1 \in 1 .. Len(new)
      BY <2>2
    <3>2. \A x : x \in EntriesIn(new) <=> x = e
      BY <2>2, <2>3, <3>1, EntriesAre
    <3> QED BY <3>2
  <2> QED BY <1>2, <1>4, <1>5, <2>3, <2>4 DEF TodoOK, KindsIn
<1> HIDE DEF new
<1>7. /\ UNCHANGED <<stored, cursor>> /\ (todo' = todo \/ TodoOK(todo')) /\ EntriesIn(stored)' = EntriesIn(stored)
      /\ named /\ phase = "up" => Learnt' = Learnt \union {e}
      /\ ~named => Learnt' = Learnt
  <2>1. CASE ~named
    <3>1. UNCHANGED <<stored, cursor, todo>>
      BY <2>1 DEF EntryHeard, storeVars, indexVars
    <3> QED BY <2>1, <3>1 DEF Learnt
  <2>2. CASE named
    <3>1. Record(new)
      BY <1>3, <2>2 DEF EntryHeard, new
    <3>2. << >> \o new = new
      BY DEF new
    <3>3. UNCHANGED <<stored, cursor>> /\ todo' = IF phase = "up" THEN new ELSE todo
      BY <1>1, <3>1, <3>2 DEF Record
    <3>4. EntriesIn(todo) = {} /\ (phase = "up" => EntriesIn(todo)' = {e})
      BY <1>1, <1>6, <3>3, EntriesNone
    <3>5. phase = "up" => Learnt' = Learnt \union {e}
      BY <3>3, <3>4 DEF Learnt
    <3> QED BY <1>6, <2>2, <3>3, <3>5
  <2> QED BY <2>1, <2>2
<1>8. Claimed' <=> Claimed
  BY <1>1 DEF Claimed, Running
<1>9. KnowledgeOK'
  <2>1. Within(due') /\ \A j \in Instances : Asked(j)' = Asked(j)
    BY <1>1 DEF CatchUpInv, KnowledgeOK, NumbersOK, Within, Asked
  <2> QED BY <1>1, <1>7, <1>8, <2>1, TakesMoves DEF CatchUpInv
<1>10. CallsOK'
  BY <1>1, <1>7 DEF CatchUpInv, CallsOK, OneConnect
<1>11. ClaimOK'
  <2> SUFFICES ASSUME Claimed PROVE ClaimFor(i)'
    BY <1>1, <1>8 DEF ClaimOK
  <2>1. ClaimFor(i) /\ FirstFor(i) /\ ToldFor(i) /\ OneAnswerFor(i)
    BY <1>2 DEF CatchUpInv, ClaimOK, ClaimFor
  <2>2. /\ OneAnswer(out'[i], asks[i], reading.inst = i)
        /\ \A p : p.t = "page" => (p \in Sent(i)' <=> p \in Sent(i))
    BY <2>1, TakenAside DEF IsAnswer
  <2>3. OneAnswerFor(i)'
    BY <1>1, <2>2 DEF OneAnswerFor
  <2>4. Learnt \subseteq Learnt' /\ Owed' = Owed /\ Held(file)' = Held(file) /\ phase = "up"
    BY <1>1, <1>7 DEF Claimed, Owed
  <2>5. ComingFor(i) => ComingFor(i)'
    BY <1>1, <2>2, <2>4 DEF ComingFor
  <2>6. FirstFor(i)'
    <3>1. CASE named
      BY <1>1, <2>1, <3>1 DEF FirstFor
    <3>2. CASE ~named
      BY <1>1, <1>7, <2>1, <3>2 DEF FirstFor
    <3> QED BY <3>1, <3>2
  <2>7. /\ InTurn(out'[i], unsaid') /\ Said(out[i]) = Said(out'[i]) \union {e}
        /\ \A x \in Said(out'[i]) \union Held(unsaid) : e < x
    <3>1. out[i] \in Seq(Messages) /\ out[i] # << >> /\ m = Head(out[i]) /\ out'[i] = Tail(out[i])
      BY TakesIs DEF Takes
    <3> QED BY <1>1, <1>3, <2>1, <3>1, TurnRead DEF ToldFor
  <2>8. ToldFor(i)'
    <3>1. CASE ~named
      <4>1. \A p \in Sent(i) : p.t # "page"
        BY <2>1, <3>1, NoPageUnnamed DEF CatchUpInv
      <4>2. calling # "no"
        BY <3>1, InstancesAre DEF CatchUpInv, CallsOK
      <4> QED BY <1>1, <2>2, <2>7, <4>1, <4>2 DEF ToldFor
    <3>2. CASE named
      <4> SUFFICES ASSUME Follows(i) PROVE Follows(i)'
        BY <1>1, <2>1, <2>2, <2>7 DEF ToldFor
      <4>1. Learnt' = Learnt \union {e}
        BY <1>7, <2>4, <3>2
      <4>2. ToCome(i) = ToCome(i)' \union {e} /\ \A x \in ToCome(i)' : e < x
        BY <1>1, <2>7 DEF ToCome
      <4>3. \A x : Found(i, x) \/ x = e => Found(i, x)'
        BY <2>2, <4>1 DEF Found
      <4>4. \A x : Found(i, x) \/ x \in ToCome(i) => Found(i, x)' \/ x \in ToCome(i)'
        BY <4>2, <4>3
      <4>5. ASSUME NEW y \in Learnt', NEW x \in Held(file), x < y
            PROVE  Found(i, x)'
        <5>1. CASE y \in Learnt
          BY <4>3, <4>5, <5>1 DEF Follows
        <5>2. CASE y = e
          <6>1. Found(i, x) \/ x \in ToCome(i)
            BY <4>2, <4>5, <5>2 DEF Follows
          <6>2. x \in Nat
            BY DEF Held, RecorderTypeOK, FileTyped
          <6>3. ~(e < x)
            BY <4>5, <5>2, <6>2
          <6> QED BY <4>2, <4>3, <6>1, <6>3
        <5> QED BY <4>1, <5>1, <5>2
      <4>6. \A y \in ToCome(i)', x \in Held(file) : x < y => Found(i, x)' \/ x \in ToCome(i)'
        BY <4>2, <4>4 DEF Follows
      <4>7. st[i] = "run" => \A x \in Held(file) : Found(i, x)' \/ x \in ToCome(i)'
        BY <4>4 DEF Follows
      <4> QED BY <1>1, <4>5, <4>6, <4>7 DEF Follows
    <3> QED BY <3>1, <3>2
  <2> QED BY <1>1, <2>1, <2>3, <2>5, <2>6, <2>8 DEF ClaimFor
<1> QED BY <1>9, <1>10, <1>11 DEF CatchUpInv

(* What is recorded of a page: the entries that are not.                   *)
LEMMA PageIs ==
  ASSUME RecorderTypeOK, StoreInv, KnowledgeOK, todo = << >>, used.instances # 0, context # 0, phase # "down", NEW m \in Messages,
         m.t = "page", MessageOK(m), ~bound.announces => Covers(m), Caught(m)
  PROVE  /\ UNCHANGED <<stored, cursor>> /\ EntriesIn(stored)' = EntriesIn(stored)
         /\ (todo' = todo \/ TodoOK(todo')) /\ Learnt \subseteq Learnt'
         /\ phase = "up" => Learnt' = Learnt \union Held(m.entries)
<1> DEFINE entries == m.entries
           places == {n \in DOMAIN entries : EntryId(entries[n]) \notin seen}
           added == Selected(entries, places)
           report == reading.since = 0 \/ reading.again \/ added # << >>
           first == [n \in DOMAIN added |-> Entry(added[n])]
           second == IF report THEN << Live(1, "catch-up", "none") >> ELSE << >>
           third == IF leaf = m.leaf THEN << >> ELSE << LeafAt(IF report THEN 2 ELSE 1, m.leaf) >>
<1>1. Record(first \o second \o third)
  BY DEF Caught
<1>2. entries \in Seq(Nat) /\ m.leaf \in Nat
  BY MessagesAre
<1>3. added \in Seq(Nat) /\ Held(added) = {entries[n] : n \in places \cap (1 .. Len(entries))} /\ Increasing(added)
  BY <1>2, SelectedTyped, HeldSelected, IncreasingSelected DEF MessageOK
<1>4. seen = Ids(stored) /\ stored \in Seq(Stored) /\ EntriesIn(todo) = {} /\ Learnt = EntriesIn(stored)
  <2>1. EntriesIn(todo) = {}
    BY EntriesNone
  <2>2. seen = Ids(stored) /\ stored \in Seq(Stored)
    BY DEF StoreInv, OweInv, RecorderTypeOK, StoreTyped
  <2> QED BY <2>1, <2>2 DEF Learnt
<1>5. ASSUME NEW x \in Nat, EntryId(x) \in Ids(stored)
      PROVE  x \in EntriesIn(stored)
  <2>1. PICK n \in 1 .. Len(stored) : stored[n].id = EntryId(x) /\ stored[n] \in Stored
    BY <1>4, <1>5, IdsOf
  <2>2. PICK y \in Stored : y = stored[n]
    BY <2>1
  <2> HIDE DEF entries, places, added, report, first, second, third
  <2>3. Len(y.id) = 2 /\ y.id[1] = 0 /\ y.id[2] = x
    <3>1. y.id = << 0, x >>
      BY <2>1, <2>2 DEF EntryId
    <3>2. Len(<< 0, x >>) = 2 /\ << 0, x >>[1] = 0 /\ << 0, x >>[2] = x
      OBVIOUS
    <3> QED BY <3>1, <3>2
  <2>4. y \in Recordings
    <3>1. y \in Derivations => Len(y.id) = 4
      BY Lengths
    <3> QED BY <2>3, <3>1 DEF Stored
  <2>5. stored[n].k = "entry" /\ stored[n].id[2] = x
    BY <2>2, <2>3, <2>4 DEF KnowledgeOK, KindsOK, KindsIn
  <2> QED BY <1>4, <2>5, EntriesAre
<1>6. Held(added) \subseteq Held(entries) /\ Held(entries) \subseteq Held(added) \union EntriesIn(stored)
  <2>1. DOMAIN entries = 1 .. Len(entries) /\ \A n \in 1 .. Len(entries) : entries[n] \in Nat
    BY <1>2
  <2> HIDE DEF added, entries
  <2>2. Held(added) \subseteq Held(entries)
    BY <1>3 DEF Held
  <2>3. ASSUME NEW n \in 1 .. Len(entries)
        PROVE  entries[n] \in Held(added) \union EntriesIn(stored)
    <3>1. CASE n \in places
      BY <1>3, <3>1
    <3>2. CASE n \notin places
      <4>1. EntryId(entries[n]) \in Ids(stored) /\ entries[n] \in Nat
        BY <1>4, <2>1, <3>2
      <4> QED BY <1>5, <4>1
    <3> QED BY <3>1, <3>2
  <2> QED BY <2>2, <2>3 DEF Held
<1>7. Notes(second \o third)
  <2>1. context \in Nat /\ context # 0 /\ lives \in Nat
    BY Numbered
  <2> HIDE DEF report
  <2>2. Notes(second) /\ Notes(third)
    BY <1>2, <2>1, NotesAre
  <2> HIDE DEF second, third
  <2> QED BY <2>2, NotesJoin
<1>8. /\ DOMAIN added = 1 .. Len(added) /\ Len(added) \in Nat /\ first \in Seq(Recordings) /\ Len(first) = Len(added)
      /\ \A n \in 1 .. Len(added) : first[n] = Entry(added[n]) /\ added[n] \in Nat
  <2> HIDE DEF added
  <2>1. DOMAIN added = 1 .. Len(added) /\ Len(added) \in Nat /\ \A n \in 1 .. Len(added) : added[n] \in Nat
    BY <1>3
  <2>2. \A n \in 1 .. Len(added) : Entry(added[n]) \in Recordings
    BY <2>1, Numbered, Recordable
  <2> QED BY <2>1, <2>2
<1> DEFINE rest == second \o third
           all == first \o rest
<1>9. first \o second \o third = all
  <2>1. second \in Seq(Recordings) /\ third \in Seq(Recordings)
    <3> HIDE DEF report
    <3> QED BY <1>2, Numbered, Recordable
  <2> HIDE DEF first, second, third
  <2> QED BY <1>8, <2>1, ConcatAssociative
<1> HIDE DEF first, second, third, report, added, places, rest
<1>10. rest \in Seq(Recordings) /\ EntriesIn(rest) = {} /\ \A n \in 1 .. Len(rest) : rest[n].k # "entry" /\ rest[n].id[1] # 0
  BY <1>7, NotesFit DEF Notes, rest
<1>11. /\ all \in Seq(Recordings) /\ Len(all) = Len(first) + Len(rest) /\ Len(rest) \in Nat /\ Len(first) \in Nat
       /\ \A n \in 1 .. Len(all) : all[n] = IF n <= Len(first) THEN first[n] ELSE rest[n - Len(first)]
  <2>1. /\ all \in Seq(Recordings) /\ Len(all) = Len(first) + Len(rest)
        /\ \A n \in 1 .. Len(first) + Len(rest) : all[n] = IF n <= Len(first) THEN first[n] ELSE rest[n - Len(first)]
    BY <1>8, <1>10, ConcatProperties
  <2>2. Len(rest) \in Nat /\ Len(first) \in Nat
    BY <1>8, <1>10
  <2> HIDE DEF all
  <2> QED BY <2>1, <2>2
<1>12. \A n \in 1 .. Len(added) : first[n].k = "entry" /\ first[n].id[2] = added[n] /\ first[n].id[1] = 0
  <2>1. \A e \in Nat : Entry(e).k = "entry" /\ Entry(e).id[2] = e /\ Entry(e).id[1] = 0
    BY DEF Entry, EntryId
  <2> HIDE DEF all
  <2> QED BY <1>8, <2>1
<1>13. EntriesIn(all) = Held(added)
  <2>1. EntriesIn(all) = EntriesIn(first) \union EntriesIn(rest)
    BY <1>8, <1>10, EntriesJoin
  <2>2. EntriesIn(first) = Held(added)
    <3>1. \A x : x \in EntriesIn(first) <=> \E n \in 1 .. Len(first) : first[n].k = "entry" /\ first[n].id[2] = x
      BY <1>8, EntriesAre
    <3>2. \A x : x \in EntriesIn(first) <=> x \in Held(added)
      BY <1>8, <1>12, <3>1 DEF Held
    <3> QED BY <3>2
  <2> QED BY <1>10, <2>1, <2>2
<1> HIDE DEF all
<1>14. ASSUME NEW n \in 1 .. Len(all)
       PROVE  \/ n \in 1 .. Len(added) /\ all[n].k = "entry" /\ all[n].id[2] = added[n] /\ all[n].id[1] = 0
              \/ all[n].k # "entry" /\ all[n].id[1] # 0
  <2>1. CASE n <= Len(first)
    <3>1. n \in 1 .. Len(added) /\ all[n] = first[n]
      BY <1>8, <1>11, <2>1
    <3> QED BY <1>12, <3>1
  <2>2. CASE ~(n <= Len(first))
    <3>1. n - Len(first) \in 1 .. Len(rest) /\ all[n] = rest[n - Len(first)]
      BY <1>11, <2>2
    <3> QED BY <1>10, <3>1
  <2> QED BY <2>1, <2>2
<1>15. TodoOK(all)
  <2>1. KindsIn(all)
    BY <1>14 DEF KindsIn
  <2>2. Within(EntriesIn(all))
    <3>1. Held(entries) \subseteq 1 .. m.leaf /\ m.leaf <= Latest
      BY DEF MessageOK
    <3>2. Latest \in Nat
      BY LatestTyped DEF RecorderTypeOK
    <3> HIDE DEF entries
    <3> QED BY <1>2, <1>6, <1>13, <3>1, <3>2 DEF Within
  <2>3. ASSUME ~bound.announces
        PROVE  Ordering(all)
    <3> SUFFICES ASSUME NEW n \in 1 .. Len(all), all[n].k = "entry", NEW x \in Held(file), x < all[n].id[2]
                 PROVE  x \in EntriesIn(stored) \/ Earlier(all, n, x)
      BY DEF Ordering
    <3>1. n \in 1 .. Len(added) /\ all[n].id[2] = added[n] /\ added[n] \in Nat
      BY <1>8, <1>14
    <3>2. x \in Nat
      BY DEF Held, RecorderTypeOK, FileTyped
    <3>3. x \in Learnt \union Held(entries)
      <4>1. added[n] \in Held(entries)
        BY <1>6, <3>1 DEF Held
      <4>2. added[n] <= m.leaf
        BY <1>2, <4>1 DEF MessageOK
      <4>3. x <= m.leaf
        BY <1>2, <3>1, <3>2, <4>2
      <4> QED BY <2>3, <4>3 DEF Covers
    <3>4. CASE x \in EntriesIn(stored)
      BY <3>4
    <3>5. CASE x \in Held(added)
      <4>1. PICK l \in 1 .. Len(added) : x = added[l]
        BY <3>5 DEF Held
      <4>2. added[l] < added[n]
        BY <3>1, <4>1
      <4>3. l < n
        <5>1. SUFFICES ASSUME ~(l < n) PROVE FALSE
          OBVIOUS
        <5>2. n = l \/ n < l
          BY <3>1, <4>1, <5>1
        <5>3. added[n] = added[l] \/ added[n] < added[l]
          BY <1>3, <3>1, <5>2 DEF Increasing
        <5> QED BY <1>8, <3>1, <4>2, <5>3
      <4>4. l \in 1 .. n - 1 /\ l \in 1 .. Len(all) /\ l <= Len(first)
        BY <1>8, <1>11, <3>1, <4>3
      <4>5. all[l] = first[l]
        BY <1>11, <4>4
      <4>6. all[l].k = "entry" /\ all[l].id[2] = x
        BY <1>12, <4>1, <4>5
      <4> QED BY <4>4, <4>6 DEF Earlier
    <3> QED BY <1>4, <1>6, <3>3, <3>4, <3>5
  <2> QED BY <2>1, <2>2, <2>3 DEF TodoOK
<1>16. UNCHANGED <<stored, cursor>> /\ todo' = IF phase = "up" THEN all ELSE todo
  <2>1. << >> \o all = all
    BY <1>11, ConcatEmptySeq
  <2> QED BY <1>1, <1>9, <2>1 DEF Record
<1>17. phase = "up" => Learnt' = Learnt \union Held(entries)
  <2>1. phase = "up" => EntriesIn(todo)' = Held(added)
    BY <1>13, <1>16
  <2>2. EntriesIn(stored)' = EntriesIn(stored)
    BY <1>16
  <2> QED BY <1>4, <1>6, <2>1, <2>2 DEF Learnt
<1>18. Learnt \subseteq Learnt'
  BY <1>4, <1>16 DEF Learnt
<1> QED BY <1>15, <1>16, <1>17, <1>18

-----------------------------------------------------------------------------
(* Answers to a read.                                                      *)

(* What a catch-up that ended leaves of the others' claims.                *)
LEMMA ReadOfAnother ==
  ASSUME RecorderTypeOK, CatchUpInv, NEW i \in Instances, reading.inst = i, NEW c \in Instances, c # i, Claimed, c = client,
         ClaimFor(c)
  PROVE  ~bound.announces
<1>1. i <= used.instances /\ client <= used.instances
  BY DEF CatchUpInv, KnowledgeOK, ProcessesOK
<1> QED BY <1>1, OnlyOne

LEMMA CaughtCatches ==
  ASSUME RecorderTypeOK, RecorderTypeOK', StoreInv, CatchUpInv, NEW i \in Instances, NEW m \in Messages, Takes(i, m),
         m.t = "page", reading.inst = i, Caught(m)
  PROVE  CatchUpInv'
<1>1. /\ UNCHANGED <<context, client, named, phase, due, asks, control>> /\ ReadDone(TRUE)
      /\ todo = << >> /\ UNCHANGED <<st, file, unsaid, used, bound>>
  BY DEF Caught, Takes
<1>2. context # 0 /\ used.instances # 0 /\ phase # "down"
  BY ContextIs DEF Takes, CatchUpInv, KnowledgeOK, CallsOK
<1>3. reading # NoRead /\ queue # << >>
  <2>1. reading # NoRead
    BY InstancesAre DEF NoRead
  <2> QED BY <2>1 DEF RecorderTypeOK, ReadTyped
<1>4. MessageOK(m) /\ (~bound.announces \/ Claimed => Covers(m)) /\ m \in Sent(i)
  BY DEF Takes, CatchUpInv, KnowledgeOK, MessagesOK, CoverOK
<1>5. /\ UNCHANGED <<stored, cursor>> /\ EntriesIn(stored)' = EntriesIn(stored)
      /\ (todo' = todo \/ TodoOK(todo')) /\ Learnt \subseteq Learnt'
      /\ phase = "up" => Learnt' = Learnt \union Held(m.entries)
  BY <1>1, <1>2, <1>4, PageIs DEF CatchUpInv
<1>6. /\ CallsOK'
      /\ queue' = Tail(queue) /\ reading' = NoRead /\ ends \subseteq ends' /\ missed' = (missed \/ ~TRUE)
      /\ Head(queue) = "connect" => calling = "reading" /\ calling' = "no"
      /\ Head(queue) # "connect" => calling' = calling
  BY <1>1, <1>3, <1>5, CallsAfterRead DEF CatchUpInv
<1>7. Claimed' => Claimed /\ client' = client
  <2>1. missed => missed'
    BY <1>6
  <2> QED BY <1>1, <1>6, <2>1, ClaimFrom
<1>8. KnowledgeOK'
  <2>1. Within(due') /\ \A j \in Instances : Asked(j)' = Asked(j)
    BY <1>1 DEF CatchUpInv, KnowledgeOK, NumbersOK, Within, Asked
  <2>2. reading'.inst \in {0, client, reading.inst}
    BY <1>6 DEF NoRead
  <2> QED BY <1>1, <1>5, <1>7, <2>1, <2>2, TakesMoves DEF CatchUpInv
<1>9. ClaimOK'
  <2> SUFFICES ASSUME NEW c \in Instances, Claimed, c = client PROVE ClaimFor(c)'
    BY <1>1, <1>7 DEF ClaimOK
  <2>1. ClaimFor(c) /\ OneAnswerFor(c)
    BY DEF CatchUpInv, ClaimOK, ClaimFor
  <2>2. Owed' = Owed /\ Held(file)' = Held(file) /\ phase = "up" /\ Learnt' = Learnt \union Held(m.entries)
    BY <1>1, <1>5 DEF Owed, Claimed
  <2>3. NoRead.inst # c
    BY InstancesAre DEF NoRead
  <2>4. calling' \in {"no", "reading"} => calling \in {"no", "reading"}
    BY <1>6
  <2>5. CASE c # i
    <3>1. OneAnswerFor(c)'
      <4>1. out'[c] = out[c]
        BY <2>5 DEF Takes
      <4> QED BY <1>1, <1>6, <2>1, <2>3, <2>5, <4>1 DEF OneAnswerFor
    <3>2. ComingFor(c) => ComingFor(c)'
      BY <1>3, <1>5, <1>6, <2>2, <2>5, ComingNext
    <3> QED BY <1>1, <2>1, <2>4, <2>5, <3>1, <3>2, ReadOfAnother DEF ClaimFor
  <2>6. CASE c = i
    <3>1. out[c] \in Seq(Messages) /\ out[c] # << >> /\ m = Head(out[c]) /\ out'[c] = Tail(out[c])
          /\ Sent(c) = {m} \union Sent(c)'
      BY <2>6, TakesIs DEF Takes
    <3>2. IsAnswer(m)
      BY DEF IsAnswer
    <3>3. OneAnswerFor(c)' /\ \A p \in Sent(c)' : p.t # "page"
      <4>1. OneAnswer(out[c], asks[c], reading.inst = c)
        BY <2>1 DEF OneAnswerFor
      <4>2. /\ \A any : OneAnswer(Tail(out[c]), asks[c], any)
            /\ \A p \in Held(Tail(out[c])) : ~IsAnswer(p)
        BY <3>1, <3>2, <4>1, AnswerRead
      <4>3. \A p \in Sent(c)' : p.t # "page"
        BY <3>1, <4>2 DEF Sent, IsAnswer
      <4> QED BY <1>1, <3>1, <4>2, <4>3 DEF OneAnswerFor
    <3>4. ComingFor(c) => ComingFor(c)'
      <4> SUFFICES ASSUME ComingFor(c) PROVE ComingFor(c)'
        OBVIOUS
      <4>1. CASE Owed \subseteq Learnt \union Held(m.entries)
        BY <2>2, <4>1 DEF ComingFor
      <4>2. CASE Len(queue) >= 2
        <5>1. queue \in Seq({"connect", "event", "close"})
          BY DEF RecorderTypeOK, ReadTyped
        <5>2. Len(Tail(queue)) = Len(queue) - 1 /\ Tail(queue) \in Seq({"connect", "event", "close"}) /\ Len(queue) \in Nat
          BY <1>3, <5>1, HeldHead
        <5>3. Len(queue') # 0
          BY <1>6, <4>2, <5>2
        <5>4. queue' # << >>
          BY <5>3, EmptySeq
        <5> QED BY <1>6, <5>4 DEF ComingFor
      <4> QED BY <1>3, <1>4, <2>6, <4>1, <4>2 DEF ComingFor
    <3>5. bound.announces => FirstFor(c)'
      <4>1. bound.announces => FirstFor(c)
        BY <2>1 DEF ClaimFor
      <4>2. named
        BY <1>3 DEF CatchUpInv, CallsOK
      <4>3. bound.announces => calling \notin {"state", "ending"}
        BY <4>1, <4>2 DEF FirstFor
      <4>4. bound.announces => calling' \notin {"state", "ending", "reading"}
        BY <1>6, <4>1, <4>3 DEF FirstFor
      <4> QED BY <4>4 DEF FirstFor
    <3>6. bound.announces => ToldFor(c)'
      <4> SUFFICES ASSUME bound.announces PROVE ToldFor(c)'
        OBVIOUS
      <4>1. ToldFor(c) /\ Follows(c)
        BY <1>4, <2>1, <2>6 DEF ClaimFor, ToldFor
      <4>2. InTurn(out'[c], unsaid') /\ ToCome(c)' = ToCome(c)
        <5>1. InTurn(Tail(out[c]), unsaid) /\ Said(Tail(out[c])) = Said(out[c])
          BY <3>1, <4>1, TurnRead DEF ToldFor
        <5> QED BY <1>1, <3>1, <5>1 DEF ToCome
      <4>3. \A x \in Held(file) : x <= m.leaf => x \in Learnt'
        BY <1>4, <2>2 DEF Covers
      <4>4. \A x \in Held(file) : Found(c, x) => Found(c, x)'
        <5>1. \A p \in Sent(c) : p.t = "page" => p = m
          BY <3>1, <3>3
        <5> QED BY <2>2, <4>3, <5>1 DEF Found
      <4>5. ASSUME NEW y \in Learnt', NEW x \in Held(file), x < y
            PROVE  Found(c, x)'
        <5>1. CASE y \in Learnt
          BY <4>1, <4>4, <4>5, <5>1 DEF Follows
        <5>2. CASE y \in Held(m.entries)
          <6>1. y \in 1 .. m.leaf /\ m.leaf \in Nat
            BY <1>4, <5>2, MessagesAre DEF MessageOK
          <6>2. x \in Nat
            BY DEF Held, RecorderTypeOK, FileTyped
          <6>3. x <= m.leaf
            BY <4>5, <6>1, <6>2
          <6> QED BY <4>3, <6>3 DEF Found
        <5> QED BY <2>2, <5>1, <5>2
      <4>6. Follows(c)'
        BY <1>1, <2>2, <4>1, <4>2, <4>4, <4>5 DEF Follows
      <4> QED BY <4>2, <4>6 DEF ToldFor
    <3> QED BY <1>1, <2>1, <2>4, <3>3, <3>4, <3>5, <3>6 DEF ClaimFor
  <2> QED BY <2>5, <2>6
<1> QED BY <1>6, <1>8, <1>9 DEF CatchUpInv

LEMMA CannotReadAgainCatches ==
  ASSUME RecorderTypeOK, RecorderTypeOK', CatchUpInv, NEW i \in Instances, NEW m \in Messages, Takes(i, m),
         reading.inst = i, CannotReadAgain
  PROVE  CatchUpInv'
<1>1. /\ UNCHANGED <<stored, todo, cursor, context, client, named, phase, due, asks, control>> /\ ReadDone(FALSE)
      /\ UNCHANGED <<st, file, unsaid, used, bound>>
  BY DEF CannotReadAgain, Takes, storeVars, indexVars
<1>2. queue # << >>
  <2>1. reading # NoRead
    BY InstancesAre DEF NoRead
  <2> QED BY <2>1 DEF RecorderTypeOK, ReadTyped
<1>3. CallsOK' /\ reading' = NoRead /\ missed' = (missed \/ ~FALSE)
  BY <1>1, <1>2, CallsAfterRead DEF CatchUpInv
<1>4. ~Claimed'
  BY <1>3 DEF Claimed
<1>5. KnowledgeOK'
  <2>1. Within(due') /\ \A j \in Instances : Asked(j)' = Asked(j)
    BY <1>1 DEF CatchUpInv, KnowledgeOK, NumbersOK, Within, Asked
  <2>2. reading'.inst \in {0, client, reading.inst}
    BY <1>3 DEF NoRead
  <2> QED BY <1>1, <1>4, <2>1, <2>2, TakesMoves DEF CatchUpInv
<1> QED BY <1>3, <1>4, <1>5, NotClaimed DEF CatchUpInv

LEMMA ReadAgainCatches ==
  ASSUME RecorderTypeOK, RecorderTypeOK', CatchUpInv, NEW i \in Instances, NEW m \in Messages, Takes(i, m), m.t = "unknown",
         reading.inst = i, ReadAgain
  PROVE  CatchUpInv'
<1>1. /\ UNCHANGED <<stored, todo, cursor, context, client, named, phase, due, missed, control, calling, queue, ends>>
      /\ reading'.inst = i
      /\ asks' = (IF st[i] = "gone" THEN asks ELSE [asks EXCEPT ![i] = Append(@, 0)])
      /\ UNCHANGED <<st, file, unsaid, used, bound>> /\ st[i] # "none"
  BY DEF ReadAgain, Asks, Takes, storeVars, indexVars, connectVars, endVars, ghostVars
<1>2. reading # NoRead /\ reading' # NoRead /\ queue # << >> /\ named
  <2>1. reading # NoRead /\ reading' # NoRead
    BY <1>1, InstancesAre DEF NoRead
  <2> QED BY <2>1 DEF RecorderTypeOK, ReadTyped, CatchUpInv, CallsOK
<1>3. (Claimed' <=> Claimed) /\ Learnt' = Learnt /\ Owed' = Owed
  BY <1>1 DEF Claimed, Running, Learnt, Owed
<1>4. asks[i] \in Seq(Int) /\ asks'[i] \in {asks[i], Append(asks[i], 0)} /\ \A j \in Instances : j # i => asks'[j] = asks[j]
  <2>1. asks \in [Instances -> Seq(Int)]
    BY DEF RecorderTypeOK, PiTyped
  <2> QED BY <1>1, <2>1
<1>5. AskFits(0)'
  <2>1. Latest' \in Nat
    BY <1>1, LatestTyped DEF RecorderTypeOK, Latest
  <2>2. 0 \in -2 .. Latest'
    BY <2>1
  <2>3. \A x \in Held(file) : ~(x <= 0)
    <3>1. \A x \in Held(file) : x \in 1 .. Latest
      BY DEF CatchUpInv, KnowledgeOK, NumbersOK, Within
    <3> QED BY <3>1
  <2>4. AskCovers(0)'
    BY <1>1, <2>3 DEF AskCovers
  <2> QED BY <2>2, <2>4 DEF AskFits
<1>6. KnowledgeOK'
  <2>1. Within(due')
    BY <1>1 DEF CatchUpInv, KnowledgeOK, NumbersOK, Within
  <2>2. Held(Append(asks[i], 0)) = Held(asks[i]) \union {0}
    BY <1>4, AppendIs
  <2>3. \A j \in Instances : \A a \in Asked(j)' : a \in Asked(j) \/ (st[j] # "none" /\ AskFits(a)')
    <3> TAKE j \in Instances
    <3> TAKE a \in Asked(j)'
    <3>1. a \in Asked(j) \/ (j = i /\ a = 0)
      <4>1. a \in Held(asks'[j])
        BY DEF Asked
      <4>2. CASE j # i
        BY <1>4, <4>1, <4>2 DEF Asked
      <4>3. CASE j = i
        <5>1. Held(asks'[j]) \subseteq Held(asks[j]) \union {0}
          BY <1>4, <2>2, <4>3
        <5> QED BY <4>1, <4>3, <5>1 DEF Asked
      <4> QED BY <4>2, <4>3
    <3> QED BY <1>1, <1>5, <3>1 DEF AskFits, AskCovers
  <2> QED BY <1>1, <1>3, <2>1, <2>3, TakesMoves DEF CatchUpInv
<1>7. CallsOK'
  <2>1. EntriesIn(stored)' = EntriesIn(stored)
    BY <1>1
  <2> QED BY <1>1, <1>2, <2>1 DEF CatchUpInv, CallsOK, OneConnect
<1>8. ClaimOK'
  <2> SUFFICES ASSUME NEW c \in Instances, Claimed, c = client PROVE ClaimFor(c)'
    BY <1>1, <1>3 DEF ClaimOK
  <2>1. ClaimFor(c) /\ OneAnswerFor(c)
    BY DEF CatchUpInv, ClaimOK, ClaimFor
  <2>2. CASE c # i
    <3>1. out'[c] = out[c] /\ asks'[c] = asks[c] /\ Sent(c)' = Sent(c)
      BY <1>4, <2>2 DEF Takes, Sent
    <3>2. OneAnswerFor(c)'
      BY <1>1, <2>1, <2>2, <3>1 DEF OneAnswerFor
    <3>3. ComingFor(c) => ComingFor(c)'
      BY <1>1, <1>2, <1>3, <2>2 DEF ComingFor
    <3> QED BY <1>1, <2>1, <2>2, <3>2, <3>3, ReadOfAnother DEF ClaimFor
  <2>3. CASE c = i
    <3>1. out[c] \in Seq(Messages) /\ out[c] # << >> /\ m = Head(out[c]) /\ out'[c] = Tail(out[c])
          /\ Sent(c) = {m} \union Sent(c)'
      BY <2>3, TakesIs DEF Takes
    <3>2. /\ OneAnswer(Tail(out[c]), asks[c], TRUE)
          /\ (\A p \in Held(Tail(out[c])) : ~IsAnswer(p)) /\ \A x \in Held(asks[c]) : ~(x >= 0)
      BY <2>1, <3>1, AnswerRead DEF OneAnswerFor, IsAnswer
    <3>3. OneAnswerFor(c)'
      <4>1. \A j, k \in 1 .. Len(Append(asks[c], 0)) : Append(asks[c], 0)[j] >= 0 /\ Append(asks[c], 0)[k] >= 0 => j = k
        <5>1. asks[c] \in Seq(Int) /\ 0 \in Int /\ \A x \in Held(asks[c]) : ~(x >= 0)
          BY <3>2 DEF RecorderTypeOK, PiTyped
        <5>2. \A j, k \in 1 .. Len(asks[c]) : asks[c][j] >= 0 /\ asks[c][k] >= 0 => j = k
          BY <3>2 DEF OneAnswer
        <5> QED BY ONLY <5>1, <5>2, AnotherAsk
      <4>2. OneAnswer(Tail(out[c]), asks'[c], TRUE)
        BY <1>4, <2>3, <3>2, <4>1 DEF OneAnswer
      <4> QED BY <1>1, <2>3, <3>1, <4>2 DEF OneAnswerFor
    <3>4. \A p \in Sent(c)' : p.t # "page"
      BY <3>1, <3>2 DEF Sent, IsAnswer
    <3>5. ComingFor(c)'
      BY <1>1, <1>2, <2>3, <3>4 DEF ComingFor
    <3>6. FirstFor(c) => FirstFor(c)'
      BY <1>1, <1>2, <1>3 DEF FirstFor
    <3>7. ToldFor(c) => ToldFor(c)'
      <4>1. \A p : p.t = "page" => (p \in Sent(c)' <=> p \in Sent(c))
        BY <3>1
      <4>2. ToldFor(c) => InTurn(Tail(out[c]), unsaid) /\ Said(Tail(out[c])) = Said(out[c])
        BY <3>1, TurnRead DEF ToldFor
      <4>3. ToldFor(c) => InTurn(out'[c], unsaid') /\ ToCome(c)' = ToCome(c)
        BY <1>1, <3>1, <4>2 DEF ToCome
      <4> QED BY <1>1, <1>3, <4>1, <4>3, ToldStays
    <3> QED BY <1>1, <2>1, <3>3, <3>5, <3>6, <3>7 DEF ClaimFor
  <2> QED BY <2>2, <2>3
<1> QED BY <1>6, <1>7, <1>8 DEF CatchUpInv

LEMMA HearsCatches ==
  ASSUME RecorderTypeOK, RecorderTypeOK', StoreInv, CatchUpInv, NEW i \in Instances, Hears(i)
  PROVE  CatchUpInv'
<1>1. PICK m \in Messages :
        /\ Takes(i, m)
        /\ m.t = "state" => IF calling = "state" /\ context = i THEN Identified ELSE Unheard
        /\ m.t = "page" => IF reading.inst = i THEN Caught(m) ELSE Unheard
        /\ m.t = "unknown" => IF reading.inst # i THEN Unheard
                              ELSE IF Running(i) THEN ReadAgain ELSE CannotReadAgain
        /\ m.t = "control" => IF control.inst = i THEN Answered(m.v) ELSE Unheard
        /\ m.t = "live" => IF client = i THEN LiveHeard(m) ELSE Unheard
        /\ m.t = "entry" => IF client = i THEN EntryHeard(m) ELSE Unheard
  BY HearsIs
<1>2. CASE m.t = "state"
  BY <1>1, <1>2, IdentifiedCatches, UnheardCatches DEF IsAnswer
<1>3. CASE m.t = "page"
  BY <1>1, <1>3, CaughtCatches, UnheardCatches
<1>4. CASE m.t = "unknown"
  BY <1>1, <1>4, ReadAgainCatches, CannotReadAgainCatches, UnheardCatches
<1>5. CASE m.t = "control"
  BY <1>1, <1>5, AnsweredCatches, UnheardCatches DEF IsAnswer
<1>6. CASE m.t = "live"
  BY <1>1, <1>6, LiveHeardCatches, UnheardCatches DEF IsAnswer
<1>7. CASE m.t = "entry"
  BY <1>1, <1>7, EntryHeardCatches, UnheardCatches DEF IsAnswer
<1>8. m.t \in {"state", "unknown", "page", "control", "live", "entry"}
  BY MessagesAre
<1> QED BY <1>2, <1>3, <1>4, <1>5, <1>6, <1>7, <1>8

-----------------------------------------------------------------------------
(* Steps that store.                                                       *)

LEMMA KindsJoin ==
  ASSUME NEW S, NEW s \in Seq(S), NEW t \in Seq(S), KindsIn(s), KindsIn(t)
  PROVE  KindsIn(s \o t)
<1> DEFINE u == s \o t
<1>1. /\ Len(s) \in Nat /\ Len(t) \in Nat /\ Len(u) = Len(s) + Len(t)
      /\ \A n \in 1 .. Len(s) + Len(t) : u[n] = IF n <= Len(s) THEN s[n] ELSE t[n - Len(s)]
  BY ConcatProperties
<1> HIDE DEF u
<1>2. ASSUME NEW n \in 1 .. Len(u), u[n] \in Recordings
      PROVE  u[n].k = "entry" <=> u[n].id[1] = 0
  <2>1. CASE n <= Len(s)
    <3>1. n \in 1 .. Len(s) /\ u[n] = s[n]
      BY <1>1, <2>1
    <3> QED BY <1>2, <3>1 DEF KindsIn
  <2>2. CASE ~(n <= Len(s))
    <3>1. n - Len(s) \in 1 .. Len(t) /\ u[n] = t[n - Len(s)]
      BY <1>1, <2>2
    <3> QED BY <1>2, <3>1 DEF KindsIn
  <2> QED BY <2>1, <2>2
<1> QED BY <1>2 DEF KindsIn, u

(* What is stored of the event whose turn it is.                           *)
Writes(e, more) ==
  /\ more \in Seq(Stored) /\ KindsIn(more)
  /\ EntriesIn(more) \subseteq EntriesIn(<< e >>)
  /\ EntriesIn(<< e >>) \subseteq EntriesIn(stored) \union EntriesIn(more)

LEMMA OneEvent ==
  ASSUME NEW e
  PROVE  /\ \A x : x \in EntriesIn(<< e >>) <=> e.k = "entry" /\ e.id[2] = x
         /\ << e >> \in Seq({e}) /\ Len(<< e >>) = 1 /\ << e >>[1] = e
<1>1. << e >> \in Seq({e}) /\ Len(<< e >>) = 1 /\ << e >>[1] = e
  OBVIOUS
<1>2. \A x : x \in EntriesIn(<< e >>) <=> \E n \in 1 .. Len(<< e >>) : << e >>[n].k = "entry" /\ << e >>[n].id[2] = x
  BY <1>1, EntriesAre
<1>3. 1 .. Len(<< e >>) = {1}
  BY <1>1
<1> QED BY <1>1, <1>2, <1>3

LEMMA IngestedIs ==
  ASSUME RecorderTypeOK, StoreInv, KindsOK, todo # << >>
  PROVE  Writes(Head(todo), Ingested(Head(todo)))
<1>1. PICK e : e = Head(todo)
  OBVIOUS
<1>2. Lacking(e) \/ Fresh(e) \/ Known(e)
  BY <1>1, HeadOwed
<1>3. /\ \A x : x \in EntriesIn(<< e >>) <=> e.k = "entry" /\ e.id[2] = x
      /\ << e >> \in Seq({e}) /\ Len(<< e >>) = 1 /\ << e >>[1] = e
  BY OneEvent
<1>4. e \in Recordings => (e.k = "entry" <=> e.id[1] = 0)
  <2>1. todo \in Seq(Recordings) \/ todo \in Seq(Derivations)
    BY DEF RecorderTypeOK, StoreTyped
  <2>2. Len(todo) \in Nat \ {0} /\ Head(todo) = todo[1]
    <3>1. CASE todo \in Seq(Recordings)
      BY <3>1, HeldHead
    <3>2. CASE todo \in Seq(Derivations)
      BY <3>2, HeldHead
    <3> QED BY <2>1, <3>1, <3>2
  <2>3. 1 \in 1 .. Len(todo)
    BY <2>2
  <2> QED BY <1>1, <2>2, <2>3 DEF KindsOK, KindsIn
<1>5. e \in Recordings => KindsIn(<< e >>)
  <2>1. 1 .. Len(<< e >>) = {1}
    BY <1>3
  <2> QED BY <1>3, <1>4, <2>1 DEF KindsIn
<1>6. e \in Stored => << e >> \in Seq(Stored)
  BY <1>3
<1>7. CASE Lacking(e)
  <2>1. e \in Derivations /\ Ingested(e) = << e >>
    BY <1>7 DEF Lacking
  <2>2. KindsIn(<< e >>)
    <3>1. e \notin Recordings
      BY <2>1, Apart
    <3>2. 1 .. Len(<< e >>) = {1}
      BY <1>3
    <3> QED BY <1>3, <3>1, <3>2 DEF KindsIn
  <2> QED BY <1>1, <1>6, <2>1, <2>2 DEF Writes, Stored
<1>8. CASE Known(e)
  <2>1. e \in Recordings /\ e.id \in Ids(stored) /\ Ingested(e) = << >>
    BY <1>8 DEF Known
  <2>2. << >> \in Seq(Stored) /\ KindsIn(<< >>) /\ EntriesIn(<< >>) = {}
    BY EmptySeq, HeldNone, EntriesNone DEF KindsIn
  <2>3. stored \in Seq(Stored)
    BY DEF RecorderTypeOK, StoreTyped
  <2>4. ASSUME e.k = "entry"
        PROVE  e.id[2] \in EntriesIn(stored)
    <3>1. PICK n \in 1 .. Len(stored) : stored[n].id = e.id /\ stored[n] \in Stored
      BY <2>1, <2>3, IdsOf
    <3>2. PICK y \in Stored : y = stored[n]
      BY <3>1
    <3>3. y \in Recordings
      <4>1. y \in Derivations => y.id # e.id
        BY <2>1, Apart
      <4> QED BY <3>1, <3>2, <4>1 DEF Stored
    <3>4. y.id[1] = 0
      BY <1>4, <2>1, <2>4, <3>1, <3>2
    <3>5. stored[n].k = "entry" /\ stored[n].id[2] = e.id[2]
      BY <3>1, <3>2, <3>3, <3>4 DEF KindsOK, KindsIn
    <3> QED BY <2>3, <3>5, EntriesAre
  <2>5. EntriesIn(<< e >>) \subseteq EntriesIn(stored)
    BY <1>3, <2>4
  <2> QED BY <1>1, <2>1, <2>2, <2>5 DEF Writes
<1>9. CASE Fresh(e)
  <2> DEFINE evs == Step(Folded(stored).state, e).events
  <2>1. e \in Recordings /\ Ingested(e) = << e >> \o evs
    BY <1>9 DEF Fresh
  <2>2. evs \in Seq(Derivations)
    <3>1. StepFacts(Folded(stored).state, e)
      BY <2>1, StepOK DEF StoreInv, FoldOK
    <3> QED BY <3>1 DEF StepFacts
  <2> HIDE DEF evs
  <2>3. << e >> \in Seq(Stored) /\ evs \in Seq(Stored)
    BY <1>6, <2>1, <2>2, SeqMonotonic DEF Stored
  <2>4. KindsIn(evs)
    <3>1. \A n \in 1 .. Len(evs) : evs[n] \in Derivations
      BY <2>2
    <3> QED BY <3>1, Apart DEF KindsIn
  <2>5. EntriesIn(evs) = {}
    BY <2>2, DerivedIsNoEntry
  <2>6. KindsIn(<< e >> \o evs)
    BY <1>5, <2>1, <2>3, <2>4, KindsJoin
  <2>7. EntriesIn(<< e >> \o evs) = EntriesIn(<< e >>) \union EntriesIn(evs)
    BY <2>3, EntriesJoin
  <2>8. << e >> \o evs \in Seq(Stored)
    BY <2>3, ConcatProperties
  <2> QED BY <1>1, <2>1, <2>5, <2>6, <2>7, <2>8 DEF Writes
<1> QED BY <1>2, <1>7, <1>8, <1>9

(* The head of the code's writes is an entry with all of the file before   *)
(* it stored.                                                              *)
LEMMA TodoIs ==
  ASSUME RecorderTypeOK, KindsOK, todo # << >>
  PROVE  /\ EntriesIn(todo) = EntriesIn(<< Head(todo) >>) \union EntriesIn(Tail(todo))
         /\ KindsIn(Tail(todo))
         /\ ~bound.announces /\ OrderOK => \A y \in EntriesIn(<< Head(todo) >>), x \in Held(file) : x < y => x \in EntriesIn(stored)
<1>1. PICK S : todo \in Seq(S)
  BY DEF RecorderTypeOK, StoreTyped
<1>2. /\ Head(todo) = todo[1] /\ Tail(todo) \in Seq(S) /\ Len(Tail(todo)) = Len(todo) - 1 /\ Len(todo) \in Nat \ {0}
      /\ \A n \in 1 .. Len(Tail(todo)) : n + 1 \in 1 .. Len(todo) /\ Tail(todo)[n] = todo[n + 1]
  BY <1>1, HeldHead
<1>3. todo = << Head(todo) >> \o Tail(todo) /\ Head(todo) \in S
  BY <1>1, HeadFirst
<1>4. PICK e : e = Head(todo)
  OBVIOUS
<1>5. \A x : x \in EntriesIn(<< e >>) <=> e.k = "entry" /\ e.id[2] = x
  BY OneEvent
<1>6. EntriesIn(todo) = EntriesIn(<< e >>) \union EntriesIn(Tail(todo))
  <2>1. << e >> \in Seq(S)
    BY <1>3, <1>4
  <2>2. EntriesIn(<< e >> \o Tail(todo)) = EntriesIn(<< e >>) \union EntriesIn(Tail(todo))
    BY <1>2, <2>1, EntriesJoin
  <2> QED BY <1>3, <1>4, <2>2
<1>7. KindsIn(Tail(todo))
  BY <1>2 DEF KindsOK, KindsIn
<1>8. ASSUME ~bound.announces, OrderOK, NEW y \in EntriesIn(<< e >>), NEW x \in Held(file), x < y
      PROVE  x \in EntriesIn(stored)
  <2>1. Ordering(todo) /\ todo[1].k = "entry" /\ todo[1].id[2] = y /\ 1 \in 1 .. Len(todo)
    BY <1>2, <1>4, <1>5, <1>8 DEF OrderOK
  <2>2. 1 .. 1 - 1 = {}
    OBVIOUS
  <2> QED BY <1>8, <2>1, <2>2 DEF Ordering, Earlier
<1> QED BY <1>4, <1>6, <1>7, <1>8

LEMMA LastIs ==
  ASSUME NEW s \in Seq(Stored), NEW before
  PROVE  LastEntry(s, before) \in EntriesIn(s) \union {before}
<1> DEFINE entries == {n \in DOMAIN s : s[n].k = "entry"}
<1>1. CASE entries = {}
  BY <1>1 DEF LastEntry
<1>2. CASE entries # {}
  <2>1. entries \subseteq 1 .. Len(s) /\ \A n \in entries : s[n].k = "entry"
    OBVIOUS
  <2> HIDE DEF entries
  <2>2. Max(entries) \in entries
    <3>1. Len(s) \in Nat
      OBVIOUS
    <3> QED BY <1>2, <2>1, <3>1, MaxIs
  <2>3. s[Max(entries)].id[2] \in EntriesIn(s)
    BY <2>1, <2>2, EntriesAre
  <2>4. LastEntry(s, before) = s[Max(entries)].id[2]
    BY <1>2 DEF LastEntry, entries
  <2> QED BY <2>3, <2>4
<1> QED BY <1>1, <1>2

(* The store grows by what was about to be stored.                         *)
LEMMA StoreNextCatches ==
  ASSUME RecorderTypeOK, RecorderTypeOK', StoreInv, CatchUpInv, StoreNext
  PROVE  CatchUpInv'
<1>1. PICK e, more : e = Head(todo) /\ more = Ingested(Head(todo))
  OBVIOUS
<1>2. /\ todo # << >> /\ todo' = Tail(todo) /\ stored' = stored \o more /\ cursor' = LastEntry(more, cursor)
      /\ UNCHANGED <<client, context, named, calling, phase, queue, reading, control, st, asks, out, file, unsaid, used, bound, due, missed, ends>>
  BY <1>1 DEF StoreNext, connectVars, endVars, readVars, piVars, fileVars, ghostVars
<1>3. KindsOK /\ KnowledgeOK /\ CallsOK /\ ClaimOK
  BY DEF CatchUpInv, KnowledgeOK
<1>4. Writes(e, more)
  BY <1>1, <1>2, <1>3, IngestedIs
<1>5. /\ EntriesIn(todo) = EntriesIn(<< e >>) \union EntriesIn(Tail(todo)) /\ KindsIn(Tail(todo))
      /\ ~bound.announces /\ OrderOK => \A y \in EntriesIn(<< e >>), x \in Held(file) : x < y => x \in EntriesIn(stored)
  BY <1>1, <1>2, <1>3, TodoIs
<1>6. stored \in Seq(Stored) /\ more \in Seq(Stored)
  BY <1>4 DEF Writes, RecorderTypeOK, StoreTyped
<1>7. EntriesIn(stored)' = EntriesIn(stored) \union EntriesIn(more)
  BY <1>2, <1>6, EntriesJoin
<1>8. Learnt' = Learnt
  BY <1>2, <1>4, <1>5, <1>7 DEF Learnt, Writes
<1>9. KindsOK'
  <2>1. KindsIn(stored \o more)
    BY <1>3, <1>4, <1>6, KindsJoin DEF Writes, KindsOK
  <2> QED BY <1>2, <1>5, <2>1 DEF KindsOK, KindsIn
<1>10. Latest' = Latest /\ Held(file)' = Held(file) /\ Held(unsaid)' = Held(unsaid)
  BY <1>2 DEF Latest
<1>11. \A i : Sent(i)' = Sent(i) /\ Asked(i)' = Asked(i)
  BY <1>2 DEF Sent, Asked
<1>12. NumbersOK'
  BY <1>2, <1>3, <1>8, <1>10 DEF KnowledgeOK, NumbersOK, Within
<1>13. MessagesOK'
  BY <1>3, <1>10, <1>11 DEF KnowledgeOK, MessagesOK, MessageOK, Within
<1>14. ProcessesOK'
  BY <1>2, <1>3, <1>8, <1>10, <1>11 DEF KnowledgeOK, ProcessesOK
<1>15. (Claimed' <=> Claimed) /\ bound' = bound
  BY <1>2 DEF Claimed, Running
<1>16. CoverOK'
  BY <1>3, <1>8, <1>10, <1>11, <1>15 DEF KnowledgeOK, CoverOK, AskCovers, Covers
<1>17. OrderOK'
  <2> SUFFICES ASSUME ~bound.announces
               PROVE  OrderOK'
    BY <1>2 DEF OrderOK
  <2>1. OrderOK
    BY <1>3 DEF KnowledgeOK
  <2>2. \A y \in EntriesIn(stored)', x \in Held(file) : x < y => x \in EntriesIn(stored)'
    BY <1>4, <1>5, <1>7, <2>1 DEF OrderOK, Writes
  <2>3. Ordering(todo)'
    <3>1. PICK S : todo \in Seq(S)
      BY DEF RecorderTypeOK, StoreTyped
    <3>2. /\ Head(todo) = todo[1] /\ Len(Tail(todo)) = Len(todo) - 1 /\ Len(todo) \in Nat \ {0}
          /\ \A n \in 1 .. Len(Tail(todo)) : n + 1 \in 1 .. Len(todo) /\ Tail(todo)[n] = todo[n + 1]
      BY <1>2, <3>1, HeldHead
    <3>3. \A x : x \in EntriesIn(<< e >>) <=> e.k = "entry" /\ e.id[2] = x
      BY OneEvent
    <3>4. ASSUME NEW n \in 1 .. Len(Tail(todo)), Tail(todo)[n].k = "entry", NEW x \in Held(file), x < Tail(todo)[n].id[2]
          PROVE  x \in EntriesIn(stored)' \/ Earlier(Tail(todo), n, x)
      <4>1. x \in EntriesIn(stored) \/ Earlier(todo, n + 1, x)
        BY <2>1, <3>2, <3>4 DEF OrderOK, Ordering
      <4>2. CASE x \in EntriesIn(stored)
        BY <1>7, <4>2
      <4>3. CASE Earlier(todo, n + 1, x)
        <5>1. PICK l \in 1 .. n : todo[l].k = "entry" /\ todo[l].id[2] = x
          BY <4>3 DEF Earlier
        <5>2. CASE l = 1
          <6>1. x \in EntriesIn(<< e >>)
            BY <1>1, <3>2, <3>3, <5>1, <5>2
          <6> QED BY <1>4, <1>7, <6>1 DEF Writes
        <5>3. CASE l # 1
          <6>1. l - 1 \in 1 .. n - 1 /\ l - 1 \in 1 .. Len(Tail(todo)) /\ (l - 1) + 1 = l
            BY <3>2, <5>3
          <6>2. Tail(todo)[l - 1] = todo[l]
            BY <3>2, <6>1
          <6> QED BY <5>1, <6>1, <6>2 DEF Earlier
        <5> QED BY <5>2, <5>3
      <4> QED BY <4>1, <4>2, <4>3
    <3>5. PICK t : t = Tail(todo)
      OBVIOUS
    <3>6. \A n \in 1 .. Len(t) : t[n].k = "entry" =>
            \A x \in Held(file)' : x < t[n].id[2] => x \in EntriesIn(stored)' \/ Earlier(t, n, x)
      BY <1>10, <3>4, <3>5
    <3>7. todo' = t /\ \A n, x : Earlier(t, n, x)' <=> Earlier(t, n, x)
      BY <1>2, <3>5 DEF Earlier
    <3> QED BY <3>6, <3>7 DEF Ordering, Earlier
  <2> QED BY <1>2, <1>10, <1>11, <2>1, <2>2, <2>3 DEF OrderOK
<1>18. KnowledgeOK'
  BY <1>9, <1>12, <1>13, <1>14, <1>16, <1>17 DEF KnowledgeOK
<1>19. cursor' \in EntriesIn(stored)' \union {0}
  <2>1. cursor \in EntriesIn(stored) \union {0}
    BY <1>3 DEF CallsOK
  <2>2. cursor' \in EntriesIn(more) \union {cursor}
    BY <1>2, <1>6, LastIs
  <2> QED BY <1>7, <2>1, <2>2
<1>20. CallsOK'
  BY <1>2, <1>3, <1>19 DEF CallsOK
<1>21. Unnoticed
  BY <1>2, <1>8, <1>15 DEF Unnoticed
<1> QED BY <1>3, <1>18, <1>20, <1>21, UnnoticedKeeps DEF CatchUpInv

-----------------------------------------------------------------------------
(* Opening and launching.                                                  *)

LEMMA OpenSessionCatches ==
  ASSUME RecorderTypeOK, RecorderTypeOK', StoreInv, CatchUpInv, OpenSession
  PROVE  CatchUpInv'
<1>1. /\ phase = "down" /\ phase' = "up" /\ cursor' = LastEntry(stored, 0) /\ calling' = "launch"
      /\ UNCHANGED <<stored, client, context, named, queue, reading, control, st, asks, out, file, unsaid, bound, due, missed>>
  BY DEF OpenSession, readVars, piVars, fileVars, ghostVars
<1>2. todo = << >> /\ todo' \in Seq(Derivations) /\ stored \in Seq(Stored)
  BY <1>1, OpenSessionKeeps DEF StoreInv, OweInv, RecorderTypeOK, StoreTyped
<1>3. used'.instances = used.instances /\ used'.entries = used.entries /\ used'.rewrites = used.rewrites
  <2>1. BoundTyped /\ Spend("opens")
    BY DEF OpenSession, RecorderTypeOK
  <2> QED BY <2>1, SpentElsewhere
<1>4. KnowledgeOK /\ CallsOK
  BY DEF CatchUpInv
<1>5. client = 0 /\ context = 0 /\ calling = "no"
  BY <1>1, <1>4 DEF CallsOK
<1>6. ~Claimed'
  BY <1>1, <1>5 DEF Claimed, Running
<1>7. TodoOK(todo')
  <2>1. PICK s \in Seq(Derivations) : s = todo'
    BY <1>2
  <2>2. \A n \in 1 .. Len(s) : s[n] \in Derivations /\ s[n].k # "entry"
    BY DerivedIsNoEntry
  <2>3. KindsIn(s)
    BY <2>2, Apart DEF KindsIn
  <2>4. EntriesIn(s) = {}
    BY DerivedIsNoEntry
  <2>5. Ordering(s)
    BY <2>2 DEF Ordering
  <2> QED BY <2>1, <2>3, <2>4, <2>5 DEF TodoOK, Within
<1>8. Moves
  <2>1. Exchanges
    BY <1>1 DEF Exchanges, Sent, Asked
  <2>2. Within(due')
    BY <1>1, <1>4 DEF KnowledgeOK, NumbersOK
  <2>3. used.instances = 0 => ~named'
    BY <1>1, <1>4 DEF KnowledgeOK, ProcessesOK
  <2> QED BY <1>1, <1>2, <1>3, <1>6, <1>7, <2>1, <2>2, <2>3 DEF Moves
<1>9. KnowledgeOK'
  BY <1>4, <1>8, MovesKeeps
<1>10. cursor' \in EntriesIn(stored)' \union {0}
  <2>1. LastEntry(stored, 0) \in EntriesIn(stored) \union {0}
    BY <1>2, LastIs
  <2> QED BY <1>1, <2>1
<1>11. OneConnect(queue', calling')
  BY <1>1, <1>4, <1>5 DEF CallsOK, OneConnect
<1>12. CallsOK'
  BY <1>1, <1>4, <1>5, <1>10, <1>11 DEF CallsOK
<1> QED BY <1>6, <1>9, <1>12, NotClaimed DEF CatchUpInv

LEMMA LaunchCatches ==
  ASSUME RecorderTypeOK, RecorderTypeOK', CatchUpInv, Launch
  PROVE  CatchUpInv'
<1>1. PICK i : i = used.instances + 1
  OBVIOUS
<1>2. /\ client' = i /\ context' = i /\ st' = [st EXCEPT ![i] = "run"] /\ asks' = [asks EXCEPT ![i] = << -2 >>]
      /\ calling = "launch" /\ calling' = "state" /\ due' = ToSet(file) /\ phase = "up" /\ todo = << >>
      /\ UNCHANGED <<stored, todo, cursor, named, out, bound, phase, queue, reading, control, file, unsaid>>
  BY <1>1 DEF Launch, Quiet, endVars, readVars, fileVars
<1>3. used.instances \in Nat /\ used'.instances = i /\ used'.entries = used.entries /\ used'.rewrites = used.rewrites
  BY <1>1 DEF Launch, Spend, RecorderTypeOK, BoundTyped, Counted
<1>4. i \in Instances /\ i \in Nat \ {0}
  BY <1>2, <1>3, InstancesAre DEF RecorderTypeOK, ConnectTyped, Processes, Counted, Launch
<1>5. KnowledgeOK /\ CallsOK
  BY DEF CatchUpInv
<1>6. st \in [Instances -> {"none", "run", "gone", "reported", "drained"}] /\ asks \in [Instances -> Seq(Int)]
      /\ out \in [Instances -> Seq(Messages)] /\ file \in Seq(Nat) /\ unsaid \in Seq(Nat)
  BY DEF RecorderTypeOK, PiTyped, FileTyped
<1>7. st[i] = "none" /\ Sent(i) = {} /\ Asked(i) = {}
  BY <1>1, <1>3, <1>4, <1>5 DEF KnowledgeOK, ProcessesOK
<1>8. /\ \A j \in Instances : Sent(j)' = Sent(j)
      /\ \A j \in Instances : j # i => Asked(j)' = Asked(j) /\ st'[j] = st[j]
      /\ asks'[i] = << -2 >> /\ st'[i] = "run" /\ Held(<< -2 >>) = {-2}
  <2>1. << -2 >> \in Seq(Int) /\ Len(<< -2 >>) = 1 /\ 1 .. 1 = {1}
    OBVIOUS
  <2>2. Held(<< -2 >>) = {-2}
    BY <2>1 DEF Held
  <2> QED BY <1>2, <1>4, <1>6, <2>2 DEF Sent, Asked
<1>9. Asked(i)' = {-2}
  BY <1>8 DEF Asked
<1>10. Latest' = Latest /\ Learnt' = Learnt /\ Held(file)' = Held(file) /\ Held(unsaid)' = Held(unsaid) /\ due' = Held(file)
       /\ Latest \in Nat /\ EntriesIn(stored)' = EntriesIn(stored)
  BY <1>2, <1>3, <1>6, HeldIs, LatestTyped DEF Latest, Learnt, RecorderTypeOK
<1>11. NumbersOK'
  BY <1>2, <1>5, <1>10 DEF KnowledgeOK, NumbersOK, Within
<1>12. KindsOK'
  BY <1>2, <1>5 DEF KnowledgeOK, KindsOK, KindsIn
<1>13. MessagesOK'
  <2>1. \A m : MessageOK(m)' <=> MessageOK(m)
    BY <1>10 DEF MessageOK, Within
  <2>2. ASSUME NEW j \in Instances
        PROVE  \A m \in Sent(j)' : MessageOK(m)'
    BY <1>5, <1>8, <2>1 DEF KnowledgeOK, MessagesOK
  <2>3. ASSUME NEW j \in Instances, NEW a \in Asked(j)'
        PROVE  a \in -2 .. Latest'
    <3>1. CASE j = i
      BY <1>9, <1>10, <2>3, <3>1
    <3>2. CASE j # i
      BY <1>5, <1>8, <1>10, <2>3, <3>2 DEF KnowledgeOK, MessagesOK
    <3> QED BY <3>1, <3>2
  <2> QED BY <2>2, <2>3 DEF MessagesOK
<1>14. ProcessesOK'
  <2>1. ASSUME NEW j \in Instances, j > used'.instances
        PROVE  st'[j] = "none"
    <3>1. j \in Nat /\ j # i /\ j > used.instances
      BY <1>1, <1>3, <1>4, <2>1, InstancesAre
    <3> QED BY <1>5, <1>8, <3>1 DEF KnowledgeOK, ProcessesOK
  <2>2. ASSUME NEW j \in Instances, st'[j] = "none"
        PROVE  Sent(j)' = {} /\ Asked(j)' = {}
    <3>1. j # i
      BY <1>8, <2>2
    <3> QED BY <1>5, <1>8, <2>2, <3>1 DEF KnowledgeOK, ProcessesOK
  <2>3. client' <= used'.instances /\ reading'.inst <= used'.instances
    <3>1. reading.inst \in Nat /\ reading.inst <= used.instances
      BY <1>5, InstancesAre DEF RecorderTypeOK, ReadTyped, KnowledgeOK, ProcessesOK
    <3> QED BY <1>1, <1>2, <1>3, <3>1
  <2>4. context' # 0 /\ used'.instances # 0
    BY <1>2, <1>3, <1>4
  <2> QED BY <2>1, <2>2, <2>3, <2>4 DEF ProcessesOK
<1>15. OrderOK'
  BY <1>2, <1>5, <1>8, <1>10 DEF KnowledgeOK, OrderOK, Ordering, Earlier
<1>16. ASSUME Claimed', bound.announces
       PROVE  used.instances = 0 /\ \A j \in Instances : Sent(j) = {} /\ Asked(j) = {}
  <2>1. used.instances = 0
    BY <1>1, <1>2, <1>3, <1>16 DEF Claimed
  <2>2. \A j \in Instances : j > 0
    BY InstancesAre
  <2> QED BY <1>5, <2>1, <2>2 DEF KnowledgeOK, ProcessesOK
<1>17. CoverOK'
  <2> SUFFICES ASSUME ~bound.announces \/ Claimed', NEW j \in Instances
               PROVE  (\A a \in Asked(j)' : AskCovers(a)') /\ (\A m \in Sent(j)' : Covers(m)')
    BY <1>2 DEF CoverOK
  <2>1. (\A a \in Asked(j) : AskCovers(a)) /\ (\A m \in Sent(j) : Covers(m))
    BY <1>5, <1>16 DEF KnowledgeOK, CoverOK
  <2>2. (\A a : AskCovers(a)' <=> AskCovers(a)) /\ (\A m : Covers(m)' <=> Covers(m))
    BY <1>10 DEF AskCovers, Covers
  <2>3. AskCovers(-2)
    BY DEF AskCovers
  <2> QED BY <1>8, <1>9, <2>1, <2>2, <2>3
<1>18. KnowledgeOK'
  BY <1>11, <1>12, <1>13, <1>14, <1>15, <1>17 DEF KnowledgeOK
<1>19. CallsOK'
  <2>1. OneConnect(queue', calling')
    BY <1>2, <1>5 DEF CallsOK, OneConnect
  <2> QED BY <1>2, <1>4, <1>5, <1>10, <2>1 DEF CallsOK
<1>20. ClaimOK'
  <2> SUFFICES ASSUME NEW c \in Instances, Claimed', c = client'
               PROVE  ClaimFor(c)'
    BY DEF ClaimOK
  <2>1. c = i /\ out'[c] = << >>
    <3>1. c = i /\ Held(out[c]) = {} /\ out[c] \in Seq(Messages)
      BY <1>2, <1>4, <1>6, <1>7 DEF Sent
    <3> QED BY <1>2, <3>1, HeldIs
  <2>2. Sent(c)' = {} /\ asks'[c] = << -2 >> /\ Len(<< >>) = 0 /\ Held(<< >>) = {} /\ Len(<< -2 >>) = 1
    BY <1>8, <2>1, HeldNone DEF Sent
  <2>3. OneAnswerFor(c)'
    <3>1. \A its : OneAnswer(<< >>, << -2 >>, its)
      BY <1>8, <2>2 DEF OneAnswer
    <3> QED BY <2>1, <2>2, <3>1 DEF OneAnswerFor
  <2>4. ASSUME bound.announces
        PROVE  FirstFor(c)' /\ ToldFor(c)'
    <3>1. ~named /\ Learnt = {} /\ Held(unsaid) = {}
      BY <1>5, <1>16, <2>4 DEF KnowledgeOK, ProcessesOK
    <3>2. unsaid = << >>
      BY <1>6, <3>1, HeldIs
    <3>3. InTurn(<< >>, << >>)
      BY HeldNone, IncreasingNone DEF InTurn
    <3>4. ToldFor(c)'
      BY <1>2, <2>1, <2>2, <3>2, <3>3 DEF ToldFor
    <3> QED BY <1>2, <1>10, <3>1, <3>4 DEF FirstFor
  <2> QED BY <1>2, <2>3, <2>4 DEF ClaimFor
<1> QED BY <1>18, <1>19, <1>20 DEF CatchUpInv

-----------------------------------------------------------------------------
(* The file changes.                                                       *)

(* Only what was never recorded, asked for or announced is new in it.      *)
Grows(e) ==
  /\ e = Latest + 1 /\ Latest' = e /\ used'.instances = used.instances /\ used.instances # 0
  /\ todo = << >> /\ UNCHANGED <<stored, todo, cursor, client, context, named, calling, phase, ends, queue, reading, control,
                                 st, asks, out, bound, due, missed>>
  /\ file' \in Seq(Nat) /\ Increasing(file') /\ Held(file') \subseteq Held(file) \union {e}
  /\ unsaid' = unsaid \/ (bound.announces /\ unsaid' = Append(unsaid, e))

LEMMA GrowsKeeps ==
  ASSUME RecorderTypeOK, CatchUpInv, NEW e, Grows(e)
  PROVE  /\ KnowledgeOK' /\ CallsOK' /\ (Claimed' <=> Claimed) /\ Owed' \subseteq Owed /\ Learnt' = Learnt
         /\ e \in Nat /\ Within(Learnt) /\ ~(e <= Latest) /\ \A x \in 1 .. Latest : x < e
<1>1. /\ e = Latest + 1 /\ Latest' = e /\ used'.instances = used.instances /\ used.instances # 0 /\ todo = << >>
      /\ UNCHANGED <<stored, todo, cursor, client, context, named, calling, phase, ends, queue, reading, control,
                     st, asks, out, bound, due, missed>>
      /\ Held(file') \subseteq Held(file) \union {e}
      /\ unsaid' = unsaid \/ (bound.announces /\ unsaid' = Append(unsaid, e))
  BY DEF Grows
<1>2. Latest \in Nat /\ e \in Nat /\ ~(e <= Latest) /\ \A x \in 1 .. Latest : x < e /\ x # e /\ x \in 1 .. e
  <2>1. Latest \in Nat
    BY LatestTyped DEF RecorderTypeOK
  <2> QED BY <1>1, <2>1
<1>3. KnowledgeOK /\ CallsOK /\ Learnt' = Learnt /\ Within(Learnt) /\ EntriesIn(stored)' = EntriesIn(stored)
  BY <1>1 DEF CatchUpInv, Learnt, KnowledgeOK, NumbersOK
<1>4. \A i : Sent(i)' = Sent(i) /\ Asked(i)' = Asked(i)
  BY <1>1 DEF Sent, Asked
<1>5. (Claimed' <=> Claimed)
  BY <1>1 DEF Claimed, Running
<1>6. Owed' \subseteq Owed
  BY <1>1, <1>2, <1>3 DEF Owed, KnowledgeOK, NumbersOK, Within
<1>7. Held(unsaid') \subseteq Held(unsaid) \union {e} /\ (~bound.announces => unsaid' = unsaid)
  <2>1. Held(Append(unsaid, e)) = Held(unsaid) \union {e}
    BY <1>2, AppendIs DEF RecorderTypeOK, FileTyped
  <2> QED BY <1>1, <2>1
<1>8. NumbersOK'
  <2>1. Increasing(file)'
    BY DEF Grows, Increasing
  <2>2. e \in 1 .. e
    BY <1>1, <1>2
  <2> QED BY <1>1, <1>2, <1>3, <1>7, <2>1, <2>2 DEF KnowledgeOK, NumbersOK, Within
<1>9. KindsOK'
  BY <1>1, <1>3 DEF KnowledgeOK, KindsOK, KindsIn
<1>10. MessagesOK'
  <2> SUFFICES ASSUME NEW i \in Instances
               PROVE  (\A m \in Sent(i)' : MessageOK(m)') /\ (\A a \in Asked(i)' : a \in -2 .. Latest')
    BY DEF MessagesOK
  <2>1. (\A m \in Sent(i) : MessageOK(m)) /\ (\A a \in Asked(i) : a \in -2 .. Latest) /\ Sent(i) \subseteq Messages
    <3>1. Sent(i) \subseteq Messages
      BY HeldIs DEF Sent, RecorderTypeOK, PiTyped
    <3> QED BY <1>3, <3>1 DEF KnowledgeOK, MessagesOK
  <2>2. \A a \in -2 .. Latest : a \in -2 .. e
    BY <1>1, <1>2
  <2>3. ASSUME NEW m \in Sent(i)
        PROVE  MessageOK(m)'
    <3>1. MessageOK(m) /\ (m.t = "page" => m.leaf \in Nat)
      BY <2>1, MessagesAre
    <3>2. m.t = "page" => m.leaf <= e
      BY <1>1, <1>2, <3>1 DEF MessageOK
    <3> QED BY <1>1, <1>2, <3>1, <3>2 DEF MessageOK, Within
  <2> QED BY <1>1, <1>4, <2>1, <2>2, <2>3
<1>11. ProcessesOK'
  BY <1>1, <1>3, <1>4 DEF KnowledgeOK, ProcessesOK
<1>12. OrderOK'
  <2> SUFFICES ASSUME ~bound.announces
               PROVE  OrderOK'
    BY <1>1 DEF OrderOK
  <2>1. OrderOK
    BY <1>3 DEF KnowledgeOK
  <2>2. ASSUME NEW y \in EntriesIn(stored), NEW x \in Held(file'), x < y
        PROVE  x \in EntriesIn(stored)
    <3>1. y \in 1 .. Latest
      BY <1>3 DEF Within, Learnt
    <3>2. x # e
      BY <1>2, <2>2, <3>1
    <3> QED BY <1>1, <2>1, <2>2, <3>2 DEF OrderOK
  <2>3. Ordering(todo)'
    BY <1>1, HeldNone DEF Ordering
  <2>4. Held(unsaid)' = {}
    BY <1>7, <2>1 DEF OrderOK
  <2> QED BY <1>3, <1>4, <2>1, <2>2, <2>3, <2>4 DEF OrderOK
<1>13. CoverOK'
  <2> SUFFICES ASSUME ~bound.announces \/ Claimed, NEW i \in Instances
               PROVE  (\A a \in Asked(i)' : AskCovers(a)') /\ (\A m \in Sent(i)' : Covers(m)')
    BY <1>1, <1>5 DEF CoverOK
  <2>1. (\A a \in Asked(i) : AskCovers(a) /\ a \in -2 .. Latest) /\ (\A m \in Sent(i) : Covers(m) /\ MessageOK(m))
    BY <1>3 DEF KnowledgeOK, CoverOK, MessagesOK
  <2>2. \A a \in Asked(i) : AskCovers(a)'
    <3> SUFFICES ASSUME NEW a \in Asked(i), a >= 0, NEW x \in Held(file'), x <= a
                 PROVE  x \in Learnt
      BY <1>3 DEF AskCovers
    <3>1. x # e
      BY <1>2, <2>1
    <3> QED BY <1>1, <2>1, <3>1 DEF AskCovers
  <2>3. \A m \in Sent(i) : Covers(m)'
    <3> SUFFICES ASSUME NEW m \in Sent(i), m.t = "page", NEW x \in Held(file'), x <= m.leaf
                 PROVE  x \in Learnt \union Held(m.entries)
      BY <1>3 DEF Covers
    <3>1. m.leaf \in Nat /\ m.leaf <= Latest
      <4>1. m \in Messages
        BY HeldIs DEF Sent, RecorderTypeOK, PiTyped
      <4> QED BY <2>1, <4>1, MessagesAre DEF MessageOK
    <3>2. x # e
      BY <1>1, <1>2, <3>1
    <3> QED BY <1>1, <2>1, <3>2 DEF Covers
  <2> QED BY <1>4, <2>2, <2>3
<1>14. KnowledgeOK'
  BY <1>8, <1>9, <1>10, <1>11, <1>12, <1>13 DEF KnowledgeOK
<1>15. CallsOK'
  BY <1>1, <1>3 DEF CallsOK
<1> QED BY <1>2, <1>3, <1>5, <1>6, <1>14, <1>15

(* The client's claim, but for what is announced.                          *)
LEMMA GrowsClaim ==
  ASSUME RecorderTypeOK, CatchUpInv, NEW e, Grows(e), NEW c \in Instances, Claimed, c = client, bound.announces => ToldFor(c)'
  PROVE  ClaimFor(c)'
<1>1. UNCHANGED <<stored, todo, named, calling, queue, reading, asks, out, bound>>
  BY DEF Grows
<1>2. Owed' \subseteq Owed /\ Learnt' = Learnt
  BY GrowsKeeps
<1>3. ClaimFor(c)
  BY DEF CatchUpInv, ClaimOK
<1>4. OneAnswerFor(c)'
  BY <1>1, <1>3 DEF ClaimFor, OneAnswerFor
<1>5. ComingFor(c) => ComingFor(c)'
  <2>1. Sent(c)' = Sent(c)
    BY <1>1 DEF Sent
  <2> QED BY <1>1, <1>2, <2>1 DEF ComingFor
<1>6. FirstFor(c) => FirstFor(c)'
  BY <1>1, <1>2 DEF FirstFor
<1> QED BY <1>1, <1>3, <1>4, <1>5, <1>6 DEF ClaimFor

(* What is announced of it, when the file grows.                           *)
LEMMA GrowsTold ==
  ASSUME RecorderTypeOK, CatchUpInv, NEW e, Grows(e), NEW c \in Instances, ToldFor(c), InTurn(out'[c], unsaid'),
         ToCome(c)' = ToCome(c) \/ (st[c] = "run" /\ ToCome(c)' = ToCome(c) \union {e}),
         ToCome(c)' = ToCome(c) => st[c] # "run"
  PROVE  ToldFor(c)'
<1>1. /\ UNCHANGED <<calling, st, out>> /\ Sent(c)' = Sent(c) /\ Held(file') \subseteq Held(file) \union {e}
  BY DEF Grows, Sent
<1>2. Learnt' = Learnt /\ Within(Learnt) /\ e \in Nat /\ \A x \in 1 .. Latest : x < e
  BY GrowsKeeps
<1>3. \A x : Found(c, x)' <=> Found(c, x)
  BY <1>1, <1>2 DEF Found
<1>4. ToCome(c) \subseteq 1 .. Latest
  <2>1. Held(unsaid) \subseteq 1 .. Latest
    BY DEF CatchUpInv, KnowledgeOK, NumbersOK, Within
  <2>2. Said(out[c]) \subseteq 1 .. Latest
    <3>1. \A m \in Sent(c) : MessageOK(m)
      BY DEF CatchUpInv, KnowledgeOK, MessagesOK
    <3>2. \A m \in Sent(c) : m.t = "entry" => m.e \in 1 .. Latest
      BY <3>1 DEF MessageOK, Within
    <3> QED BY <3>2 DEF Said, Sent
  <2> QED BY <2>1, <2>2 DEF ToCome
<1>5. \A y \in Learnt \union ToCome(c) : y \in Nat /\ y < e
  BY <1>2, <1>4 DEF Within
<1>6. ASSUME Follows(c)
      PROVE  Follows(c)'
  <2>1. ASSUME NEW y \in Learnt, NEW x \in Held(file'), x < y
        PROVE  Found(c, x)
    <3>1. x # e
      BY <1>2, <1>5, <2>1
    <3> QED BY <1>1, <1>6, <2>1, <3>1 DEF Follows
  <2>2. ASSUME NEW y \in ToCome(c)', NEW x \in Held(file'), x < y
        PROVE  Found(c, x) \/ x \in ToCome(c)'
    <3>1. CASE x = e
      <4>1. y \notin ToCome(c)
        BY <1>2, <1>5, <2>2, <3>1
      <4> QED BY <2>2, <3>1, <4>1
    <3>2. CASE x # e /\ y \in ToCome(c)
      BY <1>1, <1>6, <2>2, <3>2 DEF Follows
    <3>3. CASE x # e /\ y \notin ToCome(c)
      <4>1. st[c] = "run" /\ x \in Held(file)
        BY <1>1, <2>2, <3>3
      <4> QED BY <1>6, <4>1 DEF Follows
    <3> QED BY <3>1, <3>2, <3>3
  <2>3. ASSUME st[c] = "run", NEW x \in Held(file')
        PROVE  Found(c, x) \/ x \in ToCome(c)'
    <3>1. ToCome(c)' = ToCome(c) \union {e}
      BY <2>3
    <3> QED BY <1>1, <1>6, <2>3, <3>1 DEF Follows
  <2> QED BY <1>1, <1>2, <1>3, <2>1, <2>2, <2>3 DEF Follows
<1> QED BY <1>1, <1>6 DEF ToldFor

LEMMA PiAppendsCatches ==
  ASSUME NEW i \in Instances, RecorderTypeOK, RecorderTypeOK', CatchUpInv, PiAppends(i)
  PROVE  CatchUpInv'
<1>1. PICK e : e = Latest + 1
  OBVIOUS
<1>2. /\ todo = << >> /\ st[i] = "run" /\ Spend("entries") /\ file' = Append(file, e)
      /\ unsaid' = (IF bound.announces THEN Append(unsaid, e) ELSE unsaid)
      /\ UNCHANGED <<stored, todo, cursor, client, context, named, calling, phase, ends, queue, reading, control,
                     st, asks, out, bound, due, missed>>
  BY <1>1 DEF PiAppends, Quiet, NewEntry, Latest, obsVars, storeVars, indexVars, connectVars, endVars, readVars, piVars, ghostVars
<1>3. used.entries \in Nat /\ used.rewrites \in Nat
      /\ used'.entries = used.entries + 1 /\ used'.rewrites = used.rewrites /\ used'.instances = used.instances
  BY <1>2 DEF Spend, RecorderTypeOK, BoundTyped, Counted
<1>4. e \in Nat /\ Latest' = e /\ file \in Seq(Nat) /\ unsaid \in Seq(Nat)
  <2>1. Latest = used.entries + used.rewrites /\ Latest' = used'.entries + used'.rewrites
    BY DEF Latest
  <2>2. e \in Nat /\ Latest' = e
    BY <1>1, <1>3, <2>1
  <2> QED BY <2>2 DEF RecorderTypeOK, FileTyped
<1>5. i <= used.instances /\ used.instances # 0
  <2>1. used.instances \in Nat /\ i \in Nat /\ i # 0
    BY InstancesAre DEF RecorderTypeOK, BoundTyped, Counted
  <2>2. i > used.instances => st[i] = "none"
    BY DEF CatchUpInv, KnowledgeOK, ProcessesOK
  <2> QED BY <1>2, <2>1, <2>2
<1>6. file' \in Seq(Nat) /\ Increasing(file') /\ Held(file') = Held(file) \union {e}
  <2>1. \A x \in Held(file) : x < e
    BY <1>1, <1>3 DEF CatchUpInv, KnowledgeOK, NumbersOK, Within, Latest
  <2>2. Increasing(file)
    BY DEF CatchUpInv, KnowledgeOK, NumbersOK
  <2>3. Append(file, e) \in Seq(Nat) /\ Held(Append(file, e)) = Held(file) \union {e}
    BY <1>4, AppendIs
  <2>4. Increasing(Append(file, e))
    BY <1>4, <2>1, <2>2, IncreasingAppend
  <2> QED BY <1>2, <2>3, <2>4
<1>7. Grows(e)
  BY <1>1, <1>2, <1>3, <1>4, <1>5, <1>6 DEF Grows
<1>8. /\ KnowledgeOK' /\ CallsOK' /\ (Claimed' <=> Claimed)
      /\ \A x \in 1 .. Latest : x < e
  BY <1>7, GrowsKeeps
<1>9. ClaimOK'
  <2> SUFFICES ASSUME NEW c \in Instances, Claimed, c = client
               PROVE  ClaimFor(c)'
    BY <1>2, <1>8 DEF ClaimOK
  <2>1. ASSUME bound.announces
        PROVE  ToldFor(c)'
    <3>1. c = i
      <4>1. client <= used.instances
        BY DEF CatchUpInv, KnowledgeOK, ProcessesOK
      <4> QED BY <1>5, <2>1, <4>1, OnlyOne
    <3>2. ToldFor(c)
      BY <2>1 DEF CatchUpInv, ClaimOK, ClaimFor
    <3>3. InTurn(out[c], unsaid)
      BY <3>2 DEF ToldFor
    <3>4. \A x \in Said(out[c]) \union Held(unsaid) : x < e
      <4>1. \A m \in Sent(c) : m.t = "entry" => m.e \in 1 .. Latest
        BY DEF CatchUpInv, KnowledgeOK, MessagesOK, MessageOK, Within
      <4>2. Held(unsaid) \subseteq 1 .. Latest
        BY DEF CatchUpInv, KnowledgeOK, NumbersOK, Within
      <4> QED BY <1>8, <4>1, <4>2 DEF Said, Sent
    <3>5. InTurn(out'[c], unsaid')
      BY <1>2, <1>4, <2>1, <3>3, <3>4, TurnMade
    <3>6. ToCome(c)' = ToCome(c) \union {e}
      <4>1. Held(Append(unsaid, e)) = Held(unsaid) \union {e}
        BY <1>4, AppendIs
      <4>2. unsaid' = Append(unsaid, e) /\ out' = out
        BY <1>2, <2>1
      <4> QED BY <4>1, <4>2 DEF ToCome
    <3>7. e \notin ToCome(c)
      BY <1>4, <3>4 DEF ToCome
    <3> QED BY <1>2, <1>7, <3>1, <3>2, <3>5, <3>6, <3>7, GrowsTold
  <2> QED BY <1>7, <2>1, GrowsClaim
<1> QED BY <1>8, <1>9 DEF CatchUpInv

LEMMA RewrittenCatches ==
  ASSUME RecorderTypeOK, RecorderTypeOK', CatchUpInv, Rewritten
  PROVE  CatchUpInv'
<1>1. PICK e, f : e = Latest + 1 /\ f = Front(file)
  OBVIOUS
<1>2. /\ todo = << >> /\ (\A i \in Instances : st[i] # "run") /\ file # << >> /\ Spend("rewrites") /\ file' = Append(f, e)
      /\ UNCHANGED <<stored, todo, cursor, client, context, named, calling, phase, ends, queue, reading, control,
                     st, asks, out, bound, due, missed, unsaid>>
  BY <1>1 DEF Rewritten, Quiet, NewEntry, Latest, obsVars, storeVars, indexVars, connectVars, endVars, readVars, piVars, ghostVars
<1>3. used.entries \in Nat /\ used.rewrites \in Nat
      /\ used'.entries = used.entries /\ used'.rewrites = used.rewrites + 1 /\ used'.instances = used.instances
  BY <1>2 DEF Spend, RecorderTypeOK, BoundTyped, Counted
<1>4. e \in Nat /\ Latest' = e /\ file \in Seq(Nat)
  <2>1. Latest = used.entries + used.rewrites /\ Latest' = used'.entries + used'.rewrites
    BY DEF Latest
  <2>2. e \in Nat /\ Latest' = e
    BY <1>1, <1>3, <2>1
  <2> QED BY <2>2 DEF RecorderTypeOK, FileTyped
<1>5. used.instances # 0
  BY <1>2, <1>4, HeldIs DEF CatchUpInv, KnowledgeOK, ProcessesOK
<1>6. f \in Seq(Nat) /\ Held(f) \subseteq Held(file) /\ Increasing(f)
  <2>1. Len(file) \in Nat /\ Len(file) - 1 \in 0 .. Len(file)
    BY <1>2, <1>4, EmptySeq
  <2>2. f \in Seq(Nat) /\ Len(f) = Len(file) - 1 /\ \A n \in 1 .. Len(file) - 1 : f[n] = file[n]
    <3>1. PICK k : k = Len(file) - 1
      OBVIOUS
    <3>2. f = SubSeq(file, 1, k) /\ k \in 0 .. Len(file)
      BY <1>1, <2>1, <3>1 DEF Front
    <3>3. SubSeq(file, 1, k) \in Seq(Nat) /\ Len(SubSeq(file, 1, k)) = k /\ \A n \in 1 .. k : SubSeq(file, 1, k)[n] = file[n]
      BY <1>4, <3>2, Fronts
    <3> QED BY <3>1, <3>2, <3>3
  <2>3. \A n \in 1 .. Len(f) : n \in 1 .. Len(file) /\ f[n] = file[n]
    BY <2>1, <2>2
  <2>4. Held(f) \subseteq Held(file)
    BY <2>3 DEF Held
  <2>5. Increasing(f)
    BY <2>3 DEF CatchUpInv, KnowledgeOK, NumbersOK, Increasing
  <2> QED BY <2>2, <2>4, <2>5
<1>7. file' \in Seq(Nat) /\ Increasing(file') /\ Held(file') \subseteq Held(file) \union {e}
  <2>1. \A x \in Held(file) : x < e
    BY <1>1, <1>3 DEF CatchUpInv, KnowledgeOK, NumbersOK, Within, Latest
  <2> QED BY <1>2, <1>4, <1>6, <2>1, AppendIs, IncreasingAppend
<1>8. Grows(e)
  BY <1>1, <1>2, <1>3, <1>4, <1>5, <1>7 DEF Grows
<1>9. KnowledgeOK' /\ CallsOK' /\ (Claimed' <=> Claimed)
  BY <1>8, GrowsKeeps
<1>10. ClaimOK'
  <2> SUFFICES ASSUME NEW c \in Instances, Claimed, c = client
               PROVE  ClaimFor(c)'
    BY <1>2, <1>9 DEF ClaimOK
  <2>1. ASSUME bound.announces
        PROVE  ToldFor(c)'
    <3>1. ToldFor(c)
      BY <2>1 DEF CatchUpInv, ClaimOK, ClaimFor
    <3>2. InTurn(out'[c], unsaid') /\ ToCome(c)' = ToCome(c)
      BY <1>2, <3>1 DEF ToldFor, ToCome
    <3> QED BY <1>2, <1>8, <3>1, <3>2, GrowsTold
  <2> QED BY <1>8, <2>1, GrowsClaim
<1> QED BY <1>9, <1>10 DEF CatchUpInv

-----------------------------------------------------------------------------
(* The process of the attachment is gone.                                  *)

LEMMA GoneCatches ==
  ASSUME RecorderTypeOK, RecorderTypeOK', CatchUpInv, Gone,
         used'.instances = used.instances, used'.entries = used.entries, used'.rewrites = used.rewrites,
         KindsIn(stored'), EntriesIn(stored') \subseteq Learnt,
         ~bound.announces => \A y \in EntriesIn(stored'), x \in Held(file) : x < y => x \in EntriesIn(stored')
  PROVE  CatchUpInv'
<1>1. /\ phase' = "down" /\ todo' = << >> /\ cursor' = 0 /\ client' = 0 /\ context' = 0 /\ named' = FALSE /\ calling' = "no"
      /\ queue' = << >> /\ reading' = NoRead /\ control' = NoControl /\ st' = [i \in Instances |-> "none"]
      /\ asks' = [i \in Instances |-> << >>] /\ out' = [i \in Instances |-> << >>] /\ due' = {}
      /\ unsaid' = << >> /\ file' = file /\ bound' = bound
  BY DEF Gone
<1>2. Held(<< >>) = {} /\ Len(<< >>) = 0 /\ EntriesIn(<< >>) = {}
  BY HeldNone, EntriesNone
<1>3. /\ Latest' = Latest /\ Learnt' = EntriesIn(stored') /\ Held(file)' = Held(file) /\ Held(unsaid)' = {}
  BY <1>1, <1>2 DEF Latest, Learnt
<1>4. \A i \in Instances : st'[i] = "none" /\ Sent(i)' = {} /\ Asked(i)' = {}
  BY <1>1, <1>2 DEF Sent, Asked
<1>5. KnowledgeOK
  BY DEF CatchUpInv
<1>6. NumbersOK'
  BY <1>1, <1>3, <1>5 DEF KnowledgeOK, NumbersOK, Within
<1>7. KindsOK'
  BY <1>1, <1>2 DEF KindsOK, KindsIn
<1>8. MessagesOK' /\ CoverOK'
  BY <1>4 DEF MessagesOK, CoverOK
<1>9. ProcessesOK'
  <2>1. client' <= used'.instances /\ reading'.inst <= used'.instances
    <3>1. used.instances \in Nat /\ NoRead.inst = 0
      BY DEF RecorderTypeOK, BoundTyped, Counted, NoRead
    <3> QED BY <1>1, <3>1
  <2> QED BY <1>1, <1>3, <1>4, <1>5, <2>1 DEF KnowledgeOK, ProcessesOK
<1>10. OrderOK'
  <2>1. Ordering(todo)'
    BY <1>1, <1>2 DEF Ordering
  <2> QED BY <1>1, <1>3, <1>4, <2>1 DEF OrderOK
<1>11. CallsOK'
  <2>1. OneConnect(queue', calling')
    BY <1>1, <1>2 DEF OneConnect
  <2> QED BY <1>1, <2>1 DEF CallsOK
<1>12. ~Claimed'
  BY <1>1 DEF Claimed
<1> QED BY <1>6, <1>7, <1>8, <1>9, <1>10, <1>11, <1>12, NotClaimed DEF CatchUpInv, KnowledgeOK

LEMMA LeaveCatches ==
  ASSUME RecorderTypeOK, RecorderTypeOK', CatchUpInv, Leave
  PROVE  CatchUpInv'
<1>1. Gone /\ stored' = stored /\ used' = used
  BY DEF Leave
<1>2. KindsIn(stored) /\ EntriesIn(stored) \subseteq Learnt
  BY DEF CatchUpInv, KnowledgeOK, KindsOK, Learnt
<1>3. ~bound.announces => \A y \in EntriesIn(stored), x \in Held(file) : x < y => x \in EntriesIn(stored)
  BY DEF CatchUpInv, KnowledgeOK, OrderOK
<1> QED BY <1>1, <1>2, <1>3, GoneCatches

LEMMA KilledCatches ==
  ASSUME RecorderTypeOK, RecorderTypeOK', StoreInv, CatchUpInv, Killed
  PROVE  CatchUpInv'
<1>1. Gone /\ Spend("crashes")
  BY DEF Killed
<1>2. used'.instances = used.instances /\ used'.entries = used.entries /\ used'.rewrites = used.rewrites
  BY <1>1, SpentElsewhere DEF RecorderTypeOK
<1>3. KnowledgeOK /\ KindsOK /\ OrderOK
  BY DEF CatchUpInv, KnowledgeOK
<1>4. stored \in Seq(Stored) /\ EntriesIn(stored) \subseteq Learnt
  BY DEF RecorderTypeOK, StoreTyped, Learnt
<1>5. CASE stored' = stored
  <2>1. KindsIn(stored)
    BY <1>3 DEF KindsOK
  <2>2. ~bound.announces => \A y \in EntriesIn(stored), x \in Held(file) : x < y => x \in EntriesIn(stored)
    BY <1>3 DEF OrderOK
  <2> QED BY <1>1, <1>2, <1>4, <1>5, <2>1, <2>2, GoneCatches
<1>6. CASE todo # << >>
  <2>1. PICK e, more : e = Head(todo) /\ more = Ingested(Head(todo))
    OBVIOUS
  <2>2. PICK n \in 0 .. Len(more) : stored' = stored \o SubSeq(more, 1, n)
    BY <1>6, <2>1 DEF Killed
  <2>3. Writes(e, more)
    BY <1>3, <1>6, <2>1, IngestedIs
  <2>4. /\ EntriesIn(todo) = EntriesIn(<< e >>) \union EntriesIn(Tail(todo))
        /\ ~bound.announces => \A y \in EntriesIn(<< e >>), x \in Held(file) : x < y => x \in EntriesIn(stored)
    BY <1>3, <1>6, <2>1, TodoIs
  <2>5. PICK some : some = SubSeq(more, 1, n)
    OBVIOUS
  <2>6. more \in Seq(Stored) /\ some \in Seq(Stored) /\ Len(some) = n /\ Len(more) \in Nat /\ \A i \in 1 .. n : some[i] = more[i]
    <3>1. more \in Seq(Stored)
      BY <2>3 DEF Writes
    <3> QED BY <2>5, <3>1, Fronts
  <2>7. \A i \in 1 .. Len(some) : i \in 1 .. Len(more) /\ some[i] = more[i]
    BY <2>6
  <2>8. KindsIn(some)
    BY <2>3, <2>7 DEF Writes, KindsIn
  <2>9. EntriesIn(some) \subseteq EntriesIn(more)
    <3>1. \A y : y \in EntriesIn(some) <=> \E i \in 1 .. Len(some) : some[i].k = "entry" /\ some[i].id[2] = y
      BY <2>6, EntriesAre
    <3>2. \A y : y \in EntriesIn(more) <=> \E i \in 1 .. Len(more) : more[i].k = "entry" /\ more[i].id[2] = y
      BY <2>6, EntriesAre
    <3> QED BY <2>7, <3>1, <3>2
  <2>10. KindsIn(stored')
    BY <1>3, <1>4, <2>2, <2>5, <2>6, <2>8, KindsJoin DEF KindsOK
  <2>11. EntriesIn(stored') = EntriesIn(stored) \union EntriesIn(some)
    <3>1. EntriesIn(stored \o some) = EntriesIn(stored) \union EntriesIn(some)
      BY <1>4, <2>6, EntriesJoin
    <3> QED BY <2>2, <2>5, <3>1
  <2>12. EntriesIn(some) \subseteq EntriesIn(<< e >>)
    BY <2>3, <2>9 DEF Writes
  <2>13. EntriesIn(stored') \subseteq Learnt
    BY <2>4, <2>11, <2>12 DEF Learnt
  <2>14. ~bound.announces => \A y \in EntriesIn(stored'), x \in Held(file) : x < y => x \in EntriesIn(stored')
    BY <1>3, <2>4, <2>11, <2>12 DEF OrderOK
  <2> QED BY <1>1, <1>2, <2>10, <2>13, <2>14, GoneCatches
<1> QED BY <1>5, <1>6 DEF Killed

-----------------------------------------------------------------------------
LEMMA CatchUpStarts == RecorderInit => CatchUpInv
<1> SUFFICES ASSUME RecorderInit PROVE CatchUpInv
  OBVIOUS
<1>1. /\ phase = "down" /\ todo = << >> /\ stored = << >> /\ cursor = 0 /\ client = 0 /\ context = 0 /\ named = FALSE /\ calling = "no"
      /\ queue = << >> /\ reading = NoRead /\ control = NoControl /\ st = [i \in Instances |-> "none"]
      /\ asks = [i \in Instances |-> << >>] /\ out = [i \in Instances |-> << >>] /\ due = {}
      /\ unsaid = << >> /\ file = << >> /\ used = [what \in Counted |-> 0]
  BY DEF RecorderInit
<1>2. Held(<< >>) = {} /\ Len(<< >>) = 0 /\ EntriesIn(<< >>) = {}
  BY HeldNone, EntriesNone
<1>3. Held(file) = {} /\ Held(unsaid) = {} /\ Learnt = {} /\ EntriesIn(stored) = {}
  BY <1>1, <1>2 DEF Learnt
<1>4. \A i \in Instances : st[i] = "none" /\ Sent(i) = {} /\ Asked(i) = {}
  BY <1>1, <1>2 DEF Sent, Asked
<1>5. used.instances = 0 /\ reading.inst = 0
  BY <1>1 DEF Counted, NoRead
<1>6. NumbersOK
  BY <1>1, <1>2, <1>3 DEF NumbersOK, Within, Increasing
<1>7. KindsOK
  BY <1>1, <1>2 DEF KindsOK, KindsIn
<1>8. MessagesOK /\ CoverOK
  BY <1>4 DEF MessagesOK, CoverOK
<1>9. ProcessesOK
  BY <1>1, <1>3, <1>4, <1>5 DEF ProcessesOK
<1>10. OrderOK
  BY <1>1, <1>2, <1>3, <1>4 DEF OrderOK, Ordering
<1>11. CallsOK
  BY <1>1, <1>2 DEF CallsOK, OneConnect
<1>12. ClaimOK
  BY <1>1 DEF ClaimOK, Claimed
<1> QED BY <1>6, <1>7, <1>8, <1>9, <1>10, <1>11, <1>12 DEF CatchUpInv, KnowledgeOK

LEMMA CatchUpStands ==
  ASSUME RecorderTypeOK, RecorderTypeOK', CatchUpInv, UNCHANGED recorderVars
  PROVE  CatchUpInv'
<1>1. UNCHANGED <<stored, todo, cursor, client, context, named, calling, phase, ends, queue, reading, control,
                  st, asks, out, file, unsaid, used, bound, due, missed>>
  BY DEF recorderVars, storeVars, indexVars, connectVars, endVars, readVars, piVars, fileVars, ghostVars
<1>2. KnowledgeOK' /\ (Claimed' => Claimed) /\ EntriesIn(stored)' = EntriesIn(stored) /\ Learnt' = Learnt
  BY <1>1, StillKeeps DEF CatchUpInv
<1>3. CallsOK'
  BY <1>1, <1>2 DEF CatchUpInv, CallsOK
<1>4. Unnoticed
  BY <1>1, <1>2 DEF Unnoticed
<1> QED BY <1>2, <1>3, <1>4, UnnoticedKeeps DEF CatchUpInv

LEMMA CatchUpKeeps == RecorderInv /\ CatchUpInv /\ [RecorderNext]_recorderVars => CatchUpInv'
<1> SUFFICES ASSUME RecorderInv, CatchUpInv, [RecorderNext]_recorderVars PROVE CatchUpInv'
  OBVIOUS
<1>1. RecorderTypeOK /\ StoreInv /\ RecorderTypeOK'
  BY RecorderKeeps DEF RecorderInv
<1>2. CASE Runs
  <2>1. CASE StoreNext
    BY <1>1, <2>1, StoreNextCatches
  <2>2. CASE StartRead
    BY <1>1, <2>2, StartReadCatches
  <2>3. CASE SkipRead
    BY <1>1, <2>3, SkipReadCatches
  <2>4. CASE Launch
    BY <1>1, <2>4, LaunchCatches
  <2>5. CASE LaunchRefused
    BY <1>1, <2>5, LaunchRefusedCatches
  <2>6. CASE StateFails
    BY <1>1, <2>6, StateFailsCatches
  <2>7. CASE ReadLost
    BY <1>1, <2>7, ReadLostCatches
  <2>8. CASE ControlFails
    BY <1>1, <2>8, ControlFailsCatches
  <2>9. CASE Ended \/ Shut
    BY <1>1, <2>9, EndsCatch
  <2> QED BY <1>2, <2>1, <2>2, <2>3, <2>4, <2>5, <2>6, <2>7, <2>8, <2>9 DEF Runs
<1>3. CASE Chooses
  <2>1. CASE OpenSession
    BY <1>1, <2>1, OpenSessionCatches
  <2>2. CASE StateTimesOut
    BY <1>1, <2>2, StateTimesOutCatches
  <2>3. CASE Reconnect
    BY <1>1, <2>3, ReconnectCatches
  <2>4. CASE ReadFails
    BY <1>1, <2>4, ReadFailsCatches
  <2>5. CASE CloseSession
    BY <1>1, <2>5, CloseSessionCatches
  <2>6. CASE Terminate
    BY <1>1, <2>6, EndsCatch
  <2>7. CASE Leave
    BY <1>1, <2>7, LeaveCatches
  <2>8. CASE Killed
    BY <1>1, <2>8, KilledCatches
  <2>9. CASE Rewritten
    BY <1>1, <2>9, RewrittenCatches
  <2>10. CASE \E action \in {"abort", "prompt"} : Controls(action)
    BY <1>1, <2>10, ControlsCatches
  <2> QED BY <1>3, <2>1, <2>2, <2>3, <2>4, <2>5, <2>6, <2>7, <2>8, <2>9, <2>10 DEF Chooses
<1>4. CASE \E i \in Instances : PiDoes(i) \/ Seen(i)
  <2>1. PICK i \in Instances : PiDoes(i) \/ Seen(i)
    BY <1>4
  <2>2. CASE PiDoes(i)
    BY <1>1, <2>2, PiAnswersCatches, PiAppendsCatches, PiAnnouncesCatches, PiSaysCatches, PiExitsCatches DEF PiDoes
  <2>3. CASE Seen(i)
    BY <1>1, <2>3, HearsCatches, ExitReportedCatches, DrainedCatches DEF Seen
  <2> QED BY <2>1, <2>2, <2>3
<1>5. CASE UNCHANGED recorderVars
  BY <1>1, <1>5, CatchUpStands
<1> QED BY <1>2, <1>3, <1>4, <1>5 DEF RecorderNext

THEOREM CatchUpInvariance == RecorderSpec => []CatchUpInv
BY RecorderInvariance, CatchUpStarts, CatchUpKeeps, PTL DEF RecorderSpec

(* Of Pi's session nothing is doubled, and once no catch-up is left nothing *)
(* is short: what Pi's file held when Pi was started, or when a turn or run *)
(* was reported finished, is recorded (#catchUp, #readEntries, #record).    *)
THEOREM EntriesOnce == RecorderSpec => []EntriesRecordedOnce
<1>1. RecorderInv /\ CatchUpInv => CaughtUp
  <2> SUFFICES ASSUME RecorderInv, CatchUpInv, Settled, ~missed, bound.announces => used.instances = 1
               PROVE  (due \intersect ToSet(file)) \subseteq EntriesIn(stored)
    BY DEF CaughtUp
  <2>1. phase = "up" /\ Running(client) /\ calling = "no" /\ queue = << >> /\ todo = << >>
    BY DEF Settled
  <2>2. RecorderTypeOK
    BY DEF RecorderInv
  <2>3. client \in Instances
    BY <2>1, <2>2, InstancesAre DEF RecorderTypeOK, ConnectTyped, Running
  <2>4. Claimed
    BY <2>1 DEF Claimed
  <2>5. ComingFor(client)
    BY <2>1, <2>3, <2>4 DEF CatchUpInv, ClaimOK, ClaimFor
  <2>6. Owed \subseteq Learnt
    BY <2>1, <2>5, HeldNone DEF ComingFor
  <2>7. ToSet(file) = Held(file)
    BY <2>2, HeldIs DEF RecorderTypeOK, FileTyped
  <2>8. Learnt = EntriesIn(stored)
    BY <2>1, EntriesNone DEF Learnt
  <2> QED BY <2>6, <2>7, <2>8 DEF Owed
<1>2. RecordedOnce /\ CaughtUp => EntriesRecordedOnce
  BY DEF EntriesRecordedOnce
<1> QED BY <1>1, <1>2, RecorderInvariance, CatchUpInvariance, StoredOnce, PTL
=============================================================================
