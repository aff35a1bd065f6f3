------------------------------ MODULE Files_proofs ------------------------------
(***************************************************************************)
(* Proofs about the two components whose state is in single files.         *)
(*                                                                         *)
(* The write-once record files, for any number of writers, names and       *)
(* calls: the invariant Inv adds to the stated properties where each       *)
(* writer's current call stands, that nothing of it is linked before its   *)
(* link step, and that its bytes are durable by then.                      *)
(*                                                                         *)
(* The writer lock, for any number of processes and opens: the lock file   *)
(* is never left by a living process, and while no process ends the lock   *)
(* is exclusive.  What breaks it is a process that ends between another's  *)
(* probe and its removal, which the runs show.                             *)
(***************************************************************************)
EXTENDS WriteOnce, WriterLock, TLAPS

(* What is known of the call a writer is in, by its program point. *)
CallOK(w) ==
  pc[w] # "idle" =>
    /\ call[w] \in 1 .. MaxCalls
    /\ target[Current(w)] \in Names
    /\ pc[w] \in {"sweep", "opened", "written", "synced"} =>
         /\ result[Current(w)] = "pending"
         /\ \A n \in Names : final[n] # Current(w)
    /\ pc[w] = "synced" => body[Current(w)] = "durable"
    /\ pc[w] \in {"linked", "kept"} =>
         /\ result[Current(w)] = "pending"
         /\ final[target[Current(w)]] = Current(w)

CallInv == \A w \in Writers : CallOK(w)

(* A call that has not begun has left no trace. *)
UnbegunInv ==
  \A c \in Calls : c[2] > call[c[1]] =>
    /\ target[c] = None
    /\ result[c] = "pending"
    /\ \A n \in Names : final[n] # c

(* What a final name links is durable, and was meant for that name. *)
WholeInv ==
  \A n \in Names : final[n] # None =>
    body[final[n]] = "durable" /\ target[final[n]] = n

FlushedInv == \A n \in flushed : final[n] # None

Inv ==
  /\ TypeOK
  /\ CallInv
  /\ UnbegunInv
  /\ FlushedInv
  /\ WholeInv
  /\ RefusedLeftNothing

-----------------------------------------------------------------------------
USE NoneAssumption, MaxCallsAssumption

(* Writers and calls of different numbers never share a call. *)
LEMMA CurrentIsACall ==
  ASSUME NEW w \in Writers, call[w] \in 1 .. MaxCalls
  PROVE  Current(w) \in Calls
  BY DEF Current, Calls

(* Every name is free, every call pending and no writer inside a call. *)
LEMMA InitInv == Init => Inv
<1> SUFFICES ASSUME Init PROVE Inv
    OBVIOUS
<1>1. TypeOK
  BY DEF Init, TypeOK, Steps, Bodies, Results, Calls
<1>2. CallInv /\ UnbegunInv /\ FlushedInv
  BY DEF Init, CallInv, CallOK, UnbegunInv, FlushedInv, Calls
<1>3. WholeInv /\ RefusedLeftNothing
  BY DEF Init, WholeInv, RefusedLeftNothing
<1> QED
  BY <1>1, <1>2, <1>3 DEF Inv

(* Every step keeps the types. *)
LEMMA TypeStep == Inv /\ [Next]_vars => TypeOK'
<1> SUFFICES ASSUME Inv, [Next]_vars PROVE TypeOK'
    OBVIOUS
<1> USE DEF Inv, TypeOK
<1>0. \A w \in Writers : pc[w] # "idle" => Current(w) \in Calls
  BY CurrentIsACall DEF CallInv, CallOK
<1>1. ASSUME NEW w \in Writers, NEW n \in Names, Begin(w, n) PROVE TypeOK'
  BY <1>1 DEF Begin, At, Steps, Calls
<1>2. ASSUME NEW w \in Writers, NEW c \in Calls, Sweep(w, c) PROVE TypeOK'
  BY <1>2 DEF Sweep
<1>3. ASSUME NEW w \in Writers, Open(w) PROVE TypeOK'
  BY <1>0, <1>3 DEF Open, At, Steps
<1>4. ASSUME NEW w \in Writers, Write(w) \/ Fsync(w) PROVE TypeOK'
  BY <1>0, <1>4 DEF Write, Fsync, At, Steps, Bodies
<1>5. ASSUME NEW w \in Writers, Fail(w) PROVE TypeOK'
  BY <1>0, <1>5 DEF Fail, Steps, Results
<1>6. ASSUME NEW w \in Writers, Link(w) PROVE TypeOK'
  BY <1>0, <1>6 DEF Link, At, Steps
<1>7. ASSUME NEW w \in Writers, LinkRefused(w) PROVE TypeOK'
  BY <1>0, <1>7 DEF LinkRefused, At, Steps, Results
<1>8. ASSUME NEW w \in Writers, SyncDirectory(w) \/ Created(w) PROVE TypeOK'
  BY <1>0, <1>8 DEF SyncDirectory, Created, At, Steps, Results
<1>9. ASSUME NEW w \in Writers, Return(w) PROVE TypeOK'
  BY <1>0, <1>9 DEF Return, At, Steps
<1>10. ASSUME NEW w \in Writers, Crash(w) PROVE TypeOK'
  BY <1>10 DEF Crash, Steps
<1>11. ASSUME NEW c \in Calls, GrowOld(c) PROVE TypeOK'
  BY <1>11 DEF GrowOld
<1>12. CASE PowerLoss
  BY <1>12 DEF PowerLoss, Steps, Bodies
<1>13. CASE UNCHANGED vars
  BY <1>13 DEF vars
<1> QED
  BY <1>1, <1>2, <1>3, <1>4, <1>5, <1>6, <1>7, <1>8, <1>9, <1>10, <1>11, <1>12, <1>13
  DEF Next, Step

(* Every step keeps what is known of the calls in progress. *)
LEMMA CallStep == Inv /\ [Next]_vars => (CallInv /\ UnbegunInv /\ FlushedInv)'
<1> SUFFICES ASSUME Inv, [Next]_vars PROVE (CallInv /\ UnbegunInv /\ FlushedInv)'
    OBVIOUS
<1> USE DEF Inv, TypeOK, CallInv, CallOK, UnbegunInv, FlushedInv, Current, Calls
<1>1. ASSUME NEW w \in Writers, NEW n \in Names, Begin(w, n)
      PROVE  (CallInv /\ UnbegunInv /\ FlushedInv)'
  BY <1>1 DEF Begin, At
<1>2. ASSUME NEW w \in Writers, NEW c \in Calls, Sweep(w, c)
      PROVE  (CallInv /\ UnbegunInv /\ FlushedInv)'
  BY <1>2 DEF Sweep
<1>3. ASSUME NEW w \in Writers, Open(w) \/ Write(w) \/ Fsync(w)
      PROVE  (CallInv /\ UnbegunInv /\ FlushedInv)'
  <2>1. CASE Open(w)
    BY <2>1 DEF Open, At
  <2>2. CASE Write(w)
    BY <2>2 DEF Write, At
  <2>3. CASE Fsync(w)
    BY <2>3 DEF Fsync, At
  <2> QED
    BY <1>3, <2>1, <2>2, <2>3
<1>4. ASSUME NEW w \in Writers, Fail(w)
      PROVE  (CallInv /\ UnbegunInv /\ FlushedInv)'
  BY <1>4 DEF Fail
<1>5. ASSUME NEW w \in Writers, Link(w)
      PROVE  (CallInv /\ UnbegunInv /\ FlushedInv)'
  <2>1. ASSUME NEW v \in Writers PROVE CallOK(v)'
    <3>1. CASE v = w
      BY <1>5, <3>1 DEF Link, At
    <3>2. CASE v # w
      <4>1. pc'[v] = pc[v] /\ call' = call /\ target' = target /\ body' = body /\ result' = result
        BY <1>5, <3>2 DEF Link, At
      <4>2. Current(v) # Current(w)
        BY <3>2
      <4>3. final' = [final EXCEPT ![target[Current(w)]] = Current(w)]
        BY <1>5 DEF Link
      <4>4. \A n \in Names : final[n] # None => final'[n] = final[n]
        BY <1>5 DEF Link
      <4>5. \A n \in Names : final'[n] \in {final[n], Current(w)}
        BY <4>3
      <4> QED
        BY <4>1, <4>2, <4>4, <4>5
    <3> QED
      BY <3>1, <3>2
  <2>2. UnbegunInv'
    BY <1>5 DEF Link, At
  <2>3. FlushedInv'
    BY <1>5 DEF Link, At
  <2> QED
    BY <2>1, <2>2, <2>3
<1>6. ASSUME NEW w \in Writers, LinkRefused(w)
      PROVE  (CallInv /\ UnbegunInv /\ FlushedInv)'
  BY <1>6 DEF LinkRefused, At
<1>7. ASSUME NEW w \in Writers, SyncDirectory(w) \/ Created(w) \/ Return(w)
      PROVE  (CallInv /\ UnbegunInv /\ FlushedInv)'
  <2>1. CASE SyncDirectory(w)
    BY <2>1 DEF SyncDirectory, At
  <2>2. CASE Created(w)
    BY <2>2 DEF Created, At
  <2>3. CASE Return(w)
    BY <2>3 DEF Return, At
  <2> QED
    BY <1>7, <2>1, <2>2, <2>3
<1>8. ASSUME NEW w \in Writers, Crash(w)
      PROVE  (CallInv /\ UnbegunInv /\ FlushedInv)'
  BY <1>8 DEF Crash
<1>9. ASSUME NEW c \in Calls, GrowOld(c)
      PROVE  (CallInv /\ UnbegunInv /\ FlushedInv)'
  BY <1>9 DEF GrowOld
<1>10. CASE PowerLoss
  BY <1>10 DEF PowerLoss
<1>11. CASE UNCHANGED vars
  BY <1>11 DEF vars
<1> QED
  BY <1>1, <1>2, <1>3, <1>4, <1>5, <1>6, <1>7, <1>8, <1>9, <1>10, <1>11 DEF Next, Step

(* Every step keeps the records whole and the answers true. *)
LEMMA SafetyStep == Inv /\ [Next]_vars => (WholeInv /\ RefusedLeftNothing)'
<1> SUFFICES ASSUME Inv, [Next]_vars PROVE (WholeInv /\ RefusedLeftNothing)'
    OBVIOUS
<1> USE DEF Inv, TypeOK, CallInv, CallOK, UnbegunInv, WholeInv, RefusedLeftNothing, Current, Calls
<1>1. ASSUME NEW w \in Writers, NEW n \in Names, Begin(w, n)
      PROVE  (WholeInv /\ RefusedLeftNothing)'
  BY <1>1 DEF Begin, At
<1>2. ASSUME NEW w \in Writers, NEW c \in Calls, Sweep(w, c)
      PROVE  (WholeInv /\ RefusedLeftNothing)'
  BY <1>2 DEF Sweep
<1>3. ASSUME NEW w \in Writers, Open(w) \/ Write(w) \/ Fsync(w)
      PROVE  (WholeInv /\ RefusedLeftNothing)'
  BY <1>3 DEF Open, Write, Fsync, At
<1>4. ASSUME NEW w \in Writers, Fail(w) \/ LinkRefused(w)
      PROVE  (WholeInv /\ RefusedLeftNothing)'
  <2>1. CASE Fail(w)
    BY <2>1 DEF Fail
  <2>2. CASE LinkRefused(w)
    BY <2>2 DEF LinkRefused, At
  <2> QED
    BY <1>4, <2>1, <2>2
<1>5. ASSUME NEW w \in Writers, Link(w)
      PROVE  (WholeInv /\ RefusedLeftNothing)'
  BY <1>5 DEF Link, At
<1>6. ASSUME NEW w \in Writers, SyncDirectory(w) \/ Created(w) \/ Return(w) \/ Crash(w)
      PROVE  (WholeInv /\ RefusedLeftNothing)'
  <2>1. CASE SyncDirectory(w) \/ Return(w) \/ Crash(w)
    BY <2>1 DEF SyncDirectory, Return, Crash, At
  <2>2. CASE Created(w)
    BY <2>2 DEF Created, At
  <2> QED
    BY <1>6, <2>1, <2>2
<1>7. ASSUME NEW c \in Calls, GrowOld(c)
      PROVE  (WholeInv /\ RefusedLeftNothing)'
  BY <1>7 DEF GrowOld
<1>8. CASE PowerLoss
  BY <1>8 DEF PowerLoss
<1>9. CASE UNCHANGED vars
  BY <1>9 DEF vars
<1> QED
  BY <1>1, <1>2, <1>3, <1>4, <1>5, <1>6, <1>7, <1>8, <1>9 DEF Next, Step

(* The strengthened invariant of the write-once directory. *)
THEOREM Invariance == Spec => []Inv
<1>1. Init => Inv
  BY InitInv
<1>2. Inv /\ [Next]_vars => Inv'
  BY TypeStep, CallStep, SafetyStep DEF Inv
<1> QED
  BY <1>1, <1>2, PTL DEF Spec

(* Types, for any number of writers. *)
THEOREM TypeCorrect == Spec => []TypeOK
BY Invariance, PTL DEF Inv

(* Whatever a final name links was durable before it was linked, so a      *)
(* reader never sees part of a record, not even after a power loss.        *)
THEOREM RecordsAreWhole == Spec => []WholeRecords
<1>1. Inv => WholeRecords
  BY DEF Inv, WholeInv, WholeRecords, Read
<1> QED
  BY <1>1, Invariance, PTL

(* A call that was told "failed" or "exists" has left nothing under a name. *)
THEOREM RefusalsLeaveNothing == Spec => []RefusedLeftNothing
BY Invariance, PTL DEF Inv

(* A record under a name is only ever taken by a power loss, and never one *)
(* whose directory entry was made durable.                                 *)
THEOREM RecordsAreNeverReplaced == Spec => NeverReplaced
<1> DEFINE Replaced == \A n \in Names : final[n] # None /\ final'[n] # final[n] =>
                 n \notin flushed /\ final'[n] = None /\ \A w \in Writers : pc'[w] = "idle"
<1>1. Inv /\ [Next]_vars => [Replaced]_vars
  <2> SUFFICES ASSUME Inv, Next PROVE Replaced
      BY DEF vars
  <2>1. ASSUME NEW w \in Writers, Link(w) PROVE Replaced
    BY <2>1 DEF Link, At, Inv, TypeOK
  <2>2. CASE PowerLoss
    BY <2>2 DEF PowerLoss, Inv, TypeOK
  <2>3. CASE final' = final
    BY <2>3
  <2> QED
    BY <2>1, <2>2, <2>3
    DEF Next, Step, Begin, Sweep, Open, Write, Fsync, Fail, LinkRefused, SyncDirectory,
        Created, Return, Crash, GrowOld
<1> QED
  BY <1>1, Invariance, PTL DEF Spec, NeverReplaced

(* The directory implements the write-once records: each step is a step of *)
(* the abstract record or leaves it alone.                                 *)
THEOREM ImplementsRecord == Spec => RecordSpec
<1>1. Init => Record!Init
  BY DEF Init, Record!Init
<1>2. Inv /\ [Next]_vars => [Record!Next]_(Record!vars)
  <2> SUFFICES ASSUME Inv, Next PROVE Record!Next \/ UNCHANGED <<target, final, flushed, result>>
      BY DEF vars, Record!vars
  <2> USE DEF Inv, TypeOK, CallInv, CallOK, UnbegunInv, Current, Calls
  <2>1. ASSUME NEW w \in Writers, NEW n \in Names, Begin(w, n) PROVE Record!Next
    <3>1. Record!Ask(<<w, call[w] + 1>>, n)
      BY <2>1 DEF Begin, At, Record!Ask
    <3> QED
      BY <2>1, <3>1 DEF Begin, Record!Next
  <2>2. ASSUME NEW w \in Writers, Fail(w) PROVE Record!Next
    <3>0. /\ target[Current(w)] \in Names /\ result[Current(w)] = "pending"
          /\ final[target[Current(w)]] # Current(w)
      BY <2>2 DEF Fail
    <3>1. Record!TellFailed(Current(w))
      BY <2>2, <3>0 DEF Fail, Record!TellFailed, Record!Tell
    <3> QED
      BY <2>2, <3>1 DEF Fail, Record!Next
  <2>3. ASSUME NEW w \in Writers, Link(w) PROVE Record!Next
    <3>1. Record!Take(Current(w))
      BY <2>3 DEF Link, At, Record!Take
    <3> QED
      BY <2>3, <3>1 DEF Link, At, Record!Next
  <2>4. ASSUME NEW w \in Writers, LinkRefused(w) PROVE Record!Next
    <3>0. /\ target[Current(w)] \in Names /\ result[Current(w)] = "pending"
          /\ final[target[Current(w)]] # Current(w)
      BY <2>4 DEF LinkRefused, At
    <3>1. Record!TellFailed(Current(w)) \/ Record!TellExists(Current(w))
      <4>1. CASE Current(w) \notin temporary
        BY <2>4, <3>0, <4>1 DEF LinkRefused, Record!TellFailed, Record!Tell
      <4>2. CASE Current(w) \in temporary
        BY <2>4, <3>0, <4>2 DEF LinkRefused, Record!TellExists, Record!Tell
      <4> QED
        BY <4>1, <4>2
    <3> QED
      BY <2>4, <3>1 DEF LinkRefused, At, Record!Next
  <2>5. ASSUME NEW w \in Writers, SyncDirectory(w)
        PROVE  Record!Next \/ UNCHANGED <<target, final, flushed, result>>
    BY <2>5 DEF SyncDirectory, Record!Next, Record!Keep
  <2>6. ASSUME NEW w \in Writers, Created(w) PROVE Record!Next
    <3>0. /\ target[Current(w)] \in Names /\ result[Current(w)] = "pending"
          /\ final[target[Current(w)]] = Current(w)
      BY <2>6 DEF Created, At
    <3>1. Record!TellCreated(Current(w))
      BY <2>6, <3>0 DEF Created, Record!TellCreated, Record!Tell
    <3>2. Current(w) \in Calls
      BY <2>6 DEF Created, At
    <3> QED
      BY <3>1, <3>2 DEF Record!Next
  <2>7. CASE PowerLoss
    <3>1. Record!Lose
      BY <2>7 DEF PowerLoss, Record!Lose
    <3> QED
      BY <3>1 DEF Record!Next
  <2> QED
    BY <2>1, <2>2, <2>3, <2>4, <2>5, <2>6, <2>7
    DEF Next, Step, Sweep, Open, Write, Fsync, Return, Crash, GrowOld
<1> QED
  BY <1>1, <1>2, Invariance, PTL DEF Spec, RecordSpec, Record!Spec

(* A record and an answer are never half: what a name links is whole, and  *)
(* a call that was refused has left nothing under any name.                *)
THEOREM NoHalfRecords == Spec => []NothingByHalves
  BY RecordsAreWhole, RefusalsLeaveNothing, PTL DEF NothingByHalves

-----------------------------------------------------------------------------
LEMMA LockTypeInit == LockInit => LockTypeOK
<1>1. 0 \in 0 .. 1 /\ 0 \in 0 .. MaxOpens
  BY LockAssumption
<1> QED BY <1>1 DEF LockInit, LockTypeOK, Places

LEMMA LockTypeNext == LockTypeOK /\ [LockNext]_lockVars => LockTypeOK'
<1> SUFFICES ASSUME LockTypeOK, [LockNext]_lockVars PROVE LockTypeOK'
  OBVIOUS
<1> USE DEF LockTypeOK, Places, Goes
<1>1. ASSUME NEW i \in Processes, OpenRoot(i) PROVE LockTypeOK'
  <2>1. opens'[i] \in 0 .. MaxOpens
    BY <1>1, LockAssumption DEF OpenRoot
  <2>2. 0 \in 0 .. 1
    OBVIOUS
  <2> QED BY <1>1, <2>1, <2>2 DEF OpenRoot
<1>2. ASSUME NEW i \in Processes, Create(i) PROVE LockTypeOK'
  BY <1>2 DEF Create
<1>3. ASSUME NEW i \in Processes, WriteOwner(i) PROVE LockTypeOK'
  BY <1>3 DEF WriteOwner
<1>4. ASSUME NEW i \in Processes, ReadOwner(i) PROVE LockTypeOK'
  BY <1>4 DEF ReadOwner
<1>5. ASSUME NEW i \in Processes, Probe(i) PROVE LockTypeOK'
  BY <1>5 DEF Probe
<1>6. ASSUME NEW i \in Processes, Remove(i) PROVE LockTypeOK'
  <2>1. 1 \in 0 .. 1
    OBVIOUS
  <2> QED BY <1>6, <2>1 DEF Remove
<1>7. ASSUME NEW i \in Processes, Release(i) PROVE LockTypeOK'
  BY <1>7 DEF Release
<1>8. ASSUME NEW i \in Processes, Exit(i) PROVE LockTypeOK'
  BY <1>8 DEF Exit
<1>9. CASE UNCHANGED lockVars
  BY <1>9 DEF lockVars
<1>10. ASSUME NEW i \in Processes, DiskFails(i) \/ ReleaseFails(i) PROVE LockTypeOK'
  BY <1>10 DEF DiskFails, ReleaseFails
<1> QED BY <1>1, <1>2, <1>3, <1>4, <1>5, <1>6, <1>7, <1>8, <1>9, <1>10 DEF LockNext, Opener

(* Files, steps and attempts keep their types, for any number of           *)
(* processes.                                                              *)
THEOREM LockTypeCorrect == LockSpec => []LockTypeOK
  BY LockTypeInit, LockTypeNext, PTL DEF LockSpec

-----------------------------------------------------------------------------
(* A lock file is somebody's: whoever made it holds it, is writing it, is  *)
(* dead, or could itself not write or remove it, whatever ends, fails and  *)
(* is removed by whom.                                                     *)
THEOREM OwnedLock == LockSpec => []OnlyFailuresOrphan
<1>1. LockInit => OnlyFailuresOrphan
  BY DEF LockInit, OnlyFailuresOrphan, NoOrphanOfTheLiving
<1>2. LockTypeOK /\ OnlyFailuresOrphan /\ [LockNext]_lockVars => OnlyFailuresOrphan'
  <2> SUFFICES ASSUME LockTypeOK, OnlyFailuresOrphan, [LockNext]_lockVars PROVE OnlyFailuresOrphan'
    OBVIOUS
  <2> USE DEF LockTypeOK, OnlyFailuresOrphan, NoOrphanOfTheLiving, Goes
  <2>1. ASSUME NEW i \in Processes, OpenRoot(i) PROVE OnlyFailuresOrphan'
    BY <2>1 DEF OpenRoot
  <2>2. ASSUME NEW i \in Processes, Create(i) PROVE OnlyFailuresOrphan'
    BY <2>2 DEF Create
  <2>3. ASSUME NEW i \in Processes, WriteOwner(i) \/ ReadOwner(i) \/ Probe(i) PROVE OnlyFailuresOrphan'
    BY <2>3 DEF WriteOwner, ReadOwner, Probe
  <2>4. ASSUME NEW i \in Processes, Remove(i) \/ Release(i) PROVE OnlyFailuresOrphan'
    BY <2>4 DEF Remove, Release
  <2>5. ASSUME NEW i \in Processes, Exit(i) PROVE OnlyFailuresOrphan'
    BY <2>5 DEF Exit
  <2>6. CASE UNCHANGED lockVars
    BY <2>6 DEF lockVars
  <2>7. ASSUME NEW i \in Processes, DiskFails(i) PROVE OnlyFailuresOrphan'
    BY <2>7 DEF DiskFails
  <2>8. ASSUME NEW i \in Processes, ReleaseFails(i) PROVE OnlyFailuresOrphan'
    BY <2>8 DEF ReleaseFails
  <2> QED BY <2>1, <2>2, <2>3, <2>4, <2>5, <2>6, <2>7, <2>8 DEF LockNext, Opener
<1> QED BY <1>1, <1>2, LockTypeCorrect, PTL DEF LockSpec

-----------------------------------------------------------------------------
(* While no process has died nothing is stale: a probe finds its process,  *)
(* no opener reaches the removal, and the file names who holds it.  A      *)
(* death is for good, so a step that ends with every process alive began   *)
(* so.                                                                     *)
Exclusive ==
  /\ \A i \in Processes :
       /\ at[i] # "remove"
       /\ at[i] = "probe" => seen[i] \in Processes
       /\ at[i] \in {"write", "held"} => lock = i
       /\ at[i] = "held" => written
  /\ written => lock # Absent

LEMMA DeathIsForGood == LockTypeOK /\ [LockNext]_lockVars /\ AllLive' => AllLive
<1> SUFFICES ASSUME LockTypeOK, [LockNext]_lockVars, AllLive' PROVE AllLive
  OBVIOUS
<1> USE DEF LockTypeOK, AllLive, Goes
<1>1. ASSUME NEW i \in Processes, OpenRoot(i) \/ Create(i) PROVE AllLive
  BY <1>1 DEF OpenRoot, Create
<1>2. ASSUME NEW i \in Processes, WriteOwner(i) \/ ReadOwner(i) PROVE AllLive
  BY <1>2 DEF WriteOwner, ReadOwner
<1>3. ASSUME NEW i \in Processes, Probe(i) PROVE AllLive
  BY <1>3 DEF Probe
<1>4. ASSUME NEW i \in Processes, Remove(i) \/ Release(i) PROVE AllLive
  BY <1>4 DEF Remove, Release
<1>5. ASSUME NEW i \in Processes, Exit(i) PROVE AllLive
  BY <1>5 DEF Exit
<1>6. CASE UNCHANGED lockVars
  BY <1>6 DEF lockVars
<1>7. ASSUME NEW i \in Processes, DiskFails(i) \/ ReleaseFails(i) PROVE AllLive
  BY <1>7 DEF DiskFails, ReleaseFails
<1> QED BY <1>1, <1>2, <1>3, <1>4, <1>5, <1>6, <1>7 DEF LockNext, Opener

LEMMA ExclusiveNext == LockTypeOK /\ AllLive /\ AllLive' /\ Exclusive /\ [LockNext]_lockVars => Exclusive'
<1> SUFFICES ASSUME LockTypeOK, AllLive, AllLive', Exclusive, [LockNext]_lockVars PROVE Exclusive'
  OBVIOUS
<1> USE DEF LockTypeOK, Exclusive, Goes
<1>1. ASSUME NEW i \in Processes, OpenRoot(i) PROVE Exclusive'
  BY <1>1 DEF OpenRoot
<1>2. ASSUME NEW i \in Processes, Create(i) PROVE Exclusive'
  BY <1>2, LockAssumption DEF Create
<1>3. ASSUME NEW i \in Processes, WriteOwner(i) PROVE Exclusive'
  BY <1>3, LockAssumption DEF WriteOwner
<1>4. ASSUME NEW i \in Processes, ReadOwner(i) PROVE Exclusive'
  BY <1>4 DEF ReadOwner
<1>5. ASSUME NEW i \in Processes, Probe(i) PROVE Exclusive'
  <2>1. Alive(seen[i])
    BY <1>5 DEF Probe, Alive, AllLive
  <2> QED BY <1>5, <2>1 DEF Probe
<1>6. ASSUME NEW i \in Processes, Release(i) PROVE Exclusive'
  BY <1>6, LockAssumption DEF Release
<1>7. CASE UNCHANGED lockVars
  BY <1>7 DEF lockVars
<1>8. ASSUME NEW i \in Processes PROVE ~Remove(i)
  BY DEF Remove
<1>9. ASSUME NEW i \in Processes PROVE ~Exit(i)
  BY DEF Exit, AllLive
<1>10. ASSUME NEW i \in Processes, DiskFails(i) \/ ReleaseFails(i) PROVE Exclusive'
  BY <1>10, LockAssumption DEF DiskFails, ReleaseFails
<1> QED BY <1>1, <1>2, <1>3, <1>4, <1>5, <1>6, <1>7, <1>8, <1>9, <1>10 DEF LockNext, Opener

(* Two sessions never hold the same root while no process has died, and    *)
(* the file names the one that does.                                       *)
THEOREM Exclusion == LockSpec => []ExclusiveWhileAllLive
<1> DEFINE Held == AllLive => Exclusive
<1>1. LockInit => Held
  BY DEF LockInit, Exclusive
<1>2. LockTypeOK /\ Held /\ [LockNext]_lockVars => Held'
  BY DeathIsForGood, ExclusiveNext
<1>3. Held => ExclusiveWhileAllLive
  BY DEF Exclusive, ExclusiveWhileAllLive, OneWriter, LockNamesHolder
<1> QED BY <1>1, <1>2, <1>3, LockTypeCorrect, PTL DEF LockSpec

(* The lock excludes while nobody has died, and the living orphan it only  *)
(* where a call of their own on the file failed.                           *)
THEOREM SoundLock == LockSpec => []LockIsSound
  BY OwnedLock, Exclusion, PTL DEF LockIsSound

================================================================================
