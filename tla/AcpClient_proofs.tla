---------------------------- MODULE AcpClient_proofs ----------------------------
(***************************************************************************)
(* The ACP client, for any scenario: whatever its observers, its operator, *)
(* the agent and the end of the process do and in whatever order.          *)
(***************************************************************************)
EXTENDS AcpClient, TLAPS

Agents == {"running", "idle", "stopped", "end", "exit", "decided"}
Observed == {"prompt", "cancel", "close-session"}
Frames == [f : Agents \cup Observed, run : Nat]
RunRecords ==
    [prompted : BOOLEAN, started : BOOLEAN, stop : BOOLEAN, sent : BOOLEAN, withdrawn : BOOLEAN,
     call : {"none", "recording", "sent", "woken", "returned", "failed"},
     answer : Answers \cup {"none"}, outcome : {"none", "result", "error"}, took : Nat,
     completed : {"open", "resolved", "rejected"}]
PermissionRecords ==
    [st : {"asked", "waiting", "woken", "deciding", "answered"}, kind : Kinds, late : BOOLEAN, run : Nat,
     answer : {"none", "adapter", "approve", "cancel", "throws"},
     told : {"none", "approved", "rejected", "cancelled", "operator-cancelled", "error"}]
Words ==
    {"prompt", "ended", "ended-unstarted", "stop", "withdrawn", "approves", "approved", "closing", "refused",
     "over", "closed", "exited", "interrupted"}
Entries ==
    [k : Words, run : Nat]
    \cup [k : {"started", "started-alone"}, run : Nat, answer : Answers \cup {"none"}]

(* The values of the client's state: the type invariant.                   *)
TypeOK ==
    /\ stack \in Seq(Frames) /\ runs \in Seq(RunRecords) /\ perms \in Seq(PermissionRecords) /\ log \in Seq(Entries)
    /\ cur \in 0 .. Len(runs) /\ raw \in Nat
    /\ session \in {"open", "closing", "over"}
    /\ closer \in [st : {"no", "recording", "sent", "woken"}, run : Nat, had : BOOLEAN,
                   outcome : {"none", "accepted", "refused", "failed"}]
    /\ closed \in BOOLEAN /\ unusable \in BOOLEAN /\ exit \in BOOLEAN
    /\ closing \in {"no", "ending", "done"} /\ captured \in Nat
    /\ bound \in Scenarios

LEMMA TypeInit == Init => TypeOK
<1> SUFFICES ASSUME Init PROVE TypeOK
  OBVIOUS
<1>1. stack \in Seq(Frames) /\ runs \in Seq(RunRecords) /\ perms \in Seq(PermissionRecords) /\ log \in Seq(Entries)
  BY DEF Init
<1>2. cur \in 0 .. Len(runs)
  BY DEF Init
<1>3. bound \in Scenarios
  BY BoundsAssumption DEF Init
<1> QED BY <1>1, <1>2, <1>3 DEF Init, TypeOK, NoCloser

LEMMA Grown ==
    ASSUME NEW S, NEW s \in Seq(S), NEW e \in S
    PROVE  /\ Append(s, e) \in Seq(S) /\ Len(Append(s, e)) = Len(s) + 1
           /\ Append(s, e)[Len(s) + 1] = e
           /\ \A n \in 1 .. Len(s) : Append(s, e)[n] = s[n]
  OBVIOUS

LEMMA Joined ==
    ASSUME NEW S, NEW s \in Seq(S), NEW e \in S
    PROVE  /\ s \o <<e>> \in Seq(S) /\ Len(s \o <<e>>) = Len(s) + 1
           /\ (s \o <<e>>)[Len(s) + 1] = e
           /\ \A n \in 1 .. Len(s) : (s \o <<e>>)[n] = s[n]
<1>1. <<e>> \in Seq(S) /\ Len(<<e>>) = 1 /\ <<e>>[1] = e
  OBVIOUS
<1> QED BY <1>1

LEMMA Pushed ==
    ASSUME NEW S, NEW s \in Seq(S), NEW e \in S
    PROVE  /\ <<e>> \o s \in Seq(S) /\ Len(<<e>> \o s) = Len(s) + 1
           /\ (<<e>> \o s)[1] = e
           /\ \A n \in 1 .. Len(s) : (<<e>> \o s)[n + 1] = s[n]
<1>1. <<e>> \in Seq(S) /\ Len(<<e>>) = 1 /\ <<e>>[1] = e
  OBVIOUS
<1> QED BY <1>1

LEMMA Popped ==
    ASSUME NEW S, NEW s \in Seq(S), s # <<>>
    PROVE  /\ Len(s) \in Nat \ {0} /\ s[1] = Head(s) /\ Head(s) \in S
           /\ Tail(s) \in Seq(S) /\ Len(Tail(s)) = Len(s) - 1
           /\ \A n \in 1 .. Len(s) - 1 : Tail(s)[n] = s[n + 1]
  OBVIOUS

LEMMA Replaced ==
    ASSUME NEW S, NEW s \in Seq(S), NEW r, NEW x, r \in DOMAIN s => x \in S
    PROVE  /\ [s EXCEPT ![r] = x] \in Seq(S) /\ Len([s EXCEPT ![r] = x]) = Len(s)
           /\ \A n \in 1 .. Len(s) : [s EXCEPT ![r] = x][n] = IF n = r THEN x ELSE s[n]
<1> DEFINE t == [s EXCEPT ![r] = x]
<1>1. t = [n \in 1 .. Len(s) |-> IF n = r THEN x ELSE s[n]]
  OBVIOUS
<1> HIDE DEF t
<1>2. t \in Seq(S) /\ Len(t) = Len(s)
  BY <1>1
<1> QED BY <1>1, <1>2 DEF t

(* What a step may do to the sequences of the state.                       *)
Says(e) == log' = log \o <<e>>
Puts(f) == stack' = <<f>> \o stack
Takes == stack # <<>> /\ stack' = Tail(stack)
Adds(run) == runs' = Append(runs, run)
Becomes(r, run) == runs' = [runs EXCEPT ![r] = run]

LEMMA Saying ==
    ASSUME TypeOK, NEW e \in Entries, Says(e)
    PROVE  /\ log' \in Seq(Entries) /\ Len(log') = Len(log) + 1 /\ log'[Len(log) + 1] = e
           /\ \A n \in 1 .. Len(log) : log'[n] = log[n]
<1>1. log \in Seq(Entries) /\ log' = log \o <<e>>
  BY DEF TypeOK, Says
<1> QED BY <1>1, Joined

LEMMA Putting ==
    ASSUME TypeOK, NEW f \in Frames, Puts(f)
    PROVE  /\ stack' \in Seq(Frames) /\ Len(stack') = Len(stack) + 1 /\ stack'[1] = f
           /\ \A n \in 1 .. Len(stack) : stack'[n + 1] = stack[n]
<1>1. stack \in Seq(Frames) /\ stack' = <<f>> \o stack
  BY DEF TypeOK, Puts
<1> QED BY <1>1, Pushed

LEMMA Taking ==
    ASSUME TypeOK, Takes
    PROVE  /\ Len(stack) \in Nat \ {0} /\ stack[1] = Head(stack) /\ Head(stack) \in Frames
           /\ stack' \in Seq(Frames) /\ Len(stack') = Len(stack) - 1
           /\ \A n \in 1 .. Len(stack) - 1 : stack'[n] = stack[n + 1]
<1>1. stack \in Seq(Frames) /\ stack # <<>> /\ stack' = Tail(stack)
  BY DEF TypeOK, Takes
<1> QED BY <1>1, Popped

LEMMA Adding ==
    ASSUME TypeOK, NEW run \in RunRecords, Adds(run)
    PROVE  /\ runs' \in Seq(RunRecords) /\ Len(runs') = Len(runs) + 1 /\ runs'[Len(runs) + 1] = run
           /\ \A n \in 1 .. Len(runs) : runs'[n] = runs[n]
<1>1. runs \in Seq(RunRecords) /\ runs' = Append(runs, run)
  BY DEF TypeOK, Adds
<1> QED BY <1>1, Grown

LEMMA Becoming ==
    ASSUME TypeOK, NEW r, NEW run, r \in DOMAIN runs => run \in RunRecords, Becomes(r, run)
    PROVE  /\ runs' \in Seq(RunRecords) /\ Len(runs') = Len(runs)
           /\ \A n \in 1 .. Len(runs) : runs'[n] = IF n = r THEN run ELSE runs[n]
<1>1. runs \in Seq(RunRecords) /\ runs' = [runs EXCEPT ![r] = run]
  BY DEF TypeOK, Becomes
<1> QED BY <1>1, Replaced

(* A waiter that is told, and work that is closed, are runs again.         *)
LEMMA ClosedType ==
    ASSUME NEW rs \in Seq(RunRecords), NEW r \in 0 .. Len(rs)
    PROVE  /\ Closed(rs, r) \in Seq(RunRecords) /\ Len(Closed(rs, r)) = Len(rs)
           /\ \A n \in 1 .. Len(rs) :
                 \E how \in {"open", "resolved", "rejected"} :
                    Closed(rs, r)[n] = [rs[n] EXCEPT !.completed = how]
<1>1. CASE r = 0
  <2>1. ASSUME NEW n \in 1 .. Len(rs) PROVE rs[n] = [rs[n] EXCEPT !.completed = rs[n].completed]
    <3>1. rs[n] \in RunRecords
      OBVIOUS
    <3> QED BY <3>1 DEF RunRecords
  <2>2. ASSUME NEW n \in 1 .. Len(rs) PROVE rs[n].completed \in {"open", "resolved", "rejected"}
    <3>1. rs[n] \in RunRecords
      OBVIOUS
    <3> QED BY <3>1 DEF RunRecords
  <2>3. Closed(rs, r) = rs
    BY <1>1 DEF Closed
  <2> QED BY <2>1, <2>2, <2>3
<1>2. CASE r # 0
  <2> DEFINE how == IF rs[r].completed = "open" THEN "rejected" ELSE rs[r].completed
             x == [rs[r] EXCEPT !.completed = how]
  <2>1. rs[r] \in RunRecords
    BY <1>2
  <2>2. how \in {"open", "resolved", "rejected"} /\ x \in RunRecords
    BY <2>1 DEF RunRecords
  <2>3. Closed(rs, r) = [rs EXCEPT ![r] = x]
    BY <1>2 DEF Closed, Settled
  <2> HIDE DEF x
  <2>4. /\ Closed(rs, r) \in Seq(RunRecords) /\ Len(Closed(rs, r)) = Len(rs)
        /\ \A n \in 1 .. Len(rs) : Closed(rs, r)[n] = IF n = r THEN x ELSE rs[n]
    BY <2>2, <2>3, Replaced
  <2>5. ASSUME NEW n \in 1 .. Len(rs) PROVE rs[n] = [rs[n] EXCEPT !.completed = rs[n].completed]
    <3>1. rs[n] \in RunRecords
      OBVIOUS
    <3> QED BY <3>1 DEF RunRecords
  <2>6. ASSUME NEW n \in 1 .. Len(rs) PROVE rs[n].completed \in {"open", "resolved", "rejected"}
    <3>1. rs[n] \in RunRecords
      OBVIOUS
    <3> QED BY <3>1 DEF RunRecords
  <2> HIDE DEF how
  <2>7. ASSUME NEW n \in 1 .. Len(rs)
        PROVE \E h \in {"open", "resolved", "rejected"} : Closed(rs, r)[n] = [rs[n] EXCEPT !.completed = h]
    <3>1. CASE n = r
      BY <3>1, <2>2, <2>4 DEF x
    <3>2. CASE n # r
      BY <3>2, <2>4, <2>5, <2>6
    <3> QED BY <3>1, <3>2
  <2> QED BY <2>4, <2>7
<1> QED BY <1>1, <1>2

LEMMA SettledPermissions ==
    ASSUME NEW qs \in Seq(PermissionRecords)
    PROVE  SettlePermissions(qs) \in Seq(PermissionRecords)
<1> DEFINE Kept(q) == IF qs[q].st = "waiting" THEN [qs[q] EXCEPT !.st = "woken", !.answer = "adapter"] ELSE qs[q]
<1>1. ASSUME NEW q \in 1 .. Len(qs) PROVE Kept(q) \in PermissionRecords
  <2>1. qs[q] \in PermissionRecords
    OBVIOUS
  <2> QED BY <2>1 DEF PermissionRecords
<1>2. SettlePermissions(qs) = [q \in 1 .. Len(qs) |-> Kept(q)]
  BY DEF SettlePermissions
<1> HIDE DEF Kept
<1>3. Len(qs) \in Nat /\ [q \in 1 .. Len(qs) |-> Kept(q)] \in Seq(PermissionRecords)
  BY <1>1
<1> QED BY <1>2, <1>3

LEMMA NewRunType == ASSUME NEW call \in BOOLEAN PROVE NewRun(call) \in RunRecords
BY DEF NewRun, RunRecords

(* What a permission's handler comes to: it tells, it decides, approving    *)
(* only work to stand behind, or it asks the operator.                      *)
Outcomes == {"approved", "rejected", "cancelled", "operator-cancelled"}
Asks(q) == perms' = [perms EXCEPT ![q].st = "waiting", ![q].run = cur] /\ UNCHANGED <<stack, log>>
LEMMA WhatIsHandled ==
    ASSUME TypeOK, NEW q \in DOMAIN perms, PermissionHandled(q) \/ PermissionDecided(q)
    PROVE  /\ stack = <<>> /\ UNCHANGED <<runs, cur, raw, endVars, used, bound>>
           /\ \/ \E r \in Nat, what \in {"cancelled", "error"} : Told(q, r, what)
              \/ \E r \in Nat, what \in Outcomes : Decided(q, r, what) /\ (what = "approved" => CanApprove(r))
              \/ Asks(q)
<1>1. perms[q].run \in Nat /\ cur \in Nat /\ 0 \in Nat
  <2>1. perms[q] \in PermissionRecords /\ cur \in 0 .. Len(runs) /\ Len(runs) \in Nat
    BY DEF TypeOK
  <2> QED BY <2>1 DEF PermissionRecords
<1>2. CASE PermissionHandled(q)
  <2>1. \/ \E r \in {0, cur}, what \in {"cancelled", "error"} : Told(q, r, what)
        \/ \E what \in {"cancelled", "rejected"} : Decided(q, cur, what)
        \/ Asks(q)
    BY <1>2 DEF PermissionHandled, Asks
  <2>2. stack = <<>> /\ UNCHANGED <<runs, cur, raw, endVars, used, bound>>
    BY <1>2 DEF PermissionHandled
  <2>3. ASSUME NEW what \in {"cancelled", "rejected"}, Decided(q, cur, what)
        PROVE  \E r \in Nat, w \in Outcomes : Decided(q, r, w) /\ (w = "approved" => CanApprove(r))
    <3>1. what \in Outcomes /\ what # "approved"
      BY DEF Outcomes
    <3> QED BY <1>1, <2>3, <3>1
  <2> QED BY <1>1, <2>1, <2>2, <2>3
<1>3. CASE PermissionDecided(q)
  <2>1. \/ Told(q, perms[q].run, "error")
        \/ Decided(q, perms[q].run, "approved") /\ CanApprove(perms[q].run)
        \/ \E what \in {"cancelled", "operator-cancelled"} : Decided(q, perms[q].run, what)
    BY <1>3 DEF PermissionDecided, Stands
  <2>2. stack = <<>> /\ UNCHANGED <<runs, cur, raw, endVars, used, bound>>
    BY <1>3 DEF PermissionDecided
  <2>3. ASSUME NEW what \in {"cancelled", "operator-cancelled"}, Decided(q, perms[q].run, what)
        PROVE  \E r \in Nat, w \in Outcomes : Decided(q, r, w) /\ (w = "approved" => CanApprove(r))
    <3>1. what \in Outcomes /\ what # "approved"
      BY DEF Outcomes
    <3> QED BY <1>1, <2>3, <3>1
  <2>4. "approved" \in Outcomes
    BY DEF Outcomes
  <2> QED BY <1>1, <2>1, <2>2, <2>3, <2>4
<1> QED BY <1>2, <1>3

LEMMA TypeNext == TypeOK /\ [Next]_vars => TypeOK'
<1> SUFFICES ASSUME TypeOK, [Next]_vars PROVE TypeOK'
  OBVIOUS
<1> USE DEF TypeOK
<1>e. ASSUME NEW kk \in Words, NEW r \in Nat PROVE Said(kk, r) \in Entries
  BY DEF Said, Entries
<1>u. bound \in Scenarios => bound.answers \subseteq Answers /\ bound.kinds \subseteq Kinds
  BY DEF Scenarios
<1>1. CASE Prompt
  <2>1. NewRun(TRUE) \in RunRecords
    BY NewRunType
  <2>0. Adds(NewRun(TRUE)) /\ Puts([f |-> "prompt", run |-> Len(runs) + 1])
    BY <1>1 DEF Prompt, Records, Adds, Puts
  <2>2. runs' \in Seq(RunRecords) /\ Len(runs') = Len(runs) + 1
    BY <2>0, <2>1, Adding
  <2>3. [f |-> "prompt", run |-> Len(runs) + 1] \in Frames
    BY DEF Frames, Observed
  <2>4. stack' \in Seq(Frames)
    BY <2>0, <2>3, Putting
  <2>5. cur' \in 0 .. Len(runs') /\ Len(runs) \in Nat
    BY <1>1, <2>2 DEF Prompt
  <2> QED BY <1>1, <2>2, <2>4, <2>5 DEF Prompt, endVars
<1>2. CASE PromptGoesOn
  <2> DEFINE r == Head(stack).run
  <2>0. Takes
    BY <1>2 DEF PromptGoesOn, Takes
  <2>1. stack' \in Seq(Frames) /\ r \in Nat
    BY <2>0, Taking DEF Frames
  <2>2. runs' \in Seq(RunRecords) /\ Len(runs') = Len(runs)
    <3>1. r \in DOMAIN runs => [runs[r] EXCEPT !.call = "sent", !.sent = TRUE] \in RunRecords
                             /\ [runs[r] EXCEPT !.call = "failed"] \in RunRecords
      <4> SUFFICES ASSUME r \in DOMAIN runs PROVE [runs[r] EXCEPT !.call = "sent", !.sent = TRUE] \in RunRecords
                             /\ [runs[r] EXCEPT !.call = "failed"] \in RunRecords
        OBVIOUS
      <4>1. runs[r] \in RunRecords
        OBVIOUS
      <4> QED BY <4>1 DEF RunRecords
    <3>2. Becomes(r, [runs[r] EXCEPT !.call = "sent", !.sent = TRUE]) \/ Becomes(r, [runs[r] EXCEPT !.call = "failed"])
      BY <1>2 DEF PromptGoesOn, PromptSent, Becomes
    <3> HIDE DEF r
    <3> QED BY <3>1, <3>2, Becoming
  <2>3. log' = log \/ Says(Said("prompt", r))
    BY <1>2 DEF PromptGoesOn, PromptSent, Log, Says
  <2>4. log' \in Seq(Entries)
    BY <2>1, <2>3, <1>e, Saying DEF Words
  <2>5. cur' \in 0 .. Len(runs)
    BY <1>2 DEF PromptGoesOn, PromptSent, Current
  <2> QED BY <1>2, <2>1, <2>2, <2>4, <2>5 DEF PromptGoesOn, endVars
<1>3. ASSUME NEW r \in DOMAIN runs, PromptAnswered(r) PROVE TypeOK'
  <2>0. PICK answer \in bound.answers :
          /\ runs' = [runs EXCEPT ![r].answer = answer, ![r].prompted = StillPrompted(r, answer),
                        ![r].outcome = IF runs[r].call # "sent" THEN @
                                       ELSE IF answer \in {"accepted", "invalid"} THEN "result" ELSE "error",
                        ![r].call = IF @ = "sent" THEN "woken" ELSE @]
          /\ raw' = IF answer = "refused" THEN 0 ELSE r
    BY <1>3 DEF PromptAnswered
  <2> DEFINE x == [runs[r] EXCEPT !.answer = answer, !.prompted = StillPrompted(r, answer),
                        !.outcome = IF runs[r].call # "sent" THEN @
                                       ELSE IF answer \in {"accepted", "invalid"} THEN "result" ELSE "error",
                        !.call = IF @ = "sent" THEN "woken" ELSE @]
  <2>1. runs[r] \in RunRecords /\ answer \in Answers
    BY <1>u
  <2>6. StillPrompted(r, answer) \in BOOLEAN
    BY <2>1 DEF StillPrompted, RunRecords
  <2>2. x \in RunRecords
    BY <2>1, <2>6 DEF RunRecords
  <2>3. Becomes(r, x)
    BY <2>0 DEF Becomes
  <2> HIDE DEF x
  <2>4. runs' \in Seq(RunRecords) /\ Len(runs') = Len(runs)
    BY <2>2, <2>3, Becoming
  <2>5. raw' \in Nat
    BY <2>0
  <2> QED BY <1>3, <2>4, <2>5 DEF PromptAnswered, endVars
<1>4. ASSUME NEW r \in DOMAIN runs, PromptFails(r) PROVE TypeOK'
  <2> DEFINE x == [runs[r] EXCEPT !.call = "woken", !.outcome = "error"]
  <2>1. runs[r] \in RunRecords
    OBVIOUS
  <2>2. x \in RunRecords
    BY <2>1 DEF RunRecords
  <2>3. Becomes(r, x)
    BY <1>4 DEF PromptFails, Becomes
  <2> HIDE DEF x
  <2>4. runs' \in Seq(RunRecords) /\ Len(runs') = Len(runs)
    BY <2>2, <2>3, Becoming
  <2> QED BY <1>4, <2>4 DEF PromptFails, endVars
<1>5. ASSUME NEW r \in DOMAIN runs, PromptReturns(r) PROVE TypeOK'
  <2>1. PICK accepted \in BOOLEAN, left \in BOOLEAN, kept \in BOOLEAN :
          LET rs == IF left THEN Closed(runs, r) ELSE runs IN
          /\ runs' = [rs EXCEPT ![r].call = IF accepted THEN "returned" ELSE "failed",
                                ![r].took = IF accepted THEN raw ELSE 0,
                                ![r].prompted = @ /\ ~kept]
          /\ cur' = IF left THEN 0 ELSE cur
    BY <1>5 DEF PromptReturns
  <2> DEFINE rs == IF left THEN Closed(runs, r) ELSE runs
             x == [rs[r] EXCEPT !.call = IF accepted THEN "returned" ELSE "failed",
                                !.took = IF accepted THEN raw ELSE 0, !.prompted = @ /\ ~kept]
  <2>2. rs \in Seq(RunRecords) /\ Len(rs) = Len(runs)
    BY ClosedType
  <2>3. runs' = [rs EXCEPT ![r] = x]
    BY <2>1
  <2> HIDE DEF rs
  <2>4. rs[r] \in RunRecords
    BY <2>2
  <2>5. x \in RunRecords
    BY <2>4 DEF RunRecords
  <2> HIDE DEF x
  <2>6. runs' \in Seq(RunRecords) /\ Len(runs') = Len(runs)
    BY <2>2, <2>3, <2>5, Replaced
  <2>7. raw' \in Nat /\ cur' \in 0 .. Len(runs)
    BY <1>5, <2>1 DEF PromptReturns
  <2>8. UNCHANGED <<stack, perms, endVars, log, bound>>
    BY <1>5 DEF PromptReturns
  <2> QED BY <2>6, <2>7, <2>8 DEF endVars
<1>6. CASE CompletionTimesOut
  <2>1. runs' \in Seq(RunRecords) /\ Len(runs') = Len(runs)
    BY <1>6, ClosedType DEF CompletionTimesOut
  <2> QED BY <1>6, <2>1 DEF CompletionTimesOut, endVars
<1>7. ASSUME NEW state \in {"running", "idle", "stopped"}, AgentReports(state) PROVE TypeOK'
  <2>1. NewRun(FALSE) \in RunRecords
    BY NewRunType
  <2>2. CASE Late
    BY <1>7, <2>2 DEF AgentReports, endVars
  <2>3. ASSUME ~Late, NEW r \in Nat, Puts([f |-> state, run |-> r]) PROVE stack' \in Seq(Frames)
    <3>1. [f |-> state, run |-> r] \in Frames
      BY DEF Frames, Agents
    <3> QED BY <2>3, <3>1, Putting
  <2>4. CASE ~Late /\ state = "running" /\ cur = 0
    <3>1. Adds(NewRun(FALSE)) /\ Puts([f |-> state, run |-> Len(runs) + 1]) /\ cur' = Len(runs) + 1
      BY <1>7, <2>4 DEF AgentReports, Records, Adds, Puts
    <3>2. runs' \in Seq(RunRecords) /\ Len(runs') = Len(runs) + 1
      BY <2>1, <3>1, Adding
    <3>3. Len(runs) \in Nat
      OBVIOUS
    <3> QED BY <1>7, <2>3, <2>4, <3>1, <3>2, <3>3 DEF AgentReports, endVars
  <2>5. CASE ~Late /\ ~(state = "running" /\ cur = 0)
    <3>1. runs' = runs /\ Puts([f |-> state, run |-> cur]) /\ cur' = cur
      BY <1>7, <2>5 DEF AgentReports, Records, Puts
    <3>2. cur \in Nat
      OBVIOUS
    <3> QED BY <1>7, <2>3, <2>5, <3>1, <3>2 DEF AgentReports, endVars
  <2> QED BY <2>2, <2>4, <2>5
<1>8. CASE StateGoesOn
  <2>0. PICK r : r = Head(stack).run
    OBVIOUS
  <2>1. stack # <<>> /\ Tail(stack) \in Seq(Frames) /\ r \in Nat
    <3>1. stack \in Seq(Frames) /\ stack # <<>>
      BY <1>8 DEF StateGoesOn
    <3>2. Head(stack) \in Frames /\ Tail(stack) \in Seq(Frames)
      BY <3>1
    <3> QED BY <2>0, <3>1, <3>2 DEF Frames
  <2>2. runs' \in Seq(RunRecords) /\ Len(runs') = Len(runs)
    <3>1. r \in DOMAIN runs => [runs[r] EXCEPT !.started = TRUE] \in RunRecords
      <4> SUFFICES ASSUME r \in DOMAIN runs PROVE [runs[r] EXCEPT !.started = TRUE] \in RunRecords
        OBVIOUS
      <4>1. runs[r] \in RunRecords
        OBVIOUS
      <4> QED BY <4>1 DEF RunRecords
    <3>2. Becomes(r, [runs[r] EXCEPT !.started = TRUE]) \/ runs' = runs
      BY <1>8, <2>0 DEF StateGoesOn, Becomes
    <3> QED BY <3>1, <3>2, Becoming
  <2>3. stack' \in Seq(Frames)
    <3>1. [f |-> "end", run |-> r] \in Frames
      BY <2>1 DEF Frames, Agents
    <3>2. stack' = <<[f |-> "end", run |-> r]>> \o Tail(stack) \/ stack' = Tail(stack)
      BY <1>8, <2>0 DEF StateGoesOn
    <3>3. <<[f |-> "end", run |-> r]>> \o Tail(stack) \in Seq(Frames)
      BY <2>1, <3>1, Pushed
    <3> QED BY <2>1, <3>2, <3>3
  <2>4. log' \in Seq(Entries)
    <3> DEFINE starts == OfRun(r) /\ Head(stack).f = "running" /\ ~runs[r].started
               ends == OfRun(r) /\ (Head(stack).f = "stopped" \/ (Head(stack).f = "idle" /\ runs[r].started))
    <3>1. CASE starts
      <4>1. PICK kk \in {"started", "started-alone"} : Says([k |-> kk, run |-> r, answer |-> runs[r].answer])
        BY <1>8, <2>0, <3>1 DEF StateGoesOn, Log, Says
      <4>2. r \in DOMAIN runs
        BY <3>1 DEF OfRun
      <4>3. runs[r] \in RunRecords
        BY <4>2
      <4>4. [k |-> kk, run |-> r, answer |-> runs[r].answer] \in Entries
        BY <2>1, <4>3 DEF RunRecords, Entries
      <4> QED BY <4>1, <4>4, Saying
    <3>2. CASE ~starts /\ ends
      <4>1. PICK kk \in {"ended", "ended-unstarted"} : Says(Said(kk, r))
        BY <1>8, <2>0, <3>2 DEF StateGoesOn, Log, Says
      <4> QED BY <2>1, <1>e, <4>1, Saying DEF Words
    <3>3. CASE ~starts /\ ~ends
      BY <1>8, <2>0, <3>3 DEF StateGoesOn
    <3> QED BY <3>1, <3>2, <3>3
  <2>5. cur' = cur /\ UNCHANGED <<raw, perms, endVars, bound>>
    BY <1>8 DEF StateGoesOn
  <2> QED BY <2>2, <2>3, <2>4, <2>5 DEF endVars
<1>9. CASE EndRun
  <2> DEFINE r == Head(stack).run
             x == [runs[r] EXCEPT !.completed = IF @ = "open" THEN "resolved" ELSE @]
  <2>0. Takes
    BY <1>9 DEF EndRun, Takes
  <2>1. stack' \in Seq(Frames)
    BY <2>0, Taking
  <2>2. r \in DOMAIN runs => x \in RunRecords
    <3> SUFFICES ASSUME r \in DOMAIN runs PROVE x \in RunRecords
      OBVIOUS
    <3>1. runs[r] \in RunRecords
      OBVIOUS
    <3> QED BY <3>1 DEF RunRecords
  <2>3. Becomes(r, x)
    BY <1>9 DEF EndRun, Settled, Becomes
  <2> HIDE DEF r, x
  <2>4. runs' \in Seq(RunRecords) /\ Len(runs') = Len(runs)
    BY <2>2, <2>3, Becoming
  <2>5. cur' \in 0 .. Len(runs)
    BY <1>9 DEF EndRun, Current
  <2> QED BY <1>9, <2>1, <2>4, <2>5 DEF EndRun, endVars
<1>10. CASE Cancel
  <2> DEFINE x == [runs[cur] EXCEPT !.stop = TRUE, !.withdrawn = ~runs[cur].sent]
  <2>1. runs[cur] \in RunRecords /\ cur \in Nat
    BY <1>10 DEF Cancel
  <2>2. x \in RunRecords
    BY <2>1 DEF RunRecords
  <2>3. Becomes(cur, x)
    BY <1>10 DEF Cancel, Becomes
  <2> HIDE DEF x
  <2>4. runs' \in Seq(RunRecords) /\ Len(runs') = Len(runs)
    BY <2>2, <2>3, Becoming
  <2>5. [f |-> "cancel", run |-> cur] \in Frames
    BY <2>1 DEF Frames, Observed
  <2>6. stack' \in Seq(Frames)
    <3>1. stack' = stack \/ Puts([f |-> "cancel", run |-> cur])
      BY <1>10 DEF Cancel, Records, Puts
    <3> QED BY <2>5, <3>1, Putting
  <2>7. log' \in Seq(Entries)
    <3>1. Says(Said("stop", cur)) \/ Says(Said("withdrawn", cur))
      BY <1>10 DEF Cancel, Log, Says
    <3> QED BY <2>1, <1>e, <3>1, Saying DEF Words
  <2> QED BY <1>10, <2>4, <2>6, <2>7 DEF Cancel, endVars
<1>11. CASE CancelGoesOn
  <2>1. Takes
    BY <1>11 DEF CancelGoesOn, Takes
  <2> QED BY <1>11, <2>1, Taking, SettledPermissions DEF CancelGoesOn, endVars
<1>12. CASE PermissionAsked
  <2>1. PICK kind \in bound.kinds :
          perms' = Append(perms, [st |-> "asked", kind |-> kind, late |-> Late, run |-> 0,
                                  answer |-> "none", told |-> "none"])
    BY <1>12 DEF PermissionAsked
  <2>2. [st |-> "asked", kind |-> kind, late |-> Late, run |-> 0, answer |-> "none", told |-> "none"]
          \in PermissionRecords
    BY <1>u DEF PermissionRecords, Late, Gone
  <2> QED BY <1>12, <2>1, <2>2, Grown DEF PermissionAsked, endVars
<1>t. ASSUME NEW q \in DOMAIN perms, NEW r \in Nat, NEW st \in {"deciding", "answered"},
             NEW what \in Outcomes \cup {"error"},
             perms' = [perms EXCEPT ![q].st = st, ![q].run = r, ![q].told = what]
      PROVE  perms' \in Seq(PermissionRecords)
  <2> DEFINE x == [perms[q] EXCEPT !.st = st, !.run = r, !.told = what]
  <2>1. perms[q] \in PermissionRecords
    OBVIOUS
  <2>2. x \in PermissionRecords
    BY <2>1 DEF PermissionRecords, Outcomes
  <2>3. perms' = [perms EXCEPT ![q] = x] /\ perms \in Seq(PermissionRecords)
    BY <1>t
  <2> HIDE DEF x
  <2> QED BY ONLY <2>2, <2>3, Replaced
<1>13. ASSUME NEW q \in DOMAIN perms, PermissionHandled(q) \/ PermissionDecided(q) PROVE TypeOK'
  <2>0. UNCHANGED <<runs, cur, raw, endVars, used, bound>>
    BY <1>13, WhatIsHandled
  <2>1. CASE \E r \in Nat, what \in {"cancelled", "error"} : Told(q, r, what)
    <3>1. PICK r \in Nat, what \in {"cancelled", "error"} : Told(q, r, what)
      BY <2>1
    <3>2. perms' \in Seq(PermissionRecords)
      BY <3>1, <1>t DEF Told, Outcomes
    <3> QED BY <2>0, <3>1, <3>2 DEF Told, endVars
  <2>2. CASE \E r \in Nat, what \in Outcomes : Decided(q, r, what)
    <3>1. PICK r \in Nat, what \in Outcomes : Decided(q, r, what)
      BY <2>2
    <3>2. perms' \in Seq(PermissionRecords)
      BY <3>1, <1>t DEF Decided
    <3>3. Puts([f |-> "decided", run |-> 0]) /\ (log' = log \/ Says(Said("approves", r)))
      BY <3>1 DEF Decided, Records, Puts, Log, Says
    <3>4. [f |-> "decided", run |-> 0] \in Frames
      BY DEF Frames, Agents
    <3>5. stack' \in Seq(Frames) /\ log' \in Seq(Entries)
      BY <1>e, <3>3, <3>4, Putting, Saying DEF Words
    <3> QED BY <2>0, <3>2, <3>5 DEF endVars
  <2>3. CASE Asks(q)
    <3> DEFINE x == [perms[q] EXCEPT !.st = "waiting", !.run = cur]
    <3>1. perms[q] \in PermissionRecords /\ cur \in Nat
      OBVIOUS
    <3>2. x \in PermissionRecords
      BY <3>1 DEF PermissionRecords
    <3>3. perms' = [perms EXCEPT ![q] = x] /\ perms \in Seq(PermissionRecords)
      BY <2>3 DEF Asks
    <3> HIDE DEF x
    <3>4. perms' \in Seq(PermissionRecords)
      BY ONLY <3>2, <3>3, Replaced
    <3> QED BY <2>0, <2>3, <3>4 DEF Asks, endVars
  <2> QED BY <1>13, <2>1, <2>2, <2>3, WhatIsHandled
<1>14. ASSUME NEW q \in DOMAIN perms, OperatorAnswers(q) PROVE TypeOK'
  <2>1. PICK answer \in {"approve", "cancel", "throws"} :
          perms' = [perms EXCEPT ![q].st = "woken", ![q].answer = answer]
    BY <1>14 DEF OperatorAnswers
  <2> DEFINE x == [perms[q] EXCEPT !.st = "woken", !.answer = answer]
  <2>2. perms[q] \in PermissionRecords
    OBVIOUS
  <2>3. x \in PermissionRecords
    BY <2>2 DEF PermissionRecords
  <2>4. perms' = [perms EXCEPT ![q] = x]
    BY <2>1
  <2> HIDE DEF x
  <2> QED BY <1>14, <2>3, <2>4, Replaced DEF OperatorAnswers, endVars
<1>15. ASSUME NEW q \in DOMAIN perms, PermissionGoesOn(q) PROVE TypeOK'
  <2> DEFINE x == [perms[q] EXCEPT !.st = "answered"]
  <2>1. perms[q] \in PermissionRecords
    OBVIOUS
  <2>2. x \in PermissionRecords /\ perms[q].run \in Nat
    BY <2>1 DEF PermissionRecords
  <2>3. perms' = [perms EXCEPT ![q] = x] /\ perms \in Seq(PermissionRecords)
    BY <1>15 DEF PermissionGoesOn
  <2> HIDE DEF x
  <2>4. perms' \in Seq(PermissionRecords)
    BY ONLY <2>2, <2>3, Replaced
  <2>5. Takes /\ (log' = log \/ Says(Said("approved", perms[q].run)))
    BY <1>15 DEF PermissionGoesOn, Takes, Log, Says
  <2>6. stack' \in Seq(Frames) /\ log' \in Seq(Entries)
    BY <1>e, <2>2, <2>5, Taking, Saying DEF Words
  <2> QED BY <1>15, <2>4, <2>6 DEF PermissionGoesOn, endVars
<1>16. CASE CloseSession
  <2>1. runs' \in Seq(RunRecords) /\ Len(runs') = Len(runs) /\ closer'.had \in BOOLEAN
    <3>1. CASE cur = 0
      BY <1>16, <3>1 DEF CloseSession
    <3>2. CASE cur # 0
      <4> DEFINE x == [runs[cur] EXCEPT !.stop = TRUE]
      <4>1. runs[cur] \in RunRecords
        BY <3>2
      <4>2. x \in RunRecords /\ runs[cur].stop \in BOOLEAN
        BY <4>1 DEF RunRecords
      <4>3. Becomes(cur, x) /\ closer'.had \in BOOLEAN
        BY <1>16, <3>2, <4>2 DEF CloseSession, Becomes
      <4> HIDE DEF x
      <4> QED BY <4>2, <4>3, Becoming
    <3> QED BY <3>1, <3>2
  <2>2. cur \in Nat /\ [f |-> "close-session", run |-> cur] \in Frames
    BY DEF Frames, Observed
  <2>4. Puts([f |-> "close-session", run |-> cur]) /\ Says(Said("closing", cur))
    BY <1>16 DEF CloseSession, Records, Log, Puts, Says
  <2>3. stack' \in Seq(Frames) /\ log' \in Seq(Entries)
    BY <1>e, <2>2, <2>4, Putting, Saying DEF Words
  <2> QED BY <1>16, <2>1, <2>2, <2>3 DEF CloseSession
<1>17. CASE CloseSessionGoesOn
  <2>1. Takes
    BY <1>17 DEF CloseSessionGoesOn, Takes
  <2> QED BY <1>17, <2>1, Taking DEF CloseSessionGoesOn
<1>18. CASE CloseSessionAnswered
  BY <1>18 DEF CloseSessionAnswered
<1>19. CASE CloseSessionFails
  BY <1>19 DEF CloseSessionFails
<1>20. CASE CloseSessionReturns
  <2>1. runs' \in Seq(RunRecords) /\ Len(runs') = Len(runs)
    <3>1. CASE closer.outcome = "refused" /\ OfRun(closer.run)
      <4> DEFINE x == [runs[cur] EXCEPT !.stop = closer.had]
      <4>1. runs[cur] \in RunRecords
        BY <3>1 DEF OfRun
      <4>2. x \in RunRecords
        BY <4>1 DEF RunRecords
      <4>3. Becomes(cur, x)
        BY <1>20, <3>1 DEF CloseSessionReturns, RestoredStop, Becomes
      <4> HIDE DEF x
      <4> QED BY <4>2, <4>3, Becoming
    <3>2. CASE ~(closer.outcome = "refused" /\ OfRun(closer.run))
      BY <1>20, <3>2, ClosedType DEF CloseSessionReturns
    <3> QED BY <3>1, <3>2
  <2>2. log' \in Seq(Entries)
    <3>1. Says(Said("refused", 0)) \/ Says(Said("over", 0))
      BY <1>20 DEF CloseSessionReturns, Log, Says
    <3> QED BY <3>1, <1>e, Saying DEF Words
  <2>3. perms' \in Seq(PermissionRecords)
    BY <1>20, SettledPermissions DEF CloseSessionReturns
  <2> QED BY <1>20, <2>1, <2>2, <2>3 DEF CloseSessionReturns, NoCloser
<1>c. Closes => perms' \in Seq(PermissionRecords) /\ log' \in Seq(Entries) /\ closed' \in BOOLEAN
                /\ closing' \in {"no", "ending", "done"} /\ captured' \in Nat
  <2> SUFFICES ASSUME Closes
               PROVE  perms' \in Seq(PermissionRecords) /\ log' \in Seq(Entries) /\ closed' \in BOOLEAN
                      /\ closing' \in {"no", "ending", "done"} /\ captured' \in Nat
    OBVIOUS
  <2>1. Says(Said("closed", cur)) /\ cur \in Nat
    BY DEF Closes, Log, Says
  <2>5. "closed" \in Words
    BY DEF Words
  <2>6. Said("closed", cur) \in Entries
    BY <1>e, <2>1, <2>5
  <2>2. log' \in Seq(Entries)
    BY <2>6, <2>1, Saying
  <2> QED BY <2>1, <2>2, SettledPermissions DEF Closes
<1>21. CASE Close
  BY <1>21, <1>c DEF Close
<1>22. CASE CloseReturns
  <2>1. runs' \in Seq(RunRecords) /\ Len(runs') = Len(runs) /\ cur' \in 0 .. Len(runs)
    BY <1>22, ClosedType DEF CloseReturns
  <2> QED BY <1>22, <2>1 DEF CloseReturns
<1>23. CASE ConnectionCloses
  BY <1>23, SettledPermissions DEF ConnectionCloses
<1>24. CASE ConnectionFaults
  BY <1>24, <1>c DEF ConnectionFaults
<1>25. CASE ExitSeen
  <2>1. [f |-> "exit", run |-> 0] \in Frames
    BY DEF Frames, Agents
  <2>2. Puts([f |-> "exit", run |-> 0]) /\ Says(Said("exited", 0))
    BY <1>25 DEF ExitSeen, Records, Log, Puts, Says
  <2>3. stack' \in Seq(Frames) /\ log' \in Seq(Entries)
    BY <1>e, <2>1, <2>2, Putting, Saying DEF Words
  <2> QED BY <1>25, <2>3 DEF ExitSeen
<1>26. CASE ExitGoesOn
  <2>1. runs' \in Seq(RunRecords) /\ Len(runs') = Len(runs) /\ cur' \in 0 .. Len(runs)
    BY <1>26, ClosedType DEF ExitGoesOn, ExitEnds
  <2>3. Takes /\ cur \in Nat /\ (log' = log \/ Says(Said("interrupted", cur)))
    BY <1>26 DEF ExitGoesOn, ExitEnds, Log, Says, Takes
  <2>2. log' \in Seq(Entries) /\ stack' \in Seq(Frames)
    BY <1>e, <2>3, Taking, Saying DEF Words
  <2> QED BY <1>26, <2>1, <2>2 DEF ExitGoesOn, endVars
<1>27. CASE UNCHANGED vars
  BY <1>27 DEF vars, endVars
<1> QED
  BY <1>1, <1>2, <1>3, <1>4, <1>5, <1>6, <1>7, <1>8, <1>9, <1>10, <1>11, <1>12, <1>13, <1>14, <1>15,
     <1>16, <1>17, <1>18, <1>19, <1>20, <1>21, <1>22, <1>23, <1>24, <1>25, <1>26, <1>27
     DEF Next, Calls, Agent, Runs, Fails

-----------------------------------------------------------------------------
IsRun(r) == r \in 1 .. Len(runs)
Frame(f, r) == \E i \in DOMAIN stack : stack[i].f = f /\ stack[i].run = r
StopKnown(r) == Happened("stop", r) \/ runs[r].withdrawn

(* What is on record has happened.                                         *)
Over ==
    \A n \in DOMAIN log :
        /\ log[n].k = "over" => session = "over"
        /\ log[n].k = "closed" => closed
        /\ log[n].k = "exited" => exit
        /\ log[n].k = "closing" => session # "open" \/ \E l \in n .. Len(log) : log[l].k = "refused"
Stops ==
    \A n \in DOMAIN log :
        /\ log[n].k = "stop" => IsRun(log[n].run) /\ runs[log[n].run].stop
        /\ log[n].k = "withdrawn" => IsRun(log[n].run) /\ runs[log[n].run].withdrawn

(* A run whose end is on record is the open one only while its end is still *)
(* to go on; one whose start is on record ended on record, unless the       *)
(* session or the process did.                                              *)
Ended ==
    \A n \in DOMAIN log : Finishes(n) =>
        IsRun(log[n].run) /\ (cur # log[n].run \/ Frame("end", log[n].run))
Started ==
    \A n \in DOMAIN log : Begins(n) =>
        /\ IsRun(log[n].run) /\ runs[log[n].run].started
        /\ \/ (cur = log[n].run /\ ~Frame("end", cur)) \/ session = "over" \/ exit
           \/ \E l \in n .. Len(log) : log[l].k = "ended" /\ log[l].run = log[n].run

(* Only the outermost callback was begun by the agent or its end: what is   *)
(* above it are calls of observers.                                         *)
Stacked ==
    \A i \in DOMAIN stack :
        /\ stack[i].run \in 0 .. Len(runs)
        /\ i < Len(stack) => stack[i].f \in Observed
        /\ exit => stack[i].f \notin {"running", "idle", "stopped"}
        /\ stack[i].f \in {"prompt", "end"} => stack[i].run # 0
        /\ stack[i].f = "prompt" => ~runs[stack[i].run].started

(* A prompt that was withdrawn is never sent; one that is not sent yet is   *)
(* in the middle of its record.                                             *)
Withdrawals == \A r \in DOMAIN runs : runs[r].withdrawn => runs[r].stop /\ ~runs[r].sent
Open == cur # 0 => session # "over" /\ (runs[cur].sent \/ Frame("prompt", cur))
Attributed == cur # 0 /\ runs[cur].prompted => runs[cur].answer \in {"none", "accepted"}

(* The open run was asked to stop only by cancel(), or by the close of the  *)
(* session under way, which knows what to restore.                          *)
StopsAsked ==
    cur # 0 /\ (session = "open" \/ closer.run # cur) => (runs[cur].stop => StopKnown(cur))
Closer ==
    /\ session = "closing" <=> closer.st # "no"
    /\ closer.run \in 0 .. Len(runs)
    /\ session = "closing" /\ closer.run # 0 =>
        /\ StopKnown(closer.run) => closer.had
        /\ closer.run = cur /\ closer.had => StopKnown(cur)

(* A callback of the end is begun by the end, the one of a close of the     *)
(* session by the one close under way.                                     *)
Callbacks ==
    \A i \in DOMAIN stack :
        /\ stack[i].f = "exit" => exit
        /\ stack[i].f = "close-session" =>
              closer.st = "recording" /\ \A j \in DOMAIN stack : stack[j].f = "close-session" => j = i

(* One decision at a time is between its record and its answer, at the     *)
(* bottom of the stack. While it is an approval its run stays the open one  *)
(* and its observer has made calls only that neither send nor end anything  *)
(* else.                                                                   *)
DecidedInside(r) ==
    \E d \in DOMAIN log : log[d] = Said("approves", r) /\ \A m \in d + 1 .. Len(log) : log[m].k \in Nested
Bottom == stack # <<>> /\ stack[Len(stack)].f = "decided"
Approving == cur # 0 /\ (\A i \in DOMAIN stack : stack[i].f # "prompt") /\ DecidedInside(cur)
Decisions ==
    \A q \in DOMAIN perms : perms[q].st = "deciding" =>
        /\ \A p \in DOMAIN perms : perms[p].st = "deciding" => p = q
        /\ Bottom
        /\ perms[q].told = "approved" => cur = perms[q].run /\ Approving

IInv ==
    /\ TypeOK /\ Over /\ Stops /\ Ended /\ Started /\ Stacked /\ Withdrawals /\ Open /\ Attributed
    /\ StopsAsked /\ Closer

-----------------------------------------------------------------------------
(* How a step may change what the invariant speaks of.                     *)
Same(r) ==
    /\ runs'[r].started = runs[r].started /\ runs'[r].stop = runs[r].stop
    /\ runs'[r].sent = runs[r].sent /\ runs'[r].withdrawn = runs[r].withdrawn
SameRuns == Len(runs') = Len(runs) /\ \A r \in 1 .. Len(runs) : Same(r)
SameAnswers ==
    \A r \in 1 .. Len(runs) : runs'[r].prompted => runs[r].prompted /\ runs'[r].answer = runs[r].answer
FrameNext(f, r) == \E i \in DOMAIN stack' : stack'[i].f = f /\ stack'[i].run = r
SameCloser ==
    /\ session' = session /\ closer'.run = closer.run /\ closer'.had = closer.had
    /\ closer'.st = "no" <=> closer.st = "no"
SameEnds == closed' = closed /\ exit' = exit
LogGrows == Len(log') >= Len(log) /\ \A n \in 1 .. Len(log) : log'[n] = log[n]

LEMMA LogDomain == TypeOK => DOMAIN log = 1 .. Len(log) /\ Len(log) \in Nat
BY DEF TypeOK
LEMMA RunsDomain ==
    TypeOK => DOMAIN runs = 1 .. Len(runs) /\ Len(runs) \in Nat /\ \A r \in 1 .. Len(runs) : runs[r] \in RunRecords
BY DEF TypeOK
LEMMA StackDomain ==
    TypeOK => DOMAIN stack = 1 .. Len(stack) /\ Len(stack) \in Nat /\ \A i \in 1 .. Len(stack) : stack[i] \in Frames
BY DEF TypeOK

LEMMA ClosedRuns ==
    ASSUME TypeOK, NEW r \in 0 .. Len(runs), runs' = Closed(runs, r) PROVE SameRuns /\ SameAnswers
<1>1. /\ Len(runs') = Len(runs)
      /\ \A n \in 1 .. Len(runs) :
            \E how \in {"open", "resolved", "rejected"} : runs'[n] = [runs[n] EXCEPT !.completed = how]
  <2>1. runs \in Seq(RunRecords)
    BY DEF TypeOK
  <2>2. /\ Len(Closed(runs, r)) = Len(runs)
        /\ \A n \in 1 .. Len(runs) :
              \E how \in {"open", "resolved", "rejected"} : Closed(runs, r)[n] = [runs[n] EXCEPT !.completed = how]
    BY <2>1, ClosedType
  <2> QED BY <2>2
<1>2. ASSUME NEW n \in 1 .. Len(runs)
      PROVE  Same(n) /\ runs'[n].prompted = runs[n].prompted /\ runs'[n].answer = runs[n].answer
  <2>1. runs[n] \in RunRecords
    BY DEF TypeOK
  <2> QED BY <1>1, <2>1 DEF RunRecords, Same
<1> QED BY <1>1, <1>2 DEF SameRuns, SameAnswers

LEMMA FramesPushed ==
    ASSUME TypeOK, NEW g \in Frames, Puts(g), NEW f, NEW r PROVE Frame(f, r) => FrameNext(f, r)
<1>1. /\ Len(stack') = Len(stack) + 1 /\ stack' \in Seq(Frames)
      /\ \A n \in 1 .. Len(stack) : stack'[n + 1] = stack[n]
  BY Putting
<1>2. DOMAIN stack' = 1 .. Len(stack) + 1 /\ DOMAIN stack = 1 .. Len(stack) /\ Len(stack) \in Nat
  BY <1>1 DEF TypeOK
<1>3. ASSUME NEW i \in DOMAIN stack, stack[i].f = f, stack[i].run = r
      PROVE  \E j \in DOMAIN stack' : stack'[j].f = f /\ stack'[j].run = r
  <2>1. i + 1 \in DOMAIN stack' /\ stack'[i + 1] = stack[i]
    BY <1>1, <1>2
  <2> QED BY <1>3, <2>1
<1> QED BY <1>3 DEF Frame, FrameNext

LEMMA FramesPopped ==
    ASSUME TypeOK, Takes, NEW f, NEW r
    PROVE  Frame(f, r) => FrameNext(f, r) \/ (Head(stack).f = f /\ Head(stack).run = r)
<1>1. /\ Len(stack') = Len(stack) - 1 /\ stack' \in Seq(Frames) /\ stack[1] = Head(stack)
      /\ \A n \in 1 .. Len(stack) - 1 : stack'[n] = stack[n + 1]
  BY Taking
<1>2. DOMAIN stack' = 1 .. Len(stack) - 1 /\ DOMAIN stack = 1 .. Len(stack) /\ Len(stack) \in Nat
  BY <1>1 DEF TypeOK
<1>3. ASSUME NEW i \in DOMAIN stack, stack[i].f = f, stack[i].run = r, i # 1
      PROVE  \E j \in DOMAIN stack' : stack'[j].f = f /\ stack'[j].run = r
  <2>1. i - 1 \in DOMAIN stack' /\ stack'[i - 1] = stack[i]
    BY <1>1, <1>2, <1>3
  <2> QED BY <1>3, <2>1
<1> QED BY <1>1, <1>3 DEF Frame, FrameNext

LEMMA SameStop ==
    ASSUME TypeOK, TypeOK', LogGrows, SameRuns, NEW r \in 1 .. Len(runs)
    PROVE  /\ StopKnown(r) => StopKnown(r)'
           /\ (\A n \in Len(log) + 1 .. Len(log') : log'[n].k # "stop") => (StopKnown(r)' => StopKnown(r))
<1>1. DOMAIN log = 1 .. Len(log) /\ Len(log) \in Nat /\ DOMAIN log' = 1 .. Len(log') /\ Len(log') \in Nat
  BY DEF TypeOK
<1>2. runs'[r].withdrawn = runs[r].withdrawn
  BY DEF SameRuns, Same
<1>3. Happened("stop", r) => Happened("stop", r)'
  BY <1>1 DEF LogGrows, Happened
<1>4. ASSUME \A n \in Len(log) + 1 .. Len(log') : log'[n].k # "stop"
      PROVE  Happened("stop", r)' => Happened("stop", r)
  BY <1>1, <1>4 DEF LogGrows, Happened
<1> QED BY <1>2, <1>3, <1>4 DEF StopKnown

(* Each part of the invariant, from what the step did.                     *)
NewEntries == Len(log) + 1 .. Len(log')

LEMMA LogDomains ==
    ASSUME TypeOK, TypeOK', LogGrows
    PROVE  /\ DOMAIN log = 1 .. Len(log) /\ Len(log) \in Nat
           /\ DOMAIN log' = 1 .. Len(log') /\ Len(log') \in Nat
           /\ \A n \in DOMAIN log' : n \in NewEntries \/ (n \in DOMAIN log /\ log'[n] = log[n])
           /\ \A n \in DOMAIN log : n \in DOMAIN log' /\ log'[n] = log[n]
           /\ \A n \in NewEntries : n \in DOMAIN log'
<1>1. DOMAIN log = 1 .. Len(log) /\ Len(log) \in Nat /\ DOMAIN log' = 1 .. Len(log') /\ Len(log') \in Nat
  BY DEF TypeOK
<1> QED BY <1>1 DEF LogGrows, NewEntries

LEMMA OverKept ==
    ASSUME TypeOK, TypeOK', Over, LogGrows,
           session = "over" => session' = "over", closed => closed', exit => exit',
           session # "open" => session' # "open" \/ \E l \in NewEntries : log'[l].k = "refused",
           \A n \in NewEntries : /\ log'[n].k = "over" => session' = "over"
                                 /\ log'[n].k = "closed" => closed'
                                 /\ log'[n].k = "exited" => exit'
                                 /\ log'[n].k = "closing" => session' # "open"
    PROVE  Over'
<1>1. ASSUME NEW n \in DOMAIN log'
      PROVE  /\ log'[n].k = "over" => session' = "over"
             /\ log'[n].k = "closed" => closed'
             /\ log'[n].k = "exited" => exit'
  BY LogDomains DEF Over
<1>2. ASSUME NEW n \in DOMAIN log', log'[n].k = "closing", session' = "open"
      PROVE  \E l \in n .. Len(log') : log'[l].k = "refused"
  <2>1. n \in DOMAIN log /\ log'[n] = log[n]
    BY <1>2, LogDomains
  <2>2. CASE session = "open"
    <3>1. PICK l \in n .. Len(log) : log[l].k = "refused"
      BY <1>2, <2>1, <2>2 DEF Over
    <3>2. l \in DOMAIN log /\ l \in n .. Len(log')
      BY <2>1, LogDomains DEF LogGrows
    <3> QED BY <3>1, <3>2, LogDomains
  <2>3. CASE session # "open"
    <3>1. PICK l \in NewEntries : log'[l].k = "refused"
      BY <1>2, <2>3
    <3>2. l \in n .. Len(log')
      BY <2>1, LogDomains DEF NewEntries
    <3> QED BY <3>1, <3>2
  <2> QED BY <2>2, <2>3
<1> QED BY <1>1, <1>2 DEF Over

LEMMA StopsKept ==
    ASSUME TypeOK, TypeOK', Stops, LogGrows, Len(runs') >= Len(runs),
           \A r \in 1 .. Len(runs) : /\ Happened("stop", r) /\ runs[r].stop => runs'[r].stop
                                     /\ runs[r].withdrawn => runs'[r].withdrawn,
           \A n \in NewEntries :
              /\ log'[n].k = "stop" => log'[n].run \in 1 .. Len(runs') /\ runs'[log'[n].run].stop
              /\ log'[n].k = "withdrawn" => log'[n].run \in 1 .. Len(runs') /\ runs'[log'[n].run].withdrawn
    PROVE  Stops'
<1>1. ASSUME NEW n \in DOMAIN log, log[n].k \in {"stop", "withdrawn"}
      PROVE  /\ log[n].run \in 1 .. Len(runs')
             /\ log[n].k = "stop" => runs'[log[n].run].stop
             /\ log[n].k = "withdrawn" => runs'[log[n].run].withdrawn
  <2>1. log[n].run \in 1 .. Len(runs)
    BY <1>1 DEF Stops, IsRun
  <2>2. log[n].run \in 1 .. Len(runs')
    BY <2>1, RunsDomain DEF TypeOK
  <2>3. log[n].k = "stop" => Happened("stop", log[n].run)
    BY <1>1 DEF Happened
  <2> QED BY <1>1, <2>1, <2>2, <2>3 DEF Stops
<1> QED BY <1>1, LogDomains DEF Stops, IsRun

LEMMA EndedKept ==
    ASSUME TypeOK, TypeOK', Ended, LogGrows, Len(runs') >= Len(runs),
           \A r \in 1 .. Len(runs) : cur' = r => cur = r /\ (Frame("end", r) => FrameNext("end", r)),
           \A n \in NewEntries : log'[n].k \in {"ended", "ended-unstarted", "interrupted"} =>
              log'[n].run \in 1 .. Len(runs') /\ (cur' # log'[n].run \/ FrameNext("end", log'[n].run))
    PROVE  Ended'
<1>1. ASSUME NEW n \in DOMAIN log, Finishes(n)
      PROVE  log[n].run \in 1 .. Len(runs') /\ (cur' # log[n].run \/ FrameNext("end", log[n].run))
  <2>1. PICK r : r = log[n].run
    OBVIOUS
  <2>2. r \in 1 .. Len(runs) /\ (cur # r \/ Frame("end", r))
    BY <1>1, <2>1 DEF Ended, IsRun
  <2>3. r \in 1 .. Len(runs') /\ (cur' # r \/ FrameNext("end", r))
    BY <2>2, RunsDomain DEF TypeOK
  <2> QED BY <2>1, <2>3
<1>2. ASSUME NEW n \in DOMAIN log', log'[n].k \in {"ended", "ended-unstarted", "interrupted"}
      PROVE  log'[n].run \in 1 .. Len(runs') /\ (cur' # log'[n].run \/ FrameNext("end", log'[n].run))
  <2>1. CASE n \in NewEntries
    BY <1>2, <2>1
  <2>2. CASE n \in DOMAIN log /\ log'[n] = log[n]
    BY <1>1, <1>2, <2>2 DEF Finishes
  <2> QED BY <2>1, <2>2, LogDomains
<1> QED BY <1>2 DEF Ended, IsRun, Finishes, Frame, FrameNext

LEMMA StartedKept ==
    ASSUME TypeOK, TypeOK', Started, LogGrows, Len(runs') >= Len(runs),
           \A r \in 1 .. Len(runs) : runs[r].started => runs'[r].started,
           session = "over" => session' = "over", exit => exit',
           \A r \in 1 .. Len(runs) : cur = r /\ ~Frame("end", r) /\ runs[r].started =>
              \/ (cur' = r /\ ~FrameNext("end", r)) \/ session' = "over" \/ exit'
              \/ \E l \in NewEntries : log'[l].k = "ended" /\ log'[l].run = r,
           \A n \in NewEntries : log'[n].k \in {"started", "started-alone"} =>
              /\ log'[n].run \in 1 .. Len(runs') /\ runs'[log'[n].run].started
              /\ cur' = log'[n].run /\ ~FrameNext("end", log'[n].run)
    PROVE  Started'
<1> DEFINE Stays(n, r) ==
             \/ (cur' = r /\ ~FrameNext("end", r)) \/ session' = "over" \/ exit'
             \/ \E l \in n .. Len(log') : log'[l].k = "ended" /\ log'[l].run = r
<1>1. ASSUME NEW n \in DOMAIN log, Begins(n), NEW r, r = log[n].run
      PROVE  r \in 1 .. Len(runs') /\ runs'[r].started /\ Stays(n, r)
  <2>1. /\ r \in 1 .. Len(runs) /\ runs[r].started
        /\ \/ (cur = r /\ ~Frame("end", r)) \/ session = "over" \/ exit
           \/ \E l \in n .. Len(log) : log[l].k = "ended" /\ log[l].run = r
    BY <1>1 DEF Started, IsRun
  <2>0. Len(runs) \in Nat /\ Len(runs') \in Nat
    BY DEF TypeOK
  <2>2. r \in 1 .. Len(runs') /\ runs'[r].started
    BY <2>0, <2>1
  <2>3. ASSUME NEW l \in n .. Len(log), log[l].k = "ended", log[l].run = r
        PROVE  \E m \in n .. Len(log') : log'[m].k = "ended" /\ log'[m].run = r
    <3>1. l \in DOMAIN log /\ l \in n .. Len(log') /\ log'[l] = log[l]
      BY LogDomains DEF LogGrows
    <3> QED BY <2>3, <3>1
  <2>4. \A l \in NewEntries : l \in n .. Len(log')
    BY LogDomains DEF NewEntries
  <2> QED BY <2>1, <2>2, <2>3, <2>4
<1>2. ASSUME NEW n \in DOMAIN log', log'[n].k \in {"started", "started-alone"}, NEW r, r = log'[n].run
      PROVE  r \in 1 .. Len(runs') /\ runs'[r].started /\ Stays(n, r)
  <2>1. CASE n \in NewEntries
    <3>1. r \in 1 .. Len(runs') /\ runs'[r].started /\ cur' = r /\ ~FrameNext("end", r)
      BY <1>2, <2>1
    <3> QED BY <3>1
  <2>2. CASE n \in DOMAIN log /\ log'[n] = log[n]
    BY <1>1, <1>2, <2>2 DEF Begins
  <2> QED BY <2>1, <2>2, LogDomains
<1>3. ASSUME NEW n \in DOMAIN log', log'[n].k \in {"started", "started-alone"}
      PROVE  /\ log'[n].run \in 1 .. Len(runs') /\ runs'[log'[n].run].started
             /\ \/ (cur' = log'[n].run /\ ~FrameNext("end", cur')) \/ session' = "over" \/ exit'
                \/ \E l \in n .. Len(log') : log'[l].k = "ended" /\ log'[l].run = log'[n].run
  <2>1. PICK r : r = log'[n].run
    OBVIOUS
  <2>2. r \in 1 .. Len(runs') /\ runs'[r].started /\ Stays(n, r)
    BY <1>2, <1>3, <2>1
  <2> QED BY <2>1, <2>2
<1> QED BY <1>3 DEF Started, IsRun, Begins, Frame, FrameNext

LEMMA StackedPushed ==
    ASSUME TypeOK, TypeOK', Stacked, NEW g \in Frames, Puts(g), Len(runs') >= Len(runs),
           \A r \in 1 .. Len(runs) : runs'[r].started => runs[r].started,
           exit' => exit \/ stack = <<>>,
           g.run \in 0 .. Len(runs'), g.f \in Observed \/ stack = <<>>,
           exit' => g.f \notin {"running", "idle", "stopped"},
           g.f \in {"prompt", "end"} => g.run # 0,
           g.f = "prompt" => ~runs'[g.run].started
    PROVE  Stacked'
<1>1. /\ Len(stack') = Len(stack) + 1 /\ stack'[1] = g /\ DOMAIN stack' = 1 .. Len(stack) + 1
      /\ \A n \in 1 .. Len(stack) : stack'[n + 1] = stack[n]
  BY Putting, StackDomain DEF TypeOK
<1>2. DOMAIN stack = 1 .. Len(stack) /\ Len(stack) \in Nat /\ Len(runs) \in Nat /\ Len(runs') \in Nat
  BY DEF TypeOK
<1>3. stack = <<>> => Len(stack) = 0
  OBVIOUS
<1>4. ASSUME NEW i \in 1 .. Len(stack), NEW h, h = stack[i]
      PROVE  /\ h.run \in 0 .. Len(runs') /\ (i + 1 < Len(stack') => h.f \in Observed)
             /\ exit' => h.f \notin {"running", "idle", "stopped"}
             /\ h.f \in {"prompt", "end"} => h.run # 0
             /\ h.f = "prompt" => ~runs'[h.run].started
  <2>1. /\ h.run \in 0 .. Len(runs) /\ (i < Len(stack) => h.f \in Observed)
        /\ exit => h.f \notin {"running", "idle", "stopped"}
        /\ h.f \in {"prompt", "end"} => h.run # 0
        /\ h.f = "prompt" => ~runs[h.run].started
    BY <1>2, <1>4 DEF Stacked
  <2>2. h.f = "prompt" => h.run \in 1 .. Len(runs)
    BY <1>2, <2>1
  <2> QED BY <1>1, <1>2, <1>3, <2>1, <2>2
<1>5. ASSUME NEW i \in 1 .. Len(stack) + 1, NEW h, h = stack'[i]
      PROVE  /\ h.run \in 0 .. Len(runs') /\ (i < Len(stack') => h.f \in Observed)
             /\ exit' => h.f \notin {"running", "idle", "stopped"}
             /\ h.f \in {"prompt", "end"} => h.run # 0
             /\ h.f = "prompt" => ~runs'[h.run].started
  <2>1. CASE i = 1
    BY <1>1, <1>2, <1>3, <1>5, <2>1
  <2>2. CASE i # 1
    <3>1. i - 1 \in 1 .. Len(stack) /\ h = stack[i - 1] /\ (i - 1) + 1 = i
      BY <1>1, <1>2, <1>5, <2>2
    <3>2. PICK j \in 1 .. Len(stack) : j + 1 = i /\ h = stack[j]
      BY <3>1
    <3> QED BY <1>4, <3>2
  <2> QED BY <2>1, <2>2
<1> QED BY <1>1, <1>5 DEF Stacked

LEMMA StackedPopped ==
    ASSUME TypeOK, TypeOK', Stacked, Takes, Len(runs') >= Len(runs),
           \A r \in 1 .. Len(runs) : runs'[r].started => runs[r].started \/ Len(stack) = 1,
           exit' => exit
    PROVE  Stacked'
<1>1. /\ Len(stack') = Len(stack) - 1 /\ DOMAIN stack' = 1 .. Len(stack) - 1
      /\ \A n \in 1 .. Len(stack) - 1 : stack'[n] = stack[n + 1]
  BY Taking, StackDomain DEF TypeOK
<1>2. /\ DOMAIN stack = 1 .. Len(stack) /\ Len(stack) \in Nat /\ Len(runs) \in Nat /\ Len(runs') \in Nat
  BY DEF TypeOK
<1>3. ASSUME NEW i \in 1 .. Len(stack) - 1, NEW h, h = stack'[i]
      PROVE  /\ h.run \in 0 .. Len(runs') /\ (i < Len(stack') => h.f \in Observed)
             /\ exit' => h.f \notin {"running", "idle", "stopped"}
             /\ h.f \in {"prompt", "end"} => h.run # 0
             /\ h.f = "prompt" => ~runs'[h.run].started
  <2>1. i + 1 \in DOMAIN stack /\ h = stack[i + 1] /\ Len(stack) # 1
    BY <1>1, <1>2, <1>3
  <2>2. PICK j \in DOMAIN stack : j = i + 1 /\ h = stack[j]
    BY <2>1
  <2>3. /\ h.run \in 0 .. Len(runs) /\ (j < Len(stack) => h.f \in Observed)
        /\ exit => h.f \notin {"running", "idle", "stopped"}
        /\ h.f \in {"prompt", "end"} => h.run # 0
        /\ h.f = "prompt" => ~runs[h.run].started
    BY <2>2 DEF Stacked
  <2>4. h.f = "prompt" => h.run \in 1 .. Len(runs)
    BY <1>2, <2>3
  <2> QED BY <1>1, <1>2, <2>1, <2>2, <2>3, <2>4
<1> QED BY <1>1, <1>3 DEF Stacked

LEMMA StackedSame ==
    ASSUME TypeOK, TypeOK', Stacked, stack' = stack, Len(runs') >= Len(runs),
           \A r \in 1 .. Len(runs) : runs'[r].started => runs[r].started,
           exit' => exit
    PROVE  Stacked'
<1>1. /\ DOMAIN stack = 1 .. Len(stack) /\ Len(stack) \in Nat /\ Len(runs) \in Nat /\ Len(runs') \in Nat
  BY DEF TypeOK
<1>2. ASSUME NEW i \in DOMAIN stack, stack[i].f = "prompt" PROVE stack[i].run \in 1 .. Len(runs)
  BY <1>1, <1>2 DEF Stacked
<1> QED BY <1>1, <1>2 DEF Stacked

LEMMA OpenKept ==
    ASSUME TypeOK, TypeOK', Open,
           cur' # 0 => /\ cur' = cur /\ session' # "over" /\ (runs[cur].sent => runs'[cur].sent)
                       /\ FrameNext("prompt", cur) \/ runs'[cur].sent \/ ~Frame("prompt", cur)
    PROVE  Open'
<1>1. cur' # 0 => session' # "over" /\ (runs'[cur].sent \/ FrameNext("prompt", cur))
  BY DEF Open
<1> QED BY <1>1 DEF Open, Frame, FrameNext

LEMMA KnownKept ==
    ASSUME TypeOK, TypeOK', LogGrows, NEW r \in 1 .. Len(runs), runs[r].withdrawn => runs'[r].withdrawn,
           StopKnown(r)
    PROVE  StopKnown(r)'
<1>1. Happened("stop", r) => Happened("stop", r)'
  BY LogDomains DEF Happened
<1> QED BY <1>1 DEF StopKnown

LEMMA KnownBefore ==
    ASSUME TypeOK, TypeOK', LogGrows, NEW r \in 1 .. Len(runs), runs'[r].withdrawn => runs[r].withdrawn,
           \A n \in NewEntries : log'[n].k = "stop" => log'[n].run # r,
           StopKnown(r)'
    PROVE  StopKnown(r)
<1>1. Happened("stop", r)' => Happened("stop", r)
  BY LogDomains DEF Happened
<1> QED BY <1>1 DEF StopKnown

LEMMA StopsAskedKept ==
    ASSUME TypeOK, TypeOK', LogGrows, StopsAsked,
           cur' # 0 /\ (session' = "open" \/ closer'.run # cur') =>
             /\ cur' = cur /\ (session = "open" \/ closer.run # cur)
             /\ (runs[cur].withdrawn => runs'[cur].withdrawn) /\ (runs'[cur].stop => runs[cur].stop)
    PROVE  StopsAsked'
<1> SUFFICES ASSUME cur' # 0, session' = "open" \/ closer'.run # cur', runs'[cur'].stop
             PROVE  StopKnown(cur)'
  BY DEF StopsAsked
<1>1. PICK r : r = cur
  OBVIOUS
<1>2. r \in 1 .. Len(runs) /\ cur' = r /\ StopKnown(r) /\ (runs[r].withdrawn => runs'[r].withdrawn)
  BY <1>1 DEF StopsAsked, TypeOK
<1>3. StopKnown(r)'
  BY <1>2, KnownKept
<1> QED BY <1>2, <1>3 DEF StopKnown, Happened

LEMMA CloserKept ==
    ASSUME TypeOK, TypeOK', LogGrows, Closer, SameCloser, Len(runs') >= Len(runs),
           \A r \in 1 .. Len(runs) : runs'[r].withdrawn <=> runs[r].withdrawn,
           session = "closing" => \A n \in NewEntries : log'[n].k # "stop",
           cur' # 0 => cur' = cur \/ cur' > Len(runs)
    PROVE  Closer'
<1>1. closer.run \in 0 .. Len(runs) /\ Len(runs) \in Nat /\ Len(runs') \in Nat
  BY DEF Closer, TypeOK
<1>2. ASSUME session = "closing", closer.run # 0, NEW r, r = closer.run
      PROVE  StopKnown(r)' <=> StopKnown(r)
  <2>1. r \in 1 .. Len(runs)
    BY <1>1, <1>2
  <2>2. StopKnown(r) => StopKnown(r)'
    BY <2>1, KnownKept
  <2>3. StopKnown(r)' => StopKnown(r)
    BY <1>2, <2>1, KnownBefore
  <2> QED BY <2>2, <2>3
<1>3. ASSUME session = "closing", closer.run # 0, NEW r, r = closer.run
      PROVE  (StopKnown(r)' => closer.had) /\ (cur' = r /\ closer.had => StopKnown(r)')
  <2>1. (StopKnown(r) => closer.had) /\ (cur = r /\ closer.had => StopKnown(r))
    BY <1>3 DEF Closer
  <2>2. cur' = r => cur = r
    BY <1>1, <1>3
  <2> QED BY <1>2, <1>3, <2>1, <2>2
<1>4. ASSUME session' = "closing", closer'.run # 0
      PROVE  (StopKnown(closer.run)' => closer'.had) /\ (closer'.run = cur' /\ closer'.had => StopKnown(cur)')
  <2>1. PICK r : r = closer.run
    OBVIOUS
  <2>2. closer'.run = r /\ closer'.had = closer.had /\ session = "closing" /\ r # 0
    BY <1>4, <2>1 DEF SameCloser
  <2>3. (StopKnown(r)' => closer.had) /\ (cur' = r /\ closer.had => StopKnown(r)')
    BY <1>3, <2>1, <2>2
  <2>4. closer'.run = r => (StopKnown(closer.run)' <=> StopKnown(r)')
    BY DEF StopKnown, Happened
  <2>5. cur' = r => (StopKnown(cur)' <=> StopKnown(r)')
    BY DEF StopKnown, Happened
  <2> QED BY <2>2, <2>3, <2>4, <2>5
<1>5. (session' = "closing" <=> closer'.st # "no") /\ closer'.run \in 0 .. Len(runs')
  BY <1>1 DEF Closer, SameCloser
<1> QED BY <1>4, <1>5 DEF Closer

LEMMA AttributedKept ==
    ASSUME TypeOK, Attributed, SameAnswers, cur' # 0 => cur' = cur PROVE Attributed'
<1>1. cur' # 0 => cur \in 1 .. Len(runs)
  BY DEF TypeOK
<1> QED BY <1>1 DEF Attributed, SameAnswers

LEMMA WithdrawalsKept ==
    ASSUME TypeOK, TypeOK', Withdrawals, SameRuns PROVE Withdrawals'
<1>1. DOMAIN runs' = 1 .. Len(runs') /\ DOMAIN runs = 1 .. Len(runs)
  BY DEF TypeOK
<1> QED BY <1>1 DEF Withdrawals, SameRuns, Same

(* A step that changes nothing of the runs the invariant speaks of.        *)
LEMMA Step ==
    ASSUME IInv, TypeOK', LogGrows, SameRuns, SameCloser, Attributed', Stacked',
           closed => closed', exit => exit', cur' \in {cur, 0},
           \A r : FrameNext("end", r) => Frame("end", r),
           \A r : r # 0 /\ cur' = r => (Frame("end", r) => FrameNext("end", r)),
           cur' # 0 => FrameNext("prompt", cur) \/ runs[cur].sent \/ ~Frame("prompt", cur),
           cur # 0 /\ cur' = 0 => ~runs[cur].started \/ Frame("end", cur) \/ exit',
           \A n \in NewEntries :
              /\ log'[n].k \notin {"over", "closing", "stop", "withdrawn", "started", "started-alone"}
              /\ (log'[n].k = "closed" => closed') /\ (log'[n].k = "exited" => exit')
              /\ log'[n].k \in {"ended", "ended-unstarted", "interrupted"} =>
                    log'[n].run \in 1 .. Len(runs) /\ cur' # log'[n].run
    PROVE  IInv'
<1> USE DEF IInv
<1>1. session' = session /\ Len(runs') = Len(runs) /\ Len(runs) \in Nat /\ \A r \in 1 .. Len(runs) : Same(r)
  <2>1. Len(runs) \in Nat
    BY DEF TypeOK
  <2>2. session' = session
    BY DEF SameCloser
  <2> QED BY <2>1, <2>2 DEF SameRuns
<1>0. cur \in 0 .. Len(runs)
  BY DEF TypeOK
<1>2. Over'
  BY <1>1, OverKept
<1>3. Stops'
  <2>1. \A r \in 1 .. Len(runs) : /\ Happened("stop", r) /\ runs[r].stop => runs'[r].stop
                                  /\ runs[r].withdrawn => runs'[r].withdrawn
    BY <1>1 DEF Same
  <2> QED BY <1>1, <2>1, StopsKept
<1>4. Ended'
  <2>1. \A r \in 1 .. Len(runs) : cur' = r => cur = r /\ (Frame("end", r) => FrameNext("end", r))
    BY <1>1
  <2> QED BY <1>1, <2>1, EndedKept
<1>5. Started'
  <2>1. \A r \in 1 .. Len(runs) : runs[r].started => runs'[r].started
    BY <1>1 DEF Same
  <2>2. \A r \in 1 .. Len(runs) : cur = r /\ ~Frame("end", r) /\ runs[r].started =>
              (cur' = r /\ ~FrameNext("end", r)) \/ exit'
    BY <1>1
  <2> QED BY <1>1, <2>1, <2>2, StartedKept
<1>6. Withdrawals'
  BY WithdrawalsKept
<1>7. Open'
  <2>1. cur' # 0 => /\ cur' = cur /\ session' # "over" /\ (runs[cur].sent => runs'[cur].sent)
                    /\ FrameNext("prompt", cur) \/ runs'[cur].sent \/ ~Frame("prompt", cur)
    BY <1>0, <1>1 DEF Open, Same
  <2> QED BY <2>1, OpenKept
<1>8. StopsAsked'
  <2>1. cur' # 0 /\ (session' = "open" \/ closer'.run # cur') =>
             /\ cur' = cur /\ (session = "open" \/ closer.run # cur)
             /\ (runs[cur].withdrawn => runs'[cur].withdrawn) /\ (runs'[cur].stop => runs[cur].stop)
    BY <1>0, <1>1 DEF Same, SameCloser
  <2> QED BY <2>1, StopsAskedKept
<1>9. Closer'
  <2>1. \A r \in 1 .. Len(runs) : runs'[r].withdrawn <=> runs[r].withdrawn
    BY <1>1 DEF Same
  <2> QED BY <1>1, <2>1, CloserKept
<1> QED BY <1>2, <1>3, <1>4, <1>5, <1>6, <1>7, <1>8, <1>9

(* A step that leaves the callbacks and the log alone too.                 *)
LEMMA QuietStep ==
    ASSUME IInv, TypeOK', SameRuns, SameCloser, Attributed', UNCHANGED <<stack, log>>,
           closed => closed', exit' = exit, cur' \in {cur, 0},
           cur # 0 /\ cur' = 0 => ~runs[cur].started \/ exit'
    PROVE  IInv'
<1>1. LogGrows /\ NewEntries = {}
  BY DEF LogGrows, NewEntries, IInv, TypeOK
<1>2. \A f, r : FrameNext(f, r) <=> Frame(f, r)
  BY DEF Frame, FrameNext
<1>3. Stacked'
  BY StackedSame DEF IInv, SameRuns, Same, TypeOK
<1> QED BY <1>1, <1>2, <1>3, Step

(* A callback that goes on and says nothing.                               *)
LEMMA PoppedStep ==
    ASSUME IInv, TypeOK', SameRuns, SameCloser, Attributed', Takes,
           closed' = closed, exit' = exit, cur' \in {cur, 0}, LogGrows,
           Head(stack).f = "prompt" => cur' # Head(stack).run \/ runs[cur].sent,
           Head(stack).f = "end" => cur' # Head(stack).run,
           cur # 0 /\ cur' = 0 => ~runs[cur].started \/ Frame("end", cur) \/ exit',
           \A n \in NewEntries :
              /\ log'[n].k = "interrupted" /\ log'[n].run \in 1 .. Len(runs) /\ cur' # log'[n].run
    PROVE  IInv'
<1>1. Stacked'
  <2>1. \A r \in 1 .. Len(runs) : runs'[r].started = runs[r].started
    BY DEF SameRuns, Same
  <2>2. Len(runs') = Len(runs) /\ Len(runs) \in Nat
    BY DEF SameRuns, IInv, TypeOK
  <2> QED BY <2>1, <2>2, StackedPopped DEF IInv
<1>2. \A f, r : Frame(f, r) => FrameNext(f, r) \/ (Head(stack).f = f /\ Head(stack).run = r)
  BY FramesPopped DEF IInv
<1>3. \A f, r : FrameNext(f, r) => Frame(f, r)
  <2>1. /\ \A n \in 1 .. Len(stack) - 1 : stack'[n] = stack[n + 1]
        /\ DOMAIN stack' = 1 .. Len(stack) - 1 /\ DOMAIN stack = 1 .. Len(stack) /\ Len(stack) \in Nat
    BY Taking, StackDomain DEF IInv, TypeOK
  <2>2. \A n \in DOMAIN stack' : n + 1 \in DOMAIN stack /\ stack'[n] = stack[n + 1]
    BY <2>1
  <2> QED BY <2>2 DEF Frame, FrameNext
<1> QED BY <1>1, <1>2, <1>3, Step

LEMMA SameRunsUnchanged == ASSUME TypeOK, runs' = runs PROVE SameRuns /\ SameAnswers
BY DEF SameRuns, SameAnswers, Same

LEMMA SameRunsBecome ==
    ASSUME TypeOK, NEW r, NEW x, Becomes(r, x),
           r \in 1 .. Len(runs) =>
             /\ x \in RunRecords /\ x.started = runs[r].started /\ x.stop = runs[r].stop
             /\ x.sent = runs[r].sent /\ x.withdrawn = runs[r].withdrawn
    PROVE  /\ SameRuns
           /\ (r \in 1 .. Len(runs) => (x.prompted => runs[r].prompted /\ x.answer = runs[r].answer)) => SameAnswers
<1>1. Len(runs') = Len(runs) /\ \A n \in 1 .. Len(runs) : runs'[n] = IF n = r THEN x ELSE runs[n]
  <2>1. r \in DOMAIN runs => x \in RunRecords
    BY DEF TypeOK
  <2> QED BY <2>1, Becoming
<1>2. SameRuns
  BY <1>1 DEF SameRuns, Same
<1>3. (r \in 1 .. Len(runs) => (x.prompted => runs[r].prompted /\ x.answer = runs[r].answer)) => SameAnswers
  BY <1>1 DEF SameAnswers
<1> QED BY <1>2, <1>3

LEMMA PromptAnsweredKeeps == ASSUME IInv, TypeOK', NEW r \in DOMAIN runs, PromptAnswered(r) PROVE IInv'
<1> USE DEF IInv
<1>0. PICK answer \in bound.answers :
        runs' = [runs EXCEPT ![r].answer = answer, ![r].prompted = StillPrompted(r, answer),
                      ![r].outcome = IF runs[r].call # "sent" THEN @
                                     ELSE IF answer \in {"accepted", "invalid"} THEN "result" ELSE "error",
                      ![r].call = IF @ = "sent" THEN "woken" ELSE @]
  BY DEF PromptAnswered
<1> DEFINE x == [runs[r] EXCEPT !.answer = answer, !.prompted = StillPrompted(r, answer),
                      !.outcome = IF runs[r].call # "sent" THEN @
                                     ELSE IF answer \in {"accepted", "invalid"} THEN "result" ELSE "error",
                      !.call = IF @ = "sent" THEN "woken" ELSE @]
<1>1. runs[r] \in RunRecords /\ r \in 1 .. Len(runs) /\ answer \in Answers /\ Len(runs) \in Nat
  <2>1. bound.answers \subseteq Answers
    BY DEF TypeOK, Scenarios
  <2>2. answer \in Answers
    BY <2>1
  <2>3. runs[r] \in RunRecords /\ r \in 1 .. Len(runs)
    BY DEF TypeOK
  <2>4. Len(runs) \in Nat
    BY DEF TypeOK
  <2> QED BY <2>2, <2>3, <2>4
<1>2. Becomes(r, x)
  BY <1>0 DEF Becomes
<1>3. StillPrompted(r, answer) \in BOOLEAN
  BY <1>1 DEF StillPrompted, RunRecords
<1>4. /\ x \in RunRecords /\ x.started = runs[r].started /\ x.stop = runs[r].stop
      /\ x.sent = runs[r].sent /\ x.withdrawn = runs[r].withdrawn
      /\ x.answer = answer /\ x.prompted = StillPrompted(r, answer)
  BY <1>1, <1>3 DEF RunRecords
<1> HIDE DEF x
<1>5. SameRuns
  BY <1>1, <1>2, <1>4, SameRunsBecome
<1>6. \A n \in 1 .. Len(runs) : runs'[n] = IF n = r THEN x ELSE runs[n]
  BY <1>1, <1>2, <1>4, Becoming
<1>7. cur' = cur /\ UNCHANGED <<stack, log, endVars>>
  BY DEF PromptAnswered
<1>8. Attributed'
  <2>1. ASSUME cur # 0, runs'[cur].prompted PROVE runs'[cur].answer \in {"none", "accepted"}
    <3>1. cur \in 1 .. Len(runs)
      BY <2>1 DEF TypeOK
    <3>2. CASE cur = r
      <4>1. StillPrompted(r, answer) /\ runs'[cur].answer = answer
        BY <1>1, <1>4, <1>6, <2>1, <3>2
      <4> QED BY <3>2, <4>1 DEF StillPrompted
    <3>3. CASE cur # r
      BY <1>6, <2>1, <3>1, <3>3 DEF Attributed
    <3> QED BY <3>2, <3>3
  <2> QED BY <1>7, <2>1 DEF Attributed
<1>9. SameCloser /\ closed' = closed /\ exit' = exit /\ UNCHANGED <<stack, log>>
  BY <1>7 DEF SameCloser, endVars
<1> QED BY <1>5, <1>7, <1>8, <1>9, QuietStep

LEMMA PromptFailsKeeps == ASSUME IInv, TypeOK', NEW r \in DOMAIN runs, PromptFails(r) PROVE IInv'
<1> USE DEF IInv
<1> DEFINE x == [runs[r] EXCEPT !.call = "woken", !.outcome = "error"]
<1>1. runs[r] \in RunRecords /\ r \in 1 .. Len(runs)
  BY DEF TypeOK
<1>2. Becomes(r, x)
  BY DEF Becomes, PromptFails
<1>3. /\ x \in RunRecords /\ x.started = runs[r].started /\ x.stop = runs[r].stop
      /\ x.sent = runs[r].sent /\ x.withdrawn = runs[r].withdrawn
      /\ x.answer = runs[r].answer /\ x.prompted = runs[r].prompted
  BY <1>1 DEF RunRecords
<1> HIDE DEF x
<1>4. SameRuns /\ SameAnswers
  BY <1>1, <1>2, <1>3, SameRunsBecome
<1>5. SameCloser /\ closed' = closed /\ exit' = exit /\ cur' = cur /\ UNCHANGED <<stack, log>>
  BY DEF SameCloser, PromptFails, endVars
<1>6. Attributed'
  BY <1>4, <1>5, AttributedKept
<1> QED BY <1>4, <1>5, <1>6, QuietStep

LEMMA PromptReturnsKeeps == ASSUME IInv, TypeOK', NEW r \in DOMAIN runs, PromptReturns(r) PROVE IInv'
<1> USE DEF IInv
<1>1. PICK accepted \in BOOLEAN, left \in BOOLEAN, kept \in BOOLEAN :
        LET rs == IF left THEN Closed(runs, r) ELSE runs IN
        /\ runs' = [rs EXCEPT ![r].call = IF accepted THEN "returned" ELSE "failed",
                              ![r].took = IF accepted THEN raw ELSE 0,
                              ![r].prompted = @ /\ ~kept]
        /\ cur' = IF left THEN 0 ELSE cur
        /\ left => cur = r /\ ~runs[r].started
  BY DEF PromptReturns
<1> DEFINE rs == IF left THEN Closed(runs, r) ELSE runs
           x == [rs[r] EXCEPT !.call = IF accepted THEN "returned" ELSE "failed",
                              !.took = IF accepted THEN raw ELSE 0, !.prompted = @ /\ ~kept]
<1>2. r \in 1 .. Len(runs) /\ runs \in Seq(RunRecords) /\ Len(runs) \in Nat
  BY DEF TypeOK
<1>3. rs \in Seq(RunRecords) /\ Len(rs) = Len(runs)
  BY <1>2, ClosedType
<1>4. \A n \in 1 .. Len(runs) :
        /\ rs[n].started = runs[n].started /\ rs[n].stop = runs[n].stop /\ rs[n].sent = runs[n].sent
        /\ rs[n].withdrawn = runs[n].withdrawn /\ rs[n].prompted = runs[n].prompted
        /\ rs[n].answer = runs[n].answer
  <2>1. ASSUME NEW n \in 1 .. Len(runs), left
        PROVE  /\ rs[n].started = runs[n].started /\ rs[n].stop = runs[n].stop /\ rs[n].sent = runs[n].sent
               /\ rs[n].withdrawn = runs[n].withdrawn /\ rs[n].prompted = runs[n].prompted
               /\ rs[n].answer = runs[n].answer
    <3>1. runs[n] \in RunRecords
      BY <1>2
    <3>2. PICK how \in {"open", "resolved", "rejected"} : rs[n] = [runs[n] EXCEPT !.completed = how]
      <4>1. \A m \in 1 .. Len(runs) :
              \E how \in {"open", "resolved", "rejected"} : Closed(runs, r)[m] = [runs[m] EXCEPT !.completed = how]
        <5>1. r \in 0 .. Len(runs)
          BY <1>2
        <5> QED BY <1>2, <5>1, ClosedType
      <4> QED BY <2>1, <4>1
    <3> HIDE DEF rs
    <3> QED BY <3>1, <3>2 DEF RunRecords
  <2> QED BY <2>1
<1>5. runs' = [rs EXCEPT ![r] = x]
  BY <1>1
<1> HIDE DEF rs
<1>6. rs[r] \in RunRecords
  BY <1>2, <1>3
<1>7. /\ x \in RunRecords /\ x.started = rs[r].started /\ x.stop = rs[r].stop
      /\ x.sent = rs[r].sent /\ x.withdrawn = rs[r].withdrawn
      /\ x.answer = rs[r].answer /\ (x.prompted => rs[r].prompted)
  BY <1>6, <1>2 DEF RunRecords, TypeOK
<1> HIDE DEF x
<1>8. Len(runs') = Len(runs) /\ \A n \in 1 .. Len(runs) : runs'[n] = IF n = r THEN x ELSE rs[n]
  <2>1. Len(rs) = Len(runs) /\ rs \in Seq(RunRecords)
    BY <1>3
  <2> QED BY <1>5, <1>7, <2>1, Replaced
<1>9. SameRuns /\ SameAnswers
  BY <1>2, <1>4, <1>7, <1>8 DEF SameRuns, SameAnswers, Same
<1>10. SameCloser /\ closed' = closed /\ exit' = exit /\ UNCHANGED <<stack, log>>
  BY DEF SameCloser, PromptReturns, endVars
<1>11. cur' \in {cur, 0} /\ (cur # 0 /\ cur' = 0 => ~runs[cur].started)
  BY <1>1
<1>12. Attributed'
  BY <1>9, <1>11, AttributedKept
<1> QED BY <1>9, <1>10, <1>11, <1>12, QuietStep

LEMMA CompletionTimesOutKeeps == ASSUME IInv, TypeOK', CompletionTimesOut PROVE IInv'
<1>1. runs' = Closed(runs, cur) /\ cur \in 0 .. Len(runs)
  BY DEF CompletionTimesOut, IInv, TypeOK
<1>2. SameRuns /\ SameAnswers
  BY <1>1, ClosedRuns DEF IInv
<1>3. SameCloser /\ closed' = closed /\ exit' = exit /\ cur' = cur /\ UNCHANGED <<stack, log>>
  BY DEF SameCloser, CompletionTimesOut, endVars
<1>4. Attributed'
  BY <1>2, <1>3, AttributedKept DEF IInv
<1> QED BY <1>2, <1>3, <1>4, QuietStep

(* A step that changes no run and neither the callbacks nor the log.       *)
LEMMA StillStep ==
    ASSUME IInv, TypeOK', UNCHANGED <<stack, log, runs, cur>>, SameCloser, exit' = exit, closed' = closed
    PROVE  IInv'
<1>1. SameRuns /\ SameAnswers
  BY SameRunsUnchanged DEF IInv
<1>2. Attributed'
  BY <1>1, AttributedKept DEF IInv
<1> QED BY <1>1, <1>2, QuietStep

LEMMA CloseReturnsKeeps == ASSUME IInv, TypeOK', CloseReturns PROVE IInv'
<1>1. cur \in 0 .. Len(runs)
  BY DEF IInv, TypeOK
<1>2. SameRuns /\ SameAnswers
  BY <1>1, ClosedRuns, SameRunsUnchanged DEF CloseReturns, IInv
<1>3. SameCloser /\ closed' = closed /\ exit' = exit /\ exit /\ cur' \in {cur, 0} /\ UNCHANGED <<stack, log>>
  BY DEF SameCloser, CloseReturns
<1>4. Attributed'
  BY <1>2, <1>3, AttributedKept DEF IInv
<1> QED BY <1>2, <1>3, <1>4, QuietStep

(* One entry more on record.                                               *)
LEMMA OneEntry ==
    ASSUME TypeOK, NEW e \in Entries, Says(e)
    PROVE  LogGrows /\ NewEntries = {Len(log) + 1} /\ log'[Len(log) + 1] = e
<1>1. Len(log) \in Nat
  BY DEF TypeOK
<1> QED BY <1>1, Saying DEF LogGrows, NewEntries

LEMMA NoEntry == ASSUME TypeOK, log' = log PROVE LogGrows /\ NewEntries = {}
<1>1. Len(log) \in Nat
  BY DEF TypeOK
<1> QED BY <1>1 DEF LogGrows, NewEntries

LEMMA SaidType == ASSUME NEW kk \in Words, NEW r \in Nat
                  PROVE  Said(kk, r) \in Entries /\ Said(kk, r).k = kk /\ Said(kk, r).run = r
BY DEF Said, Entries

(* A step that only puts an entry on record that says nothing of a run's    *)
(* start, stop or end.                                                     *)
LEMMA SayingStep ==
    ASSUME IInv, TypeOK', UNCHANGED <<runs, cur>>, SameCloser, Stacked',
           \A f, s : f # "decided" => (FrameNext(f, s) <=> Frame(f, s)),
           NEW kk \in {"approves", "approved", "closed"}, NEW r \in Nat, log' = log \/ Says(Said(kk, r)),
           closed => closed', exit' = exit, kk = "closed" => closed'
    PROVE  IInv'
<1>0. kk \in Words
  BY DEF Words
<1>1. LogGrows /\ \A n \in NewEntries : log'[n].k = kk
  BY <1>0, SaidType, OneEntry, NoEntry DEF IInv
<1>2. SameRuns /\ SameAnswers
  BY SameRunsUnchanged DEF IInv
<1>3. Attributed'
  BY <1>2, AttributedKept DEF IInv
<1>4. \A s : (FrameNext("end", s) <=> Frame("end", s)) /\ (FrameNext("prompt", s) <=> Frame("prompt", s))
  OBVIOUS
<1> QED BY <1>1, <1>2, <1>3, <1>4, Step

LEMMA HeadIsFirst == ASSUME TypeOK, stack # <<>> PROVE 1 \in DOMAIN stack /\ stack[1] = Head(stack)
<1>1. stack \in Seq(Frames)
  BY DEF TypeOK
<1> QED BY <1>1, Popped

(* A callback that is no observer's call is the only one.                  *)
LEMMA Alone ==
    ASSUME IInv, stack # <<>>, Head(stack).f \notin Observed
    PROVE  Len(stack) = 1 /\ DOMAIN stack = {1} /\ stack[1] = Head(stack)
<1>1. 1 \in DOMAIN stack /\ stack[1] = Head(stack) /\ DOMAIN stack = 1 .. Len(stack) /\ Len(stack) \in Nat
  BY HeadIsFirst, StackDomain DEF IInv
<1>2. ~(1 < Len(stack))
  BY <1>1 DEF IInv, Stacked
<1> QED BY <1>1, <1>2

LEMMA DecidedKeeps ==
    ASSUME IInv, TypeOK', NEW q, NEW r \in Nat, NEW what, Decided(q, r, what), stack = <<>>,
           UNCHANGED <<runs, cur, raw, endVars, used, bound>>
    PROVE  IInv'
<1> DEFINE g == [f |-> "decided", run |-> 0]
<1>1. SameCloser /\ closed' = closed /\ exit' = exit
  BY DEF SameCloser, endVars
<1>2. Puts(g) /\ (log' = log \/ Says(Said("approves", r)))
  BY DEF Decided, Records, Puts, Log, Says
<1>3. g \in Frames /\ g.f = "decided" /\ g.run = 0
  BY DEF Frames, Agents
<1> HIDE DEF g
<1>4. DOMAIN stack' = {1} /\ stack'[1] = g
  <2>1. Len(stack) = 0
    OBVIOUS
  <2> QED BY <1>2, <1>3, <2>1, Putting DEF IInv, TypeOK
<1>5. \A f, s : f # "decided" => (FrameNext(f, s) <=> Frame(f, s))
  BY <1>3, <1>4 DEF Frame, FrameNext
<1>6. Stacked'
  <2>1. Len(runs') >= Len(runs) /\ 0 \in 0 .. Len(runs')
    BY DEF IInv, TypeOK
  <2> QED BY <1>1, <1>2, <1>3, <2>1, StackedPushed DEF IInv
<1> QED BY <1>1, <1>2, <1>5, <1>6, SayingStep

LEMMA PermissionHandledKeeps ==
    ASSUME IInv, TypeOK', NEW q \in DOMAIN perms, PermissionHandled(q) \/ PermissionDecided(q) PROVE IInv'
<1>0. stack = <<>> /\ UNCHANGED <<runs, cur, raw, endVars, used, bound>>
  BY WhatIsHandled DEF IInv
<1>1. CASE \E r \in Nat, what \in Outcomes : Decided(q, r, what)
  BY <1>0, <1>1, DecidedKeeps
<1>2. CASE UNCHANGED <<stack, log>>
  BY <1>0, <1>2, StillStep DEF endVars, SameCloser
<1>3. (\E r \in Nat, what \in {"cancelled", "error"} : Told(q, r, what)) \/ Asks(q) => UNCHANGED <<stack, log>>
  BY DEF Told, Asks
<1> QED BY <1>1, <1>2, <1>3, WhatIsHandled DEF IInv

LEMMA PermissionGoesOnKeeps == ASSUME IInv, TypeOK', NEW q \in DOMAIN perms, PermissionGoesOn(q) PROVE IInv'
<1>1. Takes /\ Head(stack).f = "decided" /\ UNCHANGED <<runs, cur, closed, exit>> /\ SameCloser
  BY DEF PermissionGoesOn, Takes, endVars, SameCloser
<1>2. perms[q].run \in Nat
  <2>1. perms[q] \in PermissionRecords
    BY DEF IInv, TypeOK
  <2> QED BY <2>1 DEF PermissionRecords
<1>3. log' = log \/ Says(Said("approved", perms[q].run))
  BY DEF PermissionGoesOn, Log, Says
<1>4. Len(stack) = 1 /\ DOMAIN stack = {1} /\ stack[1] = Head(stack)
  BY <1>1, Alone DEF Takes, Observed
<1>5. DOMAIN stack' = {}
  BY <1>1, <1>4, Taking DEF IInv, TypeOK
<1>6. \A f, s : f # "decided" => (FrameNext(f, s) <=> Frame(f, s))
  BY <1>1, <1>4, <1>5 DEF Frame, FrameNext
<1>7. Stacked'
  BY <1>5 DEF Stacked
<1> QED BY <1>1, <1>2, <1>3, <1>6, <1>7, SayingStep

LEMMA ClosesKeeps ==
    ASSUME IInv, TypeOK', Closes, UNCHANGED <<stack, runs, cur, session, closer, exit>> PROVE IInv'
<1>1. cur \in Nat /\ Says(Said("closed", cur)) /\ closed'
  BY DEF Closes, Log, Says, IInv, TypeOK
<1>2. SameCloser
  BY DEF SameCloser
<1>3. \A f, s : FrameNext(f, s) <=> Frame(f, s)
  BY DEF Frame, FrameNext
<1>4. SameRuns
  BY SameRunsUnchanged DEF IInv
<1>5. Stacked'
  BY <1>4, StackedSame DEF IInv, SameRuns, Same, TypeOK
<1> QED BY <1>1, <1>2, <1>3, <1>5, SayingStep

LEMMA ExitSeenKeeps == ASSUME IInv, TypeOK', ExitSeen PROVE IInv'
<1>1. /\ Puts([f |-> "exit", run |-> 0]) /\ Says(Said("exited", 0)) /\ exit' /\ stack = <<>>
      /\ UNCHANGED <<runs, cur, closed>> /\ SameCloser
  BY DEF ExitSeen, Records, Log, Puts, Says, Rested, SameCloser
<1>2. [f |-> "exit", run |-> 0] \in Frames /\ "exited" \in Words
  BY DEF Frames, Agents, Words
<1>3. LogGrows /\ NewEntries = {Len(log) + 1} /\ log'[Len(log) + 1].k = "exited"
  BY <1>1, <1>2, SaidType, OneEntry DEF IInv
<1>4. SameRuns /\ SameAnswers
  BY <1>1, SameRunsUnchanged DEF IInv
<1>5. \A f, s : Frame(f, s) => FrameNext(f, s)
  BY <1>1, <1>2, FramesPushed DEF IInv
<1>6. \A s : ~FrameNext("end", s)
  <2>1. Len(stack') = 1 /\ stack'[1] = [f |-> "exit", run |-> 0] /\ DOMAIN stack' = 1 .. Len(stack')
    <3>1. Len(stack) = 0
      BY <1>1
    <3> QED BY <1>1, <1>2, <3>1, Putting DEF IInv, TypeOK
  <2> QED BY <2>1 DEF FrameNext
<1>7. Stacked'
  <2>1. Len(runs') >= Len(runs) /\ \A r \in 1 .. Len(runs) : runs'[r].started => runs[r].started
    BY <1>1 DEF IInv, TypeOK
  <2>2. 0 \in 0 .. Len(runs')
    BY <1>1 DEF IInv, TypeOK
  <2> QED BY <1>1, <1>2, <2>1, <2>2, StackedPushed DEF IInv
<1>8. Attributed'
  BY <1>1, <1>4, AttributedKept DEF IInv
<1> QED BY <1>1, <1>3, <1>4, <1>5, <1>6, <1>7, <1>8, Step

LEMMA CancelGoesOnKeeps == ASSUME IInv, TypeOK', CancelGoesOn PROVE IInv'
<1>1. Takes /\ Head(stack).f = "cancel" /\ UNCHANGED <<runs, cur, log, closed, exit>> /\ SameCloser
  BY DEF CancelGoesOn, Takes, endVars, SameCloser
<1>2. SameRuns /\ SameAnswers /\ LogGrows /\ NewEntries = {}
  BY <1>1, SameRunsUnchanged, NoEntry DEF IInv
<1>3. Attributed'
  BY <1>1, <1>2, AttributedKept DEF IInv
<1> QED BY <1>1, <1>2, <1>3, PoppedStep

LEMMA CloseSessionGoesOnKeeps == ASSUME IInv, Callbacks, TypeOK', CloseSessionGoesOn PROVE IInv'
<1>0. closer.st = "recording"
  BY HeadIsFirst DEF CloseSessionGoesOn, Callbacks, IInv
<1>1. Takes /\ Head(stack).f = "close-session" /\ UNCHANGED <<runs, cur, log, closed, exit>>
  BY DEF CloseSessionGoesOn, Takes
<1>5. SameCloser
  BY <1>0 DEF CloseSessionGoesOn, SameCloser, IInv, TypeOK
<1>2. SameRuns /\ SameAnswers /\ LogGrows /\ NewEntries = {}
  BY <1>1, SameRunsUnchanged, NoEntry DEF IInv
<1>3. Attributed'
  BY <1>1, <1>2, AttributedKept DEF IInv
<1> QED BY <1>1, <1>2, <1>3, <1>5, PoppedStep

LEMMA ExitGoesOnKeeps == ASSUME IInv, Callbacks, TypeOK', ExitGoesOn PROVE IInv'
<1>0. exit
  BY HeadIsFirst DEF ExitGoesOn, Callbacks, IInv
<1>1. Takes /\ Head(stack).f = "exit" /\ UNCHANGED <<closed, exit>> /\ SameCloser /\ cur' \in {cur, 0}
  BY DEF ExitGoesOn, ExitEnds, Takes, endVars, SameCloser
<1>2. SameRuns /\ SameAnswers
  <2>1. cur \in 0 .. Len(runs)
    BY DEF IInv, TypeOK
  <2> QED BY <2>1, ClosedRuns, SameRunsUnchanged DEF ExitGoesOn, ExitEnds, IInv
<1>3. LogGrows /\ \A n \in NewEntries :
        log'[n].k = "interrupted" /\ log'[n].run \in 1 .. Len(runs) /\ cur' # log'[n].run
  <2>1. CASE log' = log
    BY <2>1, NoEntry DEF IInv
  <2>2. CASE cur # 0
    <3>0. cur \in 1 .. Len(runs) /\ cur \in Nat
      BY <2>2 DEF IInv, TypeOK
    <3>1. Says(Said("interrupted", cur)) /\ cur' = 0
      BY <2>2 DEF ExitGoesOn, ExitEnds, Log, Says
    <3>2. "interrupted" \in Words
      BY DEF Words
    <3> QED BY <2>2, <3>0, <3>1, <3>2, SaidType, OneEntry DEF IInv
  <2> QED BY <2>1, <2>2 DEF ExitGoesOn, ExitEnds
<1>4. Attributed'
  BY <1>1, <1>2, AttributedKept DEF IInv
<1> QED BY <1>0, <1>1, <1>2, <1>3, <1>4, PoppedStep

LEMMA EndRunKeeps == ASSUME IInv, TypeOK', EndRun PROVE IInv'
<1>0. PICK r : r = Head(stack).run
  OBVIOUS
<1> DEFINE x == [runs[r] EXCEPT !.completed = IF @ = "open" THEN "resolved" ELSE @]
<1>1. /\ Takes /\ Head(stack).f = "end" /\ UNCHANGED <<closed, exit, log>> /\ SameCloser
      /\ cur' = IF cur = r THEN 0 ELSE cur
  BY <1>0 DEF EndRun, Takes, endVars, SameCloser, Current
<1>2. 1 \in DOMAIN stack /\ stack[1] = Head(stack)
  BY HeadIsFirst DEF IInv, EndRun
<1>3. r \in 1 .. Len(runs) /\ Frame("end", r)
  <2>1. r \in 0 .. Len(runs) /\ r # 0
    BY <1>0, <1>1, <1>2 DEF IInv, Stacked
  <2>2. Len(runs) \in Nat
    BY DEF IInv, TypeOK
  <2> QED BY <1>0, <1>1, <1>2, <2>1, <2>2 DEF Frame
<1>4. runs[r] \in RunRecords
  BY <1>3 DEF IInv, TypeOK
<1>5. Becomes(r, x)
  BY <1>0 DEF EndRun, Settled, Becomes
<1>6. /\ x \in RunRecords /\ x.started = runs[r].started /\ x.stop = runs[r].stop
      /\ x.sent = runs[r].sent /\ x.withdrawn = runs[r].withdrawn
      /\ x.answer = runs[r].answer /\ x.prompted = runs[r].prompted
  BY <1>4 DEF RunRecords
<1> HIDE DEF x
<1>7. SameRuns /\ SameAnswers
  BY <1>3, <1>5, <1>6, SameRunsBecome DEF IInv
<1>8. Attributed'
  BY <1>1, <1>7, AttributedKept DEF IInv
<1>9. LogGrows /\ NewEntries = {}
  BY <1>1, NoEntry DEF IInv
<1> QED BY <1>0, <1>1, <1>3, <1>7, <1>8, <1>9, PoppedStep

LEMMA PromptWithdrawnKeeps ==
    ASSUME IInv, TypeOK', PromptGoesOn, Withdrawn(Head(stack).run) PROVE IInv'
<1>0. PICK r : r = Head(stack).run
  OBVIOUS
<1> DEFINE x == [runs[r] EXCEPT !.call = "failed"]
<1>1. /\ Takes /\ Head(stack).f = "prompt" /\ UNCHANGED <<closed, exit, log>> /\ SameCloser
      /\ cur' = IF cur = r THEN 0 ELSE cur
  BY <1>0 DEF PromptGoesOn, PromptSent, Takes, endVars, SameCloser, Current
<1>2. 1 \in DOMAIN stack /\ stack[1] = Head(stack)
  BY HeadIsFirst DEF IInv, PromptGoesOn
<1>3. r \in 1 .. Len(runs) /\ ~runs[r].started
  <2>1. r \in 0 .. Len(runs) /\ r # 0 /\ ~runs[r].started
    BY <1>0, <1>1, <1>2 DEF IInv, Stacked
  <2>2. Len(runs) \in Nat
    BY DEF IInv, TypeOK
  <2> QED BY <2>1, <2>2
<1>4. runs[r] \in RunRecords
  BY <1>3 DEF IInv, TypeOK
<1>5. Becomes(r, x)
  BY <1>0 DEF PromptGoesOn, PromptSent, Becomes
<1>6. /\ x \in RunRecords /\ x.started = runs[r].started /\ x.stop = runs[r].stop
      /\ x.sent = runs[r].sent /\ x.withdrawn = runs[r].withdrawn
      /\ x.answer = runs[r].answer /\ x.prompted = runs[r].prompted
  BY <1>4 DEF RunRecords
<1> HIDE DEF x
<1>7. SameRuns /\ SameAnswers
  BY <1>3, <1>5, <1>6, SameRunsBecome DEF IInv
<1>8. Attributed'
  BY <1>1, <1>7, AttributedKept DEF IInv
<1>9. LogGrows /\ NewEntries = {}
  BY <1>1, NoEntry DEF IInv
<1> QED BY <1>0, <1>1, <1>3, <1>7, <1>8, <1>9, PoppedStep

LEMMA PromptSentKeeps ==
    ASSUME IInv, TypeOK', PromptGoesOn, ~Withdrawn(Head(stack).run) PROVE IInv'
<1> USE DEF IInv
<1>0. PICK r : r = Head(stack).run
  OBVIOUS
<1> DEFINE x == [runs[r] EXCEPT !.call = "sent", !.sent = TRUE]
<1>1. /\ Takes /\ Head(stack).f = "prompt" /\ UNCHANGED <<closed, exit, session, closer, cur>> /\ SameCloser
      /\ Says(Said("prompt", r)) /\ ~runs[r].withdrawn
  BY <1>0 DEF PromptGoesOn, PromptSent, Takes, endVars, SameCloser, Withdrawn, Log, Says
<1>2. 1 \in DOMAIN stack /\ stack[1] = Head(stack)
  BY HeadIsFirst DEF PromptGoesOn
<1>3. r \in 1 .. Len(runs) /\ Len(runs) \in Nat /\ r \in Nat
  <2>1. r \in 0 .. Len(runs) /\ r # 0
    BY <1>0, <1>1, <1>2 DEF Stacked
  <2>2. Len(runs) \in Nat
    BY DEF TypeOK
  <2> QED BY <2>1, <2>2
<1>4. runs[r] \in RunRecords
  BY <1>3 DEF TypeOK
<1>5. Becomes(r, x)
  BY <1>0 DEF PromptGoesOn, PromptSent, Becomes
<1>6. /\ x \in RunRecords /\ x.started = runs[r].started /\ x.stop = runs[r].stop /\ x.sent
      /\ x.withdrawn = runs[r].withdrawn /\ x.answer = runs[r].answer /\ x.prompted = runs[r].prompted
  BY <1>4 DEF RunRecords
<1> HIDE DEF x
<1>7. Len(runs') = Len(runs) /\ \A n \in 1 .. Len(runs) : runs'[n] = IF n = r THEN x ELSE runs[n]
  BY <1>5, <1>6, Becoming
<1>8. "prompt" \in Words
  BY DEF Words
<1>9. LogGrows /\ NewEntries = {Len(log) + 1} /\ log'[Len(log) + 1].k = "prompt"
  BY <1>1, <1>3, <1>8, SaidType, OneEntry
<1>10. \A f, s : Frame(f, s) => FrameNext(f, s) \/ (f = "prompt" /\ s = r)
  BY <1>0, <1>1, FramesPopped
<1>11. \A s : FrameNext("end", s) => Frame("end", s)
  <2>1. /\ \A n \in 1 .. Len(stack) - 1 : stack'[n] = stack[n + 1]
        /\ DOMAIN stack' = 1 .. Len(stack) - 1 /\ DOMAIN stack = 1 .. Len(stack) /\ Len(stack) \in Nat
    BY <1>1, Taking, StackDomain DEF TypeOK
  <2>2. \A n \in DOMAIN stack' : n + 1 \in DOMAIN stack /\ stack'[n] = stack[n + 1]
    BY <2>1
  <2> QED BY <2>2 DEF Frame, FrameNext
<1>12. \A n \in 1 .. Len(runs) :
        /\ runs'[n].started = runs[n].started /\ runs'[n].stop = runs[n].stop
        /\ runs'[n].withdrawn = runs[n].withdrawn /\ (runs[n].sent => runs'[n].sent)
        /\ runs'[n].prompted = runs[n].prompted /\ runs'[n].answer = runs[n].answer
  BY <1>6, <1>7
<1>13. runs'[r].sent /\ ~runs'[r].withdrawn /\ \A n \in 1 .. Len(runs) : n # r => runs'[n].sent = runs[n].sent
  BY <1>1, <1>3, <1>6, <1>7
<1>14. cur \in 0 .. Len(runs)
  BY DEF TypeOK
<1>20. Over'
  BY <1>1, <1>9, OverKept
<1>21. Stops'
  BY <1>3, <1>7, <1>9, <1>12, StopsKept
<1>22. Ended'
  <2>1. \A s \in 1 .. Len(runs) : cur' = s => cur = s /\ (Frame("end", s) => FrameNext("end", s))
    BY <1>1, <1>10
  <2> QED BY <1>3, <1>7, <1>9, <2>1, EndedKept
<1>23. Started'
  <2>1. \A s \in 1 .. Len(runs) : cur = s /\ ~Frame("end", s) /\ runs[s].started =>
             (cur' = s /\ ~FrameNext("end", s))
    BY <1>1, <1>11
  <2> QED BY <1>1, <1>3, <1>7, <1>9, <1>12, <2>1, StartedKept
<1>24. Stacked'
  BY <1>1, <1>3, <1>7, <1>12, StackedPopped
<1>25. Withdrawals'
  <2>1. DOMAIN runs' = 1 .. Len(runs) /\ DOMAIN runs = 1 .. Len(runs)
    BY <1>7 DEF TypeOK
  <2> QED BY <1>12, <1>13, <2>1 DEF Withdrawals
<1>26. Open'
  <2>1. cur' # 0 => /\ cur' = cur /\ session' # "over" /\ (runs[cur].sent => runs'[cur].sent)
                    /\ FrameNext("prompt", cur) \/ runs'[cur].sent \/ ~Frame("prompt", cur)
    BY <1>1, <1>10, <1>12, <1>13, <1>14 DEF Open
  <2> QED BY <2>1, OpenKept
<1>27. Attributed'
  <2>1. SameAnswers
    BY <1>12 DEF SameAnswers
  <2> QED BY <1>1, <2>1, AttributedKept
<1>28. StopsAsked'
  <2>1. cur' # 0 => (runs[cur].withdrawn => runs'[cur].withdrawn) /\ (runs'[cur].stop => runs[cur].stop)
    BY <1>1, <1>12, <1>14
  <2> QED BY <1>1, <1>9, <2>1, StopsAskedKept
<1>29. Closer'
  BY <1>1, <1>3, <1>7, <1>9, <1>12, CloserKept
<1> QED BY <1>20, <1>21, <1>22, <1>23, <1>24, <1>25, <1>26, <1>27, <1>28, <1>29

(* A run is opened and its record made.                                    *)
LEMMA OpensStep ==
    ASSUME IInv, TypeOK', NEW call \in BOOLEAN, NEW g \in Frames,
           cur = 0, cur' = Len(runs) + 1, Adds(NewRun(call)), Puts(g),
           g.run = Len(runs) + 1, g.f = IF call THEN "prompt" ELSE "running",
           call \/ stack = <<>>, ~exit, session # "over",
           UNCHANGED <<log, session, closer, closed, exit>>
    PROVE  IInv'
<1> USE DEF IInv
<1>1. NewRun(call) \in RunRecords
  BY NewRunType
<1>2. /\ Len(runs') = Len(runs) + 1 /\ Len(runs) \in Nat /\ runs'[Len(runs) + 1] = NewRun(call)
      /\ \A n \in 1 .. Len(runs) : runs'[n] = runs[n]
  <2>1. Len(runs) \in Nat
    BY DEF TypeOK
  <2> QED BY <1>1, <2>1, Adding
<1>3. LogGrows /\ NewEntries = {}
  BY NoEntry
<1>4. \A f, s : Frame(f, s) => FrameNext(f, s)
  BY FramesPushed
<1>5. PICK x : x = NewRun(call)
  OBVIOUS
<1>6. x.prompted = call /\ ~x.started /\ ~x.stop /\ x.sent = ~call /\ ~x.withdrawn /\ x.answer = "none"
  BY <1>5 DEF NewRun
<1>7. runs'[cur'] = x
  BY <1>2, <1>5
<1>20. Over'
  BY <1>3, OverKept
<1>21. Stops'
  BY <1>2, <1>3, StopsKept
<1>22. Ended'
  <2>1. \A s \in 1 .. Len(runs) : cur' = s => cur = s /\ (Frame("end", s) => FrameNext("end", s))
    BY <1>2
  <2> QED BY <1>2, <1>3, <2>1, EndedKept
<1>23. Started'
  BY <1>2, <1>3, StartedKept
<1>24. Stacked'
  <2>1. g.run \in 0 .. Len(runs') /\ Len(runs') >= Len(runs)
    BY <1>2
  <2>2. g.f \in Observed \/ stack = <<>>
    BY DEF Observed
  <2>3. ~runs'[g.run].started
    BY <1>2, <1>5, <1>6
  <2>4. g.run # 0
    BY <1>2
  <2> QED BY <1>2, <2>1, <2>2, <2>3, <2>4, StackedPushed
<1>25. Withdrawals'
  <2>1. DOMAIN runs' = 1 .. Len(runs) + 1 /\ DOMAIN runs = 1 .. Len(runs)
    BY <1>2 DEF TypeOK
  <2>2. \A r \in 1 .. Len(runs) + 1 : r \in 1 .. Len(runs) \/ r = Len(runs) + 1
    BY <1>2
  <2> QED BY <1>2, <1>5, <1>6, <2>1, <2>2 DEF Withdrawals
<1>26. Open'
  <2>1. call => FrameNext("prompt", cur')
    <3>1. Len(stack') = Len(stack) + 1 /\ stack'[1] = g /\ 1 \in DOMAIN stack'
      BY Putting, StackDomain DEF TypeOK
    <3> QED BY <3>1 DEF FrameNext
  <2> QED BY <1>6, <1>7, <2>1 DEF Open, Frame, FrameNext
<1>27. Attributed'
  BY <1>6, <1>7 DEF Attributed
<1>28. StopsAsked'
  BY <1>6, <1>7 DEF StopsAsked
<1>29. Closer'
  <2>1. SameCloser /\ cur' > Len(runs)
    BY <1>2 DEF SameCloser
  <2> QED BY <1>2, <1>3, <2>1, CloserKept
<1> QED BY <1>20, <1>21, <1>22, <1>23, <1>24, <1>25, <1>26, <1>27, <1>28, <1>29

LEMMA PromptKeeps == ASSUME IInv, TypeOK', Prompt PROVE IInv'
<1> DEFINE g == [f |-> "prompt", run |-> Len(runs) + 1]
<1>1. g \in Frames
  <2>1. Len(runs) \in Nat
    BY DEF IInv, TypeOK
  <2> QED BY <2>1 DEF Frames, Observed
<1>2. /\ cur = 0 /\ cur' = Len(runs) + 1 /\ Adds(NewRun(TRUE)) /\ Puts(g)
      /\ ~exit /\ session # "over" /\ UNCHANGED <<log, session, closer, closed, exit>>
  BY DEF Prompt, Usable, Gone, Records, Adds, Puts, endVars
<1>3. g.run = Len(runs) + 1 /\ g.f = "prompt"
  OBVIOUS
<1> HIDE DEF g
<1> QED BY <1>1, <1>2, <1>3, OpensStep

LEMMA AgentReportsKeeps ==
    ASSUME IInv, TypeOK', NEW state \in {"running", "idle", "stopped"}, AgentReports(state) PROVE IInv'
<1>0. stack = <<>> /\ UNCHANGED <<log, session, closer, closed, exit>> /\ SameCloser
  BY DEF AgentReports, endVars, SameCloser
<1>1. CASE Late
  <2>1. UNCHANGED <<stack, runs, cur>>
    BY <1>1 DEF AgentReports
  <2> QED BY <1>0, <2>1, StillStep
<1>2. CASE ~Late /\ state = "running" /\ cur = 0
  <2> DEFINE g == [f |-> "running", run |-> Len(runs) + 1]
  <2>1. g \in Frames
    <3>1. Len(runs) \in Nat
      BY DEF IInv, TypeOK
    <3> QED BY <3>1 DEF Frames, Agents
  <2>2. cur' = Len(runs) + 1 /\ Adds(NewRun(FALSE)) /\ Puts(g) /\ ~exit /\ session # "over"
    BY <1>2 DEF AgentReports, Late, Gone, Records, Adds, Puts
  <2>3. g.run = Len(runs) + 1 /\ g.f = "running"
    OBVIOUS
  <2> HIDE DEF g
  <2> QED BY <1>0, <1>2, <2>1, <2>2, <2>3, OpensStep
<1>3. CASE ~Late /\ ~(state = "running" /\ cur = 0)
  <2> DEFINE g == [f |-> state, run |-> cur]
  <2>1. cur \in 0 .. Len(runs) /\ Len(runs) \in Nat
    BY DEF IInv, TypeOK
  <2>2. g \in Frames
    BY <2>1 DEF Frames, Agents
  <2>3. UNCHANGED <<runs, cur>> /\ Puts(g) /\ ~exit
    BY <1>3 DEF AgentReports, Late, Gone, Records, Puts
  <2>4. g.run = cur /\ g.f = state
    OBVIOUS
  <2> HIDE DEF g
  <2>5. LogGrows /\ NewEntries = {} /\ SameRuns /\ SameAnswers
    BY <1>0, <2>3, NoEntry, SameRunsUnchanged DEF IInv
  <2>6. \A f, s : Frame(f, s) => FrameNext(f, s)
    BY <2>2, <2>3, FramesPushed DEF IInv
  <2>7. \A s : ~FrameNext("end", s)
    <3>1. Len(stack') = 1 /\ stack'[1] = g /\ DOMAIN stack' = 1 .. Len(stack')
      <4>1. Len(stack) = 0
        BY <1>0
      <4> QED BY <2>2, <2>3, <4>1, Putting DEF IInv, TypeOK
    <3> QED BY <2>4, <3>1 DEF FrameNext
  <2>8. Stacked'
    <3>1. Len(runs') >= Len(runs) /\ (\A r \in 1 .. Len(runs) : runs'[r].started => runs[r].started)
          /\ cur \in 0 .. Len(runs')
      BY <2>1, <2>3
    <3> QED BY <1>0, <2>2, <2>3, <2>4, <3>1, StackedPushed DEF IInv
  <2>9. Attributed'
    BY <2>3, <2>5, AttributedKept DEF IInv
  <2> QED BY <1>0, <2>3, <2>5, <2>6, <2>7, <2>8, <2>9, Step
<1> QED BY <1>1, <1>2, <1>3

(* A report of work that goes on is the only callback.                     *)
LEMMA ReportIsAlone ==
    ASSUME IInv, StateGoesOn
    PROVE  /\ Len(stack) = 1 /\ stack[1] = Head(stack) /\ Head(stack).run \in 0 .. Len(runs) /\ ~exit
           /\ \A s : ~Frame("end", s) /\ ~Frame("prompt", s)
<1>1. 1 \in DOMAIN stack /\ stack[1] = Head(stack)
  BY HeadIsFirst DEF IInv, StateGoesOn
<1>2. Head(stack).f \in {"running", "idle", "stopped"}
  BY DEF StateGoesOn
<1>3. Len(stack) \in Nat /\ DOMAIN stack = 1 .. Len(stack)
  BY DEF IInv, TypeOK
<1>4. ~(1 < Len(stack)) /\ Head(stack).run \in 0 .. Len(runs) /\ ~exit
  BY <1>1, <1>2 DEF IInv, Stacked, Observed
<1>5. Len(stack) = 1
  BY <1>1, <1>3, <1>4
<1>6. \A s : ~Frame("end", s) /\ ~Frame("prompt", s)
  BY <1>1, <1>2, <1>3, <1>5 DEF Frame
<1> QED BY <1>1, <1>4, <1>5, <1>6

LEMMA StartKeeps ==
    ASSUME IInv, TypeOK', StateGoesOn,
           OfRun(Head(stack).run), Head(stack).f = "running", ~runs[Head(stack).run].started
    PROVE  IInv'
<1> USE DEF IInv
<1>0. PICK r : r = Head(stack).run
  OBVIOUS
<1> DEFINE x == [runs[r] EXCEPT !.started = TRUE]
<1>1. /\ Takes /\ UNCHANGED <<closed, exit, session, closer, cur>> /\ cur = r
      /\ \E kk \in {"started", "started-alone"} : Says([k |-> kk, run |-> r, answer |-> runs[r].answer])
  BY <1>0 DEF StateGoesOn, OfRun, Takes, endVars, Log, Says
<1>2. r \in 1 .. Len(runs) /\ Len(runs) \in Nat /\ r \in Nat
  BY <1>0 DEF TypeOK, OfRun
<1>3. runs[r] \in RunRecords
  BY <1>2 DEF TypeOK
<1>4. Becomes(r, x)
  BY <1>0 DEF StateGoesOn, Becomes
<1>5. /\ x \in RunRecords /\ x.started /\ x.stop = runs[r].stop /\ x.sent = runs[r].sent
      /\ x.withdrawn = runs[r].withdrawn /\ x.answer = runs[r].answer /\ x.prompted = runs[r].prompted
  BY <1>3 DEF RunRecords
<1> HIDE DEF x
<1>6. Len(runs') = Len(runs) /\ \A n \in 1 .. Len(runs) : runs'[n] = IF n = r THEN x ELSE runs[n]
  BY <1>4, <1>5, Becoming
<1>7. /\ LogGrows /\ NewEntries = {Len(log) + 1} /\ log'[Len(log) + 1].k \in {"started", "started-alone"}
      /\ log'[Len(log) + 1].run = r
  <2>1. PICK kk \in {"started", "started-alone"} : Says([k |-> kk, run |-> r, answer |-> runs[r].answer])
    BY <1>1
  <2> DEFINE e == [k |-> kk, run |-> r, answer |-> runs[r].answer]
  <2>2. e \in Entries /\ e.k = kk /\ e.run = r
    BY <1>2, <1>3 DEF Entries, RunRecords
  <2> HIDE DEF e
  <2>3. Says(e)
    BY <2>1 DEF e
  <2> QED BY <2>2, <2>3, OneEntry
<1>8. /\ Len(stack) = 1 /\ ~exit /\ stack' \in Seq(Frames) /\ Len(stack') = 0
      /\ \A s : ~Frame("end", s) /\ ~Frame("prompt", s)
  <2>1. /\ Len(stack) = 1 /\ ~exit /\ \A s : ~Frame("end", s) /\ ~Frame("prompt", s)
    BY ReportIsAlone
  <2>2. stack' \in Seq(Frames) /\ Len(stack') = Len(stack) - 1
    BY <1>1, Taking
  <2> QED BY <2>1, <2>2
<1>9. \A s : ~FrameNext("end", s)
  BY <1>8 DEF FrameNext
<1>10. \A n \in 1 .. Len(runs) :
        /\ (runs[n].started => runs'[n].started) /\ runs'[n].stop = runs[n].stop
        /\ runs'[n].withdrawn = runs[n].withdrawn /\ runs'[n].sent = runs[n].sent
        /\ runs'[n].prompted = runs[n].prompted /\ runs'[n].answer = runs[n].answer
  BY <1>5, <1>6
<1>11. runs'[r].started
  BY <1>2, <1>5, <1>6
<1>20. Over'
  BY <1>1, <1>7, OverKept
<1>21. Stops'
  BY <1>2, <1>6, <1>7, <1>10, StopsKept
<1>22. Ended'
  <2>1. \A s \in 1 .. Len(runs) : cur' = s => cur = s /\ (Frame("end", s) => FrameNext("end", s))
    BY <1>1, <1>8
  <2> QED BY <1>2, <1>6, <1>7, <2>1, EndedKept
<1>23. Started'
  <2>1. \A s \in 1 .. Len(runs) : cur = s /\ ~Frame("end", s) /\ runs[s].started =>
             (cur' = s /\ ~FrameNext("end", s))
    BY <1>1, <1>9
  <2>2. \A n \in NewEntries : log'[n].k \in {"started", "started-alone"} =>
              /\ log'[n].run \in 1 .. Len(runs') /\ runs'[log'[n].run].started
              /\ cur' = log'[n].run /\ ~FrameNext("end", log'[n].run)
    BY <1>1, <1>2, <1>6, <1>7, <1>9, <1>11
  <2> QED BY <1>1, <1>2, <1>6, <1>7, <1>10, <2>1, <2>2, StartedKept
<1>24. Stacked'
  <2>1. \A s \in 1 .. Len(runs) : runs'[s].started => runs[s].started \/ Len(stack) = 1
    BY <1>8
  <2> QED BY <1>1, <1>2, <1>6, <2>1, StackedPopped
<1>25. Withdrawals'
  <2>1. DOMAIN runs' = 1 .. Len(runs) /\ DOMAIN runs = 1 .. Len(runs)
    BY <1>6 DEF TypeOK
  <2> QED BY <1>10, <2>1 DEF Withdrawals
<1>26. Open'
  <2>1. cur' # 0 => /\ cur' = cur /\ session' # "over" /\ (runs[cur].sent => runs'[cur].sent)
                    /\ FrameNext("prompt", cur) \/ runs'[cur].sent \/ ~Frame("prompt", cur)
    BY <1>1, <1>2, <1>8, <1>10 DEF Open
  <2> QED BY <2>1, OpenKept
<1>27. Attributed'
  <2>1. SameAnswers
    BY <1>10 DEF SameAnswers
  <2> QED BY <1>1, <2>1, AttributedKept
<1>28. StopsAsked'
  <2>1. cur' # 0 => (runs[cur].withdrawn => runs'[cur].withdrawn) /\ (runs'[cur].stop => runs[cur].stop)
    BY <1>1, <1>2, <1>10
  <2> QED BY <1>1, <1>7, <2>1, StopsAskedKept
<1>29. Closer'
  <2>1. SameCloser
    BY <1>1 DEF SameCloser
  <2> QED BY <1>1, <1>2, <1>6, <1>7, <1>10, <2>1, CloserKept
<1> QED BY <1>20, <1>21, <1>22, <1>23, <1>24, <1>25, <1>26, <1>27, <1>28, <1>29

LEMMA EndKeeps ==
    ASSUME IInv, TypeOK', StateGoesOn,
           OfRun(Head(stack).run), ~(Head(stack).f = "running" /\ ~runs[Head(stack).run].started),
           \/ Head(stack).f = "stopped" \/ (Head(stack).f = "idle" /\ runs[Head(stack).run].started)
    PROVE  IInv'
<1> USE DEF IInv
<1>0. PICK r : r = Head(stack).run
  OBVIOUS
<1>1. /\ UNCHANGED <<closed, exit, session, closer, cur, runs>> /\ cur = r
      /\ Says(Said(IF runs[r].started THEN "ended" ELSE "ended-unstarted", r))
      /\ stack' = <<[f |-> "end", run |-> r]>> \o Tail(stack)
  BY <1>0 DEF StateGoesOn, OfRun, endVars, Log, Says
<1>2. r \in 1 .. Len(runs) /\ Len(runs) \in Nat /\ r \in Nat
  BY <1>0 DEF TypeOK, OfRun
<1>3. /\ LogGrows /\ NewEntries = {Len(log) + 1} /\ log'[Len(log) + 1].run = r
      /\ log'[Len(log) + 1].k = IF runs[r].started THEN "ended" ELSE "ended-unstarted"
  <2>1. "ended" \in Words /\ "ended-unstarted" \in Words
    BY DEF Words
  <2> QED BY <1>1, <1>2, <2>1, SaidType, OneEntry
<1>4. /\ Len(stack) = 1 /\ ~exit /\ \A s : ~Frame("end", s) /\ ~Frame("prompt", s)
  BY ReportIsAlone
<1>6. DOMAIN stack' = {1} /\ stack'[1].f = "end" /\ stack'[1].run = r /\ Len(stack') = 1
  <2>1. stack \in Seq(Frames) /\ stack # <<>>
    BY DEF TypeOK, StateGoesOn
  <2>2. Tail(stack) \in Seq(Frames) /\ Len(Tail(stack)) = 0
    BY <1>4, <2>1, Popped
  <2> DEFINE g == [f |-> "end", run |-> r]
  <2>3. g \in Frames /\ g.f = "end" /\ g.run = r
    BY <1>2 DEF Frames, Agents
  <2>4. stack' = <<g>> \o Tail(stack)
    BY <1>1
  <2> HIDE DEF g
  <2>5. stack' \in Seq(Frames) /\ Len(stack') = 1 /\ stack'[1] = g
    BY <2>2, <2>3, <2>4, Pushed
  <2> QED BY <2>3, <2>5
<1>7. FrameNext("end", r)
  BY <1>6 DEF FrameNext
<1>8. SameRuns /\ SameAnswers /\ SameCloser
  BY <1>1, SameRunsUnchanged DEF SameCloser
<1>20. Over'
  BY <1>1, <1>3, OverKept
<1>21. Stops'
  BY <1>1, <1>2, <1>3, StopsKept
<1>22. Ended'
  <2>1. \A s \in 1 .. Len(runs) : cur' = s => cur = s /\ (Frame("end", s) => FrameNext("end", s))
    BY <1>1, <1>4
  <2>2. \A n \in NewEntries : log'[n].run \in 1 .. Len(runs') /\ FrameNext("end", log'[n].run)
    BY <1>1, <1>2, <1>3, <1>7
  <2> QED BY <1>1, <1>2, <1>3, <2>1, <2>2, EndedKept
<1>23. Started'
  <2>1. \A s \in 1 .. Len(runs) : cur = s /\ ~Frame("end", s) /\ runs[s].started =>
            \E l \in NewEntries : log'[l].k = "ended" /\ log'[l].run = s
    BY <1>1, <1>3
  <2> QED BY <1>1, <1>2, <1>3, <2>1, StartedKept
<1>24. Stacked'
  BY <1>1, <1>2, <1>4, <1>6 DEF Stacked
<1>25. Withdrawals'
  BY <1>8, WithdrawalsKept
<1>26. Open'
  <2>1. cur' # 0 => /\ cur' = cur /\ session' # "over" /\ (runs[cur].sent => runs'[cur].sent)
                    /\ FrameNext("prompt", cur) \/ runs'[cur].sent \/ ~Frame("prompt", cur)
    BY <1>1, <1>2, <1>4 DEF Open
  <2> QED BY <2>1, OpenKept
<1>27. Attributed'
  BY <1>1, <1>8, AttributedKept
<1>28. StopsAsked'
  BY <1>1, <1>3, StopsAskedKept
<1>29. Closer'
  BY <1>1, <1>2, <1>3, <1>8, CloserKept
<1> QED BY <1>20, <1>21, <1>22, <1>23, <1>24, <1>25, <1>26, <1>27, <1>28, <1>29

LEMMA StateGoesOnKeeps == ASSUME IInv, TypeOK', StateGoesOn PROVE IInv'
<1> DEFINE h == Head(stack)
           starts == OfRun(h.run) /\ h.f = "running" /\ ~runs[h.run].started
           ends == OfRun(h.run) /\ (h.f = "stopped" \/ (h.f = "idle" /\ runs[h.run].started))
<1>1. CASE starts
  BY <1>1, StartKeeps
<1>2. CASE ~starts /\ ends
  BY <1>2, EndKeeps
<1>3. CASE ~starts /\ ~ends
  <2>1. Takes /\ UNCHANGED <<runs, log, cur, closed, exit>> /\ SameCloser
    BY <1>3 DEF StateGoesOn, Takes, endVars, SameCloser
  <2>2. SameRuns /\ SameAnswers /\ LogGrows /\ NewEntries = {}
    BY <2>1, SameRunsUnchanged, NoEntry DEF IInv
  <2>3. Attributed'
    BY <2>1, <2>2, AttributedKept DEF IInv
  <2>4. Head(stack).f \in {"running", "idle", "stopped"}
    BY DEF StateGoesOn
  <2> QED BY <2>1, <2>2, <2>3, <2>4, PoppedStep
<1> QED BY <1>1, <1>2, <1>3

(* What is known of a stop was asked.                                      *)
LEMMA KnownIsStop ==
    ASSUME IInv, NEW r \in 1 .. Len(runs), StopKnown(r) PROVE runs[r].stop
<1>1. r \in DOMAIN runs
  BY DEF IInv, TypeOK
<1>2. Happened("stop", r) => runs[r].stop
  BY DEF Happened, IInv, Stops
<1> QED BY <1>1, <1>2 DEF StopKnown, IInv, Withdrawals

LEMMA CancelKeeps == ASSUME IInv, TypeOK', Cancel PROVE IInv'
<1> USE DEF IInv
<1>0. PICK r : r = cur
  OBVIOUS
<1> DEFINE x == [runs[r] EXCEPT !.stop = TRUE, !.withdrawn = ~runs[r].sent]
<1>1. /\ r # 0 /\ ~runs[r].stop /\ session = "open" /\ UNCHANGED <<cur, closed, exit, session, closer>>
      /\ \/ runs[r].sent /\ Puts([f |-> "cancel", run |-> r]) /\ Says(Said("stop", r))
         \/ ~runs[r].sent /\ stack' = stack /\ Says(Said("withdrawn", r))
  BY <1>0 DEF Cancel, Records, Puts, Log, Says, endVars
<1>2. r \in 1 .. Len(runs) /\ Len(runs) \in Nat /\ r \in Nat
  BY <1>0, <1>1 DEF TypeOK
<1>3. runs[r] \in RunRecords /\ DOMAIN runs = 1 .. Len(runs)
  BY <1>2 DEF TypeOK
<1>4. Becomes(r, x)
  BY <1>0 DEF Cancel, Becomes
<1>5. ~runs[r].withdrawn
  BY <1>1, <1>2, <1>3 DEF Withdrawals
<1>6. /\ x \in RunRecords /\ x.started = runs[r].started /\ x.stop /\ x.sent = runs[r].sent
      /\ x.withdrawn = ~runs[r].sent /\ x.answer = runs[r].answer /\ x.prompted = runs[r].prompted
  BY <1>3 DEF RunRecords
<1> HIDE DEF x
<1>7. Len(runs') = Len(runs) /\ \A n \in 1 .. Len(runs) : runs'[n] = IF n = r THEN x ELSE runs[n]
  BY <1>4, <1>6, Becoming
<1>8. /\ LogGrows /\ NewEntries = {Len(log) + 1} /\ log'[Len(log) + 1].run = r
      /\ log'[Len(log) + 1].k = IF runs[r].sent THEN "stop" ELSE "withdrawn"
  <2>1. "stop" \in Words /\ "withdrawn" \in Words
    BY DEF Words
  <2>2. CASE runs[r].sent
    <3>1. Says(Said("stop", r))
      BY <1>1, <2>2
    <3> QED BY <1>2, <2>1, <2>2, <3>1, SaidType, OneEntry
  <2>3. CASE ~runs[r].sent
    <3>1. Says(Said("withdrawn", r))
      BY <1>1, <2>3
    <3> QED BY <1>2, <2>1, <2>3, <3>1, SaidType, OneEntry
  <2> QED BY <2>2, <2>3
<1> DEFINE g == [f |-> "cancel", run |-> r]
<1>g. g \in Frames /\ g.f = "cancel" /\ g.run = r
  BY <1>2 DEF Frames, Observed
<1>h. Puts(g) \/ stack' = stack
  BY <1>1
<1> HIDE DEF g
<1>9. \A f, s : Frame(f, s) => FrameNext(f, s)
  <2>1. CASE Puts(g)
    BY <1>g, <2>1, FramesPushed
  <2>2. CASE stack' = stack
    BY <2>2 DEF Frame, FrameNext
  <2> QED BY <1>h, <2>1, <2>2
<1>10. \A s : FrameNext("end", s) => Frame("end", s)
  <2>1. CASE Puts(g)
    <3>1. /\ \A n \in 1 .. Len(stack) : stack'[n + 1] = stack[n]
          /\ stack'[1] = g /\ DOMAIN stack' = 1 .. Len(stack) + 1
          /\ DOMAIN stack = 1 .. Len(stack) /\ Len(stack) \in Nat
      BY <1>g, <2>1, Putting, StackDomain DEF TypeOK
    <3>2. ASSUME NEW n \in DOMAIN stack', n # 1 PROVE \E j \in DOMAIN stack : stack'[n] = stack[j]
      <4>1. n - 1 \in 1 .. Len(stack) /\ (n - 1) + 1 = n
        BY <3>1, <3>2
      <4> QED BY <3>1, <4>1
    <3> QED BY <1>g, <3>1, <3>2 DEF Frame, FrameNext
  <2>2. CASE stack' = stack
    BY <2>2 DEF Frame, FrameNext
  <2> QED BY <1>h, <2>1, <2>2
<1>11. \A n \in 1 .. Len(runs) :
        /\ runs'[n].started = runs[n].started /\ (runs[n].stop => runs'[n].stop)
        /\ (runs[n].withdrawn => runs'[n].withdrawn) /\ runs'[n].sent = runs[n].sent
        /\ runs'[n].prompted = runs[n].prompted /\ runs'[n].answer = runs[n].answer
  BY <1>5, <1>6, <1>7
<1>12. runs'[r].stop /\ runs'[r].withdrawn = ~runs[r].sent
  BY <1>2, <1>6, <1>7
<1>20. Over'
  BY <1>1, <1>8, OverKept
<1>21. Stops'
  <2>1. \A n \in NewEntries :
          /\ log'[n].k = "stop" => log'[n].run \in 1 .. Len(runs') /\ runs'[log'[n].run].stop
          /\ log'[n].k = "withdrawn" => log'[n].run \in 1 .. Len(runs') /\ runs'[log'[n].run].withdrawn
    BY <1>2, <1>7, <1>8, <1>12
  <2> QED BY <1>2, <1>7, <1>8, <1>11, <2>1, StopsKept
<1>22. Ended'
  <2>1. \A s \in 1 .. Len(runs) : cur' = s => cur = s /\ (Frame("end", s) => FrameNext("end", s))
    BY <1>1, <1>9
  <2> QED BY <1>2, <1>7, <1>8, <2>1, EndedKept
<1>23. Started'
  <2>1. \A s \in 1 .. Len(runs) : cur = s /\ ~Frame("end", s) /\ runs[s].started =>
             (cur' = s /\ ~FrameNext("end", s))
    BY <1>1, <1>10
  <2> QED BY <1>1, <1>2, <1>7, <1>8, <1>11, <2>1, StartedKept
<1>24. Stacked'
  <2>1. Len(runs') >= Len(runs) /\ r \in 0 .. Len(runs') /\ \A n \in 1 .. Len(runs) : runs'[n].started => runs[n].started
    BY <1>2, <1>7, <1>11
  <2>2. CASE Puts(g)
    BY <1>1, <1>g, <2>1, <2>2, StackedPushed DEF Observed
  <2>3. CASE stack' = stack
    BY <1>1, <2>1, <2>3, StackedSame
  <2> QED BY <1>h, <2>2, <2>3
<1>25. Withdrawals'
  <2>1. DOMAIN runs' = 1 .. Len(runs)
    BY <1>7 DEF TypeOK
  <2> QED BY <1>3, <1>6, <1>7, <2>1 DEF Withdrawals
<1>26. Open'
  <2>1. cur' # 0 => /\ cur' = cur /\ session' # "over" /\ (runs[cur].sent => runs'[cur].sent)
                    /\ FrameNext("prompt", cur) \/ runs'[cur].sent \/ ~Frame("prompt", cur)
    BY <1>0, <1>1, <1>2, <1>9, <1>11
  <2> QED BY <2>1, OpenKept
<1>27. Attributed'
  <2>1. SameAnswers
    BY <1>11 DEF SameAnswers
  <2> QED BY <1>1, <2>1, AttributedKept
<1>28. StopsAsked'
  <2>1. cur' = r
    BY <1>0, <1>1
  <2>2. CASE runs[r].sent
    <3>1. Len(log) + 1 \in DOMAIN log' /\ log'[Len(log) + 1].k = "stop" /\ log'[Len(log) + 1].run = cur'
      BY <1>8, <2>1, <2>2, LogDomains
    <3>2. Happened("stop", cur)'
      BY <3>1 DEF Happened
    <3> QED BY <3>2 DEF StopsAsked, StopKnown
  <2>3. CASE ~runs[r].sent
    BY <1>12, <2>1, <2>3 DEF StopsAsked, StopKnown
  <2> QED BY <2>2, <2>3
<1>29. Closer'
  BY <1>1, <1>2, <1>7 DEF Closer
<1> QED BY <1>20, <1>21, <1>22, <1>23, <1>24, <1>25, <1>26, <1>27, <1>28, <1>29

LEMMA CloseSessionKeeps == ASSUME IInv, TypeOK', CloseSession PROVE IInv'
<1> USE DEF IInv
<1>0. PICK r : r = cur
  OBVIOUS
<1> DEFINE x == [runs[r] EXCEPT !.stop = TRUE]
           g == [f |-> "close-session", run |-> r]
<1>1. /\ session = "open" /\ session' = "closing" /\ UNCHANGED <<cur, closed, exit>>
      /\ closer' = [st |-> "recording", run |-> r, had |-> r # 0 /\ runs[r].stop, outcome |-> "none"]
      /\ Puts(g) /\ Says(Said("closing", r)) /\ (IF r = 0 THEN runs' = runs ELSE Becomes(r, x))
  BY <1>0 DEF CloseSession, Usable, Records, Puts, Log, Says, Becomes
<1>2. r \in 0 .. Len(runs) /\ Len(runs) \in Nat /\ r \in Nat /\ DOMAIN runs = 1 .. Len(runs)
  BY <1>0 DEF TypeOK
<1>3. r # 0 => runs[r] \in RunRecords
  BY <1>2 DEF TypeOK
<1>4. r # 0 =>
        /\ x \in RunRecords /\ x.started = runs[r].started /\ x.stop /\ x.sent = runs[r].sent
        /\ x.withdrawn = runs[r].withdrawn /\ x.answer = runs[r].answer /\ x.prompted = runs[r].prompted
  BY <1>3 DEF RunRecords
<1>g. g \in Frames /\ g.f = "close-session" /\ g.run = r
  BY <1>2 DEF Frames, Observed
<1> HIDE DEF x, g
<1>5. Len(runs') = Len(runs) /\ \A n \in 1 .. Len(runs) : runs'[n] = IF n = r THEN x ELSE runs[n]
  <2>1. CASE r = 0
    BY <1>1, <1>2, <2>1
  <2>2. CASE r # 0
    BY <1>1, <1>4, <2>2, Becoming
  <2> QED BY <2>1, <2>2
<1>6. \A n \in 1 .. Len(runs) :
        /\ runs'[n].started = runs[n].started /\ (runs[n].stop => runs'[n].stop)
        /\ runs'[n].withdrawn = runs[n].withdrawn /\ runs'[n].sent = runs[n].sent
        /\ runs'[n].prompted = runs[n].prompted /\ runs'[n].answer = runs[n].answer
  BY <1>4, <1>5
<1>7. LogGrows /\ NewEntries = {Len(log) + 1} /\ log'[Len(log) + 1].k = "closing"
  <2>1. "closing" \in Words
    BY DEF Words
  <2> QED BY <1>1, <1>2, <2>1, SaidType, OneEntry
<1>8. \A f, s : Frame(f, s) => FrameNext(f, s)
  BY <1>1, <1>g, FramesPushed
<1>9. \A s : FrameNext("end", s) => Frame("end", s)
  <2>1. /\ \A n \in 1 .. Len(stack) : stack'[n + 1] = stack[n]
        /\ stack'[1] = g /\ DOMAIN stack' = 1 .. Len(stack) + 1
        /\ DOMAIN stack = 1 .. Len(stack) /\ Len(stack) \in Nat
    BY <1>1, <1>g, Putting, StackDomain DEF TypeOK
  <2>2. ASSUME NEW n \in DOMAIN stack', n # 1 PROVE \E j \in DOMAIN stack : stack'[n] = stack[j]
    <3>1. n - 1 \in 1 .. Len(stack) /\ (n - 1) + 1 = n
      BY <2>1, <2>2
    <3> QED BY <2>1, <3>1
  <2> QED BY <1>g, <2>1, <2>2 DEF Frame, FrameNext
<1>20. Over'
  BY <1>1, <1>7, OverKept
<1>21. Stops'
  BY <1>2, <1>5, <1>6, <1>7, StopsKept
<1>22. Ended'
  <2>1. \A s \in 1 .. Len(runs) : cur' = s => cur = s /\ (Frame("end", s) => FrameNext("end", s))
    BY <1>1, <1>8
  <2> QED BY <1>2, <1>5, <1>7, <2>1, EndedKept
<1>23. Started'
  <2>1. \A s \in 1 .. Len(runs) : cur = s /\ ~Frame("end", s) /\ runs[s].started =>
             (cur' = s /\ ~FrameNext("end", s))
    BY <1>1, <1>9
  <2> QED BY <1>1, <1>2, <1>5, <1>6, <1>7, <2>1, StartedKept
<1>24. Stacked'
  <2>1. Len(runs') >= Len(runs) /\ r \in 0 .. Len(runs') /\ \A n \in 1 .. Len(runs) : runs'[n].started => runs[n].started
    BY <1>2, <1>5, <1>6
  <2> QED BY <1>1, <1>g, <2>1, StackedPushed DEF Observed
<1>25. Withdrawals'
  <2>1. DOMAIN runs' = 1 .. Len(runs)
    BY <1>5 DEF TypeOK
  <2> QED BY <1>2, <1>6, <2>1 DEF Withdrawals
<1>26. Open'
  <2>1. cur' # 0 => /\ cur' = cur /\ session' # "over" /\ (runs[cur].sent => runs'[cur].sent)
                    /\ FrameNext("prompt", cur) \/ runs'[cur].sent \/ ~Frame("prompt", cur)
    BY <1>0, <1>1, <1>2, <1>6, <1>8
  <2> QED BY <2>1, OpenKept
<1>27. Attributed'
  <2>1. SameAnswers
    BY <1>6 DEF SameAnswers
  <2> QED BY <1>1, <2>1, AttributedKept
<1>28. StopsAsked'
  BY <1>0, <1>1 DEF StopsAsked
<1>29. Closer'
  <2>1. closer'.st = "recording" /\ closer'.run = r /\ closer'.had = (r # 0 /\ runs[r].stop) /\ cur' = r
    BY <1>0, <1>1
  <2>2. ASSUME r # 0 PROVE (StopKnown(r)' => runs[r].stop) /\ (runs[r].stop => StopKnown(r)')
    <3>1. r \in 1 .. Len(runs)
      BY <1>2, <2>2
    <3>2. StopKnown(r)' => StopKnown(r)
      BY <1>6, <1>7, <3>1, KnownBefore
    <3>3. StopKnown(r) => runs[r].stop
      BY <3>1, KnownIsStop
    <3>4. runs[r].stop => StopKnown(r)
      BY <1>0, <1>1, <2>2 DEF StopsAsked
    <3>5. StopKnown(r) => StopKnown(r)'
      BY <1>6, <1>7, <3>1, KnownKept
    <3> QED BY <3>2, <3>3, <3>4, <3>5
  <2>3. StopKnown(closer.run)' <=> StopKnown(r)'
    BY <2>1 DEF StopKnown, Happened
  <2>4. StopKnown(cur)' <=> StopKnown(r)'
    BY <2>1 DEF StopKnown, Happened
  <2>5. r \in 0 .. Len(runs')
    BY <1>2, <1>5
  <2> QED BY <1>1, <2>1, <2>2, <2>3, <2>4, <2>5 DEF Closer
<1> QED BY <1>20, <1>21, <1>22, <1>23, <1>24, <1>25, <1>26, <1>27, <1>28, <1>29

LEMMA CloseRefusedKeeps ==
    ASSUME IInv, TypeOK', CloseSessionReturns, closer.outcome = "refused" PROVE IInv'
<1> USE DEF IInv
<1>0. PICK r : r = cur
  OBVIOUS
<1> DEFINE x == [runs[r] EXCEPT !.stop = closer.had]
<1>1. /\ stack = <<>> /\ stack' = stack /\ session = "closing" /\ session' = "open" /\ UNCHANGED <<cur, closed, exit>>
      /\ closer' = NoCloser /\ Says(Said("refused", 0))
      /\ IF r # 0 /\ closer.run = r THEN Becomes(r, x) ELSE runs' = runs
  BY <1>0 DEF CloseSessionReturns, Closer, Log, Says, Becomes, OfRun, RestoredStop
<1>2. r \in 0 .. Len(runs) /\ Len(runs) \in Nat /\ r \in Nat /\ DOMAIN runs = 1 .. Len(runs) /\ closer.had \in BOOLEAN
  BY <1>0 DEF TypeOK
<1>3. r # 0 => runs[r] \in RunRecords
  BY <1>2 DEF TypeOK
<1>4. r # 0 =>
        /\ x \in RunRecords /\ x.started = runs[r].started /\ x.stop = closer.had /\ x.sent = runs[r].sent
        /\ x.withdrawn = runs[r].withdrawn /\ x.answer = runs[r].answer /\ x.prompted = runs[r].prompted
  BY <1>2, <1>3 DEF RunRecords
<1> HIDE DEF x
<1>5. Len(runs') = Len(runs) /\ \A n \in 1 .. Len(runs) : runs'[n] = IF n = r /\ closer.run = r THEN x ELSE runs[n]
  <2>1. CASE r # 0 /\ closer.run = r
    BY <1>1, <1>4, <2>1, Becoming
  <2>2. CASE ~(r # 0 /\ closer.run = r)
    BY <1>1, <1>2, <2>2
  <2> QED BY <2>1, <2>2
<1>6. \A n \in 1 .. Len(runs) :
        /\ runs'[n].started = runs[n].started
        /\ runs'[n].withdrawn = runs[n].withdrawn /\ runs'[n].sent = runs[n].sent
        /\ runs'[n].prompted = runs[n].prompted /\ runs'[n].answer = runs[n].answer
        /\ runs'[n].stop = IF n = r /\ closer.run = r THEN closer.had ELSE runs[n].stop
  BY <1>4, <1>5
<1>7. LogGrows /\ NewEntries = {Len(log) + 1} /\ log'[Len(log) + 1].k = "refused"
  <2>1. "refused" \in Words
    BY DEF Words
  <2> QED BY <1>1, <2>1, SaidType, OneEntry
<1>8. \A f, s : Frame(f, s) <=> FrameNext(f, s)
  BY <1>1 DEF Frame, FrameNext
<1>9. ASSUME NEW n \in 1 .. Len(runs), StopKnown(n), runs[n].stop PROVE runs'[n].stop
  BY <1>1, <1>2, <1>6, <1>9 DEF Closer
<1>20. Over'
  BY <1>1, <1>7, OverKept
<1>21. Stops'
  <2>1. \A n \in 1 .. Len(runs) : Happened("stop", n) /\ runs[n].stop => runs'[n].stop
    BY <1>9 DEF StopKnown
  <2> QED BY <1>2, <1>5, <1>6, <1>7, <2>1, StopsKept
<1>22. Ended'
  <2>1. \A s \in 1 .. Len(runs) : cur' = s => cur = s /\ (Frame("end", s) => FrameNext("end", s))
    BY <1>1, <1>8
  <2> QED BY <1>2, <1>5, <1>7, <2>1, EndedKept
<1>23. Started'
  <2>1. \A s \in 1 .. Len(runs) : cur = s /\ ~Frame("end", s) /\ runs[s].started =>
             (cur' = s /\ ~FrameNext("end", s))
    BY <1>1, <1>8
  <2> QED BY <1>1, <1>2, <1>5, <1>6, <1>7, <2>1, StartedKept
<1>24. Stacked'
  BY <1>1, <1>2, <1>5, <1>6, StackedSame
<1>25. Withdrawals'
  <2>1. DOMAIN runs' = 1 .. Len(runs)
    BY <1>5 DEF TypeOK
  <2>2. \A n \in 1 .. Len(runs) : runs[n].withdrawn => StopKnown(n) /\ runs[n].stop /\ ~runs[n].sent
    BY <1>2 DEF Withdrawals, StopKnown
  <2> QED BY <1>6, <1>9, <2>1, <2>2 DEF Withdrawals
<1>26. Open'
  <2>1. cur' # 0 => /\ cur' = cur /\ session' # "over" /\ (runs[cur].sent => runs'[cur].sent)
                    /\ FrameNext("prompt", cur) \/ runs'[cur].sent \/ ~Frame("prompt", cur)
    BY <1>0, <1>1, <1>2, <1>6, <1>8
  <2> QED BY <2>1, OpenKept
<1>27. Attributed'
  <2>1. SameAnswers
    BY <1>6 DEF SameAnswers
  <2> QED BY <1>1, <2>1, AttributedKept
<1>28. StopsAsked'
  <2>1. cur' = r
    BY <1>0, <1>1
  <2>2. ASSUME r # 0, runs'[r].stop PROVE StopKnown(r)'
    <3>1. r \in 1 .. Len(runs)
      BY <1>2, <2>2
    <3>2. StopKnown(r)
      <4>1. CASE closer.run = r
        BY <1>0, <1>1, <1>6, <2>2, <3>1, <4>1 DEF Closer
      <4>2. CASE closer.run # r
        BY <1>0, <1>1, <1>6, <2>2, <3>1, <4>2 DEF StopsAsked
      <4> QED BY <4>1, <4>2
    <3> QED BY <1>6, <1>7, <3>1, <3>2, KnownKept
  <2>3. StopKnown(cur)' <=> StopKnown(r)'
    BY <2>1 DEF StopKnown, Happened
  <2> QED BY <2>1, <2>2, <2>3 DEF StopsAsked
<1>29. Closer'
  BY <1>1, <1>2, <1>5 DEF Closer, NoCloser
<1> QED BY <1>20, <1>21, <1>22, <1>23, <1>24, <1>25, <1>26, <1>27, <1>28, <1>29

LEMMA CloseEndsKeeps ==
    ASSUME IInv, TypeOK', CloseSessionReturns, closer.outcome # "refused" PROVE IInv'
<1> USE DEF IInv
<1>1. /\ stack' = stack /\ session = "closing" /\ session' = "over" /\ cur' = 0 /\ UNCHANGED <<closed, exit>>
      /\ closer' = NoCloser /\ Says(Said("over", 0)) /\ runs' = Closed(runs, cur)
  BY DEF CloseSessionReturns, Closer, Log, Says
<1>2. cur \in 0 .. Len(runs) /\ Len(runs) \in Nat
  BY DEF TypeOK
<1>3. SameRuns
  BY <1>1, <1>2, ClosedRuns
<1>4. Len(runs') = Len(runs) /\ \A n \in 1 .. Len(runs) : Same(n)
  BY <1>3 DEF SameRuns
<1>5. LogGrows /\ NewEntries = {Len(log) + 1} /\ log'[Len(log) + 1].k = "over"
  <2>1. "over" \in Words
    BY DEF Words
  <2> QED BY <1>1, <2>1, SaidType, OneEntry
<1>20. Over'
  BY <1>1, <1>5, OverKept
<1>21. Stops'
  BY <1>2, <1>4, <1>5, StopsKept DEF Same
<1>22. Ended'
  BY <1>1, <1>2, <1>4, <1>5, EndedKept
<1>23. Started'
  BY <1>1, <1>2, <1>4, <1>5, StartedKept DEF Same
<1>24. Stacked'
  BY <1>1, <1>2, <1>4, StackedSame DEF Same
<1>25. Withdrawals'
  BY <1>3, WithdrawalsKept
<1>26. Open' /\ Attributed' /\ StopsAsked'
  BY <1>1 DEF Open, Attributed, StopsAsked
<1>29. Closer'
  BY <1>1, <1>2, <1>4 DEF Closer, NoCloser
<1> QED BY <1>20, <1>21, <1>22, <1>23, <1>24, <1>25, <1>26, <1>29

LEMMA SameShift == ASSUME NEW a \in Int, NEW b \in Int, NEW e \in Int, a + e = b + e PROVE a = b
  OBVIOUS

LEMMA CallbacksKept ==
    ASSUME Callbacks, exit => exit', closer.st = "recording" => closer'.st = "recording",
           NEW d \in Int, DOMAIN stack' \subseteq Int,
           \A i \in DOMAIN stack' : \/ i + d \in DOMAIN stack /\ stack'[i] = stack[i + d]
                                    \/ stack'[i].f \notin {"exit", "close-session"}
                                    \/ stack'[i].f = "exit" /\ exit'
    PROVE  Callbacks'
<1>1. ASSUME NEW i \in DOMAIN stack', stack'[i].f = "exit" PROVE exit'
  BY <1>1 DEF Callbacks
<1>2. ASSUME NEW i \in DOMAIN stack', stack'[i].f = "close-session"
      PROVE  i + d \in DOMAIN stack /\ stack[i + d].f = "close-session" /\ closer.st = "recording"
  BY <1>2 DEF Callbacks
<1>3. ASSUME NEW i \in DOMAIN stack', stack'[i].f = "close-session",
             NEW j \in DOMAIN stack', stack'[j].f = "close-session"
      PROVE  j = i
  <2>1. i + d \in DOMAIN stack /\ stack[i + d].f = "close-session"
    BY <1>2, <1>3
  <2>2. j + d \in DOMAIN stack /\ stack[j + d].f = "close-session"
    BY <1>2, <1>3
  <2>3. j + d = i + d
    BY <2>1, <2>2 DEF Callbacks
  <2>4. i \in Int /\ j \in Int
    OBVIOUS
  <2> QED BY <2>3, <2>4, SameShift
<1> QED BY <1>1, <1>2, <1>3 DEF Callbacks

LEMMA CallbacksStay ==
    ASSUME TypeOK, Callbacks, stack' = stack, exit => exit',
           stack = <<>> \/ (closer.st = "recording" => closer'.st = "recording")
    PROVE  Callbacks'
<1>1. CASE stack = <<>>
  BY <1>1 DEF Callbacks
<1>2. CASE closer.st = "recording" => closer'.st = "recording"
  <2>1. DOMAIN stack' \subseteq Int /\ \A i \in DOMAIN stack' : i + 0 = i
    BY DEF TypeOK
  <2> QED BY <1>2, <2>1, CallbacksKept
<1> QED BY <1>1, <1>2

LEMMA CallbacksTaken ==
    ASSUME TypeOK, TypeOK', Callbacks, Takes, exit => exit', closer' = closer PROVE Callbacks'
<1>1. /\ \A n \in 1 .. Len(stack) - 1 : stack'[n] = stack[n + 1]
      /\ DOMAIN stack' = 1 .. Len(stack) - 1 /\ DOMAIN stack = 1 .. Len(stack) /\ Len(stack) \in Nat
  BY Taking, StackDomain DEF TypeOK
<1>2. \A i \in DOMAIN stack' : i + 1 \in DOMAIN stack /\ stack'[i] = stack[i + 1]
  BY <1>1
<1> QED BY <1>1, <1>2, CallbacksKept

LEMMA CallbacksPut ==
    ASSUME TypeOK, TypeOK', Callbacks, NEW g \in Frames, Puts(g), exit => exit', closer' = closer,
           g.f # "close-session", g.f = "exit" => exit'
    PROVE  Callbacks'
<1>1. /\ \A n \in 1 .. Len(stack) : stack'[n + 1] = stack[n]
      /\ stack'[1] = g /\ DOMAIN stack' = 1 .. Len(stack) + 1
      /\ DOMAIN stack = 1 .. Len(stack) /\ Len(stack) \in Nat
  BY Putting, StackDomain DEF TypeOK
<1>2. ASSUME NEW i \in DOMAIN stack', i # 1 PROVE i + (-1) \in DOMAIN stack /\ stack'[i] = stack[i + (-1)]
  <2>1. i - 1 \in 1 .. Len(stack) /\ (i - 1) + 1 = i /\ i + (-1) = i - 1
    BY <1>1, <1>2
  <2> QED BY <1>1, <2>1
<1>3. DOMAIN stack' \subseteq Int /\ -1 \in Int
  BY <1>1
<1> QED BY <1>1, <1>2, <1>3, CallbacksKept

LEMMA CallbacksNext == ASSUME IInv, Callbacks, TypeOK', [Next]_vars PROVE Callbacks'
<1> USE DEF IInv
<1>0. Len(runs) \in Nat /\ cur \in Nat
  BY DEF TypeOK
<1>p. ASSUME NEW f \in {"prompt", "running", "idle", "stopped", "cancel", "exit", "decided"}, NEW r \in Nat,
             Puts([f |-> f, run |-> r]), exit => exit', closer' = closer, f = "exit" => exit'
      PROVE  Callbacks'
  <2> DEFINE g == [f |-> f, run |-> r]
  <2>1. g \in Frames /\ g.f = f
    BY DEF Frames, Agents, Observed
  <2> HIDE DEF g
  <2>2. Puts(g)
    BY <1>p DEF g
  <2> QED BY <1>p, <2>1, <2>2, CallbacksPut
<1>1. CASE Prompt
  <2>1. Puts([f |-> "prompt", run |-> Len(runs) + 1]) /\ UNCHANGED <<exit, closer>>
    BY <1>1 DEF Prompt, Records, Puts, endVars
  <2>2. Len(runs) + 1 \in Nat
    BY <1>0
  <2> QED BY <1>p, <2>1, <2>2
<1>2. CASE PromptGoesOn \/ EndRun \/ CancelGoesOn \/ ExitGoesOn
  <2>1. Takes /\ UNCHANGED <<exit, closer>>
    BY <1>2 DEF PromptGoesOn, EndRun, CancelGoesOn, ExitGoesOn, Takes, endVars
  <2> QED BY <2>1, CallbacksTaken
<1>q. ASSUME UNCHANGED <<stack, closer, exit>> PROVE Callbacks'
  BY <1>q, CallbacksStay
<1>3. ASSUME \/ \E r \in DOMAIN runs : PromptAnswered(r) \/ PromptFails(r) \/ PromptReturns(r)
             \/ \E q \in DOMAIN perms : OperatorAnswers(q)
             \/ CompletionTimesOut \/ PermissionAsked \/ UNCHANGED vars
      PROVE  Callbacks'
  <2>1. ASSUME NEW r \in DOMAIN runs, PromptAnswered(r) \/ PromptFails(r) \/ PromptReturns(r)
        PROVE  UNCHANGED <<stack, closer, exit>>
    BY <2>1 DEF PromptAnswered, PromptFails, PromptReturns, endVars
  <2>2. ASSUME NEW q \in DOMAIN perms, OperatorAnswers(q) PROVE UNCHANGED <<stack, closer, exit>>
    BY <2>2 DEF OperatorAnswers, endVars
  <2>3. ASSUME CompletionTimesOut \/ PermissionAsked \/ UNCHANGED vars PROVE UNCHANGED <<stack, closer, exit>>
    BY <2>3 DEF CompletionTimesOut, PermissionAsked, vars, endVars
  <2> QED BY <1>3, <1>q, <2>1, <2>2, <2>3
<1>4. ASSUME NEW state \in {"running", "idle", "stopped"}, AgentReports(state) PROVE Callbacks'
  <2>1. CASE Late
    BY <1>4, <2>1, CallbacksStay DEF AgentReports, endVars
  <2>2. CASE ~Late
    <3>1. PICK r \in Nat : Puts([f |-> state, run |-> r])
      BY <1>0, <1>4, <2>2 DEF AgentReports, Records, Puts
    <3>2. UNCHANGED <<exit, closer>>
      BY <1>4 DEF AgentReports, endVars
    <3> QED BY <1>p, <3>1, <3>2
  <2> QED BY <2>1, <2>2
<1>5. CASE StateGoesOn
  <2>1. UNCHANGED <<exit, closer>>
    BY <1>5 DEF StateGoesOn, endVars
  <2>2. CASE stack' = Tail(stack)
    <3>1. Takes
      BY <1>5, <2>2 DEF StateGoesOn, Takes
    <3> QED BY <2>1, <3>1, CallbacksTaken
  <2>3. CASE stack' = <<[f |-> "end", run |-> Head(stack).run]>> \o Tail(stack)
    <3>1. stack \in Seq(Frames) /\ stack # <<>> /\ Len(stack) = 1 /\ Head(stack).run \in Nat
      BY <1>5, <1>0, ReportIsAlone DEF TypeOK, StateGoesOn
    <3>2. Tail(stack) \in Seq(Frames) /\ Len(Tail(stack)) = 0
      BY <3>1, Popped
    <3> DEFINE g == [f |-> "end", run |-> Head(stack).run]
    <3>3. g \in Frames /\ g.f = "end"
      BY <3>1 DEF Frames, Agents
    <3>4. stack' = <<g>> \o Tail(stack)
      BY <2>3
    <3> HIDE DEF g
    <3>5. stack' \in Seq(Frames) /\ Len(stack') = 1 /\ stack'[1] = g
      BY <3>2, <3>3, <3>4, Pushed
    <3> QED BY <3>3, <3>5 DEF Callbacks
  <2> QED BY <1>5, <2>2, <2>3 DEF StateGoesOn
<1>6. CASE Cancel
  <2>1. UNCHANGED <<exit, closer>> /\ (Puts([f |-> "cancel", run |-> cur]) \/ stack' = stack)
    BY <1>6 DEF Cancel, Records, Puts, endVars
  <2>2. CASE Puts([f |-> "cancel", run |-> cur])
    BY <1>0, <1>p, <2>1, <2>2
  <2>3. CASE stack' = stack
    BY <2>1, <2>3, CallbacksStay
  <2> QED BY <2>1, <2>2, <2>3
<1>7. CASE CloseSession
  <2> DEFINE g == [f |-> "close-session", run |-> cur]
  <2>1. Puts(g) /\ exit' = exit /\ closer'.st = "recording" /\ closer.st = "no"
    BY <1>7 DEF CloseSession, Usable, Records, Puts, Closer
  <2>2. g \in Frames /\ g.f = "close-session"
    BY <1>0 DEF Frames, Observed
  <2> HIDE DEF g
  <2>3. /\ \A n \in 1 .. Len(stack) : stack'[n + 1] = stack[n]
        /\ stack'[1] = g /\ DOMAIN stack' = 1 .. Len(stack) + 1
        /\ DOMAIN stack = 1 .. Len(stack) /\ Len(stack) \in Nat
    BY <2>1, <2>2, Putting, StackDomain DEF TypeOK
  <2>4. ASSUME NEW i \in DOMAIN stack', i # 1
        PROVE  stack'[i].f # "close-session" /\ (stack'[i].f = "exit" => exit')
    <3>1. i - 1 \in 1 .. Len(stack) /\ (i - 1) + 1 = i
      BY <2>3, <2>4
    <3>2. PICK j \in DOMAIN stack : stack'[i] = stack[j]
      BY <2>3, <3>1
    <3> QED BY <2>1, <3>2 DEF Callbacks
  <2> QED BY <2>1, <2>2, <2>3, <2>4 DEF Callbacks
<1>8. CASE CloseSessionGoesOn
  <2>1. Takes /\ exit' = exit /\ Head(stack).f = "close-session"
    BY <1>8 DEF CloseSessionGoesOn, Takes
  <2>2. /\ \A n \in 1 .. Len(stack) - 1 : stack'[n] = stack[n + 1]
        /\ DOMAIN stack' = 1 .. Len(stack) - 1 /\ DOMAIN stack = 1 .. Len(stack) /\ Len(stack) \in Nat
        /\ stack[1] = Head(stack)
    BY <2>1, Taking, StackDomain DEF TypeOK
  <2>3. ASSUME NEW i \in DOMAIN stack' PROVE stack'[i].f # "close-session" /\ (stack'[i].f = "exit" => exit')
    <3>1. i + 1 \in DOMAIN stack /\ stack'[i] = stack[i + 1] /\ i + 1 # 1 /\ 1 \in DOMAIN stack
      BY <2>2
    <3> QED BY <2>1, <2>2, <3>1 DEF Callbacks
  <2> QED BY <2>3 DEF Callbacks
<1>9. CASE CloseSessionAnswered \/ CloseSessionFails
  BY <1>9, CallbacksStay DEF CloseSessionAnswered, CloseSessionFails
<1>10. CASE CloseSessionReturns
  BY <1>10, CallbacksStay DEF CloseSessionReturns
<1>11. CASE Close \/ CloseReturns \/ ConnectionCloses \/ ConnectionFaults
  BY <1>11, CallbacksStay DEF Close, CloseReturns, ConnectionCloses, ConnectionFaults
<1>12. CASE ExitSeen
  <2>1. Puts([f |-> "exit", run |-> 0]) /\ exit' /\ closer' = closer
    BY <1>12 DEF ExitSeen, Records, Puts
  <2>2. 0 \in Nat
    OBVIOUS
  <2> QED BY <1>p, <2>1, <2>2
<1>13. ASSUME NEW q \in DOMAIN perms, PermissionHandled(q) \/ PermissionDecided(q) PROVE Callbacks'
  <2>1. UNCHANGED <<exit, closer>> /\ (stack' = stack \/ Puts([f |-> "decided", run |-> 0]))
    BY <1>13, WhatIsHandled DEF Told, Decided, Asks, Records, Puts, endVars
  <2>2. 0 \in Nat
    OBVIOUS
  <2> QED BY <1>p, <1>q, <2>1, <2>2
<1>14. ASSUME NEW q \in DOMAIN perms, PermissionGoesOn(q) PROVE Callbacks'
  <2>1. Takes /\ UNCHANGED <<exit, closer>>
    BY <1>14 DEF PermissionGoesOn, Takes, endVars
  <2> QED BY <2>1, CallbacksTaken
<1> QED
  BY <1>1, <1>2, <1>3, <1>4, <1>5, <1>6, <1>7, <1>8, <1>9, <1>10, <1>11, <1>12, <1>13, <1>14
     DEF Next, Calls, Agent, Runs, Fails

LEMMA InvNext == ASSUME IInv, Callbacks, [Next]_vars PROVE IInv'
<1>0. TypeOK'
  BY TypeNext DEF IInv
<1>1. CASE Prompt
  BY <1>0, <1>1, PromptKeeps
<1>2. CASE PromptGoesOn
  BY <1>0, <1>2, PromptWithdrawnKeeps, PromptSentKeeps
<1>3. ASSUME NEW r \in DOMAIN runs, PromptAnswered(r) \/ PromptFails(r) \/ PromptReturns(r) PROVE IInv'
  BY <1>0, <1>3, PromptAnsweredKeeps, PromptFailsKeeps, PromptReturnsKeeps
<1>4. CASE CompletionTimesOut
  BY <1>0, <1>4, CompletionTimesOutKeeps
<1>5. ASSUME NEW state \in {"running", "idle", "stopped"}, AgentReports(state) PROVE IInv'
  BY <1>0, <1>5, AgentReportsKeeps
<1>6. CASE StateGoesOn
  BY <1>0, <1>6, StateGoesOnKeeps
<1>7. CASE EndRun
  BY <1>0, <1>7, EndRunKeeps
<1>8. CASE Cancel
  BY <1>0, <1>8, CancelKeeps
<1>9. CASE CancelGoesOn
  BY <1>0, <1>9, CancelGoesOnKeeps
<1>10. CASE PermissionAsked
  BY <1>0, <1>10, StillStep DEF PermissionAsked, endVars, SameCloser
<1>11. ASSUME NEW q \in DOMAIN perms,
              PermissionHandled(q) \/ OperatorAnswers(q) \/ PermissionDecided(q) \/ PermissionGoesOn(q)
       PROVE  IInv'
  <2>1. CASE OperatorAnswers(q)
    BY <1>0, <2>1, StillStep DEF OperatorAnswers, endVars, SameCloser
  <2> QED BY <1>0, <1>11, <2>1, PermissionHandledKeeps, PermissionGoesOnKeeps
<1>12. CASE CloseSession
  BY <1>0, <1>12, CloseSessionKeeps
<1>13. CASE CloseSessionGoesOn
  BY <1>0, <1>13, CloseSessionGoesOnKeeps
<1>14. CASE CloseSessionAnswered \/ CloseSessionFails
  <2>1. closer' \in [st : {"woken"}, run : {closer.run}, had : {closer.had}, outcome : {closer'.outcome}]
        /\ closer.st = "sent" /\ UNCHANGED <<session, stack, log, runs, cur, exit, closed>>
    BY <1>14 DEF CloseSessionAnswered, CloseSessionFails, IInv, TypeOK
  <2>2. SameCloser
    BY <2>1 DEF SameCloser
  <2> QED BY <1>0, <2>1, <2>2, StillStep
<1>15. CASE CloseSessionReturns
  BY <1>0, <1>15, CloseRefusedKeeps, CloseEndsKeeps
<1>16. CASE Close \/ ConnectionFaults
  BY <1>0, <1>16, ClosesKeeps DEF Close, ConnectionFaults
<1>17. CASE CloseReturns
  BY <1>0, <1>17, CloseReturnsKeeps
<1>18. CASE ConnectionCloses
  BY <1>0, <1>18, StillStep DEF ConnectionCloses, SameCloser
<1>19. CASE ExitSeen
  BY <1>0, <1>19, ExitSeenKeeps
<1>20. CASE ExitGoesOn
  BY <1>0, <1>20, ExitGoesOnKeeps
<1>21. CASE UNCHANGED vars
  BY <1>0, <1>21, StillStep DEF vars, endVars, SameCloser
<1> QED
  BY <1>1, <1>2, <1>3, <1>4, <1>5, <1>6, <1>7, <1>8, <1>9, <1>10, <1>11, <1>12, <1>13, <1>14, <1>15,
     <1>16, <1>17, <1>18, <1>19, <1>20, <1>21
     DEF Next, Calls, Agent, Runs, Fails

(* One decision at a time: what may happen between its record and its       *)
(* answer.                                                                 *)
PermsKept ==
    \A q \in DOMAIN perms' : perms'[q].st = "deciding" =>
        /\ q \in DOMAIN perms /\ perms[q].st = "deciding"
        /\ perms'[q].told = perms[q].told /\ perms'[q].run = perms[q].run

LEMMA DecisionsKept ==
    ASSUME Decisions, PermsKept, Bottom => Bottom', Bottom /\ Approving => cur' = cur /\ Approving'
    PROVE  Decisions'
<1> SUFFICES ASSUME NEW q \in DOMAIN perms', perms'[q].st = "deciding"
             PROVE  /\ \A p \in DOMAIN perms' : perms'[p].st = "deciding" => p = q
                    /\ Bottom'
                    /\ perms'[q].told = "approved" => cur' = perms'[q].run /\ Approving'
  BY DEF Decisions
<1>1. q \in DOMAIN perms /\ perms[q].st = "deciding" /\ perms'[q].told = perms[q].told /\ perms'[q].run = perms[q].run
  BY DEF PermsKept
<1>2. Bottom /\ (perms[q].told = "approved" => cur = perms[q].run /\ Approving)
  BY <1>1 DEF Decisions
<1>3. ASSUME NEW p \in DOMAIN perms', perms'[p].st = "deciding" PROVE p = q
  BY <1>1, <1>3 DEF PermsKept, Decisions
<1> QED BY <1>1, <1>2, <1>3

LEMMA SettlingKept == ASSUME perms' = SettlePermissions(perms) \/ perms' = perms PROVE PermsKept
<1>1. CASE perms' = SettlePermissions(perms)
  <2>1. DOMAIN perms' = DOMAIN perms
    BY <1>1 DEF SettlePermissions
  <2>2. ASSUME NEW q \in DOMAIN perms, perms'[q].st = "deciding" PROVE perms'[q] = perms[q]
    <3>1. perms'[q] = IF perms[q].st = "waiting" THEN [perms[q] EXCEPT !.st = "woken", !.answer = "adapter"]
                      ELSE perms[q]
      BY <1>1 DEF SettlePermissions
    <3>2. ASSUME perms[q].st = "waiting" PROVE perms'[q].st = "woken"
      BY <3>1, <3>2
    <3> QED BY <2>2, <3>1, <3>2
  <2> QED BY <2>1, <2>2 DEF PermsKept
<1>2. CASE perms' = perms
  BY <1>2 DEF PermsKept
<1> QED BY <1>1, <1>2

(* One permission becomes another that is not being decided.               *)
LEMMA OtherKept ==
    ASSUME TypeOK, NEW q \in DOMAIN perms, NEW x, perms' = [perms EXCEPT ![q] = x], x.st # "deciding"
    PROVE  PermsKept
<1>1. DOMAIN perms' = DOMAIN perms /\ \A p \in DOMAIN perms : perms'[p] = IF p = q THEN x ELSE perms[p]
  BY DEF TypeOK
<1> QED BY <1>1 DEF PermsKept

LEMMA InsideKept ==
    ASSUME TypeOK, NEW s, DecidedInside(s),
           log' = log \/ \E kk \in Nested, r \in Nat : Says(Said(kk, r))
    PROVE  DecidedInside(s)'
<1>1. PICK d \in DOMAIN log : log[d] = Said("approves", s) /\ \A m \in d + 1 .. Len(log) : log[m].k \in Nested
  BY DEF DecidedInside
<1>2. CASE log' = log
  BY <1>1, <1>2 DEF DecidedInside
<1>3. CASE \E kk \in Nested, r \in Nat : Says(Said(kk, r))
  <2>1. PICK kk \in Nested, r \in Nat : Says(Said(kk, r))
    BY <1>3
  <2>2. kk \in Words
    BY DEF Nested, Words
  <2>3. Said(kk, r) \in Entries /\ Said(kk, r).k = kk
    BY <2>2, SaidType
  <2>4. /\ Len(log') = Len(log) + 1 /\ log'[Len(log) + 1] = Said(kk, r)
        /\ \A n \in 1 .. Len(log) : log'[n] = log[n]
        /\ DOMAIN log = 1 .. Len(log) /\ Len(log) \in Nat /\ DOMAIN log' = 1 .. Len(log')
    BY <2>1, <2>3, Saying, LogDomain DEF TypeOK
  <2>5. ASSUME NEW m \in d + 1 .. Len(log') PROVE log'[m].k \in Nested
    <3>1. CASE m = Len(log) + 1
      BY <2>3, <2>4, <3>1
    <3>2. CASE m # Len(log) + 1
      <4>1. m \in d + 1 .. Len(log) /\ m \in 1 .. Len(log)
        BY <2>4, <3>2
      <4> QED BY <1>1, <2>4, <4>1
    <3> QED BY <3>1, <3>2
  <2>6. d \in DOMAIN log' /\ log'[d] = log[d]
    BY <2>4
  <2> QED BY <1>1, <2>5, <2>6 DEF DecidedInside
<1> QED BY <1>2, <1>3

LEMMA NoBottom ==
    ASSUME TypeOK, Decisions, PermsKept, ~Bottom PROVE Decisions'
BY DecisionsKept

(* An observer's call begins or goes on above the decision.                *)
LEMMA DecisionsPut ==
    ASSUME TypeOK, TypeOK', Decisions, PermsKept, cur' = cur, NEW g \in Frames, Puts(g),
           Approving => g.f # "prompt" /\ (log' = log \/ \E kk \in Nested, r \in Nat : Says(Said(kk, r)))
    PROVE  Decisions'
<1>1. /\ \A n \in 1 .. Len(stack) : stack'[n + 1] = stack[n]
      /\ stack'[1] = g /\ Len(stack') = Len(stack) + 1 /\ DOMAIN stack' = 1 .. Len(stack) + 1
      /\ DOMAIN stack = 1 .. Len(stack) /\ Len(stack) \in Nat
  BY Putting, StackDomain DEF TypeOK
<1>2. Bottom => Bottom'
  <2> SUFFICES ASSUME Bottom PROVE Bottom'
    OBVIOUS
  <2>1. Len(stack) # 0
    BY HeadIsFirst, <1>1 DEF Bottom
  <2>2. stack'[Len(stack')] = stack[Len(stack)] /\ stack' # <<>>
    BY <1>1, <2>1
  <2> QED BY <2>2 DEF Bottom
<1>3. Approving => Approving'
  <2> SUFFICES ASSUME Approving PROVE Approving'
    OBVIOUS
  <2>1. ASSUME NEW i \in DOMAIN stack' PROVE stack'[i].f # "prompt"
    <3>1. CASE i = 1
      BY <1>1, <3>1
    <3>2. CASE i # 1
      <4>1. i - 1 \in 1 .. Len(stack) /\ (i - 1) + 1 = i
        BY <1>1, <3>2
      <4>2. PICK j \in DOMAIN stack : stack'[i] = stack[j]
        BY <1>1, <4>1
      <4> QED BY <4>2 DEF Approving
    <3> QED BY <3>1, <3>2
  <2>2. DecidedInside(cur)'
    BY InsideKept DEF Approving
  <2> QED BY <2>1, <2>2 DEF Approving
<1> QED BY <1>2, <1>3, DecisionsKept

LEMMA DecisionsTaken ==
    ASSUME TypeOK, TypeOK', Decisions, PermsKept, Takes, Head(stack).f # "decided",
           Approving => cur' = cur /\ log' = log
    PROVE  Decisions'
<1>1. /\ \A n \in 1 .. Len(stack) - 1 : stack'[n] = stack[n + 1] /\ stack[1] = Head(stack)
      /\ Len(stack') = Len(stack) - 1 /\ DOMAIN stack' = 1 .. Len(stack) - 1
      /\ DOMAIN stack = 1 .. Len(stack) /\ Len(stack) \in Nat \ {0}
  BY Taking, StackDomain DEF TypeOK
<1>2. Bottom => Bottom'
  <2> SUFFICES ASSUME Bottom PROVE Bottom'
    OBVIOUS
  <2>1. Len(stack) # 1
    BY Taking DEF Bottom
  <2>2. stack'[Len(stack')] = stack[Len(stack)] /\ stack' # <<>>
    BY <1>1, <2>1
  <2> QED BY <2>2 DEF Bottom
<1>3. Approving => Approving'
  <2> SUFFICES ASSUME Approving PROVE Approving'
    OBVIOUS
  <2>1. \A i \in DOMAIN stack' : i + 1 \in DOMAIN stack /\ stack'[i] = stack[i + 1]
    BY <1>1
  <2>2. \A i \in DOMAIN stack' : stack'[i].f # "prompt"
    BY <2>1 DEF Approving
  <2>3. DecidedInside(cur)'
    BY InsideKept DEF Approving
  <2> QED BY <2>2, <2>3 DEF Approving
<1> QED BY <1>2, <1>3, DecisionsKept

(* The stack stays as it is.                                               *)
LEMMA DecisionsStay ==
    ASSUME TypeOK, Decisions, PermsKept, stack' = stack,
           Approving => cur' = cur /\ (log' = log \/ \E kk \in Nested, r \in Nat : Says(Said(kk, r)))
    PROVE  Decisions'
<1>1. Bottom => Bottom'
  BY DEF Bottom
<1>2. Approving => cur' = cur /\ Approving'
  BY InsideKept DEF Approving
<1> QED BY <1>1, <1>2, DecisionsKept

LEMMA DecidedDecides ==
    ASSUME IInv, TypeOK', Decisions, NEW q \in DOMAIN perms, NEW r \in Nat, NEW what \in Outcomes,
           Decided(q, r, what), what = "approved" => CanApprove(r), stack = <<>>, cur' = cur
    PROVE  Decisions'
<1> DEFINE g == [f |-> "decided", run |-> 0]
           x == [perms[q] EXCEPT !.st = "deciding", !.run = r, !.told = what]
<1>1. Puts(g) /\ perms' = [perms EXCEPT ![q] = x]
  BY DEF Decided, Records, Puts
<1>2. g \in Frames /\ g.f = "decided"
  BY DEF Frames, Agents
<1>3. x.st = "deciding" /\ x.run = r /\ x.told = what
  <2>1. perms[q] \in PermissionRecords
    BY DEF IInv, TypeOK
  <2> QED BY <2>1 DEF PermissionRecords
<1> HIDE DEF g, x
<1>4. DOMAIN stack' = {1} /\ stack'[1] = g /\ Len(stack') = 1 /\ stack' # <<>>
  <2>1. Len(stack) = 0
    OBVIOUS
  <2> QED BY <1>1, <1>2, <2>1, Putting DEF IInv, TypeOK
<1>5. DOMAIN perms' = DOMAIN perms /\ \A p \in DOMAIN perms : perms'[p] = IF p = q THEN x ELSE perms[p]
  BY <1>1 DEF IInv, TypeOK
<1>6. \A p \in DOMAIN perms : perms[p].st # "deciding"
  BY DEF Decisions, Bottom
<1>7. Bottom'
  BY <1>2, <1>4 DEF Bottom
<1>8. ASSUME what = "approved" PROVE cur' = r /\ Approving'
  <2>1. Says(Said("approves", r)) /\ "approves" \in Words
    BY <1>8 DEF Decided, Log, Says, Words
  <2>2. Said("approves", r) \in Entries
    BY <2>1, SaidType
  <2>3. Len(log') = Len(log) + 1 /\ log'[Len(log) + 1] = Said("approves", r) /\ Len(log) \in Nat
        /\ DOMAIN log' = 1 .. Len(log')
    BY <2>1, <2>2, Saying DEF IInv, TypeOK
  <2>4. DecidedInside(r)'
    <3>1. Len(log) + 1 \in DOMAIN log' /\ (Len(log) + 1) + 1 .. Len(log') = {}
      BY <2>3
    <3> QED BY <2>3, <3>1 DEF DecidedInside
  <2>5. cur = r /\ r # 0
    BY <1>8 DEF CanApprove
  <2>6. \A i \in DOMAIN stack' : stack'[i].f # "prompt"
    BY <1>2, <1>4
  <2>7. Approving'
    BY <2>4, <2>5, <2>6 DEF Approving
  <2> QED BY <2>5, <2>7
<1> QED BY <1>3, <1>5, <1>6, <1>7, <1>8 DEF Decisions

LEMMA DecisionsNext == ASSUME IInv, Decisions, TypeOK', [Next]_vars PROVE Decisions'
<1>0. TypeOK /\ cur \in Nat
  BY DEF IInv, TypeOK
<1>e. stack = <<>> => ~Bottom
  BY DEF Bottom
<1>1. CASE Prompt
  <2> DEFINE g == [f |-> "prompt", run |-> Len(runs) + 1]
  <2>1. Puts(g) /\ perms' = perms /\ cur = 0
    BY <1>1 DEF Prompt, Records, Puts
  <2>2. g \in Frames /\ ~Approving
    <3>1. Len(runs) + 1 \in Nat
      BY DEF IInv, TypeOK
    <3> QED BY <2>1, <3>1 DEF Frames, Observed, Approving
  <2> HIDE DEF g
  <2>3. Bottom => Bottom'
    <3>1. /\ \A n \in 1 .. Len(stack) : stack'[n + 1] = stack[n]
          /\ Len(stack') = Len(stack) + 1 /\ Len(stack) \in Nat /\ (stack # <<>> => 1 \in 1 .. Len(stack))
      BY <1>0, <2>1, <2>2, Putting, HeadIsFirst, StackDomain
    <3>2. ASSUME stack # <<>> PROVE stack'[Len(stack')] = stack[Len(stack)] /\ stack' # <<>>
      BY <3>1, <3>2
    <3> QED BY <3>2 DEF Bottom
  <2>4. PermsKept
    BY <2>1, SettlingKept
  <2> QED BY <2>2, <2>3, <2>4, DecisionsKept
<1>2. CASE PromptGoesOn
  <2>1. Takes /\ Head(stack).f = "prompt" /\ perms' = perms
    BY <1>2 DEF PromptGoesOn, Takes
  <2>2. ~Approving
    BY <1>0, <2>1, HeadIsFirst DEF Approving, Takes
  <2>3. PermsKept
    BY <2>1, SettlingKept
  <2> QED BY <1>0, <2>1, <2>2, <2>3, DecisionsTaken
<1>3. CASE StateGoesOn \/ EndRun \/ ExitGoesOn
  <2>1. stack # <<>> /\ Head(stack).f \in Agents \ {"decided"} /\ perms' = perms
    BY <1>3 DEF StateGoesOn, EndRun, ExitGoesOn, Agents
  <2>2. Len(stack) = 1 /\ stack[1] = Head(stack)
    BY <2>1, Alone DEF Agents, Observed
  <2>3. ~Bottom
    BY <2>1, <2>2 DEF Bottom
  <2> QED BY <1>0, <2>1, <2>3, NoBottom, SettlingKept
<1>4. ASSUME stack = <<>>, perms' = perms \/ perms' = SettlePermissions(perms) PROVE Decisions'
  BY <1>0, <1>e, <1>4, NoBottom, SettlingKept
<1>5. ASSUME \/ \E r \in DOMAIN runs : PromptAnswered(r) \/ PromptFails(r) \/ PromptReturns(r)
             \/ \E state \in {"running", "idle", "stopped"} : AgentReports(state)
             \/ CompletionTimesOut \/ CloseSessionAnswered \/ CloseSessionFails \/ CloseSessionReturns
             \/ CloseReturns \/ ConnectionCloses \/ ConnectionFaults \/ ExitSeen
      PROVE  Decisions'
  <2>1. ASSUME NEW r \in DOMAIN runs, PromptAnswered(r) \/ PromptFails(r) \/ PromptReturns(r)
        PROVE  stack = <<>> /\ perms' = perms
    BY <2>1 DEF PromptAnswered, PromptFails, PromptReturns, Lost, Rested
  <2>2. ASSUME NEW state \in {"running", "idle", "stopped"}, AgentReports(state) PROVE stack = <<>> /\ perms' = perms
    BY <2>2 DEF AgentReports
  <2>3. ASSUME CompletionTimesOut \/ CloseSessionAnswered \/ CloseSessionFails \/ CloseReturns \/ ExitSeen
        PROVE  stack = <<>> /\ perms' = perms
    BY <2>3 DEF CompletionTimesOut, CloseSessionAnswered, CloseSessionFails, CloseReturns, ExitSeen, Lost, Rested
  <2>4. ASSUME CloseSessionReturns \/ ConnectionCloses \/ ConnectionFaults
        PROVE  stack = <<>> /\ (perms' = perms \/ perms' = SettlePermissions(perms))
    BY <2>4 DEF CloseSessionReturns, ConnectionCloses, ConnectionFaults, Closes, Rested
  <2> QED BY <1>4, <1>5, <2>1, <2>2, <2>3, <2>4
<1>6. CASE Cancel
  <2>0. cur' = cur /\ perms' = perms
    BY <1>6 DEF Cancel
  <2>1. CASE runs[cur].sent
    <3> DEFINE g == [f |-> "cancel", run |-> cur]
    <3>1. Puts(g) /\ Says(Said("stop", cur)) /\ "stop" \in Nested
      BY <1>6, <2>1 DEF Cancel, Records, Puts, Log, Says, Nested
    <3>2. g \in Frames /\ g.f # "prompt"
      BY <1>0 DEF Frames, Observed
    <3> HIDE DEF g
    <3> QED BY <1>0, <2>0, <3>1, <3>2, DecisionsPut, SettlingKept
  <2>2. CASE ~runs[cur].sent
    <3>1. cur # 0 /\ stack' = stack
      BY <1>6, <2>2 DEF Cancel
    <3>2. ~Approving
      BY <2>2, <3>1 DEF IInv, Open, Frame, Approving
    <3> QED BY <1>0, <2>0, <3>1, <3>2, DecisionsStay, SettlingKept
  <2> QED BY <2>1, <2>2
<1>7. CASE CancelGoesOn \/ CloseSessionGoesOn
  <2>1. Takes /\ Head(stack).f # "decided" /\ cur' = cur /\ log' = log
        /\ (perms' = perms \/ perms' = SettlePermissions(perms))
    BY <1>7 DEF CancelGoesOn, CloseSessionGoesOn, Takes
  <2> QED BY <1>0, <2>1, DecisionsTaken, SettlingKept
<1>8. CASE CloseSession
  <2> DEFINE g == [f |-> "close-session", run |-> cur]
  <2>1. Puts(g) /\ Says(Said("closing", cur)) /\ "closing" \in Nested /\ cur' = cur /\ perms' = perms
    BY <1>8 DEF CloseSession, Records, Puts, Log, Says, Nested
  <2>2. g \in Frames /\ g.f # "prompt"
    BY <1>0 DEF Frames, Observed
  <2> HIDE DEF g
  <2> QED BY <1>0, <2>1, <2>2, DecisionsPut, SettlingKept
<1>9. CASE Close
  <2>1. /\ stack' = stack /\ cur' = cur /\ Says(Said("closed", cur)) /\ "closed" \in Nested
        /\ perms' = SettlePermissions(perms)
    BY <1>9 DEF Close, Closes, Log, Says, Nested
  <2> QED BY <1>0, <2>1, DecisionsStay, SettlingKept
<1>10. CASE PermissionAsked
  <2>1. PICK kind \in bound.kinds :
          perms' = Append(perms, [st |-> "asked", kind |-> kind, late |-> Late, run |-> 0,
                                  answer |-> "none", told |-> "none"])
    BY <1>10 DEF PermissionAsked
  <2>2. PermsKept
    <3>1. kind \in Kinds /\ Late \in BOOLEAN
      BY <1>0 DEF TypeOK, Scenarios, Late, Gone
    <3>2. [st |-> "asked", kind |-> kind, late |-> Late, run |-> 0, answer |-> "none", told |-> "none"]
            \in PermissionRecords
      BY <3>1 DEF PermissionRecords
    <3>3. /\ perms'[Len(perms) + 1].st = "asked" /\ Len(perms') = Len(perms) + 1 /\ Len(perms) \in Nat
          /\ \A n \in 1 .. Len(perms) : perms'[n] = perms[n]
          /\ DOMAIN perms = 1 .. Len(perms) /\ DOMAIN perms' = 1 .. Len(perms')
      BY <1>0, <2>1, <3>2, Grown DEF TypeOK
    <3>4. ASSUME NEW q \in DOMAIN perms', perms'[q].st = "deciding" PROVE q \in DOMAIN perms /\ perms'[q] = perms[q]
      <4>1. q # Len(perms) + 1
        BY <3>3, <3>4
      <4> QED BY <3>3, <4>1
    <3> QED BY <3>4 DEF PermsKept
  <2>3. stack = <<>>
    BY <1>10 DEF PermissionAsked
  <2> QED BY <1>0, <1>e, <2>2, <2>3, NoBottom
<1>11. ASSUME NEW q \in DOMAIN perms, OperatorAnswers(q) PROVE Decisions'
  <2>1. PICK answer : perms' = [perms EXCEPT ![q].st = "woken", ![q].answer = answer]
    BY <1>11 DEF OperatorAnswers
  <2> DEFINE x == [perms[q] EXCEPT !.st = "woken", !.answer = answer]
  <2>2. perms' = [perms EXCEPT ![q] = x] /\ x.st # "deciding"
    <3>1. perms[q] \in PermissionRecords
      BY <1>0 DEF TypeOK
    <3> QED BY <2>1, <3>1 DEF PermissionRecords
  <2> HIDE DEF x
  <2>3. PermsKept
    BY <1>0, <2>2, OtherKept
  <2> QED BY <1>0, <1>11, <2>3, DecisionsStay DEF OperatorAnswers
<1>12. ASSUME NEW q \in DOMAIN perms, PermissionHandled(q) \/ PermissionDecided(q) PROVE Decisions'
  <2>0. stack = <<>> /\ cur' = cur
    BY <1>0, <1>12, WhatIsHandled
  <2>r. perms[q] \in PermissionRecords
    BY <1>0 DEF TypeOK
  <2>1. CASE \E r \in Nat, what \in {"cancelled", "error"} : Told(q, r, what)
    <3>1. PICK r \in Nat, what \in {"cancelled", "error"} : Told(q, r, what)
      BY <2>1
    <3> DEFINE x == [perms[q] EXCEPT !.st = "answered", !.run = r, !.told = what]
    <3>2. perms' = [perms EXCEPT ![q] = x] /\ x.st # "deciding"
      BY <2>r, <3>1 DEF Told, PermissionRecords
    <3> HIDE DEF x
    <3>3. PermsKept
      BY <1>0, <3>2, OtherKept
    <3> QED BY <1>0, <1>e, <2>0, <3>3, NoBottom
  <2>2. CASE \E r \in Nat, what \in Outcomes : Decided(q, r, what) /\ (what = "approved" => CanApprove(r))
    BY <2>0, <2>2, DecidedDecides
  <2>3. CASE Asks(q)
    <3> DEFINE x == [perms[q] EXCEPT !.st = "waiting", !.run = cur]
    <3>2. perms' = [perms EXCEPT ![q] = x] /\ x.st # "deciding"
      BY <2>r, <2>3 DEF Asks, PermissionRecords
    <3> HIDE DEF x
    <3>3. PermsKept
      BY <1>0, <3>2, OtherKept
    <3> QED BY <1>0, <1>e, <2>0, <3>3, NoBottom
  <2> QED BY <1>0, <1>12, <2>1, <2>2, <2>3, WhatIsHandled
<1>13. ASSUME NEW q \in DOMAIN perms, PermissionGoesOn(q) PROVE Decisions'
  <2> DEFINE x == [perms[q] EXCEPT !.st = "answered"]
  <2>1. perms' = [perms EXCEPT ![q] = x] /\ x.st = "answered" /\ perms[q].st = "deciding"
    <3>1. perms[q] \in PermissionRecords
      BY <1>0 DEF TypeOK
    <3> QED BY <1>13, <3>1 DEF PermissionGoesOn, PermissionRecords
  <2> HIDE DEF x
  <2>2. DOMAIN perms' = DOMAIN perms /\ \A p \in DOMAIN perms : perms'[p] = IF p = q THEN x ELSE perms[p]
    BY <1>0, <2>1 DEF TypeOK
  <2>3. \A p \in DOMAIN perms : perms[p].st = "deciding" => p = q
    BY <2>1 DEF Decisions
  <2>4. \A p \in DOMAIN perms' : perms'[p].st # "deciding"
    BY <2>1, <2>2, <2>3
  <2> QED BY <2>4 DEF Decisions
<1>14. CASE UNCHANGED vars
  <2>1. stack' = stack /\ log' = log /\ cur' = cur /\ perms' = perms
    BY <1>14 DEF vars
  <2> QED BY <1>0, <2>1, DecisionsStay, SettlingKept
<1> QED
  BY <1>1, <1>2, <1>3, <1>5, <1>6, <1>7, <1>8, <1>9, <1>10, <1>11, <1>12, <1>13, <1>14
     DEF Next, Calls, Agent, Runs, Fails

LEMMA InvInit == Init => IInv /\ Callbacks /\ Decisions
<1> SUFFICES ASSUME Init PROVE IInv /\ Callbacks /\ Decisions
  OBVIOUS
<1>1. TypeOK
  BY TypeInit
<1>2. DOMAIN log = {} /\ DOMAIN stack = {} /\ DOMAIN runs = {} /\ DOMAIN perms = {} /\ Len(runs) = 0
  BY DEF Init
<1> QED
  BY <1>1, <1>2 DEF Init, IInv, Over, Stops, Ended, Started, Stacked, Withdrawals, Open, Attributed, StopsAsked,
     Closer, Callbacks, Decisions, NoCloser

-----------------------------------------------------------------------------
(* What a step may put on record: the decision to approve while the work is *)
(* one to stand behind, the approval inside that decision, a prompt that is *)
(* not withdrawn, a start or an end of the open run only.                   *)
NoEnd == cur # 0 /\ ~Frame("end", cur)
Allowed(e) ==
    \/ e.k \in {"stop", "withdrawn", "closing", "refused", "over", "closed", "exited"}
    \/ e.k = "approves" /\ stack = <<>> /\ CanApprove(e.run)
    \/ e.k = "approved" /\ DecidedInside(e.run)
    \/ e.k = "prompt" /\ ~Withdrawn(e.run)
    \/ /\ e.k \in {"started", "started-alone"} /\ e.run = cur /\ NoEnd /\ ~exit /\ ~runs[cur].started
       /\ e.k = "started" => runs[cur].prompted /\ e.answer = runs[cur].answer
    \/ e.k \in {"ended", "ended-unstarted", "interrupted"} /\ e.run = cur /\ NoEnd

LEMMA SaidIsAllowed ==
    ASSUME NEW kk \in Words, NEW r \in Nat, Says(Said(kk, r)),
           kk \in {"stop", "withdrawn", "closing", "refused", "over", "closed", "exited"}
           \/ (kk = "prompt" /\ ~Withdrawn(r))
           \/ (kk = "approves" /\ stack = <<>> /\ CanApprove(r))
           \/ (kk = "approved" /\ DecidedInside(r))
           \/ (kk \in {"ended", "ended-unstarted", "interrupted"} /\ r = cur /\ NoEnd)
    PROVE  \E e \in Entries : Says(e) /\ Allowed(e)
<1>1. Said(kk, r) \in Entries /\ Said(kk, r).k = kk /\ Said(kk, r).run = r
  BY SaidType
<1>2. Allowed(Said(kk, r))
  BY <1>1 DEF Allowed
<1> QED BY <1>1, <1>2

LEMMA ReportIsAllowed ==
    ASSUME IInv, StateGoesOn PROVE log' = log \/ \E e \in Entries : Says(e) /\ Allowed(e)
<1> DEFINE r == Head(stack).run
           starts == OfRun(r) /\ Head(stack).f = "running" /\ ~runs[r].started
           ends == OfRun(r) /\ (Head(stack).f = "stopped" \/ (Head(stack).f = "idle" /\ runs[r].started))
<1>1. /\ stack # <<>> /\ Head(stack).f \in {"running", "idle", "stopped"}
      /\ starts => Says([k |-> IF runs[r].prompted THEN "started" ELSE "started-alone", run |-> r,
                         answer |-> runs[r].answer])
      /\ ~starts /\ ends => Says(Said(IF runs[r].started THEN "ended" ELSE "ended-unstarted", r))
      /\ ~starts /\ ~ends => log' = log
  BY DEF StateGoesOn, Log, Says
<1>2. Len(stack) = 1 /\ DOMAIN stack = 1 .. Len(stack) /\ stack[1] = Head(stack)
  BY <1>1, ReportIsAlone, HeadIsFirst, StackDomain DEF IInv
<1>3. \A s : ~Frame("end", s)
  BY <1>1, <1>2 DEF Frame
<1>4. ~exit
  BY <1>1, <1>2 DEF IInv, Stacked
<1>5. OfRun(r) => r = cur /\ NoEnd /\ cur \in Nat /\ cur \in 1 .. Len(runs)
  BY <1>3 DEF OfRun, NoEnd, IInv, TypeOK
<1>6. CASE starts
  <2> DEFINE e == [k |-> IF runs[r].prompted THEN "started" ELSE "started-alone", run |-> r,
                   answer |-> runs[r].answer]
  <2>1. runs[r] \in RunRecords
    BY <1>5, <1>6, RunsDomain DEF IInv
  <2>2. e \in Entries /\ e.run = r /\ e.answer = runs[r].answer
        /\ e.k \in {"started", "started-alone"} /\ (e.k = "started" => runs[r].prompted)
    <3>1. runs[r].answer \in Answers \cup {"none"} /\ r \in Nat
      BY <1>5, <1>6, <2>1 DEF RunRecords
    <3> QED BY <3>1 DEF Entries
  <2>3. Says(e)
    BY <1>1, <1>6
  <2> HIDE DEF e
  <2>4. Allowed(e)
    BY <1>4, <1>5, <1>6, <2>2 DEF Allowed
  <2> QED BY <2>2, <2>3, <2>4
<1>7. CASE ~starts /\ ends
  <2>1. PICK kk \in {"ended", "ended-unstarted"} : Says(Said(kk, r))
    BY <1>1, <1>7
  <2>2. kk \in Words
    BY DEF Words
  <2> QED BY <1>5, <1>7, <2>1, <2>2, SaidIsAllowed
<1> QED BY <1>1, <1>6, <1>7

LEMMA WhatIsSaid ==
    ASSUME IInv, Callbacks, Decisions, [Next]_vars PROVE log' = log \/ \E e \in Entries : Says(e) /\ Allowed(e)
<1>0. cur \in Nat /\ TypeOK /\ 0 \in Nat
  BY DEF IInv, TypeOK
<1>w. {"stop", "withdrawn", "closing", "refused", "over", "closed", "exited", "prompt", "interrupted", "approves",
       "approved"} \subseteq Words
  BY DEF Words
<1>1. CASE PromptGoesOn
  <2>1. CASE log' = log
    BY <2>1
  <2>2. CASE log' # log
    <3>1. /\ ~Withdrawn(Head(stack).run) /\ Says(Said("prompt", Head(stack).run))
          /\ stack # <<>>
      BY <1>1, <2>2 DEF PromptGoesOn, PromptSent, Log, Says
    <3>2. Head(stack).run \in Nat
      BY <1>0, <3>1, HeadIsFirst, StackDomain DEF Frames
    <3> QED BY <1>w, <3>1, <3>2, SaidIsAllowed
  <2> QED BY <2>1, <2>2
<1>2. CASE StateGoesOn
  BY <1>2, ReportIsAllowed
<1>3. ASSUME NEW q \in DOMAIN perms, PermissionHandled(q) \/ PermissionDecided(q)
      PROVE  log' = log \/ \E e \in Entries : Says(e) /\ Allowed(e)
  <2>0. stack = <<>>
    BY <1>0, <1>3, WhatIsHandled
  <2>1. ASSUME NEW r \in Nat, NEW what \in Outcomes, Decided(q, r, what), what = "approved" => CanApprove(r)
        PROVE  log' = log \/ \E e \in Entries : Says(e) /\ Allowed(e)
    <3>1. log' = log \/ (what = "approved" /\ Says(Said("approves", r)))
      BY <2>1 DEF Decided, Log, Says
    <3> QED BY <1>w, <2>0, <2>1, <3>1, SaidIsAllowed
  <2>2. ASSUME NEW r \in Nat, NEW what, Told(q, r, what) PROVE log' = log
    BY <2>2 DEF Told
  <2>3. ASSUME Asks(q) PROVE log' = log
    BY <2>3 DEF Asks
  <2> QED BY <1>0, <1>3, <2>1, <2>2, <2>3, WhatIsHandled
<1>4. ASSUME NEW q \in DOMAIN perms, PermissionGoesOn(q)
      PROVE  log' = log \/ \E e \in Entries : Says(e) /\ Allowed(e)
  <2>1. CASE log' = log
    BY <2>1
  <2>2. CASE log' # log
    <3>1. perms[q].run \in Nat
      <4>1. perms[q] \in PermissionRecords
        BY <1>0 DEF TypeOK
      <4> QED BY <4>1 DEF PermissionRecords
    <3>2. perms[q].st = "deciding" /\ perms[q].told = "approved" /\ Says(Said("approved", perms[q].run))
      BY <1>4, <2>2 DEF PermissionGoesOn, Log, Says
    <3>3. DecidedInside(perms[q].run)
      BY <3>2 DEF Decisions, Approving
    <3> QED BY <1>w, <3>1, <3>2, <3>3, SaidIsAllowed
  <2> QED BY <2>1, <2>2
<1>5. CASE ExitGoesOn
  <2>1. CASE cur = 0
    BY <1>5, <2>1 DEF ExitGoesOn, ExitEnds
  <2>2. CASE cur # 0
    <3>1. Says(Said("interrupted", cur)) /\ stack # <<>> /\ Head(stack).f = "exit"
      BY <1>5, <2>2 DEF ExitGoesOn, ExitEnds, Log, Says
    <3>2. 1 \in DOMAIN stack /\ stack[1].f = "exit" /\ DOMAIN stack = 1 .. Len(stack) /\ Len(stack) \in Nat
      BY <1>0, <3>1, HeadIsFirst, StackDomain
    <3>3. ~(1 < Len(stack))
      BY <3>2 DEF IInv, Stacked, Observed
    <3>4. NoEnd
      BY <2>2, <3>2, <3>3 DEF NoEnd, Frame
    <3> QED BY <1>0, <1>w, <3>1, <3>4, SaidIsAllowed
  <2> QED BY <2>1, <2>2
<1>6. CASE Cancel \/ CloseSession \/ CloseSessionReturns \/ ExitSeen \/ Closes
  <2>1. \E kk \in {"stop", "withdrawn", "closing", "refused", "over", "closed", "exited"}, r \in {0, cur} : Says(Said(kk, r))
    BY <1>6 DEF Cancel, CloseSession, CloseSessionReturns, ExitSeen, Closes, Log, Says
  <2> QED BY <1>0, <1>w, <2>1, SaidIsAllowed
<1>7. CASE Close \/ ConnectionFaults
  BY <1>6, <1>7 DEF Close, ConnectionFaults
<1>8. ASSUME NEW r \in DOMAIN runs, PromptAnswered(r) \/ PromptFails(r) \/ PromptReturns(r) PROVE log' = log
  BY <1>8 DEF PromptAnswered, PromptFails, PromptReturns
<1>9. ASSUME NEW state \in {"running", "idle", "stopped"}, AgentReports(state) PROVE log' = log
  BY <1>9 DEF AgentReports
<1>10. ASSUME NEW q \in DOMAIN perms, OperatorAnswers(q) PROVE log' = log
  BY <1>10 DEF OperatorAnswers
<1>11. ASSUME \/ Prompt \/ CompletionTimesOut \/ EndRun \/ CancelGoesOn \/ PermissionAsked \/ CloseSessionGoesOn
              \/ CloseSessionAnswered \/ CloseSessionFails \/ CloseReturns \/ ConnectionCloses \/ UNCHANGED vars
       PROVE  log' = log
  BY <1>11
     DEF Prompt, CompletionTimesOut, EndRun, CancelGoesOn, PermissionAsked, CloseSessionGoesOn,
         CloseSessionAnswered, CloseSessionFails, CloseReturns, ConnectionCloses, vars
<1> QED
  BY <1>1, <1>2, <1>3, <1>4, <1>5, <1>6, <1>7, <1>8, <1>9, <1>10, <1>11 DEF Next, Calls, Agent, Runs, Fails

-----------------------------------------------------------------------------
(* The properties speak of an entry and of those before it, so a step has to *)
(* be looked at only for the entry it adds.                                 *)
ApprovedAt(n) ==
    /\ log[n].k = "approves" => Wanted(n)
    /\ log[n].k = "approved" =>
          \E d \in 1..n - 1 : /\ log[d] = Said("approves", log[n].run)
                             /\ \A m \in d + 1..n - 1 : log[m].k \in Nested
PromptedAt(n) ==
    log[n].k = "prompt" => \A m \in 1..n - 1 :
        /\ log[m].k \notin {"over", "closed", "exited"}
        /\ log[m].k = "withdrawn" => log[m].run # log[n].run
        /\ log[m].k = "closing" => \E l \in m..n : log[l].k = "refused"
ProvenAt(n) == log[n].k = "started" => log[n].answer \in {"none", "accepted"}
AlternateAt(n) ==
    \A m \in 1..n - 1 :
        /\ Begins(n) => log[m].k \notin {"over", "exited"}
        /\ Begins(n) \/ Finishes(n) => (Finishes(m) => log[m].run # log[n].run)
        /\ Begins(n) /\ Begins(m) => /\ log[m].run # log[n].run
                                     /\ \E l \in m..n : log[l].k = "ended" /\ log[l].run = log[m].run
At(n) == ApprovedAt(n) /\ PromptedAt(n) /\ ProvenAt(n) /\ AlternateAt(n)

LEMMA AllAt ==
    (\A n \in DOMAIN log : At(n)) => NothingForWhatEnded /\ RunsAreTrue
BY DEF At, ApprovedAt, PromptedAt, ProvenAt, AlternateAt, NothingForWhatEnded, ApprovalsAreWanted,
       NothingSentToTheClosed, RunsAreTrue, AttributionIsProven, RunsAlternate

LEMMA OldAt == ASSUME TypeOK, TypeOK', LogGrows, NEW n \in DOMAIN log, At(n) PROVE At(n)'
<1>1. /\ n \in 1 .. Len(log) /\ Len(log) \in Nat
      /\ \A m \in 1 .. Len(log) : log'[m] = log[m]
      /\ \A m \in 1 .. n : m \in 1 .. Len(log)
  BY DEF TypeOK, LogGrows
<1>2. \A m \in 1 .. n : log'[m] = log[m]
  BY <1>1
<1>3. log'[n] = log[n] /\ \A m \in 1 .. n - 1 : m \in 1 .. n /\ \A l \in m .. n : l \in 1 .. n
  BY <1>1
<1>4. ApprovedAt(n)'
  <2>1. log[n].k = "approves" => Wanted(n)'
    BY <1>2, <1>3 DEF At, ApprovedAt, Wanted
  <2>2. ASSUME NEW d \in 1..n - 1, NEW m \in d + 1..n - 1 PROVE m \in 1 .. n - 1
    BY <1>1
  <2>3. ASSUME log[n].k = "approved"
        PROVE  \E d \in 1..n - 1 : /\ log'[d] = Said("approves", log[n].run)
                                   /\ \A m \in d + 1..n - 1 : log'[m].k \in Nested
    BY <1>2, <1>3, <2>2, <2>3 DEF At, ApprovedAt
  <2> QED BY <1>3, <2>1, <2>3 DEF ApprovedAt
<1>5. PromptedAt(n)'
  BY <1>2, <1>3 DEF At, PromptedAt
<1>6. ProvenAt(n)'
  BY <1>3 DEF At, ProvenAt
<1>7. AlternateAt(n)'
  BY <1>2, <1>3 DEF At, AlternateAt, Begins, Finishes
<1> QED BY <1>4, <1>5, <1>6, <1>7 DEF At

LEMMA NoFrames == stack = <<>> => \A f, r : ~Frame(f, r)
BY DEF Frame

(* What is behind the client when work may go on: nothing that ended it.    *)
LEMMA StillOpen ==
    ASSUME IInv, Usable, NEW m \in DOMAIN log
    PROVE  /\ log[m].k \notin {"over", "closed", "exited"}
           /\ log[m].k = "closing" => \E l \in m .. Len(log) : log[l].k = "refused"
BY DEF IInv, Over, Usable, Gone

LEMMA ApprovalAdded ==
    ASSUME IInv, stack = <<>>, NEW r, CanApprove(r), NEW m \in DOMAIN log
    PROVE  log[m].k \in {"stop", "ended", "ended-unstarted", "interrupted"} => log[m].run # r
<1>1. cur = r /\ ~runs[r].stop
  BY DEF CanApprove
<1>2. log[m].k = "stop" => runs[log[m].run].stop
  BY DEF IInv, Stops
<1>3. Finishes(m) => log[m].run # cur
  BY NoFrames DEF IInv, Ended
<1> QED BY <1>1, <1>2, <1>3 DEF Finishes

LEMMA EndAdded ==
    ASSUME IInv, NoEnd, NEW m \in DOMAIN log, Finishes(m) PROVE log[m].run # cur
BY DEF IInv, Ended, NoEnd

LEMMA StartAdded ==
    ASSUME IInv, NoEnd, ~exit, ~runs[cur].started, NEW m \in DOMAIN log
    PROVE  /\ log[m].k \notin {"over", "exited"}
           /\ Begins(m) => /\ log[m].run # cur
                           /\ \E l \in m .. Len(log) : log[l].k = "ended" /\ log[l].run = log[m].run
<1>1. session # "over"
  BY DEF IInv, Open, NoEnd
<1>2. log[m].k \notin {"over", "exited"}
  BY <1>1 DEF IInv, Over
<1>3. ASSUME Begins(m) PROVE log[m].run # cur
  BY <1>3 DEF IInv, Started
<1>4. ASSUME Begins(m) PROVE \E l \in m .. Len(log) : log[l].k = "ended" /\ log[l].run = log[m].run
  BY <1>1, <1>3, <1>4 DEF IInv, Started
<1> QED BY <1>2, <1>3, <1>4

LEMMA NewAt ==
    ASSUME IInv, TypeOK', NEW e \in Entries, Says(e), Allowed(e), NEW n, n = Len(log) + 1 PROVE At(n)'
<1>1. /\ Len(log) \in Nat /\ DOMAIN log = 1 .. Len(log)
      /\ log'[n] = e /\ \A m \in 1 .. n - 1 : m \in DOMAIN log /\ log'[m] = log[m]
      /\ \A m \in 1 .. n - 1 : \A l \in m .. Len(log) : l \in m .. n /\ log'[l] = log[l]
  <2>1. Len(log) \in Nat /\ DOMAIN log = 1 .. Len(log)
    BY DEF IInv, TypeOK
  <2>2. log'[Len(log) + 1] = e /\ \A m \in 1 .. Len(log) : log'[m] = log[m]
    BY Saying DEF IInv
  <2> QED BY <2>1, <2>2
<1>2. ASSUME e.k = "approves" PROVE ApprovedAt(n)'
  <2>1. stack = <<>> /\ CanApprove(e.run)
    BY <1>2 DEF Allowed
  <2>2. Usable
    BY <2>1 DEF CanApprove
  <2>3. ASSUME NEW m \in 1 .. n - 1
        PROVE  /\ log'[m].k \in {"stop", "ended", "ended-unstarted", "interrupted"} => log'[m].run # e.run
               /\ log'[m].k \notin {"over", "closed", "exited"}
               /\ log'[m].k = "closing" => \E l \in m .. n : log'[l].k = "refused"
    <3>1. m \in DOMAIN log /\ log'[m] = log[m]
      BY <1>1
    <3>2. /\ log[m].k \notin {"over", "closed", "exited"}
          /\ log[m].k = "closing" => \E l \in m .. Len(log) : log[l].k = "refused"
      BY <2>2, <3>1, StillOpen
    <3>3. log[m].k \in {"stop", "ended", "ended-unstarted", "interrupted"} => log[m].run # e.run
      BY <2>1, <3>1, ApprovalAdded
    <3> QED BY <1>1, <3>1, <3>2, <3>3
  <2> QED BY <1>1, <1>2, <2>3 DEF ApprovedAt, Wanted
<1>10. ASSUME e.k = "approved" PROVE ApprovedAt(n)'
  <2>1. PICK d \in DOMAIN log :
          log[d] = Said("approves", e.run) /\ \A m \in d + 1 .. Len(log) : log[m].k \in Nested
    BY <1>10 DEF Allowed, DecidedInside
  <2>2. d \in 1 .. n - 1 /\ log'[d] = log[d]
    BY <1>1
  <2>3. ASSUME NEW m \in d + 1 .. n - 1 PROVE log'[m].k \in Nested
    <3>1. m \in d + 1 .. Len(log) /\ m \in 1 .. n - 1
      BY <1>1
    <3> QED BY <1>1, <2>1, <3>1
  <2> QED BY <1>1, <1>10, <2>1, <2>2, <2>3 DEF ApprovedAt
<1>3. ASSUME e.k = "prompt" PROVE PromptedAt(n)'
  <2>1. ~Withdrawn(e.run)
    BY <1>3 DEF Allowed
  <2>2. Usable /\ ~runs[e.run].withdrawn
    BY <2>1 DEF Withdrawn, Usable
  <2>3. ASSUME NEW m \in 1 .. n - 1
        PROVE  /\ log'[m].k = "withdrawn" => log'[m].run # e.run
               /\ log'[m].k \notin {"over", "closed", "exited"}
               /\ log'[m].k = "closing" => \E l \in m .. n : log'[l].k = "refused"
    <3>1. m \in DOMAIN log /\ log'[m] = log[m]
      BY <1>1
    <3>2. /\ log[m].k \notin {"over", "closed", "exited"}
          /\ log[m].k = "closing" => \E l \in m .. Len(log) : log[l].k = "refused"
      BY <2>2, <3>1, StillOpen
    <3>3. log[m].k = "withdrawn" => log[m].run # e.run
      BY <2>2, <3>1 DEF IInv, Stops
    <3> QED BY <1>1, <3>1, <3>2, <3>3
  <2> QED BY <1>1, <2>3 DEF PromptedAt
<1>4. ASSUME e.k = "started" PROVE ProvenAt(n)'
  <2>1. e.answer = runs[cur].answer /\ runs[cur].prompted /\ cur # 0
    BY <1>4 DEF Allowed, NoEnd
  <2>2. e.answer \in {"none", "accepted"}
    BY <2>1 DEF IInv, Attributed
  <2> QED BY <1>1, <2>2 DEF ProvenAt
<1>5. ASSUME e.k \in {"started", "started-alone", "ended", "ended-unstarted", "interrupted"} PROVE AlternateAt(n)'
  <2>1. e.run = cur /\ NoEnd
    BY <1>5 DEF Allowed
  <2>2. e.k \in {"started", "started-alone"} => ~exit /\ ~runs[cur].started
    BY DEF Allowed
  <2>3. ASSUME NEW m \in 1 .. n - 1
        PROVE  /\ Finishes(m)' => log'[m].run # e.run
               /\ e.k \in {"started", "started-alone"} =>
                    /\ log'[m].k \notin {"over", "exited"}
                    /\ Begins(m)' => /\ log'[m].run # e.run
                                     /\ \E l \in m .. n : log'[l].k = "ended" /\ log'[l].run = log'[m].run
    <3>1. m \in DOMAIN log /\ log'[m] = log[m] /\ (Finishes(m)' <=> Finishes(m)) /\ (Begins(m)' <=> Begins(m))
      BY <1>1 DEF Finishes, Begins
    <3>2. Finishes(m) => log[m].run # cur
      BY <2>1, <3>1, EndAdded
    <3>3. e.k \in {"started", "started-alone"} =>
            /\ log[m].k \notin {"over", "exited"}
            /\ Begins(m) => /\ log[m].run # cur
                            /\ \E l \in m .. Len(log) : log[l].k = "ended" /\ log[l].run = log[m].run
      BY <2>1, <2>2, <3>1, StartAdded
    <3> QED BY <1>1, <2>1, <3>1, <3>2, <3>3
  <2>4. Begins(n)' <=> e.k \in {"started", "started-alone"}
    BY <1>1 DEF Begins
  <2> QED BY <1>1, <2>3, <2>4 DEF AlternateAt
<1>6. e.k \notin {"approves", "approved"} => ApprovedAt(n)'
  BY <1>1 DEF ApprovedAt
<1>7. e.k # "prompt" => PromptedAt(n)'
  BY <1>1 DEF PromptedAt
<1>8. e.k # "started" => ProvenAt(n)'
  BY <1>1 DEF ProvenAt
<1>9. e.k \notin {"started", "started-alone", "ended", "ended-unstarted", "interrupted"} => AlternateAt(n)'
  BY <1>1 DEF AlternateAt, Begins, Finishes
<1> QED BY <1>2, <1>3, <1>4, <1>5, <1>6, <1>7, <1>8, <1>9, <1>10 DEF At

LEMMA AtNext ==
    ASSUME IInv, Callbacks, Decisions, [Next]_vars, \A n \in DOMAIN log : At(n) PROVE (\A n \in DOMAIN log : At(n))'
<1>0. TypeOK /\ TypeOK'
  BY TypeNext DEF IInv
<1>1. CASE log' = log
  <2>1. LogGrows /\ DOMAIN log' = DOMAIN log
    BY <1>0, <1>1, NoEntry
  <2> QED BY <1>0, <2>1, OldAt
<1>2. ASSUME NEW e \in Entries, Says(e), Allowed(e) PROVE (\A n \in DOMAIN log : At(n))'
  <2>1. LogGrows /\ NewEntries = {Len(log) + 1}
    BY <1>0, <1>2, OneEntry
  <2>2. ASSUME NEW n, n = Len(log) + 1 PROVE At(n)'
    BY <1>0, <1>2, <2>2, NewAt
  <2>3. \A n \in DOMAIN log' : n = Len(log) + 1 \/ n \in DOMAIN log
    BY <1>0, <2>1, LogDomains
  <2>4. ASSUME NEW n \in DOMAIN log' PROVE At(n)'
    <3>1. CASE n \in DOMAIN log
      BY <1>0, <2>1, <3>1, OldAt
    <3>2. CASE n = Len(log) + 1
      BY <2>2, <3>2
    <3> QED BY <2>3, <3>1, <3>2
  <2> QED BY <2>4
<1> QED BY <1>1, <1>2, WhatIsSaid

LEMMA InvAlways == Spec => [](IInv /\ Callbacks /\ Decisions)
<1>1. Init => IInv /\ Callbacks /\ Decisions
  BY InvInit
<1>2. IInv /\ Callbacks /\ Decisions /\ [Next]_vars => (IInv /\ Callbacks /\ Decisions)'
  <2> SUFFICES ASSUME IInv, Callbacks, Decisions, [Next]_vars PROVE IInv' /\ Callbacks' /\ Decisions'
    OBVIOUS
  <2>1. TypeOK'
    BY TypeNext DEF IInv
  <2> QED BY <2>1, InvNext, CallbacksNext, DecisionsNext
<1> QED BY <1>1, <1>2, PTL DEF Spec

(* Every value of the client's state is of its kind: the invariant below    *)
(* speaks of runs, callbacks and entries that exist.                       *)
THEOREM TypeCorrect == Spec => []TypeOK
<1>1. IInv => TypeOK
  BY DEF IInv
<1> QED BY <1>1, InvAlways, PTL

LEMMA AtAlways == Spec => [](\A n \in DOMAIN log : At(n))
<1>1. Init => \A n \in DOMAIN log : At(n)
  <2>1. Init => DOMAIN log = {}
    BY DEF Init
  <2> QED BY <2>1
<1>2. IInv /\ Callbacks /\ Decisions /\ [Next]_vars /\ (\A n \in DOMAIN log : At(n)) => (\A n \in DOMAIN log : At(n))'
  BY AtNext
<1> QED BY <1>1, <1>2, InvAlways, PTL DEF Spec

(* Nothing is approved or sent for what has ended: an approval is decided   *)
(* on only for open work that nobody asked to stop, and handed over after   *)
(* nothing but what the observer of that decision called; a prompt is sent  *)
(* only while its session and attachment are open and it was not withdrawn, *)
(* although the operator answers, and observers act, at a time of their own. *)
THEOREM NothingForWhatEndedHolds == Spec => []NothingForWhatEnded
<1>1. (\A n \in DOMAIN log : At(n)) => NothingForWhatEnded
  BY AllAt
<1> QED BY <1>1, AtAlways, PTL

(* The record of the runs is true: work is attributed to a prompt only if   *)
(* no answer refused it, no run starts while another is open on record or   *)
(* after the end, and none ends twice.                                      *)
THEOREM RunsAreTrueHolds == Spec => []RunsAreTrue
<1>1. (\A n \in DOMAIN log : At(n)) => RunsAreTrue
  BY AllAt
<1> QED BY <1>1, AtAlways, PTL

(* A close of the session that the agent refused leaves no trace on the     *)
(* open run: it is asked to stop exactly if cancel() asked it.              *)
THEOREM RefusedCloseHolds == Spec => []RefusedCloseChangesNothing
<1>1. ASSUME IInv PROVE RefusedCloseChangesNothing
  <2>1. ASSUME stack = <<>>, session = "open", cur # 0 PROVE runs[cur].stop <=> Happened("stop", cur)
    <3>1. cur \in 1 .. Len(runs) /\ cur \in DOMAIN runs
      BY <1>1, <2>1 DEF IInv, TypeOK
    <3>2. runs[cur].sent /\ ~runs[cur].withdrawn
      BY <1>1, <2>1, <3>1, NoFrames DEF IInv, Open, Withdrawals
    <3>3. runs[cur].stop => StopKnown(cur)
      BY <1>1, <2>1 DEF IInv, StopsAsked
    <3> QED BY <1>1, <3>1, <3>2, <3>3, KnownIsStop DEF StopKnown
  <2> QED BY <2>1 DEF RefusedCloseChangesNothing
<1> QED BY <1>1, InvAlways, PTL

===============================================================================
