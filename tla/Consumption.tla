------------------------------- MODULE Consumption -------------------------------
(***************************************************************************)
(* The search for a steered or queued message in the requests the          *)
(* recording proxy captured: the resumable scan and the rule it stands for *)
(* (runtime/contracts/intervention.ts), the desk's steps and closing check *)
(* (adapters/pi/intervention.ts), the workbench's check that yields        *)
(* between slices (adapters/pi/workbench-interventions.ts) and the capture *)
(* it reads (cli/intervention-capture.ts), for one accepted request.       *)
(*                                                                         *)
(* A body is the number of its user messages that carry the text.  The     *)
(* capture grows, in any order of exchanges, and its bodies may be         *)
(* unreadable for a while.  A slice is synchronous, a check is not.        *)
(***************************************************************************)
EXTENDS Integers, Sequences, FiniteSetsExt

CONSTANTS
  Numbers,        \* exchange numbers of one recording
  Counts,         \* how often a request may carry the message
  Points,         \* delivery points the request may have been recorded with, None for no proxy then
  Captured,       \* requests that may be captured before the request is recorded
  SliceRequests,  \* bodies a slice may read
  IndexLimit,     \* requests up to which the bounded reader indexes a capture that grows too long
  FaultSets,      \* bound: the sets of ScanFaults that happen in one behaviour
  None

ASSUME NumbersAssumption == Numbers \subseteq Nat /\ IsFiniteSet(Numbers) /\ Captured \subseteq Numbers
ASSUME CountsAssumption == Counts \subseteq Nat /\ IsFiniteSet(Counts)
ASSUME PointsAssumption == Points \subseteq Nat \union {None} /\ None \notin Int
ASSUME SliceAssumption == SliceRequests \in Nat \ {0}

ScanFaults == {"body lost", "body too large", "capture too long", "store fails", "workbench closes"}

ASSUME FaultsAssumption == FaultSets \subseteq SUBSET ScanFaults

VARIABLES
  capture,    \* the captured requests, in the order they were recorded
  lost,       \* the exchanges whose body cannot be read now
  faults,     \* which faults happen
  at,         \* the delivery point recorded with the request
  prior,      \* how much of the capture was there when the request was recorded
  scan,       \* how far the search has got
  snapshot,   \* how much of the capture the running check sees, None between checks
  check,      \* the workbench's check: none, asked for, or between two slices
  closing,    \* the workbench stops its checks
  storing,    \* the session's store takes records
  consumed,   \* the findings recorded
  concluded,  \* what the consequence says
  answer,     \* history: the last answer and what it rests on
  replaced    \* history: a newer baseline was found while bodies were missing

input == <<capture, lost, faults, at, prior>>
scanVars == <<input, scan, snapshot, check, closing, storing, consumed, concluded, answer, replaced>>

(* A baseline that was lost: no request carries the message more often. *)
Infinite == 1 + Max(Counts \union {0})

NewScan == [from |-> None, baseline |-> None, below |-> None, retry |-> {}, next |-> 0,
            seen |-> {}, missing |-> {}]

NoAnswer == [status |-> "none", exchange |-> None, from |-> None, upTo |-> 0, missing |-> {}]

-----------------------------------------------------------------------------
(* The capture. *)

Entries(upTo) == {capture[i].exchange : i \in 1 .. upTo}
EntryOf(e) == capture[CHOOSE i \in 1 .. Len(capture) : capture[i].exchange = e]
Count(e) == EntryOf(e).count

Readable(e, bounded) == e \notin lost /\ ~(bounded /\ EntryOf(e).large)

(* Where the message may first appear: behind its delivery point or, without one, in the first *)
(* request captured after the intervention was recorded. *)
From(upTo) ==
  IF at # None THEN at + 1
  ELSE IF upTo > prior THEN capture[prior + 1].exchange ELSE None

Below(entries, from) == LET earlier == {e \in entries : e < from}
                        IN IF earlier = {} THEN None ELSE Max(earlier)

(* The rule: the first request that carries the message once more than the last one before it. *)
Increases(entries, from) ==
  LET before == Below(entries, from)
      baseline == IF before = None THEN 0 ELSE Count(before)
  IN {e \in entries : e >= from /\ Count(e) > baseline}

FindConsumption(entries, from) ==
  LET all == Increases(entries, from) IN IF all = {} THEN None ELSE Min(all)

-----------------------------------------------------------------------------
(* One slice of the scan. *)

(* A delivery point the scan does not know yet starts it over. *)
Placed(s, from) ==
  IF s.from = from THEN s
  ELSE [s EXCEPT !.from = from, !.baseline = None, !.below = None, !.retry = {}, !.next = from]

NeedsBaseline(s, below) == s.baseline = None \/ s.below # below

(* Mutant: a baseline that cannot be read is not counted as missing. *)
BasedUncounted(s, below, bounded) ==
  [s EXCEPT !.below = below,
            !.baseline = IF below = None THEN 0 ELSE IF Readable(below, bounded) THEN Count(below) ELSE Infinite]

(* What was judged against an older baseline is judged again. *)
Based(s, below, bounded) ==
  LET restarts == s.baseline # None
      readable == below = None \/ Readable(below, bounded)
  IN [s EXCEPT !.below = below,
               !.baseline = IF below = None THEN 0 ELSE IF readable THEN Count(below) ELSE Infinite,
               !.next = IF restarts THEN s.from ELSE @,
               !.retry = IF restarts THEN {} ELSE @,
               !.missing = IF below = None THEN @ ELSE IF readable THEN @ \ {below} ELSE @ \union {below}]

Relevant(s) ==
  LET kept(es) == {e \in es : e >= s.from \/ e = s.below}
  IN [s EXCEPT !.retry = kept(@), !.missing = kept(@)]

(* Mutant: the scan only goes forward. *)
WithoutLate(s, entries) == [s EXCEPT !.seen = IF s.next <= s.from THEN {} ELSE @]

(* A request that was recorded late, below the forward place, is tried with the lost ones. *)
WithLate(s, entries) ==
  LET seen == IF s.next <= s.from THEN {} ELSE s.seen
      late == {e \in entries : e >= s.from /\ e < s.next /\ e \notin seen}
  IN [s EXCEPT !.seen = seen \union late, !.retry = @ \union late]

Ascending(es) ==
  CHOOSE s \in [1 .. Cardinality(es) -> es] :
    /\ {s[i] : i \in 1 .. Cardinality(es)} = es
    /\ \A i, j \in 1 .. Cardinality(es) : i < j => s[i] < s[j]

(* Lost bodies first, then forward, until a body shows an increase or `reads` were tried. *)
Advanced(s, entries, reads, bounded) ==
  LET again == Ascending({e \in s.retry : e >= s.from})
      ahead == Ascending({e \in entries : e >= s.next})
      todo == again \o ahead
      shows(i) == Readable(todo[i], bounded) /\ Count(todo[i]) > s.baseline
      hits == {i \in 1 .. Min({reads, Len(todo)}) : shows(i)}
      stop == IF hits = {} THEN Min({reads, Len(todo)}) ELSE Min(hits)
      read == {todo[i] : i \in 1 .. stop}
      retried == {again[i] : i \in 1 .. Min({stop, Len(again)})}
      passed == {todo[i] : i \in Len(again) + 1 .. stop}
  IN [kind |-> IF hits # {} THEN "found" ELSE IF stop < Len(todo) THEN "more" ELSE "end",
      exchange |-> IF hits = {} THEN None ELSE todo[stop],
      scan |-> [s EXCEPT !.retry = {e \in @ : e >= s.from} \ retried,
                         !.next = IF passed = {} THEN @ ELSE Max(passed) + 1,
                         !.seen = @ \union passed,
                         !.missing = {e \in @ \union read : e \in read => ~Readable(e, bounded)}]]

Slice(s, upTo, reads, bounded) ==
  LET entries == Entries(upTo)
      from == From(upTo)
      placed == Placed(s, from)
      below == Below(entries, from)
      reading == NeedsBaseline(placed, below)
      based == Relevant(IF reading THEN Based(placed, below, bounded) ELSE placed)
  IN IF from = None THEN [kind |-> "end", exchange |-> None, scan |-> s]
     ELSE IF based.baseline = Infinite THEN [kind |-> "end", exchange |-> None, scan |-> based]
     ELSE Advanced(WithLate(based, entries), entries,
                   IF reading /\ below # None THEN reads - 1 ELSE reads, bounded)

-----------------------------------------------------------------------------
(* The desk's step. *)

(* Mutant: a new check starts over. *)
RenewedFromStart(s) == NewScan

(* A new check tries again, first, what the last one lost. *)
Renewed(s) ==
  LET over == s.baseline = Infinite
      t == IF over THEN [s EXCEPT !.baseline = None, !.below = None, !.retry = {},
                                  !.next = IF s.from = None THEN 0 ELSE s.from]
           ELSE s
  IN [t EXCEPT !.retry = @ \union t.missing]

Indexed(bounded) == bounded /\ "capture too long" \in faults => Len(capture) <= IndexLimit

(* What a search that has ended says, and the finding it records if the store takes it. *)
Ended(slice, upTo) ==
  LET said(status) == [status |-> status, exchange |-> slice.exchange, from |-> From(upTo),
                       upTo |-> upTo, missing |-> slice.scan.missing]
  IN /\ snapshot' = None
     /\ IF slice.kind = "found" /\ storing
        THEN consumed' = Append(consumed, slice.exchange) /\ scan' = NewScan
        ELSE UNCHANGED consumed /\ scan' = slice.scan
     /\ answer' = said(IF slice.kind = "found" THEN IF storing THEN "observed" ELSE "incomplete"
                       ELSE IF slice.scan.missing # {} THEN "incomplete" ELSE "not-observed")

(* The finding is on record: whoever searches is told so. *)
Known ==
  /\ consumed # << >>
  /\ scan' = NewScan /\ snapshot' = None
  /\ answer' = [NoAnswer EXCEPT !.status = "known", !.exchange = consumed[Len(consumed)]]
  /\ UNCHANGED <<consumed, replaced>>

NotIndexed(bounded) ==
  /\ consumed = << >>
  /\ ~Indexed(bounded)
  /\ scan' = Renewed(scan) /\ snapshot' = None
  /\ answer' = [NoAnswer EXCEPT !.status = "incomplete"]
  /\ UNCHANGED <<consumed, replaced>>

Search(fresh, reads, bounded) ==
  LET renews == fresh \/ snapshot = None
      upTo == IF renews THEN Len(capture) ELSE snapshot
  IN /\ consumed = << >>
     /\ renews => Indexed(bounded)
     /\ \E slice \in {Slice(IF renews THEN Renewed(scan) ELSE scan, upTo, reads, bounded)} :
          /\ replaced' = (replaced \/ (scan.from # None /\ scan.missing # {} /\ slice.scan.below # scan.below))
          /\ IF slice.kind = "more"
             THEN scan' = slice.scan /\ snapshot' = upTo /\ UNCHANGED <<consumed, answer>>
             ELSE Ended(slice, upTo)

ScanInit ==
  /\ \E first \in SUBSET Captured, point \in Points, carried \in [Numbers -> Counts] :
       /\ capture = [i \in 1 .. Cardinality(first) |->
                       [exchange |-> Ascending(first)[i], count |-> carried[Ascending(first)[i]], large |-> FALSE]]
       /\ at = point /\ prior = Cardinality(first)
  /\ lost = {} /\ faults \in FaultSets
  /\ scan = NewScan /\ snapshot = None /\ check = "none"
  /\ closing = FALSE /\ storing = TRUE
  /\ consumed = << >> /\ concluded = "none"
  /\ answer = NoAnswer /\ replaced = FALSE

(* The proxy records a request; the exchanges of two connections come in any order. *)
Capture ==
  /\ \E e \in Numbers \ Entries(Len(capture)), n \in Counts, huge \in BOOLEAN :
       /\ huge => "body too large" \in faults
       /\ capture' = Append(capture, [exchange |-> e, count |-> n, large |-> huge])
  /\ UNCHANGED <<lost, faults, at, prior, scan, snapshot, check, closing, storing, consumed, concluded, answer, replaced>>

BodyLost ==
  /\ "body lost" \in faults
  /\ \E e \in Entries(Len(capture)) \ lost : lost' = lost \union {e}
  /\ UNCHANGED <<capture, faults, at, prior, scan, snapshot, check, closing, storing, consumed, concluded, answer, replaced>>

BodyBack ==
  /\ \E e \in lost : lost' = lost \ {e}
  /\ UNCHANGED <<capture, faults, at, prior, scan, snapshot, check, closing, storing, consumed, concluded, answer, replaced>>

(* The page asks.  For a message it was told is observed the code answers at once, as Known would. *)
Check ==
  /\ check = "none" /\ ~closing
  /\ check' = "asked"
  /\ UNCHANGED <<input, scan, snapshot, closing, storing, consumed, concluded, answer, replaced>>

(* A turn of the check: a slice, and then the next turn unless it ended or its budget is spent. *)
Step ==
  /\ check # "none" /\ ~closing
  /\ \/ Known /\ check' = "none"
     \/ check = "asked" /\ NotIndexed(TRUE) /\ check' = "none"
     \/ check = "reading" /\ snapshot = None /\ NotIndexed(TRUE) /\ check' = "none"
     \/ \E reads \in 1 .. SliceRequests :
          /\ Search(check = "asked", reads, TRUE)
          /\ IF snapshot' = None THEN check' = "none" ELSE check' \in {"reading", "none"}
  /\ UNCHANGED <<input, closing, storing, concluded>>

CheckStops ==
  /\ check # "none" /\ closing
  /\ check' = "none"
  /\ answer' = [NoAnswer EXCEPT !.status = "incomplete"]
  /\ UNCHANGED <<input, scan, snapshot, closing, storing, consumed, concluded, replaced>>

(* The closing finish, or one the control socket asks for: the whole search in one turn, and the *)
(* consequence, once, if the store takes it. *)
Finish ==
  /\ concluded = "none"
  /\ Known \/ Search(TRUE, 2 * Cardinality(Numbers) + 1, FALSE)
  /\ concluded' = IF storing THEN answer'.status ELSE concluded
  /\ UNCHANGED <<input, check, closing, storing>>

BeginClose ==
  /\ ~closing /\ "workbench closes" \in faults
  /\ closing' = TRUE
  /\ UNCHANGED <<input, scan, snapshot, check, storing, consumed, concluded, answer, replaced>>

StoreFails ==
  /\ storing /\ "store fails" \in faults
  /\ storing' = FALSE
  /\ UNCHANGED <<input, scan, snapshot, check, closing, consumed, concluded, answer, replaced>>

ScanNext ==
  \/ Capture \/ BodyLost \/ BodyBack
  \/ Check \/ Step \/ CheckStops \/ Finish \/ BeginClose \/ StoreFails

ScanSpec == ScanInit /\ [][ScanNext]_scanVars

(* A check is driven by the event loop (weak fairness of its turns, which are enabled while it runs); *)
(* that the page asks again is the operator's doing. *)
ScanFairSpec ==
  /\ ScanSpec /\ WF_scanVars(Check)
  /\ []<>(check = "none") \/ []<><<Step \/ CheckStops>>_scanVars

-----------------------------------------------------------------------------
Entry == [exchange : Numbers, count : Counts, large : BOOLEAN]
Statuses == {"none", "observed", "known", "incomplete", "not-observed"}
Scans == [from : Nat \union {None}, baseline : 0 .. Infinite \union {None}, below : Numbers \union {None},
          retry : SUBSET Numbers, next : Nat, seen : SUBSET Numbers, missing : SUBSET Numbers]
Answers == [status : Statuses, exchange : Numbers \union {None}, from : Nat \union {None}, upTo : Nat,
            missing : SUBSET Numbers]

ScanTypeOK ==
  /\ capture \in Seq(Entry) /\ lost \subseteq Numbers /\ at \in Points
  /\ faults \in FaultSets /\ prior \in 0 .. Len(capture)
  /\ scan \in Scans
  /\ snapshot \in 0 .. Len(capture) \union {None}
  /\ check \in {"none", "asked", "reading"}
  /\ {closing, storing, replaced} \subseteq BOOLEAN
  /\ consumed \in Seq(Numbers) /\ concluded \in Statuses /\ answer \in Answers /\ answer.upTo <= Len(capture)

(* The rule over the part of the capture the last answer was given for. *)
Answered == Increases(Entries(answer.upTo), answer.from)

(* A finding is an increase and, unless a newer baseline was found while bodies were missing, the *)
(* earliest one but for those whose body the search could not read: lost bodies, late requests and *)
(* checks that stop between slices do not make it skip one (contracts/intervention.ts:417-421).  It is *)
(* recorded once, though a finish may run between two slices of a check. *)
FindingsAreFirst ==
  /\ Len(consumed) <= 1
  /\ answer.status = "observed" =>
       /\ answer.exchange \in Answered
       /\ replaced \/ \A e \in Answered : e < answer.exchange => e \in answer.missing

(* While findings can be recorded, "not observed" is said only when no request of the capture, *)
(* as it was read, carries the message once more: not when a body was lost, too large or recorded *)
(* behind the place the search had reached. *)
NegativesAreComplete ==
  answer.status = "not-observed" /\ storing /\ answer.from # None => Answered = {}

(* An operator who goes on asking is told of a consumption that is in the capture: each check goes on *)
(* from where the last one stopped. *)
Quiet == lost = {} /\ (\A i \in 1 .. Len(capture) : ~capture[i].large) /\ Indexed(TRUE)
Shown == From(Len(capture)) # None /\ FindConsumption(Entries(Len(capture)), From(Len(capture))) # None

ConsumptionIsFound ==
  <>[](Quiet /\ Shown /\ storing /\ ~closing) => <>(consumed # << >>)

(* What contracts/intervention.ts:289-290 says of the scan, and lines 417-421 of its retries. *)
SameRule ==
  /\ answer.status = "observed" =>
       \A e \in Answered : e < answer.exchange => e \in answer.missing
  /\ answer.status = "not-observed" /\ answer.from # None => Answered = {}
===============================================================================
