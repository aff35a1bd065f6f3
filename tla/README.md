# Endophasia: specifications

TLA+ models of the parts of endophasia that decide what is recorded, what reaches a live agent
and who may write, with TLC configurations that check them on small instances and TLAPS proofs of
the results that matter most.  Every definition is translated from the TypeScript source;
`PROJECT.json` maps each one to its lines.

## 1. The system

Endophasia is a workbench around a coding agent it does not own.  Pi runs as a child process and
speaks a line protocol.  One Node.js process attaches to it, records what it does in a store root
on disk, and lets an operator intervene: a page in a browser or a client of a control socket asks,
the operator approves on the controlling terminal, and only then are bytes written to Pi.  Beside
it a recording proxy captures the model calls Pi makes, which are later searched for what the
operator sent, and several processes write work attempts, receipts and evidence below one workspace
without a common lock.  An agent of the Agent Client Protocol can be attached instead of Pi.

```
 page (HTTP) ---> broker + interventions ---+
                      |        ^            v
                terminal approver      intervention desk ---> consumption scan --> captured requests
                                         ^       |                                      ^
 control client --> control socket ------+       v                                      |
 host (attach --control): finish, close     session attachment --> line connection --> Pi (own process group)
                                                 |                                      |
                          lifecycle fold <--- event store --> frame log           recording proxy
                                          (one writer lock)                             |
 ACP client --> agent (JSON-RPC)                                  capture log --> async queue --> frame log, blobs
 evolution --> evidence ledger --> frame log, identity file, snapshot
 attempts, receipts --> write-once files   (many processes, no lock)
```

### Components, their state, and what makes them correct

| Component (source) | State | Operations | Correct when | Module |
|---|---|---|---|---|
| Write-once files (`storage/write-once.ts`) | temporary and final names, bytes, what is fsynced | write, sweep, read | a name holds nothing or one whole record for ever; every answer is true | `WriteOnce` |
| Command broker (`adapters/pi/workbench.ts`, `workbench-interventions.ts`) and approver (`cli/workbench.ts`) | requests, approval slot, grants, attempts | pair, prompt, attempt, steer, queue, stop, withdraw, approve, send, reply, end | one question at a time; nothing sent unapproved, unrecorded, ungated or twice; views true; every approval ends | `Workbench` |
| Intervention desk (`adapters/pi/intervention.ts`), control socket (`cli/control.ts`), host (`cli/harness.ts`) | chains on record, applies in flight, waits of two finishes, phase of the close | propose, authorize, apply, reply, finish, close, rebuild | a proposal written at most once over clients and processes; one consequence; the close ends | `Desk` |
| Consumption scan (`runtime/contracts/intervention.ts`, the desk's steps, `cli/intervention-capture.ts`) | place in the capture, baseline, bodies lost, requests seen | slice, resume, retry, check, closing search | the finding is the earliest readable one, recorded once; nothing is concluded from what was not read; who goes on asking is told | `Consumption` |
| Session attachment (`adapters/pi/attachment.ts`, `lifecycle.ts`) | indexes over the store, cursor, catch-ups queued, close stage; the fold's state | open, repair, connect, reconnect, catch up, live events, controls, exit, close, terminate | the stored lifecycle is the fold of what is stored; every entry once, none skipped; runs alternate; the close ends | `Attachment` over `Lifecycle` |
| Writer lock (`adapters/pi/attachment.ts`) | lock file, openers' steps | take, probe, replace, release | one writer of a root; a stale lock is replaced; nobody leaves a lock behind | `WriterLock` |
| Line connection (`adapters/rpc-jsonl/rpc-connection.ts`, `process-group.ts`) | ids, waiting calls, call stack, notices, close stages; the child's process group | request, answer, time out, fail, exit, drain, close, terminate, reap | an answer reaches its own call or nobody; what is told is true; nobody survives the group; the close ends | `Connection` over `ProcessGroup` |
| ACP client (`adapters/acp/client-v2.ts`) | runs, answers read and not yet seen, permissions, session and attachment ends | prompt, cancel, reports, permission, closeSession, close, exit | nothing is approved or sent for what ended; runs are attributed and alternate; a refused close changes nothing; everyone is told | `AcpClient` |
| Frame log (`storage/log.ts`) | frames, tail, what is synced | append, read, cut, recover | what was acknowledged stays; nothing is destroyed | `FrameLog` (operators) |
| Event store (`storage/event-store.ts`) | memory over a frame log | open, ingest, close | a durable log, never ahead of its file, always openable | `EventStore` over `AppendLog` |
| Evidence ledger (`storage/ledger.ts`, rules of `evolution/evidence.ts`) | log, identity file, snapshot | open, append, snapshot | replays with full validation; acknowledged records stay | `EvidenceLedger` |
| Recording proxy's log (`adapters/openai-proxy/capture-log.ts`, `storage/async-append.ts`, the order of `record.ts`) | queue, log, blobs, failures counted | record, mark interrupted, idle, close | bodies before events; each exchange ends once; lost or counted | `CaptureLog` |
| Workbench HTTP, live transcript, develop tasks, registry, blobs, key file | one-turn or folded state | pair, route, fold, replace | section 8 | not modelled |
| Mappings, importers, projections, graph, policies, lab, models, trust, git, sandbox, commands, studio UI, schemas | none that outlives a call, or in-memory only | pure translation | section 8 | not modelled |

### What is hard here

- **Turns of one event loop.**  Between two `await`s a handler is atomic; across them everything it
  read may have changed: the operator types for minutes while the grant expires, the run ends, Pi
  exits, another process spends the attempt.  The modules take one uninterrupted turn as one action.
- **Code called in the middle of a turn.**  `request()` runs getters of the command it copies and
  observers of what it writes, an ACP record runs its observers, and each may call back in:
  `Connection` and `AcpClient` have the call stack as a variable.
- **A promise settled is not a promise seen.**  Between an answer being read and the call it belongs
  to going on, other messages are read (`AcpClient`, `woken`).
- **Two drivers of one desk.**  The page and the control socket do not know of each other; the
  finish of a socket message and the finish of the host wait side by side; a check that yields
  between slices meets the closing search.
- **Silence.**  Pi may answer late or never, its exit may be reported before its last output is
  read, and what was written without an answer is neither refused nor accepted.
- **One step of several failing.**  Memory changes before the file does, in every store.
- **Stops.**  The process dies (written bytes stay) or the machine stops (unsynced bytes go), between
  an event and what it implies as well.
- **Processes that are not ours.**  A child that ignores SIGTERM, forks, or loses the keeper of its
  group; an owner that dies first.
- **Many processes, no lock.**  Write-once files and the lock file rely on what single system calls
  promise, and each step is a system call.

`PROJECT.json` lists each of these hazards at its line with the properties aimed at it.

## 2. Modules

| Module | Role |
|---|---|
| `WriteOnceRecord` | abstract: a record name holds nothing or one call's record; calls are told the truth |
| `WriteOnce`, `MCWriteOnce`, `Files_proofs` | the directory, a system call a step; implements `WriteOnceRecord` |
| `Workbench`, `MCWorkbench`, `Workbench_proofs` | broker, interventions and terminal as one event loop, Pi as an environment |
| `Desk`, `MCDesk`, `Desk_proofs` | desk, control socket, page and host; several processes one after the other |
| `Consumption`, `MCConsumption`, `Capture_proofs` | the search for a sent message in the captured requests, against the rule it stands for |
| `Lifecycle`, `Recording_proofs` | the fold of recorded events into lifecycle events (pure operators) |
| `Attachment`, `MCAttachment`, `Recording_proofs` | the recorder of a Pi session over `Lifecycle`, with Pi and its session file as environment |
| `ProcessGroup` | the child, its keeper and the operating system |
| `Connection`, `MCConnection`, `Connection_proofs` | one line connection over `ProcessGroup` |
| `AcpClient`, `MCAcpClient`, `AcpClient_proofs` | an attachment of an ACP v2 agent |
| `WriterLock`, `MCWriterLock`, `Files_proofs` | processes racing for the lock file |
| `FrameLog` | what each system call, a stop and damage make of one log file |
| `AppendLog` | abstract: what was acknowledged stays in order |
| `EventStore`, `MCEventStore`, `Recording_proofs` | event store over `FrameLog`; implements `AppendLog` |
| `EvidenceLedger`, `MCEvidenceLedger`, `EvidenceLedger_proofs` | ledger over `FrameLog` with identity file and snapshot |
| `CaptureLog`, `MCCaptureLog`, `Capture_proofs` | the proxy's queue over `FrameLog` and the blob store |

### How state and actions correspond to the code

**WriteOnce.**  `temporary`, `final` and `flushed` are the directory, `body` the inodes, `pc` the
place in `writeOnceSyncV0`.  A call stands for its random temporary name, inode and bytes.  `Sweep`
is one iteration of `sweepTemporariesSyncV0`, which takes any file a minute old, including one of a
stalled writer.  `Fail` is any system call throwing before the link, `Return` the `finally`
block.  `PowerLoss` may cut unsynced bytes and drop unsynced names.

**Workbench.**  `req[r]` is the broker's or the interventions' object of one request: its view
(`state`), the approver call (`question`), its grant, window, abort and supersession, and `chain`,
the records written of it.  `screen` holds the unanswered approver calls.  `Propose` is
`prompt`/`attempt` up to the approver call, `Intervene`, `StopSupersedes` and `StopAsks` the
interventions' `propose` and the start of `#drive`; `NotApproved`, `Denied`, `GateRefuses`,
`AttemptRefused`, `DispatchUnrecorded` and `Send` are the ways the one turn from the answer to the
write can go; `Accepted`, `OddReply`, `DeclinedByPi` and `LostReply` the ways the reply can.
Bytes, digests and phrases are the identity of the request.

**Desk.**  `chain[p]` is what the event store holds of a proposal, so it survives `Crash` and
`Reattach`; `flight`, `view`, `control` and `host` are memory and do not.  `Apply` and
`PageApplies` go from the duplicate check through the gate and the request's record to the write,
one turn in the code.  `ControlFinish` and `HostFinish` snapshot the applies in flight (`settled`),
`ControlConcludes` and `HostConcludes` are the loop over the requests after the wait, which either
ends or times out.  `phase` is the host's progress in `attachWithControl`.  A recorded outcome or
a consequence never goes back; `due` is a history variable.

**Consumption.**  `capture` is the list of captured requests in the order they were recorded, each an
exchange number and how many of its messages carry the text (`count`); `scan` is the
`ConsumptionScanV0` with its fields.  `Slice` is `endoSliceConsumptionV0` from the placement
(`Placed`) over the baseline (`Based`), the late requests (`WithLate`) to the bodies read
(`Advanced`); `Search` is the desk's `#step`, `Step` one turn of the workbench's check, `Finish` the
closing search with its consequence.  `FindConsumption` is the rule written down without a scan: the
properties compare the two.  Exchange numbers are unique, as in one recording; the byte limit of a
slice is that a slice may read any number of bodies up to `SliceRequests`.

**Attachment.**  `stored` is the store, which keeps what it acknowledged; everything else dies with
the process (`Killed`, which may keep any prefix of the writes under way).  An action is one turn up to
its next `await` and leaves what it records in `todo`; `StoreNext` ingests one event and what the fold
derives of it.  `OpenSession` rebuilds the indexes and repairs the lifecycle, `Launch` to `Identified`
are `openSession` and `reconnect`, `queue` and `reading` the chain of catch-ups, `StartRead` to
`ReadFails` their ways (what answers a read that was given up is nobody's), `Hears` a line of Pi,
`ExitReported` and `Drained` the two ends of a process.  Pi answers, appends to its file, announces
entries, reports events and exits as the scenario allows; `Rewritten` is a session file whose cursor
is gone.

**Lifecycle.**  `Step` is `piLifecycleStepV0`: the kinds an event implies (`Implied`), what it does to
the run (`RunAfter`) and the identities of the derived events.  `Fold` is `piLifecycleFoldV0`, the step
folded over a stream, and `Selected` what a filter keeps of one, both recursive functions.

**Connection, ProcessGroup.**  `nextId` and `unsent` are the connection's fields (`unsent` keeps, for
each id, those given back before it, which is the order of the JavaScript `Set`); `pending` is the
map from ids to waiting calls, `req` the calls themselves.  `frames` is the call stack: a command
being copied, a notice being told, a failed write being reported.  While it is not empty, no timer,
answer or exit is handled.  `Call`, `Refuses` and `Writes` are `request`; `Tells` one turn of
`#announce`; `WriteFails`, `MarksUnsent` and `InputFailed` the callbacks of a broken input; `Hears`
and `Response` one decoded answer; `ExitSeen`, `OutputCloses` and `DrainExpires` the three ways
`terminated` resolves; `SendsTerm`, `SendsKill`, `Reaps` and `Released` the timers of the close.
`ProcessGroup` has the keeper, the command and a child of it: the operating system ends them when
killed, the keeper kills its own group when the owner's socket closes.  `writers` are those who hold
the command's output open: a process may close or redirect it and run on (`LeavesOutput`), and the
output ends when nobody holds it, whoever still runs.  Modelled is a system with
`/proc`, where the members of a group can be seen.

**AcpClient.**  A run opened by `prompt()` stands for the call too: `call` is where the call is,
`answer` what was read of it, `outcome` what it saw, `completed` what its waiter was told.  `stack`
holds what is left of each callback that is calling an observer; a call made while it is not empty
is the observer's.  A decision of the operator is two steps: `PermissionDecided` checks that it may
approve and begins the record, `PermissionGoesOn` answers the agent once the observer has returned;
what the observer does between them comes first.  `log` is what was recorded and sent, in order, which
most properties speak of (`approves` is the record of an approval, `approved` its answer).

**WriterLock.**  `OpenRoot` is the call of `acquireWriterLock`; `Create`, `WriteOwner`, `ReadOwner`, `Probe`
and `Remove` are its system calls, in its order, with its two attempts, and `Release` the release.  One
`writeFileSync` is two calls: the file is created, then written.  `DiskFails` is a call on the file that
fails: the open throws and undoes nothing, so a failed write leaves the new file blank or whole.
`ReleaseFails` is a release that is marked done and leaves the file.  `left` says that the creator of
the file now there was failed in one of these ways.

**FrameLog and the stores over it.**  A log is the frames a reader accepts, what ends them (nothing,
a torn frame, a corrupt one), the frames behind that which nobody reads, and how many a stop cannot
take.  In `EventStore`, `EvidenceLedger` and `CaptureLog` a step is a system call that changes a
file (a new file written, synced and renamed over an old one is one step that may fail before or
after the rename).  `mem` changes before the log does, as in the code.

The external definitions of the map are the operating system ending a process or a machine, the
medium, the child's side of its pipes, Pi and its session file, the proxy's captures, the agent's
answer to a close and the operator's decision: each is modelled from how the code uses it.

## 3. Runs

Two workers; every run finishes in about three minutes or less.

| Run | Instance | States | Shows |
|---|---|---|---|
| `writeonce` | 3 writers, 1 name, a call each | 246k | `NothingByHalves`, refinement of `WriteOnceRecord` (whole, never replaced, true answers), calls return |
| `workbench` | 2 requests, 1 attempt, 1 pairing, all six faults | 619k | `QuestionsInTurn`, true views, on record before sent, attempts once, sends gated, every approval ends |
| `desk` | 1 proposal, 2 decisions, 3 processes, all faults | 494k | written once over crashes, on a recent decision; one consequence; what was sent before the finish is concluded; the close ends |
| `consumption` | 3 exchanges, slices of 1 or 2 bodies, three sets of faults | 558k | `FindingsAreFirst`, `NegativesAreComplete`, who goes on asking is told |
| `attachment` | seven scenarios (below) | 436k | stored lifecycle is the fold, `EntriesRecordedOnce`, runs alternate, the close ends |
| `connection` | five scenarios (below), caps of 2 | 503k | `ToldTruly`, `NobodyIsLeft`, the close ends, a group ends with its owner |
| `acp` | seven scenarios (below) | 475k | `NothingForWhatEnded`, `RunsAreTrue`, a refused close changes nothing, `EveryoneIsTold` |
| `lock` | 3 processes, 2 opens each, exits, calls on the file that fail | 102k | `LockIsSound`, stale locks replaced |
| `lock_two_writers` | the same | violation | finding, below |
| `event_store` | 3 events, 4 opens, stops, failed writes, damage | 859k | `LogIsSound`, nothing destroyed, refinement of `AppendLog` |
| `ledger` | 5 records that refer to each other, 5 opens, all faults | 148k | `LedgerIsSound`, acknowledged kept |
| `capture` | 1 number in each of 3 recordings, 2 failures, all faults | 129k | bodies first, lost or counted, `MarkedOnce`, the queue drains |

A property named above that is a conjunction joins what one part promises together:

- `NothingByHalves`: no name links half a record, and a refused call left nothing.
- `QuestionsInTurn`: one question on the terminal, none for a superseded request.
- `LockIsSound`: while nobody died the lock excludes; a lock file is held, being taken, left by a
  process that died, or left by a creator whose own write or removal of it failed.
- `LogIsSound`: memory is the log, and the log opens again.
- `LedgerIsSound`: the same of the ledger, and its log replays.
- `MarkedOnce`: each exchange ends once, and an interrupted one is marked once over all opens.
- `ToldTruly`: answers reach their call, last words are heard before the exit fails a call, faults
  say what became of the id, observers see the writes in order.
- `EntriesRecordedOnce`: no event stored twice; once caught up, no entry missing.
- `NothingForWhatEnded`: an approval is decided on only for work still wanted, and between the
  decision and its answer there is nothing but calls of that record's own observer; no prompt is sent
  to what has ended.
- `RunsAreTrue`, `EveryoneIsTold`: attribution and order of runs; permissions, calls and waiters.
- `NobodyIsLeft`: once a group was reaped, whoever is left of it was sent SIGKILL.

**Why the bounds are enough.**  `writeonce`: a replaced or half-told record takes a winner, a loser
and a sweeper; names share nothing but the sweep, which does not look at the name.
`workbench`: the slot, the supersession and an attempt's double use each involve two requests; a
withdrawn grant is a grant that expired, so one pairing is enough for a stale grant (the proofs
cover more).  `desk`: across processes nothing but the chain is shared, so one proposal and three
processes (record, fold, fold again), with two decisions so that one may age while the other is
used; what one proposal can do to another is the shared wait of a finish (`MCDesk.cfg`, below).
`lock`: the race needs a holder that died, a remover and a late comer, and what a
failed call leaves is met by its own process and by others.  `event_store`: three frames
are one before, one at and one behind the damage, and four opens a recovery interrupted twice.
`ledger`: records with each rule once (a reference, a selection over a holdout result), opens for a
frame in doubt, a snapshot over it and a stop.  `capture`: a marker lost, repeated and found again
takes three recordings.  `consumption`: a baseline, a request behind it and one between them that
comes late or was lost are three exchanges; with four exchanges the two safety properties were
checked by hand (12.2M states).

Where the product of everything that may happen is too large, a module has a set `Bounds` of
*scenarios* (chosen in `Init`, fixed in `bound`), each of which gives budgets to the happenings that
meet in one kind of hazard.  `connection`: four nested calls with a broken input (an id given back
below one that is reserved, past the cap of two), three calls with two answers, two calls on a child
that also exits or is closed, one call through everything that may happen to a command alone, and one
through everything that may happen to a command that forks and leaves its output.
`attachment`: `Crashes` (runs over a crash and a Pi that ends by itself), `Turns`, `Reads` (a
reconnect and a rewritten session), `Reopens`, `Ends` (every end at every moment), `Lives` (the
events of a run in any order), `Announced`.  `acp`: `Prompts` (two, with every answer and four
reported states), `Observers` (two nested calls), `Decisions`, `Refusals` (two closes of the session,
two runs), `Ends`, `EndsAsked`, `Inside` (two calls in the record of a decision).  The combinations left out are those of happenings of two scenarios.

`Faults`, `MaxCalls`, `MaxGrants`, `MaxOpens`, `MaxFailures` and the fields of `Bounds` bound what
the code does not.  Deadlock is not checked where these make the model stop (all but `writeonce`).
Symmetry is used only where no liveness is checked and the permuted values are told apart by nothing
in the model.

### Disagreements between the code and what it says

`lock_two_writers` expects a violation of `OneWriter` and is the finding in `PROJECT.json`: a dead
holder's lock is read by two openers; one replaces it, the other then removes the new lock by name.
Two processes hold the root.  `Exclusion` says what does hold: the lock excludes while no process
has died.

Eight more configurations violate what a comment or a document says.  They are kept to be run by hand
(`tlc -config MCX.cfg MCY`) and are not among the listed runs:

| Configuration | Property | What happens |
|---|---|---|
| `MCDeskConcluded.cfg` (`MCDesk`) | `EveryRequestConcluded` | The control socket still applies while the host's finish runs or after it; the request reaches Pi and the session closes without its consequence. |
| `MCEvidenceLedgerInDoubt.cfg` (`MCEvidenceLedger`) | `SnapshotIsHarmless` | A process dies between write and sync, the next one reads the frame and takes a snapshot; the machine stops before the log is rewritten.  The snapshot covers a frame the log lost, and no open succeeds. |
| `MCCaptureLogUncounted.cfg` (`MCCaptureLog`) | `IdleMeansOnDisk` | After a short write the queue appends behind the torn frame and reports success; no reader finds those frames and nothing counts them. |
| `MCAttachmentAnnounced.cfg` (`MCAttachment`) | `CaughtUpAnnounced` | Pi announces entries as it appends them (`docs/pi-attach-inventory.md:168-169`).  After a reconnect an announcement moves the cursor past entries that were never announced to this process, and no catch-up reads them. |
| `MCAcpClientTwoPrompts.cfg` (`MCAcpClient`) | `AcceptedIsOwn` | The refusal of one prompt and the acceptance of the next are read before the first call goes on; a call is returned the other's message (`client-v2.ts:845-846`). |
| `MCConsumptionSameRule.cfg` (`MCConsumption`) | `SameRule` | The scan says something else than the rule it stands for (`contracts/intervention.ts:289-290`): a finding whose record failed is passed by the next search; and a newer baseline found while forward bodies were missing makes the scan skip what it had to retry (`417-421`). |
| `MCWriterLockFailing.cfg` (`MCWriterLock`) | `NoOrphanOfTheLiving` | The lock is created, its write fails and the open throws (`attachment.ts:514`) without removing it.  Nothing holds the root, and every later open, also of the same process, is refused for ever: a lock that does not parse "is treated as held: never silently stolen" (`519`), so of a blank one the promise that a lock "left by a process that no longer exists is replaced" (`498`) fails too. |
| `MCAcpClientDecided.cfg` (`MCAcpClient`) | `ApprovalsReachWantedWork` | The record of an approval runs its observer before the response is returned (`client-v2.ts:1367`, `1379`).  An observer that cancels there, or closes, is sent first, and the approval follows, though "the client MUST answer every pending permission request with `cancelled` when it cancels active work" (`986`) and cancelling does so "even if the handler later approves" (`docs/acp-v2-study.md:156`): the permission is already taken off the pending ones. |

`MCDesk.cfg` is a larger instance by hand that passes: two proposals, one process, 2.2M states.

The safety properties of the listed runs state what does hold beside these: what was sent before the
host's finish began, openability unless a snapshot covers an unsynced frame, recorded-or-counted
unless a frame is torn, no entry skipped of a Pi that does not announce, findings first unless the
baseline was replaced, no lock of the living but by a failed call of its creator, approvals decided on
only for work still wanted.  Behaviours the models contain and no run singles out:

- a malformed control line with a dead store throws inside the serial queue, which nothing catches
  (`Desk!Malformed`, `cli/control.ts:153`);
- the page's view of a proposal may say `refused` although the control socket sent it: withdrawing
  on the page does not look at the desk (`Desk!PageRefuses`, `workbench-interventions.ts:598`);
- a ledger whose identity file cannot be written stays in use with a record its log lacks
  (`EvidenceLedger!IdentityFails`, `storage/ledger.ts:268`), so its properties are stated of ledgers
  in which that did not happen (`Named`);
- a marker of an interrupted exchange that fails to be written leaves its number to the next
  recording's exchange of that number (the exception in `MarkedOnce`);
- an id whose write failed is given back while its call still waits, and may be reserved again
  (`Connection!Release`, `rpc-connection.ts:726`): the new call takes the entry of the id over, nothing
  but its own timer ends the old one, and that timer removes the new call's entry;
- a permission that is decided while a close of the session is in flight is answered "cancelled"
  even if the close is refused (`AcpClient`, `docs/acp-v2-study.md:177` against `:198`);
- many oversized or lost bodies can use up the budget of every check of the page: `ConsumptionIsFound`
  is stated of captures that can be read (`Quiet`).

## 4. Liveness and fairness

Liveness is checked by TLC only.

- `CallsReturn` (`writeonce`): weak fairness of the steps that follow a program point.  A call is
  synchronous; only a kill stops it, and a kill also leaves the call.
- `ApprovalsSettle` (`workbench`): weak fairness of the approval timer, of releasing an aborted
  question, and of the turns that follow a settled promise.  Nobody has to type, ask or answer.
- `CloseEnds` (`desk`): weak fairness of the two waits (each has a timer) and of closing the
  store; strong fairness of closing the session, because new lines on connections that are already
  open can disable it for a time, but each such connection carries one line and the client times
  out, so they run out.  Pi's reply is not assumed.
- `CloseEnds`, `GroupEndsWithOwner` (`connection`): weak fairness of the code that runs on a call
  stack, of the loop's events and timers, and of a process that was sent SIGKILL to end.  Nothing is
  assumed of the child: it may ignore its input and SIGTERM, and no request timer is needed.
- `CloseEnds` (`attachment`), `EveryoneIsTold` (`acp`): weak fairness of one action, `Goes`, which is
  whatever the code and its environment owe: code runs on, a process told to end does, output is
  read, a request that is not answered times out.  It suffices because every scenario's graph is
  acyclic: each step spends a budget or moves something to its end.  Pi's answers, the operator's
  decisions and the agent's reports are not owed.
- `ConsumptionIsFound` (`consumption`): weak fairness of asking (an operator who goes on asking is the
  assumption of the property) and of the turns of a check, written out as "checks end again and again
  or turns go on".
- `StaleLockReplaced` (`lock`): weak fairness of each opener's system calls.
- `QueueDrains` (`capture`): weak fairness of the queue: the threadpool's calls return, with an error
  or without.

## 5. Theorems

Proved for every value of the constants, from the ASSUMEs of the modules only (bounds are naturals,
`None` is not a value of the set beside it).  The instances of section 3 do not matter to them: they
hold for any number of processes, requests, entries, events and exchanges, and any scenario.

**`Files_proofs`**, first part (`WriteOnce`).  `TypeCorrect`, `RecordsAreWhole`, `RefusalsLeaveNothing`,
`RecordsAreNeverReplaced`, `ImplementsRecord`, and `NoHalfRecords` for the run's `NothingByHalves`.
None of the properties is inductive: that a linked
record is durable needs to know that the writer at its link step has synced (`CallOK`), and that a
refused call left nothing needs that its inode is under no name before the link and that a call not
yet begun left no trace (`UnbegunInv`).  `ImplementsRecord` maps a link to `Take`, a fsynced
directory to `Keep`, the three answers to `Tell...`, a power loss to `Lose` and the rest to
stuttering.

**`Files_proofs`**, second part (`WriterLock`).  `LockTypeCorrect`, `OwnedLock`
(`OnlyFailuresOrphan`), `Exclusion`, and `SoundLock` for the run's `LockIsSound`, with calls on the
file that may fail at any step.  While nobody has died nobody reaches the removal, because whoever is
read from the file answers the probe (`Exclusive`); a death is for good (`DeathIsForGood`), so that is
an invariant.

**`Workbench_proofs`.**  `TypeCorrect`, `OneQuestionAtATime`, `SupersededNeverSent`, and from these
`QuestionsTakeTurns` for the run's `QuestionsInTurn`; `ViewsTruthful`,
`SentOnRecord`, `AttemptsSentOnce`, `SendsGated`.  The invariant says what a request's record looks
like in each of its states (`RequestOK`), that two requests await approval only when one is a stop
waiting for the other (`SlotInv`), and that a superseded request that has not settled has its
waiting stop (`StopInv`).  Without the last one, `SlotInv` could not be kept by a third request
made while the stop waits.

**`Desk_proofs`.**  `TypeCorrect`, `AtMostOnce`, `ConsequenceOnce`, `SentBeforeFinishConcluded`,
`AllowedWrites`.  `Coherent` relates a proposal's chain to its write and its apply in flight: what
was written has its request on record, only what has no outcome is in flight.  `Covered` carries
what the host's finish owes through the wait: everything due is sent, and concluded once the host
has stopped waiting, unless the store died.

**`Connection_proofs`.**  `TrueWords`: `ToldTruly` (an answered call was given its own answer, a call
fails with the exit only when no answer to it was left in the drained output, a fault says truly
whether its id was ever sent, observers see the writes in their order) holds for any number of calls,
however they nest, and any cap on the ids remembered.  `GroupReaped`: `NobodyIsLeft`, also
of members that left the output before it drained.
The invariant has four parts that stand on one another.
*Calls* (`CallInv`): a call is in one place at most (`Places`); no two hold one id, and every id up to
the counter is held, given back or forgotten (`IdsKept`), which is why a late answer finds either its
own call or none (`Waits`, `Answers`).
*The end* (`Settled`, `EndInv`): whoever was answered in what was heard no longer waits, so after the
drained output no such call is left to fail with the exit.
*Order* (`Ordered`, `Telling`): notices told and to be told are together the writes in their order,
though a notice may make a call of its own while it is told.
*The group* (`GroupInv`): an owner that has seen the keeper end has already killed whoever was left,
and one that has not sends the last signal through the group the keeper still leads.

**`Recording_proofs`**, first part (`EventStore`).  `TypeCorrect`, `SoundLog` (`LogIsSound`), `NeverDestroyed`
(`NothingDestroyed`) and `DurableLog` (`ImplementsAppendLog`), for any events and any number of opens.
The invariant (`IInv`) follows a frame from the write to wherever it ends up.  `OnDisk`: there are
frames behind the ones a reader accepts only where every accepted one is synced, so a stop of the
machine cannot mix the two.  `Recovering`: an open cuts a log only after its tail has been kept beside
it.  `InMemory` and `Shown`: without damage the memory of a store in use is the log, one event ahead of
it during an append.  `Kept`: an acknowledged event is among the synced frames, behind them, kept
aside or damaged.  `Kept` survives a cut by `Recovering`, and a stop of the machine, which takes what
is behind unsynced frames, by `OnDisk`.  For the refinement a write is `Put`, a sync `Acknowledge`, a
stop of the machine `Lose`, everything else stutters; `HasLast` gives the last acknowledged frame that
the mapping chooses.

**`Recording_proofs`**, second part (`Attachment` over `Lifecycle`).  `RecorderTypeCorrect`,
`StoredIsFold` (`LifecycleIsFold`), `RunsAlternate` (`RunsConcluded`), `StoredOnce` (`RecordedOnce`) and
`EntriesOnce` (`EntriesRecordedOnce`), for any scenario: any number of opens, crashes, instances,
entries, events and controls.  The invariant (`RecorderInv`) has four parts.
*Types* (`RecorderTypeOK`) of what is stored, under way, read and written, with what Pi sent.
*The fold* (`FoldOK`): whatever was recorded, the fold of it is typed, derives each identity once and
only from an event that was recorded, and its runs alternate, the last one as the state of the fold says.
*Each once* (`Once`): the index knows the identities stored, and no two stored events share one.
*What is owed* (`OweInv`): the lifecycle on disk is a front of the fold of what is recorded there, and
the rest of it is exactly what the code that runs now is repairing.  A crash between an event and what
it implies makes the front shorter; the next open repairs it before it records anything, so the order
stays the fold's.
That the stored lifecycle is the fold of *every* log is an induction over the log's length, which no
theorem of the library can be used for; here the invariant carries it, one ingested event a step, and
needs of the recursive `Fold` and `Selected` only how they unfold, which is shown by descent in the
naturals.

That no entry is skipped once the recorder has caught up (`CaughtUp`, the other half of
`EntriesOnce`) needs a second invariant, `CatchUpInv`, about what is on the way between Pi and the
store.  Entries are numbered as they are made, so a file increases (`NumbersOK`).
*What an answer covers* (`CoverOK`): a page holds all of the file up to its leaf that is not yet learnt,
and a read asks from a cursor with nothing unlearnt before it.  The cursor is safe for one of two
reasons.  Of a Pi that does not announce, entries are recorded in the order of the file
(`OrderOK`), also those a killed process was about to store.  Of one that does, an announcement could
overtake a catch-up; the first catch-up of a process reads from the start (`FirstFor`), and once it is
answered what is not recorded is announced, in turn (`ToldFor`).
*What is owed is coming* (`ComingFor`): it is learnt, or a second catch-up waits, or one waits that has
not asked, or the page on the way holds it.  This is why a turn that ends during a read queues another.
*One answer* (`OneAnswerFor`): at most one request or answer of a read is on the way and it is the
read's, so a late page is nobody's.  *Calls* (`CallsOK`): at most one connect is queued, and a client
in use was named before its first catch-up was queued.
The exclusion in `CaughtUp` of a second process of an announcing Pi is needed: there an announcement
may be recorded before the first catch-up and move the cursor past older entries
(`MCAttachmentAnnounced.cfg`).

**`EvidenceLedger_proofs`.**  `TypeCorrect`, `NothingAckedIsLost` (`AckedKept`) and
`TheLedgerIsSound` (`LedgerIsSound`), for any records and references.  The first needs that the
memory of a ledger in use is never shorter than its log (`Appending`): a compaction cuts the log to
the length of the memory, also after an identity file failed and the two have parted.  The second
holds of ledgers whose identity file was written when due, and needs that the record being
appended is one the *log* would take (`MemoryInv`), and that a snapshot no longer than the log is its
front even while it covers frames a stop may take (`SnapshotInv`).

**`Capture_proofs`**, first part (`CaptureLog`).  `TypeCorrect`, `BodiesFirst` (`BodiesBeforeEvents`), `NothingLostUncounted`
(`RecordedOrCounted`) and `MarkersAreRight` (`MarkedOnce`), for any exchanges, opens and failures.
The proxy numbers exchanges anew in every recording, which is what makes the markers hard.
`MarkInv` says that nothing of an exchange is behind its end, in the log or still queued (`NoClash`);
that the markers an open queues come before whatever the new recording adds (`MarkersFirst`); and that
the request of an earlier recording is settled, by an end or by a counted failure, or its marker is
still queued in front of everything of its number (`SettledOrQueued`), so it is settled before the
number is used again (`SettledBefore`).  That an open request has a *last* one, which the open marks,
is the well-foundedness of the naturals.

**`Capture_proofs`**, second part (`Consumption`).  `ScanTypeCorrect`, `TheFirstIsFound`
(`FindingsAreFirst`) and `NothingIsOverlooked` (`NegativesAreComplete`), for any number of exchanges,
any slices and any set of faults: a scan that stops, resumes and retries says of the capture what the
rule says that reads it once.  The invariant (`ScanOK`) is about one scan against the capture as it is:
it starts at the place of the delivery and met only what was captured (`Place`, `Within`); its baseline is the
count of the request it names, or that one is missing (`Grounded`); what it passed and need not read
again carries no more than the baseline or is missing (`Judged`); what it has to read again lies behind
it, unless a newer baseline was found since (`Behind`); and its answer is the rule's for the capture it
was given (`AnswerOK`).  Requests are told apart by their numbers (`Distinct`).  The exceptions in `Judged` and
`Behind`, a finding whose record failed and a baseline replaced, are the two ways of
`MCConsumptionSameRule.cfg` in which the scan departs from the rule.

**`AcpClient_proofs`.**  `TypeCorrect`, `NothingForWhatEndedHolds`, `RunsAreTrueHolds` and
`RefusedCloseHolds`, each for the property of its name, for any number of prompts, permissions and
nested calls.  The properties are about the log of what was recorded and sent, so the invariant says what
the log and the state know of each other: what is on record has happened (`Over`, `Stops`, `Ended`,
`Started`), a prompt that was withdrawn is never sent (`Withdrawals`), an open run was sent or is in the middle of its record (`Open`), and the close
under way knows what to restore if it is refused (`Closer`, `StopsAsked`).  Only the outermost callback is
the agent's (`Stacked`): everything above it on the stack was called by an observer, which may ask but
not report.  Each step then adds to the log at most one entry that may follow (`WhatIsSaid`).  That the answer of an
approval follows its decision needs that one decision at a time is between its record and its answer,
at the bottom of the stack (`Decisions`): while it is there the run stays the open one and only calls of
the observer can be said (`DecidedInside`).

Only checked by TLC: all liveness, `EveryoneIsTold` of `AcpClient` included, since liveness under
fairness is out of reach of the prover.

## 6. Composition

`FrameLog` is the shared file model of three stores (EXTENDS); `ProcessGroup` is the part of
`Connection` below the line protocol, and `Lifecycle` the fold that `Attachment` keeps.
`WriteOnceRecord` and `AppendLog` are instantiated with a refinement mapping.

`Workbench` and `Desk` model one session from two sides and
deliberately overlap in the desk's apply: `Workbench` has prompts, attempts, the terminal and the
page's three interventions with a store that only lives or dies; `Desk` has what survives the
process, the second driver and the close.  `Consumption` is the search behind one accepted request of
`Desk`, which takes its consequence as one step, abstractly; that this step comes once and with the
first matching capture is what `Consumption` checks.

What a module assumes of another, and where that is shown:

| module | assumes | shown by |
|---|---|---|
| `Workbench`, `Bind` | an attempt's authorisation is taken once, in one step | `WriteOnceRecord` (`ImplementsRecord`) |
| `Desk`, `Attachment` | what the store acknowledged is in every later open | `EventStore` (`NothingDestroyed`, `ImplementsAppendLog`) |
| `Desk`, `Attachment`, stores | a root has one writer | `WriterLock` (`SoundLock`, with its stated limit) |
| `Attachment`, `AcpClient` | a request is answered with its own answer or fails, and a close ends | `Connection` (`TrueWords`, `CloseEnds`) |
| `Consumption` | a body is on disk before its event is in the log | `CaptureLog` (`BodiesBeforeEvents`) |
| `Connection` | a killed process ends; its group is readable in `/proc` | the kernel |

## 7. Plan

Done, in this order: `WriteOnce`, `Workbench`, `Desk`, `WriterLock`, the stores over `FrameLog`, the
proofs of the first four; then `Connection` with its proofs, `Attachment`, `AcpClient`, `Consumption`; then
the proofs of the three stores; then those of `AcpClient`, `Consumption` and `Attachment` over `Lifecycle`.
Left:

1. `Attachment`: malformed and shrinking pages of catch-up, and the records of interventions, so that
   `Desk` can be put over its store instead of an abstract one.
2. `AcpClient`: the opening and replay of a session, and the v1 client's request per turn.
3. The synchronous capture log with its marker pass.
4. The fold of develop tasks over write-once records of several processes, and the registry over the
   frame log.
5. Pairing and the expiry of a grant, composed with `Workbench`'s page.

## 8. Not modelled

- *Pure translation*: event mappings, importers (DSH, OMP, Reef, Codex and others), protocol
  validators, projections for display, statistics, policies.  They keep no state between calls, and
  together they are most of the repository's lines.
- *Parsing and framing*: JSON lines, HTTP, relaying of bytes.  The models take decoded
  requests as inputs.
- *Other programs*: git, bubblewrap, the browser page.  What could go wrong is in their behaviour.
- *ACP*: the v1 client, which has the structure of the v2 one, and its translations.
- *Workbench pairing and HTTP*: a one-use code and its cookie are taken in one turn each; routes are
  inputs of `Workbench`.
- *Live transcript*: a bounded in-memory view of text for the page.
- *Develop tasks, attempts and receipts*: records are written through `WriteOnce`; the fold of a task
  is a pure reading of them.
- *Other stores*: blobs written beside and renamed, a registry and a task list over the frame log, the
  key file: each has one writer that ends its operation in one turn.
- *Commands*: experiments, cassettes and reports run one step after the other in one process.
- *File permissions, symbolic links, size limits and the loss of a whole directory entry of a log*:
  they fail closed at open, or depend on the file system.

Of the modelled components these parts are left out:

- `Connection`: answers to dialogs (no id, no wait), the capture of stderr, event listeners, the
  decoder of records (it keeps one unfinished line), Windows.
- `Attachment`: identification and the choice of a session, dialogs, malformed pages, diagnostics and
  the text of failures, a sealed store.
- `AcpClient`: negotiation, opening and replay of a session, `session/list`, the echo of a message,
  an agent that requires an action, observers that fail.
- `Consumption`: a recording that restarts its numbers, a request without a capture, the limit on
  concurrent checks.
- `WriterLock`: a process id that was used again makes a stale lock look held
  (`attachment.ts:524`); it fails closed.
