# Partitur, modelled and proved in TLA+

Partitur runs a *score* — a plan of *movements*, each performed by an
out-of-process adapter — and keeps everything that happened in an append-only
journal per run. Any number of `partitur` processes may work on one run at the
same time (`run`, `resume`, `approve`, `amend`, `cancel`, `answer`, `apply`,
`status`), each may die at any instant, and the next one must be able to go on
from the files alone. This directory holds the specifications of that core,
their TLC configurations and their TLAPS proofs.

## 1. Inventory

| Part (source) | State | Operations | Talks to |
|---|---|---|---|
| Journal (`runstore/journal.go`) | `journal.jsonl` | append with sequence number and idempotency key, torn-tail repair, read | everyone; it *is* the shared state |
| State lock and transactions (`runstore/transaction.go`, `statelock`) | `state.lock` (advisory, released by the kernel) | `Store.Mutate` | every writer |
| Projection (`runstate`) | pure function of the journal | `Apply(state, event)`: legality and effect of each event | every reader; a writer applies before it appends |
| Authority and lease (`runstore/driver.go`, `lease.go`, `recovery.go`) | `driver.lease`, the journal's authority epoch and owner | acquire, compare-and-swap mutate, release, reclaim a dead driver, terminate the owner, quarantine | drivers, committers, cancellation |
| Amendment prepare/commit (`runstore/prepare*.go`, `amendmentexec`) | `prepares/<id>.json`, `scores/revision-n.yaml`, `driver.quiesced.<id>` | prepare, acknowledge (drain, move lease to sidecar), commit or fence, abandon, clean up | `approve`, `amend`, the driver's auto approval, recovery |
| Cancellation (`runstore/cancellation.go`, `cancellation`, `cancelwait`) | `cancel.requested` in the journal | request, watch, execute, wait with deadline, terminate the owner | `cancel`, drivers, recovery |
| Recovery (`recovery`, `recoveryexec`, `recoveryconsequence`) | none of its own | project, collect file evidence, plan one row, execute its handler, repeat | everything above |
| Live driver (`driver`) | the current attempt | drive, launch sessions, interrupt, acknowledge, finish, pause | adapters, acceptance, scheduler |
| Scheduling and retries (`successor`, `scheduler`) | pure over the projection | classify failures, choose the next performer, account the budget | driver, recovery |
| Launch and adapters (`launch`, `adapter`, `procid`) | identity records, process groups | trampoline hand-off, session sweep | driver, acknowledgement, cancellation |
| Acceptance (`acceptance`, `criterionexec`) | criterion results in the journal | run criteria, snapshot review, decide | driver, recovery |
| Delivery (`runstore/application.go`, `promotion.go`) | the user's work tree and `partitur.yaml` | apply, recover an apply, promote the score, recover a promotion | `apply`, `promote-score` |
| Decisions (`runstore/decision*.go`) | in the journal | ask, answer | `answer`, driver |
| Score, cast, validation, canonical encoding, protocol | none | parse, validate, encode | everyone |

**What is hard here.** Every locked region makes several durable writes and may
be cut between any two. Recovery, acknowledgement, commit and cancellation read
the journal *without* the lock and act on it later under the lock. Deadlines
race the answer they wait for. The owner of a lease can be killed, can be
wedged, or can give up its lease by itself at an awkward moment. What a
cancelled, fenced or quiesced run must not leave behind (a session, an open
interval, a usable lease) is the joint effect of several processes.

**What correctness means, part by part.**

* authority: at most one process can append as the driver; a lease is never
  ahead of its grant; an epoch is never granted twice;
* amendment: the head moves only through a pending prepare and nothing else
  moves meanwhile; whoever is superseded has been drained or fenced first;
* cancellation: after the request the head is frozen and the run ends, whoever
  dies; nothing is left running;
* recovery: a pass ends, only touches what is really abandoned, and from
  `cancel` never starts a new driver;
* journal: an observed event is never lost and never duplicated;
* delivery: a half-changed tree is always announced by the journal;
* scheduling: bounded retries, a verdict for every failure.

The full list of hazards, each at its line, is in `PROJECT.json`.

## 2. Plan

| Order | Module | Covers | Status |
|---|---|---|---|
| 1 | `ControlState`, `RunControl`, `RunContract`, `RunControl_proofs`, `RunSafety_proofs` | authority, prepare/commit, cancellation, the recovery rows that serve them | done |
| 2 | `EventLog`, `Journal`, `MCJournal`, `Journal_proofs` | torn tail, repair, sequence numbers, idempotent appends; refines an abstract log | done |
| 3 | `Delivery`, `MCDelivery`, `Delivery_proofs` | apply, promote-score and their recoveries, with crashes, git failures and a user who edits | done, but for the apply gate |
| 4 | `Lifecycle` | the movement, attempt, acceptance and decision events of `runstate.Apply` | done |
| 5 | `Planner` | failure classification, retries, fallbacks, budget; the row recovery selects (tables C.2–C.4) | done |
| 6 | `Execution`, `ExecutionContract`, `MCExecution`, `Lifecycle_proofs`, `Execution_proofs` | the live loop, attempts, acceptance, criteria, composition, and recovery's handlers, killed and resumed; refines a contract | done |
| 7 | `Session`, `Session_proofs` | the launch gate and its trampoline, the wire between client and adapter, the session sweep and its recovery | done |
| 8 | `Amendment`, `MCAmendment`, `Amendment_proofs` | the evaluator, the dispositions, the human's commands, the rows that complete them | done |

Abstract specifications: `RunContract`, `EventLog`, `ExecutionContract`.

Theorems: every safety invariant and action property that a run checks, and the
three refinements, but for what section 10 lists as model-checked only.

How the modules compose: `ControlState` is the journal of `RunControl`;
`Lifecycle` is the journal of `Planner`, which `Execution` runs. `Session` is one
adapter call of `Execution`, there the steps from `Launch` to `AdapterEnds`, and
one `StartSession` of `RunControl`. A commit is one step in `Amendment` and all of
`RunControl`. Each contract states what the others may rely on.

## 3. The control channel

### ControlState

The journal is represented by its projection, the record `jr`: run status,
score head (`head`, and `by`, the prepare that wrote it), authority `epoch` and
`owner`, the pending prepare `prep` with its recorded base and epoch, the
prepares ever referenced `refs`, whether cancellation was requested, whether
an execution interval is open. Each `Can…`/effect pair is one case of
`runstate.Apply`: the guard is its legality check, including
`preparePendingMutation`, the barrier which refuses nearly every event while a
prepare is pending. Sequence numbers, timestamps and payloads that no rule of
the control channel looks at are left out.

### RunControl

State: the projection `jr`; the files `lease`, `sidecar`, `plans`, `scores`,
`quar`; the live adapter `sessions` (named by the epoch that started them); the
`lock`; for each process a label `pc` and a memory `me` (its `Driver` object's
lease, the journal it read last, the lease it expects).

A process value is one incarnation of one command: `Runners` (`run`),
`Resumers` (`resume`), `Approvers` (`approve` or `amend`), `Cancellers`
(`cancel`). It starts once; a dead incarnation never returns, which is what
`procid` establishes from pid and start time.

Granularity. Each durable write is one step. A locked region that makes one
write takes and gives back the lock in that step (`Alone`); a longer one holds
the lock over labels of `Held`. A read without the lock is a step of its own,
and what it saw stays in `me[p].seen` until used. Hence a crash, and another
process's lock-free look, can fall between any two writes.

| Actions | Code |
|---|---|
| `Acquire`, `CreateLease`, `Reclaim`, `Regrant`, `Release` | `AcquireDriver`, `ReclaimDeadRecoveryDriver`, `Driver.Release` |
| `LoadRunInput`, `Collect`, `Plan`, `Cleanup`, `CleanPlans`, `RemoveStaleLease`, `QuarantineOrphanLease`, `Terminal…`, `ReturnWaitingHuman` | `recoveryexec`'s loop and the handlers of the rows of table C.1 |
| `Watch`, `OpenInterval`, `StartSession`, `SweepSessions`, `CloseInterval`, `FinishRun`, `PauseRun`, `Refused`, `ObserveControl`, `Replan` | the live driver and its control watcher |
| `Ack…` | `AcknowledgePrepare`: receipt, sweep, interval stop, sidecar copy, lease move |
| `LoadProposal`, `ApproverPrepare`, `DriverPrepare`, `PublishPlan`, `AppendPrepared` | preparing an approval |
| `Commit`, `Fence…`, `RemovePlan`, `RemoveSidecar`, `RemoveFencedLease`, `AutoContinue` | `CompleteOrAbandonPrepare` |
| `RequestCancellation`, `Cancel…` | `RequestCancellation`, `executeCancellation`, `cancelwait` |

What is abstracted: what a driver does between two appends (`Drive` may open and
close intervals, start and sweep sessions, finish or pause the run in any
order the projection allows); proposal contents; the silence limit and the
acknowledgement deadline, which are steps that may be taken at any moment their
wait is pending; failed system calls, which end the command as `Crash` or `Quit`
do.

`Crash(p)` is possible at every label for `p \in Faulty`; the lock is then free
again, the sessions live on.

### RunContract

The promise to every reader of the journal, with no process, file or lock in
it: the head moves by one and only through a pending amendment, never after
cancellation has been asked for; while an amendment is pending nothing but the
end of the work under way, its adoption or its withdrawal happens; the token
never goes back, and advances with an adoption only if the interval has been
closed; a run ends once, and as cancelled only with nothing pending and the
interval closed.

## 4. The journal

`EventLog` is the promise: a log that grows at its end, keeps what was
acknowledged for ever at its place, may lose a suffix that was not, and records
a keyed event once.

`Journal` is the file. A line is what lies between two newlines; its body is a
sequence of chunks, so that an append to an unterminated line is visible as two
events in one line. An event is written as up to three chunks (the beginning of
its text, which does not parse; the whole text; the newline), and a write may
stop after the chunks in `Tears`. `disk` is what a power loss leaves: the
file as it was at the last sync or write-back, whichever came later.

| Actions | Code |
|---|---|
| `Begin`, `LoadAndAppend` | `Store.Mutate` and `Txn.Append` up to the write: refuse a file that does not load, refuse a conflicting payload, find the same event recorded, or allocate the next number |
| `Write`, `WriteFails`, `Sync`, `SyncFails` | `realFS.Append`, `SyncFile`, the receipt; also the second sync of a retry |
| `PlanRepair`, `Repair`, `RepairNothing`, `AppendRepair` | row RC-RESUME-034, planned without the lock; `Replay` under it |
| `Crash`, `WriteBack`, `PowerLoss` | external: the process, the kernel, the machine |

Assumed of the file system (external): a sync that succeeds makes the whole
file durable, an append does not damage earlier bytes, and the directory entry
of the journal survives.

## 5. Delivery

State: `app` and `prom`, the two shipping projections of each run; the user's
checkout `tree` and `HEAD`'s tree `head`, each with the contents of the paths
the candidates touch (`touched`), of the other paths (`other`) and of
`partitur.yaml` (`root`); the promotion temporaries `temps`; the command that
holds the state lock, `cmd`, as a run and a label. A label stands before each
append, look at the checkout, write and removal, so that a crash, a failure
and the user can come between any two. `"part"` is a half-written tree and
`"user"` contents that only the user wrote; a candidate's trees are neither.

| Actions | Code |
|---|---|
| `Apply` … `ApplyFailed`, `ApplyingFails` | `applyCandidate`: preconditions, apply.started, `git apply --check`, `git apply`, comparison with the result, rollback of the touched paths, its verification, the verdict |
| `RecoverApply`, `RecoveryRequired`, `Look`, `RecoveryResolved`, `RecoveringApplyFails` | `recoverApplication` |
| `Promote`, `PromotionStarted`, `WriteTemporary`, `CheckRoot`, `RenameRoot`, `Promoted`, `HaltPromotion`, `PromotingFails` | `promoteScore`, `writePromotedScore`, `promotionFailureOutcome`, `haltPromotionForOperator` |
| `RecoverPromotion`, `SweepTemporaries`, `LookRoot`, `PromotionRestarted` | `recoverPromotion` |
| `InspectRepository`, `StartRun`, `Succeed` | `inspectRepository` before the lock, run.started; the run's end as other modules have it |
| `UserEdits`, `UserDiscards`, `UserCommits`, `Crash` | external |

An append that fails leaves its line in the journal or not; a torn line is
truncated by `resume`, which repairs the tail of a terminal run too, before the
next command can read the journal, and then counts as not written. git is
external: `git apply` writes one path after another, `--check` refuses an empty
patch and one whose context changed, and lets an edit elsewhere in a file pass.
Abstracted: candidates all touch the same paths; identity versions and
transaction identifiers; the apply gate and the protected paths, which are the
constant `Judged`.

The history variables are for the properties only: `quiet` and `last` (nobody
touched the checkout since the last `apply` looked), `late` (the root changed
since a command last read it), `stuck` (a temporary whose removal failed where
the code ignores the failure and may go on to score.promoted).

## 6. Execution of a run

### Lifecycle and Planner

`Lifecycle` is `runstate.Apply` for the events of movements, attempts,
compositions, acceptance, gates and questions: for each event an operator `…Ok`,
the conditions under which `Apply` admits it, and an operator that returns the
next projection. The projection is a record. Of the attempts it keeps only the
latest: a new one is selected when the last has ended, and what the code looks up
behind it, the charged retries and the performers tried, is kept per movement. The
open execution interval has its phase, the time it was granted and its last
checkpoint. Time is counted in small units, and what an interval charges is any
amount between its checkpoint and its grant.

`Planner` is what the live driver and recovery share: `Classify` and `Realize`
(`successor`), the successor that a recorded disposition still owes, the
selection of movements (`scheduler`), and `Plan`, which gives for a projection and
the file evidence (`obs`) the handlers of one row, as a sequence of steps. All
of it is functions of the projection.

### Execution

The journal `st`; one process, with `pc`, `mode` (live or recovery) and a memory
that is lost when it dies; the sessions that live on without it (`sess`), a
criterion's session that was given up (`escaped`), a launch directory nobody has
journaled (`stray`), and the worktree of the attempt (`tree`), which can be changed
or lost while no process looks. Each append is one step; when the projection does
not admit it the process stops with `note = "refused"`, as the code returns the
error. `AppendsAreAdmitted` says where that can happen: nowhere, but for the successor
of a movement that a composition has failed (`StrandedSuccessor`, the run
`failed_movement`) and a rejected gate in a score whose final gate is waived
(`RejectedWithoutFinal`, `RejectedGate.cfg`); both are listed in section 9. In a
waived run a candidate that is composed while movements are unfinished is not
recorded: the process ends with `note = "incomplete"`. The composition of trees is git: it succeeds, conflicts or cannot be
verified.

| Actions | Code |
|---|---|
| `PlanLive`, `PlanRecovery`, `Ready`, `Start`, `Initial`, `Successor`, `ComposeCandidate`, `BudgetMovement`, `BudgetRun` | the driver's loop and `PlanBetweenUnit`; `executeSelected` |
| `Composed` … `Terminalize`, `RerunComposition` | the composition interval, its evidence and the movement it fails |
| `Select`, `OpenAdapter`, `Launch` … `StopAdapter`, `RecordCompleted`, `RecordFailed`, `RecordBlocked`, `Ask` | `ExecuteAttempt` |
| `Capture`, `Verify`, `OpenAcceptance`, `Accept`, `SpawnCriterion` … `FailAcceptance`, `Evaluate`, `Gate`, `Complete`, `Succeed` | `acceptance`, `criterionexec` and the driver around them |
| `CloseExhausted`, `FailExhausted`, `RealizeTerminal`, `RealizeCharged`, `FailRun` | the deadline of the budget, the realization of a failure |
| `CloseInterval`, `Recover…`, `RemoveLaunch`, `SubjectUnverified` | the handlers of `recoveryexec` and the consequences of `recoveryconsequence` |
| `Answer`, `Resolve` | `ResolveQuestion`, `ResolveHumanGate` |
| `Crash`, `DisturbTree`, `Resume` | external, and the next `resume` |

`ExecutionContract` is what is promised: movements start after what they need,
the final one only with a recorded candidate; each ends once; the run ends once, and
successfully only when all its parts did. `Execution` is shown to implement it.

## 7. One adapter session

`Session` follows one call of `Client.execute`, or one probe of `validate`. State:
where the client is (`pc`), what the call holds (`call`), what the journal says of
it, the signals (cancellation, context, deadlines), the process group (`proc`: the
leader, its hand-off files, the gate, a descendant that keeps a pipe open), the two
pipes (`wire`), the adapter served by `adapterkit`, and what a recovery made of it
(`rec`). Each action of the client is one return of one of its selects, so that
cancellation, frame, deadline and exit may arrive in any order.

| Actions | Code |
|---|---|
| `StartTrampoline` … `Reap` | `launch_unix.go`: hand-off, record of the identity, release of the gate |
| `CreateMarker` … `ReadGate` | `RunTrampoline` |
| `WriteProbe` … `WaitEnds` | the probe and execute exchange, cancellation and its grace |
| `StopExecute` … `Finish` | sweep, interval stop, outcome, and their suppression by a cancellation |
| `StartProbe` … `VerifyProbe` | `probeOne` |
| `Serve…`, `Handler…` | `adapterkit`'s `serveContext` and its event sink |
| `AdapterMisbehaves`, `AdapterDies`, `SpawnKid`, `KidExits` | what the client must survive: one wrong frame or a closed output per session, death, a descendant |
| `SweepRecordedSession`, `StabilizeHandoff`, `HandoffUnverifiable` | recovery's sweep of a recorded or published identity; the marker of a launch without one |

## 8. Amendments

`Amendment` has the journal's routes, requests and decisions, the proposal
records, the head and its score, the prepare, the lease, the resumers, the `amend`
commands and the human. A score is a function from its fields to `0..1` and a patch
replaces one field, which is all that the evaluator's classes and guards look at:
the status, the policy of auto approval, the protected paths, the budget, the
grants and the content of each movement, and a field that makes a score invalid.

| Actions | Code |
|---|---|
| `Capture`, `ApprovalIntent`, `Submit`, `CompleteSubmission` | `SubmitCLI` with its barrier |
| `LoadRouted`, `ApproveRouted`, `CompleteApproval`, `RejectRoutedAmendment`, `ResolveQuestion` | `approve`, `reject`, `answer` |
| `PublishAndRoute` (with `cut`, the crash between its writes), `RejectProposal`, `AppendPrepare`, `Commit` | the dispositioner; the commit |
| `Resume` … `HaltOrReturn` | recovery: the clean-up of unreferenced records, the rows that complete a route, a request or a prepare, the finalization it rebuilds |
| `StartAttempt`, `Attempt…`, `Dispose…`, `AppendAttemptBlocked`, `AppendRoute`, `AppendRequest`, `DriverStops` | the driver and what its adapter raised |

## 9. Runs

Deadlock is not checked in any run: the system legitimately stops once every
process has ended. Named bounds, as guards of the model: an incarnation makes
at most one prepare (`Prepared`), and each tenure starts one session at a time.
Revisions and epochs are then bounded by the number of processes.

| Run | Instance | Distinct states | Shows |
|---|---|---|---|
| `control_amend` | run, resume, approve (all faulty) | 1 278 115 | `LeaseHasGrant`, `AuthorityIsExclusive`, `QuiescedIsQuiet`, `FenceIsQuiet`, `PrepareIsCommittable` |
| `control_cancel` | run, approve, cancel (all faulty) | 148 524 | `IInv`, `HeadIsPinned`, `CancelledIsQuiet`, `CancelNeverDrives`, `ImplementsContract` |
| `control_live` | run, approve, cancel (run faulty) | 112 106 | `CancelCompletes`, `ApproveReturns` under `FairSpec` |
| `journal_log` | 2 processes, `Tears = {1}`, `MaxLines = 3` | 13 814 | `IInv`, `AckedSurvives`, `AlwaysRepairable`, `ImplementsLog` |
| `delivery` | 3 runs, `MaxFaults = 2`, `MaxEdits = 2` | 90 610 | `ShippingInv`, `HalfAppliedIsAnnounced`, `NoTemporaryAfterPromotion`, `SettledTreeIsVerified`, `OnlyWindowEditsAreLost`, and `TransactionsSettle` under `FairSpec` |
| `execution` | 2 movements, below | 598 760 | `SessionInv`, `AppendsAreAdmitted`, `AdapterIsMetered`, `SuccessorsArePaidFor`, `TerminalIsQuiet`, `SuccessIsGated`, `ImplementsContract`, and `ProcessSettles` under `FairSpec` |
| `session` | execute and probe, `MaxEvents = 2`, `MaxOut = 2` | 1 816 548 | `LaunchInv`, `RecoveredIsQuiet`, `EndIsQuiet`, `ResultIsJournaled`, `ConformingIsAccepted`, and `CancelledReturns` under `FairSpec` |
| `amendment` | 2 movements, below | 3 189 801 | `RoutesInv`, `RecordsAreKept`, `ExecutedIsStable`, `PrepareStaysAdmissible` |

Why the bounds are enough.

* `control_…`: three processes of three kinds make the races the code worries
  about: an owner, one that supersedes it and one that reads while both write.
  Two drivers are needed for two tenures, an approver for a prepare behind either
  of them, and a canceller for the deadline; the driver's own auto approval
  gives a second prepare. `CancelledIsQuiet` is checked with one driver and one
  approver, because with more of them it fails: with a resume beside the run, a lease
  quarantined in error (`orphan_lease` below) lets a second driver start while the
  first one still has a session which nobody sweeps at the end; two approvals beside a
  resume are `TwoOracles.cfg` below.
* `journal_log`: two commands share a key and differ in payload and a third has no
  key, so that a retry, a conflict and an unkeyed event all occur; three lines
  hold an event, its repair record and a successor. The tear just before the
  newline (`2 \in Tears`) is left out, because with it the code does *not*
  implement the log: that is `glued_tail` below. Numbering and repair (`IInv`,
  `AlwaysRepairable`) hold with every tear: it is proved, and `JournalTears.cfg` is a
  further run of `MCJournal` that passes with `Tears = {1, 2}` and two lines
  (1 056 320 states).
* `delivery`: two runs start from the same checkout, one of them with an amended
  score, and a third builds on the first and takes its change back; two faults let
  a command die and its recovery die as well.
* `execution`: the first movement writes and is tested by a run criterion; the
  second, final, needs the first, checks an artifact, has a review and always asks a
  human. One fallback and one retry make every disposition of a failure happen; a
  budget of 3 units runs out in any phase; `MaxCrashes = 2` (driver deaths and
  disturbed worktrees) kill a driver and the recovery after it; one attempt may
  block, with two questions, so that a request can be lost between them.
* `session`: one event is below the limit of 2 and another beyond it; a pipe of
  two frames is full when the client stops reading.
* `amendment`: one `amend` command, one proposal of an adapter that needs a
  decision, one question and two rebuilt finalizations, over patches of every class
  of the evaluator. One resumer: with two, `RecordsAreKept` fails (`TwoResumers.cfg`).

Each hazard listed as covered was confirmed to be reachable by a mutant of the
code under which its property fails.

**Fairness.** A process that may wedge (`Faulty`) is fair only inside a locked
region: it holds the lock for a few file writes and completes them unless it
dies, and death frees the lock. Every other process keeps executing
(`WF(Work)`); its control watcher's ticker keeps polling the journal while it
drives, so it observes a request (`WF(ObserveControl)`); and a cancel command
whose retries keep being refused reaches its deadline, however often the retry
is enabled in between (`SF(CancelDeadline)`), since the deadline is wall-clock
time taken when the wait begins.

In `Delivery` a command runs on unless it dies or fails (`WF(Step)`), and the
operator repeats the recovery commands until they get through
(`SF(RecoverApply)`, `SF(RecoverPromotion)`): they are refused only while another
command holds the lock or the projection is settled. Faults and edits are bounded, so
they stop at some point; nothing is assumed of `apply` or `promote-score`.

In `Execution` a process that can take its next step takes it (`WF(Drive)`); nobody
need answer, resume or die. In `Session` the client's selects return and the
trampoline runs (`WF(Working)`, `WF(Trampolining)`), and the two timers fire
(`WF(GraceExpires)`, `WF(ProbeDeadline)`); of the adapter no
fairness is assumed, a write to its pipe may block for ever, and no failure is
forced to happen. In
`Amendment` each resumer's next step is fair; `approve`, `answer` and `amend` may
never come.

### Disagreements between the code and its documents

Four are runs in which TLC finds the documented property violated.

* `orphan_lease` (`OrphanHasNoGrant`). A recovery pass projects the journal,
  then reads `driver.lease`. Another process may acquire in between; its lease
  is then ahead of the stale projection and is quarantined as an orphan,
  although its grant is in the journal. One run and one resume suffice, no
  failure. (`LeaseHasGrant`, proved, says a *true* orphan never arises from the
  acquisition code as it is.)
* `glued_tail` (`TruncatedWasNeverObserved`). An append cut just before its
  newline leaves an event that loads. The next append writes onto the same
  line and is acknowledged; the joined line does not parse, and the repair
  truncates both events. The design says a truncated event was never observed.
* `obsolete_route` (`ResumeSettles`). Approving one of two routed proposals closes
  the request of both but removes only the approved route. Recovery takes the
  other for one whose request was lost, repeats an append that is already there,
  and plans again, for ever.
* `failed_movement` (`FailedMovementEndsScheduling`). When the base of a retry, of
  a fallback or of the successor of a blocked attempt conflicts, the
  `movement.failed` that follows names no attempt. Recovery marks the latest
  attempt as ended only by a `movement.failed` of that id
  (`runstore/recovery.go:335`), so it plans the successor once more, inside a
  movement that has FAILED, and `Apply` refuses its `performer.selected`; the run
  is RUNNING for ever. RC-RESUME-041 (`DESIGN.md:6779`) asks for a movement that
  has not ended; the planner does not look at it (`planner.go:683-701`).

Further configurations state a documented property which TLC finds violated as
well; they are kept beside the runs, to be checked when that code changes.

| Configuration, module | Property | What happens |
|---|---|---|
| `UnfencedApproval.cfg`, `RunControl` | `NothingToQuiesce` | A driver whose append is refused by the prepare barrier releases its lease with the interval open; the commit finds neither lease nor sidecar and approves as if there were nothing to quiesce. |
| `SpinningExecutor.cfg`, `RunControl` | `AuthorityReestablished` | A resume whose lease became the sidecar of a prepare that was then committed keeps its `Driver` object, plans to re-establish authority, does nothing because a `Driver` is set, and plans again, for ever. |
| `TwoOracles.cfg`, `RunControl` | `CancelledIsQuiet` | Two approvals act as the oracle while a resume drives: the first is still at its commit when its prepare is settled and takes the next one's cancellation for its own (`prepare.go:200-202`). Both sweep without the lock; one abandons the prepare and dies; the barrier is gone, the driver records a session, and the other, which swept earlier, ends the run (`cancellation.go:69-110`; `DESIGN.md:7333`: "Terminalization always follows a verified sweep"). |
| `NoWrite.cfg`, `MCDelivery` | `NoWriteCandidateApplies` | A run without writers has a candidate whose result is its base. git refuses its empty patch, so `apply` always ends FAILED_CLEAN and `promote-score` is never allowed, while the design speaks of a no-write candidate in APPLIED. |
| `ContestedGate.cfg`, `MCExecution` | `ContestedIsGated` | The evaluation that recovery appends (`consequence.go:246-297`) carries no findings, so the gate which a contested review requires (`DESIGN.md:2247-2248`) is skipped after a crash. |
| `OpenConsequence.cfg`, `MCAmendment` | `ConsequencesCloseFirst` | The barrier of `amend` and `approve` plans as a process without the lease, for which recovery selects the owner's row: the consequence of a completed attempt is not closed before the approval is prepared (`DESIGN.md:2818-2820`), and the score moves on beneath it. |
| `TwoResumers.cfg`, `MCAmendment` | `RecordsAreKept` | Two resumes observe a clear owner; one drives and publishes the record of a proposal, the clean-up of the other removes it (the observation is made in `executor.go:149` and used after it), and then attempt.blocked names it: every later resume halts for a missing record. `DESIGN.md:379-384` requires the owner to be clear for the clean-up. |
| `StaleRequest.cfg`, `MCAmendment` | `PendingIsCurrent` | A driver routes a proposal and dies before its request; an `amend` that needs no human is approved meanwhile. The approval closes what is pending and keeps the route, nothing compares the revision of a route with the head (`planner.go:1257`, `apply.go:578-584`), so the next resume asks the human about a proposal against the replaced revision (`DESIGN.md:4595-4596`: "no old-revision decision stays answerable"). |
| `RejectedGate.cfg`, `MCExecution` | `RejectionIsAdmitted` | A rejected gate in a score that waives its final gate: recovery fails the movement and the run with events (`consequence.go:366`) that `Apply` refuses (`apply.go:210-213`). |
| `Recomposition.cfg`, `MCExecution` | `RecompositionContinues` | A recomposition whose evidence was lost succeeds and is planned again, for ever: nothing durable says that it succeeded (`runstore/recovery.go:720-733`, `handlers.go:167-196`, `DESIGN.md:6842`). |
| `StaleBudget.cfg`, `MCExecution` | `IntervalIsFunded` | The remaining budget is read once per loop and used after a composition has charged more (`driver.go:322`, `DESIGN.md:2361-2372`). |
| `ProbeHang.cfg`, `Session` | `ProbeReturns` | After a probe's exchange the wait for its standard error has no deadline (`client.go:225`): a descendant of the adapter that holds it keeps `validate` waiting (`DESIGN.md:1390-1412`). |

Others were met while modelling and have no property of their own:

* A proposal that needs no decision is dropped when the attempt completes
  (`adapter/execute.go:767`, `driver.go:976`).
* A lease beside a pending prepare with another epoch, unreachable according to
  `DESIGN.md:2894`, is what a fencing commit leaves that dies after its approval; a
  second approve prepares beside it (its commit is refused until a resume removes
  the lease).
* A user's edit of a touched path between the clean check and `git apply --check`
  keeps the patch from attaching, after which the rollback (`RestoreSome`) checks
  the base out over the edit, although the comment at `application.go:192` says
  "Only undo what was laid down".
* A recovery that runs one criterion does so outside any interval (`Resumed`): a
  budget that runs out there cannot be recorded. A review criterion that had not
  started cannot be resumed (`ResumeReview`). A criterion's session whose sweep fails is given up with
  an ERROR (`escaped`). A lost worktree stops every resume at the same row
  (`SubjectUnverified`).
* A trampoline that dies between the creation of its marker and its nonce leaves an
  empty marker, which recovery refuses before it looks at the lock
  (`HandoffUnverifiable`), while `DESIGN.md:1916-1918` lets a free marker settle.

## 10. Proofs

Each component has its theorems in a module of its own, `<component>_proofs`;
`RunSafety_proofs` goes on where `RunControl_proofs` ends, and `Execution_proofs`
rests on `Lifecycle_proofs`. The constants are arbitrary but for the named
assumptions of the modules that declare them, which TLC evaluates on every run.
Where a theorem has a hypothesis of its own it is a named one, and the run that shows
why it is needed is given.

### The control channel

`RunControl_proofs` proves, for any finite or infinite sets of processes and
any set of faulty ones, with the only assumptions that the four kinds of
process are disjoint, `None` and `Root` are no processes, and
`Faulty \subseteq Proc`:

| Theorem | Statement |
|---|---|
| `ControlIsInductive` | `Spec => []IInv` |
| `TypeCorrect` | `Spec => []TypeOK` |
| `LeaseFollowsGrant` | `Spec => []LeaseHasGrant` |
| `ControlImplementsContract` | `Spec => ImplementsContract` |

The inductive invariant. `LeaseHasGrant` is not inductive: creating the lease
is a step after the grant, so it needs to know that while a process is between
the two the journal still names it and no lease exists. That is `RegionInv`:
what a locked region checked on entry still holds at each of its later writes.
It survives other processes' steps because of `LockInv`: the process inside
a region is the holder of the lock, so nobody else writes the journal or the
lease. (`Kill`, which frees a victim's lock, takes the victim out of its region
in the same step.) `PrepareInv` says a pending prepare freezes head and epoch at
the values it recorded; the approval, which checks only the record, needs it to
advance both by one. `GrantInv` excludes a lease at epoch 0. `UnpreparedInv`
says a process on its way to a prepare has made none yet, which is what makes
the abstract amendment fresh.

The proof has one lemma per group of actions (`AcquireStep`, … `CancellingStep`)
over a few frame lemmas (`Preserve`, `PreserveFiles`, `PreserveAppend`,
`PreserveLook`), and lemmas on the fields each journal rule changes
(`GrantFields`, `ApproveFields`, …). The refinement is proved the same way: each
group simulates a step of the contract or a stutter, using `IInv`.

`RunSafety_proofs` proves the other safety properties, under the same assumptions:

| Theorem | Statement |
|---|---|
| `SafetyIsInductive` | `Spec => []SInv` |
| `AuthorityExclusive` | `Spec => []AuthorityIsExclusive` |
| `HeadPinned` | `Spec => []HeadIsPinned` |
| `PrepareCommittable` | `Spec => []PrepareIsCommittable` |
| `QuiescedQuiet` | `Spec => []QuiescedIsQuiet` |
| `FenceQuiet` | `Spec => []FenceIsQuiet` |
| `CancelDoesNotDrive` | `Spec => []CancelNeverDrives` |
| `CancelledQuiet` | `OneOfEach => (Spec => []CancelledIsQuiet)` |

They are about what a process may still do with something it remembers, so `SInv`,
inductive relative to `IInv`, says of every such memory what it is worth now.
`AuthInv`: the epochs of the lease, the sidecars, the tenures in memory and the
leases somebody expects to find are grants, and a current one is its owner's; two
tenures never share an epoch. `SeenInv`: the journal continues every journal that was
read, so a conclusion that only needs growth (a run is terminal, is cancelled, a
prepare was made) outlives the read. `SnapInv` adds what the region that publishes or
settles a prepare has written. `CancelInv` says where a cancel command can be: at no
label that leads to a lease. `DrainInv` is the proof of quiescence: while the prepare
which an acknowledgement started from is still pending, no session was recorded
that the acknowledgement has not seen, and after its sweep none lives; and while the
lease that a fence expects stays, so does the prepare, and with it whatever the fence has
already ended. A fence whose lease was taken away meanwhile relies on nothing, which
is why the clause is conditional on `Fencing`.

`CancelledQuiet` has the hypothesis `OneOfEach`: there is at most one driver and at
most one approver; cancel commands are any number. The oracle sweeps what the journal
names without the lock, so the proof has to say that nobody can add to it before the
run ends. That is `ClearInv`: where the oracle is under way no driver works with the
lease (`Works`), or the pending prepare is the oracle's own, and its barrier keeps
the driver from recording a session until the oracle itself abandons it. `HandsInv`
says that an approval has no `Driver` object and whoever drives has one, and
`MakerInv` that while a prepare is pending its maker is at a label that settles it, or
has ended, so it makes no other and drives nothing. Without `OneOfEach` the theorem is
false (`TwoOracles.cfg`, and two drivers).

### The journal

`Journal_proofs` proves, for any processes, commands and bound on the length:

| Theorem | Statement |
|---|---|
| `JournalIsInductive` | `Spec => []IInv` |
| `JournalTypeCorrect` | `Spec => []TypeOK` |
| `JournalRepairable` | `Spec => []AlwaysRepairable` |
| `AckIsInductive` | `NoWholeTear => (Spec => []AckInv)` |
| `AckedForEver` | `NoWholeTear => (Spec => []AckedSurvives)` |
| `JournalImplementsLog` | `NoWholeTear => (Spec => ImplementsLog)` |

`IInv` is also checked by the run `journal_log` and, with every tear, by
`JournalTears.cfg`. It says that numbers have neither
gap nor duplicate: the file, and the medium's copy as well, loads or does but for a
torn tail, and the file a transaction numbered its event after is still the beginning
of the file, with as much of the event behind it as was written. It needs no
hypothesis about tears. Acknowledgement does: `NoWholeTear` (`Tears \subseteq {1}`)
excludes a write that stops between an event's text and its newline. With such a tear
the three theorems are false, which is the run `glued_tail`. Under it a line without
newline never decodes (`EndedInv`), so nothing acknowledged can be in a line that is
appended to or truncated.

### Delivery

`Delivery_proofs` proves, for any set of runs, any candidates and scores and any
bounds, assuming that no candidate's tree is a half-applied one
(`ContentsAreWhole`), the `partitur.yaml` of each run's start is one of the contents
(`StartsAreKnown`), the bounds are natural numbers and `None` is no command:

| Theorem | Statement |
|---|---|
| `ShippingAgrees` | `Spec => []ShippingInv` |
| `HalfAppliedAnnounced` | `Spec => []HalfAppliedIsAnnounced` |
| `TemporariesSwept` | `Spec => []NoTemporaryAfterPromotion` |
| `SettledVerdictHolds` | `Spec => []SettledTreeIsVerified` |
| `RootEditsAreSeen` | `Spec => []OnlyWindowEditsAreLost` |

`HalfAppliedIsAnnounced` is not inductive: the step that records a verdict closes
the transaction and has to know that the checkout was verified and that nothing
has left it half written since. That is `CommandInv`, what a command relies on at each
of its labels (`Reliable`): the projection as it left it, a whole tree before a
verdict, no temporary of its own left before score.promoted. Its clauses on the
projection are the guards of `runstate.Apply`, so they also show that no event
of a transaction is ever refused. `head.touched # "part"` is needed because the
user may discard to `HEAD`. Types are proved part by part for groups of actions,
then there is one step per action: what its label lets it rely on, `CommandInv` at
the next label by `MovedCommand` or `EndedCommand`, and the rest. `QuietInv` says of a
command what it has verified of the checkout at each label, which holds as long as the
user keeps out; `LateInv` says that a root about to be replaced which is not the one
of the start was written after the last look.

### One session

`Session_proofs` proves, for any limit on events and any depth of the pipe, with an
adapter that at any moment may send a wrong frame, close its output or die:

| Theorem | Statement |
|---|---|
| `SessionIsInductive` | `Spec => []IInv` |
| `LaunchIsGated` | `Spec => []LaunchInv` |
| `SettledStaysQuiet` | `Spec => []RecoveredIsQuiet` |
| `CallsEndQuiet` | `Spec => []EndIsQuiet` |
| `ReturnedIsJournaled` | `Spec => []ResultIsJournaled` |
| `ConformingAccepted` | `Spec => []ConformingIsAccepted` |

None of the first four properties is inductive. `ReleasedIsJournaled` does not say that a trampoline
which finds the gate open will run: `GateInv` adds the gate and the descendants, and
that nothing of the kind exists before the gate (`Unlaunched`). `RecoveryInv` adds
that the gate of a settled session can only be open if its leader is gone, since a
recovery that finds no identity leaves a trampoline on its way; that it is closed
then is what `GateInv` gives to `StabilizeHandoff`. `EndInv` and `ResultInv` carry the
emptiness of the session, and the agreement of the call with the journal, over the
labels between the sweep and the return. `TypeInv` bounds the client's count of
events by the label (a call that counted too many is about to stop). The steps of
the session are grouped (`NextByPart`); for each group one lemma per conjunct it can
disturb splits on the action, and one lemma collects them.

`ConformingIsAccepted` has an invariant of its own, `ConformInv`, for as long as the
adapter has not misbehaved. Before the request is written the adapter has seen nothing
but the probe (`PrologueInv`). From then until the output is drained `Balance` accounts
for every frame: requests, events, questions, the one result and the one acknowledgement
are each sent and not yet read, or counted on both sides. `ResultIsLast` adds that
nothing but an acknowledgement follows the result. Frames are counted by the positions
they have in the pipe, and `PipeCounts` says how a read and a write change the count.

### Amendments

`Amendment_proofs` proves, for any finite set of proposals, any questions, movements
and fields, and any number of resumers, but for the last:

| Theorem | Statement |
|---|---|
| `AmendmentIsInductive` | `Spec => []IInv` |
| `RoutesAreAnswerable` | `Spec => []RoutesInv` |
| `ExecutedStaysStable` | `Spec => []ExecutedIsStable` |
| `PreparedStaysAdmissible` | `Spec => []PrepareStaysAdmissible` |
| `OneResumerKeepsRecords` | `OneResumer => (Spec => []RecordsAreKept)` |

`ExecutedIsStable` compares an attempt of an old revision with the head; it is
inductive only with `CurrentInv` (an attempt against the head was given what the head
says) and with `DriverInv` (the process with the lease works on an attempt against the
head), since a commit that ignores what completes meanwhile would break it.
`RoutesInv` needs `KeptInv`: what a driver kept of an attempt is routed before it is
requested, unless it was requested before and may have been answered since. `HeadInv`
bounds the head by the proposals, each of which is captured against a head once.
`RecordsAreKept` needs that a process which publishes a record is the only one that
may clean up (`RecordInv`, `HandsInv`), which is so for one resumer; with two it is
false (`TwoResumers.cfg`, and the hazard at `recoveryexec/executor.go:149`).

### Execution

`Lifecycle_proofs` and `Execution_proofs` prove, for any number of movements with any
needs, writers, criteria, human gates and fallbacks, any retries, budget and grace, and
any bounds on crashes:

| Theorem | Statement |
|---|---|
| `ExecutionIsInductive` | `Spec => []IInv` |
| `SessionsStayAccounted` | `Spec => []SessionInv` |
| `AdapterTimeIsCharged` | `Spec => []AdapterIsMetered` |
| `AttemptsArePaidFor` | `Spec => []SuccessorsArePaidFor` |
| `EndedRunsAreQuiet` | `Spec => []TerminalIsQuiet` |
| `AppendsStayAdmitted` | `Spec => []AppendsAreAdmitted` |
| `SuccessesAreGated` | `Spec => SuccessIsGated` |
| `ExecutionImplementsContract` | `Spec => ImplementsContract` |

The assumptions are what score validation guarantees: `ScoreAssumption` (movements
are ordered so that each needs earlier ones; the types of the rest) and
`FinalAssumption` (rule 12, `score/rules.go:473-506`: the final movement writes nothing,
nothing needs it, and every other movement leads to it). Without the last a run could
succeed with a movement that nobody started.

None of the properties is inductive, because the process continues from a label whose
meaning is in the journal, and dies at any of them. The invariant has five parts.

* `Good(st)`: the journal is one of those that `Apply` admits *and* the code can write.
  `AttemptInv` fits the fields of the latest attempt together, `MovementInv` the attempt
  with the movements and the run, `PhaseInv` an open interval with the work under way.
  `PaidInv` is the strengthening of `SuccessorsArePaidFor`: a charged failure that
  still owes its successor has paid for it already.
* `LabelOk`: what the process relies on at each label (`Composing`, `Attempting`,
  `Verifying`, `Accepting`, `Ending`). These are not the guards of `Apply` but imply
  them, which is how `AppendsAreAdmitted` is proved.
* `StepOk`: a decision of the planner still is in order when its next step is executed.
  `StepShapes` lists the sequences it can be left with, `HeadOk` what the first step
  relies on.
* `SessInv`: a session which its process left behind is one that the journal makes
  recovery sweep before anything else (`LeftRunning`, `Swept`). `SessionInv`,
  `AdapterIsMetered` and `TerminalIsQuiet` follow from it.
* `ProcessInv`: the types of the process's memory.

`Lifecycle_proofs` has one lemma for each event: an admitted append leaves a good
journal. `Execution_proofs` then has one lemma per action, in the order of the code: what
its label and step give it, the event's lemma, and where it goes next.
For the action property and the refinement, `Promised(s, t)` says which outcomes of the run
an append may reach: the stages of the movements, the candidate and the end of the run
change as the contract has them, or not at all. Each action is promised, and a promised
step of a good journal is a step of `ExecutionContract` or a stutter.

### Model-checked only

* The properties above without their hypotheses where these are needed: the journal with
  a tear before the newline, records with two resumers, and `CancelledIsQuiet` with two
  drivers or with two approvers beside a resume, all of which fail.
* Liveness (`CancelCompletes`, `ApproveReturns`, `TransactionsSettle`, `ProcessSettles`,
  `CancelledReturns`): liveness under fairness is out of the prover's reach.

## 11. Not modelled

* Read-only views (`status`, `logs`), parsing, validation, canonical encoding,
  path matching, hashing: data without control.
* Vendor CLIs, and what an adapter makes of their output: out of process.
* Test and documentation tooling; its fault points are the model's `Crash`.
* The apply gate (`applicationJudgment`): the constant `Judged` of `Delivery`.
* `abandonPrepare` for `base_head_changed` and `plan_invalidated`: under the
  prepare barrier the base head cannot change (`PrepareInv`), and a plan is
  invalidated only by an edit of the run directory from outside.
* `WakeLeaseOwner`: a hint that shortens a poll.
* Two promotions' temporaries of one transaction at a time: recovery sweeps all
  of them before it writes another.
* In `Execution`: amendments and cancellation, which `Amendment` and `RunControl`
  have; the contents of findings and of a review's snapshot; log and progress
  events; the clean-up of a run that is already terminal.
* In `Amendment`: the quiescence, fencing and abandonment of a prepare
  (`RunControl`); failures of attempts and of the run (`Execution`); an amendment of
  a run that has its candidate (`candidateCondition`).
* In `Session`: diagnostics, receipts and the redaction of output.
* Halt rows that only an edited run directory reaches.
