----------------------------- MODULE RunControl -----------------------------
(***************************************************************************)
(* The control channel of one run: the processes that drive it, resume it, *)
(* amend it and cancel it, and the files they share -- journal.jsonl,      *)
(* driver.lease, driver.quiesced.<id>, prepares/<id>.json and              *)
(* scores/revision-<n>.yaml.                                               *)
(*                                                                         *)
(* Writers hold the state lock (Store.Mutate), and every durable write of  *)
(* a locked region is a step of its own, so that a process can die and a   *)
(* lock-free reader can look between any two of them.  A region of one     *)
(* write takes and gives back the lock in that step.  Reads made without   *)
(* the lock are steps of their own as well.                                *)
(***************************************************************************)
EXTENDS ControlState

CONSTANT Faulty    \* processes that may be killed or fail to sweep a session

ASSUME FaultyAreProcesses == Faulty \subseteq Proc

VARIABLES
    jr,        \* the journal, as its projection
    lease,     \* driver.lease, or None
    sidecar,   \* driver.quiesced.<id>, by prepare id
    plans,     \* the prepares whose plan file exists
    scores,    \* the snapshot files: <<revision, contents>>
    quar,      \* the snapshots moved under quarantine/
    sessions,  \* the live adapter sessions
    lock,      \* the holder of the run's state lock
    pc,        \* what each process does next
    me         \* what each process remembers

files == <<lease, sidecar, plans, scores, quar>>
vars == <<jr, lease, sidecar, plans, scores, quar, sessions, lock, pc, me>>

Drivers == Runners \cup Resumers

\* Labels of steps taken while the state lock is held.
Held ==
    {"lease", "regrant", "pplan", "pappend", "fapprove", "rmplan", "rmside",
     "rmlease", "xsnap", "xplan", "xside", "xabandon", "xstop", "xcancel",
     "xlease", "tside", "tplan", "cleanplan"}

\* Labels of the other steps.  "idle" has not started, "dead" has ended.
Free ==
    {"idle", "dead", "load1", "load2", "cleanup", "stale", "orphan",
     "acquire", "reclaim", "watch", "drive", "ack1", "ack2",
     "ack3", "ack4", "ack5", "ack6", "commit", "fsweep", "fkill", "fcommit",
     "autoload", "xload", "xsweep", "xlock", "release", "tclean", "aload",
     "aprep", "creq", "refused", "ckill"}

\* A process remembers the lease of its Driver object, the journal it last
\* read without the lock, the lease it expects to find, whether this recovery
\* pass has cleaned up, and whether it is the last pass of a cancel command.
Memory ==
    [tenure  : Leases \cup {None},
     seen    : JournalType,
     want    : Leases \cup {None},
     cleaned : BOOLEAN,
     final   : BOOLEAN]

Fresh ==
    [tenure |-> None, seen |-> JournalInit, want |-> None,
     cleaned |-> FALSE, final |-> FALSE]

\* procid: a process value is an incarnation, so a dead one stays dead.
Live(p) == pc[p] \notin {"idle", "dead"}

\* p has made a prepare: one prepare per incarnation bounds the model.
Prepared(p) == \E r \in jr.refs : r[2] = p

Init ==
    /\ jr = JournalInit
    /\ lease = None
    /\ sidecar = [p \in Proc |-> None]
    /\ plans = {}
    /\ scores = {<<1, Root>>}
    /\ quar = {}
    /\ sessions = {}
    /\ lock = None
    /\ pc = [p \in Proc |-> "idle"]
    /\ me = [p \in Proc |-> Fresh]

-----------------------------------------------------------------------------
(* How a step moves its process. *)

\* The labels at which the journal read earlier, and the lease expected, are
\* still used; a process forgets them elsewhere.
Reading ==
    {"load2", "stale", "orphan", "ack1", "ack2", "ack3", "ack4", "ack5",
     "ack6", "fsweep", "xsweep", "aprep", "ckill"}

Expecting ==
    {"reclaim", "fsweep", "fkill", "fcommit", "fapprove", "rmplan", "rmside",
     "rmlease"}

Kept(l, m) ==
    IF l = "dead" THEN Fresh
    ELSE [m EXCEPT !.seen = IF l \in Reading THEN @ ELSE JournalInit,
                   !.want = IF l \in Expecting THEN @ ELSE None]

Step(p, l, m) ==
    /\ pc' = [pc EXCEPT ![p] = l]
    /\ me' = [me EXCEPT ![p] = Kept(l, m)]

Goto(p, l) == Step(p, l, me[p])

\* A command that fails ends, giving its lease back if it has a Driver.
QuitLabel(p) == IF me[p].tenure = None THEN "dead" ELSE "release"

Quit(p) == Goto(p, QuitLabel(p))

Read(p, l) == Step(p, l, [me[p] EXCEPT !.seen = jr])

\* A step that only looks, or only moves its process.
NoEffect == UNCHANGED <<jr, files, sessions, lock>>

\* A write that is one locked region, and the writes that open, continue and
\* close a longer one.
Alone == lock = None /\ lock' = None
TakeLock(p) == lock = None /\ lock' = p
KeepLock(p) == lock = p /\ lock' = p
DropLock(p) == lock = p /\ lock' = None

Append(j) == jr' = j /\ UNCHANGED <<files, sessions>>

-----------------------------------------------------------------------------
(* Starting and dying. *)

\* `run` acquires at once; `resume` and `cancel` run recovery passes; cancel
\* first records its request; `approve` and `amend` first load the proposal.
Start(p) ==
    /\ pc[p] = "idle"
    /\ Goto(p, CASE p \in Runners -> "acquire"
                 [] p \in Resumers -> "load1"
                 [] p \in Approvers -> "aload"
                 [] p \in Cancellers -> "creq")
    /\ NoEffect

\* The kernel releases a dead process's lock; its adapter sessions live on.
\* A halted outcome (an unverifiable sweep or owner) ends a process the same
\* way: its lease is not released.
Crash(p) ==
    /\ p \in Faulty
    /\ Live(p)
    /\ Goto(p, "dead")
    /\ lock' = IF lock = p THEN None ELSE lock
    /\ UNCHANGED <<jr, files, sessions>>

\* Driver.Release: CompareRemoveLease, which refuses another lease.
Release(p) ==
    /\ pc[p] = "release"
    /\ Alone
    /\ Goto(p, "dead")
    /\ lease' = IF lease = me[p].tenure THEN None ELSE lease
    /\ UNCHANGED <<jr, sidecar, plans, scores, quar, sessions>>

-----------------------------------------------------------------------------
(* Acquiring authority. *)

\* Mutant: an epoch already granted is used again, with no new grant.
AcquireSameEpoch(p) ==
    /\ pc[p] = "acquire"
    /\ IF CanGrant(jr) /\ lease = None
         THEN /\ TakeLock(p)
              /\ Append(IF jr.owner = None THEN Grant(jr, p)
                        ELSE [jr EXCEPT !.owner = p])
              /\ Goto(p, "lease")
         ELSE Alone /\ Goto(p, "dead") /\ UNCHANGED <<jr, files, sessions>>

\* AcquireDriver: authority.granted, then the lease.  A pending cancellation
\* does not stop it; a pending prepare does (Apply's barrier).
Acquire(p) ==
    /\ pc[p] = "acquire"
    /\ IF CanGrant(jr) /\ lease = None
         THEN /\ TakeLock(p)
              /\ Append(Grant(jr, p))
              /\ Goto(p, "lease")
         ELSE Alone /\ Goto(p, "dead") /\ UNCHANGED <<jr, files, sessions>>

\* Mutant: the lease is written for the epoch after the granted one.
CreateLeaseAhead(p) ==
    /\ pc[p] = "lease"
    /\ DropLock(p)
    /\ lease' = [epoch |-> jr.epoch + 1, owner |-> p]
    /\ Step(p, IF p \in Runners \/ Prepared(p) THEN "watch" ELSE "load1",
            [me[p] EXCEPT !.tenure = lease'])
    /\ UNCHANGED <<jr, sidecar, plans, scores, quar, sessions>>

\* The lease is published; the executor re-plans, while `run`, and a driver
\* continuing after its own approval, start their control watcher.
CreateLease(p) ==
    /\ pc[p] = "lease"
    /\ DropLock(p)
    /\ lease' = [epoch |-> jr.epoch, owner |-> p]
    /\ Step(p, IF p \in Runners \/ Prepared(p) THEN "watch" ELSE "load1",
            [me[p] EXCEPT !.tenure = lease'])
    /\ UNCHANGED <<jr, sidecar, plans, scores, quar, sessions>>

\* ReclaimDeadRecoveryDriver: the dead owner's lease goes first...
Reclaim(p) ==
    /\ pc[p] = "reclaim"
    /\ LET w == me[p].want IN
       IF /\ ~Terminal(jr) /\ jr.epoch = w.epoch /\ jr.owner = w.owner
          /\ lease = w /\ ~Live(w.owner)
         THEN /\ TakeLock(p)
              /\ lease' = None
              /\ Goto(p, "regrant")
              /\ UNCHANGED <<jr, sidecar, plans, scores, quar, sessions>>
         ELSE Alone /\ Quit(p) /\ UNCHANGED <<jr, files, sessions>>

\* ...and only then is the grant's legality examined.
Regrant(p) ==
    /\ pc[p] = "regrant"
    /\ IF CanGrant(jr)
         THEN KeepLock(p) /\ Append(Grant(jr, p)) /\ Goto(p, "lease")
         ELSE DropLock(p) /\ Quit(p) /\ UNCHANGED <<jr, files, sessions>>

-----------------------------------------------------------------------------
(* A recovery pass: executeRecovery, Executor.executeSelected, Plan. *)

PreparePlanPresent(j) == j.prep.id \in plans

PrepareSnapshotPresent(j) == <<j.prep.base + 1, j.prep.id>> \in scores

\* Mutant: the cancellation row of the table is missing.
PlanIgnoringCancel(p) ==
    LET s == me[p].seen IN
    IF Terminal(s) THEN "tclean"
    ELSE IF lease # None /\ lease.epoch < s.epoch THEN "stale"
    ELSE IF lease # None /\ Live(lease.owner) THEN "refuse"
    ELSE IF s.prep # None THEN "commit"
    ELSE IF lease = None THEN "acquire"
    ELSE "reclaim"

\* What Plan selects for the journal read first and the files read after it;
\* "halt" and "refuse" are outcomes, the rest the step that carries it out.
\* acquireAuthority is a no-op once the executor has a Driver.
Plan(p) ==
    LET s == me[p].seen
        mine == lease = me[p].tenure
    IN
    IF Terminal(s) THEN "tclean"
    ELSE IF lease # None /\ lease.epoch < s.epoch THEN "stale"
    ELSE IF lease # None /\ (lease.epoch > s.epoch \/ s.owner = None)
      THEN "orphan"
    ELSE IF lease # None /\ ~mine /\ Live(lease.owner) THEN "refuse"
    ELSE IF s.cancel THEN "xload"
    ELSE IF s.prep # None
      THEN IF PreparePlanPresent(s) /\ PrepareSnapshotPresent(s)
             THEN "commit" ELSE "halt"
    ELSE IF lease # None /\ mine THEN "drive"
    ELSE IF me[p].tenure # None THEN "load1"
    ELSE IF lease = None THEN "acquire"
    ELSE "reclaim"

\* LoadRunInput replays the journal without the lock...
LoadRunInput(p) ==
    /\ pc[p] = "load1"
    /\ Read(p, "load2")
    /\ NoEffect

\* ...and recoveryobs.Collect then reads the files.  The first pass over a
\* run with no lease cleans up before it acts, and loads again.
Collect(p) ==
    /\ pc[p] = "load2"
    /\ LET l == Plan(p) IN
       IF l = "halt" THEN Goto(p, "dead")
       ELSE IF lease = None /\ ~me[p].cleaned THEN Goto(p, "cleanup")
       ELSE IF l = "refuse" /\ p \in Cancellers
         THEN Goto(p, IF me[p].final THEN "dead" ELSE "refused")
       ELSE IF l = "refuse" THEN Quit(p)
       ELSE Step(p, l, [me[p] EXCEPT !.want = lease])
    /\ NoEffect

\* RC-RESUME-048: an unresolved blocking decision, which the model leaves
\* open, ends the pass instead of establishing or using authority.
ReturnWaitingHuman(p) ==
    /\ pc[p] = "load2"
    /\ Plan(p) \in {"drive", "load1", "acquire"}
    /\ lease = me[p].tenure \/ (lease = None /\ me[p].cleaned)
    /\ Quit(p)
    /\ NoEffect

\* Mutant: only run.started protects a snapshot.
UnreferencedByStart == {s \in scores : s[1] # 1}

\* cleanupUnreferencedRecoveryArtifacts: snapshots no event names...
Unreferenced == {s \in scores : \A r \in jr.refs : r[1] # s[1]}

Cleanup(p) ==
    /\ pc[p] = "cleanup"
    /\ TakeLock(p)
    /\ scores' = scores \ Unreferenced
    /\ quar' = quar \cup Unreferenced
    /\ Goto(p, "cleanplan")
    /\ UNCHANGED <<jr, lease, sidecar, plans, sessions>>

\* Mutant: the pending prepare's plan goes too.
CleanAllPlans(p) ==
    /\ pc[p] = "cleanplan"
    /\ DropLock(p)
    /\ plans' = {}
    /\ IF me[p].cleaned
         THEN Goto(p, "dead")
         ELSE Step(p, "load1", [me[p] EXCEPT !.cleaned = TRUE])
    /\ UNCHANGED <<jr, lease, sidecar, scores, quar, sessions>>

\* ...and every plan but the pending prepare's.  The cleanup that follows a
\* terminal cleanup (which marks the pass cleaned first) ends the command.
CleanPlans(p) ==
    /\ pc[p] = "cleanplan"
    /\ DropLock(p)
    /\ plans' = IF jr.prep = None THEN {} ELSE plans \cap {jr.prep.id}
    /\ IF me[p].cleaned
         THEN Goto(p, "dead")
         ELSE Step(p, "load1", [me[p] EXCEPT !.cleaned = TRUE])
    /\ UNCHANGED <<jr, lease, sidecar, scores, quar, sessions>>

\* removeStaleLease: compares with the epoch that Plan saw.
RemoveStaleLease(p) ==
    /\ pc[p] = "stale"
    /\ Alone
    /\ IF lease # None /\ lease.epoch >= me[p].seen.epoch
         THEN Quit(p) /\ UNCHANGED lease
         ELSE Goto(p, "load1") /\ lease' = None
    /\ UNCHANGED <<jr, sidecar, plans, scores, quar, sessions>>

\* quarantineOrphanLease: so does this one.
QuarantineOrphanLease(p) ==
    /\ pc[p] = "orphan"
    /\ Alone
    /\ IF lease # None /\ lease.epoch <= me[p].seen.epoch
         THEN Quit(p) /\ UNCHANGED lease
         ELSE Goto(p, "load1") /\ lease' = None
    /\ UNCHANGED <<jr, sidecar, plans, scores, quar, sessions>>

\* terminalCleanup: the lease, the sidecars, the plans; then the cleanup
\* above if this pass has not made it yet.
TerminalCleanup(p) ==
    /\ pc[p] = "tclean"
    /\ TakeLock(p)
    /\ lease' = None
    /\ Goto(p, "tside")
    /\ UNCHANGED <<jr, sidecar, plans, scores, quar, sessions>>

TerminalSidecars(p) ==
    /\ pc[p] = "tside"
    /\ KeepLock(p)
    /\ sidecar' = [q \in Proc |-> None]
    /\ Goto(p, "tplan")
    /\ UNCHANGED <<jr, lease, plans, scores, quar, sessions>>

TerminalPlans(p) ==
    /\ pc[p] = "tplan"
    /\ DropLock(p)
    /\ plans' = {}
    /\ IF me[p].cleaned
         THEN Goto(p, "dead")
         ELSE Step(p, "cleanup", [me[p] EXCEPT !.cleaned = TRUE])
    /\ UNCHANGED <<jr, lease, sidecar, scores, quar, sessions>>

-----------------------------------------------------------------------------
(* Driving: every append is a compare-and-swap on the lease (Driver.Mutate). *)

Authorized(p) ==
    /\ ~Terminal(jr)
    /\ jr.owner = p
    /\ lease = me[p].tenure
    /\ jr.epoch = lease.epoch

\* Once the lease exists, the watcher looks at the journal before any work.
Watch(p) ==
    /\ pc[p] = "watch"
    /\ IF jr.cancel THEN Goto(p, "xload")
       ELSE IF jr.prep = None THEN Goto(p, "drive")
       ELSE IF Prepared(p) THEN Goto(p, "release")
       ELSE Read(p, "ack1")
    /\ NoEffect

Drive(p) == pc[p] = "drive" /\ Alone /\ Authorized(p) /\ Goto(p, "drive")

\* execution.started
OpenInterval(p) == Drive(p) /\ CanOpen(jr) /\ Append(Open(jr))

\* attempt.started (adapter) or criterion_spawned: the launch handoff lets a
\* session run only once the journal names it.  One per tenure here.
StartSession(p) ==
    /\ Drive(p)
    /\ jr.open
    /\ CanRecordSession(jr)
    /\ lease.epoch \notin jr.recorded
    /\ jr' = RecordSession(jr, lease.epoch)
    /\ sessions' = sessions \cup {lease.epoch}
    /\ UNCHANGED files

\* The sessions of this tenure and of the ones before it.
Mine(p) == {e \in sessions : e <= me[p].tenure.epoch}

\* The adapter client ends its own session, or a successor sweeps the ones
\* recorded before it (C.2 and C.3).
SweepSessions(p) ==
    /\ pc[p] = "drive"
    /\ Mine(p) # {}
    /\ sessions' = sessions \ Mine(p)
    /\ Goto(p, "drive")
    /\ UNCHANGED <<jr, files, lock>>

\* execution.stopped, which the barrier admits.
CloseInterval(p) == Drive(p) /\ CanStop(jr) /\ Append(Stop(jr))

\* run.succeeded or run.failed, after which the driver releases.
FinishRun(p) ==
    /\ pc[p] = "drive"
    /\ Alone
    /\ Authorized(p)
    /\ CanFinish(jr) /\ ~jr.open /\ Mine(p) = {}
    /\ Append(Finish(jr))
    /\ IF p \in Resumers /\ ~Prepared(p) THEN Goto(p, "load1") ELSE Quit(p)

\* The driver reaches a human gate, or its work is interrupted by an error.
PauseRun(p) ==
    /\ pc[p] = "drive"
    /\ ~jr.open /\ Mine(p) = {}
    /\ Quit(p)
    /\ NoEffect

\* An append that Apply or the compare-and-swap refuses interrupts the run:
\* the driver stops the session it runs and releases, whatever is open.
Refused(p) ==
    /\ pc[p] = "drive"
    /\ lock = None
    /\ BarrierUp(jr) \/ ~Authorized(p)
    /\ sessions' = sessions \ {me[p].tenure.epoch}
    /\ Quit(p)
    /\ UNCHANGED <<jr, files, lock>>

\* The watcher has seen a cancellation or a prepare.
ObserveControl(p) ==
    /\ pc[p] = "drive"
    /\ IF jr.cancel THEN Goto(p, "xload")
       ELSE jr.prep # None /\ Read(p, "ack1")
    /\ NoEffect

\* Between effects the executor loads and plans again.
Replan(p) ==
    /\ pc[p] = "drive"
    /\ p \in Resumers /\ ~Prepared(p)
    /\ Goto(p, "load1")
    /\ NoEffect

-----------------------------------------------------------------------------
(* Acknowledging a prepare: AcknowledgePrepare, by the owning driver. *)

\* The prepare this acknowledgement began with is still pending.
StillPending(p) ==
    /\ jr.prep # None
    /\ jr.prep.id = me[p].seen.prep.id
    /\ ~jr.cancel

\* A failed acknowledgement is an interruption, unless the watcher has seen
\* the cancellation by now.
AckFailed(p) ==
    /\ \/ Quit(p)
       \/ jr.cancel /\ Goto(p, "xload")
    /\ NoEffect

AckBegin(p) ==
    /\ pc[p] = "ack1"
    /\ IF StillPending(p)
         THEN Read(p, "ack2") /\ NoEffect
         ELSE AckFailed(p)

\* appendQuiesceReceipt before the sweep and after it: the receipt moves the
\* silence deadline, which the model leaves to chance, so only its
\* preconditions remain.  The receipts during the sweep repeat it.
CanAppendReceipt(p) ==
    StillPending(p) /\ sidecar[jr.prep.id] = None /\ Authorized(p)

AckReceipt(p) ==
    /\ pc[p] \in {"ack2", "ack4"}
    /\ lock = None
    /\ IF CanAppendReceipt(p)
         THEN /\ Goto(p, IF pc[p] = "ack2" THEN "ack3" ELSE "ack5")
              /\ NoEffect
         ELSE AckFailed(p)

\* Mutant: the acknowledgement does not wait for the sweep.
AckNoSweep(p) ==
    /\ pc[p] = "ack3"
    /\ Goto(p, "ack4")
    /\ NoEffect

\* The sessions named by the journal read at the start.
AckSweep(p) ==
    /\ pc[p] = "ack3"
    /\ sessions' = sessions \ me[p].seen.recorded
    /\ Goto(p, "ack4")
    /\ UNCHANGED <<jr, files, lock>>

AckSweepFails(p) ==
    /\ p \in Faulty
    /\ pc[p] = "ack3"
    /\ AckFailed(p)

\* The interval is closed if the journal read at the start had one.
AckStop(p) ==
    /\ pc[p] = "ack5"
    /\ IF ~me[p].seen.open THEN Goto(p, "ack6") /\ NoEffect
       ELSE IF StillPending(p) /\ Authorized(p) /\ CanStop(jr)
         THEN Alone /\ Goto(p, "ack6") /\ Append(Stop(jr))
       ELSE lock = None /\ AckFailed(p)

\* Mutant: the lease is copied to the sidecar, not moved.
AckCopy(p) ==
    /\ pc[p] = "ack6"
    /\ Alone
    /\ StillPending(p) /\ lease = me[p].tenure
    /\ sidecar' = [sidecar EXCEPT ![jr.prep.id] = lease]
    /\ Goto(p, "dead")
    /\ UNCHANGED <<jr, lease, plans, scores, quar, sessions>>

\* CompareMoveLease: the lease becomes the sidecar.  `run` then ends; the
\* executor plans again with a Driver whose lease is gone; a driver that
\* prepared its own proposal goes on to commit it.
AckMove(p) ==
    /\ pc[p] = "ack6"
    /\ IF /\ StillPending(p)
          /\ lease = me[p].tenure /\ jr.epoch = lease.epoch
          /\ sidecar[jr.prep.id] = None
         THEN /\ Alone
              /\ lease' = None
              /\ sidecar' = [sidecar EXCEPT ![jr.prep.id] = lease]
              /\ Goto(p, IF jr.prep.id = p THEN "commit"
                         ELSE IF p \in Runners THEN "dead"
                         ELSE "load1")
              /\ UNCHANGED <<jr, plans, scores, quar, sessions>>
         ELSE lock = None /\ AckFailed(p)

-----------------------------------------------------------------------------
(* Preparing: appendPrepare, by `approve`/`amend` or by the driver itself. *)

\* The proposal is loaded with the head it is based on.
LoadProposal(p) ==
    /\ pc[p] = "aload"
    /\ Read(p, "aprep")
    /\ NoEffect

\* Evaluate's refusals, then PublishImmutable of the snapshot, which refuses
\* other contents under the same name.
CanBeginPrepare(p, base) ==
    /\ CanPrepare(jr, base)
    /\ ~jr.cancel
    /\ \A s \in scores : s[1] = base + 1 => s[2] = p

PublishSnapshot(p) ==
    /\ TakeLock(p)
    /\ scores' = scores \cup {<<jr.head + 1, p>>}
    /\ Goto(p, "pplan")
    /\ UNCHANGED <<jr, lease, sidecar, plans, quar, sessions>>

ApproverPrepare(p) ==
    /\ pc[p] = "aprep"
    /\ IF CanBeginPrepare(p, me[p].seen.head)
         THEN PublishSnapshot(p)
         ELSE Alone /\ Quit(p) /\ UNCHANGED <<jr, files, sessions>>

DriverPrepare(p) ==
    /\ pc[p] = "drive"
    /\ ~Prepared(p)
    /\ Authorized(p)
    /\ jr.open
    /\ CanBeginPrepare(p, jr.head)
    /\ PublishSnapshot(p)

PublishPlan(p) ==
    /\ pc[p] = "pplan"
    /\ KeepLock(p)
    /\ plans' = plans \cup {p}
    /\ Goto(p, "pappend")
    /\ UNCHANGED <<jr, lease, sidecar, scores, quar, sessions>>

AppendPrepared(p) ==
    /\ pc[p] = "pappend"
    /\ DropLock(p)
    /\ Append(Prepare(jr, p))
    /\ IF p \in Approvers
         THEN Goto(p, "commit")
         ELSE Step(p, "ack1", [me[p] EXCEPT !.seen = jr'])

-----------------------------------------------------------------------------
(* Committing: CompleteOrAbandonPrepare.  Its abandon reasons                *)
(* base_head_changed and plan_invalidated need the head to move, or the plan *)
(* to change, under a pending prepare; the barrier excludes both.            *)

CommitInputsPresent ==
    PreparePlanPresent(jr) /\ PrepareSnapshotPresent(jr)

\* approvePrepare, first write; the plan, the sidecar and, if fenced, the
\* lease are removed after it.
ApproveUnfenced(p) ==
    /\ TakeLock(p)
    /\ Append(Approve(jr, FALSE))
    /\ Goto(p, "rmplan")

\* Mutant: a live owner is waited for without a silence limit.
CommitPatiently(p) ==
    /\ pc[p] = "commit"
    /\ lock = None
    /\ IF jr.prep = None THEN Quit(p) /\ NoEffect
       ELSE IF jr.cancel THEN Goto(p, "xload") /\ NoEffect
       ELSE IF ~CommitInputsPresent THEN Quit(p) /\ NoEffect
       ELSE IF sidecar[jr.prep.id] # None \/ lease = None
         THEN ApproveUnfenced(p)
       ELSE IF ~LeaseMatchesPrepare(lease, jr) THEN Quit(p) /\ NoEffect
       ELSE /\ ~Live(lease.owner)
            /\ Step(p, "fsweep", [me[p] EXCEPT !.seen = jr, !.want = lease])
            /\ NoEffect

\* classifyPrepareCommit.  A live owner within its silence limit is waited
\* for: `approve` polls, a recovery pass ends quiescent.
Commit(p) ==
    /\ pc[p] = "commit"
    /\ lock = None
    /\ IF jr.prep = None THEN Quit(p) /\ NoEffect
       ELSE IF jr.cancel THEN Goto(p, "xload") /\ NoEffect
       ELSE IF ~CommitInputsPresent THEN Quit(p) /\ NoEffect
       ELSE IF sidecar[jr.prep.id] # None
         THEN IF LeaseMatchesPrepare(sidecar[jr.prep.id], jr)
                THEN ApproveUnfenced(p)
                ELSE Quit(p) /\ NoEffect
       ELSE IF lease = None THEN ApproveUnfenced(p)
       ELSE IF ~LeaseMatchesPrepare(lease, jr) THEN Quit(p) /\ NoEffect
       ELSE \/ Live(lease.owner) /\ p \notin Approvers /\ Quit(p) /\ NoEffect
            \/ /\ Step(p, "fsweep",
                       [me[p] EXCEPT !.seen = jr, !.want = lease])
               /\ NoEffect

\* Mutant: the superseded sessions are left to the next driver.
FenceNoSweep(p) ==
    /\ pc[p] = "fsweep"
    /\ Goto(p, "fkill")
    /\ NoEffect

FenceSweep(p) ==
    /\ pc[p] = "fsweep"
    /\ sessions' = sessions \ me[p].seen.recorded
    /\ Goto(p, "fkill")
    /\ UNCHANGED <<jr, files, lock>>

\* procid.Terminate: the process named by the lease is gone when it returns.
Kill(q) == lock' = IF lock = q THEN None ELSE lock

\* TerminateLeaseOwner reads the lease again and refuses a different one.
FenceKill(p) ==
    /\ pc[p] = "fkill"
    /\ LET q == me[p].want.owner IN
       IF ~Live(q) THEN Goto(p, "fcommit") /\ UNCHANGED lock
       ELSE IF lease # me[p].want THEN Quit(p) /\ UNCHANGED lock
       ELSE /\ pc' = [pc EXCEPT ![p] = "fcommit", ![q] = "dead"]
            /\ me' = [me EXCEPT ![p] = Kept("fcommit", @), ![q] = Fresh]
            /\ Kill(q)
    /\ UNCHANGED <<jr, files, sessions>>

\* Mutant: cancellation is not looked for again once the owner is gone.
FenceCommitBlindly(p) ==
    /\ pc[p] = "fcommit"
    /\ lock = None
    /\ IF \/ jr.prep = None \/ ~CommitInputsPresent
          \/ lease # me[p].want \/ ~LeaseMatchesPrepare(lease, jr)
         THEN Quit(p) /\ NoEffect
       ELSE /\ TakeLock(p)
            /\ Append(IF jr.open THEN Stop(jr) ELSE jr)
            /\ Goto(p, "fapprove")

\* commitFencedPrepare: the cut is examined afresh under the lock.
FenceCommit(p) ==
    /\ pc[p] = "fcommit"
    /\ lock = None
    /\ IF jr.prep = None \/ jr.cancel \/ ~CommitInputsPresent
         THEN Quit(p) /\ NoEffect
       ELSE IF sidecar[jr.prep.id] # None
         THEN IF LeaseMatchesPrepare(sidecar[jr.prep.id], jr)
                THEN /\ TakeLock(p)
                     /\ Append(Approve(jr, FALSE))
                     /\ Step(p, "rmplan", [me[p] EXCEPT !.want = None])
                ELSE Quit(p) /\ NoEffect
       ELSE IF lease # me[p].want \/ ~LeaseMatchesPrepare(lease, jr)
         THEN Quit(p) /\ NoEffect
       ELSE /\ TakeLock(p)
            /\ Append(IF jr.open THEN Stop(jr) ELSE jr)
            /\ Goto(p, "fapprove")

FenceApprove(p) ==
    /\ pc[p] = "fapprove"
    /\ KeepLock(p)
    /\ Append(Approve(jr, TRUE))
    /\ Goto(p, "rmplan")

\* Where a committed approval leaves its process: `approve` is done, a driver
\* whose own prepare this was re-acquires, the executor plans again.
CommittedLabel(p) ==
    IF p \in Approvers THEN "dead"
    ELSE IF jr.by = p THEN "autoload"
    ELSE "load1"

RemovePlan(p) ==
    /\ pc[p] = "rmplan"
    /\ KeepLock(p)
    /\ plans' = plans \ {jr.by}
    /\ Goto(p, "rmside")
    /\ UNCHANGED <<jr, lease, sidecar, scores, quar, sessions>>

RemoveSidecar(p) ==
    /\ pc[p] = "rmside"
    /\ sidecar' = [sidecar EXCEPT ![jr.by] = None]
    /\ IF me[p].want = None
         THEN DropLock(p) /\ Goto(p, CommittedLabel(p))
         ELSE KeepLock(p) /\ Goto(p, "rmlease")
    /\ UNCHANGED <<jr, lease, plans, scores, quar, sessions>>

RemoveFencedLease(p) ==
    /\ pc[p] = "rmlease"
    /\ DropLock(p)
    /\ lease' = None
    /\ Goto(p, CommittedLabel(p))
    /\ UNCHANGED <<jr, sidecar, plans, scores, quar, sessions>>

\* completeAutoApprovalAndContinue
AutoContinue(p) ==
    /\ pc[p] = "autoload"
    /\ IF jr.run = "cancelled" THEN Goto(p, "dead")
       ELSE IF jr.cancel THEN Goto(p, "xload")
       ELSE Goto(p, "acquire")
    /\ NoEffect

-----------------------------------------------------------------------------
(* Cancelling: RequestCancellation, the waiter, ExecuteCancellation. *)

RequestCancellation(p) ==
    /\ pc[p] = "creq"
    /\ Alone
    /\ Append(IF CanRequestCancel(jr) THEN RequestCancel(jr) ELSE jr)
    /\ Goto(p, "load1")

\* A live owner refuses the pass: the command waits and tries again...
CancelRetry(p) ==
    /\ pc[p] = "refused"
    /\ Step(p, "load1", [me[p] EXCEPT !.cleaned = FALSE])
    /\ NoEffect

\* ...until its deadline; it then observes...
CancelDeadline(p) ==
    /\ pc[p] = "refused"
    /\ Read(p, "ckill")
    /\ NoEffect

\* Mutant: the deadline passes without the owner being terminated.
CancelNoTerminate(p) ==
    /\ pc[p] = "ckill"
    /\ Step(p, "load1", [me[p] EXCEPT !.cleaned = FALSE, !.final = TRUE])
    /\ NoEffect

\* ...terminates the owner of a current lease, which TerminateLeaseOwner has
\* read again, and makes one last pass.
CancelTerminate(p) ==
    /\ pc[p] = "ckill"
    /\ LET m == [me[p] EXCEPT !.cleaned = FALSE, !.final = TRUE] IN
       IF /\ lease # None /\ lease.epoch = me[p].seen.epoch
          /\ Live(lease.owner)
         THEN /\ pc' = [pc EXCEPT ![p] = "load1", ![lease.owner] = "dead"]
              /\ me' = [me EXCEPT ![p] = Kept("load1", m),
                                  ![lease.owner] = Fresh]
              /\ Kill(lease.owner)
         ELSE Step(p, "load1", m) /\ UNCHANGED lock
    /\ UNCHANGED <<jr, files, sessions>>

CanExecuteCancellation == ~Terminal(jr) /\ jr.cancel

\* (a) the recorded sessions, from a journal read without the lock.
CancelLoad(p) ==
    /\ pc[p] = "xload"
    /\ IF CanExecuteCancellation THEN Read(p, "xsweep") ELSE Quit(p)
    /\ NoEffect

\* Mutant: the oracle starts from (b).
CancelNoSweep(p) ==
    /\ pc[p] = "xsweep"
    /\ Goto(p, "xlock")
    /\ NoEffect

CancelSweep(p) ==
    /\ pc[p] = "xsweep"
    /\ sessions' = sessions \ me[p].seen.recorded
    /\ Goto(p, "xlock")
    /\ UNCHANGED <<jr, files, lock>>

CancelEnter(p) ==
    /\ pc[p] = "xlock"
    /\ IF CanExecuteCancellation
         THEN TakeLock(p) /\ Goto(p, IF BarrierUp(jr) THEN "xsnap" ELSE "xstop")
         ELSE Alone /\ Quit(p)
    /\ UNCHANGED <<jr, files, sessions>>

\* (b) the pending prepare: its snapshot is quarantined, or was by an earlier
\* attempt at this step; its plan and sidecar go; it is abandoned.
CancelSnapshot(p) ==
    /\ pc[p] = "xsnap"
    /\ LET s == <<jr.prep.base + 1, jr.prep.id>> IN
       IF s \in scores \cup quar
         THEN /\ KeepLock(p)
              /\ scores' = scores \ {s}
              /\ quar' = quar \cup {s}
              /\ Goto(p, "xplan")
         ELSE DropLock(p) /\ Quit(p) /\ UNCHANGED <<scores, quar>>
    /\ UNCHANGED <<jr, lease, sidecar, plans, sessions>>

CancelPlan(p) ==
    /\ pc[p] = "xplan"
    /\ KeepLock(p)
    /\ plans' = plans \ {jr.prep.id}
    /\ Goto(p, "xside")
    /\ UNCHANGED <<jr, lease, sidecar, scores, quar, sessions>>

CancelSidecar(p) ==
    /\ pc[p] = "xside"
    /\ KeepLock(p)
    /\ sidecar' = [sidecar EXCEPT ![jr.prep.id] = None]
    /\ Goto(p, "xabandon")
    /\ UNCHANGED <<jr, lease, plans, scores, quar, sessions>>

CancelAbandon(p) ==
    /\ pc[p] = "xabandon"
    /\ KeepLock(p)
    /\ Append(Abandon(jr))
    /\ Goto(p, "xstop")

\* (c) the open interval.
CancelStop(p) ==
    /\ pc[p] = "xstop"
    /\ KeepLock(p)
    /\ Append(IF jr.open THEN Stop(jr) ELSE jr)
    /\ Goto(p, "xcancel")

\* What follows a completed cancellation: the executor reports it if it ran
\* the oracle itself, and plans again if the attempt it was driving did.
CancelledLabels(p) ==
    IF p \in Resumers /\ me[p].tenure # None
      THEN {"load1", "release"} ELSE {"dead"}

\* (d) fences a lease at the current epoch and (e) ends the run.
CancelRun(p) ==
    /\ pc[p] = "xcancel"
    /\ IF lease # None /\ lease.epoch = jr.epoch
         THEN /\ KeepLock(p)
              /\ Append(Cancel(jr, TRUE))
              /\ Goto(p, "xlease")
         ELSE /\ DropLock(p)
              /\ Append(Cancel(jr, FALSE))
              /\ \E l \in CancelledLabels(p) : Goto(p, l)

\* (f) the fenced lease is removed.
CancelLease(p) ==
    /\ pc[p] = "xlease"
    /\ DropLock(p)
    /\ lease' = None
    /\ \E l \in CancelledLabels(p) : Goto(p, l)
    /\ UNCHANGED <<jr, sidecar, plans, scores, quar, sessions>>

-----------------------------------------------------------------------------

\* The steps a process takes of its own accord.
Acquiring(p) == Acquire(p) \/ CreateLease(p) \/ Reclaim(p) \/ Regrant(p)

Recovering(p) ==
    \/ LoadRunInput(p) \/ Collect(p) \/ ReturnWaitingHuman(p)
    \/ Cleanup(p) \/ CleanPlans(p)
    \/ RemoveStaleLease(p) \/ QuarantineOrphanLease(p)
    \/ TerminalCleanup(p) \/ TerminalSidecars(p) \/ TerminalPlans(p)

Driving(p) ==
    \/ Watch(p) \/ OpenInterval(p) \/ StartSession(p) \/ SweepSessions(p)
    \/ CloseInterval(p) \/ FinishRun(p) \/ PauseRun(p) \/ Refused(p)
    \/ ObserveControl(p) \/ Replan(p) \/ DriverPrepare(p) \/ Release(p)

Acknowledging(p) ==
    \/ AckBegin(p) \/ AckReceipt(p) \/ AckSweep(p) \/ AckSweepFails(p)
    \/ AckStop(p) \/ AckMove(p)

Preparing(p) ==
    \/ LoadProposal(p) \/ ApproverPrepare(p) \/ PublishPlan(p)
    \/ AppendPrepared(p)

Committing(p) ==
    \/ Commit(p) \/ FenceSweep(p) \/ FenceKill(p) \/ FenceCommit(p)
    \/ FenceApprove(p) \/ RemovePlan(p) \/ RemoveSidecar(p)
    \/ RemoveFencedLease(p) \/ AutoContinue(p)

Cancelling(p) ==
    \/ RequestCancellation(p) \/ CancelRetry(p) \/ CancelDeadline(p)
    \/ CancelTerminate(p) \/ CancelLoad(p) \/ CancelSweep(p)
    \/ CancelEnter(p) \/ CancelSnapshot(p) \/ CancelPlan(p)
    \/ CancelSidecar(p) \/ CancelAbandon(p) \/ CancelStop(p)
    \/ CancelRun(p) \/ CancelLease(p)

Work(p) ==
    \/ Acquiring(p) \/ Recovering(p) \/ Driving(p) \/ Acknowledging(p)
    \/ Preparing(p) \/ Committing(p) \/ Cancelling(p)

Next == \E p \in Proc : Start(p) \/ Crash(p) \/ Work(p)

Spec == Init /\ [][Next]_vars

-----------------------------------------------------------------------------
(* Safety. *)

TypeOK ==
    /\ jr \in JournalType
    /\ lease \in Leases \cup {None}
    /\ sidecar \in [Proc -> Leases \cup {None}]
    /\ plans \subseteq Proc
    /\ scores \subseteq Nat \X (Proc \cup {Root})
    /\ quar \subseteq Nat \X (Proc \cup {Root})
    /\ sessions \subseteq Nat
    /\ lock \in Proc \cup {None}
    /\ pc \in [Proc -> Free \cup Held]
    /\ me \in [Proc -> Memory]

\* No lease is ahead of the journal, and a lease at the journal's epoch names
\* the journal's owner, whatever died between authority.granted and the
\* creation or removal of driver.lease: a true orphan lease never exists.
LeaseHasGrant ==
    lease # None =>
        /\ lease.epoch <= jr.epoch
        /\ lease.epoch = jr.epoch => lease.owner = jr.owner

\* Two Driver objects never carry the same epoch, although AcquireDriver and
\* ReclaimDeadRecoveryDriver may die between the grant and the lease: the
\* compare-and-swap of Driver.Mutate accepts at most one process.
TenuresAreDistinct ==
    \A p, q \in Proc :
        p # q /\ me[p].tenure # None /\ me[q].tenure # None
            => me[p].tenure.epoch # me[q].tenure.epoch

\* The epoch's one lease file is either driver.lease or the sidecar of an
\* acknowledged prepare, never both.
OneLeasePerEpoch ==
    \A p \in Proc : sidecar[p] # None /\ lease # None
        => lease.epoch # sidecar[p].epoch

\* Authority is exclusive: one process per epoch, and one lease file.
AuthorityIsExclusive == TenuresAreDistinct /\ OneLeasePerEpoch

\* A sidecar for the pending prepare means its driver has drained: nothing
\* runs and no interval is open, so that classifyPrepareCommit may approve
\* without sweeping, stopping or fencing.
QuiescedIsQuiet ==
    jr.prep # None /\ sidecar[jr.prep.id] # None
        => sessions = {} /\ ~jr.open

\* When commitFencedPrepare writes its approval, the superseded owner is gone
\* and nothing it started survives, although the sweep and the termination
\* were made without the lock.
FenceIsQuiet ==
    \A p \in Proc : pc[p] = "fapprove" =>
        sessions = {} /\ ~jr.open /\ ~Live(me[p].want.owner)

\* A prepare that can still be committed has its plan and its snapshot: no
\* cleanup, cancellation or earlier commit takes them, so that recovery never
\* halts missing_prepare_plan or missing_snapshot_file.
PrepareIsCommittable ==
    jr.prep # None /\ ~jr.cancel => CommitInputsPresent

\* The score head's snapshot file stays in place, even when a cleanup
\* quarantines what a dead prepare left under the same revision.
HeadIsPinned == <<jr.head, jr.by>> \in scores

\* A cancelled run has no open interval, no pending prepare and no session,
\* although its sessions are swept before the lock is taken.
CancelledIsQuiet ==
    jr.run = "cancelled" => ~jr.open /\ jr.prep = None /\ sessions = {}

\* `cancel` runs whole recovery passes, but none of them establishes
\* authority: no replacement driver is launched (RC-RESUME-006).
CancelNeverDrives == \A p \in Cancellers : me[p].tenure = None /\ jr.owner # p

\* The journal alone behaves as RunContract demands.
Contract ==
    INSTANCE RunContract WITH
        Ids <- Proc,
        NoId <- None,
        status <- jr.run,
        asked <- jr.cancel,
        head <- jr.head,
        pending <- IF jr.prep = None THEN None ELSE jr.prep.id,
        used <- {p \in Proc : Prepared(p)},
        token <- jr.epoch,
        busy <- jr.open

\* The control channel implements the contract: head, token, cancellation and
\* the prepare barrier, over every handler of this module.
ImplementsContract == Contract!CSpec

-----------------------------------------------------------------------------
(* The inductive invariant. *)

\* The state lock is held exactly by the process inside a locked region.
LockInv == \A p \in Proc : pc[p] \in Held <=> lock = p

\* What a locked region relies on from the checks made when it was entered,
\* until its last write; it is stated of a label, so that it can be carried
\* over a step.
Region(p, l, j, ls) ==
    /\ l = "lease" => j.owner = p /\ ls = None /\ CanGrant(j)
    /\ l = "regrant" => ls = None
    /\ l \in {"pplan", "pappend"} => CanPrepare(j, j.head) /\ ~j.cancel
    /\ l = "fapprove" => j.prep # None /\ ~j.cancel /\ ~j.open
    /\ l \in {"xsnap", "xplan", "xside", "xabandon"}
         => ~Terminal(j) /\ j.cancel /\ j.prep # None
    /\ l \in {"xstop", "xcancel"}
         => ~Terminal(j) /\ j.cancel /\ j.prep = None
    /\ l = "xcancel" => ~j.open

RegionInv == \A p \in Proc : Region(p, pc[p], jr, lease)

\* A pending prepare freezes the run: it still runs, at the head and at the
\* authority epoch that approval_prepared recorded.
PrepareInv ==
    jr.prep # None =>
        /\ ~Terminal(jr)
        /\ jr.prep.base = jr.head
        /\ jr.prep.epoch = jr.epoch

\* An owner has been granted an epoch.
GrantInv == jr.owner # None => jr.epoch # 0

\* Where a process is that has not prepared yet, but may.
Unprepared == {"idle", "aload", "aprep", "pplan", "pappend"}

UnpreparedInv == \A p \in Proc : pc[p] \in Unprepared => ~Prepared(p)

\* Every cut of every handler keeps its locked region's assumptions, the
\* freeze under a pending prepare, and the lease behind its grant.
IInv ==
    /\ TypeOK
    /\ LockInv
    /\ RegionInv
    /\ PrepareInv
    /\ GrantInv
    /\ LeaseHasGrant
    /\ UnpreparedInv

-----------------------------------------------------------------------------
(* What the design states and the code does not guarantee. *)

\* DESIGN.md 6: the lease that is quarantined is one with "no
\* `authority.granted` at its epoch".
OrphanHasNoGrant ==
    [][\A p \in Proc : QuarantineOrphanLease(p) /\ lease' # lease
            => lease.epoch # jr.epoch]_vars

\* DESIGN.md 6, commit table: with no lease and no sidecar there is "nothing
\* to quiesce", so the approval leaves no interval open.
NothingToQuiesce ==
    [][\A p \in Proc :
        Commit(p) /\ jr'.head # jr.head /\ sidecar[jr.prep.id] = None
            => ~jr.open]_vars

-----------------------------------------------------------------------------
(* Liveness. *)

\* A faulty process may wedge or die anywhere but in a locked region, whose
\* few file writes it completes unless it dies.  Any other process keeps
\* running, the ticker of its control watcher keeps firing while it drives,
\* and the clock reaches the acknowledgement deadline of a cancel command
\* that keeps being refused.
Fairness ==
    /\ \A p \in Proc : WF_vars(pc[p] \in Held /\ Work(p))
    /\ \A p \in Proc \ Faulty :
        /\ WF_vars(Work(p))
        /\ WF_vars(ObserveControl(p))
        /\ SF_vars(CancelDeadline(p))

FairSpec == Spec /\ Fairness

\* A requested cancellation ends the run, even if the driver is wedged, dies,
\* or is draining for an amendment at the time.
CancelCompletes == jr.cancel ~> Terminal(jr)

\* `approve` and `amend` return: they do not wait for a driver that will
\* neither acknowledge nor die.
ApproveReturns ==
    \A p \in Approvers : pc[p] = "commit" ~> pc[p] = "dead"

\* RC-RESUME-008: "Re-establish authority per 6, then re-evaluate", also
\* "after a committed matching-sidecar approval": a recovery pass ends, or it
\* comes to drive the run.
AuthorityReestablished ==
    \A p \in Resumers : pc[p] = "load1" ~> pc[p] \in {"drive", "dead"}
=============================================================================
