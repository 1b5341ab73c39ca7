---------------------------- MODULE ControlState ----------------------------
(***************************************************************************)
(* The part of a run's journal projection (runstate.State) that the        *)
(* control channel reads and writes, and the legality rule and effect of   *)
(* each journal event on it (runstate.Apply).  The journal is append-only  *)
(* and every reader replays it, so one record stands for journal.jsonl.    *)
(*                                                                         *)
(* A process is one incarnation of the partitur binary: its PID together   *)
(* with its start identity, so no process value is ever reused.            *)
(***************************************************************************)
EXTENDS Naturals, FiniteSets

CONSTANTS
    Runners,     \* incarnations of `run`, which drive the run they start
    Resumers,    \* incarnations of `resume`, which drive from the executor
    Approvers,   \* incarnations of `approve` and `amend`
    Cancellers,  \* incarnations of `cancel`
    None,        \* absence: no owner, no lease, no pending prepare
    Root         \* the score pinned by run.started

Proc == Runners \cup Resumers \cup Approvers \cup Cancellers

\* A lease names its epoch and its owner.  The random token is abstracted:
\* a process that acquires twice does so at two epochs.
Leases == [epoch : Nat \ {0}, owner : Proc]

\* PendingPrepare: its id (one prepare per preparing incarnation), the
\* observed authority epoch and the base revision; the new head is base + 1.
Prepares == [id : Proc, epoch : Nat, base : Nat]

ASSUME RolesAreDisjoint ==
    /\ Runners \cap (Resumers \cup Approvers \cup Cancellers) = {}
    /\ Resumers \cap (Approvers \cup Cancellers) = {}
    /\ Approvers \cap Cancellers = {}

ASSUME NoneIsNothing ==
    /\ None \notin Proc \cup {Root}
    /\ None \notin Leases
    /\ None \notin Prepares

ASSUME RootIsNoProcess == Root \notin Proc

\* The projection: `open` is OpenExecution, `recorded` the adapter launches
\* named by the epoch of the driver that started them, `head`/`by` the score
\* head (revision and contents), `refs` the snapshots that run.started and
\* approval_prepared events name.
JournalType ==
    [run      : {"running", "ended", "cancelled"},
     epoch    : Nat,
     owner    : Proc \cup {None},
     cancel   : BOOLEAN,
     prep     : Prepares \cup {None},
     open     : BOOLEAN,
     head     : Nat,
     by       : Proc \cup {Root},
     recorded : SUBSET Nat,
     refs     : SUBSET (Nat \X (Proc \cup {Root}))]

JournalInit ==
    [run |-> "running", epoch |-> 0, owner |-> None, cancel |-> FALSE,
     prep |-> None, open |-> FALSE, head |-> 1, by |-> Root,
     recorded |-> {}, refs |-> {<<1, Root>>}]

Terminal(j) == j.run # "running"

-----------------------------------------------------------------------------
(* Legality (Can...) and effect of each event. *)

\* Mutant: Apply does not consult preparePendingMutation.
BarrierIgnored(j) == FALSE

\* preparePendingMutation: a pending prepare admits only the drain, the
\* settlement of the prepare and the request to cancel.
BarrierUp(j) == j.prep # None

CanGrant(j) == ~BarrierUp(j) /\ ~Terminal(j)

\* Mutant: the grant does not advance the epoch.
GrantSameEpoch(j, p) == [j EXCEPT !.owner = p]

Grant(j, p) == [j EXCEPT !.epoch = @ + 1, !.owner = p]

CanOpen(j) == ~BarrierUp(j) /\ ~j.open

Open(j) == [j EXCEPT !.open = TRUE]

CanStop(j) == j.open

Stop(j) == [j EXCEPT !.open = FALSE]

CanRecordSession(j) == ~BarrierUp(j)

RecordSession(j, e) == [j EXCEPT !.recorded = @ \cup {e}]

CanFinish(j) == ~BarrierUp(j) /\ j.run = "running"

Finish(j) == [j EXCEPT !.run = "ended"]

CanPrepare(j, base) == ~BarrierUp(j) /\ ~Terminal(j) /\ j.head = base

Prepare(j, p) ==
    [j EXCEPT !.prep = [id |-> p, epoch |-> j.epoch, base |-> j.head],
              !.refs = @ \cup {<<j.head + 1, p>>}]

\* fenced_epoch is present exactly when the approval advances the authority.
Approve(j, fenced) ==
    [j EXCEPT !.head = j.prep.base + 1,
              !.by = j.prep.id,
              !.prep = None,
              !.epoch = IF fenced THEN @ + 1 ELSE @,
              !.owner = IF fenced THEN None ELSE @]

Abandon(j) == [j EXCEPT !.prep = None]

CanRequestCancel(j) == ~Terminal(j) /\ ~j.cancel

RequestCancel(j) == [j EXCEPT !.cancel = TRUE]

Cancel(j, fenced) ==
    [j EXCEPT !.run = "cancelled",
              !.epoch = IF fenced THEN @ + 1 ELSE @,
              !.owner = IF fenced THEN None ELSE @]

\* leaseMatchesPrepare
LeaseMatchesPrepare(ls, j) ==
    /\ ls.epoch = j.prep.epoch
    /\ j.epoch = j.prep.epoch
    /\ ls.owner = j.owner
=============================================================================
