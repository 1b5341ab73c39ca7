-------------------------- MODULE RunSafety_proofs --------------------------
(***************************************************************************)
(* Proofs of the safety invariants of RunControl, for any set of           *)
(* processes of any role.  SInv, inductive relative to IInv, strengthens   *)
(* them with what each process remembers: the Driver of a granted epoch, a *)
(* journal that the present one continues, a lease it has seen, and what   *)
(* an acknowledgement or a fence has already ended.                        *)
(*                                                                         *)
(* The lemmas come in the order of the conjuncts of SInv.  Each group      *)
(* first says, of all the handlers at once, what a step may do to the      *)
(* state the conjunct is about, and then carries the conjunct over a step. *)
(*                                                                         *)
(* CancelledIsQuiet comes last, with an invariant and a hypothesis of its  *)
(* own: QuietInv, where one process drives and one approves.               *)
(***************************************************************************)
EXTENDS RunControl_proofs

-----------------------------------------------------------------------------
(* Authority: what an epoch that is remembered anywhere may be. *)

\* An epoch in use: granted, and if a grant still waits for its lease, then
\* an earlier one.
Granted(e) == e <= jr.epoch /\ (e = jr.epoch => \A p \in Proc : pc[p] # "lease")

\* A Driver object belongs to its process, and one at the journal's epoch to
\* the journal's owner.
TenureInv ==
    \A p \in Proc : me[p].tenure # None =>
        /\ me[p].tenure.owner = p
        /\ me[p].tenure.epoch <= jr.epoch
        /\ me[p].tenure.epoch = jr.epoch => jr.owner = p

\* A sidecar is the lease of a granted epoch, moved for a prepare that was
\* made.
SideInv ==
    \A p \in Proc : sidecar[p] # None =>
        Granted(sidecar[p].epoch) /\ Prepared(p)

\* A lease that a process expects to find is one it has seen.
WantInv ==
    \A p \in Proc : me[p].want # None =>
        Granted(me[p].want.epoch) /\ pc[me[p].want.owner] # "idle"

OwnerInv == lease # None => pc[lease.owner] # "idle"

AuthInv ==
    /\ TenureInv
    /\ TenuresAreDistinct
    /\ SideInv
    /\ OneLeasePerEpoch
    /\ WantInv
    /\ OwnerInv

-----------------------------------------------------------------------------
(* Journals read earlier. *)

\* k continues j: what a reader of j concludes for good still holds of k.
Continues(j, k) ==
    /\ Terminal(j) => Terminal(k)
    /\ j.cancel => k.cancel
    /\ j.epoch <= k.epoch
    /\ j.refs \subseteq k.refs
    /\ j.recorded \subseteq k.recorded

SeenInv ==
    /\ Continues(JournalInit, jr)
    /\ \A p \in Proc : Continues(me[p].seen, jr)

-----------------------------------------------------------------------------
(* Prepares and snapshots. *)

\* The head and the pending prepare are named by an event.
RefInv ==
    /\ <<jr.head, jr.by>> \in jr.refs
    /\ jr.prep # None => <<jr.prep.base + 1, jr.prep.id>> \in jr.refs

\* What the region that publishes a prepare, or settles it, has written.
Publication(p, l) ==
    /\ l \in {"pplan", "pappend"} => <<jr.head + 1, p>> \in scores
    /\ l = "pappend" => p \in plans
    /\ l = "rmplan" => jr.prep = None
    /\ l \in {"tclean", "tside", "tplan"} => Terminal(jr)

PublishInv == \A p \in Proc : Publication(p, pc[p])

SnapInv == RefInv /\ PublishInv /\ HeadIsPinned /\ PrepareIsCommittable

-----------------------------------------------------------------------------
(* Cancellation. *)

\* Where a cancel command can be.
CancelLabels ==
    {"idle", "dead", "creq", "load1", "load2", "cleanup", "cleanplan",
     "stale", "orphan", "tclean", "tside", "tplan", "refused", "ckill",
     "xload", "xsweep", "xlock", "xsnap", "xplan", "xside", "xabandon",
     "xstop", "xcancel", "xlease"}

\* j is the journal of a run that is or must be ended.
Doomed(j) == Terminal(j) \/ j.cancel

CancelInv ==
    \A p \in Cancellers :
        /\ pc[p] \in CancelLabels
        /\ pc[p] \notin {"idle", "dead", "creq"} => Doomed(jr)
        /\ pc[p] = "load2" => Doomed(me[p].seen)
        /\ me[p].tenure = None
        /\ jr.owner # p

-----------------------------------------------------------------------------
(* Draining. *)

SessionInv == sessions \subseteq jr.recorded

\* The labels at which an acknowledgement uses what it read at its start.
Draining == {"ack2", "ack3", "ack4", "ack5", "ack6"}

\* An acknowledgement began with a prepare that was made.  While that is the
\* pending one it freezes the sessions and, but for a stop, the interval.
Drains(p, l) ==
    LET s == me[p].seen IN
    l \in Draining =>
        /\ s.prep # None
        /\ <<s.prep.base + 1, s.prep.id>> \in s.refs
        /\ jr.prep # None /\ jr.prep.id = s.prep.id =>
             /\ jr.recorded = s.recorded
             /\ jr.open => s.open
             /\ l \in {"ack4", "ack5", "ack6"} => sessions = {}
             /\ l = "ack6" => ~jr.open

AckInv == \A p \in Proc : Drains(p, pc[p])

\* The lease that p is about to fence is still there, current and not yet to
\* be fenced by a cancellation.
Fencing(p) ==
    /\ lease = me[p].want
    /\ jr.epoch = lease.epoch
    /\ ~jr.cancel

\* The labels of a fence.
Fences == {"fsweep", "fkill", "fcommit", "fapprove"}

\* What a fence relies on: while its lease stays, so does the prepare, and
\* with it whatever the fence has already ended.
FenceHolds(p, l) ==
    /\ l \in Fences => me[p].want # None
    /\ l = "fsweep" /\ Fencing(p) =>
         jr.prep # None /\ jr.recorded = me[p].seen.recorded
    /\ l \in {"fkill", "fcommit"} /\ Fencing(p) =>
         jr.prep # None /\ sessions = {}
    /\ l \in {"fcommit", "fapprove"} => ~Live(me[p].want.owner)
    /\ l = "fapprove" => sessions = {} /\ ~jr.open

FenceInv == \A p \in Proc : FenceHolds(p, pc[p])

DrainInv ==
    SessionInv /\ AckInv /\ QuiescedIsQuiet /\ FenceInv

\* Whoever has read, seen or been granted anything, it still means the same.
SInv == AuthInv /\ SeenInv /\ SnapInv /\ CancelInv /\ DrainInv
-----------------------------------------------------------------------------
(* How a step moves its process, field by field. *)

\* What a process forgets when it moves.
LEMMA KeptFields ==
    ASSUME NEW l, NEW m \in Memory
    PROVE  /\ Kept(l, m).tenure = IF l = "dead" THEN None ELSE m.tenure
           /\ Kept(l, m).seen = IF l \in Reading THEN m.seen ELSE JournalInit
           /\ Kept(l, m).want = IF l \in Expecting THEN m.want ELSE None
  <1>1. CASE l = "dead"
    BY <1>1 DEF Kept, Fresh, Reading, Expecting
  <1>2. CASE l # "dead"
    <2> DEFINE s == IF l \in Reading THEN m.seen ELSE JournalInit
               w == IF l \in Expecting THEN m.want ELSE None
    <2>1. Kept(l, m) = [m EXCEPT !.seen = s, !.want = w]
      BY <1>2 DEF Kept, Memory
    <2> HIDE DEF s, w
    <2>2. /\ Kept(l, m).tenure = m.tenure /\ Kept(l, m).seen = s
          /\ Kept(l, m).want = w
      BY <2>1 DEF Memory
    <2> QED
      BY <1>2, <2>2 DEF s, w
  <1> QED
    BY <1>1, <1>2

\* The labels and memories that a step of p leaves.
LEMMA StepFields ==
    ASSUME TypeOK, NEW p \in Proc, NEW l, NEW m \in Memory, Step(p, l, m)
    PROVE  /\ pc'[p] = l
           /\ \A q \in Proc \ {p} : pc'[q] = pc[q] /\ me'[q] = me[q]
           /\ me'[p].tenure = IF l = "dead" THEN None ELSE m.tenure
           /\ me'[p].seen = IF l \in Reading THEN m.seen ELSE JournalInit
           /\ me'[p].want = IF l \in Expecting THEN m.want ELSE None
  <1>1. /\ pc'[p] = l
        /\ \A q \in Proc \ {p} : pc'[q] = pc[q] /\ me'[q] = me[q]
        /\ me'[p] = Kept(l, m)
    BY DEF TypeOK, Step
  <1> QED
    BY <1>1, KeptFields

\* The memories that steps write, field by field.
LEMMA MemoryFields ==
    ASSUME IInv, NEW p \in Proc
    PROVE  /\ LET m == [me[p] EXCEPT !.seen = jr] IN
              m.tenure = me[p].tenure /\ m.seen = jr /\ m.want = me[p].want
           /\ LET m == [me[p] EXCEPT !.want = lease] IN
              m.tenure = me[p].tenure /\ m.seen = me[p].seen /\ m.want = lease
           /\ LET m == [me[p] EXCEPT !.want = None] IN
              m.tenure = me[p].tenure /\ m.seen = me[p].seen /\ m.want = None
           /\ LET m == [me[p] EXCEPT !.seen = jr, !.want = lease] IN
              m.tenure = me[p].tenure /\ m.seen = jr /\ m.want = lease
           /\ \A b \in BOOLEAN :
                LET m == [me[p] EXCEPT !.cleaned = b] IN
                m.tenure = me[p].tenure /\ m.seen = me[p].seen
                  /\ m.want = me[p].want
           /\ LET m == [me[p] EXCEPT !.cleaned = FALSE, !.final = TRUE] IN
              m.tenure = me[p].tenure /\ m.seen = me[p].seen
                /\ m.want = me[p].want
           /\ \A t \in Leases :
                LET m == [me[p] EXCEPT !.tenure = t] IN
                m.tenure = t /\ m.seen = me[p].seen /\ m.want = me[p].want
  <1>1. me[p] \in Memory
    BY DEF IInv, TypeOK
  <1> QED
    BY <1>1 DEF Memory

\* A memory that a step may write if it establishes no authority: the Driver
\* of p, a journal read before or just now, and a lease seen before or now.
Plain(p, m) ==
    /\ m \in Memory
    /\ m.tenure = me[p].tenure
    /\ m.seen \in {me[p].seen, jr, jr'}
    /\ m.want \in {me[p].want, None, lease}

\* All of them but CreateLease's, which has a new Driver.
LEMMA PlainMemories ==
    ASSUME IInv, NEW p \in Proc
    PROVE  /\ jr' \in JournalType => Plain(p, [me[p] EXCEPT !.seen = jr'])
           /\ Plain(p, me[p])
           /\ Plain(p, [me[p] EXCEPT !.seen = jr])
           /\ Plain(p, [me[p] EXCEPT !.want = lease])
           /\ Plain(p, [me[p] EXCEPT !.want = None])
           /\ Plain(p, [me[p] EXCEPT !.cleaned = TRUE])
           /\ Plain(p, [me[p] EXCEPT !.cleaned = FALSE])
           /\ Plain(p, [me[p] EXCEPT !.seen = jr, !.want = lease])
           /\ Plain(p, [me[p] EXCEPT !.cleaned = FALSE, !.final = TRUE])
  <1>1. me[p] \in Memory
    BY DEF IInv, TypeOK
  <1>2. jr' \in JournalType => Plain(p, [me[p] EXCEPT !.seen = jr'])
    BY <1>1 DEF Plain, Memory
  <1> QED
    BY <1>2, Memories, MemoryFields DEF Plain

-----------------------------------------------------------------------------
(* The journal only moves forward. *)

Onward == Continues(jr, jr') /\ (jr'.epoch = jr.epoch => jr'.owner = jr.owner)

\* A step that leaves the journal alone.
LEMMA SameOnward == ASSUME TypeOK, jr' = jr PROVE Onward
  BY DEF Onward, Continues, TypeOK, JournalType

\* Each event moves it forward.
LEMMA EventOnward ==
    ASSUME TypeOK, TypeOK', NEW p \in Proc,
           \/ jr' = Grant(jr, p)
           \/ jr' = Open(jr) \/ jr' = Stop(jr)
           \/ \E e \in Nat : jr' = RecordSession(jr, e)
           \/ CanFinish(jr) /\ jr' = Finish(jr)
           \/ jr' = Prepare(jr, p)
           \/ jr.prep # None /\ \E b \in BOOLEAN : jr' = Approve(jr, b)
           \/ jr' = Abandon(jr) \/ jr' = RequestCancel(jr)
           \/ \E b \in BOOLEAN : jr' = Cancel(jr, b)
    PROVE  Onward
  <1>1. jr \in JournalType /\ jr.epoch \in Nat
    BY DEF TypeOK, JournalType
  <1>2. CASE jr' = Grant(jr, p)
    BY <1>1, <1>2, GrantFields DEF Onward, Continues, Agree, Terminal
  <1>3. CASE jr' = Open(jr) \/ jr' = Stop(jr)
    <2>1. Agree(jr, jr', {"open"})
      BY <1>1, <1>3, IntervalFields
    <2> QED
      BY <1>1, <2>1 DEF Onward, Continues, Agree, Terminal
  <1>4. CASE \E e \in Nat : jr' = RecordSession(jr, e)
    <2> PICK e \in Nat : jr' = RecordSession(jr, e)
      BY <1>4
    <2>1. Agree(jr, jr', {"recorded"})
      BY <1>1, RecordFields
    <2>2. jr'.recorded = jr.recorded \cup {e}
      BY <1>1 DEF RecordSession, JournalType
    <2> QED
      BY <1>1, <2>1, <2>2 DEF Onward, Continues, Agree, Terminal
  <1>5. CASE CanFinish(jr) /\ jr' = Finish(jr)
    BY <1>1, <1>5, FinishFields DEF Onward, Continues, Agree, Terminal
  <1>6. CASE jr' = Prepare(jr, p)
    <2>1. jr.refs \subseteq jr'.refs /\ Agree(jr, jr', {"prep", "refs"})
      BY <1>1, <1>6, PrepareFields
    <2> QED
      BY <1>1, <2>1 DEF Onward, Continues, Agree, Terminal
  <1>7. CASE jr.prep # None /\ \E b \in BOOLEAN : jr' = Approve(jr, b)
    <2>1. CASE jr' = Approve(jr, FALSE)
      <3>1. Agree(jr, jr', {"head", "by", "prep"})
        BY <1>1, <1>7, <2>1, ApproveFields
      <3> QED
        BY <1>1, <3>1 DEF Onward, Continues, Agree, Terminal
    <2>2. CASE jr' = Approve(jr, TRUE)
      <3>1. /\ Agree(jr, jr', {"head", "by", "prep", "epoch", "owner"})
            /\ jr'.epoch = jr.epoch + 1
        BY <1>1, <1>7, <2>2, ApproveFields
      <3> QED
        BY <1>1, <3>1 DEF Onward, Continues, Agree, Terminal
    <2> QED
      BY <1>7, <2>1, <2>2
  <1>8. CASE jr' = Abandon(jr) \/ jr' = RequestCancel(jr)
    <2>1. CASE jr' = Abandon(jr)
      <3>1. Agree(jr, jr', {"prep"})
        BY <1>1, <2>1, SettleFields
      <3> QED
        BY <1>1, <3>1 DEF Onward, Continues, Agree, Terminal
    <2>2. CASE jr' = RequestCancel(jr)
      <3>1. Agree(jr, jr', {"cancel"}) /\ jr'.cancel = TRUE
        BY <1>1, <2>2, SettleFields
      <3> QED
        BY <1>1, <3>1 DEF Onward, Continues, Agree, Terminal
    <2> QED
      BY <1>8, <2>1, <2>2
  <1>9. CASE \E b \in BOOLEAN : jr' = Cancel(jr, b)
    <2>1. CASE jr' = Cancel(jr, FALSE)
      <3>1. Agree(jr, jr', {"run"}) /\ jr'.run = "cancelled"
        BY <1>1, <2>1, CancelFields
      <3> QED
        BY <1>1, <3>1 DEF Onward, Continues, Agree, Terminal
    <2>2. CASE jr' = Cancel(jr, TRUE)
      <3>1. /\ Agree(jr, jr', {"run", "epoch", "owner"})
            /\ jr'.run = "cancelled" /\ jr'.epoch = jr.epoch + 1
        BY <1>1, <2>2, CancelFields
      <3> QED
        BY <1>1, <3>1 DEF Onward, Continues, Agree, Terminal
    <2> QED
      BY <1>9, <2>1, <2>2
  <1> QED
    BY <1>2, <1>3, <1>4, <1>5, <1>6, <1>7, <1>8, <1>9

\* So does every step.
LEMMA StepOnward ==
    ASSUME IInv, IInv', NEW p \in Proc, Start(p) \/ Crash(p) \/ Work(p)
    PROVE  Onward
  <1>1. CASE jr' = jr
    BY <1>1, SameOnward DEF IInv
  <1>2. CASE Acquiring(p) /\ jr' # jr
    <2>1. jr' = Grant(jr, p)
      BY <1>2 DEF Acquiring, Acquire, CreateLease, Reclaim, Regrant, Append
    <2> QED
      BY <2>1, EventOnward DEF IInv
  <1>3. CASE (Start(p) \/ Crash(p) \/ Recovering(p)) /\ jr' # jr
    BY <1>3
    DEF Start, Crash, NoEffect, Recovering, LoadRunInput, Collect,
        ReturnWaitingHuman, Cleanup, CleanPlans, RemoveStaleLease,
        QuarantineOrphanLease, TerminalCleanup, TerminalSidecars,
        TerminalPlans
  <1>4. CASE Driving(p) /\ jr' # jr
    <2>1. \/ jr' = Open(jr) \/ jr' = Stop(jr)
          \/ StartSession(p)
          \/ CanFinish(jr) /\ jr' = Finish(jr)
      BY <1>4
      DEF Driving, Watch, OpenInterval, SweepSessions, CloseInterval,
          FinishRun, PauseRun, Refused, ObserveControl, Replan, DriverPrepare,
          PublishSnapshot, Release, NoEffect, Append
    <2>2. CASE StartSession(p)
      <3>1. lease.epoch \in Nat
        BY <2>2 DEF StartSession, Drive, Authorized, IInv, TypeOK, JournalType
      <3> QED
        BY <2>2, <3>1, EventOnward DEF StartSession, IInv
    <2> QED
      BY <2>1, <2>2, EventOnward DEF IInv
  <1>5. CASE (Acknowledging(p) \/ Preparing(p)) /\ jr' # jr
    <2>1. jr' = Stop(jr) \/ jr' = Prepare(jr, p)
      BY <1>5
      DEF Acknowledging, AckBegin, AckReceipt, AckSweep, AckSweepFails,
          AckFailed, AckStop, AckMove, Preparing, LoadProposal,
          ApproverPrepare, PublishSnapshot, PublishPlan, AppendPrepared,
          NoEffect, Append
    <2> QED
      BY <2>1, EventOnward DEF IInv
  <1>6. CASE Committing(p) /\ jr' # jr
    <2>1. \/ jr' = Stop(jr)
          \/ jr.prep # None /\ \E b \in BOOLEAN : jr' = Approve(jr, b)
      <3>1. CASE FenceApprove(p)
        BY <1>6, <3>1
        DEF FenceApprove, Append, IInv, RegionInv, Region
      <3> QED
        BY <1>6, <3>1
        DEF Committing, Commit, ApproveUnfenced, FenceSweep, FenceKill,
            FenceCommit, RemovePlan, RemoveSidecar, RemoveFencedLease,
            AutoContinue, NoEffect, Append
    <2> QED
      BY <2>1, EventOnward DEF IInv
  <1>7. CASE Cancelling(p) /\ jr' # jr
    <2>1. \/ jr' = Stop(jr) \/ jr' = Abandon(jr) \/ jr' = RequestCancel(jr)
          \/ \E b \in BOOLEAN : jr' = Cancel(jr, b)
      BY <1>7
      DEF Cancelling, RequestCancellation, CancelRetry, CancelDeadline,
          CancelTerminate, CancelLoad, CancelSweep, CancelEnter,
          CancelSnapshot, CancelPlan, CancelSidecar, CancelAbandon,
          CancelStop, CancelRun, CancelLease, NoEffect, Append
    <2> QED
      BY <2>1, EventOnward DEF IInv
  <1> QED
    BY <1>1, <1>2, <1>3, <1>4, <1>5, <1>6, <1>7 DEF Work

-----------------------------------------------------------------------------
(* How every step but CreateLease moves the processes. *)

\* Nobody gains a Driver; whoever reads the journal or the lease sees the
\* present one; nobody is idle again; and only a grant precedes a lease.
Moved ==
    \A q \in Proc :
        /\ me'[q].tenure \in {me[q].tenure, None}
        /\ me'[q].seen \in {me[q].seen, JournalInit, jr, jr'}
        /\ me'[q].want \in {me[q].want, None, lease}
        /\ pc'[q] = "idle" => pc[q] = "idle"
        /\ pc'[q] = "lease" => pc[q] = "lease" \/ jr'.epoch # jr.epoch

\* A step of one process.
LEMMA PlainMoved ==
    ASSUME IInv, NEW p \in Proc, NEW l, NEW m, Step(p, l, m), Plain(p, m),
           l # "idle", l = "lease" => jr'.epoch # jr.epoch
    PROVE  Moved
  <1>1. /\ pc'[p] = l
        /\ \A q \in Proc \ {p} : pc'[q] = pc[q] /\ me'[q] = me[q]
        /\ me'[p].tenure \in {me[p].tenure, None}
        /\ me'[p].seen \in {me[p].seen, JournalInit, jr, jr'}
        /\ me'[p].want \in {me[p].want, None, lease}
    BY StepFields DEF Plain, IInv
  <1> QED
    BY <1>1 DEF Moved

\* A step that keeps the memory, but for what the new label forgets.
LEMMA GotoMoved ==
    ASSUME IInv, NEW p \in Proc, NEW l, Goto(p, l),
           l # "idle", l = "lease" => jr'.epoch # jr.epoch
    PROVE  Moved
  BY PlainMemories, PlainMoved DEF Goto

LEMMA QuitMoved == ASSUME IInv, NEW p \in Proc, Quit(p) PROVE Moved
  BY GotoMoved DEF Quit, QuitLabel

LEMMA ReadMoved ==
    ASSUME IInv, NEW p \in Proc, NEW l, l \notin {"idle", "lease"}, Read(p, l)
    PROVE  Moved
  BY PlainMemories, PlainMoved DEF Read

\* A grant makes the epoch a new one.
LEMMA GrantMoved ==
    ASSUME IInv, NEW p \in Proc, Goto(p, "lease"), jr' = Grant(jr, p)
    PROVE  Moved
  <1>1. jr'.epoch = jr.epoch + 1 /\ jr.epoch \in Nat
    BY GrantFields DEF IInv, TypeOK, JournalType
  <1>2. jr'.epoch # jr.epoch
    BY <1>1
  <1> QED
    BY <1>2, GotoMoved

\* A step that also ends the owner of a lease.
LEMMA KillMoved ==
    ASSUME IInv, NEW p \in Proc, NEW q \in Proc, NEW l \in Free, l # "idle",
           NEW m \in Memory, Plain(p, m),
           pc' = [pc EXCEPT ![p] = l, ![q] = "dead"],
           me' = [me EXCEPT ![p] = Kept(l, m), ![q] = Fresh]
    PROVE  Moved
  <1>1. /\ Kept(l, m).tenure \in {me[p].tenure, None}
        /\ Kept(l, m).seen \in {me[p].seen, JournalInit, jr, jr'}
        /\ Kept(l, m).want \in {me[p].want, None, lease}
    BY KeptFields DEF Plain
  <1>2. Fresh.tenure = None /\ Fresh.seen = JournalInit /\ Fresh.want = None
    BY DEF Fresh
  <1>3. \A r \in Proc :
          /\ me'[r] \in {me[r], Fresh} \/ (r = p /\ me'[r] = Kept(l, m))
          /\ pc'[r] \in {pc[r], "dead", l}
    BY DEF IInv, TypeOK
  <1>4. l # "lease"
    BY DEF Free
  <1> QED
    BY <1>1, <1>2, <1>3, <1>4 DEF Moved

LEMMA StartMoved == ASSUME IInv, NEW p \in Proc, Start(p) \/ Crash(p) PROVE Moved
  <1>1. CASE Start(p)
    <2> DEFINE l == CASE p \in Runners -> "acquire"
                      [] p \in Resumers -> "load1"
                      [] p \in Approvers -> "aload"
                      [] p \in Cancellers -> "creq"
    <2>1. l \in {"acquire", "load1", "aload", "creq"}
      BY DEF Proc
    <2>2. Goto(p, l)
      BY <1>1 DEF Start
    <2> HIDE DEF l
    <2> QED
      BY <2>1, <2>2, GotoMoved
  <1>2. CASE Crash(p)
    BY <1>2, GotoMoved DEF Crash
  <1> QED
    BY <1>1, <1>2

LEMMA AcquiringMoved ==
    ASSUME IInv, NEW p \in Proc, Acquire(p) \/ Reclaim(p) \/ Regrant(p)
    PROVE  Moved
  <1>1. CASE Acquire(p)
    BY <1>1, GotoMoved, GrantMoved DEF Acquire, Append
  <1>2. CASE Reclaim(p)
    BY <1>2, GotoMoved, QuitMoved DEF Reclaim
  <1>3. CASE Regrant(p)
    BY <1>3, GrantMoved, QuitMoved DEF Regrant, Append
  <1> QED
    BY <1>1, <1>2, <1>3

LEMMA RecoveringMoved == ASSUME IInv, NEW p \in Proc, Recovering(p) PROVE Moved
  <1>1. CASE LoadRunInput(p)
    BY <1>1, ReadMoved DEF LoadRunInput
  <1>2. CASE Collect(p)
    <2> DEFINE l == Plan(p)
    <2>1. l \notin {"idle", "lease"}
      BY DEF Plan
    <2>2. CASE Step(p, l, [me[p] EXCEPT !.want = lease])
      <3> HIDE DEF l
      <3> QED
        BY <2>1, <2>2, PlainMemories, PlainMoved
    <2>3. CASE Quit(p) \/ Goto(p, "dead") \/ Goto(p, "cleanup") \/ Goto(p, "refused")
      BY <2>3, QuitMoved, GotoMoved
    <2> QED
      BY <1>2, <2>2, <2>3 DEF Collect
  <1>3. CASE ReturnWaitingHuman(p)
    BY <1>3, QuitMoved DEF ReturnWaitingHuman
  <1>4. CASE Cleanup(p) \/ TerminalCleanup(p) \/ TerminalSidecars(p)
    BY <1>4, GotoMoved DEF Cleanup, TerminalCleanup, TerminalSidecars
  <1>5. CASE CleanPlans(p) \/ TerminalPlans(p)
    BY <1>5, GotoMoved, PlainMemories, PlainMoved DEF CleanPlans, TerminalPlans
  <1>6. CASE RemoveStaleLease(p) \/ QuarantineOrphanLease(p)
    BY <1>6, GotoMoved, QuitMoved DEF RemoveStaleLease, QuarantineOrphanLease
  <1> QED
    BY <1>1, <1>2, <1>3, <1>4, <1>5, <1>6 DEF Recovering

LEMMA DrivingMoved == ASSUME IInv, NEW p \in Proc, Driving(p) PROVE Moved
  <1>1. CASE Watch(p) \/ ObserveControl(p)
    BY <1>1, GotoMoved, ReadMoved DEF Watch, ObserveControl
  <1>2. CASE OpenInterval(p) \/ StartSession(p) \/ CloseInterval(p)
    BY <1>2, GotoMoved DEF OpenInterval, StartSession, CloseInterval, Drive
  <1>3. CASE SweepSessions(p) \/ Replan(p) \/ Release(p)
    BY <1>3, GotoMoved DEF SweepSessions, Replan, Release
  <1>4. CASE FinishRun(p) \/ PauseRun(p) \/ Refused(p)
    BY <1>4, GotoMoved, QuitMoved DEF FinishRun, PauseRun, Refused
  <1>5. CASE DriverPrepare(p)
    BY <1>5, GotoMoved DEF DriverPrepare, PublishSnapshot
  <1> QED
    BY <1>1, <1>2, <1>3, <1>4, <1>5 DEF Driving

LEMMA AcknowledgingMoved ==
    ASSUME IInv, NEW p \in Proc, Acknowledging(p) PROVE Moved
  <1>1. CASE AckFailed(p)
    BY <1>1, GotoMoved, QuitMoved DEF AckFailed
  <1>2. CASE AckBegin(p)
    BY <1>1, <1>2, ReadMoved DEF AckBegin
  <1>3. CASE AckReceipt(p) \/ AckSweep(p) \/ AckSweepFails(p)
    BY <1>1, <1>3, GotoMoved DEF AckReceipt, AckSweep, AckSweepFails
  <1>4. CASE AckStop(p)
    BY <1>1, <1>4, GotoMoved DEF AckStop
  <1>5. CASE AckMove(p)
    BY <1>1, <1>5, GotoMoved DEF AckMove
  <1> QED
    BY <1>2, <1>3, <1>4, <1>5 DEF Acknowledging

LEMMA PreparingMoved ==
    ASSUME IInv, IInv', NEW p \in Proc, Preparing(p) PROVE Moved
  <1>1. CASE LoadProposal(p)
    BY <1>1, ReadMoved DEF LoadProposal
  <1>2. CASE ApproverPrepare(p) \/ PublishPlan(p)
    BY <1>2, GotoMoved, QuitMoved
    DEF ApproverPrepare, PublishSnapshot, PublishPlan
  <1>3. CASE AppendPrepared(p)
    BY <1>3, GotoMoved, PlainMemories, PlainMoved DEF AppendPrepared, IInv, TypeOK
  <1> QED
    BY <1>1, <1>2, <1>3 DEF Preparing

LEMMA CommittingMoved == ASSUME IInv, NEW p \in Proc, Committing(p) PROVE Moved
  <1>1. CASE Commit(p)
    <2>1. \/ Quit(p) \/ Goto(p, "xload") \/ Goto(p, "rmplan")
          \/ Step(p, "fsweep", [me[p] EXCEPT !.seen = jr, !.want = lease])
      BY <1>1 DEF Commit, ApproveUnfenced
    <2> QED
      BY <2>1, GotoMoved, QuitMoved, PlainMemories, PlainMoved
  <1>2. CASE FenceSweep(p)
    BY <1>2, GotoMoved DEF FenceSweep
  <1>3. CASE FenceKill(p)
    <2> DEFINE q == me[p].want.owner
    <2>1. CASE Goto(p, "fcommit") \/ Quit(p)
      BY <2>1, GotoMoved, QuitMoved
    <2>2. CASE /\ Live(q) /\ lease = me[p].want
               /\ pc' = [pc EXCEPT ![p] = "fcommit", ![q] = "dead"]
               /\ me' = [me EXCEPT ![p] = Kept("fcommit", @), ![q] = Fresh]
      <3>1. CASE q \in Proc
        <4>1. me' = [me EXCEPT ![p] = Kept("fcommit", me[p]), ![q] = Fresh]
          BY <2>2
        <4>2. "fcommit" \in Free /\ Plain(p, me[p]) /\ me[p] \in Memory
          BY PlainMemories, Memories DEF Free
        <4> QED
          BY <2>2, <3>1, <4>1, <4>2, KillMoved
      <3>2. CASE q \notin Proc
        <4>1. /\ pc' = [pc EXCEPT ![p] = "fcommit"]
              /\ me' = [me EXCEPT ![p] = Kept("fcommit", me[p])]
          BY <2>2, <3>2 DEF IInv, TypeOK
        <4> QED
          BY <4>1, PlainMemories, PlainMoved DEF Step
      <3> QED
        BY <3>1, <3>2
    <2> QED
      BY <1>3, <2>1, <2>2 DEF FenceKill
  <1>4. CASE FenceCommit(p)
    <2>1. \/ Quit(p) \/ Goto(p, "fapprove")
          \/ Step(p, "rmplan", [me[p] EXCEPT !.want = None])
      BY <1>4 DEF FenceCommit
    <2> QED
      BY <2>1, GotoMoved, QuitMoved, PlainMemories, PlainMoved
  <1>5. CASE FenceApprove(p) \/ RemovePlan(p)
    BY <1>5, GotoMoved DEF FenceApprove, RemovePlan
  <1>6. CASE RemoveSidecar(p) \/ RemoveFencedLease(p)
    <2>1. CommittedLabel(p) \notin {"idle", "lease"}
      BY DEF CommittedLabel
    <2> QED
      BY <1>6, <2>1, GotoMoved DEF RemoveSidecar, RemoveFencedLease
  <1>7. CASE AutoContinue(p)
    BY <1>7, GotoMoved DEF AutoContinue
  <1> QED
    BY <1>1, <1>2, <1>3, <1>4, <1>5, <1>6, <1>7 DEF Committing

LEMMA CancellingMoved == ASSUME IInv, NEW p \in Proc, Cancelling(p) PROVE Moved
  <1>1. CASE RequestCancellation(p) \/ CancelSweep(p)
    BY <1>1, GotoMoved DEF RequestCancellation, CancelSweep
  <1>2. CASE CancelRetry(p) \/ CancelDeadline(p) \/ CancelLoad(p)
    BY <1>2, QuitMoved, ReadMoved, PlainMemories, PlainMoved
    DEF CancelRetry, CancelDeadline, CancelLoad
  <1>3. CASE CancelTerminate(p)
    <2> DEFINE m == [me[p] EXCEPT !.cleaned = FALSE, !.final = TRUE]
    <2>1. Plain(p, m)
      BY PlainMemories
    <2>2. CASE Step(p, "load1", m)
      BY <2>1, <2>2, PlainMoved
    <2>3. CASE /\ lease # None
               /\ pc' = [pc EXCEPT ![p] = "load1", ![lease.owner] = "dead"]
               /\ me' = [me EXCEPT ![p] = Kept("load1", m), ![lease.owner] = Fresh]
      <3>1. lease.owner \in Proc
        BY <2>3 DEF IInv, TypeOK, Leases
      <3>2. "load1" \in Free /\ m \in Memory
        BY Memories DEF Free
      <3> QED
        BY <2>1, <2>3, <3>1, <3>2, KillMoved
    <2> QED
      BY <1>3, <2>2, <2>3 DEF CancelTerminate
  <1>4. CASE CancelEnter(p) \/ CancelSnapshot(p)
    BY <1>4, GotoMoved, QuitMoved DEF CancelEnter, CancelSnapshot
  <1>5. CASE \/ CancelPlan(p) \/ CancelSidecar(p) \/ CancelAbandon(p)
             \/ CancelStop(p)
    BY <1>5, GotoMoved DEF CancelPlan, CancelSidecar, CancelAbandon, CancelStop
  <1>6. CASE CancelRun(p) \/ CancelLease(p)
    BY <1>6, GotoMoved DEF CancelRun, CancelLease, CancelledLabels
  <1> QED
    BY <1>1, <1>2, <1>3, <1>4, <1>5, <1>6 DEF Cancelling

\* Every step but CreateLease.
LEMMA StepMoved ==
    ASSUME IInv, IInv', NEW p \in Proc, Start(p) \/ Crash(p) \/ Work(p),
           ~CreateLease(p)
    PROVE  Moved
  BY StartMoved, AcquiringMoved, RecoveringMoved, DrivingMoved,
     AcknowledgingMoved, PreparingMoved, CommittingMoved, CancellingMoved
  DEF Work, Acquiring

\* Every step but CreateLease and AckMove leaves each lease file or removes it.
LEMMA StepFiles ==
    ASSUME IInv, NEW p \in Proc, Start(p) \/ Crash(p) \/ Work(p),
           ~CreateLease(p), ~AckMove(p)
    PROVE  /\ lease' \in {lease, None}
           /\ \A q \in Proc : sidecar'[q] \in {sidecar[q], None}
  <1> USE DEF files, NoEffect, Append, Quit
  <1>1. CASE Start(p) \/ Crash(p) \/ Acquiring(p)
    BY <1>1 DEF Start, Crash, Acquiring, Acquire, Reclaim, Regrant
  <1>2. CASE Recovering(p)
    <2>1. CASE TerminalSidecars(p)
      BY <2>1 DEF TerminalSidecars
    <2>2. CASE ~TerminalSidecars(p)
      BY <1>2, <2>2
      DEF Recovering, LoadRunInput, Collect, ReturnWaitingHuman, Cleanup,
          CleanPlans, RemoveStaleLease, QuarantineOrphanLease,
          TerminalCleanup, TerminalPlans
    <2> QED
      BY <2>1, <2>2
  <1>3. CASE Driving(p)
    BY <1>3
    DEF Driving, Watch, OpenInterval, StartSession, SweepSessions,
        CloseInterval, FinishRun, PauseRun, Refused, ObserveControl, Replan,
        DriverPrepare, PublishSnapshot, Release
  <1>4. CASE Acknowledging(p) \/ Preparing(p)
    BY <1>4
    DEF Acknowledging, AckBegin, AckReceipt, AckSweep, AckSweepFails,
        AckFailed, AckStop, Preparing, LoadProposal, ApproverPrepare,
        PublishSnapshot, PublishPlan, AppendPrepared
  <1>5. CASE Committing(p)
    <2>1. CASE RemoveSidecar(p)
      BY <2>1 DEF RemoveSidecar, IInv, TypeOK
    <2>2. CASE ~RemoveSidecar(p)
      BY <1>5, <2>2
      DEF Committing, Commit, ApproveUnfenced, FenceSweep, FenceKill,
          FenceCommit, FenceApprove, RemovePlan, RemoveFencedLease,
          AutoContinue
    <2> QED
      BY <2>1, <2>2
  <1>6. CASE Cancelling(p)
    <2>1. CASE CancelSidecar(p)
      BY <2>1 DEF CancelSidecar, IInv, TypeOK
    <2>2. CASE ~CancelSidecar(p)
      BY <1>6, <2>2
      DEF Cancelling, RequestCancellation, CancelRetry, CancelDeadline,
          CancelTerminate, CancelLoad, CancelSweep, CancelEnter,
          CancelSnapshot, CancelPlan, CancelAbandon, CancelStop, CancelRun,
          CancelLease
    <2> QED
      BY <2>1, <2>2
  <1> QED
    BY <1>1, <1>2, <1>3, <1>4, <1>5, <1>6 DEF Work

-----------------------------------------------------------------------------
(* Authority. *)

\* The invariant survives a step that neither publishes a lease nor moves one
\* to a sidecar: nobody gains a Driver, and an epoch only goes forward.
LEMMA AuthKeeps ==
    ASSUME IInv, AuthInv, IInv', Moved, Onward,
           lease' \in {lease, None},
           \A q \in Proc : sidecar'[q] \in {sidecar[q], None}
    PROVE  AuthInv'
  <1> USE DEF AuthInv
  <1>1. \A q \in Proc :
          /\ me'[q].tenure \in {me[q].tenure, None}
          /\ me'[q].want \in {me[q].want, None, lease}
          /\ pc'[q] = "idle" => pc[q] = "idle"
          /\ pc'[q] = "lease" => pc[q] = "lease" \/ jr'.epoch # jr.epoch
    BY DEF Moved
  <1>2. jr.epoch \in Nat /\ jr'.epoch \in Nat /\ jr.epoch <= jr'.epoch
    BY DEF IInv, TypeOK, JournalType, Onward, Continues
  <1>3. \A q \in Proc : Prepared(q) => Prepared(q)'
    BY DEF Prepared, Onward, Continues
  <1>4. ASSUME NEW e \in Nat, Granted(e)
        PROVE  Granted(e)'
    BY <1>1, <1>2, <1>4 DEF Granted
  <1>5. lease # None => lease \in Leases /\ lease.epoch \in Nat /\ Granted(lease.epoch)
    BY DEF IInv, TypeOK, Leases, LeaseHasGrant, RegionInv, Region, Granted
  <1>6. \A q \in Proc : /\ me[q].tenure # None => me[q].tenure.epoch \in Nat
                        /\ me[q].want # None => me[q].want.epoch \in Nat
                        /\ sidecar[q] # None => sidecar[q].epoch \in Nat
    BY DEF IInv, TypeOK, Memory, Leases
  <1>7. TenureInv'
    BY <1>1, <1>2, <1>6 DEF TenureInv, Onward
  <1>8. TenuresAreDistinct'
    BY <1>1 DEF TenuresAreDistinct
  <1>9. SideInv'
    BY <1>3, <1>4, <1>6 DEF SideInv
  <1>10. OneLeasePerEpoch'
    BY DEF OneLeasePerEpoch
  <1>11. WantInv'
    <2>1. \A q \in Proc : pc[q] # "idle" => pc'[q] # "idle"
      BY <1>1
    <2>2. lease # None => lease.owner \in Proc /\ pc[lease.owner] # "idle"
      BY <1>5 DEF OwnerInv, Leases
    <2>3. \A q \in Proc : me[q].want # None =>
            /\ Granted(me[q].want.epoch)
            /\ me[q].want.owner \in Proc /\ pc[me[q].want.owner] # "idle"
      BY DEF WantInv, IInv, TypeOK, Memory, Leases
    <2> QED
      BY <1>1, <1>4, <1>5, <1>6, <2>1, <2>2, <2>3 DEF WantInv
  <1>12. OwnerInv'
    BY <1>1, <1>5 DEF OwnerInv, Leases
  <1> QED
    BY <1>7, <1>8, <1>9, <1>10, <1>11, <1>12

\* AcquireDriver's lease names an epoch that no Driver and no sidecar has.
LEMMA CreateLeaseAuth ==
    ASSUME IInv, AuthInv, NEW p \in Proc, CreateLease(p)
    PROVE  AuthInv'
  <1> USE DEF AuthInv
  <1> DEFINE t == [epoch |-> jr.epoch, owner |-> p]
             l == IF p \in Runners \/ Prepared(p) THEN "watch" ELSE "load1"
  <1>1. /\ pc[p] = "lease" /\ lease' = t
        /\ Step(p, l, [me[p] EXCEPT !.tenure = t])
        /\ jr' = jr /\ sidecar' = sidecar
    BY DEF CreateLease
  <1>2. jr.owner = p /\ jr.epoch \in Nat \ {0}
    <2>1. Region(p, "lease", jr, lease)
      BY <1>1 DEF IInv, RegionInv
    <2>2. jr.owner = p
      BY <2>1 DEF Region
    <2> QED
      BY <2>2, NoneIsNothing DEF IInv, GrantInv, TypeOK, JournalType
  <1>3. t \in Leases /\ t # None /\ t.epoch = jr.epoch /\ t.owner = p
    BY <1>2, NoneIsNothing DEF Leases
  <1>4. l \in {"watch", "load1"}
    OBVIOUS
  <1>5. /\ pc'[p] = l
        /\ \A q \in Proc \ {p} : pc'[q] = pc[q] /\ me'[q] = me[q]
        /\ me'[p].tenure = t
        /\ me'[p].want = None
    <2>1. [me[p] EXCEPT !.tenure = t] \in Memory
      BY <1>3, Memories
    <2>2. [me[p] EXCEPT !.tenure = t].tenure = t
      BY <1>3, MemoryFields
    <2> HIDE DEF t, l
    <2> QED
      BY <1>1, <1>4, <2>1, <2>2, StepFields DEF IInv, Expecting
  <1> HIDE DEF t, l
  <1>6. \A q \in Proc : pc'[q] = "lease" => pc[q] = "lease" /\ lock = q /\ lock = p
    BY <1>1, <1>4, <1>5 DEF IInv, LockInv, Held
  <1>7. \A q \in Proc : /\ me[q].tenure # None => me[q].tenure.epoch \in Nat
                        /\ sidecar[q] # None => sidecar[q].epoch \in Nat
    BY DEF IInv, TypeOK, Memory, Leases
  <1>8. TenureInv'
    BY <1>1, <1>2, <1>3, <1>5, <1>7 DEF TenureInv
  <1>9. TenuresAreDistinct'
    BY <1>1, <1>2, <1>3, <1>5 DEF TenuresAreDistinct, TenureInv
  <1>10. \A e \in Nat : Granted(e) => Granted(e)' /\ e # jr.epoch
    BY <1>1, <1>6, <1>5, <1>4 DEF Granted
  <1>11. SideInv' /\ OneLeasePerEpoch'
    BY <1>1, <1>3, <1>7, <1>10 DEF SideInv, OneLeasePerEpoch, Prepared
  <1>12. WantInv'
    <2>1. \A q \in Proc : me[q].want # None => me[q].want.epoch \in Nat
      BY DEF IInv, TypeOK, Memory, Leases
    <2>2. \A q \in Proc : pc[q] # "idle" => pc'[q] # "idle"
      BY <1>4, <1>5
    <2>3. \A q \in Proc : me[q].want # None =>
            me[q].want.owner \in Proc /\ pc[me[q].want.owner] # "idle"
      BY DEF WantInv, IInv, TypeOK, Memory, Leases
    <2>4. \A q \in Proc : me'[q].want \in {me[q].want, None}
      BY <1>5
    <2> QED
      BY <1>10, <2>1, <2>2, <2>3, <2>4 DEF WantInv
  <1>13. OwnerInv'
    BY <1>1, <1>3, <1>4, <1>5 DEF OwnerInv
  <1> QED
    BY <1>8, <1>9, <1>11, <1>12, <1>13

\* CompareMoveLease moves the lease: afterwards it is only in the sidecar.
LEMMA AckMoveAuth ==
    ASSUME IInv, AuthInv, RefInv, IInv', Onward, NEW p \in Proc, AckMove(p)
    PROVE  AuthInv'
  <1>1. CASE AckFailed(p)
    BY <1>1, AuthKeeps, GotoMoved, QuitMoved DEF AckFailed, NoEffect, files
  <1>2. CASE /\ StillPending(p)
             /\ lease = me[p].tenure /\ jr.epoch = lease.epoch
             /\ Alone
             /\ lease' = None
             /\ sidecar' = [sidecar EXCEPT ![jr.prep.id] = lease]
             /\ Goto(p, IF jr.prep.id = p THEN "commit"
                        ELSE IF p \in Runners THEN "dead"
                        ELSE "load1")
             /\ jr' = jr
    <2>1. Moved
      BY <1>2, GotoMoved
    <2>2. jr.prep.id \in Proc /\ Prepared(jr.prep.id) /\ Prepared(jr.prep.id)'
      BY <1>2 DEF StillPending, RefInv, Prepared, IInv, TypeOK, JournalType, Prepares
    <2>3. lease # None => lease \in Leases /\ Granted(lease.epoch) /\ lease.epoch \in Nat
      BY DEF IInv, TypeOK, Leases, LeaseHasGrant, RegionInv, Region, Granted
    <2>4. \A e \in Nat : Granted(e) => Granted(e)'
      BY <1>2, <2>1 DEF Granted, Moved
    <2>5. TenureInv' /\ TenuresAreDistinct'
      BY <1>2, <2>1 DEF AuthInv, TenureInv, TenuresAreDistinct, Moved, IInv, TypeOK
    <2>6. SideInv'
      <3>1. \A q \in Proc : sidecar'[q] \in {sidecar[q], lease}
                             /\ (q # jr.prep.id => sidecar'[q] = sidecar[q])
        BY <1>2, <2>2 DEF IInv, TypeOK
      <3>2. \A q \in Proc : sidecar[q] # None =>
              sidecar[q].epoch \in Nat /\ Granted(sidecar[q].epoch) /\ Prepared(q)'
        BY <1>2 DEF AuthInv, SideInv, Prepared, IInv, TypeOK, Leases
      <3>3. ASSUME NEW q \in Proc, sidecar'[q] # None
            PROVE  Granted(sidecar[q].epoch)' /\ Prepared(q)'
        <4>1. CASE sidecar'[q] = sidecar[q]
          BY <2>4, <3>2, <3>3, <4>1
        <4>2. CASE sidecar'[q] # sidecar[q]
          <5>1. q = jr.prep.id /\ sidecar'[q] = lease
            BY <3>1, <3>3, <4>2
          <5>2. ASSUME NEW e \in Nat, e = lease.epoch PROVE Granted(e)'
            BY <2>3, <2>4, <3>3, <5>1, <5>2
          <5> QED
            BY <1>2, <2>2, <2>3, <3>3, <5>1, <5>2 DEF Granted, Prepared
        <4> QED
          BY <4>1, <4>2
      <3> QED
        BY <3>3 DEF SideInv
    <2>7. OneLeasePerEpoch'
      BY <1>2 DEF OneLeasePerEpoch
    <2>8. WantInv' /\ OwnerInv'
      <3>1. \A q \in Proc : me[q].want # None =>
              /\ me[q].want.epoch \in Nat /\ Granted(me[q].want.epoch)
              /\ me[q].want.owner \in Proc /\ pc[me[q].want.owner] # "idle"
        BY DEF AuthInv, WantInv, IInv, TypeOK, Memory, Leases
      <3>2. lease # None => lease.owner \in Proc /\ pc[lease.owner] # "idle"
        BY <2>3 DEF AuthInv, OwnerInv, Leases
      <3> QED
        BY <1>2, <2>1, <2>3, <2>4, <3>1, <3>2 DEF WantInv, OwnerInv, Moved
    <2> QED
      BY <2>5, <2>6, <2>7, <2>8 DEF AuthInv
  <1> QED
    BY <1>1, <1>2 DEF AckMove

\* Every step keeps authority exclusive.
LEMMA StepAuth ==
    ASSUME IInv, AuthInv, RefInv, IInv', NEW p \in Proc,
           Start(p) \/ Crash(p) \/ Work(p)
    PROVE  AuthInv'
  BY StepOnward, StepMoved, StepFiles, AuthKeeps, CreateLeaseAuth, AckMoveAuth

-----------------------------------------------------------------------------
(* Journals read earlier. *)

\* A journal that is continued by one and then by another.
LEMMA ContinuesTransitive ==
    ASSUME NEW i \in JournalType, NEW j \in JournalType, NEW k \in JournalType,
           Continues(i, j), Continues(j, k)
    PROVE  Continues(i, k)
  BY DEF Continues, JournalType

\* Whatever a process has read, the journal continues it.
LEMMA StepSeen ==
    ASSUME IInv, SeenInv, IInv', NEW p \in Proc,
           Start(p) \/ Crash(p) \/ Work(p)
    PROVE  SeenInv'
  <1>1. Continues(jr, jr')
    BY StepOnward DEF Onward
  <1>2. JournalInit \in JournalType /\ jr \in JournalType /\ jr' \in JournalType
    BY InitialMemory DEF IInv, TypeOK
  <1>3. Continues(JournalInit, jr')
    BY <1>1, <1>2, ContinuesTransitive DEF SeenInv
  <1>4. Continues(jr', jr')
    BY <1>2 DEF Continues, JournalType
  <1>5. \A q \in Proc : me'[q].seen \in {me[q].seen, JournalInit, jr, jr'}
    <2>1. CASE CreateLease(p)
      <3> DEFINE t == [epoch |-> jr.epoch, owner |-> p]
                 l == IF p \in Runners \/ Prepared(p) THEN "watch" ELSE "load1"
      <3>1. Step(p, l, [me[p] EXCEPT !.tenure = t])
        BY <2>1 DEF CreateLease
      <3>2. t \in Leases
        <4>1. Region(p, "lease", jr, lease)
          BY <2>1 DEF CreateLease, IInv, RegionInv
        <4>2. jr.epoch \in Nat \ {0}
          BY <4>1, NoneIsNothing DEF Region, IInv, GrantInv, TypeOK, JournalType
        <4> QED
          BY <4>2 DEF Leases
      <3> HIDE DEF t, l
      <3>3. /\ [me[p] EXCEPT !.tenure = t] \in Memory
            /\ [me[p] EXCEPT !.tenure = t].seen = me[p].seen
        BY <3>2, Memories, MemoryFields
      <3>4. me'[p].seen \in {me[p].seen, JournalInit}
        BY <3>1, <3>3, StepFields DEF IInv
      <3>5. \A q \in Proc \ {p} : me'[q] = me[q]
        BY <3>1, <3>3, StepFields DEF IInv
      <3> QED
        BY <3>4, <3>5
    <2>2. CASE ~CreateLease(p)
      BY <2>2, StepMoved DEF Moved
    <2> QED
      BY <2>1, <2>2
  <1>6. \A q \in Proc : me[q].seen \in JournalType
    BY DEF IInv, TypeOK, Memory
  <1> QED
    BY <1>1, <1>2, <1>3, <1>4, <1>5, <1>6, ContinuesTransitive DEF SeenInv

-----------------------------------------------------------------------------
(* What a step leaves to the other processes. *)

\* A step moves its own process; another one it can only kill.
LEMMA OthersStay ==
    ASSUME IInv, NEW p \in Proc, Start(p) \/ Crash(p) \/ Work(p),
           NEW q \in Proc \ {p}
    PROVE  \/ pc'[q] = pc[q] /\ me'[q] = me[q]
           \/ pc'[q] = "dead" /\ me'[q] = Fresh
  <1> USE DEF Step, Goto, Read, Quit
  <1>0. pc \in [Proc -> Free \cup Held] /\ me \in [Proc -> Memory]
    BY DEF IInv, TypeOK
  <1>1. CASE Start(p) \/ Crash(p) \/ Acquiring(p)
    BY <1>0, <1>1 DEF Start, Crash, Acquiring, Acquire, CreateLease, Reclaim, Regrant
  <1>2. CASE Recovering(p)
    BY <1>0, <1>2
    DEF Recovering, LoadRunInput, Collect, ReturnWaitingHuman, Cleanup,
        CleanPlans, RemoveStaleLease, QuarantineOrphanLease, TerminalCleanup,
        TerminalSidecars, TerminalPlans
  <1>3. CASE Driving(p)
    BY <1>0, <1>3
    DEF Driving, Watch, OpenInterval, StartSession, SweepSessions, Drive,
        CloseInterval, FinishRun, PauseRun, Refused, ObserveControl, Replan,
        DriverPrepare, PublishSnapshot, Release
  <1>4. CASE Acknowledging(p) \/ Preparing(p)
    BY <1>0, <1>4
    DEF Acknowledging, AckBegin, AckReceipt, AckSweep, AckSweepFails,
        AckFailed, AckStop, AckMove, Preparing, LoadProposal,
        ApproverPrepare, PublishSnapshot, PublishPlan, AppendPrepared
  <1>5. CASE Committing(p)
    <2>1. CASE FenceKill(p)
      BY <1>0, <2>1 DEF FenceKill
    <2>2. CASE ~FenceKill(p)
      BY <1>0, <1>5, <2>2
      DEF Committing, Commit, ApproveUnfenced, FenceSweep, FenceCommit,
          FenceApprove, RemovePlan, RemoveSidecar, RemoveFencedLease,
          AutoContinue
    <2> QED
      BY <2>1, <2>2
  <1>6. CASE Cancelling(p)
    <2>1. CASE CancelTerminate(p)
      BY <1>0, <2>1 DEF CancelTerminate
    <2>2. CASE ~CancelTerminate(p)
      BY <1>0, <1>6, <2>2
      DEF Cancelling, RequestCancellation, CancelRetry, CancelDeadline,
          CancelLoad, CancelSweep, CancelEnter, CancelSnapshot, CancelPlan,
          CancelSidecar, CancelAbandon, CancelStop, CancelRun, CancelLease
    <2> QED
      BY <2>1, <2>2
  <1> QED
    BY <1>1, <1>2, <1>3, <1>4, <1>5, <1>6 DEF Work

\* A step that writes does so while no other process is in a locked region.
LEMMA OthersWait ==
    ASSUME IInv, NEW p \in Proc, Start(p) \/ Crash(p) \/ Work(p)
    PROVE  \/ jr' = jr /\ scores' = scores /\ plans' = plans
           \/ \A q \in Proc \ {p} : pc'[q] \notin Held
  <1> USE DEF files, NoEffect, Append, Alone, TakeLock, KeepLock, DropLock
  <1>1. (jr' = jr /\ scores' = scores /\ plans' = plans) \/ lock \in {None, p}
    <2>1. CASE Start(p) \/ Crash(p) \/ Acquiring(p)
      BY <2>1 DEF Start, Crash, Acquiring, Acquire, CreateLease, Reclaim, Regrant
    <2>2. CASE Recovering(p)
      BY <2>2
      DEF Recovering, LoadRunInput, Collect, ReturnWaitingHuman, Cleanup,
          CleanPlans, RemoveStaleLease, QuarantineOrphanLease,
          TerminalCleanup, TerminalSidecars, TerminalPlans
    <2>3. CASE Driving(p)
      BY <2>3
      DEF Driving, Watch, OpenInterval, StartSession, SweepSessions, Drive,
          CloseInterval, FinishRun, PauseRun, Refused, ObserveControl, Replan,
          DriverPrepare, PublishSnapshot, Release
    <2>4. CASE Acknowledging(p) \/ Preparing(p)
      BY <2>4
      DEF Acknowledging, AckBegin, AckReceipt, AckSweep, AckSweepFails,
          AckFailed, AckStop, AckMove, Preparing, LoadProposal,
          ApproverPrepare, PublishSnapshot, PublishPlan, AppendPrepared
    <2>5. CASE Committing(p)
      BY <2>5
      DEF Committing, Commit, ApproveUnfenced, FenceSweep, FenceKill,
          FenceCommit, FenceApprove, RemovePlan, RemoveSidecar,
          RemoveFencedLease, AutoContinue
    <2>6. CASE Cancelling(p)
      BY <2>6
      DEF Cancelling, RequestCancellation, CancelRetry, CancelDeadline,
          CancelTerminate, CancelLoad, CancelSweep, CancelEnter,
          CancelSnapshot, CancelPlan, CancelSidecar, CancelAbandon,
          CancelStop, CancelRun, CancelLease
    <2> QED
      BY <2>1, <2>2, <2>3, <2>4, <2>5, <2>6 DEF Work
  <1>2. lock \in {None, p} => \A q \in Proc \ {p} : pc[q] \notin Held
    BY NoneIsNothing DEF IInv, LockInv
  <1>3. "dead" \notin Held
    BY DEF Held
  <1> QED
    BY <1>1, <1>2, <1>3, OthersStay

-----------------------------------------------------------------------------
(* Prepares and snapshots. *)

\* The labels of which the invariant says something.
Publishing == {"pplan", "pappend", "rmplan", "tclean", "tside", "tplan"}

\* A step whose own process keeps its part of the invariant leaves the
\* others theirs: who is inside a region kept the step from writing.
LEMMA OthersPublish ==
    ASSUME IInv, PublishInv, IInv', NEW p \in Proc,
           Start(p) \/ Crash(p) \/ Work(p), Publication(p, pc[p])'
    PROVE  PublishInv'
  <1> SUFFICES ASSUME NEW q \in Proc \ {p}
               PROVE  Publication(q, pc[q])'
    BY DEF PublishInv
  <1>1. Terminal(jr) => Terminal(jr')
    BY StepOnward DEF Onward, Continues
  <1>2. Publication(q, pc[q])
    BY DEF PublishInv
  <1>3. pc'[q] \in {pc[q], "dead"}
    BY OthersStay
  <1>4. CASE jr' = jr /\ scores' = scores /\ plans' = plans
    BY <1>2, <1>3, <1>4 DEF Publication
  <1>5. CASE pc'[q] \notin Held
    BY <1>1, <1>2, <1>3, <1>5 DEF Publication, Held
  <1> QED
    BY <1>4, <1>5, OthersWait

\* A step that leaves the head and the files, and at most settles the pending
\* prepare.
LEMMA SnapKeeps ==
    ASSUME IInv, SnapInv, IInv', NEW p \in Proc,
           Start(p) \/ Crash(p) \/ Work(p),
           scores' = scores, plans' = plans,
           jr'.head = jr.head, jr'.by = jr.by, jr'.prep \in {jr.prep, None},
           pc'[p] \notin Publishing
    PROVE  SnapInv'
  <1>1. Continues(jr, jr')
    BY StepOnward DEF Onward
  <1>2. RefInv'
    BY <1>1 DEF SnapInv, RefInv, Continues
  <1>3. PublishInv'
    BY OthersPublish DEF SnapInv, Publication, Publishing
  <1>4. HeadIsPinned'
    BY DEF SnapInv, HeadIsPinned
  <1>5. PrepareIsCommittable'
    BY <1>1 DEF SnapInv, PrepareIsCommittable, CommitInputsPresent,
                PreparePlanPresent, PrepareSnapshotPresent, Continues
  <1> QED
    BY <1>2, <1>3, <1>4, <1>5 DEF SnapInv

\* The events that move neither the head nor, unless to settle it, the
\* prepare.
LEMMA EventKeepsHead ==
    ASSUME TypeOK, NEW p \in Proc,
           \/ jr' = jr
           \/ jr' = Grant(jr, p)
           \/ jr' = Open(jr) \/ jr' = Stop(jr)
           \/ \E e \in Nat : jr' = RecordSession(jr, e)
           \/ jr' = Finish(jr)
           \/ jr' = Abandon(jr) \/ jr' = RequestCancel(jr)
           \/ \E b \in BOOLEAN : jr' = Cancel(jr, b)
    PROVE  /\ jr'.head = jr.head /\ jr'.by = jr.by
           /\ jr'.prep \in {jr.prep, None}
  <1>1. jr \in JournalType
    BY DEF TypeOK
  <1> QED
    BY <1>1 DEF JournalType, Grant, Open, Stop, RecordSession, Finish, Abandon,
                RequestCancel, Cancel

\* The label a step leads to.
LEMMA Arrives ==
    ASSUME IInv, NEW p \in Proc
    PROVE  /\ \A l, m : Step(p, l, m) => pc'[p] = l
           /\ \A l : Goto(p, l) => pc'[p] = l
           /\ \A l : Read(p, l) => pc'[p] = l
           /\ Quit(p) => pc'[p] \in {"dead", "release"}
  BY DEF IInv, TypeOK, Step, Goto, Read, Quit, QuitLabel

\* The steps that do not write snapshots, plans, the head or the prepare, nor
\* lead to one of these labels.
LEMMA QuietSnap ==
    ASSUME IInv, SnapInv, IInv', NEW p \in Proc,
           \/ Start(p) \/ Crash(p) \/ Acquiring(p)
           \/ Driving(p) /\ ~DriverPrepare(p)
           \/ Acknowledging(p)
           \/ LoadProposal(p)
           \/ FenceSweep(p) \/ FenceKill(p) \/ RemoveSidecar(p)
           \/ RemoveFencedLease(p) \/ AutoContinue(p)
           \/ Cancelling(p) /\ ~CancelSnapshot(p) /\ ~CancelPlan(p)
    PROVE  SnapInv'
  <1> USE DEF files, NoEffect, Append, Publishing
  <1>1. CASE Start(p) \/ Crash(p)
    <2>1. pc'[p] \in {"dead", "acquire", "load1", "aload", "creq"}
      BY <1>1 DEF Start, Crash, Goto, Step, IInv, TypeOK, Proc
    <2> QED
      BY <1>1, <2>1, SnapKeeps DEF Start, Crash
  <1>2. CASE Acquiring(p)
    <2>1. scores' = scores /\ plans' = plans /\ (jr' = jr \/ jr' = Grant(jr, p))
      BY <1>2 DEF Acquiring, Acquire, CreateLease, Reclaim, Regrant
    <2>2. pc'[p] \in {"dead", "release", "lease", "regrant", "watch", "load1"}
      BY <1>2, Arrives DEF Acquiring, Acquire, CreateLease, Reclaim, Regrant
    <2> QED
      BY <1>2, <2>1, <2>2, EventKeepsHead, SnapKeeps DEF Work, IInv
  <1>3. CASE Driving(p) /\ ~DriverPrepare(p)
    <2>1. /\ scores' = scores /\ plans' = plans
          /\ \/ jr' = jr \/ jr' = Open(jr) \/ jr' = Stop(jr)
             \/ jr' = Finish(jr) \/ StartSession(p)
      BY <1>3
      DEF Driving, Watch, OpenInterval, StartSession, SweepSessions, Drive,
          CloseInterval, FinishRun, PauseRun, Refused, ObserveControl, Replan,
          Release
    <2>2. StartSession(p) => \E e \in Nat : jr' = RecordSession(jr, e)
      BY DEF StartSession, Drive, Authorized, IInv, TypeOK, JournalType
    <2>3. pc'[p] \in {"dead", "release", "xload", "drive", "ack1", "load1"}
      BY <1>3, Arrives
      DEF Driving, Watch, OpenInterval, StartSession, SweepSessions, Drive,
          CloseInterval, FinishRun, PauseRun, Refused, ObserveControl, Replan,
          Release
    <2> QED
      BY <1>3, <2>1, <2>2, <2>3, EventKeepsHead, SnapKeeps DEF Work, IInv
  <1>4. CASE Acknowledging(p)
    <2>1. scores' = scores /\ plans' = plans /\ (jr' = jr \/ jr' = Stop(jr))
      BY <1>4
      DEF Acknowledging, AckBegin, AckReceipt, AckSweep, AckSweepFails,
          AckFailed, AckStop, AckMove
    <2>2. pc'[p] \in {"dead", "release", "xload", "ack2", "ack3", "ack4",
                      "ack5", "ack6", "commit", "load1"}
      BY <1>4, Arrives
      DEF Acknowledging, AckBegin, AckReceipt, AckSweep, AckSweepFails,
          AckFailed, AckStop, AckMove
    <2> QED
      BY <1>4, <2>1, <2>2, EventKeepsHead, SnapKeeps DEF Work, IInv
  <1>5. CASE LoadProposal(p)
    BY <1>5, Arrives, SnapKeeps DEF LoadProposal, Work, Preparing
  <1>6. CASE \/ FenceSweep(p) \/ FenceKill(p) \/ RemoveSidecar(p)
             \/ RemoveFencedLease(p) \/ AutoContinue(p)
    <2>1. scores' = scores /\ plans' = plans /\ jr' = jr
      BY <1>6
      DEF FenceSweep, FenceKill, RemoveSidecar, RemoveFencedLease, AutoContinue
    <2>2. pc'[p] \in {"dead", "release", "xload", "fkill", "fcommit",
                      "rmlease", "autoload", "load1", "acquire"}
      <3>1. CASE FenceKill(p)
        BY <3>1, Arrives DEF FenceKill, IInv, TypeOK
      <3>2. CASE ~FenceKill(p)
        BY <1>6, <3>2, Arrives
        DEF FenceSweep, RemoveSidecar, RemoveFencedLease, AutoContinue,
            CommittedLabel
      <3> QED
        BY <3>1, <3>2
    <2> QED
      BY <1>6, <2>1, <2>2, SnapKeeps DEF Work, Committing
  <1>7. CASE Cancelling(p) /\ ~CancelSnapshot(p) /\ ~CancelPlan(p)
    <2>1. /\ scores' = scores /\ plans' = plans
          /\ \/ jr' = jr \/ jr' = Stop(jr) \/ jr' = Abandon(jr)
             \/ jr' = RequestCancel(jr) \/ \E b \in BOOLEAN : jr' = Cancel(jr, b)
      BY <1>7
      DEF Cancelling, RequestCancellation, CancelRetry, CancelDeadline,
          CancelTerminate, CancelLoad, CancelSweep, CancelEnter,
          CancelSidecar, CancelAbandon, CancelStop, CancelRun, CancelLease
    <2>2. pc'[p] \in {"dead", "release", "load1", "ckill", "xsweep", "xlock",
                      "xsnap", "xstop", "xabandon", "xcancel", "xlease"}
      <3>1. CASE CancelTerminate(p)
        BY <3>1, Arrives DEF CancelTerminate, IInv, TypeOK
      <3>2. CASE ~CancelTerminate(p)
        BY <1>7, <3>2, Arrives
        DEF Cancelling, RequestCancellation, CancelRetry, CancelDeadline,
            CancelLoad, CancelSweep, CancelEnter, CancelSidecar,
            CancelAbandon, CancelStop, CancelRun, CancelLease,
            CancelledLabels
      <3> QED
        BY <3>1, <3>2
    <2> QED
      BY <1>7, <2>1, <2>2, EventKeepsHead, SnapKeeps DEF Work, IInv
  <1> QED
    BY <1>1, <1>2, <1>3, <1>4, <1>5, <1>6, <1>7

\* Cleanup spares what an event names, and the pending prepare's plan; the
\* terminal cleanup runs only when nothing can be pending any more.
LEMMA RecoveringSnap ==
    ASSUME IInv, SnapInv, SeenInv, IInv', NEW p \in Proc, Recovering(p)
    PROVE  SnapInv'
  <1> USE DEF files, NoEffect
  <1>0. jr' = jr /\ Work(p)
    BY DEF Work, Recovering, LoadRunInput, Collect, ReturnWaitingHuman, Cleanup, CleanPlans,
           RemoveStaleLease, QuarantineOrphanLease, TerminalCleanup,
           TerminalSidecars, TerminalPlans
  <1>1. CASE \/ LoadRunInput(p) \/ ReturnWaitingHuman(p)
             \/ RemoveStaleLease(p) \/ QuarantineOrphanLease(p)
    <2>1. scores' = scores /\ plans' = plans
      BY <1>1 DEF LoadRunInput, ReturnWaitingHuman, RemoveStaleLease,
                  QuarantineOrphanLease
    <2>2. pc'[p] \in {"load2", "load1", "dead", "release"}
      BY <1>1, Arrives
      DEF LoadRunInput, ReturnWaitingHuman, RemoveStaleLease,
          QuarantineOrphanLease
    <2> QED
      BY <1>0, <2>1, <2>2, SnapKeeps DEF Publishing
  <1>2. CASE \/ Collect(p) \/ TerminalCleanup(p) \/ TerminalSidecars(p)
    <2>1. scores' = scores /\ plans' = plans
      BY <1>2 DEF Collect, TerminalCleanup, TerminalSidecars
    <2>2. /\ pc'[p] \notin {"pplan", "pappend", "rmplan"}
          /\ pc'[p] \in {"tclean", "tside", "tplan"} => Terminal(jr)
      <3>1. CASE Collect(p)
        <4>1. /\ Plan(p) \notin {"pplan", "pappend", "rmplan", "tside", "tplan"}
              /\ Plan(p) = "tclean" => Terminal(me[p].seen)
          BY DEF Plan
        <4>2. Terminal(me[p].seen) => Terminal(jr)
          BY DEF SeenInv, Continues
        <4>3. pc'[p] \in {"dead", "release", "cleanup", "refused", Plan(p)}
          BY <3>1, Arrives DEF Collect
        <4> QED
          BY <4>1, <4>2, <4>3
      <3>2. CASE TerminalCleanup(p) \/ TerminalSidecars(p)
        BY <3>2, Arrives
        DEF TerminalCleanup, TerminalSidecars, SnapInv, PublishInv, Publication
      <3> QED
        BY <1>2, <3>1, <3>2
    <2>3. Publication(p, pc[p])'
      BY <1>0, <2>2 DEF Publication
    <2>4. PublishInv'
      BY <1>0, <2>3, OthersPublish DEF SnapInv
    <2> QED
      BY <1>0, <2>1, <2>4
      DEF SnapInv, RefInv, HeadIsPinned, PrepareIsCommittable,
          CommitInputsPresent, PreparePlanPresent, PrepareSnapshotPresent
  <1>3. CASE Cleanup(p)
    <2>1. pc'[p] = "cleanplan" /\ plans' = plans /\ scores' = scores \ Unreferenced
      BY <1>3, Arrives DEF Cleanup
    <2>2. PublishInv'
      BY <1>0, <2>1, OthersPublish DEF SnapInv, Publication
    <2>3. \A s \in scores : s \in jr.refs => s \in scores'
      BY <2>1 DEF Unreferenced
    <2>4. HeadIsPinned'
      BY <1>0, <2>3 DEF SnapInv, RefInv, HeadIsPinned
    <2>5. PrepareIsCommittable'
      BY <1>0, <2>1, <2>3
      DEF SnapInv, RefInv, PrepareIsCommittable, CommitInputsPresent,
          PreparePlanPresent, PrepareSnapshotPresent
    <2> QED
      BY <1>0, <2>2, <2>4, <2>5 DEF SnapInv, RefInv
  <1>4. CASE CleanPlans(p) \/ TerminalPlans(p)
    <2>1. pc'[p] \in {"dead", "load1", "cleanup"} /\ scores' = scores
      BY <1>4, Arrives DEF CleanPlans, TerminalPlans
    <2>2. PublishInv'
      BY <1>0, <2>1, OthersPublish DEF SnapInv, Publication
    <2>3. PrepareIsCommittable'
      <3>1. CASE CleanPlans(p)
        BY <1>0, <2>1, <3>1
        DEF CleanPlans, SnapInv, PrepareIsCommittable, CommitInputsPresent,
            PreparePlanPresent, PrepareSnapshotPresent
      <3>2. CASE TerminalPlans(p)
        <4>1. Terminal(jr)
          BY <3>2 DEF TerminalPlans, SnapInv, PublishInv, Publication
        <4>2. jr.prep = None
          BY <4>1 DEF IInv, PrepareInv
        <4> QED
          BY <1>0, <4>2 DEF PrepareIsCommittable
      <3> QED
        BY <1>4, <3>1, <3>2
    <2> QED
      BY <1>0, <2>1, <2>2, <2>3 DEF SnapInv, RefInv, HeadIsPinned
  <1> QED
    BY <1>1, <1>2, <1>3, <1>4 DEF Recovering

\* A snapshot is published, then its plan, then the prepare that names both.
LEMMA PreparingSnap ==
    ASSUME IInv, SnapInv, IInv', NEW p \in Proc,
           Preparing(p) \/ DriverPrepare(p)
    PROVE  SnapInv'
  <1>0. Work(p)
    BY DEF Work, Driving
  <1>1. CASE LoadProposal(p)
    BY <1>1, QuietSnap
  <1>2. CASE ApproverPrepare(p) \/ DriverPrepare(p)
    <2>1. CASE PublishSnapshot(p)
      <3>1. /\ pc'[p] = "pplan" /\ plans' = plans /\ jr' = jr
            /\ scores' = scores \cup {<<jr.head + 1, p>>}
        BY <2>1, Arrives DEF PublishSnapshot
      <3>2. PublishInv'
        BY <1>0, <3>1, OthersPublish DEF SnapInv, Publication
      <3> QED
        BY <3>1, <3>2
        DEF SnapInv, RefInv, HeadIsPinned, PrepareIsCommittable,
            CommitInputsPresent, PreparePlanPresent, PrepareSnapshotPresent
    <2>2. CASE Quit(p) /\ UNCHANGED <<jr, files>>
      BY <1>0, <2>2, Arrives, SnapKeeps DEF files, Publishing
    <2> QED
      BY <1>2, <2>1, <2>2 DEF ApproverPrepare, DriverPrepare
  <1>3. CASE PublishPlan(p)
    <2>1. /\ pc[p] = "pplan" /\ pc'[p] = "pappend" /\ jr' = jr
          /\ scores' = scores /\ plans' = plans \cup {p}
      BY <1>3, Arrives DEF PublishPlan
    <2>2. PublishInv'
      BY <1>0, <2>1, OthersPublish DEF SnapInv, PublishInv, Publication
    <2> QED
      BY <2>1, <2>2
      DEF SnapInv, RefInv, HeadIsPinned, PrepareIsCommittable,
          CommitInputsPresent, PreparePlanPresent, PrepareSnapshotPresent
  <1>4. CASE AppendPrepared(p)
    <2>1. /\ pc[p] = "pappend" /\ pc'[p] \in {"commit", "ack1"}
          /\ scores' = scores /\ plans' = plans /\ jr' = Prepare(jr, p)
      BY <1>4, Arrives DEF AppendPrepared, Append, files
    <2>2. <<jr.head + 1, p>> \in scores /\ p \in plans
      BY <2>1 DEF SnapInv, PublishInv, Publication
    <2>3. /\ jr'.prep.id = p /\ jr'.prep.base = jr.head
          /\ jr'.refs = jr.refs \cup {<<jr.head + 1, p>>}
          /\ jr'.head = jr.head /\ jr'.by = jr.by
      BY <2>1 DEF IInv, TypeOK, JournalType, Prepare
    <2>4. PublishInv'
      BY <1>0, <2>1, OthersPublish DEF SnapInv, Publication
    <2>5. RefInv' /\ HeadIsPinned'
      BY <2>1, <2>3 DEF SnapInv, RefInv, HeadIsPinned
    <2>6. PrepareIsCommittable'
      BY <2>1, <2>2, <2>3
      DEF PrepareIsCommittable, CommitInputsPresent, PreparePlanPresent,
          PrepareSnapshotPresent
    <2> QED
      BY <2>4, <2>5, <2>6 DEF SnapInv
  <1> QED
    BY <1>1, <1>2, <1>3, <1>4 DEF Preparing

\* amendment.approved moves the head to a snapshot that is there, and that
\* approval_prepared named.
LEMMA ApproveSnap ==
    ASSUME IInv, SnapInv, IInv', NEW p \in Proc, Work(p), NEW b \in BOOLEAN,
           jr.prep # None, CommitInputsPresent, jr' = Approve(jr, b),
           scores' = scores, plans' = plans, pc'[p] = "rmplan"
    PROVE  SnapInv'
  <1>1. /\ jr'.head = jr.prep.base + 1 /\ jr'.by = jr.prep.id
        /\ jr'.prep = None /\ jr'.refs = jr.refs
    BY DEF IInv, TypeOK, JournalType, Approve
  <1>2. PublishInv'
    BY <1>1, OthersPublish DEF SnapInv, Publication
  <1>3. RefInv' /\ HeadIsPinned'
    BY <1>1 DEF SnapInv, RefInv, HeadIsPinned, CommitInputsPresent,
                PrepareSnapshotPresent
  <1> QED
    BY <1>1, <1>2, <1>3 DEF SnapInv, PrepareIsCommittable

LEMMA CommittingSnap ==
    ASSUME IInv, SnapInv, IInv', NEW p \in Proc, Committing(p)
    PROVE  SnapInv'
  <1> USE DEF files, NoEffect, Append
  <1>0. Work(p)
    BY DEF Work
  <1>1. CASE Commit(p)
    <2>1. CASE ApproveUnfenced(p) /\ jr.prep # None /\ CommitInputsPresent
      BY <1>0, <2>1, Arrives, ApproveSnap DEF ApproveUnfenced
    <2>2. CASE NoEffect
      <3>1. pc'[p] \in {"dead", "release", "xload", "fsweep", "rmplan"} \ {"rmplan"}
        <4>1. \/ Quit(p) \/ Goto(p, "xload")
              \/ Step(p, "fsweep", [me[p] EXCEPT !.seen = jr, !.want = lease])
              \/ ApproveUnfenced(p) /\ jr.prep # None
          BY <1>1 DEF Commit
        <4>2. ~(ApproveUnfenced(p) /\ jr.prep # None)
          BY <2>2 DEF ApproveUnfenced, Approve, IInv, TypeOK, JournalType
        <4> QED
          BY <4>1, <4>2, Arrives
      <3> QED
        BY <1>0, <2>2, <3>1, SnapKeeps DEF Publishing
    <2> QED
      BY <1>1, <2>1, <2>2 DEF Commit
  <1>2. CASE FenceCommit(p)
    <2>1. CASE /\ jr.prep # None /\ CommitInputsPresent
               /\ jr' = Approve(jr, FALSE) /\ UNCHANGED files
               /\ Step(p, "rmplan", [me[p] EXCEPT !.want = None])
      BY <1>0, <2>1, Arrives, ApproveSnap
    <2>2. CASE Quit(p) /\ NoEffect
      BY <1>0, <2>2, Arrives, SnapKeeps DEF Publishing
    <2>3. CASE /\ Append(IF jr.open THEN Stop(jr) ELSE jr)
               /\ Goto(p, "fapprove")
      <3>1. jr' = jr \/ jr' = Stop(jr)
        BY <2>3
      <3> QED
        BY <1>0, <2>3, <3>1, Arrives, EventKeepsHead, SnapKeeps
        DEF Publishing, IInv
    <2> QED
      BY <1>2, <2>1, <2>2, <2>3 DEF FenceCommit
  <1>3. CASE FenceApprove(p)
    <2>1. jr.prep # None /\ ~jr.cancel
      BY <1>3 DEF FenceApprove, IInv, RegionInv, Region
    <2>2. CommitInputsPresent
      BY <2>1 DEF SnapInv, PrepareIsCommittable
    <2> QED
      BY <1>0, <1>3, <2>1, <2>2, Arrives, ApproveSnap DEF FenceApprove
  <1>4. CASE RemovePlan(p)
    <2>1. pc'[p] = "rmside" /\ jr' = jr /\ scores' = scores /\ jr.prep = None
      BY <1>4, Arrives DEF RemovePlan, SnapInv, PublishInv, Publication
    <2>2. PublishInv'
      BY <1>0, <2>1, OthersPublish DEF SnapInv, Publication
    <2> QED
      BY <2>1, <2>2 DEF SnapInv, RefInv, HeadIsPinned, PrepareIsCommittable
  <1>5. CASE \/ FenceSweep(p) \/ FenceKill(p) \/ RemoveSidecar(p)
             \/ RemoveFencedLease(p) \/ AutoContinue(p)
    BY <1>5, QuietSnap
  <1> QED
    BY <1>1, <1>2, <1>3, <1>4, <1>5 DEF Committing

\* The oracle takes the pending prepare's snapshot and plan, not the head's:
\* the prepare is for the next revision.
LEMMA CancellingSnap ==
    ASSUME IInv, SnapInv, IInv', NEW p \in Proc, Cancelling(p)
    PROVE  SnapInv'
  <1>0. Work(p)
    BY DEF Work
  <1>1. CASE CancelSnapshot(p) \/ CancelPlan(p)
    <2>1. jr.cancel /\ jr.prep # None /\ jr' = jr
      BY <1>1 DEF CancelSnapshot, CancelPlan, IInv, RegionInv, Region
    <2>2. pc'[p] \in {"xplan", "xside", "dead", "release"}
      BY <1>1, Arrives DEF CancelSnapshot, CancelPlan
    <2>3. PublishInv'
      BY <1>0, <2>1, <2>2, OthersPublish DEF SnapInv, Publication
    <2>4. jr.prep.base = jr.head /\ jr.head \in Nat
      BY <2>1 DEF IInv, PrepareInv, TypeOK, JournalType
    <2>5. HeadIsPinned'
      <3>1. <<jr.head, jr.by>> # <<jr.prep.base + 1, jr.prep.id>>
        BY <2>4
      <3>2. scores \ {<<jr.prep.base + 1, jr.prep.id>>} \subseteq scores'
        BY <1>1 DEF CancelSnapshot, CancelPlan
      <3> QED
        BY <2>1, <3>1, <3>2 DEF SnapInv, HeadIsPinned
    <2> QED
      BY <2>1, <2>3, <2>5 DEF SnapInv, RefInv, PrepareIsCommittable
  <1>2. CASE ~CancelSnapshot(p) /\ ~CancelPlan(p)
    BY <1>2, QuietSnap
  <1> QED
    BY <1>1, <1>2

\* Every step keeps the head and the pending prepare on disk.
LEMMA StepSnap ==
    ASSUME IInv, SnapInv, SeenInv, IInv', NEW p \in Proc,
           Start(p) \/ Crash(p) \/ Work(p)
    PROVE  SnapInv'
  BY QuietSnap, RecoveringSnap, PreparingSnap, CommittingSnap, CancellingSnap
  DEF Work

-----------------------------------------------------------------------------
(* Cancel commands. *)

\* A run that is cancelled or ended stays so.
LEMMA DoomedStays ==
    ASSUME NEW j \in JournalType, NEW k \in JournalType, Continues(j, k), Doomed(j)
    PROVE  Doomed(k)
  BY DEF Continues, Doomed

\* Of a run that is to end, a pass without a Driver cleans up or cancels: it
\* neither acquires nor drives nor commits.
LEMMA DoomedPlan ==
    ASSUME NEW p \in Proc, Doomed(me[p].seen)
    PROVE  Plan(p) \in {"tclean", "stale", "orphan", "refuse", "xload"}
  BY DEF Doomed, Plan

\* The actions that a cancel command can take.
LEMMA CancelActions ==
    ASSUME IInv, CancelInv, NEW p \in Cancellers,
           Start(p) \/ Crash(p) \/ Work(p)
    PROVE  \/ Start(p) \/ Crash(p)
           \/ LoadRunInput(p) \/ Collect(p) \/ Cleanup(p) \/ CleanPlans(p)
           \/ RemoveStaleLease(p) \/ QuarantineOrphanLease(p)
           \/ TerminalCleanup(p) \/ TerminalSidecars(p) \/ TerminalPlans(p)
           \/ Cancelling(p)
  <1> USE DEF CancelInv, CancelLabels
  <1>1. ~Acquiring(p)
    BY DEF Acquiring, Acquire, CreateLease, Reclaim, Regrant
  <1>2. ~ReturnWaitingHuman(p)
    BY DoomedPlan DEF ReturnWaitingHuman, Proc
  <1>3. ~Driving(p)
    <2>1. ~Drive(p) /\ ~Release(p)
      BY DEF Drive, Release
    <2> QED
      BY <2>1
      DEF Driving, Watch, OpenInterval, StartSession, SweepSessions,
          CloseInterval, FinishRun, PauseRun, Refused, ObserveControl, Replan,
          DriverPrepare
  <1>4. ~Acknowledging(p) /\ ~Preparing(p)
    BY DEF Acknowledging, AckBegin, AckReceipt, AckSweep, AckSweepFails,
           AckStop, AckMove, Preparing, LoadProposal, ApproverPrepare,
           PublishPlan, AppendPrepared
  <1>5. ~Committing(p)
    BY DEF Committing, Commit, FenceSweep, FenceKill, FenceCommit,
           FenceApprove, RemovePlan, RemoveSidecar, RemoveFencedLease,
           AutoContinue
  <1> QED
    BY <1>1, <1>2, <1>3, <1>4, <1>5 DEF Work, Recovering

\* The labels a cancel command can go to.
LEMMA CancelGoes ==
    ASSUME IInv, CancelInv, NEW p \in Cancellers,
           Start(p) \/ Crash(p) \/ Work(p)
    PROVE  /\ pc'[p] \in CancelLabels
           /\ pc'[p] = "load2" => LoadRunInput(p)
           /\ pc'[p] \in {"idle", "dead", "creq"} \/ Doomed(jr) \/ Doomed(jr')
  <1>0. /\ p \in Proc /\ p \notin Runners /\ p \notin Resumers
        /\ p \notin Approvers /\ me[p].tenure = None
    BY RolesAreDisjoint DEF Proc, CancelInv
  <1>1. Quit(p) => pc'[p] = "dead"
    BY <1>0 DEF Quit, QuitLabel, Goto, Step, IInv, TypeOK
  <1>2. pc[p] \notin {"idle", "dead", "creq"} => Doomed(jr)
    BY DEF CancelInv
  <1>3. CASE Start(p) \/ Crash(p)
    <2>1. pc'[p] \in {"creq", "dead"}
      BY <1>0, <1>3, Arrives DEF Start, Crash
    <2> QED
      BY <2>1 DEF CancelLabels
  <1>4. CASE LoadRunInput(p) \/ Cleanup(p) \/ CleanPlans(p)
    <2>1. /\ pc'[p] \in {"load1", "load2", "dead", "cleanplan"}
          /\ pc'[p] = "load2" => LoadRunInput(p)
      BY <1>0, <1>4, Arrives DEF LoadRunInput, Cleanup, CleanPlans
    <2>2. Doomed(jr)
      BY <1>2, <1>4 DEF LoadRunInput, Cleanup, CleanPlans
    <2> QED
      BY <2>1, <2>2 DEF CancelLabels
  <1>5. CASE Collect(p)
    <2>1. Plan(p) \in {"tclean", "stale", "orphan", "refuse", "xload"}
      BY <1>0, <1>5, DoomedPlan DEF Collect, CancelInv
    <2>2. pc'[p] \in {"dead", "cleanup", "refused", "tclean", "stale",
                      "orphan", "xload"}
      BY <1>0, <1>1, <1>5, <2>1, Arrives DEF Collect
    <2>3. Doomed(jr)
      BY <1>2, <1>5 DEF Collect
    <2> QED
      BY <2>2, <2>3 DEF CancelLabels
  <1>6. CASE \/ RemoveStaleLease(p) \/ QuarantineOrphanLease(p)
             \/ TerminalCleanup(p) \/ TerminalSidecars(p) \/ TerminalPlans(p)
    <2>1. pc'[p] \in {"dead", "load1", "tside", "tplan", "cleanup"}
      BY <1>0, <1>1, <1>6, Arrives
      DEF RemoveStaleLease, QuarantineOrphanLease, TerminalCleanup,
          TerminalSidecars, TerminalPlans
    <2>2. Doomed(jr)
      BY <1>2, <1>6
      DEF RemoveStaleLease, QuarantineOrphanLease, TerminalCleanup,
          TerminalSidecars, TerminalPlans
    <2> QED
      BY <2>1, <2>2 DEF CancelLabels
  <1>7. CASE RequestCancellation(p)
    <2>1. pc'[p] = "load1"
      BY <1>0, <1>7, Arrives DEF RequestCancellation
    <2>2. Doomed(jr')
      BY <1>7 DEF RequestCancellation, Append, CanRequestCancel,
                  RequestCancel, Doomed, IInv, TypeOK, JournalType
    <2> QED
      BY <2>1, <2>2 DEF CancelLabels
  <1>8. CASE Cancelling(p) /\ ~RequestCancellation(p)
    <2>1. pc'[p] \in {"load1", "ckill", "xsweep", "xlock", "xsnap", "xstop",
                      "dead", "xplan", "xside", "xabandon", "xcancel", "xlease"}
      <3>1. CASE CancelTerminate(p)
        BY <1>0, <3>1, Arrives DEF CancelTerminate, IInv, TypeOK
      <3>2. CASE ~CancelTerminate(p)
        BY <1>0, <1>1, <1>8, <3>2, Arrives
        DEF Cancelling, CancelRetry, CancelDeadline, CancelLoad, CancelSweep,
            CancelEnter, CancelSnapshot, CancelPlan, CancelSidecar,
            CancelAbandon, CancelStop, CancelRun, CancelLease, CancelledLabels
      <3> QED
        BY <3>1, <3>2
    <2>2. Doomed(jr)
      BY <1>2, <1>8
      DEF Cancelling, CancelRetry, CancelDeadline, CancelTerminate,
          CancelLoad, CancelSweep, CancelEnter, CancelSnapshot, CancelPlan,
          CancelSidecar, CancelAbandon, CancelStop, CancelRun, CancelLease
    <2> QED
      BY <2>1, <2>2 DEF CancelLabels
  <1> QED
    BY <1>3, <1>4, <1>5, <1>6, <1>7, <1>8, CancelActions

\* Authority is granted to the process that acquires it, and to no other.
LEMMA OwnerMoves ==
    ASSUME IInv, IInv', NEW p \in Proc, Start(p) \/ Crash(p) \/ Work(p)
    PROVE  \/ jr'.owner \in {jr.owner, None}
           \/ jr'.owner = p /\ (Acquire(p) \/ Regrant(p))
  <1>1. CASE Acquire(p) \/ Regrant(p)
    <2>1. jr' = jr \/ jr' = Grant(jr, p)
      BY <1>1 DEF Acquire, Regrant, Append
    <2> QED
      BY <1>1, <2>1, GrantFields DEF IInv, TypeOK
  <1>2. CASE ~(Acquire(p) \/ Regrant(p))
    <2>1. \/ jr' = jr \/ jr' = Open(jr) \/ jr' = Stop(jr)
          \/ \E e : jr' = RecordSession(jr, e)
          \/ jr' = Finish(jr) \/ jr' = Prepare(jr, p)
          \/ \E b \in BOOLEAN : jr' = Approve(jr, b)
          \/ jr' = Abandon(jr) \/ jr' = RequestCancel(jr)
          \/ \E b \in BOOLEAN : jr' = Cancel(jr, b)
      <3> USE DEF NoEffect, Append
      <3>1. CASE Start(p) \/ Crash(p) \/ Acquiring(p) \/ Recovering(p)
        BY <1>2, <3>1
        DEF Start, Crash, Acquiring, CreateLease, Reclaim,
            Recovering, LoadRunInput, Collect,
            ReturnWaitingHuman, Cleanup, CleanPlans, RemoveStaleLease,
            QuarantineOrphanLease, TerminalCleanup, TerminalSidecars,
            TerminalPlans
      <3>2. CASE Driving(p)
        BY <3>2
        DEF Driving, Watch, OpenInterval, StartSession, SweepSessions,
            CloseInterval, FinishRun, PauseRun, Refused, ObserveControl,
            Replan, DriverPrepare, PublishSnapshot, Release
      <3>3. CASE Acknowledging(p) \/ Preparing(p)
        BY <3>3
        DEF Acknowledging, AckBegin, AckReceipt, AckSweep, AckSweepFails,
            AckFailed, AckStop, AckMove, Preparing, LoadProposal,
            ApproverPrepare, PublishSnapshot, PublishPlan, AppendPrepared
      <3>4. CASE Committing(p)
        BY <3>4
        DEF Committing, Commit, ApproveUnfenced, FenceSweep, FenceKill,
            FenceCommit, FenceApprove, RemovePlan, RemoveSidecar,
            RemoveFencedLease, AutoContinue
      <3>5. CASE Cancelling(p)
        BY <3>5
        DEF Cancelling, RequestCancellation, CancelRetry, CancelDeadline,
            CancelTerminate, CancelLoad, CancelSweep, CancelEnter,
            CancelSnapshot, CancelPlan, CancelSidecar, CancelAbandon,
            CancelStop, CancelRun, CancelLease
      <3> QED
        BY <3>1, <3>2, <3>3, <3>4, <3>5 DEF Work
    <2>2. jr \in JournalType
      BY DEF IInv, TypeOK
    <2> QED
      BY <2>1, <2>2
      DEF JournalType, Open, Stop, RecordSession, Finish, Prepare, Approve,
          Abandon, RequestCancel, Cancel
  <1> QED
    BY <1>1, <1>2

\* No step makes a cancel command a driver.
LEMMA StepCancel ==
    ASSUME IInv, CancelInv, IInv', NEW p \in Proc,
           Start(p) \/ Crash(p) \/ Work(p)
    PROVE  CancelInv'
  <1> SUFFICES ASSUME NEW c \in Cancellers
               PROVE  /\ pc'[c] \in CancelLabels
                      /\ pc'[c] \notin {"idle", "dead", "creq"} => Doomed(jr')
                      /\ pc'[c] = "load2" => Doomed(me'[c].seen)
                      /\ me'[c].tenure = None
                      /\ jr'.owner # c
    BY DEF CancelInv
  <1>1. /\ pc[c] \in CancelLabels
        /\ pc[c] \notin {"idle", "dead", "creq"} => Doomed(jr)
        /\ pc[c] = "load2" => Doomed(me[c].seen)
        /\ me[c].tenure = None /\ jr.owner # c
        /\ c \in Proc /\ c # None
    BY NoneIsNothing DEF CancelInv, Proc
  <1>2. Doomed(jr) => Doomed(jr')
    BY StepOnward, DoomedStays DEF Onward, IInv, TypeOK
  <1>3. CASE c = p
    <2>1. ~Acquire(p) /\ ~Regrant(p) /\ ~CreateLease(p)
      BY <1>1, <1>3 DEF Acquire, Regrant, CreateLease, CancelLabels
    <2>2. jr'.owner # c
      BY <1>1, <1>3, <2>1, OwnerMoves
    <2>3. me'[c].tenure = None
      BY <1>1, <2>1, StepMoved DEF Moved
    <2>4. LoadRunInput(p) => me'[p].seen = jr /\ Doomed(jr)
      <3>1. ASSUME LoadRunInput(p)
            PROVE  me'[p].seen = jr
        <4> DEFINE m == [me[p] EXCEPT !.seen = jr]
        <4>1. Step(p, "load2", m)
          BY <3>1 DEF LoadRunInput, Read
        <4>2. m \in Memory /\ m.seen = jr
          BY Memories, MemoryFields
        <4> HIDE DEF m
        <4> QED
          BY <4>1, <4>2, StepFields DEF Reading, IInv
      <3> QED
        BY <1>1, <1>3, <3>1 DEF LoadRunInput
    <2> QED
      BY <1>2, <1>3, <2>2, <2>3, <2>4, CancelGoes
  <1>4. CASE c # p
    <2>1. jr'.owner # c
      BY <1>1, <1>4, OwnerMoves
    <2>2. \/ pc'[c] = pc[c] /\ me'[c] = me[c]
          \/ pc'[c] = "dead" /\ me'[c] = Fresh
      BY <1>1, <1>4, OthersStay
    <2> QED
      BY <1>1, <1>2, <2>1, <2>2 DEF CancelLabels, Fresh
  <1> QED
    BY <1>3, <1>4

-----------------------------------------------------------------------------
(* Draining. *)

\* Only a driver starts a session.
LEMMA SessionsShrink ==
    ASSUME IInv, NEW p \in Proc, Start(p) \/ Crash(p) \/ Work(p)
    PROVE  sessions' \subseteq sessions \/ StartSession(p)
  <1> USE DEF NoEffect, Append
  <1>1. CASE Start(p) \/ Crash(p) \/ Acquiring(p) \/ Recovering(p)
    BY <1>1
    DEF Start, Crash, Acquiring, Acquire, CreateLease, Reclaim, Regrant,
        Recovering, LoadRunInput, Collect, ReturnWaitingHuman, Cleanup,
        CleanPlans, RemoveStaleLease, QuarantineOrphanLease, TerminalCleanup,
        TerminalSidecars, TerminalPlans
  <1>2. CASE Driving(p)
    BY <1>2
    DEF Driving, Watch, OpenInterval, SweepSessions, CloseInterval, FinishRun,
        PauseRun, Refused, ObserveControl, Replan, DriverPrepare,
        PublishSnapshot, Release
  <1>3. CASE Acknowledging(p) \/ Preparing(p)
    BY <1>3
    DEF Acknowledging, AckBegin, AckReceipt, AckSweep, AckSweepFails,
        AckFailed, AckStop, AckMove, Preparing, LoadProposal,
        ApproverPrepare, PublishSnapshot, PublishPlan, AppendPrepared
  <1>4. CASE Committing(p)
    BY <1>4
    DEF Committing, Commit, ApproveUnfenced, FenceSweep, FenceKill,
        FenceCommit, FenceApprove, RemovePlan, RemoveSidecar,
        RemoveFencedLease, AutoContinue
  <1>5. CASE Cancelling(p)
    BY <1>5
    DEF Cancelling, RequestCancellation, CancelRetry, CancelDeadline,
        CancelTerminate, CancelLoad, CancelSweep, CancelEnter,
        CancelSnapshot, CancelPlan, CancelSidecar, CancelAbandon,
        CancelStop, CancelRun, CancelLease
  <1> QED
    BY <1>1, <1>2, <1>3, <1>4, <1>5 DEF Work

\* Approvals that do not fence: nobody has the authority's lease any more.
Unguarded ==
    \/ lease = None
    \/ sidecar[jr.prep.id] # None /\ LeaseMatchesPrepare(sidecar[jr.prep.id], jr)

\* What a step may do to a pending prepare, and to what it froze.
LEMMA PrepareMoves ==
    ASSUME IInv, IInv', NEW p \in Proc, Start(p) \/ Crash(p) \/ Work(p)
    PROVE  \/ /\ jr'.prep = jr.prep
              /\ jr.prep # None => /\ jr'.recorded = jr.recorded
                                   /\ jr'.open => jr.open
                                   /\ ~StartSession(p)
           \/ jr.prep = None /\ AppendPrepared(p)
           \/ /\ jr.prep # None /\ jr'.prep = None /\ ~StartSession(p)
              /\ \/ jr.cancel
                 \/ jr'.epoch # jr.epoch
                 \/ Unguarded
  <1> USE DEF NoEffect, Append
  <1>0. jr \in JournalType
    BY DEF IInv, TypeOK
  <1>1. CASE jr' = jr
    <2>1. ASSUME StartSession(p)
          PROVE  FALSE
      BY <1>0, <1>1, <2>1 DEF StartSession, RecordSession, JournalType
    <2> QED
      BY <1>1, <2>1
  <1>2. CASE Acquiring(p) /\ jr' # jr
    <2>1. jr' = Grant(jr, p)
      BY <1>2 DEF Acquiring, Acquire, CreateLease, Reclaim, Regrant
    <2>2. ~StartSession(p)
      BY <1>2 DEF Acquiring, Acquire, CreateLease, Reclaim, Regrant,
                  StartSession, Drive
    <2> QED
      BY <1>0, <2>1, <2>2 DEF Grant, JournalType
  <1>3. CASE Driving(p)
    <2>1. CASE StartSession(p)
      BY <1>0, <2>1
      DEF StartSession, CanRecordSession, BarrierUp, RecordSession, JournalType
    <2>2. CASE OpenInterval(p)
      BY <1>0, <2>2
      DEF OpenInterval, CanOpen, BarrierUp, Open, JournalType, StartSession
    <2>3. CASE ~StartSession(p) /\ (jr' = Stop(jr) \/ jr' = Finish(jr))
      BY <1>0, <2>3 DEF Stop, Finish, JournalType
    <2> QED
      BY <1>1, <1>3, <2>1, <2>2, <2>3
      DEF Driving, Watch, SweepSessions, CloseInterval, FinishRun, PauseRun,
          Refused, ObserveControl, Replan, DriverPrepare, PublishSnapshot,
          Release
  <1>4. CASE (Acknowledging(p) \/ Preparing(p)) /\ jr' # jr
    <2>1. CASE AppendPrepared(p)
      BY <2>1 DEF AppendPrepared, IInv, RegionInv, Region, CanPrepare, BarrierUp
    <2>2. CASE jr' = Stop(jr) /\ ~StartSession(p)
      BY <1>0, <2>2 DEF Stop, JournalType
    <2> QED
      BY <1>4, <2>1, <2>2
      DEF Acknowledging, AckBegin, AckReceipt, AckSweep, AckSweepFails,
          AckFailed, AckStop, AckMove, Preparing, LoadProposal,
          ApproverPrepare, PublishSnapshot, PublishPlan, StartSession, Drive
  <1>5. CASE Committing(p) /\ jr' # jr
    <2>0. ~StartSession(p)
      BY <1>5
      DEF StartSession, Drive, Committing, Commit, FenceSweep, FenceKill,
          FenceCommit, FenceApprove, RemovePlan, RemoveSidecar,
          RemoveFencedLease, AutoContinue
    <2>1. CASE Unguarded /\ jr.prep # None /\ jr' = Approve(jr, FALSE)
      BY <1>0, <2>0, <2>1, ApproveFields
    <2>2. CASE FenceApprove(p)
      <3>1. jr.prep # None
        BY <2>2 DEF FenceApprove, IInv, RegionInv, Region
      <3>2. jr'.epoch = jr.epoch + 1 /\ jr'.prep = None /\ jr.epoch \in Nat
        BY <1>0, <2>2, <3>1, ApproveFields DEF FenceApprove, JournalType
      <3>3. jr'.epoch # jr.epoch
        BY <3>2
      <3> QED
        BY <2>0, <3>1, <3>2, <3>3
    <2>3. CASE jr' = Stop(jr)
      BY <1>0, <2>0, <2>3 DEF Stop, JournalType
    <2>4. CASE Commit(p)
      <3>1. jr.prep # None /\ ApproveUnfenced(p) /\ Unguarded
        BY <1>5, <2>4 DEF Commit, Unguarded
      <3> QED
        BY <2>1, <3>1 DEF ApproveUnfenced
    <2>5. CASE FenceCommit(p)
      BY <1>5, <2>1, <2>3, <2>5 DEF FenceCommit, Unguarded
    <2> QED
      BY <1>5, <2>2, <2>4, <2>5
      DEF Committing, FenceSweep, FenceKill, RemovePlan, RemoveSidecar,
          RemoveFencedLease, AutoContinue
  <1>6. CASE Cancelling(p) /\ jr' # jr
    <2>0. ~StartSession(p)
      BY <1>6
      DEF StartSession, Drive, Cancelling, RequestCancellation, CancelRetry,
          CancelDeadline, CancelTerminate, CancelLoad, CancelSweep,
          CancelEnter, CancelSnapshot, CancelPlan, CancelSidecar,
          CancelAbandon, CancelStop, CancelRun, CancelLease
    <2>1. CASE CancelAbandon(p)
      <3>1. jr.prep # None /\ jr.cancel
        BY <2>1 DEF CancelAbandon, IInv, RegionInv, Region
      <3>2. jr'.prep = None
        BY <1>0, <2>1, SettleFields DEF CancelAbandon
      <3> QED
        BY <2>0, <3>1, <3>2
    <2>2. CASE \/ jr' = Stop(jr) \/ jr' = RequestCancel(jr)
               \/ \E b \in BOOLEAN : jr' = Cancel(jr, b)
      BY <1>0, <2>0, <2>2 DEF Stop, RequestCancel, Cancel, JournalType
    <2> QED
      BY <1>6, <2>1, <2>2
      DEF Cancelling, RequestCancellation, CancelRetry, CancelDeadline,
          CancelTerminate, CancelLoad, CancelSweep, CancelEnter,
          CancelSnapshot, CancelPlan, CancelSidecar, CancelStop, CancelRun,
          CancelLease
  <1>7. CASE Start(p) \/ Crash(p) \/ Recovering(p)
    BY <1>7, <1>1
    DEF Start, Crash, Recovering, LoadRunInput, Collect, ReturnWaitingHuman,
        Cleanup, CleanPlans, RemoveStaleLease, QuarantineOrphanLease,
        TerminalCleanup, TerminalSidecars, TerminalPlans
  <1> QED
    BY <1>1, <1>2, <1>3, <1>4, <1>5, <1>6, <1>7 DEF Work

\* The steps that lead into an acknowledgement or a fence, or on in it.
LEMMA DrainArrives ==
    ASSUME IInv, NEW p \in Proc, Start(p) \/ Crash(p) \/ Work(p),
           pc'[p] \in Draining \cup Fences
    PROVE  \/ AckBegin(p) \/ AckReceipt(p) \/ AckSweep(p) \/ AckStop(p)
           \/ Commit(p) \/ FenceSweep(p) \/ FenceKill(p) \/ FenceCommit(p)
  <1> USE DEF Draining, Fences
  <1>1. ~Start(p) /\ ~Crash(p)
    <2>1. Start(p) \/ Crash(p) => pc'[p] \in {"dead", "acquire", "load1", "aload", "creq"}
      BY DEF Start, Crash, Goto, Step, IInv, TypeOK, Proc
    <2> QED
      BY <2>1
  <1>2. ~Acquiring(p)
    <2>1. Acquiring(p) =>
            pc'[p] \in {"dead", "release", "lease", "regrant", "watch", "load1"}
      BY Arrives DEF Acquiring, Acquire, CreateLease, Reclaim, Regrant
    <2> QED
      BY <2>1
  <1>3. ~Recovering(p)
    <2>1. Recovering(p) =>
            pc'[p] \in {"load1", "load2", "dead", "release", "cleanup", "refused",
                        "cleanplan", "tside", "tplan", Plan(p)}
      BY Arrives
      DEF Recovering, LoadRunInput, Collect, ReturnWaitingHuman, Cleanup,
          CleanPlans, RemoveStaleLease, QuarantineOrphanLease,
          TerminalCleanup, TerminalSidecars, TerminalPlans
    <2>2. Plan(p) \in {"tclean", "stale", "orphan", "refuse", "xload", "commit",
                       "halt", "drive", "load1", "acquire", "reclaim"}
      BY DEF Plan
    <2> QED
      BY <2>1, <2>2
  <1>4. ~Driving(p)
    <2>1. Driving(p) =>
            pc'[p] \in {"dead", "release", "xload", "drive", "ack1", "load1", "pplan"}
      BY Arrives
      DEF Driving, Watch, OpenInterval, StartSession, SweepSessions, Drive,
          CloseInterval, FinishRun, PauseRun, Refused, ObserveControl, Replan,
          DriverPrepare, PublishSnapshot, Release
    <2> QED
      BY <2>1
  <1>5. CASE Acknowledging(p) \/ Preparing(p)
    <2>1. \/ AckBegin(p) \/ AckReceipt(p) \/ AckSweep(p) \/ AckStop(p)
          \/ pc'[p] \in {"dead", "release", "xload", "commit", "load1", "aprep",
                         "pplan", "pappend", "ack1"}
      BY <1>5, Arrives
      DEF Acknowledging, AckSweepFails, AckFailed, AckMove, Preparing,
          LoadProposal, ApproverPrepare, PublishSnapshot, PublishPlan,
          AppendPrepared
    <2> QED
      BY <2>1
  <1>6. CASE Committing(p)
    <2>1. \/ Commit(p) \/ FenceSweep(p) \/ FenceKill(p) \/ FenceCommit(p)
          \/ pc'[p] \in {"rmplan", "rmside", "rmlease", "dead", "autoload",
                         "load1", "xload", "acquire"}
      BY <1>6, Arrives
      DEF Committing, FenceApprove, RemovePlan, RemoveSidecar,
          RemoveFencedLease, AutoContinue, CommittedLabel
    <2> QED
      BY <1>6, <2>1
  <1>7. ~Cancelling(p)
    <2>1. Cancelling(p) =>
            pc'[p] \in {"dead", "release", "load1", "ckill", "xsweep", "xlock",
                        "xsnap", "xplan", "xside", "xabandon", "xstop", "xcancel",
                        "xlease"}
      <3>1. CASE CancelTerminate(p)
        BY <3>1, Arrives DEF CancelTerminate, IInv, TypeOK
      <3>2. CASE ~CancelTerminate(p)
        BY <3>2, Arrives
        DEF Cancelling, RequestCancellation, CancelRetry, CancelDeadline,
            CancelLoad, CancelSweep, CancelEnter, CancelSnapshot, CancelPlan,
            CancelSidecar, CancelAbandon, CancelStop, CancelRun, CancelLease,
            CancelledLabels
      <3> QED
        BY <3>1, <3>2
    <2> QED
      BY <2>1
  <1> QED
    BY <1>1, <1>2, <1>3, <1>4, <1>5, <1>6, <1>7 DEF Work

\* What a session's start adds, the journal names.
LEMMA StepSessions ==
    ASSUME IInv, SessionInv, IInv', NEW p \in Proc, Start(p) \/ Crash(p) \/ Work(p)
    PROVE  SessionInv'
  <1>1. CASE StartSession(p)
    BY <1>1 DEF StartSession, RecordSession, SessionInv, IInv, TypeOK, JournalType
  <1>2. CASE ~StartSession(p)
    BY <1>2, SessionsShrink, StepOnward DEF SessionInv, Onward, Continues
  <1> QED
    BY <1>1, <1>2

\* A new prepare is not one that anybody has seen.
LEMMA NewPrepare ==
    ASSUME IInv, NEW p \in Proc, AppendPrepared(p)
    PROVE  /\ jr'.prep # None /\ jr'.prep.id = p /\ ~Prepared(p)
           /\ jr'.recorded = jr.recorded
  <1>1. jr' = Prepare(jr, p) /\ jr \in JournalType
    BY DEF AppendPrepared, Append, IInv, TypeOK
  <1>2. jr'.prep = [id |-> p, epoch |-> jr.epoch, base |-> jr.head]
    BY <1>1, PrepareFields
  <1>3. jr'.prep \in Prepares
    BY <1>1, <1>2 DEF JournalType, Prepares
  <1>4. ~Prepared(p)
    BY DEF AppendPrepared, IInv, UnpreparedInv, Unprepared
  <1>5. jr'.recorded = jr.recorded
    BY <1>1, PrepareFields DEF Agree
  <1> QED
    BY <1>2, <1>3, <1>4, <1>5, NoneIsNothing

\* An acknowledgement keeps what it relies on while others step.
LEMMA OthersDrain ==
    ASSUME IInv, AckInv, SeenInv, IInv', NEW p \in Proc,
           Start(p) \/ Crash(p) \/ Work(p), NEW q \in Proc \ {p}
    PROVE  Drains(q, pc[q])'
  <1>1. CASE pc'[q] = "dead"
    BY <1>1 DEF Drains, Draining
  <1>2. CASE pc'[q] = pc[q] /\ me'[q] = me[q] /\ pc[q] \in Draining
    <2> DEFINE s == me[q].seen
    <2>1. Drains(q, pc[q])
      BY DEF AckInv
    <2>2. s.prep # None /\ <<s.prep.base + 1, s.prep.id>> \in s.refs /\ s.refs \subseteq jr.refs
      BY <1>2, <2>1 DEF Drains, SeenInv, Continues
    <2>3. Prepared(s.prep.id)
      BY <2>2 DEF Prepared
    <2>4. SUFFICES ASSUME jr'.prep # None, jr'.prep.id = s.prep.id
                   PROVE  /\ jr'.recorded = s.recorded
                          /\ jr'.open => s.open
                          /\ pc[q] \in {"ack4", "ack5", "ack6"} => sessions' = {}
                          /\ pc[q] = "ack6" => ~jr'.open
      BY <1>2, <2>2 DEF Drains
    <2>5. jr'.prep = jr.prep
      BY <2>3, <2>4, PrepareMoves, NewPrepare
    <2>6. /\ jr'.recorded = jr.recorded
          /\ jr'.open => jr.open
          /\ sessions' \subseteq sessions
      BY <2>4, <2>5, PrepareMoves, SessionsShrink, NewPrepare
    <2> QED
      BY <1>2, <2>1, <2>4, <2>5, <2>6 DEF Drains
  <1>3. CASE pc'[q] \notin Draining
    BY <1>3 DEF Drains
  <1> QED
    BY <1>1, <1>2, <1>3, OthersStay

\* An acknowledgement reads the journal when it begins; sweeping what that
\* journal names ends every session, and stopping its interval the last one.
LEMMA OwnDrain ==
    ASSUME IInv, AckInv, SeenInv, SessionInv, RefInv, IInv', NEW p \in Proc,
           Start(p) \/ Crash(p) \/ Work(p)
    PROVE  Drains(p, pc[p])'
  <1> USE DEF NoEffect, Append
  <1>1. CASE pc'[p] \notin Draining
    BY <1>1 DEF Drains
  <1>0. Drains(p, pc[p])
    BY DEF AckInv
  <1>2. CASE AckBegin(p) /\ pc'[p] \in Draining
    <2>1. AckFailed(p) => pc'[p] \in {"dead", "release", "xload"}
      BY Arrives DEF AckFailed
    <2>2. StillPending(p) /\ Read(p, "ack2") /\ NoEffect
      BY <1>2, <2>1 DEF AckBegin, Draining
    <2>3. me'[p].seen = jr /\ pc'[p] = "ack2"
      <3> DEFINE m == [me[p] EXCEPT !.seen = jr]
      <3>1. Step(p, "ack2", m)
        BY <2>2 DEF Read
      <3>2. m \in Memory /\ m.seen = jr
        BY Memories, MemoryFields
      <3> HIDE DEF m
      <3> QED
        BY <3>1, <3>2, StepFields DEF Reading, IInv
    <2> QED
      BY <2>2, <2>3 DEF StillPending, Drains, RefInv
  <1>3. ASSUME NEW l \in Draining, Goto(p, l)
        PROVE  pc'[p] = l /\ me'[p].seen = me[p].seen
    <2>1. me[p] \in Memory /\ l \in Reading
      BY <1>3 DEF IInv, TypeOK, Draining, Reading
    <2> QED
      BY <1>3, <2>1, StepFields DEF Goto, IInv
  <1>4. CASE (AckReceipt(p) \/ AckSweep(p) \/ AckStop(p)) /\ pc'[p] \in Draining
    <2>1. AckFailed(p) => pc'[p] \in {"dead", "release", "xload"}
      BY Arrives DEF AckFailed
    <2>2. pc[p] \in Draining
      BY <1>4 DEF AckReceipt, AckSweep, AckStop, Draining
    <2>3. CASE AckReceipt(p)
      <3>1. /\ jr' = jr /\ sessions' = sessions
            /\ \/ pc[p] = "ack2" /\ Goto(p, "ack3")
               \/ pc[p] = "ack4" /\ Goto(p, "ack5")
        BY <1>4, <2>1, <2>3 DEF AckReceipt, Draining
      <3>2. /\ me'[p].seen = me[p].seen
            /\ \/ pc[p] = "ack2" /\ pc'[p] = "ack3"
               \/ pc[p] = "ack4" /\ pc'[p] = "ack5"
        BY <1>3, <3>1 DEF Draining
      <3> QED
        BY <1>0, <2>2, <3>1, <3>2 DEF Drains
    <2>4. CASE AckSweep(p)
      <3>1. /\ jr' = jr /\ sessions' = sessions \ me[p].seen.recorded
            /\ pc[p] = "ack3" /\ pc'[p] = "ack4" /\ me'[p].seen = me[p].seen
        BY <1>3, <2>4 DEF AckSweep, Draining
      <3> QED
        BY <1>0, <2>2, <3>1 DEF Drains, SessionInv
    <2>5. CASE AckStop(p)
      <3>1. /\ pc[p] = "ack5" /\ pc'[p] = "ack6" /\ me'[p].seen = me[p].seen
            /\ sessions' = sessions
            /\ \/ jr' = jr /\ ~me[p].seen.open
               \/ jr' = Stop(jr)
        BY <1>3, <1>4, <2>1, <2>5 DEF AckStop, Draining
      <3>2. /\ jr'.prep = jr.prep /\ jr'.recorded = jr.recorded
            /\ \/ ~jr'.open
               \/ jr' = jr /\ ~me[p].seen.open
        <4>1. CASE jr' = jr /\ ~me[p].seen.open
          BY <4>1
        <4>2. CASE jr' = Stop(jr)
          <5>1. Agree(jr, jr', {"open"}) /\ jr'.open = FALSE
            BY <4>2, IntervalFields DEF IInv, TypeOK
          <5> QED
            BY <5>1 DEF Agree
        <4> QED
          BY <3>1, <4>1, <4>2
      <3> QED
        BY <1>0, <2>2, <3>1, <3>2 DEF Drains
    <2> QED
      BY <1>4, <2>3, <2>4, <2>5
  <1>5. CASE Commit(p) \/ FenceSweep(p) \/ FenceKill(p) \/ FenceCommit(p)
    <2>1. pc'[p] \in {"dead", "release", "xload", "fsweep", "rmplan", "fkill",
                      "fcommit", "fapprove"}
      <3>1. CASE FenceKill(p)
        BY <3>1, Arrives DEF FenceKill, IInv, TypeOK
      <3>2. CASE ~FenceKill(p)
        BY <1>5, <3>2, Arrives
        DEF Commit, ApproveUnfenced, FenceSweep, FenceCommit
      <3> QED
        BY <3>1, <3>2
    <2> QED
      BY <1>1, <2>1 DEF Draining
  <1> QED
    BY <1>1, <1>2, <1>4, <1>5, DrainArrives

\* CompareMoveLease publishes the sidecar of a prepare whose driver drained.
LEMMA StepQuiesced ==
    ASSUME IInv, AckInv, SideInv, QuiescedIsQuiet, IInv', NEW p \in Proc,
           Start(p) \/ Crash(p) \/ Work(p)
    PROVE  QuiescedIsQuiet'
  <1> SUFFICES ASSUME jr'.prep # None, sidecar'[jr'.prep.id] # None
               PROVE  sessions' = {} /\ ~jr'.open
    BY DEF QuiescedIsQuiet
  <1>1. CASE AckMove(p) /\ ~AckFailed(p)
    <2>1. /\ pc[p] = "ack6" /\ StillPending(p) /\ jr' = jr /\ sessions' = sessions
      BY <1>1 DEF AckMove
    <2>2. Drains(p, "ack6")
      BY <2>1 DEF AckInv
    <2> QED
      BY <2>1, <2>2 DEF Drains, Draining, StillPending
  <1>2. CASE ~AckMove(p) \/ AckFailed(p)
    <2>1. \A q \in Proc : sidecar'[q] \in {sidecar[q], None}
      <3>1. CASE AckFailed(p)
        BY <3>1 DEF AckFailed, NoEffect, files
      <3>2. CASE CreateLease(p)
        BY <3>2 DEF CreateLease
      <3> QED
        BY <1>2, <3>1, <3>2, StepFiles
    <2>2. jr'.prep.id \in Proc
      BY DEF IInv, TypeOK, JournalType, Prepares
    <2>3. sidecar[jr'.prep.id] # None
      BY <2>1, <2>2
    <2>4. jr'.prep = jr.prep
      <3>1. ~AppendPrepared(p)
        BY <2>2, <2>3, NewPrepare DEF SideInv
      <3> QED
        BY <3>1, PrepareMoves
    <2>5. /\ jr'.open => jr.open
          /\ sessions' \subseteq sessions
      BY <2>4, PrepareMoves, SessionsShrink, NewPrepare
    <2> QED
      BY <2>3, <2>4, <2>5 DEF QuiescedIsQuiet
  <1> QED
    BY <1>1, <1>2

\* A process that has ended takes no step.
LEMMA DeadStays ==
    ASSUME IInv, NEW p \in Proc, Start(p) \/ Crash(p) \/ Work(p),
           NEW q \in Proc, pc[q] = "dead"
    PROVE  pc'[q] = "dead"
  <1>1. CASE q = p
    <2>1. ~Start(p) /\ ~Crash(p)
      BY <1>1 DEF Start, Crash, Live
    <2>2. ~Acquiring(p) /\ ~Recovering(p)
      BY <1>1
      DEF Acquiring, Acquire, CreateLease, Reclaim, Regrant,
          Recovering, LoadRunInput, Collect, ReturnWaitingHuman, Cleanup,
          CleanPlans, RemoveStaleLease, QuarantineOrphanLease,
          TerminalCleanup, TerminalSidecars, TerminalPlans
    <2>3. ~Driving(p)
      BY <1>1
      DEF Driving, Watch, OpenInterval, StartSession, SweepSessions, Drive,
          CloseInterval, FinishRun, PauseRun, Refused, ObserveControl, Replan,
          DriverPrepare, Release
    <2>4. ~Acknowledging(p) /\ ~Preparing(p)
      BY <1>1
      DEF Acknowledging, AckBegin, AckReceipt, AckSweep, AckSweepFails,
          AckStop, AckMove, Preparing, LoadProposal, ApproverPrepare,
          PublishPlan, AppendPrepared
    <2>5. ~Committing(p) /\ ~Cancelling(p)
      BY <1>1
      DEF Committing, Commit, FenceSweep, FenceKill, FenceCommit,
          FenceApprove, RemovePlan, RemoveSidecar, RemoveFencedLease,
          AutoContinue, Cancelling, RequestCancellation, CancelRetry,
          CancelDeadline, CancelTerminate, CancelLoad, CancelSweep,
          CancelEnter, CancelSnapshot, CancelPlan, CancelSidecar,
          CancelAbandon, CancelStop, CancelRun, CancelLease
    <2> QED
      BY <2>1, <2>2, <2>3, <2>4, <2>5 DEF Work
  <1>2. CASE q # p
    BY <1>2, OthersStay
  <1> QED
    BY <1>1, <1>2

\* An epoch that waits for its lease is one that nobody remembers.
LEMMA FencingStays ==
    ASSUME IInv, AuthInv, IInv', NEW p \in Proc, Start(p) \/ Crash(p) \/ Work(p),
           NEW q \in Proc, me[q].want # None, me'[q].want = me[q].want,
           Fencing(q)'
    PROVE  Fencing(q) /\ jr'.epoch = jr.epoch /\ lease' = lease
  <1> DEFINE w == me[q].want
  <1>1. /\ w.epoch <= jr.epoch
        /\ w.epoch = jr.epoch => \A r \in Proc : pc[r] # "lease"
    BY DEF AuthInv, WantInv, Granted
  <1>2. lease' = w /\ jr'.epoch = w.epoch /\ ~jr'.cancel
    BY DEF Fencing
  <1>3. jr.epoch \in Nat /\ jr'.epoch \in Nat /\ w.epoch \in Nat
    BY DEF IInv, TypeOK, JournalType, Memory, Leases
  <1>4. Continues(jr, jr')
    BY StepOnward DEF Onward
  <1>5. jr.epoch = w.epoch
    BY <1>1, <1>2, <1>3, <1>4 DEF Continues
  <1>6. ~CreateLease(p)
    BY <1>1, <1>5 DEF CreateLease
  <1>7. lease' = lease
    <2>1. CASE AckMove(p)
      BY <1>2, <2>1 DEF AckMove, AckFailed, NoEffect, files
    <2>2. CASE ~AckMove(p)
      BY <1>2, <1>6, <2>2, StepFiles
    <2> QED
      BY <2>1, <2>2
  <1> QED
    BY <1>2, <1>4, <1>5, <1>7 DEF Fencing, Continues

\* While the lease of a fence stays, nothing settles the prepare.
LEMMA FencingKeeps ==
    ASSUME IInv, AuthInv, IInv', NEW p \in Proc, Start(p) \/ Crash(p) \/ Work(p),
           NEW q \in Proc, me[q].want # None, Fencing(q), jr'.epoch = jr.epoch,
           jr.prep # None
    PROVE  /\ jr'.prep # None /\ jr'.recorded = jr.recorded
           /\ sessions' \subseteq sessions
  <1>1. ~Unguarded
    <2>1. jr.prep.id \in Proc
      BY DEF IInv, TypeOK, JournalType, Prepares
    <2>2. lease # None /\ lease.epoch = jr.epoch
      BY DEF Fencing
    <2> QED
      BY <2>1, <2>2
      DEF Unguarded, LeaseMatchesPrepare, AuthInv, OneLeasePerEpoch
  <1>2. ~jr.cancel
    BY DEF Fencing
  <1> QED
    BY <1>1, <1>2, PrepareMoves, SessionsShrink

\* A fence keeps what it relies on while others step.
LEMMA OthersFence ==
    ASSUME IInv, AuthInv, FenceInv, IInv', NEW p \in Proc,
           Start(p) \/ Crash(p) \/ Work(p), NEW q \in Proc \ {p}
    PROVE  FenceHolds(q, pc[q])'
  <1>1. CASE pc'[q] \notin Fences
    BY <1>1 DEF FenceHolds, Fences
  <1>2. CASE pc'[q] = pc[q] /\ me'[q] = me[q] /\ pc[q] \in Fences
    <2>1. FenceHolds(q, pc[q])
      BY DEF FenceInv
    <2>2. me[q].want # None
      BY <1>2, <2>1 DEF FenceHolds
    <2>3. ASSUME Fencing(q)', pc[q] \in {"fsweep", "fkill", "fcommit"}
          PROVE  /\ jr'.prep # None
                 /\ pc[q] = "fsweep" => jr'.recorded = me[q].seen.recorded
                 /\ pc[q] \in {"fkill", "fcommit"} => sessions' = {}
      <3>1. Fencing(q) /\ jr'.epoch = jr.epoch
        BY <1>2, <2>2, <2>3, FencingStays
      <3>2. /\ jr.prep # None
            /\ pc[q] = "fsweep" => jr.recorded = me[q].seen.recorded
            /\ pc[q] \in {"fkill", "fcommit"} => sessions = {}
        BY <2>1, <2>3, <3>1 DEF FenceHolds
      <3>3. /\ jr'.prep # None /\ jr'.recorded = jr.recorded
            /\ sessions' \subseteq sessions
        BY <2>2, <3>1, <3>2, FencingKeeps
      <3> QED
        BY <3>2, <3>3
    <2>4. pc[q] \in {"fcommit", "fapprove"} => ~Live(me[q].want.owner)'
      <3> DEFINE o == me[q].want.owner
      <3>1. SUFFICES ASSUME pc[q] \in {"fcommit", "fapprove"}
                     PROVE  pc'[o] \in {"idle", "dead"}
        BY <1>2 DEF Live
      <3>2. pc[o] = "dead" /\ o \in Proc
        BY <2>1, <2>2, <3>1
        DEF FenceHolds, Live, AuthInv, WantInv, IInv, TypeOK, Memory, Leases
      <3> QED
        BY <3>2, DeadStays
    <2>5. pc[q] = "fapprove" => sessions' = {} /\ ~jr'.open
      <3> SUFFICES ASSUME pc[q] = "fapprove"
                   PROVE  sessions' = {} /\ ~jr'.open
        OBVIOUS
      <3>1. jr' = jr
        <4>1. pc'[q] = pc[q] /\ pc[q] \in Held
          BY <1>2 DEF Held
        <4> QED
          BY <4>1, OthersWait
      <3>2. ~StartSession(p)
        BY <3>1 DEF StartSession, RecordSession, IInv, TypeOK, JournalType
      <3> QED
        BY <2>1, <3>1, <3>2, SessionsShrink DEF FenceHolds
    <2> QED
      BY <1>2, <2>2, <2>3, <2>4, <2>5 DEF FenceHolds
  <1> QED
    BY <1>1, <1>2, OthersStay DEF Fences

\* A fence sees the lease and the journal at once, sweeps what that journal
\* names, ends the owner, and looks again under the lock.
LEMMA OwnFence ==
    ASSUME IInv, AuthInv, FenceInv, SessionInv, IInv', NEW p \in Proc,
           Start(p) \/ Crash(p) \/ Work(p)
    PROVE  FenceHolds(p, pc[p])'
  <1> USE DEF NoEffect, Append, files
  <1>1. CASE pc'[p] \notin Fences
    BY <1>1 DEF FenceHolds, Fences
  <1>0. FenceHolds(p, pc[p])
    BY DEF FenceInv
  <1>2. me[p] \in Memory
    BY DEF IInv, TypeOK
  <1>3. CASE Commit(p) /\ pc'[p] \in Fences
    <2> DEFINE m == [me[p] EXCEPT !.seen = jr, !.want = lease]
    <2>1. Step(p, "fsweep", m) /\ NoEffect /\ jr.prep # None /\ lease # None
      BY <1>3, Arrives DEF Commit, ApproveUnfenced, Fences
    <2>2. m \in Memory /\ m.seen = jr /\ m.want = lease
      BY Memories, MemoryFields
    <2> HIDE DEF m
    <2>3. pc'[p] = "fsweep" /\ me'[p].seen = jr /\ me'[p].want = lease
      BY <2>1, <2>2, StepFields DEF Reading, Expecting, IInv
    <2> QED
      BY <2>1, <2>3 DEF FenceHolds
  <1>4. CASE FenceSweep(p)
    <2>1. pc[p] = "fsweep" /\ pc'[p] = "fkill" /\ me'[p].want = me[p].want
      BY <1>2, <1>4, StepFields DEF FenceSweep, Goto, Expecting, IInv
    <2>2. /\ jr' = jr /\ lease' = lease
          /\ sessions' = sessions \ me[p].seen.recorded
      BY <1>4 DEF FenceSweep
    <2>3. Fencing(p)' => Fencing(p)
      BY <2>1, <2>2 DEF Fencing
    <2>4. ASSUME Fencing(p) PROVE jr.prep # None /\ sessions' = {}
      BY <1>0, <2>1, <2>2, <2>4 DEF FenceHolds, SessionInv
    <2> QED
      BY <1>0, <2>1, <2>2, <2>3, <2>4 DEF FenceHolds, Fences
  <1>5. CASE FenceKill(p) /\ pc'[p] \in Fences
    <2> DEFINE q == me[p].want.owner
    <2>1. pc[p] = "fkill" /\ jr' = jr /\ lease' = lease /\ sessions' = sessions
      BY <1>5 DEF FenceKill
    <2>2. me[p].want # None /\ q \in Proc
      BY <1>0, <1>2, <2>1 DEF FenceHolds, Fences, Memory, Leases
    <2>3. pc'[p] = "fcommit" /\ me'[p].want = me[p].want /\ pc'[q] \in {"idle", "dead"}
      <3>1. CASE ~Live(q) /\ Goto(p, "fcommit")
        <4>1. q # p
          BY <2>1, <3>1 DEF Live
        <4> QED
          BY <1>2, <2>2, <3>1, <4>1, StepFields DEF Goto, Expecting, IInv, Live
      <3>2. CASE /\ pc' = [pc EXCEPT ![p] = "fcommit", ![q] = "dead"]
                 /\ me' = [me EXCEPT ![p] = Kept("fcommit", @), ![q] = Fresh]
        <4>1. pc'[q] = "dead"
          BY <2>2, <3>2 DEF IInv, TypeOK
        <4>2. q # p
          BY <1>5, <4>1 DEF Fences
        <4>3. pc'[p] = "fcommit" /\ me'[p] = Kept("fcommit", me[p])
          BY <2>2, <3>2, <4>2 DEF IInv, TypeOK
        <4> QED
          BY <1>2, <4>1, <4>3, KeptFields DEF Expecting
      <3> QED
        BY <1>5, <3>1, <3>2, Arrives DEF FenceKill, Fences
    <2>4. Fencing(p)' => Fencing(p)
      BY <2>1, <2>3 DEF Fencing
    <2>5. ~Live(me[p].want.owner)'
      BY <2>3 DEF Live
    <2> QED
      BY <1>0, <2>1, <2>2, <2>3, <2>4, <2>5 DEF FenceHolds, Fences
  <1>6. CASE FenceCommit(p) /\ pc'[p] \in Fences
    <2>1. /\ pc[p] = "fcommit" /\ Goto(p, "fapprove") /\ sessions' = sessions
          /\ ~jr.cancel /\ lease = me[p].want /\ LeaseMatchesPrepare(lease, jr)
          /\ jr' = IF jr.open THEN Stop(jr) ELSE jr
      BY <1>6, Arrives DEF FenceCommit, Fences
    <2>2. /\ me[p].want # None /\ ~Live(me[p].want.owner)
      BY <1>0, <2>1 DEF FenceHolds, Fences
    <2>3. sessions' = {}
      <3>1. Fencing(p)
        BY <2>1 DEF Fencing, LeaseMatchesPrepare
      <3> QED
        BY <1>0, <2>1, <3>1 DEF FenceHolds
    <2>4. ~jr'.open
      BY <2>1, IntervalFields DEF IInv, TypeOK
    <2>5. pc'[p] = "fapprove" /\ me'[p].want = me[p].want
      BY <1>2, <2>1, StepFields DEF Goto, Expecting, IInv
    <2>6. ~Live(me[p].want.owner)'
      <3> DEFINE q == me[p].want.owner
      <3>1. q \in Proc /\ q # p
        BY <1>2, <2>1, <2>2 DEF Memory, Leases, Live
      <3>2. pc'[q] = pc[q]
        BY <1>2, <2>1, <3>1, StepFields DEF Goto, IInv
      <3> QED
        BY <2>2, <2>5, <3>2 DEF Live
    <2> QED
      BY <2>2, <2>3, <2>4, <2>5, <2>6 DEF FenceHolds
  <1>7. CASE AckBegin(p) \/ AckReceipt(p) \/ AckSweep(p) \/ AckStop(p)
    <2>1. pc'[p] \in {"dead", "release", "xload"} \cup Draining
      BY <1>7, Arrives
      DEF AckBegin, AckReceipt, AckSweep, AckStop, AckFailed, Draining
    <2> QED
      BY <1>1, <2>1 DEF Fences, Draining
  <1> QED
    BY <1>1, <1>3, <1>4, <1>5, <1>6, <1>7, DrainArrives

LEMMA StepDrain ==
    ASSUME IInv, AuthInv, SeenInv, RefInv, DrainInv, IInv', NEW p \in Proc,
           Start(p) \/ Crash(p) \/ Work(p)
    PROVE  DrainInv'
  <1>1. AckInv'
    BY OwnDrain, OthersDrain DEF AckInv, DrainInv
  <1>2. FenceInv'
    BY OwnFence, OthersFence DEF FenceInv, DrainInv
  <1> QED
    BY <1>1, <1>2, StepSessions, StepQuiesced DEF DrainInv, AuthInv

-----------------------------------------------------------------------------
(* The theorems. *)

\* A run that has just started.
LEMMA InitialSafety ==
    ASSUME Init
    PROVE  SInv
  <1>1. /\ JournalInit.prep = None /\ JournalInit.owner = None
        /\ JournalInit.head = 1 /\ JournalInit.by = Root
        /\ JournalInit.refs = {<<1, Root>>} /\ JournalInit.epoch = 0
    BY DEF JournalInit
  <1>2. /\ jr = JournalInit /\ lease = None /\ scores = {<<1, Root>>}
        /\ sessions = {}
        /\ \A p \in Proc :
             /\ pc[p] = "idle" /\ sidecar[p] = None
             /\ me[p].tenure = None /\ me[p].want = None
             /\ me[p].seen = JournalInit
    BY DEF Init, Fresh
  <1>3. AuthInv
    BY <1>2 DEF AuthInv, TenureInv, TenuresAreDistinct, SideInv,
                OneLeasePerEpoch, WantInv, OwnerInv
  <1>4. SeenInv
    BY <1>2, InitialMemory DEF SeenInv, Continues, JournalType
  <1>5. SnapInv
    BY <1>1, <1>2 DEF SnapInv, RefInv, PublishInv, Publication, HeadIsPinned,
                      PrepareIsCommittable
  <1>6. CancelInv
    BY <1>1, <1>2, NoneIsNothing DEF CancelInv, CancelLabels, Proc
  <1>7. DrainInv
    BY <1>1, <1>2 DEF DrainInv, SessionInv, AckInv, Drains, Draining,
                      QuiescedIsQuiet, FenceInv, FenceHolds, Fences
  <1> QED
    BY <1>3, <1>4, <1>5, <1>6, <1>7 DEF SInv

\* Every step of every process.
LEMMA SafetyStep ==
    ASSUME IInv, SInv, IInv', [Next]_vars
    PROVE  SInv'
  <1>1. CASE UNCHANGED vars
    <2> USE <1>1 DEF vars
    <2>1. AuthInv => AuthInv'
      BY DEF AuthInv, TenureInv, TenuresAreDistinct, SideInv, Granted,
             Prepared, OneLeasePerEpoch, WantInv, OwnerInv
    <2>2. SeenInv => SeenInv'
      BY DEF SeenInv
    <2>3. SnapInv => SnapInv'
      BY DEF SnapInv, RefInv, PublishInv, Publication, HeadIsPinned,
             PrepareIsCommittable, CommitInputsPresent, PreparePlanPresent,
             PrepareSnapshotPresent
    <2>4. CancelInv => CancelInv'
      BY DEF CancelInv, Doomed
    <2>5. DrainInv => DrainInv'
      <3>1. AckInv => AckInv'
        BY DEF AckInv, Drains
      <3>2. FenceInv => FenceInv'
        BY DEF FenceInv, FenceHolds, Fencing, Live
      <3> QED
        BY <3>1, <3>2 DEF DrainInv, SessionInv, QuiescedIsQuiet
    <2> QED
      BY <2>1, <2>2, <2>3, <2>4, <2>5 DEF SInv
  <1>2. ASSUME NEW p \in Proc, Start(p) \/ Crash(p) \/ Work(p)
        PROVE  SInv'
    BY <1>2, StepAuth, StepSeen, StepSnap, StepCancel, StepDrain DEF SInv, SnapInv
  <1> QED
    BY <1>1, <1>2 DEF Next

\* However processes race and die between two durable writes, or between a
\* lock-free read and its use, an epoch has one holder, the snapshots and plans
\* that can still be used stay, a cancel command never drives, and what an
\* acknowledgement or a fence has ended stays ended.
THEOREM SafetyIsInductive == Spec => []SInv
  <1>1. Init => SInv
    BY InitialSafety
  <1>2. IInv /\ SInv /\ IInv' /\ [Next]_vars => SInv'
    BY SafetyStep
  <1> QED
    BY <1>1, <1>2, ControlIsInductive, PTL DEF Spec

\* Two Driver objects never carry one epoch, and an epoch's one lease file is
\* driver.lease or a sidecar, never both, whatever dies between the grant, the
\* lease's publication, its move and its removal: so the compare-and-swap of
\* Driver.Mutate accepts the appends of at most one process.
THEOREM AuthorityExclusive == Spec => []AuthorityIsExclusive
  <1>1. SInv => AuthorityIsExclusive
    BY DEF SInv, AuthInv, AuthorityIsExclusive
  <1> QED
    BY <1>1, SafetyIsInductive, PTL

\* No cleanup, cancellation, refused publication or dead prepare takes the
\* snapshot file of the score head.
THEOREM HeadPinned == Spec => []HeadIsPinned
  <1>1. SInv => HeadIsPinned
    BY DEF SInv, SnapInv
  <1> QED
    BY <1>1, SafetyIsInductive, PTL

\* A prepare that can still be committed keeps its plan and its snapshot, so
\* that CompleteOrAbandonPrepare never finds its inputs gone.
THEOREM PrepareCommittable == Spec => []PrepareIsCommittable
  <1>1. SInv => PrepareIsCommittable
    BY DEF SInv, SnapInv
  <1> QED
    BY <1>1, SafetyIsInductive, PTL

\* No recovery pass of a cancel command establishes authority, although it
\* selects its steps from a journal and files read at different times.
THEOREM CancelDoesNotDrive == Spec => []CancelNeverDrives
  <1>1. SInv => CancelNeverDrives
    BY DEF SInv, CancelInv, CancelNeverDrives
  <1> QED
    BY <1>1, SafetyIsInductive, PTL

\* The sidecar of the pending prepare appears only when its driver has
\* drained, although AcknowledgePrepare sweeps what a journal read earlier
\* names, without the lock.
THEOREM QuiescedQuiet == Spec => []QuiescedIsQuiet
  <1>1. SInv => QuiescedIsQuiet
    BY DEF SInv, DrainInv
  <1> QED
    BY <1>1, SafetyIsInductive, PTL

\* When commitFencedPrepare writes its approval the superseded owner is dead,
\* its sessions are swept and its interval is closed, although the sweep and
\* the termination were made without the lock.
THEOREM FenceQuiet == Spec => []FenceIsQuiet
  <1>1. SInv => FenceIsQuiet
    BY DEF SInv, DrainInv, FenceInv, FenceHolds, Fences, FenceIsQuiet
  <1> QED
    BY <1>1, SafetyIsInductive, PTL

-----------------------------------------------------------------------------
(* Cancelled runs. *)

\* One process drives and one approves.  With two drivers a superseded one may
\* run the oracle beside its successor; with two approvals one may lift the
\* barrier on which the sweep of the other relied.
OneOfEach ==
    /\ \A p, q \in Drivers : p = q
    /\ \A p, q \in Approvers : p = q

\* Where an approval can be.
ApproveLabels ==
    {"idle", "dead", "aload", "aprep", "pplan", "pappend", "commit", "fsweep",
     "fkill", "fcommit", "fapprove", "rmplan", "rmside", "rmlease", "xload",
     "xsweep", "xlock", "xsnap", "xplan", "xside", "xabandon", "xstop",
     "xcancel", "xlease"}

\* An approval has no Driver, and whoever drives has one.
HandsInv ==
    /\ \A p \in Approvers : pc[p] \in ApproveLabels /\ me[p].tenure = None
    /\ \A p \in Proc : pc[p] \in {"watch", "drive"} => me[p].tenure # None

\* Where the process that made the pending prepare can be: it settles it, or
\* ends.
Settling ==
    {"ack1", "ack2", "ack3", "ack4", "ack5", "ack6", "commit", "fsweep",
     "fkill", "fcommit", "fapprove", "xload", "xsweep", "xlock", "xsnap",
     "xplan", "xside", "xabandon", "release", "dead"}

MakerInv ==
    jr.prep # None => /\ jr.prep.id \in Drivers \cup Approvers
                      /\ pc[jr.prep.id] \in Settling

\* q drives, or has read a journal that lets it, and has the lease.
Works(q) ==
    /\ \/ pc[q] = "drive"
       \/ pc[q] = "load2" /\ ~me[q].seen.cancel /\ me[q].seen.prep = None
    /\ lease # None
    /\ lease = me[q].tenure

\* The cancellation oracle until run.cancelled, and until it lifts the barrier.
Oracle == {"xload", "xsweep", "xlock", "xsnap", "xplan", "xside", "xabandon",
           "xstop", "xcancel"}

Barred == Oracle \ {"xstop", "xcancel"}

OwnPrepare(p) == p \in Approvers /\ jr.prep # None /\ jr.prep.id = p

\* The oracle of p starts when nobody can start a session: nobody works, or
\* the prepare that p made stops whoever does.
Clears(p, l) ==
    /\ l \in Oracle => jr.cancel
    /\ l \in Barred => OwnPrepare(p) \/ \A q \in Drivers : ~Works(q)
    /\ l = "xsweep" => jr.recorded = me[p].seen.recorded
    /\ l \in Oracle \ {"xload", "xsweep"} => sessions = {}

ClearInv == \A p \in Proc : Clears(p, pc[p])

QuietInv == HandsInv /\ MakerInv /\ ClearInv /\ CancelledIsQuiet

\* Which step appends which event.
LEMMA JournalSteps ==
    ASSUME IInv, NEW p \in Proc, Start(p) \/ Crash(p) \/ Work(p)
    PROVE  \/ jr' = jr \/ jr' = Grant(jr, p) \/ jr' = Stop(jr)
           \/ jr' = Finish(jr) \/ jr' = RequestCancel(jr)
           \/ OpenInterval(p) \/ StartSession(p) \/ AppendPrepared(p)
           \/ ~jr.cancel /\ jr.prep # None /\ \E b \in BOOLEAN : jr' = Approve(jr, b)
           \/ CancelAbandon(p) \/ CancelRun(p)
  <1> USE DEF NoEffect, Append
  <1>1. CASE Start(p) \/ Crash(p) \/ Acquiring(p) \/ Recovering(p)
    BY <1>1
    DEF Start, Crash, Acquiring, Acquire, CreateLease, Reclaim, Regrant,
        Recovering, LoadRunInput, Collect, ReturnWaitingHuman, Cleanup,
        CleanPlans, RemoveStaleLease, QuarantineOrphanLease, TerminalCleanup,
        TerminalSidecars, TerminalPlans
  <1>2. CASE Driving(p)
    BY <1>2
    DEF Driving, Watch, SweepSessions, CloseInterval, FinishRun, PauseRun,
        Refused, ObserveControl, Replan, DriverPrepare, PublishSnapshot,
        Release
  <1>3. CASE Acknowledging(p) \/ Preparing(p)
    BY <1>3
    DEF Acknowledging, AckBegin, AckReceipt, AckSweep, AckSweepFails,
        AckFailed, AckStop, AckMove, Preparing, LoadProposal,
        ApproverPrepare, PublishSnapshot, PublishPlan
  <1>4. CASE Committing(p)
    <2>1. CASE Commit(p)
      BY <2>1 DEF Commit, ApproveUnfenced
    <2>2. CASE FenceCommit(p)
      BY <2>2 DEF FenceCommit
    <2>3. CASE FenceApprove(p)
      BY <2>3 DEF FenceApprove, IInv, RegionInv, Region
    <2> QED
      BY <1>4, <2>1, <2>2, <2>3
      DEF Committing, FenceSweep, FenceKill, RemovePlan, RemoveSidecar,
          RemoveFencedLease, AutoContinue
  <1>5. CASE Cancelling(p)
    BY <1>5
    DEF Cancelling, RequestCancellation, CancelRetry, CancelDeadline,
        CancelTerminate, CancelLoad, CancelSweep, CancelEnter,
        CancelSnapshot, CancelPlan, CancelSidecar, CancelStop, CancelLease
  <1> QED
    BY <1>1, <1>2, <1>3, <1>4, <1>5 DEF Work

\* What that means for the parts that a cancelled run no longer has.
LEMMA QuietMoves ==
    ASSUME IInv, NEW p \in Proc, Start(p) \/ Crash(p) \/ Work(p)
    PROVE  /\ jr'.recorded = jr.recorded \/ StartSession(p)
           /\ jr'.open => jr.open \/ OpenInterval(p)
           /\ jr'.run = "cancelled" => jr.run = "cancelled" \/ CancelRun(p)
           /\ jr.cancel /\ jr.prep # None /\ jr'.prep = None => CancelAbandon(p)
  <1>1. jr \in JournalType
    BY DEF IInv, TypeOK
  <1>2. CASE \/ jr' = jr \/ jr' = Grant(jr, p) \/ jr' = Stop(jr)
             \/ jr' = Finish(jr) \/ jr' = RequestCancel(jr)
             \/ ~jr.cancel /\ \E b \in BOOLEAN : jr' = Approve(jr, b)
    BY <1>1, <1>2 DEF JournalType, Grant, Stop, Finish, RequestCancel, Approve
  <1>3. CASE OpenInterval(p)
    BY <1>1, <1>3 DEF JournalType, OpenInterval, Append, Open
  <1>4. CASE StartSession(p)
    BY <1>1, <1>4 DEF JournalType, StartSession, RecordSession
  <1>5. CASE AppendPrepared(p)
    BY <1>1, <1>5, NewPrepare DEF JournalType, AppendPrepared, Append, Prepare
  <1>6. CASE CancelAbandon(p)
    BY <1>1, <1>6 DEF JournalType, CancelAbandon, Append, Abandon
  <1>7. CASE CancelRun(p)
    BY <1>1, <1>7 DEF JournalType, CancelRun, Append, Cancel
  <1> QED
    BY <1>2, <1>3, <1>4, <1>5, <1>6, <1>7, JournalSteps

\* The steps that lead a process to drive, or to plan.
LEMMA DriveArrives ==
    ASSUME IInv, NEW p \in Proc, Start(p) \/ Crash(p) \/ Work(p),
           pc'[p] \in {"watch", "drive", "load2"}
    PROVE  \/ CreateLease(p)
           \/ LoadRunInput(p) /\ pc'[p] = "load2"
           \/ Watch(p) /\ pc'[p] = "drive"
           \/ Collect(p) /\ Plan(p) = "drive" /\ pc'[p] = "drive"
           \/ pc[p] = "drive" /\ Goto(p, "drive")
  <1>1. ~Start(p) /\ ~Crash(p)
    <2>1. Start(p) \/ Crash(p) => pc'[p] \in {"dead", "acquire", "load1", "aload", "creq"}
      BY DEF Start, Crash, Goto, Step, IInv, TypeOK, Proc
    <2> QED
      BY <2>1
  <1>2. CASE Acquiring(p)
    <2>1. CreateLease(p) \/ pc'[p] \in {"dead", "release", "lease", "regrant"}
      BY <1>2, Arrives DEF Acquiring, Acquire, Reclaim, Regrant
    <2> QED
      BY <2>1
  <1>3. CASE Recovering(p)
    <2>1. \/ LoadRunInput(p) /\ pc'[p] = "load2"
          \/ Collect(p) /\ pc'[p] = Plan(p)
          \/ pc'[p] \in {"load1", "dead", "release", "cleanup", "refused",
                         "cleanplan", "tside", "tplan"}
      BY <1>3, Arrives
      DEF Recovering, LoadRunInput, Collect, ReturnWaitingHuman, Cleanup,
          CleanPlans, RemoveStaleLease, QuarantineOrphanLease,
          TerminalCleanup, TerminalSidecars, TerminalPlans
    <2>2. Plan(p) \in {"tclean", "stale", "orphan", "refuse", "xload", "commit",
                       "halt", "drive", "load1", "acquire", "reclaim"}
      BY DEF Plan
    <2> QED
      BY <2>1, <2>2
  <1>4. CASE Driving(p)
    <2>1. \/ Watch(p)
          \/ pc[p] = "drive" /\ Goto(p, "drive")
          \/ pc'[p] \in {"dead", "release", "xload", "ack1", "load1", "pplan"}
      BY <1>4, Arrives
      DEF Driving, OpenInterval, StartSession, SweepSessions, Drive,
          CloseInterval, FinishRun, PauseRun, Refused, ObserveControl, Replan,
          DriverPrepare, PublishSnapshot, Release
    <2>2. Watch(p) => pc'[p] \in {"release", "xload", "ack1", "drive"}
      BY Arrives DEF Watch
    <2> QED
      BY <2>1, <2>2
  <1>5. ~Acknowledging(p) /\ ~Preparing(p)
    <2>1. Acknowledging(p) \/ Preparing(p) =>
            pc'[p] \in {"dead", "release", "xload", "commit", "load1", "aprep",
                        "pplan", "pappend", "ack1", "ack2", "ack3", "ack4",
                        "ack5", "ack6"}
      BY Arrives
      DEF Acknowledging, AckBegin, AckReceipt, AckSweep, AckSweepFails,
          AckFailed, AckStop, AckMove, Preparing, LoadProposal,
          ApproverPrepare, PublishSnapshot, PublishPlan, AppendPrepared
    <2> QED
      BY <2>1
  <1>6. ~Committing(p)
    <2>1. Committing(p) =>
            pc'[p] \in {"rmplan", "rmside", "rmlease", "dead", "autoload",
                        "load1", "xload", "acquire", "release", "fsweep",
                        "fkill", "fcommit", "fapprove"}
      <3>1. CASE FenceKill(p)
        BY <3>1, Arrives DEF FenceKill, IInv, TypeOK
      <3>2. CASE ~FenceKill(p)
        BY <3>2, Arrives
        DEF Committing, Commit, ApproveUnfenced, FenceSweep, FenceCommit,
            FenceApprove, RemovePlan, RemoveSidecar, RemoveFencedLease,
            AutoContinue, CommittedLabel
      <3> QED
        BY <3>1, <3>2
    <2> QED
      BY <2>1
  <1>7. ~Cancelling(p)
    <2>1. Cancelling(p) =>
            pc'[p] \in {"dead", "release", "load1", "ckill", "xsweep", "xlock",
                        "xsnap", "xplan", "xside", "xabandon", "xstop", "xcancel",
                        "xlease"}
      <3>1. CASE CancelTerminate(p)
        BY <3>1, Arrives DEF CancelTerminate, IInv, TypeOK
      <3>2. CASE ~CancelTerminate(p)
        BY <3>2, Arrives
        DEF Cancelling, RequestCancellation, CancelRetry, CancelDeadline,
            CancelLoad, CancelSweep, CancelEnter, CancelSnapshot, CancelPlan,
            CancelSidecar, CancelAbandon, CancelStop, CancelRun, CancelLease,
            CancelledLabels
      <3> QED
        BY <3>1, <3>2
    <2> QED
      BY <2>1
  <1> QED
    BY <1>1, <1>2, <1>3, <1>4, <1>5, <1>6, <1>7 DEF Work

\* The labels an approval can go to.
LEMMA ApproveGoes ==
    ASSUME IInv, HandsInv, NEW p \in Approvers, Start(p) \/ Crash(p) \/ Work(p)
    PROVE  pc'[p] \in ApproveLabels /\ ~CreateLease(p)
  <1>0. /\ p \in Proc /\ p \notin Runners /\ p \notin Resumers
        /\ p \notin Cancellers
        /\ pc[p] \in ApproveLabels /\ me[p].tenure = None
    BY RolesAreDisjoint DEF Proc, HandsInv
  <1>1. Quit(p) => pc'[p] = "dead"
    BY <1>0 DEF Quit, QuitLabel, Goto, Step, IInv, TypeOK
  <1>2. CASE Start(p) \/ Crash(p)
    <2>1. pc'[p] \in {"aload", "dead"}
      BY <1>0, <1>2, Arrives DEF Start, Crash
    <2>2. ~CreateLease(p)
      BY <1>0 DEF CreateLease, ApproveLabels
    <2> QED
      BY <2>1, <2>2 DEF ApproveLabels
  <1>3. ~Acquiring(p) /\ ~Recovering(p)
    BY <1>0
    DEF ApproveLabels, Acquiring, Acquire, CreateLease, Reclaim, Regrant,
        Recovering, LoadRunInput, Collect, ReturnWaitingHuman, Cleanup,
        CleanPlans, RemoveStaleLease, QuarantineOrphanLease, TerminalCleanup,
        TerminalSidecars, TerminalPlans
  <1>4. ~Driving(p)
    BY <1>0
    DEF ApproveLabels, Driving, Watch, OpenInterval, StartSession, Drive,
        SweepSessions, CloseInterval, FinishRun, PauseRun, Refused,
        ObserveControl, Replan, DriverPrepare, Release
  <1>5. ~Acknowledging(p)
    BY <1>0
    DEF ApproveLabels, Acknowledging, AckBegin, AckReceipt, AckSweep,
        AckSweepFails, AckStop, AckMove
  <1>6. CASE Preparing(p)
    <2>1. pc'[p] \in {"aprep", "pplan", "pappend", "commit", "dead"}
      BY <1>0, <1>1, <1>6, Arrives
      DEF Preparing, LoadProposal, ApproverPrepare, PublishSnapshot,
          DriverPrepare, PublishPlan, AppendPrepared
    <2> QED
      BY <1>3, <2>1 DEF ApproveLabels, Acquiring
  <1>7. CASE Committing(p)
    <2>1. pc'[p] \in {"rmplan", "rmside", "rmlease", "dead", "xload", "fsweep",
                      "fkill", "fcommit", "fapprove"}
      <3>1. CASE FenceKill(p)
        <4>1. \/ Goto(p, "fcommit") \/ Quit(p)
              \/ pc' = [pc EXCEPT ![p] = "fcommit", ![me[p].want.owner] = "dead"]
          BY <3>1 DEF FenceKill
        <4> QED
          BY <1>0, <1>1, <4>1, Arrives DEF IInv, TypeOK
      <3>2. CASE ~FenceKill(p)
        BY <1>0, <1>1, <1>7, <3>2, Arrives
        DEF Committing, Commit, ApproveUnfenced, FenceSweep, FenceCommit,
            FenceApprove, RemovePlan, RemoveSidecar, RemoveFencedLease,
            AutoContinue, CommittedLabel, ApproveLabels
      <3> QED
        BY <3>1, <3>2
    <2> QED
      BY <1>3, <2>1 DEF ApproveLabels, Acquiring
  <1>8. CASE Cancelling(p)
    <2>1. pc'[p] \in {"dead", "xsweep", "xlock", "xsnap", "xplan", "xside",
                      "xabandon", "xstop", "xcancel", "xlease"}
      BY <1>0, <1>1, <1>8, Arrives
      DEF ApproveLabels, Cancelling, RequestCancellation, CancelRetry,
          CancelDeadline, CancelTerminate, CancelLoad, CancelSweep,
          CancelEnter, CancelSnapshot, CancelPlan, CancelSidecar,
          CancelAbandon, CancelStop, CancelRun, CancelLease, CancelledLabels
    <2> QED
      BY <1>3, <2>1 DEF ApproveLabels, Acquiring
  <1> QED
    BY <1>2, <1>3, <1>4, <1>5, <1>6, <1>7, <1>8 DEF Work

\* No approval becomes a driver, and nobody drives without a Driver.
LEMMA StepHands ==
    ASSUME IInv, HandsInv, IInv', NEW p \in Proc, Start(p) \/ Crash(p) \/ Work(p)
    PROVE  HandsInv'
  <1>1. ASSUME NEW a \in Approvers
        PROVE  pc'[a] \in ApproveLabels /\ me'[a].tenure = None
    <2>1. pc[a] \in ApproveLabels /\ me[a].tenure = None /\ a \in Proc
      BY DEF HandsInv, Proc
    <2>2. CASE a = p
      <3>1. pc'[a] \in ApproveLabels /\ ~CreateLease(p)
        BY <2>2, ApproveGoes
      <3> QED
        BY <2>1, <3>1, StepMoved DEF Moved
    <2>3. CASE a # p
      BY <2>1, <2>3, OthersStay DEF ApproveLabels, Fresh
    <2> QED
      BY <2>2, <2>3
  <1>2. ASSUME NEW q \in Proc, pc'[q] \in {"watch", "drive"}
        PROVE  me'[q].tenure # None
    <2>1. CASE q # p
      BY <1>2, <2>1, OthersStay DEF HandsInv
    <2>2. CASE q = p /\ CreateLease(p)
      <3> DEFINE m == [me[p] EXCEPT !.tenure = lease']
      <3>1. /\ lease' = [epoch |-> jr.epoch, owner |-> p]
            /\ \E l : Step(p, l, m)
        BY <2>2 DEF CreateLease
      <3>2. lease' \in Leases
        <4>1. jr.owner = p /\ jr.epoch \in Nat \ {0}
          BY <2>2, NoneIsNothing
          DEF CreateLease, Proc, IInv, RegionInv, Region, GrantInv, TypeOK,
              JournalType
        <4> QED
          BY <3>1, <4>1 DEF Leases
      <3>3. m \in Memory /\ m.tenure = lease'
        BY <3>2, Memories, MemoryFields
      <3> HIDE DEF m
      <3>4. me'[p].tenure = lease'
        BY <1>2, <2>2, <3>1, <3>3, StepFields DEF IInv
      <3> QED
        BY <2>2, <3>2, <3>4, NoneIsNothing
    <2>3. CASE q = p /\ ~CreateLease(p)
      <3>1. \/ Watch(p) /\ pc'[p] = "drive"
            \/ Collect(p) /\ Plan(p) = "drive" /\ pc'[p] = "drive"
            \/ pc[p] = "drive" /\ Goto(p, "drive")
        BY <1>2, <2>3, DriveArrives
      <3>2. me[p] \in Memory
        BY DEF IInv, TypeOK
      <3>3. CASE Watch(p) /\ pc'[p] = "drive"
        <4>1. Goto(p, "drive") /\ me[p].tenure # None
          BY <3>3, Arrives DEF Watch, HandsInv
        <4> QED
          BY <2>3, <3>2, <4>1, StepFields DEF Goto, IInv
      <3>4. CASE Collect(p) /\ Plan(p) = "drive" /\ pc'[p] = "drive"
        <4>1. lease # None /\ lease = me[p].tenure
          BY <3>4 DEF Plan
        <4> DEFINE m == [me[p] EXCEPT !.want = lease]
        <4>2. Step(p, "drive", m)
          BY <3>4, Arrives DEF Collect
        <4>3. m \in Memory /\ m.tenure = me[p].tenure
          BY Memories, MemoryFields
        <4> HIDE DEF m
        <4> QED
          BY <2>3, <4>1, <4>2, <4>3, StepFields DEF IInv
      <3>5. CASE pc[p] = "drive" /\ Goto(p, "drive")
        BY <2>3, <3>2, <3>5, StepFields DEF Goto, IInv, HandsInv
      <3> QED
        BY <3>1, <3>3, <3>4, <3>5
    <2> QED
      BY <2>1, <2>2, <2>3
  <1> QED
    BY <1>1, <1>2 DEF HandsInv

\* Whoever made the pending prepare settles it or ends.
LEMMA StepMaker ==
    ASSUME IInv, CancelInv, MakerInv, IInv', NEW p \in Proc,
           Start(p) \/ Crash(p) \/ Work(p)
    PROVE  MakerInv'
  <1> SUFFICES ASSUME jr'.prep # None
               PROVE  /\ jr'.prep.id \in Drivers \cup Approvers
                      /\ pc'[jr'.prep.id] \in Settling
    BY DEF MakerInv
  <1>1. CASE AppendPrepared(p)
    <2>1. jr'.prep.id = p
      BY <1>1, NewPrepare
    <2>2. p \in Drivers \cup Approvers
      BY <1>1 DEF AppendPrepared, CancelInv, CancelLabels, Proc, Drivers
    <2>3. pc'[p] \in {"commit", "ack1"}
      BY <1>1, Arrives DEF AppendPrepared
    <2> QED
      BY <2>1, <2>2, <2>3 DEF Settling
  <1>2. CASE jr'.prep = jr.prep
    <2> DEFINE x == jr.prep.id
    <2>1. /\ jr.prep # None /\ x \in Drivers \cup Approvers /\ x \in Proc
          /\ pc[x] \in Settling
      BY <1>2 DEF MakerInv, Drivers, Proc
    <2>2. CASE x # p
      BY <1>2, <2>1, <2>2, OthersStay DEF Settling
    <2>3. CASE x = p
      <3>0. pc[p] \in Settling /\ jr.prep.id = p
        BY <2>1, <2>3
      <3> HIDE DEF x
      <3>1. Quit(p) => pc'[p] \in {"dead", "release"}
        BY Arrives
      <3>2. CASE Start(p) \/ Crash(p)
        <4>1. pc'[p] = "dead"
          BY <3>0, <3>2, Arrives DEF Start, Crash, Settling
        <4> QED
          BY <1>2, <2>1, <2>3, <4>1 DEF x, Settling
      <3>3. ~Acquiring(p) /\ ~Recovering(p) /\ ~Preparing(p)
        BY <3>0
        DEF Settling, Acquiring, Acquire, CreateLease, Reclaim, Regrant,
            Recovering, LoadRunInput, Collect, ReturnWaitingHuman, Cleanup,
            CleanPlans, RemoveStaleLease, QuarantineOrphanLease,
            TerminalCleanup, TerminalSidecars, TerminalPlans, Preparing,
            LoadProposal, ApproverPrepare, PublishPlan, AppendPrepared
      <3>4. CASE Driving(p)
        <4>1. pc'[p] = "dead"
          BY <3>0, <3>4, Arrives
          DEF Settling, Driving, Watch, OpenInterval, StartSession, Drive,
              SweepSessions, CloseInterval, FinishRun, PauseRun, Refused,
              ObserveControl, Replan, DriverPrepare, Release
        <4> QED
          BY <1>2, <2>1, <2>3, <4>1 DEF x, Settling
      <3>5. CASE Acknowledging(p)
        <4>1. pc'[p] \in {"ack2", "ack3", "ack4", "ack5", "ack6", "commit",
                          "dead", "release", "xload"}
          BY <3>0, <3>1, <3>5, Arrives
          DEF Acknowledging, AckBegin, AckReceipt, AckSweep, AckSweepFails,
              AckFailed, AckStop, AckMove
        <4> QED
          BY <1>2, <2>1, <2>3, <4>1 DEF x, Settling
      <3>6. CASE Committing(p)
        <4>0. ~ApproveUnfenced(p) /\ ~FenceApprove(p) /\ jr' # Approve(jr, FALSE)
          <5>1. jr \in JournalType
            BY DEF IInv, TypeOK
          <5>2. jr' # Approve(jr, FALSE) /\ jr' # Approve(jr, TRUE)
            BY <1>2, <2>1, <5>1, ApproveFields
          <5> QED
            BY <5>2 DEF ApproveUnfenced, FenceApprove, Append
        <4>1. pc'[p] \in {"dead", "release", "xload", "fsweep", "fkill",
                          "fcommit", "fapprove"}
          <5>1. CASE FenceKill(p)
            <6>1. \/ Goto(p, "fcommit") \/ Quit(p)
                  \/ pc' = [pc EXCEPT ![p] = "fcommit", ![me[p].want.owner] = "dead"]
              BY <5>1 DEF FenceKill
            <6> QED
              BY <3>1, <6>1, Arrives DEF IInv, TypeOK
          <5>2. CASE ~FenceKill(p)
            BY <3>0, <3>1, <3>6, <4>0, <5>2, Arrives
            DEF Settling, Committing, Commit, FenceSweep, FenceCommit, Append,
                RemovePlan, RemoveSidecar, RemoveFencedLease, AutoContinue
          <5> QED
            BY <5>1, <5>2
        <4> QED
          BY <1>2, <2>1, <2>3, <4>1 DEF x, Settling
      <3>7. CASE Cancelling(p)
        <4>1. ~CancelAbandon(p)
          BY <1>2, <2>1, SettleFields DEF CancelAbandon, Append, IInv, TypeOK
        <4>2. pc'[p] \in {"dead", "release", "xsweep", "xlock", "xsnap",
                          "xplan", "xside", "xabandon"}
          BY <2>1, <3>0, <3>1, <3>7, <4>1, Arrives
          DEF Settling, BarrierUp, Cancelling, RequestCancellation, CancelRetry,
              CancelDeadline, CancelTerminate, CancelLoad, CancelSweep,
              CancelEnter, CancelSnapshot, CancelPlan, CancelSidecar,
              CancelStop, CancelRun, CancelLease
        <4> QED
          BY <1>2, <2>1, <2>3, <4>2 DEF x, Settling
      <3> QED
        BY <3>2, <3>3, <3>4, <3>5, <3>6, <3>7 DEF Work
    <2> QED
      BY <2>2, <2>3
  <1> QED
    BY <1>1, <1>2, PrepareMoves

\* Once the cancellation is requested nobody begins to work.
LEMMA WorksFades ==
    ASSUME IInv, AuthInv, IInv', jr.cancel, NEW p \in Proc,
           Start(p) \/ Crash(p) \/ Work(p), NEW q \in Proc, Works(q)'
    PROVE  Works(q)
  <1>1. /\ lease' # None /\ lease' = me'[q].tenure
        /\ \/ pc'[q] = "drive"
           \/ pc'[q] = "load2" /\ ~me'[q].seen.cancel /\ me'[q].seen.prep = None
    BY DEF Works
  <1>2. ~CreateLease(p)
    <2> SUFFICES ASSUME CreateLease(p)
                 PROVE  FALSE
      OBVIOUS
    <2>1. lease'.owner = p /\ pc'[p] \in {"watch", "load1"}
      BY Arrives DEF CreateLease
    <2>2. q # p
      BY <1>1, <2>1
    <2>3. me'[q].tenure = me[q].tenure
      BY <1>1, <2>2, OthersStay DEF Fresh
    <2> QED
      BY <1>1, <2>1, <2>2, <2>3 DEF AuthInv, TenureInv
  <1>3. lease' \in {lease, None}
    <2>1. CASE AckMove(p)
      BY <2>1 DEF AckMove, AckFailed, NoEffect, files
    <2> QED
      BY <1>2, <2>1, StepFiles
  <1>4. lease # None /\ lease = me[q].tenure
    BY <1>1, <1>2, <1>3, StepMoved DEF Moved
  <1>5. CASE q # p
    BY <1>1, <1>4, <1>5, OthersStay DEF Works
  <1>6. CASE q = p
    <2>1. \/ LoadRunInput(p) /\ pc'[p] = "load2"
          \/ Watch(p) /\ pc'[p] = "drive"
          \/ Collect(p) /\ Plan(p) = "drive"
          \/ pc[p] = "drive"
      BY <1>1, <1>2, <1>6, DriveArrives
    <2>2. ~(Watch(p) /\ pc'[p] = "drive")
      BY Arrives DEF Watch
    <2>3. ~(LoadRunInput(p) /\ pc'[p] = "load2")
      <3> SUFFICES ASSUME LoadRunInput(p)
                   PROVE  pc'[p] = "load2" /\ me'[p].seen.cancel
        BY <1>1, <1>6
      <3> DEFINE m == [me[p] EXCEPT !.seen = jr]
      <3>1. Step(p, "load2", m)
        BY DEF LoadRunInput, Read
      <3>2. m \in Memory /\ m.seen = jr
        BY Memories, MemoryFields
      <3> HIDE DEF m
      <3> QED
        BY <3>1, <3>2, StepFields DEF Reading, IInv
    <2>4. ASSUME Collect(p), Plan(p) = "drive"
          PROVE  pc[p] = "load2" /\ ~me[p].seen.cancel /\ me[p].seen.prep = None
      BY <2>4 DEF Collect, Plan
    <2> QED
      BY <1>4, <1>6, <2>1, <2>2, <2>3, <2>4 DEF Works
  <1> QED
    BY <1>5, <1>6

\* A session starts only with a driver that works.
LEMMA StartWorks ==
    ASSUME IInv, HandsInv, CancelInv, NEW p \in Proc, StartSession(p)
    PROVE  p \in Drivers /\ Works(p) /\ jr.prep = None /\ lock = None /\ ~Terminal(jr)
  <1>1. pc[p] = "drive" /\ lease = me[p].tenure
    BY DEF StartSession, Drive, Authorized
  <1>2. p \in Drivers
    BY <1>1 DEF HandsInv, ApproveLabels, CancelInv, CancelLabels, Proc, Drivers
  <1>3. Works(p)
    BY <1>1 DEF Works, HandsInv
  <1> QED
    BY <1>2, <1>3
    DEF StartSession, Drive, Authorized, Alone, CanRecordSession, BarrierUp

\* The oracle of a process keeps what it relies on while others step.
LEMMA OthersClear ==
    ASSUME IInv, SInv, QuietInv, IInv', NEW p \in Proc,
           Start(p) \/ Crash(p) \/ Work(p), NEW q \in Proc \ {p}
    PROVE  Clears(q, pc[q])'
  <1>1. CASE pc'[q] \notin Oracle
    BY <1>1 DEF Clears, Oracle, Barred
  <1>2. CASE pc'[q] = pc[q] /\ me'[q] = me[q] /\ pc[q] \in Oracle
    <2>1. Clears(q, pc[q]) /\ Clears(p, pc[p])
      BY DEF QuietInv, ClearInv
    <2>2. jr.cancel /\ jr'.cancel
      BY <1>2, <2>1, StepOnward DEF Clears, Onward, Continues
    <2>3. (\A d \in Drivers : ~Works(d)) => \A d \in Drivers : ~Works(d)'
      BY <2>2, WorksFades DEF SInv, Drivers, Proc
    <2>4. ~StartSession(p)
      <3>1. ASSUME StartSession(p)
            PROVE  pc[q] \notin Barred /\ lock # q
        <4>1. p \in Drivers /\ Works(p) /\ jr.prep = None /\ lock = None
          BY <3>1, StartWorks DEF SInv, QuietInv
        <4> QED
          BY <2>1, <4>1, NoneIsNothing DEF Clears, OwnPrepare
      <3>2. pc[q] \in {"xstop", "xcancel"} => lock = q
        BY DEF IInv, LockInv, Held
      <3> QED
        BY <1>2, <3>1, <3>2 DEF Barred
    <2>5. jr'.recorded = jr.recorded /\ sessions' \subseteq sessions
      BY <2>4, QuietMoves, SessionsShrink
    <2>6. ASSUME OwnPrepare(q)
          PROVE  OwnPrepare(q)' \/ \A d \in Drivers : ~Works(d)'
      <3>1. CASE jr'.prep = jr.prep
        BY <2>6, <3>1 DEF OwnPrepare
      <3>2. CASE jr'.prep = None /\ jr.prep # None
        <4>1. pc[p] = "xabandon"
          BY <2>2, <3>2, QuietMoves DEF CancelAbandon
        <4>2. ~OwnPrepare(p)
          BY <2>6 DEF OwnPrepare
        <4> QED
          BY <2>1, <2>3, <4>1, <4>2 DEF Clears, Barred, Oracle
      <3> QED
        BY <2>6, <3>1, <3>2, PrepareMoves DEF OwnPrepare
    <2> QED
      BY <1>2, <2>1, <2>2, <2>3, <2>5, <2>6 DEF Clears
  <1> QED
    BY <1>1, <1>2, OthersStay DEF Oracle

\* A process comes to the oracle when nobody else can start a session.
LEMMA OracleBegins ==
    ASSUME IInv, SInv, QuietInv, IInv', OneOfEach, NEW p \in Proc,
           Start(p) \/ Crash(p) \/ Work(p), pc'[p] = "xload"
    PROVE  Clears(p, "xload")'
  <1> USE DEF NoEffect
  <1>1. \/ Collect(p) /\ Plan(p) = "xload"
        \/ p \in Drivers /\ jr.cancel
        \/ Commit(p) /\ jr.prep # None /\ jr.cancel /\ jr' = jr
    <2>0. p \notin Drivers => p \in Approvers \cup Cancellers
      BY DEF Proc, Drivers
    <2>1. Quit(p) => pc'[p] # "xload"
      BY Arrives
    <2>2. CASE Start(p) \/ Crash(p)
      BY <2>2, Arrives DEF Start, Crash, Goto, Step, IInv, TypeOK, Proc
    <2>3. ~Acquiring(p) /\ ~Preparing(p)
      <3>1. Acquiring(p) \/ Preparing(p) =>
              pc'[p] \in {"dead", "release", "lease", "regrant", "watch", "load1",
                          "aprep", "pplan", "pappend", "commit", "ack1"}
        BY Arrives
        DEF Acquiring, Acquire, CreateLease, Reclaim, Regrant, Preparing,
            LoadProposal, ApproverPrepare, DriverPrepare, PublishSnapshot,
            PublishPlan, AppendPrepared
      <3> QED
        BY <3>1
    <2>4. CASE Recovering(p)
      BY <2>1, <2>4, Arrives
      DEF Recovering, LoadRunInput, Collect, ReturnWaitingHuman, Cleanup,
          CleanPlans, RemoveStaleLease, QuarantineOrphanLease,
          TerminalCleanup, TerminalSidecars, TerminalPlans
    <2>5. CASE Driving(p)
      <3>1. jr.cancel /\ pc[p] \in {"watch", "drive"}
        BY <2>1, <2>5, Arrives
        DEF Driving, Watch, OpenInterval, StartSession, Drive, SweepSessions,
            CloseInterval, FinishRun, PauseRun, Refused, ObserveControl,
            Replan, DriverPrepare, PublishSnapshot, Release
      <3> QED
        BY <2>0, <3>1
        DEF QuietInv, HandsInv, ApproveLabels, SInv, CancelInv, CancelLabels
    <2>6. CASE Acknowledging(p)
      <3>1. jr.cancel /\ pc[p] \in {"ack1", "ack2", "ack3", "ack4", "ack5", "ack6"}
        BY <2>1, <2>6, Arrives
        DEF Acknowledging, AckBegin, AckReceipt, AckSweep, AckSweepFails,
            AckFailed, AckStop, AckMove
      <3> QED
        BY <2>0, <3>1
        DEF QuietInv, HandsInv, ApproveLabels, SInv, CancelInv, CancelLabels
    <2>7. CASE Committing(p)
      <3>1. CASE AutoContinue(p)
        <4>1. jr.cancel /\ pc[p] = "autoload"
          BY <3>1, Arrives DEF AutoContinue
        <4> QED
          BY <2>0, <4>1
          DEF QuietInv, HandsInv, ApproveLabels, SInv, CancelInv, CancelLabels
      <3>2. CASE Commit(p)
        BY <2>1, <3>2, Arrives DEF Commit, ApproveUnfenced
      <3>3. CASE FenceKill(p)
        <4>1. \/ Goto(p, "fcommit") \/ Quit(p)
              \/ pc' = [pc EXCEPT ![p] = "fcommit", ![me[p].want.owner] = "dead"]
          BY <3>3 DEF FenceKill
        <4> QED
          BY <2>1, <4>1, Arrives DEF IInv, TypeOK
      <3>4. CASE ~AutoContinue(p) /\ ~Commit(p) /\ ~FenceKill(p)
        BY <2>1, <2>7, <3>4, Arrives
        DEF Committing, FenceSweep, FenceCommit, FenceApprove, RemovePlan,
            RemoveSidecar, RemoveFencedLease, CommittedLabel
      <3> QED
        BY <3>1, <3>2, <3>3, <3>4
    <2>8. CASE Cancelling(p)
      <3>1. pc'[p] \in {"dead", "release", "load1", "ckill", "xsweep", "xlock",
                        "xsnap", "xplan", "xside", "xabandon", "xstop", "xcancel",
                        "xlease"}
        <4>1. CASE CancelTerminate(p)
          BY <4>1, Arrives DEF CancelTerminate, IInv, TypeOK
        <4>2. CASE ~CancelTerminate(p)
          BY <2>8, <4>2, Arrives
          DEF Cancelling, RequestCancellation, CancelRetry, CancelDeadline,
              CancelLoad, CancelSweep, CancelEnter, CancelSnapshot, CancelPlan,
              CancelSidecar, CancelAbandon, CancelStop, CancelRun, CancelLease,
              CancelledLabels
        <4> QED
          BY <4>1, <4>2
      <3> QED
        BY <3>1
    <2> QED
      BY <2>2, <2>3, <2>4, <2>5, <2>6, <2>7, <2>8 DEF Work
  <1>2. jr.cancel
    <2>1. Plan(p) = "xload" => me[p].seen.cancel
      BY DEF Plan
    <2> QED
      BY <1>1, <2>1 DEF SInv, SeenInv, Continues
  <1>3. jr'.cancel
    BY <1>2, StepOnward DEF Onward, Continues
  <1>4. \A d \in Drivers : Works(d)' => Works(d) /\ d # p
    BY <1>2, WorksFades DEF SInv, Works, Drivers, Proc
  <1>5. CASE Collect(p) /\ Plan(p) = "xload"
    <2>1. ASSUME NEW d \in Drivers, Works(d), d # p
          PROVE  FALSE
      <3>1. /\ lease # None /\ lease = me[d].tenure /\ lease.owner = d
            /\ Live(lease.owner)
        BY <2>1 DEF Works, SInv, AuthInv, TenureInv, Drivers, Proc, Live
      <3>2. lease # me[p].tenure
        BY <2>1, <3>1 DEF SInv, AuthInv, TenureInv
      <3> QED
        BY <1>5, <3>1, <3>2 DEF Plan
    <2> QED
      BY <1>3, <1>4, <2>1 DEF Clears
  <1>6. CASE p \in Drivers
    BY <1>3, <1>4, <1>6 DEF Clears, OneOfEach
  <1>7. CASE Commit(p) /\ jr.prep # None /\ jr' = jr /\ p \notin Drivers
    <2> DEFINE x == jr.prep.id
    <2>1. x \in Drivers \cup Approvers /\ pc[x] \in Settling
      BY <1>7 DEF QuietInv, MakerInv
    <2>2. p \in Approvers
      BY <1>7 DEF Commit, SInv, CancelInv, CancelLabels, Proc, Drivers
    <2>3. CASE x \in Approvers
      BY <1>3, <1>7, <2>2, <2>3 DEF Clears, OwnPrepare, OneOfEach
    <2>4. CASE x \in Drivers
      <3>1. ~Works(x)
        BY <2>1 DEF Works, Settling
      <3> QED
        BY <1>3, <1>4, <2>4, <3>1 DEF Clears, OneOfEach
    <2> QED
      BY <2>1, <2>3, <2>4
  <1> QED
    BY <1>1, <1>5, <1>6, <1>7

\* The steps that lead on in the oracle.
LEMMA OracleArrives ==
    ASSUME IInv, NEW p \in Proc, Start(p) \/ Crash(p) \/ Work(p),
           pc'[p] \in Oracle \ {"xload"}
    PROVE  /\ pc[p] \in Oracle
           /\ pc'[p] = "xsweep" => CancelLoad(p)
           /\ pc'[p] \notin {"xsweep"} /\ pc[p] \in {"xload", "xsweep"} => CancelSweep(p)
           /\ pc'[p] \in Barred => pc[p] \in Barred /\ ~CancelAbandon(p)
  <1>1. Quit(p) => pc'[p] \notin Oracle
    BY Arrives DEF Oracle
  <1>2. Start(p) \/ Crash(p) => pc'[p] \notin Oracle
    BY DEF Start, Crash, Goto, Step, IInv, TypeOK, Proc, Oracle
  <1>3. Acquiring(p) \/ Preparing(p) => pc'[p] \notin Oracle
    BY <1>1, Arrives
    DEF Acquiring, Acquire, CreateLease, Reclaim, Regrant, Preparing,
        LoadProposal, ApproverPrepare, DriverPrepare, PublishSnapshot,
        PublishPlan, AppendPrepared, Oracle
  <1>4. Recovering(p) => pc'[p] \notin Oracle \ {"xload"}
    <2>1. Plan(p) \notin Oracle \ {"xload"}
      BY DEF Plan, Oracle
    <2> QED
      BY <1>1, <2>1, Arrives
      DEF Recovering, LoadRunInput, Collect, ReturnWaitingHuman, Cleanup,
          CleanPlans, RemoveStaleLease, QuarantineOrphanLease,
          TerminalCleanup, TerminalSidecars, TerminalPlans, Oracle
  <1>5. Driving(p) => pc'[p] \notin Oracle \ {"xload"}
    BY <1>1, Arrives
    DEF Driving, Watch, OpenInterval, StartSession, Drive, SweepSessions,
        CloseInterval, FinishRun, PauseRun, Refused, ObserveControl,
        Replan, DriverPrepare, PublishSnapshot, Release, Oracle
  <1>6. Acknowledging(p) => pc'[p] \notin Oracle \ {"xload"}
    BY <1>1, Arrives
    DEF Acknowledging, AckBegin, AckReceipt, AckSweep, AckSweepFails,
        AckFailed, AckStop, AckMove, Oracle
  <1>7. Committing(p) => pc'[p] \notin Oracle \ {"xload"}
    <2>1. CASE FenceKill(p)
      <3>1. \/ Goto(p, "fcommit") \/ Quit(p)
            \/ pc' = [pc EXCEPT ![p] = "fcommit", ![me[p].want.owner] = "dead"]
        BY <2>1 DEF FenceKill
      <3> QED
        BY <1>1, <3>1, Arrives DEF IInv, TypeOK, Oracle
    <2>2. CASE ~FenceKill(p)
      BY <1>1, <2>2, Arrives
      DEF Committing, Commit, ApproveUnfenced, FenceSweep, FenceCommit,
          FenceApprove, RemovePlan, RemoveSidecar, RemoveFencedLease,
          AutoContinue, CommittedLabel, Oracle
    <2> QED
      BY <2>1, <2>2
  <1>8. Cancelling(p)
    BY <1>2, <1>3, <1>4, <1>5, <1>6, <1>7 DEF Work, Oracle
  <1>9. ~CancelTerminate(p)
    BY Arrives DEF CancelTerminate, IInv, TypeOK, Oracle
  <1>10. CASE CancelLoad(p) \/ CancelSweep(p) \/ CancelEnter(p)
    <2>1. ~CancelAbandon(p)
      BY <1>10 DEF CancelLoad, CancelSweep, CancelEnter, CancelAbandon
    <2>2. CASE CancelLoad(p)
      BY <1>1, <2>1, <2>2, Arrives DEF CancelLoad, Read, Oracle, Barred
    <2>3. CASE CancelSweep(p)
      BY <2>1, <2>3, Arrives DEF CancelSweep, Oracle, Barred
    <2>4. CASE CancelEnter(p)
      BY <1>1, <2>1, <2>4, Arrives DEF CancelEnter, Oracle, Barred
    <2> QED
      BY <1>10, <2>2, <2>3, <2>4
  <1>11. CASE CancelSnapshot(p) \/ CancelPlan(p) \/ CancelSidecar(p)
    BY <1>1, <1>11, Arrives
    DEF CancelSnapshot, CancelPlan, CancelSidecar, CancelAbandon, Oracle, Barred
  <1>12. CASE CancelAbandon(p) \/ CancelStop(p)
    BY <1>12, Arrives DEF CancelAbandon, CancelStop, Oracle, Barred
  <1> QED
    BY <1>1, <1>8, <1>9, <1>10, <1>11, <1>12, Arrives
    DEF Cancelling, RequestCancellation, CancelRetry, CancelDeadline,
        CancelRun, CancelLease, CancelledLabels, Oracle

\* The oracle sweeps what the journal names when it starts, and nothing is
\* added to that until it has ended the run.
LEMMA OwnClear ==
    ASSUME IInv, SInv, QuietInv, IInv', OneOfEach, NEW p \in Proc,
           Start(p) \/ Crash(p) \/ Work(p)
    PROVE  Clears(p, pc[p])'
  <1>1. CASE pc'[p] \notin Oracle
    BY <1>1 DEF Clears, Oracle, Barred
  <1>2. CASE pc'[p] = "xload"
    BY <1>2, OracleBegins
  <1>3. CASE pc'[p] \in Oracle \ {"xload"}
    <2>1. pc[p] \in Oracle /\ Clears(p, pc[p])
      BY <1>3, OracleArrives DEF QuietInv, ClearInv
    <2>2. jr.cancel /\ jr'.cancel
      BY <2>1, StepOnward DEF Clears, Onward, Continues
    <2>3. sessions' \subseteq sessions
      BY <2>1, SessionsShrink DEF StartSession, Drive, Oracle
    <2>4. pc'[p] \in Barred => OwnPrepare(p)' \/ \A d \in Drivers : ~Works(d)'
      <3> SUFFICES ASSUME pc'[p] \in Barred
                   PROVE  OwnPrepare(p)' \/ \A d \in Drivers : ~Works(d)'
        OBVIOUS
      <3>1. OwnPrepare(p) \/ \A d \in Drivers : ~Works(d)
        BY <1>3, <2>1, OracleArrives DEF Clears
      <3>2. OwnPrepare(p) => jr'.prep = jr.prep
        BY <1>3, <2>2, OracleArrives, QuietMoves, PrepareMoves DEF OwnPrepare
      <3> QED
        BY <2>2, <3>1, <3>2, WorksFades DEF OwnPrepare, SInv, Drivers, Proc
    <2>5. pc'[p] = "xsweep" => jr'.recorded = me'[p].seen.recorded
      <3> SUFFICES ASSUME pc'[p] = "xsweep"
                   PROVE  jr'.recorded = me'[p].seen.recorded
        OBVIOUS
      <3>1. Read(p, "xsweep") /\ jr' = jr
        <4>1. CancelLoad(p)
          BY <1>3, OracleArrives
        <4> QED
          BY <4>1, Arrives DEF CancelLoad, NoEffect
      <3> DEFINE m == [me[p] EXCEPT !.seen = jr]
      <3>2. Step(p, "xsweep", m)
        BY <3>1 DEF Read
      <3>3. m \in Memory /\ m.seen = jr
        BY Memories, MemoryFields
      <3> HIDE DEF m
      <3> QED
        BY <3>1, <3>2, <3>3, StepFields DEF Reading, IInv
    <2>6. pc'[p] \in Oracle \ {"xload", "xsweep"} => sessions' = {}
      <3> SUFFICES ASSUME pc'[p] \in Oracle \ {"xload", "xsweep"}
                   PROVE  sessions' = {}
        OBVIOUS
      <3>1. CASE pc[p] \in {"xload", "xsweep"}
        <4>1. CancelSweep(p)
          BY <1>3, <3>1, OracleArrives
        <4>2. /\ sessions' = sessions \ me[p].seen.recorded
              /\ jr.recorded = me[p].seen.recorded
          BY <2>1, <4>1 DEF CancelSweep, Clears
        <4> QED
          BY <4>2 DEF SInv, DrainInv, SessionInv
      <3>2. CASE pc[p] \notin {"xload", "xsweep"}
        BY <2>1, <2>3, <3>2 DEF Clears
      <3> QED
        BY <3>1, <3>2
    <2> QED
      BY <2>2, <2>4, <2>5, <2>6 DEF Clears
  <1> QED
    BY <1>1, <1>2, <1>3

\* A cancelled run stays as the oracle left it.
LEMMA StepCancelled ==
    ASSUME IInv, SInv, QuietInv, IInv', NEW p \in Proc,
           Start(p) \/ Crash(p) \/ Work(p)
    PROVE  CancelledIsQuiet'
  <1> SUFFICES ASSUME jr'.run = "cancelled"
               PROVE  ~jr'.open /\ jr'.prep = None /\ sessions' = {}
    BY DEF CancelledIsQuiet
  <1>1. jr'.prep = None
    BY DEF IInv, PrepareInv, Terminal
  <1>2. CASE jr.run = "cancelled"
    <2>1. ~OpenInterval(p) /\ ~StartSession(p)
      BY <1>2 DEF OpenInterval, StartSession, Drive, Authorized, Terminal
    <2> QED
      BY <1>1, <1>2, <2>1, QuietMoves, SessionsShrink DEF QuietInv, CancelledIsQuiet
  <1>3. CASE CancelRun(p)
    <2>1. ~jr.open /\ sessions = {}
      BY <1>3 DEF CancelRun, IInv, RegionInv, Region, QuietInv, ClearInv, Clears, Oracle
    <2>2. sessions' = sessions /\ ~OpenInterval(p)
      BY <1>3 DEF CancelRun, Append, OpenInterval, Drive
    <2> QED
      BY <1>1, <2>1, <2>2, QuietMoves
  <1> QED
    BY <1>2, <1>3, QuietMoves

\* Where one process drives and one approves, no schedule and no crash leaves a
\* session, an open interval or a pending prepare in a cancelled run, although
\* the sessions are swept from a journal read without the lock, while the
\* driver may still be working.
THEOREM CancelledQuiet == OneOfEach => (Spec => []CancelledIsQuiet)
  <1> SUFFICES ASSUME OneOfEach
               PROVE  Spec => []CancelledIsQuiet
    OBVIOUS
  <1>1. Init => QuietInv
    <2> SUFFICES ASSUME Init
                 PROVE  QuietInv
      OBVIOUS
    <2>1. /\ jr.prep = None /\ jr.run = "running"
          /\ \A p \in Proc : pc[p] = "idle" /\ me[p].tenure = None
      BY DEF Init, JournalInit, Fresh
    <2> QED
      BY <2>1
      DEF QuietInv, HandsInv, ApproveLabels, MakerInv, ClearInv, Clears,
          Oracle, Barred, CancelledIsQuiet, Proc
  <1>2. IInv /\ SInv /\ QuietInv /\ IInv' /\ [Next]_vars => QuietInv'
    <2> SUFFICES ASSUME IInv, SInv, QuietInv, IInv', [Next]_vars
                 PROVE  QuietInv'
      OBVIOUS
    <2>1. CASE UNCHANGED vars
      BY <2>1
      DEF vars, QuietInv, HandsInv, MakerInv, ClearInv, Clears, OwnPrepare,
          Works, CancelledIsQuiet
    <2>2. ASSUME NEW p \in Proc, Start(p) \/ Crash(p) \/ Work(p)
          PROVE  QuietInv'
      <3>1. HandsInv'
        BY <2>2, StepHands DEF QuietInv
      <3>2. MakerInv'
        BY <2>2, StepMaker DEF QuietInv, SInv
      <3>3. ClearInv'
        <4> SUFFICES ASSUME NEW q \in Proc
                     PROVE  Clears(q, pc[q])'
          BY DEF ClearInv
        <4>1. CASE q = p
          BY <2>2, <4>1, OwnClear
        <4>2. CASE q # p
          BY <2>2, <4>2, OthersClear
        <4> QED
          BY <4>1, <4>2
      <3>4. CancelledIsQuiet'
        BY <2>2, StepCancelled
      <3> QED
        BY <3>1, <3>2, <3>3, <3>4 DEF QuietInv
    <2> QED
      BY <2>1, <2>2 DEF Next
  <1>3. QuietInv => CancelledIsQuiet
    BY DEF QuietInv
  <1> QED
    BY <1>1, <1>2, <1>3, ControlIsInductive, SafetyIsInductive, PTL DEF Spec

=============================================================================
