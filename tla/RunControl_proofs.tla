------------------------- MODULE RunControl_proofs -------------------------
(***************************************************************************)
(* Proofs about RunControl, for any sets of runners, resumers, approvers   *)
(* and cancellers and any choice of the faulty ones.                       *)
(***************************************************************************)
EXTENDS RunControl, TLAPS

-----------------------------------------------------------------------------
(* What each journal event does to each field of the projection. *)

\* j and k agree on everything but the fields named in F.
Agree(j, k, F) ==
    /\ "run" \in F \/ k.run = j.run
    /\ "epoch" \in F \/ k.epoch = j.epoch
    /\ "owner" \in F \/ k.owner = j.owner
    /\ "cancel" \in F \/ k.cancel = j.cancel
    /\ "prep" \in F \/ k.prep = j.prep
    /\ "open" \in F \/ k.open = j.open
    /\ "head" \in F \/ k.head = j.head
    /\ "by" \in F \/ k.by = j.by
    /\ "recorded" \in F \/ k.recorded = j.recorded
    /\ "refs" \in F \/ k.refs = j.refs

\* authority.granted advances the epoch and names the owner.
LEMMA GrantFields ==
    ASSUME NEW j \in JournalType, NEW p \in Proc
    PROVE  /\ Grant(j, p) \in JournalType
           /\ Grant(j, p).epoch = j.epoch + 1
           /\ Grant(j, p).owner = p
           /\ Agree(j, Grant(j, p), {"epoch", "owner"})
  <1> DEFINE k == [j EXCEPT !.epoch = @ + 1]
  <1>1. /\ k \in JournalType
        /\ k.epoch = j.epoch + 1
        /\ Agree(j, k, {"epoch"})
    BY DEF JournalType, Agree
  <1>2. Grant(j, p) = [k EXCEPT !.owner = p]
    BY DEF Grant
  <1> HIDE DEF k
  <1>3. /\ [k EXCEPT !.owner = p] \in JournalType
        /\ [k EXCEPT !.owner = p].owner = p
        /\ Agree(k, [k EXCEPT !.owner = p], {"owner"})
    BY <1>1 DEF JournalType, Agree
  <1> QED
    BY <1>1, <1>2, <1>3 DEF Agree

\* execution.started and execution.stopped touch only the interval.
LEMMA IntervalFields ==
    ASSUME NEW j \in JournalType
    PROVE  /\ Open(j) \in JournalType /\ Open(j).open = TRUE
           /\ Agree(j, Open(j), {"open"})
           /\ Stop(j) \in JournalType /\ Stop(j).open = FALSE
           /\ Agree(j, Stop(j), {"open"})
  <1>1. /\ Open(j) \in JournalType /\ Open(j).open = TRUE
        /\ Agree(j, Open(j), {"open"})
    BY DEF JournalType, Open, Agree
  <1>2. /\ Stop(j) \in JournalType /\ Stop(j).open = FALSE
        /\ Agree(j, Stop(j), {"open"})
    BY DEF JournalType, Stop, Agree
  <1> QED
    BY <1>1, <1>2

\* A recorded launch touches only the set of recorded sessions.
LEMMA RecordFields ==
    ASSUME NEW j \in JournalType, NEW e \in Nat
    PROVE  /\ RecordSession(j, e) \in JournalType
           /\ Agree(j, RecordSession(j, e), {"recorded"})
  BY DEF JournalType, RecordSession, Agree

\* run.succeeded and run.failed touch only the run's status.
LEMMA FinishFields ==
    ASSUME NEW j \in JournalType
    PROVE  /\ Finish(j) \in JournalType /\ Finish(j).run = "ended"
           /\ Agree(j, Finish(j), {"run"})
  BY DEF JournalType, Finish, Agree

\* approval_prepared pins the epoch and the head that it observed.
LEMMA PrepareFields ==
    ASSUME NEW j \in JournalType, NEW p \in Proc
    PROVE  /\ Prepare(j, p) \in JournalType
           /\ Prepare(j, p).prep = [id |-> p, epoch |-> j.epoch, base |-> j.head]
           /\ Prepare(j, p).refs = j.refs \cup {<<j.head + 1, p>>}
           /\ Agree(j, Prepare(j, p), {"prep", "refs"})
  <1> DEFINE r == [id |-> p, epoch |-> j.epoch, base |-> j.head]
             x == j.refs \cup {<<j.head + 1, p>>}
             k == [j EXCEPT !.prep = r]
  <1>1. r \in Prepares
    BY DEF JournalType, Prepares
  <1>2. x \in SUBSET (Nat \X (Proc \cup {Root}))
    BY DEF JournalType
  <1>3. Prepare(j, p) = [k EXCEPT !.refs = x]
    BY DEF Prepare
  <1> HIDE DEF r, x
  <1>4. k \in JournalType /\ k.prep = r /\ Agree(j, k, {"prep"})
    BY <1>1 DEF JournalType, Agree
  <1> HIDE DEF k
  <1>5. /\ [k EXCEPT !.refs = x] \in JournalType
        /\ [k EXCEPT !.refs = x].refs = x
        /\ Agree(k, [k EXCEPT !.refs = x], {"refs"})
    BY <1>2, <1>4 DEF JournalType, Agree
  <1>6. /\ Prepare(j, p) \in JournalType
        /\ Prepare(j, p).prep = r
        /\ Prepare(j, p).refs = x
        /\ Agree(j, Prepare(j, p), {"prep", "refs"})
    BY <1>3, <1>4, <1>5 DEF Agree
  <1> QED
    BY <1>6 DEF r, x

\* A fenced event advances the epoch and leaves the authority vacant.
Fenced(j) == [j EXCEPT !.epoch = @ + 1, !.owner = None]

\* A fence advances the epoch and leaves it without an owner.
LEMMA FencedFields ==
    ASSUME NEW j \in JournalType
    PROVE  /\ Fenced(j) \in JournalType
           /\ Fenced(j).epoch = j.epoch + 1
           /\ Fenced(j).owner = None
           /\ Agree(j, Fenced(j), {"epoch", "owner"})
  <1> DEFINE k == [j EXCEPT !.epoch = @ + 1]
  <1>1. /\ k \in JournalType
        /\ k.epoch = j.epoch + 1
        /\ Agree(j, k, {"epoch"})
    BY DEF JournalType, Agree
  <1>2. Fenced(j) = [k EXCEPT !.owner = None]
    BY DEF Fenced
  <1> HIDE DEF k
  <1>3. /\ [k EXCEPT !.owner = None] \in JournalType
        /\ [k EXCEPT !.owner = None].owner = None
        /\ Agree(k, [k EXCEPT !.owner = None], {"owner"})
    BY <1>1 DEF JournalType, Agree
  <1> QED
    BY <1>1, <1>2, <1>3 DEF Agree

\* amendment.approved moves the head to the prepared revision, settles the
\* prepare and, when it fences, takes the authority away from its owner.
LEMMA ApproveFields ==
    ASSUME NEW j \in JournalType, j.prep # None
    PROVE  /\ Approve(j, FALSE) \in JournalType
           /\ Approve(j, FALSE).head = j.prep.base + 1
           /\ Approve(j, FALSE).prep = None
           /\ Approve(j, FALSE).by = j.prep.id
           /\ Agree(j, Approve(j, FALSE), {"head", "by", "prep"})
           /\ Approve(j, TRUE) \in JournalType
           /\ Approve(j, TRUE).head = j.prep.base + 1
           /\ Approve(j, TRUE).prep = None
           /\ Approve(j, TRUE).by = j.prep.id
           /\ Approve(j, TRUE).epoch = j.epoch + 1
           /\ Approve(j, TRUE).owner = None
           /\ Agree(j, Approve(j, TRUE), {"head", "by", "prep", "epoch", "owner"})
  <1> DEFINE h == j.prep.base + 1
             i == j.prep.id
             k == [j EXCEPT !.head = h]
             l == [k EXCEPT !.by = i]
             m == [l EXCEPT !.prep = None]
  <1>1. h \in Nat /\ i \in Proc
    BY DEF JournalType, Prepares
  <1>2. Approve(j, FALSE) = m
    <2>1. j.epoch = m.epoch /\ j.owner = m.owner
      BY DEF JournalType
    <2> QED
      BY <2>1 DEF Approve, JournalType
  <1>3. Approve(j, TRUE) = Fenced(m)
    BY DEF Approve, Fenced, JournalType
  <1> HIDE DEF h, i
  <1>4. k \in JournalType /\ k.head = h /\ Agree(j, k, {"head"})
    BY <1>1 DEF JournalType, Agree
  <1> HIDE DEF k
  <1>5. l \in JournalType /\ l.by = i /\ Agree(k, l, {"by"})
    BY <1>1, <1>4 DEF JournalType, Agree
  <1> HIDE DEF l
  <1>6. m \in JournalType /\ m.prep = None /\ Agree(l, m, {"prep"})
    BY <1>5 DEF JournalType, Agree
  <1> HIDE DEF m
  <1>7. /\ m \in JournalType /\ m.head = h /\ m.prep = None /\ m.by = i
        /\ Agree(j, m, {"head", "by", "prep"})
    BY <1>4, <1>5, <1>6 DEF Agree
  <1>8. /\ Fenced(m) \in JournalType
        /\ Fenced(m).epoch = m.epoch + 1
        /\ Fenced(m).owner = None
        /\ Agree(m, Fenced(m), {"epoch", "owner"})
    BY <1>7, FencedFields
  <1>9. /\ Fenced(m).head = h /\ Fenced(m).prep = None /\ Fenced(m).by = i
        /\ Fenced(m).epoch = j.epoch + 1
        /\ Agree(j, Fenced(m), {"head", "by", "prep", "epoch", "owner"})
    BY <1>7, <1>8 DEF Agree
  <1> QED
    BY <1>2, <1>3, <1>7, <1>8, <1>9 DEF h, i

\* amendment_abandoned settles the prepare and nothing else;
\* cancel.requested touches only the request.
LEMMA SettleFields ==
    ASSUME NEW j \in JournalType
    PROVE  /\ Abandon(j) \in JournalType /\ Abandon(j).prep = None
           /\ Agree(j, Abandon(j), {"prep"})
           /\ RequestCancel(j) \in JournalType /\ RequestCancel(j).cancel = TRUE
           /\ Agree(j, RequestCancel(j), {"cancel"})
  <1>1. /\ Abandon(j) \in JournalType /\ Abandon(j).prep = None
        /\ Agree(j, Abandon(j), {"prep"})
    BY DEF JournalType, Abandon, Agree
  <1>2. /\ RequestCancel(j) \in JournalType /\ RequestCancel(j).cancel = TRUE
        /\ Agree(j, RequestCancel(j), {"cancel"})
    BY DEF JournalType, RequestCancel, Agree
  <1> QED
    BY <1>1, <1>2

\* run.cancelled ends the run and may fence.
LEMMA CancelFields ==
    ASSUME NEW j \in JournalType
    PROVE  /\ Cancel(j, FALSE) \in JournalType
           /\ Cancel(j, FALSE).run = "cancelled"
           /\ Agree(j, Cancel(j, FALSE), {"run"})
           /\ Cancel(j, TRUE) \in JournalType
           /\ Cancel(j, TRUE).run = "cancelled"
           /\ Cancel(j, TRUE).epoch = j.epoch + 1
           /\ Cancel(j, TRUE).owner = None
           /\ Agree(j, Cancel(j, TRUE), {"run", "epoch", "owner"})
  <1> DEFINE k == [j EXCEPT !.run = "cancelled"]
  <1>1. Cancel(j, FALSE) = k
    <2>1. j.epoch = k.epoch /\ j.owner = k.owner
      BY DEF JournalType
    <2> QED
      BY <2>1 DEF Cancel, JournalType
  <1>2. Cancel(j, TRUE) = Fenced(k)
    BY DEF Cancel, Fenced, JournalType
  <1>3. k \in JournalType /\ k.run = "cancelled" /\ Agree(j, k, {"run"})
    BY DEF JournalType, Agree
  <1> HIDE DEF k
  <1>4. /\ Fenced(k) \in JournalType
        /\ Fenced(k).epoch = k.epoch + 1
        /\ Fenced(k).owner = None
        /\ Agree(k, Fenced(k), {"epoch", "owner"})
    BY <1>3, FencedFields
  <1>5. /\ Fenced(k).run = "cancelled"
        /\ Fenced(k).epoch = j.epoch + 1
        /\ Agree(j, Fenced(k), {"run", "epoch", "owner"})
    BY <1>3, <1>4 DEF Agree
  <1> QED
    BY <1>1, <1>2, <1>3, <1>4, <1>5

-----------------------------------------------------------------------------
(* How a step moves its process. *)

\* A process that has done nothing remembers nothing.
LEMMA InitialMemory == JournalInit \in JournalType /\ Fresh \in Memory
  <1>1. JournalInit \in JournalType
    BY DEF JournalType, JournalInit
  <1> QED
    BY <1>1 DEF Fresh, Memory

\* Moving to a label forgets only what the label does not use.
LEMMA KeptMemory ==
    ASSUME NEW l, NEW m \in Memory
    PROVE  Kept(l, m) \in Memory
  BY InitialMemory DEF Kept, Memory

\* A step of one process keeps every label and memory well typed.
LEMMA Moves ==
    ASSUME TypeOK, NEW p \in Proc, NEW l \in Free \cup Held, NEW m \in Memory,
           Step(p, l, m)
    PROVE  /\ pc' \in [Proc -> Free \cup Held]
           /\ me' \in [Proc -> Memory]
           /\ pc'[p] = l
           /\ \A q \in Proc \ {p} : pc'[q] = pc[q]
  BY KeptMemory DEF TypeOK, Step

\* No label is both inside and outside a locked region.
LEMMA LabelsAreDisjoint == Free \cap Held = {}
  BY DEF Free, Held

\* The shapes of a step with respect to the lock.
Locking(p, l) ==
    \/ pc[p] \in Free /\ l \in Free /\ lock' = lock
    \/ lock = None /\ lock' = p /\ l \in Held
    \/ lock = p /\ lock' = p /\ l \in Held
    \/ lock = p /\ lock' = None /\ l \in Free

\* A step that takes, keeps, gives back or ignores the lock, and moves its
\* process accordingly, keeps the lock with the process in a region.
LEMMA LockStep ==
    ASSUME TypeOK, LockInv, NEW p \in Proc, NEW l \in Free \cup Held,
           pc'[p] = l, \A q \in Proc \ {p} : pc'[q] = pc[q],
           Locking(p, l)
    PROVE  LockInv'
  BY LabelsAreDisjoint, NoneIsNothing DEF TypeOK, LockInv, Locking

\* The part of TypeOK that is not about the processes.
StateType ==
    /\ jr \in JournalType
    /\ lease \in Leases \cup {None}
    /\ sidecar \in [Proc -> Leases \cup {None}]
    /\ plans \subseteq Proc
    /\ scores \subseteq Nat \X (Proc \cup {Root})
    /\ quar \subseteq Nat \X (Proc \cup {Root})
    /\ sessions \subseteq Nat

JournalInv == PrepareInv /\ GrantInv /\ LeaseHasGrant

\* A label outside every locked region relies on nothing.
LEMMA FreeRegion ==
    ASSUME NEW p, NEW l \in Free, NEW j, NEW ls
    PROVE  Region(p, l, j, ls)
  BY DEF Free, Region

\* The invariant survives a step of one process that keeps to the lock, if
\* the state it leaves is well formed and its own region's assumptions hold:
\* whoever else is in a region keeps the lock, so that the step did not touch
\* the journal and the lease.
LEMMA Preserve ==
    ASSUME IInv, NEW p \in Proc, NEW l \in Free \cup Held, NEW m \in Memory,
           Step(p, l, m), Locking(p, l),
           StateType', JournalInv', Region(p, l, jr', lease'),
           (jr' = jr /\ lease' = lease) \/ lock \in {None, p},
           \A q \in Proc \ {p} : Prepared(q)' => Prepared(q),
           l \in Unprepared => ~Prepared(p)'
    PROVE  IInv'
  <1>1. /\ pc' \in [Proc -> Free \cup Held]
        /\ me' \in [Proc -> Memory]
        /\ pc'[p] = l
        /\ \A q \in Proc \ {p} : pc'[q] = pc[q]
    BY Moves DEF IInv
  <1>2. LockInv'
    BY <1>1, LockStep DEF IInv
  <1>3. lock' \in Proc \cup {None}
    BY DEF Locking, IInv, TypeOK
  <1>4. TypeOK'
    BY <1>1, <1>3 DEF StateType, TypeOK
  <1>5. RegionInv'
    <2> SUFFICES ASSUME NEW q \in Proc, q # p
                 PROVE  Region(q, pc[q], jr', lease')
      BY <1>1 DEF RegionInv
    <2>1. CASE jr' = jr /\ lease' = lease
      BY <2>1 DEF IInv, RegionInv
    <2>2. CASE lock \in {None, p}
      <3>1. pc[q] \notin Held
        BY <2>2, NoneIsNothing DEF IInv, LockInv
      <3>2. pc[q] \in Free
        BY <3>1 DEF IInv, TypeOK
      <3> QED
        BY <3>2, FreeRegion
    <2> QED
      BY <2>1, <2>2
  <1>6. UnpreparedInv'
    BY <1>1 DEF IInv, UnpreparedInv
  <1> QED
    BY <1>2, <1>4, <1>5, <1>6 DEF IInv, JournalInv

\* A step that leaves the journal alone, and the lease too or removes it.
LEMMA PreserveFiles ==
    ASSUME IInv, NEW p \in Proc, NEW l \in Free \cup Held, NEW m \in Memory,
           Step(p, l, m), Locking(p, l),
           jr' = jr,
           lease' = lease \/ (lease' = None /\ lock \in {None, p}),
           sidecar' \in [Proc -> Leases \cup {None}],
           plans' \subseteq Proc,
           scores' \subseteq Nat \X (Proc \cup {Root}),
           quar' \subseteq Nat \X (Proc \cup {Root}),
           sessions' \subseteq Nat,
           Region(p, l, jr, lease'),
           l \in Unprepared => ~Prepared(p)
    PROVE  IInv'
  <1>1. StateType'
    BY DEF IInv, TypeOK, StateType
  <1>2. JournalInv'
    BY DEF IInv, JournalInv, PrepareInv, GrantInv, LeaseHasGrant, Terminal
  <1>3. \A q \in Proc : Prepared(q)' = Prepared(q)
    BY DEF Prepared
  <1> QED
    BY <1>1, <1>2, <1>3, Preserve

\* A step that only looks, outside every region.
LEMMA PreserveLook ==
    ASSUME IInv, NEW p \in Proc, NEW l \in Free, NEW m \in Memory,
           Step(p, l, m), pc[p] \in Free, NoEffect,
           l \in Unprepared => ~Prepared(p)
    PROVE  IInv'
  <1>1. Locking(p, l)
    BY DEF Locking, NoEffect
  <1>2. Region(p, l, jr, lease')
    BY FreeRegion
  <1> QED
    BY <1>1, <1>2, PreserveFiles DEF NoEffect, files, IInv, TypeOK

\* A step that appends one event under the lock and touches no file.
LEMMA PreserveAppend ==
    ASSUME IInv, NEW p \in Proc, NEW l \in Free \cup Held, NEW m \in Memory,
           Step(p, l, m), Locking(p, l), lock \in {None, p},
           NEW j \in JournalType, jr' = j, j.refs = jr.refs,
           UNCHANGED files, sessions' \subseteq Nat,
           JournalInv', Region(p, l, j, lease),
           l \notin Unprepared
    PROVE  IInv'
  <1>1. StateType'
    BY DEF IInv, TypeOK, StateType, files
  <1>2. \A q \in Proc : Prepared(q)' = Prepared(q)
    BY DEF Prepared
  <1>3. Region(p, l, jr', lease')
    BY DEF files
  <1> QED
    BY <1>1, <1>2, <1>3, Preserve

\* The memories that steps write.
LEMMA Memories ==
    ASSUME IInv, NEW p \in Proc
    PROVE  /\ me[p] \in Memory
           /\ [me[p] EXCEPT !.seen = jr] \in Memory
           /\ [me[p] EXCEPT !.want = lease] \in Memory
           /\ [me[p] EXCEPT !.want = None] \in Memory
           /\ [me[p] EXCEPT !.cleaned = TRUE] \in Memory
           /\ [me[p] EXCEPT !.cleaned = FALSE] \in Memory
           /\ [me[p] EXCEPT !.seen = jr, !.want = lease] \in Memory
           /\ [me[p] EXCEPT !.cleaned = FALSE, !.final = TRUE] \in Memory
           /\ \A t \in Leases : [me[p] EXCEPT !.tenure = t] \in Memory
  <1>1. me[p] \in Memory /\ jr \in JournalType /\ lease \in Leases \cup {None}
    BY DEF IInv, TypeOK
  <1>2. /\ [me[p] EXCEPT !.seen = jr] \in Memory
        /\ [me[p] EXCEPT !.want = lease] \in Memory
        /\ [me[p] EXCEPT !.want = None] \in Memory
    BY <1>1 DEF Memory
  <1>3. /\ [me[p] EXCEPT !.cleaned = TRUE] \in Memory
        /\ [me[p] EXCEPT !.cleaned = FALSE] \in Memory
    BY <1>1 DEF Memory
  <1>4. /\ [me[p] EXCEPT !.seen = jr, !.want = lease] \in Memory
        /\ [me[p] EXCEPT !.cleaned = FALSE, !.final = TRUE] \in Memory
    BY <1>1 DEF Memory
  <1>5. \A t \in Leases : [me[p] EXCEPT !.tenure = t] \in Memory
    BY <1>1 DEF Memory
  <1> QED
    BY <1>1, <1>2, <1>3, <1>4, <1>5

\* A command that quits, from outside every region.
LEMMA PreserveQuit ==
    ASSUME IInv, NEW p \in Proc, Quit(p), pc[p] \in Free, NoEffect
    PROVE  IInv'
  <1>1. QuitLabel(p) \in Free /\ QuitLabel(p) \notin Unprepared
    BY DEF QuitLabel, Free, Unprepared
  <1> QED
    BY <1>1, Memories, PreserveLook DEF Quit, Goto

-----------------------------------------------------------------------------
(* One step per action. *)

\* A command begins outside every region.
LEMMA StartStep ==
    ASSUME IInv, NEW p \in Proc, Start(p)
    PROVE  IInv'
  <1> DEFINE l == CASE p \in Runners -> "acquire"
                    [] p \in Resumers -> "load1"
                    [] p \in Approvers -> "aload"
                    [] p \in Cancellers -> "creq"
  <1>1. l \in {"acquire", "load1", "aload", "creq"}
    BY DEF Proc
  <1>2. ~Prepared(p) /\ pc[p] \in Free
    BY DEF Start, IInv, UnpreparedInv, Unprepared, Free
  <1>3. l \in Free
    BY <1>1 DEF Free
  <1>4. Step(p, l, me[p]) /\ NoEffect
    BY DEF Start, Goto
  <1> HIDE DEF l
  <1> QED
    BY <1>2, <1>3, <1>4, Memories, PreserveLook

\* A process may die at any of its steps.
LEMMA CrashStep ==
    ASSUME IInv, NEW p \in Proc, Crash(p)
    PROVE  IInv'
  <1>1. Step(p, "dead", me[p]) /\ "dead" \in Free /\ "dead" \notin Unprepared
    BY DEF Crash, Goto, Free, Unprepared
  <1>2. lock = p <=> pc[p] \in Held
    BY DEF IInv, LockInv
  <1>3. Locking(p, "dead")
    BY <1>1, <1>2 DEF Crash, Locking, IInv, TypeOK
  <1> QED
    BY <1>1, <1>3, Memories, FreeRegion, PreserveFiles
    DEF Crash, files, IInv, TypeOK

\* Driver.Release removes no lease but its own.
LEMMA ReleaseStep ==
    ASSUME IInv, NEW p \in Proc, Release(p)
    PROVE  IInv'
  <1>1. Step(p, "dead", me[p]) /\ "dead" \in Free /\ "dead" \notin Unprepared
    BY DEF Release, Goto, Free, Unprepared
  <1>2. Locking(p, "dead")
    BY <1>1 DEF Release, Locking, Alone, Free
  <1> QED
    BY <1>1, <1>2, Memories, FreeRegion, PreserveFiles
    DEF Release, Alone, IInv, TypeOK

\* AcquireDriver, first write: authority.granted.
LEMMA AcquireStep ==
    ASSUME IInv, NEW p \in Proc, Acquire(p)
    PROVE  IInv'
  <1>1. CASE CanGrant(jr) /\ lease = None
    <2>1. /\ Grant(jr, p) \in JournalType
          /\ Grant(jr, p).epoch = jr.epoch + 1
          /\ Grant(jr, p).owner = p
          /\ Agree(jr, Grant(jr, p), {"epoch", "owner"})
      BY GrantFields DEF IInv, TypeOK
    <2>2. Step(p, "lease", me[p]) /\ jr' = Grant(jr, p) /\ UNCHANGED <<files, sessions>>
      BY <1>1 DEF Acquire, Goto, Append
    <2>3. Locking(p, "lease") /\ lock \in {None, p} /\ "lease" \in Held /\ "lease" \notin Unprepared
      BY <1>1 DEF Acquire, TakeLock, Locking, Held, Unprepared
    <2>4. JournalInv'
      BY <1>1, <2>1, <2>2
      DEF JournalInv, PrepareInv, GrantInv, LeaseHasGrant, CanGrant, BarrierUp,
          Agree, files, IInv, TypeOK, JournalType
    <2>5. Region(p, "lease", Grant(jr, p), lease)
      BY <1>1, <2>1 DEF Region, CanGrant, BarrierUp, Terminal, Agree
    <2> QED
      BY <2>1, <2>2, <2>3, <2>4, <2>5, Memories, PreserveAppend
      DEF Agree, IInv, TypeOK
  <1>2. CASE ~(CanGrant(jr) /\ lease = None)
    BY <1>2, Memories, PreserveLook
    DEF Acquire, Goto, Alone, NoEffect, Free, Unprepared
  <1> QED
    BY <1>1, <1>2

\* AcquireDriver, second write: driver.lease, at the granted epoch.
LEMMA CreateLeaseStep ==
    ASSUME IInv, NEW p \in Proc, CreateLease(p)
    PROVE  IInv'
  <1> DEFINE t == [epoch |-> jr.epoch, owner |-> p]
             l == IF p \in Runners \/ Prepared(p) THEN "watch" ELSE "load1"
  <1>1. lock = p /\ lock' = None /\ lease' = t /\ jr' = jr
    BY DEF CreateLease, DropLock
  <1>2. jr.owner = p
    <2>1. Region(p, "lease", jr, lease)
      BY DEF CreateLease, IInv, RegionInv
    <2> QED
      BY <2>1 DEF Region
  <1>3. t \in Leases
    <2>1. jr.epoch \in Nat \ {0}
      BY <1>2, NoneIsNothing DEF IInv, GrantInv, TypeOK, JournalType
    <2> QED
      BY <2>1 DEF Leases
  <1>4. Step(p, l, [me[p] EXCEPT !.tenure = t])
    BY <1>1 DEF CreateLease
  <1>5. l \in Free /\ l \notin Unprepared
    BY DEF Free, Unprepared
  <1>6. Locking(p, l)
    BY <1>1, <1>5 DEF Locking
  <1>7. StateType'
    BY <1>1, <1>3 DEF CreateLease, StateType, IInv, TypeOK
  <1>8. JournalInv'
    <2>1. t.epoch = jr.epoch /\ t.owner = p /\ jr.epoch \in Nat
      BY DEF IInv, TypeOK, JournalType
    <2> QED
      BY <1>1, <1>2, <2>1
      DEF JournalInv, PrepareInv, GrantInv, LeaseHasGrant, IInv, Terminal
  <1>9. \A q \in Proc : Prepared(q)' = Prepared(q)
    BY <1>1 DEF Prepared
  <1>10. Region(p, l, jr', lease')
    BY <1>5, FreeRegion
  <1>11. [me[p] EXCEPT !.tenure = t] \in Memory
    BY <1>3, Memories
  <1> HIDE DEF t, l
  <1> QED
    BY <1>1, <1>4, <1>5, <1>6, <1>7, <1>8, <1>9, <1>10, <1>11, Preserve

\* ReclaimDeadRecoveryDriver, first write: the dead lease is removed.
LEMMA ReclaimStep ==
    ASSUME IInv, NEW p \in Proc, Reclaim(p)
    PROVE  IInv'
  <1>1. pc[p] \in Free
    BY DEF Reclaim, Free
  <1>2. CASE TakeLock(p) /\ lease' = None /\ Goto(p, "regrant")
             /\ UNCHANGED <<jr, sidecar, plans, scores, quar, sessions>>
    <2>1. /\ Step(p, "regrant", me[p]) /\ Locking(p, "regrant")
          /\ lock = None /\ "regrant" \in Held /\ "regrant" \notin Unprepared
      BY <1>2 DEF Goto, TakeLock, Locking, Held, Unprepared
    <2>2. Region(p, "regrant", jr, None)
      BY DEF Region
    <2> QED
      BY <1>2, <2>1, <2>2, Memories, PreserveFiles DEF IInv, TypeOK
  <1>3. CASE Alone /\ Quit(p) /\ UNCHANGED <<jr, files, sessions>>
    BY <1>1, <1>3, PreserveQuit DEF NoEffect, Alone
  <1> QED
    BY <1>2, <1>3 DEF Reclaim

\* ReclaimDeadRecoveryDriver, second write: authority.granted, if legal.
LEMMA RegrantStep ==
    ASSUME IInv, NEW p \in Proc, Regrant(p)
    PROVE  IInv'
  <1>1. lease = None
    <2>1. Region(p, "regrant", jr, lease)
      BY DEF Regrant, IInv, RegionInv
    <2> QED
      BY <2>1 DEF Region
  <1>2. CASE CanGrant(jr)
    <2>1. /\ Grant(jr, p) \in JournalType
          /\ Grant(jr, p).epoch = jr.epoch + 1
          /\ Grant(jr, p).owner = p
          /\ Agree(jr, Grant(jr, p), {"epoch", "owner"})
      BY GrantFields DEF IInv, TypeOK
    <2>2. /\ Step(p, "lease", me[p])
          /\ jr' = Grant(jr, p) /\ UNCHANGED <<files, sessions>>
      BY <1>2 DEF Regrant, Goto, Append
    <2>3. /\ Locking(p, "lease") /\ lock \in {None, p}
          /\ "lease" \in Held /\ "lease" \notin Unprepared
      BY <1>2 DEF Regrant, KeepLock, Locking, Held, Unprepared
    <2>4. JournalInv'
      BY <1>1, <1>2, <2>1, <2>2
      DEF JournalInv, PrepareInv, GrantInv, LeaseHasGrant, CanGrant, BarrierUp,
          Agree, files, IInv, TypeOK, JournalType
    <2>5. Region(p, "lease", Grant(jr, p), lease)
      BY <1>1, <1>2, <2>1 DEF Region, CanGrant, BarrierUp, Terminal, Agree
    <2> QED
      BY <2>1, <2>2, <2>3, <2>4, <2>5, Memories, PreserveAppend
      DEF Agree, IInv, TypeOK
  <1>3. CASE ~CanGrant(jr)
    <2> DEFINE l == QuitLabel(p)
    <2>1. l \in Free /\ l \notin Unprepared
      BY DEF QuitLabel, Free, Unprepared
    <2>2. Step(p, l, me[p]) /\ Locking(p, l)
      BY <1>3, <2>1 DEF Regrant, Quit, Goto, DropLock, Locking
    <2> QED
      BY <1>3, <2>1, <2>2, Memories, FreeRegion, PreserveFiles
      DEF Regrant, files, IInv, TypeOK
  <1> QED
    BY <1>2, <1>3

\* A recovery pass: its reads, cleanups and lease removals.
LEMMA RecoveringStep ==
    ASSUME IInv, NEW p \in Proc, Recovering(p)
    PROVE  IInv'
  <1>1. CASE LoadRunInput(p)
    BY <1>1, Memories, PreserveLook DEF LoadRunInput, Read, Free, Unprepared
  <1>2. CASE Collect(p)
    <2> DEFINE l == Plan(p)
    <2>1. pc[p] \in Free /\ NoEffect
      BY <1>2 DEF Collect, Free
    <2>2. l \in {"tclean", "stale", "orphan", "refuse", "xload", "commit",
                 "halt", "drive", "load1", "acquire", "reclaim"}
      BY DEF Plan
    <2>3. CASE Quit(p)
      BY <2>1, <2>3, PreserveQuit
    <2>4. CASE Goto(p, "dead") \/ Goto(p, "cleanup") \/ Goto(p, "refused")
      BY <2>1, <2>4, Memories, PreserveLook DEF Goto, Free, Unprepared
    <2>5. CASE /\ l \notin {"halt", "refuse"}
               /\ Step(p, l, [me[p] EXCEPT !.want = lease])
      <3>1. l \in Free /\ l \notin Unprepared
        BY <2>2, <2>5 DEF Free, Unprepared
      <3> HIDE DEF l
      <3> QED
        BY <2>1, <2>5, <3>1, Memories, PreserveLook
    <2> QED
      BY <1>2, <2>3, <2>4, <2>5 DEF Collect
  <1>3. CASE ReturnWaitingHuman(p)
    BY <1>3, PreserveQuit DEF ReturnWaitingHuman, Free
  <1>4. CASE Cleanup(p)
    <2>1. /\ Step(p, "cleanplan", me[p]) /\ Locking(p, "cleanplan")
          /\ "cleanplan" \in Held /\ "cleanplan" \notin Unprepared
      BY <1>4 DEF Cleanup, Goto, TakeLock, Locking, Held, Unprepared
    <2>2. Region(p, "cleanplan", jr, lease)
      BY DEF Region
    <2> QED
      BY <1>4, <2>1, <2>2, Memories, PreserveFiles
      DEF Cleanup, Unreferenced, IInv, TypeOK
  <1>5. CASE CleanPlans(p)
    <2>1. \/ Step(p, "dead", me[p])
          \/ Step(p, "load1", [me[p] EXCEPT !.cleaned = TRUE])
      BY <1>5 DEF CleanPlans, Goto
    <2>2. /\ Locking(p, "dead") /\ Locking(p, "load1")
          /\ "dead" \in Free \ Unprepared /\ "load1" \in Free \ Unprepared
      BY <1>5 DEF CleanPlans, DropLock, Locking, Free, Unprepared
    <2> QED
      BY <1>5, <2>1, <2>2, Memories, FreeRegion, PreserveFiles
      DEF CleanPlans, IInv, TypeOK
  <1>6. CASE RemoveStaleLease(p) \/ QuarantineOrphanLease(p)
    <2>1. /\ pc[p] \in Free /\ lock = None /\ lock' = None
          /\ UNCHANGED <<jr, sidecar, plans, scores, quar, sessions>>
      BY <1>6 DEF RemoveStaleLease, QuarantineOrphanLease, Free, Alone
    <2>2. CASE Quit(p) /\ UNCHANGED lease
      BY <2>1, <2>2, PreserveQuit DEF NoEffect, files
    <2>3. CASE Goto(p, "load1") /\ lease' = None
      <3>1. /\ Step(p, "load1", me[p]) /\ Locking(p, "load1")
            /\ "load1" \in Free \ Unprepared
        BY <2>1, <2>3 DEF Goto, Locking, Free, Unprepared
      <3> QED
        BY <2>1, <2>3, <3>1, Memories, FreeRegion, PreserveFiles
        DEF IInv, TypeOK
    <2> QED
      BY <1>6, <2>2, <2>3 DEF RemoveStaleLease, QuarantineOrphanLease
  <1>7. CASE TerminalCleanup(p)
    <2>1. /\ Step(p, "tside", me[p]) /\ Locking(p, "tside") /\ lock = None
          /\ "tside" \in Held \ Unprepared
      BY <1>7 DEF TerminalCleanup, Goto, TakeLock, Locking, Held, Unprepared
    <2>2. Region(p, "tside", jr, lease')
      BY DEF Region
    <2> QED
      BY <1>7, <2>1, <2>2, Memories, PreserveFiles
      DEF TerminalCleanup, IInv, TypeOK
  <1>8. CASE TerminalSidecars(p)
    <2>1. /\ Step(p, "tplan", me[p]) /\ Locking(p, "tplan")
          /\ "tplan" \in Held \ Unprepared
      BY <1>8 DEF TerminalSidecars, Goto, KeepLock, Locking, Held, Unprepared
    <2>2. Region(p, "tplan", jr, lease')
      BY DEF Region
    <2> QED
      BY <1>8, <2>1, <2>2, Memories, PreserveFiles
      DEF TerminalSidecars, IInv, TypeOK
  <1>9. CASE TerminalPlans(p)
    <2>1. \/ Step(p, "dead", me[p])
          \/ Step(p, "cleanup", [me[p] EXCEPT !.cleaned = TRUE])
      BY <1>9 DEF TerminalPlans, Goto
    <2>2. /\ Locking(p, "dead") /\ Locking(p, "cleanup")
          /\ "dead" \in Free \ Unprepared /\ "cleanup" \in Free \ Unprepared
      BY <1>9 DEF TerminalPlans, DropLock, Locking, Free, Unprepared
    <2> QED
      BY <1>9, <2>1, <2>2, Memories, FreeRegion, PreserveFiles
      DEF TerminalPlans, IInv, TypeOK
  <1> QED
    BY <1>1, <1>2, <1>3, <1>4, <1>5, <1>6, <1>7, <1>8, <1>9 DEF Recovering

\* The journal invariants survive an event that moves neither the authority
\* nor the head, in a run with no pending prepare or with the same one.
LEMMA SameAuthority ==
    ASSUME IInv, NEW j \in JournalType, jr' = j, UNCHANGED files,
           j.epoch = jr.epoch, j.owner = jr.owner, j.head = jr.head,
           \/ j.prep = None
           \/ j.prep = jr.prep /\ j.run = jr.run
    PROVE  JournalInv'
  BY DEF JournalInv, PrepareInv, GrantInv, LeaseHasGrant, Terminal, files,
         IInv

\* The first write of appendPrepare: the snapshot file.
LEMMA PublishSnapshotStep ==
    ASSUME IInv, NEW p \in Proc, PublishSnapshot(p), ~Prepared(p),
           NEW b, CanPrepare(jr, b), ~jr.cancel
    PROVE  IInv'
  <1>1. /\ Step(p, "pplan", me[p]) /\ Locking(p, "pplan")
        /\ "pplan" \in Held
    BY DEF PublishSnapshot, Goto, TakeLock, Locking, Held
  <1>2. Region(p, "pplan", jr, lease')
    BY DEF Region, CanPrepare
  <1>3. scores' \subseteq Nat \X (Proc \cup {Root})
    BY DEF PublishSnapshot, IInv, TypeOK, JournalType
  <1> QED
    BY <1>1, <1>2, <1>3, Memories, PreserveFiles
    DEF PublishSnapshot, IInv, TypeOK

\* The appends of a driver and the reads of its watcher.
LEMMA DrivingStep ==
    ASSUME IInv, NEW p \in Proc, Driving(p)
    PROVE  IInv'
  <1> DEFINE Plain(l) == l \in Free /\ l \notin Unprepared
  <1>1. Plain("drive") /\ Plain("load1") /\ Plain("xload") /\ Plain("ack1")
        /\ Plain("release") /\ Plain("watch") /\ Plain("dead")
    BY DEF Free, Unprepared
  <1>2. CASE Watch(p)
    BY <1>1, <1>2, Memories, PreserveLook DEF Watch, Goto, Read
  <1>3. ASSUME Drive(p)
        PROVE  /\ Step(p, "drive", me[p]) /\ Locking(p, "drive")
               /\ lock = None /\ jr.run = "running"
    BY <1>1, <1>3 DEF Drive, Goto, Alone, Locking, Authorized, Terminal
  <1>4. CASE OpenInterval(p)
    <2>1. /\ Open(jr) \in JournalType /\ Agree(jr, Open(jr), {"open"})
          /\ jr' = Open(jr) /\ UNCHANGED <<files, sessions>>
      BY <1>4, IntervalFields DEF OpenInterval, Append, IInv, TypeOK
    <2>2. JournalInv'
      BY <2>1, SameAuthority DEF Agree
    <2> QED
      BY <1>1, <1>3, <1>4, <2>1, <2>2, Memories, FreeRegion, PreserveAppend
      DEF OpenInterval, Agree, IInv, TypeOK
  <1>5. CASE StartSession(p)
    <2>1. lease.epoch \in Nat
      <3>1. Authorized(p)
        BY <1>5 DEF StartSession, Drive
      <3> QED
        BY <3>1 DEF Authorized, IInv, TypeOK, JournalType
    <2>2. /\ RecordSession(jr, lease.epoch) \in JournalType
          /\ Agree(jr, RecordSession(jr, lease.epoch), {"recorded"})
          /\ jr' = RecordSession(jr, lease.epoch) /\ UNCHANGED files
          /\ sessions' \subseteq Nat
      BY <1>5, <2>1, RecordFields DEF StartSession, IInv, TypeOK
    <2>3. JournalInv'
      BY <2>2, SameAuthority DEF Agree
    <2> QED
      BY <1>1, <1>3, <1>5, <2>2, <2>3, Memories, FreeRegion, PreserveAppend
      DEF StartSession, Agree
  <1>6. CASE SweepSessions(p)
    <2>1. Step(p, "drive", me[p]) /\ Locking(p, "drive")
      BY <1>1, <1>6 DEF SweepSessions, Goto, Locking
    <2> QED
      BY <1>1, <1>6, <2>1, Memories, FreeRegion, PreserveFiles
      DEF SweepSessions, files, IInv, TypeOK
  <1>7. CASE CloseInterval(p)
    <2>1. /\ Stop(jr) \in JournalType /\ Agree(jr, Stop(jr), {"open"})
          /\ jr' = Stop(jr) /\ UNCHANGED <<files, sessions>>
      BY <1>7, IntervalFields DEF CloseInterval, Append, IInv, TypeOK
    <2>2. JournalInv'
      BY <2>1, SameAuthority DEF Agree
    <2> QED
      BY <1>1, <1>3, <1>7, <2>1, <2>2, Memories, FreeRegion, PreserveAppend
      DEF CloseInterval, Agree, IInv, TypeOK
  <1>8. CASE FinishRun(p)
    <2>1. /\ Finish(jr) \in JournalType /\ Agree(jr, Finish(jr), {"run"})
          /\ jr' = Finish(jr) /\ UNCHANGED <<files, sessions>>
      BY <1>8, FinishFields DEF FinishRun, Append, IInv, TypeOK
    <2>2. JournalInv'
      BY <1>8, <2>1, SameAuthority DEF Agree, FinishRun, CanFinish, BarrierUp
    <2>3. PICK l \in Free : l \notin Unprepared /\ Step(p, l, me[p])
      BY <1>1, <1>8 DEF FinishRun, Goto, Quit, QuitLabel
    <2>4. Locking(p, l) /\ lock = None
      BY <1>1, <1>8 DEF FinishRun, Alone, Locking
    <2> QED
      BY <2>1, <2>2, <2>3, <2>4, Memories, FreeRegion, PreserveAppend
      DEF Agree, IInv, TypeOK
  <1>9. CASE PauseRun(p)
    BY <1>1, <1>9, PreserveQuit DEF PauseRun
  <1>10. CASE Refused(p)
    <2>1. PICK l \in Free : l \notin Unprepared /\ Step(p, l, me[p])
      BY <1>1, <1>10 DEF Refused, Goto, Quit, QuitLabel
    <2>2. Locking(p, l)
      BY <1>1, <1>10 DEF Refused, Locking
    <2> QED
      BY <1>10, <2>1, <2>2, Memories, FreeRegion, PreserveFiles
      DEF Refused, files, IInv, TypeOK
  <1>11. CASE ObserveControl(p)
    BY <1>1, <1>11, Memories, PreserveLook DEF ObserveControl, Goto, Read
  <1>12. CASE Replan(p)
    BY <1>1, <1>12, Memories, PreserveLook DEF Replan, Goto
  <1>13. CASE DriverPrepare(p)
    BY <1>13, PublishSnapshotStep DEF DriverPrepare, CanBeginPrepare
  <1>14. CASE Release(p)
    BY <1>14, ReleaseStep
  <1> QED
    BY <1>2, <1>4, <1>5, <1>6, <1>7, <1>8, <1>9, <1>10, <1>11, <1>12, <1>13,
       <1>14 DEF Driving

\* AcknowledgePrepare: the receipts, the stop and the move of the lease.
LEMMA AcknowledgingStep ==
    ASSUME IInv, NEW p \in Proc, Acknowledging(p)
    PROVE  IInv'
  <1> DEFINE Plain(l) == l \in Free /\ l \notin Unprepared
  <1>1. Plain("ack1") /\ Plain("ack2") /\ Plain("ack3") /\ Plain("ack4")
        /\ Plain("ack5") /\ Plain("ack6") /\ Plain("xload") /\ Plain("commit")
        /\ Plain("dead") /\ Plain("load1")
    BY DEF Free, Unprepared
  <1>2. ASSUME AckFailed(p), pc[p] \in Free
        PROVE  IInv'
    BY <1>1, <1>2, Memories, PreserveQuit, PreserveLook DEF AckFailed, Goto
  <1>3. CASE AckBegin(p)
    BY <1>1, <1>2, <1>3, Memories, PreserveLook DEF AckBegin, Read
  <1>4. CASE AckReceipt(p)
    <2>1. pc[p] \in Free
      BY <1>1, <1>4 DEF AckReceipt
    <2>2. CASE (Goto(p, "ack3") \/ Goto(p, "ack5")) /\ NoEffect
      BY <1>1, <2>1, <2>2, Memories, PreserveLook DEF Goto
    <2> QED
      BY <1>2, <1>4, <2>1, <2>2 DEF AckReceipt
  <1>5. CASE AckSweep(p)
    <2>1. Step(p, "ack4", me[p]) /\ Locking(p, "ack4")
      BY <1>1, <1>5 DEF AckSweep, Goto, Locking
    <2> QED
      BY <1>1, <1>5, <2>1, Memories, FreeRegion, PreserveFiles
      DEF AckSweep, files, IInv, TypeOK
  <1>6. CASE AckSweepFails(p)
    BY <1>1, <1>2, <1>6 DEF AckSweepFails
  <1>7. CASE AckStop(p)
    <2>1. CASE Goto(p, "ack6") /\ NoEffect
      BY <1>1, <1>7, <2>1, Memories, PreserveLook DEF AckStop, Goto
    <2>2. CASE Alone /\ Goto(p, "ack6") /\ Append(Stop(jr))
      <3>1. /\ Stop(jr) \in JournalType /\ Agree(jr, Stop(jr), {"open"})
            /\ jr' = Stop(jr) /\ UNCHANGED <<files, sessions>>
        BY <2>2, IntervalFields DEF Append, IInv, TypeOK
      <3>2. JournalInv'
        BY <3>1, SameAuthority DEF Agree
      <3>3. Step(p, "ack6", me[p]) /\ Locking(p, "ack6") /\ lock = None
        BY <1>1, <1>7, <2>2 DEF AckStop, Goto, Alone, Locking
      <3> QED
        BY <1>1, <3>1, <3>2, <3>3, Memories, FreeRegion, PreserveAppend
        DEF Agree, IInv, TypeOK
    <2>3. CASE AckFailed(p)
      BY <1>1, <1>2, <1>7, <2>3 DEF AckStop
    <2> QED
      BY <1>7, <2>1, <2>2, <2>3 DEF AckStop
  <1>8. CASE AckMove(p)
    <2>1. pc[p] \in Free
      BY <1>1, <1>8 DEF AckMove
    <2>2. CASE AckFailed(p)
      BY <1>2, <2>1, <2>2
    <2>3. CASE ~AckFailed(p)
      <3>1. /\ Alone /\ lease' = None
            /\ sidecar' = [sidecar EXCEPT ![jr.prep.id] = lease]
            /\ UNCHANGED <<jr, plans, scores, quar, sessions>>
            /\ \/ Step(p, "commit", me[p]) \/ Step(p, "dead", me[p])
               \/ Step(p, "load1", me[p])
        BY <1>8, <2>3 DEF AckMove, Goto
      <3>2. sidecar' \in [Proc -> Leases \cup {None}]
        BY <3>1 DEF IInv, TypeOK
      <3>3. PICK l \in Free : l \notin Unprepared /\ Step(p, l, me[p])
        BY <1>1, <3>1
      <3>4. Locking(p, l) /\ lock = None
        BY <2>1, <3>1 DEF Alone, Locking
      <3> QED
        BY <3>1, <3>2, <3>3, <3>4, Memories, FreeRegion, PreserveFiles
        DEF IInv, TypeOK
    <2> QED
      BY <2>2, <2>3
  <1> QED
    BY <1>3, <1>4, <1>5, <1>6, <1>7, <1>8 DEF Acknowledging

\* appendPrepare: the snapshot, the plan, approval_prepared.
LEMMA PreparingStep ==
    ASSUME IInv, NEW p \in Proc, Preparing(p)
    PROVE  IInv'
  <1>1. pc[p] \in {"aload", "aprep", "pplan", "pappend"}
    BY DEF Preparing, LoadProposal, ApproverPrepare, PublishPlan,
           AppendPrepared
  <1>2. ~Prepared(p)
    BY <1>1 DEF IInv, UnpreparedInv, Unprepared
  <1>3. CASE LoadProposal(p)
    BY <1>2, <1>3, Memories, PreserveLook DEF LoadProposal, Read, Free
  <1>4. CASE ApproverPrepare(p)
    <2>1. CASE CanBeginPrepare(p, me[p].seen.head)
      BY <1>2, <1>4, <2>1, PublishSnapshotStep
      DEF ApproverPrepare, CanBeginPrepare
    <2>2. CASE ~CanBeginPrepare(p, me[p].seen.head)
      BY <1>4, <2>2, PreserveQuit
      DEF ApproverPrepare, Alone, NoEffect, Free
    <2> QED
      BY <2>1, <2>2
  <1>5. CASE PublishPlan(p)
    <2>1. /\ Step(p, "pappend", me[p]) /\ Locking(p, "pappend")
          /\ "pappend" \in Held
      BY <1>5 DEF PublishPlan, Goto, KeepLock, Locking, Held
    <2>2. Region(p, "pappend", jr, lease')
      <3>1. Region(p, "pplan", jr, lease)
        BY <1>5 DEF PublishPlan, IInv, RegionInv
      <3> QED
        BY <3>1 DEF Region
    <2> QED
      BY <1>2, <1>5, <2>1, <2>2, Memories, PreserveFiles
      DEF PublishPlan, IInv, TypeOK
  <1>6. CASE AppendPrepared(p)
    <2>1. CanPrepare(jr, jr.head)
      <3>1. Region(p, "pappend", jr, lease)
        BY <1>6 DEF AppendPrepared, IInv, RegionInv
      <3> QED
        BY <3>1 DEF Region
    <2>2. /\ jr' = Prepare(jr, p) /\ UNCHANGED <<files, sessions>>
          /\ lock = p /\ lock' = None
      BY <1>6 DEF AppendPrepared, Append, DropLock
    <2>3. /\ jr' \in JournalType
          /\ jr'.prep = [id |-> p, epoch |-> jr.epoch, base |-> jr.head]
          /\ jr'.refs = jr.refs \cup {<<jr.head + 1, p>>}
          /\ Agree(jr, jr', {"prep", "refs"})
      BY <2>2, PrepareFields DEF IInv, TypeOK
    <2>4. StateType'
      BY <2>2, <2>3 DEF StateType, files, IInv, TypeOK
    <2>5. JournalInv'
      <3>1. jr'.prep.base = jr.head /\ jr'.prep.epoch = jr.epoch
        BY <2>3
      <3> QED
        BY <2>1, <2>2, <2>3, <3>1
        DEF JournalInv, PrepareInv, GrantInv, LeaseHasGrant, CanPrepare,
            Terminal, Agree, files, IInv
    <2>6. \A q \in Proc \ {p} : Prepared(q)' => Prepared(q)
      <3> SUFFICES ASSUME NEW q \in Proc, q # p, NEW r \in jr'.refs, r[2] = q
                   PROVE  \E s \in jr.refs : s[2] = q
        BY DEF Prepared
      <3>1. r # <<jr.head + 1, p>>
        OBVIOUS
      <3> QED
        BY <2>3, <3>1
    <2>7. PICK l \in {"commit", "ack1"}, m \in Memory : Step(p, l, m)
      <3>1. [me[p] EXCEPT !.seen = jr'] \in Memory
        BY <2>3, Memories DEF Memory
      <3> QED
        BY <1>6, <3>1, Memories DEF AppendPrepared, Goto
    <2>8. l \in Free /\ l \notin Unprepared
      BY DEF Free, Unprepared
    <2>9. Locking(p, l)
      BY <2>2, <2>8 DEF Locking
    <2> QED
      BY <2>2, <2>4, <2>5, <2>6, <2>7, <2>8, <2>9, FreeRegion, Preserve
  <1> QED
    BY <1>3, <1>4, <1>5, <1>6 DEF Preparing

\* Killing a process is a step of two: the killer moves on, the victim is
\* gone and the kernel has released its lock.
LEMMA PreserveKill ==
    ASSUME IInv, NEW p \in Proc, NEW q \in Proc, NEW l \in Free,
           l \notin Unprepared, NEW m \in Memory,
           pc[p] \in Free, Live(q),
           pc' = [pc EXCEPT ![p] = l, ![q] = "dead"],
           me' = [me EXCEPT ![p] = Kept(l, m), ![q] = Fresh],
           Kill(q), UNCHANGED <<jr, files, sessions>>
    PROVE  IInv'
  <1>1. "dead" \in Free /\ "dead" \notin Unprepared
    BY DEF Free, Unprepared
  <1>2. pc' \in [Proc -> Free \cup Held] /\ me' \in [Proc -> Memory]
    <2>1. Kept(l, m) \in Memory /\ Fresh \in Memory
      BY KeptMemory, InitialMemory
    <2> QED
      BY <1>1, <2>1 DEF IInv, TypeOK
  <1>3. /\ pc'[p] \in Free /\ pc'[p] \notin Unprepared
        /\ pc'[q] \in Free /\ pc'[q] \notin Unprepared
        /\ \A r \in Proc \ {p, q} : pc'[r] = pc[r]
    BY <1>1 DEF IInv, TypeOK
  <1>4. LockInv'
    BY <1>3, LabelsAreDisjoint, NoneIsNothing
    DEF IInv, LockInv, TypeOK, Kill
  <1>5. TypeOK'
    BY <1>2 DEF IInv, TypeOK, files, Kill
  <1>6. RegionInv'
    BY <1>3, FreeRegion DEF IInv, RegionInv, files
  <1>7. UnpreparedInv'
    BY <1>3 DEF IInv, UnpreparedInv, Prepared
  <1>8. PrepareInv' /\ GrantInv' /\ LeaseHasGrant'
    BY DEF IInv, PrepareInv, GrantInv, LeaseHasGrant, Terminal, files
  <1> QED
    BY <1>4, <1>5, <1>6, <1>7, <1>8 DEF IInv

\* The write of amendment.approved, fenced or not.
LEMMA ApproveStep ==
    ASSUME IInv, NEW p \in Proc, NEW m \in Memory, jr.prep # None,
           Step(p, "rmplan", m), lock \in {None, p}, lock' = p,
           UNCHANGED <<files, sessions>>,
           jr' = Approve(jr, FALSE) \/ jr' = Approve(jr, TRUE)
    PROVE  IInv'
  <1>1. /\ jr' \in JournalType
        /\ jr'.prep = None
        /\ jr'.refs = jr.refs
        /\ \/ jr'.epoch = jr.epoch /\ jr'.owner = jr.owner
           \/ jr'.epoch = jr.epoch + 1 /\ jr'.owner = None
    <2>1. jr \in JournalType
      BY DEF IInv, TypeOK
    <2>2. CASE jr' = Approve(jr, FALSE)
      BY <2>1, <2>2, ApproveFields DEF Agree
    <2>3. CASE jr' = Approve(jr, TRUE)
      BY <2>1, <2>3, ApproveFields DEF Agree
    <2> QED
      BY <2>2, <2>3
  <1>2. Locking(p, "rmplan") /\ "rmplan" \in Held \ Unprepared
    BY DEF Locking, Held, Unprepared
  <1>3. JournalInv'
    BY <1>1
    DEF JournalInv, PrepareInv, GrantInv, LeaseHasGrant, files, IInv, TypeOK,
        JournalType, Leases
  <1>4. Region(p, "rmplan", jr', lease)
    BY DEF Region
  <1> QED
    BY <1>1, <1>2, <1>3, <1>4, PreserveAppend DEF IInv, TypeOK

\* CompleteOrAbandonPrepare: the two commit paths and their removals.
LEMMA CommittingStep ==
    ASSUME IInv, NEW p \in Proc, Committing(p)
    PROVE  IInv'
  <1> DEFINE Plain(l) == l \in Free /\ l \notin Unprepared
  <1>1. Plain("commit") /\ Plain("fsweep") /\ Plain("fkill")
        /\ Plain("fcommit") /\ Plain("xload") /\ Plain("autoload")
        /\ Plain("acquire") /\ Plain("dead") /\ Plain("load1")
    BY DEF Free, Unprepared
  <1>2. CASE Commit(p)
    <2>1. pc[p] \in Free /\ lock = None
      BY <1>1, <1>2 DEF Commit
    <2>2. CASE Quit(p) /\ NoEffect
      BY <2>1, <2>2, PreserveQuit
    <2>3. CASE NoEffect /\ \/ Goto(p, "xload")
                           \/ Step(p, "fsweep", [me[p] EXCEPT !.seen = jr,
                                                              !.want = lease])
      BY <1>1, <2>1, <2>3, Memories, PreserveLook DEF Goto
    <2>4. CASE jr.prep # None /\ ApproveUnfenced(p)
      BY <2>1, <2>4, Memories, ApproveStep
      DEF ApproveUnfenced, Append, TakeLock, Goto
    <2> QED
      BY <1>2, <2>2, <2>3, <2>4 DEF Commit
  <1>3. CASE FenceSweep(p)
    <2>1. Step(p, "fkill", me[p]) /\ Locking(p, "fkill")
      BY <1>1, <1>3 DEF FenceSweep, Goto, Locking
    <2> QED
      BY <1>1, <1>3, <2>1, Memories, FreeRegion, PreserveFiles
      DEF FenceSweep, files, IInv, TypeOK
  <1>4. CASE FenceKill(p)
    <2> DEFINE q == me[p].want.owner
    <2>1. pc[p] \in Free /\ UNCHANGED <<jr, files, sessions>>
      BY <1>1, <1>4 DEF FenceKill
    <2>2. CASE Goto(p, "fcommit") /\ UNCHANGED lock
      BY <1>1, <2>1, <2>2, Memories, PreserveLook DEF Goto, NoEffect
    <2>3. CASE Quit(p) /\ UNCHANGED lock
      BY <2>1, <2>3, PreserveQuit DEF NoEffect
    <2>4. CASE /\ Live(q) /\ lease = me[p].want
               /\ pc' = [pc EXCEPT ![p] = "fcommit", ![q] = "dead"]
               /\ me' = [me EXCEPT ![p] = Kept("fcommit", @), ![q] = Fresh]
               /\ Kill(q)
      <3>1. me' = [me EXCEPT ![p] = Kept("fcommit", me[p]), ![q] = Fresh]
        BY <2>4
      <3>2. CASE q \in Proc
        BY <1>1, <2>1, <2>4, <3>1, <3>2, Memories, PreserveKill
      <3>3. CASE q \notin Proc
        <4>1. /\ pc' = [pc EXCEPT ![p] = "fcommit"]
              /\ me' = [me EXCEPT ![p] = Kept("fcommit", me[p])]
          BY <2>4, <3>1, <3>3 DEF IInv, TypeOK
        <4>2. Step(p, "fcommit", me[p])
          BY <4>1 DEF Step
        <4>3. lock' = lock \/ lock' = None
          BY <2>4 DEF Kill
        <4>4. lock # q \/ lock = None
          BY <3>3 DEF IInv, TypeOK
        <4> QED
          BY <1>1, <2>1, <2>4, <4>2, <4>3, <4>4, Memories, PreserveLook
          DEF NoEffect, Kill
      <3> QED
        BY <3>2, <3>3
    <2> QED
      BY <1>4, <2>2, <2>3, <2>4 DEF FenceKill
  <1>5. CASE FenceCommit(p)
    <2>1. pc[p] \in Free /\ lock = None
      BY <1>1, <1>5 DEF FenceCommit
    <2>2. CASE Quit(p) /\ NoEffect
      BY <2>1, <2>2, PreserveQuit
    <2>3. CASE /\ jr.prep # None /\ TakeLock(p)
               /\ Append(Approve(jr, FALSE))
               /\ Step(p, "rmplan", [me[p] EXCEPT !.want = None])
      BY <2>1, <2>3, Memories, ApproveStep DEF Append, TakeLock
    <2>4. CASE /\ jr.prep # None /\ ~jr.cancel /\ TakeLock(p)
               /\ Append(IF jr.open THEN Stop(jr) ELSE jr)
               /\ Goto(p, "fapprove")
      <3>1. /\ jr' \in JournalType /\ jr'.open = FALSE
            /\ Agree(jr, jr', {"open"}) /\ UNCHANGED <<files, sessions>>
        <4>1. CASE jr.open
          BY <2>4, <4>1, IntervalFields DEF Append, IInv, TypeOK
        <4>2. CASE ~jr.open
          BY <2>4, <4>2 DEF Append, IInv, TypeOK, Agree, JournalType
        <4> QED
          BY <4>1, <4>2
      <3>2. JournalInv'
        BY <3>1, SameAuthority DEF Agree
      <3>3. /\ Step(p, "fapprove", me[p]) /\ Locking(p, "fapprove")
            /\ "fapprove" \in Held \ Unprepared
        BY <2>4 DEF Goto, TakeLock, Locking, Held, Unprepared
      <3>4. Region(p, "fapprove", jr', lease)
        BY <2>4, <3>1 DEF Region, Agree
      <3> QED
        BY <2>1, <3>1, <3>2, <3>3, <3>4, Memories, PreserveAppend
        DEF Agree, IInv, TypeOK
    <2> QED
      BY <1>5, <2>2, <2>3, <2>4 DEF FenceCommit
  <1>6. CASE FenceApprove(p)
    <2>1. jr.prep # None
      <3>1. Region(p, "fapprove", jr, lease)
        BY <1>6 DEF FenceApprove, IInv, RegionInv
      <3> QED
        BY <3>1 DEF Region
    <2> QED
      BY <1>6, <2>1, Memories, ApproveStep
      DEF FenceApprove, KeepLock, Append, Goto
  <1>7. ASSUME RemovePlan(p)
        PROVE  IInv'
    <2>1. /\ Step(p, "rmside", me[p]) /\ Locking(p, "rmside")
          /\ "rmside" \in Held \ Unprepared
      BY <1>7 DEF RemovePlan, Goto, KeepLock, Locking, Held, Unprepared
    <2>2. Region(p, "rmside", jr, lease')
      BY DEF Region
    <2> QED
      BY <1>7, <2>1, <2>2, Memories, PreserveFiles DEF RemovePlan, IInv, TypeOK
  <1>8. CommittedLabel(p) \in Free /\ CommittedLabel(p) \notin Unprepared
    BY <1>1 DEF CommittedLabel
  <1>9. ASSUME RemoveSidecar(p)
        PROVE  IInv'
    <2>1. sidecar' \in [Proc -> Leases \cup {None}]
      BY <1>9 DEF RemoveSidecar, IInv, TypeOK
    <2>2. CASE DropLock(p) /\ Goto(p, CommittedLabel(p))
      <3>1. Locking(p, CommittedLabel(p))
        BY <1>8, <2>2 DEF DropLock, Locking
      <3> QED
        BY <1>8, <1>9, <2>1, <2>2, <3>1, Memories, FreeRegion, PreserveFiles
        DEF RemoveSidecar, Goto, IInv, TypeOK
    <2>3. CASE KeepLock(p) /\ Goto(p, "rmlease")
      <3>1. Locking(p, "rmlease") /\ "rmlease" \in Held \ Unprepared
        BY <2>3 DEF KeepLock, Locking, Held, Unprepared
      <3>2. Region(p, "rmlease", jr, lease')
        BY DEF Region
      <3> QED
        BY <1>9, <2>1, <2>3, <3>1, <3>2, Memories, PreserveFiles
        DEF RemoveSidecar, Goto, IInv, TypeOK
    <2> QED
      BY <1>9, <2>2, <2>3 DEF RemoveSidecar
  <1>10. ASSUME RemoveFencedLease(p)
         PROVE  IInv'
    <2>1. Locking(p, CommittedLabel(p)) /\ lock = p
      BY <1>8, <1>10 DEF RemoveFencedLease, DropLock, Locking
    <2> QED
      BY <1>8, <1>10, <2>1, Memories, FreeRegion, PreserveFiles
      DEF RemoveFencedLease, Goto, IInv, TypeOK
  <1>11. CASE AutoContinue(p)
    BY <1>1, <1>11, Memories, PreserveLook DEF AutoContinue, Goto
  <1> QED
    BY <1>2, <1>3, <1>4, <1>5, <1>6, <1>7, <1>9, <1>10, <1>11 DEF Committing

\* The cancellation oracle and the waiter of the cancel command.
LEMMA CancellingStep ==
    ASSUME IInv, NEW p \in Proc, Cancelling(p)
    PROVE  IInv'
  <1> DEFINE Plain(l) == l \in Free /\ l \notin Unprepared
  <1>1. Plain("creq") /\ Plain("refused") /\ Plain("ckill") /\ Plain("xload")
        /\ Plain("xsweep") /\ Plain("xlock") /\ Plain("dead")
        /\ Plain("load1") /\ Plain("release")
    BY DEF Free, Unprepared
  <1>2. CASE RequestCancellation(p)
    <2>1. /\ jr' \in JournalType /\ Agree(jr, jr', {"cancel"})
          /\ UNCHANGED <<files, sessions>>
      <3>1. CASE CanRequestCancel(jr)
        BY <1>2, <3>1, SettleFields
        DEF RequestCancellation, Append, IInv, TypeOK
      <3>2. CASE ~CanRequestCancel(jr)
        BY <1>2, <3>2 DEF RequestCancellation, Append, IInv, TypeOK, Agree
      <3> QED
        BY <3>1, <3>2
    <2>2. JournalInv'
      BY <2>1, SameAuthority DEF Agree
    <2>3. Step(p, "load1", me[p]) /\ Locking(p, "load1") /\ lock = None
      BY <1>1, <1>2 DEF RequestCancellation, Goto, Alone, Locking
    <2> QED
      BY <1>1, <2>1, <2>2, <2>3, Memories, FreeRegion, PreserveAppend
      DEF Agree, IInv, TypeOK
  <1>3. CASE CancelRetry(p)
    BY <1>1, <1>3, Memories, PreserveLook DEF CancelRetry
  <1>4. CASE CancelDeadline(p)
    BY <1>1, <1>4, Memories, PreserveLook DEF CancelDeadline, Read
  <1>5. CASE CancelTerminate(p)
    <2> DEFINE m == [me[p] EXCEPT !.cleaned = FALSE, !.final = TRUE]
    <2>1. /\ pc[p] \in Free /\ UNCHANGED <<jr, files, sessions>>
          /\ m \in Memory
      BY <1>1, <1>5, Memories DEF CancelTerminate
    <2>2. CASE Step(p, "load1", m) /\ UNCHANGED lock
      <3> HIDE DEF m
      <3> QED
        BY <1>1, <2>1, <2>2, PreserveLook DEF NoEffect
    <2>3. CASE /\ lease # None /\ Live(lease.owner)
               /\ pc' = [pc EXCEPT ![p] = "load1", ![lease.owner] = "dead"]
               /\ me' = [me EXCEPT ![p] = Kept("load1", m),
                                   ![lease.owner] = Fresh]
               /\ Kill(lease.owner)
      <3>1. lease.owner \in Proc
        BY <2>3 DEF IInv, TypeOK, Leases
      <3> HIDE DEF m
      <3> QED
        BY <1>1, <2>1, <2>3, <3>1, PreserveKill
    <2> QED
      BY <1>5, <2>2, <2>3 DEF CancelTerminate
  <1>6. CASE CancelLoad(p)
    BY <1>1, <1>6, Memories, PreserveLook, PreserveQuit DEF CancelLoad, Read
  <1>7. CASE CancelSweep(p)
    <2>1. Step(p, "xlock", me[p]) /\ Locking(p, "xlock")
      BY <1>1, <1>7 DEF CancelSweep, Goto, Locking
    <2> QED
      BY <1>1, <1>7, <2>1, Memories, FreeRegion, PreserveFiles
      DEF CancelSweep, files, IInv, TypeOK
  <1>8. CASE CancelEnter(p)
    <2>1. pc[p] \in Free /\ UNCHANGED <<jr, files, sessions>>
      BY <1>1, <1>8 DEF CancelEnter
    <2>2. CASE CanExecuteCancellation
      <3> DEFINE l == IF BarrierUp(jr) THEN "xsnap" ELSE "xstop"
      <3>1. /\ Step(p, l, me[p]) /\ Locking(p, l) /\ l \in Held
            /\ l \notin Unprepared
        BY <1>8, <2>2
        DEF CancelEnter, TakeLock, Goto, Locking, Held, Unprepared
      <3>2. Region(p, l, jr, lease)
        BY <2>2 DEF Region, CanExecuteCancellation, BarrierUp
      <3> HIDE DEF l
      <3> QED
        BY <2>1, <3>1, <3>2, Memories, PreserveFiles
        DEF files, IInv, TypeOK
    <2>3. CASE ~CanExecuteCancellation
      BY <1>8, <2>1, <2>3, PreserveQuit DEF CancelEnter, Alone, NoEffect
    <2> QED
      BY <2>2, <2>3
  <1>9. ASSUME CancelSnapshot(p)
        PROVE  IInv'
    <2> DEFINE s == <<jr.prep.base + 1, jr.prep.id>>
    <2>1. /\ UNCHANGED <<jr, lease, sidecar, plans, sessions>>
          /\ Region(p, "xsnap", jr, lease)
      BY <1>9 DEF CancelSnapshot, IInv, RegionInv
    <2>2. CASE /\ KeepLock(p) /\ scores' = scores \ {s}
               /\ quar' = quar \cup {s} /\ Goto(p, "xplan")
      <3>1. /\ Step(p, "xplan", me[p]) /\ Locking(p, "xplan")
            /\ "xplan" \in Held \ Unprepared
        BY <2>2 DEF Goto, KeepLock, Locking, Held, Unprepared
      <3>2. Region(p, "xplan", jr, lease)
        BY <2>1 DEF Region
      <3>3. s \in Nat \X (Proc \cup {Root})
        BY <2>1 DEF Region, IInv, TypeOK, JournalType, Prepares
      <3> HIDE DEF s
      <3> QED
        BY <2>1, <2>2, <3>1, <3>2, <3>3, Memories, PreserveFiles
        DEF IInv, TypeOK
    <2>3. CASE DropLock(p) /\ Quit(p) /\ UNCHANGED <<scores, quar>>
      <3>1. PICK l \in Free : l \notin Unprepared /\ Step(p, l, me[p])
        BY <1>1, <2>3 DEF Quit, Goto, QuitLabel
      <3>2. Locking(p, l)
        BY <2>3 DEF DropLock, Locking
      <3> QED
        BY <2>1, <2>3, <3>1, <3>2, Memories, FreeRegion, PreserveFiles
        DEF IInv, TypeOK
    <2> QED
      BY <1>9, <2>2, <2>3 DEF CancelSnapshot
  <1>10. ASSUME CancelPlan(p)
         PROVE  IInv'
    <2>1. /\ Step(p, "xside", me[p]) /\ Locking(p, "xside")
          /\ "xside" \in Held \ Unprepared
      BY <1>10 DEF CancelPlan, Goto, KeepLock, Locking, Held, Unprepared
    <2>2. Region(p, "xside", jr, lease)
      <3>1. Region(p, "xplan", jr, lease)
        BY <1>10 DEF CancelPlan, IInv, RegionInv
      <3> QED
        BY <3>1 DEF Region
    <2> QED
      BY <1>10, <2>1, <2>2, Memories, PreserveFiles DEF CancelPlan, IInv, TypeOK
  <1>11. ASSUME CancelSidecar(p)
         PROVE  IInv'
    <2>1. /\ Step(p, "xabandon", me[p]) /\ Locking(p, "xabandon")
          /\ "xabandon" \in Held \ Unprepared
      BY <1>11 DEF CancelSidecar, Goto, KeepLock, Locking, Held, Unprepared
    <2>2. Region(p, "xabandon", jr, lease)
      <3>1. Region(p, "xside", jr, lease)
        BY <1>11 DEF CancelSidecar, IInv, RegionInv
      <3> QED
        BY <3>1 DEF Region
    <2>3. sidecar' \in [Proc -> Leases \cup {None}]
      BY <1>11 DEF CancelSidecar, IInv, TypeOK
    <2> QED
      BY <1>11, <2>1, <2>2, <2>3, Memories, PreserveFiles
      DEF CancelSidecar, IInv, TypeOK
  <1>12. ASSUME CancelAbandon(p)
         PROVE  IInv'
    <2>1. Region(p, "xabandon", jr, lease)
      BY <1>12 DEF CancelAbandon, IInv, RegionInv
    <2>2. /\ jr' \in JournalType /\ jr'.prep = None
          /\ Agree(jr, jr', {"prep"}) /\ UNCHANGED <<files, sessions>>
      BY <1>12, SettleFields DEF CancelAbandon, Append, IInv, TypeOK
    <2>3. JournalInv'
      BY <2>2, SameAuthority DEF Agree
    <2>4. /\ Step(p, "xstop", me[p]) /\ Locking(p, "xstop") /\ lock = p
          /\ "xstop" \in Held \ Unprepared
      BY <1>12 DEF CancelAbandon, Goto, KeepLock, Locking, Held, Unprepared
    <2>5. Region(p, "xstop", jr', lease)
      BY <2>1, <2>2 DEF Region, Agree, Terminal
    <2> QED
      BY <2>2, <2>3, <2>4, <2>5, Memories, PreserveAppend
      DEF Agree, IInv, TypeOK
  <1>13. ASSUME CancelStop(p)
         PROVE  IInv'
    <2>1. Region(p, "xstop", jr, lease)
      BY <1>13 DEF CancelStop, IInv, RegionInv
    <2>2. /\ jr' \in JournalType /\ jr'.open = FALSE
          /\ Agree(jr, jr', {"open"}) /\ UNCHANGED <<files, sessions>>
      <3>1. CASE jr.open
        BY <1>13, <3>1, IntervalFields DEF CancelStop, Append, IInv, TypeOK
      <3>2. CASE ~jr.open
        BY <1>13, <3>2
        DEF CancelStop, Append, IInv, TypeOK, Agree, JournalType
      <3> QED
        BY <3>1, <3>2
    <2>3. JournalInv'
      BY <2>2, SameAuthority DEF Agree
    <2>4. /\ Step(p, "xcancel", me[p]) /\ Locking(p, "xcancel") /\ lock = p
          /\ "xcancel" \in Held \ Unprepared
      BY <1>13 DEF CancelStop, Goto, KeepLock, Locking, Held, Unprepared
    <2>5. Region(p, "xcancel", jr', lease)
      BY <2>1, <2>2 DEF Region, Agree, Terminal
    <2> QED
      BY <2>2, <2>3, <2>4, <2>5, Memories, PreserveAppend
      DEF Agree, IInv, TypeOK
  <1>14. ASSUME NEW l \in CancelledLabels(p)
         PROVE  l \in Free /\ l \notin Unprepared
    BY <1>1, <1>14 DEF CancelledLabels
  <1>15. ASSUME CancelRun(p)
         PROVE  IInv'
    <2>1. Region(p, "xcancel", jr, lease) /\ jr \in JournalType
      BY <1>15 DEF CancelRun, IInv, RegionInv, TypeOK
    <2>2. CASE /\ KeepLock(p) /\ Append(Cancel(jr, TRUE))
               /\ Goto(p, "xlease")
      <3>1. /\ jr' \in JournalType /\ jr'.epoch = jr.epoch + 1
            /\ jr'.owner = None /\ UNCHANGED <<files, sessions>>
            /\ Agree(jr, jr', {"run", "epoch", "owner"})
        BY <2>1, <2>2, CancelFields DEF Append
      <3>2. JournalInv'
        BY <2>1, <3>1
        DEF JournalInv, PrepareInv, GrantInv, LeaseHasGrant, Region, Agree,
            files, IInv, TypeOK, JournalType, Leases
      <3>3. /\ Step(p, "xlease", me[p]) /\ Locking(p, "xlease") /\ lock = p
            /\ "xlease" \in Held \ Unprepared
        BY <2>2 DEF Goto, KeepLock, Locking, Held, Unprepared
      <3>4. Region(p, "xlease", jr', lease)
        BY DEF Region
      <3> QED
        BY <3>1, <3>2, <3>3, <3>4, Memories, PreserveAppend
        DEF Agree, IInv, TypeOK
    <2>3. CASE /\ DropLock(p) /\ Append(Cancel(jr, FALSE))
               /\ \E l \in CancelledLabels(p) : Goto(p, l)
      <3>1. /\ jr' \in JournalType /\ UNCHANGED <<files, sessions>>
            /\ Agree(jr, jr', {"run"})
        BY <2>1, <2>3, CancelFields DEF Append
      <3>2. JournalInv'
        BY <2>1, <3>1, SameAuthority DEF Region, Agree
      <3>3. PICK l \in Free : l \notin Unprepared /\ Step(p, l, me[p])
        BY <1>14, <2>3 DEF Goto
      <3>4. Locking(p, l) /\ lock = p
        BY <2>3 DEF DropLock, Locking
      <3> QED
        BY <3>1, <3>2, <3>3, <3>4, Memories, FreeRegion, PreserveAppend
        DEF Agree, IInv, TypeOK
    <2> QED
      BY <1>15, <2>2, <2>3 DEF CancelRun
  <1>16. ASSUME CancelLease(p)
         PROVE  IInv'
    <2>1. PICK l \in Free : l \notin Unprepared /\ Step(p, l, me[p])
      BY <1>14, <1>16 DEF CancelLease, Goto
    <2>2. Locking(p, l) /\ lock = p
      BY <1>16 DEF CancelLease, DropLock, Locking
    <2> QED
      BY <1>16, <2>1, <2>2, Memories, FreeRegion, PreserveFiles
      DEF CancelLease, IInv, TypeOK
  <1> QED
    BY <1>2, <1>3, <1>4, <1>5, <1>6, <1>7, <1>8, <1>9, <1>10, <1>11, <1>12,
       <1>13, <1>15, <1>16 DEF Cancelling

-----------------------------------------------------------------------------
(* The theorems. *)

\* A run that has just started.
LEMMA InitialInvariant ==
    ASSUME Init
    PROVE  IInv
  <1>1. /\ JournalInit.prep = None /\ JournalInit.owner = None
        /\ JournalInit.refs = {<<1, Root>>}
    BY DEF JournalInit
  <1>2. TypeOK
    BY InitialMemory DEF Init, TypeOK, Free
  <1>3. LockInv
    BY NoneIsNothing DEF Init, LockInv, Held
  <1>4. RegionInv
    BY DEF Init, RegionInv, Region
  <1>5. PrepareInv /\ GrantInv /\ LeaseHasGrant
    BY <1>1 DEF Init, PrepareInv, GrantInv, LeaseHasGrant
  <1>6. UnpreparedInv
    <2>1. \A p \in Proc : ~Prepared(p)
      BY <1>1, RootIsNoProcess DEF Init, Prepared
    <2> QED
      BY <2>1 DEF UnpreparedInv
  <1> QED
    BY <1>2, <1>3, <1>4, <1>5, <1>6 DEF IInv

\* Every step of every process.
LEMMA NextStep ==
    ASSUME IInv, [Next]_vars
    PROVE  IInv'
  <1>1. CASE UNCHANGED vars
    <2>1. TypeOK' /\ LockInv'
      BY <1>1 DEF vars, IInv, TypeOK, LockInv
    <2>2. RegionInv' /\ UnpreparedInv'
      BY <1>1 DEF vars, IInv, RegionInv, UnpreparedInv, Prepared
    <2>3. PrepareInv' /\ GrantInv' /\ LeaseHasGrant'
      BY <1>1 DEF vars, IInv, PrepareInv, GrantInv, LeaseHasGrant, Terminal
    <2> QED
      BY <2>1, <2>2, <2>3 DEF IInv
  <1>2. ASSUME NEW p \in Proc, Start(p) \/ Crash(p) \/ Work(p)
        PROVE  IInv'
    <2>1. CASE Start(p) \/ Crash(p)
      BY <2>1, StartStep, CrashStep
    <2>2. CASE Acquiring(p)
      BY <2>2, AcquireStep, CreateLeaseStep, ReclaimStep, RegrantStep
      DEF Acquiring
    <2>3. CASE Recovering(p)
      BY <2>3, RecoveringStep
    <2>4. CASE Driving(p) \/ Acknowledging(p)
      BY <2>4, DrivingStep, AcknowledgingStep
    <2>5. CASE Preparing(p) \/ Committing(p) \/ Cancelling(p)
      BY <2>5, PreparingStep, CommittingStep, CancellingStep
    <2> QED
      BY <1>2, <2>1, <2>2, <2>3, <2>4, <2>5 DEF Work
  <1> QED
    BY <1>1, <1>2 DEF Next

\* Whatever processes come, race and die between any two durable writes, the
\* locked regions of runstore keep what they checked on entry, a pending
\* prepare freezes head and epoch, and the lease stays behind its grant.
THEOREM ControlIsInductive == Spec => []IInv
  BY InitialInvariant, NextStep, PTL DEF Spec

\* The files and the journal always have the form the code gives them; in
\* particular no lease is ever written for epoch 0 and no approval is applied
\* without a pending prepare.
THEOREM TypeCorrect == Spec => []TypeOK
  <1>1. IInv => TypeOK
    BY DEF IInv
  <1> QED
    BY <1>1, ControlIsInductive, PTL

\* driver.lease is never ahead of authority.granted, and at its epoch names
\* the granted owner: no interleaving of AcquireDriver, the reclaim, the
\* fences and the removals makes an orphan lease.
THEOREM LeaseFollowsGrant == Spec => []LeaseHasGrant
  <1>1. IInv => LeaseHasGrant
    BY DEF IInv
  <1> QED
    BY <1>1, ControlIsInductive, PTL

-----------------------------------------------------------------------------
(* The refinement: every step is a step of RunContract, or none. *)

Simulates == Contract!CNext \/ UNCHANGED Contract!cvars

\* A step that leaves the journal alone stutters.
LEMMA QuietStep ==
    ASSUME jr' = jr
    PROVE  Simulates
  BY DEF Simulates, Contract!cvars, Prepared

\* The amendments that have ever been pending are a function of the refs.
LEMMA SamePrepares ==
    ASSUME jr'.refs = jr.refs
    PROVE  {p \in Proc : Prepared(p)}' = {p \in Proc : Prepared(p)}
  BY DEF Prepared

\* authority.granted entrusts the run.
LEMMA GrantSimulates ==
    ASSUME IInv, NEW p \in Proc, CanGrant(jr), jr' = Grant(jr, p)
    PROVE  Simulates
  <1>1. /\ Grant(jr, p).epoch = jr.epoch + 1
        /\ Agree(jr, Grant(jr, p), {"epoch", "owner"})
    BY GrantFields DEF IInv, TypeOK
  <1>2. jr'.refs = jr.refs
    BY <1>1 DEF Agree
  <1>3. Contract!Entrust
    BY <1>1, <1>2, SamePrepares
    DEF Contract!Entrust, Contract!Calm, CanGrant, BarrierUp, Terminal, Agree
  <1> QED
    BY <1>3 DEF Simulates, Contract!CNext

\* execution.stopped ends the work under way.
LEMMA StopSimulates ==
    ASSUME IInv, ~Terminal(jr), jr.open, jr' = Stop(jr)
    PROVE  Simulates
  <1>1. Stop(jr).open = FALSE /\ Agree(jr, Stop(jr), {"open"})
    BY IntervalFields DEF IInv, TypeOK
  <1>2. jr'.refs = jr.refs
    BY <1>1 DEF Agree
  <1>3. Contract!End
    BY <1>1, <1>2, SamePrepares DEF Contract!End, Terminal, Agree
  <1> QED
    BY <1>3 DEF Simulates, Contract!CNext

\* amendment.approved adopts the pending amendment; a fenced one does so with
\* the superseded owner's work already closed.
LEMMA ApproveSimulates ==
    ASSUME IInv, jr.prep # None, ~jr.cancel,
           \/ jr' = Approve(jr, FALSE)
           \/ jr' = Approve(jr, TRUE) /\ ~jr.open
    PROVE  Simulates
  <1>1. jr \in JournalType /\ jr.prep.base = jr.head /\ jr.run = "running"
    BY DEF IInv, TypeOK, PrepareInv, Terminal
  <1>2. jr.prep.id # None
    BY NoneIsNothing DEF IInv, TypeOK, JournalType, Prepares
  <1>3. /\ jr'.head = jr.head + 1 /\ jr'.prep = None /\ jr'.refs = jr.refs
        /\ jr'.run = jr.run /\ jr'.cancel = jr.cancel /\ jr'.open = jr.open
        /\ jr'.epoch = jr.epoch \/ (jr'.epoch = jr.epoch + 1 /\ ~jr.open)
    <2>1. CASE jr' = Approve(jr, FALSE)
      <3>1. /\ jr'.head = jr.prep.base + 1 /\ jr'.prep = None
            /\ Agree(jr, jr', {"head", "by", "prep"})
        BY <1>1, <2>1, ApproveFields
      <3> QED
        BY <1>1, <3>1 DEF Agree
    <2>2. CASE jr' = Approve(jr, TRUE) /\ ~jr.open
      <3>1. /\ jr'.head = jr.prep.base + 1 /\ jr'.prep = None
            /\ jr'.epoch = jr.epoch + 1
            /\ Agree(jr, jr', {"head", "by", "prep", "epoch", "owner"})
        BY <1>1, <2>2, ApproveFields
      <3> QED
        BY <1>1, <2>2, <3>1 DEF Agree
    <2> QED
      BY <2>1, <2>2
  <1>4. Contract!Adopt
    BY <1>1, <1>2, <1>3, SamePrepares DEF Contract!Adopt
  <1> QED
    BY <1>4 DEF Simulates, Contract!CNext

\* Acquiring only entrusts the run.
LEMMA AcquiringSimulates ==
    ASSUME IInv, NEW p \in Proc, Acquiring(p)
    PROVE  Simulates
  <1>1. CASE Acquire(p)
    BY <1>1, QuietStep, GrantSimulates DEF Acquire, Append
  <1>2. CASE Regrant(p)
    BY <1>2, QuietStep, GrantSimulates DEF Regrant, Append
  <1>3. CASE CreateLease(p) \/ Reclaim(p)
    <2>1. jr' = jr
      BY <1>3 DEF CreateLease, Reclaim
    <2> QED
      BY <2>1, QuietStep
  <1> QED
    BY <1>1, <1>2, <1>3 DEF Acquiring

\* A recovery pass changes nothing that the contract speaks of.
LEMMA RecoveringSimulates ==
    ASSUME NEW p \in Proc, Recovering(p)
    PROVE  Simulates
  <1>1. jr' = jr
    BY DEF Recovering, LoadRunInput, Collect, ReturnWaitingHuman, Cleanup,
           CleanPlans, RemoveStaleLease, QuarantineOrphanLease,
           TerminalCleanup, TerminalSidecars, TerminalPlans, NoEffect
  <1> QED
    BY <1>1, QuietStep

\* A driver begins, ends and completes work.
LEMMA DrivingSimulates ==
    ASSUME IInv, NEW p \in Proc, Driving(p)
    PROVE  Simulates
  <1>1. CASE OpenInterval(p)
    <2>1. CanOpen(jr) /\ jr' = Open(jr) /\ ~Terminal(jr)
      BY <1>1 DEF OpenInterval, Append, Drive, Authorized
    <2>2. jr'.open = TRUE /\ Agree(jr, jr', {"open"})
      BY <2>1, IntervalFields DEF IInv, TypeOK
    <2>3. jr'.refs = jr.refs
      BY <2>2 DEF Agree
    <2>4. Contract!Begin
      BY <2>1, <2>2, <2>3, SamePrepares
      DEF Contract!Begin, Contract!Calm, CanOpen, BarrierUp, Terminal, Agree
    <2> QED
      BY <2>4 DEF Simulates, Contract!CNext
  <1>2. CASE StartSession(p)
    <2>1. lease.epoch \in Nat
      <3>1. Authorized(p)
        BY <1>2 DEF StartSession, Drive
      <3> QED
        BY <3>1 DEF Authorized, IInv, TypeOK, JournalType
    <2>2. Agree(jr, jr', {"recorded"})
      BY <1>2, <2>1, RecordFields DEF StartSession, IInv, TypeOK
    <2>3. jr'.refs = jr.refs
      BY <2>2 DEF Agree
    <2> QED
      BY <2>2, <2>3, SamePrepares DEF Simulates, Contract!cvars, Agree
  <1>3. CASE CloseInterval(p)
    BY <1>3, StopSimulates
    DEF CloseInterval, Append, Drive, Authorized, CanStop
  <1>4. CASE FinishRun(p)
    <2>1. CanFinish(jr) /\ jr' = Finish(jr) /\ ~jr.open
      BY <1>4 DEF FinishRun, Append
    <2>2. jr'.run = "ended" /\ Agree(jr, jr', {"run"})
      BY <2>1, FinishFields DEF IInv, TypeOK
    <2>3. jr'.refs = jr.refs
      BY <2>2 DEF Agree
    <2>4. Contract!Complete
      BY <2>1, <2>2, <2>3, SamePrepares
      DEF Contract!Complete, Contract!Calm, CanFinish, BarrierUp, Agree
    <2> QED
      BY <2>4 DEF Simulates, Contract!CNext
  <1>5. CASE \/ Watch(p) \/ SweepSessions(p) \/ PauseRun(p) \/ Refused(p)
             \/ ObserveControl(p) \/ Replan(p) \/ DriverPrepare(p)
             \/ Release(p)
    <2>1. jr' = jr
      BY <1>5 DEF Watch, SweepSessions, PauseRun, Refused, ObserveControl,
                  Replan, DriverPrepare, PublishSnapshot, Release, NoEffect
    <2> QED
      BY <2>1, QuietStep
  <1> QED
    BY <1>1, <1>2, <1>3, <1>4, <1>5 DEF Driving

\* An acknowledgement at most ends the work under way.
LEMMA AcknowledgingSimulates ==
    ASSUME IInv, NEW p \in Proc, Acknowledging(p)
    PROVE  Simulates
  <1>1. CASE AckStop(p)
    <2>1. \/ jr' = jr
          \/ Authorized(p) /\ CanStop(jr) /\ jr' = Stop(jr)
      BY <1>1 DEF AckStop, AckFailed, NoEffect, Append
    <2> QED
      BY <2>1, QuietStep, StopSimulates DEF Authorized, CanStop
  <1>2. CASE \/ AckBegin(p) \/ AckReceipt(p) \/ AckSweep(p)
             \/ AckSweepFails(p) \/ AckMove(p)
    <2>1. jr' = jr
      BY <1>2 DEF AckBegin, AckReceipt, AckSweep, AckSweepFails, AckMove,
                  AckFailed, NoEffect
    <2> QED
      BY <2>1, QuietStep
  <1> QED
    BY <1>1, <1>2 DEF Acknowledging

\* approval_prepared proposes an amendment that was never pending.
LEMMA PreparingSimulates ==
    ASSUME IInv, NEW p \in Proc, Preparing(p)
    PROVE  Simulates
  <1>1. CASE AppendPrepared(p)
    <2>1. CanPrepare(jr, jr.head) /\ ~jr.cancel
      <3>1. Region(p, "pappend", jr, lease)
        BY <1>1 DEF AppendPrepared, IInv, RegionInv
      <3> QED
        BY <3>1 DEF Region
    <2>2. ~Prepared(p)
      BY <1>1 DEF AppendPrepared, IInv, UnpreparedInv, Unprepared
    <2>3. jr' = Prepare(jr, p)
      BY <1>1 DEF AppendPrepared, Append
    <2>4. /\ jr'.prep = [id |-> p, epoch |-> jr.epoch, base |-> jr.head]
          /\ jr'.refs = jr.refs \cup {<<jr.head + 1, p>>}
          /\ Agree(jr, jr', {"prep", "refs"})
          /\ jr' \in JournalType
      BY <2>3, PrepareFields DEF IInv, TypeOK
    <2>5. jr'.prep # None /\ jr'.prep.id = p
      <3>1. [id |-> p, epoch |-> jr.epoch, base |-> jr.head] \in Prepares
        BY DEF Prepares, IInv, TypeOK, JournalType
      <3> QED
        BY <2>4, <3>1, NoneIsNothing
    <2>6. {q \in Proc : Prepared(q)}' = {q \in Proc : Prepared(q)} \cup {p}
      <3>1. Prepared(p)'
        <4>1. <<jr.head + 1, p>> \in jr'.refs /\ <<jr.head + 1, p>>[2] = p
          BY <2>4
        <4> QED
          BY <4>1 DEF Prepared
      <3>2. ASSUME NEW q \in Proc, q # p
            PROVE  Prepared(q)' <=> Prepared(q)
        <4>1. ASSUME NEW r \in jr'.refs, r[2] = q
              PROVE  r \in jr.refs
          <5>1. r # <<jr.head + 1, p>>
            BY <3>2, <4>1
          <5> QED
            BY <2>4, <4>1, <5>1
        <4>2. jr.refs \subseteq jr'.refs
          BY <2>4
        <4> QED
          BY <4>1, <4>2 DEF Prepared
      <3> QED
        BY <3>1, <3>2
    <2>7. Contract!Propose(p)
      BY <2>1, <2>2, <2>4, <2>5, <2>6
      DEF Contract!Propose, Contract!Calm, CanPrepare, BarrierUp, Terminal,
          Agree
    <2> QED
      BY <2>7 DEF Simulates, Contract!CNext
  <1>2. CASE LoadProposal(p) \/ ApproverPrepare(p) \/ PublishPlan(p)
    <2>1. jr' = jr
      BY <1>2 DEF LoadProposal, ApproverPrepare, PublishPlan,
                  PublishSnapshot, NoEffect
    <2> QED
      BY <2>1, QuietStep
  <1> QED
    BY <1>1, <1>2 DEF Preparing

\* A commit ends the work under way, then adopts the amendment.
LEMMA CommittingSimulates ==
    ASSUME IInv, NEW p \in Proc, Committing(p)
    PROVE  Simulates
  <1>1. CASE Commit(p)
    <2>1. \/ jr' = jr
          \/ jr.prep # None /\ ~jr.cancel /\ jr' = Approve(jr, FALSE)
      BY <1>1 DEF Commit, NoEffect, ApproveUnfenced, Append
    <2> QED
      BY <2>1, QuietStep, ApproveSimulates
  <1>2. CASE FenceCommit(p)
    <2>1. \/ jr' = jr
          \/ jr.prep # None /\ ~jr.cancel /\ jr' = Approve(jr, FALSE)
          \/ jr.prep # None /\ jr.open /\ jr' = Stop(jr)
      BY <1>2 DEF FenceCommit, NoEffect, Append
    <2>2. jr.prep # None => ~Terminal(jr)
      BY DEF IInv, PrepareInv
    <2> QED
      BY <2>1, <2>2, QuietStep, ApproveSimulates, StopSimulates
  <1>3. CASE FenceApprove(p)
    <2>1. Region(p, "fapprove", jr, lease) /\ jr' = Approve(jr, TRUE)
      BY <1>3 DEF FenceApprove, Append, IInv, RegionInv
    <2>2. jr.prep # None /\ ~jr.cancel /\ ~jr.open
      BY <2>1 DEF Region
    <2> QED
      BY <2>1, <2>2, ApproveSimulates
  <1>4. CASE \/ FenceSweep(p) \/ FenceKill(p) \/ RemovePlan(p)
             \/ RemoveSidecar(p) \/ RemoveFencedLease(p) \/ AutoContinue(p)
    <2>1. jr' = jr
      BY <1>4 DEF FenceSweep, FenceKill, RemovePlan, RemoveSidecar,
                  RemoveFencedLease, AutoContinue, NoEffect
    <2> QED
      BY <2>1, QuietStep
  <1> QED
    BY <1>1, <1>2, <1>3, <1>4 DEF Committing

\* The oracle asks, withdraws, ends and cancels, in that order.
LEMMA CancellingSimulates ==
    ASSUME IInv, NEW p \in Proc, Cancelling(p)
    PROVE  Simulates
  <1>1. CASE RequestCancellation(p)
    <2>1. CASE CanRequestCancel(jr)
      <3>1. jr' = RequestCancel(jr)
        BY <1>1, <2>1 DEF RequestCancellation, Append
      <3>2. jr'.cancel = TRUE /\ Agree(jr, jr', {"cancel"})
        BY <3>1, SettleFields DEF IInv, TypeOK
      <3>3. jr'.refs = jr.refs
        BY <3>2 DEF Agree
      <3>4. Contract!Ask
        BY <2>1, <3>2, <3>3, SamePrepares
        DEF Contract!Ask, CanRequestCancel, Terminal, Agree
      <3> QED
        BY <3>4 DEF Simulates, Contract!CNext
    <2>2. CASE ~CanRequestCancel(jr)
      BY <1>1, <2>2, QuietStep DEF RequestCancellation, Append
    <2> QED
      BY <2>1, <2>2
  <1>2. ASSUME CancelAbandon(p)
        PROVE  Simulates
    <2>1. Region(p, "xabandon", jr, lease) /\ jr' = Abandon(jr)
      BY <1>2 DEF CancelAbandon, Append, IInv, RegionInv
    <2>2. jr.cancel /\ jr.prep # None
      BY <2>1 DEF Region
    <2>3. jr.prep.id # None
      BY <2>2, NoneIsNothing DEF IInv, TypeOK, JournalType, Prepares
    <2>4. jr'.prep = None /\ Agree(jr, jr', {"prep"})
      BY <2>1, SettleFields DEF IInv, TypeOK
    <2>5. jr'.refs = jr.refs
      BY <2>4 DEF Agree
    <2>6. Contract!Withdraw
      BY <2>2, <2>3, <2>4, <2>5, SamePrepares DEF Contract!Withdraw, Agree
    <2> QED
      BY <2>6 DEF Simulates, Contract!CNext
  <1>3. ASSUME CancelStop(p)
        PROVE  Simulates
    <2>1. Region(p, "xstop", jr, lease)
      BY <1>3 DEF CancelStop, IInv, RegionInv
    <2>2. ~Terminal(jr)
      BY <2>1 DEF Region
    <2> QED
      BY <1>3, <2>2, QuietStep, StopSimulates DEF CancelStop, Append
  <1>4. ASSUME CancelRun(p)
        PROVE  Simulates
    <2>1. Region(p, "xcancel", jr, lease) /\ jr \in JournalType
      BY <1>4 DEF CancelRun, IInv, RegionInv, TypeOK
    <2>2. ~Terminal(jr) /\ jr.cancel /\ jr.prep = None /\ ~jr.open
      BY <2>1 DEF Region
    <2>3. /\ jr'.run = "cancelled"
          /\ jr'.epoch = jr.epoch \/ jr'.epoch = jr.epoch + 1
          /\ Agree(jr, jr', {"run", "epoch", "owner"})
      <3>1. CASE jr' = Cancel(jr, TRUE)
        BY <2>1, <3>1, CancelFields
      <3>2. CASE jr' = Cancel(jr, FALSE)
        <4>1. jr'.run = "cancelled" /\ Agree(jr, jr', {"run"})
          BY <2>1, <3>2, CancelFields
        <4> QED
          BY <4>1 DEF Agree
      <3> QED
        BY <1>4, <3>1, <3>2 DEF CancelRun, Append
    <2>4. jr'.refs = jr.refs
      BY <2>3 DEF Agree
    <2>5. Contract!Cancel
      BY <2>2, <2>3, <2>4, SamePrepares
      DEF Contract!Cancel, Contract!Calm, Terminal, Agree
    <2> QED
      BY <2>5 DEF Simulates, Contract!CNext
  <1>5. ASSUME \/ CancelRetry(p) \/ CancelDeadline(p) \/ CancelTerminate(p)
               \/ CancelLoad(p) \/ CancelSweep(p) \/ CancelEnter(p)
               \/ CancelSnapshot(p) \/ CancelPlan(p) \/ CancelSidecar(p)
               \/ CancelLease(p)
        PROVE  Simulates
    <2>1. jr' = jr
      BY <1>5 DEF CancelRetry, CancelDeadline, CancelTerminate, CancelLoad,
                  CancelSweep, CancelEnter, CancelSnapshot, CancelPlan,
                  CancelSidecar, CancelLease, NoEffect
    <2> QED
      BY <2>1, QuietStep
  <1> QED
    BY <1>1, <1>2, <1>3, <1>4, <1>5 DEF Cancelling

\* The control channel, with all its crash points, lost races and stale reads,
\* implements the contract a reader of the journal relies on.
THEOREM ControlImplementsContract == Spec => ImplementsContract
  <1>1. Init => Contract!CInit
    <2>1. ASSUME Init
          PROVE  {p \in Proc : Prepared(p)} = {}
      BY <2>1, RootIsNoProcess DEF Init, Prepared, JournalInit
    <2> QED
      BY <2>1 DEF Init, Contract!CInit, JournalInit
  <1>2. IInv /\ [Next]_vars => [Contract!CNext]_(Contract!cvars)
    <2> SUFFICES ASSUME IInv, [Next]_vars
                 PROVE  Simulates
      BY DEF Simulates
    <2>1. CASE UNCHANGED vars
      BY <2>1, QuietStep DEF vars
    <2>2. ASSUME NEW p \in Proc, Start(p) \/ Crash(p) \/ Work(p)
          PROVE  Simulates
      <3>1. CASE Start(p) \/ Crash(p)
        BY <3>1, QuietStep DEF Start, Crash, NoEffect
      <3>2. CASE Work(p)
        BY <3>2, AcquiringSimulates, RecoveringSimulates, DrivingSimulates,
           AcknowledgingSimulates, PreparingSimulates, CommittingSimulates,
           CancellingSimulates DEF Work
      <3> QED
        BY <2>2, <3>1, <3>2
    <2> QED
      BY <2>1, <2>2 DEF Next
  <1> QED
    BY <1>1, <1>2, ControlIsInductive, PTL
    DEF Spec, ImplementsContract, Contract!CSpec
=============================================================================
