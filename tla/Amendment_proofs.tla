------------------------- MODULE Amendment_proofs -------------------------
(***************************************************************************)
(* Proofs about Amendment, for any finite set of proposals, any questions, *)
(* movements and fields, and any number of resumers.  IInv is inductive:   *)
(* beside what the state looks like it says who holds the lease at what,   *)
(* that an attempt against the head was given what the head says, and that *)
(* what a driver kept of an attempt is routed before it is requested.      *)
(* RecordInv is inductive relative to it for a single resumer only: two    *)
(* can remove a record between its publication and its route.              *)
(***************************************************************************)
EXTENDS Amendment, SequenceTheorems, FiniteSetTheorems, FunctionTheorems, TLAPS

-----------------------------------------------------------------------------
(* What the state looks like. *)

AttemptStates == {"none", "RUNNING", "BLOCKED", "FAILED", "COMPLETED", "SUPERSEDED"}
Raised == Blocking \cup Questions
Raise == [of : Proposals \cup Movements \cup {None},
          todo : Seq(Raised), kept : Seq(Raised), routes : Seq(Blocking)]

\* TypeOK without its bound on head, and what it leaves open.
LifecycleType ==
    /\ head \in Nat \ {0} /\ score \in [Fields -> 0..1]
    /\ cancel \in {"no", "requested", "done"}
    /\ movement \in [Movements -> {"PENDING", "RUNNING", "SUCCEEDED"}]
    /\ attempt = [m \in Movements |-> attempt[m]]
    /\ \A m \in Movements :
         /\ attempt[m] = [state |-> attempt[m].state, rev |-> attempt[m].rev,
                          dep |-> attempt[m].dep]
         /\ attempt[m].state \in AttemptStates /\ attempt[m].rev \in 0..head

ProposedType ==
    /\ patch \in [Proposals -> Patches] /\ base \in [Proposals -> 0..head]
    /\ records \subseteq Proposals

DecisionType ==
    /\ routed \subseteq Proposals /\ pending \subseteq Decidable
    /\ log \in [Decidable ->
         [described : 0..head, routed : BOOLEAN, requested : BOOLEAN,
          answer : {"none", "rejected", "human_rejected", "approved", "answered"}]]

CommandType ==
    /\ prepare = None \/ prepare \in
         [of : Proposals, mode : {"auto", "human"}, to : [Fields -> 0..1]]
    /\ cli \in [Cli -> {"idle", "captured", "barrier", "dispose", "commit", "done"}]
    /\ human \in [pc : {"idle", "loaded", "commit"}, of : Proposals \cup {None}]

ResumerType ==
    /\ lease \in Resumers \cup {None, Dead}
    /\ pc \in [Resumers -> {"idle", "clear", "plan", "recover", "finalize", "work", "dispose",
                             "route", "request"}]
    /\ raised \in [Resumers -> Raise]

ShapeInv == LifecycleType /\ ProposedType /\ DecisionType /\ CommandType /\ ResumerType

\* Every revision before the head had a proposal against it.
HeadInv == \A h \in 1..(head - 1) : \E p \in Proposals : base[p] = h

\* A command that has not captured the head proposes nothing.
CaptureInv == \A p \in Cli : cli[p] = "idle" => base[p] = 0

-----------------------------------------------------------------------------
(* What the resumers are at. *)

\* The lease is with a process that recovers or drives; the attempt it works
\* on is one against the head.
DriverInv ==
    \A r \in Resumers :
        /\ pc[r] = "finalize" => raised[r].of \in Finals
        /\ pc[r] = "route" => Range(raised[r].todo) \subseteq Blocking
        /\ lease = r => pc[r] \notin {"idle", "clear", "plan"}
        /\ lease = r /\ pc[r] \in {"work", "dispose"} =>
             raised[r].of \in Movements /\ attempt[raised[r].of].rev = head

\* What an attempt raised is routed by the driver that works on it, unless it
\* was already requested, and then somebody may have answered it.
Answerable == {d \in Decidable : d \in Proposals => d \in routed \/ log[d].requested}

AskedInv == \A b \in pending \cap Blocking : log[b].requested

KeptInv ==
    \A r \in Resumers :
        LET x == raised[r] IN
        /\ Range(x.kept) \cap Proposals \subseteq Range(x.routes)
        /\ lease = r =>
             /\ pc[r] = "route" => Range(x.kept) \subseteq Answerable \cup Range(x.todo)
             /\ pc[r] = "request" => Range(x.todo) \subseteq Answerable

-----------------------------------------------------------------------------
(* What an attempt was given. *)

\* An attempt against the head has what the head says; the interview of a
\* draft has not completed.
CurrentInv ==
    /\ \A m \in Movements : attempt[m].rev = head => attempt[m].dep = Dependency(score, head, m)
    /\ attempt[Interview].state = "COMPLETED" => ~Draft

IInv ==
    /\ ShapeInv /\ HeadInv /\ CaptureInv /\ DriverInv /\ AskedInv /\ KeptInv
    /\ CurrentInv /\ PendingIsRouted /\ ExecutedIsStable /\ PrepareStaysAdmissible

-----------------------------------------------------------------------------
(* What one command alone relies on. *)

OneResumer == \A r, s \in Resumers : r = s

\* A process that disposes of nothing holds nothing.
HandsInv ==
    \A r \in Resumers : pc[r] \notin {"dispose", "route", "request"} =>
        raised[r].kept = <<>> /\ raised[r].routes = <<>>

\* Every route that is still to be made has its record.
RecordInv ==
    /\ RecordsAreKept
    /\ \A p \in routed : log[p].routed
    /\ \A r \in Resumers :
         LET x == raised[r] IN
         /\ (Range(x.kept) \cap Proposals) \cup Range(x.routes) \subseteq records
         /\ lease = r /\ pc[r] = "route" => Range(x.todo) \subseteq records

-----------------------------------------------------------------------------
(* Sequences of decisions. *)

\* The elements of a sequence are what it says they are.
LEMMA Elements ==
    ASSUME NEW S, NEW s \in Seq(S)
    PROVE  Range(s) \subseteq S /\ \A i \in 1..Len(s) : s[i] \in Range(s)
  BY RangeOfSeq, RangeEquality

\* Nothing is in the empty sequence, and only there.
LEMMA NoElements ==
    ASSUME NEW S
    PROVE  <<>> \in Seq(S) /\ Range(<<>>) = {}
  <1>1. <<>> \in Seq(S) /\ Len(<<>>) = 0
    BY EmptySeq
  <1>2. Range(<<>>) = {<<>>[i] : i \in 1..0}
    BY <1>1, RangeEquality
  <1> QED
    BY <1>1, <1>2

\* What a sequence that is not empty loses with its head.
LEMMA Removed ==
    ASSUME NEW S, NEW s \in Seq(S), s # <<>>
    PROVE  /\ Head(s) \in Range(s) /\ Head(s) \in S /\ Tail(s) \in Seq(S)
           /\ Range(s) = {Head(s)} \cup Range(Tail(s))
  <1> DEFINE t == Tail(s)
  <1>1. /\ t \in Seq(S) /\ Len(t) = Len(s) - 1 /\ Head(s) \in S
        /\ \A i \in 1..Len(t) : t[i] = s[i + 1]
    BY HeadTailProperties
  <1>2. Head(s) = s[1] /\ Len(s) \in Nat /\ Len(s) # 0 /\ Len(t) \in Nat
    BY <1>1, EmptySeq, LenProperties
  <1>3. Range(s) = {s[i] : i \in 1..Len(s)} /\ Range(t) = {t[i] : i \in 1..Len(t)}
    BY <1>1, RangeEquality
  <1> HIDE DEF t
  <1>4. \A i \in 1..Len(s) : i = 1 \/ (i - 1 \in 1..Len(t) /\ t[i - 1] = s[i])
    <2> TAKE i \in 1..Len(s)
    <2>1. i = 1 \/ i - 1 \in 1..Len(t)
      BY <1>1, <1>2
    <2>2. i - 1 \in 1..Len(t) => t[i - 1] = s[i - 1 + 1]
      BY <1>1
    <2>3. i - 1 + 1 = i
      BY <1>2
    <2> QED
      BY <2>1, <2>2, <2>3
  <1>5. 1 \in 1..Len(s) /\ \A i \in 1..Len(t) : i + 1 \in 1..Len(s)
    BY <1>1, <1>2
  <1>6. Range(s) = {Head(s)} \cup Range(t)
    BY <1>1, <1>2, <1>3, <1>4, <1>5
  <1> QED
    BY <1>1, <1>6 DEF t

\* What a sequence gains with Append.
LEMMA Added ==
    ASSUME NEW S, NEW s \in Seq(S), NEW d \in S
    PROVE  Append(s, d) \in Seq(S) /\ Range(Append(s, d)) = Range(s) \cup {d}
  <1> DEFINE t == Append(s, d)
  <1>1. /\ t \in Seq(S) /\ Len(t) = Len(s) + 1 /\ t[Len(s) + 1] = d
        /\ \A i \in 1..Len(s) : t[i] = s[i]
    BY AppendProperties
  <1>2. Range(s) = {s[i] : i \in 1..Len(s)} /\ Range(t) = {t[i] : i \in 1..Len(t)}
    BY <1>1, RangeEquality
  <1>3. Len(s) \in Nat
    BY LenProperties
  <1> HIDE DEF t
  <1>4. 1..Len(t) = 1..Len(s) \cup {Len(s) + 1}
    BY <1>1, <1>3
  <1>5. Range(t) = Range(s) \cup {d}
    BY <1>1, <1>2, <1>4
  <1> QED
    BY <1>1, <1>5 DEF t

-----------------------------------------------------------------------------
(* Types. *)

\* A patched score is a score.
LEMMA PatchedType ==
    ASSUME ShapeInv, NEW p \in Proposals
    PROVE  Patched(p) \in [Fields -> 0..1]
  BY DEF ShapeInv, LifecycleType, ProposedType, Patched, Patches

\* What a prepare is and what it is to become.
LEMMA Prepared ==
    ASSUME ShapeInv, prepare # None
    PROVE  prepare.of \in Proposals /\ prepare.mode \in {"auto", "human"}
           /\ prepare.to \in [Fields -> 0..1]
  BY DEF ShapeInv, CommandType

\* A commit of whoever finds the prepare pending.
Commits == Commit /\ prepare # None /\ cancel = "no"

\* Who changes the lifecycle, the score and the head.
LEMMA LifecycleStep ==
    ASSUME Next
    PROVE  \/ Commits
           \/ UNCHANGED lifecycle
           \/ UNCHANGED <<head, score, movement, attempt>> /\ cancel' \in {"requested", "done"}
           \/ \E r \in Resumers :
                \/ AppendMovementSucceeded(r) \/ AttemptCompletes(r) \/ AttemptFails(r)
                \/ AppendAttemptBlocked(r) \/ \E m \in Movements : StartAttempt(r, m)
  <1>1. CASE Amending
    BY <1>1 DEF Amending, Capture, ApprovalIntent, Submit, CompleteSubmission, Commits, lifecycle
  <1>2. CASE Deciding
    BY <1>2 DEF Deciding, ApproveRouted, CompleteApproval, RequestCancellation, LoadRouted,
                RejectRoutedAmendment, ResolveQuestion, Commits, lifecycle
  <1>3. ASSUME NEW r \in Resumers, Resume(r) \/ Recovering(r) \/ Crash(r)
        PROVE  \/ Commits
               \/ UNCHANGED lifecycle
               \/ UNCHANGED <<head, score, movement, attempt>> /\ cancel' \in {"requested", "done"}
               \/ AppendMovementSucceeded(r) \/ \E m \in Movements : StartAttempt(r, m)
    BY <1>3 DEF Resume, Recovering, Crash, CleanUp, ExecuteCancellation, CompletePrepare,
                ReturnWaitingHuman, AcquireAuthority, AppendBlockedRoute, AppendRoutedRequest,
                BeginFinalization, FinalsExhausted, RouteFinalization, AppendQuestionRequest,
                HaltOrReturn, Commits, lifecycle
  <1>4. ASSUME NEW r \in Resumers, Driving(r)
        PROVE  \/ UNCHANGED lifecycle
               \/ AttemptCompletes(r) \/ AttemptFails(r) \/ AppendAttemptBlocked(r)
    BY <1>4 DEF Driving, AttemptRaises, DisposeRaised, AppendRoute, AppendRequest, DriverStops,
                lifecycle
  <1> QED
    BY <1>1, <1>2, <1>3, <1>4 DEF Next

\* The end of an attempt changes nothing but its state.
LEMMA AttemptEnds ==
    ASSUME NEW a, NEW st, a = [state |-> a.state, rev |-> a.rev, dep |-> a.dep]
    PROVE  LET b == [a EXCEPT !.state = st]
           IN  /\ b.state = st /\ b.rev = a.rev /\ b.dep = a.dep
               /\ b = [state |-> b.state, rev |-> b.rev, dep |-> b.dep]
  <1> DEFINE x == a.state
             y == a.rev
             z == a.dep
             b == [state |-> st, rev |-> y, dep |-> z]
  <1>1. a = [state |-> x, rev |-> y, dep |-> z]
    OBVIOUS
  <1> HIDE DEF x, y, z
  <1>2. [a EXCEPT !.state = st] = b
    BY <1>1
  <1>3. b.state = st /\ b.rev = y /\ b.dep = z
    OBVIOUS
  <1> QED
    BY <1>2, <1>3 DEF x, y, z

\* Movements and attempts keep their shape.
LEMMA LifecycleTyped ==
    ASSUME ShapeInv, Next
    PROVE  LifecycleType'
  <1> USE DEF ShapeInv, LifecycleType
  <1>1. CASE Commits
    <2>1. /\ head' = head + 1 /\ score' = prepare.to /\ cancel' = cancel
          /\ \A m \in Movements :
               \/ attempt'[m] = attempt[m]
               \/ attempt'[m] = [attempt[m] EXCEPT !.state = "SUPERSEDED"]
      BY <1>1 DEF Commits, Commit
    <2>2. /\ movement' \in [Movements -> {"PENDING", "RUNNING", "SUCCEEDED"}]
          /\ attempt' = [m \in Movements |-> attempt'[m]]
      BY <1>1 DEF Commits, Commit
    <2>3. ASSUME NEW m \in Movements
          PROVE  /\ attempt'[m] = [state |-> attempt'[m].state, rev |-> attempt'[m].rev,
                                   dep |-> attempt'[m].dep]
                 /\ attempt'[m].state \in AttemptStates /\ attempt'[m].rev \in 0..head'
      <3>1. CASE attempt'[m] = attempt[m]
        BY <2>1, <3>1
      <3>2. CASE attempt'[m] = [attempt[m] EXCEPT !.state = "SUPERSEDED"]
        <4>1. attempt[m] = [state |-> attempt[m].state, rev |-> attempt[m].rev,
                            dep |-> attempt[m].dep]
          OBVIOUS
        <4> QED
          BY <2>1, <3>2, <4>1, AttemptEnds DEF AttemptStates
      <3> QED
        BY <2>1, <3>1, <3>2
    <2> QED
      BY <1>1, <2>1, <2>2, <2>3, Prepared DEF Commits
  <1>2. CASE UNCHANGED lifecycle
    BY <1>2 DEF lifecycle
  <1>3. CASE UNCHANGED <<head, score, movement, attempt>> /\ cancel' \in {"requested", "done"}
    BY <1>3
  <1>4. ASSUME NEW r \in Resumers, AppendMovementSucceeded(r)
        PROVE  LifecycleType'
    BY <1>4 DEF AppendMovementSucceeded
  <1>5. ASSUME NEW r \in Resumers, NEW m \in Movements, StartAttempt(r, m)
        PROVE  LifecycleType'
    <2>1. /\ UNCHANGED <<head, score, cancel>>
          /\ movement' = [movement EXCEPT ![m] = "RUNNING"]
          /\ attempt' = [attempt EXCEPT ![m] =
               [state |-> "RUNNING", rev |-> head, dep |-> Dependency(score, head, m)]]
      BY <1>5 DEF StartAttempt
    <2> QED
      BY <2>1 DEF AttemptStates
  <1>6. ASSUME NEW m, NEW st \in AttemptStates, UNCHANGED <<head, score, cancel, movement>>,
               attempt' = [attempt EXCEPT ![m].state = st]
        PROVE  LifecycleType'
    <2>1. \A n \in Movements : \/ attempt'[n] = attempt[n]
                               \/ attempt'[n] = [attempt[n] EXCEPT !.state = st]
      BY <1>6
    <2>2. attempt' = [n \in Movements |-> attempt'[n]]
      BY <1>6
    <2>3. ASSUME NEW n \in Movements
          PROVE  /\ attempt'[n] = [state |-> attempt'[n].state, rev |-> attempt'[n].rev,
                                   dep |-> attempt'[n].dep]
                 /\ attempt'[n].state \in AttemptStates /\ attempt'[n].rev \in 0..head'
      <3>1. attempt[n] = [state |-> attempt[n].state, rev |-> attempt[n].rev,
                          dep |-> attempt[n].dep]
        OBVIOUS
      <3>2. CASE attempt'[n] = [attempt[n] EXCEPT !.state = st]
        BY <1>6, <3>1, <3>2, AttemptEnds
      <3> QED
        BY <1>6, <2>1, <3>2
    <2> QED
      BY <1>6, <2>2, <2>3
  <1>7. ASSUME NEW r \in Resumers,
               AttemptCompletes(r) \/ AttemptFails(r) \/ AppendAttemptBlocked(r)
        PROVE  LifecycleType'
    BY <1>6, <1>7 DEF AttemptCompletes, AttemptFails, AppendAttemptBlocked, AttemptStates
  <1> QED
    BY <1>1, <1>2, <1>3, <1>4, <1>5, <1>7, LifecycleStep

\* A head never goes back.
LEMMA HeadGrows ==
    ASSUME ShapeInv, Next
    PROVE  head' = head \/ (Commits /\ head' = head + 1)
  BY LifecycleStep
  DEF Commits, Commit, AppendMovementSucceeded, AttemptCompletes, AttemptFails,
      AppendAttemptBlocked, StartAttempt, lifecycle

-----------------------------------------------------------------------------
(* Proposals. *)

\* What an adapter raises is new.
LEMMA Raising ==
    ASSUME NEW todo \in Raisable
    PROVE  /\ todo \in Seq(Raised)
           /\ \A d \in Range(todo) \cap Proposals : d \in Blocking /\ base[d] = 0
           /\ \A d \in Range(todo) \cap Questions : log[d] = Silent
  <1> DEFINE new == {b \in Blocking : base[b] = 0} \cup {q \in Questions : log[q] = Silent}
  <1>1. /\ new \subseteq Raised
        /\ \A d \in new \cap Proposals : d \in Blocking /\ base[d] = 0
        /\ \A d \in new \cap Questions : log[d] = Silent
    BY IdentityAssumption DEF Raised, Proposals
  <1>2. \/ \E d \in new : todo = <<d>>
        \/ \E d, e \in new : todo = <<d, e>>
    BY DEF Raisable
  <1>3. todo \in Seq(new) /\ todo \in Seq(Raised)
    <2> HIDE DEF new
    <2>1. ASSUME NEW d \in new PROVE <<d>> \in Seq(new)
      BY <2>1
    <2>2. ASSUME NEW d \in new, NEW e \in new PROVE <<d, e>> \in Seq(new)
      BY <2>2
    <2>3. todo \in Seq(new)
      BY <1>2, <2>1, <2>2
    <2> QED
      BY <1>1, <2>3, SeqMonotonic
  <1>4. Range(todo) \subseteq new
    BY <1>3, Elements
  <1> QED
    BY <1>1, <1>3, <1>4

\* Who changes what is proposed.
LEMMA ProposedStep ==
    ASSUME ShapeInv, CaptureInv, Next
    PROVE  /\ patch' \in [Proposals -> Patches] /\ base' \in [Proposals -> 0..head]
           /\ \A p \in Proposals : base[p] # 0 => base'[p] = base[p] /\ patch'[p] = patch[p]
  <1> USE DEF ShapeInv, LifecycleType, ProposedType
  <1>1. ASSUME NEW p \in Cli, Capture(p)
        PROVE  /\ patch' \in [Proposals -> Patches] /\ base' \in [Proposals -> 0..head]
               /\ \A q \in Proposals : base[q] # 0 => base'[q] = base[q] /\ patch'[q] = patch[q]
    <2>1. base[p] = 0 /\ p \in Proposals
      BY <1>1 DEF Capture, CaptureInv, Proposals
    <2>2. PICK x \in CliPatches : patch' = [patch EXCEPT ![p] = x]
      BY <1>1 DEF Capture
    <2>3. x \in Patches
      BY AmendmentAssumption
    <2> QED
      BY <1>1, <2>1, <2>2, <2>3 DEF Capture
  <1>2. ASSUME NEW r \in Resumers, BeginFinalization(r)
        PROVE  /\ patch' \in [Proposals -> Patches] /\ base' \in [Proposals -> 0..head]
               /\ \A q \in Proposals : base[q] # 0 => base'[q] = base[q] /\ patch'[q] = patch[q]
    <2>1. patch' = patch
      BY <1>2 DEF BeginFinalization
    <2>2. PICK f \in Finals : base[f] = 0 /\ base' = [base EXCEPT ![f] = head]
      BY <1>2 DEF BeginFinalization
    <2>3. head \in 0..head /\ f \in Proposals
      BY DEF Proposals
    <2> QED
      BY <2>1, <2>2, <2>3
  <1>3. ASSUME NEW r \in Resumers, AttemptRaises(r)
        PROVE  /\ patch' \in [Proposals -> Patches] /\ base' \in [Proposals -> 0..head]
               /\ \A q \in Proposals : base[q] # 0 => base'[q] = base[q] /\ patch'[q] = patch[q]
    <2> DEFINE rev == attempt[raised[r].of].rev
    <2>1. PICK todo \in Raisable, x \in [Blocking -> RaisedPatches] :
             /\ patch' = [q \in Proposals |-> IF q \in Range(todo) \cap Proposals THEN x[q]
                                              ELSE patch[q]]
             /\ base' = [q \in Proposals |-> IF q \in Range(todo) \cap Proposals THEN rev
                                             ELSE base[q]]
      BY <1>3 DEF AttemptRaises
    <2>2. rev \in 0..head
      BY <1>3, AmendmentAssumption DEF AttemptRaises
    <2>3. \A q \in Range(todo) \cap Proposals : base[q] = 0 /\ x[q] \in Patches
      BY Raising, AmendmentAssumption
    <2> HIDE DEF rev
    <2> QED
      BY <2>1, <2>2, <2>3
  <1>4. CASE UNCHANGED proposed
    BY <1>4 DEF proposed
  <1>5. CASE Amending
    BY <1>1, <1>4, <1>5 DEF Amending, ApprovalIntent, Submit, CompleteSubmission, Commit
  <1>6. CASE Deciding
    BY <1>4, <1>6 DEF Deciding, ApproveRouted, CompleteApproval, RequestCancellation, LoadRouted,
                      RejectRoutedAmendment, ResolveQuestion, Commit
  <1>7. ASSUME NEW r \in Resumers, Resume(r) \/ Recovering(r) \/ Crash(r), ~BeginFinalization(r)
        PROVE  UNCHANGED proposed
    BY <1>7 DEF Resume, Recovering, Crash, CleanUp, ExecuteCancellation, CompletePrepare,
                ReturnWaitingHuman, AcquireAuthority, AppendBlockedRoute, AppendRoutedRequest,
                FinalsExhausted, RouteFinalization, AppendQuestionRequest, AppendMovementSucceeded,
                HaltOrReturn, StartAttempt, Commit
  <1>8. ASSUME NEW r \in Resumers, Driving(r), ~AttemptRaises(r)
        PROVE  UNCHANGED proposed
    BY <1>8 DEF Driving, AttemptCompletes, AttemptFails, DisposeRaised, AppendAttemptBlocked,
                AppendRoute, AppendRequest, DriverStops
  <1> QED
    BY <1>2, <1>3, <1>4, <1>5, <1>6, <1>7, <1>8 DEF Next

\* Records are of proposals.
LEMMA RecordsTyped ==
    ASSUME ShapeInv, DriverInv, Next
    PROVE  records' \subseteq Proposals
  <1> USE DEF ShapeInv, ProposedType
  <1>1. CASE Amending
    BY <1>1 DEF Amending, Capture, ApprovalIntent, Submit, CompleteSubmission, Commit,
                PublishAndRoute, Proposals
  <1>2. CASE Deciding
    BY <1>2 DEF Deciding, ApproveRouted, CompleteApproval, RequestCancellation, LoadRouted,
                RejectRoutedAmendment, ResolveQuestion, Commit
  <1>3. ASSUME NEW r \in Resumers, RouteFinalization(r)
        PROVE  records' \subseteq Proposals
    <2>1. raised[r].of \in Proposals
      BY <1>3 DEF RouteFinalization, DriverInv, Proposals
    <2>2. records' \subseteq records \cup {raised[r].of}
      BY <1>3 DEF RouteFinalization, PublishAndRoute
    <2> QED
      BY <2>1, <2>2
  <1>4. ASSUME NEW r \in Resumers, Resume(r) \/ Recovering(r) \/ Crash(r)
        PROVE  records' \subseteq Proposals
    BY <1>3, <1>4
    DEF Resume, Recovering, Crash, CleanUp, ExecuteCancellation, CompletePrepare,
        ReturnWaitingHuman, AcquireAuthority, AppendBlockedRoute, AppendRoutedRequest,
        BeginFinalization, FinalsExhausted, AppendQuestionRequest, AppendMovementSucceeded,
        HaltOrReturn, StartAttempt, Commit, QuarantineUnreferencedRecords
  <1>5. ASSUME NEW r \in Resumers, Driving(r)
        PROVE  records' \subseteq Proposals
    BY <1>5
    DEF Driving, AttemptCompletes, AttemptFails, AttemptRaises, DisposeRaised,
        AppendAttemptBlocked, AppendRoute, AppendRequest, DriverStops
  <1> QED
    BY <1>1, <1>2, <1>4, <1>5 DEF Next

\* Proposals keep their shape, and are based on a revision that exists.
LEMMA ProposedTyped ==
    ASSUME ShapeInv, CaptureInv, DriverInv, Next
    PROVE  ProposedType'
  BY ProposedStep, RecordsTyped, HeadGrows DEF ShapeInv, LifecycleType, ProposedType

-----------------------------------------------------------------------------
(* Decisions. *)

\* Who rejects a proposal before a prepare: a command, a finalization, the
\* human who was asked, or the driver whose adapter raised it.
Rejecting(p) ==
    /\ RejectProposal(p) /\ prepare = None
    /\ \/ p \in Cli \cup Finals \cup pending
       \/ \E r \in Resumers : DisposeRaised(r)

\* A command or a finalization is published; an adapter's proposal is not.
Publishing(p) == \E cut \in {"record", "route", "request"} : PublishAndRoute(p, cut)

Cancelling == pending' = {} /\ prepare' = None /\ UNCHANGED <<log, routed>> /\ cancel' = "done"

\* Who changes what the journal says of decisions.
LEMMA DecisionStep ==
    ASSUME ShapeInv, DriverInv, Next
    PROVE  \/ UNCHANGED decisions
           \/ \E p \in Cli \cup Finals : Publishing(p) /\ prepare = None
           \/ \E p \in Proposals : Rejecting(p)
           \/ \E p \in Proposals : RejectRoutedAmendment(p)
           \/ \E q \in Questions : ResolveQuestion(q)
           \/ Cancelling
           \/ Commits
           \/ \E r \in Resumers :
                \/ AppendBlockedRoute(r) \/ AppendRoutedRequest(r) \/ AppendQuestionRequest(r)
                \/ AppendAttemptBlocked(r) \/ AppendRoute(r) \/ AppendRequest(r)
  <1>1. ASSUME NEW p \in Cli, Submit(p)
        PROVE  UNCHANGED decisions \/ (Publishing(p) /\ prepare = None) \/ Rejecting(p)
    BY <1>1 DEF Submit, Publishing, Rejecting
  <1>2. CASE Amending
    BY <1>1, <1>2 DEF Amending, Capture, ApprovalIntent, CompleteSubmission, Commits, Proposals
  <1>3. ASSUME ApproveRouted
        PROVE  UNCHANGED decisions \/ \E p \in Proposals : Rejecting(p)
    BY <1>3 DEF ApproveRouted, Routable, Rejecting, ShapeInv, DecisionType
  <1>4. CASE Deciding
    BY <1>3, <1>4 DEF Deciding, CompleteApproval, RequestCancellation, LoadRouted, Commits
  <1>5. ASSUME NEW r \in Resumers, RouteFinalization(r)
        PROVE  \/ UNCHANGED decisions
               \/ \E p \in Finals : (Publishing(p) /\ prepare = None) \/ Rejecting(p)
    <2>1. raised[r].of \in Finals
      BY <1>5 DEF RouteFinalization, DriverInv
    <2> QED
      BY <1>5, <2>1 DEF RouteFinalization, Publishing, Rejecting
  <1>6. ASSUME NEW r \in Resumers, ExecuteCancellation(r)
        PROVE  Cancelling
    BY <1>6 DEF ExecuteCancellation, Cancelling
  <1>7. ASSUME NEW r \in Resumers, Resume(r) \/ Recovering(r) \/ Crash(r),
               ~RouteFinalization(r), ~ExecuteCancellation(r)
        PROVE  \/ UNCHANGED decisions \/ Commits
               \/ AppendBlockedRoute(r) \/ AppendRoutedRequest(r) \/ AppendQuestionRequest(r)
    BY <1>7 DEF Resume, Recovering, Crash, CleanUp, CompletePrepare, ReturnWaitingHuman,
                AcquireAuthority, BeginFinalization, FinalsExhausted, AppendMovementSucceeded,
                HaltOrReturn, StartAttempt, Commits
  <1>8. ASSUME NEW r \in Resumers, DisposeRaised(r)
        PROVE  UNCHANGED decisions \/ \E p \in Proposals : Rejecting(p)
    BY <1>8 DEF DisposeRaised, Authorised, Rejecting
  <1>9. ASSUME NEW r \in Resumers, Driving(r)
        PROVE  \/ UNCHANGED decisions \/ \E p \in Proposals : Rejecting(p)
               \/ AppendAttemptBlocked(r) \/ AppendRoute(r) \/ AppendRequest(r)
    BY <1>8, <1>9 DEF Driving, AttemptCompletes, AttemptFails, AttemptRaises, DriverStops
  <1> QED
    BY <1>2, <1>4, <1>5, <1>6, <1>7, <1>9 DEF Next, Proposals

\* What the journal may say of a decision.
Said == [described : 0..head, routed : BOOLEAN, requested : BOOLEAN,
         answer : {"none", "rejected", "human_rejected", "approved", "answered"}]

\* A decision that a resumer works on was raised by its attempt.
LEMMA Raisedness ==
    ASSUME ShapeInv, NEW r \in Resumers
    PROVE  /\ raised[r].todo \in Seq(Raised) /\ raised[r].kept \in Seq(Raised)
           /\ raised[r].routes \in Seq(Blocking)
           /\ raised[r] = [of |-> raised[r].of, todo |-> raised[r].todo,
                           kept |-> raised[r].kept, routes |-> raised[r].routes]
           /\ Range(raised[r].todo) \subseteq Decidable
           /\ Range(raised[r].kept) \subseteq Decidable
           /\ raised[r].todo # <<>> =>
                /\ Head(raised[r].todo) \in Range(raised[r].todo)
                /\ Tail(raised[r].todo) \in Seq(Raised)
                /\ Range(raised[r].todo) = {Head(raised[r].todo)} \cup Range(Tail(raised[r].todo))
  <1>1. raised[r] \in Raise
    BY DEF ShapeInv, ResumerType
  <1>2. /\ raised[r].todo \in Seq(Raised) /\ raised[r].kept \in Seq(Raised)
        /\ raised[r].routes \in Seq(Blocking)
        /\ raised[r] = [of |-> raised[r].of, todo |-> raised[r].todo,
                        kept |-> raised[r].kept, routes |-> raised[r].routes]
    BY <1>1 DEF Raise
  <1>3. Raised \subseteq Decidable
    BY DEF Raised, Decidable, Proposals
  <1> QED
    BY <1>2, <1>3, Elements, Removed

\* The log of decisions keeps its shape.
LEMMA DecisionTyped ==
    ASSUME ShapeInv, DriverInv, Next
    PROVE  DecisionType'
  <1> USE DEF ShapeInv, DecisionType
  <1>1. log \in [Decidable -> Said] /\ 0..head \subseteq 0..head' /\ head \in 0..head
    BY HeadGrows DEF Said, LifecycleType
  <1>2. SUFFICES routed' \subseteq Proposals /\ pending' \subseteq Decidable
                 /\ log' \in [Decidable -> Said]
    BY <1>1 DEF Said
  <1>3. ASSUME NEW p \in Cli \cup Finals, Publishing(p)
        PROVE  routed' \subseteq Proposals /\ pending' \subseteq Decidable
               /\ log' \in [Decidable -> Said]
    <2>1. PICK cut \in {"record", "route", "request"} : PublishAndRoute(p, cut)
      BY <1>3 DEF Publishing
    <2>2. p \in Proposals /\ p \in Decidable
      BY DEF Proposals, Decidable
    <2>3. CASE cut = "record"
      BY <1>1, <2>1, <2>3 DEF PublishAndRoute, decisions
    <2>4. CASE cut # "record"
      <3> DEFINE b == cut = "request"
      <3>1. /\ routed' = routed \cup {p}
            /\ pending' = pending \cup {p} \/ pending' = pending
            /\ log' = [log EXCEPT ![p].routed = TRUE, ![p].requested = b]
        BY <2>1, <2>4 DEF PublishAndRoute
      <3>2. b \in BOOLEAN
        OBVIOUS
      <3> HIDE DEF b
      <3>3. log[p] \in Said
        BY <1>1, <2>2
      <3>4. [log[p] EXCEPT !.routed = TRUE, !.requested = b] \in Said
        BY <3>2, <3>3 DEF Said
      <3>5. log' \in [Decidable -> Said]
        BY <1>1, <2>2, <3>1, <3>4
      <3> QED
        BY <2>2, <3>1, <3>5
    <2> QED
      BY <2>3, <2>4
  <1>4. ASSUME NEW p \in Proposals, Rejecting(p) \/ RejectRoutedAmendment(p)
        PROVE  routed' \subseteq Proposals /\ pending' \subseteq Decidable
               /\ log' \in [Decidable -> Said]
    BY <1>1, <1>4 DEF Rejecting, RejectProposal, RejectRoutedAmendment, Said
  <1>5. ASSUME NEW q \in Questions, ResolveQuestion(q)
        PROVE  routed' \subseteq Proposals /\ pending' \subseteq Decidable
               /\ log' \in [Decidable -> Said]
    BY <1>1, <1>5 DEF ResolveQuestion, Said
  <1>6. CASE Commits
    BY <1>1, <1>6 DEF Commits, Commit, Said
  <1>7. ASSUME NEW d \in Decidable, Request(d), routed' = routed
        PROVE  routed' \subseteq Proposals /\ pending' \subseteq Decidable
               /\ log' \in [Decidable -> Said]
    BY <1>1, <1>7 DEF Request, Said
  <1>8. ASSUME NEW r \in Resumers,
               AppendRoutedRequest(r) \/ AppendQuestionRequest(r) \/ AppendRequest(r)
        PROVE  routed' \subseteq Proposals /\ pending' \subseteq Decidable
               /\ log' \in [Decidable -> Said]
    <2>1. \/ \E d \in Decidable : Request(d) /\ routed' = routed
          \/ UNCHANGED decisions
      BY <1>8, Raisedness
      DEF AppendRoutedRequest, AppendQuestionRequest, AppendRequest, OpenRequests, OpenQuestions,
          Decidable, decisions
    <2> QED
      BY <1>1, <1>7, <2>1 DEF decisions
  <1>9. ASSUME NEW r \in Resumers, NEW p \in Proposals, pending' = pending,
               routed' = routed \cup {p}, log' = [log EXCEPT ![p].routed = TRUE]
        PROVE  routed' \subseteq Proposals /\ pending' \subseteq Decidable
               /\ log' \in [Decidable -> Said]
    BY <1>1, <1>9 DEF Said
  <1>10. ASSUME NEW r \in Resumers, AppendBlockedRoute(r)
         PROVE  routed' \subseteq Proposals /\ pending' \subseteq Decidable
                /\ log' \in [Decidable -> Said]
    BY <1>9, <1>10 DEF AppendBlockedRoute, OpenRoutes
  <1>11. ASSUME NEW r \in Resumers, AppendAttemptBlocked(r)
         PROVE  routed' \subseteq Proposals /\ pending' \subseteq Decidable
                /\ log' \in [Decidable -> Said]
    <2>1. /\ UNCHANGED <<routed, pending>>
          /\ log' = [d \in Decidable |->
               IF d \in Range(raised[r].kept) THEN [log[d] EXCEPT !.described = head] ELSE log[d]]
      BY <1>11 DEF AppendAttemptBlocked
    <2> QED
      BY <1>1, <2>1 DEF Said
  <1>12. ASSUME NEW r \in Resumers, AppendRoute(r)
         PROVE  routed' \subseteq Proposals /\ pending' \subseteq Decidable
                /\ log' \in [Decidable -> Said]
    <2>1. CASE raised[r].todo = <<>>
      BY <1>1, <1>12, <2>1 DEF AppendRoute
    <2>2. CASE raised[r].todo # <<>>
      <3>1. Head(raised[r].todo) \in Proposals
        BY <1>12, <2>2, Raisedness DEF AppendRoute, DriverInv, Proposals
      <3> QED
        BY <1>9, <1>12, <2>2, <3>1 DEF AppendRoute
    <2> QED
      BY <2>1, <2>2
  <1>13. CASE UNCHANGED decisions \/ Cancelling
    BY <1>1, <1>13 DEF decisions, Cancelling
  <1> QED
    BY <1>3, <1>4, <1>5, <1>6, <1>8, <1>10, <1>11, <1>12, <1>13, DecisionStep

-----------------------------------------------------------------------------
(* Commands and resumers. *)

\* The commands and the prepare keep their shape.
LEMMA CommandTyped ==
    ASSUME ShapeInv, Next
    PROVE  CommandType'
  <1> USE DEF ShapeInv, CommandType
  <1>1. ASSUME NEW p \in Proposals, NEW mode \in {"auto", "human"}, AppendPrepare(p, mode)
        PROVE  prepare' \in [of : Proposals, mode : {"auto", "human"}, to : [Fields -> 0..1]]
    BY <1>1, PatchedType DEF AppendPrepare
  <1>2. ASSUME NEW p \in Cli, Capture(p) \/ ApprovalIntent(p) \/ CompleteSubmission(p)
        PROVE  CommandType'
    BY <1>2 DEF Capture, ApprovalIntent, CompleteSubmission, Commit
  <1>3. ASSUME NEW p \in Cli, Submit(p)
        PROVE  CommandType'
    <2>1. prepare' = prepare \/ AppendPrepare(p, "auto")
      BY <1>3 DEF Submit
    <2>2. /\ cli' \in [Cli -> {"idle", "captured", "barrier", "dispose", "commit", "done"}]
          /\ human' = human
      BY <1>3 DEF Submit
    <2> QED
      BY <1>1, <2>1, <2>2 DEF Proposals
  <1>4. ASSUME ApproveRouted
        PROVE  CommandType'
    <2>1. prepare' = prepare \/ (human.of \in Proposals /\ AppendPrepare(human.of, "human"))
      BY <1>4 DEF ApproveRouted, Routable, DecisionType
    <2>2. cli' = cli /\ human' \in [pc : {"idle", "loaded", "commit"}, of : Proposals \cup {None}]
      <3>1. cli' = cli /\ human' \in {[pc |-> "idle", of |-> None], [human EXCEPT !.pc = "commit"]}
        BY <1>4 DEF ApproveRouted
      <3> QED
        BY <3>1
    <2> QED
      BY <1>1, <2>1, <2>2
  <1>5. CASE Amending
    BY <1>2, <1>3, <1>5 DEF Amending
  <1>6. CASE Deciding
    BY <1>4, <1>6 DEF Deciding, CompleteApproval, RequestCancellation, LoadRouted,
                      RejectRoutedAmendment, ResolveQuestion, Commit
  <1>7. ASSUME NEW r \in Resumers, Resume(r) \/ Recovering(r) \/ Crash(r)
        PROVE  CommandType'
    BY <1>7
    DEF Resume, Recovering, Crash, CleanUp, ExecuteCancellation, CompletePrepare,
        ReturnWaitingHuman, AcquireAuthority, AppendBlockedRoute, AppendRoutedRequest,
        BeginFinalization, FinalsExhausted, RouteFinalization, AppendQuestionRequest,
        AppendMovementSucceeded, HaltOrReturn, StartAttempt, Commit
  <1>8. ASSUME NEW r \in Resumers, Driving(r)
        PROVE  CommandType'
    BY <1>8
    DEF Driving, AttemptCompletes, AttemptFails, AttemptRaises, DisposeRaised,
        AppendAttemptBlocked, AppendRoute, AppendRequest, DriverStops
  <1> QED
    BY <1>5, <1>6, <1>7, <1>8 DEF Next

Steps == {"idle", "clear", "plan", "recover", "finalize", "work", "dispose", "route", "request"}

Driver(r, to, x) ==
    /\ lease' = r => to \notin {"idle", "clear", "plan"}
    /\ to = "finalize" => x.of \in Finals
    /\ to = "route" => Range(x.todo) \subseteq Blocking
    /\ lease' = r /\ to \in {"work", "dispose"} => x.of \in Movements /\ attempt'[x.of].rev = head'

\* An attempt against the head remains one, or no process has the lease.
LEMMA RevisionStep ==
    ASSUME ShapeInv, Next
    PROVE  \/ lease' = None
           \/ head' = head /\ \A m \in Movements : attempt'[m].rev \in {attempt[m].rev, head}
  <1> USE DEF ShapeInv, LifecycleType
  <1>1. CASE Commits
    BY <1>1 DEF Commits, Commit
  <1>2. CASE UNCHANGED <<head, attempt>>
    BY <1>2
  <1>3. ASSUME NEW r \in Resumers, NEW m \in Movements, StartAttempt(r, m)
        PROVE  head' = head /\ \A n \in Movements : attempt'[n].rev \in {attempt[n].rev, head}
    <2>1. /\ head' = head
          /\ attempt' = [attempt EXCEPT ![m] =
               [state |-> "RUNNING", rev |-> head, dep |-> Dependency(score, head, m)]]
      BY <1>3 DEF StartAttempt
    <2> QED
      BY <2>1
  <1>4. ASSUME NEW m, NEW st, attempt' = [attempt EXCEPT ![m].state = st], NEW n \in Movements
        PROVE  attempt'[n].rev = attempt[n].rev
    <2>1. attempt[n] = [state |-> attempt[n].state, rev |-> attempt[n].rev,
                        dep |-> attempt[n].dep]
      OBVIOUS
    <2>2. attempt'[n] = attempt[n] \/ attempt'[n] = [attempt[n] EXCEPT !.state = st]
      BY <1>4
    <2> QED
      BY <2>1, <2>2, AttemptEnds
  <1>5. ASSUME NEW r \in Resumers,
               AttemptCompletes(r) \/ AttemptFails(r) \/ AppendAttemptBlocked(r)
        PROVE  head' = head /\ \A m \in Movements : attempt'[m].rev \in {attempt[m].rev, head}
    <2>1. PICK st : attempt' = [attempt EXCEPT ![raised[r].of].state = st]
      BY <1>5 DEF AttemptCompletes, AttemptFails, AppendAttemptBlocked
    <2>2. head' = head
      BY <1>5 DEF AttemptCompletes, AttemptFails, AppendAttemptBlocked
    <2> QED
      BY <1>4, <2>1, <2>2
  <1> QED
    BY <1>1, <1>2, <1>3, <1>5, LifecycleStep DEF lifecycle, AppendMovementSucceeded

\* The shape of the resumers when one of them takes a step.
LEMMA Moved ==
    ASSUME ShapeInv, DriverInv, Next, NEW r \in Resumers, NEW to \in Steps, NEW x \in Raise,
           pc' = [pc EXCEPT ![r] = to], raised' = [raised EXCEPT ![r] = x],
           lease' \in {lease, None, Dead, r}, Driver(r, to, x)
    PROVE  ResumerType' /\ DriverInv'
  <1>1. ResumerType'
    BY DEF ShapeInv, ResumerType, Steps
  <1>2. pc'[r] = to /\ raised'[r] = x
    BY DEF ShapeInv, ResumerType
  <1>3. ASSUME NEW s \in Resumers, s # r
        PROVE  pc'[s] = pc[s] /\ raised'[s] = raised[s] /\ (lease' = s => lease = s)
    BY <1>3, IdentityAssumption DEF ShapeInv, ResumerType
  <1>4. ASSUME NEW s \in Resumers, s # r, lease' = s, pc[s] \in {"work", "dispose"}
        PROVE  raised[s].of \in Movements /\ attempt'[raised[s].of].rev = head'
    BY <1>3, <1>4, RevisionStep, IdentityAssumption DEF DriverInv
  <1> QED
    BY <1>1, <1>2, <1>3, <1>4 DEF DriverInv, Driver

\* The shape of the resumers when none of them takes a step.
LEMMA Unmoved ==
    ASSUME ShapeInv, DriverInv, Next, UNCHANGED <<pc, raised>>, lease' \in {lease, None}
    PROVE  ResumerType' /\ DriverInv'
  <1>1. ResumerType'
    BY DEF ShapeInv, ResumerType, Steps
  <1>2. ASSUME NEW s \in Resumers, lease' = s, pc[s] \in {"work", "dispose"}
        PROVE  raised[s].of \in Movements /\ attempt'[raised[s].of].rev = head'
    BY <1>2, RevisionStep, IdentityAssumption DEF DriverInv
  <1>3. \A s \in Resumers : lease' = s => lease = s
    BY IdentityAssumption
  <1> QED
    BY <1>1, <1>2, <1>3 DEF DriverInv

\* What a process may go on with.
LEMMA Raises ==
    ASSUME ShapeInv, NEW r \in Resumers
    PROVE  /\ Nothing \in Raise /\ raised[r] \in Raise
           /\ \A y \in Proposals \cup Movements : [raised[r] EXCEPT !.of = y] \in Raise
           /\ \A t \in Seq(Raised) :
                [raised[r] EXCEPT !.todo = t] \in Raise
                /\ [raised[r] EXCEPT !.todo = t].todo = t
                /\ [raised[r] EXCEPT !.todo = t].of = raised[r].of
                /\ [raised[r] EXCEPT !.todo = t].kept = raised[r].kept
                /\ [raised[r] EXCEPT !.todo = t].routes = raised[r].routes
  <1>1. raised[r] \in Raise
    BY DEF ShapeInv, ResumerType
  <1>2. <<>> \in Seq(Raised) /\ <<>> \in Seq(Blocking)
    BY NoElements
  <1> QED
    BY <1>1, <1>2 DEF Raise, Nothing

\* Of an attempt that goes on, what is still to be disposed of.
LEMMA Disposed ==
    ASSUME ShapeInv, NEW r \in Resumers, DisposeRaised(r)
    PROVE  \E x \in Raise :
             /\ raised' = [raised EXCEPT ![r] = x] /\ x.of = raised[r].of
             /\ LET d == Head(raised[r].todo) IN
                \/ /\ x.kept = Append(raised[r].kept, d)
                   /\ x.routes = IF d \in Proposals THEN Append(raised[r].routes, d)
                                 ELSE raised[r].routes
                   /\ d \in Proposals => d \in records'
                \/ x.kept = raised[r].kept /\ x.routes = raised[r].routes
  <1> DEFINE d == Head(raised[r].todo)
             t == Tail(raised[r].todo)
             y == raised[r]
  <1>1. raised[r].todo # <<>>
    BY DEF DisposeRaised
  <1>2. /\ d \in Raised /\ t \in Seq(Raised) /\ y.kept \in Seq(Raised) /\ y.routes \in Seq(Blocking)
        /\ d \in Proposals => d \in Blocking
        /\ y = [of |-> y.of, todo |-> y.todo, kept |-> y.kept, routes |-> y.routes]
        /\ y.of \in Proposals \cup Movements \cup {None}
    BY <1>1, Raisedness, Raises, Removed, IdentityAssumption DEF Raised, Raise
  <1>3. PICK keep \in BOOLEAN : Dispose(r, keep) /\ (keep /\ d \in Proposals => d \in records')
    <2>1. \/ Dispose(r, TRUE) /\ (d \in Proposals => d \in records')
          \/ Dispose(r, FALSE)
      BY IdentityAssumption DEF DisposeRaised
    <2> QED
      BY <2>1
  <1>4. /\ Append(y.kept, d) \in Seq(Raised)
        /\ d \in Proposals => Append(y.routes, d) \in Seq(Blocking)
    BY <1>2, Added
  <1> DEFINE k == IF keep THEN Append(y.kept, d) ELSE y.kept
             q == IF keep /\ d \in Proposals THEN Append(y.routes, d) ELSE y.routes
             x == [of |-> y.of, todo |-> t, kept |-> k, routes |-> q]
  <1>5. x \in Raise
    BY <1>2, <1>4 DEF Raise
  <1>6. raised' = [raised EXCEPT ![r] = x]
    BY <1>3 DEF Dispose
  <1>7. /\ x.of = y.of
        /\ keep => /\ x.kept = Append(y.kept, d) /\ (d \in Proposals => d \in records')
                   /\ x.routes = IF d \in Proposals THEN Append(y.routes, d) ELSE y.routes
        /\ ~keep => x.kept = y.kept /\ x.routes = y.routes
    BY <1>3
  <1> QED
    BY <1>5, <1>6, <1>7

\* The resumers keep their shape.
LEMMA ResumersTyped ==
    ASSUME ShapeInv, DriverInv, Next
    PROVE  ResumerType' /\ DriverInv'
  <1>1. CASE Amending
    <2>1. UNCHANGED <<pc, raised>> /\ lease' \in {lease, None}
      BY <1>1 DEF Amending, Capture, ApprovalIntent, Submit, CompleteSubmission, Commit
    <2> QED
      BY <2>1, Unmoved
  <1>2. CASE Deciding
    <2>1. UNCHANGED <<pc, raised>> /\ lease' \in {lease, None}
      BY <1>2 DEF Deciding, ApproveRouted, CompleteApproval, RequestCancellation, LoadRouted,
                  RejectRoutedAmendment, ResolveQuestion, Commit
    <2> QED
      BY <2>1, Unmoved
  <1>3. ASSUME NEW r \in Resumers PROVE raised = [raised EXCEPT ![r] = raised[r]]
    BY DEF ShapeInv, ResumerType
  <1>4. ASSUME NEW r \in Resumers, lease' \in {lease, None, Dead}, lease' # r,
               pc' = [pc EXCEPT ![r] = "idle"], raised' = [raised EXCEPT ![r] = Nothing]
        PROVE  ResumerType' /\ DriverInv'
    BY <1>4, Raises, Moved DEF Driver, Steps
  <1>5. ASSUME NEW r \in Resumers,
               \/ ExecuteCancellation(r) \/ ReturnWaitingHuman(r) \/ FinalsExhausted(r)
               \/ HaltOrReturn(r) \/ AttemptFails(r) \/ DriverStops(r) \/ Crash(r)
        PROVE  ResumerType' /\ DriverInv'
    <2>1. /\ lease' \in {lease, None, Dead} /\ lease' # r
          /\ pc' = [pc EXCEPT ![r] = "idle"] /\ raised' = [raised EXCEPT ![r] = Nothing]
      <3>1. CASE ExecuteCancellation(r) \/ ReturnWaitingHuman(r)
        BY <3>1, IdentityAssumption
        DEF ExecuteCancellation, ReturnWaitingHuman, Exit, Goto, Release
      <3>2. CASE FinalsExhausted(r) \/ HaltOrReturn(r)
        BY <3>2, IdentityAssumption DEF FinalsExhausted, HaltOrReturn, Exit, Goto, Release
      <3>3. CASE AttemptFails(r) \/ DriverStops(r)
        BY <3>3, IdentityAssumption DEF AttemptFails, DriverStops, Exit, Goto, Release
      <3>4. CASE Crash(r)
        BY <3>4, IdentityAssumption DEF Crash, Exit, Goto, Release
      <3> QED
        BY <1>5, <3>1, <3>2, <3>3, <3>4
    <2> QED
      BY <1>4, <2>1
  <1>6. ASSUME NEW r \in Resumers, lease' = lease, lease # r, raised' = raised,
               NEW to \in {"clear", "plan"}, pc' = [pc EXCEPT ![r] = to]
        PROVE  ResumerType' /\ DriverInv'
    <2>1. raised[r] \in Raise /\ raised' = [raised EXCEPT ![r] = raised[r]]
      BY <1>3, <1>6, Raises
    <2>2. Driver(r, to, raised[r]) /\ to \in Steps
      BY <1>6 DEF Driver, Steps
    <2> QED
      BY <1>6, <2>1, <2>2, Moved
  <1>7. ASSUME NEW r \in Resumers, Resume(r) \/ CleanUp(r)
        PROVE  ResumerType' /\ DriverInv'
    BY <1>6, <1>7, IdentityAssumption DEF Resume, CleanUp, Goto, DriverInv
  <1>8. ASSUME NEW r \in Resumers, CompletePrepare(r)
        PROVE  ResumerType' /\ DriverInv'
    <2>1. lease' = None /\ raised' = raised /\ pc' = [pc EXCEPT ![r] = "idle"]
      BY <1>8 DEF CompletePrepare, Commit, Goto
    <2> QED
      BY <1>3, <2>1, Raises, Moved, IdentityAssumption DEF Driver, Steps
  <1>9. ASSUME NEW r \in Resumers, AcquireAuthority(r)
        PROVE  ResumerType' /\ DriverInv'
    <2>1. /\ raised' = raised
          /\ \/ lease' = r /\ pc' = [pc EXCEPT ![r] = "recover"]
             \/ lease' = lease /\ lease # r /\ pc' = [pc EXCEPT ![r] = "idle"]
      BY <1>9 DEF AcquireAuthority, Goto, DriverInv
    <2> QED
      BY <1>3, <2>1, Raises, Moved DEF Driver, Steps
  <1>10. ASSUME NEW r \in Resumers, UNCHANGED <<pc, raised, lease>>
         PROVE  ResumerType' /\ DriverInv'
    BY <1>10, Unmoved
  <1>11. ASSUME NEW r \in Resumers,
                \/ AppendBlockedRoute(r) \/ AppendRoutedRequest(r) \/ AppendQuestionRequest(r)
                \/ AppendMovementSucceeded(r)
         PROVE  ResumerType' /\ DriverInv'
    BY <1>10, <1>11
    DEF AppendBlockedRoute, AppendRoutedRequest, AppendQuestionRequest, AppendMovementSucceeded
  <1>12. ASSUME NEW r \in Resumers, BeginFinalization(r)
         PROVE  ResumerType' /\ DriverInv'
    <2>1. PICK f \in Finals : raised' = [raised EXCEPT ![r].of = f]
      BY <1>12 DEF BeginFinalization
    <2> DEFINE x == [raised[r] EXCEPT !.of = f]
    <2>2. lease' = lease /\ raised' = [raised EXCEPT ![r] = x]
          /\ pc' = [pc EXCEPT ![r] = "finalize"]
      BY <1>12, <2>1 DEF BeginFinalization, Goto
    <2>3. x \in Raise /\ x.of = f
      BY Raises DEF Proposals, Raise
    <2> QED
      BY <2>2, <2>3, Moved DEF Driver, Steps
  <1>13. ASSUME NEW r \in Resumers, NEW x \in {raised[r], Nothing},
                NEW to \in {"recover", "request"}, lease' = lease,
                raised' = [raised EXCEPT ![r] = x], pc' = [pc EXCEPT ![r] = to]
         PROVE  ResumerType' /\ DriverInv'
    BY <1>13, Raises, Moved DEF Driver, Steps
  <1>14. ASSUME NEW r \in Resumers, RouteFinalization(r)
         PROVE  ResumerType' /\ DriverInv'
    <2>1. \/ Exit(r)
          \/ lease' = lease /\ raised' = [raised EXCEPT ![r] = Nothing]
             /\ pc' = [pc EXCEPT ![r] = "recover"]
      BY <1>14 DEF RouteFinalization, Goto
    <2> QED
      BY <1>4, <1>13, <2>1, IdentityAssumption DEF Exit, Goto, Release
  <1>15. ASSUME NEW r \in Resumers, NEW m \in Movements, StartAttempt(r, m)
         PROVE  ResumerType' /\ DriverInv'
    <2> DEFINE x == [raised[r] EXCEPT !.of = m]
    <2>1. lease' = lease /\ raised' = [raised EXCEPT ![r] = x] /\ pc' = [pc EXCEPT ![r] = "work"]
      BY <1>15 DEF StartAttempt, Goto
    <2>2. x \in Raise /\ x.of = m
      BY Raises DEF Raise
    <2>3. attempt'[m].rev = head'
      BY <1>15 DEF StartAttempt, ShapeInv, LifecycleType
    <2> QED
      BY <2>1, <2>2, <2>3, Moved DEF Driver, Steps
  <1>16. ASSUME NEW r \in Resumers, AttemptCompletes(r)
         PROVE  ResumerType' /\ DriverInv'
    BY <1>13, <1>16 DEF AttemptCompletes, Goto
  <1>17. ASSUME NEW r \in Resumers, NEW x \in Raise, pc[r] \in {"work", "dispose"},
                lease' = lease, UNCHANGED <<head, attempt>>, x.of = raised[r].of,
                raised' = [raised EXCEPT ![r] = x], pc' = [pc EXCEPT ![r] = "dispose"]
         PROVE  ResumerType' /\ DriverInv'
    BY <1>17, Moved DEF Driver, Steps, DriverInv
  <1>18. ASSUME NEW r \in Resumers, AttemptRaises(r)
         PROVE  ResumerType' /\ DriverInv'
    <2>1. PICK todo \in Raisable : raised' = [raised EXCEPT ![r].todo = todo]
      BY <1>18 DEF AttemptRaises
    <2> DEFINE x == [raised[r] EXCEPT !.todo = todo]
    <2>2. raised' = [raised EXCEPT ![r] = x]
      BY <2>1
    <2>3. x \in Raise /\ x.of = raised[r].of
      BY Raises, Raising
    <2> QED
      BY <1>17, <1>18, <2>2, <2>3 DEF AttemptRaises, Goto, lifecycle
  <1>19. ASSUME NEW r \in Resumers, DisposeRaised(r)
         PROVE  ResumerType' /\ DriverInv'
    <2>1. pc' = [pc EXCEPT ![r] = "dispose"]
      BY <1>19 DEF DisposeRaised, ShapeInv, ResumerType
    <2> QED
      BY <1>17, <1>19, <2>1, Disposed DEF DisposeRaised, lifecycle
  <1>20. ASSUME NEW r \in Resumers, AppendAttemptBlocked(r)
         PROVE  ResumerType' /\ DriverInv'
    <2> DEFINE x == [raised[r] EXCEPT !.todo = raised[r].routes]
    <2>1. lease' = lease /\ raised' = [raised EXCEPT ![r] = x] /\ pc' = [pc EXCEPT ![r] = "route"]
      BY <1>20 DEF AppendAttemptBlocked, Goto
    <2>2. raised[r].routes \in Seq(Raised) /\ Range(raised[r].routes) \subseteq Blocking
      BY Raisedness, Elements, SeqMonotonic DEF Raised
    <2>3. x \in Raise /\ x.todo = raised[r].routes
      BY <2>2, Raises
    <2> QED
      BY <2>1, <2>2, <2>3, Moved DEF Driver, Steps
  <1>21. ASSUME NEW r \in Resumers, AppendRoute(r)
         PROVE  ResumerType' /\ DriverInv'
    <2>1. CASE raised[r].todo = <<>>
      <3> DEFINE x == [raised[r] EXCEPT !.todo = raised[r].kept]
      <3>1. lease' = lease /\ raised' = [raised EXCEPT ![r] = x]
            /\ pc' = [pc EXCEPT ![r] = "request"]
        BY <1>21, <2>1 DEF AppendRoute, Goto
      <3>2. x \in Raise
        BY Raises, Raisedness
      <3> QED
        BY <3>1, <3>2, Moved DEF Driver, Steps
    <2>2. CASE raised[r].todo # <<>>
      <3> DEFINE x == [raised[r] EXCEPT !.todo = Tail(raised[r].todo)]
      <3>1. lease' = lease /\ raised' = [raised EXCEPT ![r] = x]
        BY <1>21, <2>2 DEF AppendRoute
      <3>2. pc' = [pc EXCEPT ![r] = "route"]
        BY <1>21, <2>2 DEF AppendRoute, ShapeInv, ResumerType
      <3>3. x \in Raise /\ x.todo = Tail(raised[r].todo)
        BY <2>2, Raises, Raisedness
      <3>4. Range(x.todo) \subseteq Blocking
        BY <1>21, <2>2, <3>3, Raisedness DEF AppendRoute, DriverInv
      <3> QED
        BY <3>1, <3>2, <3>3, <3>4, Moved DEF Driver, Steps
    <2> QED
      BY <2>1, <2>2
  <1>22. ASSUME NEW r \in Resumers, AppendRequest(r)
         PROVE  ResumerType' /\ DriverInv'
    <2>1. CASE raised[r].todo = <<>>
      BY <1>13, <1>22, <2>1 DEF AppendRequest, Goto
    <2>2. CASE raised[r].todo # <<>>
      <3> DEFINE x == [raised[r] EXCEPT !.todo = Tail(raised[r].todo)]
      <3>1. lease' = lease /\ raised' = [raised EXCEPT ![r] = x]
        BY <1>22, <2>2 DEF AppendRequest
      <3>2. pc' = [pc EXCEPT ![r] = "request"]
        BY <1>22, <2>2 DEF AppendRequest, ShapeInv, ResumerType
      <3>3. x \in Raise
        BY <2>2, Raises, Raisedness
      <3> QED
        BY <3>1, <3>2, <3>3, Moved DEF Driver, Steps
    <2> QED
      BY <2>1, <2>2
  <1>23. ASSUME NEW r \in Resumers, Recovering(r)
         PROVE  ResumerType' /\ DriverInv'
    BY <1>5, <1>7, <1>8, <1>9, <1>11, <1>12, <1>14, <1>15, <1>23 DEF Recovering
  <1>24. ASSUME NEW r \in Resumers, Driving(r)
         PROVE  ResumerType' /\ DriverInv'
    BY <1>5, <1>16, <1>18, <1>19, <1>20, <1>21, <1>22, <1>24 DEF Driving
  <1> QED
    BY <1>1, <1>2, <1>5, <1>7, <1>23, <1>24 DEF Next

-----------------------------------------------------------------------------
(* What is pending is routed. *)

\* What the driver of an attempt finds in its hands when it appends.
LEMMA HeadOfTodo ==
    ASSUME ShapeInv, NEW r \in Resumers, raised[r].todo # <<>>
    PROVE  /\ Head(raised[r].todo) \in Range(raised[r].todo)
           /\ Head(raised[r].todo) \in Decidable
  BY Raisedness

\* What becomes pending has been routed or requested.
LEMMA PendingStep ==
    ASSUME ShapeInv, DriverInv, AskedInv, KeptInv, PendingIsRouted, Next
    PROVE  PendingIsRouted' /\ AskedInv'
  <1> USE DEF PendingIsRouted, AskedInv
  <1>1. log \in [Decidable -> Said] /\ \A p \in Proposals \cup Questions : p \in Decidable
    BY DEF ShapeInv, DecisionType, Said, Decidable
  <1>2. Blocking \subseteq Proposals
    BY DEF Proposals
  <1>3. ASSUME NEW p \in Cli \cup Finals, Publishing(p)
        PROVE  PendingIsRouted' /\ AskedInv'
    <2>1. p \notin Blocking
      BY IdentityAssumption
    <2>2. /\ \A b \in Blocking : log'[b] = log[b]
          /\ \/ pending' = pending /\ routed \subseteq routed'
             \/ pending' = pending \cup {p} /\ routed' = routed \cup {p}
      BY <1>1, <1>2, <1>3, <2>1 DEF Publishing, PublishAndRoute, decisions
    <2> QED
      BY <2>1, <2>2
  <1>4. ASSUME NEW p \in Proposals, Rejecting(p) \/ RejectRoutedAmendment(p)
        PROVE  PendingIsRouted' /\ AskedInv'
    <2>1. /\ routed' = routed \ {p} /\ pending' = pending \ {p}
          /\ \A b \in Blocking \ {p} : log'[b] = log[b]
      BY <1>1, <1>2, <1>4 DEF Rejecting, RejectProposal, RejectRoutedAmendment
    <2> QED
      BY <2>1
  <1>5. ASSUME NEW q \in Questions, ResolveQuestion(q)
        PROVE  PendingIsRouted' /\ AskedInv'
    BY <1>1, <1>2, <1>5, IdentityAssumption DEF ResolveQuestion
  <1>6. CASE Commits \/ Cancelling
    BY <1>6 DEF Commits, Commit, Cancelling
  <1>7. ASSUME NEW d \in Decidable, Request(d), routed' = routed,
               d \in Proposals => d \in routed \/ log[d].requested
        PROVE  PendingIsRouted' /\ AskedInv'
    <2>1. log'[d].requested /\ \A b \in Blocking \ {d} : log'[b] = log[b]
      BY <1>1, <1>2, <1>7 DEF Request, Said
    <2>2. pending' = pending \/ (pending' = pending \cup {d} /\ ~log[d].requested)
      BY <1>7 DEF Request
    <2> QED
      BY <1>7, <2>1, <2>2
  <1>8. ASSUME NEW r \in Resumers,
               AppendRoutedRequest(r) \/ AppendQuestionRequest(r) \/ AppendRequest(r)
        PROVE  PendingIsRouted' /\ AskedInv'
    <2>1. CASE AppendRoutedRequest(r)
      BY <1>1, <1>7, <2>1
      DEF AppendRoutedRequest, OpenRequests, ShapeInv, DecisionType, Decidable
    <2>2. CASE AppendQuestionRequest(r)
      BY <1>1, <1>7, <2>2, IdentityAssumption DEF AppendQuestionRequest, OpenQuestions
    <2>3. CASE AppendRequest(r) /\ raised[r].todo # <<>>
      <3>1. Head(raised[r].todo) \in Answerable
        BY <2>3, HeadOfTodo DEF AppendRequest, Authorised, KeptInv
      <3> QED
        BY <1>7, <2>3, <3>1 DEF AppendRequest, Answerable
    <2>4. CASE AppendRequest(r) /\ raised[r].todo = <<>>
      BY <2>4 DEF AppendRequest
    <2> QED
      BY <1>8, <2>1, <2>2, <2>3, <2>4
  <1>9. ASSUME NEW r \in Resumers,
               AppendBlockedRoute(r) \/ AppendAttemptBlocked(r) \/ AppendRoute(r)
        PROVE  PendingIsRouted' /\ AskedInv'
    <2>1. pending' = pending /\ routed \subseteq routed'
      BY <1>9 DEF AppendBlockedRoute, AppendAttemptBlocked, AppendRoute
    <2>2. \/ \E p : log' = [log EXCEPT ![p].routed = TRUE]
          \/ log' = log
          \/ log' = [d \in Decidable |->
               IF d \in Range(raised[r].kept) THEN [log[d] EXCEPT !.described = head] ELSE log[d]]
      BY <1>9 DEF AppendBlockedRoute, AppendAttemptBlocked, AppendRoute
    <2>3. \A b \in Blocking : log[b].requested => log'[b].requested
      BY <1>1, <1>2, <2>2 DEF Said
    <2> QED
      BY <2>1, <2>3
  <1>10. CASE UNCHANGED decisions
    BY <1>10 DEF decisions
  <1> QED
    BY <1>3, <1>4, <1>5, <1>6, <1>8, <1>9, <1>10, DecisionStep

\* Nobody takes a decision out of a driver's hands.
LEMMA AnswerableStep ==
    ASSUME ShapeInv, DriverInv, AskedInv, Next, NEW d \in Raised, d \in Answerable
    PROVE  d \in Answerable' \/ lease' = None
           \/ \E s \in Resumers : lease = s /\ pc[s] = "dispose"
  <1>1. log \in [Decidable -> Said] /\ \A p \in Proposals \cup Questions : p \in Decidable
    BY DEF ShapeInv, DecisionType, Said, Decidable
  <1>2. d \in Decidable /\ (d \in Proposals => d \in Blocking)
    BY IdentityAssumption DEF Raised, Decidable, Proposals
  <1>3. SUFFICES ASSUME d \in Blocking, lease' # None,
                        \A s \in Resumers : ~(lease = s /\ pc[s] = "dispose")
                 PROVE  d \in routed' \/ log'[d].requested
    BY <1>2 DEF Answerable
  <1>4. d \in routed \/ log[d].requested
    BY <1>3 DEF Answerable, Proposals
  <1>5. ASSUME NEW p \in Cli \cup Finals, Publishing(p)
        PROVE  d \in routed' \/ log'[d].requested
    <2>1. p # d
      BY <1>3, IdentityAssumption
    <2> QED
      BY <1>1, <1>2, <1>4, <1>5, <2>1 DEF Publishing, PublishAndRoute, decisions
  <1>6. ASSUME NEW p \in Proposals, Rejecting(p) \/ RejectRoutedAmendment(p)
        PROVE  d \in routed' \/ log'[d].requested
    <2>1. routed' = routed \ {p} /\ log'[d].requested = log[d].requested
      BY <1>1, <1>2, <1>6 DEF Rejecting, RejectProposal, RejectRoutedAmendment, Said
    <2>2. \A r \in Resumers : ~DisposeRaised(r)
      BY <1>3 DEF DisposeRaised, Authorised
    <2>3. routed' = routed \ {p} /\ log'[d].requested = log[d].requested
          /\ p \in Cli \cup Finals \cup pending
      BY <1>6, <2>1, <2>2 DEF Rejecting, RejectRoutedAmendment
    <2>4. CASE p = d
      BY <1>3, <2>3, <2>4, IdentityAssumption DEF AskedInv
    <2> QED
      BY <1>4, <2>3, <2>4
  <1>7. ASSUME NEW q \in Questions, ResolveQuestion(q)
        PROVE  d \in routed' \/ log'[d].requested
    BY <1>1, <1>2, <1>4, <1>7 DEF ResolveQuestion, Said
  <1>8. CASE Commits
    BY <1>3, <1>8 DEF Commits, Commit
  <1>9. CASE Cancelling \/ UNCHANGED decisions
    BY <1>4, <1>9 DEF Cancelling, decisions
  <1>10. ASSUME NEW r \in Resumers,
                \/ AppendBlockedRoute(r) \/ AppendRoutedRequest(r) \/ AppendQuestionRequest(r)
                \/ AppendAttemptBlocked(r) \/ AppendRoute(r) \/ AppendRequest(r)
         PROVE  d \in routed' \/ log'[d].requested
    <2>1. routed \subseteq routed'
      BY <1>10 DEF AppendBlockedRoute, AppendRoutedRequest, AppendQuestionRequest,
                   AppendAttemptBlocked, AppendRoute, AppendRequest
    <2>2. \/ \E p : log' = [log EXCEPT ![p].routed = TRUE]
          \/ \E p : log' = [log EXCEPT ![p].requested = TRUE]
          \/ log' = log
          \/ log' = [e \in Decidable |->
               IF e \in Range(raised[r].kept) THEN [log[e] EXCEPT !.described = head] ELSE log[e]]
      BY <1>10 DEF AppendBlockedRoute, AppendRoutedRequest, AppendQuestionRequest,
                   AppendAttemptBlocked, AppendRoute, AppendRequest, Request
    <2>3. log[d].requested => log'[d].requested
      BY <1>1, <1>2, <2>2 DEF Said
    <2> QED
      BY <1>4, <2>1, <2>3
  <1> QED
    BY <1>5, <1>6, <1>7, <1>8, <1>9, <1>10, DecisionStep

\* A process leaves the work of the others alone, and keeps what its attempt
\* raised until it ends.
Keeps(r) ==
    \/ raised'[r] = Nothing
    \/ raised'[r].kept = raised[r].kept /\ raised'[r].routes = raised[r].routes

\* Who changes what a resumer holds, and where it is.
LEMMA WorkStep ==
    ASSUME ShapeInv, Next, NEW s \in Resumers
    PROVE  \/ pc'[s] = pc[s] /\ raised'[s] = raised[s] /\ (lease' = s => lease = s)
           \/ Keeps(s) /\ (lease' # s \/ pc'[s] \notin {"route", "request"})
           \/ DisposeRaised(s)
           \/ AppendAttemptBlocked(s) \/ AppendRoute(s) \/ AppendRequest(s)
  <1>1. /\ pc \in [Resumers -> Steps] /\ raised = [r \in Resumers |-> raised[r]]
        /\ \A r \in Resumers :
             raised[r] = [of |-> raised[r].of, todo |-> raised[r].todo,
                          kept |-> raised[r].kept, routes |-> raised[r].routes]
    BY Raisedness DEF ShapeInv, ResumerType, Steps
  <1>2. CASE Amending
    BY <1>2, IdentityAssumption
    DEF Amending, Capture, ApprovalIntent, Submit, CompleteSubmission, Commit
  <1>3. CASE Deciding
    BY <1>3, IdentityAssumption
    DEF Deciding, ApproveRouted, CompleteApproval, RequestCancellation, LoadRouted,
        RejectRoutedAmendment, ResolveQuestion, Commit
  <1>4. ASSUME NEW r \in Resumers, r # s, Resume(r) \/ Recovering(r) \/ Crash(r)
        PROVE  pc'[s] = pc[s] /\ raised'[s] = raised[s] /\ (lease' = s => lease = s)
    BY <1>1, <1>4, IdentityAssumption
    DEF Resume, Recovering, Crash, CleanUp, ExecuteCancellation, CompletePrepare,
        ReturnWaitingHuman, AcquireAuthority, AppendBlockedRoute, AppendRoutedRequest,
        BeginFinalization, FinalsExhausted, RouteFinalization, AppendQuestionRequest,
        AppendMovementSucceeded, HaltOrReturn, StartAttempt, Commit, Goto, Exit, Release
  <1>5. ASSUME NEW r \in Resumers, r # s, Driving(r)
        PROVE  pc'[s] = pc[s] /\ raised'[s] = raised[s] /\ (lease' = s => lease = s)
    BY <1>1, <1>5, IdentityAssumption
    DEF Driving, AttemptCompletes, AttemptFails, AttemptRaises, DisposeRaised, Dispose,
        AppendAttemptBlocked, AppendRoute, AppendRequest, DriverStops, Goto, Exit, Release
  <1>6. CASE Resume(s) \/ Crash(s) \/ CleanUp(s) \/ CompletePrepare(s) \/ AcquireAuthority(s)
    BY <1>1, <1>6, IdentityAssumption
    DEF Resume, Crash, CleanUp, CompletePrepare, AcquireAuthority, Commit, Goto, Keeps
  <1>7. CASE \/ ExecuteCancellation(s) \/ ReturnWaitingHuman(s) \/ FinalsExhausted(s)
             \/ HaltOrReturn(s) \/ AttemptFails(s) \/ DriverStops(s)
    BY <1>1, <1>7
    DEF ExecuteCancellation, ReturnWaitingHuman, FinalsExhausted, HaltOrReturn, AttemptFails,
        DriverStops, Exit, Goto, Keeps
  <1>8. CASE \/ AppendBlockedRoute(s) \/ AppendRoutedRequest(s) \/ AppendQuestionRequest(s)
             \/ AppendMovementSucceeded(s)
    BY <1>8 DEF AppendBlockedRoute, AppendRoutedRequest, AppendQuestionRequest,
                AppendMovementSucceeded
  <1>9. CASE BeginFinalization(s) \/ \E m \in Movements : StartAttempt(s, m)
    <2>1. PICK y : raised' = [raised EXCEPT ![s].of = y]
      BY <1>9 DEF BeginFinalization, StartAttempt
    <2>2. pc'[s] \in {"finalize", "work"}
      BY <1>1, <1>9 DEF BeginFinalization, StartAttempt, Goto
    <2>3. raised'[s].kept = raised[s].kept /\ raised'[s].routes = raised[s].routes
      BY <1>1, <2>1
    <2> QED
      BY <2>2, <2>3 DEF Keeps
  <1>10. CASE AttemptRaises(s)
    <2>1. PICK todo : raised' = [raised EXCEPT ![s].todo = todo]
      BY <1>10 DEF AttemptRaises
    <2>2. pc'[s] = "dispose"
      BY <1>1, <1>10 DEF AttemptRaises, Goto
    <2>3. raised'[s].kept = raised[s].kept /\ raised'[s].routes = raised[s].routes
      BY <1>1, <2>1
    <2> QED
      BY <2>2, <2>3 DEF Keeps
  <1>11. CASE RouteFinalization(s) \/ AttemptCompletes(s)
    BY <1>1, <1>11 DEF RouteFinalization, AttemptCompletes, Exit, Goto, Keeps
  <1> QED
    BY <1>2, <1>3, <1>4, <1>5, <1>6, <1>7, <1>8, <1>9, <1>10, <1>11
    DEF Next, Recovering, Driving

\* What a resumer kept of an attempt stays answerable.
LEMMA KeptStep ==
    ASSUME ShapeInv, DriverInv, AskedInv, KeptInv, Next
    PROVE  KeptInv'
  <1>1. SUFFICES ASSUME NEW r \in Resumers
                 PROVE  /\ Range(raised'[r].kept) \cap Proposals \subseteq Range(raised'[r].routes)
                        /\ lease' = r /\ pc'[r] = "route" =>
                             Range(raised'[r].kept)
                               \subseteq Answerable' \cup Range(raised'[r].todo)
                        /\ lease' = r /\ pc'[r] = "request" =>
                             Range(raised'[r].todo) \subseteq Answerable'
    BY DEF KeptInv
  <1> DEFINE x == raised[r]
             y == raised'[r]
  <1>2. /\ Range(x.kept) \subseteq Raised /\ Range(x.todo) \subseteq Raised
        /\ x.kept \in Seq(Raised) /\ x.routes \in Seq(Blocking) /\ x.todo \in Seq(Raised)
        /\ Raised \subseteq Decidable
    BY Raisedness, Elements DEF Raised, Decidable, Proposals
  <1>3. Range(x.kept) \cap Proposals \subseteq Range(x.routes)
    BY DEF KeptInv
  <1>4. raised = [s \in Resumers |-> raised[s]] /\ pc = [s \in Resumers |-> pc[s]]
    BY DEF ShapeInv, ResumerType
  <1>5. ASSUME lease = r, lease' = r, pc[r] # "dispose", NEW d \in Raised, d \in Answerable
        PROVE  d \in Answerable'
    BY <1>5, AnswerableStep, IdentityAssumption
  <1>6. CASE pc'[r] = pc[r] /\ y = x /\ (lease' = r => lease = r)
    BY <1>2, <1>3, <1>5, <1>6 DEF KeptInv
  <1>7. CASE Keeps(r) /\ (lease' # r \/ pc'[r] \notin {"route", "request"})
    BY <1>3, <1>7, NoElements DEF Keeps, Nothing
  <1>8. CASE DisposeRaised(r)
    <2>1. PICK z \in Raise :
             /\ y = z
             /\ LET d == Head(x.todo) IN
                \/ /\ z.kept = Append(x.kept, d)
                   /\ z.routes = IF d \in Proposals THEN Append(x.routes, d) ELSE x.routes
                \/ z.kept = x.kept /\ z.routes = x.routes
      BY <1>4, <1>8, Disposed
    <2>2. x.todo # <<>> /\ pc'[r] = "dispose"
      BY <1>8 DEF DisposeRaised
    <2>3. Head(x.todo) \in Raised /\ (Head(x.todo) \in Proposals => Head(x.todo) \in Blocking)
      BY <1>2, <2>2, Removed, IdentityAssumption DEF Raised
    <2>4. /\ Range(Append(x.kept, Head(x.todo))) = Range(x.kept) \cup {Head(x.todo)}
          /\ Head(x.todo) \in Proposals =>
               Range(Append(x.routes, Head(x.todo))) = Range(x.routes) \cup {Head(x.todo)}
      BY <1>2, <2>3, Added
    <2> QED
      BY <1>3, <2>1, <2>2, <2>4
  <1>9. CASE AppendAttemptBlocked(r)
    <2>1. y.kept = x.kept /\ y.routes = x.routes /\ y.todo = x.routes /\ pc'[r] = "route"
      BY <1>4, <1>9, Raisedness DEF AppendAttemptBlocked, Goto
    <2>2. Range(x.kept) \subseteq Answerable' \cup Range(x.routes)
      BY <1>2, <1>3 DEF Answerable
    <2> QED
      BY <1>3, <2>1, <2>2
  <1>10. CASE AppendRoute(r)
    <2>1. lease = r /\ lease' = lease /\ pc[r] = "route"
      BY <1>10 DEF AppendRoute, Authorised
    <2>2. CASE x.todo = <<>>
      <3>1. y.kept = x.kept /\ y.routes = x.routes /\ y.todo = x.kept /\ pc'[r] = "request"
        BY <1>4, <1>10, <2>2, Raisedness DEF AppendRoute, Goto
      <3>2. Range(x.kept) \subseteq Answerable
        BY <2>1, <2>2, NoElements DEF KeptInv
      <3> QED
        BY <1>2, <1>3, <1>5, <2>1, <3>1, <3>2
    <2>3. CASE x.todo # <<>>
      <3>1. /\ y.kept = x.kept /\ y.routes = x.routes /\ y.todo = Tail(x.todo)
            /\ pc'[r] = "route" /\ Head(x.todo) \in routed'
        BY <1>4, <1>10, <2>1, <2>3, Raisedness DEF AppendRoute
      <3>2. Range(x.todo) = {Head(x.todo)} \cup Range(Tail(x.todo))
        BY <2>3, Raisedness
      <3>3. Head(x.todo) \in Answerable'
        BY <2>3, <3>1, Raisedness DEF Answerable
      <3>4. Range(x.kept) \subseteq Answerable \cup Range(x.todo)
        BY <2>1 DEF KeptInv
      <3> QED
        BY <1>2, <1>3, <1>5, <2>1, <3>1, <3>2, <3>3, <3>4
    <2> QED
      BY <2>2, <2>3
  <1>11. CASE AppendRequest(r)
    <2>1. lease = r /\ lease' = lease /\ pc[r] = "request"
      BY <1>11 DEF AppendRequest, Authorised
    <2>2. CASE x.todo = <<>>
      <3>1. y = Nothing /\ pc'[r] = "recover"
        BY <1>4, <1>11, <2>2 DEF AppendRequest, Goto
      <3> QED
        BY <3>1, NoElements DEF Nothing
    <2>3. CASE x.todo # <<>>
      <3>1. /\ y.kept = x.kept /\ y.routes = x.routes /\ y.todo = Tail(x.todo)
            /\ pc'[r] = "request"
        BY <1>4, <1>11, <2>1, <2>3, Raisedness DEF AppendRequest
      <3>2. Range(x.todo) = {Head(x.todo)} \cup Range(Tail(x.todo))
        BY <2>3, Raisedness
      <3>3. Range(x.todo) \subseteq Answerable
        BY <2>1 DEF KeptInv
      <3> QED
        BY <1>2, <1>3, <1>5, <2>1, <3>1, <3>2, <3>3
    <2> QED
      BY <2>2, <2>3
  <1> QED
    BY <1>6, <1>7, <1>8, <1>9, <1>10, <1>11, WorkStep

-----------------------------------------------------------------------------
(* What an attempt was given. *)

\* Only what may not execute before a human agrees depends on the revision.
LEMMA SameDependency ==
    ASSUME NEW s, NEW h, NEW k, NEW m, m \notin Proposers
    PROVE  Dependency(s, h, m) = Dependency(s, k, m)
  BY DEF Dependency

\* What is approved changes nothing that an execution has depended on.
LEMMA CommitStable ==
    ASSUME ShapeInv, CurrentInv, ExecutedIsStable, PrepareStaysAdmissible, Commits
    PROVE  CurrentInv' /\ ExecutedIsStable'
  <1> DEFINE p == prepare.of
  <1>1. /\ head \in Nat /\ head' = head + 1 /\ score' = prepare.to /\ prepare.to = Patched(p)
        /\ ~Rejects(p) /\ p \in Proposals
    BY Prepared DEF Commits, Commit, PrepareStaysAdmissible, Evaluate, ShapeInv, LifecycleType
  <1>2. ASSUME NEW m \in Movements
        PROVE  /\ attempt'[m].rev = attempt[m].rev /\ attempt'[m].dep = attempt[m].dep
               /\ attempt'[m].state = "COMPLETED" => attempt'[m] = attempt[m]
    <2>1. attempt[m] = [state |-> attempt[m].state, rev |-> attempt[m].rev,
                        dep |-> attempt[m].dep]
      BY DEF ShapeInv, LifecycleType
    <2>2. attempt'[m] = attempt[m] \/ attempt'[m] = [attempt[m] EXCEPT !.state = "SUPERSEDED"]
      BY DEF Commits, Commit
    <2> QED
      BY <2>1, <2>2, AttemptEnds
  <1>3. \A m \in Movements : attempt'[m].rev # head'
    BY <1>1, <1>2 DEF ShapeInv, LifecycleType
  <1>4. Interview \in Movements
    BY AmendmentAssumption
  \* The status of a score that is not a draft stays.
  <1>5. Draft' => Draft
    <2>1. <<"status">> \in Fields
      BY DEF Fields
    <2>2. p \in Finals => patch[p] = Finalize
      BY <1>1 DEF Rejects, Reserved
    <2>3. p \notin Finals => patch[p].field # <<"status">>
      BY <1>1 DEF Rejects, Reserved
    <2>4. score \in [Fields -> 0..1] /\ patch[p].field \in Fields
      BY <1>1 DEF ShapeInv, LifecycleType, ProposedType, Patches
    <2>5. CASE p \in Finals
      BY <1>1, <2>1, <2>2, <2>4, <2>5 DEF Draft, Patched, Finalize
    <2>6. CASE p \notin Finals
      BY <1>1, <2>1, <2>3, <2>4, <2>6 DEF Draft, Patched
    <2> QED
      BY <2>5, <2>6
  <1>6. p \in Finals => Draft
    BY <1>1 DEF Rejects, Reserved
  <1>7. CurrentInv'
    BY <1>2, <1>3, <1>4, <1>5 DEF CurrentInv
  <1>8. ASSUME NEW m \in Movements, Executed(m)'
        PROVE  attempt'[m].dep = Dependency(score', head', m)
    <2>1. attempt'[m] = attempt[m] /\ attempt[m].state = "COMPLETED"
      BY <1>2, <1>8 DEF Executed
    <2>2. Executed(m)
      BY <1>4, <1>6, <1>8, <2>1 DEF Commits, Commit, Executed, CurrentInv, ShapeInv, LifecycleType
    <2>3. /\ attempt[m].dep = Dependency(Patched(p), head, m)
          /\ attempt[m].dep = Dependency(score, head, m) /\ Patched(p) # score
      BY <1>1, <2>2 DEF Rejects, ExecutedDependencyChanged, ExecutedIsStable
    <2>4. m \notin Proposers
      BY <2>3 DEF Dependency
    <2>5. Dependency(Patched(p), head, m) = Dependency(Patched(p), head + 1, m)
      BY <2>4, SameDependency
    <2> QED
      BY <1>1, <2>1, <2>3, <2>5
  <1> QED
    BY <1>7, <1>8 DEF ExecutedIsStable

\* An attempt that was executed stays the one its scores describe.
LEMMA StableStep ==
    ASSUME ShapeInv, DriverInv, CurrentInv, ExecutedIsStable, PrepareStaysAdmissible, Next
    PROVE  CurrentInv' /\ ExecutedIsStable'
  <1>1. CASE UNCHANGED <<head, score, movement, attempt>>
    BY <1>1 DEF CurrentInv, ExecutedIsStable, Executed, Draft
  <1>2. ASSUME NEW r \in Resumers, AppendMovementSucceeded(r)
        PROVE  CurrentInv' /\ ExecutedIsStable'
    <2>1. PICK m \in Movements : Completed(m) /\ movement' = [movement EXCEPT ![m] = "SUCCEEDED"]
      BY <1>2 DEF AppendMovementSucceeded
    <2>2. UNCHANGED <<head, score, attempt>>
      BY <1>2 DEF AppendMovementSucceeded
    <2>3. CurrentInv'
      BY <2>2 DEF CurrentInv, Draft
    <2>4. ASSUME NEW n \in Movements, Executed(n)', n # m
          PROVE  Executed(n)
      BY <2>1, <2>2, <2>4 DEF Executed, ShapeInv, LifecycleType
    <2>5. attempt[m].dep = Dependency(score, head, m)
      BY <2>1 DEF Completed, CurrentInv
    <2> QED
      BY <2>2, <2>3, <2>4, <2>5 DEF ExecutedIsStable
  <1>3. ASSUME NEW r \in Resumers, NEW m \in Movements, StartAttempt(r, m)
        PROVE  CurrentInv' /\ ExecutedIsStable'
    <2>1. /\ UNCHANGED <<head, score>> /\ movement' = [movement EXCEPT ![m] = "RUNNING"]
          /\ attempt' = [attempt EXCEPT ![m] =
               [state |-> "RUNNING", rev |-> head, dep |-> Dependency(score, head, m)]]
      BY <1>3 DEF StartAttempt
    <2>2. /\ \A n \in Movements \ {m} : attempt'[n] = attempt[n] /\ movement'[n] = movement[n]
          /\ attempt'[m].state = "RUNNING" /\ attempt'[m].dep = Dependency(score, head, m)
      BY <2>1 DEF ShapeInv, LifecycleType
    <2>3. CurrentInv'
      BY <2>1, <2>2, AmendmentAssumption DEF CurrentInv, Draft
    <2> QED
      BY <2>1, <2>2, <2>3 DEF ExecutedIsStable, Executed
  <1>4. ASSUME NEW m, NEW st, UNCHANGED <<head, score, movement>>,
               attempt' = [attempt EXCEPT ![m].state = st],
               st = "COMPLETED" =>
                 m \in Movements /\ attempt[m].rev = head /\ ~(Draft /\ m = Interview)
        PROVE  CurrentInv' /\ ExecutedIsStable'
    <2>1. ASSUME NEW n \in Movements
          PROVE  /\ attempt'[n].rev = attempt[n].rev /\ attempt'[n].dep = attempt[n].dep
                 /\ n # m => attempt'[n] = attempt[n]
                 /\ n = m => attempt'[n].state = st
      <3>1. attempt[n] = [state |-> attempt[n].state, rev |-> attempt[n].rev,
                          dep |-> attempt[n].dep]
        BY DEF ShapeInv, LifecycleType
      <3>2. attempt'[n] = IF n = m THEN [attempt[n] EXCEPT !.state = st] ELSE attempt[n]
        BY <1>4 DEF ShapeInv, LifecycleType
      <3> QED
        BY <3>1, <3>2, AttemptEnds
    <2>2. CurrentInv'
      BY <1>4, <2>1, AmendmentAssumption DEF CurrentInv, Draft
    <2>3. ASSUME NEW n \in Movements, Executed(n)'
          PROVE  attempt[n].dep = Dependency(score, head, n)
      <3>1. CASE n = m
        BY <1>4, <2>1, <2>3, <3>1 DEF Executed, CurrentInv
      <3>2. CASE n # m
        BY <1>4, <2>1, <2>3, <3>2 DEF Executed, ExecutedIsStable
      <3> QED
        BY <3>1, <3>2
    <2> QED
      BY <1>4, <2>1, <2>2, <2>3 DEF ExecutedIsStable
  <1>5. ASSUME NEW r \in Resumers, AttemptCompletes(r)
        PROVE  CurrentInv' /\ ExecutedIsStable'
    <2>1. raised[r].of \in Movements /\ attempt[raised[r].of].rev = head
      BY <1>5 DEF AttemptCompletes, Authorised, DriverInv
    <2> QED
      BY <1>4, <1>5, <2>1 DEF AttemptCompletes
  <1>6. ASSUME NEW r \in Resumers, AttemptFails(r) \/ AppendAttemptBlocked(r)
        PROVE  CurrentInv' /\ ExecutedIsStable'
    BY <1>4, <1>6 DEF AttemptFails, AppendAttemptBlocked
  <1> QED
    BY <1>1, <1>2, <1>3, <1>5, <1>6, CommitStable, LifecycleStep DEF lifecycle

-----------------------------------------------------------------------------
(* What is prepared. *)

\* A verdict depends on the proposal and on what the score and its attempts
\* are, and on nothing else.
LEMMA SameVerdict ==
    ASSUME NEW p \in Proposals, UNCHANGED lifecycle, patch'[p] = patch[p], base'[p] = base[p]
    PROVE  /\ Patched(p)' = Patched(p)
           /\ Evaluate(p, TRUE)' = Evaluate(p, TRUE) /\ Evaluate(p, FALSE)' = Evaluate(p, FALSE)
  <1>1. Patched(p)' = Patched(p) /\ Draft' = Draft
    BY DEF Patched, Draft, lifecycle
  <1>2. ExecutedDependencyChanged(p)' = ExecutedDependencyChanged(p)
    BY <1>1 DEF ExecutedDependencyChanged, Executed, Dependency, lifecycle
  <1>3. Reserved(p)' = Reserved(p)
    BY <1>1 DEF Reserved
  <1>4. Rejects(p)' = Rejects(p)
    BY <1>1, <1>2, <1>3 DEF Rejects, lifecycle
  <1>5. GuardPasses(p)' = GuardPasses(p)
    BY DEF GuardPasses, Started, lifecycle
  <1> QED
    BY <1>1, <1>4, <1>5 DEF Evaluate, RequiresDecision, lifecycle

\* The mutation barrier: while a prepare is pending, nobody but who completes
\* or cancels it appends anything that it depends on.
LEMMA Barrier ==
    ASSUME Next, prepare # None, prepare' # None, cancel' = "no"
    PROVE  UNCHANGED <<lifecycle, routed, pending, prepare>>
  <1> USE DEF lifecycle, decisions
  <1>1. CASE Amending
    BY <1>1 DEF Amending, Capture, ApprovalIntent, Submit, CompleteSubmission, Commit
  <1>2. CASE Deciding
    BY <1>2 DEF Deciding, ApproveRouted, CompleteApproval, RequestCancellation, LoadRouted,
                RejectRoutedAmendment, ResolveQuestion, Commit
  <1>3. ASSUME NEW r \in Resumers, Resume(r) \/ Recovering(r) \/ Crash(r)
        PROVE  UNCHANGED <<lifecycle, routed, pending, prepare>>
    BY <1>3
    DEF Resume, Recovering, Crash, CleanUp, ExecuteCancellation, CompletePrepare,
        ReturnWaitingHuman, AcquireAuthority, AppendBlockedRoute, AppendRoutedRequest,
        BeginFinalization, FinalsExhausted, RouteFinalization, AppendQuestionRequest,
        AppendMovementSucceeded, HaltOrReturn, StartAttempt, Commit, Clear, Consequent, Scheduling
  <1>4. ASSUME NEW r \in Resumers, Driving(r)
        PROVE  UNCHANGED <<lifecycle, routed, pending, prepare>>
    BY <1>4
    DEF Driving, AttemptCompletes, AttemptFails, AttemptRaises, DisposeRaised,
        AppendAttemptBlocked, AppendRoute, AppendRequest, DriverStops, Authorised
  <1> QED
    BY <1>1, <1>2, <1>3, <1>4 DEF Next

\* A prepare is appended by the command that has just evaluated its proposal.
LEMMA NewPrepare ==
    ASSUME Next, prepare = None, prepare' # None
    PROVE  /\ UNCHANGED <<lifecycle, proposed, routed, pending>>
           /\ \/ \E p \in Cli : AppendPrepare(p, "auto") /\ Evaluate(p, FALSE) = "approved"
              \/ \E p \in pending \cap routed :
                    AppendPrepare(p, "human") /\ Evaluate(p, TRUE) = "approved"
  <1> USE DEF lifecycle, decisions
  <1>1. CASE Amending
    BY <1>1 DEF Amending, Capture, ApprovalIntent, Submit, CompleteSubmission, Commit
  <1>2. CASE Deciding
    BY <1>2 DEF Deciding, ApproveRouted, CompleteApproval, RequestCancellation, LoadRouted,
                RejectRoutedAmendment, ResolveQuestion, Commit, Routable
  <1>3. ASSUME NEW r \in Resumers, Resume(r) \/ Recovering(r) \/ Crash(r)
        PROVE  prepare' = prepare \/ prepare' = None
    BY <1>3
    DEF Resume, Recovering, Crash, CleanUp, ExecuteCancellation, CompletePrepare,
        ReturnWaitingHuman, AcquireAuthority, AppendBlockedRoute, AppendRoutedRequest,
        BeginFinalization, FinalsExhausted, RouteFinalization, AppendQuestionRequest,
        AppendMovementSucceeded, HaltOrReturn, StartAttempt, Commit
  <1>4. ASSUME NEW r \in Resumers, Driving(r)
        PROVE  prepare' = prepare
    BY <1>4
    DEF Driving, AttemptCompletes, AttemptFails, AttemptRaises, DisposeRaised,
        AppendAttemptBlocked, AppendRoute, AppendRequest, DriverStops
  <1> QED
    BY <1>1, <1>2, <1>3, <1>4 DEF Next

\* What is prepared stays admissible.
LEMMA AdmissibleStep ==
    ASSUME ShapeInv, CaptureInv, PrepareStaysAdmissible, Next
    PROVE  PrepareStaysAdmissible'
  <1>1. CASE prepare = None /\ prepare' # None
    <2>1. ASSUME NEW p \in Proposals, UNCHANGED <<lifecycle, proposed>>
          PROVE  /\ Patched(p)' = Patched(p)
                 /\ Evaluate(p, TRUE)' = Evaluate(p, TRUE)
                 /\ Evaluate(p, FALSE)' = Evaluate(p, FALSE)
      BY <2>1, SameVerdict DEF proposed
    <2>2. ASSUME NEW p \in Proposals, NEW mode \in {"auto", "human"}, AppendPrepare(p, mode)
          PROVE  prepare'.of = p /\ prepare'.mode = mode /\ prepare'.to = Patched(p)
      BY <2>2 DEF AppendPrepare
    <2>3. UNCHANGED <<lifecycle, proposed, routed, pending>>
      BY <1>1, NewPrepare
    <2>4. CASE \E p \in Cli : AppendPrepare(p, "auto") /\ Evaluate(p, FALSE) = "approved"
      <3>1. PICK p \in Proposals : AppendPrepare(p, "auto") /\ Evaluate(p, FALSE) = "approved"
        BY <2>4 DEF Proposals
      <3> QED
        BY <2>1, <2>2, <2>3, <3>1 DEF PrepareStaysAdmissible
    <2>5. CASE \E p \in pending \cap routed :
                  AppendPrepare(p, "human") /\ Evaluate(p, TRUE) = "approved"
      <3>1. PICK p \in Proposals : /\ p \in pending \cap routed
                                   /\ AppendPrepare(p, "human") /\ Evaluate(p, TRUE) = "approved"
        BY <2>5 DEF ShapeInv, DecisionType
      <3> QED
        BY <2>1, <2>2, <2>3, <3>1 DEF PrepareStaysAdmissible
    <2> QED
      BY <1>1, <2>4, <2>5, NewPrepare
  <1>2. CASE prepare # None /\ prepare' # None /\ cancel' = "no"
    <2> DEFINE p == prepare.of
    <2>1. UNCHANGED <<lifecycle, routed, pending, prepare>>
      BY <1>2, Barrier
    <2>2. /\ p \in Proposals /\ prepare.mode \in {"auto", "human"}
          /\ Evaluate(p, prepare.mode = "human") = "approved"
          /\ prepare.to = Patched(p) /\ (prepare.mode = "human" => p \in routed \cap pending)
      BY <1>2, <2>1, Prepared DEF PrepareStaysAdmissible, lifecycle
    <2>3. base[p] = head
      BY <2>2 DEF Evaluate, Rejects
    <2>4. base[p] # 0
      BY <2>3 DEF ShapeInv, LifecycleType
    <2>5. patch'[p] = patch[p] /\ base'[p] = base[p]
      BY <2>2, <2>4, ProposedStep
    <2>6. /\ Patched(p)' = Patched(p)
          /\ Evaluate(p, TRUE)' = Evaluate(p, TRUE) /\ Evaluate(p, FALSE)' = Evaluate(p, FALSE)
      BY <2>1, <2>2, <2>5, SameVerdict
    <2> QED
      BY <2>1, <2>2, <2>6 DEF PrepareStaysAdmissible
  <1> QED
    BY <1>1, <1>2 DEF PrepareStaysAdmissible

\* A command captures the head once.
LEMMA CaptureStep ==
    ASSUME ShapeInv, CaptureInv, DriverInv, Next
    PROVE  CaptureInv'
  <1>1. base \in [Proposals -> 0..head] /\ Cli \subseteq Proposals
    BY DEF ShapeInv, ProposedType, Proposals
  <1>2. cli = [p \in Cli |-> cli[p]]
    BY DEF ShapeInv, CommandType
  <1>3. ASSUME NEW p \in Cli, Capture(p)
        PROVE  CaptureInv'
    BY <1>1, <1>2, <1>3 DEF Capture, CaptureInv
  <1>4. CASE Amending
    BY <1>1, <1>2, <1>3, <1>4
    DEF Amending, ApprovalIntent, Submit, CompleteSubmission, Commit, CaptureInv, proposed
  <1>5. CASE Deciding
    BY <1>5
    DEF Deciding, ApproveRouted, CompleteApproval, RequestCancellation, LoadRouted,
        RejectRoutedAmendment, ResolveQuestion, Commit, CaptureInv, proposed
  <1>6. ASSUME NEW r \in Resumers, BeginFinalization(r)
        PROVE  CaptureInv'
    BY <1>1, <1>6, IdentityAssumption DEF BeginFinalization, CaptureInv
  <1>7. ASSUME NEW r \in Resumers, AttemptRaises(r)
        PROVE  CaptureInv'
    <2>1. PICK todo \in Raisable : \E rev : base' = [q \in Proposals |->
             IF q \in Range(todo) \cap Proposals THEN rev ELSE base[q]]
      BY <1>7 DEF AttemptRaises
    <2>2. \A p \in Cli : p \notin Range(todo) \cap Proposals
      BY Raising, IdentityAssumption
    <2>3. cli' = cli
      BY <1>7 DEF AttemptRaises
    <2> QED
      BY <1>1, <2>1, <2>2, <2>3 DEF CaptureInv
  <1>8. ASSUME NEW r \in Resumers, Resume(r) \/ Recovering(r) \/ Crash(r)
        PROVE  CaptureInv'
    BY <1>6, <1>8
    DEF Resume, Recovering, Crash, CleanUp, ExecuteCancellation, CompletePrepare,
        ReturnWaitingHuman, AcquireAuthority, AppendBlockedRoute, AppendRoutedRequest,
        FinalsExhausted, RouteFinalization, AppendQuestionRequest, AppendMovementSucceeded,
        HaltOrReturn, StartAttempt, Commit, CaptureInv, proposed
  <1>9. ASSUME NEW r \in Resumers, Driving(r)
        PROVE  CaptureInv'
    BY <1>7, <1>9
    DEF Driving, AttemptCompletes, AttemptFails, DisposeRaised, AppendAttemptBlocked,
        AppendRoute, AppendRequest, DriverStops, CaptureInv, proposed
  <1> QED
    BY <1>4, <1>5, <1>8, <1>9 DEF Next

\* The head moves on over a proposal that was made against it.
LEMMA HeadStep ==
    ASSUME ShapeInv, CaptureInv, HeadInv, PrepareStaysAdmissible, Next
    PROVE  HeadInv'
  <1>1. head \in Nat /\ head # 0
    BY DEF ShapeInv, LifecycleType
  <1>2. ASSUME NEW h \in 1..(head - 1)
        PROVE  \E p \in Proposals : base'[p] = h
    BY <1>1, <1>2, ProposedStep DEF HeadInv
  <1>3. CASE head' = head
    BY <1>2, <1>3 DEF HeadInv
  <1>4. CASE Commits /\ head' = head + 1
    <2>1. prepare.of \in Proposals /\ base[prepare.of] = head
      BY <1>4, Prepared DEF Commits, PrepareStaysAdmissible, Evaluate, Rejects
    <2>2. base'[prepare.of] = head
      BY <1>1, <2>1, ProposedStep
    <2>3. \A h \in 1..(head' - 1) : h \in 1..(head - 1) \/ h = head
      BY <1>1, <1>4
    <2> QED
      BY <1>2, <2>1, <2>2, <2>3 DEF HeadInv
  <1> QED
    BY <1>3, <1>4, HeadGrows

-----------------------------------------------------------------------------
(* The invariant. *)

\* The invariant holds at the start.
LEMMA InitialInvariant ==
    ASSUME Init
    PROVE  IInv
  <1>1. PICK status \in 0..1 :
           score = [f \in Fields |-> IF f = <<"status">> THEN status
                                     ELSE IF f[1] \in {"content", "invalid"} THEN 0 ELSE 1]
    BY DEF Init
  <1>2. score \in [Fields -> 0..1]
    BY <1>1
  <1>3. Finalize \in Patches
    BY DEF Finalize, Patches, Fields
  <1>4. LifecycleType
    BY <1>2 DEF Init, LifecycleType, AttemptStates, NoAttempt
  <1>5. ProposedType
    BY <1>3 DEF Init, ProposedType
  <1>6. DecisionType
    BY DEF Init, DecisionType, Silent
  <1>7. CommandType
    BY DEF Init, CommandType
  <1>8. Nothing \in Raise /\ Range(Nothing.kept) = {}
    BY NoElements DEF Nothing, Raise
  <1>9. ResumerType
    BY <1>8 DEF Init, ResumerType
  <1>10. HeadInv
    BY DEF Init, HeadInv
  <1>11. CaptureInv
    BY DEF Init, CaptureInv, Proposals
  <1>12. DriverInv /\ AskedInv /\ PendingIsRouted
    BY IdentityAssumption DEF Init, DriverInv, AskedInv, PendingIsRouted
  <1>13. KeptInv
    BY <1>8, IdentityAssumption DEF Init, KeptInv
  <1>14. CurrentInv /\ ExecutedIsStable
    BY AmendmentAssumption DEF Init, CurrentInv, ExecutedIsStable, Executed, NoAttempt
  <1>15. PrepareStaysAdmissible
    BY DEF Init, PrepareStaysAdmissible
  <1> QED
    BY <1>4, <1>5, <1>6, <1>7, <1>9, <1>10, <1>11, <1>12, <1>13, <1>14, <1>15
    DEF IInv, ShapeInv

\* Every step keeps the invariant.
LEMMA InvariantStep ==
    ASSUME IInv, [Next]_vars
    PROVE  IInv'
  <1>1. CASE Next
    <2>1. ShapeInv'
      BY <1>1, LifecycleTyped, ProposedTyped, DecisionTyped, CommandTyped, ResumersTyped
      DEF IInv, ShapeInv
    <2>2. HeadInv' /\ CaptureInv' /\ DriverInv'
      BY <1>1, HeadStep, CaptureStep, ResumersTyped DEF IInv
    <2>3. AskedInv' /\ KeptInv' /\ PendingIsRouted'
      BY <1>1, PendingStep, KeptStep DEF IInv
    <2>4. CurrentInv' /\ ExecutedIsStable' /\ PrepareStaysAdmissible'
      BY <1>1, StableStep, AdmissibleStep DEF IInv
    <2> QED
      BY <2>1, <2>2, <2>3, <2>4 DEF IInv
  <1>2. CASE UNCHANGED vars
    <2> USE <1>2 DEF vars, lifecycle, proposed, decisions
    <2>1. ShapeInv'
      BY DEF IInv, ShapeInv, LifecycleType, ProposedType, DecisionType, CommandType, ResumerType
    <2>2. HeadInv' /\ CaptureInv' /\ DriverInv'
      BY DEF IInv, HeadInv, CaptureInv, DriverInv
    <2>3. AskedInv' /\ KeptInv' /\ PendingIsRouted'
      BY DEF IInv, AskedInv, KeptInv, PendingIsRouted, Answerable
    <2>4. CurrentInv' /\ ExecutedIsStable'
      BY DEF IInv, CurrentInv, ExecutedIsStable, Executed, Draft
    <2>5. PrepareStaysAdmissible'
      <3>1. CASE prepare # None
        <4>1. prepare.of \in Proposals
          BY <3>1, Prepared DEF IInv
        <4>2. /\ Patched(prepare.of)' = Patched(prepare.of)
              /\ Evaluate(prepare.of, TRUE)' = Evaluate(prepare.of, TRUE)
              /\ Evaluate(prepare.of, FALSE)' = Evaluate(prepare.of, FALSE)
          BY <4>1, SameVerdict
        <4> QED
          BY <3>1, <4>2 DEF IInv, PrepareStaysAdmissible
      <3> QED
        BY <3>1 DEF PrepareStaysAdmissible
    <2> QED
      BY <2>1, <2>2, <2>3, <2>4, <2>5 DEF IInv
  <1> QED
    BY <1>1, <1>2

\* As many proposals are at hand as revisions are behind the head.
LEMMA HeadBounded ==
    ASSUME IInv
    PROVE  head \in 1..(Cardinality(Proposals) + 1)
  <1>1. head \in Nat /\ head # 0 /\ base \in [Proposals -> 0..head]
    BY DEF IInv, ShapeInv, LifecycleType, ProposedType
  <1> DEFINE n == head - 1
             R == Range(base)
  <1>2. n \in Nat
    BY <1>1
  <1>3. IsFiniteSet(Proposals) /\ base \in Surjection(Proposals, R)
    BY <1>1, IdentityAssumption, Fun_RangeProperties
  <1>4. IsFiniteSet(R) /\ Cardinality(R) <= Cardinality(Proposals)
    BY <1>3, FS_Surjection
  <1>5. 1..n \subseteq R
    <2>1. \A p \in Proposals : base[p] \in R
      BY <1>1 DEF Range
    <2> QED
      BY <2>1 DEF IInv, HeadInv
  <1>6. Cardinality(1..n) <= Cardinality(R) /\ IsFiniteSet(1..n)
    BY <1>4, <1>5, FS_Subset
  <1>7. Cardinality(1..n) = IF 1 > n THEN 0 ELSE n - 1 + 1
    BY <1>2, FS_Interval
  <1>8. Cardinality(R) \in Nat /\ Cardinality(Proposals) \in Nat
    BY <1>3, <1>4, FS_CardinalityType
  <1>9. n <= Cardinality(Proposals)
    <2> HIDE DEF n
    <2> QED
      BY <1>2, <1>4, <1>6, <1>7, <1>8
  <1> QED
    BY <1>1, <1>8, <1>9

\* The invariant gives the properties that the run checks.
LEMMA InvariantTypes ==
    ASSUME IInv
    PROVE  RoutesInv
  <1>1. \A m \in Movements : attempt[m].state \in AttemptStates /\ attempt[m].rev \in 0..head
    BY DEF IInv, ShapeInv, LifecycleType
  <1>2. TypeOK
    BY <1>1, HeadBounded
    DEF IInv, ShapeInv, LifecycleType, ProposedType, DecisionType, CommandType, ResumerType,
        TypeOK, AttemptStates
  <1> QED
    BY <1>2 DEF IInv, RoutesInv

-----------------------------------------------------------------------------
(* The theorems. *)

\* The inductive invariant, for any finite set of proposals and any resumers.
THEOREM AmendmentIsInductive == Spec => []IInv
  BY InitialInvariant, InvariantStep, PTL DEF Spec

\* Every amendment that the state shows as pending is still routed, so that
\* approve and reject find its proposal (runstore/decisions.go), and the state
\* keeps its type: the head never passes the number of proposals, as every
\* commit consumes a proposal that was against the revision it replaces.
THEOREM RoutesAreAnswerable == Spec => []RoutesInv
  <1>1. IInv => RoutesInv
    BY InvariantTypes
  <1> QED
    BY <1>1, AmendmentIsInductive, PTL

\* What a successful attempt was given is what the head still says: a proposal
\* that changes the inputs of an executed attempt is never committed, however
\* long before the commit it was evaluated (runstore/prepare.go, commit.go).
THEOREM ExecutedStaysStable == Spec => []ExecutedIsStable
  <1>1. IInv => ExecutedIsStable
    BY DEF IInv
  <1> QED
    BY <1>1, AmendmentIsInductive, PTL

\* Until a prepare is committed, nothing that the other commands do changes the
\* verdict on it, which the commit does not evaluate again (runstore/commit.go):
\* the mutation barrier holds them off, or a cancellation was requested.
THEOREM PreparedStaysAdmissible == Spec => []PrepareStaysAdmissible
  <1>1. IInv => PrepareStaysAdmissible
    BY DEF IInv
  <1> QED
    BY <1>1, AmendmentIsInductive, PTL

-----------------------------------------------------------------------------
(* One command alone: no record is removed that is still needed. *)

\* A process that disposes of nothing comes to hold nothing.
LEMMA HandsStep ==
    ASSUME ShapeInv, HandsInv, Next
    PROVE  HandsInv'
  <1> DEFINE Busy == {"dispose", "route", "request"}
  <1>1. SUFFICES ASSUME NEW s \in Resumers, pc'[s] \notin Busy
                 PROVE  raised'[s].kept = <<>> /\ raised'[s].routes = <<>>
    BY DEF HandsInv
  <1>2. /\ pc \in [Resumers -> Steps] /\ raised = [r \in Resumers |-> raised[r]]
        /\ Nothing.kept = <<>> /\ Nothing.routes = <<>>
        /\ pc[s] \notin Busy => raised[s].kept = <<>> /\ raised[s].routes = <<>>
    BY DEF ShapeInv, ResumerType, Steps, Nothing, HandsInv
  <1>3. CASE pc'[s] = pc[s] /\ raised'[s] = raised[s]
    BY <1>1, <1>2, <1>3
  <1>4. CASE Keeps(s) /\ pc[s] \notin Busy
    BY <1>2, <1>4 DEF Keeps
  <1>5. CASE raised'[s] = Nothing
    BY <1>2, <1>5
  <1>6. CASE Keeps(s) /\ (lease' # s \/ pc'[s] \notin {"route", "request"})
    <2>1. CASE pc[s] \notin Busy
      BY <1>4, <1>6, <2>1
    <2>2. CASE pc[s] \in Busy
      <3>1. CASE Amending
        BY <1>3, <3>1
        DEF Amending, Capture, ApprovalIntent, Submit, CompleteSubmission, Commit
      <3>2. CASE Deciding
        BY <1>3, <3>2
        DEF Deciding, ApproveRouted, CompleteApproval, RequestCancellation, LoadRouted,
            RejectRoutedAmendment, ResolveQuestion, Commit
      <3>3. ASSUME NEW r \in Resumers, Resume(r) \/ Recovering(r) \/ Crash(r)
            PROVE  (pc'[s] = pc[s] /\ raised'[s] = raised[s]) \/ raised'[s] = Nothing
        BY <1>2, <2>2, <3>3
        DEF Resume, Recovering, Crash, CleanUp, ExecuteCancellation, CompletePrepare,
            ReturnWaitingHuman, AcquireAuthority, AppendBlockedRoute, AppendRoutedRequest,
            BeginFinalization, FinalsExhausted, RouteFinalization, AppendQuestionRequest,
            AppendMovementSucceeded, HaltOrReturn, StartAttempt, Goto, Exit, Replanning, Clear,
            Consequent, Scheduling
      <3>4. ASSUME NEW r \in Resumers, Driving(r)
            PROVE  \/ pc'[s] = pc[s] /\ raised'[s] = raised[s]
                   \/ raised'[s] = Nothing \/ pc'[s] \in Busy
        BY <1>2, <2>2, <3>4
        DEF Driving, AttemptCompletes, AttemptFails, AttemptRaises, DisposeRaised, Dispose,
            AppendAttemptBlocked, AppendRoute, AppendRequest, DriverStops, Goto, Exit
      <3> QED
        BY <1>1, <1>3, <1>5, <3>1, <3>2, <3>3, <3>4 DEF Next
    <2> QED
      BY <2>1, <2>2
  <1>7. CASE DisposeRaised(s) \/ AppendAttemptBlocked(s) \/ AppendRoute(s) \/ AppendRequest(s)
    BY <1>1, <1>2, <1>7
    DEF DisposeRaised, AppendAttemptBlocked, AppendRoute, AppendRequest, Goto
  <1> QED
    BY <1>3, <1>6, <1>7, WorkStep

\* Who removes records: a resumer that disposes of nothing.
LEMMA RecordsStep ==
    ASSUME Next
    PROVE  \/ records \subseteq records'
           \/ \E r \in Resumers : /\ pc[r] \in {"clear", "recover"}
                                  /\ QuarantineUnreferencedRecords /\ UNCHANGED <<head, decisions>>
  <1>1. CASE Amending
    BY <1>1 DEF Amending, Capture, ApprovalIntent, Submit, CompleteSubmission, Commit,
                PublishAndRoute
  <1>2. CASE Deciding
    BY <1>2 DEF Deciding, ApproveRouted, CompleteApproval, RequestCancellation, LoadRouted,
                RejectRoutedAmendment, ResolveQuestion, Commit
  <1>3. ASSUME NEW r \in Resumers, CleanUp(r) \/ BeginFinalization(r)
        PROVE  /\ pc[r] \in {"clear", "recover"}
               /\ QuarantineUnreferencedRecords /\ UNCHANGED <<head, decisions>>
    BY <1>3 DEF CleanUp, BeginFinalization, Consequent, Clear, lifecycle
  <1>4. ASSUME NEW r \in Resumers, Resume(r) \/ Recovering(r) \/ Crash(r),
               ~CleanUp(r), ~BeginFinalization(r)
        PROVE  records \subseteq records'
    BY <1>4
    DEF Resume, Recovering, Crash, ExecuteCancellation, CompletePrepare, ReturnWaitingHuman,
        AcquireAuthority, AppendBlockedRoute, AppendRoutedRequest, FinalsExhausted,
        RouteFinalization, AppendQuestionRequest, AppendMovementSucceeded, HaltOrReturn,
        StartAttempt, Commit, PublishAndRoute
  <1>5. ASSUME NEW r \in Resumers, Driving(r)
        PROVE  records \subseteq records'
    BY <1>5
    DEF Driving, AttemptCompletes, AttemptFails, AttemptRaises, DisposeRaised,
        AppendAttemptBlocked, AppendRoute, AppendRequest, DriverStops
  <1> QED
    BY <1>1, <1>2, <1>3, <1>4, <1>5 DEF Next

\* A route that a step opens or makes has its record.
LEMMA RouteStep ==
    ASSUME ShapeInv, DriverInv, RecordInv, Next, NEW p \in routed' \cup OpenRoutes'
    PROVE  /\ p \in records \cup records'
           /\ p \in routed' => log'[p].routed
  <1> USE DEF RecordInv, RecordsAreKept
  <1>1. /\ log \in [Decidable -> Said] /\ head \in Nat /\ head # 0
        /\ \A q \in Proposals : q \in Decidable
        /\ routed \subseteq Proposals
    BY DEF ShapeInv, DecisionType, LifecycleType, Said, Decidable
  <1>2. p \in Proposals
    BY DecisionTyped DEF DecisionType, OpenRoutes
  <1>3. ASSUME head' = head, NEW P \in SUBSET Proposals, P \subseteq records \cup records',
               \A q \in Proposals \ P :
                 /\ log'[q].routed = log[q].routed /\ log'[q].described = log[q].described
                 /\ q \in routed' => q \in routed,
               \A q \in P : q \in routed' => log'[q].routed
        PROVE  p \in records \cup records' /\ (p \in routed' => log'[p].routed)
    BY <1>1, <1>2, <1>3 DEF OpenRoutes
  <1>4. CASE Commits
    <2>1. /\ head' = head + 1 /\ routed' \subseteq routed
          /\ \A q \in Proposals :
               log'[q].routed = log[q].routed /\ log'[q].described = log[q].described
      BY <1>1, <1>4 DEF Commits, Commit, Said
    <2>2. p \notin OpenRoutes'
      BY <1>1, <1>2, <2>1 DEF OpenRoutes, Said
    <2> QED
      BY <1>2, <2>1, <2>2
  <1>5. ASSUME head' = head, NEW q \in Cli \cup Finals, Publishing(q)
        PROVE  p \in records \cup records' /\ (p \in routed' => log'[p].routed)
    <2>1. q \in Proposals
      BY DEF Proposals
    <2>2. /\ q \in records' /\ \A e \in Proposals \ {q} : log'[e] = log[e]
          /\ routed' \subseteq routed \cup {q} /\ (q \in routed' => log'[q].routed)
      BY <1>1, <1>5, <2>1 DEF Publishing, PublishAndRoute, decisions, Said
    <2>3. CASE p = q
      BY <2>2, <2>3
    <2>4. CASE p # q
      BY <1>1, <1>2, <1>5, <2>1, <2>2, <2>4 DEF OpenRoutes
    <2> QED
      BY <2>3, <2>4
  <1>6. ASSUME head' = head, routed' \subseteq routed,
               \A e \in Proposals :
                 log'[e].routed = log[e].routed /\ log'[e].described = log[e].described
        PROVE  p \in records \cup records' /\ (p \in routed' => log'[p].routed)
    BY <1>1, <1>2, <1>6 DEF OpenRoutes
  <1>7. ASSUME head' = head, NEW q \in Decidable,
               Rejecting(q) \/ RejectRoutedAmendment(q) \/ ResolveQuestion(q)
        PROVE  p \in records \cup records' /\ (p \in routed' => log'[p].routed)
    <2>1. /\ routed' \subseteq routed
          /\ \A e \in Proposals :
               log'[e].routed = log[e].routed /\ log'[e].described = log[e].described
      BY <1>1, <1>7
      DEF Rejecting, RejectProposal, RejectRoutedAmendment, ResolveQuestion, Said
    <2> QED
      BY <1>6, <1>7, <2>1
  <1>8. ASSUME head' = head, Cancelling \/ UNCHANGED decisions
        PROVE  p \in records \cup records' /\ (p \in routed' => log'[p].routed)
    BY <1>6, <1>8 DEF Cancelling, decisions
  <1>9. ASSUME head' = head, NEW r \in Resumers,
               AppendRoutedRequest(r) \/ AppendQuestionRequest(r) \/ AppendRequest(r)
        PROVE  p \in records \cup records' /\ (p \in routed' => log'[p].routed)
    <2>1. routed' = routed /\ (log' = log \/ \E d : log' = [log EXCEPT ![d].requested = TRUE])
      BY <1>9 DEF AppendRoutedRequest, AppendQuestionRequest, AppendRequest, Request
    <2>2. \A e \in Proposals :
            log'[e].routed = log[e].routed /\ log'[e].described = log[e].described
      BY <1>1, <2>1 DEF Said
    <2> QED
      BY <1>6, <1>9, <2>1, <2>2
  <1>10. ASSUME head' = head, NEW q \in Proposals, q \in records,
                routed' = routed \cup {q}, log' = [log EXCEPT ![q].routed = TRUE]
         PROVE  p \in records \cup records' /\ (p \in routed' => log'[p].routed)
    <2>1. /\ \A e \in Proposals \ {q} : log'[e] = log[e]
          /\ log'[q].routed
      BY <1>1, <1>10 DEF Said
    <2>2. CASE p = q
      BY <1>10, <2>1, <2>2
    <2>3. CASE p # q
      BY <1>1, <1>2, <1>10, <2>1, <2>3 DEF OpenRoutes
    <2> QED
      BY <2>2, <2>3
  <1>11. ASSUME head' = head, NEW r \in Resumers, AppendBlockedRoute(r)
         PROVE  p \in records \cup records' /\ (p \in routed' => log'[p].routed)
    <2>1. PICK q \in OpenRoutes :
            routed' = routed \cup {q} /\ log' = [log EXCEPT ![q].routed = TRUE]
      BY <1>11 DEF AppendBlockedRoute
    <2> QED
      BY <1>10, <1>11, <2>1 DEF OpenRoutes
  <1>12. ASSUME head' = head, NEW r \in Resumers, AppendAttemptBlocked(r)
         PROVE  p \in records \cup records' /\ (p \in routed' => log'[p].routed)
    <2> DEFINE P == Range(raised[r].kept) \cap Proposals
    <2>1. P \subseteq records
      OBVIOUS
    <2>2. /\ routed' = routed
          /\ \A e \in Proposals : log'[e].routed = log[e].routed
          /\ \A e \in Proposals \ P : log'[e] = log[e]
      BY <1>1, <1>12 DEF AppendAttemptBlocked, Said
    <2> QED
      BY <1>1, <1>3, <1>12, <2>1, <2>2
  <1>13. ASSUME head' = head, NEW r \in Resumers, AppendRoute(r)
         PROVE  p \in records \cup records' /\ (p \in routed' => log'[p].routed)
    <2>1. CASE raised[r].todo = <<>>
      BY <1>6, <1>13, <2>1 DEF AppendRoute
    <2>2. CASE raised[r].todo # <<>>
      <3>1. Head(raised[r].todo) \in records /\ Head(raised[r].todo) \in Proposals
        BY <1>13, <2>2, HeadOfTodo DEF AppendRoute, Authorised, DriverInv, Proposals
      <3> QED
        BY <1>10, <1>13, <2>2, <3>1 DEF AppendRoute
    <2> QED
      BY <2>1, <2>2
  <1> QED
    BY <1>4, <1>5, <1>7, <1>8, <1>9, <1>11, <1>12, <1>13, DecisionStep, HeadGrows
    DEF Decidable

\* With one resumer, no record that a route needs is removed.
LEMMA RecordStep ==
    ASSUME OneResumer, ShapeInv, DriverInv, HandsInv, RecordInv, Next
    PROVE  RecordInv'
  <1> USE DEF RecordInv, RecordsAreKept
  <1>1. ASSUME NEW p \in routed' \cup OpenRoutes'
        PROVE  p \in records' /\ (p \in routed' => log'[p].routed)
    <2>1. CASE records \subseteq records'
      BY <1>1, <2>1, RouteStep
    <2>2. CASE QuarantineUnreferencedRecords /\ UNCHANGED <<head, decisions>>
      <3>1. /\ routed' = routed /\ OpenRoutes' = OpenRoutes /\ log' = log
            /\ records' = {q \in records : Referenced(q)}
        BY <2>2 DEF QuarantineUnreferencedRecords, OpenRoutes, decisions
      <3>2. p \in records /\ (p \in routed' => log'[p].routed)
        BY <1>1, <3>1
      <3>3. Referenced(p)
        BY <1>1, <3>1, <3>2 DEF Referenced, OpenRoutes, ShapeInv, LifecycleType
      <3> QED
        BY <3>1, <3>2, <3>3
    <2> QED
      BY <2>1, <2>2, RecordsStep
  <1>2. ASSUME NEW r \in Resumers
        PROVE  /\ (Range(raised'[r].kept) \cap Proposals) \cup Range(raised'[r].routes)
                      \subseteq records'
               /\ lease' = r /\ pc'[r] = "route" => Range(raised'[r].todo) \subseteq records'
    <2> DEFINE x == raised[r]
               y == raised'[r]
    <2>1. /\ x.kept \in Seq(Raised) /\ x.routes \in Seq(Blocking) /\ x.todo \in Seq(Raised)
          /\ raised = [s \in Resumers |-> raised[s]] /\ pc = [s \in Resumers |-> pc[s]]
      BY Raisedness DEF ShapeInv, ResumerType
    <2>2. \/ records \subseteq records'
          \/ pc[r] \in {"clear", "recover"}
      BY RecordsStep DEF OneResumer
    <2>3. pc[r] \in {"clear", "recover"} => Range(x.kept) = {} /\ Range(x.routes) = {}
      BY NoElements DEF HandsInv
    <2>4. (Range(x.kept) \cap Proposals) \cup Range(x.routes) \subseteq records'
      BY <2>2, <2>3
    <2>5. CASE pc'[r] = pc[r] /\ y = x /\ (lease' = r => lease = r)
      BY <2>2, <2>4, <2>5
    <2>6. CASE Keeps(r) /\ (lease' # r \/ pc'[r] \notin {"route", "request"})
      BY <2>4, <2>6, NoElements DEF Keeps, Nothing
    <2>7. CASE DisposeRaised(r)
      <3>1. PICK z \in Raise :
               /\ y = z
               /\ LET d == Head(x.todo) IN
                  \/ /\ z.kept = Append(x.kept, d)
                     /\ z.routes = IF d \in Proposals THEN Append(x.routes, d) ELSE x.routes
                     /\ d \in Proposals => d \in records'
                  \/ z.kept = x.kept /\ z.routes = x.routes
        BY <2>1, <2>7, Disposed
      <3>2. x.todo # <<>> /\ pc'[r] = "dispose"
        BY <2>1, <2>7 DEF DisposeRaised
      <3>3. Head(x.todo) \in Raised /\ (Head(x.todo) \in Proposals => Head(x.todo) \in Blocking)
        BY <2>1, <3>2, Removed, IdentityAssumption DEF Raised
      <3>4. /\ Range(Append(x.kept, Head(x.todo))) = Range(x.kept) \cup {Head(x.todo)}
            /\ Head(x.todo) \in Proposals =>
                 Range(Append(x.routes, Head(x.todo))) = Range(x.routes) \cup {Head(x.todo)}
        BY <2>1, <3>3, Added
      <3> QED
        BY <2>4, <3>1, <3>2, <3>4
    <2>8. CASE AppendAttemptBlocked(r)
      <3>1. y.kept = x.kept /\ y.routes = x.routes /\ y.todo = x.routes
        BY <2>1, <2>8, Raisedness DEF AppendAttemptBlocked
      <3> QED
        BY <2>4, <3>1
    <2>9. CASE AppendRoute(r)
      <3>1. lease = r /\ pc[r] = "route" /\ records' = records
        BY <2>9 DEF AppendRoute, Authorised
      <3>2. CASE x.todo = <<>>
        <4>1. y.kept = x.kept /\ y.routes = x.routes /\ pc'[r] = "request"
          BY <2>1, <2>9, <3>2, Raisedness DEF AppendRoute, Goto
        <4> QED
          BY <2>4, <4>1
      <3>3. CASE x.todo # <<>>
        <4>0. raised' = [raised EXCEPT ![r].todo = Tail(@)]
          BY <2>9, <3>3 DEF AppendRoute
        <4>1. y.kept = x.kept /\ y.routes = x.routes /\ y.todo = Tail(x.todo)
          <5> HIDE DEF RecordInv, RecordsAreKept
          <5>1. raised' = [s \in Resumers |-> IF s = r THEN [x EXCEPT !.todo = Tail(@)]
                                                      ELSE raised[s]]
            BY <2>1, <4>0
          <5>2. y = [x EXCEPT !.todo = Tail(@)]
            BY <5>1
          <5>3. x = [of |-> x.of, todo |-> x.todo, kept |-> x.kept, routes |-> x.routes]
            BY Raisedness
          <5> QED
            BY <5>2, <5>3
        <4>2. Range(Tail(x.todo)) \subseteq Range(x.todo)
          BY <3>3, Raisedness
        <4> QED
          BY <2>4, <3>1, <4>1, <4>2
      <3> QED
        BY <3>2, <3>3
    <2>10. CASE AppendRequest(r)
      <3>1. pc'[r] # "route"
        BY <2>1, <2>10 DEF AppendRequest, Goto
      <3>2. y = Nothing \/ (y.kept = x.kept /\ y.routes = x.routes)
        BY <2>1, <2>10, Raisedness DEF AppendRequest
      <3> QED
        BY <2>4, <3>1, <3>2, NoElements DEF Nothing
    <2> QED
      BY <2>5, <2>6, <2>7, <2>8, <2>9, <2>10, WorkStep
  <1> QED
    BY <1>1, <1>2

\* No record is needed at the start.
LEMMA InitialRecords ==
    ASSUME Init
    PROVE  HandsInv /\ RecordInv
  <1>1. Nothing.kept = <<>> /\ Nothing.routes = <<>> /\ Range(<<>>) = {}
    BY NoElements DEF Nothing
  <1>2. routed = {} /\ OpenRoutes = {} /\ raised = [r \in Resumers |-> Nothing]
    BY DEF Init, OpenRoutes, Silent, Decidable
  <1>3. lease = None
    BY DEF Init
  <1> QED
    BY <1>1, <1>2, <1>3, IdentityAssumption DEF HandsInv, RecordInv, RecordsAreKept

\* When one command at a time resumes the run, the clean-up of unreferenced
\* proposal records never removes one that a route still needs
\* (recoveryexec/executor.go).  With two, a process that observed a clear owner
\* may clean up behind the driver that took the lease since.
THEOREM OneResumerKeepsRecords == OneResumer => (Spec => []RecordsAreKept)
  <1> SUFFICES ASSUME OneResumer PROVE Spec => []RecordsAreKept
    OBVIOUS
  <1>1. Init => HandsInv /\ RecordInv
    BY InitialRecords
  <1>2. IInv /\ (HandsInv /\ RecordInv) /\ [Next]_vars => (HandsInv /\ RecordInv)'
    <2>1. CASE Next
      BY <2>1, HandsStep, RecordStep DEF IInv
    <2>2. CASE UNCHANGED vars
      BY <2>2 DEF vars, lifecycle, proposed, decisions, HandsInv, RecordInv, RecordsAreKept,
                  OpenRoutes
    <2> QED
      BY <2>1, <2>2
  <1>3. RecordInv => RecordsAreKept
    BY DEF RecordInv
  <1> QED
    BY <1>1, <1>2, <1>3, AmendmentIsInductive, PTL DEF Spec
=============================================================================
