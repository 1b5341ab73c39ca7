------------------------------ MODULE Amendment ------------------------------
(***************************************************************************)
(* Amendments to the score of a run: the commands that propose and decide  *)
(* them, the driver that disposes of what its adapter raised, and the rows *)
(* of recovery that complete a disposition cut short.  How a prepare is    *)
(* committed against a live driver is RunControl's matter; here a commit   *)
(* is one step after which the driver of the old revision has no lease.    *)
(*                                                                         *)
(* A score is a function from its fields to 0..1.  A patch replaces one    *)
(* field, which is all the evaluator's classes and guards look at.         *)
(***************************************************************************)
EXTENDS Naturals, Sequences, FiniteSets, Functions

CONSTANTS
    Movements, Needs,       \* the score's movements and what each waits for
    Interview,              \* Score.DraftInterviewMovement
    Proposers, Readers,     \* movements with may_propose, with repo grants
    Cli, Blocking,          \* proposals of `amend`; of adapters, with requires_decision
    Questions,              \* questions an attempt may raise
    Finals,                 \* core finalizations that can be rebuilt (a bound)
    CliPatches, RaisedPatches,
    Resumers,               \* processes that run `run` or `resume`
    None, Dead

Proposals == Cli \cup Blocking \cup Finals
Field(name, m) == <<name, m>>
Fields == {<<"status">>, <<"auto">>, <<"paths">>, <<"budget">>, <<"invalid">>}
            \cup {Field(name, m) : name \in {"grants", "content"}, m \in Movements}
Patches == [field : Fields, to : 0..1]
Finalize == [field |-> <<"status">>, to |-> 1]

ASSUME AmendmentAssumption ==
    /\ Interview \in Movements /\ Interview \in Proposers
    /\ Proposers \subseteq Movements /\ Readers \subseteq Movements
    /\ Needs \in [Movements -> SUBSET Movements]
    /\ CliPatches \subseteq Patches /\ RaisedPatches \subseteq Patches

\* Every decision has one origin and an identity of its own, and a lease names
\* no process when it is free or its owner is dead.
ASSUME IdentityAssumption ==
    /\ IsFiniteSet(Proposals)
    /\ Cli \cap (Blocking \cup Finals) = {} /\ Blocking \cap Finals = {}
    /\ Questions \cap Proposals = {} /\ {None, Dead} \cap Resumers = {}

VARIABLES
    head, score,        \* ScoreHead: its revision, and the score of that revision
    cancel,             \* "no", "requested", or "done": the run is CANCELLED
    movement, attempt,  \* State.Movements; the last attempt of each movement
    patch, base,        \* what each proposal proposes, and against which revision
    records,            \* proposals/<id>.json
    log,                \* what the journal says of each proposal or question
    routed, pending,    \* State.RoutedAmendments, State.PendingDecisions
    prepare,            \* State.PendingPrepare
    lease,              \* a resumer, None, or Dead: its owner died
    pc, raised,         \* the resumers; what each works on, and what its attempt raised
    cli, human          \* the `amend` commands, and the one of `approve`

lifecycle == <<head, score, cancel, movement, attempt>>
proposed == <<patch, base>>
decisions == <<log, routed, pending>>
vars == <<lifecycle, proposed, records, decisions, prepare, lease, pc, raised, cli, human>>

Decidable == Proposals \cup Questions
\* What an attempt raised and is still to be disposed of, appendRequests and
\* appendRoutes.
Nothing == [of |-> None, todo |-> <<>>, kept |-> <<>>, routes |-> <<>>]
NoAttempt == [state |-> "none", rev |-> 0, dep |-> <<>>]

\* `log` keeps the events of one decision: its route in attempt.blocked and
\* the revision of it, amendment.routed_human, decision.requested, and the
\* answer.
Silent == [described |-> 0, routed |-> FALSE, requested |-> FALSE, answer |-> "none"]

Init ==
    /\ head = 1 /\ cancel = "no"
    /\ \E status \in 0..1 :
         score = [f \in Fields |-> IF f = <<"status">> THEN status
                                   ELSE IF f[1] \in {"content", "invalid"} THEN 0 ELSE 1]
    /\ movement = [m \in Movements |-> "PENDING"] /\ attempt = [m \in Movements |-> NoAttempt]
    /\ patch = [p \in Proposals |-> Finalize] /\ base = [p \in Proposals |-> 0]
    /\ records = {} /\ log = [d \in Decidable |-> Silent]
    /\ routed = {} /\ pending = {} /\ prepare = None /\ lease = None
    /\ pc = [r \in Resumers |-> "idle"] /\ raised = [r \in Resumers |-> Nothing]
    /\ cli = [p \in Cli |-> "idle"] /\ human = [pc |-> "idle", of |-> None]

-----------------------------------------------------------------------------
(* The evaluator of section 9. *)

Draft == score[<<"status">>] = 0
Patched(p) == [score EXCEPT ![patch[p].field] = patch[p].to]
Started(m) == attempt[m].state # "none"

\* A movement that may propose is handed the whole score at its revision.
Dependency(s, rev, m) ==
    IF m \in Proposers THEN <<rev, s>> ELSE <<s[Field("grants", m)], s[Field("content", m)]>>

Executed(m) == attempt[m].state = "COMPLETED" /\ movement[m] = "SUCCEEDED"
ExecutedDependencyChanged(p) ==
    \E m \in Movements : Executed(m) /\ attempt[m].dep # Dependency(Patched(p), head, m)

Reserved(p) ==
    IF p \in Finals THEN patch[p] # Finalize \/ ~Draft ELSE patch[p].field = <<"status">>

\* Mutant of Rejects: the collector's answer is not consulted.
RejectsWithoutExecution(p) ==
    \/ cancel # "no" \/ base[p] # head \/ Reserved(p)
    \/ patch[p].field = <<"invalid">> \/ Patched(p) = score

Rejects(p) ==
    \/ cancel # "no"
    \/ base[p] # head
    \/ Reserved(p)
    \/ patch[p].field = <<"invalid">>
    \/ Patched(p) = score
    \/ ExecutedDependencyChanged(p)

Downstream(m) ==
    CHOOSE set \in SUBSET Movements :
        /\ m \in set /\ \A n \in Movements : Needs[n] \cap set # {} => n \in set
        /\ \A other \in SUBSET Movements :
             (m \in other /\ \A n \in Movements : Needs[n] \cap other # {} => n \in other)
               => set \subseteq other

\* classify and its guards: only a narrowing of paths or grants whose scope
\* has not started, or a smaller budget, is approved without a human.
GuardPasses(p) ==
    LET field == patch[p].field
    IN /\ patch[p].to = 0
       /\ \/ field = <<"paths">> /\ \A m \in Readers : ~Started(m)
          \/ field[1] = "grants" /\ \A m \in Downstream(field[2]) : ~Started(m)
          \/ field = <<"budget">>

RequiresDecision(p) == p \in Blocking \cup Finals

Evaluate(p, byHuman) ==
    IF Rejects(p) THEN "rejected"
    ELSE IF byHuman THEN "approved"
    ELSE IF \/ p \in Finals \/ Draft
            \/ score[<<"auto">>] = 0 \/ patch[p].field = <<"auto">>
            \/ RequiresDecision(p) \/ ~GuardPasses(p) THEN "routed"
    ELSE "approved"

-----------------------------------------------------------------------------
(* Durable effects shared by commands, driver and recovery. *)

\* decision.requested is appended once per decision: a second append returns
\* the receipt of the first and changes nothing.
Request(d) ==
    /\ log' = [log EXCEPT ![d].requested = TRUE]
    /\ pending' = IF log[d].requested THEN pending ELSE pending \cup {d}

\* Record, route and request of a command or a finalization are three durable
\* writes under one state lock; `cut` is the last one made before a crash.
PublishAndRoute(p, cut) ==
    /\ records' = records \cup {p}
    /\ IF cut = "record" THEN UNCHANGED decisions
       ELSE /\ routed' = routed \cup {p}
            /\ log' = [log EXCEPT ![p].routed = TRUE, ![p].requested = cut = "request"]
            /\ pending' = IF cut = "request" THEN pending \cup {p} ELSE pending

RejectProposal(p) ==
    /\ log' = [log EXCEPT ![p].answer = "rejected"]
    /\ routed' = routed \ {p} /\ pending' = pending \ {p}

AppendPrepare(p, mode) == prepare' = [of |-> p, mode |-> mode, to |-> Patched(p)]

\* Mutant of Commit: only the approved decision is closed, not its route.
CommitKeepingPending ==
    /\ head' = head + 1 /\ score' = prepare.to
    /\ movement' = [m \in Movements |->
         IF m = Interview /\ prepare.of \in Finals THEN "SUCCEEDED" ELSE movement[m]]
    /\ attempt' = [m \in Movements |->
         IF attempt[m].state = "RUNNING" THEN [attempt[m] EXCEPT !.state = "SUPERSEDED"]
         ELSE attempt[m]]
    /\ log' = [log EXCEPT ![prepare.of].answer = "approved"]
    /\ routed' = IF prepare.mode = "human" THEN routed \ {prepare.of} ELSE routed
    /\ pending' = pending /\ prepare' = None /\ lease' = None
    /\ UNCHANGED <<cancel, proposed, records>>

\* amendment.approved: live attempts are superseded, every pending decision
\* is closed, and the previous driver's lease is gone.
Commit ==
    /\ head' = head + 1 /\ score' = prepare.to
    /\ movement' = [m \in Movements |->
         IF m = Interview /\ prepare.of \in Finals THEN "SUCCEEDED" ELSE movement[m]]
    /\ attempt' = [m \in Movements |->
         IF attempt[m].state = "RUNNING" THEN [attempt[m] EXCEPT !.state = "SUPERSEDED"]
         ELSE attempt[m]]
    /\ log' = [log EXCEPT ![prepare.of].answer = "approved"]
    /\ routed' = IF prepare.mode = "human" THEN routed \ {prepare.of} ELSE routed
    /\ pending' = {} /\ prepare' = None /\ lease' = None
    /\ UNCHANGED <<cancel, proposed, records>>

-----------------------------------------------------------------------------
(* `amend`: SubmitCLI. *)

\* The head is captured before the operator's files are read.
Capture(p) ==
    /\ cli[p] = "idle" /\ cancel # "done"
    /\ \E x \in CliPatches : patch' = [patch EXCEPT ![p] = x]
    /\ base' = [base EXCEPT ![p] = head]
    /\ cli' = [cli EXCEPT ![p] = "captured"]
    /\ UNCHANGED <<lifecycle, records, decisions, prepare, lease, pc, raised, human>>

\* hasApprovalIntent looks without deciding; it fails while a prepare is
\* pending.
ApprovalIntent(p) ==
    /\ cli[p] = "captured"
    /\ cli' = [cli EXCEPT ![p] =
         IF prepare # None THEN "done"
         ELSE IF Evaluate(p, FALSE) = "approved" THEN "barrier" ELSE "dispose"]
    /\ UNCHANGED <<lifecycle, proposed, records, decisions, prepare, lease, pc, raised, human>>

\* finalizeDisposition decides again under the lock.  The barrier before an
\* approval has nothing to close here: without the lease the planner answers
\* with the owner's row.
Submit(p) ==
    /\ cli[p] \in {"barrier", "dispose"}
    /\ UNCHANGED <<lifecycle, proposed, lease, pc, raised, human>>
    /\ \/ /\ prepare # None /\ cli' = [cli EXCEPT ![p] = "done"]
          /\ UNCHANGED <<records, decisions, prepare>>
       \/ /\ prepare = None /\ Evaluate(p, FALSE) = "rejected"
          /\ RejectProposal(p) /\ cli' = [cli EXCEPT ![p] = "done"]
          /\ UNCHANGED <<records, prepare>>
       \/ /\ prepare = None /\ Evaluate(p, FALSE) = "routed"
          /\ \E cut \in {"record", "route", "request"} : PublishAndRoute(p, cut)
          /\ cli' = [cli EXCEPT ![p] = "done"] /\ UNCHANGED prepare
       \/ /\ prepare = None /\ Evaluate(p, FALSE) = "approved"
          /\ cli' = [cli EXCEPT ![p] = IF @ = "dispose" THEN "barrier" ELSE "commit"]
          /\ IF cli[p] = "dispose" THEN UNCHANGED prepare ELSE AppendPrepare(p, "auto")
          /\ UNCHANGED <<records, decisions>>

CompleteSubmission(p) ==
    /\ cli[p] = "commit" /\ cli' = [cli EXCEPT ![p] = "done"]
    /\ UNCHANGED <<pc, raised, human>>
    /\ \/ prepare # None /\ prepare.of = p /\ cancel = "no" /\ Commit
       \/ UNCHANGED <<lifecycle, proposed, records, decisions, prepare, lease>>

-----------------------------------------------------------------------------
(* `approve` and `reject`, and the answer to a question. *)

\* loadRoutedProposal reads journal and record without a lock.
LoadRouted(p) ==
    /\ human.pc = "idle" /\ p \in pending \cap Proposals /\ p \in records
    /\ human' = [pc |-> "loaded", of |-> p]
    /\ UNCHANGED <<lifecycle, proposed, records, decisions, prepare, lease, pc, raised, cli>>

Routable(p) == p \in pending /\ p \in routed /\ p \in records

ApproveRouted ==
    LET p == human.of
    IN /\ human.pc = "loaded"
       /\ UNCHANGED <<lifecycle, proposed, records, lease, pc, raised, cli>>
       /\ \/ /\ prepare # None \/ ~Routable(p)
             /\ human' = [pc |-> "idle", of |-> None] /\ UNCHANGED <<decisions, prepare>>
          \/ /\ prepare = None /\ Routable(p) /\ Evaluate(p, TRUE) = "rejected"
             /\ RejectProposal(p) /\ human' = [pc |-> "idle", of |-> None] /\ UNCHANGED prepare
          \/ /\ prepare = None /\ Routable(p) /\ Evaluate(p, TRUE) = "approved"
             /\ AppendPrepare(p, "human") /\ human' = [human EXCEPT !.pc = "commit"]
             /\ UNCHANGED decisions

\* The command waits for the prepare; it may also be killed.
CompleteApproval ==
    /\ human.pc = "commit" /\ human' = [pc |-> "idle", of |-> None]
    /\ UNCHANGED <<pc, raised, cli>>
    /\ \/ prepare # None /\ prepare.of = human.of /\ cancel = "no" /\ Commit
       \/ UNCHANGED <<lifecycle, proposed, records, decisions, prepare, lease>>

RejectRoutedAmendment(p) ==
    /\ p \in pending /\ p \in routed /\ prepare = None /\ cancel # "done"
    /\ log' = [log EXCEPT ![p].answer = "human_rejected"]
    /\ routed' = routed \ {p} /\ pending' = pending \ {p}
    /\ UNCHANGED <<lifecycle, proposed, records, prepare, lease, pc, raised, cli, human>>

ResolveQuestion(q) ==
    /\ q \in pending /\ prepare = None /\ cancel # "done"
    /\ log' = [log EXCEPT ![q].answer = "answered"] /\ pending' = pending \ {q}
    /\ UNCHANGED <<lifecycle, proposed, records, routed, prepare, lease, pc, raised, cli, human>>

RequestCancellation ==
    /\ cancel = "no" /\ cancel' = "requested"
    /\ UNCHANGED <<head, score, movement, attempt, proposed, records, decisions, prepare, lease,
                   pc, raised, cli, human>>

-----------------------------------------------------------------------------
(* `run` and `resume`: the observation of a clear owner, the clean-up it    *)
(* permits, and authority.                                                  *)

IsBlocking(d) == d \in Questions \cup Blocking \cup Finals
Waiting == \E d \in pending : IsBlocking(d)

\* Mutant of Referenced: the routes frozen in attempt.blocked are overlooked.
ReferencedByRoute(p) == log[p].routed

\* proposalRecordReferenced: any route or blocked descriptor in the journal.
Referenced(p) == log[p].routed \/ log[p].described # 0

OpenRoutes == {p \in Proposals : log[p].described = head /\ ~log[p].routed}
OpenRequests == {p \in routed : p \notin pending}
OpenQuestions == {q \in Questions : log[q].described = head /\ ~log[q].requested}
MissingRequest == OpenRoutes # {} \/ OpenRequests # {} \/ OpenQuestions # {}

Goto(r, to) == pc' = [pc EXCEPT ![r] = to]
Release(r) == lease' = IF lease = r THEN None ELSE lease
Exit(r) == Goto(r, "idle") /\ raised' = [raised EXCEPT ![r] = Nothing] /\ Release(r)

\* A live owner refuses the command; a dead one leaves no clear cut.
Resume(r) ==
    /\ pc[r] = "idle" /\ cancel # "done" /\ lease \in {None, Dead}
    /\ Goto(r, IF lease = None THEN "clear" ELSE "plan")
    /\ UNCHANGED <<lifecycle, proposed, records, decisions, prepare, lease, raised, cli, human>>

QuarantineUnreferencedRecords == records' = {p \in records : Referenced(p)}

\* The lease is not read again under the lock of the clean-up.
CleanUp(r) ==
    /\ pc[r] = "clear" /\ QuarantineUnreferencedRecords /\ Goto(r, "plan")
    /\ UNCHANGED <<lifecycle, proposed, decisions, prepare, lease, raised, cli, human>>

Replanning(r) == pc[r] = "plan" \/ (pc[r] = "recover" /\ lease = r)

ExecuteCancellation(r) ==
    /\ Replanning(r) /\ cancel = "requested"
    /\ cancel' = "done" /\ pending' = {} /\ prepare' = None /\ Exit(r)
    /\ UNCHANGED <<head, score, movement, attempt, proposed, records, log, routed, cli, human>>

CompletePrepare(r) ==
    /\ Replanning(r) /\ cancel = "no" /\ prepare # None
    /\ Commit /\ Goto(r, "idle") /\ UNCHANGED <<raised, cli, human>>

ReturnWaitingHuman(r) ==
    /\ Replanning(r) /\ cancel = "no" /\ prepare = None
    /\ lease \in {None, r} /\ Waiting /\ ~MissingRequest /\ Exit(r)
    /\ UNCHANGED <<lifecycle, proposed, records, decisions, prepare, cli, human>>

AcquireAuthority(r) ==
    /\ pc[r] = "plan" /\ cancel = "no" /\ prepare = None
    /\ ~(lease = None /\ Waiting /\ ~MissingRequest)
    /\ IF lease \in {None, Dead} THEN lease' = r /\ Goto(r, "recover")
       ELSE Goto(r, "idle") /\ UNCHANGED lease
    /\ UNCHANGED <<lifecycle, proposed, records, decisions, prepare, raised, cli, human>>

-----------------------------------------------------------------------------
(* Rows of the planner under authority, in their order. *)

\* Mutant of Clear: a pending prepare does not stop the scheduler.
ClearWhilePreparing(r) ==
    pc[r] = "recover" /\ lease = r /\ cancel = "no" /\ (Waiting => MissingRequest)

Clear(r) ==
    pc[r] = "recover" /\ lease = r /\ cancel = "no" /\ prepare = None /\ (Waiting => MissingRequest)

RecordsPresent == \A p \in Proposals : Referenced(p) => p \in records

AppendBlockedRoute(r) ==
    /\ Clear(r) /\ RecordsPresent
    /\ \E p \in OpenRoutes : routed' = routed \cup {p} /\ log' = [log EXCEPT ![p].routed = TRUE]
    /\ UNCHANGED <<lifecycle, proposed, records, pending, prepare, lease, pc, raised, cli, human>>

AppendRoutedRequest(r) ==
    /\ Clear(r) /\ RecordsPresent /\ OpenRoutes = {}
    /\ \E p \in OpenRequests : Request(p)
    /\ UNCHANGED <<lifecycle, proposed, records, routed, prepare, lease, pc, raised, cli, human>>

Consequent(r) == Clear(r) /\ RecordsPresent /\ OpenRoutes = {} /\ OpenRequests = {}

FinalizationEligible ==
    /\ Draft /\ movement[Interview] # "SUCCEEDED"
    /\ attempt[Interview].state \in {"BLOCKED", "COMPLETED"} /\ attempt[Interview].rev = head
    /\ routed \cap Finals = {} /\ pending \cap Questions = {} /\ OpenQuestions = {}

\* RebuildFinalization: clean up, read the head, then route under the lock.
BeginFinalization(r) ==
    /\ Consequent(r) /\ FinalizationEligible
    /\ \E f \in Finals :
         /\ base[f] = 0 /\ base' = [base EXCEPT ![f] = head]
         /\ raised' = [raised EXCEPT ![r].of = f]
    /\ QuarantineUnreferencedRecords /\ Goto(r, "finalize")
    /\ UNCHANGED <<lifecycle, patch, decisions, prepare, lease, cli, human>>

\* Finals bounds how often a finalization is proposed anew.
FinalsExhausted(r) ==
    /\ Consequent(r) /\ FinalizationEligible /\ (\A f \in Finals : base[f] # 0) /\ Exit(r)
    /\ UNCHANGED <<lifecycle, proposed, records, decisions, prepare, cli, human>>

RouteFinalization(r) ==
    LET f == raised[r].of
        eligible == prepare = None /\ FinalizationEligible
    IN /\ pc[r] = "finalize"
       /\ UNCHANGED <<lifecycle, proposed, prepare, cli, human>>
       /\ \/ ~eligible /\ Exit(r) /\ UNCHANGED <<records, decisions>>
          \/ /\ eligible /\ Evaluate(f, FALSE) = "rejected" /\ RejectProposal(f)
             /\ raised' = [raised EXCEPT ![r] = Nothing] /\ Goto(r, "recover")
             /\ UNCHANGED <<records, lease>>
          \/ /\ eligible /\ Evaluate(f, FALSE) = "routed"
             /\ \E cut \in {"record", "route", "request"} :
                  /\ PublishAndRoute(f, cut)
                  /\ IF cut = "request"
                       THEN /\ raised' = [raised EXCEPT ![r] = Nothing] /\ Goto(r, "recover")
                            /\ UNCHANGED lease
                       ELSE Exit(r)

AppendQuestionRequest(r) ==
    /\ Consequent(r) /\ ~FinalizationEligible
    /\ \E q \in OpenQuestions : Request(q)
    /\ UNCHANGED <<lifecycle, proposed, records, routed, prepare, lease, pc, raised, cli, human>>

Scheduling(r) == Consequent(r) /\ ~FinalizationEligible /\ OpenQuestions = {}

Completed(m) ==
    attempt[m].state = "COMPLETED" /\ attempt[m].rev = head /\ movement[m] = "RUNNING"

AppendMovementSucceeded(r) ==
    /\ Scheduling(r)
    /\ \E m \in Movements :
         /\ Completed(m)
         /\ movement' = [movement EXCEPT ![m] = "SUCCEEDED"]
    /\ UNCHANGED <<head, score, cancel, attempt, proposed, records, decisions, prepare, lease, pc,
                   raised, cli, human>>

\* A movement without an attempt on this head, or whose attempt was
\* interrupted, or whose decisions are all answered, gets its next attempt.
Selectable(m) ==
    /\ movement[m] # "SUCCEEDED" /\ \A n \in Needs[m] : movement[n] = "SUCCEEDED"
    /\ Draft => m = Interview
    /\ ~Completed(m)

StartAttempt(r, m) ==
    /\ Scheduling(r) /\ Selectable(m) /\ \A n \in Movements : ~Completed(n)
    /\ movement' = [movement EXCEPT ![m] = "RUNNING"]
    /\ attempt' = [attempt EXCEPT ![m] =
         [state |-> "RUNNING", rev |-> head, dep |-> Dependency(score, head, m)]]
    /\ Goto(r, "work") /\ raised' = [raised EXCEPT ![r].of = m]
    /\ UNCHANGED <<head, score, cancel, proposed, records, decisions, prepare, lease, cli, human>>

\* RC-HALT for a lost record, or nothing is left to select.
HaltOrReturn(r) ==
    /\ Clear(r) /\ Exit(r)
    /\ RecordsPresent =>
         Scheduling(r) /\ \A m \in Movements : ~Selectable(m) /\ ~Completed(m)
    /\ UNCHANGED <<lifecycle, proposed, records, decisions, prepare, cli, human>>

-----------------------------------------------------------------------------
(* An attempt of the live driver.  Every append needs the lease and is     *)
(* refused while a prepare is pending.                                     *)

Authorised(r) == lease = r /\ cancel # "done" /\ prepare = None

\* An interview of a draft that raised nothing fails instead.
AttemptCompletes(r) ==
    LET m == raised[r].of
    IN /\ pc[r] = "work" /\ Authorised(r) /\ ~(Draft /\ m = Interview)
       /\ attempt' = [attempt EXCEPT ![m].state = "COMPLETED"]
       /\ Goto(r, "recover") /\ raised' = [raised EXCEPT ![r] = Nothing]
       /\ UNCHANGED <<head, score, cancel, movement, proposed, records, decisions, prepare, lease,
                      cli, human>>

\* The next resume retries it; what ends the retries is Execution's matter.
AttemptFails(r) ==
    /\ pc[r] = "work" /\ Authorised(r)
    /\ attempt' = [attempt EXCEPT ![raised[r].of].state = "FAILED"] /\ Exit(r)
    /\ UNCHANGED <<head, score, cancel, movement, proposed, records, decisions, prepare, cli,
                   human>>

\* An adapter that waits for a human has raised one or two new decisions,
\* every one of them blocking.
Raisable ==
    LET new == {b \in Blocking : base[b] = 0} \cup {q \in Questions : log[q] = Silent}
    IN {<<d>> : d \in new} \cup {de \in new \X new : de[1] # de[2]}

AttemptRaises(r) ==
    /\ pc[r] = "work" /\ raised[r].of \in Proposers
    /\ \E todo \in Raisable, x \in [Blocking -> RaisedPatches] :
         LET new == Range(todo) \cap Proposals
             rev == attempt[raised[r].of].rev
         IN /\ patch' = [p \in Proposals |-> IF p \in new THEN x[p] ELSE patch[p]]
            /\ base' = [p \in Proposals |-> IF p \in new THEN rev ELSE base[p]]
            /\ raised' = [raised EXCEPT ![r].todo = todo]
    /\ Goto(r, "dispose")
    /\ UNCHANGED <<lifecycle, records, decisions, prepare, lease, cli, human>>

Dispose(r, keep) ==
    LET x == raised[r]
        d == Head(x.todo)
    IN raised' = [raised EXCEPT ![r] =
         [of     |-> x.of,
          todo   |-> Tail(x.todo),
          kept   |-> IF keep THEN Append(x.kept, d) ELSE x.kept,
          routes |-> IF keep /\ d \in Proposals THEN Append(x.routes, d) ELSE x.routes]]

\* PrepareAdapterProposal, one raised decision at a time.  A proposal that
\* requires a decision is never approved here, so no barrier is met.
DisposeRaised(r) ==
    LET d == Head(raised[r].todo)
    IN /\ pc[r] = "dispose" /\ Authorised(r) /\ raised[r].todo # <<>>
       /\ \/ /\ d \in Questions /\ Dispose(r, TRUE) /\ UNCHANGED <<records, decisions>>
          \/ /\ d \in Proposals /\ Evaluate(d, FALSE) = "rejected"
             /\ RejectProposal(d) /\ Dispose(r, FALSE) /\ UNCHANGED records
          \/ /\ d \in Proposals /\ Evaluate(d, FALSE) = "routed"
             /\ records' = records \cup {d} /\ Dispose(r, TRUE) /\ UNCHANGED decisions
       /\ UNCHANGED <<lifecycle, proposed, prepare, lease, pc, cli, human>>

\* attempt.blocked freezes the route of every proposal that was not rejected.
AppendAttemptBlocked(r) ==
    LET kept == Range(raised[r].kept)
    IN /\ pc[r] = "dispose" /\ Authorised(r) /\ raised[r].todo = <<>>
       /\ attempt' = [attempt EXCEPT ![raised[r].of].state = "BLOCKED"]
       /\ log' = [d \in Decidable |->
            IF d \in kept THEN [log[d] EXCEPT !.described = head] ELSE log[d]]
       /\ raised' = [raised EXCEPT ![r].todo = raised[r].routes]
       /\ Goto(r, "route")
       /\ UNCHANGED <<head, score, cancel, movement, proposed, records, routed, pending, prepare,
                      lease, cli, human>>

AppendRoute(r) ==
    LET p == Head(raised[r].todo)
    IN /\ pc[r] = "route" /\ Authorised(r) /\ cancel = "no"
       /\ IF raised[r].todo # <<>>
            THEN /\ routed' = routed \cup {p} /\ log' = [log EXCEPT ![p].routed = TRUE]
                 /\ raised' = [raised EXCEPT ![r].todo = Tail(@)] /\ UNCHANGED pc
            ELSE /\ raised' = [raised EXCEPT ![r].todo = raised[r].kept] /\ Goto(r, "request")
                 /\ UNCHANGED <<log, routed>>
       /\ UNCHANGED <<lifecycle, proposed, records, pending, prepare, lease, cli, human>>

AppendRequest(r) ==
    /\ pc[r] = "request" /\ Authorised(r)
    /\ IF raised[r].todo # <<>>
         THEN /\ Request(Head(raised[r].todo))
              /\ raised' = [raised EXCEPT ![r].todo = Tail(@)] /\ UNCHANGED pc
         ELSE /\ Goto(r, "recover") /\ raised' = [raised EXCEPT ![r] = Nothing]
              /\ UNCHANGED <<log, pending>>
    /\ UNCHANGED <<lifecycle, proposed, records, routed, prepare, lease, cli, human>>

\* The driver sees the prepare, the cancellation or the loss of its lease and
\* stops; or an append fails.
DriverStops(r) ==
    /\ IF pc[r] = "plan" THEN cancel = "done"
       ELSE /\ pc[r] \in {"recover", "work", "dispose", "route", "request"}
            /\ lease # r \/ cancel # "no" \/ (prepare # None /\ pc[r] # "recover")
    /\ Exit(r)
    /\ UNCHANGED <<lifecycle, proposed, records, decisions, prepare, cli, human>>

Crash(r) ==
    /\ pc[r] # "idle" /\ Goto(r, "idle") /\ raised' = [raised EXCEPT ![r] = Nothing]
    /\ lease' = IF lease = r THEN Dead ELSE lease
    /\ UNCHANGED <<lifecycle, proposed, records, decisions, prepare, cli, human>>

-----------------------------------------------------------------------------
Amending == \E p \in Cli : Capture(p) \/ ApprovalIntent(p) \/ Submit(p) \/ CompleteSubmission(p)

Deciding ==
    \/ ApproveRouted \/ CompleteApproval \/ RequestCancellation
    \/ \E p \in Proposals : LoadRouted(p) \/ RejectRoutedAmendment(p)
    \/ \E q \in Questions : ResolveQuestion(q)

Recovering(r) ==
    \/ CleanUp(r) \/ ExecuteCancellation(r) \/ CompletePrepare(r) \/ ReturnWaitingHuman(r)
    \/ AcquireAuthority(r) \/ AppendBlockedRoute(r)
    \/ AppendRoutedRequest(r) \/ BeginFinalization(r) \/ FinalsExhausted(r)
    \/ RouteFinalization(r) \/ AppendQuestionRequest(r) \/ AppendMovementSucceeded(r)
    \/ HaltOrReturn(r) \/ \E m \in Movements : StartAttempt(r, m)

Driving(r) ==
    \/ AttemptCompletes(r) \/ AttemptFails(r) \/ AttemptRaises(r) \/ DisposeRaised(r)
    \/ AppendAttemptBlocked(r) \/ AppendRoute(r) \/ AppendRequest(r) \/ DriverStops(r)

Next ==
    \/ Amending \/ Deciding
    \/ \E r \in Resumers : Resume(r) \/ Recovering(r) \/ Driving(r) \/ Crash(r)

Spec == Init /\ [][Next]_vars

\* A command that has begun goes on: every select of the executor and of the
\* driver returns, and no human is waited for while it holds the lease.
FairSpec == Spec /\ \A r \in Resumers : WF_vars(Recovering(r) \/ Driving(r))

-----------------------------------------------------------------------------
TypeOK ==
    /\ head \in 1..(Cardinality(Proposals) + 1) /\ score \in [Fields -> 0..1]
    /\ cancel \in {"no", "requested", "done"}
    /\ movement \in [Movements -> {"PENDING", "RUNNING", "SUCCEEDED"}]
    /\ \A m \in Movements :
         /\ attempt[m].state \in {"none", "RUNNING", "BLOCKED", "FAILED", "COMPLETED",
                                 "SUPERSEDED"}
         /\ attempt[m].rev \in 0..head
    /\ patch \in [Proposals -> Patches] /\ base \in [Proposals -> 0..head]
    /\ records \subseteq Proposals /\ routed \subseteq Proposals /\ pending \subseteq Decidable
    /\ log \in [Decidable ->
         [described : 0..head, routed : BOOLEAN, requested : BOOLEAN,
          answer : {"none", "rejected", "human_rejected", "approved", "answered"}]]
    /\ prepare = None \/ (prepare.of \in Proposals /\ prepare.mode \in {"auto", "human"}
                          /\ prepare.to \in [Fields -> 0..1])
    /\ lease \in Resumers \cup {None, Dead}
    /\ pc \in [Resumers -> {"idle", "clear", "plan", "recover", "finalize", "work", "dispose",
                             "route", "request"}]
    /\ cli \in [Cli -> {"idle", "captured", "barrier", "dispose", "commit", "done"}]
    /\ human.pc \in {"idle", "loaded", "commit"}

\* Every decision a human can be asked about has the record that says what is
\* asked: neither the clean-up of an interrupted publication nor a rebuilt
\* finalization removes a record that the state or an open route names.
RecordsAreKept == routed \cup OpenRoutes \subseteq records

\* A pending amendment can be answered: it is still routed, so approve and
\* reject find its proposal, whatever was approved or rejected meanwhile.
PendingIsRouted == pending \cap Proposals \subseteq routed

\* Every decision the state shows as pending is well formed and answerable.
RoutesInv == TypeOK /\ PendingIsRouted

\* What a successful attempt was given is what the head still says, although
\* the proposal was evaluated long before its approval is committed.
ExecutedIsStable ==
    \A m \in Movements : Executed(m) => attempt[m].dep = Dependency(score, head, m)

\* Between prepare and commit nothing happens that would change the verdict:
\* the mutation barrier is why the commit does not evaluate again.
PrepareStaysAdmissible ==
    prepare # None /\ cancel = "no" =>
        /\ Evaluate(prepare.of, prepare.mode = "human") = "approved"
        /\ prepare.to = Patched(prepare.of)
        /\ prepare.mode = "human" => prepare.of \in routed \cap pending

\* A human is only ever asked about a proposal against the present revision: an
\* approval closes the decisions of the revision it replaces.
PendingIsCurrent == \A p \in pending \cap Proposals : base[p] = head

\* A command that resumes the run comes to an end.
ResumeSettles == \A r \in Resumers : (pc[r] # "idle") ~> (pc[r] = "idle")

\* No approval is prepared while a consequence the journal has fixed is not
\* durable: a route, a request, or the success of a completed attempt.
ConsequencesCloseFirst ==
    [][prepare = None /\ prepare' # None =>
         ~MissingRequest /\ \A m \in Movements : ~Completed(m)]_vars
=============================================================================
