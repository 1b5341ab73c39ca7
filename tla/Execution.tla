------------------------------ MODULE Execution ------------------------------
(***************************************************************************)
(* One run from its first movement to its end: the driver's live loop and  *)
(* attempt execution, and recovery's executor, as one process whose only   *)
(* memory that survives a crash is the journal.  Every journal append is a *)
(* step of its own, so the process can die between any two of them.        *)
(*                                                                         *)
(* A step that Lifecycle does not admit is refused: the process stops with *)
(* note = "refused", as the code returns the error of runstate.Apply.      *)
(* Sessions are the process groups of adapters and of run criteria; they   *)
(* may outlive the driver.  The worktree may be changed or lost while no   *)
(* driver runs.  The human answers at any time.                            *)
(***************************************************************************)
EXTENDS Planner

CONSTANTS
    MaxCrashes,     \* driver deaths and worktree losses explored
    MaxBlocked,     \* attempts that end by asking questions
    MaxQuestions    \* questions one attempt may ask

ASSUME BoundsAssumption == {MaxCrashes, MaxBlocked, MaxQuestions} \subseteq Nat

VARIABLES
    st,         \* the journal, as the projection it replays to
    pc,         \* where the driver process is; "down" when there is none
    mode,       \* "live" or "recovery"
    todo,       \* the planner's decision under execution
    next,       \* what the attempt or composition under way is for
    left,       \* the remaining time the attempt was given
    result,     \* what the adapter or the criterion reported
    note,       \* why the last process stopped
    sess,       \* sessions alive and accounted for
    escaped,    \* a criterion session whose sweep failed was given up
    stray,      \* a launch directory whose identity is not journaled
    tree,       \* the attempt's worktree against the journal
    reruns,     \* successful recompositions in a row
    crashes, blocked

process == <<pc, mode, todo, next, left, result, note>>
world == <<sess, escaped, stray, tree>>
bounds == <<crashes, blocked>>
vars == <<st, process, world, reruns, bounds>>

Nothing == [steps |-> <<>>, mov |-> 0, live |-> TRUE]
Goal(s, fresh) == [mov |-> s.mov, perf |-> s.perf, reason |-> s.reason, fresh |-> fresh]

Init ==
    /\ st = InitialProjection /\ pc = "plan" /\ mode = "live" /\ todo = Nothing
    /\ next = Goal(NoSuccessor, FALSE) /\ left = 0 /\ result = "none" /\ note = "none"
    /\ sess = 0 /\ escaped = FALSE /\ stray = FALSE /\ tree = "intact"
    /\ reruns = 0 /\ crashes = 0 /\ blocked = 0

(***************************************************************************)
(* How a step ends                                                         *)
(***************************************************************************)
Exit(why) == pc' = "down" /\ note' = why

AppendEvent(ok, s, then) ==
    IF ok THEN st' = s /\ pc' = then /\ UNCHANGED note
          ELSE UNCHANGED st /\ Exit("refused")

\* An attempt that did not succeed ends a live run; recovery plans again.
AfterFailure == IF mode = "live" THEN "down" ELSE "plan"

\* The rest of a decision runs before the next planning.
Rest == IF Len(todo.steps) = 1 THEN "plan" ELSE "step"
Popped == [todo EXCEPT !.steps = Tail(@)]

At(where) == pc = where
Doing(step) == pc = "step" /\ Head(todo.steps) = step

\* A step of a decision that only appends one event.
StepAppends(step, ok, s) ==
    /\ Doing(step) /\ AppendEvent(ok, s, Rest) /\ todo' = Popped
    /\ UNCHANGED <<mode, next, left, result, world, reruns, bounds>>

\* An append of the attempt under way.
Appends(where, ok, s, then) ==
    /\ At(where) /\ AppendEvent(ok, s, then)
    /\ UNCHANGED <<mode, todo, next, left, result, world, reruns, bounds>>

(***************************************************************************)
(* Planning                                                                *)
(***************************************************************************)
Observations == [tree |-> tree, stray |-> stray, alive |-> sess > 0]

BetweenUnitEntry(s) == ~Terminal(s) /\ s.open.phase = "none" /\ ~AttemptInFlight(s)

Carry(decision, live) == [steps |-> decision.steps, mov |-> decision.mov, live |-> live]

PlanLive ==
    LET decision == PlanBetweenUnit(st, PendingSuccessor(st))
    IN  /\ At("plan") /\ mode = "live"
        /\ IF Terminal(st) THEN Exit("finished") /\ UNCHANGED todo
           ELSE IF BetweenUnitEntry(st) /\ decision.steps # <<>>
                THEN todo' = Carry(decision, TRUE) /\ pc' = "step" /\ UNCHANGED note
                ELSE Exit("interrupted") /\ UNCHANGED todo
        /\ UNCHANGED <<st, mode, next, left, result, world, reruns, bounds>>

PlanRecovery ==
    LET decision == Plan(st, Observations)
        last == decision.steps[1]
    IN  /\ At("plan") /\ mode = "recovery"
        /\ IF last \in {"cleanup", "wait", "unreachable"}
           THEN Exit(last) /\ UNCHANGED todo
           ELSE todo' = Carry(decision, FALSE) /\ pc' = "step" /\ UNCHANGED note
        /\ UNCHANGED <<st, mode, next, left, result, world, reruns, bounds>>

(***************************************************************************)
(* Scheduling steps, shared by the live loop and recovery                  *)
(***************************************************************************)
Ready == StepAppends("ready", MovementReadyOk(st, todo.mov), MovementReady(st, todo.mov))

Start == StepAppends("start", MovementStartedOk(st, todo.mov), MovementStarted(st, todo.mov))

\* Recovery's budget failure cites the interval that exhausted the budget.
Sourced == todo.live \/ st.exhausted

BudgetMovement ==
    IF Sourced
    THEN StepAppends("budget_movement", MovementFailedOk(st, todo.mov),
                     MovementFailed(st, todo.mov, FALSE))
    ELSE /\ Doing("budget_movement") /\ Exit("unsourced")
         /\ UNCHANGED <<st, mode, todo, next, left, result, world, reruns, bounds>>

BudgetRun ==
    IF Sourced
    THEN StepAppends("budget_run", RunFailedOk(st), RunFailed(st))
    ELSE /\ Doing("budget_run") /\ Exit("unsourced")
         /\ UNCHANGED <<st, mode, todo, next, left, result, world, reruns, bounds>>

\* The movements m rests on, directly or not, and the writers among them.
Ancestors[m \in Movements] == Needs[m] \cup UNION {Ancestors[k] : k \in Needs[m]}
Contributors(m) == Writers \cap Ancestors[m]

\* A base with contributors is composed under an interval of its own.
Begin(goal) ==
    /\ next' = goal /\ left' = Remaining(st)
    /\ IF Contributors(goal.mov) = {}
       THEN UNCHANGED <<st, note>> /\ pc' = IF goal.reason = "recompose" THEN "plan" ELSE "select"
       ELSE AppendEvent(ExecutionStartedOk(st),
                   ExecutionStarted(st, "composition", Remaining(st)), "compose")

Initial ==
    /\ Doing("initial")
    /\ Begin([mov |-> todo.mov, perf |-> Primary, reason |-> "initial", fresh |-> FALSE])
    /\ UNCHANGED <<mode, todo, result, world, reruns, bounds>>

Successor ==
    /\ Doing("successor")
    /\ Begin(Goal(IF st.att.state = "BLOCKED" THEN DecisionResume(st) ELSE PendingSuccessor(st),
                  mode = "live"))
    /\ UNCHANGED <<mode, todo, result, world, reruns, bounds>>

CandidateGoal == [mov |-> 0, perf |-> "none", reason |-> "candidate", fresh |-> FALSE]

\* A waived run succeeds with its candidate, but not before all its movements have.
RecordCandidate(where) ==
    IF ~GateWaived THEN AppendEvent(CandidateRecordedOk(st), CandidateRecorded(st), where)
    ELSE IF WaivedCompletion(st) THEN AppendEvent(RunSucceededOk(st), RunSucceeded(st), where)
    ELSE Exit("incomplete") /\ UNCHANGED st

ComposeCandidate ==
    /\ Doing("candidate") \/ (Doing("recompose") /\ todo.mov = 0)
    /\ next' = CandidateGoal /\ left' = Remaining(st)
    /\ IF Writers = {} THEN RecordCandidate("plan")
       ELSE AppendEvent(ExecutionStartedOk(st),
                   ExecutionStarted(st, "composition", Remaining(st)), "compose")
    /\ UNCHANGED <<mode, todo, result, world, reruns, bounds>>

\* Recovery composes the base again and lets the result go.
RerunComposition ==
    /\ Doing("recompose") /\ todo.mov # 0
    /\ Begin([mov |-> todo.mov, perf |-> "none", reason |-> "recompose", fresh |-> FALSE])
    /\ UNCHANGED <<mode, todo, result, world, reruns, bounds>>

(***************************************************************************)
(* Composition                                                             *)
(***************************************************************************)
AfterComposition ==
    CASE next.reason = "recompose" -> "plan"
      [] next.reason = "candidate" -> "record"
      [] OTHER -> "select"

Composed ==
    /\ At("compose")
    /\ \E charged \in 1 .. st.open.rem :
          AppendEvent(ExecutionStoppedOk(st), ExecutionStopped(st, charged, "normal"),
                      AfterComposition)
    /\ reruns' = IF next.reason = "recompose" /\ reruns < 2 THEN reruns + 1 ELSE reruns
    /\ UNCHANGED <<mode, todo, next, left, result, world, bounds>>

Record ==
    /\ At("record") /\ RecordCandidate("plan")
    /\ UNCHANGED <<mode, todo, next, left, result, world, reruns, bounds>>

\* Live, and in a successor a live attempt selected, the budget path follows at once.
ComposeDeadline ==
    LET after == ExecutionStopped(st, st.open.rem, "budget_exhausted")
        direct == mode = "live" \/ next.fresh
    IN  /\ At("compose")
        /\ AppendEvent(ExecutionStoppedOk(st), after, IF direct THEN "step" ELSE "plan")
        /\ todo' = IF direct THEN Carry(BudgetExhaustion(after), TRUE) ELSE todo
        /\ UNCHANGED <<mode, next, left, result, world, reruns, bounds>>

ComposeUnverifiable ==
    /\ At("compose") /\ Exit("git_unverifiable")
    /\ UNCHANGED <<st, mode, todo, next, left, result, world, reruns, bounds>>

ComposeConflict ==
    /\ At("compose")
    /\ \E charged \in 1 .. st.open.rem :
          AppendEvent(ExecutionStoppedOk(st), ExecutionStopped(st, charged, "normal"), "evidence")
    /\ UNCHANGED <<mode, todo, next, left, result, world, reruns, bounds>>

Evidence ==
    Appends("evidence", CompositionEvidenceOk(st, next.mov), CompositionEvidence(st, next.mov),
            "compose_terminal")

\* The consequence of the evidence: the movement fails, or for the candidate the run.
CompositionTerminalOk(target) ==
    IF target = 0 THEN RunFailedOk(st) ELSE MovementFailedOk(st, target)
CompositionTerminal(target) ==
    LET marked == [st EXCEPT !.terminalized = @ \cup {target}]
    IN  IF target = 0 THEN RunFailed(marked) ELSE MovementFailed(marked, target, FALSE)

Terminalize ==
    Appends("compose_terminal", CompositionTerminalOk(next.mov), CompositionTerminal(next.mov),
            IF mode = "recovery" /\ (next.fresh \/ next.reason \in {"recompose", "candidate"})
            THEN "plan" ELSE "down")

RecoverTerminal ==
    StepAppends("compose_terminal", CompositionTerminalOk(todo.mov), CompositionTerminal(todo.mov))

(***************************************************************************)
(* The attempt: selection, launch, probe, adapter                          *)
(***************************************************************************)
\* A successor selected live reads the remaining time again; the others keep it.
Select ==
    /\ At("select")
    /\ AppendEvent(PerformerSelectedOk(st, next.mov), PerformerSelected(st, next), "open")
    /\ left' = IF next.fresh THEN Remaining(st) ELSE left
    /\ tree' = "intact" /\ stray' = FALSE /\ reruns' = 0
    /\ UNCHANGED <<mode, todo, next, result, sess, escaped, bounds>>

OpenAdapter ==
    Appends("open", ExecutionStartedOk(st), ExecutionStarted(st, "adapter", left), "launch")

Launch ==
    /\ At("launch") /\ pc' = "identify" /\ sess' = sess + 1
    /\ UNCHANGED <<st, mode, todo, next, left, result, note, escaped, stray, tree, reruns, bounds>>

\* Nothing is journaled when the adapter cannot be resolved or spawned.
LaunchFails ==
    /\ pc \in {"open", "launch"} /\ Exit("interrupted")
    /\ UNCHANGED <<st, mode, todo, next, left, result, world, reruns, bounds>>

Identify == Appends("identify", AttemptStartedOk(st), AttemptStarted(st), "probe")

Probe == Appends("probe", AdapterProbedOk(st), AdapterProbed(st), "run")

\* A probe that fails ends the session, and the interval stays open.
ProbeFails ==
    /\ At("probe") /\ Exit("interrupted") /\ sess' = sess - 1
    /\ UNCHANGED <<st, mode, todo, next, left, result, escaped, stray, tree, reruns, bounds>>

CheckpointPastTheEnd ==
    At("run") /\ Appends("run", st.open.cp <= st.open.rem, Checkpointed(st, st.open.cp + 1), "run")

Checkpoint ==
    /\ At("run") /\ st.open.cp + 1 < st.open.rem
    /\ Appends("run", CheckpointedOk(st, st.open.cp + 1), Checkpointed(st, st.open.cp + 1), "run")

AdapterFailures == {"adapter_unavailable", "task_failed", "protocol_error"}

\* The session is swept before anything is recorded.
AdapterEnds ==
    /\ At("run") /\ pc' = "stop" /\ sess' = sess - 1
    /\ \/ result' \in {"completed"} \cup AdapterFailures /\ UNCHANGED blocked
       \/ result' = "blocked" /\ blocked < MaxBlocked /\ blocked' = blocked + 1
    /\ UNCHANGED <<st, mode, todo, next, left, note, escaped, stray, tree, reruns, crashes>>

SweepFails ==
    /\ pc \in {"probe", "run"} /\ Exit("halted")
    /\ UNCHANGED <<st, mode, todo, next, left, result, world, reruns, bounds>>

AdapterDeadline ==
    /\ At("run") /\ pc' = "exhausted" /\ sess' = sess - 1
    /\ UNCHANGED <<st, mode, todo, next, left, result, note, escaped, stray, tree, reruns, bounds>>

StopAdapter ==
    /\ At("stop")
    /\ \E charged \in st.open.cp .. st.open.rem :
          /\ AppendEvent(ExecutionStoppedOk(st), ExecutionStopped(st, charged, "normal"), "outcome")
          /\ left' = IF charged < left THEN left - charged ELSE 0
    /\ UNCHANGED <<mode, todo, next, result, world, reruns, bounds>>

HasReview(m) == \E i \in DOMAIN Criteria[m] : Criteria[m][i] = "review"

RecordCompleted ==
    /\ At("outcome") /\ result = "completed"
    /\ \E contested \in IF HasReview(st.att.mov) THEN BOOLEAN ELSE {FALSE} :
          Appends("outcome", PerformerCompletedOk(st), PerformerCompleted(st, contested),
                  IF st.att.mov \in Writers THEN "capture" ELSE "verify")

RecordFailed ==
    /\ At("outcome") /\ result \in AdapterFailures
    /\ Appends("outcome", AttemptFailedOk(st),
               AttemptFailed(st, Classify(st, result, Remaining(st))), "realize")

RecordBlocked ==
    /\ At("outcome") /\ result = "blocked"
    /\ \E questions \in 1 .. MaxQuestions :
          Appends("outcome", AttemptBlockedOk(st), AttemptBlocked(st, questions), "ask")

Ask ==
    Appends("ask", QuestionRequestedOk(st), QuestionRequested(st),
            IF st.att.asked + 1 < st.att.raised THEN "ask" ELSE "blocked")

\* WAITING_HUMAN is what the journal says, not what the adapter promised.
ContinueAfterBlocking ==
    /\ At("blocked")
    /\ IF PendingDecision(st)
       THEN /\ pc' = AfterFailure /\ note' = "wait" /\ UNCHANGED <<st, next, left>>
       ELSE IF PlanScheduler(st, DecisionResume(st)).steps = <<"successor">>
       THEN Begin(Goal(DecisionResume(st), TRUE))
       ELSE Exit("interrupted") /\ UNCHANGED <<st, next, left>>
    /\ UNCHANGED <<mode, todo, result, world, reruns, bounds>>

(***************************************************************************)
(* Verification and acceptance                                             *)
(***************************************************************************)
DenyGrant(where) ==
    Appends(where, AttemptFailedOk(st),
            AttemptFailed(st, Classify(st, "grant_denied", Remaining(st))), "realize")

Capture == Appends("capture", ChangeSetRecordedOk(st), ChangeSetRecorded(st), "verify")
CaptureDenied == DenyGrant("capture")

Verify == Appends("verify", VerificationPassedOk(st), VerificationPassed(st), "open_acceptance")
VerifyDenied == st.att.mov \notin Writers /\ DenyGrant("verify")

OpenAcceptance ==
    Appends("open_acceptance", ExecutionStartedOk(st), ExecutionStarted(st, "acceptance", left),
            "accept")

Accept == Appends("accept", AcceptanceStartedOk(st), AcceptanceStarted(st), "criteria")

NextCriterion == Criteria[st.att.mov][st.att.passed + 1]

\* A criterion recovery resumes runs alone, outside any interval.
Resumed == st.open.phase = "none"

CriterionBegins(kind) ==
    /\ At("criteria") \/ Doing("criterion")
    /\ st.att.passed < Planned(st) /\ NextCriterion = kind

SpawnCriterion ==
    /\ CriterionBegins("run")
    /\ pc' = "criterion_identify" /\ sess' = sess + 1
    /\ UNCHANGED <<st, mode, todo, next, left, result, note, escaped, stray, tree, reruns, bounds>>

SpawnCriterionFails ==
    /\ CriterionBegins("run")
    /\ AppendEvent(CriterionStartedOk(st), CriterionStarted(st), "criterion_done")
    /\ result' = "ERROR"
    /\ UNCHANGED <<mode, todo, next, left, world, reruns, bounds>>

IdentifyCriterion ==
    Appends("criterion_identify", CriterionStartedOk(st), CriterionStarted(st), "criterion_run")

\* The session is swept whatever happened; a sweep that fails is one more error.
CriterionEnds ==
    /\ At("criterion_run") /\ pc' = "criterion_done" /\ sess' = sess - 1
    /\ \/ result' \in {"PASS", "FAIL", "ERROR", "exhausted"} /\ UNCHANGED escaped
       \/ result' = "ERROR" /\ escaped' = TRUE
    /\ UNCHANGED <<st, mode, todo, next, left, note, stray, tree, reruns, bounds>>

\* An artifact criterion checks what was recorded, a review criterion reads it.
Judge(kind, verdicts) ==
    /\ CriterionBegins(kind)
    /\ AppendEvent(CriterionStartedOk(st), CriterionStarted(st), "criterion_done")
    /\ result' \in verdicts
    /\ UNCHANGED <<mode, todo, next, left, world, reruns, bounds>>

JudgeArtifact == Judge("artifact", {"PASS", "FAIL", "ERROR"})
JudgeReview == At("criteria") /\ Judge("review", {"PASS", "ERROR"})

\* Recovery compiles no review evaluation, so an unstarted review cannot be resumed.
ResumeReview ==
    /\ Doing("criterion") /\ CriterionBegins("review") /\ Exit("review_unresumable")
    /\ UNCHANGED <<st, mode, todo, next, left, result, world, reruns, bounds>>

CriterionDone ==
    /\ At("criterion_done")
    /\ AppendEvent(CriterionCompletedOk(st),
              CriterionCompleted(st, IF result = "exhausted" THEN "ERROR" ELSE result),
              CASE result = "exhausted" -> "exhausted"
                [] result = "PASS" -> IF Resumed THEN "plan" ELSE "criteria"
                [] OTHER -> "fail_acceptance")
    /\ UNCHANGED <<mode, todo, next, left, result, world, reruns, bounds>>

\* A run criterion's failure is classified with the time measured so far, the
\* others with the journal's, which has not charged the open interval.
FailAcceptance ==
    /\ At("fail_acceptance")
    /\ \E remaining \in IF NextCriterion = "run" /\ ~Resumed THEN 0 .. st.open.rem
                         ELSE {Remaining(st)} :
          Appends("fail_acceptance", AcceptanceFailedOk(st),
                  AcceptanceFailed(st, Classify(st, "acceptance", remaining)),
                  IF Resumed THEN "plan" ELSE "stop_acceptance")

ReviewOutcome ==
    IF ~HasReview(st.att.mov) THEN "none" ELSE IF st.att.contested THEN "CONTESTED" ELSE "CLEAN"

Evaluate ==
    /\ At("criteria") /\ st.att.passed = Planned(st)
    /\ Appends("criteria", EvaluationCompletedOk(st), EvaluationCompleted(st, ReviewOutcome),
               "stop_acceptance")

StopAcceptance ==
    \E charged \in 0 .. st.open.rem :
        LET after == ExecutionStopped(st, charged, "normal")
        IN  Appends("stop_acceptance", ExecutionStoppedOk(st), after,
                    IF after.att.state = "FAILED" THEN "realize"
                    ELSE IF GateRequired(after) THEN "gate" ELSE "complete")

Gate == Appends("gate", GateRequestedOk(st), GateRequested(st), AfterFailure)

Complete == Appends("complete", AttemptCompletedOk(st), AttemptCompleted(st), "succeed")

SucceededOk(m) == MovementSucceededOk(st, m, st.att.changeSet, m = Final)
Succeeded(m) == MovementSucceeded(st, m, m = Final)

Succeed == Appends("succeed", SucceededOk(st.att.mov), Succeeded(st.att.mov), "plan")

(***************************************************************************)
(* The budget's deadline and the realization of a recorded failure         *)
(***************************************************************************)
CloseExhausted ==
    /\ At("exhausted")
    /\ IF Resumed THEN UNCHANGED st /\ Exit("no_interval")
       ELSE AppendEvent(ExecutionStoppedOk(st),
                        ExecutionStopped(st, st.open.rem, "budget_exhausted"), "fail_exhausted")
    /\ UNCHANGED <<mode, todo, next, left, result, world, reruns, bounds>>

FailExhausted ==
    Appends("fail_exhausted", AttemptFailedOk(st),
            AttemptFailed(st, Classify(st, "budget_exhausted", Remaining(st))), "realize")

RealizeTerminal ==
    /\ st.att.disposition = "terminal"
    /\ Appends("realize", BetweenUnitEntry(st) /\ MovementFailedOk(st, st.att.mov),
               MovementFailed(st, st.att.mov, TRUE), "fail_run")

\* Charged: the between-unit selector decides before any new adapter starts.
RealizeCharged ==
    /\ At("realize") /\ st.att.disposition # "terminal"
    /\ IF ~BetweenUnitEntry(st) \/ PendingSuccessor(st) = NoSuccessor
       THEN Exit("interrupted") /\ UNCHANGED <<st, todo, next, left>>
       ELSE IF Remaining(st) = 0
       THEN /\ todo' = Carry(BudgetExhaustion(st), TRUE) /\ pc' = "step"
            /\ UNCHANGED <<st, next, left, note>>
       ELSE Begin(Goal(PendingSuccessor(st), TRUE)) /\ UNCHANGED todo
    /\ UNCHANGED <<mode, result, world, reruns, bounds>>

FailRun == Appends("fail_run", RunFailedOk(st), RunFailed(st), AfterFailure)

(***************************************************************************)
(* Recovery's steps                                                        *)
(***************************************************************************)
CloseInterval ==
    IF st.open.phase = "none"
    THEN StepAppends("close", TRUE, st)
    ELSE StepAppends("close", ExecutionStoppedOk(st),
                     ExecutionStopped(st, ClampedCharge(st.open), "recovered"))

\* Sweeps that verify the session empty, and sweeps that cannot.
SweepSteps == {"stabilize", "sweep", "sweep_criterion", "stabilize_launch"}

SweepAssumed ==
    /\ pc = "step" /\ Head(todo.steps) \in SweepSteps /\ pc' = Rest /\ todo' = Popped
    /\ UNCHANGED <<st, mode, next, left, result, note, world, reruns, bounds>>

RecoverSweep ==
    /\ pc = "step" /\ Head(todo.steps) \in SweepSteps
    /\ sess' = 0 /\ pc' = Rest /\ todo' = Popped
    /\ UNCHANGED <<st, mode, next, left, result, note, escaped, stray, tree, reruns, bounds>>

SweepAgain ==
    /\ pc = "step" /\ Head(todo.steps) \in SweepSteps /\ sess > 0 /\ pc' = "plan"
    /\ UNCHANGED <<st, mode, todo, next, left, result, note, world, reruns, bounds>>

RecoverSweepFails ==
    /\ pc = "step" /\ Head(todo.steps) \in SweepSteps /\ sess > 0 /\ Exit("halted")
    /\ UNCHANGED <<st, mode, todo, next, left, result, world, reruns, bounds>>

RemoveLaunch ==
    /\ Doing("remove_launch") /\ stray' = FALSE /\ pc' = Rest /\ todo' = Popped
    /\ UNCHANGED <<st, mode, next, left, result, note, sess, escaped, tree, reruns, bounds>>

RecoveredKind(step) == IF step = "fail_unprobed" THEN "adapter_unavailable" ELSE "task_failed"

RecoverAttempt ==
    \E step \in {"fail_unstarted", "fail_unprobed", "fail_incomplete", "fail_lost"} :
        StepAppends(step, AttemptFailedOk(st),
                    AttemptFailed(st, Classify(st, RecoveredKind(step), Remaining(st))))

RecoverDisposition ==
    StepAppends("realize", MovementFailedOk(st, st.att.mov), MovementFailed(st, st.att.mov, TRUE))

RecoverRunFailed == StepAppends("fail_run", RunFailedOk(st), RunFailed(st))

RecoverQuestion == StepAppends("question", QuestionRequestedOk(st), QuestionRequested(st))

\* Whatever the worktree holds now is the change set.
RecoverCapture ==
    /\ Doing("capture") /\ AppendEvent(ChangeSetRecordedOk(st), ChangeSetRecorded(st), Rest)
    /\ todo' = Popped /\ tree' = "intact"
    /\ UNCHANGED <<mode, next, left, result, sess, escaped, stray, reruns, bounds>>

RecoverVerify ==
    /\ st.att.mov \in Writers \/ tree = "intact"
    /\ StepAppends("verify", VerificationPassedOk(st), VerificationPassed(st))

RecoverVerifyDenied ==
    StepAppends("verify", AttemptFailedOk(st),
                AttemptFailed(st, Classify(st, "grant_denied", Remaining(st))))

\* Recovery opens no interval for the acceptance it starts.
RecoverAccept ==
    /\ ~(st.att.mov \in Writers /\ tree = "altered")
    /\ StepAppends("accept", AcceptanceStartedOk(st), AcceptanceStarted(st))

SubjectUnverified ==
    /\ \/ Doing("accept") /\ st.att.mov \in Writers /\ tree = "altered"
       \/ Doing("verify_subject") /\ tree = "lost"
    /\ Exit("subject_unverified")
    /\ UNCHANGED <<st, mode, todo, next, left, result, world, reruns, bounds>>

\* A criterion found in flight never gets a verdict of its own.
RecoverCriterion ==
    /\ Doing("verify_subject") /\ tree # "lost"
    /\ todo' = [todo EXCEPT !.steps = <<IF tree = "intact" THEN "fail_acceptance" ELSE "mismatch">>]
    /\ IF tree = "intact"
       THEN AppendEvent(CriterionCompletedOk(st), CriterionCompleted(st, "ERROR"), "step")
       ELSE pc' = "step" /\ UNCHANGED <<st, note>>
    /\ UNCHANGED <<mode, next, left, result, world, reruns, bounds>>

RecoverAcceptanceFailure ==
    \E step \in {"fail_acceptance", "mismatch"} :
        StepAppends(step, AcceptanceFailedOk(st),
                    AcceptanceFailed(st, Classify(st, "acceptance", Remaining(st))))

\* The evaluation is rebuilt from the criteria alone: it carries no review outcome.
RecoverEvaluation ==
    StepAppends("evaluate", EvaluationCompletedOk(st), EvaluationCompleted(st, "none"))

RecoverGate == StepAppends("gate", GateRequestedOk(st), GateRequested(st))

RecoverGateRejected ==
    StepAppends("gate_rejected", GateRejectedOk(st, todo.mov, todo.mov = Final),
                GateRejected(st, todo.mov, todo.mov = Final))

RecoverComplete == StepAppends("complete", AttemptCompletedOk(st), AttemptCompleted(st))

RecoverSucceeded == StepAppends("succeed", SucceededOk(todo.mov), Succeeded(todo.mov))

(***************************************************************************)
(* The human, the crash and the next resume                                *)
(***************************************************************************)
Answer ==
    /\ QuestionResolvedOk(st) /\ st' = QuestionResolved(st)
    /\ UNCHANGED <<process, world, reruns, bounds>>

Resolve ==
    /\ GateResolvedOk(st)
    /\ \E disposition \in {"approved", "rejected"} : st' = GateResolved(st, disposition)
    /\ UNCHANGED <<process, world, reruns, bounds>>

\* A dead driver leaves its sessions running or takes them along.
Crash ==
    /\ pc # "down" /\ crashes < MaxCrashes /\ crashes' = crashes + 1
    /\ Exit("crashed") /\ sess' \in {0, sess}
    /\ stray' = (stray \/ pc = "criterion_identify")
    /\ UNCHANGED <<st, mode, todo, next, left, result, escaped, tree, reruns, blocked>>

\* Someone edits or removes the worktree of an attempt under verification.
DisturbTree ==
    /\ pc = "down" /\ st.att.state = "VERIFYING" /\ tree = "intact"
    /\ crashes < MaxCrashes /\ crashes' = crashes + 1
    /\ tree' \in {"altered", "lost"}
    /\ UNCHANGED <<st, process, sess, escaped, stray, reruns, blocked>>

Resume ==
    /\ pc = "down" /\ ~Terminal(st)
    /\ pc' = "plan" /\ mode' = "recovery" /\ note' = "none" /\ todo' = Nothing
    /\ next' = Goal(NoSuccessor, FALSE) /\ left' = 0 /\ result' = "none"
    /\ UNCHANGED <<st, world, reruns, bounds>>

Schedule ==
    \/ PlanLive \/ PlanRecovery \/ Ready \/ Start \/ BudgetMovement \/ BudgetRun
    \/ Initial \/ Successor \/ ComposeCandidate \/ RerunComposition

Compose ==
    \/ Composed \/ Record \/ ComposeDeadline \/ ComposeUnverifiable \/ ComposeConflict
    \/ Evidence \/ Terminalize \/ RecoverTerminal

Attempt ==
    \/ Select \/ OpenAdapter \/ Launch \/ LaunchFails \/ Identify \/ Probe \/ ProbeFails
    \/ Checkpoint \/ AdapterEnds \/ SweepFails \/ AdapterDeadline \/ StopAdapter
    \/ RecordCompleted \/ RecordFailed \/ RecordBlocked \/ Ask \/ ContinueAfterBlocking

Acceptance ==
    \/ Capture \/ CaptureDenied \/ Verify \/ VerifyDenied \/ OpenAcceptance \/ Accept
    \/ SpawnCriterion \/ SpawnCriterionFails \/ IdentifyCriterion \/ CriterionEnds
    \/ JudgeArtifact \/ JudgeReview \/ ResumeReview \/ CriterionDone \/ FailAcceptance
    \/ Evaluate \/ StopAcceptance \/ Gate \/ Complete \/ Succeed
    \/ CloseExhausted \/ FailExhausted \/ RealizeTerminal \/ RealizeCharged \/ FailRun

Recover ==
    \/ CloseInterval \/ RecoverSweep \/ RecoverSweepFails \/ RemoveLaunch \/ RecoverAttempt
    \/ RecoverDisposition \/ RecoverRunFailed \/ RecoverQuestion \/ RecoverCapture
    \/ RecoverVerify \/ RecoverVerifyDenied \/ RecoverAccept \/ SubjectUnverified
    \/ RecoverCriterion \/ RecoverAcceptanceFailure \/ RecoverEvaluation \/ RecoverGate
    \/ RecoverGateRejected \/ RecoverComplete \/ RecoverSucceeded

Drive == Schedule \/ Compose \/ Attempt \/ Acceptance \/ Recover

Next == Drive \/ Answer \/ Resolve \/ Crash \/ DisturbTree \/ Resume

Spec == Init /\ [][Next]_vars

\* A process that can take its next step takes it; nobody need answer, resume or die.
FairSpec == Spec /\ WF_vars(Drive)

(***************************************************************************)
(* Properties                                                              *)
(***************************************************************************)
\* The projection and the process stay in their domains: states of runstate,
\* the planner's steps, and counters within the score's and the run's bounds.
TypeOK ==
    /\ st.run \in {"RUNNING", "WAITING_HUMAN", "SUCCEEDED", "FAILED"}
    /\ \A m \in Movements :
          /\ st.mov[m] \in {"PENDING", "READY", "RUNNING", "WAITING_HUMAN", "SUCCEEDED", "FAILED"}
          /\ st.visited[m] \subseteq Performers
    /\ st.att.mov \in 0 .. N /\ st.att.pending <= st.att.asked /\ st.att.asked <= st.att.raised
    /\ st.open.phase \in {"none", "composition", "adapter", "acceptance"}
    /\ st.open.cp <= st.open.rem
    /\ st.evidence \subseteq 0 .. N /\ st.terminalized \subseteq st.evidence
    /\ mode \in {"live", "recovery"} /\ todo.mov \in 0 .. N /\ next.mov \in 0 .. N
    /\ left \in 0 .. Budget /\ sess \in Nat /\ tree \in {"intact", "altered", "lost"}

\* A movement that failed on the composition of a later attempt's base: its
\* movement.failed names no attempt, so recovery still plans the successor.
StrandedSuccessor ==
    /\ st.att.state \in {"FAILED", "BLOCKED"} /\ ~st.att.failedHere
    /\ st.mov[st.att.mov] = "FAILED"

\* A rejected gate where no final movement can end the run.
RejectedWithoutFinal == GateWaived /\ st.att.gate = "rejected"

\* Every append of the driver and of recovery is legal where it is made, however
\* the process died before: runstate.Apply refuses one in the two cases above only.
AppendsAreAdmitted == note = "refused" => StrandedSuccessor \/ RejectedWithoutFinal

\* No interval or attempt is begun on top of a session that was left running:
\* the next one is launched only when the last one was swept.
OneLiveSession == sess <= 1

\* The projection is well formed, and no second session ever runs beside one
\* that a crash or a failed sweep left behind.
SessionInv == TypeOK /\ OneLiveSession

\* Adapter time is charged: while the session of an attempt that was started
\* lives, across crashes and until recovery has swept it, its interval is open.
AdapterIsMetered ==
    sess > 0 /\ st.att.state \in {"STARTING", "RUNNING"} => st.open.phase = "adapter"

\* Each attempt after the first was paid for once: by a charged retry, by a
\* performer not tried before, or by the answers to a blocked attempt.
SuccessorsArePaidFor ==
    \A m \in Movements :
        /\ st.retries[m] <= Retries
        /\ st.selected[m] <= st.retries[m] + Cardinality(st.visited[m]) + st.resumed[m]

\* A movement succeeds only after its subject was verified, every criterion
\* passed, its writer's change set was recorded and its human gate approved;
\* also when recovery completes it.
SuccessIsGated ==
    [][\A m \in Movements : st'.mov[m] = "SUCCEEDED" /\ st.mov[m] # "SUCCEEDED" =>
          /\ st.att.verified /\ st.att.evaluated /\ st.att.passed = Len(Criteria[m])
          /\ m \in Writers => st.att.changeSet
          /\ HumanGate[m] = "always" => st.att.gate = "approved"]_vars

\* A run that ended leaves no session running, no interval open and no
\* decision to answer.
TerminalIsQuiet ==
    Terminal(st) => sess = 0 /\ st.open.phase = "none" /\ ~PendingDecision(st)

\* Live and recovered execution follow the contract of a run.
Contract == INSTANCE ExecutionContract WITH
    run <- IF Terminal(st) THEN st.run ELSE "OPEN",
    started <- {m \in Movements : st.mov[m] \notin {"PENDING", "READY"}},
    succeeded <- {m \in Movements : st.mov[m] = "SUCCEEDED"},
    failed <- {m \in Movements : st.mov[m] = "FAILED"},
    candidate <- st.candidate

ImplementsContract == Contract!Spec

\* The driver never spins: a run or resume command finishes, waits for a
\* human, or stops with an error, whatever the adapter and the worktree do.
ProcessSettles == pc # "down" ~> pc = "down"

\* A movement with on_contested whose recorded review holds blocking findings
\* succeeds only with an approved gate, whoever completes the evaluation.
ContestedIsGated ==
    [][\A m \in Movements : st'.mov[m] = "SUCCEEDED" /\ st.mov[m] # "SUCCEEDED" =>
          (HumanGate[m] = "on_contested" /\ st.att.contested => st.att.gate = "approved")]_vars

\* A recomposition that succeeded is followed by the scheduler's next step,
\* not by the same recomposition again.
RecompositionContinues == reruns <= 1

\* A rejected gate ends its movement, and nothing the executor appends for it is refused.
RejectionIsAdmitted == st.att.gate = "rejected" => note # "refused"

SchedulingSteps == {"ready", "start", "initial", "successor", "candidate", "recompose"}

\* Once a movement has failed, recovery schedules no more work: what is left is
\* to end the run.
FailedMovementEndsScheduling ==
    mode = "recovery" /\ pc = "step" /\ WithState(st, {"FAILED"}) # {} =>
        Head(todo.steps) \notin SchedulingSteps

\* An interval opens with no more than what is left of the run's budget.
IntervalIsFunded == st.open.phase # "none" => st.open.rem <= Remaining(st)
=============================================================================
