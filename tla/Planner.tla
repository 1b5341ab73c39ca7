------------------------------- MODULE Planner -------------------------------
(***************************************************************************)
(* The successor oracle and the recovery planner: what a failure costs,    *)
(* who performs next, and which step a projection calls for.  The tables   *)
(* are pure operators on a Lifecycle projection; Execution runs the steps  *)
(* they name.  A decision is the sequence of steps of one planner action,  *)
(* all executed before the next planning, and the movement it is about.    *)
(*                                                                         *)
(* The rows about leases, cancellation, prepares, proposals and revision   *)
(* restarts are RunControl's; rows for missing files are left out.         *)
(***************************************************************************)
EXTENDS Lifecycle, FiniteSetsExt

Decide(steps, m) == [steps |-> steps, mov |-> m]

(***************************************************************************)
(* The successor oracle                                                    *)
(***************************************************************************)
Infrastructure == {"adapter_unavailable", "provider_timeout"}
ImmediatelyTerminal == {"grant_denied", "protocol_error", "budget_exhausted"}
Quality == {"task_failed", "acceptance"}
FailureKinds == Infrastructure \cup ImmediatelyTerminal \cup Quality

UnvisitedFallbacks(s) ==
    {i \in DOMAIN Fallbacks : Fallbacks[i] \notin s.visited[s.att.mov] \cup {s.att.perf}}

NextUnvisitedFallback(s) == Fallbacks[Min(UnvisitedFallbacks(s))]

\* Arm 1: the disposition recorded with a failure, from the time that is left.
Classify(s, kind, remaining) ==
    CASE kind \in Infrastructure ->
            IF UnvisitedFallbacks(s) # {} /\ remaining > 0 THEN "fallback" ELSE "terminal"
      [] kind \in Quality ->
            IF s.retries[s.att.mov] < Retries /\ remaining > 0 THEN "quality_retry" ELSE "terminal"
      [] kind \in ImmediatelyTerminal -> "terminal"

\* Arm 2: who performs after a charged failure.
Realize(s) ==
    IF s.att.disposition = "quality_retry" THEN s.att.perf ELSE NextUnvisitedFallback(s)

NoSuccessor == [mov |-> 0, perf |-> "none", reason |-> "none"]

PendingSuccessor(s) ==
    IF /\ s.att.state = "FAILED" /\ ~s.att.failedHere
       /\ \/ s.att.disposition = "quality_retry"
          \/ s.att.disposition = "fallback" /\ UnvisitedFallbacks(s) # {}
    THEN [mov |-> s.att.mov, perf |-> Realize(s), reason |-> s.att.disposition]
    ELSE NoSuccessor

DecisionResume(s) == [mov |-> s.att.mov, perf |-> s.att.perf, reason |-> "decision_resume"]

(***************************************************************************)
(* Between units: shared by the live loop and by recovery                  *)
(***************************************************************************)
WithState(s, states) == {m \in Movements : s.mov[m] \in states}

DependenciesSucceeded(s, m) == \A k \in Needs[m] : s.mov[k] = "SUCCEEDED"

SelectableBeforeCandidate(s) ==
    {m \in WithState(s, {"PENDING"}) : DependenciesSucceeded(s, m)}

Selectable(s) ==
    {m \in WithState(s, {"PENDING"}) :
        DependenciesSucceeded(s, m) /\ (m = Final => s.candidate)}

CandidatePrecondition(s) == \A w \in Writers \ {Final} : s.mov[w] = "SUCCEEDED"
WaivedCompletion(s) == \A m \in Movements : s.mov[m] = "SUCCEEDED"

BudgetExhaustion(s) ==
    IF WithState(s, {"RUNNING"}) # {}
    THEN Decide(<<"budget_movement", "budget_run">>, Min(WithState(s, {"RUNNING"})))
    ELSE Decide(<<"budget_run">>, 0)

PlanBetweenUnit(s, pending) ==
    LET active == WithState(s, {"READY", "RUNNING"})
    IN  IF Remaining(s) = 0 THEN BudgetExhaustion(s)
        ELSE IF pending # NoSuccessor THEN Decide(<<"successor">>, pending.mov)
        ELSE IF Selectable(s) # {} THEN Decide(<<"ready">>, Min(Selectable(s)))
        ELSE IF active # {}
             THEN Decide(IF s.mov[Min(active)] = "READY" THEN <<"start">> ELSE <<"initial">>,
                         Min(active))
        ELSE IF IF GateWaived THEN WaivedCompletion(s)
                              ELSE ~s.candidate /\ CandidatePrecondition(s)
             THEN Decide(<<"candidate">>, 0)
        ELSE Decide(<<>>, 0)

(***************************************************************************)
(* Recovery's own reading of a composition                                 *)
(***************************************************************************)
\* Evidence whose consequence is not journaled yet.
CompositionTerminals(s) == s.evidence \ s.terminalized

\* The subject a recovered close asks to compose again: the first running
\* movement, else the candidate; N + 1 when there is none.
NoRecomposition == N + 1
CompositionRecovery(s) ==
    LET running == WithState(s, {"RUNNING"})
    IN  IF ~s.recomposed THEN NoRecomposition
        ELSE IF running # {} /\ Min(running) \notin s.evidence THEN Min(running)
        ELSE IF ~s.candidate /\ CandidatePrecondition(s) /\ 0 \notin s.evidence THEN 0
        ELSE NoRecomposition

(***************************************************************************)
(* Appendix C.4: the scheduler                                             *)
(***************************************************************************)
PlanScheduler(s, pending) ==
    LET decision == PlanBetweenUnit(s, pending)
    IN  IF Remaining(s) = 0 THEN decision
        ELSE IF CompositionRecovery(s) # NoRecomposition
             THEN Decide(<<"recompose">>, CompositionRecovery(s))
        ELSE IF decision.steps = <<>> THEN Decide(<<"unreachable">>, 0)
        ELSE decision

(***************************************************************************)
(* Appendix C.3: acceptance.  obs is what recovery observes: the worktree  *)
(* (intact, altered or lost), a launch directory whose identity the        *)
(* journal does not know, and whether that launch's session is alive.      *)
(***************************************************************************)
GateRequired(s) ==
    \/ HumanGate[s.att.mov] = "always"
    \/ HumanGate[s.att.mov] = "on_contested" /\ s.att.outcome = "CONTESTED"

\* A row that needs the acceptance subject: match, mismatch or not verifiable.
OnSubject(s, obs, steps) ==
    CASE obs.tree = "intact" -> Decide(steps, s.att.mov)
      [] obs.tree = "altered" -> Decide(<<"mismatch">>, s.att.mov)
      [] obs.tree = "lost" -> Decide(<<"verify_subject">>, s.att.mov)

AnyAnswerWillDo(s, obs) ==
    IF GateRequired(s) /\ s.att.gate = "none" THEN Decide(<<"gate">>, s.att.mov)
    ELSE OnSubject(s, obs, <<"complete", "succeed">>)

PlanEvaluatedAcceptance(s, obs) ==
    IF GateRequired(s) /\ s.att.gate = "none" THEN Decide(<<"gate">>, s.att.mov)
    ELSE IF GateRequired(s) /\ s.att.gate = "pending" THEN Decide(<<"wait">>, s.att.mov)
    ELSE IF GateRequired(s) /\ s.att.gate = "rejected" THEN Decide(<<"gate_rejected">>, s.att.mov)
    ELSE OnSubject(s, obs, <<"complete", "succeed">>)

PlanUnjournaledLaunch(s, obs) ==
    Decide(IF obs.alive THEN <<"stabilize_launch">> ELSE <<"remove_launch">>, s.att.mov)

CriterionLeftRunning(s) == Decide(<<"verify_subject">>, s.att.mov)

\* The criterion found in flight: its session is gone before its subject is read.
InFlightCriterion(s) == Decide(<<"sweep_criterion", "verify_subject">>, s.att.mov)

PlanAcceptance(s, obs) ==
    IF s.att.verdict # "none" THEN Decide(<<"fail_acceptance">>, s.att.mov)
    ELSE IF s.att.inFlight THEN InFlightCriterion(s)
    ELSE IF s.att.evaluated THEN PlanEvaluatedAcceptance(s, obs)
    ELSE IF s.att.passed = Planned(s) THEN OnSubject(s, obs, <<"evaluate">>)
    ELSE IF obs.stray THEN PlanUnjournaledLaunch(s, obs)
    ELSE OnSubject(s, obs, <<"criterion">>)

(***************************************************************************)
(* Appendix C.2: the attempt                                               *)
(***************************************************************************)
PlanVerifying(s, obs) ==
    LET writer == s.att.mov \in Writers
    IN  IF s.att.accepting THEN PlanAcceptance(s, obs)
        ELSE IF obs.tree = "lost" /\ (writer \/ ~s.att.verified)
                 THEN Decide(<<"fail_lost">>, s.att.mov)
        ELSE IF writer /\ ~s.att.changeSet THEN Decide(<<"capture">>, s.att.mov)
        ELSE IF ~s.att.verified THEN Decide(<<"verify">>, s.att.mov)
        ELSE Decide(<<"accept">>, s.att.mov)

CloseFirst(sweep, failure) == <<"close", sweep, failure>>

\* The session ends before its interval: what it used is charged.
EndSession(sweep, failure) == <<sweep, "close", failure>>

PlanAttempt(s, obs) ==
    CASE s.att.state = "FAILED" /\ ~s.att.failedHere ->
            IF s.att.disposition = "terminal" THEN Decide(<<"realize">>, s.att.mov)
            ELSE PlanScheduler(s, PendingSuccessor(s))
      [] s.att.state = "FAILED" /\ s.att.failedHere -> Decide(<<"fail_run">>, s.att.mov)
      [] s.att.state = "BLOCKED" ->
            IF s.att.asked < s.att.raised THEN Decide(<<"question">>, s.att.mov)
            ELSE IF s.att.pending > 0 THEN Decide(<<"wait">>, s.att.mov)
            ELSE PlanScheduler(s, DecisionResume(s))
      [] s.att.state = "STARTING" -> Decide(EndSession("stabilize", "fail_unstarted"), s.att.mov)
      [] s.att.state = "RUNNING" /\ ~s.att.probed ->
            Decide(EndSession("sweep", "fail_unprobed"), s.att.mov)
      [] s.att.state = "RUNNING" /\ s.att.probed ->
            Decide(EndSession("sweep", "fail_incomplete"), s.att.mov)
      [] s.att.state = "VERIFYING" -> PlanVerifying(s, obs)
      [] s.att.state = "COMPLETED" /\ ~s.att.succeededHere -> Decide(<<"succeed">>, s.att.mov)
      [] s.att.state = "COMPLETED" /\ s.att.succeededHere -> PlanScheduler(s, PendingSuccessor(s))

(***************************************************************************)
(* Appendix C.1                                                            *)
(***************************************************************************)
MissingRequest(s) == s.att.state = "BLOCKED" /\ s.att.asked < s.att.raised

PlanWithoutClose(s, obs) ==
    IF Terminal(s) THEN Decide(<<"cleanup">>, 0)
    ELSE IF PendingDecision(s) /\ ~MissingRequest(s) THEN Decide(<<"wait">>, 0)
    ELSE IF CompositionTerminals(s) # {}
         THEN Decide(<<"compose_terminal">>, Min(CompositionTerminals(s)))
    ELSE IF s.att.state # "NONE" THEN PlanAttempt(s, obs)
    ELSE PlanScheduler(s, PendingSuccessor(s))

Plan(s, obs) ==
    IF Terminal(s) THEN Decide(<<"cleanup">>, 0)
    ELSE IF PendingDecision(s) /\ ~MissingRequest(s) THEN Decide(<<"wait">>, 0)
    ELSE IF s.open.phase \notin {"none", "adapter"} THEN Decide(<<"close">>, 0)
    ELSE IF CompositionTerminals(s) # {}
         THEN Decide(<<"compose_terminal">>, Min(CompositionTerminals(s)))
    ELSE IF s.att.state # "NONE" THEN PlanAttempt(s, obs)
    ELSE PlanScheduler(s, PendingSuccessor(s))
=============================================================================
