------------------------------ MODULE Lifecycle ------------------------------
(***************************************************************************)
(* The run, movement, attempt, acceptance and decision lifecycles that     *)
(* runstate.Apply computes from the journal.  A projection is one record,  *)
(* and every journal event is a pair of operators on it: the condition     *)
(* under which Apply admits the event, and the projection it returns.      *)
(*                                                                         *)
(* Only the latest attempt is kept: a new one is selected once the         *)
(* previous one has ended, and nothing that plans or appends looks behind  *)
(* it except through retries and visited, which are kept per movement.     *)
(* Shape checks of payloads, identity hashes and artifact instances are    *)
(* data and are left out; so are amendments and cancellation, which        *)
(* RunControl models.                                                      *)
(***************************************************************************)
EXTENDS Naturals, Sequences, FiniteSets

CONSTANTS
    N,          \* number of movements; 1 .. N is the score's order
    Needs,      \* Needs[m]: the movements m depends on
    Writers,    \* the movements granted repo_write
    Final,      \* the final movement, 0 when the score waives its gate
    Criteria,   \* Criteria[m]: a sequence of "run", "artifact" and "review"
    HumanGate,  \* HumanGate[m] \in {"never", "always", "on_contested"}
    Primary,    \* the bound performer
    Fallbacks,  \* the sequence of its fallbacks
    Retries,    \* policy retries_per_movement
    Budget,     \* policy active_wall_clock_min, in units of charged time
    Grace       \* the recovery charge added to the last checkpoint

Movements == 1 .. N
Performers == {Primary} \cup {Fallbacks[i] : i \in DOMAIN Fallbacks}

ASSUME ScoreAssumption ==
    /\ N \in Nat \ {0}
    /\ Needs \in [Movements -> SUBSET Movements]
    /\ \A m \in Movements : \A k \in Needs[m] : k < m
    /\ Writers \subseteq Movements
    /\ Final \in 0 .. N
    /\ Criteria \in [Movements -> Seq({"run", "artifact", "review"})]
    /\ Fallbacks \in Seq(STRING)
    /\ HumanGate \in [Movements -> {"never", "always", "on_contested"}]
    /\ Retries \in Nat /\ Budget \in Nat /\ Grace \in Nat

\* The final movement writes nothing, and every other movement leads to it.
ASSUME FinalAssumption ==
    Final # 0 =>
        /\ Final \notin Writers
        /\ \A m \in Movements : Final \notin Needs[m]
        /\ \A m \in Movements \ {Final} : \E k \in Movements : m \in Needs[k]

GateWaived == Final = 0

(***************************************************************************)
(* The projection                                                          *)
(***************************************************************************)
NoInterval == [phase |-> "none", rem |-> 0, cp |-> 0]

NoAttempt ==
    [mov |-> 0, perf |-> "none", state |-> "NONE", probed |-> FALSE,
     changeSet |-> FALSE, verified |-> FALSE, accepting |-> FALSE, passed |-> 0,
     inFlight |-> FALSE, verdict |-> "none", evaluated |-> FALSE,
     contested |-> FALSE, outcome |-> "none", gate |-> "none",
     disposition |-> "none", failedHere |-> FALSE, succeededHere |-> FALSE,
     raised |-> 0, asked |-> 0, pending |-> 0]

InitialProjection ==
    [run |-> "RUNNING", mov |-> [m \in Movements |-> "PENDING"],
     att |-> NoAttempt, open |-> NoInterval, consumed |-> 0,
     candidate |-> FALSE, evidence |-> {}, terminalized |-> {},
     recomposed |-> FALSE, exhausted |-> FALSE,
     retries |-> [m \in Movements |-> 0],
     visited |-> [m \in Movements |-> {}],
     selected |-> [m \in Movements |-> 0],
     resumed |-> [m \in Movements |-> 0]]

Terminal(s) == s.run \in {"SUCCEEDED", "FAILED"}
AttemptInFlight(s) == s.att.state \in {"STARTING", "RUNNING", "VERIFYING"}
WritersSucceeded(s) == \A w \in Writers : s.mov[w] = "SUCCEEDED"

\* Every decision modelled here blocks: questions of a blocked attempt and the human gate.
PendingDecision(s) == s.att.pending > 0 \/ s.att.gate = "pending"

\* A blocking decision holds the run and its movement; the last answer releases both.
RefreshWaitingHuman(s) ==
    LET waiting(m) == PendingDecision(s) /\ m = s.att.mov /\ s.mov[m] = "RUNNING"
        released(m) == ~PendingDecision(s) /\ ~Terminal(s) /\ s.mov[m] = "WAITING_HUMAN"
    IN  [s EXCEPT
          !.run = IF Terminal(s) THEN @
                  ELSE IF PendingDecision(s) THEN "WAITING_HUMAN" ELSE "RUNNING",
          !.mov = [m \in Movements |-> IF waiting(m) THEN "WAITING_HUMAN"
                                       ELSE IF released(m) THEN "RUNNING" ELSE @[m]]]

CloseAllPendingDecisions(s) ==
    RefreshWaitingHuman([s EXCEPT !.att.pending = 0,
                                  !.att.gate = IF @ = "pending" THEN "none" ELSE @])

AllOtherMovementsFinished(s, m) ==
    \A k \in Movements \ {m} : s.mov[k] = "SUCCEEDED"

(***************************************************************************)
(* Run and movement events                                                 *)
(***************************************************************************)
RunSucceededOk(s) == s.run = "RUNNING"
RunSucceeded(s) == CloseAllPendingDecisions([s EXCEPT !.run = "SUCCEEDED", !.candidate = TRUE])

RunFailedOk(s) == s.run = "RUNNING"
RunFailed(s) == CloseAllPendingDecisions([s EXCEPT !.run = "FAILED"])

MovementReadyOk(s, m) == s.mov[m] = "PENDING"
MovementReady(s, m) == [s EXCEPT !.mov[m] = "READY"]

MovementStartedOk(s, m) == s.mov[m] = "READY"
MovementStarted(s, m) == [s EXCEPT !.mov[m] = "RUNNING"]

\* The ordinary failure; named says whether the event carries the latest attempt's id.
MovementFailedOk(s, m) == s.mov[m] \in {"RUNNING", "WAITING_HUMAN"}
MovementFailed(s, m, named) ==
    [s EXCEPT !.mov[m] = "FAILED", !.att.failedHere = @ \/ named]

\* A rejected human gate ends the attempt as well, and the run when nothing else is left.
GateRejectedOk(s, m, runFailed) ==
    /\ MovementFailedOk(s, m)
    /\ s.att.state = "VERIFYING" /\ s.att.mov = m
    /\ runFailed = AllOtherMovementsFinished(s, m)
    /\ runFailed => s.run \in {"RUNNING", "WAITING_HUMAN"}
GateRejected(s, m, runFailed) ==
    LET failed == [s EXCEPT !.run = IF runFailed THEN "FAILED" ELSE @]
        closed == IF runFailed THEN CloseAllPendingDecisions(failed) ELSE failed
    IN  [closed EXCEPT !.att.state = "FAILED", !.mov[m] = "FAILED", !.att.failedHere = TRUE]

MovementSucceededOk(s, m, changeSet, runSucceeded) ==
    /\ s.run = "RUNNING" /\ s.mov[m] = "RUNNING"
    /\ s.att.state = "COMPLETED" /\ s.att.mov = m
    /\ changeSet <=> m \in Writers
    /\ runSucceeded <=> m = Final
    /\ runSucceeded => s.candidate
MovementSucceeded(s, m, runSucceeded) ==
    LET done == [s EXCEPT !.mov[m] = "SUCCEEDED", !.att.succeededHere = TRUE]
    IN  IF runSucceeded THEN CloseAllPendingDecisions([done EXCEPT !.run = "SUCCEEDED"]) ELSE done

CandidateRecordedOk(s) == s.run = "RUNNING" /\ ~s.candidate /\ WritersSucceeded(s)
CandidateRecorded(s) == [s EXCEPT !.candidate = TRUE]

\* Composition evidence: target 0 is the candidate, a movement is its own base.
CompositionEvidenceOk(s, target) ==
    IF target = 0 THEN s.run = "RUNNING" /\ ~s.candidate /\ WritersSucceeded(s)
    ELSE s.mov[target] = "RUNNING"
CompositionEvidence(s, target) == [s EXCEPT !.evidence = @ \cup {target}]

(***************************************************************************)
(* Attempt events                                                          *)
(***************************************************************************)
PerformerSelectedOk(s, m) == s.mov[m] = "RUNNING"
PerformerSelected(s, next) ==
    [s EXCEPT !.att = [NoAttempt EXCEPT !.mov = next.mov, !.perf = next.perf,
                                        !.state = "STARTING"],
              !.visited[next.mov] = @ \cup {next.perf},
              !.selected[next.mov] = @ + 1,
              !.resumed[next.mov] = IF next.reason = "decision_resume" THEN @ + 1 ELSE @]

AttemptStartedOk(s) == s.att.state = "STARTING"
AttemptStarted(s) == [s EXCEPT !.att.state = "RUNNING"]

AdapterProbedOk(s) == s.att.state = "RUNNING" /\ ~s.att.probed
AdapterProbed(s) == [s EXCEPT !.att.probed = TRUE]

\* contested is what the recorded review artifact says: it holds blocking findings.
PerformerCompletedOk(s) == s.att.state = "RUNNING" /\ s.att.probed
PerformerCompleted(s, contested) ==
    [s EXCEPT !.att.state = "VERIFYING", !.att.contested = contested]

AttemptBlockedOk(s) == s.att.state = "RUNNING" /\ s.att.probed
AttemptBlocked(s, questions) ==
    [s EXCEPT !.att.state = "BLOCKED", !.att.raised = questions]

ChargedNothing(s, disposition) ==
    [s EXCEPT !.att.state = "FAILED", !.att.disposition = disposition]

Charged(s, disposition) ==
    [s EXCEPT !.att.state = "FAILED", !.att.disposition = disposition,
              !.retries[s.att.mov] = IF disposition = "quality_retry" THEN @ + 1 ELSE @]

AttemptFailedOk(s) == AttemptInFlight(s)
AttemptFailed(s, disposition) == Charged(s, disposition)

ChangeSetRecordedOk(s) ==
    s.att.state = "VERIFYING" /\ s.att.mov \in Writers /\ ~s.att.changeSet
ChangeSetRecorded(s) == [s EXCEPT !.att.changeSet = TRUE]

VerificationPassedOk(s) == s.att.state = "VERIFYING" /\ ~s.att.verified
VerificationPassed(s) == [s EXCEPT !.att.verified = TRUE]

AttemptCompletedOk(s) == s.att.state = "VERIFYING" /\ s.att.evaluated
AttemptCompleted(s) == [s EXCEPT !.att.state = "COMPLETED"]

(***************************************************************************)
(* Acceptance events.  Criteria run in order, so the finished ones are a   *)
(* prefix: passed counts it, inFlight and verdict describe the next one.   *)
(***************************************************************************)
Planned(s) == Len(Criteria[s.att.mov])

AcceptanceStartedOk(s) == s.att.state = "VERIFYING" /\ s.att.verified /\ ~s.att.accepting
AcceptanceStarted(s) == [s EXCEPT !.att.accepting = TRUE]

CriterionStartedOk(s) ==
    /\ s.att.state = "VERIFYING" /\ s.att.accepting
    /\ ~s.att.inFlight /\ s.att.verdict = "none" /\ s.att.passed < Planned(s)
CriterionStarted(s) == [s EXCEPT !.att.inFlight = TRUE]

CriterionCompletedOk(s) == s.att.state = "VERIFYING" /\ s.att.inFlight
CriterionCompleted(s, verdict) ==
    [s EXCEPT !.att.inFlight = FALSE,
              !.att.passed = IF verdict = "PASS" THEN @ + 1 ELSE @,
              !.att.verdict = IF verdict = "PASS" THEN "none" ELSE verdict]

AcceptanceFailedOk(s) == s.att.state = "VERIFYING" /\ s.att.accepting
AcceptanceFailed(s, disposition) == Charged(s, disposition)

EvaluationCompletedOk(s) ==
    /\ s.att.state = "VERIFYING" /\ s.att.accepting /\ ~s.att.evaluated
    /\ s.att.passed = Planned(s)
EvaluationCompleted(s, outcome) ==
    [s EXCEPT !.att.evaluated = TRUE, !.att.outcome = outcome]

(***************************************************************************)
(* Decisions                                                               *)
(***************************************************************************)
QuestionRequestedOk(s) == s.att.state = "BLOCKED" /\ s.att.asked < s.att.raised
QuestionRequested(s) ==
    RefreshWaitingHuman([s EXCEPT !.att.asked = @ + 1, !.att.pending = @ + 1])

GateRequestedOk(s) == s.att.gate # "pending"
GateRequested(s) == RefreshWaitingHuman([s EXCEPT !.att.gate = "pending"])

QuestionResolvedOk(s) == s.att.pending > 0
QuestionResolved(s) == RefreshWaitingHuman([s EXCEPT !.att.pending = @ - 1])

GateResolvedOk(s) == s.att.gate = "pending"
GateResolved(s, disposition) == RefreshWaitingHuman([s EXCEPT !.att.gate = disposition])

(***************************************************************************)
(* Active-time intervals                                                   *)
(***************************************************************************)
ExecutionStartedOk(s) == s.open.phase = "none"
ExecutionStarted(s, phase, rem) ==
    [s EXCEPT !.open = [phase |-> phase, rem |-> rem, cp |-> 0]]

CheckpointedOk(s, elapsed) == s.open.phase # "none" /\ elapsed > s.open.cp
Checkpointed(s, elapsed) == [s EXCEPT !.open.cp = elapsed]

ExecutionStoppedOk(s) == s.open.phase # "none"
ExecutionStopped(s, charged, reason) ==
    [s EXCEPT !.consumed = @ + charged, !.open = NoInterval,
              !.exhausted = @ \/ reason = "budget_exhausted",
              !.recomposed = @ \/ (reason = "recovered" /\ s.open.phase = "composition")]

\* Recovery charges the last checkpoint plus a grace, clamped to what the interval had.
ClampedCharge(i) == IF i.cp + Grace < i.rem THEN i.cp + Grace ELSE i.rem

Remaining(s) == IF s.consumed < Budget THEN Budget - s.consumed ELSE 0
=============================================================================
