------------------------- MODULE Lifecycle_proofs -------------------------
(***************************************************************************)
(* Proofs about the projection of the journal (Lifecycle) and the planner  *)
(* (Planner).  Good says what a journal that the event guards admitted     *)
(* looks like: the attempt under way and its movement agree, every attempt *)
(* that started was paid for, a run that ended has nothing open.  There is *)
(* a lemma for every event: an append that its guard admits leaves a good  *)
(* journal.  The performer selected next is one that the retries, the      *)
(* fallbacks or a resumption pay for.                                      *)
(***************************************************************************)
EXTENDS Planner, FiniteSetTheorems, WellFoundedInduction, TLAPS

RunStates == {"RUNNING", "WAITING_HUMAN", "SUCCEEDED", "FAILED"}
MovementStates == {"PENDING", "READY", "RUNNING", "WAITING_HUMAN", "SUCCEEDED", "FAILED"}
AttemptStates ==
    {"NONE", "STARTING", "RUNNING", "VERIFYING", "BLOCKED", "COMPLETED", "FAILED"}

Attempts ==
    [mov : 0 .. N, perf : Performers \cup {"none"}, state : AttemptStates, probed : BOOLEAN,
     changeSet : BOOLEAN, verified : BOOLEAN, accepting : BOOLEAN, passed : Nat,
     inFlight : BOOLEAN, verdict : {"none", "FAIL", "ERROR"}, evaluated : BOOLEAN,
     contested : BOOLEAN, outcome : {"none", "CLEAN", "CONTESTED"},
     gate : {"none", "pending", "approved", "rejected"},
     disposition : {"none", "fallback", "quality_retry", "terminal"},
     failedHere : BOOLEAN, succeededHere : BOOLEAN, raised : Nat, asked : Nat, pending : Nat]

Intervals == [phase : {"none", "composition", "adapter", "acceptance"}, rem : Nat, cp : Nat]

Projections ==
    [run : RunStates, mov : [Movements -> MovementStates], att : Attempts, open : Intervals,
     consumed : Nat, candidate : BOOLEAN, evidence : SUBSET (0 .. N),
     terminalized : SUBSET (0 .. N), recomposed : BOOLEAN, exhausted : BOOLEAN,
     retries : [Movements -> Nat], visited : [Movements -> SUBSET Performers],
     selected : [Movements -> Nat], resumed : [Movements -> Nat]]

Settled(s) == s.att.state = "NONE" \/ (s.att.state = "COMPLETED" /\ s.att.succeededHere)
OwesRetry(s) ==
    /\ s.att.state = "FAILED" /\ ~s.att.failedHere
    /\ s.att.disposition \in {"quality_retry", "fallback"}
OwesResume(s) == s.att.state = "BLOCKED" /\ s.att.asked = s.att.raised /\ s.att.pending = 0
Owes(s) == OwesRetry(s) \/ OwesResume(s)
Underway(s) ==
    \/ s.att.state \in {"STARTING", "RUNNING", "VERIFYING"}
    \/ s.att.state = "COMPLETED" /\ ~s.att.succeededHere
    \/ s.att.state = "FAILED" /\ ~s.att.failedHere /\ s.att.disposition = "terminal"
    \/ s.att.state = "BLOCKED" /\ s.att.asked < s.att.raised

\* What the journal says of the latest attempt fits together.
AttemptInv(s) ==
    LET a == s.att IN
    /\ a.state = "NONE" => a = NoAttempt
    /\ a.state # "NONE" => a.mov \in Movements /\ a.perf \in Performers
    /\ a.probed => a.state \notin {"NONE", "STARTING"}
    /\ a.changeSet \/ a.verified => a.state \in {"VERIFYING", "COMPLETED", "FAILED"}
    /\ a.changeSet => a.mov \in Writers
    /\ a.verified /\ a.mov \in Writers => a.changeSet
    /\ a.accepting => a.verified /\ a.passed <= Len(Criteria[a.mov])
    /\ a.passed > 0 \/ a.inFlight \/ a.verdict # "none" \/ a.evaluated => a.accepting
    /\ a.inFlight \/ a.verdict # "none" => a.passed < Len(Criteria[a.mov]) /\ ~a.evaluated
    /\ a.inFlight => a.verdict = "none"
    /\ a.evaluated => a.passed = Len(Criteria[a.mov])
    /\ a.gate # "none" => a.evaluated /\ GateRequired(s)
    /\ a.gate = "pending" => a.state = "VERIFYING"
    /\ a.state = "COMPLETED" => a.evaluated /\ (GateRequired(s) => a.gate = "approved")
    /\ a.pending <= a.asked /\ a.asked <= a.raised /\ (a.raised > 0 => a.state = "BLOCKED")
    /\ a.disposition # "none" => a.state = "FAILED"
    /\ a.state = "FAILED" /\ ~a.failedHere => a.disposition # "none"
    /\ a.failedHere => a.state = "FAILED" /\ s.mov[a.mov] = "FAILED"
    /\ a.succeededHere => a.state = "COMPLETED" /\ s.mov[a.mov] = "SUCCEEDED"

\* The movements, the run and the latest attempt agree.
MovementInv(s) ==
    /\ \A m \in Movements :
          /\ s.mov[m] = "WAITING_HUMAN" => m = s.att.mov /\ PendingDecision(s)
          /\ s.mov[m] \in {"RUNNING", "WAITING_HUMAN"} /\ s.selected[m] > 0 => m = s.att.mov
          /\ s.mov[m] \in {"PENDING", "READY"} => s.selected[m] = 0
          /\ s.selected[m] = 0 => s.visited[m] = {}
          /\ s.mov[m] # "PENDING" =>
                (\A k \in Needs[m] : s.mov[k] = "SUCCEEDED") /\ (m = Final => s.candidate)
    /\ s.att.state # "NONE" => s.selected[s.att.mov] > 0
    /\ PendingDecision(s) => s.mov[s.att.mov] = "WAITING_HUMAN"
    /\ Underway(s) => s.mov[s.att.mov] \in {"RUNNING", "WAITING_HUMAN"}
    /\ s.att.state # "NONE" /\ ~s.att.succeededHere => s.mov[s.att.mov] # "SUCCEEDED"
    /\ Final # 0 /\ s.mov[Final] = "SUCCEEDED" => s.run = "SUCCEEDED"
    /\ GateWaived /\ s.candidate => s.run = "SUCCEEDED"

RunInv(s) ==
    /\ ~Terminal(s) => (s.run = "WAITING_HUMAN" <=> PendingDecision(s))
    /\ Terminal(s) => ~PendingDecision(s) /\ s.open.phase = "none"

\* Each attempt is paid for, and so is the one a charged failure still owes.
PaidInv(s) ==
    /\ \A m \in Movements :
          /\ s.retries[m] <= Retries
          /\ s.selected[m] <= s.retries[m] + Cardinality(s.visited[m]) + s.resumed[m]
    /\ OwesRetry(s) /\ s.att.disposition = "quality_retry" =>
          s.selected[s.att.mov] <
              s.retries[s.att.mov] + Cardinality(s.visited[s.att.mov]) + s.resumed[s.att.mov]
    /\ OwesRetry(s) /\ s.att.disposition = "fallback" => UnvisitedFallbacks(s) # {}

\* An open interval belongs to the work under way.
PhaseInv(s) ==
    /\ s.open.cp <= s.open.rem
    /\ s.open.phase # "none" => s.run = "RUNNING" /\ CompositionTerminals(s) = {}
    /\ s.open.phase = "adapter" => s.att.state \in {"STARTING", "RUNNING"}
    /\ s.open.phase = "acceptance" =>
          \/ s.att.state = "VERIFYING" /\ s.att.verified
          \/ s.att.state = "FAILED" /\ ~s.att.failedHere
    /\ s.open.phase = "composition" => Settled(s) \/ Owes(s)
    /\ s.terminalized \subseteq s.evidence
    /\ CompositionTerminals(s) # {} => (Settled(s) \/ Owes(s)) /\ ~PendingDecision(s)
    /\ \A t \in CompositionTerminals(s) :
          s.run = "RUNNING" /\ (t # 0 => s.mov[t] = "RUNNING")
    /\ \A t, u \in CompositionTerminals(s) : t = u

Good(s) ==
    /\ s \in Projections /\ AttemptInv(s) /\ MovementInv(s) /\ RunInv(s) /\ PaidInv(s)
    /\ PhaseInv(s)

Calm(s) == s.run = "RUNNING" /\ ~PendingDecision(s) /\ CompositionTerminals(s) = {}
Between(s) == Calm(s) /\ s.open.phase = "none" /\ (Settled(s) \/ Owes(s))

USE DEF Projections, Attempts, Intervals, RunStates, MovementStates, AttemptStates

\* Every movement has a number of criteria.
LEMMA CriteriaAreCounted == \A m \in Movements : Len(Criteria[m]) \in Nat
  BY ScoreAssumption

\* The performers are finitely many, so those visited can be counted.
LEMMA PerformersAreFinite == IsFiniteSet(Performers)
<1>. DEFINE backups == {Fallbacks[i] : i \in DOMAIN Fallbacks}
<1>1. Len(Fallbacks) \in Nat /\ DOMAIN Fallbacks = 1 .. Len(Fallbacks)
  BY ScoreAssumption
<1>2. IsFiniteSet(DOMAIN Fallbacks)
  BY <1>1, FS_Interval
<1>3. Fallbacks \in Surjection(DOMAIN Fallbacks, backups)
  BY ScoreAssumption DEF Surjection
<1>4. IsFiniteSet(backups)
  BY <1>2, <1>3, FS_Surjection
<1>5. IsFiniteSet({Primary})
  BY FS_Singleton
<1>. QED
  BY <1>4, <1>5, FS_Union DEF Performers

\* The performers tried for a movement are finitely many.
LEMMA VisitedAreCounted ==
    ASSUME NEW s \in Projections, NEW m \in Movements
    PROVE  Cardinality(s.visited[m]) \in Nat
  BY PerformersAreFinite, FS_Subset, FS_CardinalityType

\* What a movement needs are movements.
LEMMA NeedsAreMovements == \A m \in Movements : \A k \in Needs[m] : k \in Movements
  BY ScoreAssumption

\* A final movement is a movement.
LEMMA FinalIsMovement == Final # 0 => Final \in Movements
  BY ScoreAssumption DEF Movements
\* Closing decisions that are not there changes nothing once the run has ended.
LEMMA NothingToClose ==
    ASSUME NEW s \in Projections, Terminal(s), ~PendingDecision(s)
    PROVE  CloseAllPendingDecisions(s) = s
<1>1. s.att.pending = 0 /\ s.att.gate # "pending"
  BY DEF PendingDecision
<1>2. [s EXCEPT !.att.pending = 0, !.att.gate = IF @ = "pending" THEN "none" ELSE @] = s
  BY <1>1, ZenonT(40)
<1>3. RefreshWaitingHuman(s) = [s EXCEPT !.run = s.run, !.mov = [m \in Movements |-> s.mov[m]]]
  BY DEF RefreshWaitingHuman
<1>4. [m \in Movements |-> s.mov[m]] = s.mov
  OBVIOUS
<1>5. [s EXCEPT !.run = s.run, !.mov = s.mov] = s
  OBVIOUS
<1>. QED
  BY <1>2, <1>3, <1>4, <1>5 DEF CloseAllPendingDecisions

\* A pending decision holds the run and, when it is running, its movement.
LEMMA RefreshHolds ==
    ASSUME NEW s \in Projections, ~Terminal(s), PendingDecision(s), s.att.mov \in Movements,
           s.mov[s.att.mov] \in {"RUNNING", "WAITING_HUMAN"}
    PROVE  RefreshWaitingHuman(s) =
               [s EXCEPT !.run = "WAITING_HUMAN", !.mov[s.att.mov] = "WAITING_HUMAN"]
<1> DEFINE held == [m \in Movements |-> IF m = s.att.mov /\ s.mov[m] = "RUNNING"
                                        THEN "WAITING_HUMAN" ELSE s.mov[m]]
<1>1. RefreshWaitingHuman(s) = [s EXCEPT !.run = "WAITING_HUMAN", !.mov = held]
  BY DEF RefreshWaitingHuman
<1>2. held = [s.mov EXCEPT ![s.att.mov] = "WAITING_HUMAN"]
  OBVIOUS
<1>. QED
  BY <1>1, <1>2

\* The last answer releases the run and the one movement that was waiting.
LEMMA RefreshReleases ==
    ASSUME NEW s \in Projections, ~Terminal(s), ~PendingDecision(s), s.att.mov \in Movements,
           s.mov[s.att.mov] = "WAITING_HUMAN",
           \A m \in Movements : s.mov[m] = "WAITING_HUMAN" => m = s.att.mov
    PROVE  RefreshWaitingHuman(s) =
               [s EXCEPT !.run = "RUNNING", !.mov[s.att.mov] = "RUNNING"]
<1> DEFINE free == [m \in Movements |-> IF s.mov[m] = "WAITING_HUMAN"
                                        THEN "RUNNING" ELSE s.mov[m]]
<1>1. RefreshWaitingHuman(s) = [s EXCEPT !.run = "RUNNING", !.mov = free]
  BY DEF RefreshWaitingHuman
<1>2. free = [s.mov EXCEPT ![s.att.mov] = "RUNNING"]
  OBVIOUS
<1>. QED
  BY <1>1, <1>2

\* With no decision pending, the end of a run is one assignment.
LEMMA RunFailedEnds ==
    ASSUME NEW s \in Projections, ~PendingDecision(s)
    PROVE  RunFailed(s) = [s EXCEPT !.run = "FAILED"]
<1> DEFINE t == [s EXCEPT !.run = "FAILED"]
<1>1. t \in Projections /\ Terminal(t) /\ ~PendingDecision(t)
  BY DEF Terminal, PendingDecision
<1>. QED
  BY <1>1, NothingToClose DEF RunFailed

\* The same for its success.
LEMMA RunSucceededEnds ==
    ASSUME NEW s \in Projections, ~PendingDecision(s)
    PROVE  RunSucceeded(s) = [s EXCEPT !.run = "SUCCEEDED", !.candidate = TRUE]
<1> DEFINE t == [s EXCEPT !.run = "SUCCEEDED", !.candidate = TRUE]
<1>1. t \in Projections /\ Terminal(t) /\ ~PendingDecision(t)
  BY DEF Terminal, PendingDecision
<1>. QED
  BY <1>1, NothingToClose DEF RunSucceeded

\* A charge that retries.
LEMMA ChargedRetryGood ==
    ASSUME NEW s, Good(s), AttemptInFlight(s), s.open.phase # "adapter", ~PendingDecision(s),
           s.retries[s.att.mov] < Retries
    PROVE  Good(Charged(s, "quality_retry"))
<1>. s \in Projections /\ AttemptInv(s) /\ MovementInv(s) /\ RunInv(s) /\ PaidInv(s) /\ PhaseInv(s)
  BY DEF Good
<1>a. s.att.mov \in Movements /\ s.att.state \in {"STARTING", "RUNNING", "VERIFYING"}
  BY DEF AttemptInv, AttemptInFlight
<1> DEFINE r == [s.retries EXCEPT ![s.att.mov] = s.retries[s.att.mov] + 1]
           t == [s EXCEPT !.att.state = "FAILED", !.att.disposition = "quality_retry",
                          !.retries = r]
<1>b. Charged(s, "quality_retry") = t
  BY DEF Charged
<1>c. /\ r \in [Movements -> Nat] /\ s.retries[s.att.mov] \in Nat
      /\ r[s.att.mov] = s.retries[s.att.mov] + 1
      /\ \A m \in Movements \ {s.att.mov} : r[m] = s.retries[m]
  BY <1>a
<1> HIDE DEF r
<1>1. t \in Projections
  BY <1>c, ZenonT(40)
<1>2. AttemptInv(t)
  <2>1. t.att = [s.att EXCEPT !.state = "FAILED", !.disposition = "quality_retry"]
        /\ t.mov = s.mov
    OBVIOUS
  <2> HIDE DEF t
  <2>. QED
    BY <1>a, <2>1 DEF AttemptInv, GateRequired, PendingDecision
<1>3. MovementInv(t)
  BY <1>a, ZenonT(40) DEF MovementInv, Underway, PendingDecision
<1>4. RunInv(t)
  BY DEF RunInv, PendingDecision, Terminal
<1>5. PaidInv(t)
  <2>1. \A m \in Movements : r[m] <= Retries
    <3>1. r[s.att.mov] <= Retries
      BY <1>a, <1>c, ScoreAssumption
    <3>2. \A m \in Movements \ {s.att.mov} : r[m] <= Retries
      BY <1>c DEF PaidInv
    <3>. QED
      BY <3>1, <3>2
  <2>2. \A m \in Movements : s.selected[m] <= r[m] + Cardinality(s.visited[m]) + s.resumed[m]
    BY <1>c, VisitedAreCounted DEF PaidInv
  <2>3. s.selected[s.att.mov] <
            r[s.att.mov] + Cardinality(s.visited[s.att.mov]) + s.resumed[s.att.mov]
    BY <1>a, <1>c, VisitedAreCounted DEF PaidInv
  <2>. QED
    BY <2>1, <2>2, <2>3 DEF PaidInv
<1>6. PhaseInv(t)
  BY <1>a DEF AttemptInv, PhaseInv, CompositionTerminals, Settled, Owes, OwesRetry, OwesResume,
                    PendingDecision
<1> HIDE DEF t
<1>. QED
  BY <1>b, <1>1, <1>2, <1>3, <1>4, <1>5, <1>6 DEF Good

\* A charge that goes to a fallback, or none.
LEMMA ChargedOtherGood ==
    ASSUME NEW s, NEW d \in {"fallback", "terminal"}, Good(s), AttemptInFlight(s),
           s.open.phase # "adapter", ~PendingDecision(s),
           d = "fallback" => UnvisitedFallbacks(s) # {}
    PROVE  Good(Charged(s, d))
<1>. s \in Projections /\ AttemptInv(s) /\ MovementInv(s) /\ RunInv(s) /\ PaidInv(s) /\ PhaseInv(s)
  BY DEF Good
<1>a. s.att.mov \in Movements /\ s.att.state \in {"STARTING", "RUNNING", "VERIFYING"}
  BY DEF AttemptInv, AttemptInFlight
<1> DEFINE t == [s EXCEPT !.att.state = "FAILED", !.att.disposition = d]
<1>b. Charged(s, d) = t
  <2>1. [s.retries EXCEPT ![s.att.mov] = IF d = "quality_retry" THEN @ + 1 ELSE @] = s.retries
    BY <1>a
  <2>2. Charged(s, d) =
            [s EXCEPT !.att.state = "FAILED", !.att.disposition = d, !.retries = s.retries]
    BY <2>1 DEF Charged
  <2>. QED
    BY <2>2
<1>1. t \in Projections
  BY <1>a, ZenonT(40)
<1>2. AttemptInv(t)
  BY <1>a, ZenonT(40) DEF AttemptInv, GateRequired, PendingDecision
<1>3. MovementInv(t)
  BY <1>a, ZenonT(40) DEF MovementInv, Underway, PendingDecision
<1>4. RunInv(t)
  BY DEF RunInv, PendingDecision, Terminal
<1>5. PaidInv(t)
  BY <1>a DEF PaidInv, OwesRetry, UnvisitedFallbacks
<1>6. PhaseInv(t)
  BY <1>a DEF AttemptInv, PhaseInv, CompositionTerminals, Settled, Owes, OwesRetry, OwesResume,
                    PendingDecision
<1> HIDE DEF t
<1>. QED
  BY <1>b, <1>1, <1>2, <1>3, <1>4, <1>5, <1>6 DEF Good

\* Progress inside the attempt disturbs nothing around it.
LEMMA ProgressGood ==
    ASSUME NEW s, NEW a \in Attempts, Good(s), AttemptInv([s EXCEPT !.att = a]),
           a.mov = s.att.mov, a.perf = s.att.perf, a.state = s.att.state, a.gate = s.att.gate,
           a.disposition = s.att.disposition, a.failedHere = s.att.failedHere,
           a.succeededHere = s.att.succeededHere, a.raised = s.att.raised, a.asked = s.att.asked,
           a.pending = s.att.pending, s.att.verified => a.verified
    PROVE  Good([s EXCEPT !.att = a])
<1>. s \in Projections /\ MovementInv(s) /\ RunInv(s) /\ PaidInv(s) /\ PhaseInv(s)
  BY DEF Good
<1> DEFINE t == [s EXCEPT !.att = a]
<1>1. t \in Projections
  OBVIOUS
<1>2. /\ t.att = a /\ t.run = s.run /\ t.mov = s.mov /\ t.open = s.open
      /\ t.candidate = s.candidate /\ t.evidence = s.evidence
      /\ t.terminalized = s.terminalized /\ t.retries = s.retries /\ t.visited = s.visited
      /\ t.selected = s.selected /\ t.resumed = s.resumed
  OBVIOUS
<1> HIDE DEF t
<1>3. MovementInv(t)
  BY <1>2 DEF MovementInv, Underway, PendingDecision
<1>4. RunInv(t)
  BY <1>2 DEF RunInv, PendingDecision, Terminal
<1>5. PaidInv(t)
  BY <1>2 DEF PaidInv, OwesRetry, UnvisitedFallbacks
<1>6. PhaseInv(t)
  BY <1>2 DEF PhaseInv, CompositionTerminals, Settled, Owes, OwesRetry, OwesResume,
              PendingDecision
<1>. QED
  BY <1>1, <1>3, <1>4, <1>5, <1>6 DEF Good, t

\* A verdict moves on to the next criterion or stays with the one that failed.
LEMMA CriterionCompletedGood ==
    ASSUME NEW s, NEW verdict \in {"PASS", "FAIL", "ERROR"}, Good(s), CriterionCompletedOk(s)
    PROVE  Good(CriterionCompleted(s, verdict))
<1>. s \in Projections /\ AttemptInv(s)
  BY DEF Good
<1> DEFINE p == IF verdict = "PASS" THEN s.att.passed + 1 ELSE s.att.passed
           v == IF verdict = "PASS" THEN "none" ELSE verdict
           a == [s.att EXCEPT !.inFlight = FALSE, !.passed = p, !.verdict = v]
<1>a. s.att.mov \in Movements /\ s.att.passed < Len(Criteria[s.att.mov]) /\ s.att.accepting
      /\ ~s.att.evaluated /\ s.att.state = "VERIFYING"
  BY DEF AttemptInv, CriterionCompletedOk
<1>b. Len(Criteria[s.att.mov]) \in Nat /\ s.att.passed \in Nat
  BY <1>a, CriteriaAreCounted
<1>c. /\ p \in Nat /\ p <= Len(Criteria[s.att.mov]) /\ v \in {"none", "FAIL", "ERROR"}
      /\ v # "none" => p < Len(Criteria[s.att.mov])
  BY <1>a, <1>b
<1>d. CriterionCompleted(s, verdict) = [s EXCEPT !.att = a]
  BY DEF CriterionCompleted
<1> HIDE DEF p, v
<1>1. a \in Attempts
  BY <1>c
<1>2. AttemptInv([s EXCEPT !.att = a])
  BY <1>a, <1>c DEF AttemptInv, GateRequired
<1>3. /\ a.mov = s.att.mov /\ a.perf = s.att.perf /\ a.state = s.att.state
      /\ a.gate = s.att.gate /\ a.disposition = s.att.disposition
      /\ a.failedHere = s.att.failedHere /\ a.succeededHere = s.att.succeededHere
      /\ a.raised = s.att.raised /\ a.asked = s.att.asked /\ a.pending = s.att.pending
      /\ s.att.verified => a.verified
  OBVIOUS
<1> HIDE DEF a
<1>. QED
  BY <1>d, <1>1, <1>2, <1>3, ProgressGood

\* The probe.
LEMMA AdapterProbedGood ==
    ASSUME NEW s, Good(s), AdapterProbedOk(s)
    PROVE  Good(AdapterProbed(s))
<1>. s \in Projections /\ AttemptInv(s)
  BY DEF Good
<1> DEFINE a == [s.att EXCEPT !.probed = TRUE]
<1>d. AdapterProbed(s) = [s EXCEPT !.att = a]
  BY DEF AdapterProbed
<1>1. a \in Attempts
  OBVIOUS
<1>2. AttemptInv([s EXCEPT !.att = a])
  BY DEF AdapterProbed, AdapterProbedOk, AttemptInv, GateRequired, Planned
<1>3. /\ a.mov = s.att.mov /\ a.perf = s.att.perf /\ a.state = s.att.state
      /\ a.gate = s.att.gate /\ a.disposition = s.att.disposition
      /\ a.failedHere = s.att.failedHere /\ a.succeededHere = s.att.succeededHere
      /\ a.raised = s.att.raised /\ a.asked = s.att.asked /\ a.pending = s.att.pending
      /\ s.att.verified => a.verified
  OBVIOUS
<1> HIDE DEF a
<1>. QED
  BY <1>d, <1>1, <1>2, <1>3, ProgressGood

\* The change set of a writer's attempt.
LEMMA ChangeSetRecordedGood ==
    ASSUME NEW s, Good(s), ChangeSetRecordedOk(s)
    PROVE  Good(ChangeSetRecorded(s))
<1>. s \in Projections /\ AttemptInv(s)
  BY DEF Good
<1> DEFINE a == [s.att EXCEPT !.changeSet = TRUE]
<1>d. ChangeSetRecorded(s) = [s EXCEPT !.att = a]
  BY DEF ChangeSetRecorded
<1>1. a \in Attempts
  OBVIOUS
<1>2. AttemptInv([s EXCEPT !.att = a])
  BY DEF ChangeSetRecorded, ChangeSetRecordedOk, AttemptInv, GateRequired, Planned
<1>3. /\ a.mov = s.att.mov /\ a.perf = s.att.perf /\ a.state = s.att.state
      /\ a.gate = s.att.gate /\ a.disposition = s.att.disposition
      /\ a.failedHere = s.att.failedHere /\ a.succeededHere = s.att.succeededHere
      /\ a.raised = s.att.raised /\ a.asked = s.att.asked /\ a.pending = s.att.pending
      /\ s.att.verified => a.verified
  OBVIOUS
<1> HIDE DEF a
<1>. QED
  BY <1>d, <1>1, <1>2, <1>3, ProgressGood

\* A subject is verified after a writer's change set was recorded.
LEMMA VerificationPassedGood ==
    ASSUME NEW s, Good(s), VerificationPassedOk(s), s.att.mov \in Writers => s.att.changeSet
    PROVE  Good(VerificationPassed(s))
<1>. s \in Projections /\ AttemptInv(s)
  BY DEF Good
<1> DEFINE a == [s.att EXCEPT !.verified = TRUE]
<1>d. VerificationPassed(s) = [s EXCEPT !.att = a]
  BY DEF VerificationPassed
<1>1. a \in Attempts
  OBVIOUS
<1>2. AttemptInv([s EXCEPT !.att = a])
  BY DEF VerificationPassed, VerificationPassedOk, AttemptInv, GateRequired, Planned
<1>3. /\ a.mov = s.att.mov /\ a.perf = s.att.perf /\ a.state = s.att.state
      /\ a.gate = s.att.gate /\ a.disposition = s.att.disposition
      /\ a.failedHere = s.att.failedHere /\ a.succeededHere = s.att.succeededHere
      /\ a.raised = s.att.raised /\ a.asked = s.att.asked /\ a.pending = s.att.pending
      /\ s.att.verified => a.verified
  OBVIOUS
<1> HIDE DEF a
<1>. QED
  BY <1>d, <1>1, <1>2, <1>3, ProgressGood

\* Acceptance starts with no criterion done.
LEMMA AcceptanceStartedGood ==
    ASSUME NEW s, Good(s), AcceptanceStartedOk(s)
    PROVE  Good(AcceptanceStarted(s))
<1>. s \in Projections /\ AttemptInv(s)
  BY DEF Good
<1> DEFINE a == [s.att EXCEPT !.accepting = TRUE]
<1>a. s.att.mov \in Movements
  BY DEF AttemptInv, AcceptanceStartedOk
<1>b. Len(Criteria[s.att.mov]) \in Nat /\ s.att.passed \in Nat
  BY <1>a, CriteriaAreCounted
<1>c. s.att.passed = 0 /\ s.att.state = "VERIFYING" /\ s.att.verified
  BY <1>b DEF AttemptInv, AcceptanceStartedOk
<1>d. AcceptanceStarted(s) = [s EXCEPT !.att = a]
  BY DEF AcceptanceStarted
<1>1. a \in Attempts
  OBVIOUS
<1>2. AttemptInv([s EXCEPT !.att = a])
  <2> DEFINE t == [s EXCEPT !.att = a]
  <2>1. /\ t.att.mov = s.att.mov /\ t.att.perf = s.att.perf /\ t.att.state = "VERIFYING"
        /\ t.att.probed = s.att.probed /\ t.att.changeSet = s.att.changeSet
        /\ t.att.verified /\ t.att.passed = 0 /\ t.att.gate = s.att.gate
        /\ t.att.inFlight = s.att.inFlight /\ t.att.verdict = s.att.verdict
        /\ t.att.evaluated = s.att.evaluated /\ t.att.accepting
        /\ t.att.disposition = s.att.disposition /\ t.att.failedHere = s.att.failedHere
        /\ t.att.succeededHere = s.att.succeededHere /\ t.att.raised = s.att.raised
        /\ t.att.asked = s.att.asked /\ t.att.pending = s.att.pending
    BY <1>c
  <2> HIDE DEF t
  <2>2. ~s.att.inFlight /\ s.att.verdict = "none" /\ ~s.att.evaluated /\ s.att.gate = "none"
    BY <1>c DEF AttemptInv, AcceptanceStartedOk
  <2>3. AttemptInv(t)
    BY <1>a, <1>b, <1>c, <2>1, <2>2 DEF AttemptInv
  <2>. QED
    BY <2>3 DEF t
<1>3. /\ a.mov = s.att.mov /\ a.perf = s.att.perf /\ a.state = s.att.state
      /\ a.gate = s.att.gate /\ a.disposition = s.att.disposition
      /\ a.failedHere = s.att.failedHere /\ a.succeededHere = s.att.succeededHere
      /\ a.raised = s.att.raised /\ a.asked = s.att.asked /\ a.pending = s.att.pending
      /\ s.att.verified => a.verified
  OBVIOUS
<1> HIDE DEF a
<1>. QED
  BY <1>d, <1>1, <1>2, <1>3, ProgressGood

\* The next criterion starts before the evaluation.
LEMMA CriterionStartedGood ==
    ASSUME NEW s, Good(s), CriterionStartedOk(s), ~s.att.evaluated
    PROVE  Good(CriterionStarted(s))
<1>. s \in Projections /\ AttemptInv(s)
  BY DEF Good
<1> DEFINE a == [s.att EXCEPT !.inFlight = TRUE]
<1>a. s.att.mov \in Movements
  BY DEF AttemptInv, CriterionStartedOk
<1>b. Len(Criteria[s.att.mov]) \in Nat /\ s.att.passed \in Nat
  BY <1>a, CriteriaAreCounted
<1>d. CriterionStarted(s) = [s EXCEPT !.att = a]
  BY DEF CriterionStarted
<1>1. a \in Attempts
  OBVIOUS
<1>2. AttemptInv([s EXCEPT !.att = a])
  BY <1>a, <1>b DEF CriterionStarted, CriterionStartedOk, AttemptInv, GateRequired, Planned
<1>3. /\ a.mov = s.att.mov /\ a.perf = s.att.perf /\ a.state = s.att.state
      /\ a.gate = s.att.gate /\ a.disposition = s.att.disposition
      /\ a.failedHere = s.att.failedHere /\ a.succeededHere = s.att.succeededHere
      /\ a.raised = s.att.raised /\ a.asked = s.att.asked /\ a.pending = s.att.pending
      /\ s.att.verified => a.verified
  OBVIOUS
<1> HIDE DEF a
<1>. QED
  BY <1>d, <1>1, <1>2, <1>3, ProgressGood

\* The evaluation comes after the last verdict.
LEMMA EvaluationCompletedGood ==
    ASSUME NEW s, NEW outcome \in {"none", "CLEAN", "CONTESTED"}, Good(s),
           EvaluationCompletedOk(s)
    PROVE  Good(EvaluationCompleted(s, outcome))
<1>. s \in Projections /\ AttemptInv(s)
  BY DEF Good
<1> DEFINE a == [s.att EXCEPT !.evaluated = TRUE, !.outcome = outcome]
<1>a. s.att.mov \in Movements
  BY DEF AttemptInv, EvaluationCompletedOk
<1>b. Len(Criteria[s.att.mov]) \in Nat /\ s.att.passed \in Nat
  BY <1>a, CriteriaAreCounted
<1>c. /\ s.att.gate = "none" /\ ~s.att.inFlight /\ s.att.verdict = "none"
      /\ s.att.passed = Len(Criteria[s.att.mov]) /\ s.att.accepting
      /\ s.att.state = "VERIFYING"
  BY <1>b DEF AttemptInv, EvaluationCompletedOk, Planned
<1>d. EvaluationCompleted(s, outcome) = [s EXCEPT !.att = a]
  BY DEF EvaluationCompleted
<1>1. a \in Attempts
  OBVIOUS
<1>2. AttemptInv([s EXCEPT !.att = a])
  BY <1>a, <1>b, <1>c
     DEF EvaluationCompleted, EvaluationCompletedOk, AttemptInv, GateRequired, Planned
<1>3. /\ a.mov = s.att.mov /\ a.perf = s.att.perf /\ a.state = s.att.state
      /\ a.gate = s.att.gate /\ a.disposition = s.att.disposition
      /\ a.failedHere = s.att.failedHere /\ a.succeededHere = s.att.succeededHere
      /\ a.raised = s.att.raised /\ a.asked = s.att.asked /\ a.pending = s.att.pending
      /\ s.att.verified => a.verified
  OBVIOUS
<1> HIDE DEF a
<1>. QED
  BY <1>d, <1>1, <1>2, <1>3, ProgressGood

\* An attempt starts.
LEMMA AttemptStartedGood ==
    ASSUME NEW s, Good(s), AttemptStartedOk(s)
    PROVE  Good(AttemptStarted(s))
<1>. s \in Projections /\ AttemptInv(s) /\ MovementInv(s) /\ RunInv(s) /\ PaidInv(s) /\ PhaseInv(s)
  BY DEF Good
<1> DEFINE t == [s EXCEPT !.att.state = "RUNNING"]
<1>0. AttemptStarted(s) = t
  BY DEF AttemptStarted
<1>1. t \in Projections
  BY DEF AttemptStartedOk
<1>2. AttemptInv(t)
  BY DEF AttemptStartedOk, AttemptInv, GateRequired
<1>3. MovementInv(t)
  BY DEF AttemptStartedOk, MovementInv, Underway, PendingDecision
<1>4. RunInv(t)
  BY DEF AttemptStartedOk, RunInv, PendingDecision, Terminal
<1>5. PaidInv(t)
  BY DEF AttemptStartedOk, PaidInv, OwesRetry, UnvisitedFallbacks
<1>6. PhaseInv(t)
  BY DEF AttemptStartedOk, PhaseInv, CompositionTerminals, Settled, Owes, OwesRetry, OwesResume,
      PendingDecision
<1> HIDE DEF t
<1>7. Good(t)
  BY <1>1, <1>2, <1>3, <1>4, <1>5, <1>6 DEF Good
<1>. QED
  BY <1>0, <1>7, Zenon

\* A performer that completed is verified.
LEMMA PerformerCompletedGood ==
    ASSUME NEW s, NEW contested \in BOOLEAN, Good(s), PerformerCompletedOk(s),
           s.open.phase = "none"
    PROVE  Good(PerformerCompleted(s, contested))
<1>. s \in Projections /\ AttemptInv(s) /\ MovementInv(s) /\ RunInv(s) /\ PaidInv(s) /\ PhaseInv(s)
  BY DEF Good
<1> DEFINE t == [s EXCEPT !.att.state = "VERIFYING", !.att.contested = contested]
<1>0. PerformerCompleted(s, contested) = t
  BY DEF PerformerCompleted
<1>1. t \in Projections
  BY DEF PerformerCompletedOk
<1>2. AttemptInv(t)
  BY DEF PerformerCompletedOk, AttemptInv, GateRequired
<1>3. MovementInv(t)
  BY ZenonT(40) DEF PerformerCompletedOk, MovementInv, Underway, PendingDecision
<1>4. RunInv(t)
  BY DEF PerformerCompletedOk, RunInv, PendingDecision, Terminal
<1>5. PaidInv(t)
  BY DEF PerformerCompletedOk, PaidInv, OwesRetry, UnvisitedFallbacks
<1>6. PhaseInv(t)
  BY DEF PerformerCompletedOk, PhaseInv, CompositionTerminals, Settled, Owes, OwesRetry,
      OwesResume, PendingDecision
<1> HIDE DEF t
<1>7. Good(t)
  BY <1>1, <1>2, <1>3, <1>4, <1>5, <1>6 DEF Good
<1>. QED
  BY <1>0, <1>7, Zenon

\* An attempt ends with questions.
LEMMA AttemptBlockedGood ==
    ASSUME NEW s, NEW questions \in Nat \ {0}, Good(s), AttemptBlockedOk(s), Calm(s),
           s.open.phase = "none"
    PROVE  Good(AttemptBlocked(s, questions))
<1>. s \in Projections /\ AttemptInv(s) /\ MovementInv(s) /\ RunInv(s) /\ PaidInv(s) /\ PhaseInv(s)
  BY DEF Good
<1> DEFINE t == [s EXCEPT !.att.state = "BLOCKED", !.att.raised = questions]
<1>a. /\ s.att.asked = 0 /\ s.att.pending = 0 /\ s.att.mov \in Movements
      /\ questions \in Nat /\ questions > 0
  BY DEF AttemptInv, AttemptBlockedOk
<1>b. /\ t.att = [s.att EXCEPT !.state = "BLOCKED", !.raised = questions]
      /\ t.mov = s.mov /\ t.run = s.run /\ t.selected = s.selected /\ t.visited = s.visited
      /\ t.candidate = s.candidate
  OBVIOUS
<1>0. AttemptBlocked(s, questions) = t
  BY DEF AttemptBlocked
<1>1. t \in Projections
  BY DEF AttemptBlockedOk, Calm
<1>2. AttemptInv(t)
  <2> HIDE DEF t
  <2>. QED
    BY <1>a, <1>b DEF AttemptBlockedOk, Calm, AttemptInv, GateRequired
<1>3. MovementInv(t)
  <2> HIDE DEF t
  <2>. QED
    BY <1>a, <1>b DEF AttemptBlockedOk, Calm, MovementInv, Underway, PendingDecision
<1>4. RunInv(t)
  BY DEF AttemptBlockedOk, Calm, RunInv, PendingDecision, Terminal
<1>5. PaidInv(t)
  BY DEF AttemptBlockedOk, Calm, PaidInv, OwesRetry, UnvisitedFallbacks
<1>6. PhaseInv(t)
  BY DEF AttemptBlockedOk, Calm, PhaseInv, CompositionTerminals, Settled, Owes, OwesRetry,
      OwesResume, PendingDecision
<1> HIDE DEF t
<1>7. Good(t)
  BY <1>1, <1>2, <1>3, <1>4, <1>5, <1>6 DEF Good
<1>. QED
  BY <1>0, <1>7, Zenon

\* An attempt completes once its gate, if it needs one, is approved.
LEMMA AttemptCompletedGood ==
    ASSUME NEW s, Good(s), AttemptCompletedOk(s), s.open.phase = "none",
           GateRequired(s) => s.att.gate = "approved"
    PROVE  Good(AttemptCompleted(s))
<1>. s \in Projections /\ AttemptInv(s) /\ MovementInv(s) /\ RunInv(s) /\ PaidInv(s) /\ PhaseInv(s)
  BY DEF Good
<1> DEFINE t == [s EXCEPT !.att.state = "COMPLETED"]
<1>0. AttemptCompleted(s) = t
  BY DEF AttemptCompleted
<1>1. t \in Projections
  BY DEF AttemptCompletedOk, GateRequired
<1>2. AttemptInv(t)
  BY DEF AttemptCompletedOk, GateRequired, AttemptInv, GateRequired
<1>3. MovementInv(t)
  BY DEF AttemptCompletedOk, GateRequired, MovementInv, Underway, PendingDecision
<1>4. RunInv(t)
  BY DEF AttemptCompletedOk, GateRequired, RunInv, PendingDecision, Terminal
<1>5. PaidInv(t)
  BY DEF AttemptCompletedOk, GateRequired, PaidInv, OwesRetry, UnvisitedFallbacks
<1>6. PhaseInv(t)
  BY DEF AttemptCompletedOk, GateRequired, PhaseInv, CompositionTerminals, Settled, Owes,
      OwesRetry, OwesResume, PendingDecision
<1> HIDE DEF t
<1>7. Good(t)
  BY <1>1, <1>2, <1>3, <1>4, <1>5, <1>6 DEF Good
<1>. QED
  BY <1>0, <1>7, Zenon

\* A selectable movement becomes ready.
LEMMA MovementReadyGood ==
    ASSUME NEW s, NEW m \in Selectable(s), Good(s)
    PROVE  Good(MovementReady(s, m))
<1>. s \in Projections /\ AttemptInv(s) /\ MovementInv(s) /\ RunInv(s) /\ PaidInv(s) /\ PhaseInv(s)
  BY DEF Good
<1> DEFINE t == [s EXCEPT !.mov[m] = "READY"]
<1>0. MovementReady(s, m) = t
  BY DEF MovementReady
<1>1. t \in Projections
  BY DEF Selectable, WithState, DependenciesSucceeded
<1>2. AttemptInv(t)
  BY DEF Selectable, WithState, DependenciesSucceeded, AttemptInv, GateRequired
<1>3. MovementInv(t)
  BY DEF Selectable, WithState, DependenciesSucceeded, MovementInv, Underway, PendingDecision
<1>4. RunInv(t)
  BY DEF Selectable, WithState, DependenciesSucceeded, RunInv, PendingDecision, Terminal
<1>5. PaidInv(t)
  BY DEF Selectable, WithState, DependenciesSucceeded, PaidInv, OwesRetry, UnvisitedFallbacks
<1>6. PhaseInv(t)
  BY DEF Selectable, WithState, DependenciesSucceeded, PhaseInv, CompositionTerminals, Settled,
      Owes, OwesRetry, OwesResume, PendingDecision
<1> HIDE DEF t
<1>7. Good(t)
  BY <1>1, <1>2, <1>3, <1>4, <1>5, <1>6 DEF Good
<1>. QED
  BY <1>0, <1>7, Zenon

\* A ready movement starts.
LEMMA MovementStartedGood ==
    ASSUME NEW s, NEW m \in Movements, Good(s), MovementStartedOk(s, m)
    PROVE  Good(MovementStarted(s, m))
<1>. s \in Projections /\ AttemptInv(s) /\ MovementInv(s) /\ RunInv(s) /\ PaidInv(s) /\ PhaseInv(s)
  BY DEF Good
<1> DEFINE t == [s EXCEPT !.mov[m] = "RUNNING"]
<1>0. MovementStarted(s, m) = t
  BY DEF MovementStarted
<1>1. t \in Projections
  BY DEF MovementStartedOk
<1>2. AttemptInv(t)
  BY DEF MovementStartedOk, AttemptInv, GateRequired
<1>3. MovementInv(t)
  BY DEF MovementStartedOk, MovementInv, Underway, PendingDecision
<1>4. RunInv(t)
  BY DEF MovementStartedOk, RunInv, PendingDecision, Terminal
<1>5. PaidInv(t)
  BY DEF MovementStartedOk, PaidInv, OwesRetry, UnvisitedFallbacks
<1>6. PhaseInv(t)
  BY DEF MovementStartedOk, PhaseInv, CompositionTerminals, Settled, Owes, OwesRetry, OwesResume,
      PendingDecision
<1> HIDE DEF t
<1>7. Good(t)
  BY <1>1, <1>2, <1>3, <1>4, <1>5, <1>6 DEF Good
<1>. QED
  BY <1>0, <1>7, Zenon

\* A movement fails between its attempts.
LEMMA MovementFailedGood ==
    ASSUME NEW s, NEW m \in Movements, Good(s), s.mov[m] = "RUNNING",
           m \notin CompositionTerminals(s), ~PendingDecision(s), ~Underway(s) \/ m # s.att.mov
    PROVE  Good(MovementFailed(s, m, FALSE))
<1>. s \in Projections /\ AttemptInv(s) /\ MovementInv(s) /\ RunInv(s) /\ PaidInv(s) /\ PhaseInv(s)
  BY DEF Good
<1> DEFINE t == [s EXCEPT !.mov[m] = "FAILED"]
<1>a. MovementFailed(s, m, FALSE) = [s EXCEPT !.mov[m] = "FAILED", !.att = s.att]
  <2>1. [s.att EXCEPT !.failedHere = (@ \/ FALSE)] = s.att
    OBVIOUS
  <2>. QED
    BY <2>1 DEF MovementFailed
<1>b. [s EXCEPT !.mov[m] = "FAILED", !.att = s.att] = t
  OBVIOUS
<1>0. MovementFailed(s, m, FALSE) = t
  BY <1>a, <1>b
<1>1. t \in Projections
  OBVIOUS
<1>2. AttemptInv(t)
  BY DEF AttemptInv, GateRequired, PendingDecision, Underway
<1>3. MovementInv(t)
  BY DEF MovementInv, Underway, PendingDecision
<1>4. RunInv(t)
  BY DEF RunInv, PendingDecision, Terminal
<1>5. PaidInv(t)
  BY DEF PaidInv, OwesRetry, UnvisitedFallbacks
<1>6. PhaseInv(t)
  BY DEF PhaseInv, CompositionTerminals, Settled, Owes, OwesRetry, OwesResume, PendingDecision
<1> HIDE DEF t
<1>7. Good(t)
  BY <1>1, <1>2, <1>3, <1>4, <1>5, <1>6 DEF Good
<1>. QED
  BY <1>0, <1>7, Zenon

\* A movement fails with its latest attempt.
LEMMA AttemptEndsMovementGood ==
    ASSUME NEW s, Good(s), s.att.mov \in Movements, s.mov[s.att.mov] = "RUNNING", Calm(s),
           s.open.phase = "none", s.att.state = "FAILED"
    PROVE  Good(MovementFailed(s, s.att.mov, TRUE))
<1>. s \in Projections /\ AttemptInv(s) /\ MovementInv(s) /\ RunInv(s) /\ PaidInv(s) /\ PhaseInv(s)
  BY DEF Good
<1> DEFINE t == [s EXCEPT !.mov[s.att.mov] = "FAILED", !.att.failedHere = TRUE]
<1>0. MovementFailed(s, s.att.mov, TRUE) = t
  BY DEF MovementFailed
<1>1. t \in Projections
  BY DEF Calm
<1>2. AttemptInv(t)
  BY ZenonT(40) DEF Calm, AttemptInv, GateRequired
<1>3. MovementInv(t)
  BY DEF Calm, MovementInv, Underway, PendingDecision
<1>4. RunInv(t)
  BY DEF Calm, RunInv, PendingDecision, Terminal
<1>5. PaidInv(t)
  BY DEF Calm, PaidInv, OwesRetry, UnvisitedFallbacks
<1>6. PhaseInv(t)
  BY DEF Calm, PhaseInv, CompositionTerminals, Settled, Owes, OwesRetry, OwesResume,
      PendingDecision
<1> HIDE DEF t
<1>7. Good(t)
  BY <1>1, <1>2, <1>3, <1>4, <1>5, <1>6 DEF Good
<1>. QED
  BY <1>0, <1>7, Zenon

\* The candidate is recorded.
LEMMA CandidateRecordedGood ==
    ASSUME NEW s, Good(s), ~GateWaived
    PROVE  Good(CandidateRecorded(s))
<1>. s \in Projections /\ AttemptInv(s) /\ MovementInv(s) /\ RunInv(s) /\ PaidInv(s) /\ PhaseInv(s)
  BY DEF Good
<1> DEFINE t == [s EXCEPT !.candidate = TRUE]
<1>0. CandidateRecorded(s) = t
  BY DEF CandidateRecorded
<1>1. t \in Projections
  BY DEF GateWaived
<1>2. AttemptInv(t)
  BY DEF GateWaived, AttemptInv, GateRequired
<1>3. MovementInv(t)
  BY DEF GateWaived, MovementInv, Underway, PendingDecision
<1>4. RunInv(t)
  BY DEF GateWaived, RunInv, PendingDecision, Terminal
<1>5. PaidInv(t)
  BY DEF GateWaived, PaidInv, OwesRetry, UnvisitedFallbacks
<1>6. PhaseInv(t)
  BY DEF GateWaived, PhaseInv, CompositionTerminals, Settled, Owes, OwesRetry, OwesResume,
      PendingDecision
<1> HIDE DEF t
<1>7. Good(t)
  BY <1>1, <1>2, <1>3, <1>4, <1>5, <1>6 DEF Good
<1>. QED
  BY <1>0, <1>7, Zenon

\* Evidence of a conflict is recorded between attempts.
LEMMA CompositionEvidenceGood ==
    ASSUME NEW s, NEW g \in 0 .. N, Good(s), Between(s), g # 0 => s.mov[g] = "RUNNING"
    PROVE  Good(CompositionEvidence(s, g))
<1>. s \in Projections /\ AttemptInv(s) /\ MovementInv(s) /\ RunInv(s) /\ PaidInv(s) /\ PhaseInv(s)
  BY DEF Good
<1> DEFINE t == [s EXCEPT !.evidence = @ \cup {g}]
<1>0. CompositionEvidence(s, g) = t
  BY DEF CompositionEvidence
<1>1. t \in Projections
  BY DEF Between, Calm
<1>2. AttemptInv(t)
  BY DEF Between, Calm, AttemptInv, GateRequired
<1>3. MovementInv(t)
  BY DEF Between, Calm, MovementInv, Underway, PendingDecision
<1>4. RunInv(t)
  BY DEF Between, Calm, RunInv, PendingDecision, Terminal
<1>5. PaidInv(t)
  BY DEF Between, Calm, PaidInv, OwesRetry, UnvisitedFallbacks
<1>6. PhaseInv(t)
  BY DEF Between, Calm, PhaseInv, CompositionTerminals, Settled, Owes, OwesRetry, OwesResume,
      PendingDecision
<1> HIDE DEF t
<1>7. Good(t)
  BY <1>1, <1>2, <1>3, <1>4, <1>5, <1>6 DEF Good
<1>. QED
  BY <1>0, <1>7, Zenon

\* The consequence of evidence is recorded.
LEMMA TerminalizedGood ==
    ASSUME NEW s, NEW g \in s.evidence, Good(s)
    PROVE  Good([s EXCEPT !.terminalized = @ \cup {g}])
<1>. s \in Projections /\ AttemptInv(s) /\ MovementInv(s) /\ RunInv(s) /\ PaidInv(s) /\ PhaseInv(s)
  BY DEF Good
<1> DEFINE t == [s EXCEPT !.terminalized = @ \cup {g}]
<1>0. [s EXCEPT !.terminalized = @ \cup {g}] = t
  BY DEF t
<1>1. t \in Projections
  BY DEF Terminal
<1>2. AttemptInv(t)
  BY DEF Terminal, AttemptInv, GateRequired
<1>3. MovementInv(t)
  BY DEF Terminal, MovementInv, Underway, PendingDecision
<1>4. RunInv(t)
  BY DEF Terminal, RunInv, PendingDecision, Terminal
<1>5. PaidInv(t)
  BY DEF Terminal, PaidInv, OwesRetry, UnvisitedFallbacks
<1>6. PhaseInv(t)
  BY DEF Terminal, PhaseInv, CompositionTerminals, Settled, Owes, OwesRetry, OwesResume,
      PendingDecision
<1> HIDE DEF t
<1>7. Good(t)
  BY <1>1, <1>2, <1>3, <1>4, <1>5, <1>6 DEF Good
<1>. QED
  BY <1>0, <1>7, Zenon

\* An interval opens for the work under way.
LEMMA ExecutionStartedGood ==
    ASSUME NEW s, NEW phase \in {"composition", "adapter", "acceptance"}, NEW rem \in Nat,
           Good(s), Calm(s), s.open.phase = "none",
           phase = "composition" => Settled(s) \/ Owes(s),
           phase = "adapter" => s.att.state = "STARTING",
           phase = "acceptance" => s.att.state = "VERIFYING" /\ s.att.verified
    PROVE  Good(ExecutionStarted(s, phase, rem))
<1>. s \in Projections /\ AttemptInv(s) /\ MovementInv(s) /\ RunInv(s) /\ PaidInv(s) /\ PhaseInv(s)
  BY DEF Good
<1> DEFINE t == [s EXCEPT !.open = [phase |-> phase, rem |-> rem, cp |-> 0]]
<1>0. ExecutionStarted(s, phase, rem) = t
  BY DEF ExecutionStarted
<1>1. t \in Projections
  BY DEF Calm
<1>2. AttemptInv(t)
  BY DEF Calm, AttemptInv, GateRequired
<1>3. MovementInv(t)
  BY DEF Calm, MovementInv, Underway, PendingDecision
<1>4. RunInv(t)
  BY DEF Calm, RunInv, PendingDecision, Terminal
<1>5. PaidInv(t)
  BY DEF Calm, PaidInv, OwesRetry, UnvisitedFallbacks
<1>6. PhaseInv(t)
  BY DEF Calm, PhaseInv, CompositionTerminals, Settled, Owes, OwesRetry, OwesResume,
      PendingDecision
<1> HIDE DEF t
<1>7. Good(t)
  BY <1>1, <1>2, <1>3, <1>4, <1>5, <1>6 DEF Good
<1>. QED
  BY <1>0, <1>7, Zenon

\* A checkpoint within the interval.
LEMMA CheckpointedGood ==
    ASSUME NEW s, NEW elapsed \in Nat, Good(s), elapsed <= s.open.rem
    PROVE  Good(Checkpointed(s, elapsed))
<1>. s \in Projections /\ AttemptInv(s) /\ MovementInv(s) /\ RunInv(s) /\ PaidInv(s) /\ PhaseInv(s)
  BY DEF Good
<1> DEFINE t == [s EXCEPT !.open.cp = elapsed]
<1>0. Checkpointed(s, elapsed) = t
  BY DEF Checkpointed
<1>1. t \in Projections
  OBVIOUS
<1>2. AttemptInv(t)
  BY DEF AttemptInv, GateRequired
<1>3. MovementInv(t)
  BY DEF MovementInv, Underway, PendingDecision
<1>4. RunInv(t)
  BY DEF RunInv, PendingDecision, Terminal
<1>5. PaidInv(t)
  BY DEF PaidInv, OwesRetry, UnvisitedFallbacks
<1>6. PhaseInv(t)
  BY DEF PhaseInv, CompositionTerminals, Settled, Owes, OwesRetry, OwesResume, PendingDecision
<1> HIDE DEF t
<1>7. Good(t)
  BY <1>1, <1>2, <1>3, <1>4, <1>5, <1>6 DEF Good
<1>. QED
  BY <1>0, <1>7, Zenon

\* A stop charges the run and closes the interval.
LEMMA ExecutionStoppedGood ==
    ASSUME NEW s, NEW charged \in Nat, NEW reason, Good(s)
    PROVE  Good(ExecutionStopped(s, charged, reason))
<1>. s \in Projections /\ AttemptInv(s) /\ MovementInv(s) /\ RunInv(s) /\ PaidInv(s) /\ PhaseInv(s)
  BY DEF Good
<1> DEFINE c == s.consumed + charged
           e == s.exhausted \/ reason = "budget_exhausted"
           x == s.recomposed \/ (reason = "recovered" /\ s.open.phase = "composition")
           t == [s EXCEPT !.consumed = c, !.open = NoInterval, !.exhausted = e, !.recomposed = x]
<1>a. /\ c \in Nat /\ e \in BOOLEAN /\ x \in BOOLEAN
      /\ NoInterval \in Intervals /\ NoInterval.phase = "none"
      /\ NoInterval.cp = 0 /\ NoInterval.rem = 0
  BY DEF NoInterval
<1> HIDE DEF c, e, x
<1>0. ExecutionStopped(s, charged, reason) = t
  BY DEF ExecutionStopped, c, e, x
<1>1. t \in Projections
  BY <1>a 
<1>2. AttemptInv(t)
  BY <1>a DEF AttemptInv, GateRequired
<1>3. MovementInv(t)
  BY <1>a DEF MovementInv, Underway, PendingDecision
<1>4. RunInv(t)
  BY <1>a DEF RunInv, PendingDecision, Terminal
<1>5. PaidInv(t)
  BY <1>a DEF PaidInv, OwesRetry, UnvisitedFallbacks
<1>6. PhaseInv(t)
  BY <1>a DEF PhaseInv, CompositionTerminals, Settled, Owes, OwesRetry, OwesResume,
      PendingDecision
<1> HIDE DEF t
<1>7. Good(t)
  BY <1>1, <1>2, <1>3, <1>4, <1>5, <1>6 DEF Good
<1>. QED
  BY <1>0, <1>7, Zenon

\* A run that fails between its intervals.
LEMMA RunFailedGood ==
    ASSUME NEW s, Good(s), Calm(s), s.open.phase = "none"
    PROVE  Good(RunFailed(s))
<1>. s \in Projections /\ AttemptInv(s) /\ MovementInv(s) /\ RunInv(s) /\ PaidInv(s) /\ PhaseInv(s)
  BY DEF Good
<1> DEFINE t == [s EXCEPT !.run = "FAILED"]
<1>a. s.run = "RUNNING" /\ ~PendingDecision(s) /\ CompositionTerminals(s) = {}
  BY DEF Calm
<1>0. RunFailed(s) = t
  BY <1>a, RunFailedEnds
<1>1. t \in Projections
  BY <1>a 
<1>2. AttemptInv(t)
  BY <1>a DEF AttemptInv, GateRequired
<1>3. MovementInv(t)
  BY <1>a DEF MovementInv, Underway, PendingDecision
<1>4. RunInv(t)
  BY <1>a DEF RunInv, PendingDecision, Terminal
<1>5. PaidInv(t)
  BY <1>a DEF PaidInv, OwesRetry, UnvisitedFallbacks
<1>6. PhaseInv(t)
  BY <1>a DEF PhaseInv, CompositionTerminals, Settled, Owes, OwesRetry, OwesResume,
      PendingDecision
<1> HIDE DEF t
<1>7. Good(t)
  BY <1>1, <1>2, <1>3, <1>4, <1>5, <1>6 DEF Good
<1>. QED
  BY <1>0, <1>7, Zenon

\* A run that waives its gate succeeds with its candidate.
LEMMA RunSucceededGood ==
    ASSUME NEW s, Good(s), Calm(s), s.open.phase = "none", GateWaived
    PROVE  Good(RunSucceeded(s))
<1>. s \in Projections /\ AttemptInv(s) /\ MovementInv(s) /\ RunInv(s) /\ PaidInv(s) /\ PhaseInv(s)
  BY DEF Good
<1> DEFINE t == [s EXCEPT !.run = "SUCCEEDED", !.candidate = TRUE]
<1>a. s.run = "RUNNING" /\ ~PendingDecision(s) /\ CompositionTerminals(s) = {}
  BY DEF Calm
<1>0. RunSucceeded(s) = t
  BY <1>a, RunSucceededEnds
<1>1. t \in Projections
  BY <1>a DEF GateWaived
<1>2. AttemptInv(t)
  BY <1>a DEF GateWaived, AttemptInv, GateRequired
<1>3. MovementInv(t)
  BY <1>a DEF GateWaived, MovementInv, Underway, PendingDecision
<1>4. RunInv(t)
  BY <1>a DEF GateWaived, RunInv, PendingDecision, Terminal
<1>5. PaidInv(t)
  BY <1>a DEF GateWaived, PaidInv, OwesRetry, UnvisitedFallbacks
<1>6. PhaseInv(t)
  BY <1>a DEF GateWaived, PhaseInv, CompositionTerminals, Settled, Owes, OwesRetry, OwesResume,
      PendingDecision
<1> HIDE DEF t
<1>7. Good(t)
  BY <1>1, <1>2, <1>3, <1>4, <1>5, <1>6 DEF Good
<1>. QED
  BY <1>0, <1>7, Zenon

\* A rejected gate ends the attempt and its movement.
LEMMA GateRejectedOtherGood ==
    ASSUME NEW s, Good(s), Calm(s), s.open.phase = "none", s.att.state = "VERIFYING",
           s.att.mov \in Movements, s.mov[s.att.mov] = "RUNNING"
    PROVE  Good(GateRejected(s, s.att.mov, FALSE))
<1>. s \in Projections /\ AttemptInv(s) /\ MovementInv(s) /\ RunInv(s) /\ PaidInv(s) /\ PhaseInv(s)
  BY DEF Good
<1> DEFINE a == [s.att EXCEPT !.state = "FAILED", !.failedHere = TRUE]
           w == [s.mov EXCEPT ![s.att.mov] = "FAILED"]
           t == [s EXCEPT !.att = a, !.mov = w]
<1>a. s.run = "RUNNING" /\ ~PendingDecision(s) /\ CompositionTerminals(s) = {}
  BY DEF Calm
<1>b. [s EXCEPT !.run = s.run] = s
  OBVIOUS
<1>d. /\ a \in Attempts /\ a.mov = s.att.mov /\ a.perf = s.att.perf /\ a.state = "FAILED"
      /\ a.failedHere /\ a.succeededHere = s.att.succeededHere /\ a.gate = s.att.gate
      /\ a.pending = s.att.pending /\ a.asked = s.att.asked /\ a.raised = s.att.raised
      /\ a.changeSet = s.att.changeSet /\ a.verified = s.att.verified
      /\ a.accepting = s.att.accepting /\ a.passed = s.att.passed
      /\ a.inFlight = s.att.inFlight /\ a.verdict = s.att.verdict
      /\ a.evaluated = s.att.evaluated /\ a.outcome = s.att.outcome
  OBVIOUS
<1>e. /\ w \in [Movements -> MovementStates] /\ w[s.att.mov] = "FAILED"
      /\ \A m \in Movements \ {s.att.mov} : w[m] = s.mov[m]
  OBVIOUS
<1> HIDE DEF a, w
<1>0. GateRejected(s, s.att.mov, FALSE) = t
  <2>1. GateRejected(s, s.att.mov, FALSE) =
            [[s EXCEPT !.run = s.run] EXCEPT !.att.state = "FAILED", !.mov[s.att.mov] = "FAILED",
                                             !.att.failedHere = TRUE]
    BY DEF GateRejected
  <2>2. GateRejected(s, s.att.mov, FALSE) =
            [s EXCEPT !.att.state = "FAILED", !.mov[s.att.mov] = "FAILED", !.att.failedHere = TRUE]
    BY <1>b, <2>1
  <2>3. [s EXCEPT !.att.state = "FAILED", !.mov[s.att.mov] = "FAILED", !.att.failedHere = TRUE] = t
    BY DEF a, w
  <2>. QED
    BY <1>b, <2>1, <2>2, <2>3
<1>1. t \in Projections
  BY <1>a, <1>d, <1>e 
<1>2. AttemptInv(t)
  BY <1>a, <1>d, <1>e DEF AttemptInv, GateRequired, PendingDecision
<1>3. MovementInv(t)
  <2>1. /\ t.att = a /\ t.mov = w /\ t.run = s.run /\ t.candidate = s.candidate
        /\ t.selected = s.selected /\ t.visited = s.visited
    OBVIOUS
  <2> HIDE DEF t
  <2>2. \A m \in Movements :
          /\ t.mov[m] # "WAITING_HUMAN"
          /\ t.mov[m] = "RUNNING" /\ t.selected[m] > 0 => m = t.att.mov
          /\ t.mov[m] \in {"PENDING", "READY"} => t.selected[m] = 0
          /\ t.selected[m] = 0 => t.visited[m] = {}
    BY <1>a, <1>d, <1>e, <2>1 DEF MovementInv
  <2>3. \A m \in Movements : t.mov[m] # "PENDING" =>
            (\A k \in Needs[m] : t.mov[k] = "SUCCEEDED") /\ (m = Final => t.candidate)
    BY <1>a, <1>d, <1>e, <2>1, NeedsAreMovements DEF MovementInv
  <2>4. ~Underway(t) /\ ~PendingDecision(t)
    BY <1>a, <1>d, <2>1 DEF Underway, PendingDecision
  <2>5. Final # 0 => t.mov[Final] # "SUCCEEDED"
    BY <1>a, <1>e, <2>1, FinalIsMovement DEF MovementInv
  <2>6. t.selected[t.att.mov] > 0 /\ ~(GateWaived /\ t.candidate)
    BY <1>a, <1>d, <2>1 DEF MovementInv
  <2>7. t.mov[t.att.mov] = "FAILED"
    BY <1>d, <1>e, <2>1
  <2>. QED
    BY <2>2, <2>3, <2>4, <2>5, <2>6, <2>7 DEF MovementInv
<1>4. RunInv(t)
  BY <1>a, <1>d, <1>e DEF RunInv, PendingDecision, Terminal
<1>5. PaidInv(t)
  BY <1>a, <1>d, <1>e DEF PaidInv, OwesRetry, UnvisitedFallbacks
<1>6. PhaseInv(t)
  BY <1>a, <1>d, <1>e DEF PhaseInv, CompositionTerminals, Settled, Owes, OwesRetry, OwesResume,
      PendingDecision
<1> HIDE DEF t
<1>7. Good(t)
  BY <1>1, <1>2, <1>3, <1>4, <1>5, <1>6 DEF Good
<1>. QED
  BY <1>0, <1>7, Zenon

\* A rejected gate ends the attempt and its movement, and the run.
LEMMA GateRejectedFinalGood ==
    ASSUME NEW s, Good(s), Calm(s), s.open.phase = "none", s.att.state = "VERIFYING",
           s.att.mov \in Movements, s.mov[s.att.mov] = "RUNNING"
    PROVE  Good(GateRejected(s, s.att.mov, TRUE))
<1>. s \in Projections /\ AttemptInv(s) /\ MovementInv(s) /\ RunInv(s) /\ PaidInv(s) /\ PhaseInv(s)
  BY DEF Good
<1> DEFINE a == [s.att EXCEPT !.state = "FAILED", !.failedHere = TRUE]
           w == [s.mov EXCEPT ![s.att.mov] = "FAILED"]
           t == [s EXCEPT !.run = "FAILED", !.att = a, !.mov = w]
<1>a. s.run = "RUNNING" /\ ~PendingDecision(s) /\ CompositionTerminals(s) = {}
  BY DEF Calm
<1> DEFINE u == [s EXCEPT !.run = "FAILED"]
<1>b. u \in Projections /\ Terminal(u) /\ ~PendingDecision(u)
  BY <1>a DEF Terminal, PendingDecision
<1>c. CloseAllPendingDecisions(u) = u
  BY <1>b, NothingToClose
<1>d. /\ a \in Attempts /\ a.mov = s.att.mov /\ a.perf = s.att.perf /\ a.state = "FAILED"
      /\ a.failedHere /\ a.succeededHere = s.att.succeededHere /\ a.gate = s.att.gate
      /\ a.pending = s.att.pending /\ a.asked = s.att.asked /\ a.raised = s.att.raised
      /\ a.changeSet = s.att.changeSet /\ a.verified = s.att.verified
      /\ a.accepting = s.att.accepting /\ a.passed = s.att.passed
      /\ a.inFlight = s.att.inFlight /\ a.verdict = s.att.verdict
      /\ a.evaluated = s.att.evaluated /\ a.outcome = s.att.outcome
  OBVIOUS
<1>e. /\ w \in [Movements -> MovementStates] /\ w[s.att.mov] = "FAILED"
      /\ \A m \in Movements \ {s.att.mov} : w[m] = s.mov[m]
  OBVIOUS
<1> HIDE DEF a, w
<1>0. GateRejected(s, s.att.mov, TRUE) = t
  BY <1>c DEF GateRejected, a, w
<1>1. t \in Projections
  BY <1>a, <1>d, <1>e 
<1>2. AttemptInv(t)
  BY <1>a, <1>d, <1>e DEF AttemptInv, GateRequired, PendingDecision
<1>3. MovementInv(t)
  <2>1. /\ t.att = a /\ t.mov = w /\ t.run = "FAILED" /\ t.candidate = s.candidate
        /\ t.selected = s.selected /\ t.visited = s.visited
    OBVIOUS
  <2> HIDE DEF t
  <2>2. \A m \in Movements :
          /\ t.mov[m] # "WAITING_HUMAN"
          /\ t.mov[m] = "RUNNING" /\ t.selected[m] > 0 => m = t.att.mov
          /\ t.mov[m] \in {"PENDING", "READY"} => t.selected[m] = 0
          /\ t.selected[m] = 0 => t.visited[m] = {}
    BY <1>a, <1>d, <1>e, <2>1 DEF MovementInv
  <2>3. \A m \in Movements : t.mov[m] # "PENDING" =>
            (\A k \in Needs[m] : t.mov[k] = "SUCCEEDED") /\ (m = Final => t.candidate)
    BY <1>a, <1>d, <1>e, <2>1, NeedsAreMovements DEF MovementInv
  <2>4. ~Underway(t) /\ ~PendingDecision(t)
    BY <1>a, <1>d, <2>1 DEF Underway, PendingDecision
  <2>5. Final # 0 => t.mov[Final] # "SUCCEEDED"
    BY <1>a, <1>e, <2>1, FinalIsMovement DEF MovementInv
  <2>6. t.selected[t.att.mov] > 0 /\ ~(GateWaived /\ t.candidate)
    BY <1>a, <1>d, <2>1 DEF MovementInv
  <2>7. t.mov[t.att.mov] = "FAILED"
    BY <1>d, <1>e, <2>1
  <2>. QED
    BY <2>2, <2>3, <2>4, <2>5, <2>6, <2>7 DEF MovementInv
<1>4. RunInv(t)
  BY <1>a, <1>d, <1>e DEF RunInv, PendingDecision, Terminal
<1>5. PaidInv(t)
  BY <1>a, <1>d, <1>e DEF PaidInv, OwesRetry, UnvisitedFallbacks
<1>6. PhaseInv(t)
  BY <1>a, <1>d, <1>e DEF PhaseInv, CompositionTerminals, Settled, Owes, OwesRetry, OwesResume,
      PendingDecision
<1> HIDE DEF t
<1>7. Good(t)
  BY <1>1, <1>2, <1>3, <1>4, <1>5, <1>6 DEF Good
<1>. QED
  BY <1>0, <1>7, Zenon

\* The success of a movement that is not final.
LEMMA MovementSucceededOtherGood ==
    ASSUME NEW s, Good(s), Calm(s), s.open.phase = "none", s.att.state = "COMPLETED",
           ~s.att.succeededHere, s.att.mov \in Movements, s.mov[s.att.mov] = "RUNNING",
           s.att.mov # Final
    PROVE  Good(MovementSucceeded(s, s.att.mov, FALSE))
<1>. s \in Projections /\ AttemptInv(s) /\ MovementInv(s) /\ RunInv(s) /\ PaidInv(s) /\ PhaseInv(s)
  BY DEF Good
<1> DEFINE t == [s EXCEPT !.mov[s.att.mov] = "SUCCEEDED", !.att.succeededHere = TRUE]
<1>a. s.run = "RUNNING" /\ ~PendingDecision(s) /\ CompositionTerminals(s) = {}
  BY DEF Calm
<1>0. MovementSucceeded(s, s.att.mov, FALSE) = t
  BY DEF MovementSucceeded
<1>1. t \in Projections
  BY <1>a 
<1>2. AttemptInv(t)
  BY <1>a, ZenonT(40) DEF AttemptInv, GateRequired
<1>3. MovementInv(t)
  BY <1>a DEF MovementInv, Underway, PendingDecision
<1>4. RunInv(t)
  BY <1>a DEF RunInv, PendingDecision, Terminal
<1>5. PaidInv(t)
  BY <1>a DEF PaidInv, OwesRetry, UnvisitedFallbacks
<1>6. PhaseInv(t)
  BY <1>a DEF PhaseInv, CompositionTerminals, Settled, Owes, OwesRetry, OwesResume,
      PendingDecision
<1> HIDE DEF t
<1>7. Good(t)
  BY <1>1, <1>2, <1>3, <1>4, <1>5, <1>6 DEF Good
<1>. QED
  BY <1>0, <1>7, Zenon

\* The success of a movement that is final ends the run.
LEMMA MovementSucceededFinalGood ==
    ASSUME NEW s, Good(s), Calm(s), s.open.phase = "none", s.att.state = "COMPLETED",
           ~s.att.succeededHere, s.att.mov \in Movements, s.mov[s.att.mov] = "RUNNING",
           s.att.mov = Final
    PROVE  Good(MovementSucceeded(s, s.att.mov, TRUE))
<1>. s \in Projections /\ AttemptInv(s) /\ MovementInv(s) /\ RunInv(s) /\ PaidInv(s) /\ PhaseInv(s)
  BY DEF Good
<1> DEFINE t == [s EXCEPT !.run = "SUCCEEDED", !.mov[s.att.mov] = "SUCCEEDED",
                          !.att.succeededHere = TRUE]
<1>a. s.run = "RUNNING" /\ ~PendingDecision(s) /\ CompositionTerminals(s) = {}
  BY DEF Calm
<1> DEFINE u == [s EXCEPT !.mov[s.att.mov] = "SUCCEEDED", !.att.succeededHere = TRUE,
                          !.run = "SUCCEEDED"]
<1>b. u \in Projections /\ Terminal(u) /\ ~PendingDecision(u)
  BY <1>a DEF Terminal, PendingDecision
<1>c. CloseAllPendingDecisions(u) = u
  BY <1>b, NothingToClose, ZenonT(40)
<1>0. MovementSucceeded(s, s.att.mov, TRUE) = t
  BY <1>c DEF MovementSucceeded
<1>1. t \in Projections
  BY <1>a 
<1>2. AttemptInv(t)
  BY <1>a, ZenonT(40) DEF AttemptInv, GateRequired
<1>3. MovementInv(t)
  BY <1>a DEF MovementInv, Underway, PendingDecision
<1>4. RunInv(t)
  BY <1>a DEF RunInv, PendingDecision, Terminal
<1>5. PaidInv(t)
  BY <1>a DEF PaidInv, OwesRetry, UnvisitedFallbacks
<1>6. PhaseInv(t)
  BY <1>a DEF PhaseInv, CompositionTerminals, Settled, Owes, OwesRetry, OwesResume,
      PendingDecision
<1> HIDE DEF t
<1>7. Good(t)
  BY <1>1, <1>2, <1>3, <1>4, <1>5, <1>6 DEF Good
<1>. QED
  BY <1>0, <1>7, Zenon

\* What a change of its decisions leaves of an attempt.
SameAttempt(a, b) ==
    /\ a.mov = b.mov /\ a.perf = b.perf /\ a.state = b.state /\ a.probed = b.probed
    /\ a.changeSet = b.changeSet /\ a.verified = b.verified /\ a.accepting = b.accepting
    /\ a.passed = b.passed /\ a.inFlight = b.inFlight /\ a.verdict = b.verdict
    /\ a.evaluated = b.evaluated /\ a.outcome = b.outcome /\ a.raised = b.raised
    /\ a.disposition = b.disposition /\ a.failedHere = b.failedHere
    /\ a.succeededHere = b.succeededHere

Waits(a) == a.pending > 0 \/ a.gate = "pending"

\* A decision holds the attempt's movement and the run together, or frees both.
LEMMA DecisionGood ==
    ASSUME NEW s, NEW a \in Attempts, NEW r \in {"RUNNING", "WAITING_HUMAN"}, Good(s),
           ~Terminal(s), s.att.mov \in Movements,
           s.mov[s.att.mov] \in {"RUNNING", "WAITING_HUMAN"},
           s.att.state \in {"BLOCKED", "VERIFYING"}, s.open.phase = "none",
           CompositionTerminals(s) = {}, SameAttempt(a, s.att), a.pending <= a.asked,
           a.asked <= a.raised, a.gate = "pending" => s.att.state = "VERIFYING",
           a.gate # "none" => s.att.evaluated /\ GateRequired(s),
           r = "WAITING_HUMAN" <=> Waits(a)
    PROVE  Good([s EXCEPT !.run = r, !.att = a, !.mov[s.att.mov] = r])
<1>. s \in Projections /\ AttemptInv(s) /\ MovementInv(s) /\ RunInv(s) /\ PaidInv(s) /\ PhaseInv(s)
  BY DEF Good
<1> DEFINE w == [s.mov EXCEPT ![s.att.mov] = r]
           t == [s EXCEPT !.run = r, !.att = a, !.mov = w]
<1>a. /\ w \in [Movements -> MovementStates] /\ w[s.att.mov] = r
      /\ \A m \in Movements \ {s.att.mov} : w[m] = s.mov[m]
  OBVIOUS
<1> HIDE DEF w
<1>1. t \in Projections
  BY <1>a, ZenonT(40)
<1>b. /\ t.att = a /\ t.mov = w /\ t.run = r /\ t.candidate = s.candidate
      /\ t.selected = s.selected /\ t.visited = s.visited /\ t.resumed = s.resumed
      /\ t.retries = s.retries /\ t.open = s.open /\ t.evidence = s.evidence
      /\ t.terminalized = s.terminalized
  OBVIOUS
<1>c. (PendingDecision(t) <=> r = "WAITING_HUMAN") /\ ~Terminal(t)
  BY <1>b DEF PendingDecision, Terminal, Waits
<1> HIDE DEF t
<1>2. AttemptInv(t)
  <2>1. GateRequired(s) => GateRequired(t)
    BY <1>b DEF GateRequired, SameAttempt
  <2>2. /\ t.att.pending <= t.att.asked /\ t.att.asked <= t.att.raised
        /\ t.att.raised > 0 => t.att.state = "BLOCKED"
    BY <1>b DEF AttemptInv, SameAttempt
  <2>3. /\ t.att.gate = "pending" => t.att.state = "VERIFYING"
        /\ t.att.gate # "none" => t.att.evaluated /\ GateRequired(t)
        /\ t.att.state \notin {"NONE", "COMPLETED", "FAILED"}
    BY <1>b, <2>1 DEF SameAttempt
  <2>4. SameAttempt(t.att, s.att)
    BY <1>b
  <2>. QED
    BY <2>2, <2>3, <2>4 DEF AttemptInv, SameAttempt
<1>3. MovementInv(t)
  <2>1. \A m \in Movements :
          /\ t.mov[m] = "WAITING_HUMAN" => m = t.att.mov /\ PendingDecision(t)
          /\ t.mov[m] \in {"RUNNING", "WAITING_HUMAN"} /\ t.selected[m] > 0 => m = t.att.mov
          /\ t.mov[m] \in {"PENDING", "READY"} => t.selected[m] = 0
          /\ t.selected[m] = 0 => t.visited[m] = {}
    BY <1>a, <1>b, <1>c DEF MovementInv, SameAttempt
  <2>2. \A m \in Movements : t.mov[m] # "PENDING" =>
            (\A k \in Needs[m] : t.mov[k] = "SUCCEEDED") /\ (m = Final => t.candidate)
    BY <1>a, <1>b, NeedsAreMovements DEF MovementInv
  <2>3. Final # 0 => t.mov[Final] # "SUCCEEDED"
    BY <1>a, <1>b, FinalIsMovement DEF MovementInv, Terminal
  <2>4. t.selected[t.att.mov] > 0 /\ ~(GateWaived /\ t.candidate)
    BY <1>b DEF MovementInv, Terminal, SameAttempt
  <2>. QED
    BY <1>a, <1>b, <1>c, <2>1, <2>2, <2>3, <2>4 DEF MovementInv, SameAttempt
<1>4. RunInv(t)
  BY <1>b, <1>c DEF RunInv, Terminal
<1>5. PaidInv(t)
  BY <1>b DEF PaidInv, OwesRetry, UnvisitedFallbacks, SameAttempt
<1>6. PhaseInv(t)
  BY <1>b DEF PhaseInv, CompositionTerminals
<1>7. Good(t)
  BY <1>1, <1>2, <1>3, <1>4, <1>5, <1>6 DEF Good
<1>. QED
  BY <1>7 DEF t, w

\* A question of a blocked attempt holds its movement and the run.
LEMMA QuestionRequestedGood ==
    ASSUME NEW s, Good(s), QuestionRequestedOk(s), ~Terminal(s), s.open.phase = "none",
           CompositionTerminals(s) = {}, s.mov[s.att.mov] \in {"RUNNING", "WAITING_HUMAN"}
    PROVE  Good(QuestionRequested(s))
<1>. s \in Projections /\ AttemptInv(s) /\ MovementInv(s) /\ RunInv(s) /\ PaidInv(s) /\ PhaseInv(s)
  BY DEF Good
<1> DEFINE a == [s.att EXCEPT !.asked = s.att.asked + 1, !.pending = s.att.pending + 1]
           u == [s EXCEPT !.att = a]
<1>a. /\ s.att.mov \in Movements /\ s.att.state = "BLOCKED" /\ s.att.asked < s.att.raised
      /\ s.att.pending <= s.att.asked /\ s.att.gate # "pending"
      /\ s.att.gate # "none" => s.att.evaluated /\ GateRequired(s)
  BY DEF AttemptInv, QuestionRequestedOk
<1>b. /\ s.att.asked + 1 \in Nat /\ s.att.pending + 1 \in Nat
      /\ s.att.asked + 1 <= s.att.raised /\ s.att.pending + 1 > 0
      /\ s.att.pending + 1 <= s.att.asked + 1
  BY <1>a
<1>c. /\ a \in Attempts /\ a.pending = s.att.pending + 1 /\ a.asked = s.att.asked + 1
      /\ a.gate = s.att.gate /\ a.raised = s.att.raised
  BY <1>b
<1>1. /\ ~Terminal(s) /\ s.att.mov \in Movements /\ a \in Attempts
      /\ s.att.state \in {"BLOCKED", "VERIFYING"} /\ s.open.phase = "none"
      /\ CompositionTerminals(s) = {} /\ s.mov[s.att.mov] \in {"RUNNING", "WAITING_HUMAN"}
      /\ a.pending <= a.asked /\ a.asked <= a.raised /\ a.pending > 0 /\ a.gate # "pending"
      /\ a.gate # "none" => s.att.evaluated /\ GateRequired(s)
  BY <1>a, <1>b, <1>c
<1>2. u \in Projections /\ u.run = s.run /\ u.mov = s.mov /\ u.att = a
  BY <1>1, ZenonT(40)
<1>3. SameAttempt(a, s.att)
  BY DEF SameAttempt
<1>4. QuestionRequested(s) = RefreshWaitingHuman(u)
  BY ZenonT(40) DEF QuestionRequested
<1> HIDE DEF a, u
<1>5. /\ u.att.mov = s.att.mov /\ ~Terminal(u) /\ PendingDecision(u)
      /\ u.mov[u.att.mov] \in {"RUNNING", "WAITING_HUMAN"}
  BY <1>1, <1>2, <1>3 DEF SameAttempt, PendingDecision, Terminal
<1>6. RefreshWaitingHuman(u) =
          [u EXCEPT !.run = "WAITING_HUMAN", !.mov[u.att.mov] = "WAITING_HUMAN"]
  BY <1>1, <1>2, <1>5, RefreshHolds
<1>7. [u EXCEPT !.run = "WAITING_HUMAN", !.mov[u.att.mov] = "WAITING_HUMAN"] =
          [s EXCEPT !.run = "WAITING_HUMAN", !.att = a, !.mov[s.att.mov] = "WAITING_HUMAN"]
  BY <1>5 DEF u
<1>8. Waits(a)
  BY <1>1 DEF Waits
<1>9. Good([s EXCEPT !.run = "WAITING_HUMAN", !.att = a, !.mov[s.att.mov] = "WAITING_HUMAN"])
  <2> DEFINE r == "WAITING_HUMAN"
  <2>1. r \in {"RUNNING", "WAITING_HUMAN"} /\ (r = "WAITING_HUMAN" <=> Waits(a))
    BY <1>8
  <2>2. /\ a.gate = "pending" => s.att.state = "VERIFYING"
        /\ a.gate # "none" => s.att.evaluated /\ GateRequired(s)
        /\ s.mov[s.att.mov] \in {"RUNNING", "WAITING_HUMAN"}
        /\ s.att.state \in {"BLOCKED", "VERIFYING"}
    BY <1>1
  <2> HIDE DEF r
  <2>3. Good([s EXCEPT !.run = r, !.att = a, !.mov[s.att.mov] = r])
    BY <1>1, <1>3, <2>1, <2>2, DecisionGood
  <2>. QED
    BY <2>3 DEF r
<1>. QED
  BY <1>4, <1>6, <1>7, <1>9

\* The human gate holds its movement and the run.
LEMMA GateRequestedGood ==
    ASSUME NEW s, Good(s), Calm(s), s.att.state = "VERIFYING", s.att.evaluated, GateRequired(s),
           s.open.phase = "none"
    PROVE  Good(GateRequested(s))
<1>. s \in Projections /\ AttemptInv(s) /\ MovementInv(s) /\ RunInv(s) /\ PaidInv(s) /\ PhaseInv(s)
  BY DEF Good
<1> DEFINE a == [s.att EXCEPT !.gate = "pending"]
           u == [s EXCEPT !.att = a]
<1>a. /\ a \in Attempts /\ a.gate = "pending" /\ a.pending = s.att.pending
      /\ a.asked = s.att.asked /\ a.raised = s.att.raised
  OBVIOUS
<1>1. /\ ~Terminal(s) /\ s.att.mov \in Movements /\ a \in Attempts
      /\ s.att.state = "VERIFYING" /\ s.open.phase = "none" /\ CompositionTerminals(s) = {}
      /\ s.mov[s.att.mov] \in {"RUNNING", "WAITING_HUMAN"}
      /\ a.pending <= a.asked /\ a.asked <= a.raised /\ a.gate = "pending"
  BY <1>a DEF AttemptInv, MovementInv, Underway, Calm, Terminal
<1>2. u \in Projections /\ u.run = s.run /\ u.mov = s.mov /\ u.att = a
  BY <1>1, ZenonT(40)
<1>3. SameAttempt(a, s.att)
  BY DEF SameAttempt
<1>4. GateRequested(s) = RefreshWaitingHuman(u)
  BY DEF GateRequested
<1> HIDE DEF a, u
<1>5. /\ u.att.mov = s.att.mov /\ ~Terminal(u) /\ PendingDecision(u)
      /\ u.mov[u.att.mov] \in {"RUNNING", "WAITING_HUMAN"}
  BY <1>1, <1>2, <1>3 DEF SameAttempt, PendingDecision, Terminal
<1>6. RefreshWaitingHuman(u) =
          [u EXCEPT !.run = "WAITING_HUMAN", !.mov[u.att.mov] = "WAITING_HUMAN"]
  BY <1>1, <1>2, <1>5, RefreshHolds
<1>7. [u EXCEPT !.run = "WAITING_HUMAN", !.mov[u.att.mov] = "WAITING_HUMAN"] =
          [s EXCEPT !.run = "WAITING_HUMAN", !.att = a, !.mov[s.att.mov] = "WAITING_HUMAN"]
  BY <1>5 DEF u
<1>8. Waits(a)
  BY <1>1 DEF Waits
<1>9. Good([s EXCEPT !.run = "WAITING_HUMAN", !.att = a, !.mov[s.att.mov] = "WAITING_HUMAN"])
  <2> DEFINE r == "WAITING_HUMAN"
  <2>1. r \in {"RUNNING", "WAITING_HUMAN"} /\ (r = "WAITING_HUMAN" <=> Waits(a))
    BY <1>8
  <2>2. /\ a.gate = "pending" => s.att.state = "VERIFYING"
        /\ a.gate # "none" => s.att.evaluated /\ GateRequired(s)
        /\ s.mov[s.att.mov] \in {"RUNNING", "WAITING_HUMAN"}
        /\ s.att.state \in {"BLOCKED", "VERIFYING"}
    BY <1>1
  <2> HIDE DEF r
  <2>3. Good([s EXCEPT !.run = r, !.att = a, !.mov[s.att.mov] = r])
    BY <1>1, <1>3, <2>1, <2>2, DecisionGood, ZenonT(40)
  <2>. QED
    BY <2>3 DEF r
<1>. QED
  BY <1>4, <1>6, <1>7, <1>9

\* An answer that is not the last one holds them still.
LEMMA QuestionResolvedHoldsGood ==
    ASSUME NEW s, Good(s), QuestionResolvedOk(s), s.att.pending > 1
    PROVE  Good(QuestionResolved(s))
<1>. s \in Projections /\ AttemptInv(s) /\ MovementInv(s) /\ RunInv(s) /\ PaidInv(s) /\ PhaseInv(s)
  BY DEF Good
<1> DEFINE a == [s.att EXCEPT !.pending = @ - 1]
           u == [s EXCEPT !.att = a]
<1>a. PendingDecision(s)
  BY DEF PendingDecision, QuestionResolvedOk
<1>b. ~Terminal(s) /\ s.run = "WAITING_HUMAN"
  BY <1>a DEF RunInv
<1>c. /\ s.att.mov \in Movements /\ s.att.state = "BLOCKED"
      /\ s.att.pending <= s.att.asked /\ s.att.asked <= s.att.raised
      /\ s.att.gate # "pending"
      /\ s.att.gate # "none" => s.att.evaluated /\ GateRequired(s)
  BY DEF AttemptInv, QuestionResolvedOk
<1>d. /\ s.mov[s.att.mov] = "WAITING_HUMAN" /\ s.open.phase = "none"
      /\ CompositionTerminals(s) = {}
      /\ \A m \in Movements : s.mov[m] = "WAITING_HUMAN" => m = s.att.mov
  BY <1>a, <1>b DEF MovementInv, PhaseInv
<1>e. /\ a \in Attempts /\ a.asked = s.att.asked /\ a.raised = s.att.raised
      /\ a.pending > 0 /\ a.pending <= s.att.asked /\ a.gate = s.att.gate
  BY <1>c
<1>1. /\ ~Terminal(s) /\ s.att.mov \in Movements /\ a \in Attempts
      /\ s.att.state = "BLOCKED" /\ s.open.phase = "none" /\ CompositionTerminals(s) = {}
      /\ s.mov[s.att.mov] = "WAITING_HUMAN"
      /\ \A m \in Movements : s.mov[m] = "WAITING_HUMAN" => m = s.att.mov
      /\ a.pending <= a.asked /\ a.asked <= a.raised
      /\ a.gate # "pending" /\ a.pending > 0
      /\ a.gate # "none" => s.att.evaluated /\ GateRequired(s)
  BY <1>b, <1>c, <1>d, <1>e
<1>2. u \in Projections /\ u.run = s.run /\ u.mov = s.mov /\ u.att = a
  BY <1>1, ZenonT(40)
<1>3. SameAttempt(a, s.att)
  BY DEF SameAttempt
<1>4. QuestionResolved(s) = RefreshWaitingHuman(u)
  BY DEF QuestionResolved
<1> HIDE DEF a, u
<1>5. /\ u.att.mov = s.att.mov /\ ~Terminal(u) /\ PendingDecision(u)
      /\ u.mov[u.att.mov] \in {"RUNNING", "WAITING_HUMAN"}
  BY <1>1, <1>2, <1>3 DEF SameAttempt, PendingDecision, Terminal
<1>6. RefreshWaitingHuman(u) =
          [u EXCEPT !.run = "WAITING_HUMAN", !.mov[u.att.mov] = "WAITING_HUMAN"]
  BY <1>1, <1>2, <1>5, RefreshHolds
<1>7. [u EXCEPT !.run = "WAITING_HUMAN", !.mov[u.att.mov] = "WAITING_HUMAN"] =
          [s EXCEPT !.run = "WAITING_HUMAN", !.att = a, !.mov[s.att.mov] = "WAITING_HUMAN"]
  BY <1>5 DEF u
<1>8. Waits(a)
  BY <1>1 DEF Waits
<1>9. Good([s EXCEPT !.run = "WAITING_HUMAN", !.att = a, !.mov[s.att.mov] = "WAITING_HUMAN"])
  <2> DEFINE r == "WAITING_HUMAN"
  <2>1. r \in {"RUNNING", "WAITING_HUMAN"} /\ (r = "WAITING_HUMAN" <=> Waits(a))
    BY <1>8
  <2>2. /\ a.gate = "pending" => s.att.state = "VERIFYING"
        /\ a.gate # "none" => s.att.evaluated /\ GateRequired(s)
        /\ s.mov[s.att.mov] \in {"RUNNING", "WAITING_HUMAN"}
        /\ s.att.state \in {"BLOCKED", "VERIFYING"}
    BY <1>1
  <2> HIDE DEF r
  <2>3. Good([s EXCEPT !.run = r, !.att = a, !.mov[s.att.mov] = r])
    BY <1>1, <1>3, <2>1, <2>2, DecisionGood
  <2>. QED
    BY <2>3 DEF r
<1>. QED
  BY <1>4, <1>6, <1>7, <1>9

\* The last answer frees them.
LEMMA QuestionResolvedFreesGood ==
    ASSUME NEW s, Good(s), QuestionResolvedOk(s), s.att.pending = 1
    PROVE  Good(QuestionResolved(s))
<1>. s \in Projections /\ AttemptInv(s) /\ MovementInv(s) /\ RunInv(s) /\ PaidInv(s) /\ PhaseInv(s)
  BY DEF Good
<1> DEFINE a == [s.att EXCEPT !.pending = @ - 1]
           u == [s EXCEPT !.att = a]
<1>a. PendingDecision(s)
  BY DEF PendingDecision, QuestionResolvedOk
<1>b. ~Terminal(s) /\ s.run = "WAITING_HUMAN"
  BY <1>a DEF RunInv
<1>c. /\ s.att.mov \in Movements /\ s.att.state = "BLOCKED"
      /\ s.att.pending <= s.att.asked /\ s.att.asked <= s.att.raised
      /\ s.att.gate # "pending"
      /\ s.att.gate # "none" => s.att.evaluated /\ GateRequired(s)
  BY DEF AttemptInv, QuestionResolvedOk
<1>d. /\ s.mov[s.att.mov] = "WAITING_HUMAN" /\ s.open.phase = "none"
      /\ CompositionTerminals(s) = {}
      /\ \A m \in Movements : s.mov[m] = "WAITING_HUMAN" => m = s.att.mov
  BY <1>a, <1>b DEF MovementInv, PhaseInv
<1>e. /\ a \in Attempts /\ a.asked = s.att.asked /\ a.raised = s.att.raised
      /\ a.pending = 0 /\ a.gate = s.att.gate
  BY <1>c
<1>1. /\ ~Terminal(s) /\ s.att.mov \in Movements /\ a \in Attempts
      /\ s.att.state = "BLOCKED" /\ s.open.phase = "none" /\ CompositionTerminals(s) = {}
      /\ s.mov[s.att.mov] = "WAITING_HUMAN"
      /\ \A m \in Movements : s.mov[m] = "WAITING_HUMAN" => m = s.att.mov
      /\ a.pending <= a.asked /\ a.asked <= a.raised
      /\ a.gate # "pending" /\ a.pending = 0
      /\ a.gate # "none" => s.att.evaluated /\ GateRequired(s)
  BY <1>b, <1>c, <1>d, <1>e
<1>2. u \in Projections /\ u.run = s.run /\ u.mov = s.mov /\ u.att = a
  BY <1>1, ZenonT(40)
<1>3. SameAttempt(a, s.att)
  BY DEF SameAttempt
<1>4. QuestionResolved(s) = RefreshWaitingHuman(u)
  BY DEF QuestionResolved
<1> HIDE DEF a, u
<1>5. /\ u.att.mov = s.att.mov /\ ~Terminal(u) /\ ~PendingDecision(u)
      /\ u.mov[u.att.mov] = "WAITING_HUMAN"
      /\ \A m \in Movements : u.mov[m] = "WAITING_HUMAN" => m = u.att.mov
  BY <1>1, <1>2, <1>3 DEF SameAttempt, PendingDecision, Terminal
<1>6. RefreshWaitingHuman(u) =
          [u EXCEPT !.run = "RUNNING", !.mov[u.att.mov] = "RUNNING"]
  BY <1>1, <1>2, <1>5, RefreshReleases, ZenonT(40)
<1>7. [u EXCEPT !.run = "RUNNING", !.mov[u.att.mov] = "RUNNING"] =
          [s EXCEPT !.run = "RUNNING", !.att = a, !.mov[s.att.mov] = "RUNNING"]
  BY <1>5 DEF u
<1>8. ~Waits(a)
  BY <1>1 DEF Waits
<1>9. Good([s EXCEPT !.run = "RUNNING", !.att = a, !.mov[s.att.mov] = "RUNNING"])
  <2> DEFINE r == "RUNNING"
  <2>1. r \in {"RUNNING", "WAITING_HUMAN"} /\ (r = "WAITING_HUMAN" <=> Waits(a))
    BY <1>8
  <2>2. /\ a.gate = "pending" => s.att.state = "VERIFYING"
        /\ a.gate # "none" => s.att.evaluated /\ GateRequired(s)
        /\ s.mov[s.att.mov] \in {"RUNNING", "WAITING_HUMAN"}
        /\ s.att.state \in {"BLOCKED", "VERIFYING"}
    BY <1>1
  <2> HIDE DEF r
  <2>3. Good([s EXCEPT !.run = r, !.att = a, !.mov[s.att.mov] = r])
    BY <1>1, <1>3, <2>1, <2>2, DecisionGood
  <2>. QED
    BY <2>3 DEF r
<1>. QED
  BY <1>4, <1>6, <1>7, <1>9

\* The answer to the human gate frees them.
LEMMA GateResolvedGood ==
    ASSUME NEW s, NEW d \in {"approved", "rejected"}, Good(s), GateResolvedOk(s)
    PROVE  Good(GateResolved(s, d))
<1>. s \in Projections /\ AttemptInv(s) /\ MovementInv(s) /\ RunInv(s) /\ PaidInv(s) /\ PhaseInv(s)
  BY DEF Good
<1> DEFINE a == [s.att EXCEPT !.gate = d]
           u == [s EXCEPT !.att = a]
<1>a. PendingDecision(s)
  BY DEF PendingDecision, GateResolvedOk
<1>b. ~Terminal(s) /\ s.run = "WAITING_HUMAN"
  BY <1>a DEF RunInv
<1>c. /\ s.att.mov \in Movements /\ s.att.state = "VERIFYING"
      /\ s.att.pending <= s.att.asked /\ s.att.asked <= s.att.raised
      /\ s.att.pending = 0 /\ s.att.evaluated /\ GateRequired(s)
  BY DEF AttemptInv, GateResolvedOk
<1>d. /\ s.mov[s.att.mov] = "WAITING_HUMAN" /\ s.open.phase = "none"
      /\ CompositionTerminals(s) = {}
      /\ \A m \in Movements : s.mov[m] = "WAITING_HUMAN" => m = s.att.mov
  BY <1>a, <1>b DEF MovementInv, PhaseInv
<1>e. /\ a \in Attempts /\ a.asked = s.att.asked /\ a.raised = s.att.raised
      /\ a.pending = s.att.pending /\ a.gate = d
  BY <1>c
<1>1. /\ ~Terminal(s) /\ s.att.mov \in Movements /\ a \in Attempts
      /\ s.att.state = "VERIFYING" /\ s.open.phase = "none" /\ CompositionTerminals(s) = {}
      /\ s.mov[s.att.mov] = "WAITING_HUMAN"
      /\ \A m \in Movements : s.mov[m] = "WAITING_HUMAN" => m = s.att.mov
      /\ a.pending <= a.asked /\ a.asked <= a.raised
      /\ a.gate = d /\ a.pending = 0 /\ s.att.evaluated /\ GateRequired(s)
  BY <1>b, <1>c, <1>d, <1>e
<1>2. u \in Projections /\ u.run = s.run /\ u.mov = s.mov /\ u.att = a
  BY <1>1
<1>3. SameAttempt(a, s.att)
  BY DEF SameAttempt
<1>4. GateResolved(s, d) = RefreshWaitingHuman(u)
  BY DEF GateResolved
<1> HIDE DEF a, u
<1>5. /\ u.att.mov = s.att.mov /\ ~Terminal(u) /\ ~PendingDecision(u)
      /\ u.mov[u.att.mov] = "WAITING_HUMAN"
      /\ \A m \in Movements : u.mov[m] = "WAITING_HUMAN" => m = u.att.mov
  BY <1>1, <1>2, <1>3 DEF SameAttempt, PendingDecision, Terminal
<1>6. RefreshWaitingHuman(u) =
          [u EXCEPT !.run = "RUNNING", !.mov[u.att.mov] = "RUNNING"]
  BY <1>1, <1>2, <1>5, RefreshReleases
<1>7. [u EXCEPT !.run = "RUNNING", !.mov[u.att.mov] = "RUNNING"] =
          [s EXCEPT !.run = "RUNNING", !.att = a, !.mov[s.att.mov] = "RUNNING"]
  BY <1>5 DEF u
<1>8. ~Waits(a)
  BY <1>1 DEF Waits
<1>9. Good([s EXCEPT !.run = "RUNNING", !.att = a, !.mov[s.att.mov] = "RUNNING"])
  <2> DEFINE r == "RUNNING"
  <2>1. r \in {"RUNNING", "WAITING_HUMAN"} /\ (r = "WAITING_HUMAN" <=> Waits(a))
    BY <1>8
  <2>2. /\ a.gate = "pending" => s.att.state = "VERIFYING"
        /\ a.gate # "none" => s.att.evaluated /\ GateRequired(s)
        /\ s.mov[s.att.mov] \in {"RUNNING", "WAITING_HUMAN"}
        /\ s.att.state \in {"BLOCKED", "VERIFYING"}
    BY <1>1
  <2> HIDE DEF r
  <2>3. Good([s EXCEPT !.run = r, !.att = a, !.mov[s.att.mov] = r])
    BY <1>1, <1>3, <2>1, <2>2, DecisionGood, ZenonT(40)
  <2>. QED
    BY <2>3 DEF r
<1>. QED
  BY <1>4, <1>6, <1>7, <1>9

\* What the attempt or composition under way is for.
GoalOk(s, g) ==
    \/ /\ g.reason = "initial" /\ Settled(s) /\ g.perf = Primary
       /\ g.mov \in Movements /\ s.mov[g.mov] = "RUNNING"
    \/ /\ g.reason \in {"quality_retry", "fallback"} /\ OwesRetry(s) /\ g.mov = s.att.mov
       /\ g.reason = s.att.disposition /\ g.perf = Realize(s)
    \/ g.reason = "decision_resume" /\ OwesResume(s) /\ g.mov = s.att.mov /\ g.perf = s.att.perf

\* The order of the numbers.
Less == {p \in Nat \X Nat : p[1] < p[2]}

\* The smallest of a set of numbers is one of them.
LEMMA MinIsLeast ==
    ASSUME NEW S, S \subseteq Nat, S # {}
    PROVE  Min(S) \in S /\ \A x \in S : Min(S) <= x
<1>1. IsWellFoundedOn(Less, Nat)
  BY NatLessThanWellFounded DEF OpToRel, Less
<1>2. PICK x \in S : \A y \in S : ~(<<y, x>> \in Less)
  BY <1>1, WFMin
<1>3. \A y \in S : x <= y
  <2> TAKE y \in S
  <2>1. ~(<<y, x>> \in Less)
    BY <1>2
  <2>. QED
    BY <2>1 DEF Less
<1>. QED
  BY <1>3 DEF Min

\* A movement is a target of the projection.
LEMMA MovementsAreNumbers == ASSUME NEW m \in Movements PROVE m \in 0 .. N /\ m # 0
  BY ScoreAssumption DEF Movements

\* The next fallback is a performer that neither ran nor was visited.
LEMMA NextFallbackIsNew ==
    ASSUME NEW s \in Projections, UnvisitedFallbacks(s) # {}
    PROVE  /\ NextUnvisitedFallback(s) \in Performers
           /\ NextUnvisitedFallback(s) \notin s.visited[s.att.mov]
<1>1. DOMAIN Fallbacks = 1 .. Len(Fallbacks) /\ Len(Fallbacks) \in Nat
  BY ScoreAssumption
<1>2. UnvisitedFallbacks(s) \subseteq Nat
  BY <1>1 DEF UnvisitedFallbacks
<1>3. Min(UnvisitedFallbacks(s)) \in UnvisitedFallbacks(s)
  BY <1>2, MinIsLeast
<1>. QED
  BY <1>3, ZenonT(40) DEF NextUnvisitedFallback, UnvisitedFallbacks, Performers

\* What a resumption after answers adds to the attempts that are paid for.
Resumption(g) == IF g.reason = "decision_resume" THEN 1 ELSE 0

\* It counts as one or as none.
LEMMA ResumptionIsCounted == ASSUME NEW g PROVE Resumption(g) \in {0, 1}
  BY DEF Resumption

\* An attempt that was just selected is in order.
LEMMA SelectedAttemptGood ==
    ASSUME NEW t, t.att.mov \in Movements, t.att.perf \in Performers, t.att.state = "STARTING",
           t.att.pending = 0, t.att.asked = 0, t.att.raised = 0, t.att.gate = "none",
           ~t.att.probed, ~t.att.changeSet, ~t.att.verified, ~t.att.accepting, t.att.passed = 0,
           ~t.att.inFlight, t.att.verdict = "none", ~t.att.evaluated, t.att.disposition = "none",
           ~t.att.failedHere, ~t.att.succeededHere
    PROVE  AttemptInv(t)
  BY DEF AttemptInv

\* A performer not visited before adds one to the visited ones.
LEMMA VisitingCounts ==
    ASSUME NEW S, NEW x, IsFiniteSet(S)
    PROVE  /\ Cardinality(S \cup {x}) \in Nat /\ Cardinality(S \cup {x}) >= Cardinality(S)
           /\ x \notin S => Cardinality(S \cup {x}) = Cardinality(S) + 1
<1>1. Cardinality(S) \in Nat
  BY FS_CardinalityType
<1>2. Cardinality(S \cup {x}) = IF x \in S THEN Cardinality(S) ELSE Cardinality(S) + 1
  BY FS_AddElement
<1>. QED
  BY <1>1, <1>2

\* Who is selected next is a performer, nobody else is running, and it is paid for.
LEMMA SuccessorIsPaidFor ==
    ASSUME NEW s, NEW g, Good(s), GoalOk(s, g), s.mov[g.mov] = "RUNNING"
    PROVE  /\ g.mov \in Movements /\ g.perf \in Performers
           /\ \A m \in Movements :
                 s.mov[m] \in {"RUNNING", "WAITING_HUMAN"} /\ s.selected[m] > 0 => m = g.mov
           /\ s.selected[g.mov] + 1 <=
                  s.retries[g.mov] + Cardinality(s.visited[g.mov] \cup {g.perf}) +
                      (s.resumed[g.mov] + Resumption(g))
<1>0. IsFiniteSet(s.visited[g.mov]) =>
          /\ Cardinality(s.visited[g.mov] \cup {g.perf}) \in Nat
          /\ Cardinality(s.visited[g.mov] \cup {g.perf}) >= Cardinality(s.visited[g.mov])
          /\ g.perf \notin s.visited[g.mov] =>
                Cardinality(s.visited[g.mov] \cup {g.perf}) = Cardinality(s.visited[g.mov]) + 1
  BY VisitingCounts
<1> DEFINE v == s.visited[g.mov] \cup {g.perf}
<1>. s \in Projections /\ AttemptInv(s) /\ MovementInv(s) /\ PaidInv(s)
  BY DEF Good
<1>1. CASE g.reason = "initial" /\ Settled(s) /\ g.perf = Primary /\ g.mov \in Movements
  <2>1. \A m \in Movements :
           s.mov[m] \in {"RUNNING", "WAITING_HUMAN"} => s.selected[m] = 0
    <3>1. CASE s.att.state = "NONE"
      <4>1. s.att.mov = 0
        BY <3>1 DEF AttemptInv, NoAttempt
      <4>2. \A m \in Movements : m # 0
        BY MovementsAreNumbers
      <4>3. \A m \in Movements : s.selected[m] \in Nat
        OBVIOUS
      <4>4. \A m \in Movements :
               s.mov[m] \in {"RUNNING", "WAITING_HUMAN"} /\ s.selected[m] > 0 => m = s.att.mov
        BY DEF MovementInv
      <4>. QED
        BY <4>1, <4>2, <4>3, <4>4
    <3>2. CASE s.att.state = "COMPLETED" /\ s.att.succeededHere
      <4>1. s.att.mov \in Movements /\ s.mov[s.att.mov] = "SUCCEEDED"
        BY <3>2 DEF AttemptInv
      <4>2. \A m \in Movements : s.selected[m] \in Nat
        OBVIOUS
      <4>3. \A m \in Movements :
               s.mov[m] \in {"RUNNING", "WAITING_HUMAN"} /\ s.selected[m] > 0 => m = s.att.mov
        BY DEF MovementInv
      <4>. QED
        BY <4>1, <4>2, <4>3
    <3>. QED
      BY <1>1, <3>1, <3>2 DEF Settled
  <2>2. s.selected[g.mov] = 0 /\ s.visited[g.mov] = {}
    BY <1>1, <2>1 DEF MovementInv
  <2>3. v = {g.perf} /\ Cardinality({g.perf}) = 1
    BY <2>2, FS_Singleton, ZenonT(40)
  <2>4. s.retries[g.mov] \in Nat /\ s.resumed[g.mov] \in Nat
    BY <1>1
  <2>. QED
    BY <1>1, <2>1, <2>2, <2>3, <2>4 DEF Performers, Resumption
<1>2. CASE g.mov = s.att.mov /\ Owes(s)
  <2>1. s.att.mov \in Movements /\ s.att.perf \in Performers
    BY <1>2 DEF AttemptInv, Owes, OwesRetry, OwesResume
  <2>2. \A m \in Movements :
           s.mov[m] \in {"RUNNING", "WAITING_HUMAN"} /\ s.selected[m] > 0 => m = g.mov
    BY <1>2, <2>1 DEF MovementInv
  <2>3. /\ s.selected[g.mov] \in Nat /\ s.retries[g.mov] \in Nat /\ s.resumed[g.mov] \in Nat
        /\ s.visited[g.mov] \subseteq Performers
    BY <1>2, <2>1
  <2>4. /\ IsFiniteSet(s.visited[g.mov]) /\ Cardinality(s.visited[g.mov]) \in Nat
    BY <2>3, PerformersAreFinite, FS_Subset, FS_CardinalityType
  <2>5. s.selected[g.mov] <=
            s.retries[g.mov] + Cardinality(s.visited[g.mov]) + s.resumed[g.mov]
    BY <1>2, <2>1 DEF PaidInv
  <2>6. /\ Cardinality(v) \in Nat /\ Cardinality(v) >= Cardinality(s.visited[g.mov])
        /\ g.perf \notin s.visited[g.mov] =>
               Cardinality(v) = Cardinality(s.visited[g.mov]) + 1
    BY <1>0, <2>4
  <2>7. CASE g.reason = "quality_retry" /\ OwesRetry(s) /\ s.att.disposition = "quality_retry"
             /\ g.perf = Realize(s)
    <3>1. s.selected[g.mov] <
              s.retries[g.mov] + Cardinality(s.visited[g.mov]) + s.resumed[g.mov]
      BY <1>2, <2>7 DEF PaidInv
    <3>2. g.perf = s.att.perf
      BY <2>7 DEF Realize
    <3>. QED
      BY <1>2, <2>1, <2>2, <2>3, <2>4, <2>6, <2>7, <3>1, <3>2 DEF Resumption
  <2>8. CASE g.reason = "fallback" /\ OwesRetry(s) /\ s.att.disposition = "fallback"
             /\ g.perf = Realize(s)
    <3>1. g.perf \in Performers /\ g.perf \notin s.visited[g.mov]
      BY <1>2, <2>8, NextFallbackIsNew DEF PaidInv, Realize
    <3>. QED
      BY <1>2, <2>1, <2>2, <2>3, <2>4, <2>5, <2>6, <2>8, <3>1 DEF Resumption
  <2>9. CASE g.reason = "decision_resume" /\ g.perf = s.att.perf
    BY <1>2, <2>1, <2>2, <2>3, <2>4, <2>5, <2>6, <2>9 DEF Resumption
  <2>. QED
    BY <1>2, <2>7, <2>8, <2>9 DEF GoalOk, Owes, Settled, OwesRetry, OwesResume
<1>. QED
  BY <1>1, <1>2 DEF GoalOk, Owes

\* A selection keeps the projection in order.
LEMMA PerformerSelectedGood ==
    ASSUME NEW s, NEW g, Good(s), Between(s), GoalOk(s, g), PerformerSelectedOk(s, g.mov)
    PROVE  Good(PerformerSelected(s, g))
<1>a. /\ g.mov \in Movements /\ g.perf \in Performers /\ s.mov[g.mov] = "RUNNING"
      /\ \A m \in Movements :
            s.mov[m] \in {"RUNNING", "WAITING_HUMAN"} /\ s.selected[m] > 0 => m = g.mov
      /\ s.selected[g.mov] + 1 <= s.retries[g.mov] + Cardinality(s.visited[g.mov] \cup {g.perf}) +
             (s.resumed[g.mov] + Resumption(g))
  <2>1. s.mov[g.mov] = "RUNNING"
    BY DEF PerformerSelectedOk
  <2>. QED
    BY <2>1, SuccessorIsPaidFor
<1>. s \in Projections /\ AttemptInv(s) /\ MovementInv(s) /\ RunInv(s) /\ PaidInv(s) /\ PhaseInv(s)
  BY DEF Good
<1> DEFINE a == [NoAttempt EXCEPT !.mov = g.mov, !.perf = g.perf, !.state = "STARTING"]
           v == [s.visited EXCEPT ![g.mov] = @ \cup {g.perf}]
           c == [s.selected EXCEPT ![g.mov] = s.selected[g.mov] + 1]
           d == [s.resumed EXCEPT ![g.mov] =
                     s.resumed[g.mov] + Resumption(g)]
           t == [s EXCEPT !.att = a, !.visited = v, !.selected = c, !.resumed = d]
<1>b. /\ v \in [Movements -> SUBSET Performers] /\ v[g.mov] = s.visited[g.mov] \cup {g.perf}
      /\ \A m \in Movements \ {g.mov} : v[m] = s.visited[m]
  BY <1>a
<1>c. /\ c \in [Movements -> Nat] /\ c[g.mov] = s.selected[g.mov] + 1 /\ c[g.mov] > 0
      /\ \A m \in Movements \ {g.mov} : c[m] = s.selected[m]
  <2>1. s.selected[g.mov] \in Nat
    BY <1>a
  <2>2. s.selected[g.mov] + 1 \in Nat /\ s.selected[g.mov] + 1 > 0
    BY <2>1
  <2>. QED
    BY <1>a, <2>2
<1>d. /\ d \in [Movements -> Nat]
      /\ d[g.mov] = s.resumed[g.mov] + Resumption(g)
      /\ \A m \in Movements \ {g.mov} : d[m] = s.resumed[m]
  <2>1. s.resumed[g.mov] + Resumption(g) \in Nat
    BY <1>a, ResumptionIsCounted
  <2>. QED
    BY <1>a, <2>1
<1>e. a \in Attempts
  <2>1. NoAttempt \in Attempts
    BY ScoreAssumption DEF NoAttempt
  <2>2. g.mov \in 0 .. N
    BY <1>a, MovementsAreNumbers
  <2>. QED
    BY <1>a, <2>1, <2>2, ZenonT(40)
<1>f. /\ a.mov = g.mov /\ a.perf = g.perf /\ a.state = "STARTING" /\ a.pending = 0
      /\ a.asked = 0 /\ a.raised = 0 /\ a.gate = "none" /\ ~a.probed /\ ~a.changeSet
      /\ ~a.verified /\ ~a.accepting /\ a.passed = 0 /\ ~a.inFlight /\ a.verdict = "none"
      /\ ~a.evaluated /\ a.disposition = "none" /\ ~a.failedHere /\ ~a.succeededHere
  BY DEF NoAttempt
<1>g. PerformerSelected(s, g) = t
  <2>1. (IF g.reason = "decision_resume" THEN s.resumed[g.mov] + 1 ELSE s.resumed[g.mov]) =
            s.resumed[g.mov] + Resumption(g)
    BY <1>a DEF Resumption
  <2>. QED
    BY <2>1 DEF PerformerSelected
<1> HIDE DEF a, v, c, d
<1>1. t \in Projections
  BY <1>b, <1>c, <1>d, <1>e
<1>h. /\ t.att = a /\ t.visited = v /\ t.selected = c /\ t.resumed = d /\ t.run = s.run
      /\ t.mov = s.mov /\ t.open = s.open /\ t.candidate = s.candidate /\ t.retries = s.retries
      /\ t.evidence = s.evidence /\ t.terminalized = s.terminalized
  OBVIOUS
<1> HIDE DEF t
<1>2. AttemptInv(t)
  <2>1. /\ t.att.mov = g.mov /\ t.att.perf = g.perf /\ t.att.state = "STARTING"
        /\ t.att.pending = 0 /\ t.att.asked = 0 /\ t.att.raised = 0 /\ t.att.gate = "none"
        /\ ~t.att.probed /\ ~t.att.changeSet /\ ~t.att.verified /\ ~t.att.accepting
        /\ t.att.passed = 0 /\ ~t.att.inFlight /\ t.att.verdict = "none" /\ ~t.att.evaluated
        /\ t.att.disposition = "none" /\ ~t.att.failedHere /\ ~t.att.succeededHere
    BY <1>f, <1>h
  <2>. QED
    BY <1>a, <2>1, SelectedAttemptGood
<1>i. ~PendingDecision(t) /\ ~PendingDecision(s) /\ s.run = "RUNNING"
      /\ s.open.phase = "none" /\ CompositionTerminals(s) = {}
  BY <1>f, <1>h DEF PendingDecision, Between, Calm
<1>3. MovementInv(t)
  <2>1. \A m \in Movements :
          /\ t.mov[m] # "WAITING_HUMAN"
          /\ t.mov[m] \in {"RUNNING", "WAITING_HUMAN"} /\ t.selected[m] > 0 => m = t.att.mov
          /\ t.mov[m] \in {"PENDING", "READY"} => t.selected[m] = 0
          /\ t.selected[m] = 0 => t.visited[m] = {}
    BY <1>a, <1>b, <1>c, <1>f, <1>h, <1>i DEF MovementInv
  <2>2. \A m \in Movements : t.mov[m] # "PENDING" =>
            (\A k \in Needs[m] : t.mov[k] = "SUCCEEDED") /\ (m = Final => t.candidate)
    BY <1>h DEF MovementInv
  <2>3. /\ Final # 0 /\ t.mov[Final] = "SUCCEEDED" => t.run = "SUCCEEDED"
        /\ GateWaived /\ t.candidate => t.run = "SUCCEEDED"
    BY <1>h DEF MovementInv
  <2>. QED
    BY <1>a, <1>c, <1>f, <1>h, <1>i, <2>1, <2>2, <2>3 DEF MovementInv, Underway
<1>4. RunInv(t)
  BY <1>h, <1>i DEF RunInv, Terminal
<1>5. PaidInv(t)
  <2>1. \A m \in Movements : t.retries[m] <= Retries
    BY <1>h DEF PaidInv
  <2>2. \A m \in Movements :
            t.selected[m] <= t.retries[m] + Cardinality(t.visited[m]) + t.resumed[m]
    <3> TAKE m \in Movements
    <3>1. CASE m = g.mov
      BY <1>a, <1>b, <1>c, <1>d, <1>h, <3>1
    <3>2. CASE m # g.mov
      BY <1>b, <1>c, <1>d, <1>h, <3>2 DEF PaidInv
    <3>. QED
      BY <3>1, <3>2
  <2>3. ~OwesRetry(t)
    BY <1>f, <1>h DEF OwesRetry
  <2>. QED
    BY <2>1, <2>2, <2>3 DEF PaidInv
<1>6. PhaseInv(t)
  BY <1>h, <1>i DEF PhaseInv, CompositionTerminals
<1>7. Good(t)
  BY <1>1, <1>2, <1>3, <1>4, <1>5, <1>6 DEF Good
<1>. QED
  BY <1>7, <1>g
====
