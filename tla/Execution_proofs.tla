-------------------------- MODULE Execution_proofs --------------------------
(***************************************************************************)
(* Proofs about Execution, for any score that its assumptions allow, any   *)
(* budget, retries and fallbacks.  IInv is inductive: the journal is in    *)
(* one of the phases a run goes through, each label of the process relies  *)
(* on a part of what the journal says and finds it, what is left of a      *)
(* decision is in the order in which it can be carried out, and a session  *)
(* that its process left behind is one that recovery sweeps before it does *)
(* anything else.                                                          *)
(*                                                                         *)
(* The lemmas come in the order of the code: what each label relies on,    *)
(* recovery, the human and the crash, scheduling, planning, composition,   *)
(* the attempt, acceptance, the deadline.  Promised says which outcomes of *)
(* a run a step may reach from where; with the invariant it gives the      *)
(* action property and the refinement of ExecutionContract.                *)
(***************************************************************************)
EXTENDS Execution, Lifecycle_proofs

(***************************************************************************)
(* What the process relies on where it is                                  *)
(***************************************************************************)
In(s, state, phase) == Calm(s) /\ s.att.state = state /\ s.open.phase = phase

CandidateDue(s) == ~s.candidate /\ WritersSucceeded(s)

\* What a composition is for: an attempt's base, the candidate, or neither.
RecomposeOk(s, g) == g.reason = "recompose" /\ g.mov \in Movements /\ s.mov[g.mov] = "RUNNING"
CandidateOk(s, g) == g.reason = "candidate" /\ g.mov = 0 /\ CandidateDue(s)
ComposeOk(s, g, how) ==
    \/ GoalOk(s, g)
    \/ how = "recovery" /\ RecomposeOk(s, g)
    \/ CandidateOk(s, g) /\ (how = "live" => Settled(s))

Evaluating(s) ==
    s.att.accepting /\ ~s.att.inFlight /\ s.att.verdict = "none" /\ ~s.att.evaluated

\* A criterion runs inside the acceptance interval, or alone when recovery resumes it.
CriterionOpen(s, how) ==
    /\ Calm(s) /\ s.att.state = "VERIFYING"
    /\ s.open.phase = "acceptance" \/ (s.open.phase = "none" /\ how = "recovery")

\* The evidence whose consequence is still to be journaled.
Concluding(s, target) ==
    /\ s.run = "RUNNING" /\ ~PendingDecision(s) /\ s.open.phase = "none"
    /\ Settled(s) \/ Owes(s)
    /\ target \in s.evidence /\ CompositionTerminals(s) \subseteq {target}
    /\ target # 0 => s.mov[target] = "RUNNING"

\* What the journal holds at each label.
Composing(where, how, s, g) ==
    /\ where = "compose" =>
          /\ Calm(s) /\ s.open.phase = "composition" /\ (Settled(s) \/ Owes(s))
          /\ ComposeOk(s, g, how)
    /\ where = "record" => Between(s) /\ CandidateOk(s, g) /\ (how = "live" => Settled(s))
    /\ where = "evidence" => Between(s) /\ ComposeOk(s, g, how)
    /\ where = "compose_terminal" => Concluding(s, g.mov)
    /\ where = "select" => Between(s) /\ GoalOk(s, g)

Attempting(where, s) ==
    /\ where = "open" => In(s, "STARTING", "none")
    /\ where \in {"launch", "identify"} => In(s, "STARTING", "adapter")
    /\ where = "probe" => In(s, "RUNNING", "adapter") /\ ~s.att.probed
    /\ where \in {"run", "stop"} => In(s, "RUNNING", "adapter") /\ s.att.probed
    /\ where = "outcome" => In(s, "RUNNING", "none") /\ s.att.probed
    /\ where = "ask" => s.att.state = "BLOCKED" /\ s.att.asked < s.att.raised
    /\ where = "blocked" => s.att.state = "BLOCKED" /\ s.att.asked = s.att.raised
    /\ where \in {"ask", "blocked"} =>
          ~Terminal(s) /\ CompositionTerminals(s) = {} /\ s.open.phase = "none"

Verifying(where, s) ==
    /\ where = "capture" =>
          In(s, "VERIFYING", "none") /\ s.att.mov \in Writers /\ ~s.att.changeSet
    /\ where = "verify" =>
          /\ In(s, "VERIFYING", "none") /\ ~s.att.verified
          /\ s.att.mov \in Writers => s.att.changeSet
    /\ where = "open_acceptance" =>
          In(s, "VERIFYING", "none") /\ s.att.verified /\ ~s.att.accepting
    /\ where = "accept" =>
          In(s, "VERIFYING", "acceptance") /\ s.att.verified /\ ~s.att.accepting

Accepting(where, how, s, r) ==
    /\ where = "criteria" => In(s, "VERIFYING", "acceptance") /\ Evaluating(s)
    /\ where = "criterion_identify" =>
          CriterionOpen(s, how) /\ Evaluating(s) /\ s.att.passed < Planned(s)
    /\ where \in {"criterion_run", "criterion_done"} => CriterionOpen(s, how) /\ s.att.inFlight
    /\ where = "criterion_done" => r \in {"PASS", "FAIL", "ERROR", "exhausted"}
    /\ where = "fail_acceptance" => CriterionOpen(s, how) /\ s.att.accepting
    /\ where = "stop_acceptance" =>
          /\ Calm(s) /\ s.open.phase = "acceptance"
          /\ \/ s.att.state = "VERIFYING" /\ s.att.evaluated /\ s.att.gate = "none"
             \/ s.att.state = "FAILED" /\ ~s.att.failedHere

Ending(where, how, s) ==
    /\ where = "gate" =>
          /\ In(s, "VERIFYING", "none") /\ s.att.evaluated
          /\ GateRequired(s) /\ s.att.gate = "none"
    /\ where = "complete" =>
          In(s, "VERIFYING", "none") /\ s.att.evaluated /\ ~GateRequired(s)
    /\ where = "succeed" => In(s, "COMPLETED", "none") /\ ~s.att.succeededHere
    /\ where = "exhausted" => In(s, "RUNNING", "adapter") \/ CriterionOpen(s, how)
    /\ where = "fail_exhausted" => In(s, "RUNNING", "none") \/ In(s, "VERIFYING", "none")
    /\ where = "realize" => In(s, "FAILED", "none") /\ ~s.att.failedHere
    /\ where = "fail_run" => In(s, "FAILED", "none") /\ s.att.failedHere
    /\ where = "plan" /\ how = "live" => Terminal(s) \/ (Between(s) /\ Settled(s))

LabelOk(where, how, s, g, r) ==
    /\ Composing(where, how, s, g) /\ Attempting(where, s) /\ Verifying(where, s)
    /\ Accepting(where, how, s, r) /\ Ending(where, how, s)

(***************************************************************************)
(* What the steps of a decision rely on                                    *)
(***************************************************************************)
Singles ==
    {"ready", "start", "initial", "successor", "candidate", "recompose", "budget_run",
     "realize", "fail_run", "question", "capture", "verify", "accept", "fail_lost",
     "fail_acceptance", "mismatch", "verify_subject", "gate", "gate_rejected", "evaluate",
     "criterion", "succeed", "compose_terminal", "close", "stabilize_launch", "remove_launch",
     "fail_unstarted", "fail_unprobed", "fail_incomplete"}

StepShapes ==
    {<<x>> : x \in Singles} \cup
    {<<"budget_movement", "budget_run">>, <<"complete", "succeed">>,
     <<"sweep_criterion", "verify_subject">>,
     <<"stabilize", "close", "fail_unstarted">>, <<"close", "fail_unstarted">>,
     <<"sweep", "close", "fail_unprobed">>, <<"close", "fail_unprobed">>,
     <<"sweep", "close", "fail_incomplete">>, <<"close", "fail_incomplete">>}

Starting(s) == s.att.state \in {"STARTING", "RUNNING"}

\* The only steps a live run executes.
LiveSteps == {"ready", "start", "initial", "candidate", "budget_movement", "budget_run"}

Scheduled(step, m, how, s) ==
    /\ how = "live" => step \in LiveSteps
    /\ step \in SchedulingSteps \cup {"budget_movement", "budget_run"} => Between(s)
    /\ step \in {"ready", "start", "candidate"} /\ how = "live" => Settled(s)
    /\ step = "ready" => m \in Selectable(s)
    /\ step = "start" => m \in Movements /\ s.mov[m] = "READY"
    /\ step = "initial" => Settled(s) /\ m \in Movements /\ s.mov[m] = "RUNNING"
    /\ step = "successor" => Owes(s)
    /\ step = "candidate" => CandidateDue(s)
    /\ step = "recompose" =>
          IF m = 0 THEN CandidateDue(s) ELSE m \in Movements /\ s.mov[m] = "RUNNING"
    /\ step = "budget_movement" => m \in Movements /\ s.mov[m] = "RUNNING"
    /\ step = "compose_terminal" => m \in CompositionTerminals(s)

\* How a recovered attempt goes on or ends.
Continued(step, m, s) ==
    /\ step = "realize" =>
          s.att.state = "FAILED" /\ ~s.att.failedHere /\ s.att.disposition = "terminal"
    /\ step = "fail_run" => s.att.state = "FAILED" /\ s.att.failedHere
    /\ step = "question" => s.att.state = "BLOCKED" /\ s.att.asked < s.att.raised
    /\ step \in {"sweep", "stabilize", "fail_unstarted", "fail_unprobed", "fail_incomplete"} =>
          Starting(s)
    /\ step \in {"capture", "verify", "accept", "fail_lost"} =>
          s.att.state = "VERIFYING" /\ ~s.att.accepting
    /\ step = "capture" => s.att.mov \in Writers /\ ~s.att.changeSet
    /\ step = "verify" => ~s.att.verified /\ (s.att.mov \in Writers => s.att.changeSet)
    /\ step = "accept" => s.att.verified
    /\ step = "succeed" =>
          s.att.state = "COMPLETED" /\ ~s.att.succeededHere /\ m = s.att.mov

\* How a recovered acceptance goes on or ends.
Resumes(step, m, s, worktree) ==
    /\ step \in {"fail_acceptance", "mismatch", "verify_subject", "sweep_criterion", "evaluate",
                 "criterion", "stabilize_launch", "remove_launch"} =>
          s.att.state = "VERIFYING" /\ s.att.accepting
    /\ step = "sweep_criterion" => s.att.inFlight
    /\ step = "verify_subject" => s.att.inFlight \/ worktree = "lost"
    /\ step = "evaluate" => Evaluating(s) /\ s.att.passed = Planned(s)
    /\ step = "criterion" => Evaluating(s) /\ s.att.passed < Planned(s)
    /\ step \in {"gate", "gate_rejected", "complete"} =>
          s.att.state = "VERIFYING" /\ s.att.evaluated
    /\ step = "gate" => GateRequired(s) /\ s.att.gate = "none"
    /\ step = "gate_rejected" => s.att.gate = "rejected" /\ m = s.att.mov
    /\ step = "complete" =>
          (GateRequired(s) => s.att.gate = "approved") /\ m = s.att.mov

HeadOk(step, m, how, s, worktree) ==
    /\ ~Terminal(s)
    /\ step # "question" => s.run = "RUNNING" /\ ~PendingDecision(s)
    /\ step # "compose_terminal" => CompositionTerminals(s) = {}
    /\ step \notin {"close", "sweep", "stabilize"} => s.open.phase = "none"
    /\ Scheduled(step, m, how, s) /\ Continued(step, m, s) /\ Resumes(step, m, s, worktree)

StepOk(d, how, s, worktree) ==
    /\ d.steps \in StepShapes /\ d.mov \in 0 .. N
    /\ HeadOk(Head(d.steps), d.mov, how, s, worktree)
    /\ d.steps = <<"close">> => s.open.phase \in {"composition", "acceptance"}
    /\ Head(d.steps) = "close" /\ d.steps # <<"close">> => Starting(s)

(***************************************************************************)
(* Sessions and the process                                                *)
(***************************************************************************)
\* A session that its process left running: what the journal says of it makes
\* recovery sweep it before anything else.
LeftRunning(s, launched) ==
    /\ s.run = "RUNNING"
    /\ \/ Starting(s) /\ s.open.phase = "adapter"
       \/ /\ s.att.state = "VERIFYING" /\ s.att.accepting
          /\ s.att.verdict = "none" /\ ~s.att.evaluated
          /\ s.att.inFlight \/ (launched /\ s.att.passed < Planned(s))

SessionLabels == {"identify", "probe", "run", "criterion_identify", "criterion_run"}

Swept(d) == d.steps = <<"close">> \/ Head(d.steps) \in SweepSteps

SessInv ==
    /\ sess \in {0, 1}
    /\ pc \in SessionLabels => sess = 1
    /\ sess = 1 =>
          \/ pc \in SessionLabels
          \/ pc = "down" /\ LeftRunning(st, stray)
          \/ pc = "plan" /\ mode = "recovery" /\ LeftRunning(st, stray)
          \/ pc = "step" /\ mode = "recovery" /\ LeftRunning(st, stray) /\ Swept(todo)

ProcessInv ==
    /\ mode \in {"live", "recovery"} /\ todo.mov \in 0 .. N /\ next.mov \in 0 .. N
    /\ left \in 0 .. Budget /\ tree \in {"intact", "altered", "lost"} /\ stray \in BOOLEAN
    /\ pc # "down" => note # "refused"

IInv ==
    /\ Good(st) /\ LabelOk(pc, mode, st, next, result)
    /\ pc = "step" => StepOk(todo, mode, st, tree)
    /\ SessInv /\ ProcessInv /\ AppendsAreAdmitted

USE DEF vars, process, world, bounds
HIDE DEF Projections, Attempts, Intervals

\* A sequence of one step, and of more.
LEMMA OneStep == ASSUME NEW a PROVE Head(<<a>>) = a /\ Len(<<a>>) = 1
  OBVIOUS

\* A sequence of two steps.
LEMMA TwoSteps ==
    ASSUME NEW a, NEW b
    PROVE  Head(<<a, b>>) = a /\ Len(<<a, b>>) = 2 /\ Tail(<<a, b>>) = <<b>>
  OBVIOUS

\* A sequence of three steps.
LEMMA ThreeSteps ==
    ASSUME NEW a, NEW b, NEW c
    PROVE  /\ Head(<<a, b, c>>) = a /\ Len(<<a, b, c>>) = 3
           /\ Tail(<<a, b, c>>) = <<b, c>>
  OBVIOUS

\* Off the labels that own one, no session is alive.
LEMMA NoSession ==
    ASSUME IInv, pc \notin SessionLabels \cup {"plan", "step", "down"}
    PROVE  sess = 0
  BY DEF IInv, SessInv

\* A process without a session moves on to a label that owns none.
LEMMA MovesOn ==
    ASSUME NEW where, NEW s,
           IInv, sess = 0, where \notin SessionLabels \cup {"step"},
           pc' = where, st' = s, UNCHANGED <<mode, sess, tree>>,
           Good(s), LabelOk(where, mode, s, next', result'),
           todo'.mov \in 0 .. N, next'.mov \in 0 .. N, left' \in 0 .. Budget,
           stray' \in BOOLEAN, note' # "refused"
    PROVE  IInv'
  BY DEF IInv, SessInv, ProcessInv, AppendsAreAdmitted

\* A process without a session goes on to the next step of its decision.
LEMMA StepsOn ==
    ASSUME NEW s, IInv, sess = 0, pc' = "step", st' = s, UNCHANGED <<mode, sess, tree>>,
           Good(s), StepOk(todo', mode, s, tree), next'.mov \in 0 .. N, left' \in 0 .. Budget,
           stray' \in BOOLEAN, note' # "refused"
    PROVE  IInv'
<1>1. LabelOk("step", mode, s, next', result')
  BY DEF LabelOk, Composing, Attempting, Verifying, Accepting, Ending
<1>. QED
  BY <1>1 DEF IInv, SessInv, ProcessInv, AppendsAreAdmitted, StepOk, SessionLabels

\* Nothing is relied on where no process is.
LEMMA DownIsFree == ASSUME NEW how, NEW s, NEW g, NEW r PROVE LabelOk("down", how, s, g, r)
  BY DEF LabelOk, Composing, Attempting, Verifying, Accepting, Ending

\* Planning relies on nothing in recovery.
LEMMA RecoveryPlans == ASSUME NEW s, NEW g, NEW r PROVE LabelOk("plan", "recovery", s, g, r)
  BY DEF LabelOk, Composing, Attempting, Verifying, Accepting, Ending

\* In a live run it relies on the last attempt having succeeded.
LEMMA LivePlans ==
    ASSUME NEW how, NEW s, NEW g, NEW r,
           how = "live" => Terminal(s) \/ (Between(s) /\ Settled(s))
    PROVE  LabelOk("plan", how, s, g, r)
  BY DEF LabelOk, Composing, Attempting, Verifying, Accepting, Ending

\* A process stops: a session it leaves behind is one that recovery will sweep.
LEMMA Stops ==
    ASSUME IInv, pc' = "down", note' # "refused", UNCHANGED <<st, mode, tree>>,
           todo'.mov \in 0 .. N, next'.mov \in 0 .. N, left' \in 0 .. Budget,
           stray' \in BOOLEAN, sess' \in {0, 1}, sess' = 1 => LeftRunning(st, stray')
    PROVE  IInv'
<1>1. LabelOk("down", mode, st, next', result')
  BY DownIsFree
<1>. QED
  BY <1>1 DEF IInv, SessInv, ProcessInv, AppendsAreAdmitted, SessionLabels

\* A refused append stops the process; it is one of the two known cases.
LEMMA Refused ==
    ASSUME IInv, sess = 0, pc' = "down", UNCHANGED <<st, mode, tree, sess, stray>>,
           todo'.mov \in 0 .. N, next'.mov \in 0 .. N, left' \in 0 .. Budget,
           StrandedSuccessor \/ RejectedWithoutFinal
    PROVE  IInv'
<1>1. LabelOk("down", mode, st, next', result')
  BY DownIsFree
<1>. QED
  BY <1>1
     DEF IInv, SessInv, ProcessInv, AppendsAreAdmitted, SessionLabels, StrandedSuccessor,
         RejectedWithoutFinal

\* An append that is admitted, between labels that own no session.
LEMMA AppendsMoves ==
    ASSUME NEW where, NEW ok, NEW s, NEW then, IInv, Appends(where, ok, s, then), ok,
           where \notin SessionLabels \cup {"plan", "step", "down"},
           then \notin SessionLabels \cup {"step"},
           Good(s), LabelOk(then, mode, s, next, result)
    PROVE  IInv'
<1>1. /\ pc = where /\ pc' = then /\ st' = s
      /\ UNCHANGED <<mode, todo, next, left, result, note, sess, escaped, stray, tree>>
  BY DEF Appends, AppendEvent, At
<1>2. sess = 0
  BY <1>1, NoSession
<1>3. /\ todo.mov \in 0 .. N /\ next.mov \in 0 .. N /\ left \in 0 .. Budget /\ stray \in BOOLEAN
      /\ note # "refused" /\ todo'.mov = todo.mov /\ next'.mov = next.mov
  BY <1>1 DEF IInv, ProcessInv, SessionLabels
<1>4. LabelOk(then, mode, s, next', result')
  BY <1>1
<1>. QED
  BY <1>1, <1>2, <1>3, <1>4, MovesOn

\* What a step under execution relies on.
LEMMA StepRelies ==
    ASSUME NEW step, IInv, Doing(step)
    PROVE  /\ pc = "step" /\ StepOk(todo, mode, st, tree) /\ Head(todo.steps) = step
           /\ HeadOk(step, todo.mov, mode, st, tree)
  BY DEF IInv, Doing, StepOk

\* A decision of one step has nothing left after it.
LEMMA SingleStep ==
    ASSUME NEW step \in Singles \ {"close"}, IInv, Doing(step)
    PROVE  Rest = "plan"
<1>1. todo.steps \in StepShapes /\ Head(todo.steps) = step
  BY StepRelies DEF StepOk
<1>2. todo.steps = <<step>>
  <2>1. CASE todo.steps \in {<<x>> : x \in Singles}
    BY <1>1, <2>1, OneStep
  <2>2. CASE todo.steps \notin {<<x>> : x \in Singles}
    <3>1. step \in {"budget_movement", "complete", "sweep_criterion", "stabilize", "close", "sweep"}
      BY <1>1, <2>2, TwoSteps, ThreeSteps DEF StepShapes
    <3>. QED
      BY <3>1 DEF Singles
  <2>. QED
    BY <2>1, <2>2
<1>. QED
  BY <1>2 DEF Rest

\* Only a step that sweeps, or closes an interval alone, has a session beside it.
LEMMA StepWithoutSession ==
    ASSUME NEW step, IInv, Doing(step), step \notin SweepSteps \cup {"close"}
    PROVE  sess = 0
<1>1. pc = "step" /\ Head(todo.steps) = step
  BY StepRelies
<1>2. ~Swept(todo)
  <2>1. Head(<<"close">>) = "close"
    BY OneStep
  <2>. QED
    BY <1>1, <2>1 DEF Swept
<1>. QED
  BY <1>1, <1>2 DEF IInv, SessInv, SessionLabels

\* A single step that appends one event is followed by planning.
LEMMA StepAppendsMoves ==
    ASSUME NEW step \in Singles \ ({"close"} \cup SweepSteps), NEW ok, NEW s,
           IInv, StepAppends(step, ok, s), ok, Good(s),
           mode = "live" => Terminal(s) \/ (Between(s) /\ Settled(s))
    PROVE  IInv'
<1>1. Doing(step) /\ Rest = "plan" /\ sess = 0
  BY SingleStep, StepWithoutSession DEF StepAppends
<1>2. /\ pc' = "plan" /\ st' = s /\ todo' = Popped
      /\ UNCHANGED <<mode, next, left, result, note, sess, escaped, stray, tree>>
  BY <1>1 DEF StepAppends, AppendEvent
<1>3. /\ todo.mov \in 0 .. N /\ next.mov \in 0 .. N /\ left \in 0 .. Budget /\ stray \in BOOLEAN
      /\ note # "refused" /\ next'.mov = next.mov
  BY <1>1, <1>2 DEF IInv, ProcessInv, Doing
<1>4. LabelOk("plan", mode, s, next', result')
  BY LivePlans
<1>5. todo'.mov \in 0 .. N
  BY <1>1, <1>2, <1>3, StepRelies DEF Popped, StepOk
<1>. QED
  BY <1>1, <1>2, <1>3, <1>4, <1>5, MovesOn DEF SessionLabels

\* The same for a step that only recovery executes.
LEMMA RecoveryStep ==
    ASSUME NEW step \in Singles \ ({"close"} \cup SweepSteps \cup LiveSteps), NEW ok, NEW s,
           IInv, StepAppends(step, ok, s), ok, Good(s)
    PROVE  IInv'
<1>1. HeadOk(step, todo.mov, mode, st, tree)
  BY StepRelies DEF StepAppends
<1>2. mode # "live"
  BY <1>1 DEF HeadOk, Scheduled
<1>. QED
  BY <1>2, StepAppendsMoves

\* What a failure costs is what the policy and the fallbacks still allow.
LEMMA ClassifiedGood ==
    ASSUME NEW s, NEW kind \in FailureKinds, NEW remaining, Good(s), AttemptInFlight(s),
           s.open.phase # "adapter", ~PendingDecision(s)
    PROVE  Good(AttemptFailed(s, Classify(s, kind, remaining)))
<1>1. CASE kind \in Infrastructure /\ UnvisitedFallbacks(s) # {} /\ remaining > 0
  <2>1. Classify(s, kind, remaining) = "fallback"
    BY <1>1 DEF Classify, ImmediatelyTerminal, Quality, Infrastructure
  <2>. QED
    BY <1>1, <2>1, ChargedOtherGood DEF AttemptFailed
<1>2. CASE kind \in Infrastructure /\ ~(UnvisitedFallbacks(s) # {} /\ remaining > 0)
  <2>1. Classify(s, kind, remaining) = "terminal"
    BY <1>2 DEF Classify, ImmediatelyTerminal, Quality, Infrastructure
  <2>. QED
    BY <2>1, ChargedOtherGood DEF AttemptFailed
<1>3. CASE kind \in Quality /\ s.retries[s.att.mov] < Retries /\ remaining > 0
  <2>1. Classify(s, kind, remaining) = "quality_retry"
    BY <1>3 DEF Classify, ImmediatelyTerminal, Quality, Infrastructure
  <2>. QED
    BY <1>3, <2>1, ChargedRetryGood DEF AttemptFailed
<1>4. CASE kind \in Quality /\ ~(s.retries[s.att.mov] < Retries /\ remaining > 0)
  <2>1. Classify(s, kind, remaining) = "terminal"
    BY <1>4 DEF Classify, ImmediatelyTerminal, Quality, Infrastructure
  <2>. QED
    BY <2>1, ChargedOtherGood DEF AttemptFailed
<1>5. CASE kind \in ImmediatelyTerminal
  <2>1. Classify(s, kind, remaining) = "terminal"
    BY <1>5 DEF Classify, ImmediatelyTerminal, Quality, Infrastructure
  <2>. QED
    BY <2>1, ChargedOtherGood DEF AttemptFailed
<1>. QED
  BY <1>1, <1>2, <1>3, <1>4, <1>5 DEF FailureKinds

\* An attempt that fails leaves the rest of the journal as it was.
LEMMA FailedKeeps ==
    ASSUME NEW s, NEW d, Good(s), Calm(s), AttemptInFlight(s)
    PROVE  In(AttemptFailed(s, d), "FAILED", s.open.phase)
           /\ ~AttemptFailed(s, d).att.failedHere
<1>1. s \in Projections /\ ~s.att.failedHere
  BY DEF Good, AttemptInv, AttemptInFlight
<1> DEFINE t == Charged(s, d)
<1>2. /\ t.run = s.run /\ t.open = s.open /\ t.evidence = s.evidence
      /\ t.terminalized = s.terminalized /\ t.att.state = "FAILED"
      /\ t.att.failedHere = s.att.failedHere /\ t.att.pending = s.att.pending
      /\ t.att.gate = s.att.gate
  BY <1>1 DEF Charged, Projections, Attempts
<1> HIDE DEF t
<1>3. In(t, "FAILED", s.open.phase) /\ ~t.att.failedHere
  BY <1>1, <1>2 DEF In, Calm, PendingDecision, CompositionTerminals
<1>. QED
  BY <1>3 DEF t, AttemptFailed

\* The movement of an attempt under way runs.
LEMMA UnderwayRuns ==
    ASSUME NEW s, Good(s), Calm(s), Underway(s)
    PROVE  s.att.mov \in Movements /\ s.mov[s.att.mov] = "RUNNING"
  BY DEF Good, AttemptInv, MovementInv, Underway, Calm, Projections, Attempts

\* A verified attempt that completes leaves the rest of the journal as it was.
LEMMA CompletedKeeps ==
    ASSUME NEW s, Good(s), Calm(s), s.open.phase = "none", AttemptCompletedOk(s)
    PROVE  /\ In(AttemptCompleted(s), "COMPLETED", "none")
           /\ ~AttemptCompleted(s).att.succeededHere /\ AttemptCompleted(s).att.mov = s.att.mov
<1>1. s \in Projections /\ ~s.att.succeededHere
  BY DEF Good, AttemptInv, AttemptCompletedOk
<1> DEFINE t == AttemptCompleted(s)
<1>2. /\ t.run = s.run /\ t.open = s.open /\ t.evidence = s.evidence
      /\ t.terminalized = s.terminalized /\ t.att.state = "COMPLETED" /\ t.att.mov = s.att.mov
      /\ t.att.succeededHere = s.att.succeededHere /\ t.att.pending = s.att.pending
      /\ t.att.gate = s.att.gate
  BY <1>1 DEF AttemptCompleted, Projections, Attempts
<1> HIDE DEF t
<1>3. In(t, "COMPLETED", "none") /\ ~t.att.succeededHere /\ t.att.mov = s.att.mov
  BY <1>1, <1>2 DEF In, Calm, PendingDecision, CompositionTerminals
<1>. QED
  BY <1>3 DEF t

\* A completed attempt's movement succeeds, and the run with the final one.
LEMMA CompletedSucceeds ==
    ASSUME NEW s, Good(s), Calm(s), s.open.phase = "none", s.att.state = "COMPLETED",
           ~s.att.succeededHere
    PROVE  /\ MovementSucceededOk(s, s.att.mov, s.att.changeSet, s.att.mov = Final)
           /\ Good(MovementSucceeded(s, s.att.mov, s.att.mov = Final))
<1>1. s.att.mov \in Movements /\ s.mov[s.att.mov] = "RUNNING"
  BY UnderwayRuns DEF Underway
<1>2. s.att.changeSet <=> s.att.mov \in Writers
  BY <1>1 DEF Good, AttemptInv
<1>3. s.att.mov = Final => s.candidate
  BY <1>1 DEF Good, MovementInv
<1>4. MovementSucceededOk(s, s.att.mov, s.att.changeSet, s.att.mov = Final)
  BY <1>1, <1>2, <1>3 DEF MovementSucceededOk, Calm
<1>5. CASE s.att.mov = Final
  <2>1. Good(MovementSucceeded(s, s.att.mov, TRUE))
    BY <1>1, <1>5, MovementSucceededFinalGood
  <2>2. (s.att.mov = Final) = TRUE
    BY <1>5
  <2>. QED
    BY <1>4, <2>1, <2>2
<1>6. CASE s.att.mov # Final
  <2>1. Good(MovementSucceeded(s, s.att.mov, FALSE))
    BY <1>1, <1>6, MovementSucceededOtherGood
  <2>2. (s.att.mov = Final) = FALSE
    BY <1>6
  <2>. QED
    BY <1>4, <2>1, <2>2
<1>. QED
  BY <1>5, <1>6

\* A finite set of numbers that is not empty has a largest one.
LEMMA LargestOne ==
    ASSUME NEW S, S \subseteq Movements, S # {}
    PROVE  \E k \in S : \A j \in S : j <= k
<1> DEFINE D == {N - x : x \in S}
<1>1. D \subseteq Nat /\ D # {}
  <2>1. ASSUME NEW x \in S PROVE N - x \in Nat
    <3>1. x \in 1 .. N /\ N \in Nat
      BY ScoreAssumption DEF Movements
    <3>. QED
      BY <3>1
  <2>. QED
    BY <2>1
<1>2. Min(D) \in D /\ \A x \in D : Min(D) <= x
  <2> HIDE DEF D
  <2>. QED
    BY <1>1, MinIsLeast
<1>3. PICK k \in S : Min(D) = N - k
  BY <1>2
<1>4. ASSUME NEW j \in S PROVE j <= k
  <2>1. N - j \in D
    OBVIOUS
  <2>2. N - k <= N - j
    BY <1>2, <1>3, <2>1
  <2>3. j \in Int /\ k \in Int /\ N \in Int
    BY ScoreAssumption DEF Movements
  <2>. QED
    BY <2>2, <2>3
<1>. QED
  BY <1>4

\* What an event leaves as it was when it is about the attempt alone.
SameAround(s, t) ==
    /\ t.run = s.run /\ t.open = s.open /\ t.candidate = s.candidate /\ t.mov = s.mov
    /\ t.evidence = s.evidence /\ t.terminalized = s.terminalized
    /\ t.att.mov = s.att.mov /\ t.att.pending = s.att.pending /\ t.att.gate = s.att.gate

\* Such an event leaves the run as calm as it was.
LEMMA AroundIsCalm ==
    ASSUME NEW s, NEW t, SameAround(s, t)
    PROVE  Calm(t) = Calm(s) /\ Terminal(t) = Terminal(s)
           /\ PendingDecision(t) = PendingDecision(s)
           /\ CompositionTerminals(t) = CompositionTerminals(s)
  BY DEF SameAround, Calm, Terminal, PendingDecision, CompositionTerminals

\* Evidence that is not terminalized is to be concluded.
LEMMA TerminalsConclude ==
    ASSUME NEW s, NEW target \in CompositionTerminals(s), Good(s)
    PROVE  Concluding(s, target)
<1>1. PhaseInv(s) /\ target \in s.evidence
  BY DEF Good, CompositionTerminals
<1>. QED
  BY <1>1 DEF PhaseInv, Concluding

\* The consequence of recorded evidence: its movement fails, or the run does.
LEMMA ConsequenceGood ==
    ASSUME NEW s, NEW target, Good(s), Concluding(s, target)
    PROVE  IF target = 0
           THEN RunFailedOk(s) /\ Good(RunFailed([s EXCEPT !.terminalized = @ \cup {target}]))
           ELSE /\ MovementFailedOk(s, target)
                /\ Good(MovementFailed([s EXCEPT !.terminalized = @ \cup {target}], target, FALSE))
<1>1. s \in Projections /\ PhaseInv(s) /\ target \in s.evidence
  BY DEF Good, Concluding
<1>2. /\ s.run = "RUNNING" /\ (target # 0 => s.mov[target] = "RUNNING") /\ target \in 0 .. N
      /\ s.open.phase = "none" /\ ~PendingDecision(s) /\ (Settled(s) \/ Owes(s))
      /\ CompositionTerminals(s) \subseteq {target}
  BY <1>1 DEF Concluding, Projections
<1> DEFINE t == [s EXCEPT !.terminalized = @ \cup {target}]
<1>3. Good(t)
  BY <1>1, TerminalizedGood
<1>4. /\ t.run = s.run /\ t.mov = s.mov /\ t.open = s.open /\ t.att = s.att
      /\ t.evidence = s.evidence /\ t.terminalized = s.terminalized \cup {target}
  BY <1>1 DEF Projections
<1> HIDE DEF t
<1>5. CompositionTerminals(t) = {} /\ Calm(t) /\ t.open.phase = "none"
  <2>1. s.evidence \ (s.terminalized \cup {target}) = {}
    BY <1>2 DEF CompositionTerminals
  <2>2. CompositionTerminals(t) = {}
    BY <1>4, <2>1 DEF CompositionTerminals
  <2>3. t.run = "RUNNING" /\ t.open.phase = "none"
    BY <1>2, <1>4
  <2>4. ~PendingDecision(t)
    <3>1. t.att = s.att
      BY <1>4
    <3>. QED
      BY <1>2, <3>1 DEF PendingDecision
  <2>. QED
    BY <2>2, <2>3, <2>4 DEF Calm
<1>6. CASE target = 0
  <2>1. Good(RunFailed(t))
    BY <1>3, <1>5, RunFailedGood
  <2>. QED
    BY <1>2, <1>6, <2>1 DEF RunFailedOk, t
<1>7. CASE target # 0
  <2>1. ~Underway(t)
    <3>1. ~(s.att.asked < s.att.raised) \/ s.att.asked # s.att.raised
      BY <1>1 DEF Projections, Attempts
    <3>2. ~Underway(s)
      BY <1>2, <3>1 DEF Settled, Owes, OwesRetry, OwesResume, Underway
    <3>. QED
      BY <1>4, <3>2 DEF Underway
  <2>2. target \in Movements
    BY <1>2, <1>7, ScoreAssumption DEF Movements
  <2>3. Good(MovementFailed(t, target, FALSE))
    BY <1>2, <1>3, <1>4, <1>5, <1>7, <2>1, <2>2, MovementFailedGood DEF Calm
  <2>. QED
    BY <1>2, <1>7, <2>3 DEF MovementFailedOk, t
<1>. QED
  BY <1>6, <1>7

\* Closing an interval leaves the run and the attempt as they were.
LEMMA StoppedKeeps ==
    ASSUME NEW s, NEW charged \in Nat, NEW reason, Good(s)
    PROVE  LET t == ExecutionStopped(s, charged, reason)
           IN  /\ Good(t) /\ t.open.phase = "none" /\ t.run = s.run /\ t.att = s.att
               /\ t.mov = s.mov /\ t.candidate = s.candidate /\ t.evidence = s.evidence
               /\ t.terminalized = s.terminalized /\ t.selected = s.selected
               /\ t.visited = s.visited
<1>1. s \in Projections
  BY DEF Good
<1> DEFINE t == ExecutionStopped(s, charged, reason)
<1>2. Good(t)
  BY ExecutionStoppedGood
<1>3. /\ t.open.phase = "none" /\ t.run = s.run /\ t.att = s.att
      /\ t.mov = s.mov /\ t.candidate = s.candidate /\ t.evidence = s.evidence
      /\ t.terminalized = s.terminalized /\ t.selected = s.selected /\ t.visited = s.visited
  BY <1>1 DEF ExecutionStopped, Projections, NoInterval
<1>. QED
  BY <1>2, <1>3

\* Two projections that agree on the run, the attempt and the evidence.
SameStanding(s, t) ==
    /\ t.run = s.run /\ t.att = s.att /\ t.mov = s.mov /\ t.candidate = s.candidate
    /\ t.evidence = s.evidence /\ t.terminalized = s.terminalized /\ t.visited = s.visited

\* They agree on what is owed, due and pending too.
LEMMA StandingKeeps ==
    ASSUME NEW s, NEW t, SameStanding(s, t)
    PROVE  /\ Calm(t) = Calm(s) /\ Terminal(t) = Terminal(s) /\ Settled(t) = Settled(s)
           /\ Owes(t) = Owes(s) /\ OwesRetry(t) = OwesRetry(s) /\ OwesResume(t) = OwesResume(s)
           /\ CandidateDue(t) = CandidateDue(s) /\ GateRequired(t) = GateRequired(s)
           /\ CompositionTerminals(t) = CompositionTerminals(s) /\ Realize(t) = Realize(s)
           /\ PendingDecision(t) = PendingDecision(s) /\ Planned(t) = Planned(s)
<1>1. /\ t.run = s.run /\ t.att = s.att /\ t.mov = s.mov /\ t.candidate = s.candidate
      /\ t.evidence = s.evidence /\ t.terminalized = s.terminalized /\ t.visited = s.visited
  BY DEF SameStanding
<1>2. /\ CompositionTerminals(t) = CompositionTerminals(s)
      /\ PendingDecision(t) = PendingDecision(s) /\ Terminal(t) = Terminal(s)
      /\ GateRequired(t) = GateRequired(s) /\ Planned(t) = Planned(s)
  BY <1>1 DEF CompositionTerminals, PendingDecision, Terminal, GateRequired, Planned
<1>3. /\ Settled(t) = Settled(s) /\ OwesRetry(t) = OwesRetry(s) /\ OwesResume(t) = OwesResume(s)
  BY <1>1 DEF Settled, OwesRetry, OwesResume
<1>4. WritersSucceeded(t) = WritersSucceeded(s)
  BY <1>1 DEF WritersSucceeded
<1>5. UnvisitedFallbacks(t) = UnvisitedFallbacks(s)
  BY <1>1 DEF UnvisitedFallbacks
<1>6. Realize(t) = Realize(s)
  BY <1>1, <1>5 DEF Realize, NextUnvisitedFallback
<1>7. CandidateDue(t) = CandidateDue(s)
  BY <1>1, <1>4 DEF CandidateDue
<1>8. Calm(t) = Calm(s) /\ Owes(t) = Owes(s)
  BY <1>1, <1>2, <1>3 DEF Calm, Owes
<1>. QED
  BY <1>2, <1>3, <1>6, <1>7, <1>8

\* What a composition is for stays valid while an interval opens or closes.
LEMMA GoalStands ==
    ASSUME NEW s, NEW t, NEW g, NEW how, SameStanding(s, t)
    PROVE  /\ GoalOk(s, g) => GoalOk(t, g)
           /\ CandidateOk(s, g) => CandidateOk(t, g)
           /\ ComposeOk(s, g, how) => ComposeOk(t, g, how)
<1>1. /\ Settled(t) = Settled(s) /\ OwesRetry(t) = OwesRetry(s) /\ OwesResume(t) = OwesResume(s)
      /\ CandidateDue(t) = CandidateDue(s) /\ Realize(t) = Realize(s)
      /\ t.mov = s.mov /\ t.att = s.att
  BY StandingKeeps DEF SameStanding
<1>2. /\ GoalOk(s, g) => GoalOk(t, g)
  BY <1>1 DEF GoalOk
<1>3. /\ CandidateOk(s, g) => CandidateOk(t, g)
  BY <1>1 DEF CandidateOk
<1>4. RecomposeOk(s, g) => RecomposeOk(t, g)
  BY <1>1 DEF RecomposeOk
<1>. QED
  BY <1>1, <1>2, <1>3, <1>4 DEF ComposeOk

\* Holding or releasing a run for decisions changes the run's and the movements' states only.
LEMMA RefreshKeeps ==
    ASSUME NEW s \in Projections, ~Terminal(s)
    PROVE  /\ RefreshWaitingHuman(s).att = s.att /\ RefreshWaitingHuman(s).open = s.open
           /\ RefreshWaitingHuman(s).evidence = s.evidence
           /\ RefreshWaitingHuman(s).terminalized = s.terminalized
           /\ RefreshWaitingHuman(s).candidate = s.candidate
           /\ ~Terminal(RefreshWaitingHuman(s))
  BY DEF RefreshWaitingHuman, Terminal, Projections

\* A question that is asked leaves its attempt blocked.
LEMMA AskedKeeps ==
    ASSUME NEW s, Good(s), QuestionRequestedOk(s), ~Terminal(s)
    PROVE  LET t == QuestionRequested(s)
           IN  /\ ~Terminal(t) /\ t.open = s.open /\ t.att.state = "BLOCKED"
               /\ CompositionTerminals(t) = CompositionTerminals(s)
               /\ t.att.raised = s.att.raised /\ t.att.asked = s.att.asked + 1
<1>. s \in Projections
  BY DEF Good
<1> DEFINE u == [s EXCEPT !.att.asked = @ + 1, !.att.pending = @ + 1]
<1>1. /\ u \in Projections /\ u.run = s.run /\ u.open = s.open /\ u.evidence = s.evidence
      /\ u.terminalized = s.terminalized /\ u.att.state = s.att.state
      /\ u.att.raised = s.att.raised /\ u.att.asked = s.att.asked + 1
  <2>1. s.att \in Attempts /\ s.att.asked + 1 \in Nat /\ s.att.pending + 1 \in Nat
    BY DEF Projections, Attempts
  <2>. QED
    BY <2>1 DEF Projections, Attempts
<1>2. QuestionRequested(s) = RefreshWaitingHuman(u)
  BY DEF QuestionRequested
<1> HIDE DEF u
<1>3. ~Terminal(u)
  BY <1>1 DEF Terminal
<1>. QED
  BY <1>1, <1>2, <1>3, RefreshKeeps DEF CompositionTerminals, QuestionRequestedOk

\* An answer leaves its attempt blocked.
LEMMA AnsweredKeeps ==
    ASSUME NEW s, Good(s), QuestionResolvedOk(s)
    PROVE  LET t == QuestionResolved(s)
           IN  /\ ~Terminal(s) /\ ~Terminal(t) /\ t.open = s.open
               /\ s.att.state = "BLOCKED" /\ t.att.state = "BLOCKED"
               /\ CompositionTerminals(t) = CompositionTerminals(s)
               /\ t.att.raised = s.att.raised /\ t.att.asked = s.att.asked
<1>. s \in Projections
  BY DEF Good
<1>0. s.att.state = "BLOCKED" /\ ~Terminal(s) /\ s.att.pending > 0
  <2>1. /\ s.att.raised \in Nat /\ s.att.asked \in Nat /\ s.att.pending \in Nat
    BY DEF Projections, Attempts
  <2>2. s.att.raised > 0
    BY <2>1 DEF QuestionResolvedOk, Good, AttemptInv
  <2>. QED
    BY <2>2 DEF Good, AttemptInv, RunInv, PendingDecision, QuestionResolvedOk
<1> DEFINE u == [s EXCEPT !.att.pending = @ - 1]
<1>1. /\ u \in Projections /\ u.run = s.run /\ u.open = s.open /\ u.evidence = s.evidence
      /\ u.terminalized = s.terminalized /\ u.att.state = s.att.state
      /\ u.att.raised = s.att.raised /\ u.att.asked = s.att.asked
  <2>1. s.att \in Attempts /\ s.att.pending \in Nat
    BY DEF Projections, Attempts
  <2>2. s.att.pending - 1 \in Nat
    BY <1>0, <2>1
  <2>. QED
    BY <2>1, <2>2 DEF Projections, Attempts
<1>2. QuestionResolved(s) = RefreshWaitingHuman(u)
  BY DEF QuestionResolved
<1> HIDE DEF u
<1>3. ~Terminal(u)
  BY <1>0, <1>1 DEF Terminal
<1>. QED
  BY <1>0, <1>1, <1>2, <1>3, RefreshKeeps DEF CompositionTerminals

\* One answer at a time keeps the projection in order.
LEMMA QuestionResolvedGood ==
    ASSUME NEW s, Good(s), QuestionResolvedOk(s)
    PROVE  Good(QuestionResolved(s))
<1>1. s.att.pending \in Nat /\ s.att.pending > 0
  BY DEF Good, Projections, Attempts, QuestionResolvedOk
<1>2. CASE s.att.pending = 1
  BY <1>2, QuestionResolvedFreesGood
<1>3. CASE s.att.pending > 1
  BY <1>3, QuestionResolvedHoldsGood
<1>. QED
  BY <1>1, <1>2, <1>3

\* After the first of two steps the second is left.
LEMMA AfterTwo ==
    ASSUME NEW first, NEW second, todo.steps = <<first, second>>
    PROVE  Rest = "step" /\ Popped.mov = todo.mov /\ Popped.steps = <<second>>
<1>1. Popped.steps = Tail(todo.steps) /\ Popped.mov = todo.mov
  BY DEF Popped
<1>. QED
  BY <1>1, TwoSteps DEF Rest

\* After the first of three steps the other two are left.
LEMMA AfterThree ==
    ASSUME NEW first, NEW second, NEW third, todo.steps = <<first, second, third>>
    PROVE  Rest = "step" /\ Popped.mov = todo.mov /\ Popped.steps = <<second, third>>
<1>1. Popped.steps = Tail(todo.steps) /\ Popped.mov = todo.mov
  BY DEF Popped
<1>. QED
  BY <1>1, ThreeSteps DEF Rest

\* What every step but a question's may count on.
LEMMA StepIsCalm ==
    ASSUME NEW step, IInv, Doing(step), step \notin {"question", "compose_terminal"}
    PROVE  Good(st) /\ Calm(st)
  BY StepRelies DEF HeadOk, Calm, IInv

(***************************************************************************)
(* Recovery's steps                                                        *)
(***************************************************************************)
\* A running attempt that recovery ends is in flight, and its interval is closed.
LEMMA RecoverAttemptKeeps == ASSUME IInv, RecoverAttempt PROVE IInv'
<1>1. PICK step \in {"fail_unstarted", "fail_unprobed", "fail_incomplete", "fail_lost"} :
        StepAppends(step, AttemptFailedOk(st),
                    AttemptFailed(st, Classify(st, RecoveredKind(step), Remaining(st))))
  BY DEF RecoverAttempt
<1>2. HeadOk(step, todo.mov, mode, st, tree) /\ Good(st) /\ Calm(st)
  BY <1>1, StepRelies, StepIsCalm DEF StepAppends
<1>3. AttemptInFlight(st) /\ st.open.phase = "none"
  BY <1>1, <1>2 DEF HeadOk, Continued, AttemptInFlight, Starting
<1>4. RecoveredKind(step) \in FailureKinds
  BY <1>1 DEF RecoveredKind, FailureKinds, Infrastructure, Quality
<1>5. Good(AttemptFailed(st, Classify(st, RecoveredKind(step), Remaining(st))))
  BY <1>2, <1>3, <1>4, ClassifiedGood DEF Calm
<1>6. step \in Singles \ ({"close"} \cup SweepSteps \cup LiveSteps)
  BY <1>1 DEF Singles, SweepSteps, LiveSteps
<1>. QED
  BY <1>1, <1>3, <1>5, <1>6, RecoveryStep DEF AttemptFailedOk

\* A terminal failure ends its movement.
LEMMA RecoverDispositionKeeps == ASSUME IInv, RecoverDisposition PROVE IInv'
<1>1. StepAppends("realize", MovementFailedOk(st, st.att.mov),
                  MovementFailed(st, st.att.mov, TRUE))
  BY DEF RecoverDisposition
<1>2. HeadOk("realize", todo.mov, mode, st, tree) /\ Good(st) /\ Calm(st)
  BY <1>1, StepRelies, StepIsCalm DEF StepAppends
<1>3. st.open.phase = "none" /\ st.att.state = "FAILED" /\ Underway(st)
  BY <1>2 DEF HeadOk, Continued, Underway
<1>4. Good(MovementFailed(st, st.att.mov, TRUE)) /\ MovementFailedOk(st, st.att.mov)
  BY <1>2, <1>3, UnderwayRuns, AttemptEndsMovementGood DEF MovementFailedOk
<1>. QED
  BY <1>1, <1>4, RecoveryStep DEF Singles, SweepSteps, LiveSteps

\* The run ends with the movement that failed.
LEMMA RecoverRunFailedKeeps == ASSUME IInv, RecoverRunFailed PROVE IInv'
<1>1. StepAppends("fail_run", RunFailedOk(st), RunFailed(st))
  BY DEF RecoverRunFailed
<1>2. HeadOk("fail_run", todo.mov, mode, st, tree) /\ Good(st) /\ Calm(st)
  BY <1>1, StepRelies, StepIsCalm DEF StepAppends
<1>3. Good(RunFailed(st)) /\ RunFailedOk(st)
  BY <1>2, RunFailedGood DEF HeadOk, RunFailedOk, Calm
<1>. QED
  BY <1>1, <1>3, RecoveryStep DEF Singles, SweepSteps, LiveSteps

\* A question that was raised is asked.
LEMMA RecoverQuestionKeeps == ASSUME IInv, RecoverQuestion PROVE IInv'
<1>1. StepAppends("question", QuestionRequestedOk(st), QuestionRequested(st))
  BY DEF RecoverQuestion
<1>2. HeadOk("question", todo.mov, mode, st, tree) /\ Good(st)
  BY <1>1, StepRelies DEF StepAppends, IInv
<1>3. QuestionRequestedOk(st) /\ Underway(st)
  BY <1>2 DEF HeadOk, Continued, Underway, QuestionRequestedOk
<1>4. st.mov[st.att.mov] \in {"RUNNING", "WAITING_HUMAN"}
  BY <1>2, <1>3 DEF Good, MovementInv
<1>5. Good(QuestionRequested(st))
  BY <1>2, <1>3, <1>4, QuestionRequestedGood DEF HeadOk
<1>. QED
  BY <1>1, <1>3, <1>5, RecoveryStep DEF Singles, SweepSteps, LiveSteps

\* The change set is recorded from the worktree as it is found.
LEMMA RecoverCaptureKeeps == ASSUME IInv, RecoverCapture PROVE IInv'
<1>1. Doing("capture") /\ Rest = "plan" /\ sess = 0
  BY SingleStep, StepWithoutSession DEF RecoverCapture, Singles, SweepSteps
<1>2. HeadOk("capture", todo.mov, mode, st, tree) /\ Good(st) /\ mode = "recovery"
  BY <1>1, StepRelies DEF HeadOk, Scheduled, LiveSteps, IInv, ProcessInv
<1>3. ChangeSetRecordedOk(st) /\ Good(ChangeSetRecorded(st))
  BY <1>2, ChangeSetRecordedGood DEF HeadOk, Continued, ChangeSetRecordedOk
<1>4. /\ pc' = "plan" /\ st' = ChangeSetRecorded(st) /\ todo' = Popped /\ tree' = "intact"
      /\ UNCHANGED <<mode, next, left, result, note, sess, escaped, stray>>
  BY <1>1, <1>3 DEF RecoverCapture, AppendEvent
<1>5. /\ todo'.mov \in 0 .. N /\ next'.mov \in 0 .. N /\ left' \in 0 .. Budget
      /\ stray' \in BOOLEAN /\ note' # "refused"
  BY <1>1, <1>4, StepRelies DEF IInv, ProcessInv, Doing, Popped, StepOk
<1>6. LabelOk("plan", "recovery", ChangeSetRecorded(st), next', result')
  BY RecoveryPlans
<1>. QED
  BY <1>1, <1>2, <1>3, <1>4, <1>5, <1>6
     DEF IInv, SessInv, ProcessInv, AppendsAreAdmitted, SessionLabels

\* The subject is verified once.
LEMMA RecoverVerifyKeeps == ASSUME IInv, RecoverVerify PROVE IInv'
<1>1. StepAppends("verify", VerificationPassedOk(st), VerificationPassed(st))
  BY DEF RecoverVerify
<1>2. HeadOk("verify", todo.mov, mode, st, tree) /\ Good(st)
  BY <1>1, StepRelies DEF StepAppends, IInv
<1>3. VerificationPassedOk(st) /\ Good(VerificationPassed(st))
  BY <1>2, VerificationPassedGood DEF HeadOk, Continued, VerificationPassedOk
<1>. QED
  BY <1>1, <1>3, RecoveryStep DEF Singles, SweepSteps, LiveSteps

\* A failure that recovery journals for an attempt whose interval is closed.
LEMMA RecoveredFailure ==
    ASSUME NEW step \in {"verify", "fail_acceptance", "mismatch"}, NEW kind \in FailureKinds,
           IInv, StepAppends(step, AttemptFailedOk(st),
                             AttemptFailed(st, Classify(st, kind, Remaining(st))))
    PROVE  IInv'
<1>1. HeadOk(step, todo.mov, mode, st, tree) /\ Good(st) /\ Calm(st)
  BY StepRelies, StepIsCalm DEF StepAppends
<1>2. AttemptInFlight(st) /\ st.open.phase = "none"
  BY <1>1 DEF HeadOk, Continued, Resumes, AttemptInFlight
<1>3. Good(AttemptFailed(st, Classify(st, kind, Remaining(st))))
  BY <1>1, <1>2, ClassifiedGood DEF Calm
<1>4. step \in Singles \ ({"close"} \cup SweepSteps \cup LiveSteps)
  BY DEF Singles, SweepSteps, LiveSteps
<1>. QED
  BY <1>2, <1>3, <1>4, RecoveryStep DEF AttemptFailedOk

\* A denied grant fails the attempt.
LEMMA RecoverVerifyDeniedKeeps == ASSUME IInv, RecoverVerifyDenied PROVE IInv'
  BY RecoveredFailure DEF RecoverVerifyDenied, FailureKinds, ImmediatelyTerminal

\* The acceptance is started after the verification.
LEMMA RecoverAcceptKeeps == ASSUME IInv, RecoverAccept PROVE IInv'
<1>1. StepAppends("accept", AcceptanceStartedOk(st), AcceptanceStarted(st))
  BY DEF RecoverAccept
<1>2. HeadOk("accept", todo.mov, mode, st, tree) /\ Good(st)
  BY <1>1, StepRelies DEF StepAppends, IInv
<1>3. AcceptanceStartedOk(st) /\ Good(AcceptanceStarted(st))
  BY <1>2, AcceptanceStartedGood DEF HeadOk, Continued, AcceptanceStartedOk
<1>. QED
  BY <1>1, <1>3, RecoveryStep DEF Singles, SweepSteps, LiveSteps

\* An acceptance that failed, or whose subject changed, is failed.
LEMMA RecoverAcceptanceFailureKeeps == ASSUME IInv, RecoverAcceptanceFailure PROVE IInv'
<1>1. PICK step \in {"fail_acceptance", "mismatch"} :
        StepAppends(step, AcceptanceFailedOk(st),
                    AcceptanceFailed(st, Classify(st, "acceptance", Remaining(st))))
  BY DEF RecoverAcceptanceFailure
<1>2. HeadOk(step, todo.mov, mode, st, tree)
  BY <1>1, StepRelies DEF StepAppends
<1>3. AcceptanceFailedOk(st) /\ AttemptFailedOk(st)
  BY <1>1, <1>2 DEF HeadOk, Resumes, AcceptanceFailedOk, AttemptFailedOk, AttemptInFlight
<1>4. StepAppends(step, AttemptFailedOk(st),
                  AttemptFailed(st, Classify(st, "acceptance", Remaining(st))))
  BY <1>1, <1>3 DEF StepAppends, AppendEvent, AcceptanceFailed, AttemptFailed
<1>. QED
  BY <1>4, RecoveredFailure DEF FailureKinds, Quality

\* The evaluation is rebuilt once every criterion has passed.
LEMMA RecoverEvaluationKeeps == ASSUME IInv, RecoverEvaluation PROVE IInv'
<1>1. StepAppends("evaluate", EvaluationCompletedOk(st), EvaluationCompleted(st, "none"))
  BY DEF RecoverEvaluation
<1>2. HeadOk("evaluate", todo.mov, mode, st, tree) /\ Good(st)
  BY <1>1, StepRelies DEF StepAppends, IInv
<1>3. EvaluationCompletedOk(st) /\ Good(EvaluationCompleted(st, "none"))
  BY <1>2, EvaluationCompletedGood DEF HeadOk, Resumes, Evaluating, EvaluationCompletedOk
<1>. QED
  BY <1>1, <1>3, RecoveryStep DEF Singles, SweepSteps, LiveSteps

\* The gate is asked for once.
LEMMA RecoverGateKeeps == ASSUME IInv, RecoverGate PROVE IInv'
<1>1. StepAppends("gate", GateRequestedOk(st), GateRequested(st))
  BY DEF RecoverGate
<1>2. HeadOk("gate", todo.mov, mode, st, tree) /\ Good(st) /\ Calm(st)
  BY <1>1, StepRelies, StepIsCalm DEF StepAppends
<1>3. GateRequestedOk(st) /\ Good(GateRequested(st))
  BY <1>2, GateRequestedGood DEF HeadOk, Resumes, GateRequestedOk
<1>. QED
  BY <1>1, <1>3, RecoveryStep DEF Singles, SweepSteps, LiveSteps

\* A decision of several steps is known by its first one.
LEMMA SeveralSteps ==
    ASSUME NEW step, IInv, Doing(step)
    PROVE  /\ step = "budget_movement" => todo.steps = <<"budget_movement", "budget_run">>
           /\ step = "complete" => todo.steps = <<"complete", "succeed">>
           /\ step = "sweep_criterion" => todo.steps = <<"sweep_criterion", "verify_subject">>
           /\ step = "stabilize" => todo.steps = <<"stabilize", "close", "fail_unstarted">>
           /\ step = "sweep" =>
                 todo.steps \in {<<"sweep", "close", "fail_unprobed">>,
                                 <<"sweep", "close", "fail_incomplete">>}
           /\ step = "close" =>
                 todo.steps \in {<<"close">>, <<"close", "fail_unstarted">>,
                                 <<"close", "fail_unprobed">>, <<"close", "fail_incomplete">>}
<1>1. todo.steps \in StepShapes /\ Head(todo.steps) = step
  BY StepRelies DEF StepOk
<1>2. CASE todo.steps \in {<<x>> : x \in Singles}
  <2>1. PICK x \in Singles : todo.steps = <<x>>
    BY <1>2
  <2>2. step = x
    BY <1>1, <2>1, OneStep
  <2>. QED
    BY <2>1, <2>2 DEF Singles
<1>3. CASE todo.steps \notin {<<x>> : x \in Singles}
  BY <1>1, <1>3, TwoSteps, ThreeSteps DEF StepShapes
<1>. QED
  BY <1>2, <1>3

\* The movement succeeds after its attempt.
LEMMA RecoverSucceededKeeps == ASSUME IInv, RecoverSucceeded PROVE IInv'
<1>1. StepAppends("succeed", SucceededOk(todo.mov), Succeeded(todo.mov))
  BY DEF RecoverSucceeded
<1>2. HeadOk("succeed", todo.mov, mode, st, tree) /\ Good(st) /\ Calm(st)
  BY <1>1, StepRelies, StepIsCalm DEF StepAppends
<1>3. /\ st.open.phase = "none" /\ st.att.state = "COMPLETED" /\ ~st.att.succeededHere
      /\ todo.mov = st.att.mov /\ Underway(st)
  BY <1>2 DEF HeadOk, Continued, Underway
<1>4. Good(Succeeded(todo.mov)) /\ SucceededOk(todo.mov)
  BY <1>2, <1>3, CompletedSucceeds DEF Succeeded, SucceededOk
<1>. QED
  BY <1>1, <1>4, RecoveryStep DEF Singles, SweepSteps, LiveSteps

\* The evaluated attempt completes, and its movement is due to succeed.
LEMMA RecoverCompleteKeeps == ASSUME IInv, RecoverComplete PROVE IInv'
<1>1. StepAppends("complete", AttemptCompletedOk(st), AttemptCompleted(st))
  BY DEF RecoverComplete
<1>2. /\ StepOk(todo, mode, st, tree) /\ HeadOk("complete", todo.mov, mode, st, tree)
      /\ Good(st) /\ Calm(st) /\ sess = 0 /\ todo.steps = <<"complete", "succeed">>
  BY <1>1, StepRelies, StepIsCalm, StepWithoutSession, SeveralSteps DEF StepAppends, SweepSteps
<1>3. AttemptCompletedOk(st) /\ Good(AttemptCompleted(st))
  BY <1>2, AttemptCompletedGood DEF HeadOk, Resumes, AttemptCompletedOk
<1> DEFINE t == AttemptCompleted(st)
<1>4. In(t, "COMPLETED", "none") /\ ~t.att.succeededHere /\ t.att.mov = st.att.mov
  BY <1>2, <1>3, CompletedKeeps DEF HeadOk, AttemptCompletedOk
<1> HIDE DEF t
<1>5. Rest = "step" /\ Popped.mov = todo.mov /\ Popped.steps = <<"succeed">>
  BY <1>2, AfterTwo
<1>6. StepOk(Popped, mode, t, tree)
  <2>1. HeadOk("succeed", todo.mov, mode, t, tree)
    BY <1>2, <1>4
       DEF HeadOk, In, Calm, Terminal, Scheduled, Continued, Resumes, LiveSteps, SchedulingSteps
  <2>2. <<"succeed">> \in StepShapes /\ Head(<<"succeed">>) = "succeed"
    BY OneStep DEF StepShapes, Singles
  <2>3. <<"succeed">> # <<"close">>
    BY OneStep
  <2>. QED
    BY <1>2, <1>5, <2>1, <2>2, <2>3 DEF StepOk
<1>7. /\ pc' = "step" /\ st' = t /\ todo' = Popped
      /\ UNCHANGED <<mode, next, left, result, note, sess, escaped, stray, tree>>
  BY <1>1, <1>3, <1>5 DEF StepAppends, AppendEvent, t
<1>8. /\ next'.mov \in 0 .. N /\ left' \in 0 .. Budget /\ stray' \in BOOLEAN
      /\ note' # "refused"
  BY <1>1, <1>7 DEF IInv, ProcessInv, StepAppends, Doing
<1>9. Good(t) /\ StepOk(todo', mode, t, tree)
  BY <1>3, <1>6, <1>7 DEF t
<1>. QED
  BY <1>2, <1>7, <1>8, <1>9, StepsOn

\* The last movement to end takes the run with it, and only the final one can be last.
LEMMA FinalIsLast ==
    ASSUME NEW s, NEW m \in Movements, Good(s), Calm(s), s.mov[m] = "RUNNING", ~GateWaived
    PROVE  (m = Final) = AllOtherMovementsFinished(s, m)
<1>. s \in Projections /\ MovementInv(s) /\ s.run = "RUNNING" /\ Final # 0 /\ Final \in Movements
  BY FinalIsMovement DEF Good, Calm, GateWaived
<1>1. CASE m # Final
  <2>1. s.mov[Final] # "SUCCEEDED"
    BY DEF MovementInv
  <2>. QED
    BY <1>1, <2>1 DEF AllOtherMovementsFinished
<1>2. CASE m = Final
  <2> DEFINE Open == {k \in Movements : k # Final /\ s.mov[k] # "SUCCEEDED"}
  <2>1. Open = {}
    <3> SUFFICES ASSUME Open # {} PROVE FALSE
      OBVIOUS
    <3>1. Open \subseteq Movements
      OBVIOUS
    <3>2. PICK k \in Open : \A j \in Open : j <= k
      BY <3>1, LargestOne
    <3>3. k \in Movements \ {Final}
      BY <3>2
    <3>4. PICK j \in Movements : k \in Needs[j]
      BY <3>3, FinalAssumption
    <3>5. k < j
      BY <3>4, ScoreAssumption
    <3>6. s.mov[j] # "PENDING"
      <4>1. CASE j = Final
        BY <1>2, <4>1
      <4>2. CASE j # Final
        <5>1. j \notin Open
          BY <3>2, <3>3, <3>5 DEF Movements
        <5>. QED
          BY <4>2, <5>1
      <4>. QED
        BY <4>1, <4>2
    <3>7. s.mov[k] = "SUCCEEDED"
      BY <3>4, <3>6 DEF MovementInv
    <3>. QED
      BY <3>2, <3>7
  <2>. QED
    BY <1>2, <2>1 DEF AllOtherMovementsFinished
<1>. QED
  BY <1>1, <1>2

\* A rejected gate ends its movement, unless no final movement is there to end the run.
LEMMA RecoverGateRejectedKeeps == ASSUME IInv, RecoverGateRejected PROVE IInv'
<1>1. StepAppends("gate_rejected", GateRejectedOk(st, todo.mov, todo.mov = Final),
                  GateRejected(st, todo.mov, todo.mov = Final))
  BY DEF RecoverGateRejected
<1>2. /\ HeadOk("gate_rejected", todo.mov, mode, st, tree) /\ Good(st) /\ Calm(st)
      /\ sess = 0 /\ todo.mov \in 0 .. N /\ StepOk(todo, mode, st, tree)
  BY <1>1, StepRelies, StepIsCalm, StepWithoutSession
     DEF StepAppends, SweepSteps, IInv, ProcessInv
<1>3. /\ st.open.phase = "none" /\ st.att.state = "VERIFYING" /\ todo.mov = st.att.mov
      /\ st.att.gate = "rejected" /\ Underway(st)
  BY <1>2 DEF HeadOk, Resumes, Underway
<1>4. st.att.mov \in Movements /\ st.mov[st.att.mov] = "RUNNING"
  BY <1>2, <1>3, UnderwayRuns
<1>5. CASE GateRejectedOk(st, todo.mov, todo.mov = Final)
  <2>1. Good(GateRejected(st, todo.mov, todo.mov = Final))
    <3>1. CASE todo.mov = Final
      <4>1. (todo.mov = Final) = TRUE
        BY <3>1
      <4>2. Good(GateRejected(st, todo.mov, TRUE))
        BY <1>2, <1>3, <1>4, GateRejectedFinalGood
      <4>. QED
        BY <4>1, <4>2
    <3>2. CASE todo.mov # Final
      <4>1. (todo.mov = Final) = FALSE
        BY <3>2
      <4>2. Good(GateRejected(st, todo.mov, FALSE))
        BY <1>2, <1>3, <1>4, GateRejectedOtherGood
      <4>. QED
        BY <4>1, <4>2
    <3>. QED
      BY <3>1, <3>2
  <2>. QED
    BY <1>1, <1>5, <2>1, RecoveryStep DEF Singles, SweepSteps, LiveSteps
<1>6. CASE ~GateRejectedOk(st, todo.mov, todo.mov = Final)
  <2>1. GateWaived
    <3> SUFFICES ASSUME ~GateWaived PROVE FALSE
      OBVIOUS
    <3>1. (todo.mov = Final) = AllOtherMovementsFinished(st, todo.mov)
      BY <1>2, <1>3, <1>4, FinalIsLast
    <3>. QED
      BY <1>2, <1>3, <1>4, <1>6, <3>1 DEF GateRejectedOk, MovementFailedOk, Calm
  <2>2. RejectedWithoutFinal
    BY <1>3, <2>1 DEF RejectedWithoutFinal
  <2>3. /\ pc' = "down" /\ todo' = Popped
        /\ UNCHANGED <<st, mode, next, left, result, sess, escaped, stray, tree>>
    BY <1>1, <1>6 DEF StepAppends, AppendEvent, Exit
  <2>4. /\ todo'.mov \in 0 .. N /\ next'.mov \in 0 .. N /\ left' \in 0 .. Budget
    BY <1>2, <2>3 DEF IInv, ProcessInv, Popped
  <2>. QED
    BY <1>2, <2>2, <2>3, <2>4, Refused
<1>. QED
  BY <1>5, <1>6

\* A process that stops on its own, with the session it has left running.
LEMMA StopsLeaving ==
    ASSUME IInv, pc' = "down", note' # "refused", pc \notin SessionLabels,
           UNCHANGED <<st, mode, todo, next, left, tree, sess, stray>>
    PROVE  IInv'
<1>1. sess \in {0, 1} /\ (sess = 1 => LeftRunning(st, stray))
  BY DEF IInv, SessInv
<1>2. /\ todo'.mov \in 0 .. N /\ next'.mov \in 0 .. N /\ left' \in 0 .. Budget
      /\ stray' \in BOOLEAN
  BY DEF IInv, ProcessInv
<1>. QED
  BY <1>1, <1>2, Stops

\* A subject that cannot be verified stops recovery.
LEMMA SubjectUnverifiedKeeps == ASSUME IInv, SubjectUnverified PROVE IInv'
  BY StopsLeaving DEF SubjectUnverified, Exit, Doing, SessionLabels

\* A sweep that fails leaves the session to the next recovery.
LEMMA RecoverSweepFailsKeeps == ASSUME IInv, RecoverSweepFails PROVE IInv'
  BY StopsLeaving DEF RecoverSweepFails, Exit, SessionLabels

\* A criterion that was in flight is given up before the acceptance is failed.
LEMMA RecoverCriterionKeeps == ASSUME IInv, RecoverCriterion PROVE IInv'
<1>1. Doing("verify_subject") /\ sess = 0 /\ tree # "lost"
  BY StepWithoutSession DEF RecoverCriterion, SweepSteps
<1>2. /\ HeadOk("verify_subject", todo.mov, mode, st, tree) /\ Good(st) /\ Calm(st)
      /\ todo.mov \in 0 .. N /\ mode = "recovery" /\ tree \in {"intact", "altered", "lost"}
  BY <1>1, StepRelies, StepIsCalm
     DEF HeadOk, Scheduled, LiveSteps, IInv, ProcessInv
<1>3. /\ st.att.state = "VERIFYING" /\ st.att.accepting /\ st.att.inFlight
      /\ st.open.phase = "none" /\ ~Terminal(st)
  BY <1>1, <1>2 DEF HeadOk, Resumes
<1> DEFINE last == IF tree = "intact" THEN "fail_acceptance" ELSE "mismatch"
           t == IF tree = "intact" THEN CriterionCompleted(st, "ERROR") ELSE st
<1>4. Good(t)
  BY <1>2, <1>3, CriterionCompletedGood DEF CriterionCompletedOk
<1>5. SameAround(st, t) /\ t.att.state = "VERIFYING" /\ t.att.accepting
  BY <1>2, <1>3 DEF CriterionCompleted, SameAround, Good, Projections, Attempts
<1>6. CriterionCompletedOk(st)
  BY <1>3 DEF CriterionCompletedOk
<1>7. /\ pc' = "step" /\ st' = t /\ todo' = [todo EXCEPT !.steps = <<last>>]
      /\ UNCHANGED <<mode, next, left, result, note, sess, escaped, stray, tree>>
  BY <1>1, <1>6 DEF RecoverCriterion, AppendEvent, Doing
<1> HIDE DEF t
<1>8. Calm(t) /\ t.open.phase = "none" /\ ~Terminal(t)
  BY <1>2, <1>3, <1>5, AroundIsCalm DEF SameAround
<1>9. last \in {"fail_acceptance", "mismatch"}
  OBVIOUS
<1> HIDE DEF last
<1>10. HeadOk(last, todo.mov, mode, t, tree)
  BY <1>2, <1>5, <1>8, <1>9
     DEF HeadOk, Scheduled, Continued, Resumes, Calm, LiveSteps, SchedulingSteps
<1>11. /\ <<last>> \in StepShapes /\ Head(<<last>>) = last /\ <<last>> # <<"close">>
       /\ last # "close"
  BY <1>9, OneStep DEF StepShapes, Singles
<1>12. todo'.steps = <<last>> /\ todo'.mov = todo.mov
  BY <1>7
<1>13. StepOk(todo', mode, t, tree)
  BY <1>2, <1>10, <1>11, <1>12 DEF StepOk
<1>14. /\ next'.mov \in 0 .. N /\ left' \in 0 .. Budget /\ stray' \in BOOLEAN
       /\ note' # "refused"
  BY <1>1, <1>7 DEF IInv, ProcessInv, Doing
<1>. QED
  BY <1>1, <1>4, <1>7, <1>13, <1>14, StepsOn

\* The launch directory is removed once its session is gone.
LEMMA RemoveLaunchKeeps == ASSUME IInv, RemoveLaunch PROVE IInv'
<1>1. Doing("remove_launch") /\ Rest = "plan" /\ sess = 0
  BY SingleStep, StepWithoutSession DEF RemoveLaunch, Singles, SweepSteps
<1>2. HeadOk("remove_launch", todo.mov, mode, st, tree) /\ Good(st) /\ mode = "recovery"
  BY <1>1, StepRelies DEF HeadOk, Scheduled, LiveSteps, IInv, ProcessInv
<1>3. /\ pc' = "plan" /\ st' = st /\ todo' = Popped /\ stray' = FALSE
      /\ UNCHANGED <<mode, next, left, result, note, sess, escaped, tree>>
  BY <1>1 DEF RemoveLaunch
<1>4. /\ todo'.mov \in 0 .. N /\ next'.mov \in 0 .. N /\ left' \in 0 .. Budget
      /\ stray' \in BOOLEAN /\ note' # "refused"
  <2>1. /\ todo.mov \in 0 .. N /\ next.mov \in 0 .. N /\ left \in 0 .. Budget
        /\ note # "refused"
    BY <1>1 DEF IInv, ProcessInv, Doing
  <2>2. Popped.mov = todo.mov
    BY DEF Popped
  <2>. QED
    BY <1>3, <2>1, <2>2
<1>5. LabelOk("plan", mode, st, next', result')
  BY <1>2, RecoveryPlans
<1>. QED
  BY <1>1, <1>2, <1>3, <1>4, <1>5, MovesOn DEF SessionLabels

\* The consequence of recorded evidence is journaled.
LEMMA RecoverTerminalKeeps == ASSUME IInv, RecoverTerminal PROVE IInv'
<1>1. StepAppends("compose_terminal", CompositionTerminalOk(todo.mov),
                  CompositionTerminal(todo.mov))
  BY DEF RecoverTerminal
<1>2. todo.mov \in CompositionTerminals(st) /\ Good(st)
  BY <1>1, StepRelies DEF StepAppends, HeadOk, Scheduled, IInv
<1>3. CompositionTerminalOk(todo.mov) /\ Good(CompositionTerminal(todo.mov))
  BY <1>2, TerminalsConclude, ConsequenceGood DEF CompositionTerminalOk, CompositionTerminal
<1>. QED
  BY <1>1, <1>3, RecoveryStep DEF Singles, SweepSteps, LiveSteps

\* The first step of a sweep leaves no session, and its tail is still due.
LEMMA RecoverSweepKeeps == ASSUME IInv, RecoverSweep PROVE IInv'
<1> DEFINE step == Head(todo.steps)
<1>1. Doing(step) /\ step \in SweepSteps
  BY DEF RecoverSweep, Doing
<1>2. /\ StepOk(todo, mode, st, tree) /\ HeadOk(step, todo.mov, mode, st, tree) /\ Good(st)
      /\ Calm(st) /\ mode = "recovery"
  BY <1>1, StepRelies, StepIsCalm
     DEF HeadOk, Scheduled, LiveSteps, SweepSteps, IInv, ProcessInv
<1>3. /\ sess' = 0 /\ pc' = Rest /\ todo' = Popped
      /\ UNCHANGED <<st, mode, next, left, result, note, escaped, stray, tree>>
  BY DEF RecoverSweep
<1>4. /\ next'.mov \in 0 .. N /\ left' \in 0 .. Budget /\ stray' \in BOOLEAN
      /\ note' # "refused" /\ todo.mov \in 0 .. N /\ tree \in {"intact", "altered", "lost"}
  BY <1>1, <1>3 DEF IInv, ProcessInv, Doing
<1>5. CASE step = "stabilize_launch"
  <2>1. Rest = "plan" /\ Popped.mov = todo.mov
    BY <1>1, <1>5, SingleStep DEF Singles, Popped
  <2>2. LabelOk("plan", mode, st, next', result')
    BY <1>2, RecoveryPlans
  <2>3. pc' = "plan" /\ todo'.mov \in 0 .. N
    BY <1>3, <1>4, <2>1
  <2>. QED
    BY <1>2, <1>3, <1>4, <2>2, <2>3
       DEF IInv, SessInv, ProcessInv, AppendsAreAdmitted, SessionLabels
<1>6. CASE step # "stabilize_launch"
  <2>1. /\ Rest = "step" /\ Popped.mov = todo.mov
        /\ Popped.steps \in {<<"verify_subject">>, <<"close", "fail_unstarted">>,
                             <<"close", "fail_unprobed">>, <<"close", "fail_incomplete">>}
        /\ Popped.steps = <<"verify_subject">> => step = "sweep_criterion"
        /\ Popped.steps # <<"verify_subject">> => step \in {"stabilize", "sweep"}
    <3>1. CASE step = "sweep_criterion"
      BY <1>1, <3>1, SeveralSteps, AfterTwo
    <3>2. CASE step = "stabilize"
      <4>1. Popped.steps = <<"close", "fail_unstarted">> /\ Rest = "step" /\ Popped.mov = todo.mov
        BY <1>1, <3>2, SeveralSteps, AfterThree
      <4>. QED
        BY <3>2, <4>1, OneStep, TwoSteps
    <3>3. CASE step = "sweep"
      <4>1. /\ Popped.steps \in {<<"close", "fail_unprobed">>, <<"close", "fail_incomplete">>}
            /\ Rest = "step" /\ Popped.mov = todo.mov
        BY <1>1, <3>3, SeveralSteps, AfterThree
      <4>. QED
        BY <3>3, <4>1, OneStep, TwoSteps
    <3>. QED
      BY <1>1, <1>6, <3>1, <3>2, <3>3 DEF SweepSteps
  <2>2. HeadOk("verify_subject", todo.mov, mode, st, tree) \/ step # "sweep_criterion"
    BY <1>2 DEF HeadOk, Scheduled, Continued, Resumes, LiveSteps, SchedulingSteps
  <2>3. Starting(st) \/ step \notin {"stabilize", "sweep"}
    BY <1>2 DEF HeadOk, Continued
  <2>4. step \in {"stabilize", "sweep"} => HeadOk("close", todo.mov, mode, st, tree)
    BY <1>2 DEF HeadOk, Scheduled, Continued, Resumes, LiveSteps, SchedulingSteps
  <2>5. /\ Head(Popped.steps) = IF step = "sweep_criterion" THEN "verify_subject" ELSE "close"
        /\ Popped.steps # <<"close">> /\ Popped.steps \in StepShapes
    BY <1>1, <1>6, <2>1, OneStep, TwoSteps DEF StepShapes, Singles, SweepSteps
  <2>6. StepOk(Popped, mode, st, tree)
    BY <1>1, <1>4, <1>6, <2>1, <2>2, <2>3, <2>4, <2>5 DEF StepOk, SweepSteps
  <2>7. LabelOk("step", mode, st, next', result')
    BY DEF LabelOk, Composing, Attempting, Verifying, Accepting, Ending
  <2>8. pc' = "step" /\ StepOk(todo', mode, st, tree)
    BY <1>3, <2>1, <2>6
  <2>. QED
    BY <1>2, <1>3, <1>4, <2>7, <2>8
       DEF IInv, SessInv, ProcessInv, AppendsAreAdmitted, SessionLabels, StepOk
<1>. QED
  BY <1>5, <1>6

\* Recovery's charge is a number.
LEMMA ClampedChargeIsNat == ASSUME NEW s, Good(s) PROVE ClampedCharge(s.open) \in Nat
<1>1. s.open.cp \in Nat /\ s.open.rem \in Nat
  BY DEF Good, Projections, Intervals
<1>. QED
  BY <1>1, ScoreAssumption DEF ClampedCharge

\* A recovered interval is closed, on its own or before its attempt fails.
LEMMA CloseIntervalKeeps == ASSUME IInv, CloseInterval PROVE IInv'
<1>1. Doing("close")
  BY DEF CloseInterval, StepAppends
<1>2. /\ StepOk(todo, mode, st, tree) /\ HeadOk("close", todo.mov, mode, st, tree) /\ Good(st)
      /\ Calm(st) /\ mode = "recovery" /\ pc = "step"
  BY <1>1, StepRelies, StepIsCalm DEF HeadOk, Scheduled, LiveSteps, IInv, ProcessInv
<1> DEFINE t == IF st.open.phase = "none" THEN st
                ELSE ExecutionStopped(st, ClampedCharge(st.open), "recovered")
<1>3. Good(t) /\ t.open.phase = "none" /\ SameStanding(st, t)
  BY <1>2, ClampedChargeIsNat, StoppedKeeps DEF SameStanding
<1>4. /\ st' = t /\ pc' = Rest /\ todo' = Popped
      /\ UNCHANGED <<mode, next, left, result, note, sess, escaped, stray, tree>>
  BY DEF CloseInterval, StepAppends, AppendEvent, ExecutionStoppedOk
<1> HIDE DEF t
<1>5. Calm(t) /\ ~Terminal(t) /\ t.att = st.att
  BY <1>2, <1>3, StandingKeeps DEF HeadOk, SameStanding
<1>6. /\ next'.mov \in 0 .. N /\ left' \in 0 .. Budget /\ stray' \in BOOLEAN
      /\ note' # "refused" /\ todo.mov \in 0 .. N /\ tree \in {"intact", "altered", "lost"}
  BY <1>2, <1>4 DEF IInv, ProcessInv
<1>7. CASE todo.steps = <<"close">>
  <2>1. Rest = "plan" /\ Popped.mov = todo.mov
    BY <1>7, OneStep DEF Rest, Popped
  <2>2. LabelOk("plan", mode, t, next', result')
    BY <1>2, RecoveryPlans
  <2>3. LeftRunning(st, stray) => LeftRunning(t, stray)
    <3>1. st.open.phase # "adapter"
      BY <1>2, <1>7 DEF StepOk
    <3>2. t.run = st.run /\ Planned(t) = Planned(st)
      BY <1>3, StandingKeeps DEF SameStanding
    <3>. QED
      BY <1>5, <3>1, <3>2 DEF LeftRunning, Starting
  <2>4. pc' = "plan" /\ todo'.mov \in 0 .. N
    BY <1>4, <1>6, <2>1
  <2>. QED
    BY <1>2, <1>3, <1>4, <1>6, <2>2, <2>3, <2>4
       DEF IInv, SessInv, ProcessInv, AppendsAreAdmitted, SessionLabels
<1>8. CASE todo.steps # <<"close">>
  <2>1. PICK last \in {"fail_unstarted", "fail_unprobed", "fail_incomplete"} :
           todo.steps = <<"close", last>>
    BY <1>1, <1>8, SeveralSteps
  <2>2. Rest = "step" /\ Popped.mov = todo.mov /\ Popped.steps = <<last>>
    BY <2>1, AfterTwo
  <2>3. sess = 0
    <3>1. Head(todo.steps) = "close"
      BY <1>1, StepRelies
    <3>2. ~Swept(todo)
      BY <1>8, <3>1 DEF Swept, SweepSteps
    <3>. QED
      BY <1>2, <3>2 DEF IInv, SessInv, SessionLabels
  <2>4. Starting(st)
    BY <1>1, <1>2, <1>8, StepRelies DEF StepOk
  <2>5. HeadOk(last, todo.mov, mode, t, tree)
    BY <1>2, <1>3, <1>5, <2>4
       DEF HeadOk, Scheduled, Continued, Resumes, Calm, Starting, LiveSteps, SchedulingSteps
  <2>6. /\ <<last>> \in StepShapes /\ Head(<<last>>) = last /\ last # "close"
        /\ <<last>> # <<"close">>
    BY OneStep DEF StepShapes, Singles
  <2>7. StepOk(todo', mode, t, tree) /\ pc' = "step"
    BY <1>4, <1>6, <2>2, <2>5, <2>6 DEF StepOk
  <2>. QED
    BY <1>3, <1>4, <1>6, <2>3, <2>7, StepsOn
<1>. QED
  BY <1>7, <1>8

(***************************************************************************)
(* The human, the crash and the next resume                                *)
(***************************************************************************)
\* A decision to answer is only open where the process waits, plans or asks on.
LEMMA OpenDecision ==
    ASSUME IInv, PendingDecision(st)
    PROVE  /\ sess = 0
           /\ pc = "step" => Head(todo.steps) = "question"
           /\ \A s : /\ s.att.state = st.att.state /\ s.att.asked = st.att.asked
                     /\ s.att.raised = st.att.raised /\ s.open = st.open /\ ~Terminal(s)
                     /\ CompositionTerminals(s) = CompositionTerminals(st)
                     => LabelOk(pc, mode, s, next, result)
<1>1. ~Calm(st) /\ ~Between(st)
  BY DEF Calm, Between
<1>2. Good(st) /\ ~Terminal(st) /\ st.run = "WAITING_HUMAN"
  BY DEF IInv, Good, RunInv
<1>3. LabelOk(pc, mode, st, next, result)
  BY DEF IInv
<1>4. pc \notin SessionLabels
  BY <1>1, <1>3
     DEF SessionLabels, LabelOk, Attempting, Accepting, In, CriterionOpen
<1>5. sess = 0
  BY <1>2, <1>4 DEF IInv, SessInv, LeftRunning
<1>6. pc = "step" => Head(todo.steps) = "question"
  BY <1>2 DEF IInv, StepOk, HeadOk
<1>7. ASSUME NEW s, s.att.state = st.att.state, s.att.asked = st.att.asked,
             s.att.raised = st.att.raised, s.open = st.open, ~Terminal(s),
             CompositionTerminals(s) = CompositionTerminals(st)
      PROVE  LabelOk(pc, mode, s, next, result)
  <2>1. pc \notin {"compose", "record", "evidence", "compose_terminal", "select"}
    BY <1>1, <1>3 DEF LabelOk, Composing, Between, Concluding
  <2>2. pc \notin {"open", "launch", "identify", "probe", "run", "stop", "outcome"}
    BY <1>1, <1>3 DEF LabelOk, Attempting, In
  <2>3. pc \notin {"capture", "verify", "open_acceptance", "accept"}
    BY <1>1, <1>3 DEF LabelOk, Verifying, In
  <2>4. pc \notin {"criteria", "criterion_identify", "criterion_run", "criterion_done",
                   "fail_acceptance", "stop_acceptance"}
    BY <1>1, <1>3 DEF LabelOk, Accepting, In, CriterionOpen
  <2>5. /\ pc \notin {"gate", "complete", "succeed", "exhausted", "fail_exhausted", "realize",
                      "fail_run"}
        /\ ~(pc = "plan" /\ mode = "live")
    BY <1>1, <1>2, <1>3 DEF LabelOk, Ending, In, CriterionOpen
  <2>6. Composing(pc, mode, s, next)
    BY <2>1 DEF Composing
  <2>7. Attempting(pc, s)
    BY <1>3, <1>7, <2>2 DEF LabelOk, Attempting
  <2>8. Verifying(pc, s) /\ Accepting(pc, mode, s, result) /\ Ending(pc, mode, s)
    BY <2>3, <2>4, <2>5 DEF Verifying, Accepting, Ending
  <2>. QED
    BY <2>6, <2>7, <2>8 DEF LabelOk
<1>. QED
  BY <1>5, <1>6, <1>7

\* An answer disturbs neither the process nor the attempt it is for.
LEMMA AnswerKeeps == ASSUME IInv, Answer PROVE IInv'
<1>1. Good(st) /\ QuestionResolvedOk(st) /\ PendingDecision(st)
  BY DEF IInv, Answer, QuestionResolvedOk, PendingDecision
<1> DEFINE t == QuestionResolved(st)
<1>2. /\ ~Terminal(st) /\ ~Terminal(t) /\ t.open = st.open
      /\ st.att.state = "BLOCKED" /\ t.att.state = "BLOCKED"
      /\ CompositionTerminals(t) = CompositionTerminals(st)
      /\ t.att.raised = st.att.raised /\ t.att.asked = st.att.asked
  BY <1>1, AnsweredKeeps
<1>3. Good(t)
  BY <1>1, QuestionResolvedGood
<1>4. /\ st' = t /\ UNCHANGED <<pc, mode, todo, next, left, result, note, sess, stray, tree>>
  BY DEF Answer
<1> HIDE DEF t
<1>5. sess = 0 /\ LabelOk(pc, mode, t, next, result)
  BY <1>1, <1>2, OpenDecision
<1>6. pc = "step" => StepOk(todo, mode, t, tree)
  <2> SUFFICES ASSUME pc = "step" PROVE StepOk(todo, mode, t, tree)
    OBVIOUS
  <2>1. StepOk(todo, mode, st, tree) /\ Head(todo.steps) = "question"
    BY <1>1, OpenDecision DEF IInv
  <2>2. HeadOk("question", todo.mov, mode, t, tree)
    BY <1>2, <2>1
       DEF StepOk, HeadOk, Scheduled, Continued, Resumes, LiveSteps, SchedulingSteps
  <2>3. todo.steps # <<"close">>
    BY <2>1, OneStep
  <2>. QED
    BY <2>1, <2>2, <2>3 DEF StepOk
<1>7. note = "refused" => FALSE \/ RejectedWithoutFinal
  <2>1. ~StrandedSuccessor
    BY <1>1 DEF Good, MovementInv, StrandedSuccessor
  <2>. QED
    BY <2>1 DEF IInv, AppendsAreAdmitted
<1>8. ~RejectedWithoutFinal
  BY <1>1, <1>2 DEF RejectedWithoutFinal, Good, AttemptInv
<1>. QED
  BY <1>3, <1>4, <1>5, <1>6, <1>7, <1>8 DEF IInv, SessInv, ProcessInv, AppendsAreAdmitted

\* A gate's answer leaves its attempt under verification.
LEMMA DecidedKeeps ==
    ASSUME NEW s, NEW d \in {"approved", "rejected"}, Good(s), GateResolvedOk(s)
    PROVE  LET t == GateResolved(s, d)
           IN  /\ ~Terminal(s) /\ ~Terminal(t) /\ t.open = s.open
               /\ s.att.state = "VERIFYING" /\ t.att.state = "VERIFYING"
               /\ CompositionTerminals(t) = CompositionTerminals(s)
               /\ t.att.raised = s.att.raised /\ t.att.asked = s.att.asked
<1>. s \in Projections
  BY DEF Good
<1>0. s.att.state = "VERIFYING" /\ ~Terminal(s)
  BY DEF Good, AttemptInv, RunInv, PendingDecision, GateResolvedOk
<1> DEFINE u == [s EXCEPT !.att.gate = d]
<1>1. /\ u \in Projections /\ u.run = s.run /\ u.open = s.open /\ u.evidence = s.evidence
      /\ u.terminalized = s.terminalized /\ u.att.state = s.att.state
      /\ u.att.raised = s.att.raised /\ u.att.asked = s.att.asked
  <2>1. s.att \in Attempts
    BY DEF Projections
  <2>. QED
    BY <2>1 DEF Projections, Attempts
<1>2. GateResolved(s, d) = RefreshWaitingHuman(u)
  BY DEF GateResolved
<1> HIDE DEF u
<1>3. ~Terminal(u)
  BY <1>0, <1>1 DEF Terminal
<1>. QED
  BY <1>0, <1>1, <1>2, <1>3, RefreshKeeps DEF CompositionTerminals

\* Nor does the answer to a gate.
LEMMA ResolveKeeps == ASSUME IInv, Resolve PROVE IInv'
<1>1. Good(st) /\ GateResolvedOk(st) /\ PendingDecision(st)
  BY DEF IInv, Resolve, GateResolvedOk, PendingDecision
<1>2. PICK d \in {"approved", "rejected"} : st' = GateResolved(st, d)
  BY DEF Resolve
<1> DEFINE t == GateResolved(st, d)
<1>3. /\ ~Terminal(st) /\ ~Terminal(t) /\ t.open = st.open
      /\ st.att.state = "VERIFYING" /\ t.att.state = "VERIFYING"
      /\ CompositionTerminals(t) = CompositionTerminals(st)
      /\ t.att.raised = st.att.raised /\ t.att.asked = st.att.asked
  BY <1>1, DecidedKeeps
<1>4. Good(t)
  BY <1>1, GateResolvedGood
<1>5. /\ st' = t /\ UNCHANGED <<pc, mode, todo, next, left, result, note, sess, stray, tree>>
  BY <1>2 DEF Resolve
<1> HIDE DEF t
<1>6. sess = 0 /\ LabelOk(pc, mode, t, next, result)
  BY <1>1, <1>3, OpenDecision
<1>7. pc # "step"
  <2> SUFFICES ASSUME pc = "step" PROVE FALSE
    OBVIOUS
  <2>1. StepOk(todo, mode, st, tree) /\ Head(todo.steps) = "question"
    BY <1>1, OpenDecision DEF IInv
  <2>. QED
    BY <1>3, <2>1 DEF StepOk, HeadOk, Continued
<1>8. note # "refused"
  BY <1>1, <1>3 DEF IInv, AppendsAreAdmitted, StrandedSuccessor, RejectedWithoutFinal,
                    GateResolvedOk
<1>. QED
  BY <1>4, <1>5, <1>6, <1>7, <1>8 DEF IInv, SessInv, ProcessInv, AppendsAreAdmitted

\* A process that owns a session leaves behind what recovery sweeps.
LEMMA SessionIsLeft ==
    ASSUME IInv, pc \in SessionLabels
    PROVE  LeftRunning(st, stray \/ pc = "criterion_identify")
<1>1. Good(st) /\ LabelOk(pc, mode, st, next, result)
  BY DEF IInv
<1>2. CASE pc \in {"identify", "probe", "run"}
  BY <1>1, <1>2 DEF LabelOk, Attempting, In, Calm, LeftRunning, Starting
<1>3. CASE pc = "criterion_identify"
  BY <1>1, <1>3
     DEF LabelOk, Accepting, CriterionOpen, Evaluating, Calm, LeftRunning
<1>4. CASE pc = "criterion_run"
  <2>1. st.att.inFlight /\ st.att.state = "VERIFYING" /\ st.run = "RUNNING"
    BY <1>1, <1>4 DEF LabelOk, Accepting, CriterionOpen, Calm
  <2>2. st.att.accepting /\ st.att.verdict = "none" /\ ~st.att.evaluated
    BY <1>1, <2>1 DEF Good, AttemptInv
  <2>. QED
    BY <2>1, <2>2 DEF LeftRunning
<1>. QED
  BY <1>2, <1>3, <1>4 DEF SessionLabels

\* A crash leaves a session only where recovery will look for it.
LEMMA CrashKeeps == ASSUME IInv, Crash PROVE IInv'
<1>1. /\ pc # "down" /\ pc' = "down" /\ note' # "refused" /\ sess' \in {0, sess}
      /\ stray' = (stray \/ pc = "criterion_identify")
      /\ UNCHANGED <<st, mode, tree, todo, next, left>>
  BY DEF Crash, Exit
<1>2. /\ todo'.mov \in 0 .. N /\ next'.mov \in 0 .. N /\ left' \in 0 .. Budget
      /\ stray \in BOOLEAN /\ sess \in {0, 1}
  BY <1>1 DEF IInv, ProcessInv, SessInv
<1>3. sess = 1 => LeftRunning(st, stray')
  <2>1. CASE pc \in SessionLabels
    BY <1>1, <2>1, SessionIsLeft
  <2>2. CASE pc \notin SessionLabels /\ sess = 1
    <3>1. LeftRunning(st, stray)
      BY <1>1, <2>2 DEF IInv, SessInv
    <3>. QED
      BY <1>1, <1>2, <3>1 DEF LeftRunning
  <2>. QED
    BY <2>1, <2>2
<1>. QED
  BY <1>1, <1>2, <1>3, Stops

\* No process relies on the worktree while none runs.
LEMMA DisturbTreeKeeps == ASSUME IInv, DisturbTree PROVE IInv'
  BY DEF DisturbTree, IInv, SessInv, ProcessInv, AppendsAreAdmitted, StrandedSuccessor,
         RejectedWithoutFinal

\* A resumed process plans from the journal alone.
LEMMA ResumeKeeps == ASSUME IInv, Resume PROVE IInv'
<1>1. /\ pc = "down" /\ pc' = "plan" /\ mode' = "recovery" /\ note' = "none" /\ left' = 0
      /\ todo' = Nothing /\ next' = Goal(NoSuccessor, FALSE) /\ UNCHANGED <<st, sess, stray, tree>>
  BY DEF Resume
<1>2. LabelOk("plan", "recovery", st, next', result')
  BY RecoveryPlans
<1>3. todo'.mov = 0 /\ next'.mov = 0 /\ 0 \in 0 .. N /\ 0 \in 0 .. Budget
  BY <1>1, ScoreAssumption DEF Nothing, Goal, NoSuccessor
<1>. QED
  BY <1>1, <1>2, <1>3 DEF IInv, SessInv, ProcessInv, AppendsAreAdmitted, SessionLabels

(***************************************************************************)
(* Scheduling                                                              *)
(***************************************************************************)
\* Between attempts the last one is not under way.
LEMMA BetweenIsIdle == ASSUME NEW s, Good(s), Between(s) PROVE ~Underway(s)
<1>1. s.att.asked \in Nat /\ s.att.raised \in Nat
  BY DEF Good, Projections, Attempts
<1>. QED
  BY <1>1 DEF Between, Settled, Owes, OwesRetry, OwesResume, Underway

\* What the last attempt was is not changed by an event about the movements.
LEMMA SameWork ==
    ASSUME NEW s, NEW t, t.run = s.run, t.att = s.att, t.open = s.open,
           t.evidence = s.evidence, t.terminalized = s.terminalized
    PROVE  Between(t) = Between(s) /\ Settled(t) = Settled(s)
  BY DEF Between, Calm, Settled, Owes, OwesRetry, OwesResume, PendingDecision,
         CompositionTerminals

\* The time left is bounded by the budget.
LEMMA RemainingIsBounded == ASSUME NEW s, Good(s) PROVE Remaining(s) \in 0 .. Budget
<1>1. s.consumed \in Nat /\ Budget \in Nat
  BY ScoreAssumption DEF Good, Projections
<1>. QED
  BY <1>1 DEF Remaining

\* A movement whose needs have succeeded becomes ready.
LEMMA ReadyKeeps == ASSUME IInv, Ready PROVE IInv'
<1>1. StepAppends("ready", MovementReadyOk(st, todo.mov), MovementReady(st, todo.mov))
  BY DEF Ready
<1>2. /\ HeadOk("ready", todo.mov, mode, st, tree) /\ Good(st)
  BY <1>1, StepRelies DEF StepAppends, IInv
<1>3. /\ todo.mov \in Selectable(st) /\ Between(st) /\ (mode = "live" => Settled(st))
  BY <1>2 DEF HeadOk, Scheduled, SchedulingSteps
<1> DEFINE t == MovementReady(st, todo.mov)
<1>4. Good(t)
  BY <1>2, <1>3, MovementReadyGood
<1>5. MovementReadyOk(st, todo.mov)
  BY <1>3 DEF MovementReadyOk, Selectable, WithState
<1>6. /\ t.run = st.run /\ t.att = st.att /\ t.open = st.open
      /\ t.evidence = st.evidence /\ t.terminalized = st.terminalized
  BY <1>2 DEF MovementReady, Good, Projections
<1>7. mode = "live" => Between(t) /\ Settled(t)
  <2> HIDE DEF t
  <2>. QED
    BY <1>3, <1>6, SameWork
<1>. QED
  BY <1>1, <1>4, <1>5, <1>7, StepAppendsMoves DEF Singles, SweepSteps

\* A ready movement starts.
LEMMA StartKeeps == ASSUME IInv, Start PROVE IInv'
<1>1. StepAppends("start", MovementStartedOk(st, todo.mov), MovementStarted(st, todo.mov))
  BY DEF Start
<1>2. /\ HeadOk("start", todo.mov, mode, st, tree) /\ Good(st)
  BY <1>1, StepRelies DEF StepAppends, IInv
<1>3. /\ todo.mov \in Movements /\ st.mov[todo.mov] = "READY"
      /\ Between(st) /\ (mode = "live" => Settled(st))
  BY <1>2 DEF HeadOk, Scheduled, SchedulingSteps
<1>5. MovementStartedOk(st, todo.mov)
  BY <1>3 DEF MovementStartedOk
<1> DEFINE t == MovementStarted(st, todo.mov)
<1>4. Good(t)
  BY <1>2, <1>3, <1>5, MovementStartedGood
<1>6. /\ t.run = st.run /\ t.att = st.att /\ t.open = st.open
      /\ t.evidence = st.evidence /\ t.terminalized = st.terminalized
  BY <1>2 DEF MovementStarted, Good, Projections
<1>7. mode = "live" => Between(t) /\ Settled(t)
  <2> HIDE DEF t
  <2>. QED
    BY <1>3, <1>6, SameWork
<1>. QED
  BY <1>1, <1>4, <1>5, <1>7, StepAppendsMoves DEF Singles, SweepSteps

\* The run ends on its budget.
LEMMA BudgetRunKeeps == ASSUME IInv, BudgetRun PROVE IInv'
<1>1. Doing("budget_run") /\ Good(st)
  BY DEF BudgetRun, StepAppends, IInv
<1>2. HeadOk("budget_run", todo.mov, mode, st, tree)
  BY <1>1, StepRelies
<1>3. Calm(st) /\ st.open.phase = "none"
  BY <1>2 DEF HeadOk, Scheduled, Between
<1>4. CASE Sourced
  <2>1. Good(RunFailed(st)) /\ RunFailedOk(st)
    BY <1>1, <1>3, RunFailedGood DEF RunFailedOk, Calm
  <2>2. Terminal(RunFailed(st))
    <3>1. RunFailed(st) = [st EXCEPT !.run = "FAILED"]
      BY <1>1, <1>3, RunFailedEnds DEF Good, Calm
    <3>. QED
      BY <1>1, <3>1 DEF Terminal, Good, Projections
  <2>3. StepAppends("budget_run", RunFailedOk(st), RunFailed(st))
    BY <1>4 DEF BudgetRun
  <2>. QED
    BY <2>1, <2>2, <2>3, StepAppendsMoves DEF Singles, SweepSteps
<1>5. CASE ~Sourced
  BY <1>5, StopsLeaving DEF BudgetRun, Exit, Doing, SessionLabels
<1>. QED
  BY <1>4, <1>5

\* A movement that fails on the budget leaves the latest attempt as it was.
LEMMA FailedMovementKeeps ==
    ASSUME NEW s, NEW m \in Movements, Good(s)
    PROVE  LET t == MovementFailed(s, m, FALSE)
           IN  /\ t.run = s.run /\ t.att = s.att /\ t.open = s.open
               /\ t.evidence = s.evidence /\ t.terminalized = s.terminalized
<1>1. s \in Projections /\ s.att \in Attempts /\ s.att.failedHere \in BOOLEAN
  BY DEF Good, Projections, Attempts
<1>2. (s.att.failedHere \/ FALSE) = s.att.failedHere
  BY <1>1
<1>3. [s.att EXCEPT !.failedHere = s.att.failedHere \/ FALSE] = s.att
  BY <1>1, <1>2 DEF Attempts
<1>. QED
  BY <1>1, <1>3 DEF MovementFailed, Projections

\* The running movement ends on the budget, and the run is next.
LEMMA BudgetMovementKeeps == ASSUME IInv, BudgetMovement PROVE IInv'
<1>1. Doing("budget_movement") /\ Good(st)
  BY DEF BudgetMovement, StepAppends, IInv
<1>2. /\ HeadOk("budget_movement", todo.mov, mode, st, tree) /\ sess = 0
      /\ StepOk(todo, mode, st, tree) /\ todo.steps = <<"budget_movement", "budget_run">>
  BY <1>1, StepRelies, StepWithoutSession, SeveralSteps DEF SweepSteps
<1>3. Between(st) /\ todo.mov \in Movements /\ st.mov[todo.mov] = "RUNNING"
  BY <1>2 DEF HeadOk, Scheduled
<1>4. CASE Sourced
  <2> DEFINE t == MovementFailed(st, todo.mov, FALSE)
  <2>1. Good(t) /\ MovementFailedOk(st, todo.mov)
    <3>1. ~PendingDecision(st) /\ CompositionTerminals(st) = {}
      BY <1>3 DEF Between, Calm
    <3>. QED
      BY <1>1, <1>3, <3>1, BetweenIsIdle, MovementFailedGood DEF MovementFailedOk
  <2>2. /\ t.run = st.run /\ t.att = st.att /\ t.open = st.open
        /\ t.evidence = st.evidence /\ t.terminalized = st.terminalized
    BY <1>1, <1>3, FailedMovementKeeps
  <2>3. Rest = "step" /\ Popped.mov = todo.mov /\ Popped.steps = <<"budget_run">>
    BY <1>2, AfterTwo
  <2>4. /\ pc' = "step" /\ st' = t /\ todo' = Popped
        /\ UNCHANGED <<mode, next, left, result, note, sess, escaped, stray, tree>>
    BY <1>4, <2>1, <2>3 DEF BudgetMovement, StepAppends, AppendEvent
  <2> HIDE DEF t
  <2>5. Between(t)
    BY <1>3, <2>2, SameWork
  <2>6. HeadOk("budget_run", todo.mov, mode, t, tree)
    BY <2>5 DEF HeadOk, Scheduled, Continued, Resumes, Between, Calm, Terminal, LiveSteps,
                SchedulingSteps
  <2>7. /\ <<"budget_run">> \in StepShapes /\ Head(<<"budget_run">>) = "budget_run"
        /\ <<"budget_run">> # <<"close">>
    BY OneStep DEF StepShapes, Singles
  <2>8. StepOk(todo', mode, t, tree)
    BY <1>2, <2>3, <2>4, <2>6, <2>7 DEF StepOk
  <2>9. next'.mov \in 0 .. N /\ left' \in 0 .. Budget /\ stray' \in BOOLEAN /\ note' # "refused"
    BY <1>1, <2>4 DEF IInv, ProcessInv, Doing
  <2>. QED
    BY <1>2, <2>1, <2>4, <2>8, <2>9, StepsOn
<1>5. CASE ~Sourced
  BY <1>5, StopsLeaving DEF BudgetMovement, Exit, Doing, SessionLabels
<1>. QED
  BY <1>4, <1>5

\* An interval that opens leaves the run and the attempt as they were.
LEMMA StartedKeeps ==
    ASSUME NEW s, NEW phase \in {"composition", "adapter", "acceptance"}, NEW rem, Good(s)
    PROVE  LET t == ExecutionStarted(s, phase, rem)
           IN  SameStanding(s, t) /\ t.open.phase = phase
  BY DEF ExecutionStarted, SameStanding, Good, Projections

\* A base is composed under an interval, or used as it is when it has no contributors.
LEMMA BeginKeeps ==
    ASSUME NEW goal, IInv, sess = 0, Between(st), Begin(goal), goal.mov \in 0 .. N,
           GoalOk(st, goal) \/ (mode = "recovery" /\ RecomposeOk(st, goal)),
           todo'.mov \in 0 .. N, note # "refused", UNCHANGED <<mode, sess, tree, stray>>
    PROVE  IInv'
<1>1. Good(st) /\ stray \in BOOLEAN /\ Calm(st) /\ st.open.phase = "none"
      /\ mode \in {"live", "recovery"}
  BY DEF IInv, ProcessInv, Between
<1>2. Remaining(st) \in 0 .. Budget
  BY <1>1, RemainingIsBounded
<1>3. next' = goal /\ left' = Remaining(st)
  BY DEF Begin
<1>4. CASE Contributors(goal.mov) = {} /\ goal.reason = "recompose"
  <2>1. pc' = "plan" /\ st' = st /\ note' = note
    BY <1>4 DEF Begin
  <2>2. mode = "recovery"
    BY <1>4 DEF GoalOk
  <2>3. LabelOk("plan", mode, st, next', result')
    BY <2>2, RecoveryPlans
  <2>. QED
    BY <1>1, <1>2, <1>3, <2>1, <2>3, MovesOn DEF SessionLabels
<1>5. CASE Contributors(goal.mov) = {} /\ goal.reason # "recompose"
  <2>1. pc' = "select" /\ st' = st /\ note' = note
    BY <1>5 DEF Begin
  <2>2. GoalOk(st, next')
    BY <1>3, <1>5 DEF RecomposeOk
  <2>3. LabelOk("select", mode, st, next', result')
    BY <2>2 DEF LabelOk, Composing, Attempting, Verifying, Accepting, Ending
  <2>. QED
    BY <1>1, <1>2, <1>3, <2>1, <2>3, MovesOn DEF SessionLabels
<1>6. CASE Contributors(goal.mov) # {}
  <2> DEFINE t == ExecutionStarted(st, "composition", Remaining(st))
  <2>1. pc' = "compose" /\ st' = t /\ note' = note
    BY <1>1, <1>6 DEF Begin, AppendEvent, ExecutionStartedOk
  <2>2. Good(t)
    BY <1>1, <1>2, ExecutionStartedGood DEF Between
  <2>3. SameStanding(st, t) /\ t.open.phase = "composition"
    BY <1>1, StartedKeeps
  <2> HIDE DEF t
  <2>4. Calm(t) /\ (Settled(t) \/ Owes(t))
    BY <1>1, <2>3, StandingKeeps DEF Between
  <2>5. ComposeOk(t, next', mode)
    <3>1. ComposeOk(st, goal, mode)
      BY DEF ComposeOk
    <3>. QED
      BY <1>3, <2>3, <3>1, GoalStands
  <2>6. LabelOk("compose", mode, t, next', result')
    BY <2>3, <2>4, <2>5 DEF LabelOk, Composing, Attempting, Verifying, Accepting, Ending
  <2>. QED
    BY <1>1, <1>2, <1>3, <2>1, <2>2, <2>6, MovesOn DEF SessionLabels
<1>. QED
  BY <1>4, <1>5, <1>6

\* What a scheduling step may count on.
LEMMA SchedulingRelies ==
    ASSUME NEW step \in SchedulingSteps, IInv, Doing(step)
    PROVE  /\ HeadOk(step, todo.mov, mode, st, tree) /\ Between(st) /\ sess = 0 /\ Good(st)
           /\ Scheduled(step, todo.mov, mode, st) /\ todo.mov \in 0 .. N /\ note # "refused"
           /\ pc = "step" /\ stray \in BOOLEAN /\ mode \in {"live", "recovery"}
<1>1. HeadOk(step, todo.mov, mode, st, tree) /\ pc = "step"
  BY StepRelies
<1>2. sess = 0
  BY StepWithoutSession DEF SchedulingSteps, SweepSteps
<1>3. Scheduled(step, todo.mov, mode, st)
  BY <1>1 DEF HeadOk
<1>4. Between(st)
  BY <1>3 DEF Scheduled
<1>. QED
  BY <1>1, <1>2, <1>3, <1>4 DEF IInv, ProcessInv

\* The first attempt of a movement is begun.
LEMMA InitialKeeps == ASSUME IInv, Initial PROVE IInv'
<1> DEFINE goal == [mov |-> todo.mov, perf |-> Primary, reason |-> "initial", fresh |-> FALSE]
<1>1. Doing("initial") /\ Begin(goal) /\ UNCHANGED <<mode, todo, sess, tree, stray>>
  BY DEF Initial
<1>2. /\ Between(st) /\ sess = 0 /\ Scheduled("initial", todo.mov, mode, st)
      /\ todo.mov \in 0 .. N /\ note # "refused"
  BY <1>1, SchedulingRelies DEF SchedulingSteps
<1>3. GoalOk(st, goal)
  BY <1>2 DEF Scheduled, GoalOk
<1>4. goal.mov = todo.mov
  OBVIOUS
<1> HIDE DEF goal
<1>. QED
  BY <1>1, <1>2, <1>3, <1>4, BeginKeeps

\* What a successor is begun for is what the attempt that ended owes.
LEMMA OwedGoal ==
    ASSUME NEW s, NEW fresh, Good(s), Owes(s)
    PROVE  LET g == Goal(IF s.att.state = "BLOCKED" THEN DecisionResume(s)
                         ELSE PendingSuccessor(s), fresh)
           IN  GoalOk(s, g) /\ g.mov \in 0 .. N
<1>1. s.att.mov \in 0 .. N
  BY DEF Good, Projections, Attempts
<1>2. CASE s.att.state = "BLOCKED"
  BY <1>1, <1>2 DEF Owes, OwesRetry, GoalOk, Goal, DecisionResume
<1>3. CASE s.att.state # "BLOCKED"
  <2>1. OwesRetry(s)
    BY <1>3 DEF Owes, OwesResume
  <2>2. PendingSuccessor(s) =
            [mov |-> s.att.mov, perf |-> Realize(s), reason |-> s.att.disposition]
    BY <2>1 DEF PendingSuccessor, OwesRetry, Good, PaidInv
  <2>. QED
    BY <1>1, <1>3, <2>1, <2>2 DEF GoalOk, Goal, OwesRetry
<1>. QED
  BY <1>2, <1>3

\* The attempt that is owed is begun.
LEMMA SuccessorKeeps == ASSUME IInv, Successor PROVE IInv'
<1> DEFINE goal == Goal(IF st.att.state = "BLOCKED" THEN DecisionResume(st)
                        ELSE PendingSuccessor(st), mode = "live")
<1>1. Doing("successor") /\ Begin(goal) /\ UNCHANGED <<mode, todo, sess, tree, stray>>
  BY DEF Successor
<1>2. /\ Between(st) /\ sess = 0 /\ Scheduled("successor", todo.mov, mode, st) /\ Good(st)
      /\ todo.mov \in 0 .. N /\ note # "refused"
  BY <1>1, SchedulingRelies DEF SchedulingSteps
<1>3. GoalOk(st, goal) /\ goal.mov \in 0 .. N
  BY <1>2, OwedGoal DEF Scheduled
<1> HIDE DEF goal
<1>. QED
  BY <1>1, <1>2, <1>3, BeginKeeps

\* A base is composed again.
LEMMA RerunCompositionKeeps == ASSUME IInv, RerunComposition PROVE IInv'
<1> DEFINE goal == [mov |-> todo.mov, perf |-> "none", reason |-> "recompose", fresh |-> FALSE]
<1>1. /\ Doing("recompose") /\ todo.mov # 0 /\ Begin(goal)
      /\ UNCHANGED <<mode, todo, sess, tree, stray>>
  BY DEF RerunComposition
<1>2. /\ Between(st) /\ sess = 0 /\ Scheduled("recompose", todo.mov, mode, st) /\ Good(st)
      /\ todo.mov \in 0 .. N /\ note # "refused" /\ mode \in {"live", "recovery"}
  BY <1>1, SchedulingRelies DEF SchedulingSteps
<1>3. RecomposeOk(st, goal) /\ mode = "recovery"
  BY <1>1, <1>2 DEF Scheduled, RecomposeOk, LiveSteps
<1>4. goal.mov = todo.mov
  OBVIOUS
<1> HIDE DEF goal
<1>. QED
  BY <1>1, <1>2, <1>3, <1>4, BeginKeeps

\* The candidate is recorded, or a waived run succeeds with it.
LEMMA RecordCandidateKeeps ==
    ASSUME IInv, sess = 0, Between(st), CandidateDue(st), mode = "live" => Settled(st),
           RecordCandidate("plan"), next'.mov \in 0 .. N, left' \in 0 .. Budget,
           note # "refused", UNCHANGED <<mode, todo, sess, tree, stray>>
    PROVE  IInv'
<1>1. /\ Good(st) /\ Calm(st) /\ st.open.phase = "none"
      /\ stray \in BOOLEAN /\ todo.mov \in 0 .. N
  BY DEF IInv, ProcessInv, Between
<1>2. CASE ~GateWaived
  <2> DEFINE t == CandidateRecorded(st)
  <2>1. Good(t)
    BY <1>1, <1>2, CandidateRecordedGood
  <2>2. /\ t.run = st.run /\ t.att = st.att /\ t.open = st.open
        /\ t.evidence = st.evidence /\ t.terminalized = st.terminalized
    BY <1>1 DEF CandidateRecorded, Good, Projections
  <2>3. pc' = "plan" /\ st' = t /\ note' = note
    BY <1>1, <1>2 DEF RecordCandidate, AppendEvent, CandidateRecordedOk, CandidateDue, Calm
  <2> HIDE DEF t
  <2>4. mode = "live" => Between(t) /\ Settled(t)
    BY <2>2, SameWork
  <2>5. LabelOk("plan", mode, t, next', result')
    BY <2>4, LivePlans
  <2>. QED
    BY <1>1, <2>1, <2>3, <2>5, MovesOn DEF SessionLabels
<1>3. CASE GateWaived /\ WaivedCompletion(st)
  <2> DEFINE t == RunSucceeded(st)
  <2>1. Good(t)
    BY <1>1, <1>3, RunSucceededGood
  <2>2. Terminal(t)
    <3>1. t = [st EXCEPT !.run = "SUCCEEDED", !.candidate = TRUE]
      BY <1>1, RunSucceededEnds DEF Good, Calm
    <3>2. t.run = "SUCCEEDED"
      BY <1>1, <3>1 DEF Good, Projections
    <3>. QED
      BY <3>2 DEF Terminal
  <2>3. pc' = "plan" /\ st' = t /\ note' = note
    BY <1>1, <1>3 DEF RecordCandidate, AppendEvent, RunSucceededOk, Calm
  <2> HIDE DEF t
  <2>5. LabelOk("plan", mode, t, next', result')
    BY <2>2, LivePlans
  <2>. QED
    BY <1>1, <2>1, <2>3, <2>5, MovesOn DEF SessionLabels
<1>4. CASE GateWaived /\ ~WaivedCompletion(st)
  <2>1. pc' = "down" /\ note' = "incomplete" /\ st' = st
    BY <1>4 DEF RecordCandidate, Exit
  <2>. QED
    BY <1>1, <2>1, Stops
<1>. QED
  BY <1>2, <1>3, <1>4

\* The candidate is composed or recorded.
LEMMA ComposeCandidateKeeps == ASSUME IInv, ComposeCandidate PROVE IInv'
<1>1. /\ Doing("candidate") \/ (Doing("recompose") /\ todo.mov = 0)
      /\ next' = CandidateGoal /\ left' = Remaining(st)
      /\ UNCHANGED <<mode, todo, sess, tree, stray>>
  BY DEF ComposeCandidate
<1>2. /\ Between(st) /\ sess = 0 /\ Good(st) /\ CandidateDue(st) /\ (mode = "live" => Settled(st))
      /\ todo.mov \in 0 .. N /\ note # "refused" /\ stray \in BOOLEAN
  <2>1. CASE Doing("candidate")
    BY <2>1, SchedulingRelies DEF SchedulingSteps, Scheduled
  <2>2. CASE Doing("recompose") /\ todo.mov = 0
    BY <2>2, SchedulingRelies DEF SchedulingSteps, Scheduled, LiveSteps
  <2>. QED
    BY <1>1, <2>1, <2>2
<1>3. next'.mov \in 0 .. N /\ left' \in 0 .. Budget
  <2>1. 0 \in 0 .. N
    BY ScoreAssumption
  <2>. QED
    BY <1>1, <1>2, <2>1, RemainingIsBounded DEF CandidateGoal
<1>4. CASE Writers = {}
  <2>1. RecordCandidate("plan")
    BY <1>4 DEF ComposeCandidate
  <2>. QED
    BY <1>1, <1>2, <1>3, <2>1, RecordCandidateKeeps
<1>5. CASE Writers # {}
  <2> DEFINE t == ExecutionStarted(st, "composition", Remaining(st))
  <2>1. pc' = "compose" /\ st' = t /\ note' = note
    BY <1>2, <1>5 DEF ComposeCandidate, AppendEvent, ExecutionStartedOk, Between
  <2>2. Good(t)
    BY <1>2, RemainingIsBounded, ExecutionStartedGood DEF Between
  <2>3. SameStanding(st, t) /\ t.open.phase = "composition"
    BY <1>2, StartedKeeps
  <2> HIDE DEF t
  <2>4. /\ Calm(t) /\ (Settled(t) \/ Owes(t)) /\ CandidateOk(t, next')
        /\ (mode = "live" => Settled(t))
    BY <1>1, <1>2, <2>3, StandingKeeps DEF Between, CandidateOk, CandidateGoal
  <2>6. LabelOk("compose", mode, t, next', result')
    BY <2>3, <2>4 DEF LabelOk, Composing, Attempting, Verifying, Accepting, Ending, ComposeOk
  <2>. QED
    BY <1>1, <1>2, <1>3, <2>1, <2>2, <2>6, MovesOn DEF SessionLabels
<1>. QED
  BY <1>4, <1>5

(***************************************************************************)
(* Planning                                                                *)
(***************************************************************************)
\* A decision of one step is in order when the step is.
LEMMA OneStepOk ==
    ASSUME NEW step \in Singles, NEW m \in 0 .. N, NEW live, NEW how, NEW s, NEW wt,
           HeadOk(step, m, how, s, wt),
           step = "close" => s.open.phase \in {"composition", "acceptance"}
    PROVE  StepOk(Carry(Decide(<<step>>, m), live), how, s, wt)
<1> DEFINE d == Carry(Decide(<<step>>, m), live)
<1>1. d.steps = <<step>> /\ d.mov = m
  BY DEF Carry, Decide
<1>2. <<step>> \in StepShapes /\ Head(<<step>>) = step
  BY OneStep DEF StepShapes
<1>3. step # "close" => <<step>> # <<"close">>
  <2>1. Head(<<"close">>) = "close"
    BY OneStep
  <2>. QED
    BY <1>2, <2>1
<1> HIDE DEF d
<1>4. StepOk(d, how, s, wt)
  BY <1>1, <1>2, <1>3 DEF StepOk
<1>. QED
  BY <1>4 DEF d

\* So is one of several steps.
LEMMA StepsOk ==
    ASSUME NEW steps \in StepShapes, NEW step, NEW m \in 0 .. N, NEW live, NEW how, NEW s, NEW wt,
           Head(steps) = step, step # "close", HeadOk(step, m, how, s, wt)
    PROVE  StepOk(Carry(Decide(steps, m), live), how, s, wt)
<1> DEFINE d == Carry(Decide(steps, m), live)
<1>1. d.steps = steps /\ d.mov = m
  BY DEF Carry, Decide
<1>2. steps # <<"close">>
  BY OneStep
<1> HIDE DEF d
<1>3. StepOk(d, how, s, wt)
  BY <1>1, <1>2 DEF StepOk
<1>. QED
  BY <1>3 DEF d

\* The smallest movement in some states is in one of them.
LEMMA SmallestMovement ==
    ASSUME NEW s, NEW states, WithState(s, states) # {}
    PROVE  /\ Min(WithState(s, states)) \in Movements /\ Min(WithState(s, states)) \in 0 .. N
           /\ s.mov[Min(WithState(s, states))] \in states
<1>1. WithState(s, states) \subseteq Nat
  BY DEF WithState, Movements
<1>2. Min(WithState(s, states)) \in WithState(s, states)
  BY <1>1, MinIsLeast
<1>. QED
  BY <1>2, MovementsAreNumbers DEF WithState

\* When the budget is spent the running movement and the run end, live or recovered.
LEMMA BudgetExhaustionOk ==
    ASSUME NEW s, NEW live, NEW how, NEW wt, Good(s), Between(s)
    PROVE  StepOk(Carry(BudgetExhaustion(s), live), how, s, wt)
<1>1. ~Terminal(s) /\ Calm(s) /\ s.open.phase = "none"
  BY DEF Between, Calm, Terminal
<1>2. CASE WithState(s, {"RUNNING"}) # {}
  <2> DEFINE m == Min(WithState(s, {"RUNNING"}))
  <2>1. m \in Movements /\ m \in 0 .. N /\ s.mov[m] = "RUNNING"
    BY <1>2, SmallestMovement
  <2>2. BudgetExhaustion(s) = Decide(<<"budget_movement", "budget_run">>, m)
    BY <1>2 DEF BudgetExhaustion
  <2> HIDE DEF m
  <2>3. HeadOk("budget_movement", m, how, s, wt)
    BY <1>1, <2>1 DEF HeadOk, Scheduled, Continued, Resumes, LiveSteps, SchedulingSteps, Calm
  <2>4. /\ <<"budget_movement", "budget_run">> \in StepShapes
        /\ Head(<<"budget_movement", "budget_run">>) = "budget_movement"
    BY TwoSteps DEF StepShapes
  <2>. QED
    BY <2>1, <2>2, <2>3, <2>4, StepsOk
<1>3. CASE WithState(s, {"RUNNING"}) = {}
  <2>1. BudgetExhaustion(s) = Decide(<<"budget_run">>, 0)
    BY <1>3 DEF BudgetExhaustion
  <2>2. HeadOk("budget_run", 0, how, s, wt)
    BY <1>1 DEF HeadOk, Scheduled, Continued, Resumes, LiveSteps, SchedulingSteps, Calm
  <2>3. 0 \in 0 .. N
    BY ScoreAssumption
  <2>. QED
    BY <2>1, <2>2, <2>3, OneStepOk DEF Singles
<1>. QED
  BY <1>2, <1>3

\* With no successor owed, the next step is a movement's or the candidate's.
LEMMA NextUnitOk ==
    ASSUME NEW s, NEW live, NEW how, NEW wt, Good(s), Between(s), Settled(s)
    PROVE  LET d == PlanBetweenUnit(s, NoSuccessor)
           IN  d.steps = <<>> \/ StepOk(Carry(d, live), how, s, wt)
<1>1. /\ ~Terminal(s) /\ Calm(s) /\ s.open.phase = "none" /\ 0 \in 0 .. N
      /\ PlanBetweenUnit(s, NoSuccessor).steps = <<>>
            \/ PlanBetweenUnit(s, NoSuccessor).steps # <<>>
  BY ScoreAssumption DEF Between, Calm, Terminal
<1> DEFINE active == WithState(s, {"READY", "RUNNING"})
<1>2. CASE Remaining(s) = 0
  <2>1. PlanBetweenUnit(s, NoSuccessor) = BudgetExhaustion(s)
    BY <1>2 DEF PlanBetweenUnit
  <2>. QED
    BY <2>1, BudgetExhaustionOk
<1>3. CASE Remaining(s) # 0 /\ Selectable(s) # {}
  <2> DEFINE m == Min(Selectable(s))
  <2>1. PlanBetweenUnit(s, NoSuccessor) = Decide(<<"ready">>, m)
    BY <1>3 DEF PlanBetweenUnit
  <2>2. m \in Selectable(s)
    <3>1. Selectable(s) \subseteq Nat
      BY DEF Selectable, WithState, Movements
    <3>. QED
      BY <1>3, <3>1, MinIsLeast
  <2>3. m \in 0 .. N
    BY <2>2, MovementsAreNumbers DEF Selectable, WithState
  <2> HIDE DEF m
  <2>4. HeadOk("ready", m, how, s, wt)
    BY <1>1, <2>2
       DEF HeadOk, Scheduled, Continued, Resumes, LiveSteps, SchedulingSteps, Calm
  <2>. QED
    BY <2>1, <2>3, <2>4, OneStepOk DEF Singles
<1>4. CASE Remaining(s) # 0 /\ Selectable(s) = {} /\ active # {}
  <2> DEFINE m == Min(active)
  <2>1. m \in Movements /\ m \in 0 .. N /\ s.mov[m] \in {"READY", "RUNNING"}
    BY <1>4, SmallestMovement
  <2>2. CASE s.mov[m] = "READY"
    <3>1. PlanBetweenUnit(s, NoSuccessor) = Decide(<<"start">>, m)
      BY <1>4, <2>2 DEF PlanBetweenUnit
    <3> HIDE DEF m
    <3>2. HeadOk("start", m, how, s, wt)
      BY <1>1, <2>1, <2>2
         DEF HeadOk, Scheduled, Continued, Resumes, LiveSteps, SchedulingSteps, Calm
    <3>. QED
      BY <2>1, <3>1, <3>2, OneStepOk DEF Singles
  <2>3. CASE s.mov[m] # "READY"
    <3>1. PlanBetweenUnit(s, NoSuccessor) = Decide(<<"initial">>, m)
      BY <1>4, <2>3 DEF PlanBetweenUnit
    <3> HIDE DEF m
    <3>2. HeadOk("initial", m, how, s, wt)
      BY <1>1, <2>1, <2>3
         DEF HeadOk, Scheduled, Continued, Resumes, LiveSteps, SchedulingSteps, Calm
    <3>. QED
      BY <2>1, <3>1, <3>2, OneStepOk DEF Singles
  <2>. QED
    BY <2>2, <2>3
<1> DEFINE due == IF GateWaived THEN WaivedCompletion(s)
                  ELSE ~s.candidate /\ CandidatePrecondition(s)
<1>5. CASE Remaining(s) # 0 /\ Selectable(s) = {} /\ active = {} /\ due
  <2>1. PlanBetweenUnit(s, NoSuccessor) = Decide(<<"candidate">>, 0)
    BY <1>5 DEF PlanBetweenUnit
  <2>2. CandidateDue(s)
    <3>1. CASE GateWaived
      <4>1. ~s.candidate
        BY <1>1, <3>1 DEF Good, MovementInv, Terminal
      <4>. QED
        BY <1>5, <3>1, <4>1, ScoreAssumption
           DEF CandidateDue, WritersSucceeded, WaivedCompletion
    <3>2. CASE ~GateWaived
      <4>1. Final \notin Writers
        BY <3>2, FinalAssumption DEF GateWaived
      <4>. QED
        BY <1>5, <3>2, <4>1 DEF CandidateDue, WritersSucceeded, CandidatePrecondition
    <3>. QED
      BY <3>1, <3>2
  <2>3. HeadOk("candidate", 0, how, s, wt)
    BY <1>1, <2>2
       DEF HeadOk, Scheduled, Continued, Resumes, LiveSteps, SchedulingSteps, Calm
  <2>. QED
    BY <1>1, <2>1, <2>3, OneStepOk DEF Singles
<1>6. CASE Remaining(s) # 0 /\ Selectable(s) = {} /\ active = {} /\ ~due
  <2>1. PlanBetweenUnit(s, NoSuccessor) = Decide(<<>>, 0)
    BY <1>6 DEF PlanBetweenUnit
  <2>. QED
    BY <2>1 DEF Decide
<1>. QED
  BY <1>2, <1>3, <1>4, <1>5, <1>6

\* The live loop's decision is in order.
LEMMA PlanLiveKeeps == ASSUME IInv, PlanLive PROVE IInv'
<1>1. /\ pc = "plan" /\ mode = "live" /\ Good(st)
      /\ UNCHANGED <<st, mode, next, left, result, sess, escaped, stray, tree>>
  BY DEF PlanLive, At, IInv
<1>2. sess = 0
  BY <1>1 DEF IInv, SessInv, SessionLabels
<1>3. Terminal(st) \/ (Between(st) /\ Settled(st))
  BY <1>1 DEF IInv, LabelOk, Ending
<1> DEFINE d == PlanBetweenUnit(st, PendingSuccessor(st))
<1>4. CASE pc' = "down"
  <2>1. UNCHANGED todo /\ note' # "refused"
    BY <1>4 DEF PlanLive, Exit
  <2>. QED
    BY <1>1, <1>4, <2>1, StopsLeaving DEF SessionLabels
<1>5. CASE pc' # "down"
  <2>1. ~Terminal(st) /\ d.steps # <<>> /\ pc' = "step" /\ todo' = Carry(d, TRUE) /\ note' = note
    BY <1>5 DEF PlanLive, Exit
  <2>2. PendingSuccessor(st) = NoSuccessor
    BY <1>3, <2>1 DEF PendingSuccessor, Settled
  <2>3. StepOk(todo', mode, st, tree)
    <3>1. d = PlanBetweenUnit(st, NoSuccessor)
      BY <2>2
    <3>. HIDE DEF d
    <3>2. d.steps = <<>> \/ StepOk(Carry(d, TRUE), mode, st, tree)
      BY <1>1, <1>3, <2>1, <3>1, NextUnitOk
    <3>. QED
      BY <2>1, <3>2
  <2>4. next'.mov \in 0 .. N /\ left' \in 0 .. Budget /\ stray' \in BOOLEAN /\ note' # "refused"
    BY <1>1, <2>1 DEF IInv, ProcessInv
  <2>. QED
    BY <1>1, <1>2, <2>1, <2>3, <2>4, StepsOn
<1>. QED
  BY <1>4, <1>5

Exits == {"cleanup", "wait", "unreachable"}

\* A decision of recovery is one that ends the process, or its steps are in order.
PlanOk(d, s, wt) ==
    d.steps \in {<<x>> : x \in Exits} \/ StepOk(Carry(d, FALSE), "recovery", s, wt)

\* A step that ends the process.
LEMMA ExitOk == ASSUME NEW x \in Exits, NEW m, NEW s, NEW wt PROVE PlanOk(Decide(<<x>>, m), s, wt)
  BY DEF PlanOk, Decide

\* A recomposition that is due is of a running movement's base or of the candidate.
LEMMA RecomposeOkStep ==
    ASSUME NEW s, NEW wt, Good(s), Between(s), CompositionRecovery(s) # NoRecomposition
    PROVE  PlanOk(Decide(<<"recompose">>, CompositionRecovery(s)), s, wt)
<1>1. ~Terminal(s) /\ Calm(s) /\ s.open.phase = "none" /\ 0 \in 0 .. N
  BY ScoreAssumption DEF Between, Calm, Terminal
<1> DEFINE running == WithState(s, {"RUNNING"})
<1> DEFINE m == CompositionRecovery(s)
<1>2. m \in 0 .. N /\ (IF m = 0 THEN CandidateDue(s) ELSE m \in Movements /\ s.mov[m] = "RUNNING")
  <2>1. CASE running # {} /\ Min(running) \notin s.evidence
    <3>1. m = Min(running)
      BY <2>1 DEF CompositionRecovery
    <3>2. Min(running) \in Movements /\ Min(running) \in 0 .. N /\ s.mov[Min(running)] = "RUNNING"
      BY <2>1, SmallestMovement
    <3>3. Min(running) # 0
      BY <3>2, MovementsAreNumbers
    <3>. QED
      BY <3>1, <3>2, <3>3
  <2>2. CASE ~(running # {} /\ Min(running) \notin s.evidence)
    <3>1. m = 0 /\ ~s.candidate /\ CandidatePrecondition(s)
      BY <2>2 DEF CompositionRecovery
    <3>2. CandidateDue(s)
      <4>1. Final \notin Writers
        BY ScoreAssumption, FinalAssumption DEF Movements
      <4>. QED
        BY <3>1, <4>1 DEF CandidateDue, WritersSucceeded, CandidatePrecondition
    <3>. QED
      BY <1>1, <3>1, <3>2
  <2>. QED
    BY <2>1, <2>2
<1> HIDE DEF m
<1>3. HeadOk("recompose", m, "recovery", s, wt)
  BY <1>1, <1>2 DEF HeadOk, Scheduled, Continued, Resumes, SchedulingSteps, Calm
<1>4. StepOk(Carry(Decide(<<"recompose">>, m), FALSE), "recovery", s, wt)
  BY <1>2, <1>3, OneStepOk DEF Singles
<1>. QED
  BY <1>4 DEF PlanOk, m

\* The scheduler's decision, when the last attempt succeeded or a successor is owed.
LEMMA SchedulerOk ==
    ASSUME NEW s, NEW pending, NEW wt, Good(s), Between(s),
           pending = NoSuccessor => Settled(s),
           pending # NoSuccessor => Owes(s) /\ pending.mov \in 0 .. N
    PROVE  PlanOk(PlanScheduler(s, pending), s, wt)
<1>1. ~Terminal(s) /\ Calm(s) /\ s.open.phase = "none"
  BY DEF Between, Calm, Terminal
<1> DEFINE d == PlanBetweenUnit(s, pending)
<1>2. CASE Remaining(s) = 0
  <2>1. PlanScheduler(s, pending) = BudgetExhaustion(s)
    BY <1>2 DEF PlanScheduler, PlanBetweenUnit
  <2>2. StepOk(Carry(BudgetExhaustion(s), FALSE), "recovery", s, wt)
    BY BudgetExhaustionOk
  <2>. QED
    BY <2>1, <2>2 DEF PlanOk
<1>3. CASE Remaining(s) # 0 /\ CompositionRecovery(s) # NoRecomposition
  BY <1>3, RecomposeOkStep DEF PlanScheduler
<1>4. CASE Remaining(s) # 0 /\ CompositionRecovery(s) = NoRecomposition /\ d.steps = <<>>
  BY <1>4, ExitOk DEF PlanScheduler, Exits
<1>5. CASE Remaining(s) # 0 /\ CompositionRecovery(s) = NoRecomposition /\ d.steps # <<>>
  <2>1. PlanScheduler(s, pending) = d
    BY <1>5 DEF PlanScheduler
  <2>2. StepOk(Carry(d, FALSE), "recovery", s, wt)
    <3>1. CASE pending = NoSuccessor
      <4>1. d = PlanBetweenUnit(s, NoSuccessor)
        BY <3>1
      <4> HIDE DEF d
      <4>2. d.steps = <<>> \/ StepOk(Carry(d, FALSE), "recovery", s, wt)
        BY <3>1, <4>1, NextUnitOk
      <4>. QED
        BY <1>5, <4>2
    <3>2. CASE pending # NoSuccessor
      <4>1. d = Decide(<<"successor">>, pending.mov)
        BY <1>5, <3>2 DEF PlanBetweenUnit
      <4>2. HeadOk("successor", pending.mov, "recovery", s, wt)
        BY <1>1, <3>2 DEF HeadOk, Scheduled, Continued, Resumes, SchedulingSteps, Calm
      <4>. HIDE DEF d
      <4>. QED
        BY <3>2, <4>1, <4>2, OneStepOk DEF Singles
    <3>. QED
      BY <3>1, <3>2
  <2>. QED
    BY <2>1, <2>2 DEF PlanOk
<1>. QED
  BY <1>2, <1>3, <1>4, <1>5

\* A single step of recovery.
LEMMA RecoveredStepOk ==
    ASSUME NEW step \in Singles, NEW m \in 0 .. N, NEW s, NEW wt,
           HeadOk(step, m, "recovery", s, wt),
           step = "close" => s.open.phase \in {"composition", "acceptance"}
    PROVE  PlanOk(Decide(<<step>>, m), s, wt)
<1>1. StepOk(Carry(Decide(<<step>>, m), FALSE), "recovery", s, wt)
  BY OneStepOk
<1>. QED
  BY <1>1 DEF PlanOk

\* A step that needs the acceptance subject.
LEMMA OnSubjectOk ==
    ASSUME NEW s, NEW obs, NEW steps, Good(s), Calm(s), s.open.phase = "none",
           s.att.state = "VERIFYING", s.att.accepting, obs.tree \in {"intact", "altered", "lost"},
           obs.tree = "intact" => PlanOk(Decide(steps, s.att.mov), s, obs.tree)
    PROVE  PlanOk(OnSubject(s, obs, steps), s, obs.tree)
<1>1. s.att.mov \in 0 .. N /\ ~Terminal(s) /\ s.run = "RUNNING" /\ ~PendingDecision(s)
      /\ CompositionTerminals(s) = {}
  BY DEF Good, Projections, Attempts, Calm, Terminal
<1>2. CASE obs.tree = "intact"
  BY <1>2 DEF OnSubject
<1>3. CASE obs.tree = "altered"
  <2>1. OnSubject(s, obs, steps) = Decide(<<"mismatch">>, s.att.mov)
    BY <1>3 DEF OnSubject
  <2>2. HeadOk("mismatch", s.att.mov, "recovery", s, obs.tree)
    BY <1>1 DEF HeadOk, Scheduled, Continued, Resumes, SchedulingSteps
  <2>. QED
    BY <1>1, <2>1, <2>2, RecoveredStepOk DEF Singles
<1>4. CASE obs.tree = "lost"
  <2>1. OnSubject(s, obs, steps) = Decide(<<"verify_subject">>, s.att.mov)
    BY <1>4 DEF OnSubject
  <2>2. HeadOk("verify_subject", s.att.mov, "recovery", s, obs.tree)
    BY <1>1, <1>4 DEF HeadOk, Scheduled, Continued, Resumes, SchedulingSteps
  <2>. QED
    BY <1>1, <2>1, <2>2, RecoveredStepOk DEF Singles
<1>. QED
  BY <1>2, <1>3, <1>4

\* The evaluated attempt: its gate, then its completion.
LEMMA EvaluatedOk ==
    ASSUME NEW s, NEW obs, Good(s), Calm(s), s.open.phase = "none",
           s.att.state = "VERIFYING", s.att.evaluated, obs.tree \in {"intact", "altered", "lost"}
    PROVE  PlanOk(PlanEvaluatedAcceptance(s, obs), s, obs.tree)
<1>1. /\ s.att.mov \in 0 .. N /\ ~Terminal(s) /\ s.run = "RUNNING" /\ ~PendingDecision(s)
      /\ CompositionTerminals(s) = {} /\ s.att.accepting
      /\ s.att.gate \in {"none", "pending", "approved", "rejected"}
  BY DEF Good, AttemptInv, Projections, Attempts, Calm, Terminal
<1>2. CASE GateRequired(s) /\ s.att.gate = "none"
  <2>1. PlanEvaluatedAcceptance(s, obs) = Decide(<<"gate">>, s.att.mov)
    BY <1>2 DEF PlanEvaluatedAcceptance
  <2>2. HeadOk("gate", s.att.mov, "recovery", s, obs.tree)
    BY <1>1, <1>2 DEF HeadOk, Scheduled, Continued, Resumes, SchedulingSteps
  <2>. QED
    BY <1>1, <2>1, <2>2, RecoveredStepOk DEF Singles
<1>3. CASE GateRequired(s) /\ s.att.gate = "pending"
  BY <1>3, ExitOk DEF PlanEvaluatedAcceptance, Exits
<1>4. CASE GateRequired(s) /\ s.att.gate = "rejected"
  <2>1. PlanEvaluatedAcceptance(s, obs) = Decide(<<"gate_rejected">>, s.att.mov)
    BY <1>4 DEF PlanEvaluatedAcceptance
  <2>2. HeadOk("gate_rejected", s.att.mov, "recovery", s, obs.tree)
    BY <1>1, <1>4 DEF HeadOk, Scheduled, Continued, Resumes, SchedulingSteps
  <2>. QED
    BY <1>1, <2>1, <2>2, RecoveredStepOk DEF Singles
<1>5. CASE GateRequired(s) => s.att.gate = "approved"
  <2>1. PlanEvaluatedAcceptance(s, obs) = OnSubject(s, obs, <<"complete", "succeed">>)
    BY <1>5 DEF PlanEvaluatedAcceptance
  <2>2. HeadOk("complete", s.att.mov, "recovery", s, obs.tree)
    BY <1>1, <1>5 DEF HeadOk, Scheduled, Continued, Resumes, SchedulingSteps
  <2>3. <<"complete", "succeed">> \in StepShapes /\ Head(<<"complete", "succeed">>) = "complete"
    BY TwoSteps DEF StepShapes
  <2>4. StepOk(Carry(Decide(<<"complete", "succeed">>, s.att.mov), FALSE), "recovery", s, obs.tree)
    BY <1>1, <2>2, <2>3, StepsOk
  <2>. QED
    BY <1>1, <2>1, <2>4, OnSubjectOk DEF PlanOk
<1>. QED
  BY <1>1, <1>2, <1>3, <1>4, <1>5

\* The acceptance under way.
LEMMA AcceptanceOk ==
    ASSUME NEW s, NEW obs, Good(s), Calm(s), s.open.phase = "none",
           s.att.state = "VERIFYING", s.att.accepting, obs.tree \in {"intact", "altered", "lost"}
    PROVE  PlanOk(PlanAcceptance(s, obs), s, obs.tree)
<1>1. /\ s.att.mov \in 0 .. N /\ ~Terminal(s) /\ s.run = "RUNNING" /\ ~PendingDecision(s)
      /\ CompositionTerminals(s) = {} /\ s.att.mov \in Movements
  BY DEF Good, AttemptInv, Projections, Attempts, Calm, Terminal
<1>2. CASE s.att.verdict # "none"
  <2>1. PlanAcceptance(s, obs) = Decide(<<"fail_acceptance">>, s.att.mov)
    BY <1>2 DEF PlanAcceptance
  <2>2. HeadOk("fail_acceptance", s.att.mov, "recovery", s, obs.tree)
    BY <1>1 DEF HeadOk, Scheduled, Continued, Resumes, SchedulingSteps
  <2>. QED
    BY <1>1, <2>1, <2>2, RecoveredStepOk DEF Singles
<1>3. CASE s.att.verdict = "none" /\ s.att.inFlight
  <2>1. PlanAcceptance(s, obs) = Decide(<<"sweep_criterion", "verify_subject">>, s.att.mov)
    BY <1>3 DEF PlanAcceptance, InFlightCriterion
  <2>2. HeadOk("sweep_criterion", s.att.mov, "recovery", s, obs.tree)
    BY <1>1, <1>3 DEF HeadOk, Scheduled, Continued, Resumes, SchedulingSteps
  <2>3. /\ <<"sweep_criterion", "verify_subject">> \in StepShapes
        /\ Head(<<"sweep_criterion", "verify_subject">>) = "sweep_criterion"
    BY TwoSteps DEF StepShapes
  <2>4. StepOk(Carry(Decide(<<"sweep_criterion", "verify_subject">>, s.att.mov), FALSE),
               "recovery", s, obs.tree)
    BY <1>1, <2>2, <2>3, StepsOk
  <2>. QED
    BY <2>1, <2>4 DEF PlanOk
<1>4. CASE s.att.verdict = "none" /\ ~s.att.inFlight /\ s.att.evaluated
  BY <1>4, EvaluatedOk DEF PlanAcceptance
<1>5. CASE /\ s.att.verdict = "none" /\ ~s.att.inFlight /\ ~s.att.evaluated
           /\ s.att.passed = Planned(s)
  <2>1. PlanAcceptance(s, obs) = OnSubject(s, obs, <<"evaluate">>)
    BY <1>5 DEF PlanAcceptance
  <2>2. HeadOk("evaluate", s.att.mov, "recovery", s, obs.tree)
    BY <1>1, <1>5 DEF HeadOk, Scheduled, Continued, Resumes, SchedulingSteps, Evaluating
  <2>3. PlanOk(Decide(<<"evaluate">>, s.att.mov), s, obs.tree)
    BY <1>1, <2>2, RecoveredStepOk DEF Singles
  <2>. QED
    BY <2>1, <2>3, OnSubjectOk
<1>6. CASE /\ s.att.verdict = "none" /\ ~s.att.inFlight /\ ~s.att.evaluated
           /\ s.att.passed # Planned(s) /\ obs.stray
  <2>1. PICK step \in {"stabilize_launch", "remove_launch"} :
           PlanAcceptance(s, obs) = Decide(<<step>>, s.att.mov)
    BY <1>6 DEF PlanAcceptance, PlanUnjournaledLaunch
  <2>2. HeadOk(step, s.att.mov, "recovery", s, obs.tree)
    BY <1>1, <1>6 DEF HeadOk, Scheduled, Continued, Resumes, SchedulingSteps
  <2>. QED
    BY <1>1, <2>1, <2>2, RecoveredStepOk DEF Singles
<1>7. CASE /\ s.att.verdict = "none" /\ ~s.att.inFlight /\ ~s.att.evaluated
           /\ s.att.passed # Planned(s) /\ ~obs.stray
  <2>1. PlanAcceptance(s, obs) = OnSubject(s, obs, <<"criterion">>)
    BY <1>7 DEF PlanAcceptance
  <2>2. s.att.passed < Planned(s)
    <3>1. s.att.passed <= Len(Criteria[s.att.mov]) /\ s.att.passed \in Nat
      BY DEF Good, AttemptInv, Projections, Attempts
    <3>2. Len(Criteria[s.att.mov]) \in Nat
      BY <1>1, CriteriaAreCounted
    <3>. QED
      BY <1>7, <3>1, <3>2 DEF Planned
  <2>3. HeadOk("criterion", s.att.mov, "recovery", s, obs.tree)
    BY <1>1, <1>7, <2>2 DEF HeadOk, Scheduled, Continued, Resumes, SchedulingSteps, Evaluating
  <2>4. PlanOk(Decide(<<"criterion">>, s.att.mov), s, obs.tree)
    BY <1>1, <2>3, RecoveredStepOk DEF Singles
  <2>. QED
    BY <2>1, <2>4, OnSubjectOk
<1>. QED
  BY <1>2, <1>3, <1>4, <1>5, <1>6, <1>7

\* The attempt under verification.
LEMMA VerifyingOk ==
    ASSUME NEW s, NEW obs, Good(s), Calm(s), s.open.phase = "none",
           s.att.state = "VERIFYING", obs.tree \in {"intact", "altered", "lost"}
    PROVE  PlanOk(PlanVerifying(s, obs), s, obs.tree)
<1>1. /\ s.att.mov \in 0 .. N /\ ~Terminal(s) /\ s.run = "RUNNING" /\ ~PendingDecision(s)
      /\ CompositionTerminals(s) = {}
  BY DEF Good, Projections, Attempts, Calm, Terminal
<1>2. CASE s.att.accepting
  BY <1>2, AcceptanceOk DEF PlanVerifying
<1> DEFINE writer == s.att.mov \in Writers
<1>3. CASE ~s.att.accepting /\ obs.tree = "lost" /\ (writer \/ ~s.att.verified)
  <2>1. PlanVerifying(s, obs) = Decide(<<"fail_lost">>, s.att.mov)
    BY <1>3 DEF PlanVerifying
  <2>2. HeadOk("fail_lost", s.att.mov, "recovery", s, obs.tree)
    BY <1>1, <1>3 DEF HeadOk, Scheduled, Continued, Resumes, SchedulingSteps
  <2>. QED
    BY <1>1, <2>1, <2>2, RecoveredStepOk DEF Singles
<1>4. CASE /\ ~s.att.accepting /\ ~(obs.tree = "lost" /\ (writer \/ ~s.att.verified))
           /\ writer /\ ~s.att.changeSet
  <2>1. PlanVerifying(s, obs) = Decide(<<"capture">>, s.att.mov)
    BY <1>4 DEF PlanVerifying
  <2>2. HeadOk("capture", s.att.mov, "recovery", s, obs.tree)
    BY <1>1, <1>4 DEF HeadOk, Scheduled, Continued, Resumes, SchedulingSteps
  <2>. QED
    BY <1>1, <2>1, <2>2, RecoveredStepOk DEF Singles
<1>5. CASE /\ ~s.att.accepting /\ ~(obs.tree = "lost" /\ (writer \/ ~s.att.verified))
           /\ ~(writer /\ ~s.att.changeSet) /\ ~s.att.verified
  <2>1. PlanVerifying(s, obs) = Decide(<<"verify">>, s.att.mov)
    BY <1>5 DEF PlanVerifying
  <2>2. HeadOk("verify", s.att.mov, "recovery", s, obs.tree)
    BY <1>1, <1>5 DEF HeadOk, Scheduled, Continued, Resumes, SchedulingSteps
  <2>. QED
    BY <1>1, <2>1, <2>2, RecoveredStepOk DEF Singles
<1>6. CASE /\ ~s.att.accepting /\ ~(obs.tree = "lost" /\ (writer \/ ~s.att.verified))
           /\ ~(writer /\ ~s.att.changeSet) /\ s.att.verified
  <2>1. PlanVerifying(s, obs) = Decide(<<"accept">>, s.att.mov)
    BY <1>6 DEF PlanVerifying
  <2>2. HeadOk("accept", s.att.mov, "recovery", s, obs.tree)
    BY <1>1, <1>6 DEF HeadOk, Scheduled, Continued, Resumes, SchedulingSteps
  <2>. QED
    BY <1>1, <2>1, <2>2, RecoveredStepOk DEF Singles
<1>. QED
  BY <1>2, <1>3, <1>4, <1>5, <1>6

\* A session that was started is ended before anything else.
LEMMA EndSessionOk ==
    ASSUME NEW s, NEW sweep, NEW failure, NEW wt, Good(s), Calm(s), Starting(s),
           <<sweep, failure>> \in {<<"stabilize", "fail_unstarted">>, <<"sweep", "fail_unprobed">>,
                                   <<"sweep", "fail_incomplete">>}
    PROVE  PlanOk(Decide(EndSession(sweep, failure), s.att.mov), s, wt)
<1>1. /\ s.att.mov \in 0 .. N /\ ~Terminal(s) /\ s.run = "RUNNING" /\ ~PendingDecision(s)
      /\ CompositionTerminals(s) = {}
  BY DEF Good, Projections, Attempts, Calm, Terminal
<1>2. sweep \in {"stabilize", "sweep"}
  OBVIOUS
<1>3. EndSession(sweep, failure) \in StepShapes /\ Head(EndSession(sweep, failure)) = sweep
  BY ThreeSteps DEF StepShapes, EndSession
<1>4. HeadOk(sweep, s.att.mov, "recovery", s, wt)
  BY <1>1, <1>2 DEF HeadOk, Scheduled, Continued, Resumes, SchedulingSteps
<1>5. StepOk(Carry(Decide(EndSession(sweep, failure), s.att.mov), FALSE), "recovery", s, wt)
  BY <1>1, <1>2, <1>3, <1>4, StepsOk
<1>. QED
  BY <1>5 DEF PlanOk

\* The latest attempt, wherever it stands.
LEMMA AttemptOk ==
    ASSUME NEW s, NEW obs, Good(s), ~Terminal(s), CompositionTerminals(s) = {},
           s.att.state # "NONE", PendingDecision(s) => MissingRequest(s),
           s.open.phase \in {"none", "adapter"}, obs.tree \in {"intact", "altered", "lost"}
    PROVE  PlanOk(PlanAttempt(s, obs), s, obs.tree)
<1>1. /\ s.att.mov \in 0 .. N /\ s.att.asked \in Nat /\ s.att.raised \in Nat
      /\ s.att.pending \in Nat /\ s.att.asked <= s.att.raised
      /\ s.att.state \in {"STARTING", "RUNNING", "VERIFYING", "BLOCKED", "COMPLETED", "FAILED"}
      /\ s.att.failedHere \in BOOLEAN /\ s.att.succeededHere \in BOOLEAN
      /\ s.att.probed \in BOOLEAN
  BY DEF Good, AttemptInv, Projections, Attempts, AttemptStates
<1>2. s.att.state \notin {"STARTING", "RUNNING"} => s.open.phase = "none"
  BY DEF Good, PhaseInv
<1>3. ~MissingRequest(s) => Calm(s)
  BY DEF Good, RunInv, Calm, Projections, RunStates, Terminal
<1>4. CASE s.att.state = "FAILED" /\ ~s.att.failedHere /\ s.att.disposition = "terminal"
  <2>1. PlanAttempt(s, obs) = Decide(<<"realize">>, s.att.mov)
    BY <1>4 DEF PlanAttempt
  <2>2. HeadOk("realize", s.att.mov, "recovery", s, obs.tree)
    BY <1>2, <1>3, <1>4
       DEF HeadOk, Scheduled, Continued, Resumes, SchedulingSteps, MissingRequest, Calm
  <2>. QED
    BY <1>1, <2>1, <2>2, RecoveredStepOk DEF Singles
<1>5. CASE s.att.state = "FAILED" /\ ~s.att.failedHere /\ s.att.disposition # "terminal"
  <2>1. PlanAttempt(s, obs) = PlanScheduler(s, PendingSuccessor(s))
    BY <1>5 DEF PlanAttempt
  <2>2. OwesRetry(s)
    BY <1>5 DEF OwesRetry, Good, AttemptInv, Projections, Attempts
  <2>3. Between(s) /\ Owes(s)
    BY <1>2, <1>3, <1>5, <2>2 DEF Between, Owes, MissingRequest
  <2>4. PendingSuccessor(s) =
            [mov |-> s.att.mov, perf |-> Realize(s), reason |-> s.att.disposition]
    BY <2>2 DEF PendingSuccessor, OwesRetry, Good, PaidInv
  <2>5. PendingSuccessor(s) # NoSuccessor /\ PendingSuccessor(s).mov \in 0 .. N
    <3>1. PendingSuccessor(s).reason \in {"quality_retry", "fallback"}
      BY <2>2, <2>4 DEF OwesRetry
    <3>2. NoSuccessor.reason = "none"
      BY DEF NoSuccessor
    <3>. QED
      BY <1>1, <2>4, <3>1, <3>2
  <2>. QED
    BY <2>1, <2>3, <2>5, SchedulerOk
<1>6. CASE s.att.state = "FAILED" /\ s.att.failedHere
  <2>1. PlanAttempt(s, obs) = Decide(<<"fail_run">>, s.att.mov)
    BY <1>6 DEF PlanAttempt
  <2>2. HeadOk("fail_run", s.att.mov, "recovery", s, obs.tree)
    BY <1>2, <1>3, <1>6
       DEF HeadOk, Scheduled, Continued, Resumes, SchedulingSteps, MissingRequest, Calm
  <2>. QED
    BY <1>1, <2>1, <2>2, RecoveredStepOk DEF Singles
<1>7. CASE s.att.state = "BLOCKED" /\ s.att.asked < s.att.raised
  <2>1. PlanAttempt(s, obs) = Decide(<<"question">>, s.att.mov)
    BY <1>7 DEF PlanAttempt
  <2>2. HeadOk("question", s.att.mov, "recovery", s, obs.tree)
    BY <1>2, <1>7 DEF HeadOk, Scheduled, Continued, Resumes, SchedulingSteps
  <2>. QED
    BY <1>1, <2>1, <2>2, RecoveredStepOk DEF Singles
<1>8. CASE s.att.state = "BLOCKED" /\ ~(s.att.asked < s.att.raised) /\ s.att.pending > 0
  BY <1>8, ExitOk DEF PlanAttempt, Exits
<1>9. CASE s.att.state = "BLOCKED" /\ ~(s.att.asked < s.att.raised) /\ ~(s.att.pending > 0)
  <2>1. PlanAttempt(s, obs) = PlanScheduler(s, DecisionResume(s))
    BY <1>9 DEF PlanAttempt
  <2>2. OwesResume(s)
    BY <1>1, <1>9 DEF OwesResume
  <2>3. Between(s) /\ Owes(s)
    BY <1>2, <1>3, <1>9, <2>2 DEF Between, Owes, MissingRequest
  <2>4. DecisionResume(s) # NoSuccessor /\ DecisionResume(s).mov \in 0 .. N
    <3>1. DecisionResume(s).reason = "decision_resume" /\ DecisionResume(s).mov = s.att.mov
      BY DEF DecisionResume
    <3>2. NoSuccessor.reason = "none"
      BY DEF NoSuccessor
    <3>. QED
      BY <1>1, <3>1, <3>2
  <2>. QED
    BY <2>1, <2>3, <2>4, SchedulerOk
<1>10. CASE s.att.state \in {"STARTING", "RUNNING"}
  <2>1. Calm(s) /\ Starting(s)
    BY <1>3, <1>10 DEF MissingRequest, Starting
  <2>2. CASE s.att.state = "STARTING"
    BY <2>1, <2>2, EndSessionOk DEF PlanAttempt
  <2>3. CASE s.att.state = "RUNNING" /\ ~s.att.probed
    BY <2>1, <2>3, EndSessionOk DEF PlanAttempt
  <2>4. CASE s.att.state = "RUNNING" /\ s.att.probed
    BY <2>1, <2>4, EndSessionOk DEF PlanAttempt
  <2>. QED
    BY <1>1, <1>10, <2>2, <2>3, <2>4
<1>11. CASE s.att.state = "VERIFYING"
  <2>1. Calm(s) /\ s.open.phase = "none"
    BY <1>2, <1>3, <1>11 DEF MissingRequest
  <2>. QED
    BY <1>11, <2>1, VerifyingOk DEF PlanAttempt
<1>12. CASE s.att.state = "COMPLETED" /\ ~s.att.succeededHere
  <2>1. PlanAttempt(s, obs) = Decide(<<"succeed">>, s.att.mov)
    BY <1>12 DEF PlanAttempt
  <2>2. HeadOk("succeed", s.att.mov, "recovery", s, obs.tree)
    BY <1>2, <1>3, <1>12
       DEF HeadOk, Scheduled, Continued, Resumes, SchedulingSteps, MissingRequest, Calm
  <2>. QED
    BY <1>1, <2>1, <2>2, RecoveredStepOk DEF Singles
<1>13. CASE s.att.state = "COMPLETED" /\ s.att.succeededHere
  <2>1. PlanAttempt(s, obs) = PlanScheduler(s, NoSuccessor)
    BY <1>13 DEF PlanAttempt, PendingSuccessor
  <2>2. Between(s) /\ Settled(s)
    BY <1>2, <1>3, <1>13 DEF Between, Settled, MissingRequest
  <2>. QED
    BY <2>1, <2>2, SchedulerOk
<1>. QED
  BY <1>1, <1>4, <1>5, <1>6, <1>7, <1>8, <1>9, <1>10, <1>11, <1>12, <1>13

\* Every decision of the planner ends the process or is in order.
LEMMA PlannedOk ==
    ASSUME NEW s, NEW obs, Good(s), obs.tree \in {"intact", "altered", "lost"}
    PROVE  PlanOk(Plan(s, obs), s, obs.tree)
<1>1. 0 \in 0 .. N /\ s.open.phase \in {"none", "composition", "adapter", "acceptance"}
  BY ScoreAssumption DEF Good, Projections, Intervals
<1>2. CASE Terminal(s)
  BY <1>2, ExitOk DEF Plan, Exits
<1>3. CASE ~Terminal(s) /\ PendingDecision(s) /\ ~MissingRequest(s)
  BY <1>3, ExitOk DEF Plan, Exits
<1> DEFINE open == ~Terminal(s) /\ ~(PendingDecision(s) /\ ~MissingRequest(s))
<1>4. CASE open /\ s.open.phase \notin {"none", "adapter"}
  <2>1. Plan(s, obs) = Decide(<<"close">>, 0)
    BY <1>4 DEF Plan
  <2>2. s.run = "RUNNING" /\ ~PendingDecision(s) /\ CompositionTerminals(s) = {}
    BY <1>4 DEF Good, PhaseInv, RunInv
  <2>3. HeadOk("close", 0, "recovery", s, obs.tree)
    BY <1>4, <2>2 DEF HeadOk, Scheduled, Continued, Resumes, SchedulingSteps
  <2>. QED
    BY <1>1, <1>4, <2>1, <2>3, RecoveredStepOk DEF Singles
<1>5. CASE open /\ s.open.phase \in {"none", "adapter"} /\ CompositionTerminals(s) # {}
  <2> DEFINE m == Min(CompositionTerminals(s))
  <2>1. Plan(s, obs) = Decide(<<"compose_terminal">>, m)
    BY <1>5 DEF Plan
  <2>2. CompositionTerminals(s) \subseteq 0 .. N /\ CompositionTerminals(s) \subseteq Nat
    <3>1. N \in Nat
      BY ScoreAssumption
    <3>. QED
      BY <3>1 DEF CompositionTerminals, Good, Projections
  <2>3. m \in CompositionTerminals(s) /\ m \in 0 .. N
    BY <1>5, <2>2, MinIsLeast
  <2>4. s.run = "RUNNING" /\ ~PendingDecision(s) /\ s.open.phase = "none"
    BY <1>5, <2>3 DEF Good, PhaseInv
  <2> HIDE DEF m
  <2>5. HeadOk("compose_terminal", m, "recovery", s, obs.tree)
    BY <1>5, <2>3, <2>4 DEF HeadOk, Scheduled, Continued, Resumes, SchedulingSteps
  <2>. QED
    BY <2>1, <2>3, <2>5, RecoveredStepOk DEF Singles
<1>6. CASE /\ open /\ s.open.phase \in {"none", "adapter"} /\ CompositionTerminals(s) = {}
           /\ s.att.state # "NONE"
  <2>1. Plan(s, obs) = PlanAttempt(s, obs)
    BY <1>6 DEF Plan
  <2>. QED
    BY <1>6, <2>1, AttemptOk
<1>7. CASE /\ open /\ s.open.phase \in {"none", "adapter"} /\ CompositionTerminals(s) = {}
           /\ s.att.state = "NONE"
  <2>1. Plan(s, obs) = PlanScheduler(s, NoSuccessor)
    BY <1>7 DEF Plan, PendingSuccessor
  <2>2. ~MissingRequest(s) /\ s.open.phase = "none"
    BY <1>7 DEF MissingRequest, Good, PhaseInv
  <2>3. Calm(s) /\ Settled(s)
    BY <1>7, <2>2 DEF Good, RunInv, Calm, Projections, RunStates, Terminal, Settled
  <2>. QED
    BY <2>1, <2>2, <2>3, SchedulerOk DEF Between
<1>. QED
  BY <1>1, <1>2, <1>3, <1>4, <1>5, <1>6, <1>7

\* What a crash left running is swept first.
LEMMA LeftIsSwept ==
    ASSUME NEW s, NEW obs, Good(s), LeftRunning(s, obs.stray), obs.alive
    PROVE  Swept(Carry(Plan(s, obs), FALSE)) /\ ~(Head(Plan(s, obs).steps) \in Exits)
<1>1. /\ s.run = "RUNNING" /\ ~Terminal(s) /\ ~PendingDecision(s)
      /\ s.open.phase \in {"none", "composition", "adapter", "acceptance"}
  BY DEF LeftRunning, Good, RunInv, Terminal, Projections, Intervals
<1>2. ASSUME NEW step, NEW steps, NEW m, Plan(s, obs) = Decide(steps, m), Head(steps) = step,
             steps = <<"close">> \/ step \in SweepSteps
      PROVE  Swept(Carry(Plan(s, obs), FALSE)) /\ ~(Head(Plan(s, obs).steps) \in Exits)
  <2>1. Carry(Plan(s, obs), FALSE).steps = steps /\ Plan(s, obs).steps = steps
    BY <1>2 DEF Carry, Decide
  <2>2. step \notin Exits
    BY <1>2, OneStep DEF Exits, SweepSteps
  <2>. QED
    BY <1>2, <2>1, <2>2 DEF Swept
<1>3. CASE s.open.phase \notin {"none", "adapter"}
  <2>1. Plan(s, obs) = Decide(<<"close">>, 0)
    BY <1>1, <1>3 DEF Plan
  <2>. QED
    BY <1>2, <2>1
<1>4. CASE s.open.phase \in {"none", "adapter"}
  <2>1. s.att.state \in {"STARTING", "RUNNING", "VERIFYING"} /\ CompositionTerminals(s) = {}
    BY DEF LeftRunning, Starting, Good, PhaseInv, Settled, Owes, OwesRetry, OwesResume
  <2>2. Plan(s, obs) = PlanAttempt(s, obs)
    BY <1>1, <1>4, <2>1 DEF Plan
  <2>3. CASE s.att.state = "STARTING"
    <3>1. Plan(s, obs) = Decide(<<"stabilize", "close", "fail_unstarted">>, s.att.mov)
      BY <2>2, <2>3 DEF PlanAttempt, EndSession
    <3>2. Head(<<"stabilize", "close", "fail_unstarted">>) = "stabilize"
          /\ "stabilize" \in SweepSteps
      BY ThreeSteps DEF SweepSteps
    <3>. QED
      BY <1>2, <3>1, <3>2
  <2>4. CASE s.att.state = "RUNNING"
    <3>1. PICK failure : Plan(s, obs) = Decide(<<"sweep", "close", failure>>, s.att.mov)
      <4>1. CASE s.att.probed
        BY <2>2, <2>4, <4>1 DEF PlanAttempt, EndSession
      <4>2. CASE ~s.att.probed
        BY <2>2, <2>4, <4>2 DEF PlanAttempt, EndSession
      <4>. QED
        BY <4>1, <4>2
    <3>2. Head(<<"sweep", "close", failure>>) = "sweep" /\ "sweep" \in SweepSteps
      BY ThreeSteps DEF SweepSteps
    <3>. QED
      BY <1>2, <3>1, <3>2
  <2>5. CASE s.att.state = "VERIFYING"
    <3>1. /\ s.att.accepting /\ s.att.verdict = "none" /\ ~s.att.evaluated
          /\ s.att.inFlight \/ (obs.stray /\ s.att.passed < Planned(s))
      BY <2>5 DEF LeftRunning, Starting
    <3>2. Plan(s, obs) = PlanAcceptance(s, obs)
      BY <2>2, <2>5, <3>1 DEF PlanAttempt, PlanVerifying
    <3>3. CASE s.att.inFlight
      <4>1. Plan(s, obs) = Decide(<<"sweep_criterion", "verify_subject">>, s.att.mov)
        BY <3>1, <3>2, <3>3 DEF PlanAcceptance, InFlightCriterion
      <4>2. Head(<<"sweep_criterion", "verify_subject">>) = "sweep_criterion"
            /\ "sweep_criterion" \in SweepSteps
        BY TwoSteps DEF SweepSteps
      <4>. QED
        BY <1>2, <4>1, <4>2
    <3>4. CASE ~s.att.inFlight
      <4>1. s.att.passed # Planned(s)
        <5>1. s.att.passed \in Nat
          BY DEF Good, Projections, Attempts
        <5>. QED
          BY <3>1, <3>4, <5>1
      <4>2. Plan(s, obs) = Decide(<<"stabilize_launch">>, s.att.mov)
        BY <3>1, <3>2, <3>4, <4>1 DEF PlanAcceptance, PlanUnjournaledLaunch
      <4>. QED
        BY <1>2, <4>2, OneStep DEF SweepSteps
    <3>. QED
      BY <3>3, <3>4
  <2>. QED
    BY <2>1, <2>3, <2>4, <2>5
<1>. QED
  BY <1>1, <1>3, <1>4

\* Recovery's decision is in order, and what a crash left running is swept first.
LEMMA PlanRecoveryKeeps == ASSUME IInv, PlanRecovery PROVE IInv'
<1> DEFINE d == Plan(st, Observations)
<1>1. /\ pc = "plan" /\ mode = "recovery" /\ Good(st)
      /\ UNCHANGED <<st, mode, next, left, result, sess, escaped, stray, tree>>
  BY DEF PlanRecovery, At, IInv
<1>2. /\ sess \in {0, 1} /\ (sess = 1 => LeftRunning(st, stray)) /\ note # "refused"
      /\ tree \in {"intact", "altered", "lost"} /\ next.mov \in 0 .. N
      /\ left \in 0 .. Budget /\ stray \in BOOLEAN
  BY <1>1 DEF IInv, SessInv, ProcessInv, SessionLabels
<1>3. Observations.tree = tree /\ Observations.stray = stray /\ Observations.alive = (sess > 0)
  BY DEF Observations
<1>4. PlanOk(d, st, tree)
  BY <1>1, <1>2, <1>3, PlannedOk
<1>5. sess = 1 => Swept(Carry(d, FALSE)) /\ ~(Head(d.steps) \in Exits)
  <2> SUFFICES ASSUME sess = 1 PROVE Swept(Carry(d, FALSE)) /\ ~(Head(d.steps) \in Exits)
    OBVIOUS
  <2>1. Observations.alive /\ LeftRunning(st, Observations.stray)
    <3>1. (sess > 0) = TRUE
      OBVIOUS
    <3>2. Observations.alive = TRUE
      BY <1>3, <3>1
    <3>. QED
      BY <1>2, <1>3, <3>2
  <2>. QED
    BY <1>1, <2>1, LeftIsSwept
<1>6. CASE d.steps[1] \in Exits
  <2>1. pc' = "down" /\ note' = d.steps[1] /\ UNCHANGED todo
    BY <1>6 DEF PlanRecovery, Exit, Exits
  <2>. QED
    BY <1>1, <1>6, <2>1, StopsLeaving DEF SessionLabels, Exits
<1>7. CASE d.steps[1] \notin Exits
  <2>1. pc' = "step" /\ note' = note /\ todo' = Carry(d, FALSE)
    BY <1>7 DEF PlanRecovery, Exits
  <2>2. StepOk(Carry(d, FALSE), "recovery", st, tree)
    <3>1. ~(d.steps \in {<<x>> : x \in Exits})
      BY <1>7
    <3>. QED
      BY <1>4, <3>1 DEF PlanOk
  <2>3. LabelOk("step", mode, st, next', result')
    BY DEF LabelOk, Composing, Attempting, Verifying, Accepting, Ending
  <2>4. todo'.mov \in 0 .. N
    BY <2>1, <2>2 DEF StepOk
  <2> HIDE DEF d
  <2>. QED
    BY <1>1, <1>2, <1>5, <2>1, <2>2, <2>3, <2>4
       DEF IInv, SessInv, ProcessInv, AppendsAreAdmitted, SessionLabels
<1>. QED
  BY <1>6, <1>7

(***************************************************************************)
(* Composition                                                             *)
(***************************************************************************)
\* What a composition under way may count on.
LEMMA ComposeRelies ==
    ASSUME IInv, pc = "compose"
    PROVE  /\ Good(st) /\ sess = 0 /\ Calm(st) /\ st.open.phase = "composition"
           /\ (Settled(st) \/ Owes(st)) /\ ComposeOk(st, next, mode)
           /\ note # "refused" /\ stray \in BOOLEAN /\ mode \in {"live", "recovery"}
           /\ todo.mov \in 0 .. N /\ next.mov \in 0 .. N /\ left \in 0 .. Budget
<1>1. sess = 0
  BY NoSession DEF SessionLabels
<1>. QED
  BY <1>1 DEF IInv, ProcessInv, LabelOk, Composing

\* The interval of a composition closes, whatever it is closed for.
LEMMA ComposeStops ==
    ASSUME NEW charged \in Nat, NEW reason, IInv, pc = "compose"
    PROVE  LET t == ExecutionStopped(st, charged, reason)
           IN  /\ Good(t) /\ Between(t) /\ ComposeOk(t, next, mode) /\ SameStanding(st, t)
               /\ Settled(t) = Settled(st)
<1> DEFINE t == ExecutionStopped(st, charged, reason)
<1>1. Good(t) /\ t.open.phase = "none" /\ SameStanding(st, t)
  BY ComposeRelies, StoppedKeeps DEF SameStanding
<1> HIDE DEF t
<1>2. Between(t) /\ ComposeOk(t, next, mode) /\ Settled(t) = Settled(st)
  BY <1>1, ComposeRelies, StandingKeeps, GoalStands DEF Between
<1>. QED
  BY <1>1, <1>2 DEF t

\* A composition that succeeded is used for what it was composed for.
LEMMA ComposedKeeps == ASSUME IInv, Composed PROVE IInv'
<1>1. pc = "compose" /\ UNCHANGED <<mode, todo, next, left, result, sess, escaped, stray, tree>>
  BY DEF Composed, At
<1>2. PICK charged \in 1 .. st.open.rem :
         AppendEvent(ExecutionStoppedOk(st), ExecutionStopped(st, charged, "normal"),
                     AfterComposition)
  BY DEF Composed
<1>3. charged \in Nat
  <2>1. st.open.rem \in Nat
    BY DEF IInv, Good, Projections, Intervals
  <2>. QED
    BY <2>1
<1> DEFINE t == ExecutionStopped(st, charged, "normal")
<1>4. Good(t) /\ Between(t) /\ ComposeOk(t, next, mode)
  BY <1>1, <1>3, ComposeStops
<1>5. st' = t /\ pc' = AfterComposition /\ note' = note
  BY <1>1, <1>2, ComposeRelies DEF AppendEvent, ExecutionStoppedOk
<1> HIDE DEF t
<1>6. LabelOk(AfterComposition, mode, t, next', result')
  <2>1. CASE next.reason = "recompose"
    <3>1. AfterComposition = "plan"
      BY <2>1 DEF AfterComposition
    <3>2. mode = "recovery"
      BY <1>4, <2>1 DEF ComposeOk, GoalOk, CandidateOk
    <3>. QED
      BY <3>1, <3>2, RecoveryPlans
  <2>2. CASE next.reason = "candidate"
    <3>1. AfterComposition = "record"
      BY <2>2 DEF AfterComposition
    <3>2. CandidateOk(t, next) /\ (mode = "live" => Settled(t))
      BY <1>4, <2>2 DEF ComposeOk, GoalOk, RecomposeOk
    <3>. QED
      BY <1>1, <1>4, <3>1, <3>2
         DEF LabelOk, Composing, Attempting, Verifying, Accepting, Ending
  <2>3. CASE next.reason \notin {"recompose", "candidate"}
    <3>1. AfterComposition = "select"
      BY <2>3 DEF AfterComposition
    <3>2. GoalOk(t, next)
      BY <1>4, <2>3 DEF ComposeOk, CandidateOk, RecomposeOk
    <3>. QED
      BY <1>1, <1>4, <3>1, <3>2
         DEF LabelOk, Composing, Attempting, Verifying, Accepting, Ending
  <2>. QED
    BY <2>1, <2>2, <2>3
<1>7. AfterComposition \in {"plan", "record", "select"}
  BY DEF AfterComposition
<1>. QED
  BY <1>1, <1>4, <1>5, <1>6, <1>7, ComposeRelies, MovesOn DEF SessionLabels

\* The composed candidate is recorded.
LEMMA RecordKeeps == ASSUME IInv, Record PROVE IInv'
<1>1. /\ pc = "record" /\ RecordCandidate("plan")
      /\ UNCHANGED <<mode, todo, next, left, sess, stray, tree>>
  BY DEF Record, At
<1>2. /\ sess = 0 /\ Between(st) /\ CandidateDue(st) /\ (mode = "live" => Settled(st))
      /\ next.mov \in 0 .. N /\ left \in 0 .. Budget /\ note # "refused"
  BY <1>1, NoSession DEF SessionLabels, IInv, ProcessInv, LabelOk, Composing, CandidateOk
<1>. QED
  BY <1>1, <1>2, RecordCandidateKeeps

\* A composition that used up the budget ends the run.
LEMMA ComposeDeadlineKeeps == ASSUME IInv, ComposeDeadline PROVE IInv'
<1> DEFINE t == ExecutionStopped(st, st.open.rem, "budget_exhausted")
           direct == mode = "live" \/ next.fresh
<1>1. /\ pc = "compose" /\ UNCHANGED <<mode, next, left, result, sess, escaped, stray, tree>>
      /\ todo' = IF direct THEN Carry(BudgetExhaustion(t), TRUE) ELSE todo
      /\ AppendEvent(ExecutionStoppedOk(st), t, IF direct THEN "step" ELSE "plan")
  BY DEF ComposeDeadline, At
<1>2. st.open.rem \in Nat
  BY DEF IInv, Good, Projections, Intervals
<1>3. Good(t) /\ Between(t)
  BY <1>1, <1>2, ComposeStops
<1>4. st' = t /\ pc' = (IF direct THEN "step" ELSE "plan") /\ note' = note
  BY <1>1, ComposeRelies DEF AppendEvent, ExecutionStoppedOk
<1> HIDE DEF t
<1>5. CASE direct
  <2>1. StepOk(todo', mode, t, tree)
    BY <1>1, <1>3, <1>5, BudgetExhaustionOk
  <2>. QED
    BY <1>1, <1>3, <1>4, <1>5, <2>1, ComposeRelies, StepsOn
<1>6. CASE ~direct
  <2>1. LabelOk("plan", mode, t, next', result')
    BY <1>1, <1>6, ComposeRelies, RecoveryPlans
  <2>. QED
    BY <1>1, <1>3, <1>4, <1>6, <2>1, ComposeRelies, MovesOn DEF SessionLabels
<1>. QED
  BY <1>5, <1>6

\* A composition that cannot be verified stops the process.
LEMMA ComposeUnverifiableKeeps == ASSUME IInv, ComposeUnverifiable PROVE IInv'
  BY StopsLeaving DEF ComposeUnverifiable, At, Exit, SessionLabels

\* A composition that conflicts is evidenced next.
LEMMA ComposeConflictKeeps == ASSUME IInv, ComposeConflict PROVE IInv'
<1>1. pc = "compose" /\ UNCHANGED <<mode, todo, next, left, result, sess, escaped, stray, tree>>
  BY DEF ComposeConflict, At
<1>2. PICK charged \in 1 .. st.open.rem :
         AppendEvent(ExecutionStoppedOk(st), ExecutionStopped(st, charged, "normal"), "evidence")
  BY DEF ComposeConflict
<1>3. charged \in Nat
  <2>1. st.open.rem \in Nat
    BY DEF IInv, Good, Projections, Intervals
  <2>. QED
    BY <2>1
<1> DEFINE t == ExecutionStopped(st, charged, "normal")
<1>4. Good(t) /\ Between(t) /\ ComposeOk(t, next, mode)
  BY <1>1, <1>3, ComposeStops
<1>5. st' = t /\ pc' = "evidence" /\ note' = note
  BY <1>1, <1>2, ComposeRelies DEF AppendEvent, ExecutionStoppedOk
<1> HIDE DEF t
<1>6. LabelOk("evidence", mode, t, next', result')
  BY <1>1, <1>4 DEF LabelOk, Composing, Attempting, Verifying, Accepting, Ending
<1>. QED
  BY <1>1, <1>4, <1>5, <1>6, ComposeRelies, MovesOn DEF SessionLabels

\* The movement of a successor runs, or failed on the composition of its base.
LEMMA OwedRunsOrStranded ==
    ASSUME IInv, Calm(st), Owes(st)
    PROVE  st.mov[st.att.mov] = "RUNNING" \/ StrandedSuccessor
<1>1. Good(st) /\ ~PendingDecision(st) /\ st.att.state \in {"FAILED", "BLOCKED"}
  BY DEF IInv, Calm, Owes, OwesRetry, OwesResume
<1>2. st.att.mov \in Movements /\ ~st.att.failedHere /\ ~st.att.succeededHere
  BY <1>1 DEF Good, AttemptInv, Owes, OwesRetry, OwesResume
<1>3. /\ st.mov[st.att.mov] \notin {"PENDING", "READY", "SUCCEEDED", "WAITING_HUMAN"}
      /\ st.mov[st.att.mov] \in MovementStates
  <2>1. st.selected[st.att.mov] > 0 /\ st.selected[st.att.mov] \in Nat
    BY <1>1, <1>2 DEF Good, MovementInv, Projections
  <2>. QED
    BY <1>1, <1>2, <2>1 DEF Good, MovementInv, Projections
<1>. QED
  BY <1>1, <1>2, <1>3 DEF StrandedSuccessor, MovementStates

\* What is composed for a goal is a running movement's, the candidate's or a stranded one's.
LEMMA GoalRunsOrStranded ==
    ASSUME IInv, Between(st), ComposeOk(st, next, mode)
    PROVE  \/ next.mov = 0 /\ CandidateDue(st)
           \/ next.mov \in Movements /\ st.mov[next.mov] = "RUNNING"
           \/ StrandedSuccessor
<1>1. CASE GoalOk(st, next)
  <2>1. CASE next.reason = "initial"
    BY <1>1, <2>1 DEF GoalOk
  <2>2. CASE next.reason # "initial"
    <3>1. Owes(st) /\ next.mov = st.att.mov
      BY <1>1, <2>2 DEF GoalOk, Owes
    <3>2. st.att.mov \in Movements
      BY <3>1 DEF IInv, Good, AttemptInv, Owes, OwesRetry, OwesResume
    <3>. QED
      BY <3>1, <3>2, OwedRunsOrStranded DEF Between
  <2>. QED
    BY <2>1, <2>2
<1>2. CASE RecomposeOk(st, next)
  BY <1>2 DEF RecomposeOk
<1>3. CASE CandidateOk(st, next)
  BY <1>3 DEF CandidateOk
<1>. QED
  BY <1>1, <1>2, <1>3 DEF ComposeOk

\* Evidence is recorded for what was composed, unless its movement has failed.
LEMMA EvidenceKeeps == ASSUME IInv, Evidence PROVE IInv'
<1>1. /\ pc = "evidence"
      /\ Appends("evidence", CompositionEvidenceOk(st, next.mov),
                 CompositionEvidence(st, next.mov), "compose_terminal")
  BY DEF Evidence, Appends, At
<1>2. /\ Good(st) /\ Between(st) /\ ComposeOk(st, next, mode) /\ sess = 0
      /\ next.mov \in 0 .. N /\ todo.mov \in 0 .. N /\ left \in 0 .. Budget
  BY <1>1, NoSession DEF SessionLabels, IInv, ProcessInv, LabelOk, Composing
<1>3. CASE CompositionEvidenceOk(st, next.mov)
  <2> DEFINE t == CompositionEvidence(st, next.mov)
  <2>1. next.mov # 0 => st.mov[next.mov] = "RUNNING"
    BY <1>3 DEF CompositionEvidenceOk
  <2>2. Good(t)
    BY <1>2, <2>1, CompositionEvidenceGood
  <2>3. /\ t.run = st.run /\ t.mov = st.mov /\ t.open = st.open /\ t.att = st.att
        /\ t.evidence = st.evidence \cup {next.mov} /\ t.terminalized = st.terminalized
    BY <1>2 DEF CompositionEvidence, Good, Projections
  <2> HIDE DEF t
  <2>4. Concluding(t, next.mov)
    <3>1. CompositionTerminals(st) = {} /\ st.run = "RUNNING" /\ ~PendingDecision(st)
          /\ st.open.phase = "none" /\ (Settled(st) \/ Owes(st))
      BY <1>2 DEF Between, Calm
    <3>2. CompositionTerminals(t) \subseteq {next.mov}
      BY <2>3, <3>1 DEF CompositionTerminals
    <3>3. ~PendingDecision(t) /\ (Settled(t) \/ Owes(t))
      BY <2>3, <3>1 DEF PendingDecision, Settled, Owes, OwesRetry, OwesResume
    <3>. QED
      BY <2>1, <2>3, <3>1, <3>2, <3>3 DEF Concluding
  <2>5. LabelOk("compose_terminal", mode, t, next, result)
    BY <2>4 DEF LabelOk, Composing, Attempting, Verifying, Accepting, Ending
  <2>. QED
    BY <1>1, <1>3, <2>2, <2>5, AppendsMoves DEF SessionLabels, t
<1>4. CASE ~CompositionEvidenceOk(st, next.mov)
  <2>1. StrandedSuccessor
    <3>1. CASE next.mov = 0 /\ CandidateDue(st)
      BY <1>2, <1>4, <3>1 DEF CompositionEvidenceOk, CandidateDue, Between, Calm
    <3>2. CASE next.mov \in Movements /\ st.mov[next.mov] = "RUNNING"
      BY <1>4, <3>2, MovementsAreNumbers DEF CompositionEvidenceOk
    <3>. QED
      BY <1>2, <3>1, <3>2, GoalRunsOrStranded
  <2>2. /\ pc' = "down" /\ UNCHANGED <<st, mode, todo, next, left, result, sess, stray, tree>>
    BY <1>1, <1>4 DEF Appends, AppendEvent, Exit
  <2>. QED
    BY <1>2, <2>1, <2>2, Refused
<1>. QED
  BY <1>3, <1>4

\* Its consequence follows.
LEMMA TerminalizeKeeps == ASSUME IInv, Terminalize PROVE IInv'
<1> DEFINE then == IF /\ mode = "recovery"
                      /\ next.fresh \/ next.reason \in {"recompose", "candidate"}
                   THEN "plan" ELSE "down"
<1>1. /\ pc = "compose_terminal"
      /\ Appends("compose_terminal", CompositionTerminalOk(next.mov),
                 CompositionTerminal(next.mov), then)
  BY DEF Terminalize, Appends, At
<1>2. Good(st) /\ Concluding(st, next.mov)
  BY <1>1 DEF IInv, LabelOk, Composing
<1>3. CompositionTerminalOk(next.mov) /\ Good(CompositionTerminal(next.mov))
  BY <1>2, ConsequenceGood DEF CompositionTerminalOk, CompositionTerminal
<1>4. LabelOk(then, mode, CompositionTerminal(next.mov), next, result)
  BY RecoveryPlans, DownIsFree
<1>5. then \in {"plan", "down"}
  OBVIOUS
<1> HIDE DEF then
<1>. QED
  BY <1>1, <1>3, <1>4, <1>5, AppendsMoves DEF SessionLabels

(***************************************************************************)
(* The attempt                                                             *)
(***************************************************************************)
\* A process moves on to a label that relies on no step: a session lives there or none.
LEMMA Lands ==
    ASSUME NEW where, NEW s, IInv, where # "step", pc' = where, st' = s, UNCHANGED mode,
           Good(s), LabelOk(where, mode, s, next', result'),
           sess' = IF where \in SessionLabels THEN 1 ELSE 0,
           UNCHANGED todo, next'.mov \in 0 .. N, left' \in 0 .. Budget,
           tree' \in {"intact", "altered", "lost"}, stray' \in BOOLEAN, note' # "refused"
    PROVE  IInv'
  BY DEF IInv, SessInv, ProcessInv, AppendsAreAdmitted

\* What every label may count on.
LEMMA LabelRelies ==
    ASSUME NEW where, IInv, pc = where, where \notin {"plan", "step", "down"}
    PROVE  /\ Good(st) /\ LabelOk(where, mode, st, next, result)
           /\ sess = (IF where \in SessionLabels THEN 1 ELSE 0) /\ note # "refused"
           /\ mode \in {"live", "recovery"} /\ todo.mov \in 0 .. N /\ next.mov \in 0 .. N
           /\ left \in 0 .. Budget /\ tree \in {"intact", "altered", "lost"} /\ stray \in BOOLEAN
<1>1. sess = IF where \in SessionLabels THEN 1 ELSE 0
  BY DEF IInv, SessInv
<1>. QED
  BY <1>1 DEF IInv, ProcessInv

\* An append that lands, with the sessions as they are.
LEMMA AppendLands ==
    ASSUME NEW where, NEW ok, NEW s, NEW then, IInv, Appends(where, ok, s, then), ok,
           where \notin {"plan", "step", "down"}, then # "step",
           where \in SessionLabels <=> then \in SessionLabels,
           Good(s), LabelOk(then, mode, s, next, result)
    PROVE  IInv'
<1>1. /\ pc = where /\ pc' = then /\ st' = s
      /\ UNCHANGED <<mode, todo, next, left, result, note, sess, escaped, stray, tree>>
  BY DEF Appends, AppendEvent, At
<1>. QED
  BY <1>1, LabelRelies, Lands

\* An attempt is selected for a goal that is owed, unless its movement has failed.
LEMMA SelectKeeps == ASSUME IInv, Select PROVE IInv'
<1>1. /\ pc = "select"
      /\ AppendEvent(PerformerSelectedOk(st, next.mov), PerformerSelected(st, next), "open")
      /\ left' = (IF next.fresh THEN Remaining(st) ELSE left)
      /\ tree' = "intact" /\ stray' = FALSE /\ UNCHANGED <<mode, todo, next, result, sess>>
  BY DEF Select, At
<1>2. /\ Good(st) /\ Between(st) /\ GoalOk(st, next) /\ sess = 0 /\ note # "refused"
      /\ todo.mov \in 0 .. N /\ next.mov \in 0 .. N /\ left \in 0 .. Budget
  BY <1>1, LabelRelies DEF LabelOk, Composing, SessionLabels
<1>3. left' \in 0 .. Budget
  BY <1>1, <1>2, RemainingIsBounded
<1>4. CASE PerformerSelectedOk(st, next.mov)
  <2> DEFINE t == PerformerSelected(st, next)
  <2>1. Good(t)
    BY <1>2, <1>4, PerformerSelectedGood
  <2>2. /\ t.run = st.run /\ t.open = st.open /\ t.evidence = st.evidence
        /\ t.terminalized = st.terminalized /\ t.att.state = "STARTING"
        /\ t.att.pending = 0 /\ t.att.gate = "none"
    BY <1>2 DEF PerformerSelected, Good, Projections, NoAttempt
  <2>3. st' = t /\ pc' = "open" /\ note' = note
    BY <1>1, <1>4 DEF AppendEvent
  <2> HIDE DEF t
  <2>4. In(t, "STARTING", "none")
    BY <1>2, <2>2 DEF Between, Calm, In, PendingDecision, CompositionTerminals
  <2>5. LabelOk("open", mode, t, next', result')
    BY <2>4 DEF LabelOk, Composing, Attempting, Verifying, Accepting, Ending
  <2>. QED
    BY <1>1, <1>2, <1>3, <2>1, <2>3, <2>5, Lands DEF SessionLabels
<1>5. CASE ~PerformerSelectedOk(st, next.mov)
  <2>1. StrandedSuccessor
    <3>1. ComposeOk(st, next, mode)
      BY <1>2 DEF ComposeOk
    <3>2. next.mov # 0
      BY <1>2, MovementsAreNumbers
         DEF GoalOk, Good, AttemptInv, OwesRetry, OwesResume
    <3>. QED
      BY <1>2, <1>5, <3>1, <3>2, GoalRunsOrStranded DEF PerformerSelectedOk
  <2>2. /\ pc' = "down" /\ st' = st /\ note' = "refused"
    BY <1>1, <1>5 DEF AppendEvent, Exit
  <2>3. LabelOk("down", mode, st, next', result')
    BY DownIsFree
  <2>. QED
    BY <1>1, <1>2, <1>3, <2>1, <2>2, <2>3
       DEF IInv, SessInv, ProcessInv, AppendsAreAdmitted, SessionLabels, StrandedSuccessor
<1>. QED
  BY <1>4, <1>5

\* The adapter's interval opens with its attempt.
LEMMA OpenAdapterKeeps == ASSUME IInv, OpenAdapter PROVE IInv'
<1>1. /\ pc = "open"
      /\ Appends("open", ExecutionStartedOk(st), ExecutionStarted(st, "adapter", left), "launch")
  BY DEF OpenAdapter, Appends, At
<1>2. Good(st) /\ In(st, "STARTING", "none") /\ left \in Nat
  BY <1>1, LabelRelies DEF LabelOk, Attempting
<1> DEFINE t == ExecutionStarted(st, "adapter", left)
<1>3. Good(t) /\ SameStanding(st, t) /\ t.open.phase = "adapter"
  BY <1>2, ExecutionStartedGood, StartedKeeps DEF In
<1> HIDE DEF t
<1>4. In(t, "STARTING", "adapter")
  BY <1>2, <1>3, StandingKeeps DEF In, SameStanding
<1>5. LabelOk("launch", mode, t, next, result)
  BY <1>4 DEF LabelOk, Composing, Attempting, Verifying, Accepting, Ending
<1>. QED
  BY <1>1, <1>2, <1>3, <1>5, AppendLands DEF ExecutionStartedOk, In, SessionLabels, t

\* The adapter's session is launched inside its interval.
LEMMA LaunchKeeps == ASSUME IInv, Launch PROVE IInv'
<1>1. /\ pc = "launch" /\ pc' = "identify" /\ sess' = sess + 1
      /\ UNCHANGED <<st, mode, todo, next, left, result, note, stray, tree>>
  BY DEF Launch, At
<1>2. LabelOk("identify", mode, st, next', result')
  BY <1>1, LabelRelies
     DEF LabelOk, Composing, Attempting, Verifying, Accepting, Ending
<1>. QED
  BY <1>1, <1>2, LabelRelies, Lands DEF SessionLabels

\* An adapter that cannot be launched stops the process.
LEMMA LaunchFailsKeeps == ASSUME IInv, LaunchFails PROVE IInv'
  BY StopsLeaving DEF LaunchFails, Exit, SessionLabels

\* The attempt runs once its session is identified.
LEMMA IdentifyKeeps == ASSUME IInv, Identify PROVE IInv'
<1>1. /\ pc = "identify"
      /\ Appends("identify", AttemptStartedOk(st), AttemptStarted(st), "probe")
  BY DEF Identify, Appends, At
<1>2. Good(st) /\ In(st, "STARTING", "adapter")
  BY <1>1, LabelRelies DEF LabelOk, Attempting
<1> DEFINE t == AttemptStarted(st)
<1>3. Good(t) /\ AttemptStartedOk(st)
  BY <1>2, AttemptStartedGood DEF In, AttemptStartedOk
<1>4. SameAround(st, t) /\ t.att.state = "RUNNING" /\ ~t.att.probed
  BY <1>2 DEF AttemptStarted, SameAround, In, Good, AttemptInv, Projections, Attempts
<1> HIDE DEF t
<1>5. In(t, "RUNNING", "adapter")
  BY <1>2, <1>4, AroundIsCalm DEF In, SameAround
<1>6. LabelOk("probe", mode, t, next, result)
  BY <1>4, <1>5 DEF LabelOk, Composing, Attempting, Verifying, Accepting, Ending
<1>. QED
  BY <1>1, <1>3, <1>6, AppendLands DEF SessionLabels, t

\* It is probed once.
LEMMA ProbeKeeps == ASSUME IInv, Probe PROVE IInv'
<1>1. pc = "probe" /\ Appends("probe", AdapterProbedOk(st), AdapterProbed(st), "run")
  BY DEF Probe, Appends, At
<1>2. Good(st) /\ In(st, "RUNNING", "adapter") /\ ~st.att.probed
  BY <1>1, LabelRelies DEF LabelOk, Attempting
<1> DEFINE t == AdapterProbed(st)
<1>3. Good(t) /\ AdapterProbedOk(st)
  BY <1>2, AdapterProbedGood DEF In, AdapterProbedOk
<1>4. SameAround(st, t) /\ t.att.state = "RUNNING" /\ t.att.probed
  BY <1>2 DEF AdapterProbed, SameAround, In, Good, Projections, Attempts
<1> HIDE DEF t
<1>5. In(t, "RUNNING", "adapter")
  BY <1>2, <1>4, AroundIsCalm DEF In, SameAround
<1>6. LabelOk("run", mode, t, next, result)
  BY <1>4, <1>5 DEF LabelOk, Composing, Attempting, Verifying, Accepting, Ending
<1>. QED
  BY <1>1, <1>3, <1>6, AppendLands DEF SessionLabels, t

\* A probe that fails leaves the interval to recovery.
LEMMA ProbeFailsKeeps == ASSUME IInv, ProbeFails PROVE IInv'
<1>1. /\ pc = "probe" /\ pc' = "down" /\ note' = "interrupted" /\ sess' = sess - 1
      /\ UNCHANGED <<st, mode, todo, next, left, result, stray, tree>>
  BY DEF ProbeFails, At, Exit
<1>2. sess' = 0
  BY <1>1, LabelRelies DEF SessionLabels
<1>. QED
  BY <1>1, <1>2, LabelRelies, Stops

\* Checkpoints stay within the interval.
LEMMA CheckpointKeeps == ASSUME IInv, Checkpoint PROVE IInv'
<1>1. /\ pc = "run" /\ st.open.cp + 1 < st.open.rem
      /\ Appends("run", CheckpointedOk(st, st.open.cp + 1), Checkpointed(st, st.open.cp + 1), "run")
  BY DEF Checkpoint, At
<1>2. Good(st) /\ In(st, "RUNNING", "adapter") /\ st.att.probed
  BY <1>1, LabelRelies DEF LabelOk, Attempting
<1>3. st.open.cp \in Nat /\ st.open.rem \in Nat
  BY <1>2 DEF Good, Projections, Intervals
<1> DEFINE t == Checkpointed(st, st.open.cp + 1)
<1>4. Good(t) /\ CheckpointedOk(st, st.open.cp + 1)
  BY <1>1, <1>2, <1>3, CheckpointedGood DEF In, CheckpointedOk
<1>5. SameStanding(st, t) /\ t.open.phase = st.open.phase
  BY <1>2 DEF Checkpointed, SameStanding, Good, Projections, Intervals
<1> HIDE DEF t
<1>6. In(t, "RUNNING", "adapter") /\ t.att.probed
  BY <1>2, <1>5, StandingKeeps DEF In, SameStanding
<1>7. LabelOk("run", mode, t, next, result)
  BY <1>6 DEF LabelOk, Composing, Attempting, Verifying, Accepting, Ending
<1>. QED
  BY <1>1, <1>4, <1>7, AppendLands DEF SessionLabels, t

\* The adapter ends, and its session with it.
LEMMA AdapterEndsKeeps == ASSUME IInv, AdapterEnds PROVE IInv'
<1>1. /\ pc = "run" /\ pc' = "stop" /\ sess' = sess - 1
      /\ UNCHANGED <<st, mode, todo, next, left, note, stray, tree>>
  BY DEF AdapterEnds, At
<1>2. sess' = 0
  BY <1>1, LabelRelies DEF SessionLabels
<1>3. LabelOk("stop", mode, st, next', result')
  BY <1>1, LabelRelies
     DEF LabelOk, Composing, Attempting, Verifying, Accepting, Ending
<1>. QED
  BY <1>1, <1>2, <1>3, LabelRelies, Lands DEF SessionLabels

\* A sweep that fails leaves the session behind.
LEMMA SweepFailsKeeps == ASSUME IInv, SweepFails PROVE IInv'
<1>1. /\ pc \in {"probe", "run"} /\ pc' = "down" /\ note' = "halted"
      /\ UNCHANGED <<st, mode, todo, next, left, result, sess, stray, tree>>
  BY DEF SweepFails, Exit
<1>2. LeftRunning(st, stray \/ pc = "criterion_identify") /\ sess = 1 /\ stray \in BOOLEAN
  BY <1>1, SessionIsLeft, LabelRelies DEF SessionLabels
<1>3. LeftRunning(st, stray')
  BY <1>1, <1>2 DEF LeftRunning
<1>. QED
  BY <1>1, <1>2, <1>3, LabelRelies, Stops

\* The deadline ends the session.
LEMMA AdapterDeadlineKeeps == ASSUME IInv, AdapterDeadline PROVE IInv'
<1>1. /\ pc = "run" /\ pc' = "exhausted" /\ sess' = sess - 1
      /\ UNCHANGED <<st, mode, todo, next, left, result, note, stray, tree>>
  BY DEF AdapterDeadline, At
<1>2. sess' = 0
  BY <1>1, LabelRelies DEF SessionLabels
<1>3. LabelOk("exhausted", mode, st, next', result')
  BY <1>1, LabelRelies
     DEF LabelOk, Composing, Attempting, Verifying, Accepting, Ending
<1>. QED
  BY <1>1, <1>2, <1>3, LabelRelies, Lands DEF SessionLabels

\* The interval closes when its session is gone.
LEMMA StopAdapterKeeps == ASSUME IInv, StopAdapter PROVE IInv'
<1>1. pc = "stop" /\ UNCHANGED <<mode, todo, next, result, sess, stray, tree>>
  BY DEF StopAdapter, At
<1>2. /\ Good(st) /\ In(st, "RUNNING", "adapter") /\ st.att.probed /\ left \in 0 .. Budget
      /\ sess = 0 /\ note # "refused"
  BY <1>1, LabelRelies DEF LabelOk, Attempting, SessionLabels
<1>3. PICK charged \in st.open.cp .. st.open.rem :
         /\ AppendEvent(ExecutionStoppedOk(st), ExecutionStopped(st, charged, "normal"), "outcome")
         /\ left' = IF charged < left THEN left - charged ELSE 0
  BY DEF StopAdapter
<1>4. charged \in Nat
  <2>1. st.open.rem \in Nat /\ st.open.cp \in Nat
    BY <1>2 DEF Good, Projections, Intervals
  <2>. QED
    BY <2>1
<1>5. left' \in 0 .. Budget
  BY <1>2, <1>3, <1>4, ScoreAssumption
<1> DEFINE t == ExecutionStopped(st, charged, "normal")
<1>6. Good(t) /\ t.open.phase = "none" /\ SameStanding(st, t)
  BY <1>2, <1>4, StoppedKeeps DEF SameStanding
<1>7. st' = t /\ pc' = "outcome" /\ note' = note
  BY <1>2, <1>3 DEF AppendEvent, ExecutionStoppedOk, In
<1> HIDE DEF t
<1>8. In(t, "RUNNING", "none") /\ t.att.probed
  BY <1>2, <1>6, StandingKeeps DEF In, SameStanding
<1>9. LabelOk("outcome", mode, t, next', result')
  BY <1>8 DEF LabelOk, Composing, Attempting, Verifying, Accepting, Ending
<1>. QED
  BY <1>1, <1>2, <1>5, <1>6, <1>7, <1>9, LabelRelies, Lands DEF SessionLabels

\* A completed attempt is verified next.
LEMMA RecordCompletedKeeps == ASSUME IInv, RecordCompleted PROVE IInv'
<1> DEFINE then == IF st.att.mov \in Writers THEN "capture" ELSE "verify"
<1>1. pc = "outcome"
  BY DEF RecordCompleted, At
<1>2. PICK contested \in BOOLEAN :
         Appends("outcome", PerformerCompletedOk(st), PerformerCompleted(st, contested), then)
  BY DEF RecordCompleted
<1>3. Good(st) /\ In(st, "RUNNING", "none") /\ st.att.probed
  BY <1>1, LabelRelies DEF LabelOk, Attempting
<1> DEFINE t == PerformerCompleted(st, contested)
<1>4. Good(t) /\ PerformerCompletedOk(st)
  BY <1>3, PerformerCompletedGood DEF In, PerformerCompletedOk
<1>5. /\ SameAround(st, t) /\ t.att.state = "VERIFYING" /\ ~t.att.changeSet /\ ~t.att.verified
  BY <1>3 DEF PerformerCompleted, SameAround, In, Good, AttemptInv, Projections, Attempts
<1> HIDE DEF t
<1>6. In(t, "VERIFYING", "none") /\ t.att.mov = st.att.mov
  BY <1>3, <1>5, AroundIsCalm DEF In, SameAround
<1>7. LabelOk(then, mode, t, next, result)
  BY <1>5, <1>6 DEF LabelOk, Composing, Attempting, Verifying, Accepting, Ending
<1>8. then \in {"capture", "verify"}
  OBVIOUS
<1> HIDE DEF then
<1>. QED
  BY <1>1, <1>2, <1>4, <1>7, <1>8, AppendLands DEF SessionLabels, t

\* A failure of the attempt under way is realized next.
LEMMA FailureLands ==
    ASSUME NEW where, NEW kind \in FailureKinds, IInv, pc = where,
           where \notin SessionLabels \cup {"plan", "step", "down"},
           Calm(st), AttemptInFlight(st), st.open.phase = "none",
           Appends(where, AttemptFailedOk(st),
                   AttemptFailed(st, Classify(st, kind, Remaining(st))), "realize")
    PROVE  IInv'
<1> DEFINE t == AttemptFailed(st, Classify(st, kind, Remaining(st)))
<1>1. Good(st)
  BY DEF IInv
<1>2. Good(t)
  BY <1>1, ClassifiedGood DEF Calm
<1>3. In(t, "FAILED", "none") /\ ~t.att.failedHere
  BY <1>1, FailedKeeps
<1> HIDE DEF t
<1>4. LabelOk("realize", mode, t, next, result)
  BY <1>3 DEF LabelOk, Composing, Attempting, Verifying, Accepting, Ending
<1>. QED
  BY <1>2, <1>4, AppendLands DEF AttemptFailedOk, SessionLabels, t

\* A failed attempt is classified.
LEMMA RecordFailedKeeps == ASSUME IInv, RecordFailed PROVE IInv'
<1>1. /\ pc = "outcome" /\ result \in FailureKinds
      /\ Appends("outcome", AttemptFailedOk(st),
                 AttemptFailed(st, Classify(st, result, Remaining(st))), "realize")
  BY DEF RecordFailed, At, AdapterFailures, FailureKinds, Infrastructure, ImmediatelyTerminal,
         Quality
<1>2. Calm(st) /\ AttemptInFlight(st) /\ st.open.phase = "none"
  BY <1>1, LabelRelies DEF LabelOk, Attempting, In, AttemptInFlight
<1>. QED
  BY <1>1, <1>2, FailureLands DEF SessionLabels

\* A blocked attempt asks next.
LEMMA RecordBlockedKeeps == ASSUME IInv, RecordBlocked PROVE IInv'
<1>1. pc = "outcome"
  BY DEF RecordBlocked, At
<1>2. PICK questions \in 1 .. MaxQuestions :
         Appends("outcome", AttemptBlockedOk(st), AttemptBlocked(st, questions), "ask")
  BY DEF RecordBlocked
<1>3. Good(st) /\ In(st, "RUNNING", "none") /\ st.att.probed /\ questions \in Nat \ {0}
  BY <1>1, LabelRelies, BoundsAssumption DEF LabelOk, Attempting
<1> DEFINE t == AttemptBlocked(st, questions)
<1>4. Good(t) /\ AttemptBlockedOk(st)
  BY <1>3, AttemptBlockedGood DEF In, AttemptBlockedOk
<1>5. /\ SameAround(st, t) /\ t.att.state = "BLOCKED" /\ t.att.raised = questions
      /\ t.att.asked = 0
  <2>1. st.att.raised \in Nat /\ st.att.asked \in Nat
    BY <1>3 DEF Good, Projections, Attempts
  <2>2. st.att.asked = 0
    BY <1>3, <2>1 DEF Good, AttemptInv, In
  <2>. QED
    BY <1>3, <2>2 DEF AttemptBlocked, SameAround, Good, Projections, Attempts
<1> HIDE DEF t
<1>6. In(t, "BLOCKED", "none") /\ t.att.asked < t.att.raised
  BY <1>3, <1>5, AroundIsCalm DEF In, SameAround
<1>7. LabelOk("ask", mode, t, next, result)
  BY <1>6
     DEF LabelOk, Composing, Attempting, Verifying, Accepting, Ending, In, Calm, Terminal
<1>. QED
  BY <1>1, <1>2, <1>4, <1>7, AppendLands DEF SessionLabels, t

\* Its questions are asked one by one.
LEMMA AskKeeps == ASSUME IInv, Ask PROVE IInv'
<1> DEFINE then == IF st.att.asked + 1 < st.att.raised THEN "ask" ELSE "blocked"
<1>1. pc = "ask" /\ Appends("ask", QuestionRequestedOk(st), QuestionRequested(st), then)
  BY DEF Ask, Appends, At
<1>2. /\ Good(st) /\ st.att.state = "BLOCKED" /\ st.att.asked < st.att.raised /\ ~Terminal(st)
      /\ CompositionTerminals(st) = {} /\ st.open.phase = "none"
  BY <1>1, LabelRelies DEF LabelOk, Attempting
<1>3. QuestionRequestedOk(st) /\ st.mov[st.att.mov] \in {"RUNNING", "WAITING_HUMAN"}
  BY <1>2 DEF QuestionRequestedOk, Good, MovementInv, Underway
<1> DEFINE t == QuestionRequested(st)
<1>4. Good(t)
  BY <1>2, <1>3, QuestionRequestedGood
<1>5. /\ ~Terminal(t) /\ t.open = st.open /\ t.att.state = "BLOCKED"
      /\ CompositionTerminals(t) = CompositionTerminals(st)
      /\ t.att.raised = st.att.raised /\ t.att.asked = st.att.asked + 1
  BY <1>2, <1>3, AskedKeeps
<1>6. st.att.raised \in Nat /\ st.att.asked \in Nat
  BY <1>2 DEF Good, Projections, Attempts
<1> HIDE DEF t
<1>7. LabelOk(then, mode, t, next, result)
  <2>1. CASE st.att.asked + 1 < st.att.raised
    BY <1>2, <1>5, <2>1
       DEF LabelOk, Composing, Attempting, Verifying, Accepting, Ending
  <2>2. CASE ~(st.att.asked + 1 < st.att.raised)
    <3>1. t.att.asked = t.att.raised
      BY <1>2, <1>5, <1>6, <2>2
    <3>. QED
      BY <1>2, <1>5, <2>2, <3>1
         DEF LabelOk, Composing, Attempting, Verifying, Accepting, Ending
  <2>. QED
    BY <2>1, <2>2
<1>8. then \in {"ask", "blocked"}
  OBVIOUS
<1> HIDE DEF then
<1>. QED
  BY <1>1, <1>3, <1>4, <1>7, <1>8, AppendLands DEF SessionLabels, t

\* It waits for its answers, or resumes when they are there.
LEMMA ContinueAfterBlockingKeeps == ASSUME IInv, ContinueAfterBlocking PROVE IInv'
<1>1. pc = "blocked" /\ UNCHANGED <<mode, todo, result, sess, escaped, stray, tree>>
  BY DEF ContinueAfterBlocking, At
<1>2. /\ Good(st) /\ st.att.state = "BLOCKED" /\ st.att.asked = st.att.raised /\ ~Terminal(st)
      /\ CompositionTerminals(st) = {} /\ st.open.phase = "none" /\ sess = 0
      /\ note # "refused" /\ mode \in {"live", "recovery"} /\ todo.mov \in 0 .. N
  BY <1>1, LabelRelies DEF LabelOk, Attempting, SessionLabels
<1>3. CASE PendingDecision(st)
  <2>1. pc' = AfterFailure /\ note' = "wait" /\ UNCHANGED <<st, next, left>>
    BY <1>3 DEF ContinueAfterBlocking
  <2>2. LabelOk(AfterFailure, mode, st, next', result') /\ AfterFailure \in {"plan", "down"}
    BY <1>2, RecoveryPlans, DownIsFree DEF AfterFailure
  <2>. QED
    BY <1>1, <1>2, <2>1, <2>2, LabelRelies, Lands DEF SessionLabels
<1>4. CASE ~PendingDecision(st)
  <2>1. OwesResume(st) /\ Between(st)
    <3>1. st.att.pending = 0
      BY <1>2, <1>4 DEF PendingDecision, Good, Projections, Attempts
    <3>2. Calm(st)
      BY <1>2, <1>4 DEF Calm, Good, RunInv, Projections, RunStates, Terminal
    <3>. QED
      BY <1>2, <3>1, <3>2 DEF OwesResume, Between, Owes
  <2>2. CASE PlanScheduler(st, DecisionResume(st)).steps = <<"successor">>
    <3> DEFINE goal == Goal(DecisionResume(st), TRUE)
    <3>1. Begin(goal)
      BY <1>4, <2>2 DEF ContinueAfterBlocking
    <3>2. GoalOk(st, goal) /\ goal.mov \in 0 .. N
      BY <1>2, <2>1 DEF GoalOk, Goal, DecisionResume, Good, Projections, Attempts
    <3> HIDE DEF goal
    <3>. QED
      BY <1>1, <1>2, <2>1, <3>1, <3>2, BeginKeeps
  <2>3. CASE PlanScheduler(st, DecisionResume(st)).steps # <<"successor">>
    <3>1. pc' = "down" /\ note' = "interrupted" /\ UNCHANGED <<st, next, left>>
      BY <1>4, <2>3 DEF ContinueAfterBlocking, Exit
    <3>. QED
      BY <1>1, <3>1, StopsLeaving DEF SessionLabels
  <2>. QED
    BY <2>2, <2>3
<1>. QED
  BY <1>3, <1>4

(***************************************************************************)
(* Verification and acceptance                                             *)
(***************************************************************************)
\* The patch of a writer's attempt is recorded, or its capture fails it.
LEMMA CaptureKeeps == ASSUME IInv, Capture PROVE IInv'
<1>1. /\ pc = "capture"
      /\ Appends("capture", ChangeSetRecordedOk(st), ChangeSetRecorded(st), "verify")
  BY DEF Capture, Appends, At
<1>2. /\ Good(st) /\ In(st, "VERIFYING", "none") /\ st.att.mov \in Writers /\ ~st.att.changeSet
  BY <1>1, LabelRelies DEF LabelOk, Verifying
<1> DEFINE t == ChangeSetRecorded(st)
<1>3. Good(t) /\ ChangeSetRecordedOk(st)
  BY <1>2, ChangeSetRecordedGood DEF In, ChangeSetRecordedOk
<1>4. SameAround(st, t) /\ t.att.state = "VERIFYING" /\ t.att.changeSet /\ ~t.att.verified
  BY <1>2 DEF ChangeSetRecorded, SameAround, In, Good, AttemptInv, Projections, Attempts
<1> HIDE DEF t
<1>5. In(t, "VERIFYING", "none")
  BY <1>2, <1>4, AroundIsCalm DEF In, SameAround
<1>6. LabelOk("verify", mode, t, next, result)
  BY <1>4, <1>5 DEF LabelOk, Composing, Attempting, Verifying, Accepting, Ending
<1>. QED
  BY <1>1, <1>3, <1>6, AppendLands DEF SessionLabels, t

\* A denied grant fails the writer's attempt.
LEMMA CaptureDeniedKeeps == ASSUME IInv, CaptureDenied PROVE IInv'
<1>1. /\ pc = "capture"
      /\ Appends("capture", AttemptFailedOk(st),
                 AttemptFailed(st, Classify(st, "grant_denied", Remaining(st))), "realize")
  BY DEF CaptureDenied, DenyGrant, Appends, At
<1>2. Calm(st) /\ AttemptInFlight(st) /\ st.open.phase = "none"
  BY <1>1, LabelRelies DEF LabelOk, Verifying, In, AttemptInFlight
<1>3. "grant_denied" \in FailureKinds
  BY DEF FailureKinds, ImmediatelyTerminal
<1>. QED
  BY <1>1, <1>2, <1>3, FailureLands DEF SessionLabels

\* The subject is verified.
LEMMA VerifyKeeps == ASSUME IInv, Verify PROVE IInv'
<1>1. /\ pc = "verify"
      /\ Appends("verify", VerificationPassedOk(st), VerificationPassed(st), "open_acceptance")
  BY DEF Verify, Appends, At
<1>2. /\ Good(st) /\ In(st, "VERIFYING", "none") /\ ~st.att.verified
      /\ (st.att.mov \in Writers => st.att.changeSet)
  BY <1>1, LabelRelies DEF LabelOk, Verifying
<1> DEFINE t == VerificationPassed(st)
<1>3. Good(t) /\ VerificationPassedOk(st)
  BY <1>2, VerificationPassedGood DEF In, VerificationPassedOk
<1>4. SameAround(st, t) /\ t.att.state = "VERIFYING" /\ t.att.verified /\ ~t.att.accepting
  BY <1>2 DEF VerificationPassed, SameAround, In, Good, AttemptInv, Projections, Attempts
<1> HIDE DEF t
<1>5. In(t, "VERIFYING", "none")
  BY <1>2, <1>4, AroundIsCalm DEF In, SameAround
<1>6. LabelOk("open_acceptance", mode, t, next, result)
  BY <1>4, <1>5 DEF LabelOk, Composing, Attempting, Verifying, Accepting, Ending
<1>. QED
  BY <1>1, <1>3, <1>6, AppendLands DEF SessionLabels, t

\* A denied grant fails the attempt.
LEMMA VerifyDeniedKeeps == ASSUME IInv, VerifyDenied PROVE IInv'
<1>1. /\ pc = "verify"
      /\ Appends("verify", AttemptFailedOk(st),
                 AttemptFailed(st, Classify(st, "grant_denied", Remaining(st))), "realize")
  BY DEF VerifyDenied, DenyGrant, Appends, At
<1>2. Calm(st) /\ AttemptInFlight(st) /\ st.open.phase = "none"
  BY <1>1, LabelRelies DEF LabelOk, Verifying, In, AttemptInFlight
<1>3. "grant_denied" \in FailureKinds
  BY DEF FailureKinds, ImmediatelyTerminal
<1>. QED
  BY <1>1, <1>2, <1>3, FailureLands DEF SessionLabels

\* The acceptance interval opens.
LEMMA OpenAcceptanceKeeps == ASSUME IInv, OpenAcceptance PROVE IInv'
<1>1. /\ pc = "open_acceptance"
      /\ Appends("open_acceptance", ExecutionStartedOk(st),
                 ExecutionStarted(st, "acceptance", left), "accept")
  BY DEF OpenAcceptance, Appends, At
<1>2. /\ Good(st) /\ In(st, "VERIFYING", "none") /\ left \in Nat
      /\ st.att.verified /\ ~st.att.accepting
  BY <1>1, LabelRelies DEF LabelOk, Verifying
<1> DEFINE t == ExecutionStarted(st, "acceptance", left)
<1>3. Good(t) /\ SameStanding(st, t) /\ t.open.phase = "acceptance"
  BY <1>2, ExecutionStartedGood, StartedKeeps DEF In
<1> HIDE DEF t
<1>4. In(t, "VERIFYING", "acceptance") /\ t.att.verified /\ ~t.att.accepting
  BY <1>2, <1>3, StandingKeeps DEF In, SameStanding
<1>5. LabelOk("accept", mode, t, next, result)
  BY <1>4 DEF LabelOk, Composing, Attempting, Verifying, Accepting, Ending
<1>. QED
  BY <1>1, <1>2, <1>3, <1>5, AppendLands DEF ExecutionStartedOk, In, SessionLabels, t

\* The acceptance starts in it.
LEMMA AcceptKeeps == ASSUME IInv, Accept PROVE IInv'
<1>1. /\ pc = "accept"
      /\ Appends("accept", AcceptanceStartedOk(st), AcceptanceStarted(st), "criteria")
  BY DEF Accept, Appends, At
<1>2. /\ Good(st) /\ In(st, "VERIFYING", "acceptance") /\ st.att.verified /\ ~st.att.accepting
  BY <1>1, LabelRelies DEF LabelOk, Verifying
<1> DEFINE t == AcceptanceStarted(st)
<1>3. Good(t) /\ AcceptanceStartedOk(st)
  BY <1>2, AcceptanceStartedGood DEF In, AcceptanceStartedOk
<1>4. SameAround(st, t) /\ t.att.state = "VERIFYING" /\ Evaluating(t)
  BY <1>2
     DEF AcceptanceStarted, SameAround, In, Good, AttemptInv, Projections, Attempts, Evaluating
<1> HIDE DEF t
<1>5. In(t, "VERIFYING", "acceptance")
  BY <1>2, <1>4, AroundIsCalm DEF In, SameAround
<1>6. LabelOk("criteria", mode, t, next, result)
  BY <1>4, <1>5 DEF LabelOk, Composing, Attempting, Verifying, Accepting, Ending
<1>. QED
  BY <1>1, <1>3, <1>6, AppendLands DEF SessionLabels, t

\* What a criterion about to run may count on, live or resumed.
LEMMA CriterionRelies ==
    ASSUME IInv, pc = "criteria" \/ Doing("criterion")
    PROVE  /\ Good(st) /\ CriterionOpen(st, mode) /\ Evaluating(st) /\ sess = 0
           /\ note # "refused" /\ mode \in {"live", "recovery"}
           /\ todo.mov \in 0 .. N /\ next.mov \in 0 .. N /\ left \in 0 .. Budget
           /\ tree \in {"intact", "altered", "lost"} /\ stray \in BOOLEAN
<1>1. CASE pc = "criteria"
  BY <1>1, LabelRelies DEF LabelOk, Accepting, In, CriterionOpen, SessionLabels
<1>2. CASE Doing("criterion")
  <2>1. HeadOk("criterion", todo.mov, mode, st, tree) /\ Good(st) /\ Calm(st) /\ sess = 0
    BY <1>2, StepRelies, StepIsCalm, StepWithoutSession DEF SweepSteps
  <2>2. CriterionOpen(st, mode) /\ Evaluating(st)
    BY <2>1 DEF HeadOk, Scheduled, Resumes, LiveSteps, CriterionOpen, IInv, ProcessInv
  <2>. QED
    BY <1>2, <2>1, <2>2 DEF IInv, ProcessInv, Doing
<1>. QED
  BY <1>1, <1>2

\* A criterion that starts is in flight.
LEMMA CriterionStarts ==
    ASSUME NEW s, NEW how, Good(s), CriterionOpen(s, how), Evaluating(s),
           s.att.passed < Planned(s)
    PROVE  LET t == CriterionStarted(s)
           IN  CriterionStartedOk(s) /\ Good(t) /\ CriterionOpen(t, how) /\ t.att.inFlight
<1> DEFINE t == CriterionStarted(s)
<1>1. CriterionStartedOk(s)
  BY DEF CriterionStartedOk, CriterionOpen, Evaluating
<1>2. Good(t)
  BY <1>1, CriterionStartedGood DEF Evaluating
<1>3. SameAround(s, t) /\ t.att.state = s.att.state /\ t.att.inFlight
  BY DEF CriterionStarted, SameAround, Good, Projections, Attempts
<1> HIDE DEF t
<1>4. CriterionOpen(t, how)
  BY <1>3, AroundIsCalm DEF CriterionOpen, SameAround
<1>. QED
  BY <1>1, <1>2, <1>3, <1>4 DEF t

\* A run criterion's session is spawned in an open acceptance.
LEMMA SpawnCriterionKeeps == ASSUME IInv, SpawnCriterion PROVE IInv'
<1>1. /\ pc = "criteria" \/ Doing("criterion")
      /\ st.att.passed < Planned(st) /\ pc' = "criterion_identify" /\ sess' = sess + 1
      /\ UNCHANGED <<st, mode, todo, next, left, result, note, stray, tree>>
  BY DEF SpawnCriterion, CriterionBegins, At
<1>2. LabelOk("criterion_identify", mode, st, next', result')
  BY <1>1, CriterionRelies
     DEF LabelOk, Composing, Attempting, Verifying, Accepting, Ending
<1>. QED
  BY <1>1, <1>2, CriterionRelies, Lands DEF SessionLabels

\* A criterion that is started and judged at once.
LEMMA JudgedAtOnce ==
    ASSUME NEW kind, IInv, CriterionBegins(kind),
           AppendEvent(CriterionStartedOk(st), CriterionStarted(st), "criterion_done"),
           result' \in {"PASS", "FAIL", "ERROR"},
           UNCHANGED <<mode, todo, next, left, sess, stray, tree>>
    PROVE  IInv'
<1>1. (pc = "criteria" \/ Doing("criterion")) /\ st.att.passed < Planned(st)
  BY DEF CriterionBegins, At
<1>2. Good(st) /\ CriterionOpen(st, mode) /\ Evaluating(st) /\ sess = 0
  BY <1>1, CriterionRelies
<1> DEFINE t == CriterionStarted(st)
<1>3. CriterionStartedOk(st) /\ Good(t) /\ CriterionOpen(t, mode) /\ t.att.inFlight
  BY <1>1, <1>2, CriterionStarts
<1>4. st' = t /\ pc' = "criterion_done" /\ note' = note
  BY <1>3 DEF AppendEvent
<1> HIDE DEF t
<1>5. LabelOk("criterion_done", mode, t, next', result')
  BY <1>3 DEF LabelOk, Composing, Attempting, Verifying, Accepting, Ending
<1>. QED
  BY <1>1, <1>2, <1>3, <1>4, <1>5, CriterionRelies, Lands DEF SessionLabels

\* A run criterion that cannot be spawned is an error.
LEMMA SpawnCriterionFailsKeeps == ASSUME IInv, SpawnCriterionFails PROVE IInv'
  BY JudgedAtOnce DEF SpawnCriterionFails

\* An artifact criterion is judged at once.
LEMMA JudgeArtifactKeeps == ASSUME IInv, JudgeArtifact PROVE IInv'
  BY JudgedAtOnce DEF JudgeArtifact, Judge

\* So is a review, live.
LEMMA JudgeReviewKeeps == ASSUME IInv, JudgeReview PROVE IInv'
  BY JudgedAtOnce DEF JudgeReview, Judge

\* Recovery cannot resume one.
LEMMA ResumeReviewKeeps == ASSUME IInv, ResumeReview PROVE IInv'
  BY StopsLeaving DEF ResumeReview, Doing, Exit, SessionLabels

\* The criterion is in flight once its session is identified.
LEMMA IdentifyCriterionKeeps == ASSUME IInv, IdentifyCriterion PROVE IInv'
<1>1. /\ pc = "criterion_identify"
      /\ Appends("criterion_identify", CriterionStartedOk(st), CriterionStarted(st),
                 "criterion_run")
  BY DEF IdentifyCriterion, Appends, At
<1>2. Good(st) /\ CriterionOpen(st, mode) /\ Evaluating(st) /\ st.att.passed < Planned(st)
  BY <1>1, LabelRelies DEF LabelOk, Accepting
<1> DEFINE t == CriterionStarted(st)
<1>3. CriterionStartedOk(st) /\ Good(t) /\ CriterionOpen(t, mode) /\ t.att.inFlight
  BY <1>2, CriterionStarts
<1> HIDE DEF t
<1>4. LabelOk("criterion_run", mode, t, next, result)
  BY <1>3 DEF LabelOk, Composing, Attempting, Verifying, Accepting, Ending
<1>. QED
  BY <1>1, <1>3, <1>4, AppendLands DEF SessionLabels, t

\* It ends with its session.
LEMMA CriterionEndsKeeps == ASSUME IInv, CriterionEnds PROVE IInv'
<1>1. /\ pc = "criterion_run" /\ pc' = "criterion_done" /\ sess' = sess - 1
      /\ result' \in {"PASS", "FAIL", "ERROR", "exhausted"}
      /\ UNCHANGED <<st, mode, todo, next, left, note, stray, tree>>
  BY DEF CriterionEnds, At
<1>2. sess' = 0
  BY <1>1, LabelRelies DEF SessionLabels
<1>3. LabelOk("criterion_done", mode, st, next', result')
  BY <1>1, LabelRelies
     DEF LabelOk, Composing, Attempting, Verifying, Accepting, Ending
<1>. QED
  BY <1>1, <1>2, <1>3, LabelRelies, Lands DEF SessionLabels

\* A criterion that is done leaves its acceptance open.
LEMMA CriterionFinishes ==
    ASSUME NEW s, NEW how, NEW verdict \in {"PASS", "FAIL", "ERROR"}, Good(s),
           CriterionOpen(s, how), s.att.inFlight
    PROVE  LET t == CriterionCompleted(s, verdict)
           IN  /\ CriterionCompletedOk(s) /\ Good(t) /\ CriterionOpen(t, how)
               /\ t.att.accepting /\ t.open = s.open /\ (verdict = "PASS" => Evaluating(t))
<1> DEFINE t == CriterionCompleted(s, verdict)
<1>1. CriterionCompletedOk(s) /\ s.att.accepting /\ ~s.att.evaluated
  BY DEF CriterionCompletedOk, CriterionOpen, Good, AttemptInv
<1>2. Good(t)
  BY <1>1, CriterionCompletedGood
<1>3. /\ SameAround(s, t) /\ t.att.state = s.att.state /\ t.att.accepting
      /\ (verdict = "PASS" => Evaluating(t))
  BY <1>1 DEF CriterionCompleted, SameAround, Good, Projections, Attempts, Evaluating
<1> HIDE DEF t
<1>4. CriterionOpen(t, how) /\ t.open = s.open
  BY <1>3, AroundIsCalm DEF CriterionOpen, SameAround
<1>. QED
  BY <1>1, <1>2, <1>3, <1>4 DEF t

\* Its verdict decides how the acceptance goes on.
LEMMA CriterionDoneKeeps == ASSUME IInv, CriterionDone PROVE IInv'
<1> DEFINE verdict == IF result = "exhausted" THEN "ERROR" ELSE result
           then == CASE result = "exhausted" -> "exhausted"
                     [] result = "PASS" -> IF Resumed THEN "plan" ELSE "criteria"
                     [] OTHER -> "fail_acceptance"
           t == CriterionCompleted(st, verdict)
<1>1. /\ pc = "criterion_done" /\ AppendEvent(CriterionCompletedOk(st), t, then)
      /\ UNCHANGED <<mode, todo, next, left, result, sess, stray, tree>>
  BY DEF CriterionDone, At
<1>2. /\ Good(st) /\ CriterionOpen(st, mode) /\ st.att.inFlight
      /\ result \in {"PASS", "FAIL", "ERROR", "exhausted"}
  BY <1>1, LabelRelies DEF LabelOk, Accepting
<1>3. verdict \in {"PASS", "FAIL", "ERROR"}
  BY <1>2
<1>4. /\ CriterionCompletedOk(st) /\ Good(t) /\ CriterionOpen(t, mode)
      /\ t.att.accepting /\ t.open = st.open /\ (verdict = "PASS" => Evaluating(t))
  <2> HIDE DEF verdict
  <2>. QED
    BY <1>2, <1>3, CriterionFinishes
<1>5. st' = t /\ pc' = then /\ note' = note
  BY <1>1, <1>4 DEF AppendEvent
<1>6. /\ result = "PASS" => verdict = "PASS"
      /\ then \in {"exhausted", "plan", "criteria", "fail_acceptance"}
  OBVIOUS
<1>7. LabelOk(then, mode, t, next', result')
  <2>1. CASE result = "exhausted"
    <3>1. then = "exhausted"
      BY <2>1
    <3> HIDE DEF t, then
    <3>. QED
      BY <1>4, <3>1 DEF LabelOk, Composing, Attempting, Verifying, Accepting, Ending
  <2>2. CASE result = "PASS" /\ Resumed
    <3>1. then = "plan"
      BY <2>2
    <3>2. mode = "recovery"
      BY <1>2, <2>2 DEF CriterionOpen, Resumed
    <3>. QED
      BY <3>1, <3>2, RecoveryPlans
  <2>3. CASE result = "PASS" /\ ~Resumed
    <3>1. then = "criteria"
      BY <2>3
    <3>2. In(t, "VERIFYING", "acceptance") /\ Evaluating(t)
      <4> HIDE DEF t
      <4>. QED
        BY <1>4, <1>6, <2>3 DEF CriterionOpen, Resumed, In
    <3> HIDE DEF t, then
    <3>. QED
      BY <3>1, <3>2 DEF LabelOk, Composing, Attempting, Verifying, Accepting, Ending
  <2>4. CASE result \notin {"PASS", "exhausted"}
    <3>1. then = "fail_acceptance"
      BY <2>4
    <3> HIDE DEF t, then
    <3>. QED
      BY <1>4, <3>1 DEF LabelOk, Composing, Attempting, Verifying, Accepting, Ending
  <2>. QED
    BY <2>1, <2>2, <2>3, <2>4
<1> HIDE DEF t, then, verdict
<1>. QED
  BY <1>1, <1>4, <1>5, <1>6, <1>7, LabelRelies, Lands DEF SessionLabels

\* A failed acceptance closes its interval, or is planned for when it has none.
LEMMA FailAcceptanceKeeps == ASSUME IInv, FailAcceptance PROVE IInv'
<1> DEFINE then == IF Resumed THEN "plan" ELSE "stop_acceptance"
<1>1. pc = "fail_acceptance"
  BY DEF FailAcceptance, At
<1>2. PICK remaining :
         Appends("fail_acceptance", AcceptanceFailedOk(st),
                 AcceptanceFailed(st, Classify(st, "acceptance", remaining)), then)
  BY DEF FailAcceptance
<1>3. Good(st) /\ CriterionOpen(st, mode) /\ st.att.accepting /\ mode \in {"live", "recovery"}
  BY <1>1, LabelRelies DEF LabelOk, Accepting
<1>4. /\ AcceptanceFailedOk(st) /\ AttemptInFlight(st) /\ Calm(st) /\ st.open.phase # "adapter"
      /\ ~PendingDecision(st) /\ "acceptance" \in FailureKinds
  BY <1>3 DEF AcceptanceFailedOk, AttemptInFlight, CriterionOpen, Calm, FailureKinds, Quality
<1> DEFINE t == AttemptFailed(st, Classify(st, "acceptance", remaining))
<1>5. Good(t) /\ In(t, "FAILED", st.open.phase) /\ ~t.att.failedHere
  BY <1>3, <1>4, ClassifiedGood, FailedKeeps
<1>6. t = AcceptanceFailed(st, Classify(st, "acceptance", remaining))
  BY DEF AttemptFailed, AcceptanceFailed
<1> HIDE DEF t
<1>7. LabelOk(then, mode, t, next, result)
  <2>1. CASE Resumed
    BY <1>3, <2>1, RecoveryPlans DEF CriterionOpen, Resumed
  <2>2. CASE ~Resumed
    <3>1. st.open.phase = "acceptance"
      BY <1>3, <2>2 DEF CriterionOpen, Resumed
    <3>. QED
      BY <1>5, <2>2, <3>1
         DEF LabelOk, Composing, Attempting, Verifying, Accepting, Ending, In
  <2>. QED
    BY <2>1, <2>2
<1>8. then \in {"plan", "stop_acceptance"}
  OBVIOUS
<1> HIDE DEF then
<1>. QED
  BY <1>1, <1>2, <1>4, <1>5, <1>6, <1>7, <1>8, AppendLands DEF SessionLabels

\* The evaluation is recorded once every criterion has passed.
LEMMA EvaluateKeeps == ASSUME IInv, Evaluate PROVE IInv'
<1>1. /\ pc = "criteria" /\ st.att.passed = Planned(st)
      /\ Appends("criteria", EvaluationCompletedOk(st), EvaluationCompleted(st, ReviewOutcome),
                 "stop_acceptance")
  BY DEF Evaluate, At
<1>2. Good(st) /\ In(st, "VERIFYING", "acceptance") /\ Evaluating(st)
  BY <1>1, LabelRelies DEF LabelOk, Accepting
<1>3. ReviewOutcome \in {"none", "CLEAN", "CONTESTED"}
  BY DEF ReviewOutcome
<1>4. EvaluationCompletedOk(st) /\ st.att.gate = "none"
  BY <1>1, <1>2 DEF EvaluationCompletedOk, In, Evaluating, Good, AttemptInv
<1> DEFINE t == EvaluationCompleted(st, ReviewOutcome)
<1>5. Good(t)
  BY <1>2, <1>3, <1>4, EvaluationCompletedGood
<1>6. SameAround(st, t) /\ t.att.state = "VERIFYING" /\ t.att.evaluated /\ t.att.gate = "none"
  BY <1>2, <1>4 DEF EvaluationCompleted, SameAround, In, Good, Projections, Attempts
<1> HIDE DEF t
<1>7. In(t, "VERIFYING", "acceptance")
  BY <1>2, <1>6, AroundIsCalm DEF In, SameAround
<1>8. LabelOk("stop_acceptance", mode, t, next, result)
  BY <1>6, <1>7 DEF LabelOk, Composing, Attempting, Verifying, Accepting, Ending, In
<1>. QED
  BY <1>1, <1>4, <1>5, <1>8, AppendLands DEF SessionLabels, t

\* The acceptance interval closes before the attempt ends.
LEMMA StopAcceptanceKeeps == ASSUME IInv, StopAcceptance PROVE IInv'
<1>1. PICK charged \in 0 .. st.open.rem :
         Appends("stop_acceptance", ExecutionStoppedOk(st),
                 ExecutionStopped(st, charged, "normal"),
                 IF ExecutionStopped(st, charged, "normal").att.state = "FAILED" THEN "realize"
                 ELSE IF GateRequired(ExecutionStopped(st, charged, "normal"))
                      THEN "gate" ELSE "complete")
  BY DEF StopAcceptance
<1>2. pc = "stop_acceptance"
  BY <1>1 DEF Appends, At
<1>3. /\ Good(st) /\ Calm(st) /\ st.open.phase = "acceptance"
      /\ \/ st.att.state = "VERIFYING" /\ st.att.evaluated /\ st.att.gate = "none"
         \/ st.att.state = "FAILED" /\ ~st.att.failedHere
  BY <1>2, LabelRelies DEF LabelOk, Accepting
<1>4. charged \in Nat
  <2>1. st.open.rem \in Nat
    BY <1>3 DEF Good, Projections, Intervals
  <2>. QED
    BY <2>1
<1> DEFINE t == ExecutionStopped(st, charged, "normal")
<1>5. Good(t) /\ t.open.phase = "none" /\ SameStanding(st, t)
  BY <1>3, <1>4, StoppedKeeps DEF SameStanding
<1>6. Appends("stop_acceptance", ExecutionStoppedOk(st), t,
              IF t.att.state = "FAILED" THEN "realize"
              ELSE IF GateRequired(t) THEN "gate" ELSE "complete")
  BY <1>1
<1> HIDE DEF t
<1> DEFINE then == IF t.att.state = "FAILED" THEN "realize"
                   ELSE IF GateRequired(t) THEN "gate" ELSE "complete"
<1>7. Calm(t) /\ t.att = st.att
  BY <1>3, <1>5, StandingKeeps DEF SameStanding
<1>8. LabelOk(then, mode, t, next, result)
  <2>1. CASE t.att.state = "FAILED"
    <3>1. In(t, "FAILED", "none") /\ ~t.att.failedHere
      BY <1>3, <1>5, <1>7, <2>1 DEF In
    <3>. QED
      BY <2>1, <3>1 DEF LabelOk, Composing, Attempting, Verifying, Accepting, Ending
  <2>2. CASE t.att.state # "FAILED"
    <3>1. In(t, "VERIFYING", "none") /\ t.att.evaluated /\ t.att.gate = "none"
      BY <1>3, <1>5, <1>7, <2>2 DEF In
    <3>. QED
      BY <2>2, <3>1 DEF LabelOk, Composing, Attempting, Verifying, Accepting, Ending
  <2>. QED
    BY <2>1, <2>2
<1>9. then \in {"realize", "gate", "complete"}
  OBVIOUS
<1> HIDE DEF then
<1>10. ExecutionStoppedOk(st)
  BY <1>3 DEF ExecutionStoppedOk
<1>11. Appends("stop_acceptance", ExecutionStoppedOk(st), t, then)
  BY <1>6 DEF then
<1>. QED
  BY <1>5, <1>8, <1>9, <1>10, <1>11, AppendLands DEF SessionLabels

\* The gate is asked for, and the process waits or plans again.
LEMMA GateKeeps == ASSUME IInv, Gate PROVE IInv'
<1>1. pc = "gate" /\ Appends("gate", GateRequestedOk(st), GateRequested(st), AfterFailure)
  BY DEF Gate, Appends, At
<1>2. /\ Good(st) /\ In(st, "VERIFYING", "none") /\ st.att.evaluated /\ GateRequired(st)
      /\ st.att.gate = "none" /\ mode \in {"live", "recovery"}
  BY <1>1, LabelRelies DEF LabelOk, Ending
<1>3. Good(GateRequested(st)) /\ GateRequestedOk(st)
  BY <1>2, GateRequestedGood DEF In, GateRequestedOk
<1>4. AfterFailure \in {"plan", "down"} /\ (AfterFailure = "plan" => mode = "recovery")
  BY <1>2 DEF AfterFailure
<1> DEFINE then == AfterFailure
<1>5. LabelOk(then, mode, GateRequested(st), next, result)
  BY <1>4, RecoveryPlans, DownIsFree
<1> HIDE DEF then
<1>6. then \in {"plan", "down"} /\ Appends("gate", GateRequestedOk(st), GateRequested(st), then)
  BY <1>1, <1>4 DEF then
<1>. QED
  BY <1>1, <1>3, <1>5, <1>6, AppendLands DEF SessionLabels

\* An evaluated attempt completes.
LEMMA CompleteKeeps == ASSUME IInv, Complete PROVE IInv'
<1>1. /\ pc = "complete"
      /\ Appends("complete", AttemptCompletedOk(st), AttemptCompleted(st), "succeed")
  BY DEF Complete, Appends, At
<1>2. Good(st) /\ In(st, "VERIFYING", "none") /\ st.att.evaluated /\ ~GateRequired(st)
  BY <1>1, LabelRelies DEF LabelOk, Ending
<1>3. AttemptCompletedOk(st) /\ Calm(st) /\ st.open.phase = "none"
  BY <1>2 DEF In, AttemptCompletedOk
<1> DEFINE t == AttemptCompleted(st)
<1>4. Good(t)
  BY <1>2, <1>3, AttemptCompletedGood
<1>5. In(t, "COMPLETED", "none") /\ ~t.att.succeededHere
  BY <1>2, <1>3, CompletedKeeps
<1> HIDE DEF t
<1>6. LabelOk("succeed", mode, t, next, result)
  BY <1>5 DEF LabelOk, Composing, Attempting, Verifying, Accepting, Ending
<1>. QED
  BY <1>1, <1>3, <1>4, <1>6, AppendLands DEF SessionLabels, t

\* After a movement has succeeded the run goes on, or it has ended with the final one.
LEMMA SucceedKeeps == ASSUME IInv, Succeed PROVE IInv'
<1>1. pc = "succeed" /\ Appends("succeed", SucceededOk(st.att.mov), Succeeded(st.att.mov), "plan")
  BY DEF Succeed, Appends, At
<1>2. /\ Good(st) /\ Calm(st) /\ st.open.phase = "none" /\ st.att.state = "COMPLETED"
      /\ ~st.att.succeededHere
  BY <1>1, LabelRelies DEF LabelOk, Ending, In
<1> DEFINE t == Succeeded(st.att.mov)
<1>3. Good(t) /\ SucceededOk(st.att.mov)
  BY <1>2, CompletedSucceeds DEF SucceededOk, Succeeded
<1>4. Terminal(t) \/ (Between(t) /\ Settled(t))
  <2>1. CASE st.att.mov = Final
    <3>1. t = CloseAllPendingDecisions(
                [[st EXCEPT !.mov[st.att.mov] = "SUCCEEDED", !.att.succeededHere = TRUE]
                    EXCEPT !.run = "SUCCEEDED"])
      BY <2>1 DEF Succeeded, MovementSucceeded
    <3>2. t.run = "SUCCEEDED"
      BY <1>2, <3>1
         DEF CloseAllPendingDecisions, RefreshWaitingHuman, Terminal, PendingDecision,
             Good, Projections, Attempts
    <3>. QED
      BY <3>2 DEF Terminal
  <2>2. CASE st.att.mov # Final
    <3>1. t = [st EXCEPT !.mov[st.att.mov] = "SUCCEEDED", !.att.succeededHere = TRUE]
      BY <2>2 DEF Succeeded, MovementSucceeded
    <3>2. /\ t.run = st.run /\ t.open = st.open /\ t.evidence = st.evidence
          /\ t.terminalized = st.terminalized /\ t.att.state = "COMPLETED" /\ t.att.succeededHere
          /\ t.att.pending = st.att.pending /\ t.att.gate = st.att.gate
      BY <1>2, <3>1 DEF Good, Projections, Attempts
    <3> HIDE DEF t
    <3>. QED
      BY <1>2, <3>2 DEF Between, Settled, Calm, PendingDecision, CompositionTerminals
  <2>. QED
    BY <2>1, <2>2
<1> HIDE DEF t
<1>5. LabelOk("plan", mode, t, next, result)
  BY <1>4, LivePlans
<1>. QED
  BY <1>1, <1>3, <1>5, AppendLands DEF SessionLabels, t

(***************************************************************************)
(* The budget's deadline and the realization of a recorded failure         *)
(***************************************************************************)
\* The interval that the deadline ended is charged in full.
LEMMA CloseExhaustedKeeps == ASSUME IInv, CloseExhausted PROVE IInv'
<1>1. pc = "exhausted" /\ UNCHANGED <<mode, todo, next, left, result, sess, escaped, stray, tree>>
  BY DEF CloseExhausted, At
<1>2. /\ Good(st) /\ (In(st, "RUNNING", "adapter") \/ CriterionOpen(st, mode)) /\ sess = 0
  BY <1>1, LabelRelies DEF LabelOk, Ending, SessionLabels
<1>3. CASE Resumed
  <2>1. pc' = "down" /\ note' = "no_interval" /\ UNCHANGED st
    BY <1>3 DEF CloseExhausted, Exit
  <2>. QED
    BY <1>1, <2>1, StopsLeaving DEF SessionLabels
<1>4. CASE ~Resumed
  <2>1. ExecutionStoppedOk(st) /\ Calm(st) /\ st.att.state \in {"RUNNING", "VERIFYING"}
    BY <1>2, <1>4 DEF Resumed, ExecutionStoppedOk, In, CriterionOpen
  <2>2. st.open.rem \in Nat
    BY <1>2 DEF Good, Projections, Intervals
  <2> DEFINE t == ExecutionStopped(st, st.open.rem, "budget_exhausted")
  <2>3. Good(t) /\ t.open.phase = "none" /\ SameStanding(st, t)
    BY <1>2, <2>2, StoppedKeeps DEF SameStanding
  <2>4. AppendEvent(ExecutionStoppedOk(st), t, "fail_exhausted")
    BY <1>4 DEF CloseExhausted
  <2> HIDE DEF t
  <2>5. In(t, "RUNNING", "none") \/ In(t, "VERIFYING", "none")
    BY <2>1, <2>3, StandingKeeps DEF In, SameStanding
  <2>6. LabelOk("fail_exhausted", mode, t, next, result)
    BY <2>5 DEF LabelOk, Composing, Attempting, Verifying, Accepting, Ending
  <2>7. Appends("exhausted", ExecutionStoppedOk(st), t, "fail_exhausted")
    BY <1>4, <2>4 DEF CloseExhausted, Appends
  <2>. QED
    BY <1>1, <2>1, <2>3, <2>6, <2>7, AppendLands DEF SessionLabels
<1>. QED
  BY <1>3, <1>4

\* An attempt that used up the budget ends.
LEMMA FailExhaustedKeeps == ASSUME IInv, FailExhausted PROVE IInv'
<1>1. /\ pc = "fail_exhausted" /\ "budget_exhausted" \in FailureKinds
      /\ Appends("fail_exhausted", AttemptFailedOk(st),
                 AttemptFailed(st, Classify(st, "budget_exhausted", Remaining(st))), "realize")
  BY DEF FailExhausted, Appends, At, FailureKinds, ImmediatelyTerminal
<1>2. Calm(st) /\ AttemptInFlight(st) /\ st.open.phase = "none"
  BY <1>1, LabelRelies DEF LabelOk, Ending, In, AttemptInFlight
<1>. QED
  BY <1>1, <1>2, FailureLands DEF SessionLabels

\* A terminal failure ends its movement.
LEMMA RealizeTerminalKeeps == ASSUME IInv, RealizeTerminal PROVE IInv'
<1>1. /\ pc = "realize" /\ st.att.disposition = "terminal"
      /\ Appends("realize", BetweenUnitEntry(st) /\ MovementFailedOk(st, st.att.mov),
                 MovementFailed(st, st.att.mov, TRUE), "fail_run")
  BY DEF RealizeTerminal, Appends, At
<1>2. /\ Good(st) /\ Calm(st) /\ st.open.phase = "none" /\ st.att.state = "FAILED"
      /\ ~st.att.failedHere
  BY <1>1, LabelRelies DEF LabelOk, Ending, In
<1>3. st.att.mov \in Movements /\ st.mov[st.att.mov] = "RUNNING"
  BY <1>1, <1>2, UnderwayRuns DEF Underway
<1>4. (BetweenUnitEntry(st) /\ MovementFailedOk(st, st.att.mov)) = TRUE
  BY <1>2, <1>3 DEF BetweenUnitEntry, MovementFailedOk, AttemptInFlight, Calm, Terminal
<1> DEFINE t == MovementFailed(st, st.att.mov, TRUE)
<1>5. Good(t)
  BY <1>2, <1>3, AttemptEndsMovementGood
<1>6. /\ t.run = st.run /\ t.open = st.open /\ t.evidence = st.evidence
      /\ t.terminalized = st.terminalized /\ t.att.state = "FAILED" /\ t.att.failedHere
      /\ t.att.pending = st.att.pending /\ t.att.gate = st.att.gate
  BY <1>2 DEF MovementFailed, Good, Projections, Attempts
<1> HIDE DEF t
<1>7. In(t, "FAILED", "none")
  BY <1>2, <1>6 DEF In, Calm, PendingDecision, CompositionTerminals
<1>8. LabelOk("fail_run", mode, t, next, result)
  BY <1>6, <1>7 DEF LabelOk, Composing, Attempting, Verifying, Accepting, Ending
<1>. QED
  BY <1>1, <1>4, <1>5, <1>8, AppendLands DEF SessionLabels, t

\* A charged failure is followed by the successor it paid for.
LEMMA RealizeChargedKeeps == ASSUME IInv, RealizeCharged PROVE IInv'
<1>1. /\ pc = "realize" /\ st.att.disposition # "terminal"
      /\ UNCHANGED <<mode, result, sess, escaped, stray, tree>>
  BY DEF RealizeCharged, At
<1>2. /\ Good(st) /\ Calm(st) /\ st.open.phase = "none" /\ st.att.state = "FAILED"
      /\ ~st.att.failedHere /\ sess = 0 /\ note # "refused" /\ mode \in {"live", "recovery"}
      /\ todo.mov \in 0 .. N /\ next.mov \in 0 .. N /\ left \in 0 .. Budget /\ stray \in BOOLEAN
  BY <1>1, LabelRelies DEF LabelOk, Ending, In, SessionLabels
<1>3. OwesRetry(st) /\ Owes(st) /\ Between(st)
  <2>1. st.att.disposition \in {"none", "fallback", "quality_retry", "terminal"}
    BY <1>2 DEF Good, Projections, Attempts
  <2>2. st.att.disposition # "none"
    BY <1>2 DEF Good, AttemptInv
  <2>. QED
    BY <1>1, <1>2, <2>1, <2>2 DEF OwesRetry, Owes, Between
<1>4. CASE ~BetweenUnitEntry(st) \/ PendingSuccessor(st) = NoSuccessor
  <2>1. pc' = "down" /\ note' = "interrupted" /\ UNCHANGED <<st, todo, next, left>>
    BY <1>4 DEF RealizeCharged, Exit
  <2>. QED
    BY <1>1, <2>1, StopsLeaving DEF SessionLabels
<1>5. CASE ~(~BetweenUnitEntry(st) \/ PendingSuccessor(st) = NoSuccessor) /\ Remaining(st) = 0
  <2>1. /\ todo' = Carry(BudgetExhaustion(st), TRUE) /\ pc' = "step"
        /\ UNCHANGED <<st, next, left, note>>
    BY <1>5 DEF RealizeCharged
  <2>2. StepOk(todo', mode, st, tree)
    BY <1>2, <1>3, <2>1, BudgetExhaustionOk
  <2>. QED
    BY <1>1, <1>2, <2>1, <2>2, StepsOn
<1>6. CASE ~(~BetweenUnitEntry(st) \/ PendingSuccessor(st) = NoSuccessor) /\ Remaining(st) # 0
  <2> DEFINE goal == Goal(PendingSuccessor(st), TRUE)
  <2>1. Begin(goal) /\ todo' = todo
    BY <1>6 DEF RealizeCharged
  <2>2. GoalOk(st, goal) /\ goal.mov \in 0 .. N
    <3>1. st.att.state # "BLOCKED"
      BY <1>2
    <3>. QED
      BY <1>2, <1>3, <3>1, OwedGoal
  <2> HIDE DEF goal
  <2>. QED
    BY <1>1, <1>2, <1>3, <2>1, <2>2, BeginKeeps
<1>. QED
  BY <1>4, <1>5, <1>6

\* The run ends with its movement.
LEMMA FailRunKeeps == ASSUME IInv, FailRun PROVE IInv'
<1>1. pc = "fail_run" /\ Appends("fail_run", RunFailedOk(st), RunFailed(st), AfterFailure)
  BY DEF FailRun, Appends, At
<1>2. Good(st) /\ Calm(st) /\ st.open.phase = "none" /\ mode \in {"live", "recovery"}
  BY <1>1, LabelRelies DEF LabelOk, Ending, In
<1>3. Good(RunFailed(st)) /\ RunFailedOk(st)
  BY <1>2, RunFailedGood DEF RunFailedOk, Calm
<1> DEFINE then == AfterFailure
<1>4. then \in {"plan", "down"} /\ (then = "plan" => mode = "recovery")
  BY <1>2 DEF AfterFailure
<1>5. LabelOk(then, mode, RunFailed(st), next, result)
  BY <1>4, RecoveryPlans, DownIsFree
<1>6. Appends("fail_run", RunFailedOk(st), RunFailed(st), then)
  BY <1>1
<1> HIDE DEF then
<1>. QED
  BY <1>1, <1>3, <1>4, <1>5, <1>6, AppendLands DEF SessionLabels

(***************************************************************************)
(* The invariant is inductive                                              *)
(***************************************************************************)
\* A run that has not begun is in order.
LEMMA InitialIsGood == Good(InitialProjection)
<1> DEFINE s == InitialProjection
<1>1. s \in Projections
  BY ScoreAssumption
     DEF InitialProjection, NoAttempt, NoInterval, Projections, Attempts, Intervals, RunStates,
         MovementStates, AttemptStates
<1>2. /\ s.run = "RUNNING" /\ s.att = NoAttempt /\ s.open = NoInterval /\ s.candidate = FALSE
      /\ s.evidence = {} /\ s.terminalized = {}
      /\ \A m \in Movements : /\ s.mov[m] = "PENDING" /\ s.retries[m] = 0 /\ s.selected[m] = 0
                              /\ s.visited[m] = {} /\ s.resumed[m] = 0
  BY DEF InitialProjection
<1>3. /\ NoAttempt.state = "NONE" /\ NoAttempt.mov = 0 /\ NoAttempt.pending = 0
      /\ NoAttempt.gate = "none" /\ NoAttempt.disposition = "none"
      /\ NoInterval.phase = "none" /\ NoInterval.cp = 0 /\ NoInterval.rem = 0
      /\ NoAttempt.asked = 0 /\ NoAttempt.raised = 0 /\ NoAttempt.passed = 0
      /\ NoAttempt.verdict = "none"
      /\ ~NoAttempt.probed /\ ~NoAttempt.changeSet /\ ~NoAttempt.verified
      /\ ~NoAttempt.accepting /\ ~NoAttempt.inFlight /\ ~NoAttempt.evaluated
      /\ ~NoAttempt.failedHere /\ ~NoAttempt.succeededHere
  BY DEF NoAttempt, NoInterval
<1> HIDE DEF s
<1>4. AttemptInv(s)
  BY <1>2, <1>3 DEF AttemptInv
<1>5. MovementInv(s)
  BY <1>2, <1>3, FinalIsMovement DEF MovementInv, PendingDecision, Underway, GateWaived
<1>6. RunInv(s)
  BY <1>2, <1>3 DEF RunInv, Terminal, PendingDecision
<1>7. PaidInv(s)
  <2>1. Cardinality({}) = 0
    BY FS_EmptySet
  <2>2. ~OwesRetry(s)
    BY <1>2, <1>3 DEF OwesRetry
  <2>3. Retries \in Nat
    BY ScoreAssumption
  <2>4. ASSUME NEW m \in Movements
        PROVE  /\ s.retries[m] <= Retries
               /\ s.selected[m] <= s.retries[m] + Cardinality(s.visited[m]) + s.resumed[m]
    BY <1>2, <2>1, <2>3
  <2>. QED
    BY <2>2, <2>4 DEF PaidInv
<1>8. PhaseInv(s)
  BY <1>2, <1>3 DEF PhaseInv, CompositionTerminals
<1>. QED
  BY <1>1, <1>4, <1>5, <1>6, <1>7, <1>8 DEF Good, s

\* A run that has not begun satisfies the invariant.
LEMMA InitIInv == Init => IInv
<1> SUFFICES ASSUME Init PROVE IInv
  OBVIOUS
<1>1. /\ st = InitialProjection /\ pc = "plan" /\ mode = "live" /\ sess = 0 /\ todo.mov = 0
      /\ next.mov = 0 /\ left = 0 /\ tree = "intact" /\ stray = FALSE /\ note = "none"
  BY DEF Init, Nothing, Goal, NoSuccessor
<1>2. Good(st)
  BY <1>1, InitialIsGood
<1>3. Between(st) /\ Settled(st)
  BY <1>1
     DEF InitialProjection, NoAttempt, NoInterval, Between, Settled, Calm, PendingDecision,
         CompositionTerminals
<1>4. LabelOk("plan", mode, st, next, result)
  BY <1>3, LivePlans
<1>5. 0 \in 0 .. N /\ 0 \in 0 .. Budget
  BY ScoreAssumption
<1>6. LabelOk(pc, mode, st, next, result)
  BY <1>1, <1>4
<1>7. SessInv
  BY <1>1 DEF SessInv, SessionLabels
<1>8. ProcessInv
  BY <1>1, <1>5 DEF ProcessInv
<1>9. AppendsAreAdmitted
  BY <1>1 DEF AppendsAreAdmitted
<1>. QED
  BY <1>1, <1>2, <1>6, <1>7, <1>8, <1>9 DEF IInv

\* A step that changes nothing keeps it.
LEMMA StutterKeeps == ASSUME IInv, UNCHANGED vars PROVE IInv'
  BY DEF IInv, SessInv, ProcessInv, AppendsAreAdmitted, StrandedSuccessor, RejectedWithoutFinal

\* Planning and scheduling keep it.
LEMMA ScheduleKeeps == ASSUME IInv, Schedule PROVE IInv'
  BY PlanLiveKeeps, PlanRecoveryKeeps, ReadyKeeps, StartKeeps, BudgetMovementKeeps,
     BudgetRunKeeps, InitialKeeps, SuccessorKeeps, ComposeCandidateKeeps, RerunCompositionKeeps
     DEF Schedule

\* Composition keeps it.
LEMMA ComposeKeeps == ASSUME IInv, Compose PROVE IInv'
  BY ComposedKeeps, RecordKeeps, ComposeDeadlineKeeps, ComposeUnverifiableKeeps,
     ComposeConflictKeeps, EvidenceKeeps, TerminalizeKeeps, RecoverTerminalKeeps DEF Compose

\* The attempt's steps keep it.
LEMMA AttemptKeeps == ASSUME IInv, Attempt PROVE IInv'
  BY SelectKeeps, OpenAdapterKeeps, LaunchKeeps, LaunchFailsKeeps, IdentifyKeeps, ProbeKeeps,
     ProbeFailsKeeps, CheckpointKeeps, AdapterEndsKeeps, SweepFailsKeeps, AdapterDeadlineKeeps,
     StopAdapterKeeps, RecordCompletedKeeps, RecordFailedKeeps, RecordBlockedKeeps, AskKeeps,
     ContinueAfterBlockingKeeps DEF Attempt

\* Verification, acceptance and the end of an attempt keep it.
LEMMA AcceptanceKeeps == ASSUME IInv, Acceptance PROVE IInv'
  BY CaptureKeeps, CaptureDeniedKeeps, VerifyKeeps, VerifyDeniedKeeps, OpenAcceptanceKeeps,
     AcceptKeeps, SpawnCriterionKeeps, SpawnCriterionFailsKeeps, IdentifyCriterionKeeps,
     CriterionEndsKeeps, JudgeArtifactKeeps, JudgeReviewKeeps, ResumeReviewKeeps,
     CriterionDoneKeeps, FailAcceptanceKeeps, EvaluateKeeps, StopAcceptanceKeeps, GateKeeps,
     CompleteKeeps, SucceedKeeps, CloseExhaustedKeeps, FailExhaustedKeeps, RealizeTerminalKeeps,
     RealizeChargedKeeps, FailRunKeeps DEF Acceptance

\* Recovery's steps keep it.
LEMMA RecoverKeeps == ASSUME IInv, Recover PROVE IInv'
  BY CloseIntervalKeeps, RecoverSweepKeeps, RecoverSweepFailsKeeps, RemoveLaunchKeeps,
     RecoverAttemptKeeps, RecoverDispositionKeeps, RecoverRunFailedKeeps, RecoverQuestionKeeps,
     RecoverCaptureKeeps, RecoverVerifyKeeps, RecoverVerifyDeniedKeeps, RecoverAcceptKeeps,
     SubjectUnverifiedKeeps, RecoverCriterionKeeps, RecoverAcceptanceFailureKeeps,
     RecoverEvaluationKeeps, RecoverGateKeeps, RecoverGateRejectedKeeps, RecoverCompleteKeeps,
     RecoverSucceededKeeps DEF Recover

\* Every step of the driver, of recovery, of the human and of the world keeps it.
LEMMA NextKeeps == ASSUME IInv, [Next]_vars PROVE IInv'
  BY ScheduleKeeps, ComposeKeeps, AttemptKeeps, AcceptanceKeeps, RecoverKeeps, AnswerKeeps,
     ResolveKeeps, CrashKeeps, DisturbTreeKeeps, ResumeKeeps, StutterKeeps DEF Next, Drive

\* The invariant holds in every run, however often it is interrupted and recovered.
THEOREM ExecutionIsInductive == Spec => []IInv
<1>1. Init => IInv
  BY InitIInv
<1>2. IInv /\ [Next]_vars => IInv'
  BY NextKeeps
<1>. QED
  BY <1>1, <1>2, PTL DEF Spec

(***************************************************************************)
(* What the invariant says                                                 *)
(***************************************************************************)
\* A session that lives belongs to the attempt or the criterion under way of a
\* run that is not over.
LEMMA SessionBelongs ==
    ASSUME IInv, sess > 0
    PROVE  /\ st.run = "RUNNING"
           /\ st.att.state \in {"STARTING", "RUNNING"} => st.open.phase = "adapter"
<1>1. sess = 1
  BY DEF IInv, SessInv
<1>2. CASE pc \in SessionLabels
  BY <1>2, LabelRelies
     DEF SessionLabels, LabelOk, Attempting, Accepting, In, CriterionOpen, Calm
<1>3. CASE LeftRunning(st, stray)
  BY <1>3 DEF LeftRunning
<1>. QED
  BY <1>1, <1>2, <1>3 DEF IInv, SessInv

\* The projection is well formed, and at most one session lives, however often
\* the driver died and recovery took over.
THEOREM SessionsStayAccounted == Spec => []SessionInv
<1>1. ASSUME IInv PROVE TypeOK
  <2>1. Good(st) /\ ProcessInv /\ sess \in {0, 1}
    BY <1>1 DEF IInv, SessInv
  <2>2. st \in Projections
    BY <2>1 DEF Good
  <2>3. /\ st.run \in RunStates
        /\ \A m \in Movements : st.mov[m] \in MovementStates /\ st.visited[m] \subseteq Performers
        /\ st.att.mov \in 0 .. N
        /\ st.open.phase \in {"none", "composition", "adapter", "acceptance"}
        /\ st.evidence \subseteq 0 .. N
    BY <2>2 DEF Projections, Attempts, Intervals
  <2>4. /\ st.att.pending <= st.att.asked /\ st.att.asked <= st.att.raised
        /\ st.open.cp <= st.open.rem /\ st.terminalized \subseteq st.evidence
    BY <2>1 DEF Good, AttemptInv, PhaseInv
  <2>. QED
    BY <2>1, <2>3, <2>4 DEF TypeOK, ProcessInv, RunStates, MovementStates
<1>2. ASSUME IInv PROVE OneLiveSession
  BY <1>2 DEF IInv, SessInv, OneLiveSession
<1>3. IInv => SessionInv
  BY <1>1, <1>2 DEF SessionInv
<1>. QED
  BY <1>3, ExecutionIsInductive, PTL

\* Adapter time is charged while the session of a started attempt lives.
THEOREM AdapterTimeIsCharged == Spec => []AdapterIsMetered
<1>1. IInv => AdapterIsMetered
  BY SessionBelongs DEF AdapterIsMetered
<1>. QED
  BY <1>1, ExecutionIsInductive, PTL

\* No run pays for fewer attempts than it selects.
THEOREM AttemptsArePaidFor == Spec => []SuccessorsArePaidFor
<1>1. IInv => SuccessorsArePaidFor
  BY DEF IInv, Good, PaidInv, SuccessorsArePaidFor
<1>. QED
  BY <1>1, ExecutionIsInductive, PTL

\* A run that ended has no session, no open interval and nothing to decide.
THEOREM EndedRunsAreQuiet == Spec => []TerminalIsQuiet
<1>1. ASSUME IInv PROVE TerminalIsQuiet
  <2> SUFFICES ASSUME Terminal(st)
               PROVE  sess = 0 /\ st.open.phase = "none" /\ ~PendingDecision(st)
    BY DEF TerminalIsQuiet
  <2>1. sess = 0
    BY <1>1, SessionBelongs DEF IInv, SessInv, Terminal
  <2>2. st.open.phase = "none" /\ ~PendingDecision(st)
    BY <1>1 DEF IInv, Good, RunInv
  <2>. QED
    BY <2>1, <2>2
<1>2. IInv => TerminalIsQuiet
  BY <1>1
<1>. QED
  BY <1>2, ExecutionIsInductive, PTL

\* Nothing that the driver or recovery appends is refused, but for the two known cases.
THEOREM AppendsStayAdmitted == Spec => []AppendsAreAdmitted
<1>1. IInv => AppendsAreAdmitted
  BY DEF IInv
<1>. QED
  BY <1>1, ExecutionIsInductive, PTL

(***************************************************************************)
(* What a step may do to the outcome of a run                              *)
(***************************************************************************)
Ended(s) == IF Terminal(s) THEN s.run ELSE "OPEN"
Stage(s, m) ==
    IF s.mov[m] \in {"PENDING", "READY"} THEN "waiting"
    ELSE IF s.mov[m] \in {"SUCCEEDED", "FAILED"} THEN s.mov[m] ELSE "begun"

\* The stages of all movements but those in S are kept.
Besides(s, t, S) == \A k \in Movements \ S : Stage(t, k) = Stage(s, k)

SameOutcome(s, t) == Ended(t) = Ended(s) /\ t.candidate = s.candidate /\ Besides(s, t, {})

MovementBegins(s, t, m) ==
    /\ Ended(s) = "OPEN" /\ Ended(t) = "OPEN" /\ Stage(s, m) = "waiting" /\ Stage(t, m) = "begun"
    /\ (\A k \in Needs[m] : Stage(s, k) = "SUCCEEDED") /\ (m = Final => s.candidate)
MovementSucceeds(s, t, m) ==
    /\ Ended(s) = "OPEN" /\ Ended(t) = (IF m = Final THEN "SUCCEEDED" ELSE "OPEN")
    /\ Stage(s, m) = "begun" /\ Stage(t, m) = "SUCCEEDED"
    /\ s.att.mov = m /\ s.att.state = "COMPLETED"
MovementFails(s, t, m) ==
    /\ Ended(s) = "OPEN" /\ Ended(t) \in {"OPEN", "FAILED"}
    /\ Stage(s, m) = "begun" /\ Stage(t, m) = "FAILED"
MovementMoves(s, t) ==
    \E m \in Movements :
        /\ Besides(s, t, {m}) /\ t.candidate = s.candidate
        /\ MovementBegins(s, t, m) \/ MovementSucceeds(s, t, m) \/ MovementFails(s, t, m)

CandidateIsRecorded(s, t) ==
    /\ Ended(s) = "OPEN" /\ Besides(s, t, {}) /\ t.candidate
    /\ \/ Ended(t) = "OPEN" /\ ~s.candidate /\ WritersSucceeded(s)
       \/ Ended(t) = "SUCCEEDED" /\ GateWaived /\ WaivedCompletion(s)
RunFails(s, t) ==
    Ended(s) = "OPEN" /\ Ended(t) = "FAILED" /\ Besides(s, t, {}) /\ t.candidate = s.candidate

Promised(s, t) ==
    SameOutcome(s, t) \/ MovementMoves(s, t) \/ CandidateIsRecorded(s, t) \/ RunFails(s, t)

\* An event about the attempt, its interval or its evidence.
Quiet(s, t) == t.run = s.run /\ t.mov = s.mov /\ t.candidate = s.candidate

\* Such an event leaves the outcome as it was.
LEMMA QuietIsPromised == ASSUME NEW s, NEW t, Quiet(s, t) PROVE Promised(s, t)
  BY DEF Quiet, Promised, SameOutcome, Ended, Terminal, Besides, Stage

\* Holding and releasing a run for a decision leaves its outcome as it was.
LEMMA RefreshIsPromised ==
    ASSUME NEW s, NEW u \in Projections, Quiet(s, u)
    PROVE  Promised(s, RefreshWaitingHuman(u))
<1> DEFINE t == RefreshWaitingHuman(u)
<1>1. /\ t.candidate = u.candidate
      /\ Terminal(u) => t.run = u.run
      /\ ~Terminal(u) => t.run \in {"RUNNING", "WAITING_HUMAN"}
      /\ \A k \in Movements :
            t.mov[k] = u.mov[k] \/ {t.mov[k], u.mov[k]} \subseteq {"RUNNING", "WAITING_HUMAN"}
  BY DEF RefreshWaitingHuman
<1> HIDE DEF t
<1>2. Ended(t) = Ended(s)
  BY <1>1 DEF Ended, Terminal, Quiet
<1>3. \A k \in Movements : Stage(t, k) = Stage(s, k)
  BY <1>1 DEF Stage, Quiet
<1>4. Promised(s, t)
  BY <1>1, <1>2, <1>3 DEF Promised, SameOutcome, Besides, Quiet
<1>. QED
  BY <1>4 DEF t

\* Closing the decisions of a run that has ended changes nothing else.
LEMMA ClosedKeeps ==
    ASSUME NEW s \in Projections, Terminal(s)
    PROVE  Quiet(s, CloseAllPendingDecisions(s))
<1> DEFINE u == [s EXCEPT !.att.pending = 0,
                          !.att.gate = IF @ = "pending" THEN "none" ELSE @]
<1>1. u \in Projections /\ Terminal(u) /\ ~PendingDecision(u) /\ Quiet(s, u)
  <2>1. s.att \in Attempts
    BY DEF Projections
  <2> DEFINE a == [s.att EXCEPT !.pending = 0, !.gate = IF @ = "pending" THEN "none" ELSE @]
  <2>2. a \in Attempts /\ a.pending = 0 /\ a.gate # "pending"
    BY <2>1 DEF Attempts
  <2>3. u = [s EXCEPT !.att = a]
    BY <2>1 DEF Projections, Attempts
  <2> HIDE DEF a
  <2>4. u \in Projections /\ u.att = a /\ Quiet(s, u)
    BY <2>2, <2>3 DEF Projections, Quiet
  <2>. QED
    BY <2>2, <2>4 DEF Terminal, PendingDecision, Quiet
<1>2. CloseAllPendingDecisions(s) = RefreshWaitingHuman(u)
  BY DEF CloseAllPendingDecisions
<1> HIDE DEF u
<1>3. RefreshWaitingHuman(u) = [u EXCEPT !.run = u.run, !.mov = [m \in Movements |-> u.mov[m]]]
  BY <1>1 DEF RefreshWaitingHuman
<1>4. [m \in Movements |-> u.mov[m]] = u.mov
  BY <1>1 DEF Projections
<1>. QED
  BY <1>1, <1>2, <1>3, <1>4 DEF Quiet, Projections

\* The end of a run by failure.
LEMMA RunFailedIsPromised ==
    ASSUME NEW s, NEW u \in Projections, Quiet(s, u), RunFailedOk(s)
    PROVE  Promised(s, RunFailed(u))
<1> DEFINE e == [u EXCEPT !.run = "FAILED"]
           t == RunFailed(u)
<1>1. e \in Projections /\ Terminal(e) /\ e.mov = s.mov /\ e.candidate = s.candidate
  BY DEF Projections, RunStates, Terminal, Quiet
<1>2. t.run = "FAILED" /\ t.mov = s.mov /\ t.candidate = s.candidate
  BY <1>1, ClosedKeeps DEF RunFailed, Quiet, Projections
<1> HIDE DEF t
<1>3. RunFails(s, t)
  BY <1>2 DEF RunFails, RunFailedOk, Ended, Terminal, Besides, Stage
<1>. QED
  BY <1>3 DEF Promised, t

\* A movement that fails on its own.
LEMMA MovementFailedIsPromised ==
    ASSUME NEW s, NEW u \in Projections, NEW m \in Movements, NEW named,
           Quiet(s, u), MovementFailedOk(s, m), ~Terminal(s)
    PROVE  Promised(s, MovementFailed(u, m, named))
<1> DEFINE t == MovementFailed(u, m, named)
<1>1. /\ t.run = s.run /\ t.candidate = s.candidate /\ t.mov[m] = "FAILED"
      /\ \A k \in Movements \ {m} : t.mov[k] = s.mov[k]
  BY DEF MovementFailed, Quiet, Projections
<1> HIDE DEF t
<1>2. MovementFails(s, t, m)
  BY <1>1 DEF MovementFails, MovementFailedOk, Ended, Terminal, Stage
<1>3. Besides(s, t, {m})
  BY <1>1 DEF Besides, Stage
<1>4. MovementMoves(s, t)
  BY <1>1, <1>2, <1>3 DEF MovementMoves
<1>. QED
  BY <1>4 DEF Promised, t

\* A movement that succeeds with its attempt.
LEMMA MovementSucceededIsPromised ==
    ASSUME NEW s, NEW changeSet, Good(s),
           MovementSucceededOk(s, s.att.mov, changeSet, s.att.mov = Final)
    PROVE  Promised(s, MovementSucceeded(s, s.att.mov, s.att.mov = Final))
<1> DEFINE m == s.att.mov
           t == MovementSucceeded(s, m, m = Final)
           d == [s EXCEPT !.mov[m] = "SUCCEEDED", !.att.succeededHere = TRUE]
           e == [d EXCEPT !.run = "SUCCEEDED"]
<1>1. s \in Projections /\ s.run = "RUNNING" /\ s.mov[m] = "RUNNING" /\ s.att.state = "COMPLETED"
  BY DEF Good, MovementSucceededOk
<1>2. m \in Movements
  BY <1>1 DEF Good, AttemptInv
<1>3. /\ d \in Projections /\ d.mov[m] = "SUCCEEDED" /\ d.candidate = s.candidate
      /\ d.run = s.run /\ \A k \in Movements \ {m} : d.mov[k] = s.mov[k]
  BY <1>1, <1>2, ZenonT(40) DEF Projections, Attempts, MovementStates
<1>4. e \in Projections /\ Terminal(e) /\ e.mov = d.mov /\ e.candidate = d.candidate
      /\ e.run = "SUCCEEDED"
  BY <1>3 DEF Projections, RunStates, Terminal
<1>5. t = IF m = Final THEN CloseAllPendingDecisions(e) ELSE d
  BY DEF MovementSucceeded
<1> HIDE DEF d, e, t
<1>6. /\ t.run = (IF m = Final THEN "SUCCEEDED" ELSE s.run) /\ t.candidate = s.candidate
      /\ t.mov = d.mov
  BY <1>3, <1>4, <1>5, ClosedKeeps DEF Quiet
<1>7. MovementSucceeds(s, t, m)
  BY <1>1, <1>2, <1>3, <1>6 DEF MovementSucceeds, Ended, Terminal, Stage
<1>8. Besides(s, t, {m})
  BY <1>3, <1>6 DEF Besides, Stage
<1>9. MovementMoves(s, t)
  BY <1>2, <1>6, <1>7, <1>8 DEF MovementMoves
<1>. QED
  BY <1>9 DEF Promised, t

\* A movement whose gate was rejected fails, alone or with the run.
LEMMA GateRejectedIsPromised ==
    ASSUME NEW s, NEW runFailed \in BOOLEAN, Good(s), ~Terminal(s),
           GateRejectedOk(s, s.att.mov, runFailed)
    PROVE  Promised(s, GateRejected(s, s.att.mov, runFailed))
<1> DEFINE m == s.att.mov
           t == GateRejected(s, m, runFailed)
           f == [s EXCEPT !.run = IF runFailed THEN "FAILED" ELSE @]
           c == IF runFailed THEN CloseAllPendingDecisions(f) ELSE f
<1>1. s \in Projections /\ MovementFailedOk(s, m) /\ s.att.state = "VERIFYING"
  BY DEF Good, GateRejectedOk
<1>2. m \in Movements
  BY <1>1 DEF Good, AttemptInv
<1>3. /\ f \in Projections /\ f.mov = s.mov /\ f.candidate = s.candidate
      /\ f.run = (IF runFailed THEN "FAILED" ELSE s.run) /\ (runFailed => Terminal(f))
  BY <1>1 DEF Projections, RunStates, Terminal
<1>4. t = [c EXCEPT !.att.state = "FAILED", !.mov[m] = "FAILED", !.att.failedHere = TRUE]
  BY DEF GateRejected
<1> HIDE DEF f
<1>5. Quiet(f, c)
  BY <1>3, ClosedKeeps DEF Quiet
<1>6. "mov" \in DOMAIN c /\ "run" \in DOMAIN c /\ "candidate" \in DOMAIN c
  BY <1>3 DEF CloseAllPendingDecisions, RefreshWaitingHuman, Projections
<1> HIDE DEF c, t
<1>7. /\ t.run = f.run /\ t.candidate = s.candidate /\ t.mov = [s.mov EXCEPT ![m] = "FAILED"]
  BY <1>3, <1>4, <1>5, <1>6 DEF Quiet
<1>8. t.mov[m] = "FAILED" /\ \A k \in Movements \ {m} : t.mov[k] = s.mov[k]
  BY <1>1, <1>2, <1>7 DEF Projections
<1>9. MovementFails(s, t, m)
  BY <1>1, <1>3, <1>7, <1>8 DEF MovementFails, MovementFailedOk, Ended, Terminal, Stage
<1>10. Besides(s, t, {m})
  BY <1>8 DEF Besides, Stage
<1>11. MovementMoves(s, t)
  BY <1>2, <1>7, <1>9, <1>10 DEF MovementMoves
<1>. QED
  BY <1>11 DEF Promised, t

\* An append that is refused changes nothing.
LEMMA AppendOrNothing ==
    ASSUME NEW ok, NEW s, NEW then, AppendEvent(ok, s, then)
    PROVE  st' = st \/ (ok /\ st' = s)
  BY DEF AppendEvent
\* The same for an append of a decision's step, and for one at a label.
LEMMA StepOrNothing ==
    ASSUME NEW step, NEW ok, NEW s, StepAppends(step, ok, s)
    PROVE  Doing(step) /\ (st' = st \/ (ok /\ st' = s))
  BY DEF StepAppends, AppendEvent

\* An append at a label leaves the journal, or is admitted and appends.
LEMMA LabelOrNothing ==
    ASSUME NEW where, NEW ok, NEW s, NEW then, Appends(where, ok, s, then)
    PROVE  pc = where /\ (st' = st \/ (ok /\ st' = s))
  BY DEF Appends, AppendEvent, At

\* Nothing is promised when nothing changes.
LEMMA NothingIsPromised == ASSUME st' = st PROVE Promised(st, st')
  BY QuietIsPromised DEF Quiet

\* The interval events, the attempt's and the acceptance's leave the outcome alone.
LEMMA IntervalsAreQuiet ==
    ASSUME NEW s \in Projections
    PROVE  /\ \A phase, rem : Promised(s, ExecutionStarted(s, phase, rem))
           /\ \A charged, reason : Promised(s, ExecutionStopped(s, charged, reason))
           /\ \A elapsed : Promised(s, Checkpointed(s, elapsed))
           /\ \A target : Promised(s, CompositionEvidence(s, target))
           /\ \A m : Promised(s, MovementReady(s, m)) \/ s.mov[m] # "PENDING"
<1>1. \A phase, rem : Quiet(s, ExecutionStarted(s, phase, rem))
  BY DEF Quiet, ExecutionStarted, Projections
<1>2. \A charged, reason : Quiet(s, ExecutionStopped(s, charged, reason))
  BY DEF Quiet, ExecutionStopped, Projections
<1>3. \A elapsed : Quiet(s, Checkpointed(s, elapsed))
  BY DEF Quiet, Checkpointed, Projections
<1>4. \A target : Quiet(s, CompositionEvidence(s, target))
  BY DEF Quiet, CompositionEvidence, Projections
<1>5. ASSUME NEW m, s.mov[m] = "PENDING" PROVE Promised(s, MovementReady(s, m))
  <2> DEFINE t == MovementReady(s, m)
  <2>1. /\ t.run = s.run /\ t.candidate = s.candidate
        /\ \A k \in Movements : t.mov[k] = s.mov[k] \/ (k = m /\ t.mov[k] = "READY")
    BY DEF MovementReady, Projections
  <2> HIDE DEF t
  <2>2. SameOutcome(s, t)
    BY <1>5, <2>1 DEF SameOutcome, Ended, Terminal, Besides, Stage
  <2>. QED
    BY <2>2 DEF Promised, t
<1>. QED
  BY <1>1, <1>2, <1>3, <1>4, <1>5, QuietIsPromised

\* The facts of an attempt under way say nothing of how the run ends.
LEMMA AttemptsAreQuiet ==
    ASSUME NEW s \in Projections
    PROVE  /\ Promised(s, AttemptStarted(s)) /\ Promised(s, AdapterProbed(s))
           /\ \A g : Promised(s, PerformerSelected(s, g))
           /\ \A c : Promised(s, PerformerCompleted(s, c))
           /\ \A q : Promised(s, AttemptBlocked(s, q))
           /\ \A d : Promised(s, AttemptFailed(s, d)) /\ Promised(s, AcceptanceFailed(s, d))
           /\ Promised(s, ChangeSetRecorded(s)) /\ Promised(s, VerificationPassed(s))
           /\ Promised(s, AttemptCompleted(s)) /\ Promised(s, AcceptanceStarted(s))
           /\ Promised(s, CriterionStarted(s))
           /\ \A v : Promised(s, CriterionCompleted(s, v))
           /\ \A o : Promised(s, EvaluationCompleted(s, o))
<1>1. Quiet(s, AttemptStarted(s)) /\ Quiet(s, AdapterProbed(s))
  BY DEF Quiet, AttemptStarted, AdapterProbed, Projections
<1>2. \A g : Quiet(s, PerformerSelected(s, g))
  BY DEF Quiet, PerformerSelected, Projections
<1>3. \A c : Quiet(s, PerformerCompleted(s, c))
  BY DEF Quiet, PerformerCompleted, Projections
<1>4. \A q : Quiet(s, AttemptBlocked(s, q))
  BY DEF Quiet, AttemptBlocked, Projections
<1>5. \A d : Quiet(s, AttemptFailed(s, d)) /\ Quiet(s, AcceptanceFailed(s, d))
  BY DEF Quiet, AttemptFailed, AcceptanceFailed, Charged, Projections
<1>6. Quiet(s, ChangeSetRecorded(s)) /\ Quiet(s, VerificationPassed(s))
  BY DEF Quiet, ChangeSetRecorded, VerificationPassed, Projections
<1>7. Quiet(s, AttemptCompleted(s)) /\ Quiet(s, AcceptanceStarted(s))
  BY DEF Quiet, AttemptCompleted, AcceptanceStarted, Projections
<1>8. Quiet(s, CriterionStarted(s)) /\ \A v : Quiet(s, CriterionCompleted(s, v))
  BY DEF Quiet, CriterionStarted, CriterionCompleted, Projections
<1>9. \A o : Quiet(s, EvaluationCompleted(s, o))
  BY DEF Quiet, EvaluationCompleted, Projections
<1>. QED
  BY <1>1, <1>2, <1>3, <1>4, <1>5, <1>6, <1>7, <1>8, <1>9, QuietIsPromised

\* Asking and answering leave it alone as well.
LEMMA DecisionsAreQuiet ==
    ASSUME NEW s \in Projections
    PROVE  /\ Promised(s, QuestionRequested(s)) /\ Promised(s, GateRequested(s))
           /\ QuestionResolvedOk(s) => Promised(s, QuestionResolved(s))
           /\ \A d \in {"approved", "rejected"} : Promised(s, GateResolved(s, d))
<1>. s.att \in Attempts
  BY DEF Projections
<1>1. ASSUME NEW a \in Attempts
      PROVE  [s EXCEPT !.att = a] \in Projections /\ Quiet(s, [s EXCEPT !.att = a])
  BY DEF Projections, Quiet
<1>2. /\ [s.att EXCEPT !.asked = @ + 1, !.pending = @ + 1] \in Attempts
      /\ [s.att EXCEPT !.gate = "pending"] \in Attempts
      /\ \A d \in {"approved", "rejected"} : [s.att EXCEPT !.gate = d] \in Attempts
      /\ s.att.pending > 0 => [s.att EXCEPT !.pending = @ - 1] \in Attempts
  <2>1. /\ s.att.asked + 1 \in Nat /\ s.att.pending + 1 \in Nat
        /\ s.att.pending > 0 => s.att.pending - 1 \in Nat
    BY DEF Attempts
  <2>2. [s.att EXCEPT !.asked = @ + 1, !.pending = @ + 1] \in Attempts
    BY <2>1 DEF Attempts
  <2>3. \A d \in {"pending", "approved", "rejected"} : [s.att EXCEPT !.gate = d] \in Attempts
    BY DEF Attempts
  <2>4. s.att.pending > 0 => [s.att EXCEPT !.pending = @ - 1] \in Attempts
    BY <2>1 DEF Attempts
  <2>. QED
    BY <2>2, <2>3, <2>4
<1>3. Promised(s, QuestionRequested(s))
  <2>1. [s EXCEPT !.att.asked = @ + 1, !.att.pending = @ + 1]
            = [s EXCEPT !.att = [s.att EXCEPT !.asked = @ + 1, !.pending = @ + 1]]
    BY DEF Projections, Attempts
  <2>. QED
    BY <1>1, <1>2, <2>1, RefreshIsPromised DEF QuestionRequested
<1>4. Promised(s, GateRequested(s))
  <2>1. [s EXCEPT !.att.gate = "pending"] = [s EXCEPT !.att = [s.att EXCEPT !.gate = "pending"]]
    BY DEF Projections, Attempts
  <2>. QED
    BY <1>1, <1>2, <2>1, RefreshIsPromised DEF GateRequested
<1>5. ASSUME QuestionResolvedOk(s) PROVE Promised(s, QuestionResolved(s))
  <2>1. [s EXCEPT !.att.pending = @ - 1] = [s EXCEPT !.att = [s.att EXCEPT !.pending = @ - 1]]
    BY DEF Projections, Attempts
  <2>. QED
    BY <1>1, <1>2, <1>5, <2>1, RefreshIsPromised DEF QuestionResolved, QuestionResolvedOk
<1>6. ASSUME NEW d \in {"approved", "rejected"} PROVE Promised(s, GateResolved(s, d))
  <2>1. [s EXCEPT !.att.gate = d] = [s EXCEPT !.att = [s.att EXCEPT !.gate = d]]
    BY DEF Projections, Attempts
  <2>. QED
    BY <1>1, <1>2, <2>1, RefreshIsPromised DEF GateResolved
<1>. QED
  BY <1>3, <1>4, <1>5, <1>6

\* The candidate is recorded, the run succeeds with it, or nothing is appended.
LEMMA RecordIsPromised ==
    ASSUME NEW where, IInv, RecordCandidate(where)
    PROVE  Promised(st, st')
<1>1. st \in Projections
  BY DEF IInv, Good
<1>2. \/ st' = st
      \/ CandidateRecordedOk(st) /\ st' = CandidateRecorded(st)
      \/ GateWaived /\ WaivedCompletion(st) /\ RunSucceededOk(st) /\ st' = RunSucceeded(st)
  BY DEF RecordCandidate, AppendEvent, Exit
<1>3. CASE CandidateRecordedOk(st) /\ st' = CandidateRecorded(st)
  <2>1. st'.run = st.run /\ st'.mov = st.mov /\ st'.candidate = TRUE
    BY <1>1, <1>3 DEF CandidateRecorded, Projections
  <2>2. CandidateIsRecorded(st, st')
    BY <1>3, <2>1 DEF CandidateRecordedOk, CandidateIsRecorded, Ended, Terminal, Besides, Stage
  <2>. QED
    BY <2>2 DEF Promised
<1>4. CASE GateWaived /\ WaivedCompletion(st) /\ RunSucceededOk(st) /\ st' = RunSucceeded(st)
  <2> DEFINE e == [st EXCEPT !.run = "SUCCEEDED", !.candidate = TRUE]
  <2>1. /\ e \in Projections /\ Terminal(e) /\ e.run = "SUCCEEDED" /\ e.mov = st.mov
        /\ e.candidate = TRUE
    BY <1>1 DEF Projections, RunStates, Terminal
  <2>2. Quiet(e, st')
    BY <1>4, <2>1, ClosedKeeps DEF RunSucceeded
  <2> HIDE DEF e
  <2>3. st'.run = "SUCCEEDED" /\ st'.mov = st.mov /\ st'.candidate = TRUE
    BY <2>1, <2>2 DEF Quiet
  <2>4. CandidateIsRecorded(st, st')
    BY <1>4, <2>3 DEF RunSucceededOk, CandidateIsRecorded, Ended, Terminal, Besides, Stage
  <2>. QED
    BY <2>4 DEF Promised
<1>. QED
  BY <1>2, <1>3, <1>4, NothingIsPromised

\* A base is begun under an interval or without one.
LEMMA BeginIsPromised == ASSUME NEW goal, IInv, Begin(goal) PROVE Promised(st, st')
<1>1. st' = st \/ st' = ExecutionStarted(st, "composition", Remaining(st))
  BY AppendOrNothing DEF Begin
<1>. QED
  BY <1>1, NothingIsPromised, IntervalsAreQuiet DEF IInv, Good

\* The consequence of evidence.
LEMMA ConsequenceIsPromised ==
    ASSUME NEW target, IInv, Concluding(st, target), CompositionTerminalOk(target),
           st' = CompositionTerminal(target)
    PROVE  Promised(st, st')
<1> DEFINE u == [st EXCEPT !.terminalized = @ \cup {target}]
<1>1. st \in Projections /\ target \in 0 .. N /\ ~Terminal(st)
  BY DEF IInv, Good, Concluding, Projections, Terminal
<1>2. u \in Projections /\ Quiet(st, u)
  BY <1>1 DEF Projections, Quiet
<1>3. st' = IF target = 0 THEN RunFailed(u) ELSE MovementFailed(u, target, FALSE)
  BY DEF CompositionTerminal
<1> HIDE DEF u
<1>4. CASE target = 0
  BY <1>2, <1>3, <1>4, RunFailedIsPromised DEF CompositionTerminalOk
<1>5. CASE target # 0
  <2>1. target \in Movements /\ MovementFailedOk(st, target)
    BY <1>1, <1>5, ScoreAssumption DEF Movements, CompositionTerminalOk
  <2>. QED
    BY <1>1, <1>2, <1>3, <1>5, <2>1, MovementFailedIsPromised
<1>. QED
  BY <1>4, <1>5

\* Planning and scheduling.
LEMMA ScheduleIsPromised == ASSUME IInv, Schedule PROVE Promised(st, st')
<1>. st \in Projections /\ Quiet(st, st) /\ Good(st)
  BY DEF IInv, Good, Quiet
<1>1. CASE PlanLive \/ PlanRecovery
  BY <1>1, NothingIsPromised DEF PlanLive, PlanRecovery
<1>2. CASE Ready
  <2>1. st' = st \/ (MovementReadyOk(st, todo.mov) /\ st' = MovementReady(st, todo.mov))
    BY <1>2, StepOrNothing DEF Ready
  <2>. QED
    BY <2>1, NothingIsPromised, IntervalsAreQuiet DEF MovementReadyOk
<1>3. CASE Start
  <2>1. Doing("start") /\ (st' = st \/ st' = MovementStarted(st, todo.mov))
    BY <1>3, StepOrNothing DEF Start
  <2>2. CASE st' = MovementStarted(st, todo.mov)
    <3> DEFINE m == todo.mov
    <3>1. m \in Movements /\ st.mov[m] = "READY" /\ Calm(st)
      BY <2>1, StepRelies, StepIsCalm DEF HeadOk, Scheduled
    <3>2. /\ st'.run = st.run /\ st'.candidate = st.candidate /\ st'.mov[m] = "RUNNING"
          /\ \A k \in Movements \ {m} : st'.mov[k] = st.mov[k]
      BY <2>2, <3>1 DEF MovementStarted, Projections
    <3>3. (\A k \in Needs[m] : st.mov[k] = "SUCCEEDED") /\ (m = Final => st.candidate)
      BY <3>1 DEF Good, MovementInv
    <3> HIDE DEF m
    <3>4. MovementBegins(st, st', m)
      BY <3>1, <3>2, <3>3 DEF MovementBegins, Ended, Terminal, Stage, Calm
    <3>5. Besides(st, st', {m})
      BY <3>2 DEF Besides, Stage
    <3>. QED
      BY <3>1, <3>2, <3>4, <3>5 DEF Promised, MovementMoves
  <2>. QED
    BY <2>1, <2>2, NothingIsPromised
<1>4. CASE BudgetMovement
  <2>1. Doing("budget_movement") /\
        (st' = st \/ (/\ MovementFailedOk(st, todo.mov)
                      /\ st' = MovementFailed(st, todo.mov, FALSE)))
    BY <1>4, StepOrNothing DEF BudgetMovement
  <2>2. todo.mov \in Movements /\ ~Terminal(st)
    BY <2>1, StepRelies DEF HeadOk, Scheduled
  <2>. QED
    BY <2>1, <2>2, NothingIsPromised, MovementFailedIsPromised
<1>5. CASE BudgetRun
  <2>1. st' = st \/ (RunFailedOk(st) /\ st' = RunFailed(st))
    BY <1>5, StepOrNothing DEF BudgetRun
  <2>. QED
    BY <2>1, NothingIsPromised, RunFailedIsPromised
<1>6. CASE Initial \/ Successor \/ RerunComposition
  <2>1. \E goal : Begin(goal)
    BY <1>6 DEF Initial, Successor, RerunComposition
  <2>. QED
    BY <2>1, BeginIsPromised
<1>7. CASE ComposeCandidate
  <2>1. \/ RecordCandidate("plan")
        \/ st' = st \/ st' = ExecutionStarted(st, "composition", Remaining(st))
    BY <1>7, AppendOrNothing DEF ComposeCandidate
  <2>. QED
    BY <2>1, RecordIsPromised, NothingIsPromised, IntervalsAreQuiet
<1>. QED
  BY <1>1, <1>2, <1>3, <1>4, <1>5, <1>6, <1>7 DEF Schedule

\* Composition.
LEMMA ComposeIsPromised == ASSUME IInv, Compose PROVE Promised(st, st')
<1>. st \in Projections
  BY DEF IInv, Good
<1>1. CASE Composed \/ ComposeDeadline \/ ComposeConflict
  <2>1. st' = st \/ \E charged, reason : st' = ExecutionStopped(st, charged, reason)
    <3>1. CASE Composed
      BY <3>1, AppendOrNothing DEF Composed
    <3>2. CASE ComposeDeadline
      <4>1. st' = st \/ st' = ExecutionStopped(st, st.open.rem, "budget_exhausted")
        BY <3>2, AppendOrNothing DEF ComposeDeadline
      <4>. QED
        BY <4>1
    <3>3. CASE ComposeConflict
      BY <3>3, AppendOrNothing DEF ComposeConflict
    <3>. QED
      BY <1>1, <3>1, <3>2, <3>3
  <2>. QED
    BY <2>1, NothingIsPromised, IntervalsAreQuiet
<1>2. CASE Record
  BY <1>2, RecordIsPromised DEF Record
<1>3. CASE ComposeUnverifiable
  BY <1>3, NothingIsPromised DEF ComposeUnverifiable
<1>4. CASE Evidence
  <2>1. st' = st \/ st' = CompositionEvidence(st, next.mov)
    BY <1>4, LabelOrNothing DEF Evidence
  <2>. QED
    BY <2>1, NothingIsPromised, IntervalsAreQuiet
<1>5. CASE Terminalize
  <2>1. /\ pc = "compose_terminal"
        /\ st' = st \/ (CompositionTerminalOk(next.mov) /\ st' = CompositionTerminal(next.mov))
    BY <1>5, LabelOrNothing DEF Terminalize
  <2>2. Concluding(st, next.mov)
    BY <2>1, LabelRelies DEF LabelOk, Composing
  <2>. QED
    BY <2>1, <2>2, NothingIsPromised, ConsequenceIsPromised
<1>6. CASE RecoverTerminal
  <2>1. /\ Doing("compose_terminal")
        /\ st' = st \/ (CompositionTerminalOk(todo.mov) /\ st' = CompositionTerminal(todo.mov))
    BY <1>6, StepOrNothing DEF RecoverTerminal
  <2>2. Concluding(st, todo.mov)
    BY <2>1, StepRelies, TerminalsConclude DEF HeadOk, Scheduled, IInv
  <2>. QED
    BY <2>1, <2>2, NothingIsPromised, ConsequenceIsPromised
<1>. QED
  BY <1>1, <1>2, <1>3, <1>4, <1>5, <1>6 DEF Compose

\* The attempt.
LEMMA AttemptIsPromised == ASSUME IInv, Attempt PROVE Promised(st, st')
<1>. st \in Projections
  BY DEF IInv, Good
<1>1. CASE Select
  <2>1. st' = st \/ \E g : st' = PerformerSelected(st, g)
    BY <1>1, AppendOrNothing DEF Select
  <2>. QED
    BY <2>1, NothingIsPromised, AttemptsAreQuiet
<1>2. CASE OpenAdapter \/ Checkpoint \/ StopAdapter
  <2>1. \/ st' = st \/ \E phase, rem : st' = ExecutionStarted(st, phase, rem)
        \/ \E charged, reason : st' = ExecutionStopped(st, charged, reason)
        \/ \E elapsed : st' = Checkpointed(st, elapsed)
    BY <1>2, AppendOrNothing, LabelOrNothing DEF OpenAdapter, Checkpoint, StopAdapter
  <2>. QED
    BY <2>1, NothingIsPromised, IntervalsAreQuiet
<1>3. CASE Launch \/ LaunchFails \/ ProbeFails \/ AdapterEnds \/ SweepFails \/ AdapterDeadline
  BY <1>3, NothingIsPromised
     DEF Launch, LaunchFails, ProbeFails, AdapterEnds, SweepFails, AdapterDeadline
<1>4. CASE Identify \/ Probe
  <2>1. st' = st \/ st' = AttemptStarted(st) \/ st' = AdapterProbed(st)
    BY <1>4, LabelOrNothing DEF Identify, Probe
  <2>. QED
    BY <2>1, NothingIsPromised, AttemptsAreQuiet
<1>5. CASE RecordCompleted \/ RecordFailed \/ RecordBlocked
  <2>1. \/ st' = st \/ \E c : st' = PerformerCompleted(st, c)
        \/ \E d : st' = AttemptFailed(st, d)
        \/ \E q : st' = AttemptBlocked(st, q)
    <3>1. CASE RecordCompleted
      BY <3>1, LabelOrNothing DEF RecordCompleted
    <3>2. CASE RecordFailed
      <4>1. st' = st \/ st' = AttemptFailed(st, Classify(st, result, Remaining(st)))
        BY <3>2, LabelOrNothing DEF RecordFailed
      <4>. QED
        BY <4>1
    <3>3. CASE RecordBlocked
      BY <3>3, LabelOrNothing DEF RecordBlocked
    <3>. QED
      BY <1>5, <3>1, <3>2, <3>3
  <2>. QED
    BY <2>1, NothingIsPromised, AttemptsAreQuiet
<1>6. CASE Ask
  <2>1. st' = st \/ st' = QuestionRequested(st)
    BY <1>6, LabelOrNothing DEF Ask
  <2>. QED
    BY <2>1, NothingIsPromised, DecisionsAreQuiet
<1>7. CASE ContinueAfterBlocking
  <2>1. st' = st \/ \E goal : Begin(goal)
    BY <1>7 DEF ContinueAfterBlocking
  <2>. QED
    BY <2>1, NothingIsPromised, BeginIsPromised
<1>. QED
  BY <1>1, <1>2, <1>3, <1>4, <1>5, <1>6, <1>7 DEF Attempt

\* Verification, acceptance and the end of an attempt.
LEMMA AcceptanceIsPromised == ASSUME IInv, Acceptance PROVE Promised(st, st')
<1>. st \in Projections /\ Quiet(st, st) /\ Good(st)
  BY DEF IInv, Good, Quiet
<1>1. CASE Capture \/ Verify \/ Accept \/ Complete
  <2>1. \/ st' = st \/ st' = ChangeSetRecorded(st) \/ st' = VerificationPassed(st)
        \/ st' = AcceptanceStarted(st) \/ st' = AttemptCompleted(st)
    BY <1>1, LabelOrNothing DEF Capture, Verify, Accept, Complete
  <2>. QED
    BY <2>1, NothingIsPromised, AttemptsAreQuiet
<1>2. CASE CaptureDenied \/ VerifyDenied \/ FailExhausted \/ FailAcceptance
  <2>1. \/ st' = st \/ \E d : st' = AttemptFailed(st, d) \/ st' = AcceptanceFailed(st, d)
    <3>1. CASE CaptureDenied \/ VerifyDenied
      <4>1. st' = st \/ st' = AttemptFailed(st, Classify(st, "grant_denied", Remaining(st)))
        BY <3>1, LabelOrNothing DEF CaptureDenied, VerifyDenied, DenyGrant
      <4>. QED
        BY <4>1
    <3>2. CASE FailExhausted
      <4>1. st' = st \/ st' = AttemptFailed(st, Classify(st, "budget_exhausted", Remaining(st)))
        BY <3>2, LabelOrNothing DEF FailExhausted
      <4>. QED
        BY <4>1
    <3>3. CASE FailAcceptance
      <4>1. PICK remaining, then :
               Appends("fail_acceptance", AcceptanceFailedOk(st),
                       AcceptanceFailed(st, Classify(st, "acceptance", remaining)), then)
        BY <3>3 DEF FailAcceptance
      <4>2. st' = st \/ st' = AcceptanceFailed(st, Classify(st, "acceptance", remaining))
        BY <4>1, LabelOrNothing
      <4>. QED
        BY <4>2
    <3>. QED
      BY <1>2, <3>1, <3>2, <3>3
  <2>. QED
    BY <2>1, NothingIsPromised, AttemptsAreQuiet
<1>3. CASE OpenAcceptance \/ StopAcceptance \/ CloseExhausted
  <2>1. \/ st' = st \/ \E phase, rem : st' = ExecutionStarted(st, phase, rem)
        \/ \E charged, reason : st' = ExecutionStopped(st, charged, reason)
    <3>1. CASE OpenAcceptance
      BY <3>1, LabelOrNothing DEF OpenAcceptance
    <3>2. CASE StopAcceptance
      BY <3>2, LabelOrNothing DEF StopAcceptance
    <3>3. CASE CloseExhausted
      <4>1. st' = st \/ st' = ExecutionStopped(st, st.open.rem, "budget_exhausted")
        BY <3>3, AppendOrNothing DEF CloseExhausted
      <4>. QED
        BY <4>1
    <3>. QED
      BY <1>3, <3>1, <3>2, <3>3
  <2>. QED
    BY <2>1, NothingIsPromised, IntervalsAreQuiet
<1>4. CASE SpawnCriterion \/ CriterionEnds \/ ResumeReview
  BY <1>4, NothingIsPromised DEF SpawnCriterion, CriterionEnds, ResumeReview
<1>5. CASE SpawnCriterionFails \/ IdentifyCriterion \/ JudgeArtifact \/ JudgeReview
  <2>1. st' = st \/ st' = CriterionStarted(st)
    BY <1>5, LabelOrNothing, AppendOrNothing
       DEF SpawnCriterionFails, IdentifyCriterion, JudgeArtifact, JudgeReview, Judge
  <2>. QED
    BY <2>1, NothingIsPromised, AttemptsAreQuiet
<1>6. CASE CriterionDone \/ Evaluate
  <2>1. \/ st' = st \/ \E v : st' = CriterionCompleted(st, v)
        \/ \E o : st' = EvaluationCompleted(st, o)
    <3>1. CASE CriterionDone
      <4>1. PICK v, then : AppendEvent(CriterionCompletedOk(st), CriterionCompleted(st, v), then)
        BY <3>1 DEF CriterionDone
      <4>. QED
        BY <4>1, AppendOrNothing
    <3>2. CASE Evaluate
      <4>1. st' = st \/ st' = EvaluationCompleted(st, ReviewOutcome)
        BY <3>2, LabelOrNothing DEF Evaluate
      <4>. QED
        BY <4>1
    <3>. QED
      BY <1>6, <3>1, <3>2
  <2>. QED
    BY <2>1, NothingIsPromised, AttemptsAreQuiet
<1>7. CASE Gate
  <2>1. st' = st \/ st' = GateRequested(st)
    BY <1>7, LabelOrNothing DEF Gate
  <2>. QED
    BY <2>1, NothingIsPromised, DecisionsAreQuiet
<1>8. CASE Succeed
  <2>1. st' = st \/ (SucceededOk(st.att.mov) /\ st' = Succeeded(st.att.mov))
    BY <1>8, LabelOrNothing DEF Succeed
  <2>. QED
    BY <2>1, NothingIsPromised, MovementSucceededIsPromised DEF SucceededOk, Succeeded
<1>9. CASE RealizeTerminal
  <2>1. st' = st \/ (/\ BetweenUnitEntry(st) /\ MovementFailedOk(st, st.att.mov)
                     /\ st' = MovementFailed(st, st.att.mov, TRUE))
    BY <1>9, LabelOrNothing DEF RealizeTerminal
  <2>2. pc = "realize"
    BY <1>9 DEF RealizeTerminal, Appends, At
  <2>3. st.att.mov \in Movements
    BY <2>2, LabelRelies DEF LabelOk, Ending, In, Good, AttemptInv
  <2>. QED
    BY <2>1, <2>3, NothingIsPromised, MovementFailedIsPromised DEF BetweenUnitEntry
<1>10. CASE RealizeCharged
  <2>1. st' = st \/ \E goal : Begin(goal)
    BY <1>10 DEF RealizeCharged
  <2>. QED
    BY <2>1, NothingIsPromised, BeginIsPromised
<1>11. CASE FailRun
  <2>1. st' = st \/ (RunFailedOk(st) /\ st' = RunFailed(st))
    BY <1>11, LabelOrNothing DEF FailRun
  <2>. QED
    BY <2>1, NothingIsPromised, RunFailedIsPromised
<1>. QED
  BY <1>1, <1>2, <1>3, <1>4, <1>5, <1>6, <1>7, <1>8, <1>9, <1>10, <1>11 DEF Acceptance

\* Recovery.
LEMMA RecoverIsPromised == ASSUME IInv, Recover PROVE Promised(st, st')
<1>. st \in Projections /\ Quiet(st, st) /\ Good(st)
  BY DEF IInv, Good, Quiet
<1>1. CASE RecoverSweep \/ RecoverSweepFails \/ RemoveLaunch \/ SubjectUnverified
  BY <1>1, NothingIsPromised DEF RecoverSweep, RecoverSweepFails, RemoveLaunch, SubjectUnverified
<1>2. CASE CloseInterval
  <2>1. st' = st \/ st' = ExecutionStopped(st, ClampedCharge(st.open), "recovered")
    BY <1>2, StepOrNothing DEF CloseInterval
  <2>. QED
    BY <2>1, NothingIsPromised, IntervalsAreQuiet
<1>3. CASE RecoverAttempt \/ RecoverVerifyDenied \/ RecoverAcceptanceFailure
  <2>1. st' = st \/ \E d : st' = AttemptFailed(st, d) \/ st' = AcceptanceFailed(st, d)
    <3>1. CASE RecoverAttempt
      <4>1. PICK step, d : StepAppends(step, AttemptFailedOk(st), AttemptFailed(st, d))
        BY <3>1 DEF RecoverAttempt
      <4>. QED
        BY <4>1, StepOrNothing
    <3>2. CASE RecoverVerifyDenied
      <4>1. st' = st \/ st' = AttemptFailed(st, Classify(st, "grant_denied", Remaining(st)))
        BY <3>2, StepOrNothing DEF RecoverVerifyDenied
      <4>. QED
        BY <4>1
    <3>3. CASE RecoverAcceptanceFailure
      <4>1. PICK step, d : StepAppends(step, AcceptanceFailedOk(st), AcceptanceFailed(st, d))
        BY <3>3 DEF RecoverAcceptanceFailure
      <4>. QED
        BY <4>1, StepOrNothing
    <3>. QED
      BY <1>3, <3>1, <3>2, <3>3
  <2>. QED
    BY <2>1, NothingIsPromised, AttemptsAreQuiet
<1>4. CASE RecoverDisposition
  <2>1. /\ Doing("realize")
        /\ st' = st \/ (/\ MovementFailedOk(st, st.att.mov)
                        /\ st' = MovementFailed(st, st.att.mov, TRUE))
    BY <1>4, StepOrNothing DEF RecoverDisposition
  <2>2. st.att.mov \in Movements /\ ~Terminal(st)
    BY <2>1, StepRelies DEF HeadOk, Continued, Good, AttemptInv
  <2>. QED
    BY <2>1, <2>2, NothingIsPromised, MovementFailedIsPromised
<1>5. CASE RecoverRunFailed
  <2>1. st' = st \/ (RunFailedOk(st) /\ st' = RunFailed(st))
    BY <1>5, StepOrNothing DEF RecoverRunFailed
  <2>. QED
    BY <2>1, NothingIsPromised, RunFailedIsPromised
<1>6. CASE RecoverQuestion \/ RecoverGate
  <2>1. st' = st \/ st' = QuestionRequested(st) \/ st' = GateRequested(st)
    BY <1>6, StepOrNothing DEF RecoverQuestion, RecoverGate
  <2>. QED
    BY <2>1, NothingIsPromised, DecisionsAreQuiet
<1>7. CASE RecoverCapture
  <2>1. st' = st \/ st' = ChangeSetRecorded(st)
    BY <1>7, AppendOrNothing DEF RecoverCapture
  <2>. QED
    BY <2>1, NothingIsPromised, AttemptsAreQuiet
<1>8. CASE RecoverVerify \/ RecoverAccept \/ RecoverEvaluation \/ RecoverComplete
  <2>1. \/ st' = st \/ st' = VerificationPassed(st) \/ st' = AcceptanceStarted(st)
        \/ st' = EvaluationCompleted(st, "none") \/ st' = AttemptCompleted(st)
    BY <1>8, StepOrNothing DEF RecoverVerify, RecoverAccept, RecoverEvaluation, RecoverComplete
  <2>. QED
    BY <2>1, NothingIsPromised, AttemptsAreQuiet
<1>9. CASE RecoverCriterion
  <2>1. st' = st \/ st' = CriterionCompleted(st, "ERROR")
    BY <1>9, AppendOrNothing DEF RecoverCriterion
  <2>. QED
    BY <2>1, NothingIsPromised, AttemptsAreQuiet
<1>10. CASE RecoverGateRejected
  <2>1. /\ Doing("gate_rejected")
        /\ st' = st \/ (/\ GateRejectedOk(st, todo.mov, todo.mov = Final)
                        /\ st' = GateRejected(st, todo.mov, todo.mov = Final))
    BY <1>10, StepOrNothing DEF RecoverGateRejected
  <2>2. todo.mov = st.att.mov /\ ~Terminal(st)
    BY <2>1, StepRelies DEF HeadOk, Resumes
  <2> DEFINE failed == st.att.mov = Final
  <2>3. failed \in BOOLEAN
    OBVIOUS
  <2>4. \/ st' = st
        \/ GateRejectedOk(st, st.att.mov, failed) /\ st' = GateRejected(st, st.att.mov, failed)
    BY <2>1, <2>2
  <2> HIDE DEF failed
  <2>. QED
    BY <2>2, <2>3, <2>4, NothingIsPromised, GateRejectedIsPromised
<1>11. CASE RecoverSucceeded
  <2>1. /\ Doing("succeed")
        /\ st' = st \/ (SucceededOk(todo.mov) /\ st' = Succeeded(todo.mov))
    BY <1>11, StepOrNothing DEF RecoverSucceeded
  <2>2. st' = st \/ todo.mov = st.att.mov
    BY <2>1 DEF SucceededOk, MovementSucceededOk
  <2>. QED
    BY <2>1, <2>2, NothingIsPromised, MovementSucceededIsPromised DEF SucceededOk, Succeeded
<1>. QED
  BY <1>1, <1>2, <1>3, <1>4, <1>5, <1>6, <1>7, <1>8, <1>9, <1>10, <1>11 DEF Recover

\* Every step is one the contract of a run provides for.
LEMMA StepsArePromised == ASSUME IInv, [Next]_vars PROVE Promised(st, st')
<1>. st \in Projections
  BY DEF IInv, Good
<1>1. CASE Drive
  BY <1>1, ScheduleIsPromised, ComposeIsPromised, AttemptIsPromised, AcceptanceIsPromised,
     RecoverIsPromised DEF Drive
<1>2. CASE Answer
  BY <1>2, DecisionsAreQuiet DEF Answer
<1>3. CASE Resolve
  BY <1>3, DecisionsAreQuiet DEF Resolve
<1>4. CASE Crash \/ DisturbTree \/ Resume \/ UNCHANGED vars
  BY <1>4, NothingIsPromised DEF Crash, DisturbTree, Resume
<1>. QED
  BY <1>1, <1>2, <1>3, <1>4 DEF Next

\* A movement that succeeds was verified, accepted, captured and approved before.
LEMMA SuccessFollowsGates ==
    ASSUME NEW m \in Movements, IInv, Promised(st, st'),
           st'.mov[m] = "SUCCEEDED", st.mov[m] # "SUCCEEDED"
    PROVE  /\ st.att.verified /\ st.att.evaluated /\ st.att.passed = Len(Criteria[m])
           /\ m \in Writers => st.att.changeSet
           /\ HumanGate[m] = "always" => st.att.gate = "approved"
<1>1. Stage(st', m) = "SUCCEEDED" /\ Stage(st, m) # "SUCCEEDED"
  BY DEF Stage
<1>2. PICK k \in Movements : /\ Besides(st, st', {k})
                             /\ \/ MovementBegins(st, st', k) \/ MovementSucceeds(st, st', k)
                                \/ MovementFails(st, st', k)
  BY <1>1 DEF Promised, SameOutcome, MovementMoves, CandidateIsRecorded, RunFails, Besides
<1>3. k = m
  BY <1>1, <1>2 DEF Besides
<1>4. st.att.mov = m /\ st.att.state = "COMPLETED"
  BY <1>1, <1>2, <1>3 DEF MovementBegins, MovementSucceeds, MovementFails
<1>5. AttemptInv(st) /\ st.att.passed \in Nat
  BY DEF IInv, Good, Projections, Attempts
<1>6. /\ st.att.evaluated /\ (GateRequired(st) => st.att.gate = "approved")
      /\ st.att.passed = Len(Criteria[m]) /\ st.att.accepting /\ st.att.verified
      /\ m \in Writers => st.att.changeSet
  BY <1>4, <1>5 DEF AttemptInv
<1>. QED
  BY <1>4, <1>6 DEF GateRequired

\* A movement succeeds only after its subject was verified, every criterion passed, its
\* change set was recorded and its human gate approved, whoever completed the attempt.
THEOREM SuccessesAreGated == Spec => SuccessIsGated
<1>1. IInv /\ [Next]_vars =>
        [\A m \in Movements : st'.mov[m] = "SUCCEEDED" /\ st.mov[m] # "SUCCEEDED" =>
            /\ st.att.verified /\ st.att.evaluated /\ st.att.passed = Len(Criteria[m])
            /\ m \in Writers => st.att.changeSet
            /\ HumanGate[m] = "always" => st.att.gate = "approved"]_vars
  BY StepsArePromised, SuccessFollowsGates
<1>. QED
  BY <1>1, ExecutionIsInductive, PTL DEF Spec, SuccessIsGated

(***************************************************************************)
(* Execution implements the contract of a run                              *)
(***************************************************************************)
Begun(s) == {m \in Movements : s.mov[m] \notin {"PENDING", "READY"}}
Won(s) == {m \in Movements : s.mov[m] = "SUCCEEDED"}
Lost(s) == {m \in Movements : s.mov[m] = "FAILED"}

\* A movement's stage says which of the three sets it is in.
LEMMA StagesAreSets ==
    ASSUME NEW s, NEW m \in Movements
    PROVE  /\ m \in Begun(s) <=> Stage(s, m) # "waiting"
           /\ m \in Won(s) <=> Stage(s, m) = "SUCCEEDED"
           /\ m \in Lost(s) <=> Stage(s, m) = "FAILED"
  BY DEF Begun, Won, Lost, Stage

\* Movements whose stage is kept stay in their sets.
LEMMA KeptSets ==
    ASSUME NEW s, NEW t, Besides(s, t, {})
    PROVE  Begun(t) = Begun(s) /\ Won(t) = Won(s) /\ Lost(t) = Lost(s)
<1>1. \A m \in Movements : Stage(t, m) = Stage(s, m)
  BY DEF Besides
<1>2. \A m \in Movements : /\ m \in Begun(t) <=> m \in Begun(s)
                           /\ m \in Won(t) <=> m \in Won(s)
                           /\ m \in Lost(t) <=> m \in Lost(s)
  BY <1>1, StagesAreSets
<1>. QED
  BY <1>2 DEF Begun, Won, Lost

\* The one movement that moves joins the sets of its new stage.
LEMMA MovedSets ==
    ASSUME NEW s, NEW t, NEW m \in Movements, Besides(s, t, {m})
    PROVE  /\ Stage(s, m) = "waiting" /\ Stage(t, m) = "begun" =>
                 Begun(t) = Begun(s) \cup {m} /\ Won(t) = Won(s) /\ Lost(t) = Lost(s)
           /\ Stage(s, m) = "begun" /\ Stage(t, m) = "SUCCEEDED" =>
                 Begun(t) = Begun(s) /\ Won(t) = Won(s) \cup {m} /\ Lost(t) = Lost(s)
           /\ Stage(s, m) = "begun" /\ Stage(t, m) = "FAILED" =>
                 Begun(t) = Begun(s) /\ Won(t) = Won(s) /\ Lost(t) = Lost(s) \cup {m}
<1>1. \A k \in Movements : k # m => Stage(t, k) = Stage(s, k)
  BY DEF Besides
<1>2. \A k \in Movements : k # m => /\ k \in Begun(t) <=> k \in Begun(s)
                                    /\ k \in Won(t) <=> k \in Won(s)
                                    /\ k \in Lost(t) <=> k \in Lost(s)
  BY <1>1, StagesAreSets
<1>3. /\ m \in Begun(s) <=> Stage(s, m) # "waiting"
      /\ m \in Won(s) <=> Stage(s, m) = "SUCCEEDED"
      /\ m \in Lost(s) <=> Stage(s, m) = "FAILED"
      /\ m \in Begun(t) <=> Stage(t, m) # "waiting"
      /\ m \in Won(t) <=> Stage(t, m) = "SUCCEEDED"
      /\ m \in Lost(t) <=> Stage(t, m) = "FAILED"
  BY StagesAreSets
<1>4. \A S \in {Begun(s), Won(s), Lost(s), Begun(t), Won(t), Lost(t)} : S \subseteq Movements
  BY DEF Begun, Won, Lost
<1>. QED
  BY <1>2, <1>3, <1>4

\* The step of the contract that a promised step is.
LEMMA PromisesAreKept ==
    ASSUME Promised(st, st')
    PROVE  [Contract!Next]_(Contract!contract)
<1> USE DEF Contract!Movements, Movements
<1>1. CASE SameOutcome(st, st')
  <2>1. /\ Begun(st') = Begun(st) /\ Won(st') = Won(st) /\ Lost(st') = Lost(st)
        /\ Ended(st') = Ended(st) /\ st'.candidate = st.candidate
    BY <1>1, KeptSets DEF SameOutcome
  <2>. QED
    BY <2>1 DEF Contract!contract, Begun, Won, Lost, Ended
<1>2. CASE MovementMoves(st, st')
  <2>1. PICK m \in Movements :
           /\ Besides(st, st', {m}) /\ st'.candidate = st.candidate
           /\ \/ MovementBegins(st, st', m) \/ MovementSucceeds(st, st', m)
              \/ MovementFails(st, st', m)
    BY <1>2 DEF MovementMoves
  <2>2. CASE MovementBegins(st, st', m)
    <3>1. /\ Begun(st') = Begun(st) \cup {m} /\ Won(st') = Won(st) /\ Lost(st') = Lost(st)
          /\ m \notin Begun(st) /\ Needs[m] \subseteq Won(st)
      BY <2>1, <2>2, MovedSets, StagesAreSets, NeedsAreMovements DEF MovementBegins
    <3>2. Contract!StartMovement(m)
      BY <2>1, <2>2, <3>1 DEF Contract!StartMovement, MovementBegins, Begun, Won, Lost, Ended
    <3>. QED
      BY <3>2 DEF Contract!Next
  <2>3. CASE MovementSucceeds(st, st', m)
    <3>1. /\ Begun(st') = Begun(st) /\ Won(st') = Won(st) \cup {m} /\ Lost(st') = Lost(st)
          /\ m \in Begun(st) \ (Won(st) \cup Lost(st))
      BY <2>1, <2>3, MovedSets, StagesAreSets DEF MovementSucceeds
    <3>2. Contract!SucceedMovement(m)
      BY <2>1, <2>3, <3>1 DEF Contract!SucceedMovement, MovementSucceeds, Begun, Won, Lost, Ended
    <3>. QED
      BY <3>2 DEF Contract!Next
  <2>4. CASE MovementFails(st, st', m)
    <3>1. /\ Begun(st') = Begun(st) /\ Won(st') = Won(st) /\ Lost(st') = Lost(st) \cup {m}
          /\ m \in Begun(st) \ (Won(st) \cup Lost(st))
      BY <2>1, <2>4, MovedSets, StagesAreSets DEF MovementFails
    <3>2. Contract!FailMovement(m)
      BY <2>1, <2>4, <3>1 DEF Contract!FailMovement, MovementFails, Begun, Won, Lost, Ended
    <3>. QED
      BY <3>2 DEF Contract!Next
  <2>. QED
    BY <2>1, <2>2, <2>3, <2>4
<1>3. CASE CandidateIsRecorded(st, st')
  <2>1. Begun(st') = Begun(st) /\ Won(st') = Won(st) /\ Lost(st') = Lost(st)
    BY <1>3, KeptSets DEF CandidateIsRecorded
  <2>2. CASE Ended(st') = "OPEN" /\ ~st.candidate /\ WritersSucceeded(st)
    <3>1. Writers \subseteq Won(st)
      BY <2>2, ScoreAssumption DEF WritersSucceeded, Won
    <3>2. Contract!RecordCandidate
      BY <1>3, <2>1, <2>2, <3>1
         DEF Contract!RecordCandidate, CandidateIsRecorded, Begun, Won, Lost, Ended
    <3>. QED
      BY <3>2 DEF Contract!Next
  <2>3. CASE Ended(st') = "SUCCEEDED" /\ GateWaived /\ WaivedCompletion(st)
    <3>1. Won(st) = Movements
      BY <2>3 DEF WaivedCompletion, Won
    <3>2. Contract!SucceedWaived
      BY <1>3, <2>1, <2>3, <3>1
         DEF Contract!SucceedWaived, CandidateIsRecorded, GateWaived, Begun, Won, Lost, Ended
    <3>. QED
      BY <3>2 DEF Contract!Next
  <2>. QED
    BY <1>3, <2>2, <2>3 DEF CandidateIsRecorded
<1>4. CASE RunFails(st, st')
  <2>1. Begun(st') = Begun(st) /\ Won(st') = Won(st) /\ Lost(st') = Lost(st)
    BY <1>4, KeptSets DEF RunFails
  <2>2. Contract!FailRun
    BY <1>4, <2>1 DEF Contract!FailRun, RunFails, Begun, Won, Lost, Ended
  <2>. QED
    BY <2>2 DEF Contract!Next
<1>. QED
  BY <1>1, <1>2, <1>3, <1>4 DEF Promised

\* However it is interrupted, recovered and answered, a run keeps its contract: movements
\* start after what they need and end once, and the run ends once, successfully only when
\* all its parts did.
THEOREM ExecutionImplementsContract == Spec => ImplementsContract
<1>1. Init => Contract!Init
  <2> SUFFICES ASSUME Init PROVE Contract!Init
    OBVIOUS
  <2>1. /\ st.run = "RUNNING" /\ st.candidate = FALSE
        /\ \A m \in Movements : st.mov[m] = "PENDING"
    BY DEF Init, InitialProjection
  <2>. QED
    BY <2>1 DEF Contract!Init, Terminal
<1>2. IInv /\ [Next]_vars => [Contract!Next]_(Contract!contract)
  BY StepsArePromised, PromisesAreKept
<1>. QED
  BY <1>1, <1>2, ExecutionIsInductive, PTL DEF Spec, ImplementsContract, Contract!Spec
====
