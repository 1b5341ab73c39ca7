------------------------------- MODULE Session -------------------------------
(***************************************************************************)
(* One adapter session: the gated launch through the trampoline, the wire  *)
(* protocol between the client and an adapter served by the adapter kit,   *)
(* the end of the session and what is journaled of it, and what a later    *)
(* recovery finds.  A validation probe is the same wire without a launch   *)
(* gate and without a journal.                                             *)
(*                                                                         *)
(* Frames are strings: "probe", "execute" and "cancel" are requests;       *)
(* "probe", "ack", the events and the results are answers; "bad" is a      *)
(* frame no reader accepts.  Each action of the client is one return of    *)
(* one of its selects, so the order in which signals arrive is free.       *)
(***************************************************************************)
EXTENDS Naturals, Sequences

CONSTANTS
    MaxEvents,      \* adapterkit.MaxEventsPerAttempt
    MaxOut,         \* frames the adapter's output pipe holds
    Jobs            \* calls explored: "execute", "probe" or both

ASSUME SessionAssumption ==
    MaxEvents \in Nat \ {0} /\ MaxOut \in Nat \ {0} /\ Jobs \subseteq {"execute", "probe"}

VARIABLES
    job,        \* Client.execute, or probeOne of validate
    pc,         \* where the client is; "crashed" when its process died
    call,       \* what the call holds: error, result, verdict, counters
    journal,    \* what the run's journal says of this session
    sig,        \* cancellation, context, probe deadline, cancel grace
    proc,       \* the session: leader, exit code, handoff files, gate, descendants
    wire,       \* the pipes between client and adapter
    adapter,    \* serveContext and its handler
    rec         \* what a later recovery made of the session

vars == <<job, pc, call, journal, sig, proc, wire, adapter, rec>>

Events == {"note", "artifact", "question"}
Results == {"completed", "failed", "waiting", "cancelled"}
Answers == {"probe", "ack", "bad"} \cup Events \cup Results
Stages == <<"started", "marked", "named", "locked", "published", "ready">>
Trampoline == {Stages[i] : i \in DOMAIN Stages}

Init ==
    /\ job \in Jobs /\ pc = "launch" /\ rec = "none"
    /\ call = [err |-> "none", result |-> "none", verdict |-> "none",
               asked |-> FALSE, acked |-> FALSE, count |-> 0, blocking |-> 0]
    /\ journal = [identity |-> FALSE, probed |-> FALSE, stopped |-> FALSE, outcome |-> "none"]
    /\ sig = [cancel |-> FALSE, ctx |-> FALSE, timer |-> "armed", grace |-> "off"]
    /\ proc = [leader |-> "none", code |-> 0, files |-> "none", gate |-> "shut", kids |-> "none"]
    /\ wire = [inp |-> <<>>, eof |-> FALSE, out |-> <<>>]
    /\ adapter = [handler |-> "none", emitted |-> 0, raised |-> 0, faulty |-> FALSE]

SessionEmpty == proc.leader \in {"none", "gone"} /\ proc.kids = "none"
LockHeld == proc.leader \in {"locked", "published", "ready", "exec", "closed"}

\* The pipe ends close when no process of the session holds them any more.
Writing == proc.leader \in Trampoline \cup {"exec"}
OutEOF == wire.out = <<>> /\ ~Writing /\ proc.kids # "stdout"
StderrDone == ~Writing /\ proc.kids \notin {"stdout", "stderr"}

\* sweepSession signals until the session is verified empty.
Swept == [proc EXCEPT !.leader = "gone", !.kids = "none"]

Returns(err) == pc' = "returned" /\ call' = [call EXCEPT !.err = err]

(***************************************************************************)
(* launch                                                                  *)
(***************************************************************************)
\* The launch context ends with the caller's, at the probe deadline, or on cancel.
LaunchCancelled == sig.cancel \/ sig.ctx \/ sig.timer = "expired"
LaunchLive == ~sig.ctx /\ sig.timer = "armed"

LaunchUnchanged == UNCHANGED <<job, sig, wire, adapter, rec>>

StartTrampoline ==
    /\ job = "execute" /\ pc = "launch" /\ pc' = "ready"
    /\ proc' = [proc EXCEPT !.leader = "started"]
    /\ UNCHANGED <<call, journal>> /\ LaunchUnchanged

StartFails ==
    /\ pc = "launch" /\ Returns("failed")
    /\ UNCHANGED <<journal, proc>> /\ LaunchUnchanged

\* Closing the gate unreleased lets the trampoline exit; the client reaps it.
CloseGate == pc' = "reap" /\ proc' = [proc EXCEPT !.gate = "closed"]

HandoffCancelled ==
    /\ pc = "ready" /\ LaunchCancelled /\ Returns("failed")
    /\ proc' = [proc EXCEPT !.leader = "gone", !.gate = "closed"]
    /\ UNCHANGED journal /\ LaunchUnchanged

HandoffReady ==
    /\ pc = "ready" /\ proc.leader = "ready" /\ LaunchLive /\ pc' = "journal"
    /\ UNCHANGED <<call, journal, proc>> /\ LaunchUnchanged

\* No ready byte, an identity that is not the trampoline's, or a dead trampoline.
HandoffFails ==
    /\ pc = "ready" /\ proc.leader \in {"ready", "gone"}
    /\ proc.leader = "gone" \/ LaunchCancelled
    /\ CloseGate
    /\ UNCHANGED <<call, journal>> /\ LaunchUnchanged

RecordIdentity ==
    /\ pc = "journal" /\ pc' = "gate" /\ journal' = [journal EXCEPT !.identity = TRUE]
    /\ UNCHANGED <<call, proc>> /\ LaunchUnchanged

\* The append may have become durable before it failed.
RecordIdentityFails ==
    /\ pc = "journal" /\ CloseGate
    /\ \E durable \in BOOLEAN : journal' = [journal EXCEPT !.identity = durable]
    /\ UNCHANGED call /\ LaunchUnchanged

ReleaseBeforeRecord ==
    /\ pc \in {"journal", "gate"} /\ proc.leader = "ready" /\ LaunchLive
    /\ proc' = [proc EXCEPT !.gate = "released"]
    /\ pc' = "probe_write"
    /\ UNCHANGED <<call, journal>> /\ LaunchUnchanged

ReleaseGate ==
    /\ pc = "gate" /\ proc.leader = "ready" /\ LaunchLive
    /\ proc' = [proc EXCEPT !.gate = "released"]
    /\ pc' = "probe_write"
    /\ UNCHANGED <<call, journal>> /\ LaunchUnchanged

\* The byte is out but the gate does not close: the program runs, unsupervised.
ReleaseUnclosed ==
    /\ pc = "gate" /\ proc.leader = "ready" /\ LaunchLive
    /\ proc' = [proc EXCEPT !.gate = "released"]
    /\ Returns("released") /\ wire' = [wire EXCEPT !.eof = TRUE]
    /\ UNCHANGED <<job, journal, sig, adapter, rec>>

ReleaseFails ==
    /\ pc = "gate" /\ (LaunchCancelled \/ proc.leader = "gone") /\ CloseGate
    /\ UNCHANGED <<call, journal>> /\ LaunchUnchanged

Reap ==
    /\ pc = "reap" /\ proc.leader = "gone" /\ Returns("failed")
    /\ UNCHANGED <<journal, proc>> /\ LaunchUnchanged

(***************************************************************************)
(* RunTrampoline                                                           *)
(***************************************************************************)
TrampolineUnchanged == UNCHANGED <<job, pc, call, journal, sig, wire, adapter, rec>>

TrampolineStep(from, to, files) ==
    /\ proc.leader = from /\ proc' = [proc EXCEPT !.leader = to, !.files = files]
    /\ TrampolineUnchanged

CreateMarker == TrampolineStep("started", "marked", "empty")
WriteNonce == TrampolineStep("marked", "named", "nonce")
LockMarker == TrampolineStep("named", "locked", "nonce")
PublishIdentity == TrampolineStep("locked", "published", "identity")

\* The ready byte needs a reader.
SendReady == TrampolineStep("published", IF pc = "ready" THEN "ready" ELSE "gone", "identity")

TrampolineDies ==
    /\ proc.leader \in Trampoline
    /\ proc' = [proc EXCEPT !.leader = "gone", !.code = 1] /\ TrampolineUnchanged

ReadGate ==
    /\ proc.leader = "ready" /\ proc.gate # "shut"
    /\ proc' = [proc EXCEPT !.leader = IF proc.gate = "released" THEN "exec" ELSE "gone"]
    /\ TrampolineUnchanged

(***************************************************************************)
(* The adapter: serveContext, its handler, and the processes it starts     *)
(***************************************************************************)
AdapterUnchanged == UNCHANGED <<job, pc, call, journal, sig, rec>>
Serving == proc.leader = "exec"
CanWrite == Len(wire.out) < MaxOut
Request(frame) == Serving /\ wire.inp # <<>> /\ Head(wire.inp) = frame
Taken == [wire EXCEPT !.inp = Tail(@)]
Says(w, frame) == wire' = [w EXCEPT !.out = Append(@, frame)]

\* A handler whose probe fails answers with an error response.
ServeProbe ==
    /\ Request("probe") /\ CanWrite
    /\ \E frame \in {"probe", "bad"} : Says(Taken, frame)
    /\ UNCHANGED <<proc, adapter>> /\ AdapterUnchanged

ServeExecute ==
    /\ Request("execute") /\ wire' = Taken
    /\ adapter' = [adapter EXCEPT !.handler = "running"]
    /\ UNCHANGED proc /\ AdapterUnchanged

\* A cancel is acknowledged whether or not a handler is still running.
ServeCancel ==
    /\ Request("cancel") /\ CanWrite /\ Says(Taken, "ack")
    /\ adapter' = [adapter EXCEPT !.handler = IF @ = "none" THEN @ ELSE "cancelled"]
    /\ UNCHANGED proc /\ AdapterUnchanged

\* The end of stdin cancels the handler; with none running the adapter exits.
ServeEOF ==
    /\ Serving /\ wire.inp = <<>> /\ wire.eof /\ adapter.handler # "cancelled"
    /\ IF adapter.handler = "none"
       THEN proc' = [proc EXCEPT !.leader = "gone"] /\ UNCHANGED adapter
       ELSE adapter' = [adapter EXCEPT !.handler = "cancelled"] /\ UNCHANGED proc
    /\ UNCHANGED wire /\ AdapterUnchanged

Handling == Serving /\ adapter.handler # "none" /\ CanWrite

EmitsUnlimited ==
    /\ Handling /\ Says(wire, "note") /\ adapter' = [adapter EXCEPT !.emitted = @ + 1]
    /\ UNCHANGED proc /\ AdapterUnchanged

HandlerEmits ==
    /\ Handling /\ adapter.emitted < MaxEvents
    /\ \E event \in Events :
          /\ Says(wire, event)
          /\ adapter' = [adapter EXCEPT !.emitted = @ + 1,
                                        !.raised = IF event = "question" THEN @ + 1 ELSE @]
    /\ UNCHANGED proc /\ AdapterUnchanged

\* The sink refuses an event past the limit, and the result becomes a failure.
HandlerRefused ==
    /\ Handling /\ adapter.emitted = MaxEvents /\ Says(wire, "failed")
    /\ adapter' = [adapter EXCEPT !.handler = "none", !.faulty = TRUE]
    /\ UNCHANGED proc /\ AdapterUnchanged

\* The tool is missing, or was cancelled before it wrote a result.
HandlerAborts ==
    /\ Handling /\ adapter.raised = 0
    /\ \E frame \in {"failed", "cancelled"} : Says(wire, frame)
    /\ adapter' = [adapter EXCEPT !.handler = "none"]
    /\ UNCHANGED proc /\ AdapterUnchanged

\* CollectResult: what the tool left in its output directory.
HandlerCompletes ==
    /\ Handling
    /\ \E frame \in IF adapter.raised > 0 THEN {"waiting"} ELSE {"completed", "failed"} :
          Says(wire, frame)
    /\ adapter' = [adapter EXCEPT !.handler = "none"]
    /\ UNCHANGED proc /\ AdapterUnchanged

\* What the client must survive: any frame at any time, silence, and death.
AdapterMisbehaves ==
    /\ Serving /\ ~adapter.faulty /\ adapter' = [adapter EXCEPT !.faulty = TRUE]
    /\ \/ CanWrite /\ \E frame \in Answers : Says(wire, frame) /\ UNCHANGED proc
       \/ proc' = [proc EXCEPT !.leader = "closed"] /\ UNCHANGED wire
    /\ AdapterUnchanged

AdapterDies ==
    /\ proc.leader \in {"exec", "closed"}
    /\ proc' = [proc EXCEPT !.leader = "gone", !.code = 1]
    /\ adapter' = [adapter EXCEPT !.faulty = TRUE]
    /\ UNCHANGED wire /\ AdapterUnchanged

\* A descendant of the same session may keep the pipes, or only stderr, open.
SpawnKid ==
    /\ proc.leader = "exec" /\ proc.kids = "none"
    /\ \E kids \in {"quiet", "stderr", "stdout"} : proc' = [proc EXCEPT !.kids = kids]
    /\ UNCHANGED <<wire, adapter>> /\ AdapterUnchanged

KidExits ==
    /\ proc.kids # "none" /\ proc' = [proc EXCEPT !.kids = "none"]
    /\ UNCHANGED <<wire, adapter>> /\ AdapterUnchanged

(***************************************************************************)
(* Client.execute                                                          *)
(***************************************************************************)
ClientUnchanged == UNCHANGED <<job, journal, proc, adapter, rec>>

\* Every way out that is not a clean end closes stdin and sweeps the session.
StopWith(c) == pc' = "stop" /\ call' = c /\ wire' = [wire EXCEPT !.eof = TRUE]
Abandon == StopWith([call EXCEPT !.verdict = "none"])
FinishFailure(kind) == StopWith([call EXCEPT !.result = "none", !.verdict = kind])

\* The first sight of a cancellation starts the grace that bounds the rest.
Unobserved == sig.cancel /\ sig.grace = "off"
Observed == [sig EXCEPT !.grace = IF sig.cancel /\ @ = "off" THEN "on" ELSE @]

Write(frame, then) ==
    /\ proc.leader # "gone" /\ pc' = then /\ wire' = [wire EXCEPT !.inp = Append(@, frame)]

Frame == wire.out # <<>>
Next1 == Head(wire.out)
Read == wire' = [wire EXCEPT !.out = Tail(@)]
StopReading(c) == pc' = "stop" /\ call' = c /\ wire' = [wire EXCEPT !.eof = TRUE, !.out = Tail(@)]

WriteProbe ==
    /\ pc = "probe_write" /\ sig.timer = "armed" /\ Write("probe", "probe_wait")
    /\ UNCHANGED <<call, sig>> /\ ClientUnchanged

\* A broken pipe, the deadline, a cancellation or the context ends the probe.
ProbeFails ==
    /\ pc \in {"probe_write", "probe_wait"}
    /\ \/ pc = "probe_write" /\ proc.leader = "gone"
       \/ pc = "probe_wait" /\ OutEOF
       \/ pc = "probe_wait" /\ job = "probe" /\ proc.leader = "gone" /\ proc.code # 0
       \/ sig.timer = "expired"
       \/ job = "execute" /\ (Unobserved \/ sig.ctx)
    /\ Abandon /\ sig' = IF job = "execute" THEN Observed ELSE sig
    /\ ClientUnchanged

ProbeRejected ==
    /\ pc = "probe_wait" /\ Frame /\ Next1 # "probe" /\ StopReading(call)
    /\ UNCHANGED sig /\ ClientUnchanged

RecordProbe ==
    /\ job = "execute" /\ pc = "probe_wait" /\ Frame /\ Next1 = "probe"
    /\ journal' = [journal EXCEPT !.probed = TRUE] /\ sig' = [sig EXCEPT !.timer = "stopped"]
    /\ pc' = "execute_write" /\ Read
    /\ UNCHANGED <<job, call, proc, adapter, rec>>

RecordProbeFails ==
    /\ job = "execute" /\ pc = "probe_wait" /\ Frame /\ Next1 = "probe" /\ StopReading(call)
    /\ UNCHANGED sig /\ ClientUnchanged

WriteExecute ==
    /\ pc = "execute_write" /\ Write("execute", "await")
    /\ UNCHANGED <<call, sig>> /\ ClientUnchanged

ExecuteUnwritable ==
    /\ pc = "execute_write" /\ proc.leader = "gone" /\ FinishFailure("adapter_unavailable")
    /\ UNCHANGED sig /\ ClientUnchanged

\* Nothing was asked of the adapter yet, so there is nothing to cancel.
ExecuteAborted ==
    /\ pc = "execute_write" /\ (Unobserved \/ sig.ctx) /\ Abandon /\ sig' = Observed
    /\ ClientUnchanged

ConsumeEvent ==
    /\ pc = "await" /\ Frame /\ Next1 \in Events
    /\ LET c == [call EXCEPT !.count = @ + 1,
                             !.blocking = IF Next1 = "question" THEN @ + 1 ELSE @]
       IN  IF c.count > MaxEvents
           THEN StopReading([c EXCEPT !.verdict = "protocol_error"])
           ELSE call' = c /\ Read /\ UNCHANGED pc
    /\ UNCHANGED sig /\ ClientUnchanged

\* artifact.recorded cannot be appended.
RecordFails ==
    /\ pc = "await" /\ Frame /\ Next1 = "artifact" /\ StopReading(call)
    /\ UNCHANGED sig /\ ClientUnchanged

\* execution.elapsed_checkpointed cannot be appended.
CheckpointFails ==
    pc = "await" /\ Abandon /\ UNCHANGED sig /\ ClientUnchanged

ConsumeAck ==
    /\ pc = "await" /\ Frame /\ Next1 = "ack"
    /\ IF call.asked /\ ~call.acked
       THEN call' = [call EXCEPT !.acked = TRUE] /\ Read /\ UNCHANGED pc
       ELSE StopReading([call EXCEPT !.verdict = "protocol_error"])
    /\ UNCHANGED sig /\ ClientUnchanged

\* The result's pending decisions are the blocking events, and nothing else waits.
ValidBlocking(result) == (call.blocking > 0) <=> (result = "waiting")

ConsumeResult ==
    /\ pc = "await" /\ Frame /\ Next1 \in Results
    /\ IF ValidBlocking(Next1)
       THEN /\ pc' = "drain" /\ call' = [call EXCEPT !.result = Next1]
            /\ wire' = [wire EXCEPT !.eof = TRUE, !.out = Tail(@)]
       ELSE StopReading([call EXCEPT !.verdict = "protocol_error"])
    /\ UNCHANGED sig /\ ClientUnchanged

StdinUnclosable ==
    /\ pc = "await" /\ Frame /\ Next1 \in Results /\ ValidBlocking(Next1)
    /\ StopReading([call EXCEPT !.verdict = "adapter_unavailable"])
    /\ UNCHANGED sig /\ ClientUnchanged

Undecodable ==
    /\ pc = "await" /\ Frame /\ Next1 \in {"bad", "probe"}
    /\ StopReading([call EXCEPT !.verdict = "protocol_error"])
    /\ UNCHANGED sig /\ ClientUnchanged

EndsWithoutResult ==
    /\ pc = "await" /\ OutEOF /\ FinishFailure("adapter_unavailable")
    /\ UNCHANGED sig /\ ClientUnchanged

ObserveBeforeResultOnly ==
    /\ Unobserved /\ pc = "await" /\ sig' = Observed /\ pc' = "cancel_write"
    /\ UNCHANGED <<call, wire>> /\ ClientUnchanged

ObserveCancellation ==
    /\ Unobserved /\ pc \in {"await", "drain", "stderr", "wait"} /\ sig' = Observed
    /\ pc' = IF pc = "await" THEN "cancel_write" ELSE pc
    /\ UNCHANGED <<call, wire>> /\ ClientUnchanged

WriteCancel ==
    /\ pc = "cancel_write" /\ Write("cancel", "await") /\ call' = [call EXCEPT !.asked = TRUE]
    /\ UNCHANGED sig /\ ClientUnchanged

CancelUnwritable ==
    /\ pc = "cancel_write" /\ proc.leader = "gone" /\ FinishFailure("none")
    /\ UNCHANGED sig /\ ClientUnchanged

\* The grace of a cancellation, or the caller's context, ends any wait.
Interrupted ==
    /\ pc \in {"await", "cancel_write", "drain", "stderr", "wait"}
    /\ \/ sig.grace = "expired" /\ FinishFailure("none")
       \/ sig.ctx /\ Abandon
    /\ UNCHANGED sig /\ ClientUnchanged

NothingOwed == FALSE

\* After the result only the one acknowledgement still owed may arrive.
AckOwed == Next1 = "ack" /\ call.asked /\ ~call.acked

DrainFrame ==
    /\ pc = "drain" /\ Frame
    /\ IF AckOwed
       THEN call' = [call EXCEPT !.acked = TRUE] /\ Read /\ UNCHANGED pc
       ELSE StopReading([call EXCEPT !.result = "none", !.verdict = "protocol_error"])
    /\ UNCHANGED sig /\ ClientUnchanged

DrainEnds ==
    /\ pc = "drain" /\ OutEOF
    /\ IF call.asked /\ ~call.acked
       THEN FinishFailure("none")
       ELSE pc' = "stderr" /\ UNCHANGED <<call, wire>>
    /\ UNCHANGED sig /\ ClientUnchanged

StderrDrained ==
    /\ pc = "stderr" /\ StderrDone /\ pc' = "wait"
    /\ UNCHANGED <<call, sig, wire>> /\ ClientUnchanged

WaitEnds ==
    /\ pc = "wait" /\ proc.leader = "gone"
    /\ IF proc.code = 0 THEN pc' = "verify" /\ UNCHANGED <<call, wire>>
                        ELSE FinishFailure("adapter_unavailable")
    /\ UNCHANGED sig /\ ClientUnchanged

(***************************************************************************)
(* The end of the call: sweep, then journal                                *)
(***************************************************************************)
EndUnchanged == UNCHANGED <<job, sig, wire, adapter, rec>>

\* A durable cancellation silences every terminal record, whenever it arrives.
TerminalRecordingSuppressed == sig.cancel

\* A failure with nothing to record returns; the others go on to the journal.
StopExecute ==
    /\ pc = "stop" /\ proc' = Swept
    /\ IF call.verdict = "none" THEN Returns("failed") ELSE pc' = "record_stop" /\ UNCHANGED call
    /\ UNCHANGED journal /\ EndUnchanged

ExitIsEmpty ==
    /\ pc = "verify" /\ pc' = "record_stop"
    /\ UNCHANGED <<call, journal, proc>> /\ EndUnchanged

VerifyAndSweep ==
    /\ pc = "verify" /\ proc' = Swept /\ pc' = "record_stop"
    /\ UNCHANGED <<call, journal>> /\ EndUnchanged

SweepUnverifiable ==
    /\ pc \in {"stop", "verify", "probe_verify"} /\ Returns("halted")
    /\ UNCHANGED <<journal, proc>> /\ EndUnchanged

SuppressedResultKept ==
    /\ pc \in {"record_stop", "record_outcome"} /\ TerminalRecordingSuppressed
    /\ Returns("none")
    /\ UNCHANGED <<journal, proc>> /\ EndUnchanged

\* A failure cancelled before its stop is recorded may still return its cause.
RecordSuppressed ==
    /\ pc \in {"record_stop", "record_outcome"} /\ TerminalRecordingSuppressed
    /\ \E err \in {"none"} \cup {v \in {"failed"} : pc = "record_stop" /\ call.verdict # "none"} :
          /\ pc' = "returned" /\ call' = [call EXCEPT !.err = err, !.result = "none"]
    /\ UNCHANGED <<journal, proc>> /\ EndUnchanged

RecordStop ==
    /\ pc = "record_stop" /\ ~TerminalRecordingSuppressed
    /\ journal' = [journal EXCEPT !.stopped = TRUE] /\ pc' = "record_outcome"
    /\ UNCHANGED <<call, proc>> /\ EndUnchanged

\* An unsolicited "cancelled" is recorded as a failure of the task.
Outcome ==
    CASE call.verdict # "none" -> call.verdict
      [] call.result = "cancelled" -> "failed"
      [] OTHER -> call.result

RecordOutcome ==
    /\ pc = "record_outcome" /\ ~TerminalRecordingSuppressed
    /\ journal' = [journal EXCEPT !.outcome = Outcome] /\ pc' = "finish"
    /\ UNCHANGED <<call, proc>> /\ EndUnchanged

AppendFails ==
    /\ pc \in {"record_stop", "record_outcome"} /\ ~TerminalRecordingSuppressed
    /\ Returns("failed")
    /\ \/ UNCHANGED journal
       \/ pc = "record_stop" /\ journal' = [journal EXCEPT !.stopped = TRUE]
       \/ pc = "record_outcome" /\ journal' = [journal EXCEPT !.outcome = Outcome]
    /\ UNCHANGED proc /\ EndUnchanged

\* A cancellation that arrives this late still takes the result from the caller.
Finish ==
    /\ pc = "finish" /\ pc' = "returned"
    /\ call' = [call EXCEPT !.result = IF TerminalRecordingSuppressed THEN "none" ELSE @]
    /\ UNCHANGED <<journal, proc>> /\ EndUnchanged

(***************************************************************************)
(* probeOne: the same wire under one deadline, with nothing journaled      *)
(***************************************************************************)
StartProbe ==
    /\ job = "probe" /\ pc = "launch" /\ pc' = "probe_write"
    /\ proc' = [proc EXCEPT !.leader = "exec"]
    /\ UNCHANGED <<call, journal>> /\ EndUnchanged

\* Without its start identity the process cannot be swept, only left its EOF.
StartUnidentified ==
    /\ job = "probe" /\ pc = "launch" /\ Returns("halted")
    /\ \E leader \in {"exec", "gone"} : proc' = [proc EXCEPT !.leader = leader]
    /\ wire' = [wire EXCEPT !.eof = TRUE]
    /\ UNCHANGED <<job, journal, sig, adapter, rec>>

ProbeAnswered ==
    /\ job = "probe" /\ pc = "probe_wait" /\ Frame /\ Next1 = "probe" /\ pc' = "probe_drain"
    /\ wire' = [wire EXCEPT !.eof = TRUE, !.out = Tail(@)]
    /\ UNCHANGED <<call, sig>> /\ ClientUnchanged

ProbeDrainFails ==
    /\ pc = "probe_drain"
    /\ Frame \/ sig.timer = "expired" \/ (proc.leader = "gone" /\ proc.code # 0)
    /\ Abandon /\ UNCHANGED sig /\ ClientUnchanged

ProbeDrained ==
    /\ pc = "probe_drain" /\ OutEOF /\ proc.leader = "gone" /\ proc.code = 0
    /\ pc' = "probe_stderr"
    /\ UNCHANGED <<call, sig, wire>> /\ ClientUnchanged

ProbeStderrDrained ==
    /\ pc = "probe_stderr" /\ StderrDone /\ pc' = "probe_verify"
    /\ UNCHANGED <<call, sig, wire>> /\ ClientUnchanged

\* A descendant that survived the clean exit is swept and fails the probe.
VerifyProbe ==
    /\ pc = "probe_verify" /\ proc' = Swept /\ pc' = "returned"
    /\ call' = IF SessionEmpty THEN [call EXCEPT !.result = "probe"]
                               ELSE [call EXCEPT !.err = "failed"]
    /\ UNCHANGED journal /\ EndUnchanged

(***************************************************************************)
(* Recovery, in a later process                                            *)
(***************************************************************************)
Recoverable ==
    job = "execute" /\ pc \in {"returned", "crashed"} /\ journal.outcome = "none" /\ rec # "settled"

RecoverUnchanged == UNCHANGED <<job, pc, call, journal, sig, wire, adapter>>

SweepLeaderOnly ==
    /\ Recoverable /\ (journal.identity \/ proc.files = "identity")
    /\ proc' = [proc EXCEPT !.leader = "gone"] /\ rec' = "settled"
    /\ RecoverUnchanged

\* A journaled identity names the session to sweep; so does a published one.
SweepRecordedSession ==
    /\ Recoverable /\ (journal.identity \/ proc.files = "identity")
    /\ \/ proc' = Swept /\ rec' = "settled"
       \/ UNCHANGED proc /\ rec' = "unswept"
    /\ RecoverUnchanged

HandoffFree == proc.files = "none" \/ (proc.files = "nonce" /\ ~LockHeld)

\* No marker, or a marker nobody holds: no released program survives.
StabilizeHandoff ==
    /\ Recoverable /\ ~journal.identity /\ HandoffFree
    /\ rec' = "settled"
    /\ UNCHANGED proc /\ RecoverUnchanged

\* A marker still held at the deadline, or one that holds no nonce.
HandoffUnverifiable ==
    /\ Recoverable /\ ~journal.identity /\ proc.files # "identity" /\ ~HandoffFree
    /\ rec' = "unverifiable"
    /\ UNCHANGED proc /\ RecoverUnchanged

(***************************************************************************)
(* The environment                                                         *)
(***************************************************************************)
EnvUnchanged == UNCHANGED <<job, call, journal, adapter, rec>>
Calling == pc \notin {"returned", "crashed"}

RequestCancel ==
    /\ job = "execute" /\ Calling /\ ~sig.cancel /\ sig' = [sig EXCEPT !.cancel = TRUE]
    /\ UNCHANGED <<pc, proc, wire>> /\ EnvUnchanged

ContextEnds ==
    /\ job = "execute" /\ Calling /\ ~sig.ctx /\ sig' = [sig EXCEPT !.ctx = TRUE]
    /\ UNCHANGED <<pc, proc, wire>> /\ EnvUnchanged

ProbeDeadline ==
    /\ Calling /\ sig.timer = "armed" /\ sig' = [sig EXCEPT !.timer = "expired"]
    /\ UNCHANGED <<pc, proc, wire>> /\ EnvUnchanged

GraceExpires ==
    /\ Calling /\ sig.grace = "on" /\ sig' = [sig EXCEPT !.grace = "expired"]
    /\ UNCHANGED <<pc, proc, wire>> /\ EnvUnchanged

\* The client's death closes the gate and the adapter's stdin.
Crash ==
    /\ Calling /\ pc' = "crashed" /\ wire' = [wire EXCEPT !.eof = TRUE]
    /\ proc' = [proc EXCEPT !.gate = IF @ = "shut" THEN "closed" ELSE @]
    /\ UNCHANGED sig /\ EnvUnchanged

(***************************************************************************)
(* The system                                                              *)
(***************************************************************************)
\* A blocked write, a failed append and a failed sweep are not forced to happen.
Blocking == WriteProbe \/ WriteExecute \/ WriteCancel
Failing ==
    \/ StartFails \/ RecordIdentityFails \/ ReleaseUnclosed \/ RecordProbeFails \/ RecordFails
    \/ CheckpointFails
    \/ StdinUnclosable \/ AppendFails \/ SweepUnverifiable \/ StartUnidentified
Working ==
    \/ StartTrampoline \/ HandoffCancelled \/ HandoffReady \/ HandoffFails \/ RecordIdentity
    \/ ReleaseGate \/ ReleaseFails \/ Reap
    \/ ProbeFails \/ ProbeRejected \/ RecordProbe \/ ExecuteUnwritable \/ ExecuteAborted
    \/ ConsumeEvent \/ ConsumeAck \/ ConsumeResult \/ Undecodable \/ EndsWithoutResult
    \/ ObserveCancellation \/ CancelUnwritable \/ Interrupted
    \/ DrainFrame \/ DrainEnds \/ StderrDrained \/ WaitEnds
    \/ StopExecute \/ VerifyAndSweep \/ RecordSuppressed \/ RecordStop \/ RecordOutcome \/ Finish
    \/ StartProbe \/ ProbeAnswered \/ ProbeDrainFails \/ ProbeDrained \/ ProbeStderrDrained
    \/ VerifyProbe
Trampolining ==
    CreateMarker \/ WriteNonce \/ LockMarker \/ PublishIdentity \/ SendReady \/ ReadGate
Adapting ==
    \/ ServeProbe \/ ServeExecute \/ ServeCancel \/ ServeEOF
    \/ HandlerEmits \/ HandlerRefused \/ HandlerAborts \/ HandlerCompletes
    \/ AdapterMisbehaves \/ AdapterDies \/ SpawnKid \/ KidExits
Recovering == SweepRecordedSession \/ StabilizeHandoff \/ HandoffUnverifiable
Environment == RequestCancel \/ ContextEnds \/ ProbeDeadline \/ GraceExpires \/ Crash

Next ==
    \/ Working \/ Blocking \/ Failing \/ Trampolining \/ TrampolineDies
    \/ Adapting \/ Recovering \/ Environment

Spec == Init /\ [][Next]_vars

\* The client and the trampoline are running processes, and the timers fire.
FairSpec ==
    /\ Spec /\ WF_vars(Working) /\ WF_vars(Trampolining)
    /\ WF_vars(GraceExpires) /\ WF_vars(ProbeDeadline)

(***************************************************************************)
(* Properties                                                              *)
(***************************************************************************)
\* Every variable holds a value the code can produce.
TypeOK ==
    /\ job \in Jobs
    /\ pc \in {"launch", "ready", "journal", "gate", "reap", "probe_write", "probe_wait",
               "execute_write", "await", "cancel_write", "drain", "stderr", "wait", "verify",
               "stop", "record_stop", "record_outcome", "finish", "probe_drain", "probe_stderr",
               "probe_verify", "returned", "crashed"}
    /\ call \in [err : {"none", "failed", "halted", "released"},
                 result : Results \cup {"none", "probe"},
                 verdict : {"none", "adapter_unavailable", "protocol_error"},
                 asked : BOOLEAN, acked : BOOLEAN,
                 count : 0 .. MaxEvents + 1, blocking : 0 .. MaxEvents + 1]
    /\ journal \in [identity : BOOLEAN, probed : BOOLEAN, stopped : BOOLEAN,
                    outcome : {"none", "completed", "failed", "waiting",
                               "adapter_unavailable", "protocol_error"}]
    /\ sig \in [cancel : BOOLEAN, ctx : BOOLEAN, timer : {"armed", "expired", "stopped"},
                grace : {"off", "on", "expired"}]
    /\ proc \in [leader : Trampoline \cup {"none", "exec", "closed", "gone"}, code : 0 .. 1,
                 files : {"none", "empty", "nonce", "identity"},
                 gate : {"shut", "closed", "released"},
                 kids : {"none", "quiet", "stderr", "stdout"}]
    /\ wire.inp \in Seq({"probe", "execute", "cancel"}) /\ wire.eof \in BOOLEAN
    /\ wire.out \in Seq(Answers) /\ Len(wire.out) <= MaxOut
    /\ adapter \in [handler : {"none", "running", "cancelled"}, emitted : 0 .. MaxEvents,
                    raised : 0 .. MaxEvents, faulty : BOOLEAN]
    /\ rec \in {"none", "settled", "unswept", "unverifiable"}

\* An adapter body never runs before its identity is durable in the journal, so
\* that recovery can name every session it may have to sweep (the launch gate).
ReleasedIsJournaled ==
    job = "execute" /\ proc.leader \in {"exec", "closed"} => journal.identity

\* The launch gate holds in every well-formed state of client, trampoline and
\* adapter.
LaunchInv == TypeOK /\ ReleasedIsJournaled

\* Once recovery has settled a session nothing of it runs, or ever will: not a
\* descendant, and not a trampoline that was still on its way to its marker.
RecoveredIsQuiet ==
    rec = "settled" => proc.leader \notin {"exec", "closed"} /\ proc.kids = "none"

\* The interval is stopped, an outcome is journaled, and the call returns, only
\* after the whole session is gone; the exceptions say so in their error.
EndIsQuiet ==
    \/ journal.stopped \/ journal.outcome # "none"
    \/ pc = "returned" /\ call.err \notin {"halted", "released"}
    => SessionEmpty

\* A result handed to the driver without an error is the journal's outcome: the
\* driver starts acceptance on it, whatever cancellation arrived meanwhile.
ResultIsJournaled ==
    job = "execute" /\ pc = "returned" /\ call.err = "none" /\ call.result # "none"
    => journal.outcome = Outcome /\ journal.stopped

\* An adapter that keeps to the protocol is never accused of breaking it, in
\* whatever order its result, its events and a cancellation cross on the wire.
ConformingIsAccepted ==
    ~adapter.faulty => call.verdict # "protocol_error"

\* A cancellation, or the end of the driver's context, ends the call.
CancelledReturns ==
    job = "execute" /\ (sig.cancel \/ sig.ctx) ~> ~Calling

\* A validation probe ends: its deadline covers a descendant that survives it.
ProbeReturns ==
    job = "probe" ~> ~Calling
=============================================================================
