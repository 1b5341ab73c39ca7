---------------------------- MODULE Session_proofs ----------------------------
(***************************************************************************)
(* That the launch gate, the recovery of a session and the end of a call   *)
(* hold for any limit on events and any depth of the pipe, with an adapter *)
(* that may send a wrong frame, close its output or die at any moment.     *)
(* The last part is about an adapter that does none of these: ConformInv   *)
(* accounts for every frame between the two.                               *)
(***************************************************************************)
EXTENDS Session, SequenceTheorems, FiniteSetTheorems, TLAPS

-----------------------------------------------------------------------------
(* The inductive invariant. *)

\* The client's types. A call that counted too many events is about to stop; a
\* result is at hand from the moment it is read until it is recorded.
Ending == {"stop", "record_stop", "record_outcome", "finish", "returned", "crashed"}
Labels == {"launch", "ready", "journal", "gate", "reap", "probe_write", "probe_wait",
           "execute_write", "await", "cancel_write", "drain", "stderr", "wait", "verify",
           "stop", "record_stop", "record_outcome", "finish", "probe_drain", "probe_stderr",
           "probe_verify", "returned", "crashed"}

ClientType ==
    /\ job \in Jobs /\ pc \in Labels
    /\ call \in [err : {"none", "failed", "halted", "released"},
                 result : Results \cup {"none", "probe"},
                 verdict : {"none", "adapter_unavailable", "protocol_error"},
                 asked : BOOLEAN, acked : BOOLEAN,
                 count : 0 .. MaxEvents + 1, blocking : 0 .. MaxEvents + 1]
    /\ call.blocking <= call.count
    /\ call.count <= MaxEvents \/ pc \in Ending
    /\ pc \in {"drain", "stderr", "wait", "verify"} => call.result \in Results
    /\ pc \in {"record_stop", "record_outcome"} =>
          call.verdict # "none" \/ call.result \in Results

RecordType ==
    /\ journal \in [identity : BOOLEAN, probed : BOOLEAN, stopped : BOOLEAN,
                    outcome : {"none", "completed", "failed", "waiting",
                               "adapter_unavailable", "protocol_error"}]
    /\ rec \in {"none", "settled", "unswept", "unverifiable"}

SignalType ==
    sig \in [cancel : BOOLEAN, ctx : BOOLEAN, timer : {"armed", "expired", "stopped"},
             grace : {"off", "on", "expired"}]

ProcessType ==
    /\ proc \in [leader : Trampoline \cup {"none", "exec", "closed", "gone"}, code : 0 .. 1,
                 files : {"none", "empty", "nonce", "identity"},
                 gate : {"shut", "closed", "released"},
                 kids : {"none", "quiet", "stderr", "stdout"}]
    /\ adapter \in [handler : {"none", "running", "cancelled"}, emitted : 0 .. MaxEvents,
                    raised : 0 .. MaxEvents, faulty : BOOLEAN]
    /\ adapter.raised <= adapter.emitted

WireType ==
    /\ wire \in [inp : Seq({"probe", "execute", "cancel"}), eof : BOOLEAN, out : Seq(Answers)]
    /\ Len(wire.out) <= MaxOut

TypeInv == ClientType /\ RecordType /\ SignalType /\ ProcessType /\ WireType

\* Until the gate is opened nothing of the adapter runs, and it is opened, and a
\* descendant started, only once the identity is in the journal.
Unlaunched == {"launch", "ready", "journal", "gate", "reap"}
Ran == proc.leader \in {"exec", "closed"} \/ proc.kids # "none" \/ proc.gate = "released"

GateInv ==
    /\ pc \in Unlaunched => ~Ran
    /\ pc = "launch" => proc.leader = "none"
    /\ pc = "gate" => journal.identity
    /\ job = "execute" /\ Ran => journal.identity

\* A settled session cannot come to life: its client is gone, and a trampoline
\* that is still on its way finds the gate closed.
RecoveryInv ==
    rec = "settled" =>
        /\ pc \in {"returned", "crashed"}
        /\ proc.leader \notin {"exec", "closed"} /\ proc.kids = "none"
        /\ proc.gate = "released" => proc.leader = "gone"

\* The session is empty before anything is recorded of its end.
EndInv ==
    /\ pc \in {"record_stop", "record_outcome", "finish"} => SessionEmpty
    /\ journal.stopped =>
          SessionEmpty /\ pc \in {"record_outcome", "finish", "returned", "crashed"}
    /\ journal.outcome # "none" => SessionEmpty /\ pc \in {"finish", "returned", "crashed"}
    /\ EndIsQuiet

\* What is recorded is what the call holds, and stays so until it returns.
ResultInv ==
    /\ pc \in {"probe_drain", "probe_stderr", "probe_verify"} => job = "probe"
    /\ pc \in {"record_outcome", "finish"} => journal.stopped
    /\ pc = "finish" => journal.outcome = Outcome
    /\ ResultIsJournaled

IInv == TypeInv /\ GateInv /\ RecoveryInv /\ EndInv /\ ResultInv
-----------------------------------------------------------------------------
(* The actions, by the part of the session they belong to. *)

\* The launch: trampoline, record of the identity, gate.
Launching ==
    \/ StartTrampoline \/ StartFails \/ HandoffCancelled \/ HandoffReady \/ HandoffFails
    \/ RecordIdentity \/ RecordIdentityFails \/ ReleaseGate \/ ReleaseUnclosed
    \/ ReleaseFails \/ Reap

\* The trampoline.
Trampolined == Trampolining \/ TrampolineDies

\* The adapter.
Served ==
    \/ ServeProbe \/ ServeExecute \/ ServeCancel \/ ServeEOF \/ HandlerEmits
    \/ HandlerRefused \/ HandlerAborts \/ HandlerCompletes \/ AdapterMisbehaves
    \/ AdapterDies \/ SpawnKid \/ KidExits

\* The probe and the execute request.
Probing ==
    \/ WriteProbe \/ ProbeFails \/ ProbeRejected \/ RecordProbe \/ RecordProbeFails
    \/ WriteExecute \/ ExecuteUnwritable \/ ExecuteAborted \/ StartProbe
    \/ StartUnidentified \/ ProbeAnswered \/ ProbeDrainFails \/ ProbeDrained
    \/ ProbeStderrDrained \/ VerifyProbe

\* The exchange up to the result.
Awaiting ==
    \/ ConsumeEvent \/ RecordFails \/ CheckpointFails \/ ConsumeAck \/ ConsumeResult
    \/ StdinUnclosable \/ Undecodable \/ EndsWithoutResult \/ ObserveCancellation
    \/ WriteCancel \/ CancelUnwritable \/ Interrupted

\* From the result to the record.
Concluding ==
    \/ DrainFrame \/ DrainEnds \/ StderrDrained \/ WaitEnds \/ StopExecute \/ VerifyAndSweep
    \/ SweepUnverifiable \/ RecordSuppressed \/ RecordStop \/ RecordOutcome \/ AppendFails
    \/ Finish

\* Recovery and the environment.
Around == Recovering \/ Environment

\* Every step belongs to one of the parts.
LEMMA NextByPart ==
    Next => Launching \/ Trampolined \/ Served \/ Probing \/ Awaiting
            \/ Concluding \/ Around
  BY DEF Next, Working, Blocking, Failing, Adapting, Launching, Trampolined, Served, Probing,
         Awaiting, Concluding, Around

-----------------------------------------------------------------------------
(* The trampoline's stages as a set, and the two pipes. *)

\* A sequence's range is awkward for the provers.
LEMMA TrampolineStages ==
    Trampoline = {"started", "marked", "named", "locked", "published", "ready"}
  BY DEF Trampoline, Stages

Requests == {"probe", "execute", "cancel"}

\* What is read is a frame of the pipe, and a write keeps to its limit.
LEMMA Pipes ==
    ASSUME WireType
    PROVE  /\ wire.inp # <<>> => Tail(wire.inp) \in Seq(Requests)
           /\ \A frame \in Requests : Append(wire.inp, frame) \in Seq(Requests)
           /\ wire.out # <<>> => Tail(wire.out) \in Seq(Answers) /\ Len(Tail(wire.out)) <= MaxOut
           /\ Len(wire.out) < MaxOut => \A frame \in Answers :
                 Append(wire.out, frame) \in Seq(Answers) /\ Len(Append(wire.out, frame)) <= MaxOut
<1> DEFINE I == wire.inp  O == wire.out
<1>1. I \in Seq(Requests) /\ O \in Seq(Answers) /\ Len(O) <= MaxOut /\ MaxOut \in Nat
  BY SessionAssumption DEF WireType, Requests
<1>2. Len(O) \in Nat
  BY <1>1, LenProperties
<1> HIDE DEF I, O
<1>3. I # <<>> => Tail(I) \in Seq(Requests)
  BY <1>1, HeadTailProperties
<1>4. \A frame \in Requests : Append(I, frame) \in Seq(Requests)
  BY <1>1, AppendProperties
<1>5. O # <<>> => Tail(O) \in Seq(Answers) /\ Len(Tail(O)) = Len(O) - 1
  BY <1>1, HeadTailProperties
<1>6. \A frame \in Answers :
         Append(O, frame) \in Seq(Answers) /\ Len(Append(O, frame)) = Len(O) + 1
  BY <1>1, AppendProperties
<1> QED
  BY <1>1, <1>2, <1>3, <1>4, <1>5, <1>6 DEF I, O

-----------------------------------------------------------------------------
(* Types, part by part. *)

\* An event counts once against the limit.
LEMMA EmittedProcess ==
    ASSUME IInv, HandlerEmits
    PROVE  ProcessType'
<1>1. ProcessType /\ MaxEvents \in Nat
  BY SessionAssumption DEF IInv, TypeInv
<1>2. PICK event \in Events :
        adapter' = [adapter EXCEPT !.emitted = @ + 1,
                                   !.raised = IF event = "question" THEN @ + 1 ELSE @]
  BY DEF HandlerEmits
<1> DEFINE emitted == adapter.emitted + 1
           raised == IF event = "question" THEN adapter.raised + 1 ELSE adapter.raised
<1>3. /\ adapter.emitted \in 0 .. MaxEvents /\ adapter.emitted < MaxEvents
      /\ adapter.raised \in 0 .. MaxEvents /\ adapter.raised <= adapter.emitted
  BY <1>1 DEF ProcessType, HandlerEmits
<1>4. emitted \in 0 .. MaxEvents /\ raised \in 0 .. MaxEvents /\ raised <= emitted
  BY <1>1, <1>3
<1>5. adapter' = [adapter EXCEPT !.emitted = emitted, !.raised = raised] /\ UNCHANGED proc
  BY <1>2 DEF HandlerEmits
<1> HIDE DEF emitted, raised
<1> QED
  BY <1>1, <1>4, <1>5 DEF ProcessType

LEMMA ServedProcess ==
    ASSUME IInv, Served
    PROVE  ProcessType'
<1> USE DEF IInv, TypeInv, ProcessType, AdapterUnchanged, Serving, CanWrite, Request, Taken,
        Says, Handling
<1>1. 1 \in 0 .. 1
  OBVIOUS
<1>2. CASE ServeProbe
  BY <1>1, <1>2, TrampolineStages DEF ServeProbe
<1>3. CASE ServeExecute
  BY <1>1, <1>3, TrampolineStages DEF ServeExecute
<1>4. CASE ServeCancel
  BY <1>1, <1>4, TrampolineStages DEF ServeCancel
<1>5. CASE ServeEOF
  BY <1>1, <1>5, TrampolineStages DEF ServeEOF
<1>6. CASE HandlerEmits
  BY <1>6, EmittedProcess
<1>7. CASE HandlerRefused
  BY <1>1, <1>7, TrampolineStages DEF HandlerRefused
<1>8. CASE HandlerAborts
  BY <1>1, <1>8, TrampolineStages DEF HandlerAborts
<1>9. CASE HandlerCompletes
  BY <1>1, <1>9, TrampolineStages DEF HandlerCompletes
<1>10. CASE AdapterMisbehaves
  BY <1>1, <1>10, TrampolineStages DEF AdapterMisbehaves
<1>11. CASE AdapterDies
  BY <1>1, <1>11, TrampolineStages DEF AdapterDies
<1>12. CASE SpawnKid
  BY <1>1, <1>12, TrampolineStages DEF SpawnKid
<1>13. CASE KidExits
  BY <1>1, <1>13, TrampolineStages DEF KidExits
<1> QED
  BY <1>2, <1>3, <1>4, <1>5, <1>6, <1>7, <1>8, <1>9, <1>10, <1>11, <1>12, <1>13
     DEF Served

LEMMA ServedWire ==
    ASSUME IInv, Served
    PROVE  WireType'
<1>1. WireType
  BY DEF IInv, TypeInv
<1>2. CASE ServeProbe
  <2>1. PICK frame \in {"probe", "bad"} :
          wire' = [wire EXCEPT !.inp = Tail(@), !.out = Append(@, frame)]
    BY <1>2 DEF ServeProbe, Says, Taken
  <2>2. wire.inp # <<>> /\ Len(wire.out) < MaxOut /\ frame \in Answers
    BY <1>2 DEF ServeProbe, Request, CanWrite, Answers
  <2> QED
    BY <1>1, <2>1, <2>2, Pipes DEF WireType, Requests
<1>3. CASE \E frame \in Answers : CanWrite /\ Says(wire, frame)
  <2>1. PICK frame \in Answers :
          Len(wire.out) < MaxOut /\ wire' = [wire EXCEPT !.out = Append(@, frame)]
    BY <1>3 DEF CanWrite, Says
  <2> QED
    BY <1>1, <2>1, Pipes DEF WireType
<1>4. CASE HandlerEmits \/ HandlerRefused \/ HandlerAborts \/ HandlerCompletes
  <2>1. \E frame \in Answers : CanWrite /\ Says(wire, frame)
    BY <1>4 DEF HandlerEmits, HandlerRefused, HandlerAborts, HandlerCompletes, Handling,
                Answers, Results, Events
  <2> QED
    BY <1>3, <2>1
<1>5. CASE AdapterMisbehaves
  <2>1. UNCHANGED wire \/ \E frame \in Answers : CanWrite /\ Says(wire, frame)
    BY <1>5 DEF AdapterMisbehaves
  <2> QED
    BY <1>1, <1>3, <2>1 DEF WireType
<1>6. CASE ServeCancel
  <2>1. /\ wire' = [wire EXCEPT !.inp = Tail(@), !.out = Append(@, "ack")]
        /\ wire.inp # <<>> /\ Len(wire.out) < MaxOut /\ "ack" \in Answers
    BY <1>6 DEF ServeCancel, Request, CanWrite, Says, Taken, Answers
  <2> QED
    BY <1>1, <2>1, Pipes DEF WireType, Requests
<1>7. CASE ServeExecute
  BY <1>1, <1>7, Pipes DEF WireType, Requests, ServeExecute, Request, Taken
<1>8. CASE ServeEOF \/ AdapterDies \/ SpawnKid \/ KidExits
  BY <1>1, <1>8 DEF WireType, ServeEOF, AdapterDies, SpawnKid, KidExits
<1> QED
  BY <1>2, <1>4, <1>5, <1>6, <1>7, <1>8 DEF Served

LEMMA ProbingWire ==
    ASSUME IInv, Probing
    PROVE  WireType'
<1>1. WireType
  BY DEF IInv, TypeInv
<1> QED
  BY <1>1, Pipes DEF WireType, Requests, Answers, Events, Results, Probing, WriteProbe,
         ProbeFails, ProbeRejected, RecordProbe, RecordProbeFails, WriteExecute,
         ExecuteUnwritable, ExecuteAborted, StartProbe, StartUnidentified, ProbeAnswered,
         ProbeDrainFails, ProbeDrained, ProbeStderrDrained, VerifyProbe, ClientUnchanged,
         StopWith, Abandon, FinishFailure, Write, Frame, Next1, Read, StopReading,
         EndUnchanged, Returns

LEMMA AwaitingWire ==
    ASSUME IInv, Awaiting
    PROVE  WireType'
<1>1. WireType
  BY DEF IInv, TypeInv
<1> QED
  BY <1>1, Pipes DEF WireType, Requests, Answers, Events, Results, Awaiting, ConsumeEvent,
         RecordFails, CheckpointFails, ConsumeAck, ConsumeResult, StdinUnclosable,
         Undecodable, EndsWithoutResult, ObserveCancellation, WriteCancel, CancelUnwritable,
         Interrupted, ClientUnchanged, StopWith, Abandon, FinishFailure, Write, Frame, Next1,
         Read, StopReading

LEMMA ConcludingWire ==
    ASSUME IInv, Concluding
    PROVE  WireType'
<1>1. WireType
  BY DEF IInv, TypeInv
<1> QED
  BY <1>1, Pipes DEF WireType, Requests, Answers, Events, Results, Concluding, DrainFrame,
         DrainEnds, StderrDrained, WaitEnds, StopExecute, VerifyAndSweep, SweepUnverifiable,
         RecordSuppressed, RecordStop, RecordOutcome, AppendFails, Finish, ClientUnchanged,
         StopWith, Abandon, FinishFailure, Frame, Next1, Read, StopReading, EndUnchanged,
         Returns

LEMMA ProbingClient ==
    ASSUME IInv, Probing
    PROVE  ClientType'
<1> USE DEF IInv, TypeInv, ClientType, Labels, Ending, Results, Events, ClientUnchanged,
        StopWith, Abandon, FinishFailure, Unobserved, Observed, Write, Frame, Next1, Read,
        StopReading, OutEOF, Writing, StderrDone, EndUnchanged, Returns, Swept, SessionEmpty
<1>1. CASE WriteProbe
  BY <1>1 DEF WriteProbe
<1>2. CASE ProbeFails
  BY <1>2 DEF ProbeFails
<1>3. CASE ProbeRejected
  BY <1>3 DEF ProbeRejected
<1>4. CASE RecordProbe
  BY <1>4 DEF RecordProbe
<1>5. CASE RecordProbeFails
  BY <1>5 DEF RecordProbeFails
<1>6. CASE WriteExecute
  BY <1>6 DEF WriteExecute
<1>7. CASE ExecuteUnwritable
  BY <1>7 DEF ExecuteUnwritable
<1>8. CASE ExecuteAborted
  BY <1>8 DEF ExecuteAborted
<1>9. CASE StartProbe
  BY <1>9 DEF StartProbe
<1>10. CASE StartUnidentified
  BY <1>10 DEF StartUnidentified
<1>11. CASE ProbeAnswered
  BY <1>11 DEF ProbeAnswered
<1>12. CASE ProbeDrainFails
  BY <1>12 DEF ProbeDrainFails
<1>13. CASE ProbeDrained
  BY <1>13 DEF ProbeDrained
<1>14. CASE ProbeStderrDrained
  BY <1>14 DEF ProbeStderrDrained
<1>15. CASE VerifyProbe
  BY <1>15 DEF VerifyProbe
<1> QED
  BY <1>1, <1>2, <1>3, <1>4, <1>5, <1>6, <1>7, <1>8, <1>9, <1>10, <1>11, <1>12, <1>13,
        <1>14, <1>15
     DEF Probing

\* An event too many stops the call.
LEMMA ConsumedClient ==
    ASSUME IInv, ConsumeEvent
    PROVE  ClientType'
<1>1. ClientType
  BY DEF IInv, TypeInv
<1> DEFINE count == call.count + 1
           blocking == IF Head(wire.out) = "question" THEN call.blocking + 1 ELSE call.blocking
<1>2. /\ call.count <= MaxEvents /\ call.blocking <= call.count
      /\ MaxEvents \in Nat /\ call.count \in Nat /\ call.blocking \in Nat
  BY <1>1, SessionAssumption DEF ConsumeEvent, ClientType, Ending
<1>3. count \in 0 .. MaxEvents + 1 /\ blocking \in 0 .. MaxEvents + 1 /\ blocking <= count
  BY <1>2
<1> HIDE DEF count, blocking
<1>4. CASE count > MaxEvents
  <2>1. /\ call' = [call EXCEPT !.count = count, !.blocking = blocking,
                                   !.verdict = "protocol_error"]
        /\ pc' = "stop" /\ UNCHANGED job
    BY <1>4 DEF ConsumeEvent, StopReading, Next1, ClientUnchanged, count, blocking
  <2> QED
    BY <1>1, <1>3, <2>1 DEF ClientType, Labels, Ending
<1>5. CASE ~(count > MaxEvents)
  <2>1. /\ call' = [call EXCEPT !.count = count, !.blocking = blocking]
        /\ pc' = pc /\ pc = "await" /\ UNCHANGED job
    BY <1>5 DEF ConsumeEvent, Read, Next1, ClientUnchanged, count, blocking
  <2>2. count <= MaxEvents
    BY <1>2, <1>5 DEF count
  <2> QED
    BY <1>1, <1>3, <2>1, <2>2 DEF ClientType, Labels, Ending
<1> QED
  BY <1>4, <1>5

LEMMA AwaitingClient ==
    ASSUME IInv, Awaiting
    PROVE  ClientType'
<1> USE DEF IInv, TypeInv, ClientType, Labels, Ending, Results, Events, ClientUnchanged,
        StopWith, Abandon, FinishFailure, Unobserved, Observed, Write, Frame, Next1, Read,
        StopReading, OutEOF, Writing, ValidBlocking
<1>1. CASE ConsumeEvent
  BY <1>1, ConsumedClient
<1>2. CASE RecordFails
  BY <1>2 DEF RecordFails
<1>3. CASE CheckpointFails
  BY <1>3 DEF CheckpointFails
<1>4. CASE ConsumeAck
  <2>1. CASE call.asked /\ ~call.acked
    BY <1>4, <2>1 DEF ConsumeAck
  <2>2. CASE ~(call.asked /\ ~call.acked)
    BY <1>4, <2>2 DEF ConsumeAck
  <2> QED
    BY <2>1, <2>2
<1>5. CASE ConsumeResult
  BY <1>5 DEF ConsumeResult
<1>6. CASE StdinUnclosable
  BY <1>6 DEF StdinUnclosable
<1>7. CASE Undecodable
  BY <1>7 DEF Undecodable
<1>8. CASE EndsWithoutResult
  BY <1>8 DEF EndsWithoutResult
<1>9. CASE ObserveCancellation
  BY <1>9 DEF ObserveCancellation
<1>10. CASE WriteCancel
  BY <1>10 DEF WriteCancel
<1>11. CASE CancelUnwritable
  BY <1>11 DEF CancelUnwritable
<1>12. CASE Interrupted
  BY <1>12 DEF Interrupted
<1> QED
  BY <1>1, <1>2, <1>3, <1>4, <1>5, <1>6, <1>7, <1>8, <1>9, <1>10, <1>11, <1>12
     DEF Awaiting

LEMMA ConcludingClient ==
    ASSUME IInv, Concluding
    PROVE  ClientType'
<1> USE DEF IInv, TypeInv, ClientType, Labels, Ending, Results, Events, ClientUnchanged,
        StopWith, Abandon, FinishFailure, Frame, Next1, Read, StopReading, OutEOF, Writing,
        StderrDone, EndUnchanged, Returns, Swept, AckOwed, TerminalRecordingSuppressed
<1>1. CASE DrainFrame
  <2>1. CASE call.asked /\ ~call.acked
    BY <1>1, <2>1 DEF DrainFrame
  <2>2. CASE ~(call.asked /\ ~call.acked)
    BY <1>1, <2>2 DEF DrainFrame
  <2> QED
    BY <2>1, <2>2
<1>2. CASE DrainEnds
  <2>1. CASE call.asked /\ ~call.acked
    <3>1. call' = [call EXCEPT !.result = "none", !.verdict = "none"]
      BY <1>2, <2>1 DEF DrainEnds
    <3>2. pc' = "stop" /\ UNCHANGED job
      BY <1>2, <2>1 DEF DrainEnds
    <3> QED
      BY <3>1, <3>2
  <2>2. CASE ~(call.asked /\ ~call.acked)
    BY <1>2, <2>2 DEF DrainEnds
  <2> QED
    BY <2>1, <2>2
<1>3. CASE StderrDrained
  BY <1>3 DEF StderrDrained
<1>4. CASE WaitEnds
  BY <1>4 DEF WaitEnds
<1>5. CASE StopExecute
  BY <1>5 DEF StopExecute
<1>6. CASE VerifyAndSweep
  BY <1>6 DEF VerifyAndSweep
<1>7. CASE SweepUnverifiable
  BY <1>7 DEF SweepUnverifiable
<1>8. CASE RecordSuppressed
  BY <1>8 DEF RecordSuppressed
<1>9. CASE RecordStop
  BY <1>9 DEF RecordStop
<1>10. CASE RecordOutcome
  BY <1>10 DEF RecordOutcome
<1>11. CASE AppendFails
  BY <1>11 DEF AppendFails
<1>12. CASE Finish
  BY <1>12 DEF Finish
<1> QED
  BY <1>1, <1>2, <1>3, <1>4, <1>5, <1>6, <1>7, <1>8, <1>9, <1>10, <1>11, <1>12
     DEF Concluding

\* Neither recovery nor the environment touches what a call returned.
LEMMA AroundResult ==
    ASSUME IInv, Around
    PROVE  ResultInv'
<1> USE DEF IInv, ResultInv, ResultIsJournaled, TypeInv, ClientType, RecordType, Outcome
<1>1. CASE Recovering
  BY <1>1 DEF Recovering, SweepRecordedSession, StabilizeHandoff, HandoffUnverifiable,
              RecoverUnchanged
<1>2. CASE Environment
  BY <1>2 DEF Environment, RequestCancel, ContextEnds, ProbeDeadline, GraceExpires, Crash,
              EnvUnchanged, Calling
<1> QED
  BY <1>1, <1>2 DEF Around


-----------------------------------------------------------------------------
(* The conjuncts that a part can disturb, action by action. *)

\* The gate opens only after RecordIdentity.
LEMMA LaunchingGate ==
    ASSUME IInv, Launching
    PROVE  GateInv'
<1> USE DEF IInv, GateInv, Unlaunched, Ran, TypeInv, RecordType, ProcessType, Returns,
        LaunchCancelled, LaunchLive, LaunchUnchanged, CloseGate
<1>1. CASE StartTrampoline
  BY <1>1, TrampolineStages DEF StartTrampoline
<1>2. CASE StartFails
  BY <1>2, TrampolineStages DEF StartFails
<1>3. CASE HandoffCancelled
  BY <1>3, TrampolineStages DEF HandoffCancelled
<1>4. CASE HandoffReady
  BY <1>4, TrampolineStages DEF HandoffReady
<1>5. CASE HandoffFails
  BY <1>5, TrampolineStages DEF HandoffFails
<1>6. CASE RecordIdentity
  BY <1>6, TrampolineStages DEF RecordIdentity
<1>7. CASE RecordIdentityFails
  BY <1>7, TrampolineStages DEF RecordIdentityFails
<1>8. CASE ReleaseGate
  BY <1>8, TrampolineStages DEF ReleaseGate
<1>9. CASE ReleaseUnclosed
  BY <1>9, TrampolineStages DEF ReleaseUnclosed
<1>10. CASE ReleaseFails
  BY <1>10, TrampolineStages DEF ReleaseFails
<1>11. CASE Reap
  BY <1>11, TrampolineStages DEF Reap
<1> QED
  BY <1>1, <1>2, <1>3, <1>4, <1>5, <1>6, <1>7, <1>8, <1>9, <1>10, <1>11
     DEF Launching

LEMMA LaunchingEnd ==
    ASSUME IInv, Launching
    PROVE  EndInv'
<1> USE DEF IInv, EndInv, EndIsQuiet, SessionEmpty, GateInv, Unlaunched, Ran, TypeInv,
        ClientType, RecordType, ProcessType, Returns, LaunchCancelled, LaunchLive,
        LaunchUnchanged, CloseGate
<1>1. CASE StartTrampoline
  BY <1>1, TrampolineStages DEF StartTrampoline
<1>2. CASE StartFails
  BY <1>2, TrampolineStages DEF StartFails
<1>3. CASE HandoffCancelled
  BY <1>3, TrampolineStages DEF HandoffCancelled
<1>4. CASE HandoffReady
  BY <1>4, TrampolineStages DEF HandoffReady
<1>5. CASE HandoffFails
  BY <1>5, TrampolineStages DEF HandoffFails
<1>6. CASE RecordIdentity
  BY <1>6, TrampolineStages DEF RecordIdentity
<1>7. CASE RecordIdentityFails
  BY <1>7, TrampolineStages DEF RecordIdentityFails
<1>8. CASE ReleaseGate
  BY <1>8, TrampolineStages DEF ReleaseGate
<1>9. CASE ReleaseUnclosed
  BY <1>9, TrampolineStages DEF ReleaseUnclosed
<1>10. CASE ReleaseFails
  BY <1>10, TrampolineStages DEF ReleaseFails
<1>11. CASE Reap
  BY <1>11, TrampolineStages DEF Reap
<1> QED
  BY <1>1, <1>2, <1>3, <1>4, <1>5, <1>6, <1>7, <1>8, <1>9, <1>10, <1>11
     DEF Launching

LEMMA LaunchingProcess ==
    ASSUME IInv, Launching
    PROVE  ProcessType'
<1> USE DEF IInv, TypeInv, ProcessType, Returns, LaunchCancelled, LaunchLive, LaunchUnchanged,
        CloseGate
<1>1. CASE StartTrampoline
  BY <1>1, TrampolineStages DEF StartTrampoline
<1>2. CASE StartFails
  BY <1>2, TrampolineStages DEF StartFails
<1>3. CASE HandoffCancelled
  BY <1>3, TrampolineStages DEF HandoffCancelled
<1>4. CASE HandoffReady
  BY <1>4, TrampolineStages DEF HandoffReady
<1>5. CASE HandoffFails
  BY <1>5, TrampolineStages DEF HandoffFails
<1>6. CASE RecordIdentity
  BY <1>6, TrampolineStages DEF RecordIdentity
<1>7. CASE RecordIdentityFails
  BY <1>7, TrampolineStages DEF RecordIdentityFails
<1>8. CASE ReleaseGate
  BY <1>8, TrampolineStages DEF ReleaseGate
<1>9. CASE ReleaseUnclosed
  BY <1>9, TrampolineStages DEF ReleaseUnclosed
<1>10. CASE ReleaseFails
  BY <1>10, TrampolineStages DEF ReleaseFails
<1>11. CASE Reap
  BY <1>11, TrampolineStages DEF Reap
<1> QED
  BY <1>1, <1>2, <1>3, <1>4, <1>5, <1>6, <1>7, <1>8, <1>9, <1>10, <1>11
     DEF Launching

LEMMA TrampolinedProcess ==
    ASSUME IInv, Trampolined
    PROVE  ProcessType'
<1> USE DEF IInv, TypeInv, ProcessType, TrampolineUnchanged, TrampolineStep
<1>1. 1 \in 0 .. 1
  OBVIOUS
<1>2. CASE CreateMarker
  BY <1>1, <1>2, TrampolineStages DEF CreateMarker
<1>3. CASE WriteNonce
  BY <1>1, <1>3, TrampolineStages DEF WriteNonce
<1>4. CASE LockMarker
  BY <1>1, <1>4, TrampolineStages DEF LockMarker
<1>5. CASE PublishIdentity
  BY <1>1, <1>5, TrampolineStages DEF PublishIdentity
<1>6. CASE SendReady
  BY <1>1, <1>6, TrampolineStages DEF SendReady
<1>7. CASE ReadGate
  BY <1>1, <1>7, TrampolineStages DEF ReadGate
<1>8. CASE TrampolineDies
  BY <1>1, <1>8, TrampolineStages DEF TrampolineDies
<1> QED
  BY <1>2, <1>3, <1>4, <1>5, <1>6, <1>7, <1>8
     DEF Trampolined, Trampolining

LEMMA TrampolinedGate ==
    ASSUME IInv, Trampolined
    PROVE  GateInv'
<1> USE DEF IInv, GateInv, Unlaunched, Ran, TypeInv, RecordType, ProcessType,
        TrampolineUnchanged, TrampolineStep
<1>1. CASE CreateMarker
  BY <1>1, TrampolineStages DEF CreateMarker
<1>2. CASE WriteNonce
  BY <1>2, TrampolineStages DEF WriteNonce
<1>3. CASE LockMarker
  BY <1>3, TrampolineStages DEF LockMarker
<1>4. CASE PublishIdentity
  BY <1>4, TrampolineStages DEF PublishIdentity
<1>5. CASE SendReady
  BY <1>5, TrampolineStages DEF SendReady
<1>6. CASE ReadGate
  BY <1>6, TrampolineStages DEF ReadGate
<1>7. CASE TrampolineDies
  BY <1>7, TrampolineStages DEF TrampolineDies
<1> QED
  BY <1>1, <1>2, <1>3, <1>4, <1>5, <1>6, <1>7
     DEF Trampolined, Trampolining

LEMMA TrampolinedRecovery ==
    ASSUME IInv, Trampolined
    PROVE  RecoveryInv'
<1> USE DEF IInv, RecoveryInv, GateInv, Unlaunched, Ran, TypeInv, RecordType, ProcessType,
        TrampolineUnchanged, TrampolineStep
<1>1. CASE CreateMarker
  BY <1>1, TrampolineStages DEF CreateMarker
<1>2. CASE WriteNonce
  BY <1>2, TrampolineStages DEF WriteNonce
<1>3. CASE LockMarker
  BY <1>3, TrampolineStages DEF LockMarker
<1>4. CASE PublishIdentity
  BY <1>4, TrampolineStages DEF PublishIdentity
<1>5. CASE SendReady
  BY <1>5, TrampolineStages DEF SendReady
<1>6. CASE ReadGate
  BY <1>6, TrampolineStages DEF ReadGate
<1>7. CASE TrampolineDies
  BY <1>7, TrampolineStages DEF TrampolineDies
<1> QED
  BY <1>1, <1>2, <1>3, <1>4, <1>5, <1>6, <1>7
     DEF Trampolined, Trampolining

LEMMA ProbingGate ==
    ASSUME IInv, Probing
    PROVE  GateInv'
<1> USE DEF IInv, GateInv, Unlaunched, Ran, TypeInv, RecordType, ProcessType, ClientUnchanged,
        StopWith, Abandon, FinishFailure, Unobserved, Observed, Write, Frame, Next1, Read,
        StopReading, OutEOF, Writing, StderrDone, EndUnchanged, Returns, Swept, SessionEmpty
<1>1. CASE WriteProbe
  BY <1>1, TrampolineStages DEF WriteProbe
<1>2. CASE ProbeFails
  BY <1>2, TrampolineStages DEF ProbeFails
<1>3. CASE ProbeRejected
  BY <1>3, TrampolineStages DEF ProbeRejected
<1>4. CASE RecordProbe
  BY <1>4, TrampolineStages DEF RecordProbe
<1>5. CASE RecordProbeFails
  BY <1>5, TrampolineStages DEF RecordProbeFails
<1>6. CASE WriteExecute
  BY <1>6, TrampolineStages DEF WriteExecute
<1>7. CASE ExecuteUnwritable
  BY <1>7, TrampolineStages DEF ExecuteUnwritable
<1>8. CASE ExecuteAborted
  BY <1>8, TrampolineStages DEF ExecuteAborted
<1>9. CASE StartProbe
  BY <1>9, TrampolineStages DEF StartProbe
<1>10. CASE StartUnidentified
  BY <1>10, TrampolineStages DEF StartUnidentified
<1>11. CASE ProbeAnswered
  BY <1>11, TrampolineStages DEF ProbeAnswered
<1>12. CASE ProbeDrainFails
  BY <1>12, TrampolineStages DEF ProbeDrainFails
<1>13. CASE ProbeDrained
  BY <1>13, TrampolineStages DEF ProbeDrained
<1>14. CASE ProbeStderrDrained
  BY <1>14, TrampolineStages DEF ProbeStderrDrained
<1>15. CASE VerifyProbe
  BY <1>15, TrampolineStages DEF VerifyProbe
<1> QED
  BY <1>1, <1>2, <1>3, <1>4, <1>5, <1>6, <1>7, <1>8, <1>9, <1>10, <1>11, <1>12, <1>13,
        <1>14, <1>15
     DEF Probing

LEMMA ProbingEnd ==
    ASSUME IInv, Probing
    PROVE  EndInv'
<1> USE DEF IInv, EndInv, EndIsQuiet, SessionEmpty, GateInv, Unlaunched, Ran, TypeInv,
        ClientType, RecordType, ProcessType, ClientUnchanged, StopWith, Abandon,
        FinishFailure, Unobserved, Observed, Write, Frame, Next1, Read, StopReading, OutEOF,
        Writing, StderrDone, EndUnchanged, Returns, Swept
<1>1. CASE WriteProbe
  BY <1>1, TrampolineStages DEF WriteProbe
<1>2. CASE ProbeFails
  BY <1>2, TrampolineStages DEF ProbeFails
<1>3. CASE ProbeRejected
  BY <1>3, TrampolineStages DEF ProbeRejected
<1>4. CASE RecordProbe
  BY <1>4, TrampolineStages DEF RecordProbe
<1>5. CASE RecordProbeFails
  BY <1>5, TrampolineStages DEF RecordProbeFails
<1>6. CASE WriteExecute
  BY <1>6, TrampolineStages DEF WriteExecute
<1>7. CASE ExecuteUnwritable
  BY <1>7, TrampolineStages DEF ExecuteUnwritable
<1>8. CASE ExecuteAborted
  BY <1>8, TrampolineStages DEF ExecuteAborted
<1>9. CASE StartProbe
  BY <1>9, TrampolineStages DEF StartProbe
<1>10. CASE StartUnidentified
  BY <1>10, TrampolineStages DEF StartUnidentified
<1>11. CASE ProbeAnswered
  BY <1>11, TrampolineStages DEF ProbeAnswered
<1>12. CASE ProbeDrainFails
  BY <1>12, TrampolineStages DEF ProbeDrainFails
<1>13. CASE ProbeDrained
  BY <1>13, TrampolineStages DEF ProbeDrained
<1>14. CASE ProbeStderrDrained
  BY <1>14, TrampolineStages DEF ProbeStderrDrained
<1>15. CASE VerifyProbe
  BY <1>15, TrampolineStages DEF VerifyProbe
<1> QED
  BY <1>1, <1>2, <1>3, <1>4, <1>5, <1>6, <1>7, <1>8, <1>9, <1>10, <1>11, <1>12, <1>13,
        <1>14, <1>15
     DEF Probing

\* What is recorded is an outcome.
LEMMA ConcludingRecord ==
    ASSUME IInv, Concluding
    PROVE  RecordType'
<1> USE DEF IInv, TypeInv, ClientType, RecordType, Outcome, Results, ClientUnchanged,
        StopWith, Abandon, FinishFailure, Frame, Next1, Read, StopReading, OutEOF, Writing,
        StderrDone, EndUnchanged, Returns, Swept, AckOwed, TerminalRecordingSuppressed
<1>1. CASE DrainFrame
  BY <1>1 DEF DrainFrame
<1>2. CASE DrainEnds
  BY <1>2 DEF DrainEnds
<1>3. CASE StderrDrained
  BY <1>3 DEF StderrDrained
<1>4. CASE WaitEnds
  BY <1>4 DEF WaitEnds
<1>5. CASE StopExecute
  BY <1>5 DEF StopExecute
<1>6. CASE VerifyAndSweep
  BY <1>6 DEF VerifyAndSweep
<1>7. CASE SweepUnverifiable
  BY <1>7 DEF SweepUnverifiable
<1>8. CASE RecordSuppressed
  BY <1>8 DEF RecordSuppressed
<1>9. CASE RecordStop
  BY <1>9 DEF RecordStop
<1>10. CASE RecordOutcome
  BY <1>10 DEF RecordOutcome
<1>11. CASE AppendFails
  BY <1>11 DEF AppendFails
<1>12. CASE Finish
  BY <1>12 DEF Finish
<1> QED
  BY <1>1, <1>2, <1>3, <1>4, <1>5, <1>6, <1>7, <1>8, <1>9, <1>10, <1>11, <1>12
     DEF Concluding

LEMMA ConcludingGate ==
    ASSUME IInv, Concluding
    PROVE  GateInv'
<1> USE DEF IInv, GateInv, Unlaunched, Ran, TypeInv, RecordType, ProcessType, ClientUnchanged,
        StopWith, Abandon, FinishFailure, Frame, Next1, Read, StopReading, OutEOF, Writing,
        StderrDone, EndUnchanged, Returns, Swept, AckOwed, TerminalRecordingSuppressed
<1>1. CASE DrainFrame
  BY <1>1, TrampolineStages DEF DrainFrame
<1>2. CASE DrainEnds
  BY <1>2, TrampolineStages DEF DrainEnds
<1>3. CASE StderrDrained
  BY <1>3, TrampolineStages DEF StderrDrained
<1>4. CASE WaitEnds
  BY <1>4, TrampolineStages DEF WaitEnds
<1>5. CASE StopExecute
  BY <1>5, TrampolineStages DEF StopExecute
<1>6. CASE VerifyAndSweep
  BY <1>6, TrampolineStages DEF VerifyAndSweep
<1>7. CASE SweepUnverifiable
  BY <1>7, TrampolineStages DEF SweepUnverifiable
<1>8. CASE RecordSuppressed
  BY <1>8, TrampolineStages DEF RecordSuppressed
<1>9. CASE RecordStop
  BY <1>9, TrampolineStages DEF RecordStop
<1>10. CASE RecordOutcome
  BY <1>10, TrampolineStages DEF RecordOutcome
<1>11. CASE AppendFails
  BY <1>11, TrampolineStages DEF AppendFails
<1>12. CASE Finish
  BY <1>12, TrampolineStages DEF Finish
<1> QED
  BY <1>1, <1>2, <1>3, <1>4, <1>5, <1>6, <1>7, <1>8, <1>9, <1>10, <1>11, <1>12
     DEF Concluding

\* Nothing is recorded before the session is empty.
LEMMA ConcludingEnd ==
    ASSUME IInv, Concluding
    PROVE  EndInv'
<1> USE DEF IInv, EndInv, EndIsQuiet, SessionEmpty, GateInv, Unlaunched, Ran, TypeInv,
        ClientType, RecordType, ProcessType, ClientUnchanged, StopWith, Abandon,
        FinishFailure, Frame, Next1, Read, StopReading, OutEOF, Writing, StderrDone,
        EndUnchanged, Returns, Swept, AckOwed, TerminalRecordingSuppressed
<1>1. CASE DrainFrame
  BY <1>1, TrampolineStages DEF DrainFrame
<1>2. CASE DrainEnds
  BY <1>2, TrampolineStages DEF DrainEnds
<1>3. CASE StderrDrained
  BY <1>3, TrampolineStages DEF StderrDrained
<1>4. CASE WaitEnds
  BY <1>4, TrampolineStages DEF WaitEnds
<1>5. CASE StopExecute
  BY <1>5, TrampolineStages DEF StopExecute
<1>6. CASE VerifyAndSweep
  BY <1>6, TrampolineStages DEF VerifyAndSweep
<1>7. CASE SweepUnverifiable
  BY <1>7, TrampolineStages DEF SweepUnverifiable
<1>8. CASE RecordSuppressed
  BY <1>8, TrampolineStages DEF RecordSuppressed
<1>9. CASE RecordStop
  BY <1>9, TrampolineStages DEF RecordStop
<1>10. CASE RecordOutcome
  BY <1>10, TrampolineStages DEF RecordOutcome
<1>11. CASE AppendFails
  BY <1>11, TrampolineStages DEF AppendFails
<1>12. CASE Finish
  BY <1>12, TrampolineStages DEF Finish
<1> QED
  BY <1>1, <1>2, <1>3, <1>4, <1>5, <1>6, <1>7, <1>8, <1>9, <1>10, <1>11, <1>12
     DEF Concluding

\* A result is returned as it was recorded.
LEMMA ConcludingResult ==
    ASSUME IInv, Concluding
    PROVE  ResultInv'
<1> USE DEF IInv, ResultInv, ResultIsJournaled, Outcome, TypeInv, ClientType, RecordType,
        ClientUnchanged, StopWith, Abandon, FinishFailure, Frame, Next1, Read, StopReading,
        OutEOF, Writing, StderrDone, EndUnchanged, Returns, Swept, AckOwed,
        TerminalRecordingSuppressed
<1>1. CASE DrainFrame
  BY <1>1 DEF DrainFrame
<1>2. CASE DrainEnds
  BY <1>2 DEF DrainEnds
<1>3. CASE StderrDrained
  BY <1>3 DEF StderrDrained
<1>4. CASE WaitEnds
  BY <1>4 DEF WaitEnds
<1>5. CASE StopExecute
  BY <1>5 DEF StopExecute
<1>6. CASE VerifyAndSweep
  BY <1>6 DEF VerifyAndSweep
<1>7. CASE SweepUnverifiable
  BY <1>7 DEF SweepUnverifiable
<1>8. CASE RecordSuppressed
  BY <1>8 DEF RecordSuppressed
<1>9. CASE RecordStop
  BY <1>9 DEF RecordStop
<1>10. CASE RecordOutcome
  BY <1>10 DEF RecordOutcome
<1>11. CASE AppendFails
  BY <1>11 DEF AppendFails
<1>12. CASE Finish
  BY <1>12 DEF Finish
<1> QED
  BY <1>1, <1>2, <1>3, <1>4, <1>5, <1>6, <1>7, <1>8, <1>9, <1>10, <1>11, <1>12
     DEF Concluding

LEMMA AroundGate ==
    ASSUME IInv, Around
    PROVE  GateInv'
<1> USE DEF IInv, GateInv, Unlaunched, Ran, TypeInv, RecordType, ProcessType, Recoverable,
        RecoverUnchanged, Swept, HandoffFree, EnvUnchanged, Calling
<1>1. CASE SweepRecordedSession
  BY <1>1, TrampolineStages DEF SweepRecordedSession
<1>2. CASE StabilizeHandoff
  BY <1>2, TrampolineStages DEF StabilizeHandoff
<1>3. CASE HandoffUnverifiable
  BY <1>3, TrampolineStages DEF HandoffUnverifiable
<1>4. CASE RequestCancel
  BY <1>4, TrampolineStages DEF RequestCancel
<1>5. CASE ContextEnds
  BY <1>5, TrampolineStages DEF ContextEnds
<1>6. CASE ProbeDeadline
  BY <1>6, TrampolineStages DEF ProbeDeadline
<1>7. CASE GraceExpires
  BY <1>7, TrampolineStages DEF GraceExpires
<1>8. CASE Crash
  BY <1>8, TrampolineStages DEF Crash
<1> QED
  BY <1>1, <1>2, <1>3, <1>4, <1>5, <1>6, <1>7, <1>8
     DEF Around, Recovering, Environment

\* What recovery settles is swept, or has a closed gate.
LEMMA AroundRecovery ==
    ASSUME IInv, Around
    PROVE  RecoveryInv'
<1> USE DEF IInv, RecoveryInv, GateInv, Unlaunched, Ran, TypeInv, RecordType, ProcessType,
        Recoverable, RecoverUnchanged, Swept, HandoffFree, EnvUnchanged, Calling
<1>1. CASE SweepRecordedSession
  BY <1>1, TrampolineStages DEF SweepRecordedSession
<1>2. CASE StabilizeHandoff
  BY <1>2, TrampolineStages DEF StabilizeHandoff
<1>3. CASE HandoffUnverifiable
  BY <1>3, TrampolineStages DEF HandoffUnverifiable
<1>4. CASE RequestCancel
  BY <1>4, TrampolineStages DEF RequestCancel
<1>5. CASE ContextEnds
  BY <1>5, TrampolineStages DEF ContextEnds
<1>6. CASE ProbeDeadline
  BY <1>6, TrampolineStages DEF ProbeDeadline
<1>7. CASE GraceExpires
  BY <1>7, TrampolineStages DEF GraceExpires
<1>8. CASE Crash
  BY <1>8, TrampolineStages DEF Crash
<1> QED
  BY <1>1, <1>2, <1>3, <1>4, <1>5, <1>6, <1>7, <1>8
     DEF Around, Recovering, Environment

LEMMA AroundEnd ==
    ASSUME IInv, Around
    PROVE  EndInv'
<1> USE DEF IInv, EndInv, EndIsQuiet, SessionEmpty, GateInv, Unlaunched, Ran, TypeInv,
        ClientType, RecordType, ProcessType, Recoverable, RecoverUnchanged, Swept,
        HandoffFree, EnvUnchanged, Calling
<1>1. CASE SweepRecordedSession
  BY <1>1, TrampolineStages DEF SweepRecordedSession
<1>2. CASE StabilizeHandoff
  BY <1>2, TrampolineStages DEF StabilizeHandoff
<1>3. CASE HandoffUnverifiable
  BY <1>3, TrampolineStages DEF HandoffUnverifiable
<1>4. CASE RequestCancel
  BY <1>4, TrampolineStages DEF RequestCancel
<1>5. CASE ContextEnds
  BY <1>5, TrampolineStages DEF ContextEnds
<1>6. CASE ProbeDeadline
  BY <1>6, TrampolineStages DEF ProbeDeadline
<1>7. CASE GraceExpires
  BY <1>7, TrampolineStages DEF GraceExpires
<1>8. CASE Crash
  BY <1>8, TrampolineStages DEF Crash
<1> QED
  BY <1>1, <1>2, <1>3, <1>4, <1>5, <1>6, <1>7, <1>8
     DEF Around, Recovering, Environment

-----------------------------------------------------------------------------
(* Each part of the session preserves the invariant. *)

\* The launch: trampoline, record of the identity, gate.
LEMMA LaunchingKeeps ==
    ASSUME IInv, Launching
    PROVE  IInv'
<1> USE SessionAssumption DEF Launching, StartTrampoline, StartFails, HandoffCancelled,
        HandoffReady, HandoffFails, RecordIdentity, RecordIdentityFails, ReleaseGate,
        ReleaseUnclosed, ReleaseFails, Reap, Returns, LaunchCancelled, LaunchLive,
        LaunchUnchanged, CloseGate
<1>1. ClientType'
  BY DEF IInv, TypeInv, ClientType, SignalType, WireType, Labels, Ending, Results, Events
<1>2. RecordType'
  BY DEF IInv, TypeInv, ClientType, RecordType, Outcome, Results
<1>3. SignalType'
  BY DEF IInv, TypeInv, SignalType
<1>4. ProcessType'
  BY LaunchingProcess
<1>5. WireType'
  BY DEF IInv, TypeInv, WireType, Answers, Events, Results
<1>6. GateInv'
  BY LaunchingGate
<1>7. RecoveryInv'
  BY DEF IInv, RecoveryInv, GateInv, Unlaunched, Ran, TypeInv, RecordType, ProcessType
<1>8. EndInv'
  BY LaunchingEnd
<1>9. ResultInv'
  BY DEF IInv, ResultInv, ResultIsJournaled, Outcome, TypeInv, ClientType, RecordType
<1> QED
  BY <1>1, <1>2, <1>3, <1>4, <1>5, <1>6, <1>7, <1>8, <1>9 DEF IInv, TypeInv

\* The trampoline.
LEMMA TrampolinedKeeps ==
    ASSUME IInv, Trampolined
    PROVE  IInv'
<1> USE SessionAssumption DEF Trampolined, Trampolining, TrampolineDies, CreateMarker,
        WriteNonce, LockMarker, PublishIdentity, SendReady, ReadGate, TrampolineUnchanged,
        TrampolineStep
<1>1. ClientType'
  BY DEF IInv, TypeInv, ClientType, SignalType, WireType, Labels, Ending, Results, Events
<1>2. RecordType'
  BY DEF IInv, TypeInv, ClientType, RecordType, Outcome, Results
<1>3. SignalType'
  BY DEF IInv, TypeInv, SignalType
<1>4. ProcessType'
  BY TrampolinedProcess
<1>5. WireType'
  BY DEF IInv, TypeInv, WireType, Answers, Events, Results
<1>6. GateInv'
  BY TrampolinedGate
<1>7. RecoveryInv'
  BY TrampolinedRecovery
<1>8. EndInv'
  BY DEF IInv, EndInv, EndIsQuiet, SessionEmpty, GateInv, Unlaunched, Ran, TypeInv, ClientType,
         RecordType, ProcessType
<1>9. ResultInv'
  BY DEF IInv, ResultInv, ResultIsJournaled, Outcome, TypeInv, ClientType, RecordType
<1> QED
  BY <1>1, <1>2, <1>3, <1>4, <1>5, <1>6, <1>7, <1>8, <1>9 DEF IInv, TypeInv

\* The adapter.
LEMMA ServedKeeps ==
    ASSUME IInv, Served
    PROVE  IInv'
<1> USE SessionAssumption DEF Served, ServeProbe, ServeExecute, ServeCancel, ServeEOF,
        HandlerEmits, HandlerRefused, HandlerAborts, HandlerCompletes, AdapterMisbehaves,
        AdapterDies, SpawnKid, KidExits, AdapterUnchanged, Serving, CanWrite, Request, Taken,
        Says, Handling
<1>1. ClientType'
  BY DEF IInv, TypeInv, ClientType, SignalType, WireType, Labels, Ending, Results, Events
<1>2. RecordType'
  BY DEF IInv, TypeInv, ClientType, RecordType, Outcome, Results
<1>3. SignalType'
  BY DEF IInv, TypeInv, SignalType
<1>4. ProcessType'
  BY ServedProcess
<1>5. WireType'
  BY ServedWire
<1>6. GateInv'
  BY DEF IInv, GateInv, Unlaunched, Ran, TypeInv, RecordType, ProcessType
<1>7. RecoveryInv'
  BY DEF IInv, RecoveryInv, GateInv, Unlaunched, Ran, TypeInv, RecordType, ProcessType
<1>8. EndInv'
  BY DEF IInv, EndInv, EndIsQuiet, SessionEmpty, GateInv, Unlaunched, Ran, TypeInv, ClientType,
         RecordType, ProcessType
<1>9. ResultInv'
  BY DEF IInv, ResultInv, ResultIsJournaled, Outcome, TypeInv, ClientType, RecordType
<1> QED
  BY <1>1, <1>2, <1>3, <1>4, <1>5, <1>6, <1>7, <1>8, <1>9 DEF IInv, TypeInv

\* The probe and the execute request.
LEMMA ProbingKeeps ==
    ASSUME IInv, Probing
    PROVE  IInv'
<1> USE SessionAssumption DEF Probing, WriteProbe, ProbeFails, ProbeRejected, RecordProbe,
        RecordProbeFails, WriteExecute, ExecuteUnwritable, ExecuteAborted, StartProbe,
        StartUnidentified, ProbeAnswered, ProbeDrainFails, ProbeDrained, ProbeStderrDrained,
        VerifyProbe, ClientUnchanged, StopWith, Abandon, FinishFailure, Unobserved, Observed,
        Write, Frame, Next1, Read, StopReading, OutEOF, Writing, StderrDone, EndUnchanged,
        Returns, Swept, SessionEmpty
<1>1. ClientType'
  BY ProbingClient
<1>2. RecordType'
  BY DEF IInv, TypeInv, ClientType, RecordType, Outcome, Results
<1>3. SignalType'
  BY DEF IInv, TypeInv, SignalType
<1>4. ProcessType'
  BY DEF IInv, TypeInv, ProcessType
<1>5. WireType'
  BY ProbingWire
<1>6. GateInv'
  BY ProbingGate
<1>7. RecoveryInv'
  BY DEF IInv, RecoveryInv, GateInv, Unlaunched, Ran, TypeInv, RecordType, ProcessType
<1>8. EndInv'
  BY ProbingEnd
<1>9. ResultInv'
  BY DEF IInv, ResultInv, ResultIsJournaled, Outcome, TypeInv, ClientType, RecordType
<1> QED
  BY <1>1, <1>2, <1>3, <1>4, <1>5, <1>6, <1>7, <1>8, <1>9 DEF IInv, TypeInv

\* The exchange up to the result.
LEMMA AwaitingKeeps ==
    ASSUME IInv, Awaiting
    PROVE  IInv'
<1> USE SessionAssumption DEF Awaiting, ConsumeEvent, RecordFails, CheckpointFails,
        ConsumeAck, ConsumeResult, StdinUnclosable, Undecodable, EndsWithoutResult,
        ObserveCancellation, WriteCancel, CancelUnwritable, Interrupted, ClientUnchanged,
        StopWith, Abandon, FinishFailure, Unobserved, Observed, Write, Frame, Next1, Read,
        StopReading, OutEOF, Writing, ValidBlocking
<1>1. ClientType'
  BY AwaitingClient
<1>2. RecordType'
  BY DEF IInv, TypeInv, ClientType, RecordType, Outcome, Results
<1>3. SignalType'
  BY DEF IInv, TypeInv, SignalType
<1>4. ProcessType'
  BY DEF IInv, TypeInv, ProcessType
<1>5. WireType'
  BY AwaitingWire
<1>6. GateInv'
  BY DEF IInv, GateInv, Unlaunched, Ran, TypeInv, RecordType, ProcessType
<1>7. RecoveryInv'
  BY DEF IInv, RecoveryInv, GateInv, Unlaunched, Ran, TypeInv, RecordType, ProcessType
<1>8. EndInv'
  BY DEF IInv, EndInv, EndIsQuiet, SessionEmpty, GateInv, Unlaunched, Ran, TypeInv, ClientType,
         RecordType, ProcessType
<1>9. ResultInv'
  BY DEF IInv, ResultInv, ResultIsJournaled, Outcome, TypeInv, ClientType, RecordType
<1> QED
  BY <1>1, <1>2, <1>3, <1>4, <1>5, <1>6, <1>7, <1>8, <1>9 DEF IInv, TypeInv

\* From the result to the record.
LEMMA ConcludingKeeps ==
    ASSUME IInv, Concluding
    PROVE  IInv'
<1> USE SessionAssumption DEF Concluding, DrainFrame, DrainEnds, StderrDrained, WaitEnds,
        StopExecute, VerifyAndSweep, SweepUnverifiable, RecordSuppressed, RecordStop,
        RecordOutcome, AppendFails, Finish, ClientUnchanged, StopWith, Abandon, FinishFailure,
        Frame, Next1, Read, StopReading, OutEOF, Writing, StderrDone, EndUnchanged, Returns,
        Swept, AckOwed, TerminalRecordingSuppressed
<1>1. ClientType'
  BY ConcludingClient
<1>2. RecordType'
  BY ConcludingRecord
<1>3. SignalType'
  BY DEF IInv, TypeInv, SignalType
<1>4. ProcessType'
  BY DEF IInv, TypeInv, ProcessType
<1>5. WireType'
  BY ConcludingWire
<1>6. GateInv'
  BY ConcludingGate
<1>7. RecoveryInv'
  BY DEF IInv, RecoveryInv, GateInv, Unlaunched, Ran, TypeInv, RecordType, ProcessType
<1>8. EndInv'
  BY ConcludingEnd
<1>9. ResultInv'
  BY ConcludingResult
<1> QED
  BY <1>1, <1>2, <1>3, <1>4, <1>5, <1>6, <1>7, <1>8, <1>9 DEF IInv, TypeInv

\* Recovery and the environment.
LEMMA AroundKeeps ==
    ASSUME IInv, Around
    PROVE  IInv'
<1> USE SessionAssumption DEF Around, Recovering, Environment, SweepRecordedSession,
        StabilizeHandoff, HandoffUnverifiable, RequestCancel, ContextEnds, ProbeDeadline,
        GraceExpires, Crash, Recoverable, RecoverUnchanged, Swept, HandoffFree, EnvUnchanged,
        Calling
<1>1. ClientType'
  BY DEF IInv, TypeInv, ClientType, SignalType, WireType, Labels, Ending, Results, Events
<1>2. RecordType'
  BY DEF IInv, TypeInv, ClientType, RecordType, Outcome, Results
<1>3. SignalType'
  BY DEF IInv, TypeInv, SignalType
<1>4. ProcessType'
  BY DEF IInv, TypeInv, ProcessType
<1>5. WireType'
  BY DEF IInv, TypeInv, WireType, Answers, Events, Results
<1>6. GateInv'
  BY AroundGate
<1>7. RecoveryInv'
  BY AroundRecovery
<1>8. EndInv'
  BY AroundEnd
<1>9. ResultInv'
  BY AroundResult
<1> QED
  BY <1>1, <1>2, <1>3, <1>4, <1>5, <1>6, <1>7, <1>8, <1>9 DEF IInv, TypeInv

-----------------------------------------------------------------------------
(* The theorems. *)

LEMMA InitEstablishes == Init => IInv
<1> SUFFICES ASSUME Init PROVE IInv
  OBVIOUS
<1> USE SessionAssumption DEF Init
<1>1. ClientType
  BY DEF ClientType, Labels, Ending, Results
<1>2. RecordType /\ SignalType
  BY DEF RecordType, SignalType
<1>3. ProcessType
  BY DEF ProcessType
<1>4. WireType
  BY EmptySeq DEF WireType
<1>5. GateInv /\ RecoveryInv
  BY DEF GateInv, RecoveryInv, Unlaunched, Ran
<1>6. EndInv
  BY DEF EndInv, EndIsQuiet, SessionEmpty
<1>7. ResultInv
  BY DEF ResultInv, ResultIsJournaled
<1> QED
  BY <1>1, <1>2, <1>3, <1>4, <1>5, <1>6, <1>7 DEF IInv, TypeInv

LEMMA NextPreserves == IInv /\ [Next]_vars => IInv'
<1> SUFFICES ASSUME IInv, [Next]_vars PROVE IInv'
  OBVIOUS
<1>1. CASE Next
  BY <1>1, NextByPart, LaunchingKeeps, TrampolinedKeeps, ServedKeeps, ProbingKeeps,
     AwaitingKeeps, ConcludingKeeps, AroundKeeps
<1>2. CASE UNCHANGED vars
  BY <1>2 DEF vars, IInv, TypeInv, ClientType, RecordType, SignalType, ProcessType, WireType,
              GateInv, Ran, RecoveryInv, EndInv, EndIsQuiet, SessionEmpty, ResultInv,
              ResultIsJournaled, Outcome
<1> QED
  BY <1>1, <1>2

\* Whatever client, adapter, trampoline, recovery and timers do, a session keeps
\* the inductive invariant.
THEOREM SessionIsInductive == Spec => []IInv
<1> QED
  BY InitEstablishes, NextPreserves, PTL DEF Spec

\* The launch gate: an adapter body never runs before its identity is durable
\* in the journal (launch_unix.go and the driver's record of the identity).
THEOREM LaunchIsGated == Spec => []LaunchInv
<1>1. IInv => LaunchInv
  <2> SUFFICES ASSUME IInv PROVE TypeOK /\ ReleasedIsJournaled
    BY DEF LaunchInv
  <2>1. TypeOK
    BY DEF IInv, TypeInv, ClientType, RecordType, SignalType, ProcessType, WireType, TypeOK, Labels
  <2>2. ReleasedIsJournaled
    BY DEF IInv, GateInv, Ran, ReleasedIsJournaled
  <2> QED
    BY <2>1, <2>2
<1> QED
  BY <1>1, SessionIsInductive, PTL

\* A session that recovery has settled is quiet and stays so, also when a
\* trampoline was still on its way to its gate.
THEOREM SettledStaysQuiet == Spec => []RecoveredIsQuiet
<1>1. IInv => RecoveredIsQuiet
  BY DEF IInv, RecoveryInv, RecoveredIsQuiet
<1> QED
  BY <1>1, SessionIsInductive, PTL

\* Nothing of a session is left running when its end is recorded or its call
\* returns without saying so.
THEOREM CallsEndQuiet == Spec => []EndIsQuiet
<1>1. IInv => EndIsQuiet
  BY DEF IInv, EndInv
<1> QED
  BY <1>1, SessionIsInductive, PTL

\* A result returned without an error is the outcome that was journaled, although
\* a cancellation may become durable between the two.
THEOREM ReturnedIsJournaled == Spec => []ResultIsJournaled
<1>1. IInv => ResultIsJournaled
  BY DEF IInv, ResultInv
<1> QED
  BY <1>1, SessionIsInductive, PTL

-----------------------------------------------------------------------------
(* An adapter that keeps to the protocol. *)

\* How many members of F are in s.
CountOf(s, F) == Cardinality({i \in 1 .. Len(s) : s[i] \in F})

One(b) == IF b THEN 1 ELSE 0

\* Nothing was asked of the adapter but its probe.
Prologue == Unlaunched \cup {"probe_write", "probe_wait", "execute_write"}
Fresh ==
    /\ adapter.handler = "none" /\ adapter.emitted = 0 /\ adapter.raised = 0
    /\ call.count = 0 /\ call.blocking = 0 /\ call.result = "none"
    /\ ~call.asked /\ ~call.acked

\* The probe is on its way, or answered.
PrologueInv ==
    /\ pc \in Prologue => Fresh
    /\ pc \in Prologue \ {"probe_wait"} => wire.inp = <<>> /\ wire.out = <<>>
    /\ pc = "probe_wait" =>
          \/ wire.inp = <<"probe">> /\ wire.out = <<>>
          \/ wire.inp = <<>> /\ wire.out \in {<<"probe">>, <<"bad">>}

\* Every frame between the two is accounted for: what one side has sent and the
\* other has not read yet is in the pipe, and nothing else is.
Exchange == {"await", "cancel_write", "drain"}
Balance(c, inp, out, a) ==
    /\ CountOf(inp, {"probe"}) = 0 /\ CountOf(out, {"probe", "bad"}) = 0
    /\ CountOf(inp, {"cancel"}) + CountOf(out, {"ack"}) + One(c.acked) = One(c.asked)
    /\ CountOf(inp, {"execute"}) + One(a.handler # "none") + CountOf(out, Results)
          = One(c.result = "none")
    /\ c.count + CountOf(out, Events) = a.emitted
    /\ c.blocking + CountOf(out, {"question"}) = a.raised

\* The result is the last frame but an acknowledgement, and says what was raised.
ResultIsLast(out, a) ==
    /\ \A i, j \in 1 .. Len(out) : i < j /\ out[i] \in Results => out[j] = "ack"
    /\ \A i \in 1 .. Len(out) :
          out[i] \in Results => ((out[i] = "waiting") <=> a.raised > 0)

ExchangeInv ==
    pc \in Exchange =>
        /\ Balance(call, wire.inp, wire.out, adapter) /\ ResultIsLast(wire.out, adapter)
        /\ pc = "drain" => CountOf(wire.out, Events) = 0
        /\ pc = "drain" <=> call.result # "none"
        /\ pc = "await" /\ sig.grace = "off" => ~call.asked
        /\ pc = "cancel_write" => ~call.asked /\ sig.grace # "off"

ConformInv == ~adapter.faulty => ConformingIsAccepted /\ PrologueInv /\ ExchangeInv

\* A count is a number, and zero when no element is of the kind.
LEMMA CountsOf ==
    ASSUME NEW S, NEW s \in Seq(S), NEW F
    PROVE  /\ CountOf(s, F) \in Nat
           /\ CountOf(s, F) = 0 <=> \A i \in 1 .. Len(s) : s[i] \notin F
<1>1. Len(s) \in Nat
  BY LenProperties
<1>2. IsFiniteSet(1 .. Len(s))
  BY <1>1, FS_Interval
<1> DEFINE at == {i \in 1 .. Len(s) : s[i] \in F}
<1>3. IsFiniteSet(at)
  BY <1>2, FS_Subset
<1>4. Cardinality(at) \in Nat
  BY <1>3, FS_CardinalityType
<1>5. Cardinality(at) = 0 <=> at = {}
  BY <1>3, FS_EmptySet
<1>. QED
  BY <1>4, <1>5 DEF CountOf

\* An element at the end counts once.
LEMMA CountOfAppend ==
    ASSUME NEW S, NEW s \in Seq(S), NEW x \in S, NEW F
    PROVE  CountOf(Append(s, x), F) = CountOf(s, F) + One(x \in F)
<1> DEFINE n == Len(s)
           t == Append(s, x)
           at == {i \in 1 .. n : s[i] \in F}
<1>1. n \in Nat /\ Len(t) = n + 1 /\ t[n + 1] = x /\ \A i \in 1 .. n : t[i] = s[i]
  BY AppendProperties, LenProperties
<1>2. IsFiniteSet(1 .. n)
  BY <1>1, FS_Interval
<1>3. IsFiniteSet(at)
  BY <1>2, FS_Subset
<1>4. n + 1 \notin at
  BY <1>1
<1>5. Cardinality(at \cup {n + 1}) = Cardinality(at) + 1 /\ Cardinality(at) \in Nat
  BY <1>3, <1>4, FS_AddElement, FS_CardinalityType
<1>6. {i \in 1 .. Len(t) : t[i] \in F} = IF x \in F THEN at \cup {n + 1} ELSE at
  <2> HIDE DEF t
  <2>1. 1 .. Len(t) = 1 .. n \cup {n + 1}
    BY <1>1
  <2>. QED
    BY <1>1, <2>1
<1>7. CountOf(s, F) = Cardinality(at)
  BY DEF CountOf
<1>8. CountOf(t, F) = Cardinality(IF x \in F THEN at \cup {n + 1} ELSE at)
  BY <1>6 DEF CountOf
<1>9. CountOf(t, F) = Cardinality(at) + One(x \in F)
  <2> HIDE DEF at, t
  <2>. QED
    BY <1>5, <1>8 DEF One
<1>. QED
  BY <1>7, <1>9

\* So does the head.
LEMMA CountOfTail ==
    ASSUME NEW S, NEW s \in Seq(S), s # <<>>, NEW F
    PROVE  CountOf(s, F) = CountOf(Tail(s), F) + One(Head(s) \in F)
<1> DEFINE n == Len(s)
           t == Tail(s)
           at == {i \in 1 .. n : s[i] \in F}
           behind == {i \in 2 .. n : s[i] \in F}
           inTail == {i \in 1 .. Len(t) : t[i] \in F}
<1>1. /\ n \in Nat \ {0} /\ Len(t) = n - 1 /\ Head(s) = s[1]
      /\ \A i \in 1 .. n - 1 : t[i] = s[i + 1]
  BY HeadTailProperties, EmptySeq, LenProperties
<1> HIDE DEF n, t
<1>2. IsFiniteSet(2 .. n)
  BY <1>1, FS_Interval
<1>3. IsFiniteSet(behind)
  BY <1>2, FS_Subset
<1> DEFINE f == [i \in behind |-> i - 1]
<1>4. f \in [behind -> inTail]
  <2>1. ASSUME NEW i \in behind PROVE i - 1 \in inTail
    <3>1. i \in Int /\ 2 <= i /\ i <= n /\ s[i] \in F
      OBVIOUS
    <3>2. i - 1 \in 1 .. n - 1 /\ (i - 1) + 1 = i
      BY <1>1, <3>1
    <3>. QED
      BY <1>1, <3>1, <3>2
  <2>. QED
    BY <2>1
<1>5. \A i, j \in behind : f[i] = f[j] => i = j
  OBVIOUS
<1>6. \A k \in inTail : \E i \in behind : f[i] = k
  <2>1. ASSUME NEW k \in inTail PROVE k + 1 \in behind /\ f[k + 1] = k
    BY <1>1
  <2>. QED
    BY <2>1
<1>7. ExistsBijection(behind, inTail)
  <2> HIDE DEF f, behind, inTail
  <2>1. f \in Bijection(behind, inTail)
    BY <1>4, <1>5, <1>6 DEF Bijection, Injection, Surjection, IsInjective
  <2>. QED
    BY <2>1 DEF ExistsBijection
<1>8. Cardinality(inTail) = Cardinality(behind)
  BY <1>3, <1>7, FS_Bijection
<1>9. Cardinality(behind \cup {1}) = Cardinality(behind) + 1 /\ Cardinality(behind) \in Nat
  <2>1. 1 \notin behind
    OBVIOUS
  <2>. QED
    BY <1>3, <2>1, FS_AddElement, FS_CardinalityType
<1>10. at = IF s[1] \in F THEN behind \cup {1} ELSE behind
  <2>1. 1 .. n = {1} \cup 2 .. n
    BY <1>1
  <2>. QED
    BY <2>1
<1>11. Cardinality(at) = Cardinality(inTail) + One(s[1] \in F)
  <2> HIDE DEF at, behind, inTail
  <2>. QED
    BY <1>8, <1>9, <1>10 DEF One
<1>. QED
  BY <1>1, <1>11 DEF CountOf, n, t

\* What the two pipes count, and what a request or a frame changes.
LEMMA PipeCounts ==
    ASSUME WireType, NEW F
    PROVE  /\ CountOf(wire.inp, F) \in Nat /\ CountOf(wire.out, F) \in Nat
           /\ wire.inp # <<>> =>
                 /\ CountOf(Tail(wire.inp), F) \in Nat
                 /\ CountOf(wire.inp, F) = CountOf(Tail(wire.inp), F) + One(Head(wire.inp) \in F)
           /\ wire.out # <<>> =>
                 /\ CountOf(Tail(wire.out), F) \in Nat
                 /\ CountOf(wire.out, F) = CountOf(Tail(wire.out), F) + One(Head(wire.out) \in F)
           /\ \A x \in Requests :
                 CountOf(Append(wire.inp, x), F) = CountOf(wire.inp, F) + One(x \in F)
           /\ \A x \in Answers :
                 CountOf(Append(wire.out, x), F) = CountOf(wire.out, F) + One(x \in F)
<1> DEFINE I == wire.inp  O == wire.out
<1>1. I \in Seq(Requests) /\ O \in Seq(Answers)
  BY DEF WireType, Requests
<1> HIDE DEF I, O
<1>2. CountOf(I, F) \in Nat /\ CountOf(O, F) \in Nat
  BY <1>1, CountsOf
<1>3. \A x \in Requests : CountOf(Append(I, x), F) = CountOf(I, F) + One(x \in F)
  BY <1>1, CountOfAppend
<1>4. \A x \in Answers : CountOf(Append(O, x), F) = CountOf(O, F) + One(x \in F)
  BY <1>1, CountOfAppend
<1>5. I # <<>> => /\ CountOf(Tail(I), F) \in Nat
                  /\ CountOf(I, F) = CountOf(Tail(I), F) + One(Head(I) \in F)
  <2>1. I # <<>> => Tail(I) \in Seq(Requests)
    BY <1>1, HeadTailProperties
  <2>. QED
    BY <1>1, <2>1, CountsOf, CountOfTail
<1>6. O # <<>> => /\ CountOf(Tail(O), F) \in Nat
                  /\ CountOf(O, F) = CountOf(Tail(O), F) + One(Head(O) \in F)
  <2>1. O # <<>> => Tail(O) \in Seq(Answers)
    BY <1>1, HeadTailProperties
  <2>. QED
    BY <1>1, <2>1, CountsOf, CountOfTail
<1>. QED
  BY <1>2, <1>3, <1>4, <1>5, <1>6 DEF I, O

\* The frame that is read is owed: an event that was emitted, the acknowledgement
\* that was asked for, or the one result, which says what was raised.
LEMMA FrameIsOwed ==
    ASSUME ClientType, WireType, ProcessType, wire.out # <<>>,
           Balance(call, wire.inp, wire.out, adapter), ResultIsLast(wire.out, adapter)
    PROVE  LET f == Head(wire.out)
               rest == Tail(wire.out)
               seen == [call EXCEPT !.count = @ + 1,
                                    !.blocking = IF f = "question" THEN @ + 1 ELSE @]
           IN  /\ f \in Answers \ {"probe", "bad"} /\ ResultIsLast(rest, adapter)
               /\ f \in Events =>
                     seen.count <= MaxEvents /\ Balance(seen, wire.inp, rest, adapter)
               /\ f = "ack" =>
                     /\ call.asked /\ ~call.acked
                     /\ Balance([call EXCEPT !.acked = TRUE], wire.inp, rest, adapter)
               /\ f \in Results =>
                     /\ call.result = "none" /\ CountOf(rest, Events) = 0 /\ ValidBlocking(f)
                     /\ Balance([call EXCEPT !.result = f], wire.inp, rest, adapter)
<1> DEFINE I == wire.inp  O == wire.out  f == Head(O)  rest == Tail(O)
           seen == [call EXCEPT !.count = @ + 1,
                                !.blocking = IF f = "question" THEN @ + 1 ELSE @]
<1>1. /\ f \in Answers /\ f = O[1] /\ Len(O) \in Nat \ {0}
      /\ rest \in Seq(Answers) /\ Len(rest) = Len(O) - 1
      /\ \A i \in 1 .. Len(rest) : rest[i] = O[i + 1]
  BY HeadTailProperties, EmptySeq, LenProperties DEF WireType
<1>2. \A F : /\ CountOf(I, F) \in Nat /\ CountOf(rest, F) \in Nat
             /\ CountOf(O, F) = CountOf(rest, F) + One(f \in F)
  BY PipeCounts
<1>3. Balance(call, I, O, adapter) /\ ResultIsLast(O, adapter)
  OBVIOUS
<1> HIDE DEF I, O, f, rest
<1>4. ResultIsLast(rest, adapter)
  <2>1. ASSUME NEW i \in 1 .. Len(rest) PROVE i + 1 \in 1 .. Len(O) /\ rest[i] = O[i + 1]
    BY <1>1
  <2>2. \A i, j \in 1 .. Len(rest) : i < j => i + 1 < j + 1
    BY <1>1
  <2>. QED
    BY <1>3, <2>1, <2>2 DEF ResultIsLast
<1>5. f \notin {"probe", "bad"}
  BY <1>2, <1>3 DEF Balance, One
<1>6. CASE f \in Events
  <2>1. /\ f \notin {"probe", "bad"} /\ f \notin {"ack"} /\ f \notin Results
        /\ f \in {"question"} <=> f = "question"
    BY <1>6 DEF Events, Results
  <2>2. /\ CountOf(O, {"probe", "bad"}) = CountOf(rest, {"probe", "bad"})
        /\ CountOf(O, {"ack"}) = CountOf(rest, {"ack"})
        /\ CountOf(O, Results) = CountOf(rest, Results)
        /\ CountOf(O, Events) = CountOf(rest, Events) + 1
        /\ CountOf(O, {"question"}) =
              CountOf(rest, {"question"}) + (IF f = "question" THEN 1 ELSE 0)
    BY <1>2, <1>6, <2>1 DEF One
  <2>3. /\ seen.asked = call.asked /\ seen.acked = call.acked /\ seen.result = call.result
        /\ seen.count = call.count + 1
        /\ seen.blocking = call.blocking + (IF f = "question" THEN 1 ELSE 0)
        /\ call.count \in Nat /\ call.blocking \in Nat
        /\ adapter.emitted \in 0 .. MaxEvents /\ MaxEvents \in Nat
    BY SessionAssumption DEF ClientType, ProcessType
  <2>4. /\ CountOf(rest, Events) \in Nat /\ CountOf(rest, {"question"}) \in Nat
    BY <1>2
  <2> HIDE DEF seen
  <2>5. Balance(seen, I, rest, adapter)
    BY <1>3, <2>2, <2>3, <2>4, SMTT(30) DEF Balance
  <2>6. seen.count <= MaxEvents
    BY <2>3, <2>4, <2>5 DEF Balance
  <2>. QED
    BY <1>1, <1>4, <1>5, <1>6, <2>1, <2>5, <2>6 DEF I, O, f, rest, seen
<1>7. CASE f = "ack"
  <2>1. f \notin {"probe", "bad"} /\ f \notin Results /\ f \notin Events /\ f # "question"
    BY <1>7 DEF Events, Results
  <2>2. /\ CountOf(O, {"probe", "bad"}) = CountOf(rest, {"probe", "bad"})
        /\ CountOf(O, {"ack"}) = CountOf(rest, {"ack"}) + 1
        /\ CountOf(O, Results) = CountOf(rest, Results)
        /\ CountOf(O, Events) = CountOf(rest, Events)
        /\ CountOf(O, {"question"}) = CountOf(rest, {"question"})
    BY <1>2, <1>7, <2>1 DEF One
  <2>3. CountOf(I, {"cancel"}) \in Nat /\ CountOf(rest, {"ack"}) \in Nat
    BY <1>2
  <2>4. call.asked /\ ~call.acked
    BY <1>3, <2>2, <2>3 DEF Balance, One, ClientType
  <2> DEFINE c == [call EXCEPT !.acked = TRUE]
  <2>5. /\ c.asked = call.asked /\ c.acked = TRUE /\ c.result = call.result
        /\ c.count = call.count /\ c.blocking = call.blocking
    BY DEF ClientType
  <2> HIDE DEF c
  <2>6. Balance(c, I, rest, adapter)
    BY <1>3, <2>2, <2>3, <2>4, <2>5 DEF Balance, One
  <2>. QED
    BY <1>1, <1>4, <1>5, <1>7, <2>1, <2>4, <2>6 DEF I, O, f, rest, c
<1>8. CASE f \in Results
  <2>1. f \notin {"probe", "bad"} /\ f \notin {"ack"} /\ f \notin Events /\ f # "question"
    BY <1>8 DEF Events, Results
  <2>2. /\ CountOf(O, {"probe", "bad"}) = CountOf(rest, {"probe", "bad"})
        /\ CountOf(O, {"ack"}) = CountOf(rest, {"ack"})
        /\ CountOf(O, Results) = CountOf(rest, Results) + 1
        /\ CountOf(O, Events) = CountOf(rest, Events)
        /\ CountOf(O, {"question"}) = CountOf(rest, {"question"})
    BY <1>2, <1>8, <2>1 DEF One
  <2>3. CountOf(I, {"execute"}) \in Nat /\ CountOf(rest, Results) \in Nat
    BY <1>2
  <2>4. call.result = "none"
    BY <1>3, <2>2, <2>3 DEF Balance, One
  <2> DEFINE c == [call EXCEPT !.result = f]
  <2>5. /\ c.asked = call.asked /\ c.acked = call.acked /\ c.result = f /\ f # "none"
        /\ c.count = call.count /\ c.blocking = call.blocking
    BY <1>8 DEF ClientType, Results
  <2> HIDE DEF c
  <2>6. Balance(c, I, rest, adapter)
    BY <1>3, <2>2, <2>3, <2>4, <2>5 DEF Balance, One
  <2>7. \A i \in 1 .. Len(rest) : rest[i] = "ack"
    <3>1. ASSUME NEW i \in 1 .. Len(rest)
          PROVE  1 \in 1 .. Len(O) /\ i + 1 \in 1 .. Len(O) /\ 1 < i + 1 /\ rest[i] = O[i + 1]
      BY <1>1
    <3>. QED
      BY <1>1, <1>3, <1>8, <3>1 DEF ResultIsLast
  <2>8. "ack" \notin Events /\ "ack" \notin {"question"}
    BY DEF Events
  <2>9. CountOf(rest, Events) = 0 /\ CountOf(rest, {"question"}) = 0
    BY <1>1, <2>7, <2>8, CountsOf
  <2>10. (f = "waiting") <=> adapter.raised > 0
    BY <1>1, <1>3, <1>8 DEF ResultIsLast
  <2>11. call.blocking = adapter.raised
    BY <1>3, <2>2, <2>9 DEF Balance, ClientType
  <2>12. ValidBlocking(f)
    BY <2>10, <2>11 DEF ValidBlocking
  <2>. QED
    BY <1>1, <1>4, <1>5, <1>8, <2>1, <2>4, <2>6, <2>9, <2>12 DEF I, O, f, rest, c
<1>9. f \in Events \/ f = "ack" \/ f \in Results
  BY <1>1, <1>5 DEF Answers
<1>. QED
  BY <1>6, <1>7, <1>8, <1>9

-----------------------------------------------------------------------------
(* A conforming adapter is accepted: one lemma for each part. *)

\* The launch asks nothing of the adapter.
LEMMA LaunchingConforms ==
    ASSUME IInv, ConformInv, Launching
    PROVE  ConformInv'
<1>1. pc \in Unlaunched /\ pc' \in Unlaunched \cup {"probe_write", "returned"}
  BY DEF Launching, StartTrampoline, StartFails, HandoffCancelled, HandoffReady, HandoffFails,
         RecordIdentity, RecordIdentityFails, ReleaseGate, ReleaseUnclosed, ReleaseFails, Reap,
         CloseGate, Returns, Unlaunched
<1>2. UNCHANGED <<adapter, sig>> /\ (pc' = "returned" \/ UNCHANGED wire)
  BY DEF Launching, StartTrampoline, StartFails, HandoffCancelled, HandoffReady, HandoffFails,
         RecordIdentity, RecordIdentityFails, ReleaseGate, ReleaseUnclosed, ReleaseFails, Reap,
         CloseGate, Returns, LaunchUnchanged
<1>3. call' = call \/ \E err : call' = [call EXCEPT !.err = err]
  BY DEF Launching, StartTrampoline, StartFails, HandoffCancelled, HandoffReady, HandoffFails,
         RecordIdentity, RecordIdentityFails, ReleaseGate, ReleaseUnclosed, ReleaseFails, Reap,
         CloseGate, Returns
<1>4. /\ call'.count = call.count /\ call'.blocking = call.blocking
      /\ call'.result = call.result /\ call'.verdict = call.verdict
      /\ call'.asked = call.asked /\ call'.acked = call.acked
  BY <1>3 DEF IInv, TypeInv, ClientType
<1>. QED
  BY <1>1, <1>2, <1>4
     DEF ConformInv, ConformingIsAccepted, PrologueInv, ExchangeInv, Prologue, Exchange, Fresh,
         Unlaunched

\* Nor does the trampoline, a later recovery or a signal.
LEMMA AroundConforms ==
    ASSUME IInv, ConformInv, Trampolined \/ Around
    PROVE  ConformInv'
<1>1. UNCHANGED <<call, adapter>> /\ (pc' = "crashed" \/ UNCHANGED <<pc, wire>>)
  BY DEF Trampolined, Trampolining, TrampolineDies, CreateMarker, WriteNonce, LockMarker,
         PublishIdentity, SendReady, ReadGate, TrampolineStep, TrampolineUnchanged, Around,
         Recovering, SweepRecordedSession, StabilizeHandoff, HandoffUnverifiable,
         RecoverUnchanged, Environment, RequestCancel, ContextEnds, ProbeDeadline,
         GraceExpires, Crash, EnvUnchanged
<1>2. sig'.grace = "off" => sig.grace = "off"
  BY DEF Trampolined, Trampolining, TrampolineDies, CreateMarker, WriteNonce, LockMarker,
         PublishIdentity, SendReady, ReadGate, TrampolineStep, TrampolineUnchanged, Around,
         Recovering, SweepRecordedSession, StabilizeHandoff, HandoffUnverifiable,
         RecoverUnchanged, Environment, RequestCancel, ContextEnds, ProbeDeadline,
         GraceExpires, Crash, EnvUnchanged, IInv, TypeInv, SignalType
<1>. QED
  BY <1>1, <1>2
     DEF ConformInv, ConformingIsAccepted, PrologueInv, ExchangeInv, Prologue, Exchange, Fresh,
         Unlaunched

\* No more than one probe and one execute request are written, each in its turn.
LEMMA ProbingConforms ==
    ASSUME IInv, ConformInv, Probing
    PROVE  ConformInv'
<1>1. ClientType /\ WireType
  BY DEF IInv, TypeInv
<1>2. CASE adapter.faulty'
  BY <1>2 DEF ConformInv
<1>3. ASSUME adapter' = adapter, ~adapter.faulty, call'.verdict # "protocol_error",
             pc' \notin Prologue \cup Exchange
      PROVE  ConformInv'
  BY <1>3 DEF ConformInv, ConformingIsAccepted, PrologueInv, ExchangeInv, Prologue, Unlaunched
<1>4. UNCHANGED adapter
  BY DEF Probing, WriteProbe, ProbeFails, ProbeRejected, RecordProbe, RecordProbeFails,
         WriteExecute, ExecuteUnwritable, ExecuteAborted, StartProbe, StartUnidentified,
         ProbeAnswered, ProbeDrainFails, ProbeDrained, ProbeStderrDrained, VerifyProbe,
         ClientUnchanged, EndUnchanged
<1>5. ASSUME ~adapter.faulty
      PROVE  ConformingIsAccepted /\ PrologueInv /\ ExchangeInv
  BY <1>5 DEF ConformInv
<1>6. CASE WriteProbe
  <2>1. /\ pc = "probe_write" /\ pc' = "probe_wait" /\ UNCHANGED <<call, adapter>>
        /\ wire' = [wire EXCEPT !.inp = Append(@, "probe")]
    BY <1>6 DEF WriteProbe, Write, ClientUnchanged
  <2>2. ~adapter.faulty => wire.inp = <<>> /\ wire.out = <<>> /\ Fresh
    BY <1>5, <2>1 DEF PrologueInv, Prologue
  <2>3. wire'.out = wire.out /\ wire'.inp = Append(wire.inp, "probe")
    BY <1>1, <2>1 DEF WireType
  <2>4. Append(<<>>, "probe") = <<"probe">>
    OBVIOUS
  <2>. QED
    BY <1>5, <2>1, <2>2, <2>3, <2>4
       DEF ConformInv, ConformingIsAccepted, PrologueInv, ExchangeInv, Prologue, Exchange,
           Fresh, Unlaunched
<1>7. CASE RecordProbe
  <2>1. /\ pc = "probe_wait" /\ pc' = "execute_write" /\ UNCHANGED <<call, adapter>>
        /\ wire' = [wire EXCEPT !.out = Tail(@)] /\ wire.out # <<>>
    BY <1>7 DEF RecordProbe, Read, Frame
  <2>2. ~adapter.faulty =>
            wire.inp = <<>> /\ (wire.out = <<"probe">> \/ wire.out = <<"bad">>) /\ Fresh
    BY <1>5, <2>1 DEF PrologueInv, Prologue
  <2>3. wire'.inp = wire.inp /\ wire'.out = Tail(wire.out)
    BY <1>1, <2>1 DEF WireType
  <2>4. Tail(<<"probe">>) = <<>> /\ Tail(<<"bad">>) = <<>>
    OBVIOUS
  <2>. QED
    BY <1>5, <2>1, <2>2, <2>3, <2>4
       DEF ConformInv, ConformingIsAccepted, PrologueInv, ExchangeInv, Prologue, Exchange,
           Fresh, Unlaunched
<1>8. CASE WriteExecute
  <2>1. /\ pc = "execute_write" /\ pc' = "await" /\ UNCHANGED <<call, adapter>>
        /\ wire' = [wire EXCEPT !.inp = Append(@, "execute")]
    BY <1>8 DEF WriteExecute, Write, ClientUnchanged
  <2>2. ~adapter.faulty => wire.inp = <<>> /\ wire.out = <<>> /\ Fresh
    BY <1>5, <2>1 DEF PrologueInv, Prologue
  <2>3. wire'.out = wire.out /\ wire'.inp = Append(wire.inp, "execute")
    BY <1>1, <2>1 DEF WireType
  <2>4. wire.inp = <<>> => \A F : CountOf(wire.inp, F) = 0
    BY <1>1, CountsOf DEF WireType
  <2>5. wire.out = <<>> => \A F : CountOf(wire.out, F) = 0
    BY <1>1, CountsOf DEF WireType
  <2>6. /\ CountOf(wire'.inp, {"probe"}) = CountOf(wire.inp, {"probe"})
        /\ CountOf(wire'.inp, {"cancel"}) = CountOf(wire.inp, {"cancel"})
        /\ CountOf(wire'.inp, {"execute"}) = CountOf(wire.inp, {"execute"}) + 1
    BY <1>1, <2>3, PipeCounts DEF Requests, One
  <2>7. ASSUME ~adapter.faulty
        PROVE  Balance(call, wire'.inp, wire.out, adapter) /\ ResultIsLast(wire.out, adapter)
    BY <2>2, <2>4, <2>5, <2>6, <2>7 DEF Balance, ResultIsLast, Fresh, One
  <2>. QED
    BY <1>5, <2>1, <2>2, <2>3, <2>7
       DEF ConformInv, ConformingIsAccepted, PrologueInv, ExchangeInv, Prologue, Exchange,
           Fresh, Unlaunched
<1>9. CASE StartProbe
  <2>1. UNCHANGED <<call, wire, adapter>> /\ pc = "launch" /\ pc' = "probe_write"
    BY <1>9 DEF StartProbe, EndUnchanged
  <2>. QED
    BY <1>5, <2>1
       DEF ConformInv, ConformingIsAccepted, PrologueInv, ExchangeInv, Prologue, Exchange,
           Fresh, Unlaunched
<1>10. CASE \/ ProbeFails \/ ProbeRejected \/ RecordProbeFails \/ ExecuteUnwritable
            \/ ExecuteAborted \/ StartUnidentified \/ ProbeAnswered \/ ProbeDrainFails
            \/ ProbeDrained \/ ProbeStderrDrained \/ VerifyProbe
  <2>1. pc' \in {"stop", "returned", "probe_drain", "probe_stderr", "probe_verify"}
    BY <1>10 DEF ProbeFails, ProbeRejected, RecordProbeFails, ExecuteUnwritable,
         ExecuteAborted, StartUnidentified, ProbeAnswered, ProbeDrainFails, ProbeDrained,
         ProbeStderrDrained, VerifyProbe, Abandon, FinishFailure, StopWith, StopReading, Returns
  <2>2. call.verdict # "protocol_error" => call'.verdict # "protocol_error"
    BY <1>1, <1>10 DEF ClientType, ProbeFails, ProbeRejected, RecordProbeFails,
         ExecuteUnwritable, ExecuteAborted, StartUnidentified, ProbeAnswered, ProbeDrainFails,
         ProbeDrained, ProbeStderrDrained, VerifyProbe, Abandon, FinishFailure, StopWith,
         StopReading, Returns
  <2>. QED
    BY <1>3, <1>4, <1>5, <1>2, <2>1, <2>2
       DEF Prologue, Exchange, Unlaunched, ConformingIsAccepted
<1>. QED
  BY <1>6, <1>7, <1>8, <1>9, <1>10 DEF Probing

\* A conforming adapter sends what Balance has room for.
LEMMA ServedConforms ==
    ASSUME IInv, ConformInv, Served
    PROVE  ConformInv'
<1>1. ClientType /\ WireType /\ ProcessType
  BY DEF IInv, TypeInv
<1>2. UNCHANGED <<pc, call, sig>>
  BY DEF Served, ServeProbe, ServeExecute, ServeCancel, ServeEOF, HandlerEmits, HandlerRefused,
         HandlerAborts, HandlerCompletes, AdapterMisbehaves, AdapterDies, SpawnKid, KidExits,
         AdapterUnchanged
<1>3. CASE AdapterMisbehaves \/ AdapterDies \/ HandlerRefused
  BY <1>1, <1>3 DEF ConformInv, ProcessType, AdapterMisbehaves, AdapterDies, HandlerRefused
<1>4. ASSUME ~adapter.faulty
      PROVE  ConformingIsAccepted /\ PrologueInv /\ ExchangeInv
  BY <1>4 DEF ConformInv
  \* What is left to show of a step of the adapter.
<1>5. ASSUME adapter'.faulty = adapter.faulty,
             ~adapter.faulty => PrologueInv',
             ~adapter.faulty /\ pc \in Exchange =>
                 /\ Balance(call, wire'.inp, wire'.out, adapter')
                 /\ ResultIsLast(wire'.out, adapter')
                 /\ pc = "drain" => CountOf(wire'.out, Events) = 0
      PROVE  ConformInv'
  BY <1>2, <1>4, <1>5 DEF ConformInv, ConformingIsAccepted, ExchangeInv
<1>6. \A F : /\ CountOf(wire.inp, F) \in Nat /\ CountOf(wire.out, F) \in Nat
             /\ wire.inp # <<>> =>
                   /\ CountOf(Tail(wire.inp), F) \in Nat
                   /\ CountOf(wire.inp, F) =
                         CountOf(Tail(wire.inp), F) + One(Head(wire.inp) \in F)
             /\ \A x \in Answers :
                   CountOf(Append(wire.out, x), F) = CountOf(wire.out, F) + One(x \in F)
  BY <1>1, PipeCounts
<1>7. \A x \in Answers : ResultIsLast(wire.out, adapter) /\ x = "ack" =>
          ResultIsLast(Append(wire.out, x), adapter)
  <2> DEFINE O == wire.out
  <2>1. O \in Seq(Answers)
    BY <1>1 DEF WireType
  <2> HIDE DEF O
  <2>2. \A x \in Answers : /\ Len(Append(O, x)) = Len(O) + 1 /\ Append(O, x)[Len(O) + 1] = x
                           /\ \A i \in 1 .. Len(O) : Append(O, x)[i] = O[i]
    BY <2>1, AppendProperties
  <2>3. Len(O) \in Nat
    BY <2>1, LenProperties
  <2>. QED
    BY <2>2, <2>3 DEF ResultIsLast, O, Results
  \* A handler under way has sent no result.
<1>8. ASSUME NEW x \in Answers, NEW a, CountOf(wire.out, Results) = 0,
             x \in Results => ((x = "waiting") <=> a.raised > 0)
      PROVE  ResultIsLast(Append(wire.out, x), a)
  <2> DEFINE O == wire.out
  <2>1. O \in Seq(Answers)
    BY <1>1 DEF WireType
  <2>2. \A i \in 1 .. Len(O) : O[i] \notin Results
    BY <1>8, <2>1, CountsOf
  <2> HIDE DEF O
  <2>3. /\ Len(Append(O, x)) = Len(O) + 1 /\ Append(O, x)[Len(O) + 1] = x
        /\ \A i \in 1 .. Len(O) : Append(O, x)[i] = O[i]
    BY <2>1, AppendProperties
  <2>4. Len(O) \in Nat
    BY <2>1, LenProperties
  <2>. QED
    BY <1>8, <2>2, <2>3, <2>4 DEF ResultIsLast, O
<1>9. ASSUME ~adapter.faulty, pc \in Exchange
      PROVE  /\ Balance(call, wire.inp, wire.out, adapter) /\ ResultIsLast(wire.out, adapter)
             /\ pc = "drain" => CountOf(wire.out, Events) = 0
             /\ pc = "drain" <=> call.result # "none"
             /\ pc \notin Prologue
  BY <1>4, <1>9 DEF ExchangeInv, Exchange, Prologue, Unlaunched
<1>10. CASE ServeProbe
  <2>1. PICK frame \in {"probe", "bad"} :
          wire' = [wire EXCEPT !.inp = Tail(@), !.out = Append(@, frame)]
    BY <1>10 DEF ServeProbe, Says, Taken
  <2>2. /\ wire'.inp = Tail(wire.inp) /\ wire'.out = Append(wire.out, frame)
        /\ wire.inp # <<>> /\ Head(wire.inp) = "probe" /\ UNCHANGED adapter
    BY <1>1, <1>10, <2>1 DEF WireType, ServeProbe, Request
  <2>3. ~(~adapter.faulty /\ pc \in Exchange)
    <3>1. CountOf(wire.inp, {"probe"}) = CountOf(Tail(wire.inp), {"probe"}) + 1
      BY <1>6, <2>2 DEF One
    <3>2. CountOf(Tail(wire.inp), {"probe"}) \in Nat
      BY <1>6, <2>2
    <3>. QED
      BY <1>9, <3>1, <3>2 DEF Balance
  <2>4. Tail(<<"probe">>) = <<>> /\ Append(<<>>, frame) = <<frame>>
    OBVIOUS
  <2>5. ~adapter.faulty => PrologueInv'
    BY <1>2, <1>4, <2>2, <2>4 DEF PrologueInv, Fresh
  <2>. QED
    BY <1>5, <2>2, <2>3, <2>5
<1>11. CASE ServeExecute
  <2>1. /\ wire'.inp = Tail(wire.inp) /\ wire'.out = wire.out /\ wire.inp # <<>>
        /\ Head(wire.inp) = "execute"
    BY <1>1, <1>11 DEF WireType, ServeExecute, Request, Taken
  <2>2. /\ adapter'.handler = "running" /\ adapter'.emitted = adapter.emitted
        /\ adapter'.raised = adapter.raised /\ adapter'.faulty = adapter.faulty
    BY <1>1, <1>11 DEF ProcessType, ServeExecute
  <2>3. ~adapter.faulty => pc \notin Prologue
    <3>1. Head(<<"probe">>) = "probe"
      OBVIOUS
    <3>. QED
      BY <1>4, <2>1, <3>1 DEF PrologueInv
  <2>4. ~adapter.faulty => PrologueInv'
    BY <1>2, <2>3 DEF PrologueInv, Prologue
  <2>5. /\ CountOf(wire.inp, {"probe"}) = CountOf(wire'.inp, {"probe"})
        /\ CountOf(wire.inp, {"cancel"}) = CountOf(wire'.inp, {"cancel"})
        /\ CountOf(wire.inp, {"execute"}) = CountOf(wire'.inp, {"execute"}) + 1
        /\ CountOf(wire'.inp, {"execute"}) \in Nat /\ CountOf(wire.out, Results) \in Nat
    BY <1>6, <2>1 DEF One
  <2>6. ASSUME ~adapter.faulty, pc \in Exchange
        PROVE  /\ Balance(call, wire'.inp, wire'.out, adapter')
               /\ ResultIsLast(wire'.out, adapter')
    <3>1. adapter.handler = "none"
      BY <1>9, <2>5, <2>6 DEF Balance, One
    <3>2. Balance(call, wire'.inp, wire'.out, adapter')
      BY <1>9, <2>1, <2>2, <2>5, <2>6, <3>1 DEF Balance, One
    <3>. QED
      BY <1>9, <2>1, <2>2, <2>6, <3>2 DEF ResultIsLast
  <2>. QED
    BY <1>5, <1>9, <2>1, <2>2, <2>4, <2>6
<1>12. CASE ServeCancel
  <2>1. /\ wire'.inp = Tail(wire.inp) /\ wire'.out = Append(wire.out, "ack")
        /\ wire.inp # <<>> /\ Head(wire.inp) = "cancel"
    BY <1>1, <1>12 DEF WireType, ServeCancel, Request, Taken, Says
  <2>2. /\ adapter'.handler = "none" <=> adapter.handler = "none"
        /\ adapter'.emitted = adapter.emitted
        /\ adapter'.raised = adapter.raised /\ adapter'.faulty = adapter.faulty
    BY <1>1, <1>12 DEF ProcessType, ServeCancel
  <2>3. ~adapter.faulty => pc \notin Prologue
    <3>1. Head(<<"probe">>) = "probe"
      OBVIOUS
    <3>. QED
      BY <1>4, <2>1, <3>1 DEF PrologueInv
  <2>4. ~adapter.faulty => PrologueInv'
    BY <1>2, <2>3 DEF PrologueInv, Prologue
  <2>5. "ack" \in Answers /\ "ack" \notin Results /\ "ack" \notin Events
    BY DEF Answers, Results, Events
  <2>0. \A F : /\ CountOf(wire.inp, F) = CountOf(wire'.inp, F) + One("cancel" \in F)
               /\ CountOf(wire'.out, F) = CountOf(wire.out, F) + One("ack" \in F)
               /\ CountOf(wire'.inp, F) \in Nat /\ CountOf(wire.out, F) \in Nat
    BY <1>6, <2>1, <2>5
  <2>6. /\ CountOf(wire.inp, {"probe"}) = CountOf(wire'.inp, {"probe"})
        /\ CountOf(wire.inp, {"cancel"}) = CountOf(wire'.inp, {"cancel"}) + 1
        /\ CountOf(wire.inp, {"execute"}) = CountOf(wire'.inp, {"execute"})
        /\ CountOf(wire'.inp, {"cancel"}) \in Nat /\ CountOf(wire.out, {"ack"}) \in Nat
        /\ CountOf(wire'.out, {"ack"}) = CountOf(wire.out, {"ack"}) + 1
        /\ CountOf(wire'.out, Results) = CountOf(wire.out, Results)
        /\ CountOf(wire'.out, Events) = CountOf(wire.out, Events)
        /\ CountOf(wire'.out, {"question"}) = CountOf(wire.out, {"question"})
        /\ CountOf(wire'.out, {"probe", "bad"}) = CountOf(wire.out, {"probe", "bad"})
    BY <2>0, <2>5 DEF One
  <2>7. ASSUME ~adapter.faulty, pc \in Exchange
        PROVE  /\ Balance(call, wire'.inp, wire'.out, adapter')
               /\ ResultIsLast(wire'.out, adapter')
    <3>1. Balance(call, wire'.inp, wire'.out, adapter')
      BY <1>9, <2>2, <2>6, <2>7 DEF Balance
    <3>. QED
      BY <1>7, <1>9, <2>1, <2>2, <2>5, <2>7, <3>1 DEF ResultIsLast
  <2>. QED
    BY <1>5, <1>9, <2>2, <2>4, <2>6, <2>7
<1>13. CASE HandlerEmits
  <2>1. PICK event \in Events :
          /\ wire' = [wire EXCEPT !.out = Append(@, event)]
          /\ adapter' = [adapter EXCEPT !.emitted = @ + 1,
                                        !.raised = IF event = "question" THEN @ + 1 ELSE @]
    BY <1>13 DEF HandlerEmits, Says
  <2>2. wire'.inp = wire.inp /\ wire'.out = Append(wire.out, event)
    BY <1>1, <2>1 DEF WireType
  <2>3. /\ adapter'.handler = adapter.handler /\ adapter'.faulty = adapter.faulty
        /\ adapter'.emitted = adapter.emitted + 1
        /\ adapter'.raised = IF event = "question" THEN adapter.raised + 1 ELSE adapter.raised
        /\ adapter.handler # "none"
    BY <1>1, <1>13, <2>1 DEF ProcessType, HandlerEmits, Handling
  <2>4. ~adapter.faulty => pc \notin Prologue
    BY <1>4, <2>3 DEF PrologueInv, Fresh
  <2>5. ~adapter.faulty => PrologueInv'
    BY <1>2, <2>4 DEF PrologueInv, Prologue
  <2>6. /\ event \in Answers /\ event \notin Results /\ event \notin {"ack"}
        /\ event \notin {"probe", "bad"}
        /\ event \in {"question"} <=> event = "question"
    BY DEF Answers, Results, Events
  <2>0. \A F : /\ CountOf(wire'.out, F) = CountOf(wire.out, F) + One(event \in F)
               /\ CountOf(wire.inp, F) \in Nat /\ CountOf(wire.out, F) \in Nat
    BY <1>6, <2>2, <2>6
  <2>7. /\ CountOf(wire'.out, {"ack"}) = CountOf(wire.out, {"ack"})
        /\ CountOf(wire'.out, Results) = CountOf(wire.out, Results)
        /\ CountOf(wire'.out, Events) = CountOf(wire.out, Events) + 1
        /\ CountOf(wire'.out, {"question"}) =
              CountOf(wire.out, {"question"}) + (IF event = "question" THEN 1 ELSE 0)
        /\ CountOf(wire'.out, {"probe", "bad"}) = CountOf(wire.out, {"probe", "bad"})
        /\ CountOf(wire.inp, {"execute"}) \in Nat /\ CountOf(wire.out, Results) \in Nat
        /\ CountOf(wire.out, Events) \in Nat /\ CountOf(wire.out, {"question"}) \in Nat
    <3>1. One(event \in Events) = 1 /\ One(event \in Results) = 0 /\ One(event \in {"ack"}) = 0
          /\ One(event \in {"probe", "bad"}) = 0
      BY <2>6 DEF One
    <3>2. One(event \in {"question"}) = IF event = "question" THEN 1 ELSE 0
      BY <2>6 DEF One
    <3>. QED
      BY <2>0, <3>1, <3>2
  <2>8. call.count \in Nat /\ call.blocking \in Nat
    BY <1>1, SessionAssumption DEF ClientType
  <2>9. ASSUME ~adapter.faulty, pc \in Exchange
        PROVE  /\ Balance(call, wire'.inp, wire'.out, adapter')
               /\ ResultIsLast(wire'.out, adapter') /\ pc # "drain"
    <3>1. call.result = "none" /\ CountOf(wire.out, Results) = 0
      BY <1>9, <2>3, <2>7, <2>9 DEF Balance, One
    <3>2. Balance(call, wire'.inp, wire'.out, adapter')
      BY <1>9, <2>2, <2>3, <2>7, <2>8, <2>9, SMTT(30) DEF Balance, One
    <3>3. ResultIsLast(wire'.out, adapter')
      BY <1>8, <2>2, <2>6, <3>1
    <3>. QED
      BY <1>9, <2>9, <3>1, <3>2, <3>3
  <2>. QED
    BY <1>5, <2>3, <2>5, <2>9
<1>14. CASE HandlerAborts \/ HandlerCompletes
  <2>1. PICK frame \in Results :
          /\ wire' = [wire EXCEPT !.out = Append(@, frame)]
          /\ (frame = "waiting") <=> adapter.raised > 0
    BY <1>1, <1>14 DEF HandlerAborts, HandlerCompletes, Says, Results, ProcessType
  <2>2. wire'.inp = wire.inp /\ wire'.out = Append(wire.out, frame)
    BY <1>1, <2>1 DEF WireType
  <2>3. /\ adapter'.handler = "none" /\ adapter'.faulty = adapter.faulty
        /\ adapter'.emitted = adapter.emitted /\ adapter'.raised = adapter.raised
        /\ adapter.handler # "none"
    BY <1>1, <1>14 DEF ProcessType, HandlerAborts, HandlerCompletes, Handling
  <2>4. ~adapter.faulty => pc \notin Prologue
    BY <1>4, <2>3 DEF PrologueInv, Fresh
  <2>5. ~adapter.faulty => PrologueInv'
    BY <1>2, <2>4 DEF PrologueInv, Prologue
  <2>6. /\ frame \in Answers /\ frame \notin Events /\ frame \notin {"ack"}
        /\ frame \notin {"probe", "bad"} /\ frame \notin {"question"}
    BY DEF Answers, Results, Events
  <2>7. /\ CountOf(wire'.out, {"ack"}) = CountOf(wire.out, {"ack"})
        /\ CountOf(wire'.out, Results) = CountOf(wire.out, Results) + 1
        /\ CountOf(wire'.out, Events) = CountOf(wire.out, Events)
        /\ CountOf(wire'.out, {"question"}) = CountOf(wire.out, {"question"})
        /\ CountOf(wire'.out, {"probe", "bad"}) = CountOf(wire.out, {"probe", "bad"})
        /\ CountOf(wire.inp, {"execute"}) \in Nat /\ CountOf(wire.out, Results) \in Nat
    BY <1>6, <2>2, <2>6 DEF One
  <2>8. ASSUME ~adapter.faulty, pc \in Exchange
        PROVE  /\ Balance(call, wire'.inp, wire'.out, adapter')
               /\ ResultIsLast(wire'.out, adapter') /\ pc # "drain"
    <3>1. call.result = "none" /\ CountOf(wire.out, Results) = 0
      BY <1>9, <2>3, <2>7, <2>8 DEF Balance, One
    <3>2. Balance(call, wire'.inp, wire'.out, adapter')
      BY <1>9, <2>2, <2>3, <2>7, <2>8 DEF Balance, One
    <3>3. ResultIsLast(wire'.out, adapter')
      BY <1>8, <2>1, <2>2, <2>3, <2>6, <3>1
    <3>. QED
      BY <1>9, <2>8, <3>1, <3>2, <3>3
  <2>. QED
    BY <1>5, <2>3, <2>5, <2>8
<1>15. CASE ServeEOF \/ SpawnKid \/ KidExits
  <2>1. /\ UNCHANGED wire
        /\ adapter'.emitted = adapter.emitted
        /\ adapter'.raised = adapter.raised /\ adapter'.faulty = adapter.faulty
        /\ adapter'.handler = "none" <=> adapter.handler = "none"
    BY <1>1, <1>15 DEF ServeEOF, SpawnKid, KidExits, ProcessType
  <2>2. ~adapter.faulty => PrologueInv'
    BY <1>2, <1>4, <2>1 DEF PrologueInv, Fresh
  <2>3. ASSUME ~adapter.faulty, pc \in Exchange
        PROVE  /\ Balance(call, wire'.inp, wire'.out, adapter')
               /\ ResultIsLast(wire'.out, adapter')
    BY <1>9, <2>1, <2>3 DEF Balance, ResultIsLast
  <2>. QED
    BY <1>5, <1>9, <2>1, <2>2, <2>3
<1>. QED
  BY <1>3, <1>10, <1>11, <1>12, <1>13, <1>14, <1>15 DEF Served

\* What the client reads of a conforming adapter up to its result is in order.
LEMMA AwaitingConforms ==
    ASSUME IInv, ConformInv, Awaiting
    PROVE  ConformInv'
<1>1. ClientType /\ WireType /\ ProcessType /\ SignalType
  BY DEF IInv, TypeInv
<1>2. UNCHANGED adapter
  BY DEF Awaiting, ConsumeEvent, RecordFails, CheckpointFails, ConsumeAck, ConsumeResult,
         StdinUnclosable, Undecodable, EndsWithoutResult, ObserveCancellation, WriteCancel,
         CancelUnwritable, Interrupted, ClientUnchanged
<1> SUFFICES ASSUME ~adapter.faulty
             PROVE  ConformingIsAccepted' /\ PrologueInv' /\ ExchangeInv'
  BY <1>2 DEF ConformInv
<1>3. ConformingIsAccepted /\ ExchangeInv
  BY DEF ConformInv
<1>4. ASSUME pc' \notin Prologue PROVE PrologueInv'
  BY <1>4 DEF PrologueInv, Prologue
<1>5. ASSUME pc' = "stop", call'.verdict # "protocol_error"
      PROVE  ConformingIsAccepted' /\ PrologueInv' /\ ExchangeInv'
  BY <1>4, <1>5 DEF ConformingIsAccepted, ExchangeInv, Exchange, Prologue, Unlaunched
<1>6. ASSUME pc \in Exchange
      PROVE  /\ Balance(call, wire.inp, wire.out, adapter) /\ ResultIsLast(wire.out, adapter)
             /\ pc = "drain" => CountOf(wire.out, Events) = 0
             /\ pc = "drain" <=> call.result # "none"
             /\ pc = "await" /\ sig.grace = "off" => ~call.asked
             /\ pc = "cancel_write" => ~call.asked /\ sig.grace # "off"
  BY <1>3, <1>6 DEF ExchangeInv
  \* What is left to show when the call goes on.
<1>7. ASSUME pc' \in Exchange, Balance(call', wire'.inp, wire'.out, adapter),
             ResultIsLast(wire'.out, adapter), call'.verdict = call.verdict,
             pc' = "drain" => CountOf(wire'.out, Events) = 0,
             (pc' = "drain") <=> (call'.result # "none"),
             pc' = "await" /\ sig'.grace = "off" => ~call'.asked,
             pc' = "cancel_write" => ~call'.asked /\ sig'.grace # "off"
      PROVE  ConformingIsAccepted' /\ PrologueInv' /\ ExchangeInv'
  BY <1>2, <1>3, <1>4, <1>7
     DEF ConformingIsAccepted, ExchangeInv, Exchange, Prologue, Unlaunched
<1> DEFINE f == Head(wire.out)
           rest == Tail(wire.out)
           seen == [call EXCEPT !.count = @ + 1,
                                !.blocking = IF f = "question" THEN @ + 1 ELSE @]
<1>8. ASSUME pc = "await", wire.out # <<>>
      PROVE  /\ f \in Answers \ {"probe", "bad"} /\ ResultIsLast(rest, adapter)
             /\ f \in Events =>
                   seen.count <= MaxEvents /\ Balance(seen, wire.inp, rest, adapter)
             /\ f = "ack" =>
                   /\ call.asked /\ ~call.acked
                   /\ Balance([call EXCEPT !.acked = TRUE], wire.inp, rest, adapter)
             /\ f \in Results =>
                   /\ CountOf(rest, Events) = 0 /\ ValidBlocking(f)
                   /\ Balance([call EXCEPT !.result = f], wire.inp, rest, adapter)
  BY <1>1, <1>6, <1>8, FrameIsOwed DEF Exchange
<1>9. CASE ConsumeEvent
  <2>1. pc = "await" /\ wire.out # <<>> /\ f \in Events
    BY <1>9 DEF ConsumeEvent, Frame, Next1
  <2>2. seen.count <= MaxEvents /\ seen.count \in Nat
    BY <1>1, <1>8, <2>1, SessionAssumption DEF ClientType
  <2>3. /\ call' = seen /\ wire' = [wire EXCEPT !.out = rest]
        /\ UNCHANGED <<pc, sig>>
    <3>1. ~(seen.count > MaxEvents)
      BY <2>2, SessionAssumption
    <3>. QED
      BY <1>9, <3>1 DEF ConsumeEvent, Next1, Read
  <2>4. wire'.inp = wire.inp /\ wire'.out = rest
    BY <1>1, <2>3 DEF WireType
  <2>5. call'.verdict = call.verdict /\ call'.asked = call.asked /\ call'.result = call.result
    BY <1>1, <2>3 DEF ClientType
  <2> HIDE DEF f, rest, seen
  <2>. QED
    BY <1>6, <1>7, <1>8, <2>1, <2>3, <2>4, <2>5 DEF Exchange
<1>10. CASE ConsumeAck
  <2>1. pc = "await" /\ wire.out # <<>> /\ f = "ack"
    BY <1>10 DEF ConsumeAck, Frame, Next1
  <2> DEFINE c == [call EXCEPT !.acked = TRUE]
  <2>2. call' = c /\ wire' = [wire EXCEPT !.out = rest] /\ UNCHANGED <<pc, sig>>
    BY <1>8, <1>10, <2>1 DEF ConsumeAck, Read
  <2>3. wire'.inp = wire.inp /\ wire'.out = rest
    BY <1>1, <2>2 DEF WireType
  <2>4. call'.verdict = call.verdict /\ call'.asked = call.asked /\ call'.result = call.result
    BY <1>1, <2>2 DEF ClientType
  <2> HIDE DEF f, rest, c
  <2>5. Balance(c, wire.inp, rest, adapter)
    BY <1>8, <2>1 DEF c
  <2>. QED
    BY <1>6, <1>7, <1>8, <2>1, <2>2, <2>3, <2>4, <2>5 DEF Exchange
<1>11. CASE ConsumeResult
  <2>1. pc = "await" /\ wire.out # <<>> /\ f \in Results
    BY <1>11 DEF ConsumeResult, Frame, Next1
  <2> DEFINE c == [call EXCEPT !.result = f]
  <2>2. /\ pc' = "drain" /\ call' = c /\ wire' = [wire EXCEPT !.eof = TRUE, !.out = rest]
    BY <1>8, <1>11, <2>1 DEF ConsumeResult, Next1
  <2>3. wire'.inp = wire.inp /\ wire'.out = rest
    BY <1>1, <2>2 DEF WireType
  <2>4. call'.verdict = call.verdict /\ call'.result = f /\ f # "none"
    BY <1>1, <2>1, <2>2 DEF ClientType, Results
  <2> HIDE DEF f, rest, c
  <2>5. Balance(c, wire.inp, rest, adapter)
    BY <1>8, <2>1 DEF c
  <2>. QED
    BY <1>7, <1>8, <2>1, <2>2, <2>3, <2>4, <2>5 DEF Exchange
<1>12. CASE Undecodable
  <2>1. pc = "await" /\ wire.out # <<>> /\ f \in {"bad", "probe"}
    BY <1>12 DEF Undecodable, Frame, Next1
  <2>. QED
    BY <1>8, <2>1
<1>13. CASE WriteCancel
  <2>1. /\ pc = "cancel_write" /\ pc' = "await" /\ sig' = sig
        /\ call' = [call EXCEPT !.asked = TRUE]
        /\ wire' = [wire EXCEPT !.inp = Append(@, "cancel")]
    BY <1>13 DEF WriteCancel, Write
  <2>2. wire'.inp = Append(wire.inp, "cancel") /\ wire'.out = wire.out
    BY <1>1, <2>1 DEF WireType
  <2>3. /\ call'.verdict = call.verdict /\ call'.asked = TRUE /\ call'.result = call.result
        /\ call'.acked = call.acked /\ call'.count = call.count
        /\ call'.blocking = call.blocking
    BY <1>1, <2>1 DEF ClientType
  <2>4. \A F : /\ CountOf(wire'.inp, F) = CountOf(wire.inp, F) + One("cancel" \in F)
               /\ CountOf(wire.inp, F) \in Nat /\ CountOf(wire.out, F) \in Nat
    BY <1>1, <2>2, PipeCounts DEF Requests
  <2>5. /\ One("cancel" \in {"probe"}) = 0 /\ One("cancel" \in {"cancel"}) = 1
        /\ One("cancel" \in {"execute"}) = 0
    BY DEF One
  <2>6. /\ CountOf(wire'.inp, {"probe"}) = CountOf(wire.inp, {"probe"})
        /\ CountOf(wire'.inp, {"cancel"}) = CountOf(wire.inp, {"cancel"}) + 1
        /\ CountOf(wire'.inp, {"execute"}) = CountOf(wire.inp, {"execute"})
        /\ CountOf(wire.inp, {"cancel"}) \in Nat /\ CountOf(wire.out, {"ack"}) \in Nat
    BY <2>4, <2>5
  <2>7. ~call.asked /\ sig.grace # "off"
    BY <1>6, <2>1 DEF Exchange, ExchangeInv
  <2>8. Balance(call', wire'.inp, wire'.out, adapter)
    BY <1>6, <2>1, <2>2, <2>3, <2>6, <2>7 DEF Balance, One, Exchange
  <2>. QED
    BY <1>6, <1>7, <2>1, <2>2, <2>3, <2>7, <2>8 DEF Exchange
<1>14. CASE ObserveCancellation
  <2>1. /\ pc \in {"await", "drain", "stderr", "wait"} /\ UNCHANGED <<call, wire>>
        /\ pc' = (IF pc = "await" THEN "cancel_write" ELSE pc)
        /\ sig.grace = "off" /\ sig'.grace # "off"
    BY <1>1, <1>14 DEF ObserveCancellation, Unobserved, Observed, SignalType
  <2>2. CASE pc \in {"await", "drain"}
    BY <1>6, <1>7, <2>1, <2>2 DEF Exchange
  <2>3. CASE pc \in {"stderr", "wait"}
    BY <1>3, <1>4, <2>1, <2>3
       DEF ConformingIsAccepted, ExchangeInv, Exchange, Prologue, Unlaunched
  <2>. QED
    BY <2>1, <2>2, <2>3
<1>15. CASE \/ RecordFails \/ CheckpointFails \/ StdinUnclosable \/ EndsWithoutResult
            \/ CancelUnwritable \/ Interrupted
  <2>1. pc' = "stop"
    BY <1>15 DEF RecordFails, CheckpointFails, StdinUnclosable, EndsWithoutResult,
         CancelUnwritable, Interrupted, Abandon, FinishFailure, StopWith, StopReading
  <2>2. call'.verdict # "protocol_error"
    BY <1>1, <1>3, <1>15 DEF ClientType, ConformingIsAccepted, RecordFails, CheckpointFails,
         StdinUnclosable, EndsWithoutResult, CancelUnwritable, Interrupted, Abandon,
         FinishFailure, StopWith, StopReading
  <2>. QED
    BY <1>5, <2>1, <2>2
<1>. QED
  BY <1>9, <1>10, <1>11, <1>12, <1>13, <1>14, <1>15 DEF Awaiting

\* After the result comes the acknowledgement that is owed, and nothing else.
LEMMA ConcludingConforms ==
    ASSUME IInv, ConformInv, Concluding
    PROVE  ConformInv'
<1>1. ClientType /\ WireType /\ ProcessType
  BY DEF IInv, TypeInv
<1>2. UNCHANGED adapter
  BY DEF Concluding, DrainFrame, DrainEnds, StderrDrained, WaitEnds, StopExecute,
         VerifyAndSweep, SweepUnverifiable, RecordSuppressed, RecordStop, RecordOutcome,
         AppendFails, Finish, ClientUnchanged, EndUnchanged
<1> SUFFICES ASSUME ~adapter.faulty
             PROVE  ConformingIsAccepted' /\ PrologueInv' /\ ExchangeInv'
  BY <1>2 DEF ConformInv
<1>3. ConformingIsAccepted /\ ExchangeInv
  BY DEF ConformInv
<1>4. CASE DrainFrame
  <2>1. pc = "drain" /\ wire.out # <<>> /\ UNCHANGED sig
    BY <1>4 DEF DrainFrame, Frame
  <2>2. /\ Balance(call, wire.inp, wire.out, adapter) /\ ResultIsLast(wire.out, adapter)
        /\ CountOf(wire.out, Events) = 0 /\ call.result # "none"
    BY <1>3, <2>1 DEF ExchangeInv, Exchange
  <2> DEFINE f == Head(wire.out)
             rest == Tail(wire.out)
             c == [call EXCEPT !.acked = TRUE]
  <2>3. f \notin Events /\ CountOf(rest, Events) = 0
    <3>1. /\ CountOf(wire.out, Events) = CountOf(rest, Events) + One(f \in Events)
          /\ CountOf(rest, Events) \in Nat
      BY <1>1, <2>1, PipeCounts
    <3>. QED
      BY <2>2, <3>1 DEF One
  <2>4. /\ f = "ack" /\ call.asked /\ ~call.acked
        /\ Balance(c, wire.inp, rest, adapter) /\ ResultIsLast(rest, adapter)
    BY <1>1, <2>1, <2>2, <2>3, FrameIsOwed DEF Answers
  <2>5. call' = c /\ wire' = [wire EXCEPT !.out = rest] /\ UNCHANGED pc
    BY <1>4, <2>4 DEF DrainFrame, AckOwed, Next1, Read
  <2>6. wire'.inp = wire.inp /\ wire'.out = rest
    BY <1>1, <2>5 DEF WireType
  <2>7. call'.verdict = call.verdict /\ call'.result = call.result
    BY <1>1, <2>5 DEF ClientType
  <2> HIDE DEF f, rest, c
  <2>. QED
    BY <1>2, <1>3, <2>1, <2>2, <2>3, <2>4, <2>5, <2>6, <2>7
       DEF ConformingIsAccepted, PrologueInv, ExchangeInv, Prologue, Exchange, Unlaunched
<1>5. CASE ~DrainFrame
  <2>1. pc' \notin Exchange \cup Prologue
    BY <1>5 DEF Concluding, DrainEnds, StderrDrained, WaitEnds, StopExecute,
         VerifyAndSweep, SweepUnverifiable, RecordSuppressed, RecordStop, RecordOutcome,
         AppendFails, Finish, FinishFailure, StopWith, Returns, Exchange, Prologue, Unlaunched
  <2>2. call'.verdict # "protocol_error"
    BY <1>1, <1>3, <1>5 DEF ClientType, ConformingIsAccepted, Concluding, DrainEnds,
         StderrDrained, WaitEnds, StopExecute, VerifyAndSweep, SweepUnverifiable,
         RecordSuppressed, RecordStop, RecordOutcome, AppendFails, Finish, FinishFailure,
         StopWith, Returns, ClientUnchanged, EndUnchanged
  <2>. QED
    BY <2>1, <2>2 DEF ConformingIsAccepted, PrologueInv, ExchangeInv, Prologue
<1>. QED
  BY <1>4, <1>5

\* No order of events, result, cancellation, acknowledgement and exit makes the
\* client accuse an adapter that keeps to the protocol of breaking it.
THEOREM ConformingAccepted == Spec => []ConformingIsAccepted
<1>1. Init => ConformInv
  <2>. SUFFICES ASSUME Init PROVE ConformInv
    OBVIOUS
  <2>. QED
    BY DEF Init, ConformInv, ConformingIsAccepted, PrologueInv, ExchangeInv, Prologue, Exchange,
           Fresh, Unlaunched
<1>2. IInv /\ ConformInv /\ [Next]_vars => ConformInv'
  <2>1. CASE Next
    BY <2>1, NextByPart, LaunchingConforms, AroundConforms, ServedConforms, ProbingConforms,
       AwaitingConforms, ConcludingConforms
  <2>2. ASSUME ConformInv, UNCHANGED vars PROVE ConformInv'
    BY <2>2 DEF vars, ConformInv, ConformingIsAccepted, PrologueInv, ExchangeInv, Fresh, Balance,
           ResultIsLast
  <2>. QED
    BY <2>1, <2>2
<1>3. Spec /\ []IInv => []ConformInv
  BY <1>1, <1>2, PTL DEF Spec
<1>4. ConformInv => ConformingIsAccepted
  BY DEF ConformInv, ConformingIsAccepted
<1>. QED
  BY <1>3, <1>4, SessionIsInductive, PTL
=============================================================================
