------------------------------ MODULE Journal ------------------------------
(***************************************************************************)
(* journal.jsonl as a file: appends under the state lock, the idempotency  *)
(* rule, the torn final line and its repair, failing writes and syncs, a   *)
(* process that dies and a machine that loses power.                       *)
(*                                                                         *)
(* A line of the file is what lies between two newlines.  An event is      *)
(* written as three chunks -- the beginning of its JSON text, the rest of  *)
(* it, the newline -- so that the cases a tear can leave are told apart:   *)
(* nothing, a text that does not parse, a whole text without its newline.  *)
(***************************************************************************)
EXTENDS Naturals, Sequences

CONSTANTS
    Proc,       \* processes; one that has ended may start again as another
    Commands,   \* what they append: [type, key, val]
    Torn,       \* the beginning of an event's text: it does not parse
    NoKey,      \* the key of a type that has none (log, progress)
    Tears,      \* after how many chunks a write may stop short
    MaxLines,   \* bound on the length of the file
    None

ASSUME TearsAssumption == Tears \subseteq {1, 2}

ASSUME JournalAssumption == MaxLines \in Nat /\ None \notin Proc

VARIABLES
    file,     \* the journal as any process reads it
    disk,     \* the journal on the medium, which lags behind
    acked,    \* the events whose Append returned a receipt
    lock, pc, me

vars == <<file, disk, acked, lock, pc, me>>

Labels == {"idle", "append", "write", "sync", "resync", "repair"}

\* The event a process appends, the file it loaded under the lock, and the
\* number of chunks written since.
Idle == [ev |-> None, base |-> <<>>, at |-> 0]

Init ==
    /\ file = <<>>
    /\ disk = <<>>
    /\ acked = {}
    /\ lock = None
    /\ pc = [p \in Proc |-> "idle"]
    /\ me = [p \in Proc |-> Idle]

-----------------------------------------------------------------------------
(* The file's contents. *)

\* decodeEvent: the line is one whole JSON text.
Decodable(line) == Len(line.body) = 1 /\ line.body[1] # Torn

Event(line) == line.body[1]

\* Every line decodes and has its place's number.
Loadable(f) == \A i \in 1..Len(f) : Decodable(f[i]) /\ Event(f[i]).seq = i

\* ReadJournal and Replay: every line but the last decodes, the last does not.
TornTail(f) ==
    /\ f # <<>>
    /\ ~Decodable(f[Len(f)])
    /\ Loadable(SubSeq(f, 1, Len(f) - 1))

\* Mutant: a torn tail is tolerated by a writer as it is by a reader.
AcceptsTornTail(f) == Loadable(f) \/ TornTail(f)

\* loadJournal accepts the file.
Accepts(f) == Loadable(f)

\* The events ReadJournal returns.
Durable(f) ==
    LET n == IF TornTail(f) THEN Len(f) - 1 ELSE Len(f)
    IN [i \in 1..n |-> Event(f[i])]

\* Mutant: the record of a repair is not counted.
NextSeqOfEvents(f) ==
    LET Counts(line) == Event(line).type # "repair"
    IN Len(SelectSeq(f, Counts)) + 1

NextSeq(f) == Len(f) + 1

\* The file once n chunks of an event's line have been appended to f.
Put(f, e, n) ==
    LET chunk == IF n = 1 THEN Torn ELSE e
    IN IF f = <<>> \/ f[Len(f)].nl
       THEN Append(f, [body |-> <<chunk>>, nl |-> n = 3])
       ELSE [f EXCEPT ![Len(f)] =
                [body |-> Append(@.body, chunk), nl |-> n = 3]]

-----------------------------------------------------------------------------
(* Append, under the state lock. *)

Move(p, l, m) == pc' = [pc EXCEPT ![p] = l] /\ me' = [me EXCEPT ![p] = m]

End(p) == Move(p, "idle", Idle) /\ lock' = None

Existing(e) ==
    {i \in 1..Len(Durable(file)) :
        Durable(file)[i].type = e.type /\ Durable(file)[i].key = e.key}

\* loadJournal refuses the file, or an event of the same type and key makes
\* the append a retry if its payload is the same and a conflict otherwise, or
\* the event gets the next sequence number.
LoadAndAppend(p, e) ==
    /\ lock \in {None, p}
    /\ UNCHANGED <<file, disk, acked>>
    /\ LET same == IF e.key = NoKey THEN {} ELSE Existing(e)
       IN \/ /\ ~Accepts(file)
             /\ End(p)
          \/ /\ Accepts(file)
             /\ \E i \in same : Event(file[i]).val # e.val
             /\ End(p)
          \/ /\ Accepts(file)
             /\ \E i \in same :
                    /\ Event(file[i]).val = e.val
                    /\ Move(p, "resync", [Idle EXCEPT !.ev = Event(file[i])])
             /\ lock' = p
          \/ /\ Accepts(file)
             /\ same = {}
             /\ Len(file) < MaxLines
             /\ Move(p, "write",
                     [ev |-> [type |-> e.type, key |-> e.key, val |-> e.val,
                              seq |-> NextSeq(file)],
                      base |-> file, at |-> 0])
             /\ lock' = p

\* A transaction of a command.
Begin(p) ==
    /\ pc[p] = "idle"
    /\ \E c \in Commands : LoadAndAppend(p, c)

\* Replay goes on to append journal.tail_truncated.
AppendRepair(p) == pc[p] = "append" /\ LoadAndAppend(p, me[p].ev)

\* The next chunks reach the file; a reader may look in between.
Write(p) ==
    /\ pc[p] = "write"
    /\ \E n \in Tears \cup {3} :
        /\ n > me[p].at
        /\ file' = Put(me[p].base, me[p].ev, n)
        /\ Move(p, IF n = 3 THEN "sync" ELSE "write", [me[p] EXCEPT !.at = n])
    /\ UNCHANGED <<disk, acked, lock>>

WriteFails(p) ==
    /\ pc[p] = "write"
    /\ End(p)
    /\ UNCHANGED <<file, disk, acked>>

\* Mutant: the retry of a recorded event is acknowledged without a sync.
SyncUnlessRetry(p) ==
    /\ pc[p] \in {"sync", "resync"}
    /\ disk' = IF pc[p] = "resync" THEN disk ELSE file
    /\ acked' = acked \cup {me[p].ev}
    /\ End(p)
    /\ UNCHANGED file

\* The receipt is given once the file is synced, for a retry as well.
Sync(p) ==
    /\ pc[p] \in {"sync", "resync"}
    /\ disk' = file
    /\ acked' = acked \cup {me[p].ev}
    /\ End(p)
    /\ UNCHANGED file

\* ErrJournalDurabilityUnconfirmed: the line stays, without a receipt.
SyncFails(p) ==
    /\ pc[p] \in {"sync", "resync"}
    /\ End(p)
    /\ UNCHANGED <<file, disk, acked>>

-----------------------------------------------------------------------------
(* Repair. *)

\* Planning reads without the lock; a tail that another process is just
\* writing looks torn as well.
PlanRepair(p) ==
    /\ pc[p] = "idle"
    /\ TornTail(file)
    /\ Move(p, "repair", Idle)
    /\ UNCHANGED <<file, disk, acked, lock>>

\* Mutant: the truncation trusts what planning read without the lock.
RepairAsPlanned(p) ==
    /\ pc[p] = "repair"
    /\ lock = None
    /\ file # <<>>
    /\ file' = SubSeq(file, 1, Len(file) - 1)
    /\ lock' = p
    /\ Move(p, "append",
            [Idle EXCEPT !.ev =
                [type |-> "repair", key |-> Len(file),
                 val |-> Len(file[Len(file)].body)]])
    /\ UNCHANGED <<disk, acked>>

\* Replay looks again under the lock and truncates; the lock is kept for the
\* append of journal.tail_truncated.
Repair(p) ==
    /\ pc[p] = "repair"
    /\ lock = None
    /\ TornTail(file)
    /\ file' = SubSeq(file, 1, Len(file) - 1)
    /\ lock' = p
    /\ Move(p, "append",
            [Idle EXCEPT !.ev =
                [type |-> "repair", key |-> Len(file),
                 val |-> Len(file[Len(file)].body)]])
    /\ UNCHANGED <<disk, acked>>

\* Nothing to repair after all, or a journal Replay refuses as corrupt.
RepairNothing(p) ==
    /\ pc[p] = "repair"
    /\ lock = None
    /\ ~TornTail(file)
    /\ End(p)
    /\ UNCHANGED <<file, disk, acked>>

-----------------------------------------------------------------------------
(* Failures. *)

\* The process is killed; what it wrote stays in the page cache.
Crash(p) ==
    /\ pc[p] # "idle"
    /\ Move(p, "idle", Idle)
    /\ lock' = IF lock = p THEN None ELSE lock
    /\ UNCHANGED <<file, disk, acked>>

\* The kernel writes the page cache back when it likes.
WriteBack ==
    /\ disk # file
    /\ disk' = file
    /\ UNCHANGED <<file, acked, lock, pc, me>>

\* The machine stops: what has not been written back is missing.
PowerLoss ==
    /\ file' = disk
    /\ lock' = None
    /\ pc' = [p \in Proc |-> "idle"]
    /\ me' = [p \in Proc |-> Idle]
    /\ UNCHANGED <<disk, acked>>

Next ==
    \/ WriteBack
    \/ PowerLoss
    \/ \E p \in Proc :
        \/ Begin(p) \/ Write(p) \/ WriteFails(p)
        \/ Sync(p) \/ SyncFails(p)
        \/ PlanRepair(p) \/ Repair(p) \/ RepairNothing(p) \/ AppendRepair(p)
        \/ Crash(p)

Spec == Init /\ [][Next]_vars
-----------------------------------------------------------------------------
(* Properties. *)

EventType ==
    [type : {c.type : c \in Commands} \cup {"repair"},
     key  : {c.key : c \in Commands} \cup 1..MaxLines,
     val  : {c.val : c \in Commands} \cup 1..MaxLines,
     seq  : 1..MaxLines]

\* The beginning of an event's text is no event.
ASSUME TornAssumption == Torn \notin EventType

LineType == [body : Seq(EventType \cup {Torn}), nl : BOOLEAN]

\* The record of a repair, before it has a number.
RepairType == [type : {"repair"}, key : 1..MaxLines, val : 1..MaxLines]

Memory ==
    [ev   : EventType \cup RepairType \cup {None},
     base : Seq(LineType),
     at   : 0..3]

\* The types of the files, of the receipts and of what a process remembers.
TypeOK ==
    /\ file \in Seq(LineType)
    /\ disk \in Seq(LineType)
    /\ acked \subseteq EventType
    /\ lock \in Proc \cup {None}
    /\ pc \in [Proc -> Labels]
    /\ me \in [Proc -> Memory]

\* A file that the program and its failures can leave: it loads, so that the
\* events are numbered from 1 without a gap or a duplicate, or it does but for
\* its torn tail; and no line is empty.
Wellformed(f) ==
    /\ f \in Seq(LineType)
    /\ Len(f) <= MaxLines
    /\ \A i \in 1..Len(f) : Len(f[i].body) \in 1..MaxLines
    /\ Loadable(f) \/ TornTail(f)

FileInv == Wellformed(file) /\ Wellformed(disk)

\* The lock is held exactly by the process inside a transaction.
Inside == {"append", "write", "sync", "resync"}

LockInv == \A p \in Proc : pc[p] \in Inside <=> lock = p

\* A transaction numbers its event after a file that loads, which has none of
\* the same type and key, and what is in the file is that file and as much of
\* the event as was written.
Writes(p) ==
    LET m == me[p] IN
    /\ m.ev \in EventType
    /\ m.at \in 0..2
    /\ Wellformed(m.base) /\ Loadable(m.base)
    /\ Len(m.base) < MaxLines
    /\ m.ev.seq = Len(m.base) + 1
    /\ m.ev.key = NoKey \/ \A i \in 1..Len(m.base) :
          ~(Event(m.base[i]).type = m.ev.type /\ Event(m.base[i]).key = m.ev.key)
    /\ file = IF m.at = 0 THEN m.base ELSE Put(m.base, m.ev, m.at)

StepInv ==
    \A p \in Proc :
        /\ pc[p] = "append" => me[p].ev \in RepairType
        /\ pc[p] = "write" => Writes(p)
        /\ pc[p] \in {"sync", "resync"} => me[p].ev \in EventType

\* Sequence numbers are allocated from 1 without a gap or a duplicate, whatever
\* is torn: the file has none, and the event being written has the number that
\* follows the lines it was loaded with, which are all that is there beside it,
\* although repairs are planned without the lock, a write may have left a whole
\* event without its newline, and a power loss undoes appends and truncations.
IInv == TypeOK /\ FileInv /\ LockInv /\ StepInv

\* A receipt is for ever: whatever dies, fails or loses power from now on, the
\* event is read back at its place, also when the receipt was given to a
\* retry of an append whose outcome had not been known.
AckedSurvives ==
    \A e \in acked, f \in {disk, file} :
        e.seq <= Len(Durable(f)) /\ Durable(f)[e.seq] = e

\* Nothing the program and its failures do to the file makes it corrupt
\* (ErrJournalCorrupt for good): it loads, or its repair is possible.
AlwaysRepairable == \A f \in {disk, file} : Loadable(f) \/ TornTail(f)

Last(S) == CHOOSE n \in S : \A m \in S : m <= n

\* The journal's readers and writers see an EventLog.
Log == INSTANCE EventLog WITH
    Events <- EventType,
    log <- Durable(file),
    stable <- Last({0} \cup {e.seq : e \in acked})

\* The file implements the log: at-most-once recording of keyed events and
\* no loss of an acknowledged one, through tears, repairs and retries.
ImplementsLog == Log!LSpec

\* DESIGN.md, torn tails: "the truncated event was never observed by
\* anything", so none that Replay truncates has been acknowledged.
TruncatedWasNeverObserved ==
    [][\A p \in Proc : Repair(p)
            => \A i \in 1..Len(file[Len(file)].body) :
                    file[Len(file)].body[i] \notin acked]_vars
=============================================================================
