--------------------------- MODULE Journal_proofs ---------------------------
(***************************************************************************)
(* Proofs about Journal, for any set of processes, any commands and any    *)
(* bound on the length.  IInv is inductive whatever the tears: what a      *)
(* transaction was numbered after still is the beginning of the file.      *)
(* AckInv, which says that what was acknowledged is still read, is         *)
(* inductive relative to it when no tear spares exactly the text of an     *)
(* event; with such a tear it does not hold, as a run of Journal shows.    *)
(***************************************************************************)
EXTENDS Journal, SequenceTheorems, TLAPS
-----------------------------------------------------------------------------
(* What a reader may rely on, if a tear never spares a whole event. *)

\* No write stops exactly between an event's text and its newline.
NoWholeTear == Tears \subseteq {1}

\* A line without its newline is noticed: it does not decode.
Ended(f) == \A i \in 1..Len(f) : Decodable(f[i]) => f[i].nl

EndedInv ==
    /\ Ended(file) /\ Ended(disk)
    /\ \A p \in Proc : pc[p] = "write" => Ended(me[p].base) /\ me[p].at # 2

\* f has the event at its place.
Has(f, e) == e.seq <= Len(Durable(f)) /\ Durable(f)[e.seq] = e

\* What is to be acknowledged is in the file.
SyncInv ==
    \A p \in Proc : pc[p] \in {"sync", "resync"} => Loadable(file) /\ Has(file, me[p].ev)

\* The medium lags behind.
Prefix(s, t) == Len(s) <= Len(t) /\ \A i \in 1..Len(s) : s[i] = t[i]

LagInv == Prefix(Durable(disk), Durable(file))

\* The last acknowledged number exists.
Numbers == {0} \cup {e.seq : e \in acked}

LastInv == \E n \in Numbers : \A m \in Numbers : m <= n

AckInv ==
    EndedInv /\ SyncInv /\ LagInv /\ LastInv /\ AckedSurvives

-----------------------------------------------------------------------------
(* The file's contents. *)

\* A torn tail, line by line.
LEMMA TornLines ==
    ASSUME NEW f \in Seq(LineType)
    PROVE  /\ TornTail(f) <=>
                /\ f # <<>>
                /\ ~Decodable(f[Len(f)])
                /\ \A i \in 1..Len(f) - 1 : Decodable(f[i]) /\ Event(f[i]).seq = i
           /\ f # <<>> =>
                LET g == SubSeq(f, 1, Len(f) - 1) IN
                /\ g \in Seq(LineType) /\ Len(g) = Len(f) - 1
                /\ \A i \in 1..Len(g) : g[i] = f[i]
           /\ Loadable(f) => ~TornTail(f)
  <1>1. ASSUME f # <<>>
        PROVE  LET g == SubSeq(f, 1, Len(f) - 1) IN
               /\ g \in Seq(LineType) /\ Len(g) = Len(f) - 1
               /\ \A i \in 1..Len(g) : g[i] = f[i]
    <2>1. Len(f) \in Nat \ {0} /\ \A i \in 1..Len(f) : f[i] \in LineType
      BY <1>1, EmptySeq, ElementOfSeq
    <2>2. 1 \in Int /\ Len(f) - 1 \in Int /\ \A i \in 1..Len(f) - 1 : f[i] \in LineType
      BY <2>1
    <2> DEFINE n == Len(f) - 1
    <2>3. /\ SubSeq(f, 1, n) \in Seq(LineType)
          /\ Len(SubSeq(f, 1, n)) = IF 1 <= n THEN n - 1 + 1 ELSE 0
          /\ \A i \in 1..n - 1 + 1 : SubSeq(f, 1, n)[i] = f[1 + i - 1]
      <3> HIDE DEF n
      <3> QED
        BY <2>2, SubSeqProperties DEF n
    <2>4. n \in Nat /\ Len(SubSeq(f, 1, n)) = n
      <3>1. n \in Nat
        BY <2>1
      <3> HIDE DEF n
      <3> QED
        BY <2>3, <3>1
    <2>5. ASSUME NEW i \in 1..n
          PROVE  SubSeq(f, 1, n)[i] = f[i]
      <3>1. i \in 1..n - 1 + 1 /\ 1 + i - 1 = i
        BY <2>4
      <3> QED
        BY <2>3, <3>1
    <2> QED
      BY <2>3, <2>4, <2>5
  <1>2. TornTail(f) <=>
          /\ f # <<>>
          /\ ~Decodable(f[Len(f)])
          /\ \A i \in 1..Len(f) - 1 : Decodable(f[i]) /\ Event(f[i]).seq = i
    <2>1. CASE f = <<>>
      BY <2>1 DEF TornTail
    <2>2. CASE f # <<>>
      BY <1>1, <2>2 DEF TornTail, Loadable
    <2> QED
      BY <2>1, <2>2
  <1>3. Loadable(f) => ~TornTail(f)
    <2>1. f # <<>> => Len(f) \in 1..Len(f)
      BY EmptySeq
    <2> QED
      BY <1>2, <2>1 DEF Loadable
  <1> QED
    BY <1>1, <1>2, <1>3

\* A line that decodes is an event.
LEMMA Decoded ==
    ASSUME NEW line \in LineType, Decodable(line)
    PROVE  Event(line) \in EventType
  BY TornAssumption DEF Decodable, Event, LineType

\* The events that a reader sees are the lines that decode.
LEMMA DurableFields ==
    ASSUME NEW f, Wellformed(f)
    PROVE  /\ Durable(f) \in Seq(EventType)
           /\ Len(Durable(f)) = IF Loadable(f) THEN Len(f) ELSE Len(f) - 1
           /\ Len(Durable(f)) \in 0..Len(f)
           /\ \A i \in 1..Len(Durable(f)) :
                /\ Decodable(f[i]) /\ Durable(f)[i] = Event(f[i])
                /\ Durable(f)[i] \in EventType /\ Durable(f)[i].seq = i
  <1> DEFINE n == IF TornTail(f) THEN Len(f) - 1 ELSE Len(f)
             d == [i \in 1..n |-> Event(f[i])]
  <1>0. f \in Seq(LineType) /\ Len(f) \in Nat /\ (f # <<>> => Len(f) \in Nat \ {0})
    BY EmptySeq DEF Wellformed
  <1>1. Durable(f) = d
    BY DEF Durable
  <1>2. n = (IF Loadable(f) THEN Len(f) ELSE Len(f) - 1) /\ n \in 0..Len(f)
    BY <1>0, TornLines DEF Wellformed, TornTail
  <1>3. \A i \in 1..n : Decodable(f[i]) /\ Event(f[i]).seq = i /\ f[i] \in LineType
    BY <1>0, TornLines, ElementOfSeq DEF Wellformed, Loadable
  <1>4. \A i \in 1..n : Event(f[i]) \in EventType
    BY <1>3, Decoded
  <1> HIDE DEF n
  <1>5. d \in [1..n -> EventType] /\ n \in Nat
    BY <1>2, <1>4
  <1>6. d \in Seq(EventType) /\ Len(d) = n
    BY <1>5, SeqDef
  <1> QED
    BY <1>1, <1>2, <1>3, <1>4, <1>6

\* What is appended to a file that loads can be taken off again.
LEMMA PutShape ==
    ASSUME NEW f, Wellformed(f), Loadable(f), Len(f) < MaxLines,
           NEW e \in EventType, e.seq = Len(f) + 1, NEW n \in 1..3
    PROVE  Wellformed(Put(f, e, n))
  <1> DEFINE chunk == IF n = 1 THEN Torn ELSE e
             g == Put(f, e, n)
  <1>0. /\ f \in Seq(LineType) /\ Len(f) \in Nat /\ MaxLines \in Nat
        /\ f # <<>> => Len(f) \in 1..Len(f)
        /\ \A i \in 1..Len(f) : /\ f[i] \in LineType /\ Len(f[i].body) \in 1..MaxLines
                                /\ Decodable(f[i]) /\ Event(f[i]).seq = i
    BY JournalAssumption, EmptySeq, ElementOfSeq DEF Wellformed, Loadable
  <1>1. chunk \in EventType \cup {Torn}
    OBVIOUS
  <1>2. CASE f = <<>> \/ f[Len(f)].nl
    <2> DEFINE line == [body |-> <<chunk>>, nl |-> n = 3]
    <2>1. g = Append(f, line)
      BY <1>2 DEF Put
    <2>2. line \in LineType /\ Len(line.body) = 1 /\ line.body[1] = chunk
      BY <1>1 DEF LineType
    <2> HIDE DEF line
    <2>3. /\ g \in Seq(LineType) /\ g # <<>> /\ Len(g) = Len(f) + 1
          /\ \A i \in 1..Len(f) : g[i] = f[i]
          /\ g[Len(f) + 1] = line
      BY <1>0, <2>1, <2>2, AppendProperties
    <2> HIDE DEF g, chunk
    <2>6. /\ g \in Seq(LineType) /\ Len(g) <= MaxLines
          /\ \A i \in 1..Len(g) : Len(g[i].body) \in 1..MaxLines
      <3>1. Len(g) <= MaxLines /\ 1 \in 1..MaxLines
        BY <1>0, <2>3
      <3>2. ASSUME NEW i \in 1..Len(g)
            PROVE  Len(g[i].body) \in 1..MaxLines
        <4>1. i \in 1..Len(f) \/ i = Len(f) + 1
          BY <1>0, <2>3
        <4> QED
          BY <1>0, <2>2, <2>3, <3>1, <4>1
      <3> QED
        BY <2>3, <3>1, <3>2
    <2>4. CASE n = 1
      <3>1. ~Decodable(line)
        BY <2>2, <2>4 DEF Decodable, chunk
      <3>2. TornTail(g)
        <4>1. /\ g # <<>> /\ ~Decodable(g[Len(g)])
              /\ \A i \in 1..Len(g) - 1 : Decodable(g[i]) /\ Event(g[i]).seq = i
          BY <1>0, <2>3, <3>1
        <4> QED
          BY <2>3, <4>1, TornLines
      <3> QED
        BY <2>6, <3>2 DEF Wellformed, g
    <2>5. CASE n # 1
      <3>1. Decodable(line) /\ Event(line) = e
        BY <2>2, <2>5, TornAssumption DEF Decodable, Event, chunk
      <3>2. Loadable(g)
        BY <1>0, <2>3, <3>1 DEF Loadable
      <3> QED
        BY <2>6, <3>2 DEF Wellformed, g
    <2> QED
      BY <2>4, <2>5
  <1>3. CASE f # <<>> /\ ~f[Len(f)].nl
    <2> DEFINE last == f[Len(f)]
               line == [body |-> Append(last.body, chunk), nl |-> n = 3]
    <2>1. g = [f EXCEPT ![Len(f)] = line]
      BY <1>3 DEF Put
    <2>2. last \in LineType /\ Len(last.body) = 1
      BY <1>0, <1>3 DEF Decodable
    <2>3. last.body \in Seq(EventType \cup {Torn})
      BY <2>2 DEF LineType
    <2>4. line \in LineType /\ Len(line.body) = 2
      <3> DEFINE b == Append(last.body, chunk)
      <3>1. b \in Seq(EventType \cup {Torn}) /\ Len(b) = 2
        <4> DEFINE T == EventType \cup {Torn}
                   s == last.body
        <4>1. s \in Seq(T) /\ Len(s) = 1 /\ chunk \in T
          BY <1>1, <2>2, <2>3
        <4> HIDE DEF T, s, chunk
        <4>2. Append(s, chunk) \in Seq(T) /\ Len(Append(s, chunk)) = Len(s) + 1
          BY <4>1, AppendProperties
        <4> QED
          BY <4>1, <4>2 DEF T, s
      <3> HIDE DEF b
      <3>2. [body |-> b, nl |-> n = 3] \in LineType
        BY <3>1 DEF LineType
      <3>3. line = [body |-> b, nl |-> n = 3]
        BY DEF b
      <3> QED
        BY <3>1, <3>2, <3>3
    <2> HIDE DEF line
    <2>5. /\ g \in Seq(LineType) /\ Len(g) = Len(f)
          /\ \A j \in 1..Len(f) : g[j] = IF j = Len(f) THEN line ELSE f[j]
      BY <1>0, <1>3, <2>1, <2>4, ExceptSeq
    <2> HIDE DEF g, chunk
    <2>6. ~Decodable(line)
      BY <2>4 DEF Decodable
    <2>7. TornTail(g)
      <3>1. g # <<>> /\ ~Decodable(g[Len(g)])
        BY <1>0, <1>3, <2>5, <2>6, EmptySeq
      <3>2. \A i \in 1..Len(g) - 1 : Decodable(g[i]) /\ Event(g[i]).seq = i
        BY <1>0, <2>5
      <3> QED
        BY <2>5, <3>1, <3>2, TornLines
    <2>8. \A i \in 1..Len(g) : Len(g[i].body) \in 1..MaxLines
      <3>1. 2 \in 1..MaxLines
        BY <1>0, <1>3
      <3> QED
        BY <1>0, <2>4, <2>5, <3>1
    <2> QED
      BY <1>0, <2>5, <2>7, <2>8 DEF Wellformed, g
  <1> QED
    BY <1>2, <1>3

\* A repair keeps every line but the torn one.
LEMMA Truncated ==
    ASSUME NEW f, Wellformed(f), TornTail(f)
    PROVE  LET g == SubSeq(f, 1, Len(f) - 1) IN
           /\ Wellformed(g) /\ Loadable(g)
           /\ Durable(g) = Durable(f)
           /\ Ended(f) => Ended(g)
  <1> DEFINE g == SubSeq(f, 1, Len(f) - 1)
  <1>1. f \in Seq(LineType) /\ f # <<>> /\ Len(f) \in Nat \ {0} /\ MaxLines \in Nat
    BY JournalAssumption, EmptySeq DEF Wellformed, TornTail
  <1>2. /\ g \in Seq(LineType) /\ Len(g) = Len(f) - 1
        /\ \A i \in 1..Len(g) : g[i] = f[i]
    BY <1>1, TornLines
  <1>3. Loadable(g)
    BY DEF TornTail
  <1> HIDE DEF g
  <1>4. Wellformed(g)
    BY <1>1, <1>2, <1>3 DEF Wellformed
  <1>5. Durable(g) = Durable(f)
    <2>1. ~Loadable(f) /\ ~TornTail(g)
      BY <1>1, <1>2, <1>3, TornLines
    <2>2. /\ Durable(g) \in Seq(EventType) /\ Len(Durable(g)) = Len(g)
          /\ \A i \in 1..Len(g) : Durable(g)[i] = Event(g[i])
      BY <1>3, <1>4, DurableFields
    <2>3. /\ Durable(f) \in Seq(EventType) /\ Len(Durable(f)) = Len(g)
          /\ \A i \in 1..Len(g) : Durable(f)[i] = Event(f[i])
      BY <1>2, <2>1, DurableFields
    <2> QED
      BY <1>2, <2>2, <2>3, SeqEqual
  <1>6. Ended(f) => Ended(g)
    BY <1>1, <1>2 DEF Ended
  <1> QED
    BY <1>3, <1>4, <1>5, <1>6 DEF g

\* What an append adds for a reader: nothing before the whole line is there.
LEMMA PutDurable ==
    ASSUME NEW f, Wellformed(f), Loadable(f), Ended(f), Len(f) < MaxLines,
           NEW e \in EventType, e.seq = Len(f) + 1, NEW n \in {1, 3}
    PROVE  /\ Ended(Put(f, e, n))
           /\ Durable(Put(f, e, n)) = IF n = 1 THEN Durable(f) ELSE Append(Durable(f), e)
           /\ n = 3 => Loadable(Put(f, e, n))
  <1> DEFINE chunk == IF n = 1 THEN Torn ELSE e
             line == [body |-> <<chunk>>, nl |-> n = 3]
             g == Put(f, e, n)
  <1>0. /\ f \in Seq(LineType) /\ Len(f) \in Nat
        /\ f # <<>> => Len(f) \in 1..Len(f)
        /\ \A i \in 1..Len(f) : Decodable(f[i]) /\ Event(f[i]).seq = i
    BY EmptySeq DEF Wellformed, Loadable
  <1>1. g = Append(f, line)
    BY <1>0 DEF Put, Ended
  <1>2. /\ line \in LineType /\ Len(line.body) = 1 /\ line.body[1] = chunk
        /\ line.nl = (n = 3)
    BY DEF LineType
  <1> HIDE DEF line
  <1>3. /\ g \in Seq(LineType) /\ g # <<>> /\ Len(g) = Len(f) + 1
        /\ \A i \in 1..Len(f) : g[i] = f[i]
        /\ g[Len(f) + 1] = line
    BY <1>0, <1>1, <1>2, AppendProperties
  <1>4. Wellformed(g)
    BY PutShape
  <1> HIDE DEF g
  <1>5. n = 1 => ~Decodable(line)
    BY <1>2 DEF Decodable
  <1>6. n = 3 => Decodable(line) /\ Event(line) = e
    BY <1>2, TornAssumption DEF Decodable, Event
  <1>7. Ended(g)
    <2> SUFFICES ASSUME NEW i \in 1..Len(g), Decodable(g[i])
                 PROVE  g[i].nl
      BY DEF Ended
    <2>1. i \in 1..Len(f) \/ i = Len(f) + 1
      BY <1>0, <1>3
    <2> QED
      BY <1>2, <1>3, <1>5, <2>1 DEF Ended
  <1>8. Loadable(g) <=> n = 3
    BY <1>0, <1>3, <1>5, <1>6 DEF Loadable
  <1>9. /\ Durable(f) \in Seq(EventType) /\ Len(Durable(f)) = Len(f)
        /\ \A i \in 1..Len(f) : Durable(f)[i] = Event(f[i])
    BY DurableFields
  <1>10. /\ Durable(g) \in Seq(EventType)
         /\ Len(Durable(g)) = IF n = 3 THEN Len(f) + 1 ELSE Len(f)
         /\ \A i \in 1..Len(Durable(g)) : Durable(g)[i] = Event(g[i])
    <2>1. Len(f) + 1 - 1 = Len(f) /\ n \in {1, 3}
      BY <1>0
    <2> QED
      BY <1>3, <1>4, <1>8, <2>1, DurableFields
  <1>11. CASE n = 1
    <2>1. Durable(g) = Durable(f)
      BY <1>3, <1>9, <1>10, <1>11, SeqEqual
    <2> QED
      BY <1>7, <1>11, <2>1 DEF g
  <1>12. CASE n = 3
    <2> DEFINE d == Append(Durable(f), e)
    <2>1. /\ d \in Seq(EventType) /\ Len(d) = Len(f) + 1
          /\ \A i \in 1..Len(f) : d[i] = Durable(f)[i]
          /\ d[Len(f) + 1] = e
      BY <1>9, AppendProperties
    <2>2. \A i \in 1..Len(f) + 1 : Durable(g)[i] = d[i]
      BY <1>0, <1>3, <1>6, <1>9, <1>10, <1>12, <2>1
    <2> HIDE DEF d
    <2>3. Durable(g) = d
      BY <1>10, <1>12, <2>1, <2>2, SeqEqual
    <2> QED
      BY <1>7, <1>8, <1>12, <2>3 DEF g, d
  <1> QED
    BY <1>11, <1>12

-----------------------------------------------------------------------------
(* The inductive invariant. *)

\* A step moves one process, and writes the file only if no other process is
\* inside a transaction.
LEMMA Preserve ==
    ASSUME IInv, NEW p \in Proc, NEW l \in Labels, NEW m \in Memory, Move(p, l, m),
           Wellformed(file'), Wellformed(disk'), acked' \subseteq EventType,
           lock' = IF l \in Inside THEN p ELSE IF lock = p THEN None ELSE lock,
           l \in Inside \/ file' # file => lock \in {None, p},
           l = "append" => m.ev \in RepairType,
           l = "write" => Writes(p)',
           l \in {"sync", "resync"} => m.ev \in EventType
    PROVE  IInv'
  <1>1. /\ pc \in [Proc -> Labels] /\ me \in [Proc -> Memory]
        /\ None \notin Proc /\ lock \in Proc \cup {None}
        /\ \A q \in Proc : pc[q] \in Inside <=> lock = q
    BY JournalAssumption DEF IInv, TypeOK, LockInv
  <1>2. /\ pc' \in [Proc -> Labels] /\ me' \in [Proc -> Memory]
        /\ pc'[p] = l /\ me'[p] = m
        /\ \A q \in Proc \ {p} : pc'[q] = pc[q] /\ me'[q] = me[q]
    BY <1>1 DEF Move
  <1>3. TypeOK' /\ FileInv'
    BY <1>1, <1>2 DEF TypeOK, FileInv, Wellformed
  <1>4. LockInv'
    BY <1>1, <1>2 DEF LockInv
  <1>5. ASSUME NEW q \in Proc \ {p}
        PROVE  /\ pc'[q] = "append" => me'[q].ev \in RepairType
               /\ pc'[q] = "write" => Writes(q)'
               /\ pc'[q] \in {"sync", "resync"} => me'[q].ev \in EventType
    <2>1. pc[q] = "write" => file' = file
      BY <1>1 DEF Inside
    <2> QED
      BY <1>2, <2>1 DEF IInv, StepInv, Writes
  <1>6. StepInv'
    BY <1>2, <1>5 DEF StepInv
  <1> QED
    BY <1>3, <1>4, <1>6 DEF IInv

\* The memories that a process can have.
LEMMA Memories ==
    ASSUME IInv, NEW p \in Proc
    PROVE  /\ Idle \in Memory
           /\ me[p] \in Memory /\ me[p].ev \in EventType \cup RepairType \cup {None}
           /\ \A e \in EventType \cup RepairType :
                /\ [Idle EXCEPT !.ev = e] \in Memory
                /\ [Idle EXCEPT !.ev = e].ev = e
           /\ \A n \in 0..3 :
                /\ [me[p] EXCEPT !.at = n] \in Memory
                /\ [me[p] EXCEPT !.at = n].at = n
                /\ [me[p] EXCEPT !.at = n].ev = me[p].ev
                /\ [me[p] EXCEPT !.at = n].base = me[p].base
  <1>1. me[p] \in Memory
    BY DEF IInv, TypeOK
  <1>2. Idle \in Memory
    BY EmptySeq DEF Memory, Idle
  <1>3. ASSUME NEW e \in EventType \cup RepairType
        PROVE  [Idle EXCEPT !.ev = e] \in Memory /\ [Idle EXCEPT !.ev = e].ev = e
    BY <1>2 DEF Memory
  <1>4. ASSUME NEW n \in 0..3
        PROVE  /\ [me[p] EXCEPT !.at = n] \in Memory
               /\ [me[p] EXCEPT !.at = n].at = n
               /\ [me[p] EXCEPT !.at = n].ev = me[p].ev
               /\ [me[p] EXCEPT !.at = n].base = me[p].base
    BY <1>1 DEF Memory
  <1>5. me[p].ev \in EventType \cup RepairType \cup {None}
    BY <1>1 DEF Memory
  <1> QED
    BY <1>1, <1>2, <1>3, <1>4, <1>5

\* A transaction that begins: it refuses the file, finds the event, or is to
\* write it.
LEMMA LoadStep ==
    ASSUME IInv, NEW p \in Proc, NEW e \in Commands \cup RepairType,
           pc[p] \in {"idle", "append"}, LoadAndAppend(p, e)
    PROVE  IInv'
  <1>0. /\ Wellformed(file) /\ Wellformed(disk) /\ acked \subseteq EventType
        /\ file' = file /\ disk' = disk /\ acked' = acked /\ lock \in {None, p}
    BY DEF IInv, FileInv, TypeOK, LoadAndAppend
  <1>1. CASE End(p)
    <2>1. Move(p, "idle", Idle) /\ lock' = None
      BY <1>1 DEF End
    <2>2. "idle" \in Labels /\ "idle" \notin Inside /\ Idle \in Memory
      BY Memories DEF Labels, Inside
    <2> QED
      BY <1>0, <2>1, <2>2, Preserve
  <1>2. ASSUME NEW i \in Existing(e), Accepts(file), lock' = p,
               Move(p, "resync", [Idle EXCEPT !.ev = Event(file[i])])
        PROVE  IInv'
    <2>1. Event(file[i]) \in EventType
      BY <1>0, <1>2, DurableFields DEF Existing
    <2>2. /\ [Idle EXCEPT !.ev = Event(file[i])] \in Memory
          /\ [Idle EXCEPT !.ev = Event(file[i])].ev \in EventType
      BY <2>1, Memories
    <2>3. "resync" \in Labels /\ "resync" \in Inside
      BY DEF Labels, Inside
    <2> HIDE DEF Idle
    <2> QED
      BY <1>0, <1>2, <2>2, <2>3, Preserve
  <1>3. CASE /\ Accepts(file) /\ Len(file) < MaxLines /\ lock' = p
             /\ e.key = NoKey \/ Existing(e) = {}
             /\ Move(p, "write",
                     [ev |-> [type |-> e.type, key |-> e.key, val |-> e.val,
                              seq |-> NextSeq(file)],
                      base |-> file, at |-> 0])
    <2> DEFINE v == [type |-> e.type, key |-> e.key, val |-> e.val, seq |-> NextSeq(file)]
               m == [ev |-> v, base |-> file, at |-> 0]
    <2>1. Len(file) \in Nat /\ MaxLines \in Nat
      BY <1>0, JournalAssumption, EmptySeq DEF Wellformed
    <2>2. NextSeq(file) \in 1..MaxLines /\ NextSeq(file) = Len(file) + 1
      BY <1>3, <2>1 DEF NextSeq
    <2>3. v \in EventType
      BY <2>2 DEF EventType, RepairType
    <2>4. m \in Memory
      BY <1>0, <2>3 DEF Memory, Wellformed
    <2>5. /\ m.ev = v /\ m.base = file /\ m.at = 0
          /\ v.seq = Len(file) + 1 /\ v.type = e.type /\ v.key = e.key
      BY <2>2
    <2> HIDE DEF v, m
    <2>6. me'[p] = m
      BY <1>3 DEF Move, IInv, TypeOK, m, v
    <2>7. v.key = NoKey \/ \A i \in 1..Len(file) :
            ~(Event(file[i]).type = v.type /\ Event(file[i]).key = v.key)
      <3>1. /\ Len(Durable(file)) = Len(file)
            /\ \A i \in 1..Len(file) : Durable(file)[i] = Event(file[i])
        BY <1>0, <1>3, DurableFields DEF Accepts
      <3> QED
        BY <1>3, <2>5, <3>1 DEF Existing
    <2>8. Writes(p)'
      BY <1>0, <1>3, <2>3, <2>5, <2>6, <2>7 DEF Writes, Accepts
    <2>9. "write" \in Labels /\ "write" \in Inside /\ Move(p, "write", m)
      BY <1>3 DEF Labels, Inside, m, v
    <2> QED
      BY <1>0, <1>3, <2>4, <2>8, <2>9, Preserve
  <1> QED
    BY <1>1, <1>2, <1>3 DEF LoadAndAppend

\* A step after which the process is outside a transaction.
LEMMA LeaveStep ==
    ASSUME IInv, NEW p \in Proc, NEW l \in {"idle", "repair"}, Move(p, l, Idle),
           file' = file, Wellformed(disk'), acked' \subseteq EventType,
           lock' = IF lock = p THEN None ELSE lock
    PROVE  IInv'
  <1>1. /\ l \in Labels /\ l \notin Inside /\ Idle \in Memory /\ Wellformed(file')
        /\ l \notin {"append", "write", "sync", "resync"}
    BY Memories DEF Labels, Inside, IInv, FileInv
  <1> HIDE DEF Idle
  <1> QED
    BY <1>1, Preserve

\* A step of the process that writes.
LEMMA WriteStep ==
    ASSUME IInv, NEW p \in Proc, Write(p)
    PROVE  IInv'
  <1>1. pc[p] = "write" /\ Writes(p) /\ lock = p /\ lock' = p
    BY DEF Write, IInv, StepInv, LockInv, Inside
  <1>2. PICK n \in Tears \cup {3} :
          /\ n > me[p].at
          /\ file' = Put(me[p].base, me[p].ev, n)
          /\ Move(p, IF n = 3 THEN "sync" ELSE "write", [me[p] EXCEPT !.at = n])
    BY DEF Write
  <1> DEFINE m == [me[p] EXCEPT !.at = n]
             l == IF n = 3 THEN "sync" ELSE "write"
  <1>3. n \in 1..3 /\ n \in 0..3
    BY TearsAssumption
  <1>4. m \in Memory /\ m.at = n /\ m.ev = me[p].ev /\ m.base = me[p].base
    BY <1>3, Memories
  <1>5. Wellformed(file')
    BY <1>1, <1>2, <1>3, PutShape DEF Writes
  <1>6. l \in Labels /\ l \in Inside /\ Move(p, l, m) /\ l # "append"
    BY <1>2 DEF Labels, Inside
  <1>7. m.ev \in EventType /\ Wellformed(disk') /\ acked' \subseteq EventType
    BY <1>1, <1>4 DEF Writes, Write, IInv, FileInv, TypeOK
  <1> HIDE DEF m
  <1>8. l = "write" => Writes(p)'
    <2>1. me'[p] = m
      BY <1>6 DEF Move, IInv, TypeOK
    <2>2. n # 3 => n \in 0..2 /\ n # 0
      BY <1>3
    <2> QED
      BY <1>1, <1>2, <1>4, <2>1, <2>2 DEF Writes
  <1> HIDE DEF l
  <1>9. lock' = IF l \in Inside THEN p ELSE IF lock = p THEN None ELSE lock
    BY <1>1, <1>6
  <1> QED
    BY <1>1, <1>4, <1>5, <1>6, <1>7, <1>8, <1>9, Preserve

\* A torn tail is taken off, and its repair is to be recorded.
LEMMA RepairStep ==
    ASSUME IInv, NEW p \in Proc, Repair(p)
    PROVE  IInv'
  <1> DEFINE r == [type |-> "repair", key |-> Len(file), val |-> Len(file[Len(file)].body)]
             m == [Idle EXCEPT !.ev = r]
  <1>1. /\ lock = None /\ TornTail(file) /\ lock' = p /\ disk' = disk /\ acked' = acked
        /\ file' = SubSeq(file, 1, Len(file) - 1)
        /\ Move(p, "append", m)
    BY DEF Repair
  <1>2. Wellformed(file) /\ Wellformed(disk) /\ acked \subseteq EventType
    BY DEF IInv, FileInv, TypeOK
  <1>3. Wellformed(file')
    BY <1>1, <1>2, Truncated
  <1>4. r \in RepairType
    <2>1. Len(file) \in 1..MaxLines /\ Len(file) \in 1..Len(file)
      BY <1>1, <1>2, JournalAssumption, EmptySeq DEF Wellformed, TornTail
    <2> QED
      BY <1>2, <2>1 DEF Wellformed, RepairType
  <1> HIDE DEF r
  <1>5. m \in Memory /\ m.ev \in RepairType
    BY <1>4, Memories
  <1>6. "append" \in Labels /\ "append" \in Inside
    BY DEF Labels, Inside
  <1> HIDE DEF m
  <1> QED
    BY <1>1, <1>2, <1>3, <1>5, <1>6, Preserve

\* A journal that is just created.
LEMMA InitialInvariant ==
    ASSUME Init
    PROVE  IInv
  <1>1. <<>> \in Seq(LineType) /\ Len(<<>>) = 0
    BY EmptySeq
  <1>2. Wellformed(<<>>)
    BY <1>1, JournalAssumption DEF Wellformed, Loadable
  <1>3. TypeOK
    BY <1>1 DEF Init, TypeOK, Labels, Memory, Idle
  <1>4. LockInv
    BY JournalAssumption DEF Init, LockInv, Inside
  <1>5. FileInv /\ StepInv
    BY <1>2 DEF Init, FileInv, StepInv
  <1> QED
    BY <1>3, <1>4, <1>5 DEF IInv

\* Every step of every process and of the machine.
LEMMA NextStep ==
    ASSUME IInv, [Next]_vars
    PROVE  IInv'
  <1>0. /\ Wellformed(file) /\ Wellformed(disk) /\ acked \subseteq EventType
        /\ \A p \in Proc : pc[p] \in Inside <=> lock = p
    BY DEF IInv, FileInv, TypeOK, LockInv
  <1>1. CASE UNCHANGED vars
    BY <1>1 DEF vars, IInv, TypeOK, FileInv, LockInv, StepInv, Writes
  <1>2. CASE WriteBack
    BY <1>0, <1>2
    DEF WriteBack, IInv, TypeOK, FileInv, LockInv, StepInv, Writes, Wellformed
  <1>3. CASE PowerLoss
    <2>1. \A p \in Proc : pc'[p] = "idle" /\ me'[p] = Idle
      BY <1>3 DEF PowerLoss
    <2>2. Idle \in Memory
      BY EmptySeq DEF Idle, Memory
    <2>3. TypeOK'
      BY <1>0, <1>3, <2>2 DEF PowerLoss, TypeOK, IInv, Labels
    <2>4. FileInv' /\ StepInv'
      BY <1>0, <1>3, <2>1 DEF PowerLoss, FileInv, StepInv
    <2>5. LockInv'
      BY <1>3, <2>1, JournalAssumption DEF PowerLoss, LockInv, Inside
    <2> QED
      BY <2>3, <2>4, <2>5 DEF IInv
  <1>4. ASSUME NEW p \in Proc, Begin(p) \/ AppendRepair(p)
        PROVE  IInv'
    <2>1. CASE Begin(p)
      BY <2>1, LoadStep DEF Begin
    <2>2. CASE AppendRepair(p)
      BY <2>2, LoadStep DEF AppendRepair, IInv, StepInv
    <2> QED
      BY <1>4, <2>1, <2>2
  <1>5. ASSUME NEW p \in Proc, WriteFails(p) \/ Sync(p) \/ SyncFails(p)
        PROVE  IInv'
    <2>1. lock = p
      BY <1>0, <1>5 DEF WriteFails, Sync, SyncFails, Inside
    <2>2. /\ Move(p, "idle", Idle) /\ lock' = None /\ file' = file
          /\ disk' \in {disk, file}
      BY <1>5 DEF WriteFails, Sync, SyncFails, End
    <2>3. acked' \subseteq EventType
      BY <1>0, <1>5 DEF WriteFails, Sync, SyncFails, IInv, StepInv
    <2> QED
      BY <1>0, <2>1, <2>2, <2>3, LeaveStep
  <1>6. ASSUME NEW p \in Proc, PlanRepair(p) \/ RepairNothing(p)
        PROVE  IInv'
    <2>1. lock # p
      BY <1>0, <1>6 DEF PlanRepair, RepairNothing, Inside
    <2> QED
      BY <1>0, <1>6, <2>1, LeaveStep DEF PlanRepair, RepairNothing, End
  <1>7. ASSUME NEW p \in Proc, Crash(p)
        PROVE  IInv'
    BY <1>0, <1>7, LeaveStep DEF Crash
  <1> QED
    BY <1>1, <1>2, <1>3, <1>4, <1>5, <1>6, <1>7, WriteStep, RepairStep DEF Next

-----------------------------------------------------------------------------
(* What a reader may rely on. *)

\* A log continues itself.
LEMMA PrefixReflexive == \A s : Prefix(s, s)
  BY DEF Prefix

\* What is read at its place in a log is read there in any that continues it.
LEMMA PrefixHas ==
    ASSUME NEW f, NEW g, Wellformed(f), Wellformed(g),
           Prefix(Durable(f), Durable(g)), NEW e \in EventType, Has(f, e)
    PROVE  Has(g, e)
  <1>1. Len(Durable(f)) \in Nat /\ Len(Durable(g)) \in Nat
    BY DurableFields, EmptySeq
  <1>2. e.seq \in Nat /\ 1 <= e.seq
    BY DEF EventType
  <1> QED
    BY <1>1, <1>2 DEF Prefix, Has

\* A step of a process that loses no event, and acknowledges at most one that
\* the file and the medium have.
LEMMA AckPreserve ==
    ASSUME IInv, AckInv, IInv', NEW p \in Proc, NEW l, NEW m, Move(p, l, m),
           Ended(file'), Ended(disk'), file' = file \/ lock \in {None, p},
           Prefix(Durable(disk), Durable(disk')),
           Prefix(Durable(disk'), Durable(file')),
           Prefix(Durable(file), Durable(file')),
           \/ acked' = acked
           \/ \E e \in EventType : acked' = acked \cup {e} /\ Has(disk', e) /\ Has(file', e),
           l = "write" => Ended(m.base) /\ m.at # 2,
           l \in {"sync", "resync"} => Loadable(file') /\ Has(file', m.ev)
    PROVE  AckInv'
  <1>1. /\ pc'[p] = l /\ me'[p] = m
        /\ \A q \in Proc \ {p} : pc'[q] = pc[q] /\ me'[q] = me[q]
    BY DEF Move, IInv, TypeOK
  <1>2. \A q \in Proc \ {p} : pc[q] \in Inside => file' = file
    BY JournalAssumption DEF IInv, LockInv
  <1>3. EndedInv'
    BY <1>1 DEF AckInv, EndedInv
  <1>4. SyncInv'
    <2> SUFFICES ASSUME NEW q \in Proc, pc'[q] \in {"sync", "resync"}
                 PROVE  Loadable(file') /\ Has(file', me'[q].ev)
      BY DEF SyncInv, Has
    <2>1. CASE q # p
      <3>1. pc[q] \in {"sync", "resync"} /\ file' = file /\ me'[q] = me[q]
        BY <1>1, <1>2, <2>1 DEF Inside
      <3> QED
        BY <3>1 DEF AckInv, SyncInv
    <2> QED
      BY <1>1, <2>1
  <1>5. LastInv'
    <2>1. CASE acked' = acked
      BY <2>1 DEF AckInv, LastInv, Numbers
    <2>2. ASSUME NEW e \in EventType, acked' = acked \cup {e}
          PROVE  LastInv'
      <3>1. PICK n \in Numbers : \A k \in Numbers : k <= n
        BY DEF AckInv, LastInv
      <3>2. Numbers' = Numbers \cup {e.seq} /\ e.seq \in Nat /\ Numbers \subseteq Nat
        BY <2>2 DEF Numbers, IInv, TypeOK, EventType
      <3>3. \A k \in Numbers \cup {e.seq} : k <= (IF n <= e.seq THEN e.seq ELSE n)
        BY <3>1, <3>2
      <3> QED
        BY <3>1, <3>2, <3>3 DEF LastInv
    <2> QED
      BY <2>1, <2>2
  <1>6. AckedSurvives'
    <2>1. /\ Wellformed(disk) /\ Wellformed(file) /\ acked \subseteq EventType
          /\ Wellformed(disk') /\ Wellformed(file')
      BY DEF IInv, FileInv, TypeOK
    <2>2. \A e \in acked : Has(disk', e) /\ Has(file', e)
      <3> TAKE e \in acked
      <3>1. Has(disk, e) /\ Has(file, e)
        BY DEF AckInv, AckedSurvives, Has
      <3> QED
        BY <2>1, <3>1, PrefixHas
    <2>3. \A e \in acked' : Has(disk', e) /\ Has(file', e)
      BY <2>2
    <2> QED
      BY <2>3 DEF AckedSurvives, Has
  <1> QED
    BY <1>3, <1>4, <1>5, <1>6 DEF AckInv, LagInv

\* A step that leaves the files and the receipts alone.
LEMMA AckQuiet ==
    ASSUME IInv, AckInv, IInv', NEW p \in Proc, NEW l, NEW m, Move(p, l, m),
           file' = file, disk' = disk, acked' = acked,
           l = "write" => Ended(m.base) /\ m.at # 2,
           l \in {"sync", "resync"} => Loadable(file) /\ Has(file, m.ev)
    PROVE  AckInv'
  BY AckPreserve, PrefixReflexive DEF AckInv, EndedInv, LagInv

\* A transaction that begins.
LEMMA AckLoad ==
    ASSUME IInv, AckInv, IInv', NEW p \in Proc, NEW e, LoadAndAppend(p, e)
    PROVE  AckInv'
  <1>0. file' = file /\ disk' = disk /\ acked' = acked /\ Wellformed(file)
    BY DEF LoadAndAppend, IInv, FileInv
  <1>1. CASE End(p)
    BY <1>0, <1>1, AckQuiet DEF End
  <1>2. ASSUME NEW i \in Existing(e), Accepts(file),
               Move(p, "resync", [Idle EXCEPT !.ev = Event(file[i])])
        PROVE  AckInv'
    <2>1. /\ i \in 1..Len(Durable(file)) /\ Durable(file)[i] = Event(file[i])
          /\ Event(file[i]).seq = i /\ Len(Durable(file)) \in Nat
      BY <1>0, <1>2, DurableFields, EmptySeq DEF Existing
    <2>2. [Idle EXCEPT !.ev = Event(file[i])].ev = Event(file[i])
      BY DEF Idle
    <2>3. Has(file, Event(file[i]))
      BY <2>1 DEF Has
    <2> QED
      BY <1>0, <1>2, <2>2, <2>3, AckQuiet DEF Accepts
  <1>3. ASSUME NEW v, Move(p, "write", [ev |-> v, base |-> file, at |-> 0])
        PROVE  AckInv'
    BY <1>0, <1>3, AckQuiet DEF AckInv, EndedInv
  <1> QED
    BY <1>1, <1>2, <1>3 DEF LoadAndAppend

\* What a transaction has written so far adds no event that a reader sees.
LEMMA WrittenSoFar ==
    ASSUME IInv, AckInv, NEW p \in Proc, pc[p] = "write"
    PROVE  Durable(file) = Durable(me[p].base)
  <1>1. Writes(p) /\ Ended(me[p].base) /\ me[p].at \in {0, 1}
    BY DEF IInv, StepInv, AckInv, EndedInv, Writes
  <1>2. CASE me[p].at = 0
    BY <1>1, <1>2 DEF Writes
  <1>3. CASE me[p].at = 1
    BY <1>1, <1>3, PutDurable DEF Writes
  <1> QED
    BY <1>1, <1>2, <1>3

\* The next chunks: the whole line, or again a part that does not decode.
LEMMA WriteGoes ==
    ASSUME NoWholeTear, IInv, AckInv, NEW p \in Proc, Write(p)
    PROVE  /\ Writes(p) /\ Ended(file') /\ lock = p
           /\ disk' = disk /\ acked' = acked
           /\ \/ Durable(file') = Durable(file)
              \/ /\ Durable(file') = Append(Durable(file), me[p].ev)
                 /\ Loadable(file')
           /\ \E n \in {1, 3} :
                /\ Move(p, IF n = 3 THEN "sync" ELSE "write", [me[p] EXCEPT !.at = n])
                /\ n = 3 => /\ Durable(file') = Append(Durable(file), me[p].ev)
                            /\ Loadable(file')
  <1>1. /\ pc[p] = "write" /\ Writes(p) /\ Ended(me[p].base) /\ lock = p
        /\ disk' = disk /\ acked' = acked
    BY DEF Write, IInv, StepInv, LockInv, Inside, AckInv, EndedInv
  <1>2. PICK n \in Tears \cup {3} :
          /\ file' = Put(me[p].base, me[p].ev, n)
          /\ Move(p, IF n = 3 THEN "sync" ELSE "write", [me[p] EXCEPT !.at = n])
    BY DEF Write
  <1>3. n \in {1, 3}
    BY DEF NoWholeTear
  <1>4. Durable(file) = Durable(me[p].base)
    BY <1>1, WrittenSoFar
  <1>5. /\ Ended(file')
        /\ Durable(file') = IF n = 1 THEN Durable(file) ELSE Append(Durable(file), me[p].ev)
        /\ n = 3 => Loadable(file')
    BY <1>1, <1>2, <1>3, <1>4, PutDurable DEF Writes
  <1> QED
    BY <1>1, <1>2, <1>3, <1>5

\* A log that an event is appended to.
LEMMA AppendedLog ==
    ASSUME NEW f, NEW g, NEW e \in EventType, Wellformed(f), Wellformed(g), Loadable(g),
           Durable(g) = Append(Durable(f), e)
    PROVE  Prefix(Durable(f), Durable(g)) /\ (e.seq = Len(Durable(g)) => Has(g, e))
  <1> DEFINE s == Durable(f)
  <1>1. s \in Seq(EventType) /\ Len(s) \in Nat
    BY DurableFields, EmptySeq
  <1> HIDE DEF s
  <1>2. /\ Len(Append(s, e)) = Len(s) + 1 /\ \A i \in 1..Len(s) : Append(s, e)[i] = s[i]
        /\ Append(s, e)[Len(s) + 1] = e
    BY <1>1, AppendProperties
  <1> QED
    BY <1>1, <1>2 DEF Prefix, Has, s

\* Every step of every process and of the machine.
LEMMA AckStep ==
    ASSUME NoWholeTear, IInv, AckInv, IInv', [Next]_vars
    PROVE  AckInv'
  <1>0. /\ Wellformed(file) /\ Wellformed(disk) /\ Wellformed(file')
        /\ Ended(file) /\ Ended(disk) /\ acked \subseteq EventType
        /\ Prefix(Durable(disk), Durable(file))
        /\ \A p \in Proc : pc[p] \in Inside <=> lock = p
    BY DEF IInv, FileInv, TypeOK, LockInv, AckInv, EndedInv, LagInv
  <1>1. CASE UNCHANGED vars
    <2>1. EndedInv' /\ SyncInv'
      BY <1>1 DEF vars, AckInv, EndedInv, SyncInv, Has
    <2>2. LagInv' /\ LastInv' /\ AckedSurvives'
      BY <1>1 DEF vars, AckInv, LagInv, LastInv, Numbers, AckedSurvives
    <2> QED
      BY <2>1, <2>2 DEF AckInv
  <1>2. CASE WriteBack
    <2>1. file' = file /\ disk' = file /\ acked' = acked /\ pc' = pc /\ me' = me
      BY <1>2 DEF WriteBack
    <2>2. EndedInv' /\ SyncInv'
      BY <1>0, <2>1 DEF AckInv, EndedInv, SyncInv, Has
    <2>3. LagInv' /\ LastInv'
      BY <2>1, PrefixReflexive DEF AckInv, LagInv, LastInv, Numbers
    <2>4. AckedSurvives'
      BY <2>1 DEF AckInv, AckedSurvives
    <2> QED
      BY <2>2, <2>3, <2>4 DEF AckInv
  <1>3. CASE PowerLoss
    <2>1. /\ file' = disk /\ disk' = disk /\ acked' = acked
          /\ \A p \in Proc : pc'[p] = "idle"
      BY <1>3 DEF PowerLoss
    <2>2. EndedInv' /\ SyncInv'
      BY <1>0, <2>1 DEF EndedInv, SyncInv
    <2>3. LagInv' /\ LastInv'
      BY <2>1, PrefixReflexive DEF AckInv, LagInv, LastInv, Numbers
    <2>4. AckedSurvives'
      BY <2>1 DEF AckInv, AckedSurvives
    <2> QED
      BY <2>2, <2>3, <2>4 DEF AckInv
  <1>4. ASSUME NEW p \in Proc, Begin(p) \/ AppendRepair(p)
        PROVE  AckInv'
    BY <1>4, AckLoad DEF Begin, AppendRepair
  <1>5. ASSUME NEW p \in Proc, Write(p)
        PROVE  AckInv'
    <2>1. /\ Writes(p) /\ Ended(file') /\ lock = p /\ disk' = disk /\ acked' = acked
          /\ \/ Durable(file') = Durable(file)
             \/ /\ Durable(file') = Append(Durable(file), me[p].ev)
                /\ Loadable(file')
      BY <1>5, WriteGoes
    <2>2. Prefix(Durable(file), Durable(file'))
      BY <1>0, <2>1, AppendedLog, PrefixReflexive DEF Writes
    <2>3. Prefix(Durable(disk), Durable(file'))
      <3>1. /\ Len(Durable(disk)) \in Nat /\ Len(Durable(file)) \in Nat
            /\ Len(Durable(file')) \in Nat
        BY <1>0, DurableFields, EmptySeq
      <3> QED
        BY <1>0, <2>2, <3>1 DEF Prefix
    <2>4. PICK n \in {1, 3} :
            /\ Move(p, IF n = 3 THEN "sync" ELSE "write", [me[p] EXCEPT !.at = n])
            /\ n = 3 => /\ Durable(file') = Append(Durable(file), me[p].ev)
                        /\ Loadable(file')
      BY <1>5, WriteGoes
    <2> DEFINE m == [me[p] EXCEPT !.at = n]
               l == IF n = 3 THEN "sync" ELSE "write"
    <2>5. n \in 0..3 /\ m.at = n /\ m.ev = me[p].ev /\ m.base = me[p].base
      BY Memories
    <2>6. l = "write" => Ended(m.base) /\ m.at # 2
      BY <1>5, <2>5 DEF AckInv, EndedInv, Write
    <2>7. l \in {"sync", "resync"} => Loadable(file') /\ Has(file', m.ev)
      <3> SUFFICES ASSUME n = 3
                   PROVE  Loadable(file') /\ Has(file', m.ev)
        OBVIOUS
      <3>1. Loadable(file') /\ Durable(file') = Append(Durable(file), me[p].ev)
        BY <2>4
      <3>2. Durable(file) = Durable(me[p].base) /\ Len(Durable(me[p].base)) = Len(me[p].base)
        BY <1>5, <2>1, WrittenSoFar, DurableFields DEF Write, Writes
      <3>3. /\ me[p].ev \in EventType /\ me[p].ev.seq = Len(me[p].base) + 1
            /\ Durable(file) \in Seq(EventType)
        BY <1>0, <2>1, DurableFields DEF Writes
      <3>4. Len(Durable(file')) = Len(Durable(file)) + 1
        BY <3>1, <3>3, AppendProperties
      <3>5. me[p].ev.seq = Len(Durable(file'))
        BY <3>2, <3>3, <3>4
      <3>6. Has(file', me[p].ev)
        BY <1>0, <3>1, <3>3, <3>5, AppendedLog
      <3> QED
        BY <2>5, <3>1, <3>6
    <2>8. Move(p, l, m)
      BY <2>4
    <2> HIDE DEF l, m
    <2> QED
      BY <1>0, <2>1, <2>2, <2>3, <2>6, <2>7, <2>8, AckPreserve, PrefixReflexive
  <1>6. ASSUME NEW p \in Proc, Sync(p)
        PROVE  AckInv'
    <2>1. /\ Move(p, "idle", Idle) /\ file' = file /\ disk' = file
          /\ acked' = acked \cup {me[p].ev}
      BY <1>6 DEF Sync, End
    <2>2. me[p].ev \in EventType /\ Has(file, me[p].ev)
      BY <1>6 DEF Sync, IInv, StepInv, AckInv, SyncInv
    <2> QED
      BY <1>0, <2>1, <2>2, AckPreserve, PrefixReflexive
  <1>7. ASSUME NEW p \in Proc, Repair(p)
        PROVE  AckInv'
    <2>1. /\ lock = None /\ TornTail(file) /\ disk' = disk /\ acked' = acked
          /\ file' = SubSeq(file, 1, Len(file) - 1)
      BY <1>7 DEF Repair
    <2>2. \E m : Move(p, "append", m)
      BY <1>7 DEF Repair
    <2>3. Ended(file') /\ Durable(file') = Durable(file)
      BY <1>0, <2>1, Truncated
    <2> QED
      BY <1>0, <2>1, <2>2, <2>3, AckPreserve, PrefixReflexive
  <1>8. ASSUME NEW p \in Proc,
               \/ WriteFails(p) \/ SyncFails(p) \/ PlanRepair(p)
               \/ RepairNothing(p) \/ Crash(p)
        PROVE  AckInv'
    <2>1. /\ file' = file /\ disk' = disk /\ acked' = acked
          /\ Move(p, "idle", Idle) \/ Move(p, "repair", Idle)
      BY <1>8 DEF WriteFails, SyncFails, PlanRepair, RepairNothing, Crash, End
    <2> QED
      BY <2>1, AckQuiet
  <1> QED
    BY <1>1, <1>2, <1>3, <1>4, <1>5, <1>6, <1>7, <1>8 DEF Next

\* A journal that is just created.
LEMMA InitialAck ==
    ASSUME Init
    PROVE  AckInv
  <1>1. Len(<<>>) = 0
    BY EmptySeq
  <1>2. EndedInv /\ SyncInv
    BY <1>1 DEF Init, EndedInv, SyncInv, Ended
  <1>3. LagInv /\ LastInv /\ AckedSurvives
    BY PrefixReflexive DEF Init, LagInv, LastInv, Numbers, AckedSurvives
  <1> QED
    BY <1>2, <1>3 DEF AckInv

-----------------------------------------------------------------------------
(* The theorems. *)

\* Whatever fails, in any order: the files are well formed, the lock is with the
\* process inside a transaction, and a writer's file is the one it loaded and
\* the part of its event that is written (journal.go, the append and the tail's repair).
THEOREM JournalIsInductive == Spec => []IInv
  BY InitialInvariant, NextStep, PTL DEF Spec

\* The files, the lock and what each process remembers have their types.
THEOREM JournalTypeCorrect == Spec => []TypeOK
  <1>1. IInv => TypeOK
    BY DEF IInv
  <1> QED
    BY <1>1, JournalIsInductive, PTL

\* No sequence of crashes, short writes, failed syncs and power losses leaves a
\* file that neither loads nor is repaired by taking off its torn tail.
THEOREM JournalRepairable == Spec => []AlwaysRepairable
  <1>1. IInv => AlwaysRepairable
    BY DEF IInv, FileInv, Wellformed, AlwaysRepairable
  <1> QED
    BY <1>1, JournalIsInductive, PTL

\* What is acknowledged, or is about to be, is in the file at its place, and the
\* medium never has anything else there.
THEOREM AckIsInductive == NoWholeTear => (Spec => []AckInv)
  <1> SUFFICES ASSUME NoWholeTear PROVE Spec => []AckInv
    OBVIOUS
  <1>1. Init => AckInv
    BY InitialAck
  <1>2. IInv /\ AckInv /\ IInv' /\ [Next]_vars => AckInv'
    BY AckStep
  <1> QED
    BY <1>1, <1>2, JournalIsInductive, PTL DEF Spec

\* An event whose append returned its receipt is read again after any crash and
\* any power loss, at the same number.
THEOREM AckedForEver == NoWholeTear => (Spec => []AckedSurvives)
  <1>1. AckInv => AckedSurvives
    BY DEF AckInv
  <1> QED
    BY <1>1, AckIsInductive, PTL

-----------------------------------------------------------------------------
(* The file implements the log. *)

\* How many events have been acknowledged.
Stable == Last(Numbers)

\* It is the last acknowledged number, and the log is at least as long.
StableWithin ==
    /\ Stable \in Numbers
    /\ Numbers \subseteq Nat
    /\ \A n \in Numbers : n <= Stable
    /\ Stable <= Len(Durable(disk))
    /\ Len(Durable(disk)) <= Len(Durable(file))

\* That holds of every state.
LEMMA StableFields ==
    ASSUME IInv, AckInv
    PROVE  StableWithin
  <1>1. Stable \in Numbers /\ \A n \in Numbers : n <= Stable
    BY DEF AckInv, LastInv, Stable, Last
  <1>2. \A e \in acked : e.seq \in Nat /\ e.seq <= Len(Durable(disk))
    BY DEF IInv, TypeOK, EventType, AckInv, AckedSurvives
  <1>3. Len(Durable(disk)) \in Nat
    BY DurableFields, EmptySeq DEF IInv, FileInv
  <1>4. Numbers \subseteq Nat /\ \A n \in Numbers : n <= Len(Durable(disk))
    BY <1>2, <1>3 DEF Numbers
  <1> QED
    BY <1>1, <1>4 DEF AckInv, LagInv, Prefix, StableWithin

\* The same after a step.
LEMMA StableFieldsAfter == IInv' /\ AckInv' => StableWithin'
  <1>1. IInv /\ AckInv => StableWithin
    BY StableFields
  <1> QED
    BY <1>1, PTL

\* A step after which the log and its acknowledged part are as before.
LEMMA Stutter ==
    ASSUME Durable(file') = Durable(file), acked' = acked
    PROVE  [Log!LNext]_(Log!lvars)
  BY DEF Log!lvars, Durable

\* A whole line extends the log with an event that is not recorded yet.
LEMMA WriteExtends ==
    ASSUME NoWholeTear, IInv, AckInv, NEW p \in Proc, Write(p),
           Durable(file') = Append(Durable(file), me[p].ev)
    PROVE  Log!LNext
  <1> DEFINE e == me[p].ev
  <1>1. Writes(p) /\ acked' = acked
    BY WriteGoes
  <1>2. Durable(file) = Durable(me[p].base)
    BY WrittenSoFar DEF Write
  <1>3. /\ Len(Durable(file)) = Len(me[p].base)
        /\ \A i \in 1..Len(Durable(file)) : Durable(file)[i] = Event(me[p].base[i])
    BY <1>1, <1>2, DurableFields DEF Writes
  <1>4. e.key = NoKey \/ ~Log!Recorded(e)
    BY <1>1, <1>3 DEF Writes, Log!Recorded
  <1>5. Log!Extend(e)
    BY <1>1, <1>4 DEF Log!Extend
  <1> QED
    BY <1>1, <1>5 DEF Log!LNext, Writes

\* A receipt acknowledges an event that the log has.
LEMMA SyncAcknowledges ==
    ASSUME IInv, AckInv, IInv', AckInv', NEW p \in Proc, Sync(p)
    PROVE  Log!LNext
  <1>1. file' = file /\ acked \subseteq acked'
    BY DEF Sync
  <1>2. Durable(file') = Durable(file)
    BY <1>1
  <1>3. /\ Stable \in Numbers /\ Numbers \subseteq Numbers'
        /\ Stable' \in Numbers' /\ Numbers' \subseteq Nat
        /\ \A n \in Numbers' : n <= Stable'
        /\ Stable' <= Len(Durable(disk)') /\ Len(Durable(disk)') <= Len(Durable(file)')
    BY <1>1, StableFields, StableFieldsAfter DEF StableWithin, Numbers
  <1>4. Stable \in Nat /\ Stable' \in Nat /\ Stable <= Stable' /\ Stable' <= Len(Durable(file))
    <2>1. Len(Durable(disk))' \in Nat /\ Len(Durable(file))' \in Nat
      BY DurableFields, EmptySeq DEF IInv, FileInv
    <2>2. Stable' <= Len(Durable(file))'
      BY <1>3, <2>1
    <2> QED
      BY <1>2, <1>3, <2>1, <2>2
  <1>5. Len(Durable(file)) \in Nat
    BY DurableFields, EmptySeq DEF IInv, FileInv
  <1>6. Stable' \in Stable..Len(Durable(file))
    BY <1>4, <1>5
  <1>7. Log!Acknowledge(Stable')
    BY <1>2 DEF Log!Acknowledge, Stable, Numbers
  <1> QED
    BY <1>6, <1>7 DEF Log!LNext, Stable, Numbers

\* Without power the file falls back to the medium, which lacks no event that
\* was acknowledged.
LEMMA PowerLossLoses ==
    ASSUME IInv, AckInv, PowerLoss
    PROVE  Log!LNext
  <1> DEFINE d == Durable(disk)
             f == Durable(file)
  <1>1. file' = disk /\ acked' = acked
    BY DEF PowerLoss
  <1>2. /\ d \in Seq(EventType) /\ f \in Seq(EventType)
        /\ Len(d) \in Nat /\ Len(f) \in Nat
    BY DurableFields, EmptySeq DEF IInv, FileInv
  <1>3. Len(d) <= Len(f) /\ \A i \in 1..Len(d) : d[i] = f[i]
    BY DEF AckInv, LagInv, Prefix
  <1>4. Len(d) \in Stable..Len(f)
    BY <1>2, <1>3, StableFields DEF StableWithin
  <1> HIDE DEF d, f
  <1>5. d = SubSeq(f, 1, Len(d))
    <2> DEFINE n == Len(d)
    <2>1. n \in Nat /\ n <= Len(f) /\ \A i \in 1..n : f[i] \in EventType
      BY <1>2, <1>3, ElementOfSeq
    <2> HIDE DEF n
    <2>2. /\ SubSeq(f, 1, n) \in Seq(EventType)
          /\ Len(SubSeq(f, 1, n)) = IF 1 <= n THEN n - 1 + 1 ELSE 0
          /\ \A i \in 1..n - 1 + 1 : SubSeq(f, 1, n)[i] = f[1 + i - 1]
      BY <2>1, SubSeqProperties
    <2>3. Len(SubSeq(f, 1, n)) = n
      BY <2>1, <2>2
    <2>4. ASSUME NEW i \in 1..n
          PROVE  SubSeq(f, 1, n)[i] = d[i]
      <3>1. i \in 1..n - 1 + 1 /\ 1 + i - 1 = i
        BY <2>1
      <3> QED
        BY <1>3, <2>2, <3>1 DEF n
    <2> QED
      BY <1>2, <2>2, <2>3, <2>4, SeqEqual DEF n
  <1>6. Log!Lose(Len(d))
    BY <1>1, <1>5 DEF Log!Lose, d, f
  <1> QED
    BY <1>4, <1>6 DEF Log!LNext, Stable, Numbers, d, f

\* Every step is a step of the log, or none.
LEMMA StepImplementsLog ==
    ASSUME NoWholeTear, IInv, AckInv, IInv', AckInv', [Next]_vars
    PROVE  [Log!LNext]_(Log!lvars)
  <1>1. CASE UNCHANGED vars \/ WriteBack
    BY <1>1, Stutter DEF vars, WriteBack
  <1>2. CASE PowerLoss
    BY <1>2, PowerLossLoses
  <1>3. ASSUME NEW p \in Proc, Write(p)
        PROVE  [Log!LNext]_(Log!lvars)
    BY <1>3, WriteGoes, WriteExtends, Stutter
  <1>4. ASSUME NEW p \in Proc, Sync(p)
        PROVE  [Log!LNext]_(Log!lvars)
    BY <1>4, SyncAcknowledges
  <1>5. ASSUME NEW p \in Proc, Repair(p)
        PROVE  [Log!LNext]_(Log!lvars)
    BY <1>5, Truncated, Stutter DEF Repair, IInv, FileInv
  <1>6. ASSUME NEW p \in Proc,
               \/ Begin(p) \/ AppendRepair(p) \/ WriteFails(p) \/ SyncFails(p)
               \/ PlanRepair(p) \/ RepairNothing(p) \/ Crash(p)
        PROVE  [Log!LNext]_(Log!lvars)
    BY <1>6, Stutter
    DEF Begin, AppendRepair, LoadAndAppend, WriteFails, SyncFails, PlanRepair,
        RepairNothing, Crash
  <1> QED
    BY <1>1, <1>2, <1>3, <1>4, <1>5, <1>6 DEF Next

\* A new journal is an empty log.
LEMMA InitialLog ==
    ASSUME Init
    PROVE  Log!LInit
  <1>1. file = <<>> /\ acked = {} /\ Wellformed(<<>>) /\ Loadable(<<>>)
    BY InitialInvariant DEF Init, IInv, FileInv, Loadable
  <1>2. Len(<<>>) = 0
    OBVIOUS
  <1>3. Durable(file) \in Seq(EventType) /\ Len(Durable(file)) = 0
    BY <1>1, <1>2, DurableFields
  <1>4. Durable(file) = <<>>
    BY <1>3, EmptySeq
  <1>5. Last({0} \cup {e.seq : e \in acked}) = 0
    BY <1>1 DEF Last
  <1> QED
    BY <1>4, <1>5 DEF Log!LInit

\* The file with its failures implements the log of EventLog: it is appended to,
\* an acknowledged part of it grows, and only what follows that part is lost.
THEOREM JournalImplementsLog == NoWholeTear => (Spec => ImplementsLog)
  <1> SUFFICES ASSUME NoWholeTear PROVE Spec => ImplementsLog
    OBVIOUS
  <1>1. Init => Log!LInit
    BY InitialLog
  <1>2. IInv /\ AckInv /\ IInv' /\ AckInv' /\ [Next]_vars => [Log!LNext]_(Log!lvars)
    BY StepImplementsLog
  <1>3. Spec => []AckInv
    BY AckIsInductive
  <1> QED
    BY <1>1, <1>2, <1>3, JournalIsInductive, PTL DEF Spec, ImplementsLog, Log!LSpec
=============================================================================
