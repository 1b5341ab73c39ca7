------------------------------ MODULE EventLog ------------------------------
(***************************************************************************)
(* What a run's journal promises to the rest of the program: a log that    *)
(* grows at its end, in which what has once been acknowledged stays for    *)
(* ever at its place, which may lose only what was never acknowledged, and *)
(* in which a keyed event is recorded at most once.                        *)
(***************************************************************************)
EXTENDS Naturals, Sequences

CONSTANTS Events, NoKey

VARIABLES
    log,      \* the events a reader sees
    stable    \* how many of them have been acknowledged

lvars == <<log, stable>>

LInit == log = <<>> /\ stable = 0

Recorded(e) == \E i \in 1..Len(log) : log[i].type = e.type /\ log[i].key = e.key

Extend(e) ==
    /\ e.key = NoKey \/ ~Recorded(e)
    /\ log' = Append(log, e)
    /\ UNCHANGED stable

Acknowledge(n) ==
    /\ stable' = n
    /\ UNCHANGED log

Lose(n) ==
    /\ log' = SubSeq(log, 1, n)
    /\ UNCHANGED stable

LNext ==
    \/ \E e \in Events : Extend(e)
    \/ \E n \in stable..Len(log) : Acknowledge(n) \/ Lose(n)

LSpec == LInit /\ [][LNext]_lvars
=============================================================================
