----------------------------- MODULE MCJournal -----------------------------
(* Small commands for Journal: two that share a key and differ in payload, *)
(* and one whose type has no key.                                          *)
EXTENDS Journal

CONSTANTS k, x, y

MCCommands ==
    {[type |-> "keyed", key |-> k, val |-> x],
     [type |-> "keyed", key |-> k, val |-> y],
     [type |-> "log", key |-> NoKey, val |-> x]}
=============================================================================
