-------------------------- MODULE ExecutionContract --------------------------
(***************************************************************************)
(* What the execution of a run promises, whatever is retried, answered or  *)
(* recovered on the way: movements start after what they need, end once,   *)
(* and the run ends once, successfully only when all its parts did.        *)
(***************************************************************************)
EXTENDS Naturals

CONSTANTS N, Needs, Writers, Final

VARIABLES run, started, succeeded, failed, candidate

Movements == 1 .. N
contract == <<run, started, succeeded, failed, candidate>>

Init ==
    /\ run = "OPEN" /\ started = {} /\ succeeded = {} /\ failed = {} /\ candidate = FALSE

\* A movement starts after its needs; the final one judges a recorded candidate.
StartMovement(m) ==
    /\ run = "OPEN" /\ m \notin started
    /\ Needs[m] \subseteq succeeded /\ (m = Final => candidate)
    /\ started' = started \cup {m} /\ UNCHANGED <<run, succeeded, failed, candidate>>

\* The final movement's success is the run's.
SucceedMovement(m) ==
    /\ run = "OPEN" /\ m \in started \ (succeeded \cup failed)
    /\ succeeded' = succeeded \cup {m}
    /\ run' = IF m = Final THEN "SUCCEEDED" ELSE run
    /\ UNCHANGED <<started, failed, candidate>>

\* A movement fails alone, or with the run.
FailMovement(m) ==
    /\ run = "OPEN" /\ m \in started \ (succeeded \cup failed)
    /\ failed' = failed \cup {m} /\ run' \in {"OPEN", "FAILED"}
    /\ UNCHANGED <<started, succeeded, candidate>>

RecordCandidate ==
    /\ run = "OPEN" /\ ~candidate /\ Writers \subseteq succeeded /\ candidate' = TRUE
    /\ UNCHANGED <<run, started, succeeded, failed>>

\* Without a final movement the run succeeds with its candidate, once all did.
SucceedWaived ==
    /\ run = "OPEN" /\ Final = 0 /\ succeeded = Movements
    /\ run' = "SUCCEEDED" /\ candidate' = TRUE /\ UNCHANGED <<started, succeeded, failed>>

FailRun ==
    run = "OPEN" /\ run' = "FAILED" /\ UNCHANGED <<started, succeeded, failed, candidate>>

Next ==
    \/ \E m \in Movements : StartMovement(m) \/ SucceedMovement(m) \/ FailMovement(m)
    \/ RecordCandidate \/ SucceedWaived \/ FailRun

Spec == Init /\ [][Next]_contract
=============================================================================
