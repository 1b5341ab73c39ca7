----------------------------- MODULE MCExecution -----------------------------
(***************************************************************************)
(* Instances of Execution: two movements, the second resting on the        *)
(* first's change set, and scores of one movement.                         *)
(***************************************************************************)
EXTENDS Execution

\* m1 writes and is tested; m2 is final, checks an artifact and asks a human.
PairNeeds == <<{}, {1}>>
PairCriteria == <<<<"run">>, <<"artifact", "review">>>>
PairGates == <<"never", "always">>
FirstWrites == {1}

\* A single final movement whose review may contest the candidate.
SoloNeeds == <<{}>>
ReviewCriteria == <<<<"review">>>>
ContestedGates == <<"on_contested">>

\* A single movement of a score that waives the final gate.
ArtifactCriteria == <<<<"artifact">>>>
AlwaysGates == <<"always">>

NoFallbacks == <<>>
OneFallback == <<"backup">>
=============================================================================
