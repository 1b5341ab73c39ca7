----------------------------- MODULE MCDelivery -----------------------------
(* Two runs that started from the same checkout and the same score, one of  *)
(* which amended it, and a third that builds on the first and takes its     *)
(* change back.  And runs whose movements wrote nothing.                    *)
EXTENDS Delivery

CONSTANTS r1, r2, r3

MCBase == [r \in Runs |-> IF r = r3 THEN "v1" ELSE "v0"]
MCResult == [r \in Runs |-> CASE r = r1 -> "v1" [] r = r2 -> "v2" [] r = r3 -> "v0"]
MCStart == [r \in Runs |-> IF r = r3 THEN "s1" ELSE "s0"]
MCTarget == [r \in Runs |-> IF r = r2 THEN "s0" ELSE "s1"]
=============================================================================
