---------------------------- MODULE RunContract ----------------------------
(***************************************************************************)
(* What the control channel of a run promises to everyone who reads its    *)
(* journal, whatever processes come, race and die: the score head moves    *)
(* only through a pending amendment and never after cancellation has been  *)
(* asked for; while an amendment is pending nothing else happens to the    *)
(* run but the end of the work under way; the authority token never goes   *)
(* back, and moves under a pending amendment only together with it; a run  *)
(* ends once, and as cancelled only with its work closed.                  *)
(***************************************************************************)
EXTENDS Naturals

CONSTANTS Ids, NoId

VARIABLES
    status,    \* "running", "ended" (succeeded or failed) or "cancelled"
    asked,     \* cancellation has been requested
    head,      \* the revision of the score head
    pending,   \* the amendment being committed, or NoId
    used,      \* the amendments that have ever been pending
    token,     \* the authority epoch
    busy       \* an execution interval is open

cvars == <<status, asked, head, pending, used, token, busy>>

CInit ==
    /\ status = "running"
    /\ asked = FALSE
    /\ head = 1
    /\ pending = NoId
    /\ used = {}
    /\ token = 0
    /\ busy = FALSE

Calm == status = "running" /\ pending = NoId

Ask ==
    /\ status = "running"
    /\ ~asked
    /\ asked' = TRUE
    /\ UNCHANGED <<status, head, pending, used, token, busy>>

Propose(i) ==
    /\ Calm
    /\ ~asked
    /\ i \notin used
    /\ pending' = i
    /\ used' = used \cup {i}
    /\ UNCHANGED <<status, asked, head, token, busy>>

\* A superseded owner's token is fenced by the approval itself.
Adopt ==
    /\ status = "running"
    /\ pending # NoId
    /\ ~asked
    /\ head' = head + 1
    /\ pending' = NoId
    /\ \/ token' = token
       \/ token' = token + 1 /\ ~busy
    /\ UNCHANGED <<status, asked, used, busy>>

Withdraw ==
    /\ asked
    /\ pending # NoId
    /\ pending' = NoId
    /\ UNCHANGED <<status, asked, head, used, token, busy>>

Entrust ==
    /\ Calm
    /\ token' = token + 1
    /\ UNCHANGED <<status, asked, head, pending, used, busy>>

Begin ==
    /\ Calm
    /\ ~busy
    /\ busy' = TRUE
    /\ UNCHANGED <<status, asked, head, pending, used, token>>

End ==
    /\ status = "running"
    /\ busy
    /\ busy' = FALSE
    /\ UNCHANGED <<status, asked, head, pending, used, token>>

Complete ==
    /\ Calm
    /\ ~busy
    /\ status' = "ended"
    /\ UNCHANGED <<asked, head, pending, used, token, busy>>

Cancel ==
    /\ Calm
    /\ asked
    /\ ~busy
    /\ status' = "cancelled"
    /\ token' \in {token, token + 1}
    /\ UNCHANGED <<asked, head, pending, used, busy>>

CNext ==
    \/ Ask \/ Adopt \/ Withdraw \/ Entrust \/ Begin \/ End \/ Complete
    \/ Cancel
    \/ \E i \in Ids : Propose(i)

CSpec == CInit /\ [][CNext]_cvars
=============================================================================
