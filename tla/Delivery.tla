------------------------------ MODULE Delivery ------------------------------
(***************************************************************************)
(* Shipping what succeeded runs produced: `apply` lays a run's candidate   *)
(* over the user's checkout, `promote-score` replaces partitur.yaml by the *)
(* run's latest revision, and each has a `--recover` form for what a       *)
(* crash left.  The state lock of the repository is held throughout a      *)
(* command, so commands do not interleave; but each may die or fail        *)
(* between any two of its steps, and the user edits, commits and discards  *)
(* without any lock.                                                       *)
(*                                                                         *)
(* All candidates touch the same paths, whose contents are one value; the  *)
(* rest of the checkout is another, partitur.yaml a third.                 *)
(***************************************************************************)
EXTENDS Naturals, FiniteSets

CONSTANTS
    Runs,           \* runs of the repository
    Base, Result,   \* [Runs -> contents]: the candidate's two trees
    Start, Target,  \* [Runs -> scores]: score at run start, latest revision
    Judged,         \* the runs whose apply gate is satisfied or waived
    Head0,          \* the touched paths at first
    Root0,          \* partitur.yaml at first
    None,
    MaxFaults,      \* bound: crashes and failing operations
    MaxEdits        \* bound: what the user does

ASSUME JudgedAreRuns == Judged \subseteq Runs
ASSUME BoundsAreNatural == MaxFaults \in Nat /\ MaxEdits \in Nat

\* Contents a candidate or a commit has are no half-applied ones.
ASSUME ContentsAreWhole ==
    /\ Head0 # "part"
    /\ \A r \in Runs : "part" \notin {Base[r], Result[r]}

\* What a user writes into partitur.yaml is no score that a run started from.
ASSUME StartsAreKnown == \A r \in Runs : Start[r] # "user"

Labels ==
    {"start", "check", "lay", "layrest", "verify", "complete", "undo",
     "restore", "restorerest", "reverify", "fail", "cause", "look", "resolve",
     "pstart", "psweep", "plook", "pagain", "ptemp", "pcheck", "prename",
     "pdone", "phalt"}

Command(r, l) == [run |-> r, at |-> l]

ASSUME NoneIsNoCommand == \A r \in Runs, l \in Labels : None # Command(r, l)

VARIABLES
    app,      \* Application projection of each run
    prom,     \* Promotion projection of each run
    run,      \* "absent", "inspected", "active" or "succeeded" (with a candidate)
    tree,     \* the checkout: [touched, other, root]
    head,     \* the tree of HEAD
    temps,    \* the runs whose promotion temporary is in the checkout
    cmd,      \* the command that holds the lock: [run, at], or None
    faults, edits,
    quiet,    \* history: the user has left the checkout alone ...
    last,     \* ... since `apply` of this run looked
    late,     \* history: the root has changed since a command last read it
    stuck     \* history: the runs whose temporary could not be removed

shipping == <<app, prom>>
checkout == <<tree, temps>>
bounds == <<faults, edits>>
history == <<quiet, last, late, stuck>>
vars ==
    <<app, prom, run, tree, head, temps, cmd, faults, edits, quiet, last, late, stuck>>

Tree(touched, root) == [touched |-> touched, other |-> "clean", root |-> root]

Init ==
    /\ app = [r \in Runs |-> "NOT_APPLIED"]
    /\ prom = [r \in Runs |-> "NOT_PROMOTED"]
    /\ run = [r \in Runs |-> "absent"]
    /\ tree = Tree(Head0, Root0)
    /\ head = Tree(Head0, Root0)
    /\ temps = {}
    /\ cmd = None
    /\ faults = 0
    /\ edits = 0
    /\ quiet = FALSE
    /\ last = None
    /\ late = FALSE
    /\ stuck = {}

-----------------------------------------------------------------------------
(* How a command moves. *)

At(r, l) == cmd = Command(r, l)
Go(r, l) == cmd' = Command(r, l)
End == cmd' = None

Fault == faults < MaxFaults /\ faults' = faults + 1 /\ UNCHANGED edits

\* applicationWorktreeTree against a candidate's tree: a promotion's temporary
\* is an untracked file and makes every comparison fail.
Holds(t) == tree = t /\ temps = {}

BaseTree(r) == Tree(Base[r], Start[r])
ResultTree(r) == Tree(Result[r], Start[r])

\* runstate.Apply on the events of a transaction; that it never refuses one is
\* what CommandInv says below.
ProjectApplication(r, s) == [app EXCEPT ![r] = s]
ProjectPromotion(r, s) == [prom EXCEPT ![r] = s]

\* An append succeeds and the command goes on at l, or it fails and the
\* command ends, with its line in the journal or not (a torn line is truncated
\* by `resume` before any command reads on, as module Journal shows).
AppendApplication(r, s, l) ==
    /\ UNCHANGED prom
    /\ \/ /\ app' = ProjectApplication(r, s)
          /\ IF l = "end" THEN End ELSE Go(r, l)
          /\ UNCHANGED bounds
       \/ /\ app' \in {app, ProjectApplication(r, s)}
          /\ End
          /\ Fault

\* A look at the checkout, or a git operation, that fails.
GitFails(r, l, m) ==
    /\ At(r, l)
    /\ Fault
    /\ IF m = "end" THEN End ELSE Go(r, m)
    /\ UNCHANGED <<shipping, run, checkout, head, history>>

-----------------------------------------------------------------------------
(* apply. *)

CanApply(r) ==
    /\ app[r] \in {"NOT_APPLIED", "FAILED_CLEAN"}
    /\ run[r] = "succeeded"
    /\ \A q \in Runs : run[q] # "active"
    /\ r \in Judged
    /\ tree = head
    /\ Holds(BaseTree(r))

\* applyCandidate up to the precondition on the tree; a refusal has no effect.
Apply(r) ==
    /\ cmd = None
    /\ CanApply(r)
    /\ Go(r, "start")
    /\ quiet' = TRUE
    /\ last' = r
    /\ UNCHANGED <<shipping, run, checkout, head, bounds, late, stuck>>

ApplyStarted(r) ==
    /\ At(r, "start")
    /\ AppendApplication(r, "APPLYING", "check")
    /\ UNCHANGED <<run, checkout, head, history>>

\* `git apply --check` refuses a patch without a hunk, and one whose context
\* has been edited; an edit elsewhere in the same file lets it pass.
CheckPatch(r) ==
    /\ At(r, "check")
    /\ \/ Base[r] # Result[r] /\ Go(r, "lay")
       \/ (Base[r] = Result[r] \/ tree.touched # Base[r]) /\ Go(r, "undo")
    /\ UNCHANGED <<shipping, run, checkout, head, bounds, history>>

\* git apply writes one file after the other.
LaySome(r) ==
    /\ At(r, "lay")
    /\ tree' = [tree EXCEPT !.touched = IF @ = Base[r] THEN "part" ELSE "user"]
    /\ Go(r, "layrest")
    /\ UNCHANGED <<shipping, run, head, temps, bounds, history>>

LayRest(r) ==
    /\ At(r, "layrest")
    /\ tree' = [tree EXCEPT !.touched = CASE @ = "part" -> Result[r]
                                          [] @ = "user" -> "user"
                                          [] OTHER -> "part"]
    /\ Go(r, "verify")
    /\ UNCHANGED <<shipping, run, head, temps, bounds, history>>

Verify(r) ==
    /\ At(r, "verify")
    /\ Go(r, IF Holds(ResultTree(r)) THEN "complete" ELSE "undo")
    /\ UNCHANGED <<shipping, run, checkout, head, bounds, history>>

ApplyCompleted(r) ==
    /\ At(r, "complete")
    /\ AppendApplication(r, "APPLIED", "end")
    /\ UNCHANGED <<run, checkout, head, history>>

\* Mutant: the rollback is taken for granted.
UndoNothing(r) ==
    /\ At(r, "undo")
    /\ Go(r, "fail")
    /\ UNCHANGED <<shipping, run, checkout, head, bounds, history>>

\* Only a checkout that is not the base any more is restored, and only the
\* paths the candidate touches.
Undo(r) ==
    /\ At(r, "undo")
    /\ Go(r, CASE Holds(BaseTree(r)) -> "fail"
               [] ~Holds(BaseTree(r)) /\ Base[r] = Result[r] -> "reverify"
               [] OTHER -> "restore")
    /\ UNCHANGED <<shipping, run, checkout, head, bounds, history>>

\* applicationRestore removes the added paths, then checks the others out.
RestoreSome(r) ==
    /\ At(r, "restore")
    /\ tree' = [tree EXCEPT !.touched = "part"]
    /\ Go(r, "restorerest")
    /\ UNCHANGED <<shipping, run, head, temps, bounds, history>>

RestoreRest(r) ==
    /\ At(r, "restorerest")
    /\ \E c \in {Base[r]} \cup ({"user"} \cap {tree.touched}) :
            tree' = [tree EXCEPT !.touched = c]
    /\ Go(r, "reverify")
    /\ UNCHANGED <<shipping, run, head, temps, bounds, history>>

\* A rollback that cannot be verified leaves the transaction APPLYING.
Reverify(r) ==
    /\ At(r, "reverify")
    /\ IF Holds(BaseTree(r)) THEN Go(r, "fail") ELSE End
    /\ UNCHANGED <<shipping, run, checkout, head, bounds, history>>

ApplyFailed(r) ==
    /\ At(r, "fail")
    /\ AppendApplication(r, "FAILED_CLEAN", "end")
    /\ UNCHANGED <<run, checkout, head, history>>

Applying(r) ==
    \/ ApplyStarted(r) \/ CheckPatch(r) \/ LaySome(r) \/ LayRest(r)
    \/ Verify(r) \/ ApplyCompleted(r) \/ Undo(r) \/ RestoreSome(r)
    \/ RestoreRest(r) \/ Reverify(r) \/ ApplyFailed(r)

\* Mutant: a rollback that fails is taken for a clean one.
ApplyingFailsClean(r) ==
    \/ \E l \in {"check", "lay", "layrest", "verify"} : GitFails(r, l, "undo")
    \/ \E l \in {"undo", "restore", "restorerest", "reverify"} :
            GitFails(r, l, "fail")

ApplyingFails(r) ==
    \/ \E l \in {"check", "lay", "layrest", "verify"} : GitFails(r, l, "undo")
    \/ \E l \in {"undo", "restore", "restorerest", "reverify"} :
            GitFails(r, l, "end")

-----------------------------------------------------------------------------
(* apply --recover. *)

\* Mutant: recovery waits for a recorded cause.
RecoverApplyRecorded(r) ==
    /\ cmd = None
    /\ app[r] = "RECOVERY_REQUIRED"
    /\ Go(r, "look")
    /\ UNCHANGED <<shipping, run, checkout, head, bounds, history>>

RecoverApply(r) ==
    /\ cmd = None
    /\ app[r] \in {"APPLYING", "RECOVERY_REQUIRED"}
    /\ Go(r, IF app[r] = "APPLYING" THEN "cause" ELSE "look")
    /\ UNCHANGED <<shipping, run, checkout, head, bounds, history>>

\* The cause is recorded first; the checkout is then examined afresh.
RecoveryRequired(r) ==
    /\ At(r, "cause")
    /\ AppendApplication(r, "RECOVERY_REQUIRED", "look")
    /\ UNCHANGED <<run, checkout, head, history>>

\* Mutant: what is not the result counts as rolled back.
LookForResult(r) ==
    /\ At(r, "look")
    /\ Go(r, IF Holds(ResultTree(r)) THEN "complete" ELSE "resolve")
    /\ UNCHANGED <<shipping, run, checkout, head, bounds, history>>

Look(r) ==
    /\ At(r, "look")
    /\ \/ Holds(BaseTree(r)) /\ Go(r, "resolve")
       \/ ~Holds(BaseTree(r)) /\ Holds(ResultTree(r)) /\ Go(r, "complete")
       \/ ~Holds(BaseTree(r)) /\ ~Holds(ResultTree(r)) /\ End
    /\ UNCHANGED <<shipping, run, checkout, head, bounds, history>>

RecoveryResolved(r) ==
    /\ At(r, "resolve")
    /\ AppendApplication(r, "FAILED_CLEAN", "end")
    /\ UNCHANGED <<run, checkout, head, history>>

RecoveringApply(r) == RecoveryRequired(r) \/ Look(r) \/ RecoveryResolved(r)

RecoveringApplyFails(r) == GitFails(r, "look", "end")

-----------------------------------------------------------------------------
(* promote-score and promote-score --recover. *)

\* A failed append ends the command with its line unconfirmed, or lets
\* promotionFailureOutcome record the halt.
AppendPromotion(r, s, l) ==
    /\ UNCHANGED app
    /\ \/ /\ prom' = ProjectPromotion(r, s)
          /\ IF l = "end" THEN End ELSE Go(r, l)
          /\ UNCHANGED bounds
       \/ /\ prom' = ProjectPromotion(r, s)
          /\ End
          /\ Fault
       \/ /\ UNCHANGED prom
          /\ Go(r, "phalt")
          /\ Fault

\* promotionFailureOutcome after any other failure; that the temporary is not
\* removed goes unnoticed.
PromotionFails(r, l) ==
    /\ At(r, l)
    /\ Fault
    /\ Go(r, "phalt")
    /\ temps' \in IF l = "psweep" THEN {temps} ELSE {temps, temps \ {r}}
    /\ UNCHANGED <<shipping, run, tree, head, history>>

CanPromote(r) == run[r] = "succeeded" /\ app[r] = "APPLIED"

Promote(r) ==
    /\ cmd = None
    /\ prom[r] = "NOT_PROMOTED"
    /\ CanPromote(r)
    /\ tree.root = Start[r]
    /\ Go(r, "pstart")
    /\ UNCHANGED <<shipping, run, checkout, head, bounds, history>>

PromotionStarted(r) ==
    /\ At(r, "pstart")
    /\ AppendPromotion(r, "PROMOTING", "ptemp")
    /\ UNCHANGED <<run, checkout, head, history>>

RecoverPromotion(r) ==
    /\ cmd = None
    /\ prom[r] \in {"PROMOTING", "RECOVERY_REQUIRED"}
    /\ Go(r, "psweep")
    /\ UNCHANGED <<shipping, run, checkout, head, bounds, history>>

\* Mutant: recovery leaves what the crashed command had written.
SweepNothing(r) ==
    /\ At(r, "psweep")
    /\ Go(r, "plook")
    /\ UNCHANGED <<shipping, run, checkout, head, bounds, history>>

SweepTemporaries(r) ==
    /\ At(r, "psweep")
    /\ temps' = temps \ {r}
    /\ Go(r, "plook")
    /\ UNCHANGED <<shipping, run, tree, head, bounds, history>>

\* The root decides: done, to be done again under the same transaction, or
\* changed by something else.
LookRoot(r) ==
    /\ At(r, "plook")
    /\ late' = FALSE
    /\ \/ tree.root = Target[r] /\ Go(r, "pdone")
       \/ tree.root # Target[r] /\ tree.root = Start[r]
            /\ Go(r, IF prom[r] = "PROMOTING" THEN "pagain" ELSE "ptemp")
       \/ tree.root \notin {Start[r], Target[r]} /\ Go(r, "phalt")
    /\ UNCHANGED <<shipping, run, checkout, head, bounds, quiet, last, stuck>>

\* score.promotion_started again, which Append finds recorded and syncs.
PromotionRestarted(r) ==
    /\ At(r, "pagain")
    /\ AppendPromotion(r, "PROMOTING", "ptemp")
    /\ UNCHANGED <<run, checkout, head, history>>

WriteTemporary(r) ==
    /\ At(r, "ptemp")
    /\ temps' = temps \cup {r}
    /\ Go(r, "pcheck")
    /\ UNCHANGED <<shipping, run, tree, head, bounds, history>>

\* Mutant: the check made before score.promotion_started is relied upon.
CheckRootNever(r) ==
    /\ At(r, "pcheck")
    /\ late' = FALSE
    /\ Go(r, "prename")
    /\ UNCHANGED <<shipping, run, checkout, head, bounds, quiet, last, stuck>>

\* The last look at the root before it is replaced; nobody learns that the
\* temporary could not be removed.
CheckRoot(r) ==
    /\ At(r, "pcheck")
    /\ late' = FALSE
    /\ \/ /\ tree.root = Start[r]
          /\ Go(r, "prename")
          /\ UNCHANGED <<temps, stuck, bounds>>
       \/ /\ tree.root # Start[r]
          /\ Go(r, IF tree.root = Target[r] THEN "pdone" ELSE "phalt")
          /\ \/ temps' = temps \ {r} /\ UNCHANGED <<stuck, bounds>>
             \/ stuck' = stuck \cup {r} /\ UNCHANGED temps /\ Fault
    /\ UNCHANGED <<shipping, run, tree, head, quiet, last>>

RenameRoot(r) ==
    /\ At(r, "prename")
    /\ tree' = [tree EXCEPT !.root = Target[r]]
    /\ temps' = temps \ {r}
    /\ Go(r, "pdone")
    /\ UNCHANGED <<shipping, run, head, bounds, history>>

Promoted(r) ==
    /\ At(r, "pdone")
    /\ AppendPromotion(r, "PROMOTED", "end")
    /\ UNCHANGED <<run, checkout, head, history>>

\* haltPromotionForOperator, which appends nothing a second time.
HaltPromotion(r) ==
    /\ At(r, "phalt")
    /\ End
    /\ \/ /\ prom' = [prom EXCEPT ![r] =
                        IF @ = "PROMOTING" THEN "RECOVERY_REQUIRED" ELSE @]
          /\ UNCHANGED bounds
       \/ UNCHANGED prom /\ Fault
    /\ UNCHANGED <<app, run, checkout, head, history>>

Promoting(r) ==
    \/ PromotionStarted(r) \/ SweepTemporaries(r) \/ LookRoot(r)
    \/ PromotionRestarted(r) \/ WriteTemporary(r) \/ CheckRoot(r)
    \/ RenameRoot(r) \/ Promoted(r) \/ HaltPromotion(r)

PromotingFails(r) ==
    \E l \in {"psweep", "plook", "ptemp", "pcheck", "prename", "pdone"} :
        PromotionFails(r, l)

-----------------------------------------------------------------------------
(* The rest of the world. *)

\* `run` looks for a clean checkout before it takes the lock; the commit it
\* finds becomes the candidate's base.
InspectRepository(r) ==
    /\ run[r] = "absent"
    /\ tree = head
    /\ Holds(BaseTree(r))
    /\ run' = [run EXCEPT ![r] = "inspected"]
    /\ UNCHANGED <<shipping, checkout, head, cmd, bounds, history>>

\* run.started.
StartRun(r) ==
    /\ cmd = None
    /\ run[r] = "inspected"
    /\ run' = [run EXCEPT ![r] = "active"]
    /\ UNCHANGED <<shipping, checkout, head, cmd, bounds, history>>

\* It reaches SUCCEEDED with a candidate (other modules say how).
Succeed(r) ==
    /\ cmd = None
    /\ run[r] = "active"
    /\ run' = [run EXCEPT ![r] = "succeeded"]
    /\ UNCHANGED <<shipping, checkout, head, cmd, bounds, history>>

Crash ==
    /\ cmd # None
    /\ End
    /\ Fault
    /\ UNCHANGED <<shipping, run, checkout, head, history>>

UserActs ==
    /\ edits < MaxEdits
    /\ edits' = edits + 1
    /\ quiet' = FALSE
    /\ late' = (late \/ tree'.root # tree.root)
    /\ UNCHANGED <<shipping, run, temps, cmd, faults, last, stuck>>

UserEdits ==
    /\ \/ tree' = [tree EXCEPT !.touched = "user"]
       \/ tree' = [tree EXCEPT !.other = "edited"]
       \/ tree' = [tree EXCEPT !.root = "user"]
    /\ UserActs
    /\ UNCHANGED head

UserDiscards ==
    /\ tree' = head
    /\ UserActs
    /\ UNCHANGED head

\* A half-applied tree that the user commits is the user's.
UserCommits ==
    /\ tree' = [tree EXCEPT !.touched = IF @ = "part" THEN "user" ELSE @]
    /\ head' = tree'
    /\ UserActs

User == UserEdits \/ UserDiscards \/ UserCommits

Run(r) == InspectRepository(r) \/ StartRun(r) \/ Succeed(r)

Invoke(r) == Apply(r) \/ RecoverApply(r) \/ Promote(r) \/ RecoverPromotion(r)

Step(r) == Applying(r) \/ RecoveringApply(r) \/ Promoting(r)

StepFails(r) == ApplyingFails(r) \/ RecoveringApplyFails(r) \/ PromotingFails(r)

Next ==
    \/ Crash \/ User
    \/ \E r \in Runs : Run(r) \/ Invoke(r) \/ Step(r) \/ StepFails(r)

Spec == Init /\ [][Next]_vars
-----------------------------------------------------------------------------
(* Properties. *)

Contents == {"part", "user", Head0} \cup {Base[r] : r \in Runs} \cup {Result[r] : r \in Runs}
Scores == {"user", Root0} \cup {Start[r] : r \in Runs} \cup {Target[r] : r \in Runs}
Trees == [touched : Contents, other : {"clean", "edited"}, root : Scores]

ShippingType ==
    /\ app \in [Runs -> {"NOT_APPLIED", "APPLYING", "APPLIED", "FAILED_CLEAN",
                         "RECOVERY_REQUIRED"}]
    /\ prom \in [Runs -> {"NOT_PROMOTED", "PROMOTING", "PROMOTED",
                          "RECOVERY_REQUIRED"}]
    /\ run \in [Runs -> {"absent", "inspected", "active", "succeeded"}]
    /\ temps \subseteq Runs

TreeType == tree \in Trees /\ head \in Trees

CommandType == cmd \in {Command(r, l) : r \in Runs, l \in Labels} \cup {None}

BoundType == faults \in 0..MaxFaults /\ edits \in 0..MaxEdits

HistoryType ==
    /\ quiet \in BOOLEAN
    /\ late \in BOOLEAN
    /\ last \in Runs \cup {None}
    /\ stuck \subseteq Runs

TypeOK == ShippingType /\ TreeType /\ CommandType /\ BoundType /\ HistoryType

Open(r) == app[r] \in {"APPLYING", "RECOVERY_REQUIRED"}

\* "The core never claims `nothing was applied` unless it verified it": a
\* checkout that a command left half written belongs to a transaction that
\* some run's projection still shows as open.
HalfAppliedIsAnnounced == tree.touched = "part" => \E r \in Runs : Open(r)

\* If the user kept out of it, the journal's verdict on the last application
\* is what the checkout holds, however often the command or its recovery
\* died or failed on the way.
SettledTreeIsVerified ==
    quiet =>
        /\ app[last] = "APPLIED" =>
                tree.touched = Result[last] /\ tree.other = "clean"
        /\ app[last] = "FAILED_CLEAN" /\ cmd = None =>
                tree.touched = Base[last] /\ tree.other = "clean"

\* A score is promoted only for an applied candidate: otherwise the edited
\* root would keep `apply` from ever finding its base tree.
PromotedWasApplied == \A r \in Runs : prom[r] # "NOT_PROMOTED" => app[r] = "APPLIED"

\* No temporary of a promotion outlives it in the checkout, where it would
\* make every later `apply` refuse an unclean tree, unless its removal failed
\* in the one place that goes on to score.promoted.
NoTemporaryAfterPromotion ==
    \A r \in temps \ stuck : prom[r] \in {"PROMOTING", "RECOVERY_REQUIRED"}

\* The user's own partitur.yaml is replaced only if it was written after the
\* last look before the rename, the window that cannot be closed.
OnlyWindowEditsAreLost ==
    [][\A r \in Runs : RenameRoot(r) /\ tree.root = "user" => late]_vars

-----------------------------------------------------------------------------
(* The inductive invariant. *)

\* What a command relies on before its step l: the projection as it left it,
\* and that it verified the checkout before it appends a verdict.
Reliable(r, l) ==
    /\ l = "start" => app[r] \in {"NOT_APPLIED", "FAILED_CLEAN"}
    /\ l \in {"check", "lay", "layrest", "verify", "undo", "restore",
              "restorerest", "reverify", "fail", "cause"} => app[r] = "APPLYING"
    /\ l \in {"look", "resolve"} => app[r] = "RECOVERY_REQUIRED"
    /\ l = "complete" => Open(r)
    /\ l \in {"complete", "fail", "resolve"} => tree.touched # "part"
    /\ l \in {"pstart", "psweep", "plook", "pagain", "ptemp", "pcheck",
              "prename", "pdone", "phalt"} => app[r] = "APPLIED"
    /\ l = "pstart" => prom[r] = "NOT_PROMOTED"
    /\ l = "pagain" => prom[r] = "PROMOTING"
    /\ l \in {"psweep", "plook", "ptemp", "pcheck", "prename", "pdone"}
         => prom[r] \in {"PROMOTING", "RECOVERY_REQUIRED"}
    /\ l \in {"plook", "pdone"} => r \notin temps \ stuck

CommandInv == \A r \in Runs, l \in Labels : At(r, l) => Reliable(r, l)

\* Every cut of every command leaves the journal, the checkout and the
\* temporaries in agreement, and no commit holds a half-applied tree.
ShippingInv ==
    /\ TypeOK
    /\ CommandInv
    /\ head.touched # "part"
    /\ HalfAppliedIsAnnounced
    /\ PromotedWasApplied
    /\ NoTemporaryAfterPromotion

-----------------------------------------------------------------------------
(* Liveness. *)

\* The operator repeats the recovery commands; a command runs on to its end
\* unless it dies or fails, which the bound allows only so often.
Fairness ==
    \A r \in Runs :
        /\ WF_vars(Step(r))
        /\ SF_vars(RecoverApply(r))
        /\ SF_vars(RecoverPromotion(r))

FairSpec == Spec /\ Fairness

\* A transaction that a crash left open comes to a verdict or to a recorded
\* request for the operator, whatever happened to the checkout meanwhile.
TransactionsSettle ==
    \A r \in Runs :
        /\ app[r] = "APPLYING" ~> app[r] # "APPLYING"
        /\ prom[r] = "PROMOTING" ~> prom[r] # "PROMOTING"

-----------------------------------------------------------------------------
(* What the documents state and the code does not guarantee. *)

\* DESIGN.md 8: a no-write candidate reaches APPLIED, as any other does when
\* nothing fails.
NoWriteCandidateApplies ==
    \A r \in Runs :
        Base[r] = Result[r] /\ faults = 0 /\ edits = 0 => app[r] # "FAILED_CLEAN"
=============================================================================
