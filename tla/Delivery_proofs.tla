--------------------------- MODULE Delivery_proofs ---------------------------
(***************************************************************************)
(* That every cut of every command of Delivery leaves the journal and the  *)
(* checkout in agreement, for every set of runs, all their candidates and  *)
(* any number of faults and edits; that the verdict on an application says *)
(* what the checkout of a user who kept out of it holds (QuietInv); and    *)
(* what is known of the root before it is replaced (LateInv).              *)
(***************************************************************************)
EXTENDS Delivery, TLAPS

-----------------------------------------------------------------------------
(* Types. *)

\* A crash.
LEMMA TypeCrash ==
    ASSUME TypeOK, Crash
    PROVE  TypeOK'
<1> USE DEF Crash, Fault, shipping, checkout, history
<1>1. ShippingType'
  BY DEF TypeOK, ShippingType
<1>2. TreeType'
  BY DEF TypeOK, TreeType, Trees, Contents, Scores
<1>3. CommandType'
  BY DEF TypeOK, CommandType, Go, End, Labels
<1>4. BoundType'
  BY BoundsAreNatural DEF TypeOK, BoundType
<1>5. HistoryType'
  BY DEF TypeOK, HistoryType
<1> QED
  BY <1>1, <1>2, <1>3, <1>4, <1>5 DEF TypeOK

\* What the user does to the checkout.
LEMMA TypeUser ==
    ASSUME TypeOK, User
    PROVE  TypeOK'
<1> USE DEF User, UserEdits, UserDiscards, UserCommits, UserActs, shipping
<1>1. ShippingType'
  BY DEF TypeOK, ShippingType
<1>2. TreeType'
  BY DEF TypeOK, TreeType, Trees, Contents, Scores
<1>3. CommandType'
  BY DEF TypeOK, CommandType, Go, End, Labels
<1>4. BoundType'
  BY BoundsAreNatural DEF TypeOK, BoundType
<1>5. HistoryType'
  BY DEF TypeOK, HistoryType
<1> QED
  BY <1>1, <1>2, <1>3, <1>4, <1>5 DEF TypeOK

\* The progress of a run, and the beginning of a command.
LEMMA TypeInvoke ==
    ASSUME TypeOK, NEW r \in Runs, Run(r) \/ Invoke(r)
    PROVE  TypeOK'
<1> USE DEF Run, InspectRepository, StartRun, Succeed, Invoke, Apply, RecoverApply, Promote,
        RecoverPromotion, shipping, checkout, bounds, history
<1>1. ShippingType'
  BY DEF TypeOK, ShippingType
<1>2. TreeType'
  BY DEF TypeOK, TreeType, Trees, Contents, Scores
<1>3. CommandType'
  BY DEF TypeOK, CommandType, Go, End, Labels
<1>4. BoundType'
  BY BoundsAreNatural DEF TypeOK, BoundType
<1>5. HistoryType'
  BY DEF TypeOK, HistoryType
<1> QED
  BY <1>1, <1>2, <1>3, <1>4, <1>5 DEF TypeOK

\* The steps of `apply` and its recovery.
LEMMA TypeApplying ==
    ASSUME TypeOK, NEW r \in Runs, Applying(r) \/ RecoveringApply(r)
    PROVE  TypeOK'
<1> USE DEF Applying, ApplyStarted, CheckPatch, LaySome, LayRest, Verify,
        ApplyCompleted, Undo, RestoreSome, RestoreRest, Reverify, ApplyFailed,
        RecoveringApply, RecoveryRequired, Look, RecoveryResolved,
        AppendApplication, ProjectApplication, Fault, shipping, checkout, bounds, history
<1>1. ShippingType'
  BY DEF TypeOK, ShippingType
<1>2. TreeType'
  BY DEF TypeOK, TreeType, Trees, Contents, Scores
<1>3. CommandType'
  BY DEF TypeOK, CommandType, Go, End, Labels
<1>4. BoundType'
  BY BoundsAreNatural DEF TypeOK, BoundType
<1>5. HistoryType'
  BY DEF TypeOK, HistoryType
<1> QED
  BY <1>1, <1>2, <1>3, <1>4, <1>5 DEF TypeOK

\* The steps of `promote-score` and its recovery.
LEMMA TypePromoting ==
    ASSUME TypeOK, NEW r \in Runs, Promoting(r)
    PROVE  TypeOK'
<1> USE DEF Promoting, PromotionStarted, SweepTemporaries, LookRoot,
        PromotionRestarted, WriteTemporary, CheckRoot, RenameRoot, Promoted,
        HaltPromotion, AppendPromotion, ProjectPromotion, Fault, shipping, checkout, bounds,
        history
<1>1. ShippingType'
  BY DEF TypeOK, ShippingType
<1>2. TreeType'
  BY DEF TypeOK, TreeType, Trees, Contents, Scores
<1>3. CommandType'
  BY DEF TypeOK, CommandType, Go, End, Labels
<1>4. BoundType'
  BY BoundsAreNatural DEF TypeOK, BoundType
<1>5. HistoryType'
  BY DEF TypeOK, HistoryType
<1> QED
  BY <1>1, <1>2, <1>3, <1>4, <1>5 DEF TypeOK

\* Failing operations.
LEMMA TypeFails ==
    ASSUME TypeOK, NEW r \in Runs, StepFails(r)
    PROVE  TypeOK'
<1> USE DEF StepFails, ApplyingFails, RecoveringApplyFails, PromotingFails,
        GitFails, PromotionFails, Fault, shipping, checkout, bounds, history
<1>1. ShippingType'
  BY DEF TypeOK, ShippingType
<1>2. TreeType'
  BY DEF TypeOK, TreeType, Trees, Contents, Scores
<1>3. CommandType'
  BY DEF TypeOK, CommandType, Go, End, Labels
<1>4. BoundType'
  BY BoundsAreNatural DEF TypeOK, BoundType
<1>5. HistoryType'
  BY DEF TypeOK, HistoryType
<1> QED
  BY <1>1, <1>2, <1>3, <1>4, <1>5 DEF TypeOK

\* No step leaves the types.
LEMMA TypeStep ==
    ASSUME TypeOK, Next
    PROVE  TypeOK'
BY TypeCrash, TypeUser, TypeInvoke, TypeApplying, TypePromoting, TypeFails
   DEF Next, Step

-----------------------------------------------------------------------------
(* Where a command stands is the only thing CommandInv speaks about. *)

\* It holds where the command goes if the next step may rely on its state.
LEMMA MovedCommand ==
    ASSUME NEW r \in Runs, NEW l \in Labels, Go(r, l), Reliable(r, l)'
    PROVE  CommandInv'
<1> SUFFICES ASSUME NEW q \in Runs, NEW m \in Labels, At(q, m)'
             PROVE  Reliable(q, m)'
  BY DEF CommandInv
<1>1. q = r /\ m = l
  BY DEF At, Go, Command
<1> QED
  BY <1>1

\* Nothing is relied upon once the command has ended.
LEMMA EndedCommand ==
    ASSUME End
    PROVE  CommandInv'
BY NoneIsNoCommand DEF CommandInv, End, At

\* A command that stands somewhere may rely on what it left.
LEMMA AtCommand ==
    ASSUME NEW r \in Runs, NEW l \in Labels, CommandInv, At(r, l)
    PROVE  Reliable(r, l)
BY DEF CommandInv

-----------------------------------------------------------------------------
(* The invariant without the types. *)

ProjectionInv ==
    /\ head.touched # "part"
    /\ HalfAppliedIsAnnounced
    /\ PromotedWasApplied
    /\ NoTemporaryAfterPromotion

\* A step of `apply` or its recovery.
LEMMA ApplyingStep ==
    ASSUME ShippingInv, NEW r \in Runs, Applying(r) \/ RecoveringApply(r)
    PROVE  CommandInv' /\ ProjectionInv'
<1> USE ContentsAreWhole
<1> USE DEF ShippingInv, ProjectionInv, TypeOK, ShippingType, TreeType, Trees,
        HalfAppliedIsAnnounced, PromotedWasApplied, NoTemporaryAfterPromotion,
        Open, Labels, checkout, shipping, history, AppendApplication,
        ProjectApplication
<1>1. CASE ApplyStarted(r)
  <2>1. Reliable(r, "start")
    BY <1>1, AtCommand DEF ApplyStarted
  <2>2. CommandInv'
    BY <1>1, <2>1, MovedCommand, EndedCommand DEF ApplyStarted, Reliable
  <2> QED
    BY <1>1, <2>1, <2>2 DEF ApplyStarted, Reliable
<1>2. CASE CheckPatch(r)
  <2>1. Reliable(r, "check")
    BY <1>2, AtCommand DEF CheckPatch
  <2>2. CommandInv'
    BY <1>2, <2>1, MovedCommand, EndedCommand DEF CheckPatch, Reliable
  <2> QED
    BY <1>2, <2>1, <2>2 DEF CheckPatch, Reliable
<1>3. CASE LaySome(r)
  <2>1. Reliable(r, "lay")
    BY <1>3, AtCommand DEF LaySome
  <2>2. CommandInv'
    BY <1>3, <2>1, MovedCommand, EndedCommand DEF LaySome, Reliable
  <2> QED
    BY <1>3, <2>1, <2>2 DEF LaySome, Reliable
<1>4. CASE LayRest(r)
  <2>1. Reliable(r, "layrest")
    BY <1>4, AtCommand DEF LayRest
  <2>2. CommandInv'
    BY <1>4, <2>1, MovedCommand, EndedCommand DEF LayRest, Reliable
  <2> QED
    BY <1>4, <2>1, <2>2 DEF LayRest, Reliable
<1>5. CASE Verify(r)
  <2>1. Reliable(r, "verify")
    BY <1>5, AtCommand DEF Verify
  <2>2. CommandInv'
    BY <1>5, <2>1, MovedCommand, EndedCommand DEF Verify, Reliable, Holds, ResultTree, Tree
  <2> QED
    BY <1>5, <2>1, <2>2 DEF Verify, Reliable
<1>6. CASE ApplyCompleted(r)
  <2>1. Reliable(r, "complete")
    BY <1>6, AtCommand DEF ApplyCompleted
  <2>2. CommandInv'
    BY <1>6, <2>1, MovedCommand, EndedCommand DEF ApplyCompleted, Reliable
  <2> QED
    BY <1>6, <2>1, <2>2 DEF ApplyCompleted, Reliable
<1>7. CASE Undo(r)
  <2>1. Reliable(r, "undo")
    BY <1>7, AtCommand DEF Undo
  <2>2. CommandInv'
    BY <1>7, <2>1, MovedCommand, EndedCommand DEF Undo, Reliable, Holds, BaseTree, Tree
  <2> QED
    BY <1>7, <2>1, <2>2 DEF Undo, Reliable
<1>8. CASE RestoreSome(r)
  <2>1. Reliable(r, "restore")
    BY <1>8, AtCommand DEF RestoreSome
  <2>2. CommandInv'
    BY <1>8, <2>1, MovedCommand, EndedCommand DEF RestoreSome, Reliable
  <2> QED
    BY <1>8, <2>1, <2>2 DEF RestoreSome, Reliable
<1>9. CASE RestoreRest(r)
  <2>1. Reliable(r, "restorerest")
    BY <1>9, AtCommand DEF RestoreRest
  <2>2. CommandInv'
    BY <1>9, <2>1, MovedCommand, EndedCommand DEF RestoreRest, Reliable
  <2> QED
    BY <1>9, <2>1, <2>2 DEF RestoreRest, Reliable
<1>10. CASE Reverify(r)
  <2>1. Reliable(r, "reverify")
    BY <1>10, AtCommand DEF Reverify
  <2>2. CommandInv'
    BY <1>10, <2>1, MovedCommand, EndedCommand DEF Reverify, Reliable, Holds, BaseTree, Tree
  <2> QED
    BY <1>10, <2>1, <2>2 DEF Reverify, Reliable
<1>11. CASE ApplyFailed(r)
  <2>1. Reliable(r, "fail")
    BY <1>11, AtCommand DEF ApplyFailed
  <2>2. CommandInv'
    BY <1>11, <2>1, MovedCommand, EndedCommand DEF ApplyFailed, Reliable
  <2> QED
    BY <1>11, <2>1, <2>2 DEF ApplyFailed, Reliable
<1>12. CASE RecoveryRequired(r)
  <2>1. Reliable(r, "cause")
    BY <1>12, AtCommand DEF RecoveryRequired
  <2>2. CommandInv'
    BY <1>12, <2>1, MovedCommand, EndedCommand DEF RecoveryRequired, Reliable
  <2> QED
    BY <1>12, <2>1, <2>2 DEF RecoveryRequired, Reliable
<1>13. CASE Look(r)
  <2>1. Reliable(r, "look")
    BY <1>13, AtCommand DEF Look
  <2>2. CommandInv'
    BY <1>13, <2>1, MovedCommand, EndedCommand DEF Look, Reliable, Holds, BaseTree, ResultTree, Tree
  <2> QED
    BY <1>13, <2>1, <2>2 DEF Look, Reliable
<1>14. CASE RecoveryResolved(r)
  <2>1. Reliable(r, "resolve")
    BY <1>14, AtCommand DEF RecoveryResolved
  <2>2. CommandInv'
    BY <1>14, <2>1, MovedCommand, EndedCommand DEF RecoveryResolved, Reliable
  <2> QED
    BY <1>14, <2>1, <2>2 DEF RecoveryResolved, Reliable
<1> QED
  BY <1>1, <1>2, <1>3, <1>4, <1>5, <1>6, <1>7, <1>8, <1>9,
     <1>10, <1>11, <1>12, <1>13, <1>14
     DEF Applying, RecoveringApply

\* A step of `promote-score` or its recovery.
LEMMA PromotingStep ==
    ASSUME ShippingInv, NEW r \in Runs, Promoting(r)
    PROVE  CommandInv' /\ ProjectionInv'
<1> USE DEF ShippingInv, ProjectionInv, TypeOK, ShippingType, TreeType, Trees,
        HalfAppliedIsAnnounced, PromotedWasApplied, NoTemporaryAfterPromotion,
        Open, Labels, checkout, shipping, history, AppendPromotion,
        ProjectPromotion
<1>1. CASE PromotionStarted(r)
  <2>1. Reliable(r, "pstart")
    BY <1>1, AtCommand DEF PromotionStarted
  <2>2. CommandInv'
    BY <1>1, <2>1, MovedCommand, EndedCommand DEF PromotionStarted, Reliable
  <2> QED
    BY <1>1, <2>1, <2>2 DEF PromotionStarted, Reliable
<1>2. CASE SweepTemporaries(r)
  <2>1. Reliable(r, "psweep")
    BY <1>2, AtCommand DEF SweepTemporaries
  <2>2. CommandInv'
    BY <1>2, <2>1, MovedCommand, EndedCommand DEF SweepTemporaries, Reliable
  <2> QED
    BY <1>2, <2>1, <2>2 DEF SweepTemporaries, Reliable
<1>3. CASE LookRoot(r)
  <2>1. Reliable(r, "plook")
    BY <1>3, AtCommand DEF LookRoot
  <2>2. CommandInv'
    BY <1>3, <2>1, MovedCommand, EndedCommand DEF LookRoot, Reliable
  <2> QED
    BY <1>3, <2>1, <2>2 DEF LookRoot, Reliable
<1>4. CASE PromotionRestarted(r)
  <2>1. Reliable(r, "pagain")
    BY <1>4, AtCommand DEF PromotionRestarted
  <2>2. CommandInv'
    BY <1>4, <2>1, MovedCommand, EndedCommand DEF PromotionRestarted, Reliable
  <2> QED
    BY <1>4, <2>1, <2>2 DEF PromotionRestarted, Reliable
<1>5. CASE WriteTemporary(r)
  <2>1. Reliable(r, "ptemp")
    BY <1>5, AtCommand DEF WriteTemporary
  <2>2. CommandInv'
    BY <1>5, <2>1, MovedCommand, EndedCommand DEF WriteTemporary, Reliable
  <2> QED
    BY <1>5, <2>1, <2>2 DEF WriteTemporary, Reliable
<1>6. CASE CheckRoot(r)
  <2>1. Reliable(r, "pcheck")
    BY <1>6, AtCommand DEF CheckRoot
  <2>2. CommandInv'
    BY <1>6, <2>1, MovedCommand, EndedCommand DEF CheckRoot, Reliable
  <2> QED
    BY <1>6, <2>1, <2>2 DEF CheckRoot, Reliable
<1>7. CASE RenameRoot(r)
  <2>1. Reliable(r, "prename")
    BY <1>7, AtCommand DEF RenameRoot
  <2>2. CommandInv'
    BY <1>7, <2>1, MovedCommand, EndedCommand DEF RenameRoot, Reliable
  <2> QED
    BY <1>7, <2>1, <2>2 DEF RenameRoot, Reliable
<1>8. CASE Promoted(r)
  <2>1. Reliable(r, "pdone")
    BY <1>8, AtCommand DEF Promoted
  <2>2. CommandInv'
    BY <1>8, <2>1, MovedCommand, EndedCommand DEF Promoted, Reliable
  <2> QED
    BY <1>8, <2>1, <2>2 DEF Promoted, Reliable
<1>9. CASE HaltPromotion(r)
  <2>1. Reliable(r, "phalt")
    BY <1>9, AtCommand DEF HaltPromotion
  <2>2. CommandInv'
    BY <1>9, <2>1, MovedCommand, EndedCommand DEF HaltPromotion, Reliable
  <2> QED
    BY <1>9, <2>1, <2>2 DEF HaltPromotion, Reliable
<1> QED
  BY <1>1, <1>2, <1>3, <1>4, <1>5, <1>6, <1>7, <1>8, <1>9
     DEF Promoting

\* A failing operation.
LEMMA FailingStep ==
    ASSUME ShippingInv, NEW r \in Runs, StepFails(r)
    PROVE  CommandInv' /\ ProjectionInv'
<1> USE DEF ShippingInv, ProjectionInv, TypeOK, ShippingType,
        HalfAppliedIsAnnounced, PromotedWasApplied, NoTemporaryAfterPromotion,
        Open, Labels, checkout, shipping, history
<1>1. ASSUME NEW l \in {"check", "lay", "layrest", "verify"},
             GitFails(r, l, "undo")
      PROVE  CommandInv' /\ ProjectionInv'
  <2>1. Reliable(r, l)
    BY <1>1, AtCommand DEF GitFails
  <2>2. CommandInv'
    BY <1>1, <2>1, MovedCommand DEF GitFails, Reliable
  <2> QED
    BY <1>1, <2>2 DEF GitFails
<1>2. ASSUME NEW l \in Labels, GitFails(r, l, "end")
      PROVE  CommandInv' /\ ProjectionInv'
  BY <1>2, EndedCommand DEF GitFails
<1>3. ASSUME NEW l \in {"psweep", "plook", "ptemp", "pcheck", "prename", "pdone"},
             PromotionFails(r, l)
      PROVE  CommandInv' /\ ProjectionInv'
  <2>1. Reliable(r, l)
    BY <1>3, AtCommand DEF PromotionFails
  <2>2. CommandInv'
    BY <1>3, <2>1, MovedCommand DEF PromotionFails, Reliable
  <2> QED
    BY <1>3, <2>2 DEF PromotionFails
<1> QED
  BY <1>1, <1>2, <1>3 DEF StepFails, ApplyingFails, RecoveringApplyFails, PromotingFails

\* A command begins, or a run makes progress.
LEMMA InvokeStep ==
    ASSUME ShippingInv, NEW r \in Runs, Run(r) \/ Invoke(r)
    PROVE  CommandInv' /\ ProjectionInv'
<1> USE DEF ShippingInv, ProjectionInv, TypeOK, ShippingType,
        HalfAppliedIsAnnounced, PromotedWasApplied, NoTemporaryAfterPromotion,
        Open, Labels, checkout, shipping, history
<1>1. ProjectionInv'
  BY DEF Run, InspectRepository, StartRun, Succeed, Invoke, Apply, RecoverApply, Promote,
     RecoverPromotion
<1>2. CASE Run(r)
  BY <1>1, <1>2 DEF Run, InspectRepository, StartRun, Succeed, CommandInv, At, Reliable
<1>3. CASE Apply(r)
  BY <1>1, <1>3, MovedCommand DEF Apply, CanApply, Reliable
<1>4. CASE RecoverApply(r)
  BY <1>1, <1>4, MovedCommand DEF RecoverApply, Reliable
<1>5. CASE Promote(r)
  BY <1>1, <1>5, MovedCommand DEF Promote, CanPromote, Reliable
<1>6. CASE RecoverPromotion(r)
  BY <1>1, <1>6, MovedCommand DEF RecoverPromotion, Reliable
<1> QED
  BY <1>2, <1>3, <1>4, <1>5, <1>6 DEF Invoke

\* The user never leaves a half-applied tree that was not there: a commit
\* makes it the user's, and no commit holds one.
LEMMA UserStep ==
    ASSUME ShippingInv, User
    PROVE  CommandInv' /\ ProjectionInv'
<1> USE DEF ShippingInv, ProjectionInv, TypeOK, TreeType, Trees,
        HalfAppliedIsAnnounced, PromotedWasApplied, NoTemporaryAfterPromotion,
        Open, shipping, User, UserEdits, UserDiscards, UserCommits, UserActs
<1>1. tree'.touched = "part" => tree.touched = "part"
  OBVIOUS
<1>2. ProjectionInv'
  BY <1>1
<1>3. CommandInv'
  <2> SUFFICES ASSUME NEW r \in Runs, NEW l \in Labels, At(r, l)'
               PROVE  Reliable(r, l)'
    BY DEF CommandInv
  <2>1. Reliable(r, l)
    BY AtCommand DEF At
  <2> QED
    BY <1>1, <2>1 DEF Reliable
<1> QED
  BY <1>2, <1>3

\* A command that dies leaves nothing that is relied upon.
LEMMA CrashStep ==
    ASSUME ShippingInv, Crash
    PROVE  CommandInv' /\ ProjectionInv'
BY EndedCommand
   DEF Crash, ShippingInv, ProjectionInv, HalfAppliedIsAnnounced, Open, checkout,
       PromotedWasApplied, NoTemporaryAfterPromotion, shipping, history

-----------------------------------------------------------------------------
(* Theorems. *)

\* At first nothing is shipped and nothing is half written.
LEMMA ShippingInit == Init => ShippingInv
<1> SUFFICES ASSUME Init PROVE ShippingInv
  OBVIOUS
<1> USE DEF Init
<1>1. ShippingType
  BY DEF ShippingType
<1>2. TreeType
  BY DEF TreeType, Tree, Trees, Contents, Scores
<1>3. CommandType
  BY DEF CommandType
<1>4. BoundType
  BY BoundsAreNatural DEF BoundType
<1>5. HistoryType
  BY DEF HistoryType
<1>6. CommandInv
  BY NoneIsNoCommand DEF CommandInv, At
<1> QED
  BY <1>1, <1>2, <1>3, <1>4, <1>5, <1>6, ContentsAreWhole
     DEF ShippingInv, TypeOK, HalfAppliedIsAnnounced, PromotedWasApplied,
         NoTemporaryAfterPromotion, Tree

\* Every step of a command, of the user and every failure keeps it.
LEMMA ShippingStep == ShippingInv /\ [Next]_vars => ShippingInv'
<1>1. ASSUME ShippingInv, Next
      PROVE  ShippingInv'
  <2>1. TypeOK'
    BY <1>1, TypeStep DEF ShippingInv
  <2>2. CommandInv' /\ ProjectionInv'
    BY <1>1, ApplyingStep, PromotingStep, FailingStep, InvokeStep, UserStep,
       CrashStep DEF Next, Step
  <2> QED
    BY <2>1, <2>2 DEF ShippingInv, ProjectionInv
<1>2. ASSUME ShippingInv, UNCHANGED vars
      PROVE  ShippingInv'
  BY <1>2 DEF vars, ShippingInv, TypeOK, ShippingType, TreeType, CommandType,
     BoundType, HistoryType, CommandInv, At, Reliable, HalfAppliedIsAnnounced,
     Open, PromotedWasApplied, NoTemporaryAfterPromotion
<1> QED
  BY <1>1, <1>2

\* Wherever a command of application.go or promotion.go is cut short, the
\* journal's projections, the checkout and the temporaries agree.
THEOREM ShippingAgrees == Spec => []ShippingInv
BY ShippingInit, ShippingStep, PTL DEF Spec

\* No cut of `apply` leaves a half-written checkout that the run's projection
\* does not show as an open application.
THEOREM HalfAppliedAnnounced == Spec => []HalfAppliedIsAnnounced
<1>1. ShippingInv => HalfAppliedIsAnnounced
  BY DEF ShippingInv
<1> QED
  BY <1>1, ShippingAgrees, PTL

\* No promotion's temporary file outlives its promotion in the checkout.
THEOREM TemporariesSwept == Spec => []NoTemporaryAfterPromotion
<1>1. ShippingInv => NoTemporaryAfterPromotion
  BY DEF ShippingInv
<1> QED
  BY <1>1, ShippingAgrees, PTL

-----------------------------------------------------------------------------
(* What the commands know of a checkout that the user has left alone. *)

\* The steps that only `apply` itself takes, which make the run the last one.
ApplyLabels ==
    {"start", "check", "lay", "layrest", "verify", "undo", "restore", "restorerest",
     "reverify", "fail"}

\* What a command relies on before its step l when the user kept out.
Verified(r, l) ==
    /\ l \in ApplyLabels => r = last
    /\ l \in {"start", "fail", "resolve"} => tree.touched = Base[r]
    /\ l = "complete" => tree.touched = Result[r]

\* The journal's verdict on the last application is what the checkout holds.
VerdictInv ==
    /\ last \in Runs
    /\ tree.other = "clean"
    /\ app[last] = "APPLIED" => tree.touched = Result[last]
    /\ app[last] = "FAILED_CLEAN" => tree.touched = Base[last]

QuietInv ==
    quiet =>
        /\ VerdictInv
        /\ \A r \in Runs, l \in Labels : At(r, l) => Verified(r, l)

\* A root that is about to be replaced and is not the one of the run's start
\* was written after the last look.
LateInv == \A r \in Runs : At(r, "prename") /\ tree.root # Start[r] => late

\* It holds where the command goes if the next step may rely on it.
LEMMA MovedQuiet ==
    ASSUME NEW r \in Runs, NEW l \in Labels, Go(r, l), (quiet => VerdictInv /\ Verified(r, l))'
    PROVE  QuietInv'
<1> SUFFICES ASSUME quiet', NEW q \in Runs, NEW m \in Labels, At(q, m)'
             PROVE  Verified(q, m)'
  BY DEF QuietInv
<1>1. q = r /\ m = l
  BY DEF At, Go, Command
<1> QED
  BY <1>1

\* Nothing is relied upon once the command has ended.
LEMMA EndedQuiet ==
    ASSUME End, (quiet => VerdictInv)'
    PROVE  QuietInv'
BY NoneIsNoCommand DEF QuietInv, End, At

\* A command that stands somewhere may rely on the checkout.
LEMMA AtQuiet ==
    ASSUME NEW r \in Runs, NEW l \in Labels, QuietInv, quiet, At(r, l)
    PROVE  Verified(r, l) /\ VerdictInv
BY DEF QuietInv

\* A step of `apply` or its recovery.
LEMMA ApplyingQuiet ==
    ASSUME ShippingInv, QuietInv, NEW r \in Runs, Applying(r) \/ RecoveringApply(r)
    PROVE  QuietInv'
<1> USE DEF ShippingInv, TypeOK, ShippingType, TreeType, Trees, Labels, ApplyLabels, Verified,
        Reliable, VerdictInv, checkout, shipping, history, bounds
<1>1. ASSUME NEW s, NEW l \in Labels \cup {"end"}, NEW m \in Labels, At(r, m),
             AppendApplication(r, s, l), UNCHANGED <<tree, quiet, last>>,
             s = "APPLIED" => m = "complete",
             s = "FAILED_CLEAN" => m \in {"fail", "resolve"},
             l # "end" /\ quiet => Verified(r, l)
      PROVE  QuietInv'
  <2>1. (quiet => VerdictInv)'
    BY <1>1, AtQuiet DEF AppendApplication, ProjectApplication
  <2>2. CASE End
    BY <2>1, <2>2, EndedQuiet
  <2>3. CASE l # "end" /\ Go(r, l)
    BY <1>1, <2>1, <2>3, MovedQuiet
  <2> QED
    BY <1>1, <2>2, <2>3 DEF AppendApplication
<1>2. CASE ApplyStarted(r)
  <2>1. /\ At(r, "start") /\ AppendApplication(r, "APPLYING", "check")
        /\ UNCHANGED <<tree, quiet, last>>
    BY <1>2 DEF ApplyStarted
  <2>2. quiet => Verified(r, "check")
    BY <2>1, AtQuiet
  <2> QED
    BY <1>1, <2>1, <2>2
<1>3. CASE CheckPatch(r)
  BY <1>3, AtQuiet, MovedQuiet DEF CheckPatch
<1>4. CASE LaySome(r)
  <2>1. app[r] = "APPLYING" /\ (quiet => r = last)
    BY <1>4, AtCommand, AtQuiet DEF LaySome
  <2> QED
    BY <1>4, <2>1, AtQuiet, MovedQuiet DEF LaySome
<1>5. CASE LayRest(r)
  <2>1. app[r] = "APPLYING" /\ (quiet => r = last)
    BY <1>5, AtCommand, AtQuiet DEF LayRest
  <2> QED
    BY <1>5, <2>1, AtQuiet, MovedQuiet DEF LayRest
<1>6. CASE Verify(r)
  BY <1>6, AtQuiet, MovedQuiet DEF Verify, Holds, ResultTree, Tree
<1>7. CASE ApplyCompleted(r)
  <2>1. /\ At(r, "complete") /\ AppendApplication(r, "APPLIED", "end")
        /\ UNCHANGED <<tree, quiet, last>>
    BY <1>7 DEF ApplyCompleted
  <2> QED
    BY <1>1, <2>1
<1>8. CASE Undo(r)
  BY <1>8, AtQuiet, MovedQuiet DEF Undo, Holds, BaseTree, Tree
<1>9. CASE RestoreSome(r)
  <2>1. app[r] = "APPLYING" /\ (quiet => r = last)
    BY <1>9, AtCommand, AtQuiet DEF RestoreSome
  <2> QED
    BY <1>9, <2>1, AtQuiet, MovedQuiet DEF RestoreSome
<1>10. CASE RestoreRest(r)
  <2>1. app[r] = "APPLYING" /\ (quiet => r = last)
    BY <1>10, AtCommand, AtQuiet DEF RestoreRest
  <2> QED
    BY <1>10, <2>1, AtQuiet, MovedQuiet DEF RestoreRest
<1>11. CASE Reverify(r)
  <2>1. CASE Holds(BaseTree(r)) /\ Go(r, "fail")
    BY <1>11, <2>1, AtQuiet, MovedQuiet DEF Reverify, Holds, BaseTree, Tree
  <2>2. CASE End
    BY <1>11, <2>2, AtQuiet, EndedQuiet DEF Reverify
  <2> QED
    BY <1>11, <2>1, <2>2 DEF Reverify
<1>12. CASE ApplyFailed(r)
  <2>1. /\ At(r, "fail") /\ AppendApplication(r, "FAILED_CLEAN", "end")
        /\ UNCHANGED <<tree, quiet, last>>
    BY <1>12 DEF ApplyFailed
  <2> QED
    BY <1>1, <2>1
<1>13. CASE RecoveryRequired(r)
  <2>1. /\ At(r, "cause") /\ AppendApplication(r, "RECOVERY_REQUIRED", "look")
        /\ UNCHANGED <<tree, quiet, last>>
    BY <1>13 DEF RecoveryRequired
  <2>2. Verified(r, "look")
    OBVIOUS
  <2> QED
    BY <1>1, <2>1, <2>2
<1>14. CASE Look(r)
  <2>1. CASE End
    BY <1>14, <2>1, AtQuiet, EndedQuiet DEF Look
  <2>2. CASE ~End
    BY <1>14, <2>2, AtQuiet, MovedQuiet DEF Look, Holds, BaseTree, ResultTree, Tree
  <2> QED
    BY <2>1, <2>2
<1>15. CASE RecoveryResolved(r)
  <2>1. /\ At(r, "resolve") /\ AppendApplication(r, "FAILED_CLEAN", "end")
        /\ UNCHANGED <<tree, quiet, last>>
    BY <1>15 DEF RecoveryResolved
  <2> QED
    BY <1>1, <2>1
<1> QED
  BY <1>2, <1>3, <1>4, <1>5, <1>6, <1>7, <1>8, <1>9, <1>10, <1>11, <1>12, <1>13, <1>14, <1>15
     DEF Applying, RecoveringApply

\* A promotion changes nothing but the root and its own temporary.
LEMMA PromotingQuiet ==
    ASSUME ShippingInv, QuietInv, NEW r \in Runs, Promoting(r) \/ StepFails(r)
    PROVE  QuietInv'
<1> USE DEF ShippingInv, TypeOK, ShippingType, TreeType, Trees, Labels, ApplyLabels, Verified,
        VerdictInv, checkout, shipping, history, bounds
<1>1. /\ app' = app /\ quiet' = quiet /\ last' = last
      /\ tree'.touched = tree.touched /\ tree'.other = tree.other
  <2>1. CASE Promoting(r)
    BY <2>1
    DEF Promoting, PromotionStarted, SweepTemporaries, LookRoot, PromotionRestarted,
        WriteTemporary, CheckRoot, RenameRoot, Promoted, HaltPromotion, AppendPromotion
  <2>2. CASE StepFails(r)
    BY <2>2
    DEF StepFails, ApplyingFails, RecoveringApplyFails, PromotingFails, GitFails,
        PromotionFails
  <2> QED
    BY <2>1, <2>2
<1>2. (quiet => VerdictInv)'
  BY <1>1 DEF QuietInv
<1>3. CASE End
  BY <1>2, <1>3, EndedQuiet
<1>4. ASSUME NEW l \in {"plook", "pagain", "ptemp", "pcheck", "prename", "pdone", "phalt"},
             Go(r, l)
      PROVE  QuietInv'
  BY <1>2, <1>4, MovedQuiet
<1>5. ASSUME NEW l \in {"check", "lay", "layrest", "verify"}, At(r, l), Go(r, "undo")
      PROVE  QuietInv'
  <2>1. (quiet => Verified(r, "undo"))'
    BY <1>1, <1>5, AtQuiet
  <2> QED
    BY <1>2, <1>5, <2>1, MovedQuiet
<1>6. CASE Promoting(r)
  BY <1>3, <1>4, <1>6
  DEF Promoting, PromotionStarted, SweepTemporaries, LookRoot, PromotionRestarted,
      WriteTemporary, CheckRoot, RenameRoot, Promoted, HaltPromotion, AppendPromotion
<1>7. CASE StepFails(r)
  BY <1>3, <1>4, <1>5, <1>7
  DEF StepFails, ApplyingFails, RecoveringApplyFails, PromotingFails, GitFails, PromotionFails
<1> QED
  BY <1>6, <1>7

\* A command begins, or a run makes progress.
LEMMA InvokeQuiet ==
    ASSUME ShippingInv, QuietInv, NEW r \in Runs, Run(r) \/ Invoke(r)
    PROVE  QuietInv'
<1> USE DEF Labels, ApplyLabels, Verified, VerdictInv, checkout, shipping, history
<1>1. CASE Run(r)
  <2>1. UNCHANGED <<app, tree, cmd, quiet, last>>
    BY <1>1 DEF Run, InspectRepository, StartRun, Succeed
  <2> QED
    BY <2>1 DEF QuietInv, At
<1>2. CASE Apply(r)
  BY <1>2, MovedQuiet DEF Apply, CanApply, Holds, BaseTree, Tree
<1>3. CASE RecoverApply(r) \/ Promote(r) \/ RecoverPromotion(r)
  <2>1. (quiet => VerdictInv)'
    BY <1>3 DEF RecoverApply, Promote, RecoverPromotion, QuietInv
  <2>2. \E l \in {"cause", "look", "pstart", "psweep"} : Go(r, l)
    BY <1>3 DEF RecoverApply, Promote, RecoverPromotion
  <2> QED
    BY <2>1, <2>2, MovedQuiet
<1> QED
  BY <1>1, <1>2, <1>3 DEF Invoke

\* A command that dies knows nothing, and the user makes the checkout theirs.
LEMMA OthersQuiet ==
    ASSUME QuietInv, Crash \/ User
    PROVE  QuietInv'
<1>1. CASE Crash
  BY <1>1, EndedQuiet DEF Crash, QuietInv, VerdictInv, checkout, shipping, history
<1>2. CASE User
  BY <1>2 DEF User, UserEdits, UserDiscards, UserCommits, UserActs, QuietInv
<1> QED
  BY <1>1, <1>2

\* Whatever the user keeps out of, the journal's last verdict is about.
LEMMA QuietStep == ShippingInv /\ QuietInv /\ [Next]_vars => QuietInv'
<1>1. ASSUME ShippingInv, QuietInv, Next
      PROVE  QuietInv'
  BY <1>1, ApplyingQuiet, PromotingQuiet, InvokeQuiet, OthersQuiet DEF Next, Step
<1>2. ASSUME QuietInv, UNCHANGED vars
      PROVE  QuietInv'
  BY <1>2 DEF vars, QuietInv, VerdictInv, Verified, At
<1> QED
  BY <1>1, <1>2

-----------------------------------------------------------------------------
(* What is known of the root before it is replaced. *)

\* A command that goes on, but not to its rename, relies on nothing here.
LEMMA LateStep == LateInv /\ [Next]_vars => LateInv'
<1> SUFFICES ASSUME LateInv, [Next]_vars, NEW r \in Runs, At(r, "prename")',
                    tree'.root # Start[r]
             PROVE  late'
  BY DEF LateInv
<1>1. CASE UNCHANGED vars
  BY <1>1 DEF vars, LateInv, At
<1>2. CASE User
  BY <1>2 DEF User, UserEdits, UserDiscards, UserCommits, UserActs, LateInv, At
<1>3. CASE Crash
  BY <1>3, NoneIsNoCommand DEF Crash, End, At, Labels
<1>4. ASSUME NEW q \in Runs, Run(q)
      PROVE  late'
  BY <1>4 DEF Run, InspectRepository, StartRun, Succeed, LateInv, At, checkout, history
<1>5. ASSUME NEW q \in Runs, NEW l \in Labels, l # "prename", Go(q, l)
      PROVE  FALSE
  BY <1>5 DEF Go, At, Command
<1>6. CASE End
  BY <1>6, NoneIsNoCommand DEF End, At, Labels
<1>7. ASSUME NEW q \in Runs, Invoke(q)
      PROVE  late'
  BY <1>5, <1>7 DEF Invoke, Apply, RecoverApply, Promote, RecoverPromotion, Labels
<1>8. ASSUME NEW q \in Runs, Applying(q) \/ RecoveringApply(q)
      PROVE  late'
  BY <1>5, <1>6, <1>8
  DEF Applying, ApplyStarted, CheckPatch, LaySome, LayRest, Verify, ApplyCompleted, Undo,
      RestoreSome, RestoreRest, Reverify, ApplyFailed, RecoveringApply, RecoveryRequired, Look,
      RecoveryResolved, AppendApplication, Labels
<1>9. ASSUME NEW q \in Runs, CheckRoot(q)
      PROVE  late'
  <2>1. CASE Go(q, "prename") /\ tree'.root = Start[q]
    BY <2>1 DEF Go, At, Command
  <2> QED
    BY <1>5, <1>9, <2>1 DEF CheckRoot, Labels
<1>10. ASSUME NEW q \in Runs, Promoting(q), ~CheckRoot(q)
       PROVE  late'
  BY <1>5, <1>6, <1>10
  DEF Promoting, PromotionStarted, SweepTemporaries, LookRoot, PromotionRestarted,
      WriteTemporary, RenameRoot, Promoted, HaltPromotion, AppendPromotion, Labels
<1>11. ASSUME NEW q \in Runs, StepFails(q)
       PROVE  late'
  BY <1>5, <1>6, <1>11
  DEF StepFails, ApplyingFails, RecoveringApplyFails, PromotingFails, GitFails, PromotionFails,
      Labels
<1> QED
  BY <1>1, <1>2, <1>3, <1>4, <1>7, <1>8, <1>9, <1>10, <1>11 DEF Next, Step

\* If the user kept out of it, the journal's verdict on the last application
\* is what the checkout holds: no cut or failure of `apply` or of its recovery
\* records a verdict that was not verified (runstore/application.go).
THEOREM SettledVerdictHolds == Spec => []SettledTreeIsVerified
<1>1. Init => QuietInv
  BY DEF Init, QuietInv
<1>2. QuietInv => SettledTreeIsVerified
  BY DEF QuietInv, VerdictInv, SettledTreeIsVerified
<1> QED
  BY <1>1, <1>2, QuietStep, ShippingAgrees, PTL DEF Spec

\* promote-score replaces what the user wrote into partitur.yaml only when it
\* was written after the last look before the rename (runstore/promotion.go).
THEOREM RootEditsAreSeen == Spec => OnlyWindowEditsAreLost
<1>1. Init => LateInv
  BY NoneIsNoCommand DEF Init, LateInv, At, Labels
<1>2. LateInv => \A r \in Runs : RenameRoot(r) /\ tree.root = "user" => late
  BY StartsAreKnown DEF LateInv, RenameRoot
<1>3. LateInv /\ [Next]_vars
        => [\A r \in Runs : RenameRoot(r) /\ tree.root = "user" => late]_vars
  BY <1>2
<1> QED
  BY <1>1, <1>3, LateStep, PTL DEF Spec, OnlyWindowEditsAreLost
=============================================================================
