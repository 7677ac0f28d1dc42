--------------------- MODULE EngineeringPipelineProofs ---------------------
(***************************************************************************)
(* What holds of every run of the engine, for any files, any number of     *)
(* runs, repairs and retries of the provider.                              *)
(***************************************************************************)
EXTENDS EngineeringPipeline, TLAPS

LEMMA PatchType ==
    ASSUME NEW p \in Patches
    PROVE  /\ p \in [writes : SUBSET Files, deletes : SUBSET Files, valid : BOOLEAN]
           /\ p.writes \cap p.deletes = {}
BY DEF Patches

LEMMA OutcomeTypes ==
    /\ Pending \in Outcomes /\ Raises \in Outcomes
    /\ \A files \in SUBSET Files,
          errs \in SUBSET {"unavailable", "failed", "evidence", "invalid", "unapplied"},
          step \in {"none", "review", "retry", "escalate"} : Returns(files, errs, step) \in Outcomes
BY DEF Pending, Raises, Returns, Outcomes

LEMMA NothingType == Nothing \in [writes : SUBSET Files, deletes : SUBSET Files, valid : BOOLEAN]
BY DEF Nothing

LEMMA LeaveTypes ==
    ASSUME NEW o \in Outcomes, Leave(o)
    PROVE  /\ pc' = "idle" /\ outcome' \in Outcomes
           /\ patch' \in [writes : SUBSET Files, deletes : SUBSET Files, valid : BOOLEAN]
           /\ phase' = "validation" /\ round' \in 0 .. MaxRepairs /\ tries' \in 0 .. Retries
           /\ errors' \in SUBSET {"invalid", "unapplied"}
BY EngineAssumption, NothingType DEF Leave

LEMMA WithoutAgentTypes ==
    ASSUME EngineTypeOK, NEW error \in {"unavailable", "failed"}, WithoutAgent(error)
    PROVE  /\ pc' \in {"search", "idle"} /\ outcome' \in Outcomes
           /\ patch' \in [writes : SUBSET Files, deletes : SUBSET Files, valid : BOOLEAN]
           /\ phase' \in {"validation", "application"}
           /\ round' \in 0 .. MaxRepairs /\ tries' \in 0 .. Retries
           /\ errors' \in SUBSET {"invalid", "unapplied"}
<1>1. CASE Leave(Returns({}, {error}, "escalate"))
  <2>1. Returns({}, {error}, "escalate") \in Outcomes
    BY OutcomeTypes
  <2> QED
    BY <1>1, <2>1, LeaveTypes
<1>2. CASE pc' = "search" /\ UNCHANGED <<patch, errors, outcome, loops>>
  BY <1>2 DEF EngineTypeOK, loops
<1> QED
  BY <1>1, <1>2 DEF WithoutAgent

Applying == {"apply", "backup", "git", "rollback"}

\* While an application goes on there is a copy of every file it has copied.
CopiesHeld ==
    /\ \A f \in copied : backup[f] # "none"
    /\ pc \notin {"git", "rollback"} => copied = {}

\* The state is well typed after every step.
LEMMA TypesKept ==
    ASSUME EngineTypeOK, CopiesHeld, [EngineNext]_evars PROVE EngineTypeOK'
<1> USE EngineAssumption, PatchType, OutcomeTypes DEF EngineTypeOK, tree, loops, Held
<1>1. CASE StartRun
  BY <1>1 DEF StartRun
<1>2. CASE AgentAvailable
  BY <1>2 DEF AgentAvailable
<1>3. CASE AgentUnavailable
  BY <1>3, WithoutAgentTypes DEF AgentUnavailable
<1>4. ASSUME NEW edited \in SUBSET Files, AgentFails(edited) PROVE EngineTypeOK'
  <2>1. content' \in [Files -> Held]
    BY <1>4 DEF AgentFails, AgentEdits
  <2> QED
    BY <1>4, <2>1, WithoutAgentTypes DEF AgentFails
<1>5. ASSUME NEW edited \in SUBSET Files, NEW step \in {"review", "escalate"},
             AgentFinishes(edited, step)
      PROVE  EngineTypeOK'
  <2>1. content' \in [Files -> Held]
    BY <1>5 DEF AgentFinishes, AgentEdits
  <2>2. Dirty \cup edited \cup Leftovers \in SUBSET Files
    BY DEF Dirty, Leftovers
  <2>3. /\ Returns(Dirty \cup edited \cup Leftovers, {}, step) \in Outcomes
        /\ Returns({}, {}, step) \in Outcomes
    BY <2>2
  <2> QED
    BY <1>5, <2>1, <2>3, NothingType DEF AgentFinishes, Leave
<1>6. CASE FindsEvidence
  BY <1>6 DEF FindsEvidence
<1>7. CASE LacksEvidence
  BY <1>7 DEF LacksEvidence, Leave, Nothing
<1>8. CASE SelectProvider
  BY <1>8 DEF SelectProvider
<1>9. CASE Aborts
  BY <1>9 DEF Aborts, Leave, Nothing
<1>10. ASSUME NEW p \in Patches, Answers(p) PROVE EngineTypeOK'
  BY <1>10 DEF Answers
<1>11. CASE CallFails
  <2>1. CASE Leave(Raises)
    BY <1>11, <2>1, LeaveTypes DEF CallFails
  <2>2. CASE tries < Retries /\ tries' = tries + 1 /\ UNCHANGED <<pc, patch, phase, round, errors, outcome>>
    BY <1>11, <2>2 DEF CallFails
  <2> QED
    BY <1>11, <2>1, <2>2 DEF CallFails
<1>12. CASE ValidationPasses
  BY <1>12 DEF ValidationPasses
<1>13. CASE ValidationFails
  BY <1>13 DEF ValidationFails, Reject, AskAgain
<1>14. CASE CheckFails
  BY <1>14 DEF CheckFails, NotApplied, AskAgain
<1>15. CASE CheckOnly
  BY <1>15 DEF CheckOnly
<1>16. CASE GitApplies
  BY <1>16 DEF GitApplies, Edit, DropCopies, ApplicationEnds, NoTree
<1>17. CASE GitFails
  BY <1>17 DEF GitFails, Edit
<1>21. CASE CheckPasses
  BY <1>21 DEF CheckPasses, Applicable
<1>22. CASE BacksUp
  BY <1>22 DEF BacksUp, Copy, ToCopy
<1>23. CASE BackupRaises
  <2>1. backup' \in [Files -> Held \cup {"none"}]
    BY <1>23 DEF BackupRaises, Copy
  <2>2. /\ patch' \in [writes : SUBSET Files, deletes : SUBSET Files, valid : BOOLEAN]
        /\ pc' = "idle" /\ outcome' \in Outcomes
        /\ phase' = "validation" /\ round' \in 0 .. MaxRepairs /\ tries' \in 0 .. Retries
        /\ errors' \in SUBSET {"invalid", "unapplied"}
    BY <1>23, LeaveTypes DEF BackupRaises
  <2> QED
    BY <1>23, <2>1, <2>2 DEF BackupRaises, ApplicationEnds, NoTree
<1>24. ASSUME NEW files \in SUBSET copied PROVE Restore(files) \in [Files -> Held]
  BY <1>24 DEF Restore, CopiesHeld
<1>25. CASE RollsBack
  <2>1. content' \in [Files -> Held]
    BY <1>24, <1>25 DEF RollsBack
  <2> QED
    BY <1>25, <2>1 DEF RollsBack, NotApplied, AskAgain, ApplicationEnds, NoTree
<1>26. CASE RollbackRaises
  <2>1. content' \in [Files -> Held]
    BY <1>24, <1>26 DEF RollbackRaises
  <2>2. /\ patch' \in [writes : SUBSET Files, deletes : SUBSET Files, valid : BOOLEAN]
        /\ pc' = "idle" /\ outcome' \in Outcomes
        /\ phase' = "validation" /\ round' \in 0 .. MaxRepairs /\ tries' \in 0 .. Retries
        /\ errors' \in SUBSET {"invalid", "unapplied"}
    BY <1>26, LeaveTypes DEF RollbackRaises
  <2> QED
    BY <1>26, <2>1, <2>2 DEF RollbackRaises, ApplicationEnds, NoTree
<1>18. CASE Finish
  BY <1>18 DEF Finish, Leave, Nothing
<1>19. CASE TestsRaise
  BY <1>19 DEF TestsRaise, Leave, Nothing
<1>20. CASE UNCHANGED evars
  BY <1>20 DEF evars
<1> QED
  BY <1>1, <1>2, <1>3, <1>4, <1>5, <1>6, <1>7, <1>8, <1>9, <1>10, <1>11, <1>12, <1>13,
     <1>14, <1>15, <1>16, <1>17, <1>18, <1>19, <1>20, <1>21, <1>22, <1>23, <1>25, <1>26
     DEF EngineNext, Advance

LEMMA CopiesHeldKept ==
    ASSUME EngineTypeOK, CopiesHeld, [EngineNext]_evars PROVE CopiesHeld'
<1> USE DEF CopiesHeld, tree, loops
<1>1. CASE UNCHANGED <<backup, copied>> /\ pc \notin {"git", "rollback"} /\ pc' \notin {"git", "rollback"}
  BY <1>1
<1>2. CASE ApplicationEnds /\ pc' \notin {"git", "rollback"}
  BY <1>2 DEF ApplicationEnds
<1>3. CASE BacksUp
  BY <1>3 DEF BacksUp, Copy, ToCopy, EngineTypeOK, Held
<1>4. CASE GitFails \/ UNCHANGED evars
  BY <1>4 DEF GitFails, evars
<1>5. CASE BackupRaises \/ GitApplies \/ RollsBack \/ RollbackRaises
  BY <1>2, <1>5 DEF BackupRaises, GitApplies, RollsBack, RollbackRaises, Leave, NotApplied, AskAgain
<1>6. CASE \/ StartRun \/ AgentAvailable \/ AgentUnavailable \/ FindsEvidence \/ LacksEvidence
           \/ SelectProvider \/ Aborts \/ CallFails \/ \E p \in Patches : Answers(p)
  BY <1>1, <1>6 DEF StartRun, AgentAvailable, AgentUnavailable, WithoutAgent, FindsEvidence,
     LacksEvidence, Leave, SelectProvider, Aborts, CallFails, Answers
<1>7. CASE \/ ValidationPasses \/ ValidationFails \/ CheckFails \/ CheckOnly \/ CheckPasses
           \/ Finish \/ TestsRaise
  BY <1>1, <1>7 DEF ValidationPasses, ValidationFails, Reject, AskAgain, CheckFails, NotApplied,
     CheckOnly, CheckPasses, Applicable, Finish, TestsRaise, Leave
<1>8. ASSUME NEW edited \in SUBSET Files,
             AgentFails(edited) \/ \E step \in {"review", "escalate"} : AgentFinishes(edited, step)
      PROVE  CopiesHeld'
  BY <1>1, <1>8 DEF AgentFails, AgentFinishes, WithoutAgent, Leave
<1> QED
  BY <1>3, <1>4, <1>5, <1>6, <1>7, <1>8 DEF EngineNext, Advance

LEMMA TypesStart == EngineInit => EngineTypeOK
<1> SUFFICES ASSUME EngineInit PROVE EngineTypeOK
  OBVIOUS
<1>1. content \in [Files -> Held] /\ backup \in [Files -> Held \cup {"none"}]
  BY DEF EngineInit, Original, Held
<1>2. runs \in 0 .. MaxRuns /\ round \in 0 .. MaxRepairs /\ tries \in 0 .. Retries /\ calls \in Nat
  BY EngineAssumption DEF EngineInit
<1>3. outcome \in Outcomes /\ patch \in [writes : SUBSET Files, deletes : SUBSET Files, valid : BOOLEAN]
  BY OutcomeTypes, NothingType DEF EngineInit
<1> QED
  BY <1>1, <1>2, <1>3 DEF EngineInit, EngineTypeOK, NoTree, Held

LEMMA EngineSound == EngineSpec => [](EngineTypeOK /\ CopiesHeld)
<1>1. EngineInit => CopiesHeld
  BY DEF EngineInit, CopiesHeld
<1> QED
  BY <1>1, TypesStart, TypesKept, CopiesHeldKept, PTL DEF EngineSpec

\* Every variable of the engine keeps its type.
THEOREM EngineTypeCorrect == EngineSpec => []EngineTypeOK
BY EngineSound, PTL

-------------------------------------------------------------------------
\* What is applied is what was validated.

Judged ==
    /\ patch.writes \cap patch.deletes = {}
    /\ pc \in Applying => patch.valid
    /\ ReviewMeansApplied

LEMMA JudgedKept ==
    ASSUME EngineTypeOK, Judged, [EngineNext]_evars PROVE Judged'
<1> USE DEF Judged, ReviewMeansApplied, Applying, tree, loops
<1>0. ASSUME NEW o, Leave(o) PROVE Judged'
  BY <1>0 DEF Leave, Nothing
<1>1. CASE StartRun \/ AgentAvailable \/ AgentUnavailable \/ FindsEvidence \/ LacksEvidence
  BY <1>0, <1>1 DEF StartRun, AgentAvailable, AgentUnavailable, WithoutAgent, FindsEvidence,
                    LacksEvidence
<1>2. ASSUME NEW edited \in SUBSET Files,
             AgentFails(edited) \/ \E step \in {"review", "escalate"} : AgentFinishes(edited, step)
      PROVE  Judged'
  BY <1>0, <1>2 DEF AgentFails, AgentFinishes, WithoutAgent
<1>3. CASE SelectProvider \/ Aborts \/ CallFails
  BY <1>0, <1>3 DEF SelectProvider, Aborts, CallFails
<1>4. ASSUME NEW p \in Patches, Answers(p) PROVE Judged'
  BY <1>4, PatchType DEF Answers
<1>5. CASE ValidationPasses \/ ValidationFails
  BY <1>5 DEF ValidationPasses, ValidationFails, Reject, AskAgain
<1>6. CASE CheckFails \/ RollsBack
  BY <1>6 DEF CheckFails, RollsBack, NotApplied, AskAgain
<1>7. CASE CheckOnly
  BY <1>7 DEF CheckOnly
<1>8. CASE GitApplies
  BY <1>8 DEF GitApplies, Edit, EngineTypeOK
<1>9. CASE Finish \/ TestsRaise \/ BackupRaises \/ RollbackRaises
  BY <1>0, <1>9 DEF Finish, TestsRaise, BackupRaises, RollbackRaises
<1>11. CASE CheckPasses \/ BacksUp \/ GitFails
  BY <1>11 DEF CheckPasses, Applicable, BacksUp, GitFails
<1>10. CASE UNCHANGED evars
  BY <1>10 DEF evars
<1> QED
  BY <1>1, <1>2, <1>3, <1>4, <1>5, <1>6, <1>7, <1>8, <1>9, <1>10, <1>11 DEF EngineNext, Advance

\* A patch that the engine recommends for review was validated, and is what the
\* files hold, after any number of repairs and failed applications.
THEOREM EngineReviewMeansApplied == EngineSpec => []ReviewMeansApplied
<1>1. EngineInit => Judged
  BY DEF EngineInit, Judged, ReviewMeansApplied, Applying, Nothing
<1>2. EngineTypeOK /\ Judged /\ [EngineNext]_evars => Judged'
  BY JudgedKept
<1>3. Judged => ReviewMeansApplied
  BY DEF Judged
<1> QED
  BY <1>1, <1>2, <1>3, EngineTypeCorrect, PTL DEF EngineSpec

-------------------------------------------------------------------------
\* What is left in the tree.

\* Each half is inductive by itself: a dry run without the agent touches
\* nothing, and copies stay only after a failed application.
Untouched ==
    /\ pc \in {"detect", "agent"} => config.agent
    /\ pc \in {"backup", "git", "rollback"} => ~config.dry
    /\ DryRunLeavesTree

LEMMA UntouchedKept ==
    ASSUME EngineTypeOK, Untouched, [EngineNext]_evars PROVE Untouched'
<1> USE DEF Untouched, DryRunLeavesTree, Dirty, Leftovers, tree, loops
<1>1. CASE StartRun \/ AgentAvailable \/ AgentUnavailable \/ FindsEvidence \/ LacksEvidence
  BY <1>1 DEF StartRun, AgentAvailable, AgentUnavailable, WithoutAgent, FindsEvidence,
              LacksEvidence, Leave
<1>2. ASSUME NEW edited \in SUBSET Files,
             AgentFails(edited) \/ \E step \in {"review", "escalate"} : AgentFinishes(edited, step)
      PROVE  Untouched'
  BY <1>2 DEF AgentFails, AgentFinishes, WithoutAgent, Leave
<1>3. CASE SelectProvider \/ Aborts \/ CallFails \/ \E p \in Patches : Answers(p)
  BY <1>3 DEF SelectProvider, Aborts, CallFails, Leave, Answers
<1>4. CASE ValidationPasses \/ ValidationFails \/ CheckFails \/ CheckOnly
  BY <1>4 DEF ValidationPasses, ValidationFails, Reject, AskAgain, CheckFails, NotApplied, CheckOnly
<1>5. CASE CheckPasses
  BY <1>5 DEF CheckPasses, Applicable
<1>7. CASE BacksUp \/ BackupRaises \/ GitApplies
  BY <1>7 DEF BacksUp, BackupRaises, GitApplies, Leave
<1>8. CASE GitFails \/ RollsBack \/ RollbackRaises
  BY <1>8 DEF GitFails, RollsBack, RollbackRaises, Leave, NotApplied, AskAgain
<1>6. CASE Finish \/ TestsRaise \/ UNCHANGED evars
  BY <1>6 DEF Finish, TestsRaise, Leave, evars
<1> QED
  BY <1>1, <1>2, <1>3, <1>4, <1>5, <1>6, <1>7, <1>8 DEF EngineNext, Advance

\* Without the agent, a dry run leaves every file as it was and no copy beside it.
THEOREM EngineDryRunLeavesTree == EngineSpec => []DryRunLeavesTree
<1>1. EngineInit => Untouched
  BY DEF EngineInit, Untouched, DryRunLeavesTree, Dirty, Leftovers
<1>2. EngineTypeOK /\ Untouched /\ [EngineNext]_evars => Untouched'
  BY UntouchedKept
<1>3. Untouched => DryRunLeavesTree
  BY DEF Untouched
<1> QED
  BY <1>1, <1>2, <1>3, EngineTypeCorrect, PTL DEF EngineSpec

\* Of the copies, only those of the application under way are no trace yet.
Traced ==
    /\ Leftovers \ copied # {} => failures
    /\ pc = "rollback" => failures

LEMMA TracedKept ==
    ASSUME EngineTypeOK, CopiesHeld, Traced, [EngineNext]_evars PROVE Traced'
<1> USE DEF Traced, Leftovers, CopiesHeld, tree, loops
<1>1. CASE BacksUp
  BY <1>1 DEF BacksUp, Copy
<1>2. CASE GitApplies
  BY <1>2 DEF GitApplies, DropCopies, EngineTypeOK, ApplicationEnds
<1>3. CASE BackupRaises \/ GitFails
  BY <1>3 DEF BackupRaises, GitFails
<1>4. CASE RollsBack \/ RollbackRaises
  BY <1>4 DEF RollsBack, RollbackRaises
<1>5. CASE UNCHANGED <<backup, copied, failures>> /\ (pc' = pc \/ pc' # "rollback")
  BY <1>5
<1>6. \/ BacksUp \/ GitApplies \/ BackupRaises \/ GitFails \/ RollsBack \/ RollbackRaises
      \/ UNCHANGED <<backup, copied, failures>> /\ (pc' = pc \/ pc' # "rollback")
  BY DEF EngineNext, Advance, StartRun, AgentAvailable, AgentUnavailable, AgentFails,
         AgentFinishes, WithoutAgent, Leave, FindsEvidence, LacksEvidence, SelectProvider, Aborts,
         CallFails, Answers, ValidationPasses, ValidationFails, Reject, AskAgain, NotApplied,
         CheckFails, CheckOnly, CheckPasses, Finish, TestsRaise, evars
<1> QED
  BY <1>1, <1>2, <1>3, <1>4, <1>5, <1>6

\* Copies are found beside files only once an application has failed, or while
\* one is under way.
THEOREM EngineBackupsTraceFailure == EngineSpec => []BackupsTraceFailure
<1>1. EngineInit => Traced
  BY DEF EngineInit, Traced, Leftovers
<1>2. EngineTypeOK /\ CopiesHeld /\ Traced /\ [EngineNext]_evars => Traced'
  BY TracedKept
<1>3. Traced /\ CopiesHeld => BackupsTraceFailure
  BY DEF Traced, CopiesHeld, BackupsTraceFailure, Leftovers
<1> QED
  BY <1>1, <1>2, <1>3, EngineSound, PTL DEF EngineSpec

\* Where a file that a patch wrote can be while it is not a leftover of a failed
\* application: with the run that is about to report it, reported, or about to
\* be put back, from a copy that is no such file.
Reported ==
    /\ \A f \in copied : backup[f] = "patch" => f \in stuck
    /\ pc # "idle" => runs > 0
    /\ runs = 0 => \A f \in Files : content[f] # "patch"
    /\ \A f \in Files : content[f] = "patch" /\ f \notin stuck =>
            \/ pc = "tests" /\ f \in patch.writes
            \/ pc = "rollback" /\ f \in copied
            \/ pc = "idle" /\ (outcome.how # "returned" \/ outcome.files # {})

LEMMA ReportedKept ==
    ASSUME EngineTypeOK, CopiesHeld, Reported, [EngineNext]_evars PROVE Reported'
<1> USE DEF Reported, CopiesHeld, tree, loops, EngineTypeOK
<1>1. CASE StartRun
  BY <1>1 DEF StartRun, Pending, Raises
<1>2. CASE AgentAvailable \/ AgentUnavailable \/ FindsEvidence \/ LacksEvidence
  BY <1>2 DEF AgentAvailable, AgentUnavailable, WithoutAgent, FindsEvidence, LacksEvidence,
              Leave
<1>3. ASSUME NEW edited \in SUBSET Files,
             AgentFails(edited) \/ \E step \in {"review", "escalate"} : AgentFinishes(edited, step)
      PROVE  Reported'
  <2>1. pc = "agent" /\ AgentEdits(edited) /\ UNCHANGED <<runs, stuck, backup, copied>>
    BY <1>3 DEF AgentFails, AgentFinishes
  <2>2. \A f \in Files : content'[f] = "patch" => content[f] = "patch"
    <3> HIDE DEF Reported, CopiesHeld, EngineTypeOK
    <3> QED
      BY <2>1 DEF AgentEdits
  <2>3. \A f \in Files : content'[f] = "patch" => f \in stuck'
    BY <2>1, <2>2
  <2>4. runs > 0 /\ runs' = runs /\ \A f \in copied' : backup'[f] = "patch" => f \in stuck'
    BY <2>1
  <2> HIDE DEF CopiesHeld, EngineTypeOK
  <2> QED
    BY <2>3, <2>4
<1>4. CASE SelectProvider \/ Aborts \/ CallFails \/ \E p \in Patches : Answers(p)
  <2>1. CASE SelectProvider
    BY <2>1 DEF SelectProvider
  <2>2. CASE Aborts
    BY <2>2 DEF Aborts, Leave, Raises
  <2>3. CASE CallFails
    BY <2>3 DEF CallFails, Leave, Raises
  <2>4. CASE \E p \in Patches : Answers(p)
    BY <2>4 DEF Answers
  <2> QED
    BY <1>4, <2>1, <2>2, <2>3, <2>4
<1>5. CASE ValidationPasses \/ ValidationFails \/ CheckFails \/ CheckOnly
  BY <1>5 DEF ValidationPasses, ValidationFails, Reject, AskAgain, CheckFails, NotApplied, CheckOnly
<1>6. CASE GitApplies
  BY <1>6 DEF GitApplies, Edit, ApplicationEnds
<1>7. CASE GitFails
  BY <1>7 DEF GitFails, Edit
<1>11. CASE CheckPasses
  BY <1>11 DEF CheckPasses, Applicable
<1>12. CASE BacksUp
  BY <1>12 DEF BacksUp, Copy, ToCopy
<1>13. CASE BackupRaises
  BY <1>13 DEF BackupRaises, Leave, Raises, ApplicationEnds
<1>14. CASE RollsBack
  <2>1. \A f \in Files : content'[f] = "patch" => f \in stuck'
    BY <1>14 DEF RollsBack, Restore
  <2>2. runs' = runs /\ runs # 0 /\ copied' = {}
    BY <1>14 DEF RollsBack, ApplicationEnds
  <2> QED
    BY <2>1, <2>2
<1>15. CASE RollbackRaises
  <2>1. pc' = "idle" /\ outcome'.how # "returned" /\ copied' = {} /\ runs' = runs /\ runs # 0
    BY <1>15 DEF RollbackRaises, Leave, Raises, ApplicationEnds
  <2> QED
    BY <2>1
<1>8. CASE Finish
  BY <1>8 DEF Finish, Leave, Returns
<1>9. CASE TestsRaise
  BY <1>9 DEF TestsRaise, Leave, Raises
<1>10. CASE UNCHANGED evars
  BY <1>10 DEF evars
<1> QED
  BY <1>1, <1>2, <1>3, <1>4, <1>5, <1>6, <1>7, <1>8, <1>9, <1>10, <1>11, <1>12,
     <1>13, <1>14, <1>15 DEF EngineNext, Advance

\* The controller never lets the engine begin again over a file that an applied
\* patch wrote; over one that it deleted it may, as the run of
\* ClaimNoChangesRetried shows.
THEOREM EngineNoRetryOverWrites == EngineSpec => []NoRetryOverWrites
<1>1. EngineInit => Reported
  BY DEF EngineInit, Reported, Original
<1>2. EngineTypeOK /\ CopiesHeld /\ Reported /\ [EngineNext]_evars => Reported'
  BY ReportedKept
<1>3. Reported => NoRetryOverWrites
  BY DEF Reported, NoRetryOverWrites, Wrote
<1> QED
  BY <1>1, <1>2, <1>3, EngineSound, PTL DEF EngineSpec

\* The copies of an application hold the tree as it was found.
Found ==
    /\ pc = "backup" => before = content
    /\ pc \in {"git", "rollback"} =>
        /\ copied = {f \in patch.writes : before[f] # "absent"}
        /\ \A f \in copied : backup[f] = before[f]

LEMMA FoundKept ==
    ASSUME EngineTypeOK, Found, [EngineNext]_evars PROVE Found'
<1> USE DEF Found, tree, loops
<1>1. CASE CheckPasses
  BY <1>1 DEF CheckPasses
<1>2. CASE BacksUp
  BY <1>2 DEF BacksUp, Copy, ToCopy, EngineTypeOK
<1>3. CASE GitFails
  BY <1>3 DEF GitFails
<1>4. CASE pc' \notin {"backup", "git", "rollback"} \/ UNCHANGED evars
  BY <1>4 DEF evars
<1>5. \/ CheckPasses \/ BacksUp \/ GitFails
      \/ pc' \notin {"backup", "git", "rollback"} \/ UNCHANGED evars
  BY DEF EngineNext, Advance, StartRun, AgentAvailable, AgentUnavailable, AgentFails,
         AgentFinishes, WithoutAgent, Leave, FindsEvidence, LacksEvidence, SelectProvider, Aborts,
         CallFails, Answers, ValidationPasses, ValidationFails, Reject, AskAgain, NotApplied,
         CheckFails, CheckOnly, BackupRaises, GitApplies, RollsBack, RollbackRaises, Finish,
         TestsRaise
<1> QED
  BY <1>1, <1>2, <1>3, <1>4, <1>5

\* A failed application that lets the run go on gives back every file that was
\* there and that the patch names, in the state it found it in, over any number
\* of earlier applications and whatever copies they left.
THEOREM EngineRollbackRestores == EngineSpec => RollbackRestores
<1>1. ASSUME EngineTypeOK, Found, [EngineNext]_evars, pc = "rollback", pc' # "idle", ~UNCHANGED evars,
             NEW f \in patch.writes, before[f] # "absent"
      PROVE  content'[f] = before[f]
  <2>1. RollsBack
    BY <1>1 DEF EngineNext, Advance, StartRun, AgentAvailable, AgentUnavailable, AgentFails,
       AgentFinishes, FindsEvidence, LacksEvidence, SelectProvider, Aborts,
       CallFails, Answers, ValidationPasses, ValidationFails, Reject,
       CheckFails, CheckOnly, CheckPasses, Applicable, BacksUp, BackupRaises, GitApplies, GitFails,
       RollbackRaises, Leave, Finish, TestsRaise
  <2>2. f \in Files /\ f \in copied /\ backup[f] = before[f]
    BY <1>1 DEF Found, EngineTypeOK
  <2> QED
    BY <2>1, <2>2 DEF RollsBack, Restore
<1>2. EngineTypeOK /\ Found /\ [EngineNext]_evars
        => [pc = "rollback" /\ pc' # "idle" =>
                \A f \in patch.writes : before[f] # "absent" => content'[f] = before[f]]_evars
  BY <1>1
<1>3. EngineInit => Found
  BY DEF EngineInit, Found
<1> QED
  BY <1>2, <1>3, FoundKept, EngineTypeCorrect, PTL DEF EngineSpec, RollbackRestores

-------------------------------------------------------------------------
\* The provider is called a bounded number of times.

\* Answers the loops have had: those of the validation loop, at most
\* MaxRepairs + 1, and those of the rounds of the application loop.
Had(loop, asked, at) ==
    (IF loop = "validation" THEN asked ELSE MaxRepairs + asked)
    + (IF at = "generate" THEN 0 ELSE 1)

Bound == (1 + 2 * MaxRepairs) * (Retries + 1)

Counted ==
    /\ pc \in {"detect", "agent", "search", "select"} =>
            calls = 0 /\ phase = "validation" /\ round = 0
    /\ pc # "generate" => tries = 0
    /\ pc \in {"idle"} => phase = "validation" /\ round = 0
    /\ pc \in {"generate", "validate", "tests"} \cup Applying =>
            calls <= Had(phase, round, pc) * (Retries + 1) + tries
    /\ calls <= Bound

LEMMA Products ==
    ASSUME NEW a \in Nat, NEW b \in Nat, NEW k \in Nat, a <= b
    PROVE  a * k <= b * k /\ (a + 1) * k = a * k + k
OBVIOUS

\* Neither asking again nor passing from one loop to the other takes an answer back.
LEMMA HadGrows ==
    ASSUME NEW loop, NEW asked \in 0 .. MaxRepairs, NEW at, NEW next
    PROVE  /\ Had(loop, asked, at) \in Nat
           /\ at # "generate" /\ next # "generate" => Had(loop, asked, next) = Had(loop, asked, at)
           /\ at # "generate" => Had(loop, asked + 1, "generate") = Had(loop, asked, at)
           /\ at # "generate" => Had("validation", asked, at) <= Had("application", 1, "generate")
           /\ MaxRepairs = 0 => Had("validation", asked, at) <= Had("application", 0, "tests")
BY EngineAssumption DEF Had

\* While an answer is awaited there is room for the call and all its retries.
LEMMA RoomForCalls ==
    ASSUME EngineTypeOK, Counted
    PROVE  /\ Had(phase, round, pc) \in Nat /\ Bound \in Nat
           /\ pc = "generate" => Had(phase, round, pc) * (Retries + 1) + Retries + 1 <= Bound
<1> USE EngineAssumption DEF EngineTypeOK
<1>1. Had(phase, round, pc) \in Nat /\ Bound \in Nat
  BY DEF Had, Bound
<1>2. ASSUME pc = "generate" PROVE Had(phase, round, pc) * (Retries + 1) + Retries + 1 <= Bound
  <2>1. Had(phase, round, pc) <= 2 * MaxRepairs
    BY <1>2 DEF Had
  <2>2. /\ Had(phase, round, pc) * (Retries + 1) <= (2 * MaxRepairs) * (Retries + 1)
        /\ (2 * MaxRepairs + 1) * (Retries + 1) = (2 * MaxRepairs) * (Retries + 1) + (Retries + 1)
    BY <1>1, <2>1, Products
  <2> QED
    BY <1>1, <2>2 DEF Bound
<1> QED
  BY <1>1, <1>2

LEMMA CountedKept ==
    ASSUME EngineTypeOK, EngineTypeOK', Counted, [EngineNext]_evars PROVE Counted'
<1> USE EngineAssumption DEF Applying, tree, loops
<1>0. Had(phase, round, pc) \in Nat /\ Had(phase', round', pc') \in Nat /\ Bound \in Nat /\ Bound' = Bound
  <2>1. round' \in 0 .. MaxRepairs
    BY DEF EngineTypeOK
  <2>2. Had(phase', round', pc') \in Nat
    BY <2>1, HadGrows
  <2> QED
    BY <2>2, RoomForCalls DEF Bound
\* A run that is over, and one that has not begun to ask.
<1>1. ASSUME UNCHANGED calls \/ calls' = 0 \/ calls' <= Bound,
             pc' \in {"idle"} /\ phase' = "validation" /\ round' = 0 /\ tries' = 0
      PROVE  Counted'
  BY <1>0, <1>1 DEF Counted, EngineTypeOK, Bound
<1>2. ASSUME NEW o, Leave(o), UNCHANGED calls PROVE Counted'
  BY <1>1, <1>2 DEF Leave
<1>3. CASE StartRun
  BY <1>0, <1>3 DEF StartRun, Counted, EngineTypeOK
<1>4. CASE AgentAvailable \/ AgentUnavailable \/ FindsEvidence \/ LacksEvidence
  <2>1. CASE UNCHANGED <<calls, loops>> /\ pc \in {"detect", "search"} /\ pc' \in {"agent", "search", "select"}
    BY <1>0, <2>1 DEF Counted
  <2> QED
    BY <1>2, <1>4, <2>1 DEF AgentAvailable, AgentUnavailable, WithoutAgent, FindsEvidence,
                            LacksEvidence
<1>5. ASSUME NEW edited \in SUBSET Files,
             AgentFails(edited) \/ \E step \in {"review", "escalate"} : AgentFinishes(edited, step)
      PROVE  Counted'
  <2>1. CASE UNCHANGED <<calls, loops>> /\ pc = "agent" /\ pc' = "search"
    BY <1>0, <2>1 DEF Counted
  <2> QED
    BY <1>2, <1>5, <2>1 DEF AgentFails, AgentFinishes, WithoutAgent
<1>6. CASE SelectProvider \/ Aborts
  <2>1. CASE SelectProvider
    BY <1>0, <2>1 DEF SelectProvider, Counted, Had, EngineTypeOK
  <2> QED
    BY <1>2, <1>6, <2>1 DEF Aborts
<1>7. ASSUME NEW p \in Patches, Answers(p) PROVE Counted'
  <2>1. /\ pc = "generate" /\ pc' = "validate" /\ tries' = 0 /\ calls' = calls + 1
        /\ phase' = phase /\ round' = round
    BY <1>7 DEF Answers
  <2>2. Had(phase', round', pc') = Had(phase, round, pc) + 1
    BY <2>1 DEF Had, EngineTypeOK
  <2>3. (Had(phase, round, pc) + 1) * (Retries + 1) = Had(phase, round, pc) * (Retries + 1) + (Retries + 1)
    BY <1>0, Products
  <2>4. calls + 1 <= Had(phase, round, pc) * (Retries + 1) + Retries + 1
    BY <1>0, <2>1 DEF Counted, EngineTypeOK
  <2>5. calls' <= Had(phase', round', pc') * (Retries + 1) /\ calls' <= Bound
    BY <1>0, <2>1, <2>2, <2>3, <2>4, RoomForCalls DEF EngineTypeOK
  <2> QED
    BY <1>0, <2>1, <2>5 DEF Counted, EngineTypeOK
<1>8. CASE CallFails
  <2>1. pc = "generate" /\ calls' = calls + 1 /\ calls <= Had(phase, round, pc) * (Retries + 1) + tries
    BY <1>8 DEF CallFails, Counted
  <2>2. calls + 1 <= Had(phase, round, pc) * (Retries + 1) + Retries + 1
    BY <1>0, <2>1 DEF EngineTypeOK
  <2>3. calls' <= Bound
    BY <1>0, <2>1, <2>2, RoomForCalls DEF EngineTypeOK
  <2>4. CASE Leave(Raises)
    BY <1>1, <2>3, <2>4 DEF Leave
  <2>5. CASE tries' = tries + 1 /\ UNCHANGED <<pc, phase, round>>
    <3>1. Had(phase', round', pc') = Had(phase, round, pc)
      BY <2>5 DEF Had
    <3> QED
      BY <1>0, <2>1, <2>3, <2>5, <3>1 DEF Counted, EngineTypeOK
  <2> QED
    BY <1>8, <2>4, <2>5 DEF CallFails
\* No step that handles an answer takes one back.
<1>9. ASSUME pc \in {"validate", "tests"} \cup Applying,
             pc' \in {"generate", "validate", "tests"} \cup Applying,
             UNCHANGED <<calls, tries>>, Had(phase, round, pc) <= Had(phase', round', pc')
      PROVE  Counted'
  <2>1. Had(phase, round, pc) * (Retries + 1) <= Had(phase', round', pc') * (Retries + 1)
    <3>1. Had(phase, round, pc) \in Nat /\ Had(phase', round', pc') \in Nat /\ Retries + 1 \in Nat /\ Had(phase, round, pc) <= Had(phase', round', pc')
      BY <1>0, <1>9
    <3> HIDE EngineAssumption
    <3> QED
      BY <3>1, Products
  <2> QED
    BY <1>0, <1>9, <2>1 DEF Counted, EngineTypeOK
<1>10. CASE \/ ValidationPasses \/ CheckOnly \/ CheckPasses \/ BacksUp \/ GitApplies \/ GitFails
  <2>1. /\ pc \in {"validate"} \cup Applying /\ pc' \in {"tests"} \cup Applying
        /\ UNCHANGED <<calls, loops>>
    BY <1>10 DEF ValidationPasses, CheckOnly, CheckPasses, Applicable, BacksUp, GitApplies, GitFails
  <2>2. round \in 0 .. MaxRepairs /\ pc # "generate" /\ pc' # "generate"
    BY <2>1 DEF EngineTypeOK
  <2>3. Had(phase', round', pc') = Had(phase, round, pc)
    BY <2>1, <2>2 DEF Had
  <2> QED
    BY <1>0, <1>9, <2>1, <2>3
<1>11. ASSUME pc \in {"validate", "apply", "rollback"}, AskAgain, UNCHANGED phase
       PROVE  pc' \in {"generate", "tests"} /\ Had(phase, round, pc) <= Had(phase', round', pc')
  <2>1. round \in 0 .. MaxRepairs /\ pc # "generate"
    BY <1>11 DEF EngineTypeOK
  <2>2. CASE round' = round + 1 /\ pc' = "generate"
    BY <1>0, <1>11, <2>1, <2>2, HadGrows
  <2>3. CASE round' = round /\ pc' = "tests"
    <3>1. Had(phase, round, "tests") = Had(phase, round, pc)
      BY <2>1, HadGrows
    <3> QED
      BY <1>0, <1>11, <2>3, <3>1
  <2> QED
    BY <1>11, <2>2, <2>3 DEF AskAgain
<1>12. CASE ValidationFails \/ CheckFails \/ RollsBack
  <2>1. CASE ValidationFails
    BY <1>9, <1>11, <2>1 DEF ValidationFails, Reject
  <2>2. CASE CheckFails \/ RollsBack
    <3>1. pc \in {"apply", "rollback"} /\ NotApplied /\ UNCHANGED <<calls, tries>>
      BY <2>2 DEF CheckFails, RollsBack
    <3>2. CASE phase = "application"
      BY <1>9, <1>11, <3>1, <3>2 DEF NotApplied
    <3>3. CASE phase = "validation"
      <4>1. round \in 0 .. MaxRepairs /\ pc # "generate" /\ phase' = "application"
        BY <3>1 DEF EngineTypeOK, NotApplied
      <4>2. CASE MaxRepairs = 0 /\ round' = 0 /\ pc' = "tests"
        BY <1>9, <3>1, <3>3, <4>1, <4>2, HadGrows
      <4>3. CASE round' = 1 /\ pc' = "generate"
        BY <1>9, <3>1, <3>3, <4>1, <4>3, HadGrows
      <4> QED
        BY <3>1, <3>3, <4>2, <4>3 DEF NotApplied
    <3> QED
      BY <3>2, <3>3 DEF EngineTypeOK
  <2> QED
    BY <1>12, <2>1, <2>2
<1>13. CASE Finish \/ TestsRaise \/ BackupRaises \/ RollbackRaises
  BY <1>2, <1>13 DEF Finish, TestsRaise, BackupRaises, RollbackRaises
<1>14. CASE UNCHANGED evars
  BY <1>0, <1>14 DEF evars, Counted, Had
<1> QED
  BY <1>3, <1>4, <1>5, <1>6, <1>7, <1>8, <1>10, <1>12, <1>13, <1>14 DEF EngineNext, Advance

\* However the repairs of the two loops and the retries of the provider nest, one
\* run of the engine calls it at most (1 + 2 * MaxRepairs) * (Retries + 1) times.
THEOREM EngineCallsBounded == EngineSpec => []CallsBounded
<1>1. EngineInit => Counted
  BY EngineAssumption DEF EngineInit, Counted, Had, Bound
<1>2. EngineTypeOK /\ EngineTypeOK' /\ Counted /\ [EngineNext]_evars => Counted'
  BY CountedKept
<1>3. Counted => CallsBounded
  BY DEF Counted, Bound, CallsBounded
<1> QED
  BY <1>1, <1>2, <1>3, EngineTypeCorrect, PTL DEF EngineSpec

\* How much a run still has ahead of it: six for each call of the provider
\* that is left, and the steps down to the end or to the next call.
Ahead(at) ==
    CASE at = "idle" -> 0
      [] at = "tests" -> 1
      [] at = "generate" -> 2
      [] at = "rollback" -> 3
      [] at = "git" -> 4
      [] at = "backup" -> 5
      [] at = "apply" -> 6
      [] at = "validate" -> 7
      [] at = "select" -> 8
      [] at = "search" -> 9
      [] at = "agent" -> 10
      [] at = "detect" -> 11
Left == 6 * (Bound - calls) + Ahead(pc)

LEMMA StepsAhead ==
    /\ Ahead("idle") = 0 /\ Ahead("tests") = 1 /\ Ahead("generate") = 2
    /\ Ahead("rollback") = 3 /\ Ahead("git") = 4 /\ Ahead("backup") = 5
    /\ Ahead("apply") = 6 /\ Ahead("validate") = 7 /\ Ahead("select") = 8
    /\ Ahead("search") = 9 /\ Ahead("agent") = 10 /\ Ahead("detect") = 11
BY DEF Ahead

LEMMA AdvanceShortens ==
    ASSUME EngineTypeOK, Counted, Counted', Advance
    PROVE  Left \in Nat /\ Left' < Left
<1> USE StepsAhead DEF tree, loops
<1>1. /\ Bound \in Nat /\ Bound' = Bound /\ calls \in Nat
      /\ calls <= Bound /\ calls' <= Bound
  BY RoomForCalls DEF Bound, Counted, EngineTypeOK
<1>2. Ahead(pc) \in 0 .. 11 /\ (pc # "idle" => Ahead(pc) > 0)
  BY DEF EngineTypeOK
<1>3. ASSUME calls' \in Nat, calls' >= calls, Ahead(pc') \in Nat,
             Ahead(pc') < Ahead(pc) + 6 * (calls' - calls)
      PROVE  Left \in Nat /\ Left' < Left
  <2> HIDE DEF Bound
  <2> QED
    BY <1>1, <1>2, <1>3 DEF Left
<1>4. ASSUME calls' \in {calls, calls + 1}, pc # "idle", pc' = "idle"
      PROVE  Left \in Nat /\ Left' < Left
  BY <1>1, <1>2, <1>3, <1>4
<1>5. ASSUME calls' = calls, Ahead(pc') \in Nat, Ahead(pc') < Ahead(pc)
      PROVE  Left \in Nat /\ Left' < Left
  BY <1>1, <1>2, <1>3, <1>5
<1>6. CASE AgentAvailable \/ AgentUnavailable \/ FindsEvidence \/ LacksEvidence
  BY <1>4, <1>5, <1>6 DEF AgentAvailable, AgentUnavailable, WithoutAgent, FindsEvidence,
                          LacksEvidence, Leave
<1>7. ASSUME NEW edited \in SUBSET Files,
             AgentFails(edited) \/ \E step \in {"review", "escalate"} : AgentFinishes(edited, step)
      PROVE  Left \in Nat /\ Left' < Left
  BY <1>4, <1>5, <1>7 DEF AgentFails, AgentFinishes, WithoutAgent, Leave
<1>8. CASE SelectProvider \/ Aborts
  BY <1>4, <1>5, <1>8 DEF SelectProvider, Aborts, Leave
<1>9. ASSUME NEW p \in Patches, Answers(p) PROVE Left \in Nat /\ Left' < Left
  BY <1>1, <1>3, <1>9 DEF Answers
<1>10. CASE CallFails
  <2>1. CASE Leave(Raises)
    BY <1>4, <1>10, <2>1 DEF CallFails, Leave
  <2>2. CASE UNCHANGED pc
    BY <1>1, <1>3, <1>10, <2>2 DEF CallFails
  <2> QED
    BY <1>10, <2>1, <2>2 DEF CallFails
<1>11. CASE ValidationPasses \/ ValidationFails
  BY <1>5, <1>11 DEF ValidationPasses, ValidationFails, Reject, AskAgain
<1>12. CASE \/ CheckFails \/ CheckOnly \/ CheckPasses \/ BacksUp \/ GitApplies \/ GitFails
            \/ RollsBack
  BY <1>5, <1>12 DEF CheckFails, CheckOnly, CheckPasses, Applicable, BacksUp, GitApplies, GitFails,
                     RollsBack, NotApplied, AskAgain
<1>13. CASE Finish \/ TestsRaise \/ BackupRaises \/ RollbackRaises
  BY <1>4, <1>13 DEF Finish, TestsRaise, BackupRaises, RollbackRaises, Leave
<1> QED
  BY <1>6, <1>7, <1>8, <1>9, <1>10, <1>11, <1>12, <1>13 DEF Advance

\* Every step within a run of the engine brings its end nearer, by a measure
\* that cannot fall below zero: no mixture of repairs, retries of the provider
\* and giving up the agent goes on for ever.
THEOREM EngineRunsShorten ==
    EngineSpec => /\ [](Left \in Nat)
                  /\ [][Advance => Left' < Left]_evars
<1>1. EngineTypeOK /\ Counted => Left \in Nat
  <2> SUFFICES ASSUME EngineTypeOK, Counted PROVE Left \in Nat
    OBVIOUS
  <2>1. Bound \in Nat /\ calls \in Nat /\ calls <= Bound
    BY RoomForCalls DEF Counted, EngineTypeOK
  <2>2. Ahead(pc) \in 0 .. 11
    BY StepsAhead DEF EngineTypeOK
  <2> QED
    BY <2>1, <2>2 DEF Left
<1>2. EngineTypeOK /\ EngineTypeOK' /\ Counted /\ [EngineNext]_evars
        => Counted' /\ [Advance => Left' < Left]_evars
  BY CountedKept, AdvanceShortens
<1>3. EngineInit => Counted
  BY EngineAssumption DEF EngineInit, Counted, Had, Bound
<1> QED
  BY <1>1, <1>2, <1>3, EngineTypeCorrect, PTL DEF EngineSpec

-------------------------------------------------------------------------
\* The pipeline keeps the contract that IssueExecution relies on.

Inferring == {"search", "select", "generate", "validate", "tests"} \cup Applying

\* A run is in the hands of an engine that the configuration allows, and before
\* the first run there is no answer.
Allowed ==
    /\ pc \in {"detect", "agent"} => config.agent
    /\ pc \in Inferring => (config.agent => config.fallback)
    /\ runs = 0 => pc = "idle" /\ outcome.how = "pending"

LEMMA AllowedKept ==
    ASSUME EngineTypeOK, Allowed, [EngineNext]_evars PROVE Allowed'
<1> USE DEF Allowed, Inferring, Applying, EngineTypeOK, tree, loops
<1>1. CASE StartRun
  BY <1>1 DEF StartRun
<1>2. CASE AgentAvailable \/ AgentUnavailable \/ FindsEvidence \/ LacksEvidence
  BY <1>2 DEF AgentAvailable, AgentUnavailable, WithoutAgent, FindsEvidence, LacksEvidence, Leave
<1>3. ASSUME NEW edited \in SUBSET Files,
             AgentFails(edited) \/ \E step \in {"review", "escalate"} : AgentFinishes(edited, step)
      PROVE  Allowed'
  BY <1>3 DEF AgentFails, AgentFinishes, WithoutAgent, Leave
<1>4. CASE SelectProvider \/ Aborts \/ CallFails \/ \E p \in Patches : Answers(p)
  BY <1>4 DEF SelectProvider, Aborts, CallFails, Leave, Answers
<1>5. CASE ValidationPasses \/ ValidationFails \/ CheckFails \/ CheckOnly
  BY <1>5 DEF ValidationPasses, ValidationFails, Reject, AskAgain, CheckFails, NotApplied, CheckOnly
<1>6. CASE CheckPasses \/ BacksUp \/ GitApplies \/ GitFails \/ RollsBack
  BY <1>6 DEF CheckPasses, BacksUp, GitApplies, GitFails, RollsBack, Applicable, NotApplied, AskAgain
<1>7. CASE Finish \/ TestsRaise \/ BackupRaises \/ RollbackRaises \/ UNCHANGED evars
  BY <1>7 DEF Finish, TestsRaise, BackupRaises, RollbackRaises, Leave, evars
<1> QED
  BY <1>1, <1>2, <1>3, <1>4, <1>5, <1>6, <1>7 DEF EngineNext, Advance

\* A step within a run is the contract's Edit.
LEMMA WithinRun ==
    ASSUME pc # "idle", pc' # "idle", UNCHANGED <<config, runs, outcome>>
    PROVE  Contract!Edit
BY DEF Contract!Edit, EnginesOf

\* The end of a run is the contract's End, if what it reports may be reported.
LEMMA EndOfRun ==
    ASSUME NEW o, pc # "idle", Leave(o), UNCHANGED <<config, runs>>,
           o.how \in {"returned", "raised"},
           o.how = "returned" /\ o.files # {} => "infer" \in EnginesOf \/ Dirty' \cup Leftovers' # {}
    PROVE  Contract!End
<1>1. EnginesOf' = EnginesOf /\ runs' = runs /\ pc' = "idle" /\ outcome' = o
  BY DEF Leave, EnginesOf
<1> QED
  BY <1>1 DEF Contract!End, Contract!MayReport

\* An agent that names files has left some that git status lists.
LEMMA AgentReportsEdits ==
    ASSUME NEW edited \in SUBSET Files, AgentEdits(edited), UNCHANGED backup,
           Dirty \cup edited \cup Leftovers # {}
    PROVE  Dirty' \cup Leftovers' # {}
<1>1. Leftovers' = Leftovers
  BY DEF Leftovers
<1>2. \A f \in Dirty \cup edited : f \in Dirty'
  BY DEF Dirty, AgentEdits, Original
<1> QED
  BY <1>1, <1>2

\* Giving up the agent either ends the run or goes on in it.
LEMMA WithoutAgentMaps ==
    ASSUME NEW error, WithoutAgent(error), pc # "idle", UNCHANGED <<config, runs>>
    PROVE  Contract!Edit \/ Contract!End
<1>1. CASE Leave(Returns({}, {error}, "escalate"))
  BY <1>1, EndOfRun DEF Returns
<1>2. CASE pc' = "search" /\ UNCHANGED outcome
  BY <1>2, WithinRun
<1> QED
  BY <1>1, <1>2 DEF WithoutAgent

LEMMA StepKeepsContract ==
    ASSUME EngineTypeOK, Allowed, [EngineNext]_evars PROVE [Contract!Next]_(Contract!vars)
<1> USE DEF tree, loops
<1>1. CASE StartRun
  <2>1. Dirty' = Dirty /\ Leftovers' = Leftovers /\ EnginesOf' = EnginesOf
    BY <1>1 DEF StartRun, Dirty, Leftovers, EnginesOf
  <2>2. outcome.how = "pending" \/ (outcome.how = "returned" /\ outcome.files = {})
    BY <1>1 DEF StartRun, Allowed
  <2>3. pc' # "idle" /\ outcome'.how = "pending" /\ runs' = runs + 1 /\ runs < MaxRuns /\ pc = "idle"
    BY <1>1 DEF StartRun, Pending, Raises
  <2>4. Contract!Begin
    BY <2>1, <2>2, <2>3 DEF Contract!Begin
  <2> QED
    BY <2>4 DEF Contract!Next
<1>2. CASE AgentAvailable \/ FindsEvidence \/ SelectProvider \/ \E p \in Patches : Answers(p)
  <2>1. Contract!Edit
    BY <1>2, WithinRun DEF AgentAvailable, FindsEvidence, SelectProvider, Answers
  <2> QED
    BY <2>1 DEF Contract!Next
<1>3. CASE AgentUnavailable
  BY <1>3, WithoutAgentMaps DEF AgentUnavailable, Contract!Next
<1>4. ASSUME NEW edited \in SUBSET Files, AgentFails(edited) PROVE Contract!Next
  BY <1>4, WithoutAgentMaps DEF AgentFails, Contract!Next
<1>5. ASSUME NEW edited \in SUBSET Files, NEW step \in {"review", "escalate"},
             AgentFinishes(edited, step)
      PROVE  Contract!Next
  <2>1. pc = "agent" /\ UNCHANGED <<config, runs, backup>> /\ AgentEdits(edited)
    BY <1>5 DEF AgentFinishes
  <2>2. CASE Leave(Returns(Dirty \cup edited \cup Leftovers, {}, step))
    <3>1. Dirty \cup edited \cup Leftovers # {} => Dirty' \cup Leftovers' # {}
      BY <2>1, AgentReportsEdits
    <3>2. Contract!End
      BY <2>1, <2>2, <3>1, EndOfRun DEF Returns
    <3> QED
      BY <3>2 DEF Contract!Next
  <2>3. CASE Leave(Returns({}, {}, step))
    BY <2>1, <2>3, EndOfRun DEF Returns, Contract!Next
  <2> QED
    BY <1>5, <2>2, <2>3 DEF AgentFinishes
<1>6. CASE LacksEvidence
  BY <1>6, EndOfRun DEF LacksEvidence, Returns, Contract!Next
<1>7. CASE Aborts \/ TestsRaise \/ BackupRaises \/ RollbackRaises
  BY <1>7, EndOfRun DEF Aborts, TestsRaise, BackupRaises, RollbackRaises, Raises, Contract!Next
<1>8. CASE CallFails
  <2>1. CASE Leave(Raises)
    BY <1>8, <2>1, EndOfRun DEF CallFails, Raises, Contract!Next
  <2>2. CASE UNCHANGED <<pc, outcome>>
    BY <1>8, <2>2, WithinRun DEF CallFails, Contract!Next
  <2> QED
    BY <1>8, <2>1, <2>2 DEF CallFails
<1>9. CASE \/ ValidationPasses \/ ValidationFails \/ CheckFails \/ CheckOnly
           \/ CheckPasses \/ BacksUp \/ GitApplies \/ GitFails \/ RollsBack
  <2>1. pc # "idle" /\ pc' # "idle" /\ UNCHANGED <<config, runs, outcome>>
    BY <1>9 DEF ValidationPasses, ValidationFails, Reject, AskAgain, CheckFails, NotApplied,
                CheckOnly, CheckPasses, BacksUp, GitApplies, GitFails, RollsBack, Applicable,
                EngineTypeOK
  <2> QED
    BY <2>1, WithinRun DEF Contract!Next
<1>10. CASE Finish
  <2>1. pc = "tests" /\ UNCHANGED <<config, runs>>
        /\ \E step : Leave(Returns(patch.writes, errors, step))
    BY <1>10 DEF Finish
  <2>2. "infer" \in EnginesOf
    BY <2>1 DEF Allowed, Inferring, EnginesOf
  <2> QED
    BY <2>1, <2>2, EndOfRun DEF Returns, Contract!Next
<1>11. CASE UNCHANGED evars
  BY <1>11 DEF evars, Contract!vars, EnginesOf, Dirty, Leftovers
<1> QED
  BY <1>1, <1>2, <1>3, <1>4, <1>5, <1>6, <1>7, <1>8, <1>9, <1>10, <1>11 DEF EngineNext, Advance

\* To the controller, the pipeline is a run of EngineRuns: each run returns or
\* raises before the next, no run follows one that named files or raised, and the
\* agent names files only when git status lists some.
THEOREM EngineKeepsContract == EngineSpec => KeepsContract
<1>1. ASSUME EngineInit PROVE Contract!Init
  <2>1. Dirty \cup Leftovers = {}
    BY <1>1 DEF EngineInit, Dirty, Leftovers
  <2>2. EnginesOf \in (SUBSET Contract!EngineKinds) \ {{}}
    <3>1. EnginesOf \subseteq {"agent", "infer"} /\ EnginesOf # {}
      BY DEF EnginesOf
    <3> QED
      BY <3>1 DEF Contract!EngineKinds
  <2>3. pc = "idle" /\ runs = 0 /\ outcome.how = "pending"
    BY <1>1 DEF EngineInit, Pending, Raises
  <2> QED
    BY <2>1, <2>2, <2>3 DEF Contract!Init
<1>2. EngineInit => Allowed
  BY DEF EngineInit, Allowed, Inferring, Applying, Pending, Raises
<1>3. EngineTypeOK /\ Allowed /\ [EngineNext]_evars => Allowed'
  BY AllowedKept
<1>4. EngineTypeOK /\ Allowed /\ [EngineNext]_evars => [Contract!Next]_(Contract!vars)
  BY StepKeepsContract
<1> QED
  BY <1>1, <1>2, <1>3, <1>4, EngineTypeCorrect, PTL DEF EngineSpec, KeepsContract, Contract!Spec

=========================================================================
