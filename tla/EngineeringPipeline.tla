------------------------ MODULE EngineeringPipeline ------------------------
(***************************************************************************)
(* The engine of one execution: the controller's runs of                   *)
(* EngineeringExecutionPipeline.run_until_patch in one checkout, with the  *)
(* agent, the fall back to inference, the provider's retries, the two      *)
(* repair loops, the patch applier with its backups, and the tests.        *)
(*                                                                         *)
(* A patch is the set of files it writes, named by "+++ b/" lines, and the *)
(* set it deletes, which such lines do not name.  Whether it is valid,     *)
(* whether it applies and what the agent edits are choices.                *)
(***************************************************************************)
EXTENDS Naturals, FiniteSets

CONSTANTS
    Files,       \* the files of interest
    Existing,    \* those the checkout has at the start
    MaxRuns,     \* max_retries + 1 of the controller
    MaxRepairs,  \* max_patch_repair_attempts
    Retries      \* openclaw_retries

ASSUME EngineAssumption ==
    /\ Existing \subseteq Files
    /\ MaxRuns \in Nat \ {0} /\ MaxRepairs \in Nat /\ Retries \in Nat

VARIABLES
    config,    \* agent mode, fall back, dry run and run_tests
    pc,        \* where the run stands; "idle" between runs
    runs,      \* runs begun
    content,   \* the working tree: what each file holds
    backup,    \* the .gew.bak files: what each holds
    patch,     \* the provider's last answer
    phase,     \* the loop that asked for it
    round,     \* repairs asked for in that loop
    tries,     \* failed calls of the provider since the last answer
    errors,    \* errors of the patch so far
    copied,    \* files this application has copied
    outcome,   \* what the last run returned or raised
    calls,     \* history: calls of the provider in this run
    before,    \* history: the working tree as the application found it
    stuck,     \* history: files that a failed application left behind
    failures   \* history: whether an application failed after its check

evars == <<config, pc, runs, content, backup, patch, phase, round, tries, errors,
          copied, outcome, calls, before, stuck, failures>>
tree == <<content, backup, copied, before, stuck, failures>>
loops == <<phase, round, tries>>

-------------------------------------------------------------------------
Original(f) == IF f \in Existing THEN "base" ELSE "absent"
Dirty == {f \in Files : content[f] # Original(f)}
Leftovers == {f \in Files : backup[f] # "none"}

NoTree == [f \in Files |-> "absent"]
Nothing == [writes |-> {}, deletes |-> {}, valid |-> FALSE]

\* The validator refuses an empty diff; a diff it accepts may delete only.
Patches ==
    {p \in [writes : SUBSET Files, deletes : SUBSET Files, valid : BOOLEAN] :
        /\ p.writes \cap p.deletes = {}
        /\ p.valid => p.writes \cup p.deletes # {}
        /\ ~p.valid => p.deletes = {}}

\* files_modified names the files written.
Returns(files, errs, step) ==
    [how |-> "returned", files |-> files, errors |-> errs, step |-> step]
Raises == [how |-> "raised", files |-> {}, errors |-> {}, step |-> "none"]
Pending == [Raises EXCEPT !.how = "pending"]

EngineInit ==
    /\ config \in [agent : BOOLEAN, fallback : BOOLEAN, dry : BOOLEAN, tests : BOOLEAN]
    /\ pc = "idle" /\ runs = 0
    /\ content = [f \in Files |-> Original(f)]
    /\ backup = [f \in Files |-> "none"]
    /\ patch = Nothing /\ phase = "validation" /\ round = 0 /\ tries = 0
    /\ errors = {} /\ outcome = Pending
    /\ copied = {} /\ before = NoTree
    /\ calls = 0 /\ stuck = {} /\ failures = FALSE

\* The run ends; its local variables go.
Leave(o) ==
    /\ pc' = "idle" /\ outcome' = o
    /\ patch' = Nothing /\ phase' = "validation" /\ round' = 0 /\ tries' = 0
    /\ errors' = {}

-------------------------------------------------------------------------
\* The controller runs the engine again while it names no modified file.
StartRun ==
    /\ pc = "idle" /\ runs < MaxRuns
    /\ runs = 0 \/ (outcome.how = "returned" /\ outcome.files = {})
    /\ runs' = runs + 1 /\ calls' = 0 /\ outcome' = Pending
    /\ pc' = IF config.agent THEN "detect" ELSE "search"
    /\ UNCHANGED <<config, patch, errors, tree, loops>>

\* Both probes of the detector answered, and the status names a gateway.
AgentAvailable ==
    /\ pc = "detect" /\ pc' = "agent"
    /\ UNCHANGED <<config, runs, patch, errors, outcome, calls, tree, loops>>

\* Without the agent: infer in its place, or give the issue up.
\* Mutants: the pipeline is entered anew; the configuration is not asked.
InferAnyway(error) == pc' = "search" /\ UNCHANGED <<patch, errors, outcome, loops>>
DetectAgain(error) ==
    \/ /\ config.fallback /\ pc' = "detect"
       /\ UNCHANGED <<patch, errors, outcome, loops>>
    \/ ~config.fallback /\ Leave(Returns({}, {error}, "escalate"))
WithoutAgent(error) ==
    \/ /\ config.fallback /\ pc' = "search"
       /\ UNCHANGED <<patch, errors, outcome, loops>>
    \/ ~config.fallback /\ Leave(Returns({}, {error}, "escalate"))

AgentUnavailable ==
    /\ pc = "detect" /\ WithoutAgent("unavailable")
    /\ UNCHANGED <<config, runs, calls, tree>>

\* The agent edits the checkout as it goes, a dry run or not.
AgentEdits(edited) ==
    content' = [f \in Files |-> IF f \in edited THEN "agent" ELSE content[f]]

\* execute: files_modified is git status, backups left behind included; the
\* rest of the result is the agent's word.
AgentFinishes(edited, step) ==
    /\ pc = "agent" /\ AgentEdits(edited)
    /\ \/ Leave(Returns(Dirty \cup edited \cup Leftovers, {}, step))
       \/ Leave(Returns({}, {}, step))
    /\ UNCHANGED <<config, runs, backup, copied, calls, before, stuck, failures>>

\* A timeout, an exit code, or an answer that cannot be read: what the agent
\* did to the files stays.
AgentFails(edited) ==
    /\ pc = "agent" /\ AgentEdits(edited) /\ WithoutAgent("failed")
    /\ UNCHANGED <<config, runs, backup, copied, calls, before, stuck, failures>>

-------------------------------------------------------------------------
FindsEvidence ==
    /\ pc = "search" /\ pc' = "select"
    /\ UNCHANGED <<config, runs, patch, errors, outcome, calls, tree, loops>>

LacksEvidence ==
    /\ pc = "search" /\ Leave(Returns({}, {"evidence"}, "retry"))
    /\ UNCHANGED <<config, runs, calls, tree>>

\* ProviderFactory.select: the provider is registered if it is detected.
SelectProvider ==
    /\ pc = "select" /\ pc' = "generate"
    /\ UNCHANGED <<config, runs, patch, errors, outcome, calls, tree, loops>>

\* What nobody catches: the detector cannot start the program, the search
\* cannot parse a file, KeyError from the registry, the model selection, an
\* exception of the provider that is not its own, a path that cannot be resolved,
\* a git that cannot be started, a package.json that is no object.
Aborts ==
    /\ pc \in {"detect", "search", "select", "generate", "validate", "apply", "tests"}
    /\ Leave(Raises)
    /\ UNCHANGED <<config, runs, calls, tree>>

Answers(p) ==
    /\ pc = "generate"
    /\ patch' = p /\ calls' = calls + 1 /\ tries' = 0 /\ pc' = "validate"
    /\ UNCHANGED <<config, runs, phase, round, errors, outcome, tree>>

\* One failed call of generate_patch; the last error is raised.
CallFails ==
    /\ pc = "generate" /\ calls' = calls + 1
    /\ \/ /\ tries < Retries /\ tries' = tries + 1
          /\ UNCHANGED <<pc, patch, phase, round, errors, outcome>>
       \/ tries = Retries /\ Leave(Raises)
    /\ UNCHANGED <<config, runs, tree>>

\* Mutants: no limit; one round too many.
AskForever == pc' = "generate" /\ round' = round
AskOnceMore ==
    \/ round <= MaxRepairs /\ round' = round + 1 /\ pc' = "generate"
    \/ round > MaxRepairs /\ pc' = "tests" /\ round' = round
\* Another answer is asked for within the loop, or the loop is over.
AskAgain ==
    \/ round < MaxRepairs /\ round' = round + 1 /\ pc' = "generate"
    \/ round = MaxRepairs /\ pc' = "tests" /\ round' = round

ValidationPasses ==
    /\ pc = "validate" /\ patch.valid /\ pc' = "apply"
    /\ UNCHANGED <<config, runs, patch, errors, outcome, calls, tree, loops>>

\* In either loop the errors become those of the validation.
RejectAsBefore == pc = "validate" /\ ~patch.valid /\ AskAgain /\ UNCHANGED errors  \* mutant
Reject == pc = "validate" /\ ~patch.valid /\ AskAgain /\ errors' = {"invalid"}

ValidationFails ==
    /\ Reject
    /\ UNCHANGED <<config, runs, patch, outcome, calls, tree, phase, tries>>

-------------------------------------------------------------------------
\* PatchApplier.apply: a failed application opens the second loop, or is one
\* more round of it.
NotApplied ==
    /\ errors' = {"unapplied"} /\ phase' = "application"
    /\ IF phase = "application" THEN AskAgain
       ELSE /\ round' = IF MaxRepairs = 0 THEN 0 ELSE 1
            /\ pc' = IF MaxRepairs = 0 THEN "tests" ELSE "generate"

\* No variant of git apply --check accepts the patch.
CheckFails ==
    /\ pc = "apply" /\ NotApplied
    /\ UNCHANGED <<config, runs, patch, tries, outcome, calls, tree>>

CheckOnly ==
    /\ pc = "apply" /\ config.dry
    /\ errors' = {} /\ pc' = "tests"
    /\ UNCHANGED <<config, runs, patch, loops, outcome, calls, tree>>

\* A patch deletes only what is there.  Mutant: a dry run applies it too.
ApplicableAnyway == pc = "apply" /\ \A f \in patch.deletes : content[f] # "absent"
Applicable == pc = "apply" /\ ~config.dry /\ \A f \in patch.deletes : content[f] # "absent"

CheckPasses ==
    /\ Applicable /\ pc' = "backup" /\ before' = content
    /\ UNCHANGED <<config, runs, patch, errors, outcome, calls, loops,
                   content, backup, copied, stuck, failures>>
ApplicationEnds == copied' = {} /\ before' = NoTree

\* The files the patch names and that are there are copied first, over the copy
\* an earlier application may have left.
ToCopy == {f \in patch.writes : content[f] # "absent"}
CopyOnce(files) ==                                                        \* mutant
    [f \in Files |-> IF f \in files /\ backup[f] = "none" THEN content[f] ELSE backup[f]]
Copy(files) == [f \in Files |-> IF f \in files THEN content[f] ELSE backup[f]]

BacksUp ==
    /\ pc = "backup" /\ pc' = "git"
    /\ copied' = ToCopy /\ backup' = Copy(ToCopy)
    /\ UNCHANGED <<config, runs, patch, errors, outcome, calls, loops,
                   content, before, stuck, failures>>

\* A copy that fails raises, and those made before it stay.
BackupRaises ==
    /\ pc = "backup" /\ Leave(Raises)
    /\ \E files \in SUBSET ToCopy : backup' = Copy(files)
    /\ failures' = TRUE /\ ApplicationEnds
    /\ UNCHANGED <<config, runs, calls, content, stuck>>

Edit(files) ==
    [f \in Files |-> IF f \notin files THEN content[f]
                     ELSE IF f \in patch.writes THEN "patch" ELSE "absent"]
DropCopies == [f \in Files |-> IF f \in copied THEN "none" ELSE backup[f]]

GitApplies ==
    /\ pc = "git" /\ pc' = "tests"
    /\ content' = Edit(patch.writes \cup patch.deletes)
    /\ backup' = DropCopies
    /\ stuck' = stuck \ (patch.writes \cup patch.deletes)
    /\ errors' = {} /\ ApplicationEnds
    /\ UNCHANGED <<config, runs, patch, loops, outcome, calls, failures>>

\* git apply stopped after some of the files.
GitFails ==
    /\ pc = "git" /\ pc' = "rollback"
    /\ \E files \in SUBSET (patch.writes \cup patch.deletes) :
        /\ content' = Edit(files)
        /\ stuck' = stuck \cup (files \ copied)
    /\ failures' = TRUE
    /\ UNCHANGED <<config, runs, patch, errors, loops, outcome, backup, copied, calls, before>>

\* The copies are put back and stay beside the files; one that cannot be put
\* back raises.
LeaveEdited(files) == content                                             \* mutant
Restore(files) == [f \in Files |-> IF f \in files THEN backup[f] ELSE content[f]]

RollsBack ==
    /\ pc = "rollback" /\ NotApplied
    /\ content' = Restore(copied) /\ ApplicationEnds
    /\ UNCHANGED <<config, runs, patch, tries, outcome, backup, calls, stuck, failures>>

RollbackRaises ==
    /\ pc = "rollback" /\ Leave(Raises)
    /\ \E files \in SUBSET copied : content' = Restore(files)
    /\ ApplicationEnds
    /\ UNCHANGED <<config, runs, backup, calls, stuck, failures>>

-------------------------------------------------------------------------
\* Without a dry run and with run_tests the tests run, whatever became of the
\* patch; their results decide nothing, and a command that hangs or is not installed
\* raises.
Finish ==
    /\ pc = "tests"
    /\ Leave(Returns(patch.writes, errors, IF errors = {} THEN "review" ELSE "retry"))
    /\ UNCHANGED <<config, runs, calls, tree>>

TestsRaise ==
    /\ pc = "tests" /\ config.tests /\ ~config.dry
    /\ Leave(Raises)
    /\ UNCHANGED <<config, runs, calls, tree>>

Advance ==
    \/ AgentAvailable \/ AgentUnavailable
    \/ \E edited \in SUBSET Files :
        AgentFails(edited) \/ \E step \in {"review", "escalate"} : AgentFinishes(edited, step)
    \/ FindsEvidence \/ LacksEvidence \/ SelectProvider \/ Aborts
    \/ (\E p \in Patches : Answers(p)) \/ CallFails
    \/ ValidationPasses \/ ValidationFails
    \/ CheckFails \/ CheckOnly \/ CheckPasses \/ BacksUp \/ BackupRaises
    \/ GitApplies \/ GitFails \/ RollsBack \/ RollbackRaises
    \/ Finish \/ TestsRaise

EngineNext == StartRun \/ Advance

EngineSpec == EngineInit /\ [][EngineNext]_evars

\* One thread; the agent, the provider and the tests run under a timeout, git
\* apply does not (applier.py:34-53): that it returns is assumed of git.
EngineFairSpec == EngineSpec /\ WF_evars(Advance)

-------------------------------------------------------------------------
Held == {"base", "absent", "agent", "patch"}
Outcomes == [how : {"pending", "returned", "raised"}, files : SUBSET Files,
             errors : SUBSET {"unavailable", "failed", "evidence", "invalid", "unapplied"},
             step : {"none", "review", "retry", "escalate"}]

EngineTypeOK ==
    /\ config \in [agent : BOOLEAN, fallback : BOOLEAN, dry : BOOLEAN, tests : BOOLEAN]
    /\ pc \in {"idle", "detect", "agent", "search", "select", "generate", "validate",
               "apply", "backup", "git", "rollback", "tests"}
    /\ runs \in 0 .. MaxRuns
    /\ content \in [Files -> Held] /\ backup \in [Files -> Held \cup {"none"}]
    /\ patch \in [writes : SUBSET Files, deletes : SUBSET Files, valid : BOOLEAN]
    /\ phase \in {"validation", "application"}
    /\ round \in 0 .. MaxRepairs /\ tries \in 0 .. Retries
    /\ errors \in SUBSET {"invalid", "unapplied"}
    /\ outcome \in Outcomes
    /\ copied \in SUBSET Files /\ before \in [Files -> Held]
    /\ calls \in Nat /\ stuck \in SUBSET Files /\ failures \in BOOLEAN

\* When the pipeline is about to recommend a review of a patch, through however
\* many repairs, that very patch passed the validation and is what the files it
\* names hold; the controller commits them on this word.
ReviewMeansApplied ==
    pc = "tests" /\ errors = {} =>
        /\ patch.valid
        /\ ~config.dry => /\ \A f \in patch.writes : content[f] = "patch"
                          /\ \A f \in patch.deletes : content[f] = "absent"

\* Without the agent a dry run changes no file and leaves no copy; the agent is
\* not told of it (openclaw_agent.py:84 has no dry_run).
DryRunLeavesTree == config.dry /\ ~config.agent => Dirty \cup Leftovers = {}

\* The nested loops of repairs and retries ask the provider a bounded number of
\* times in one run of the engine.
CallsBounded == calls <= (1 + 2 * MaxRepairs) * (Retries + 1)

\* What an applied patch wrote, unless a failed application did.
Wrote == {f \in Files \ stuck : content[f] = "patch"}

\* The controller runs the engine again only over a tree in which no applied
\* patch has written a file: such files are reported, whatever the repairs and
\* the failed applications in between.  Of a patch that only deletes nothing is
\* reported (applier.py:73-74), and over its work the engine does run again.
NoRetryOverWrites == pc \in {"detect", "search"} => Wrote = {}

\* Outside an application, a copy beside a file is the trace of one that failed:
\* the commit takes such copies along, so one that succeeds may leave none.
BackupsTraceFailure == pc # "git" /\ Leftovers # {} => failures

\* An application that fails and lets the run go on has left every file that was
\* there and that the patch names as the application found it, however far git
\* apply had come and whatever copies earlier applications had left.
RollbackRestores ==
    [][pc = "rollback" /\ pc' # "idle" =>
        \A f \in patch.writes : before[f] # "absent" => content'[f] = before[f]]_evars

\* To the controller this is a run of the engines the configuration allows: it
\* names files while git status lists some, or else inference was allowed; and
\* nothing but an answer without files is followed by another run.
EnginesOf ==
    {e \in {"agent", "infer"} :
        IF e = "agent" THEN config.agent ELSE config.agent => config.fallback}

Contract == INSTANCE EngineRuns WITH
    Budget <- MaxRuns,
    engines <- EnginesOf,
    attempt <- runs,
    working <- pc # "idle",
    edits <- Dirty \cup Leftovers # {},
    answer <- IF outcome.how # "returned" THEN outcome.how
              ELSE IF outcome.files = {} THEN "nothing" ELSE "files"

KeepsContract == Contract!Spec

\* Every run of the engine returns or raises.
RunsReturn == pc # "idle" ~> pc = "idle"

=========================================================================
