-------------------------- MODULE IssueExecution --------------------------
(***************************************************************************)
(* One execution of an issue (worker/controller.py, PipelineController):   *)
(* refresh the checkout, branch, let the engine edit, commit, push, open a *)
(* pull request.  The checkout of a repository is one directory under the  *)
(* workspace root, so every worker of the installation uses the same one.  *)
(*                                                                         *)
(* Each git command and each request is a step of its own.  What a commit  *)
(* contains is abstracted to the version of the default branch it starts   *)
(* from, the issues whose edits are in it and the execution that made it;  *)
(* the working tree to the issues whose edits lie uncommitted in it.       *)
(***************************************************************************)
EXTENDS EngineContract, FiniteSets

CONSTANTS
    Workers,      \* processes that execute issues
    Issues,       \* an issue names its branch as well (generate_name)
    Default,      \* the default branch
    Engines,      \* engines in use: subset of {"agent", "infer"}
    MaxRetries,   \* config.max_retries: engine attempts beyond the first
    MaxRuns,      \* bound: executions in a behaviour
    MaxVersion,   \* bound: versions of the default branch
    MaxFaults     \* bound: failed stages and crashes

ASSUME ExecutionAssumption ==
    /\ Default \notin Issues /\ Engines \subseteq EngineKinds
    /\ {MaxRetries, MaxRuns, MaxVersion, MaxFaults} \subseteq Nat

VARIABLES
    live,      \* FALSE: no token, so push and pull request are dry runs
    roams,     \* TRUE: an agent may leave the branch of any issue checked out
    upstream,  \* GitHub: version of the default branch
    pushed,    \* GitHub: tip of each issue branch, or NoCommit
    pulls,     \* GitHub: branches for which a pull request was opened
    fetched,   \* checkout: origin's default branch as last fetched
    head,      \* checkout: the branch checked out
    tip,       \* checkout: tip of each local branch, or NoCommit
    dirty,     \* checkout: issues with uncommitted edits in the tree
    pc,        \* worker: its next step
    issue,     \* worker: the issue it executes, or executed last
    run,       \* worker: the number of its execution
    attempt,   \* worker: engine attempts so far
    branch,    \* worker: the branch it decided to commit to
    changed,   \* worker: whether git status listed files
    made,      \* worker: whether it made a commit
    result,    \* worker: status of its last result
    began,     \* history: upstream when the execution of each worker began
    runs,      \* executions so far
    faults     \* faults so far

github == <<live, roams, upstream, pushed, pulls>>
checkout == <<fetched, head, tip, dirty>>
worker == <<issue, run, attempt, branch, changed, made>>
vars == <<github, checkout, pc, worker, result, began, runs, faults>>

Branches == Issues \cup {Default}
NoCommit == [base |-> 0, work |-> {}, by |-> {}, exists |-> FALSE]
Commit(v, w, r) == [base |-> v, work |-> w, by |-> r, exists |-> TRUE]

\* The state after the first clone.
Init ==
    /\ live \in BOOLEAN /\ roams \in BOOLEAN
    /\ upstream = 0 /\ pulls = {} /\ fetched = 0 /\ runs = 0 /\ faults = 0
    /\ pushed = [i \in Issues |-> NoCommit]
    /\ head = Default /\ dirty = {}
    /\ tip = [b \in Branches |->
                IF b = Default THEN Commit(0, {}, {}) ELSE NoCommit]
    /\ pc = [w \in Workers |-> "idle"]
    /\ issue \in [Workers -> Issues]
    /\ run = [w \in Workers |-> 0]
    /\ attempt = [w \in Workers |-> 0]
    /\ branch = [w \in Workers |-> Default]
    /\ changed = [w \in Workers |-> FALSE]
    /\ made = [w \in Workers |-> FALSE]
    /\ result = [w \in Workers |-> "none"]
    /\ began = [w \in Workers |-> 0]

At(w, here, next) == pc[w] = here /\ pc' = [pc EXCEPT ![w] = next]

-------------------------------------------------------------------------
\* GitHub: somebody moves the default branch; somebody merges or abandons a
\* pull request and its branch is deleted.
AdvanceDefault ==
    /\ upstream < MaxVersion /\ upstream' = upstream + 1
    /\ UNCHANGED <<live, roams, pushed, pulls, checkout, pc, worker, result, began, runs, faults>>

DeleteBranch(i) ==
    /\ pushed[i].exists /\ pushed' = [pushed EXCEPT ![i] = NoCommit]
    /\ UNCHANGED <<live, roams, upstream, pulls, checkout, pc, worker, result, began, runs, faults>>

-------------------------------------------------------------------------
Begin(w, i) ==
    /\ At(w, "idle", "fetch") /\ runs < MaxRuns
    /\ runs' = runs + 1 /\ run' = [run EXCEPT ![w] = runs + 1]
    /\ issue' = [issue EXCEPT ![w] = i]
    /\ attempt' = [attempt EXCEPT ![w] = 0]
    /\ branch' = [branch EXCEPT ![w] = Default]
    /\ changed' = [changed EXCEPT ![w] = FALSE]
    /\ made' = [made EXCEPT ![w] = FALSE]
    /\ result' = [result EXCEPT ![w] = "none"]
    /\ began' = [began EXCEPT ![w] = upstream]
    /\ UNCHANGED <<github, checkout, faults>>

\* RepositoryWorkspaceManager.refresh, before the work and after a fruitless
\* one: fetch, checkout, reset --hard, clean.  A checkout carries uncommitted
\* edits along; the reset acts on whatever is checked out and leaves new files
\* to the clean.
Fetch(w) ==
    /\ At(w, "fetch", "checkout") \/ At(w, "refetch", "recheckout")
    /\ fetched' = upstream
    /\ UNCHANGED <<github, head, tip, dirty, worker, result, began, runs, faults>>

CheckoutDefault(w) ==
    /\ At(w, "checkout", "reset") \/ At(w, "recheckout", "rereset")
    /\ head' = Default
    /\ UNCHANGED <<github, fetched, tip, dirty, worker, result, began, runs, faults>>

ResetTakes(w) == At(w, "reset", "clean") \/ At(w, "rereset", "reclean")

\* Mutant: the refresh goes on without the reset.
ResetLeftOut(w) ==
    /\ ResetTakes(w) /\ dirty' \in SUBSET dirty
    /\ UNCHANGED <<github, fetched, head, tip, worker, result, began, runs, faults>>

ResetHard(w) ==
    /\ ResetTakes(w) /\ dirty' \in SUBSET dirty
    /\ tip' = [tip EXCEPT ![head] = Commit(fetched, {}, {})]
    /\ UNCHANGED <<github, fetched, head, worker, result, began, runs, faults>>

CleanEnds(w) ==
    \/ At(w, "clean", "branch") /\ UNCHANGED result
    \/ At(w, "reclean", "idle") /\ result' = [result EXCEPT ![w] = "escalated"]

\* Mutant: the refresh goes on without the clean.
CleanLeftOut(w) ==
    /\ CleanEnds(w)
    /\ UNCHANGED <<github, checkout, worker, began, runs, faults>>

Clean(w) ==
    /\ CleanEnds(w) /\ dirty' = {}
    /\ UNCHANGED <<github, fetched, head, tip, worker, began, runs, faults>>

\* create_issue_branch: `checkout -B <issue branch> <default branch>`.
CheckoutIssueBranch(i) ==
    /\ tip' = [tip EXCEPT ![i] = tip[Default]] /\ head' = i
    /\ UNCHANGED <<fetched, dirty>>

CreateBranch(w) ==
    /\ At(w, "branch", "engine")
    /\ CheckoutIssueBranch(issue[w])
    /\ UNCHANGED <<github, worker, result, began, runs, faults>>

-------------------------------------------------------------------------
\* The engine.  files_modified decides; nothing asks for errors.  Its edits may
\* stay without a report, and may be taken back by a later attempt.  The agent
\* is told not to commit, but not to stay on its branch: it may leave the default
\* branch checked out, and an agent that roams any other one there is.
EngineOutcomes(i) ==
    {o \in [dirty : {dirty \cup {i}, dirty \ {i}},
            head : {head, Default} \cup {b \in Issues : roams /\ tip[b].exists},
            reported : BOOLEAN] :
        /\ o.reported => MayReport(Engines, o.dirty # {})
        /\ o.head # head => "agent" \in Engines}

\* Mutant: one engine attempt too many.
RunEngineOnceMore(w) ==
    /\ \E o \in EngineOutcomes(issue[w]) :
         /\ dirty' = o.dirty /\ head' = o.head
         /\ IF o.reported THEN At(w, "engine", "inspect")
            ELSE IF attempt[w] <= MaxRetries THEN At(w, "engine", "engine")
            ELSE At(w, "engine", "refetch")
    /\ attempt' = [attempt EXCEPT ![w] = @ + 1]
    /\ UNCHANGED <<github, fetched, tip, issue, run, branch, changed, made,
                   result, began, runs, faults>>

RunEngine(w) ==
    /\ \E o \in EngineOutcomes(issue[w]) :
         /\ dirty' = o.dirty /\ head' = o.head
         /\ IF o.reported THEN At(w, "engine", "inspect")
            ELSE IF attempt[w] < MaxRetries THEN At(w, "engine", "engine")
            ELSE At(w, "engine", "refetch")
    /\ attempt' = [attempt EXCEPT ![w] = @ + 1]
    /\ UNCHANGED <<github, fetched, tip, issue, run, branch, changed, made,
                   result, began, runs, faults>>

-------------------------------------------------------------------------
\* _complete_git_workflow.

\* Mutant: the branch found is taken without asking whether it is the default.
AdoptAnyBranch(w) ==
    /\ At(w, "inspect", "status")
    /\ branch' = [branch EXCEPT ![w] = head]
    /\ UNCHANGED <<github, checkout, issue, run, attempt, changed, made,
                   result, began, runs, faults>>

ReadBranch(w) ==
    /\ At(w, "inspect", "status")
    /\ IF head = Default
       THEN /\ CheckoutIssueBranch(issue[w])
            /\ branch' = [branch EXCEPT ![w] = issue[w]]
       ELSE /\ branch' = [branch EXCEPT ![w] = head]
            /\ UNCHANGED checkout
    /\ UNCHANGED <<github, issue, run, attempt, changed, made,
                   result, began, runs, faults>>

ReadChanges(w) ==
    /\ At(w, "status", "commit")
    /\ changed' = [changed EXCEPT ![w] = dirty # {}]
    /\ UNCHANGED <<github, checkout, issue, run, attempt, branch, made,
                   result, began, runs, faults>>

\* git add, git commit: on the branch then checked out.
MakeCommit(w) ==
    /\ At(w, "commit", "push") /\ changed[w] /\ dirty # {}
    /\ tip' = [tip EXCEPT ![head] = Commit(@.base, @.work \cup dirty, @.by \cup {run[w]})]
    /\ dirty' = {}
    /\ made' = [made EXCEPT ![w] = TRUE]
    /\ UNCHANGED <<github, fetched, head, issue, run, attempt, branch, changed,
                   result, began, runs, faults>>

NothingToCommit(w) ==
    /\ At(w, "commit", "pull") /\ ~changed[w]
    /\ UNCHANGED <<github, checkout, worker, result, began, runs, faults>>

\* `push -u origin <branch>` without force: refused when the remote branch has
\* a commit that the local one has not.
ForcePush(i) == TRUE   \* mutant
Fresh(i) == ~pushed[i].exists \/ pushed[i].by \subseteq tip[i].by

Push(w) ==
    /\ At(w, "push", "pull") /\ made[w]
    /\ IF live THEN /\ Fresh(branch[w])
                    /\ pushed' = [pushed EXCEPT ![branch[w]] = tip[branch[w]]]
               ELSE UNCHANGED pushed
    /\ UNCHANGED <<live, roams, upstream, pulls, checkout, worker, result, began, runs, faults>>

\* create_pr.  GitHub refuses a branch it does not have or that adds nothing.
HasWork(i) == pushed[i].exists /\ pushed[i].work # {}

OpenPull(w) ==
    /\ At(w, "pull", "report") /\ made[w] /\ live
    /\ HasWork(branch[w])
    /\ pulls' = pulls \cup {branch[w]}
    /\ UNCHANGED <<live, roams, upstream, pushed, checkout, worker, result, began, runs, faults>>

NoPull(w) ==
    /\ At(w, "pull", "report") /\ ~(made[w] /\ live)
    /\ UNCHANGED <<github, checkout, worker, result, began, runs, faults>>

\* The status says "created" whatever became of commit, push and pull request.
Finish(w) ==
    /\ At(w, "report", "idle")
    /\ result' = [result EXCEPT ![w] = "created"]
    /\ UNCHANGED <<github, checkout, worker, began, runs, faults>>

-------------------------------------------------------------------------
\* Refusals the state decides: another worker took the edits away, the push is
\* not a fast forward, the pull request is refused.
Refused(w) ==
    /\ \/ pc[w] = "commit" /\ changed[w] /\ dirty = {}
       \/ pc[w] = "push" /\ live /\ ~Fresh(branch[w])
       \/ pc[w] = "pull" /\ live /\ made[w] /\ ~HasWork(branch[w])
    /\ pc' = [pc EXCEPT ![w] = "idle"]
    /\ result' = [result EXCEPT ![w] = "failed"]
    /\ UNCHANGED <<github, checkout, worker, began, runs, faults>>

Fault == faults < MaxFaults /\ faults' = faults + 1

\* Any stage may fail: the controller reports "failed" and repairs nothing.
StageFails(w) ==
    /\ pc[w] # "idle" /\ Fault
    /\ pc' = [pc EXCEPT ![w] = "idle"]
    /\ result' = [result EXCEPT ![w] = "failed"]
    /\ UNCHANGED <<github, checkout, worker, began, runs>>

\* The engine fails after it worked (a provider error after the agent's edits).
EngineFails(w) ==
    /\ pc[w] = "engine" /\ Fault
    /\ \E o \in EngineOutcomes(issue[w]) : dirty' = o.dirty /\ head' = o.head
    /\ pc' = [pc EXCEPT ![w] = "idle"]
    /\ result' = [result EXCEPT ![w] = "failed"]
    /\ UNCHANGED <<github, fetched, tip, worker, began, runs>>

\* The request reaches GitHub and its answer is lost.
AnswerLost(w) ==
    /\ pc[w] = "pull" /\ made[w] /\ live /\ HasWork(branch[w]) /\ Fault
    /\ pulls' = pulls \cup {branch[w]}
    /\ pc' = [pc EXCEPT ![w] = "idle"]
    /\ result' = [result EXCEPT ![w] = "failed"]
    /\ UNCHANGED <<live, roams, upstream, pushed, checkout, worker, began, runs>>

Crash(w) ==
    /\ pc[w] # "idle" /\ Fault
    /\ pc' = [pc EXCEPT ![w] = "idle"]
    /\ UNCHANGED <<github, checkout, worker, result, began, runs>>

-------------------------------------------------------------------------
Step(w) ==
    \/ \E i \in Issues : Begin(w, i)
    \/ Fetch(w) \/ CheckoutDefault(w) \/ ResetHard(w) \/ Clean(w) \/ CreateBranch(w)
    \/ RunEngine(w) \/ ReadBranch(w) \/ ReadChanges(w)
    \/ MakeCommit(w) \/ NothingToCommit(w) \/ Push(w) \/ OpenPull(w) \/ NoPull(w)
    \/ Finish(w) \/ Refused(w)
    \/ StageFails(w) \/ EngineFails(w) \/ AnswerLost(w) \/ Crash(w)

Next ==
    \/ AdvanceDefault
    \/ \E i \in Issues : DeleteBranch(i)
    \/ \E w \in Workers : Step(w)

Spec == Init /\ [][Next]_vars

-------------------------------------------------------------------------
Versions == 0 .. MaxVersion
Commits == [base : Versions, work : SUBSET Issues, by : SUBSET (0 .. MaxRuns), exists : BOOLEAN]
Steps == {"idle", "fetch", "checkout", "reset", "clean", "branch", "engine", "inspect",
          "status", "commit", "push", "pull", "report",
          "refetch", "recheckout", "rereset", "reclean"}

TypeOK ==
    /\ live \in BOOLEAN /\ roams \in BOOLEAN
    /\ upstream \in Versions /\ fetched \in Versions
    /\ pushed \in [Issues -> Commits] /\ tip \in [Branches -> Commits]
    /\ pulls \subseteq Issues /\ dirty \subseteq Issues /\ head \in Branches
    /\ pc \in [Workers -> Steps] /\ issue \in [Workers -> Issues]
    /\ run \in [Workers -> 0 .. MaxRuns]
    /\ attempt \in [Workers -> 0 .. MaxRetries + 1]
    /\ branch \in [Workers -> Branches]
    /\ changed \in [Workers -> BOOLEAN] /\ made \in [Workers -> BOOLEAN]
    /\ result \in [Workers -> {"none", "failed", "escalated", "created"}]
    /\ began \in [Workers -> Versions]
    /\ runs \in 0 .. MaxRuns /\ faults \in 0 .. MaxFaults

\* README: the worker never commits directly to the default branch.  One
\* worker keeps the promise whatever branch its agent leaves checked out; two
\* workers in one checkout break it.
NeverCommitsToDefault == tip[Default].work = {}

\* What a failed, crashed or fruitless execution left in the tree is never
\* committed for another issue.  This, the fresh base and the kept branch need an
\* agent that stays off the branches of other issues: the controller commits to
\* whatever branch it finds.
EachBranchItsOwn ==
    \A i \in Issues : tip[i].work \subseteq {i} /\ pushed[i].work \subseteq {i}
CommitsOwnWork == ~roams => EachBranchItsOwn

\* A commit is made on a default branch no older than the one GitHub had when
\* the execution began, whatever the checkout had fetched before.
BuildsOnFreshBase ==
    \A w \in Workers :
        pc[w] \in {"push", "pull", "report"} /\ made[w] /\ ~roams
            => branch[w] = issue[w] /\ tip[issue[w]].base >= began[w]

\* An escalated execution leaves nothing for the next one to trip over, on
\* whatever branch its agent left it.
EscalationLeavesCleanTree ==
    \A w \in Workers :
        pc[w] = "idle" /\ result[w] = "escalated" => dirty = {} /\ head = Default

\* The status the issue is filed under as solved: with credentials it means
\* that a pull request was opened for the issue.
CreatedMeansPullRequest ==
    \A w \in Workers : result[w] = "created" /\ live => issue[w] \in pulls

\* A branch under review is never rewritten by a later execution.
ReviewedBranchKept ==
    [][\A i \in Issues :
         pushed[i].exists /\ pushed'[i].exists /\ ~roams => pushed'[i] = pushed[i]]_vars

-------------------------------------------------------------------------
\* What a worker knows at each step while it has the checkout to itself, the
\* inductive strengthening of the properties above.
Based == {"engine", "inspect", "status", "commit", "push", "pull", "report"}
Decided == {"status", "commit", "push", "pull", "report"}

OwnWork == NeverCommitsToDefault /\ EachBranchItsOwn

OnItsBranch(w) ==
    /\ pc[w] \in {"reset", "clean", "rereset", "reclean", "branch"} => head = Default
    /\ pc[w] \in {"engine", "inspect"} => head \in {issue[w], Default}
    /\ pc[w] \in Decided => head = issue[w] /\ branch[w] = issue[w]

OwnEdits(w) ==
    /\ pc[w] = "branch" => dirty = {}
    /\ pc[w] \in {"engine", "inspect", "status", "commit"} => dirty \subseteq {issue[w]}

UpToDate(w) ==
    /\ began[w] <= upstream
    /\ pc[w] \in {"checkout", "reset", "clean", "branch"} \cup Based => fetched >= began[w]
    /\ pc[w] \in {"clean", "branch"} \cup Based => tip[Default].base >= began[w]
    /\ pc[w] \in Based => tip[issue[w]].base >= began[w]

WithinRetries(w) ==
    pc[w] \in {"fetch", "checkout", "reset", "clean", "branch", "engine"} =>
        attempt[w] <= MaxRetries

OneWorkerInv(w) ==
    /\ TypeOK /\ OwnWork
    /\ OnItsBranch(w) /\ OwnEdits(w) /\ UpToDate(w)
    /\ WithinRetries(w)

\* An execution starts its branch without commits, and until it has pushed no
\* branch on GitHub has a commit of its own.
OwnRun(w) ==
    /\ run[w] <= runs
    /\ pc[w] # "idle" => run[w] > 0
    /\ \A i \in Issues : pushed[i].exists =>
         /\ pushed[i].by # {} /\ pushed[i].by \subseteq 1 .. runs
         /\ pc[w] \notin {"idle", "pull", "report"} => run[w] \notin pushed[i].by
    /\ tip[Default].by = {}
    /\ pc[w] \in {"engine", "inspect", "status", "commit"} => tip[issue[w]].by = {}
    /\ pc[w] = "push" => tip[issue[w]].by = {run[w]}

\* Of one worker alone, the tree also stays as its escalation left it.
Cleaned(w) ==
    result[w] = "escalated" => pc[w] = "idle" /\ dirty = {} /\ head = Default

\* What workers that take turns in the checkout keep, if their agents keep to
\* their branches; and what a single worker keeps through faults, crashes and
\* leftovers, of which the tree of an escalation needs nothing of the agent.
OwnInv == \A w \in Workers : OneWorkerInv(w) /\ OwnRun(w)
AloneInv == TypeOK /\ (roams \/ OwnInv) /\ \A w \in Workers : Cleaned(w)

=========================================================================
