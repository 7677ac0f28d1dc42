# GitHub Engineering Worker: formal models

TLA+ models of the worker in this repository, TLC runs on small instances, and
TLAPS proofs for all instances. The models are translated from the Python
source; `PROJECT.json` maps each definition to the lines it stands for.

## The system

The worker watches GitHub repositories, queues their open issues, and solves
one issue at a time: it branches in a local checkout, lets an engine (the
OpenClaw agent or an inference pipeline) edit, commits, pushes and opens a pull
request. The same code runs in several processes.

| Component | State it keeps | Operations | Correct when |
|---|---|---|---|
| Issue queue `worker/queue/persistent.py` | list of items, `queue.json` | enqueue, retry_enqueue, dequeue, dequeue_issue, move_to_front, clear | one entry per issue; FIFO; attempts counted |
| History and poller `worker/watcher/github.py` | processed keys, `processed-issues.json`, in-progress set | poll, should_skip, mark_processed, remove | a filed issue is not taken again; each open issue is taken |
| Daemon `worker/daemon/daemon.py` | its copies of both files, the current issue, `status.json` | initialize, run, tick, dispatch_issue_now | an issue is executed, retried within its budget and filed once |
| Scheduler `worker/scheduler/scheduler.py` | mode, delay | run | ticks as long as the process lives |
| Operational interface `worker/runtime_interface.py` | none of its own: it opens the files for each command | solve, retry, run now, restart, check, cancel, remove, clear, prioritize, pause, resume, stop | a command acts on the issue it names, and what it reports is true |
| Command line `worker/cli.py` | none | watch, once, issue, retry, replay | as the commands above |
| Controller `worker/controller.py` | the stages of one execution | execute | commits only the issue's own work, on a fresh base, never to the default branch |
| Checkout `github/workspace`, `branches`, `repositories`, `commits` | one working directory per repository | refresh, create branch, status, commit, push | an execution starts from a clean tree |
| Pull requests `github/pull_requests`, `github/client` | GitHub | create_pr, list_open_issues | a success has a pull request |
| Engine `engineering/` | the working tree | run_until_patch, patch validation, application, repair | reports what it did |
| Orchestrator `runtime/orchestrator`, `sessions`, `dispatcher`, `context` | session, stage, retry count | run, dispatch, failure routing, cancellation | every run ends, closes its session and reports what was done |
| Runtime services `runtime/execution`, `events`, `lifecycle` | registries, subscriptions, callbacks | run_workflow, publish, shutdown | each run has a context and a token of its own |
| Agents, tools `agents/`, `tools/` | cancel flag | execute, cancel, recover, cleanup | a cancelled run is not reported as completed |
| Browser `browser/runtime` | browser processes, table of tabs, the active tab, profile state | launch, new, close, switch, crash, popup | a success is about an open page; no browser outlives its driver |
| Discord `discord/` | gateway connection, heartbeat threads, last request per channel | connect, heartbeat, respond, shutdown | an open connection has a heartbeat; a follow-up repeats what was meant |
| Message routing `worker/runtime_interface.py`, `discord/ai_worker.py` | registry of capabilities | resolve, plan, execute | a message is carried out by the capability it asks for |
| Scoring and output `confidence/`, `escalation/`, `reports/`, `audit/`, `notifications/` | append-only files | calculate, evaluate, write | pure functions of the evidence |

How they meet: the daemon owns queue, history, poller, scheduler and controller
as objects of its process. The Discord bot and each CLI call are other
processes, and they meet the daemon only through files: `queue.json`,
`processed-issues.json`, `status.json`, `scheduler-control.json`, and the
checkout directory. Each object loads its file once, in its constructor, and
rewrites the whole file from memory at each change; the locks in the classes
are locks of one process. `memory/`, `retry/`, `states/`, `workflows/`,
`policies/` and most of `contracts/` hold documents and templates, no code, and
the package `decision` that `discord/ai_worker.py` imports is not in the
repository.

What is hard here: processes that overwrite one another's files; an issue taken
off the queue before it is executed; crashes in between; one checkout shared by
all; retries at three levels (queue, engine, provider) with two repair loops
between; a patch that fails halfway; a cancellation at any step; pages and
sockets that go while somebody waits on them; liveness of polling one page.
`PROJECT.json` lists each such hazard at its line.

## Modules

**PersistentIssueQueue** gives the queue class as functions on sequences of
`[key, attempts]`. It has no state: which copy an operation is applied to is
the question the other modules ask.

**WorkerFleet** is the core: any number of watching daemons (`Daemons`) and
command-serving processes (`Clients`).

| Variable | Code |
|---|---|
| `queueFile`, `doneFile`, `statusFile`, `paused` | the four files; of `status.json` only `current_issue` |
| `queue[p]`, `done[p]` | `PersistentIssueQueue._items`, `ProcessedIssueStore._processed` in process p |
| `listing[p]` | the part of a poll response not yet looked at |
| `job[p]` | the item in execution: `status.current_issue` and the in-progress set |
| `pc[p]`, `task[p]` | where the process stands; a client's command and its issue |
| `open` | GitHub's open issues |

A tick is `TickPaused` or `TickPoll`, then `PollEnqueue` for each new issue of
the listing, then `DrainNothing` or `DrainOne`. A step of the model saves at most one
file or makes one request, so a crash or another process may come between any two
saves. An execution therefore takes four: `Take` (in `DrainOne` and
`DispatchIssueNow`) saves the queue without the item, `Execute` writes the status, the
end saves the history (`MarkProcessed`: the result succeeded, or is not retried)
or the queue (`RetryLater`: failed, budget left; `IssueRaises`: an exception), and
`FinishTick` writes the status again. After an exception `Unwind` leaves the
tick, and with it the loop. A command that executes an issue is as long as in the
code: `ReadQueue` loads a copy, GitHub is asked, `RequestEnqueue` (or `RequestMove`)
saves that copy, `InitializeDaemon` loads again, `DispatchIssueNow` takes the
issue out. `restart_issue` edits two files first (`RestartDequeues`,
`RestartClears`); the command line enqueues and ticks (`CliEnqueue`, `CliTick`).
`Crash` leaves the files as they are; `Interrupt` runs the `finally` clauses
first. `PollEnqueue` takes the issues of a page in any order.

**IssueLifecycle** is the abstract specification of sequential processing with
persistent queue state: an issue waits in line, is launched from its head, and is
settled, retried at the back with one attempt more, or lost with a worker that goes
down. That is `DocumentedSpec`. The code adds one step, `Abandon`: when an execution
raises with the budget spent, a worker that is still up forgets the issue, and its next
detection counts from 0 (`daemon.py:257-283`). `Spec` has this step,
`DocumentedSpec` has not, and README.md:299 of the repository promises the latter.
`WorkerFleet!Lifecycle` instantiates the module: the line is the *file*, the attempts
are those of the queued item or of the job in execution, settled is the history
*file*. So the refinement also says that nothing the life cycle needs lives in
memory only, except the issue in execution.

**FleetClaims** extends WorkerFleet with a history variable (the issues an
operator withdrew) and states four sentences of the repository. `NoDoubleExecution` and
`WithdrawnNotExecuted` are about two processes, the other two about the daemon alone.

**IssueExecution** opens the step that WorkerFleet takes as one:
`PipelineController.execute`. One checkout (`head`, `tip`, `dirty`, `fetched`),
GitHub (`upstream`, `pushed`, `pulls`), and for each worker its step and what it
knows. Each git command is an action, `reset --hard` and `clean -fd` too, and the
process may fail or die between any two of them. A commit is abstracted to the version of
the default branch it starts from, the issues whose edits it contains and the
execution that made it; a working tree to the issues with uncommitted edits.
`EngineOutcomes` is what the engine may do to the tree and what it reports, read
from `engineering/pipeline.py` and `openclaw_agent.py`: either engine may edit and
name no file (the agent's answer is lost, a patch only deletes), and a later
attempt may take edits back; the inference pipeline may report files its patch only names. An agent may leave the default branch checked
out and, where `roams` is true, the branch of any issue: its prompt forbids it to
commit, push and open pull requests, not to check out (`openclaw_agent.py:289`).
`RunEngine` is the retry loop
round it, `Refused` the failures the state decides (nothing left to commit, a
push that is not a fast forward, a refused pull request), `StageFails`,
`EngineFails`, `AnswerLost` and `Crash` the others.

**EngineeringPipeline** opens the step `RunEngine` of IssueExecution in its turn:
the controller's runs of `run_until_patch` in one checkout. `pc` is the place in
`pipeline.py`; `content` and `backup` are the files and their `.gew.bak` copies;
`patch`, `phase`, `round`, `tries` and `errors` are its local variables. A patch is
the files it writes and those it deletes, which `files_modified` does not name
(`applier.py:73-74`). `AgentAvailable` to `AgentFails` is agent mode with its fall back,
`FindsEvidence` to `CallFails` the inference with the provider's retries. The
two repair loops go round validator and applier, and the applier is taken apart:
`CheckPasses` or `CheckFails`, `BacksUp` (a copy that fails raises,
`BackupRaises`), `GitApplies` or `GitFails` (after any subset of the files),
`RollsBack` or `RollbackRaises`. `copied` is the local list of the copies made, and
an application may find older copies beside the files. `Aborts` is what nobody
catches.

**EngineContract** and **EngineRuns** are what the two have in common. `MayReport`
is the one rule about reports: without inference, files are named only when git
status lists some. IssueExecution takes it for granted in `EngineOutcomes`.
EngineRuns states it of successive runs as the controller sees them (`Begin`,
`Edit`, `End`, the answer of the last run), and `EngineeringPipeline!Contract`
instantiates EngineRuns, where `edits` is a tree or a copy that git status would list.

**Orchestrator** is the other engine, which the daemon reaches through
`ExecutionRuntime.run_workflow`: successive runs on the same agent objects. `at`
is the place in `_run_loop`, `sessions` the session manager's table, `cancelled`
the token of the run, `stopped` the agents whose cancel flag is set, which
nothing resets. One iteration is `SelectAgent`, `Dispatch`, `BeginWork` and a
result; `CancelRun` and `CancelAgent` may come between any two of them.
`ConcludeCancelled` and `ConcludeFailed` write back the context the run was
called with, as `run` does, not the one the loop had reached. Besides the core
agents, a recovery agent for the stage Retry may be registered: without one
every failure ends its run in an exception.

**BrowserTabs** is `BrowserRuntime`: `window` holds the driver, the live browser
processes, the context in use, the open pages and the table of tabs; `profile`
the state file, `mode` the part of the configuration that matters, `call` the action
in progress. The handlers of pages run while an action waits, so an action is taken
in steps, each up to its next wait (`Operate`, `LooksAgain`, `Answers`, `NewTab`,
`OpensTab`, `CloseTab`, `TabCloses`, `ResetPages`, `ResetEnds`, ...), and `Popup`,
`PageCloses`, `PageCrashes` and `BrowserDies` come between them. `calm` remembers that
nothing has closed, crashed or died since the runtime last looked at its page. A
start of a browser is a set of outcomes (`EnsureStarted`), because most
actions may cause one. `ResetEnds` closes the context and stops the driver; that this
ends every browser the driver started is Playwright's part and assumed, and
`ResetRaises` leaves it out as the code does.

**DiscordGateway** is the bot's main thread (`main`), the socket it shares with
its heartbeat threads (`ws`, `beats`; a thread also ends on a send that raises on an open
socket, `BeatRaises`, which `lapsed` remembers) and the planner (`message`, `todo`,
`last_requests`). `log` is history: what was said, what it stood for, whether it
was carried out.

**WorkerScheduler** is `scheduler.run` with the delays of each mode. The cron
arithmetic is compared with a reference definition (`NextMatch`) that looks for
the next minute the field names.

**CommandRouting** is the registry of capabilities and `resolve_capability`, with
every keyword, alias and bonus, and the planner that resolves each operation by
the text of the whole message. A message is a sequence of words; `Inside` lists
the keywords that are part of longer words, since the code looks for substrings.

**MCWorkerFleet** fixes the open issues for the larger instance; its configuration leaves
out solve and the CLI's issue command, which differ from retry and the CLI's retry in
the first attempt count alone, and faults. **MCEngines** and
**MCServices** join modules that share no state in one run: the part chosen at
the start moves, the others stay as they began, so the state space is a sum and
not a product. **PersistentIssueQueueProofs**, **WorkerFleetProofs**,
**IssueExecutionProofs**, **EngineeringPipelineProofs**, **OrchestratorProofs**,
**DiscordGatewayProofs**, **BrowserTabsProofs** and **WorkerSchedulerProofs** hold
the theorems, each of the module it is named after; WorkerSchedulerProofs has the one of
MCServices too.

## Runs

| Run | Instance | What it shows |
|---|---|---|
| `daemon` | one daemon, 3 issues, 1 retry, page of 3, 2 faults | `FollowsLifecycle` (with `Abandon`), `OpenIssuesSettle`, `MemoryMatchesFile`, `ProcessedStaysOut`, `StatusTracksJob` |
| `daemon_and_client` | one daemon, one client with six of the eight commands that enqueue or execute, and every edit, 2 issues, 1 retry, no fault | what survives stale whole-file saves: no duplicate, no attempt beyond the budget, a command executes the issue it names or nothing, a retry is never swallowed, a pause holds ticks |
| `execution` | one worker, 2 issues, both engines, 1 engine retry, 3 executions, 2 moves of the default branch, 2 faults | no commit on the default branch, and a clean tree after an escalation, whatever branch the agent leaves checked out; where it stays off other issues' branches, a commit holds its issue's work on a fresh base and a pushed branch is not rewritten |
| `engines` | orchestrator: 2 runs, 16 steps, recovery agent or not, 2 faults; engine: 2 files, 2 runs, 1 repair, 1 provider retry | see below |
| `services` | browser: 2 processes, 2 pages, 3 tabs, 3 configurations, events between the steps of an action; bot: 2 channels, 2 requests, 3 messages, 2 faults; scheduler: 9 minute fields, 20 starts, 4 durations, 3 ticks | see below |

What `engines` shows of the orchestrator: a completed run had every stage done, or
after a failure every stage from where it was sent back to
(`CompletedIsEarned`); every way out closes the session (`SessionsClosed`); a
cancellation at any step holds, the last stage included (`CancellationHolds`); a
summary lists what was done, unless the run was cancelled
(`SummaryCountsWork`); every run returns or raises (`RunsEnd`). And of the
pipeline: what is recommended for review is what is in the tree
(`ReviewMeansApplied`); an application that fails and lets the run go on has put
every file it names and that was there back as it found it, wherever git stopped
and whatever copies an earlier application left (`RollbackRestores`; that only
applications that failed leave copies is proved, in `EngineBackupsTraceFailure`, and in
no run); an inferring dry run writes nothing (`DryRunLeavesTree`); the loops are
bounded and end (`CallsBounded`, `RunsReturn`); and the controller repeats the
engine only over a tree in which no applied patch has written a file
(`NoRetryOverWrites`). With all that it is to the controller what IssueExecution
takes it for (`KeepsContract`, a refinement). Three cases are excepted in these
statements because the code is so: in agent mode a dry run edits
(`openclaw_agent.py:84` has no such parameter); files that a failed application
created or deleted stay (`applier.py:64` restores copies only); and a patch
that only deletes is valid (`validator.py:25`), is applied, names no file, and
the engine is run again over its work (`controller.py:127`).

What `services` shows: while popups are allowed, an action that reports success
leaves an open active page, whatever opened since the runtime last looked at it
and whatever closed, crashed or died before (`SuccessOnOpenPage`). The limit is
real: what closes *after* the last look goes unnoticed, since the results at
`runtime.py:171-176`, `250-267`, `333-338`, `364-372` and `383-386` are not checked
again; with popups blocked `new_tab` reports success on a page its own handler
closed; and `switch_tab` answers with the tab it was asked for although the
page may be that of a new browser. Every browser that runs has the driver
that started it, however many were forgotten and whatever a reset that raised
left undone, so a later close can still end it (`NoOrphanBrowser`); an
authentication is kept outside setup mode (`AuthenticationKept`); reconnects leave
heartbeat threads behind but no connection without one, unless a send raised on
the open socket (`HeartbeatPresent`); a follow-up repeats a request of its own
channel that was carried out, the latest one (`RepeatsOwnRequest`); the bot comes
to rest (`BotSettlesHere`); a cron tick begins in a minute its field names, the
next one (`CronHitsTarget`).

Seven more runs find a sentence of the repository violated by the code; each is a
finding in `PROJECT.json`:

| Run | Sentence | What happens |
|---|---|---|
| `claim_in_progress` | README.md:161, in-progress issues are skipped | two processes load one queue file, each takes the same item from its own copy, and both execute it: queue and in-progress set are in memory |
| `claim_cancelled` | runtime_interface.py:144, "removed before execution" | the running daemon executes it from its own copy |
| `claim_continue` | README.md:283, one failure does not stop the worker | both branches of the test raise |
| `claim_taken` | README.md:159-160, new open issues are enqueued | one page of the newest; older ones are never listed |
| `claim_default_branch` | README.md:195, never commits to the default branch | with two workers in one checkout, it can |
| `claim_routing` | tests/test_discord_worker_capabilities.py:308-338, what messages resolve to | "status" shows the worker's state, "retry issue 4" clears the retry state; the tests resolve with a stand-in |
| `claim_retries_bounded` | README.md:299, retries are bounded, then the issue is marked escalated | an exception with the budget spent files the issue nowhere; the daemon ends, and the issue is detected anew with no attempt counted |

**Bounds.** Two issues make every race between an issue and another; three
give the line a middle. One retry distinguishes the first attempt, the last and
one too many. Two faults allow a crash in the recovery from a crash; beside a client
there are none, to keep the run short, and `WorkerFleetProofs` proves that run's
properties for any number of faults. A page as
long as the issue set is the case in which liveness can hold, a shorter one is
`claim_taken`. Three executions let an issue be executed after its own failure
and after another issue's. `MaxFaults`, `MaxRuns` and `MaxVersion` bound a
behaviour and nothing in the code; the proofs hold for every value of them.
`IssueExecution` runs with deadlock checking off because `MaxRuns` ends a
behaviour, and so do `engines` and `services`: two runs are done, the bot is
shut down, the scheduler ended. `WorkerFleet` never deadlocks.

In `engines` one file exists and one does not, which is what backup and rollback
tell apart; one repair and one retry give each loop a first, a last and one too
many; two runs let the second find what the first left. 16 steps are the 15
stages of the order and one, so both a straight run and one that is sent back
and exceeds the limit occur. In `services` two browsers are the current one and
the forgotten one, and three tabs allow a page two names beside another's one;
the scheduler starts round minutes 0, 1, 29, 30 and 59, within the first and
the last second, since only the boundaries of minutes and of the hour matter.
`MaxPages`, `MaxTabs` and `MaxBrowsers` bound what exists at a time; identifiers
that nothing holds any more are used again.

**Fairness.** Weak fairness of a daemon's `Tick`, and nothing else. The
scheduler loops over the tick, and every request and subprocess of a tick has a
timeout, so a step of a tick that stays possible is taken. No fairness is given
to GitHub, to operators, or to restarting: nothing in the repository starts a
daemon again, so `OpenIssuesSettle` speaks of a daemon that stays up, and an
issue that stays open. Faults are bounded, which liveness needs; an issue whose
execution crashed is found again by a later poll. `RunsEnd` and `RunsReturn` use
weak fairness of the steps of a run, straight-line code of one thread. The agent, the
provider and the tests run under timeouts; `git apply` does not
(`applier.py:34-53`), and that it returns is assumed of git. Cancellations and
failures are given no fairness.
`BotSettlesHere` uses weak fairness of the bot's main thread: a connection is
answered or refused, Discord greets, and requests, planner and commands have
timeouts. Nothing is assumed of Discord closing sockets, of messages, or of the
order to shut down.

## Proofs

Every invariant and action property of the five passing runs is a theorem, and
so are the two refinements. The theorems hold for every value of the constants;
what a theorem assumes beyond that is in its statement: one daemon
(`Daemons = {d}`), one worker (`Workers = {w}`) or workers that take turns
(`[]Exclusive`), an agent that does not roam (`~roams`, in the properties
themselves), clients that write neither queue, history nor status
(`ClientsOnlyRead`), what a recovery agent may recommend, an installation without
inference (`"infer" \notin Engines`).

*The queue.* `PersistentIssueQueueProofs` shows that every operation keeps items
typed and keys unique and says what it does to the set of keys. `IndexOf` is a
CHOOSE, so `IndexOfMatches` says first that what it chooses matches.

*The fleet.* `QueueKeysUnique` is not inductive: that a retry is sound needs the
job in execution to carry an attempt count within the budget. The inductive
invariant is `FleetInv`: `Settings` (types), `QueuesSound` (every copy and the file
are sequences of items within the budget, with unique keys), `JobsSound` (a
running process has such an item in hand and does not queue its key) and
`TasksNamed` (a command in progress names an issue, so what it enqueues is an
item). The point of the proof is that no clause relates one copy to another:
any process may overwrite the file at any time, and soundness survives because
each copy is sound on its own. The proof has a lemma per action
(`PollSteps`, `RequestSteps`, ...), four for the ways a process changes hands
(`LeaveKeeps`, `SettleKeeps`, `TakeKeeps`, `LetGoKeeps`), and concludes `FleetTypeCorrect`,
`FleetQueuesUnique`, `FleetAttemptsBounded` and `FleetJobNotQueued`. It assumes
`FleetAssumption` (issue numbers are positive naturals, daemons and clients are
different processes), no bound on their number.

*How an execution begins.* The second part of `WorkerFleetProofs` says once what any
step may make of one process (`Moves`: it stays, rests, starts a tick, polls, drains,
executes or dispatches) and derives `FleetPauseHolds` from it alone. `FleetDispatchesRequested`
needs `DispatchInv`: a client that polls serves a command that ticks, so an
execution of a dispatching command can only have come from `DispatchIssueNow`,
whose item `IndexOfMatches` ties to the command's issue.

*The execution.* The code has no lock on the checkout, so the theorems name what one
would give: `Exclusive`, at most one worker is not idle. One daemon has it of itself
(`Workers = {w}`, `AloneIsExclusive`), and so have processes that take turns. Under it,
and as long as the agents do not roam, `OwnInv` is invariant, for any number of
workers. Its part `OneWorkerInv` follows what a worker knows from step to step:
`OnItsBranch` (which branch is checked out), `OwnEdits` (from the clean to the commit
only its own edits are in the tree), `UpToDate` (the refresh it made is no older than
its begin), `WithinRetries`. Leftovers of a crash, or of another worker, may be
anything; the argument is that nothing is committed before a `reset` and a
`clean` have passed. `OthersStay` says what a step leaves to the workers that wait.
`LockedCommitsOwnWork` and `LockedBuildsOnFreshBase` follow. `LockedReviewedBranchKept`,
that a pushed branch is not rewritten, needs numbers: `OwnRun` says that until it has
pushed an execution is later than every branch on GitHub, and that the tip it is
about to push is its own. A push over a branch passes `Fresh` only for a branch of
the same execution, of which there is none.

Where an agent roams, these three are false: the controller takes whatever branch it
finds for the issue's (`controller.py:415-417`), and edits land on another issue's.
Two statements need nothing of the agent. `LockedNeverCommitsToDefault` has an
invariant of its own: a worker that has decided stands on an issue's branch
(`OffDefault`). `claim_default_branch` refutes it without `Exclusive`.
`AloneEscalationLeavesCleanTree` needs that the second refresh acts on the default
branch (`Refreshing`, `Cleaned`); it holds of a single worker only, since the tree an
escalation left is the next worker's to edit. `AloneIsSound` is the invariant the run
checks, and `AloneNeverCommitsToDefault` and `AloneIsSafe` give the other four for a
single worker.

*A pull request that is missing.* The status "created" does not say that there is a
pull request: inference names the files of a patch that was not applied, with a clean
tree nothing is committed, and the issue is filed as solved (`controller.py:127`).
`AgentCreatedMeansPullRequest` proves that this takes inference: if only the agent
works, and does not roam, what is reported is edited (`Reported`), so
`NothingToCommit` cannot follow.

*Workers without a lock.* Two statements survive any number of workers at once, by the
invariant `CrowdInv`: the types (`ExecutionTypeCorrect`), and that what is pushed or put up
for review is an issue's branch (`CrowdNeverPushesDefault`). A worker on another's
branch may commit to the default one; since a push names its branch, the damage
stays in the checkout.

*A lone daemon.* `FleetMemoryMatchesFile`, `FleetProcessedStaysOut` and
`FleetStatusTracksJob` assume `Daemons = {d}` and `ClientsOnlyRead`: the clients may
pause and resume the daemon, ask it to stop its current job and begin any other command,
but no step of theirs changes the queue, the history or the status file.
(`NoClientWrites`: without clients that is so.) With a client that writes each of them
is false: two of the claims are about what becomes of stale copies. `Lone` joins the three statements with
what holds between executions: a watching daemon that is not running an execution has no
job in hand. Each needs the others and `FleetInv`: what is filed comes from the job,
which the queue no longer holds (`JobsSound`), and what is queued passed `ShouldSkip` on
copies that must equal the files.

*The life cycle.* `FleetFollowsLifecycle` proves, on the hypotheses of a lone daemon,
that it implements `IssueLifecycle`, and `FleetAloneFollowsLifecycle` the same without
clients. The mapping reads the line from the queue file (`LineOf`) and the attempts of
an issue from its item, in the file or in hand (`TriesOf`); that there is at most one
such item is `UniqueKeys` and `JobsSound`, and `TriesAre` says what the mapping makes of
them. Four things can happen to the mapped state: nothing (`StaysPut`: GitHub, starts,
polls, crashes between executions), an issue joins the back (`Joins`), the head is
launched (`Launches`), or the daemon lets go of its job (`LetsGo`), which is settled,
put back with one attempt more, abandoned, or lost in a crash. Each step of the daemon is one of
these, for which `Lone` has to say that the queue in memory is the file's: a save would
otherwise change the line by more than one issue.

*The engine.* `EngineeringPipelineProofs` has an inductive invariant for each
property, besides the types. `Judged`: a patch in application is valid, and no patch
writes what it deletes. `Untouched`: only a configuration with the agent reaches
the agent's steps, the one place where a dry run edits. `Reported`: work of a
patch outside a failed application's files belongs to the run that is about to
name it, or was named. `Counted`: the calls made so far are at most the answers
the two loops have had (`Had`), each with all its retries, and the tries of the
present one; that an answer is never taken back when one loop hands over to
the other (`HadGrows`) is what bounds the calls, and the multiplication is a lemma
of its own (`Products`). The same invariant carries `EngineRunsShorten`: six times the
calls that are left, and the steps down to the end or the next call (`Ahead`), are a
natural number that every step of a run lowers. It is the safety half of
`RunsReturn`; that a step is taken at all is the fairness. `Found` carries
`EngineRollbackRestores` over the three steps of an application: from the backup to the
rollback the files copied are those that were there, and their copies hold what the
check found, since a copy an earlier application left was overwritten.

*The engine's contract.* `EngineKeepsContract` proves that the pipeline implements
EngineRuns. A step within a run is `Edit` (`WithinRun`), one that leaves it `End`
(`EndOfRun`), where the report must be one that may be made: the agent names
what is edited (`AgentReportsEdits`), and inference names what it likes, for which
`Allowed` has to say that a run which infers was allowed to, from the choice of
the engine to the end of the repairs. `ContractIsCovered` is the other half: each report
that `MayReport` allows, with the issue's edits in the tree or taken back, is an
outcome of `RunEngine`, so what is proved of executions covers every report that the
pipeline makes.

*The orchestrator.* `OrchestratorSessionsClosed` is inductive as it stands.
`OrchestratorRunsShorten` is the safety half of `RunsEnd`: four times the iterations left to
the loop, and the rest of the one in progress (`Remaining`), fall with every step of
the run, no cancellation raises them, and the last step leaves a summary or an
exception.
`Heeded` adds to `CancellationHolds` that an agent which finished after the
cancellation has handed over to the loop, whose next look at the token ends the
run. `Counts` adds to `SummaryCountsWork` that in a run in progress the artifacts
of the context grow with the stages passed, counted with `FiniteSetTheorems`. It
assumes that no recovery agent recommends the stage Cancelled
(`NoCancelledAdvice`): such a run would list artifacts under it.
`OrchestratorCompletedIsEarned` follows from `InEarnest`: a run that has come to a
stage has done all earlier ones, from the first or, once it was retried, from the
patch (`Earned`), and only the agent chosen for the stage works on it. It assumes
that a recovery agent recommends no stage of the order beyond the patch
(`RecoveryGoesBack`), which is what recovery means; one that named a later stage
would let a run be completed without a patch. The agents in the repository
recommend nothing, and the recommendations of the run `engines` satisfy both
assumptions.

*The bot.* `DiscordHeartbeatPresent` is inductive with the types: on a connection
without a send that raised (`lapsed`) a thread ends only while the socket is closed or
the bot is down, and a socket opens only for a greeting, which starts another. `OwnRequests` adds to `RepeatsOwnRequest` what
the table remembers (`Remembered`: the request was carried out in its channel, and
nothing else was there since); `AtHand` ties the message in hand to the table.

*The browser.* A lemma for each operation says what it makes of a window
(`RegisterType`, `OpensType`, `LaunchedType`, `EnsureStartedType`, `NewPageType`, ...),
and one for each kind of step (`BeginsStep`, `GoesOnStep`, `ResetStep`, `EventStep`)
what it makes of `BrowserInv`: the types, `NoOrphanBrowser`, and `Looked`, that an
action in a page has an open active page as long as it is calm. A page
that was registered twice is found under its second tab because that tab was free, a
started browser is a browser, so the page is open in one, and a popup leaves a page
open and active or is closed. The table without some tabs (`Dropped`) is a recursive
function; that it exists and yields a table is an induction over the length,
done as a smallest counterexample (`Smallest`, `Induction`, from
`NatLessThanWellFounded` and `WFMin` of the library), since the library's induction
rules take an operator. `BrowserAuthenticationKept` is a case split over the
outcomes of a start.

*The scheduler.* `SchedulerInv` adds to `CronHitsTarget` that a wait began where the
clock stands, with a delay the code can compute, and that the mode once never
waits. `NextMatchIs` turns the search of the reference into two facts: a minute
matches, and none before it does. They are shown for each kind of field:
`EveryReaches`, `AtReaches` (this hour or the next), and `StepReaches`, where the
code's next multiple (`NextMultiple`) is the first one of any step, and the full
hour cuts the last gap of steps that do not divide it, which is what cron does.
The delay is exact but for "*", which neglects the fraction of the second, and for
the stretch to a second; the sleep adds at most half a second: hence the second
in the statement.

*Only model-checked*: the liveness properties `OpenIssuesSettle`, `RunsEnd`,
`RunsReturn` and `BotSettlesHere`, since fairness and ENABLED are outside the
prover. For `RunsEnd` and `RunsReturn` the measures above leave only the fairness to TLC.
The run `services` is the joint behaviour of three specifications (`ServicesApart`), from
which `ServicesTypeCorrect` has its `TypeOK`. What a recursive definition computes is
proved only where a statement needs it (the type of `Dropped`, not its order).

## Not modelled

Several repositories (issue keys of one listing stand for all); `worker replay`,
which executes an issue outside queue and history; the schedule request, which
replaces an object the running loop never reads; torn files (a write is one
step); the deletion of workspace and reports by `restart_issue`; paths in
porcelain output; the title in branch names; the runtime-wide dry run of the
controller and other values of the `auto_*` flags than the defaults; the agent
committing by itself. What the properties leave open although the model has it: the
status file after a crash names the issue that was lost; an enqueue may be lost when
the daemon rewrites the file; a cancellation between the last look at the token
(`engineering.py:126`) and the return counts as one after the end; the summary of a
cancelled or failed run lists no artifacts. `worker/git_workflow.py` repeats the controller's git part
and has no caller.

Of the engine: which diffs the validator accepts, which files the search finds,
and every text; they are choices. Of the orchestrator: the event bus, which has
no subscriber in the repository, and the shutdown callbacks, which nothing
registers. Of the browser: what happens inside a page, and cookies and storage.
Of the bot: its typing indicator, the wording of answers, an interaction whose
answer comes after Discord's three seconds, and events lost between two
connections (the bot identifies anew and never resumes). Scores, reports,
audit, notifications, configuration and health checks are text, output or values
read once.

## Plan

1. Done: PersistentIssueQueue, WorkerFleet with IssueLifecycle, FleetClaims,
   IssueExecution; Orchestrator, EngineeringPipeline, BrowserTabs,
   DiscordGateway, WorkerScheduler, CommandRouting; proofs of every invariant and
   action property of the passing runs, of the refinement of IssueLifecycle for
   one daemon, also beside clients that write none of its files, and of that of
   EngineRuns.
2. The tree of EngineeringPipeline as the edits of IssueExecution: EngineRuns
   relates reports to whether there are edits, not to whose they are.
3. IssueExecution extended with `restart_issue` deleting the checkout and with
   titles in branch names; WorkerFleet with torn files.
4. Edits of one attempt told apart from those of the next, and an end to pushes that
   are refused because of an earlier execution's branch.
5. Proofs: which statements of many processes survive clients that write beside a
   daemon that is up, command by command.
