--------------------------- MODULE WorkerFleet ---------------------------
(***************************************************************************)
(* The worker processes of one installation and the files they share.      *)
(*                                                                         *)
(* A daemon (`worker watch`, worker/daemon/daemon.py) loads the issue      *)
(* queue and the processed-issue history once, when it initializes, and    *)
(* from then on rewrites the whole file from its own copy at every change. *)
(* A client is a process that serves operational commands: the Discord     *)
(* worker through worker/runtime_interface.py, or one `worker` CLI call.   *)
(* It opens the same files afresh for each command and runs a short-lived  *)
(* WorkerDaemon when the command executes an issue.                        *)
(*                                                                         *)
(* With Clients = {} and one daemon this is the deployment the repository  *)
(* documents as sequential; the other values are the deployments in which  *)
(* the Discord worker and a watching daemon run side by side.              *)
(*                                                                         *)
(* A step saves at most one file, so that a crash or another process may   *)
(* come between any two saves.  Executing an issue                         *)
(* (PipelineController.execute) is one choice here: it returns a result or *)
(* raises.                                                                 *)
(***************************************************************************)
EXTENDS PersistentIssueQueue

CONSTANTS
    Issues,      \* numbers of the issues of the watched repositories
    Daemons,     \* watching daemons
    Clients,     \* processes serving operational commands
    ClientOps,   \* the commands the clients use
    MaxRetries,  \* config.max_retries
    ListLimit,   \* page length of list_open_issues (30 in the code)
    MaxFaults    \* bound: crashes, interrupts and exceptions in a behaviour

Dispatching == {"solve", "retry", "run", "restart"}
OneShot == {"check", "cliIssue", "cliRetry"}

ASSUME FleetAssumption ==
    /\ Issues \subseteq Nat \ {0} /\ IsFiniteSet(Issues)
    /\ Daemons \cap Clients = {}
    /\ ClientOps \subseteq Dispatching \cup OneShot \cup {"retryLatest"}
    /\ MaxRetries \in Nat /\ ListLimit \in Nat \ {0} /\ MaxFaults \in Nat

VARIABLES
    open,        \* GitHub: the issues now open
    queueFile,   \* queue.json
    doneFile,    \* processed-issues.json: the keys with an entry
    statusFile,  \* status.json: current_issue, or NoIssue
    paused,      \* scheduler-control.json
    pc,          \* where each process stands
    task,        \* the command a client serves and the issue it names
    queue,       \* each process's PersistentIssueQueue._items
    done,        \* each process's ProcessedIssueStore._processed
    listing,     \* issues of the last poll response not yet looked at
    job,         \* the item being executed (status.current_issue, in_progress)
    faults       \* faults so far

files == <<queueFile, doneFile, statusFile, paused>>
vars == <<open, files, pc, task, queue, done, listing, job, faults>>

NoIssue == 0
NoJob == [key |-> NoIssue, attempts |-> 0]
Procs == Daemons \cup Clients
Watching == [op |-> "watch", key |-> NoIssue]
Idle(p) == IF p \in Daemons THEN Watching ELSE [op |-> "none", key |-> NoIssue]

\* Where a process goes when its tick or its command is over, and when an
\* exception leaves it: a daemon's loop ends, a client reports the error.
Home(p) == IF p \in Daemons THEN "idle" ELSE "free"
Gone(p) == IF p \in Daemons THEN "down" ELSE "free"

\* A tick ends by writing the status file; dispatch_issue_now does not.
Ticks(p) == task[p].op \notin Dispatching
StatusLeftBehind(p) == statusFile   \* mutant
StatusAfterJob(p) == IF Ticks(p) THEN NoIssue ELSE statusFile

-------------------------------------------------------------------------
Init ==
    /\ open \in SUBSET Issues
    /\ queueFile = <<>> /\ doneFile = {} /\ statusFile = NoIssue
    /\ paused = FALSE /\ faults = 0
    /\ pc = [p \in Procs |-> Gone(p)]
    /\ task = [p \in Procs |-> Idle(p)]
    /\ queue = [p \in Procs |-> <<>>]
    /\ done = [p \in Procs |-> {}]
    /\ listing = [p \in Procs |-> {}]
    /\ job = [p \in Procs |-> NoJob]

-------------------------------------------------------------------------
\* GitHub.  Nothing the worker does closes an issue: its pull request does,
\* when somebody merges it.
OpenIssue(i) ==
    /\ i \notin open /\ open' = open \cup {i}
    /\ UNCHANGED <<files, pc, task, queue, done, listing, job, faults>>

CloseIssue(i) ==
    /\ i \in open /\ open' = open \ {i}
    /\ UNCHANGED <<files, pc, task, queue, done, listing, job, faults>>

\* One page, newest first.
OpenListing ==
    {i \in open : Cardinality({j \in open : j > i}) < ListLimit}

-------------------------------------------------------------------------
\* Copies and files.
LoadStores(p) ==
    /\ queue' = [queue EXCEPT ![p] = queueFile]
    /\ done' = [done EXCEPT ![p] = doneFile]

SaveQueue(p, q) ==
    /\ queue' = [queue EXCEPT ![p] = q]
    /\ queueFile' = q

\* The end of a tick or of a command: a daemon keeps its copies q and d, the
\* objects of a client are garbage.
Settle(p, q, d) ==
    /\ pc' = [pc EXCEPT ![p] = Home(p)]
    /\ queue' = [queue EXCEPT ![p] = IF p \in Daemons THEN q ELSE <<>>]
    /\ done' = [done EXCEPT ![p] = IF p \in Daemons THEN d ELSE {}]
    /\ listing' = [listing EXCEPT ![p] = {}]
    /\ job' = [job EXCEPT ![p] = NoJob]
    /\ task' = [task EXCEPT ![p] = Idle(p)]

\* An exception or a crash: nothing in memory survives.
Leave(p) ==
    /\ pc' = [pc EXCEPT ![p] = Gone(p)]
    /\ queue' = [queue EXCEPT ![p] = <<>>]
    /\ done' = [done EXCEPT ![p] = {}]
    /\ listing' = [listing EXCEPT ![p] = {}]
    /\ job' = [job EXCEPT ![p] = NoJob]
    /\ task' = [task EXCEPT ![p] = Idle(p)]

Fault == faults < MaxFaults /\ faults' = faults + 1

-------------------------------------------------------------------------
\* The tick of a daemon, or of a client that runs one tick.

\* initialize, and the head of run: load the files, announce, write the status.
Start(d) ==
    /\ d \in Daemons /\ pc[d] = "down"
    /\ pc' = [pc EXCEPT ![d] = "idle"]
    /\ LoadStores(d)
    /\ statusFile' = NoIssue
    /\ UNCHANGED <<open, queueFile, doneFile, paused, task, listing, job, faults>>

TickPaused(p) ==
    /\ pc[p] = "idle" /\ paused
    /\ Settle(p, queue[p], done[p])
    /\ statusFile' = NoIssue
    /\ UNCHANGED <<open, queueFile, doneFile, paused, faults>>

\* Mutant: the pause is not looked at.
TickPollAnyway(p) ==
    /\ pc[p] = "idle"
    /\ pc' = [pc EXCEPT ![p] = "polling"]
    /\ listing' = [listing EXCEPT ![p] = OpenListing]
    /\ UNCHANGED <<open, files, task, queue, done, job, faults>>

TickPoll(p) ==
    /\ pc[p] = "idle" /\ ~paused
    /\ pc' = [pc EXCEPT ![p] = "polling"]
    /\ listing' = [listing EXCEPT ![p] = OpenListing]
    /\ UNCHANGED <<open, files, task, queue, done, job, faults>>

\* Mutant: the history is not consulted.
SkipQueuedOnly(p, i) == i = job[p].key \/ i \in Keys(queue[p])

ShouldSkip(p, i) ==
    i \in done[p] \/ i = job[p].key \/ i \in Keys(queue[p])

PollEnqueue(p, i) ==
    /\ pc[p] = "polling"
    /\ i \in listing[p] /\ ~ShouldSkip(p, i)
    /\ listing' = [listing EXCEPT ![p] = @ \ {i}]
    /\ SaveQueue(p, Enqueue(queue[p], [key |-> i, attempts |-> 0]))
    /\ UNCHANGED <<open, doneFile, statusFile, paused, pc, task, done, job, faults>>

\* A GitHub error while polling leaves tick, and with it the scheduler loop.
PollFails(p) ==
    /\ pc[p] = "polling" /\ Fault
    /\ Leave(p)
    /\ statusFile' = NoIssue
    /\ UNCHANGED <<open, queueFile, doneFile, paused>>

Polled(p) == pc[p] = "polling" /\ \A i \in listing[p] : ShouldSkip(p, i)

DrainNothing(p) ==
    /\ Polled(p) /\ queue[p] = <<>>
    /\ Settle(p, queue[p], done[p])
    /\ statusFile' = NoIssue
    /\ UNCHANGED <<open, queueFile, doneFile, paused, faults>>

\* The item leaves the file before its execution begins, and the status file
\* names it only after that.
Take(p, item, rest) ==
    /\ SaveQueue(p, rest)
    /\ job' = [job EXCEPT ![p] = item]
    /\ pc' = [pc EXCEPT ![p] = "taken"]
    /\ listing' = [listing EXCEPT ![p] = {}]
    /\ UNCHANGED <<open, doneFile, statusFile, paused, task, done, faults>>

DrainOne(p) ==
    /\ Polled(p) /\ queue[p] # <<>>
    /\ Take(p, Head(queue[p]), Tail(queue[p]))

Execute(p) ==
    /\ pc[p] = "taken"
    /\ pc' = [pc EXCEPT ![p] = "running"]
    /\ statusFile' = job[p].key
    /\ UNCHANGED <<open, queueFile, doneFile, paused, task, queue, done, listing, job, faults>>

-------------------------------------------------------------------------
\* The end of an execution (_execute_queued_issue): its result is saved, the
\* process lets go of the issue, and the tick then writes the status.
LetGo(p, place) ==
    /\ job' = [job EXCEPT ![p] = NoJob]
    /\ pc' = [pc EXCEPT ![p] = place]
    /\ UNCHANGED <<open, statusFile, paused, task, listing>>

SaveDone(p, keys) ==
    /\ done' = [done EXCEPT ![p] = keys]
    /\ doneFile' = keys

\* Mutants: a result recorded outside an execution; a result not saved.
MarkProcessedAnytime(p) ==
    /\ pc[p] \in {"idle", "running"}
    /\ SaveDone(p, done[p] \cup {job[p].key})
    /\ LetGo(p, "settled")
    /\ UNCHANGED <<queueFile, queue, faults>>
MarkProcessedUnsaved(p) ==
    /\ pc[p] = "running"
    /\ done' = [done EXCEPT ![p] = @ \cup {job[p].key}]
    /\ LetGo(p, "settled")
    /\ UNCHANGED <<queueFile, doneFile, queue, faults>>

\* The result succeeded, or it is one the daemon does not retry.
MarkProcessed(p) ==
    /\ pc[p] = "running"
    /\ SaveDone(p, done[p] \cup {job[p].key})
    /\ LetGo(p, "settled")
    /\ UNCHANGED <<queueFile, queue, faults>>

\* Mutant: one attempt too many.
RetryAtLimit(p) ==
    /\ pc[p] = "running" /\ job[p].attempts <= MaxRetries
    /\ SaveQueue(p, RetryEnqueue(queue[p], job[p]))
    /\ LetGo(p, "settled")
    /\ UNCHANGED <<doneFile, done, faults>>

\* The result is "failed" and the budget is not spent.
RetryLater(p) ==
    /\ pc[p] = "running" /\ job[p].attempts < MaxRetries
    /\ SaveQueue(p, RetryEnqueue(queue[p], job[p]))
    /\ LetGo(p, "settled")
    /\ UNCHANGED <<doneFile, done, faults>>

\* The controller raises.  The issue goes back to the queue while the budget
\* lasts and nowhere once it is spent; the exception is raised again on both
\* branches of the continue_on_failure test.
IssueRaises(p) ==
    /\ pc[p] = "running" /\ Fault
    /\ IF job[p].attempts < MaxRetries
       THEN SaveQueue(p, RetryEnqueue(queue[p], job[p]))
       ELSE UNCHANGED <<queue, queueFile>>
    /\ LetGo(p, "raised")
    /\ UNCHANGED <<doneFile, done>>

FinishTick(p) ==
    /\ pc[p] = "settled"
    /\ Settle(p, queue[p], done[p])
    /\ statusFile' = StatusAfterJob(p)
    /\ UNCHANGED <<open, queueFile, doneFile, paused, faults>>

\* The exception leaves tick, and the scheduler's loop or the command with it.
Unwind(p) ==
    /\ pc[p] = "raised"
    /\ Leave(p)
    /\ statusFile' = StatusAfterJob(p)
    /\ UNCHANGED <<open, queueFile, doneFile, paused, faults>>

\* Killed: the files stay as they are.  Interrupted: the finally clauses of
\* tick and run still write the status.  That of _execute_queued_issue, which
\* lets go of the issue, does not guard the write that first names it: an issue
\* just taken may be named by the last status.
Crash(p) ==
    /\ pc[p] # Gone(p) /\ Fault
    /\ Leave(p)
    /\ UNCHANGED <<open, files>>

Interrupt(d) ==
    /\ d \in Daemons /\ pc[d] # "down" /\ Fault
    /\ Leave(d)
    /\ \/ statusFile' = NoIssue
       \/ pc[d] = "taken" /\ statusFile' = job[d].key
    /\ UNCHANGED <<open, queueFile, doneFile, paused>>

-------------------------------------------------------------------------
\* Commands that end in an execution.  The command reads the queue file,
\* asks GitHub for the issue, and only then enqueues into the copy it read.

Begin(c, o, i, place) ==
    /\ pc[c] = "free" /\ o \in ClientOps
    /\ pc' = [pc EXCEPT ![c] = place]
    /\ task' = [task EXCEPT ![c] = [op |-> o, key |-> i]]

ReadQueue(c, o, i) ==
    /\ o \in {"solve", "retry", "run", "retryLatest"}
    /\ Begin(c, o, i, "asking")
    /\ queue' = [queue EXCEPT ![c] = queueFile]
    /\ UNCHANGED <<open, files, done, listing, job, faults>>

\* restart_issue first withdraws what is left of the previous execution, from
\* the queue and then from the history.
RestartDequeues(c, i) ==
    /\ Begin(c, "restart", i, "clearing")
    /\ SaveQueue(c, DequeueIssue(queueFile, i))
    /\ UNCHANGED <<open, doneFile, statusFile, paused, done, listing, job, faults>>

RestartClears(c) ==
    /\ pc[c] = "clearing"
    /\ pc' = [pc EXCEPT ![c] = "asking"]
    /\ doneFile' = doneFile \ {task[c].key}
    /\ UNCHANGED <<open, queueFile, statusFile, paused, task, queue, done, listing, job, faults>>

GitHubReadFails(c) ==
    /\ pc[c] = "asking"
    /\ Leave(c)
    /\ UNCHANGED <<open, files, faults>>

\* run_issue_now moves a queued issue to the front; the others report
\* "already queued" and stop.  retry and retry_latest_failed start at 1.
FirstAttempt(o) == IF o \in {"retry", "retryLatest", "cliRetry"} THEN 1 ELSE 0

RequestEnqueue(c) ==
    LET k == task[c].key
        o == task[c].op
    IN  /\ pc[c] = "asking" /\ k \notin Keys(queue[c])
        /\ SaveQueue(c, Enqueue(queue[c], [key |-> k, attempts |-> FirstAttempt(o)]))
        /\ pc' = [pc EXCEPT ![c] = IF o = "retryLatest" THEN "over" ELSE "queued"]
        /\ UNCHANGED <<open, doneFile, statusFile, paused, task, done, listing, job, faults>>

RequestMove(c) ==
    /\ pc[c] = "asking" /\ task[c].op = "run"
    /\ task[c].key \in Keys(queue[c])
    /\ SaveQueue(c, MoveToFront(queue[c], task[c].key))
    /\ pc' = [pc EXCEPT ![c] = "queued"]
    /\ UNCHANGED <<open, doneFile, statusFile, paused, task, done, listing, job, faults>>

\* A second, fresh daemon object: it reads the files again.
InitializeDaemon(c) ==
    /\ pc[c] = "queued"
    /\ pc' = [pc EXCEPT ![c] = "ready"]
    /\ LoadStores(c)
    /\ statusFile' = NoIssue
    /\ UNCHANGED <<open, queueFile, doneFile, paused, task, listing, job, faults>>

\* check_now and the CLI commands begin with the daemon itself.
BeginOneShot(c, o, i) ==
    /\ o \in OneShot
    /\ Begin(c, o, i, "ready")
    /\ LoadStores(c)
    /\ statusFile' = NoIssue
    /\ UNCHANGED <<open, queueFile, doneFile, paused, listing, job, faults>>

\* Mutant: the issue is executed without being taken off the queue.
DispatchWithoutDequeue(c) ==
    LET k == task[c].key
        at == IndexOf(queue[c], k)
    IN  /\ pc[c] = "ready" /\ task[c].op \in Dispatching
        /\ k \in Keys(queue[c])
        /\ Take(c, queue[c][at], queue[c])

DispatchIssueNow(c) ==
    LET k == task[c].key
        at == IndexOf(queue[c], k)
    IN  /\ pc[c] = "ready" /\ task[c].op \in Dispatching
        /\ k \in Keys(queue[c])
        /\ Take(c, queue[c][at], DequeueIssue(queue[c], k))

\* Done without an execution: the command reports "already queued", or the
\* dispatch raises ValueError because the copy just loaded lacks the issue.
Report(c) ==
    /\ \/ pc[c] = "over"
       \/ /\ pc[c] = "asking" /\ task[c].op \notin {"run", "restart"}
          /\ task[c].key \in Keys(queue[c])
       \/ /\ pc[c] = "ready" /\ task[c].op \in Dispatching
          /\ task[c].key \notin Keys(queue[c])
    /\ Leave(c)
    /\ UNCHANGED <<open, files, faults>>

\* `worker issue` and `worker retry` enqueue into the daemon's copy, write the
\* status and tick; check_now only ticks.  An issue already queued there is
\* reported as a duplicate and nothing saved.
CliEnqueue(c) ==
    LET k == task[c].key
        o == task[c].op
    IN  /\ pc[c] = "ready" /\ o \in OneShot \ {"check"}
        /\ IF k \in Keys(queue[c])
           THEN UNCHANGED <<queue, queueFile>>
           ELSE SaveQueue(c, Enqueue(queue[c], [key |-> k, attempts |-> FirstAttempt(o)]))
        /\ pc' = [pc EXCEPT ![c] = "added"]
        /\ UNCHANGED <<open, doneFile, statusFile, paused, task, done, listing, job, faults>>

CliTick(c) ==
    /\ \/ pc[c] = "added" /\ statusFile' = NoIssue
       \/ pc[c] = "ready" /\ task[c].op = "check" /\ UNCHANGED statusFile
    /\ pc' = [pc EXCEPT ![c] = "idle"]
    /\ UNCHANGED <<open, queueFile, doneFile, paused, task, queue, done, listing, job, faults>>

-------------------------------------------------------------------------
\* Commands that only edit a file.

Editing(c) == pc[c] = "free"

ClearQueue(c) ==
    /\ Editing(c) /\ queueFile' = <<>>
    /\ UNCHANGED <<open, doneFile, statusFile, paused, pc, task, queue, done, listing, job, faults>>

\* remove_issue, and cancel_issue of a queued issue.
RemoveIssue(c, i) ==
    /\ Editing(c) /\ i \in Keys(queueFile)
    /\ queueFile' = DequeueIssue(queueFile, i)
    /\ UNCHANGED <<open, doneFile, statusFile, paused, pc, task, queue, done, listing, job, faults>>

PrioritizeIssue(c, i) ==
    /\ Editing(c) /\ i \in Keys(queueFile)
    /\ queueFile' = MoveToFront(queueFile, i)
    /\ UNCHANGED <<open, doneFile, statusFile, paused, pc, task, queue, done, listing, job, faults>>

\* clear_history and clear_retry_state.
ClearHistory(c, i) ==
    /\ Editing(c) /\ i \in doneFile
    /\ doneFile' = doneFile \ {i}
    /\ UNCHANGED <<open, queueFile, statusFile, paused, pc, task, queue, done, listing, job, faults>>

Pause(c) ==
    /\ Editing(c) /\ paused' = TRUE
    /\ UNCHANGED <<open, queueFile, doneFile, statusFile, pc, task, queue, done, listing, job, faults>>

Resume(c) ==
    /\ Editing(c) /\ paused' = FALSE
    /\ UNCHANGED <<open, queueFile, doneFile, statusFile, pc, task, queue, done, listing, job, faults>>

\* stop_current_job, and cancel_issue of the issue the status file names.  It
\* also writes current-job-control.json, which no code under src/ reads.
StopCurrentJob(c) ==
    /\ Editing(c) /\ statusFile # NoIssue
    /\ paused' = TRUE
    /\ UNCHANGED <<open, queueFile, doneFile, statusFile, pc, task, queue, done, listing, job, faults>>

-------------------------------------------------------------------------
GitHub == \E i \in Issues : OpenIssue(i) \/ CloseIssue(i)

Tick(p) ==
    \/ TickPaused(p) \/ TickPoll(p) \/ DrainNothing(p) \/ DrainOne(p)
    \/ \E i \in Issues : PollEnqueue(p, i)
    \/ Execute(p) \/ MarkProcessed(p) \/ RetryLater(p) \/ FinishTick(p) \/ Unwind(p)

Fails(p) == PollFails(p) \/ IssueRaises(p) \/ Crash(p) \/ Interrupt(p)

Command(c) ==
    \/ \E i \in Issues :
         \/ \E o \in ClientOps : ReadQueue(c, o, i) \/ BeginOneShot(c, o, i)
         \/ RestartDequeues(c, i)
         \/ RemoveIssue(c, i) \/ PrioritizeIssue(c, i) \/ ClearHistory(c, i)
    \/ RestartClears(c) \/ GitHubReadFails(c) \/ RequestEnqueue(c) \/ RequestMove(c)
    \/ InitializeDaemon(c) \/ DispatchIssueNow(c) \/ Report(c)
    \/ CliEnqueue(c) \/ CliTick(c)
    \/ ClearQueue(c) \/ Pause(c) \/ Resume(c) \/ StopCurrentJob(c)

Processes ==
    \/ \E d \in Daemons : Start(d)
    \/ \E p \in Procs : Tick(p) \/ Fails(p)
    \/ \E c \in Clients : Command(c)

Next == GitHub \/ Processes

Spec == Init /\ [][Next]_vars

\* A daemon that is up goes on: its scheduler loops, and every subprocess and
\* request of a tick has a timeout.  Nothing starts a daemon again.
FairSpec == Spec /\ \A d \in Daemons : WF_vars(Tick(d))

-------------------------------------------------------------------------
Item == [key : Issues, attempts : Nat]
Places == {"down", "idle", "polling", "taken", "running", "settled", "raised",
           "free", "clearing", "asking", "queued", "ready", "added", "over"}
Busy(p) == pc[p] \in {"taken", "running"}
Ops == Dispatching \cup OneShot \cup {"retryLatest", "watch", "none"}

Settings ==
    /\ open \in SUBSET Issues
    /\ doneFile \in SUBSET Issues
    /\ statusFile \in Issues \cup {NoIssue}
    /\ paused \in BOOLEAN
    /\ pc \in [Procs -> Places]
    /\ task \in [Procs -> [op : Ops, key : Issues \cup {NoIssue}]]
    /\ done \in [Procs -> SUBSET Issues]
    /\ listing \in [Procs -> SUBSET Issues]
    /\ faults \in 0 .. MaxFaults

\* Every file and every copy holds what the code may write there.
TypeOK ==
    /\ Settings
    /\ queueFile \in Seq(Item)
    /\ queue \in [Procs -> Seq(Item)]
    /\ job \in [Procs -> Item \cup {NoJob}]

\* Duplicate prevention holds in every copy and in the file, whoever wrote it
\* last: no queue, in memory or on disk, ever names an issue twice.
QueueKeysUnique ==
    /\ UniqueKeys(queueFile)
    /\ \A p \in Procs : UniqueKeys(queue[p])

\* No item, wherever it is kept, counts more attempts than the budget allows;
\* the operator's retry starts at 1 even when the budget is 0.
AttemptLimit == IF MaxRetries = 0 THEN 1 ELSE MaxRetries
AttemptsWithinBudget ==
    /\ \A n \in DOMAIN queueFile : queueFile[n].attempts <= AttemptLimit
    /\ \A p \in Procs :
         /\ \A n \in DOMAIN queue[p] : queue[p][n].attempts <= AttemptLimit
         /\ job[p].attempts <= AttemptLimit

\* No process holds the issue it executes in its own queue as well, so a retry
\* is never swallowed by the duplicate test of enqueue.
JobNotQueued ==
    \A p \in Procs : Busy(p) => job[p].key \notin Keys(queue[p])

\* What makes the invariants above inductive: queues of items within the
\* budget, a busy process with an issue in hand that it does not also
\* queue, and a command in progress that names an issue.
BudgetItem == [key : Issues, attempts : 0 .. AttemptLimit]
SoundQueues == {q \in Seq(BudgetItem) : UniqueKeys(q)}

QueuesSound == queueFile \in SoundQueues /\ queue \in [Procs -> SoundQueues]
JobsSound ==
    /\ job \in [Procs -> BudgetItem \cup {NoJob}]
    /\ \A p \in Procs : Busy(p) =>
         job[p] \in BudgetItem /\ job[p].key \notin Keys(queue[p])
TasksNamed ==
    \A p \in Procs :
        pc[p] \in {"clearing", "asking", "queued", "ready"} => task[p].key \in Issues

\* The inductive invariant of the fleet.
FleetInv == Settings /\ QueuesSound /\ JobsSound /\ TasksNamed

\* Between its enqueue and its dispatch a command starts a second daemon that
\* reads the file again.  Whatever happened to the file meanwhile, the command
\* executes the issue it was given or nothing.
DispatchesRequestedIssue ==
    \A c \in Clients :
        Busy(c) /\ ~Ticks(c) => job[c].key = task[c].key

\* Pausing withholds new executions from every tick, the daemon's and a
\* client's alike, but for a poll already under way; only a command that
\* dispatches its issue itself gets past a pause.
PauseHoldsTicks ==
    [][\A p \in Procs :
         paused /\ Ticks(p) /\ pc[p] # "polling" /\ ~Busy(p)
             => pc'[p] \notin {"polling", "taken", "running"}]_vars

-------------------------------------------------------------------------
\* One watching daemon and no client (Clients = {}, Daemons = {d}).

\* The files are what the daemon remembers, so a restart loses nothing but the
\* issue in execution.
MemoryMatchesFile ==
    \A d \in Daemons :
        pc[d] # "down" => queue[d] = queueFile /\ done[d] = doneFile

\* An issue with an entry in the history is neither queued nor executed again.
ProcessedStaysOut ==
    /\ doneFile \cap Keys(queueFile) = {}
    /\ \A d \in Daemons : job[d].key \notin doneFile

\* The status file names the issue in execution, and none before the next one
\* is executed.  After a crash it still names the issue that was lost.
StatusTracksJob ==
    \A d \in Daemons :
        /\ pc[d] = "running" => statusFile = job[d].key
        /\ pc[d] \in {"idle", "polling", "taken"} => statusFile = NoIssue

\* The daemon's files and its job implement the life cycle of IssueLifecycle:
\* the line is the queue file, and an attempt is counted in the item, queued or
\* in execution.  That life cycle is the code's, with the exception that drops
\* an issue whose budget is spent; FollowsDocumentation is the one without.
TheDaemon == CHOOSE d \in Daemons : TRUE
LineOf(q) == [n \in DOMAIN q |-> q[n].key]
TriesOf(q, item, i) ==
    LET found == {e \in ToSet(q) \cup {item} : e.key = i}
    IN  IF found = {} THEN 0 ELSE (CHOOSE e \in found : TRUE).attempts

Lifecycle == INSTANCE IssueLifecycle WITH
    Budget <- MaxRetries,
    up <- pc[TheDaemon] # "down",
    waiting <- LineOf(queueFile),
    tries <- [i \in Issues |-> TriesOf(queueFile, job[TheDaemon], i)],
    active <- job[TheDaemon].key,
    settled <- doneFile

FollowsLifecycle == Lifecycle!Spec

\* README: retries are bounded, and an issue is marked escalated once its budget
\* is spent.
FollowsDocumentation == Lifecycle!DocumentedSpec

\* While one page holds every open issue, a daemon that stays up executes and
\* settles each issue that stays open, retries and earlier crashes included.
OpenIssuesSettle ==
    \A d \in Daemons, i \in Issues :
        i \in open /\ pc[d] # "down"
            ~> (i \in doneFile \/ i \notin open \/ pc[d] = "down")

=========================================================================
