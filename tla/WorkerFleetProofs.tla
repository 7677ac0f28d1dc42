------------------------ MODULE WorkerFleetProofs ------------------------
(***************************************************************************)
(* Safety of the fleet for every number of daemons, clients and issues:    *)
(* its data and how an execution comes about; and of one daemon beside     *)
(* clients that write none of its files, that its copies and its status    *)
(* are right and that it implements the life cycle of IssueLifecycle.      *)
(***************************************************************************)
EXTENDS WorkerFleet, PersistentIssueQueueProofs

-------------------------------------------------------------------------
\* What an operation makes of a sound queue.

LEMMA SoundOperations ==
    ASSUME NEW q \in SoundQueues
    PROVE  /\ \A item \in BudgetItem :
                /\ Enqueue(q, item) \in SoundQueues
                /\ Keys(Enqueue(q, item)) = Keys(q) \cup {item.key}
           /\ \A k : DequeueIssue(q, k) \in SoundQueues
                     /\ MoveToFront(q, k) \in SoundQueues
                     /\ k \notin Keys(DequeueIssue(q, k))
           /\ \A k \in Keys(q) : q[IndexOf(q, k)] \in BudgetItem
                                 /\ q[IndexOf(q, k)].key = k
           /\ q # <<>> => /\ Tail(q) \in SoundQueues /\ Head(q) \in BudgetItem
                          /\ Head(q).key \notin Keys(Tail(q))
<1>1. q \in Seq(BudgetItem) /\ UniqueKeys(q)
  BY DEF SoundQueues
<1>2. ASSUME NEW item \in BudgetItem
      PROVE  /\ Enqueue(q, item) \in SoundQueues
             /\ Keys(Enqueue(q, item)) = Keys(q) \cup {item.key}
  BY <1>1, OperationsTyped, EnqueueKeepsUnique, EnqueueKeys DEF SoundQueues
<1>3. ASSUME NEW k
      PROVE  /\ DequeueIssue(q, k) \in SoundQueues
             /\ MoveToFront(q, k) \in SoundQueues
             /\ k \notin Keys(DequeueIssue(q, k))
  BY <1>1, OperationsTyped, DequeueKeepsUnique, MoveKeepsUnique, DequeuedKeyGone
     DEF SoundQueues
<1>4. ASSUME NEW k \in Keys(q)
      PROVE  q[IndexOf(q, k)] \in BudgetItem /\ q[IndexOf(q, k)].key = k
  BY <1>1, IndexOfMatches
<1>5. ASSUME q # <<>>
      PROVE  /\ Tail(q) \in SoundQueues /\ Head(q) \in BudgetItem
             /\ Head(q).key \notin Keys(Tail(q))
  BY <1>1, <1>5, TailElements, TailKeepsUnique, HeadKeyGone DEF SoundQueues
<1> QED
  BY <1>2, <1>3, <1>4, <1>5

LEMMA EmptySound == <<>> \in SoundQueues /\ Keys(<<>>) = {}
BY DEF SoundQueues, UniqueKeys, Keys

\* The budget leaves room for the attempt an operator's retry starts with.
LEMMA Budget == AttemptLimit \in Nat \ {0} /\ MaxRetries <= AttemptLimit
BY FleetAssumption DEF AttemptLimit

LEMMA FirstAttemptItem ==
    ASSUME NEW i \in Issues, NEW o
    PROVE  [key |-> i, attempts |-> FirstAttempt(o)] \in BudgetItem
BY Budget DEF FirstAttempt, BudgetItem

LEMMA RetriedItem ==
    ASSUME NEW item \in BudgetItem, item.attempts < MaxRetries
    PROVE  /\ [item EXCEPT !.attempts = @ + 1] \in BudgetItem
           /\ [item EXCEPT !.attempts = @ + 1].key = item.key
BY Budget, FleetAssumption DEF BudgetItem

\* A retry of an issue the process no longer queues is sound.
LEMMA SoundRetry ==
    ASSUME NEW q \in SoundQueues, NEW item \in BudgetItem, item.attempts < MaxRetries
    PROVE  RetryEnqueue(q, item) \in SoundQueues
BY RetriedItem, SoundOperations DEF RetryEnqueue

-------------------------------------------------------------------------
LEMMA FleetInvInit == Init => FleetInv
<1> SUFFICES ASSUME Init PROVE FleetInv
  OBVIOUS
<1>1. \A p \in Procs : Gone(p) \in {"down", "free"} /\ Idle(p) \in [op : Ops, key : {NoIssue}]
  BY DEF Gone, Idle, Watching, Ops
<1>2. Settings
  <2>1. 0 \in 0 .. MaxFaults
    BY FleetAssumption
  <2>2. pc \in [Procs -> Places]
    BY <1>1 DEF Init, Places
  <2>3. task \in [Procs -> [op : Ops, key : Issues \cup {NoIssue}]]
    BY <1>1 DEF Init
  <2> QED
    BY <2>1, <2>2, <2>3 DEF Init, Settings
<1>3. QueuesSound
  BY EmptySound DEF Init, QueuesSound
<1>4. JobsSound /\ TasksNamed
  BY <1>1 DEF Init, JobsSound, Busy, TasksNamed
<1> QED
  BY <1>2, <1>3, <1>4 DEF FleetInv

\* The two ways a process lets go of what it holds.
LEMMA LeaveKeeps ==
    ASSUME FleetInv, NEW p \in Procs, Leave(p),
           queueFile' \in SoundQueues, open' = open, doneFile' = doneFile,
           paused' = paused, statusFile' \in Issues \cup {NoIssue},
           faults' \in 0 .. MaxFaults
    PROVE  FleetInv'
<1>1. Gone(p) \in {"down", "free"} /\ Idle(p) \in [op : Ops, key : {NoIssue}]
  BY DEF Gone, Idle, Watching, Ops
<1>2. Settings'
  BY <1>1 DEF FleetInv, Settings, Leave, Places
<1>3. QueuesSound'
  BY EmptySound DEF FleetInv, QueuesSound, Leave
<1>4. JobsSound' /\ TasksNamed'
  BY <1>1 DEF FleetInv, JobsSound, Busy, TasksNamed, QueuesSound, Settings, Leave
<1> QED
  BY <1>2, <1>3, <1>4 DEF FleetInv

LEMMA SettleKeeps ==
    ASSUME FleetInv, NEW p \in Procs, NEW q \in SoundQueues, NEW d \in SUBSET Issues,
           Settle(p, q, d), queueFile' \in SoundQueues, open' = open,
           doneFile' \in SUBSET Issues, paused' = paused,
           statusFile' \in Issues \cup {NoIssue}, faults' = faults
    PROVE  FleetInv'
<1>1. Home(p) \in {"idle", "free"} /\ Idle(p) \in [op : Ops, key : {NoIssue}]
  BY DEF Home, Idle, Watching, Ops
<1>2. Settings'
  BY <1>1 DEF FleetInv, Settings, Settle, Places
<1>3. QueuesSound'
  BY EmptySound DEF FleetInv, QueuesSound, Settle
<1>4. JobsSound' /\ TasksNamed'
  BY <1>1 DEF FleetInv, JobsSound, Busy, TasksNamed, QueuesSound, Settings, Settle
<1> QED
  BY <1>2, <1>3, <1>4 DEF FleetInv

LEMMA TakeKeeps ==
    ASSUME FleetInv, NEW p \in Procs, NEW item \in BudgetItem, NEW rest \in SoundQueues,
           item.key \notin Keys(rest), Take(p, item, rest)
    PROVE  FleetInv'
<1>1. Settings'
  BY DEF FleetInv, Settings, Take, Places
<1>2. QueuesSound'
  BY DEF FleetInv, QueuesSound, Take, SaveQueue
<1>3. JobsSound' /\ TasksNamed'
  BY DEF FleetInv, JobsSound, Busy, TasksNamed, QueuesSound, Settings, Take, SaveQueue
<1> QED
  BY <1>1, <1>2, <1>3 DEF FleetInv

\* Letting go of the issue, whatever is saved of it.
LEMMA LetGoKeeps ==
    ASSUME FleetInv, NEW p \in Procs, NEW place \in {"settled", "raised"}, LetGo(p, place),
           queueFile' \in SoundQueues, queue' \in [Procs -> SoundQueues],
           \A q \in Procs : q # p => queue'[q] = queue[q],
           doneFile' \in SUBSET Issues, done' \in [Procs -> SUBSET Issues],
           faults' \in 0 .. MaxFaults
    PROVE  FleetInv'
<1>1. Settings'
  BY DEF FleetInv, Settings, LetGo, Places
<1>2. QueuesSound'
  BY DEF QueuesSound
<1>3. \A q \in Procs : q # p => (Busy(q)' <=> Busy(q)) /\ job'[q] = job[q]
  BY DEF FleetInv, Settings, JobsSound, LetGo, Busy
<1>4. ~Busy(p)' /\ job'[p] = NoJob
  BY DEF FleetInv, Settings, JobsSound, LetGo, Busy
<1>5. JobsSound'
  <2>1. job' \in [Procs -> BudgetItem \cup {NoJob}]
    BY DEF FleetInv, JobsSound, LetGo
  <2>2. ASSUME NEW q \in Procs, Busy(q)'
        PROVE  job'[q] \in BudgetItem /\ job'[q].key \notin Keys(queue'[q])
    BY <1>3, <1>4, <2>2 DEF FleetInv, JobsSound
  <2> QED
    BY <2>1, <2>2 DEF JobsSound
<1>6. TasksNamed'
  BY DEF FleetInv, Settings, TasksNamed, LetGo
<1> QED
  BY <1>1, <1>2, <1>5, <1>6 DEF FleetInv

-------------------------------------------------------------------------
\* A step preserves the invariant: one fact per action.

\* The state and the values the actions take from it, for a process p.
LEMMA Held ==
    ASSUME FleetInv, NEW p \in Procs
    PROVE  /\ queue[p] \in SoundQueues /\ done[p] \in SUBSET Issues
           /\ queueFile \in SoundQueues /\ doneFile \in SUBSET Issues
           /\ StatusAfterJob(p) \in Issues \cup {NoIssue}
           /\ faults \in 0 .. MaxFaults
           /\ Fault => faults' \in 0 .. MaxFaults
           /\ Busy(p) => /\ job[p] \in BudgetItem
                         /\ job[p].key \in Issues
                         /\ job[p].key \notin Keys(queue[p])
BY FleetAssumption
   DEF FleetInv, Settings, QueuesSound, JobsSound, StatusAfterJob, Fault, BudgetItem

LEMMA GitHubStep ==
    ASSUME FleetInv, GitHub PROVE FleetInv'
<1>1. /\ open' \in SUBSET Issues
      /\ UNCHANGED <<files, pc, task, queue, done, listing, job, faults>>
  BY DEF GitHub, OpenIssue, CloseIssue, FleetInv, Settings
<1> QED
  BY <1>1 DEF files, FleetInv, Settings, QueuesSound, JobsSound, Busy, TasksNamed

LEMMA StartStep ==
    ASSUME FleetInv, NEW d \in Daemons, Start(d) PROVE FleetInv'
<1> USE DEF Start, LoadStores, Procs
<1>1. Settings'
  BY DEF FleetInv, Settings, Places
<1>2. QueuesSound'
  BY DEF FleetInv, QueuesSound
<1>3. JobsSound' /\ TasksNamed'
  BY DEF FleetInv, JobsSound, Busy, TasksNamed, QueuesSound, Settings
<1> QED
  BY <1>1, <1>2, <1>3 DEF FleetInv

LEMMA PollSteps ==
    ASSUME FleetInv, NEW p \in Procs,
           TickPoll(p) \/ \E i \in Issues : PollEnqueue(p, i)
    PROVE  FleetInv'
<1>1. CASE TickPoll(p)
  <2> USE <1>1 DEF TickPoll, files
  <2>1. Settings'
    BY DEF FleetInv, Settings, Places, OpenListing
  <2>2. QueuesSound' /\ JobsSound' /\ TasksNamed'
    BY DEF FleetInv, QueuesSound, JobsSound, Busy, TasksNamed, Settings
  <2> QED
    BY <2>1, <2>2 DEF FleetInv
<1>2. ASSUME NEW i \in Issues, PollEnqueue(p, i) PROVE FleetInv'
  <2> DEFINE item == [key |-> i, attempts |-> 0]
             q == Enqueue(queue[p], item)
  <2> USE <1>2 DEF PollEnqueue, SaveQueue
  <2>1. q \in SoundQueues
    <3>1. item \in BudgetItem /\ queue[p] \in SoundQueues
      BY Budget, Held DEF BudgetItem
    <3> HIDE DEF item
    <3> QED
      BY <3>1, SoundOperations
  <2> HIDE DEF item, q
  <2>2. queueFile' = q /\ queue' = [queue EXCEPT ![p] = q]
    BY DEF item, q
  <2>3. Settings'
    BY DEF FleetInv, Settings
  <2>4. QueuesSound'
    BY <2>1, <2>2 DEF FleetInv, QueuesSound
  <2>5. JobsSound' /\ TasksNamed'
    BY <2>2 DEF FleetInv, QueuesSound, JobsSound, Busy, TasksNamed
  <2> QED
    BY <2>3, <2>4, <2>5 DEF FleetInv
<1> QED
  BY <1>1, <1>2

\* An issue in hand: executed, and let go of with its result saved.
LEMMA ExecuteStep ==
    ASSUME FleetInv, NEW p \in Procs, Execute(p) PROVE FleetInv'
<1>1. job[p].key \in Issues
  BY Held DEF Execute, Busy
<1>2. Settings'
  BY <1>1 DEF Execute, FleetInv, Settings, Places
<1>3. QueuesSound' /\ TasksNamed'
  BY DEF Execute, FleetInv, Settings, QueuesSound, TasksNamed
<1>4. \A q \in Procs : Busy(q)' => Busy(q)
  BY DEF Execute, Busy, FleetInv, Settings
<1>5. JobsSound'
  BY <1>4 DEF Execute, FleetInv, JobsSound
<1> QED
  BY <1>2, <1>3, <1>5 DEF FleetInv

LEMMA ResultSteps ==
    ASSUME FleetInv, NEW p \in Procs, MarkProcessed(p) \/ RetryLater(p) \/ IssueRaises(p)
    PROVE  FleetInv'
<1>1. /\ queueFile \in SoundQueues /\ queue \in [Procs -> SoundQueues]
      /\ doneFile \in SUBSET Issues /\ done \in [Procs -> SUBSET Issues]
      /\ queue[p] \in SoundQueues /\ done[p] \in SUBSET Issues
      /\ faults \in 0 .. MaxFaults /\ (Fault => faults' \in 0 .. MaxFaults)
      /\ job[p] \in BudgetItem /\ job[p].key \in Issues
  BY Held DEF FleetInv, Settings, QueuesSound, Busy, MarkProcessed, RetryLater, IssueRaises
<1>2. CASE MarkProcessed(p)
  BY <1>1, <1>2, LetGoKeeps DEF MarkProcessed, SaveDone
<1>3. job[p].attempts < MaxRetries => RetryEnqueue(queue[p], job[p]) \in SoundQueues
  BY <1>1, SoundRetry
<1>4. CASE RetryLater(p)
  BY <1>1, <1>3, <1>4, LetGoKeeps DEF RetryLater, SaveQueue
<1>5. CASE IssueRaises(p)
  <2>1. /\ queueFile' \in SoundQueues /\ queue' \in [Procs -> SoundQueues]
        /\ \A q \in Procs : q # p => queue'[q] = queue[q]
    BY <1>1, <1>3, <1>5 DEF IssueRaises, SaveQueue
  <2> QED
    BY <1>1, <1>5, <2>1, LetGoKeeps DEF IssueRaises
<1> QED
  BY <1>2, <1>4, <1>5

LEMMA TickSteps ==
    ASSUME FleetInv, NEW p \in Procs, Tick(p) PROVE FleetInv'
<1> USE Held
<1>1. CASE TickPaused(p)
  BY <1>1, SettleKeeps DEF TickPaused
<1>2. CASE TickPoll(p) \/ \E i \in Issues : PollEnqueue(p, i)
  BY <1>2, PollSteps
<1>3. CASE DrainNothing(p)
  BY <1>3, SettleKeeps DEF DrainNothing
<1>4. CASE DrainOne(p)
  BY <1>4, SoundOperations, TakeKeeps DEF DrainOne
<1>5. CASE Execute(p)
  BY <1>5, ExecuteStep
<1>6. CASE MarkProcessed(p) \/ RetryLater(p)
  BY <1>6, ResultSteps
<1>7. CASE FinishTick(p)
  BY <1>7, SettleKeeps DEF FinishTick
<1>8. CASE Unwind(p)
  BY <1>8, LeaveKeeps DEF Unwind
<1> QED
  BY <1>1, <1>2, <1>3, <1>4, <1>5, <1>6, <1>7, <1>8 DEF Tick

LEMMA FailureSteps ==
    ASSUME FleetInv, NEW p \in Procs, Fails(p) PROVE FleetInv'
<1> USE Held
<1>1. CASE PollFails(p)
  BY <1>1, LeaveKeeps DEF PollFails
<1>2. CASE IssueRaises(p)
  BY <1>2, ResultSteps
<1>3. CASE Crash(p)
  BY <1>3, LeaveKeeps DEF Crash, files, FleetInv, Settings
<1>4. CASE Interrupt(p)
  <2>1. statusFile' \in Issues \cup {NoIssue}
    BY <1>4 DEF Interrupt, Busy
  <2> QED
    BY <1>4, <2>1, LeaveKeeps DEF Interrupt
<1> QED
  BY <1>1, <1>2, <1>3, <1>4 DEF Fails

-------------------------------------------------------------------------
\* The commands of a client.

\* Commands that only move the client on: its stores are the files' or stay.
LEMMA ClientMoves ==
    ASSUME FleetInv, NEW c \in Clients, NEW place \in {"clearing", "asking", "queued", "ready"},
           NEW i \in Issues, NEW o \in Ops, NEW q \in SoundQueues,
           pc' = [pc EXCEPT ![c] = place],
           task' = [task EXCEPT ![c] = [op |-> o, key |-> i]],
           queue' = [queue EXCEPT ![c] = q], queueFile' \in SoundQueues,
           doneFile' \in SUBSET Issues, done' \in [Procs -> SUBSET Issues],
           statusFile' \in Issues \cup {NoIssue},
           UNCHANGED <<open, paused, listing, job, faults>>
    PROVE  FleetInv'
<1> USE DEF Procs
<1>1. Settings'
  BY DEF FleetInv, Settings, Places
<1>2. QueuesSound' /\ JobsSound' /\ TasksNamed'
  BY DEF FleetInv, QueuesSound, JobsSound, Busy, TasksNamed, Settings
<1> QED
  BY <1>1, <1>2 DEF FleetInv

\* Commands that only edit a file.
LEMMA FileEdits ==
    ASSUME FleetInv, queueFile' \in SoundQueues, doneFile' \in SUBSET Issues,
           paused' \in BOOLEAN,
           UNCHANGED <<open, statusFile, pc, task, queue, done, listing, job, faults>>
    PROVE  FleetInv'
BY DEF FleetInv, Settings, QueuesSound, JobsSound, Busy, TasksNamed

LEMMA BeginSteps ==
    ASSUME FleetInv, NEW c \in Clients, NEW i \in Issues,
           \/ \E o \in ClientOps : ReadQueue(c, o, i) \/ BeginOneShot(c, o, i)
           \/ RestartDequeues(c, i)
    PROVE  FleetInv'
<1>1. ClientOps \subseteq Ops /\ "restart" \in Ops /\ c \in Procs
  BY FleetAssumption DEF Ops, Dispatching, Procs
<1>2. statusFile \in Issues \cup {NoIssue} /\ done \in [Procs -> SUBSET Issues]
  BY DEF FleetInv, Settings
<1> USE <1>1, <1>2, Held, ClientMoves
<1>3. ASSUME NEW o \in ClientOps, ReadQueue(c, o, i) PROVE FleetInv'
  BY <1>3 DEF ReadQueue, Begin, files
<1>4. ASSUME NEW o \in ClientOps, BeginOneShot(c, o, i) PROVE FleetInv'
  BY <1>4 DEF BeginOneShot, Begin, LoadStores
<1>5. CASE RestartDequeues(c, i)
  <2>1. DequeueIssue(queueFile, i) \in SoundQueues
    BY SoundOperations
  <2> QED
    BY <1>5, <2>1 DEF RestartDequeues, Begin, SaveQueue
<1> QED
  BY <1>3, <1>4, <1>5

\* What a client in the middle of a command knows.
LEMMA InCommand ==
    ASSUME FleetInv, NEW c \in Clients, pc[c] \in {"clearing", "asking", "queued", "ready"}
    PROVE  /\ c \in Procs /\ task[c].key \in Issues /\ task[c].op \in Ops
           /\ task = [task EXCEPT ![c] = [op |-> task[c].op, key |-> task[c].key]]
           /\ [key |-> task[c].key, attempts |-> FirstAttempt(task[c].op)] \in BudgetItem
<1>1. /\ c \in Procs /\ task[c].key \in Issues
      /\ task \in [Procs -> [op : Ops, key : Issues \cup {NoIssue}]]
  BY DEF FleetInv, Settings, TasksNamed, Procs
<1> QED
  BY <1>1, FirstAttemptItem

LEMMA RequestSteps ==
    ASSUME FleetInv, NEW c \in Clients, RequestEnqueue(c) \/ RequestMove(c)
    PROVE  FleetInv'
<1> DEFINE item == [key |-> task[c].key, attempts |-> FirstAttempt(task[c].op)]
<1>1. PICK q \in SoundQueues, place \in {"over", "queued"} :
        /\ SaveQueue(c, q) /\ pc' = [pc EXCEPT ![c] = place]
        /\ UNCHANGED <<open, doneFile, statusFile, paused, task, done, listing, job, faults>>
  <2>1. CASE RequestEnqueue(c)
    <3>1. Enqueue(queue[c], item) \in SoundQueues
      BY <2>1, InCommand, Held, SoundOperations DEF RequestEnqueue
    <3> QED
      BY <2>1, <3>1 DEF RequestEnqueue
  <2>2. CASE RequestMove(c)
    <3>1. MoveToFront(queue[c], task[c].key) \in SoundQueues
      BY Held, SoundOperations DEF Procs
    <3> QED
      BY <2>2, <3>1 DEF RequestMove
  <2> QED
    BY <2>1, <2>2
<1>2. pc[c] = "asking" /\ c \in Procs /\ task[c].key \in Issues
  BY InCommand DEF RequestEnqueue, RequestMove
<1>3. Settings'
  BY <1>1, <1>2 DEF FleetInv, Settings, Places
<1>4. QueuesSound' /\ JobsSound' /\ TasksNamed'
  BY <1>1, <1>2 DEF SaveQueue, FleetInv, QueuesSound, JobsSound, Busy, TasksNamed, Settings
<1> QED
  BY <1>3, <1>4 DEF FleetInv

LEMMA OneShotSteps ==
    ASSUME FleetInv, NEW c \in Clients, CliEnqueue(c) PROVE FleetInv'
<1> DEFINE item == [key |-> task[c].key, attempts |-> FirstAttempt(task[c].op)]
<1>1. c \in Procs /\ item \in BudgetItem
  BY InCommand DEF CliEnqueue
<1>2. PICK q \in SoundQueues :
        queue' = [queue EXCEPT ![c] = q] /\ queueFile' \in SoundQueues
  <2>1. Enqueue(queue[c], item) \in SoundQueues
    BY <1>1, Held, SoundOperations
  <2>2. queue = [queue EXCEPT ![c] = queue[c]]
    BY <1>1 DEF FleetInv, QueuesSound
  <2> QED
    BY <1>1, <2>1, <2>2, Held DEF CliEnqueue, SaveQueue
<1>3. Settings'
  BY <1>1 DEF CliEnqueue, FleetInv, Settings, Places
<1>4. QueuesSound' /\ JobsSound' /\ TasksNamed'
  BY <1>1, <1>2 DEF CliEnqueue, FleetInv, QueuesSound, JobsSound, Busy, TasksNamed, Settings
<1> QED
  BY <1>3, <1>4 DEF FleetInv

LEMMA CliTickStep ==
    ASSUME FleetInv, NEW c \in Clients, CliTick(c) PROVE FleetInv'
<1>1. c \in Procs
  BY DEF Procs
<1>2. Settings'
  BY <1>1 DEF CliTick, FleetInv, Settings, Places
<1>3. QueuesSound' /\ JobsSound' /\ TasksNamed'
  BY <1>1 DEF CliTick, FleetInv, Settings, QueuesSound, JobsSound, Busy, TasksNamed
<1> QED
  BY <1>2, <1>3 DEF FleetInv

LEMMA CommandSteps ==
    ASSUME FleetInv, NEW c \in Clients, Command(c) PROVE FleetInv'
<1> USE Held DEF Procs
<1>1. CASE \E i \in Issues :
             \/ \E o \in ClientOps : ReadQueue(c, o, i) \/ BeginOneShot(c, o, i)
             \/ RestartDequeues(c, i)
  BY <1>1, BeginSteps
<1>2. CASE \E i \in Issues : RemoveIssue(c, i) \/ PrioritizeIssue(c, i)
  <2>1. PICK i \in Issues : RemoveIssue(c, i) \/ PrioritizeIssue(c, i)
    BY <1>2
  <2>2. DequeueIssue(queueFile, i) \in SoundQueues /\ MoveToFront(queueFile, i) \in SoundQueues
    BY SoundOperations
  <2>3. queueFile' \in SoundQueues
    BY <2>1, <2>2 DEF RemoveIssue, PrioritizeIssue
  <2> QED
    BY <2>1, <2>3, FileEdits DEF RemoveIssue, PrioritizeIssue, FleetInv, Settings
<1>3. CASE ClearQueue(c) \/ Pause(c) \/ Resume(c) \/ StopCurrentJob(c)
           \/ \E i \in Issues : ClearHistory(c, i)
  BY <1>3, EmptySound, FileEdits
     DEF ClearQueue, Pause, Resume, StopCurrentJob, ClearHistory, FleetInv, Settings
<1>4. CASE GitHubReadFails(c) \/ Report(c)
  BY <1>4, LeaveKeeps DEF GitHubReadFails, Report, files, FleetInv, Settings
<1>5. CASE RequestEnqueue(c) \/ RequestMove(c)
  BY <1>5, RequestSteps
<1>6. CASE InitializeDaemon(c)
  BY <1>6, InCommand, ClientMoves
     DEF InitializeDaemon, LoadStores, FleetInv, Settings
<1>7. CASE DispatchIssueNow(c)
  <2> DEFINE k == task[c].key
             item == queue[c][IndexOf(queue[c], k)]
  <2>1. /\ item \in BudgetItem /\ item.key = k
        /\ DequeueIssue(queue[c], k) \in SoundQueues
        /\ k \notin Keys(DequeueIssue(queue[c], k))
    BY <1>7, SoundOperations DEF DispatchIssueNow
  <2> QED
    BY <1>7, <2>1, TakeKeeps DEF DispatchIssueNow
<1>8. CASE CliEnqueue(c)
  BY <1>8, OneShotSteps
<1>9. CASE CliTick(c)
  BY <1>9, CliTickStep
<1>10. CASE RestartClears(c)
  <2>1. /\ c \in Procs /\ pc[c] = "clearing" /\ task[c].key \in Issues
        /\ task' = [task EXCEPT ![c] = [op |-> task[c].op, key |-> task[c].key]]
    BY <1>10, InCommand DEF RestartClears
  <2>2. task[c].op \in Ops /\ queue[c] \in SoundQueues /\ queue' = [queue EXCEPT ![c] = queue[c]]
    BY <1>10, InCommand DEF RestartClears, FleetInv, QueuesSound
  <2>3. /\ pc' = [pc EXCEPT ![c] = "asking"] /\ queueFile' \in SoundQueues
        /\ doneFile' \in SUBSET Issues /\ done' \in [Procs -> SUBSET Issues]
        /\ statusFile' \in Issues \cup {NoIssue}
        /\ UNCHANGED <<open, paused, listing, job, faults>>
    BY <1>10 DEF RestartClears, FleetInv, Settings
  <2> QED
    BY <2>1, <2>2, <2>3, ClientMoves
<1> QED
  BY <1>1, <1>2, <1>3, <1>4, <1>5, <1>6, <1>7, <1>8, <1>9, <1>10 DEF Command

-------------------------------------------------------------------------
LEMMA FleetInvStep == FleetInv /\ [Next]_vars => FleetInv'
<1> SUFFICES ASSUME FleetInv, [Next]_vars PROVE FleetInv'
  OBVIOUS
<1>1. CASE Processes
  BY <1>1, StartStep, TickSteps, FailureSteps, CommandSteps DEF Processes
<1>2. CASE GitHub
  BY <1>2, GitHubStep
<1>3. CASE UNCHANGED vars
  BY <1>3 DEF vars, files, FleetInv, Settings, QueuesSound, JobsSound, Busy, TasksNamed
<1> QED
  BY <1>1, <1>2, <1>3 DEF Next

\* The invariant of the fleet, for any number of processes and issues.
THEOREM FleetIsSound == Spec => []FleetInv
<1>1. Init => FleetInv
  BY FleetInvInit
<1> QED
  BY <1>1, FleetInvStep, PTL DEF Spec

\* Every copy of the queue and the history is well formed.
THEOREM FleetTypeCorrect == Spec => []TypeOK
<1>1. BudgetItem \subseteq Item
  BY Budget DEF BudgetItem, Item
<1>2. \A q \in SoundQueues : q \in Seq(Item)
  BY <1>1 DEF SoundQueues
<1>3. FleetInv => TypeOK
  BY <1>1, <1>2 DEF FleetInv, QueuesSound, JobsSound, TypeOK
<1> QED
  BY <1>3, FleetIsSound, PTL

\* No file and no copy ever names an issue twice, although no lock is shared.
THEOREM FleetQueuesUnique == Spec => []QueueKeysUnique
<1>1. FleetInv => QueueKeysUnique
  BY DEF FleetInv, QueuesSound, SoundQueues, QueueKeysUnique
<1> QED
  BY <1>1, FleetIsSound, PTL

\* No item counts more attempts than the budget, wherever it is kept.
THEOREM FleetAttemptsBounded == Spec => []AttemptsWithinBudget
<1>1. FleetInv => AttemptsWithinBudget
  <2> SUFFICES ASSUME FleetInv PROVE AttemptsWithinBudget
    OBVIOUS
  <2>1. \A item \in BudgetItem : item.attempts <= AttemptLimit
    BY Budget DEF BudgetItem
  <2>2. \A q \in SoundQueues : \A n \in DOMAIN q : q[n].attempts <= AttemptLimit
    BY <2>1 DEF SoundQueues
  <2>3. \A p \in Procs : job[p].attempts <= AttemptLimit
    BY <2>1, Budget DEF FleetInv, JobsSound, NoJob
  <2> QED
    BY <2>2, <2>3 DEF FleetInv, QueuesSound, AttemptsWithinBudget
<1> QED
  BY <1>1, FleetIsSound, PTL

\* A process never queues the issue it executes, so its retry is not swallowed.
THEOREM FleetJobNotQueued == Spec => []JobNotQueued
<1>1. FleetInv => JobNotQueued
  BY DEF FleetInv, JobsSound, JobNotQueued
<1> QED
  BY <1>1, FleetIsSound, PTL

-------------------------------------------------------------------------
\* How a process comes to execute an issue: a tick that was not paused, or the
\* command that asked for exactly that issue.

\* What one step may make of a process's place, its command and its job.
Stays(p) == pc'[p] = pc[p] /\ task'[p] = task[p] /\ job'[p] = job[p]
Rests(p) ==
    \/ pc'[p] \notin {"idle", "polling", "taken", "running", "added"}
    \/ pc'[p] = "idle" /\ p \in Daemons
StartsTick(p) ==
    /\ (pc[p] = "ready" /\ task[p].op \in OneShot) \/ pc[p] = "added"
    /\ pc'[p] \in {"added", "idle"} /\ task'[p] = task[p]
Polls(p) ==
    /\ pc[p] = "idle" /\ ~paused
    /\ pc'[p] = "polling" /\ task'[p] = task[p]
Drains(p) ==
    /\ pc[p] = "polling"
    /\ pc'[p] = "taken" /\ task'[p] = task[p]
Executes(p) ==
    /\ pc[p] = "taken"
    /\ pc'[p] = "running" /\ task'[p] = task[p] /\ job'[p] = job[p]
Dispatches(p) ==
    /\ pc[p] = "ready" /\ task[p].op \in Dispatching
    /\ pc'[p] = "taken" /\ task'[p] = task[p]
    /\ job'[p].key = task[p].key

Moves(p) ==
    Stays(p) \/ Rests(p) \/ StartsTick(p) \/ Polls(p) \/ Drains(p) \/ Executes(p)
        \/ Dispatches(p)

LEMMA Functions ==
    ASSUME FleetInv
    PROVE  /\ pc = [p \in Procs |-> pc[p]]
           /\ task = [p \in Procs |-> task[p]]
           /\ job = [p \in Procs |-> job[p]]
BY DEF FleetInv, Settings, JobsSound

\* Letting go of everything, at the end of a tick or at a fault.
LEMMA LettingGoMoves ==
    ASSUME FleetInv, NEW r \in Procs, NEW p \in Procs,
           Leave(r) \/ \E q, d : Settle(r, q, d)
    PROVE  Moves(p)
<1>1. CASE p = r
  BY <1>1, Functions DEF Leave, Settle, Gone, Home, Procs, Moves, Rests
<1>2. CASE p # r
  BY <1>2, Functions DEF Leave, Settle, Moves, Stays
<1> QED
  BY <1>1, <1>2

LEMMA LetGoMoves ==
    ASSUME FleetInv, NEW r \in Procs, NEW p \in Procs,
           LetGo(r, "settled") \/ LetGo(r, "raised")
    PROVE  Moves(p)
BY Functions DEF LetGo, Moves, Stays, Rests

LEMMA TickMoves ==
    ASSUME FleetInv, NEW r \in Procs, Tick(r), NEW p \in Procs PROVE Moves(p)
<1>1. CASE TickPaused(r) \/ DrainNothing(r) \/ FinishTick(r) \/ Unwind(r)
  BY <1>1, LettingGoMoves DEF TickPaused, DrainNothing, FinishTick, Unwind
<1>2. CASE TickPoll(r)
  BY <1>2, Functions DEF TickPoll, Moves, Stays, Polls
<1>3. CASE \E i \in Issues : PollEnqueue(r, i)
  BY <1>3 DEF PollEnqueue, Moves, Stays
<1>4. CASE DrainOne(r)
  BY <1>4, Functions DEF DrainOne, Polled, Take, Moves, Stays, Drains
<1>5. CASE Execute(r)
  BY <1>5, Functions DEF Execute, Moves, Stays, Executes
<1>6. CASE MarkProcessed(r) \/ RetryLater(r)
  BY <1>6, LetGoMoves DEF MarkProcessed, RetryLater
<1> QED
  BY <1>1, <1>2, <1>3, <1>4, <1>5, <1>6 DEF Tick

LEMMA FailureMoves ==
    ASSUME FleetInv, NEW r \in Procs, Fails(r), NEW p \in Procs PROVE Moves(p)
<1>1. CASE PollFails(r) \/ Crash(r) \/ Interrupt(r)
  BY <1>1, LettingGoMoves DEF PollFails, Crash, Interrupt
<1>2. CASE IssueRaises(r)
  BY <1>2, LetGoMoves DEF IssueRaises
<1> QED
  BY <1>1, <1>2 DEF Fails

LEMMA CommandMoves ==
    ASSUME FleetInv, NEW c \in Clients, Command(c), NEW p \in Procs PROVE Moves(p)
<1> USE Functions DEF Procs
<1>1. CASE \E i \in Issues :
             \/ \E o \in ClientOps : ReadQueue(c, o, i) \/ BeginOneShot(c, o, i)
             \/ RestartDequeues(c, i)
  <2>1. PICK place \in {"clearing", "asking", "ready"} :
          /\ pc' = [pc EXCEPT ![c] = place] /\ job' = job
          /\ \E t : task' = [task EXCEPT ![c] = t]
    BY <1>1 DEF ReadQueue, BeginOneShot, RestartDequeues, Begin
  <2> QED
    BY <2>1 DEF Moves, Stays, Rests
<1>2. CASE \/ \E i \in Issues :
                RemoveIssue(c, i) \/ PrioritizeIssue(c, i) \/ ClearHistory(c, i)
           \/ ClearQueue(c) \/ Pause(c) \/ Resume(c) \/ StopCurrentJob(c)
  BY <1>2 DEF RemoveIssue, PrioritizeIssue, ClearHistory, ClearQueue, Pause, Resume,
              StopCurrentJob, Moves, Stays
<1>3. CASE GitHubReadFails(c) \/ Report(c)
  BY <1>3, LettingGoMoves DEF GitHubReadFails, Report
<1>4. CASE RestartClears(c) \/ RequestEnqueue(c) \/ RequestMove(c) \/ InitializeDaemon(c)
  <2>1. PICK place \in {"asking", "queued", "over", "ready"} :
          /\ pc' = [pc EXCEPT ![c] = place] /\ UNCHANGED <<task, job>>
    BY <1>4 DEF RestartClears, RequestEnqueue, RequestMove, InitializeDaemon
  <2> QED
    BY <2>1 DEF Moves, Stays, Rests
<1>5. CASE DispatchIssueNow(c)
  <2> DEFINE item == queue[c][IndexOf(queue[c], task[c].key)]
  <2>1. item.key = task[c].key
    BY <1>5, Held, SoundOperations DEF DispatchIssueNow
  <2>2. /\ pc[c] = "ready" /\ task[c].op \in Dispatching /\ task' = task
        /\ pc' = [pc EXCEPT ![c] = "taken"] /\ job' = [job EXCEPT ![c] = item]
    BY <1>5 DEF DispatchIssueNow, Take
  <2> HIDE DEF item
  <2>3. CASE p = c
    BY <2>1, <2>2, <2>3 DEF Moves, Dispatches
  <2>4. CASE p # c
    BY <2>2, <2>4 DEF Moves, Stays
  <2> QED
    BY <2>3, <2>4
<1>6. CASE CliEnqueue(c) \/ CliTick(c)
  <2>1. "check" \in OneShot
    BY DEF OneShot
  <2> QED
    BY <1>6, <2>1 DEF CliEnqueue, CliTick, Moves, Stays, StartsTick
<1> QED
  BY <1>1, <1>2, <1>3, <1>4, <1>5, <1>6 DEF Command

LEMMA EveryStepMoves ==
    ASSUME FleetInv, [Next]_vars, NEW p \in Procs PROVE Moves(p)
<1>1. CASE GitHub \/ UNCHANGED vars
  BY <1>1 DEF GitHub, OpenIssue, CloseIssue, vars, Moves, Stays
<1>2. ASSUME NEW d \in Daemons, Start(d) PROVE Moves(p)
  BY <1>2, Functions DEF Start, Moves, Stays, Rests
<1> QED
  BY <1>1, <1>2, TickMoves, FailureMoves, CommandMoves DEF Next, Processes

-------------------------------------------------------------------------
\* A pause holds back every tick that has not yet asked GitHub for issues, for
\* any number of processes.
THEOREM FleetPauseHolds == Spec => PauseHoldsTicks
<1>1. FleetInv /\ [Next]_vars =>
        \A p \in Procs :
          paused /\ Ticks(p) /\ pc[p] # "polling" /\ ~Busy(p)
              => pc'[p] \notin {"polling", "taken", "running"}
  BY EveryStepMoves
     DEF Moves, Stays, Rests, StartsTick, Polls, Drains, Executes, Dispatches, Ticks, Busy
<1> QED
  BY <1>1, FleetIsSound, PTL DEF Spec, PauseHoldsTicks

\* A client polls only for a command that ticks: the commands that dispatch
\* their own issue never pass through a tick.
DispatchInv ==
    \A c \in Clients :
        /\ pc[c] \in {"added", "idle", "polling"} => Ticks(c)
        /\ Busy(c) /\ ~Ticks(c) => job[c].key = task[c].key

\* A command that dispatches an issue executes the one it was given, however
\* the files changed between its enqueue and its dispatch.
THEOREM FleetDispatchesRequested == Spec => []DispatchesRequestedIssue
<1>1. Init => DispatchInv
  BY DEF Init, Gone, DispatchInv, Busy, Procs
<1>2. FleetInv /\ DispatchInv /\ [Next]_vars => DispatchInv'
  <2> SUFFICES ASSUME FleetInv, DispatchInv, [Next]_vars, NEW c \in Clients
               PROVE  /\ pc'[c] \in {"added", "idle", "polling"} => Ticks(c)'
                      /\ Busy(c)' /\ ~Ticks(c)' => job'[c].key = task'[c].key
    BY DEF DispatchInv
  <2>1. Moves(c) /\ c \notin Daemons
    BY EveryStepMoves, FleetAssumption DEF Procs
  <2>2. CASE Stays(c)
    BY <2>2 DEF Stays, DispatchInv, Busy, Ticks
  <2>3. CASE Rests(c) \/ Dispatches(c)
    BY <2>1, <2>3 DEF Rests, Dispatches, Busy
  <2>4. CASE StartsTick(c)
    BY <2>4 DEF StartsTick, DispatchInv, Busy, Ticks, OneShot, Dispatching
  <2>5. CASE Polls(c) \/ Drains(c) \/ Executes(c)
    BY <2>5 DEF Polls, Drains, Executes, DispatchInv, Busy, Ticks
  <2> QED
    BY <2>1, <2>2, <2>3, <2>4, <2>5 DEF Moves
<1>3. DispatchInv => DispatchesRequestedIssue
  BY DEF DispatchInv, DispatchesRequestedIssue
<1> QED
  BY <1>1, <1>2, <1>3, FleetIsSound, PTL DEF Spec

-------------------------------------------------------------------------
\* What one process does, and what a step of it leaves to the others.
Acts(p) ==
    \/ p \in Daemons /\ Start(p)
    \/ Tick(p) \/ Fails(p)
    \/ p \in Clients /\ Command(p)

Unmoved(p) ==
    UNCHANGED <<pc[p], task[p], queue[p], done[p], listing[p], job[p]>>

LEMMA WhoActs ==
    ASSUME [Next]_vars PROVE GitHub \/ (\E p \in Procs : Acts(p)) \/ UNCHANGED vars
BY DEF Next, Processes, Acts, Procs

LEMMA NobodyMoves ==
    ASSUME GitHub \/ UNCHANGED vars
    PROVE  UNCHANGED <<queueFile, doneFile, statusFile, pc, task, queue, done, listing, job>>
BY DEF GitHub, OpenIssue, CloseIssue, vars, files

\* A command's step changes nothing but the client's own entries.
LEMMA CommandOfOne ==
    ASSUME FleetInv, NEW c \in Clients, Command(c), NEW q \in Procs, q # c
    PROVE  Unmoved(q)
<1> USE DEF Unmoved, FleetInv, Settings, QueuesSound, JobsSound, files
<1>1. CASE \E i \in Issues :
             \/ \E o \in ClientOps : ReadQueue(c, o, i) \/ BeginOneShot(c, o, i)
             \/ RestartDequeues(c, i)
  BY <1>1 DEF ReadQueue, BeginOneShot, RestartDequeues, Begin, LoadStores, SaveQueue
<1>2. CASE \/ \E i \in Issues :
                RemoveIssue(c, i) \/ PrioritizeIssue(c, i) \/ ClearHistory(c, i)
           \/ ClearQueue(c) \/ Pause(c) \/ Resume(c) \/ StopCurrentJob(c)
  BY <1>2 DEF RemoveIssue, PrioritizeIssue, ClearHistory, ClearQueue, Pause, Resume, StopCurrentJob
<1>3. CASE GitHubReadFails(c) \/ Report(c)
  BY <1>3 DEF GitHubReadFails, Report, Leave
<1>4. CASE RestartClears(c) \/ RequestEnqueue(c) \/ RequestMove(c) \/ InitializeDaemon(c)
  BY <1>4 DEF RestartClears, RequestEnqueue, RequestMove, InitializeDaemon, LoadStores, SaveQueue
<1>5. CASE DispatchIssueNow(c)
  BY <1>5 DEF DispatchIssueNow, Take, SaveQueue
<1>6. CASE CliEnqueue(c) \/ CliTick(c)
  BY <1>6 DEF CliEnqueue, CliTick, SaveQueue
<1> QED
  BY <1>1, <1>2, <1>3, <1>4, <1>5, <1>6 DEF Command

LEMMA StepOfOne ==
    ASSUME FleetInv, NEW p \in Procs, Acts(p), NEW q \in Procs, q # p
    PROVE  Unmoved(q)
<1> USE DEF Unmoved, FleetInv, Settings, QueuesSound, JobsSound, files
<1>1. CASE p \in Daemons /\ Start(p)
  BY <1>1 DEF Start, LoadStores
<1>2. CASE TickPaused(p) \/ DrainNothing(p) \/ FinishTick(p) \/ Unwind(p)
  BY <1>2 DEF TickPaused, DrainNothing, FinishTick, Unwind, Settle, Leave
<1>3. CASE TickPoll(p) \/ \E i \in Issues : PollEnqueue(p, i)
  BY <1>3 DEF TickPoll, PollEnqueue, SaveQueue
<1>4. CASE DrainOne(p) \/ Execute(p)
  BY <1>4 DEF DrainOne, Take, Execute, SaveQueue
<1>5. CASE MarkProcessed(p) \/ RetryLater(p) \/ IssueRaises(p)
  BY <1>5 DEF MarkProcessed, RetryLater, IssueRaises, LetGo, SaveDone, SaveQueue
<1>6. CASE PollFails(p) \/ Crash(p) \/ Interrupt(p)
  BY <1>6 DEF PollFails, Crash, Interrupt, Leave
<1> QED
  BY <1>1, <1>2, <1>3, <1>4, <1>5, <1>6, CommandOfOne DEF Acts, Tick, Fails

-------------------------------------------------------------------------
\* One watching daemon: the deployment the documentation calls sequential.  The
\* clients beside it may pause and resume it, ask it to stop its job, and begin any
\* other command, as long as they write nothing into the queue, the history or the
\* status.
OnlyRead == \A c \in Clients : Acts(c) => UNCHANGED <<queueFile, doneFile, statusFile>>
ClientsOnlyRead == [][OnlyRead]_vars

Lone(d) ==
    /\ task[d] = Watching
    /\ ~Busy(d) => job[d] = NoJob
    /\ MemoryMatchesFile /\ ProcessedStaysOut /\ StatusTracksJob

LEMMA EnqueuedKeys ==
    ASSUME NEW q \in SoundQueues
    PROVE  /\ \A item \in BudgetItem : Keys(Enqueue(q, item)) = Keys(q) \cup {item.key}
           /\ \A item \in BudgetItem :
                item.attempts < MaxRetries => Keys(RetryEnqueue(q, item)) = Keys(q) \cup {item.key}
<1>1. ASSUME NEW item \in BudgetItem PROVE Keys(Enqueue(q, item)) = Keys(q) \cup {item.key}
  BY <1>1, SoundOperations
<1>2. ASSUME NEW item \in BudgetItem, item.attempts < MaxRetries
      PROVE  Keys(RetryEnqueue(q, item)) = Keys(q) \cup {item.key}
  <2> DEFINE again == [item EXCEPT !.attempts = @ + 1]
  <2>1. again \in BudgetItem /\ again.key = item.key /\ RetryEnqueue(q, item) = Enqueue(q, again)
    BY <1>2, RetriedItem DEF RetryEnqueue
  <2> HIDE DEF again
  <2> QED
    BY <1>1, <2>1
<1> QED
  BY <1>1, <1>2

\* The ways the daemon lets go of an issue, and those in which it stays up.
LEMMA LoneLeaves ==
    ASSUME FleetInv, NEW d, Daemons = {d}, Lone(d), Leave(d),
           UNCHANGED doneFile, Keys(queueFile') \cap doneFile = {}
    PROVE  Lone(d)'
<1>1. d \in Procs /\ Gone(d) = "down" /\ Idle(d) = Watching
  BY DEF Procs, Gone, Idle
<1>2. pc'[d] = "down" /\ task'[d] = Watching /\ job'[d] = NoJob
  BY <1>1 DEF Leave, FleetInv, Settings, JobsSound
<1>3. NoJob.key \notin doneFile
  BY FleetAssumption DEF NoJob, NoIssue, FleetInv, Settings
<1> QED
  BY <1>2, <1>3 DEF Lone, Busy, MemoryMatchesFile, ProcessedStaysOut, StatusTracksJob

LEMMA LoneSettles ==
    ASSUME FleetInv, NEW d, Daemons = {d}, Lone(d), NEW q, NEW h,
           Settle(d, q, h), queueFile' = q, doneFile' = h, h \in SUBSET Issues,
           Keys(q) \cap h = {}, statusFile' = NoIssue
    PROVE  Lone(d)'
<1>1. d \in Procs /\ Home(d) = "idle" /\ Idle(d) = Watching
  BY DEF Procs, Home, Idle
<1>2. /\ pc'[d] = "idle" /\ task'[d] = Watching /\ job'[d] = NoJob
      /\ queue'[d] = q /\ done'[d] = h
  BY <1>1 DEF Settle, FleetInv, Settings, JobsSound, QueuesSound
<1>3. NoJob.key \notin h /\ NoJob.key = NoIssue
  BY FleetAssumption DEF NoJob, NoIssue
<1> QED
  BY <1>2, <1>3 DEF Lone, Busy, MemoryMatchesFile, ProcessedStaysOut, StatusTracksJob

LEMMA LoneLetsGo ==
    ASSUME FleetInv, NEW d, Daemons = {d}, Lone(d), NEW place \in {"settled", "raised"},
           LetGo(d, place), queue'[d] = queueFile', done'[d] = doneFile',
           doneFile' \in SUBSET Issues, doneFile' \cap Keys(queueFile') = {}
    PROVE  Lone(d)'
<1>1. d \in Procs /\ pc'[d] = place /\ job'[d] = NoJob /\ task' = task
  BY DEF Procs, LetGo, FleetInv, Settings, JobsSound
<1>2. NoJob.key \notin doneFile'
  BY FleetAssumption DEF NoJob, NoIssue
<1> QED
  BY <1>1, <1>2 DEF Lone, Busy, MemoryMatchesFile, ProcessedStaysOut, StatusTracksJob

\* The result of an execution, saved: the issue is settled, or in line again, or
\* in neither.
LEMMA LoneResults ==
    ASSUME FleetInv, NEW d, Daemons = {d}, Lone(d),
           MarkProcessed(d) \/ RetryLater(d) \/ IssueRaises(d)
    PROVE  Lone(d)'
<1>1. /\ d \in Procs /\ queue[d] = queueFile /\ done[d] = doneFile
      /\ queueFile \in SoundQueues /\ doneFile \in SUBSET Issues
      /\ doneFile \cap Keys(queueFile) = {} /\ job[d].key \notin doneFile
      /\ job[d] \in BudgetItem /\ job[d].key \in Issues /\ job[d].key \notin Keys(queueFile)
      /\ queue \in [Procs -> SoundQueues] /\ done \in [Procs -> SUBSET Issues]
  BY Held DEF Procs, Lone, MemoryMatchesFile, ProcessedStaysOut, MarkProcessed, RetryLater,
              IssueRaises, Busy, FleetInv, Settings, QueuesSound
<1>2. job[d].attempts < MaxRetries
        => Keys(RetryEnqueue(queueFile, job[d])) = Keys(queueFile) \cup {job[d].key}
  BY <1>1, EnqueuedKeys
<1>3. CASE MarkProcessed(d)
  BY <1>1, <1>3, LoneLetsGo DEF MarkProcessed, SaveDone
<1>4. CASE RetryLater(d)
  BY <1>1, <1>2, <1>4, LoneLetsGo DEF RetryLater, SaveQueue
<1>5. CASE IssueRaises(d)
  <2>1. /\ queue'[d] = queueFile' /\ done'[d] = doneFile' /\ doneFile' = doneFile
        /\ doneFile' \cap Keys(queueFile') = {}
    BY <1>1, <1>2, <1>5 DEF IssueRaises, SaveQueue
  <2> QED
    BY <1>1, <1>5, <2>1, LoneLetsGo DEF IssueRaises
<1> QED
  BY <1>3, <1>4, <1>5

LEMMA LoneTick ==
    ASSUME FleetInv, NEW d, Daemons = {d}, Lone(d), Tick(d)
    PROVE  Lone(d)'
<1>1. /\ d \in Procs /\ task[d] = Watching /\ queue[d] \in SoundQueues
      /\ doneFile \in SUBSET Issues /\ doneFile \cap Keys(queueFile) = {}
      /\ pc[d] # "down" => queue[d] = queueFile /\ done[d] = doneFile
      /\ pc[d] \in {"idle", "polling", "taken"} => statusFile = NoIssue
  BY Held DEF Procs, Lone, MemoryMatchesFile, ProcessedStaysOut, StatusTracksJob
<1>2. StatusAfterJob(d) = NoIssue
  BY <1>1 DEF StatusAfterJob, Ticks, Watching, Dispatching
<1>3. CASE TickPaused(d) \/ DrainNothing(d)
  BY <1>1, <1>3, LoneSettles DEF TickPaused, DrainNothing, Polled
<1>4. CASE TickPoll(d)
  BY <1>1, <1>4 DEF TickPoll, files, FleetInv, Settings, Lone, Busy, MemoryMatchesFile,
                    ProcessedStaysOut, StatusTracksJob
<1>5. ASSUME NEW i \in Issues, PollEnqueue(d, i) PROVE Lone(d)'
  <2> DEFINE item == [key |-> i, attempts |-> 0]
             q == Enqueue(queue[d], item)
  <2>1. item \in BudgetItem /\ item.key = i
    BY Budget DEF BudgetItem
  <2>2. Keys(q) = Keys(queue[d]) \cup {i}
    <3> HIDE DEF item
    <3> QED
      BY <1>1, <2>1, EnqueuedKeys
  <2>3. /\ pc[d] = "polling" /\ i \notin doneFile
        /\ queue' = [queue EXCEPT ![d] = q] /\ queueFile' = q
        /\ UNCHANGED <<doneFile, statusFile, pc, task, done, job>>
    BY <1>1, <1>5 DEF PollEnqueue, SaveQueue, ShouldSkip
  <2> HIDE DEF item, q
  <2>4. queue'[d] = q
    BY <1>1, <2>3 DEF FleetInv, QueuesSound
  <2>5. doneFile \cap Keys(q) = {}
    BY <1>1, <2>2, <2>3
  <2> QED
    BY <1>1, <2>3, <2>4, <2>5 DEF Lone, Busy, MemoryMatchesFile, ProcessedStaysOut, StatusTracksJob
<1>6. CASE DrainOne(d)
  <2> DEFINE item == Head(queue[d])
             rest == Tail(queue[d])
  <2>1. /\ pc[d] = "polling" /\ queue[d] # <<>>
        /\ queue' = [queue EXCEPT ![d] = rest] /\ queueFile' = rest
        /\ job' = [job EXCEPT ![d] = item] /\ pc' = [pc EXCEPT ![d] = "taken"]
        /\ UNCHANGED <<doneFile, statusFile, task, done>>
    BY <1>6 DEF DrainOne, Polled, Take, SaveQueue
  <2>2. queue[d] \in Seq(BudgetItem)
    BY <1>1 DEF SoundQueues
  <2>3. Keys(rest) \subseteq Keys(queue[d]) /\ item.key \in Keys(queue[d])
    BY <2>1, <2>2, TailElements DEF Keys
  <2> HIDE DEF item, rest
  <2>4. queue'[d] = rest /\ job'[d] = item /\ pc'[d] = "taken"
    BY <1>1, <2>1 DEF FleetInv, QueuesSound, JobsSound, Settings
  <2> QED
    BY <1>1, <2>1, <2>3, <2>4 DEF Lone, Busy, MemoryMatchesFile, ProcessedStaysOut, StatusTracksJob
<1>7. CASE Execute(d)
  <2>1. pc'[d] = "running" /\ statusFile' = job[d].key
    BY <1>1, <1>7 DEF Execute, FleetInv, Settings
  <2> QED
    BY <1>1, <1>7, <2>1
       DEF Execute, Lone, Busy, MemoryMatchesFile, ProcessedStaysOut, StatusTracksJob
<1>8. CASE MarkProcessed(d) \/ RetryLater(d)
  BY <1>8, LoneResults
<1>9. CASE FinishTick(d)
  BY <1>1, <1>2, <1>9, LoneSettles DEF FinishTick
<1>10. CASE Unwind(d)
  BY <1>1, <1>10, LoneLeaves DEF Unwind
<1> QED
  BY <1>3, <1>4, <1>5, <1>6, <1>7, <1>8, <1>9, <1>10 DEF Tick

LEMMA LoneFails ==
    ASSUME FleetInv, NEW d, Daemons = {d}, Lone(d), Fails(d)
    PROVE  Lone(d)'
<1>1. Keys(queueFile) \cap doneFile = {}
  BY DEF Lone, ProcessedStaysOut
<1>2. CASE PollFails(d) \/ Crash(d) \/ Interrupt(d)
  BY <1>1, <1>2, LoneLeaves DEF PollFails, Crash, Interrupt, files
<1>3. CASE IssueRaises(d)
  BY <1>3, LoneResults
<1> QED
  BY <1>2, <1>3 DEF Fails

\* A step is the daemon's, or leaves it and the files as they are.
LEMMA WhoseStep ==
    ASSUME FleetInv, NEW d, Daemons = {d}, [Next]_vars, [OnlyRead]_vars
    PROVE  \/ Start(d) \/ Tick(d) \/ Fails(d)
           \/ UNCHANGED <<queueFile, doneFile, statusFile>> /\ Unmoved(d)
<1>1. d \in Procs /\ d \notin Clients
  BY FleetAssumption DEF Procs
<1>2. CASE GitHub \/ UNCHANGED vars
  BY <1>2, NobodyMoves DEF Unmoved
<1>3. ASSUME NEW c \in Clients, Acts(c), ~ UNCHANGED vars
      PROVE  UNCHANGED <<queueFile, doneFile, statusFile>> /\ Unmoved(d)
  BY <1>1, <1>3, StepOfOne DEF OnlyRead, Procs
<1>4. ASSUME NEW p \in Procs, Acts(p), p \notin Clients PROVE Start(d) \/ Tick(d) \/ Fails(d)
  BY <1>4 DEF Acts, Procs
<1> QED
  BY <1>2, <1>3, <1>4, WhoActs

LEMMA LoneKept ==
    ASSUME FleetInv, NEW d, Daemons = {d}, Lone(d), [Next]_vars, [OnlyRead]_vars
    PROVE  Lone(d)'
<1>1. CASE UNCHANGED <<queueFile, doneFile, statusFile>> /\ Unmoved(d)
  BY <1>1 DEF Unmoved, Lone, Busy, MemoryMatchesFile, ProcessedStaysOut, StatusTracksJob
<1>2. CASE Start(d)
  <2>1. d \in Procs /\ job[d] = NoJob /\ NoJob.key = NoIssue
    BY <1>2 DEF Procs, Start, Lone, Busy, NoJob
  <2>2. pc'[d] = "idle" /\ queue'[d] = queueFile /\ done'[d] = doneFile
    BY <1>2, <2>1 DEF Start, LoadStores, FleetInv, Settings, QueuesSound
  <2> QED
    BY <1>2, <2>1, <2>2 DEF Start, Lone, Busy, MemoryMatchesFile, ProcessedStaysOut, StatusTracksJob
<1> QED
  BY <1>1, <1>2, LoneTick, LoneFails, WhoseStep

LEMMA LoneDaemon ==
    ASSUME NEW d, Daemons = {d} PROVE Spec /\ ClientsOnlyRead => []Lone(d)
<1>1. Init => Lone(d)
  BY FleetAssumption DEF Init, Gone, Idle, Procs, Lone, Busy, MemoryMatchesFile, ProcessedStaysOut,
                         StatusTracksJob, NoJob, NoIssue
<1>2. FleetInv /\ Lone(d) /\ [Next]_vars /\ [OnlyRead]_vars => Lone(d)'
  BY LoneKept
<1> QED
  BY <1>1, <1>2, FleetIsSound, PTL DEF Spec, ClientsOnlyRead

\* The hypothesis is met when there are no clients.
LEMMA NoClientWrites == ASSUME Clients = {} PROVE Spec => ClientsOnlyRead
<1>1. [Next]_vars => [OnlyRead]_vars
  BY DEF OnlyRead
<1> QED
  BY <1>1, PTL DEF Spec, ClientsOnlyRead

\* While nobody else writes the files, a daemon that is up remembers what they
\* hold, so that a restart loses nothing but the issue in execution.
THEOREM FleetMemoryMatchesFile ==
    ASSUME NEW d, Daemons = {d} PROVE Spec /\ ClientsOnlyRead => []MemoryMatchesFile
<1>1. Lone(d) => MemoryMatchesFile
  BY DEF Lone
<1> QED
  BY <1>1, LoneDaemon, PTL

\* Such a daemon neither queues nor executes what its history has.
THEOREM FleetProcessedStaysOut ==
    ASSUME NEW d, Daemons = {d} PROVE Spec /\ ClientsOnlyRead => []ProcessedStaysOut
<1>1. Lone(d) => ProcessedStaysOut
  BY DEF Lone
<1> QED
  BY <1>1, LoneDaemon, PTL

\* Its status file names the issue in execution, whatever ended the last one.
THEOREM FleetStatusTracksJob ==
    ASSUME NEW d, Daemons = {d} PROVE Spec /\ ClientsOnlyRead => []StatusTracksJob
<1>1. Lone(d) => StatusTracksJob
  BY DEF Lone
<1> QED
  BY <1>1, LoneDaemon, PTL

-------------------------------------------------------------------------
\* The life cycle of an issue (IssueLifecycle) under one daemon: the
\* line is the queue file, the attempts those of its items and of the job.

\* The items of queue and job, by their keys.
LEMMA TriesAre ==
    ASSUME NEW q \in SoundQueues, NEW item \in BudgetItem \cup {NoJob}, item.key \notin Keys(q)
    PROVE  /\ \A i \in Issues : i \notin Keys(q) /\ i # item.key => TriesOf(q, item, i) = 0
           /\ \A n \in DOMAIN q : TriesOf(q, item, q[n].key) = q[n].attempts
           /\ item.key \in Issues => TriesOf(q, item, item.key) = item.attempts
<1> DEFINE found(i) == {e \in ToSet(q) \cup {item} : e.key = i}
<1>1. ToSet(q) = {q[n] : n \in DOMAIN q}
  BY DEF ToSet
<1>2. ASSUME NEW i \in Issues, i \notin Keys(q), i # item.key PROVE TriesOf(q, item, i) = 0
  <2>1. found(i) = {}
    BY <1>1, <1>2 DEF Keys
  <2> QED
    BY <2>1 DEF TriesOf
<1>3. ASSUME NEW n \in DOMAIN q PROVE TriesOf(q, item, q[n].key) = q[n].attempts
  <2>1. found(q[n].key) = {q[n]}
    BY <1>1 DEF Keys, SoundQueues, UniqueKeys
  <2>2. TriesOf(q, item, q[n].key) = (CHOOSE e \in {q[n]} : TRUE).attempts
    BY <2>1 DEF TriesOf
  <2> QED
    BY <2>2
<1>4. TriesOf(q, item, item.key) = item.attempts
  <2>1. found(item.key) = {item}
    BY <1>1 DEF Keys
  <2>2. TriesOf(q, item, item.key) = (CHOOSE e \in {item} : TRUE).attempts
    BY <2>1 DEF TriesOf
  <2> QED
    BY <2>2
<1> QED
  BY <1>2, <1>3, <1>4

LEMMA LineType ==
    ASSUME NEW q \in SoundQueues
    PROVE  /\ q \in Seq(BudgetItem) /\ Keys(q) \subseteq Issues
           /\ LineOf(q) \in Seq(Issues) /\ Len(LineOf(q)) = Len(q)
           /\ \A n \in 1 .. Len(q) : LineOf(q)[n] = q[n].key
<1>1. q \in Seq(BudgetItem) /\ DOMAIN q = 1 .. Len(q) /\ Len(q) \in Nat
  BY DEF SoundQueues
<1>2. \A n \in DOMAIN q : q[n] \in BudgetItem /\ q[n].key \in Issues
  <2>1. \A n \in DOMAIN q : q[n] \in BudgetItem
    BY <1>1
  <2> QED
    BY <2>1 DEF BudgetItem
<1>3. Keys(q) \subseteq Issues
  BY <1>2 DEF Keys
<1>4. LineOf(q) = [n \in 1 .. Len(q) |-> q[n].key]
  BY <1>1 DEF LineOf
<1>5. LineOf(q) \in [1 .. Len(q) -> Issues]
  BY <1>1, <1>2, <1>4
<1>6. LineOf(q) \in Seq(Issues) /\ Len(LineOf(q)) = Len(q)
  <2> HIDE DEF LineOf
  <2> QED
    BY <1>1, <1>5
<1> QED
  BY <1>1, <1>3, <1>4, <1>6

\* What the line and the attempts become when an item joins the queue at its
\* end: a new one, or the one that was in execution.
LEMMA Joins ==
    ASSUME NEW q \in SoundQueues, NEW item \in BudgetItem, item.key \notin Keys(q)
    PROVE  /\ Enqueue(q, item) = Append(q, item) /\ Enqueue(q, item) \in SoundQueues
           /\ LineOf(Append(q, item)) = Append(LineOf(q), item.key)
           /\ \A i \in Issues : TriesOf(Append(q, item), NoJob, i) =
                IF i = item.key THEN item.attempts ELSE TriesOf(q, NoJob, i)
<1>1. Enqueue(q, item) = Append(q, item) /\ Append(q, item) \in SoundQueues
  BY SoundOperations DEF Enqueue
<1>2. q \in Seq(BudgetItem) /\ LineOf(q) \in Seq(Issues) /\ Len(LineOf(q)) = Len(q)
  BY LineType
<1>3. LineOf(Append(q, item)) = Append(LineOf(q), item.key)
  BY <1>1, <1>2 DEF LineOf
<1>4. NoJob.key = NoIssue /\ NoIssue \notin Issues
  BY FleetAssumption DEF NoJob, NoIssue
<1>5. Keys(q) \subseteq Issues /\ item.key \in Issues /\ Keys(Append(q, item)) = Keys(q) \cup {item.key}
  <2>1. Keys(Enqueue(q, item)) = Keys(q) \cup {item.key}
    BY SoundOperations
  <2> QED
    BY <1>1, <2>1, LineType DEF BudgetItem
<1>6. NoIssue \notin Keys(q) /\ NoIssue \notin Keys(Append(q, item))
  BY <1>4, <1>5
<1>7. \A n \in DOMAIN Append(q, item) :
        TriesOf(Append(q, item), NoJob, Append(q, item)[n].key) = Append(q, item)[n].attempts
  <2> DEFINE longer == Append(q, item)
  <2>1. longer \in SoundQueues /\ NoJob.key \notin Keys(longer)
    BY <1>1, <1>4, <1>6
  <2> HIDE DEF longer
  <2>2. \A n \in DOMAIN longer : TriesOf(longer, NoJob, longer[n].key) = longer[n].attempts
    BY <2>1, TriesAre
  <2> QED
    BY <2>2 DEF longer
<1>8. ASSUME NEW i \in Issues
      PROVE TriesOf(Append(q, item), NoJob, i) = IF i = item.key THEN item.attempts ELSE TriesOf(q, NoJob, i)
  <2>1. CASE i = item.key
    <3>1. Len(q) + 1 \in DOMAIN Append(q, item) /\ Append(q, item)[Len(q) + 1] = item
      BY <1>2
    <3> QED
      BY <1>7, <2>1, <3>1
  <2>2. CASE i \in Keys(q)
    <3>1. PICK n \in DOMAIN q : q[n].key = i
      BY <2>2 DEF Keys
    <3>2. n \in DOMAIN Append(q, item) /\ Append(q, item)[n] = q[n]
      BY <1>2
    <3>3. i # item.key
      BY <2>2
    <3>4. TriesOf(q, NoJob, i) = q[n].attempts
      BY <1>4, <1>6, <3>1, TriesAre
    <3>5. TriesOf(Append(q, item), NoJob, i) = q[n].attempts
      BY <1>7, <3>1, <3>2
    <3> QED
      BY <3>3, <3>4, <3>5
  <2>3. CASE i # item.key /\ i \notin Keys(q)
    <3>1. TriesOf(q, NoJob, i) = 0
      BY <1>4, <1>6, <2>3, TriesAre
    <3>2. TriesOf(Append(q, item), NoJob, i) = 0
      BY <1>1, <1>4, <1>5, <1>6, <2>3, TriesAre
    <3> QED
      BY <2>3, <3>1, <3>2
  <2> QED
    BY <2>1, <2>2, <2>3
<1> QED
  BY <1>1, <1>3, <1>8

\* When the head of the queue is taken: its attempts are those of the job then.
LEMMA Launches ==
    ASSUME NEW q \in SoundQueues, q # <<>>
    PROVE  /\ LineOf(q) # <<>> /\ Head(LineOf(q)) = Head(q).key /\ LineOf(Tail(q)) = Tail(LineOf(q))
           /\ \A i \in Issues : TriesOf(Tail(q), Head(q), i) = TriesOf(q, NoJob, i)
<1> DEFINE item == Head(q)
           rest == Tail(q)
<1>1. q \in Seq(BudgetItem) /\ LineOf(q) \in Seq(Issues) /\ Len(LineOf(q)) = Len(q)
  BY LineType
<1>2. /\ 1 \in DOMAIN q /\ item = q[1] /\ item \in BudgetItem /\ rest \in SoundQueues
      /\ item.key \notin Keys(rest)
      /\ \A n \in DOMAIN rest : n + 1 \in DOMAIN q /\ rest[n] = q[n + 1]
  BY <1>1, TailElements, SoundOperations
<1>3. LineOf(q) # <<>> /\ Head(LineOf(q)) = item.key /\ LineOf(rest) = Tail(LineOf(q))
  <2>1. LineOf(q) # <<>> /\ Head(LineOf(q)) = item.key
    BY <1>1 DEF LineOf
  <2>2. Len(rest) = Len(q) - 1 /\ rest \in Seq(BudgetItem) /\ Len(Tail(LineOf(q))) = Len(q) - 1 /\ Tail(LineOf(q)) \in Seq(Issues)
    BY <1>1, <2>1
  <2>3. \A n \in 1 .. Len(q) - 1 : LineOf(rest)[n] = Tail(LineOf(q))[n]
    BY <1>1, <2>1, <2>2 DEF LineOf
  <2>4. LineOf(rest) \in Seq(Issues) /\ Len(LineOf(rest)) = Len(q) - 1
    BY <1>2, <2>2, LineType
  <2> QED
    BY <2>1, <2>2, <2>3, <2>4, SeqEqual
<1>4. NoJob.key = NoIssue /\ NoIssue \notin Issues
  BY FleetAssumption DEF NoJob, NoIssue
<1>5. Keys(q) \subseteq Issues /\ Keys(q) = Keys(rest) \cup {item.key}
  <2>1. Keys(q) \subseteq Issues
    BY LineType
  <2>2. Keys(rest) \cup {item.key} \subseteq Keys(q)
    BY <1>2 DEF Keys
  <2>3. ASSUME NEW n \in DOMAIN q, n # 1 PROVE q[n].key \in Keys(rest)
    <3>1. n - 1 \in DOMAIN rest /\ rest[n - 1] = q[n]
      BY <1>1, <1>2, <2>3
    <3> QED
      BY <3>1 DEF Keys
  <2> QED
    BY <1>2, <2>1, <2>2, <2>3 DEF Keys
<1> HIDE DEF item, rest
<1>6. NoIssue \notin Keys(q)
  BY <1>4, <1>5
<1>7. ASSUME NEW i \in Issues PROVE TriesOf(rest, item, i) = TriesOf(q, NoJob, i)
  <2>1. CASE i = item.key
    BY <1>2, <1>4, <1>6, <2>1, TriesAre
  <2>2. CASE i \in Keys(rest)
    <3>1. PICK n \in DOMAIN rest : rest[n].key = i
      BY <2>2 DEF Keys
    <3>2. TriesOf(rest, item, i) = rest[n].attempts
      BY <1>2, <3>1, TriesAre
    <3>3. n + 1 \in DOMAIN q /\ rest[n] = q[n + 1]
      BY <1>2
    <3>4. TriesOf(q, NoJob, i) = rest[n].attempts
      BY <1>4, <1>6, <3>1, <3>3, TriesAre
    <3> QED
      BY <3>2, <3>4
  <2>3. CASE i # item.key /\ i \notin Keys(rest)
    BY <1>2, <1>4, <1>5, <1>6, <2>3, TriesAre
  <2> QED
    BY <2>1, <2>2, <2>3
<1> QED
  BY <1>3, <1>7 DEF item, rest

\* When the job is let go of, its attempts are forgotten.
LEMMA Forgotten ==
    ASSUME NEW q \in SoundQueues, NEW item \in BudgetItem, item.key \notin Keys(q)
    PROVE  \A i \in Issues : TriesOf(q, NoJob, i) = IF i = item.key THEN 0 ELSE TriesOf(q, item, i)
<1>1. NoJob.key = NoIssue /\ NoIssue \notin Issues
  BY FleetAssumption DEF NoJob, NoIssue
<1>2. Keys(q) \subseteq Issues
  BY LineType
<1>3. NoJob.key \notin Keys(q)
  BY <1>1, <1>2
<1>4. ASSUME NEW i \in Issues PROVE TriesOf(q, NoJob, i) = IF i = item.key THEN 0 ELSE TriesOf(q, item, i)
  <2>1. CASE i \in Keys(q)
    <3>1. PICK n \in DOMAIN q : q[n].key = i
      BY <2>1 DEF Keys
    <3>2. TriesOf(q, NoJob, i) = q[n].attempts
      BY <1>3, <3>1, TriesAre
    <3>3. TriesOf(q, item, i) = q[n].attempts
      BY <3>1, TriesAre
    <3> QED
      BY <2>1, <3>2, <3>3
  <2>2. CASE i \notin Keys(q)
    BY <1>1, <1>3, <2>2, TriesAre
  <2> QED
    BY <2>1, <2>2
<1> QED
  BY <1>4

-------------------------------------------------------------------------
\* The life cycle, in the daemon's own state.
Attempts(q, item) == [i \in Issues |-> TriesOf(q, item, i)]

LEMMA Mapped ==
    ASSUME NEW d, Daemons = {d}, NEW item, job[d] = item, NEW later, job'[d] = later,
           NEW was \in BOOLEAN, was = (pc[d] # "down"), NEW is \in BOOLEAN, is = (pc'[d] # "down")
    PROVE  /\ Lifecycle!Init <=>
                /\ was = FALSE
                /\ LineOf(queueFile) = <<>> /\ item.key = NoIssue /\ doneFile = {}
                /\ Attempts(queueFile, item) = [i \in Issues |-> 0]
           /\ Lifecycle!vars =
                <<was, LineOf(queueFile), Attempts(queueFile, item), item.key, doneFile>>
           /\ Lifecycle!vars' =
                <<is, LineOf(queueFile'), Attempts(queueFile', later), later.key, doneFile'>>
           /\ Lifecycle!Begin <=>
                /\ ~was /\ is /\ later.key = item.key /\ doneFile' = doneFile
                /\ LineOf(queueFile') = LineOf(queueFile)
                /\ Attempts(queueFile', later) = Attempts(queueFile, item)
           /\ Lifecycle!End <=>
                /\ was /\ ~is /\ item.key = NoIssue /\ later.key = item.key /\ doneFile' = doneFile
                /\ LineOf(queueFile') = LineOf(queueFile)
                /\ Attempts(queueFile', later) = Attempts(queueFile, item)
           /\ \A i : Lifecycle!Detect(i) <=>
                /\ was /\ is = was
                /\ i \notin Keys(queueFile) \cup doneFile \cup {item.key}
                /\ LineOf(queueFile') = Append(LineOf(queueFile), i)
                /\ Attempts(queueFile', later) = Attempts(queueFile, item)
                /\ later.key = item.key /\ doneFile' = doneFile
           /\ Lifecycle!Launch <=>
                /\ was /\ is = was
                /\ item.key = NoIssue /\ LineOf(queueFile) # <<>>
                /\ later.key = Head(LineOf(queueFile)) /\ LineOf(queueFile') = Tail(LineOf(queueFile))
                /\ Attempts(queueFile', later) = Attempts(queueFile, item) /\ doneFile' = doneFile
           /\ Lifecycle!Settle <=>
                /\ is = was
                /\ item.key # NoIssue /\ later.key = NoIssue
                /\ doneFile' = doneFile \cup {item.key}
                /\ Attempts(queueFile', later) = [Attempts(queueFile, item) EXCEPT ![item.key] = 0]
                /\ LineOf(queueFile') = LineOf(queueFile)
           /\ Lifecycle!Retry <=>
                /\ is = was
                /\ item.key # NoIssue /\ Attempts(queueFile, item)[item.key] < MaxRetries
                /\ LineOf(queueFile') = Append(LineOf(queueFile), item.key) /\ later.key = NoIssue
                /\ Attempts(queueFile', later) = [Attempts(queueFile, item) EXCEPT
                                                     ![item.key] = Attempts(queueFile, item)[item.key] + 1]
                /\ doneFile' = doneFile
           /\ Lifecycle!Lose <=>
                /\ was /\ ~is
                /\ item.key # NoIssue /\ later.key = NoIssue
                /\ Attempts(queueFile', later) = [Attempts(queueFile, item) EXCEPT ![item.key] = 0]
                /\ LineOf(queueFile') = LineOf(queueFile) /\ doneFile' = doneFile
           /\ Lifecycle!Abandon <=>
                /\ is = was
                /\ item.key # NoIssue /\ Attempts(queueFile, item)[item.key] >= MaxRetries
                /\ later.key = NoIssue
                /\ Attempts(queueFile', later) = [Attempts(queueFile, item) EXCEPT ![item.key] = 0]
                /\ LineOf(queueFile') = LineOf(queueFile) /\ doneFile' = doneFile
<1>1. TheDaemon = d
  BY DEF TheDaemon
<1>2. Lifecycle!Waiting = Keys(queueFile)
  BY DEF Lifecycle!Waiting, LineOf, Keys
<1> USE <1>1, <1>2 DEF Attempts
<1>3. /\ Lifecycle!Init <=>
                /\ was = FALSE
                /\ LineOf(queueFile) = <<>> /\ item.key = NoIssue /\ doneFile = {}
                /\ Attempts(queueFile, item) = [i \in Issues |-> 0]
      /\ Lifecycle!vars =
                <<was, LineOf(queueFile), Attempts(queueFile, item), item.key, doneFile>>
      /\ Lifecycle!vars' =
                <<is, LineOf(queueFile'), Attempts(queueFile', later), later.key, doneFile'>>
  BY DEF Lifecycle!Init, Lifecycle!vars, LineOf
<1> QED
  BY <1>3 DEF Lifecycle!Begin, Lifecycle!End, Lifecycle!Detect, Lifecycle!Launch, Lifecycle!Settle,
              Lifecycle!Retry, Lifecycle!Lose, Lifecycle!Abandon, Lifecycle!LetGo, LineOf

\* In particular while the daemon stays up.
LEMMA MappedUp ==
    ASSUME NEW d, Daemons = {d}, pc[d] # "down", pc'[d] # "down"
    PROVE  /\ \A i : Lifecycle!Detect(i) <=>
                /\ i \notin Keys(queueFile) \cup doneFile \cup {job[d].key}
                /\ LineOf(queueFile') = Append(LineOf(queueFile), i)
                /\ Attempts(queueFile', job'[d]) = Attempts(queueFile, job[d])
                /\ job'[d].key = job[d].key /\ doneFile' = doneFile
           /\ Lifecycle!Launch <=>
                /\ job[d].key = NoIssue /\ LineOf(queueFile) # <<>>
                /\ job'[d].key = Head(LineOf(queueFile)) /\ LineOf(queueFile') = Tail(LineOf(queueFile))
                /\ Attempts(queueFile', job'[d]) = Attempts(queueFile, job[d]) /\ doneFile' = doneFile
<1>1. TheDaemon = d /\ Lifecycle!Waiting = Keys(queueFile)
  BY DEF TheDaemon, Lifecycle!Waiting, LineOf, Keys
<1> QED
  BY <1>1 DEF Lifecycle!Detect, Lifecycle!Launch, LineOf, Attempts

\* What a lone daemon holds, between its steps.
LEMMA LoneHolds ==
    ASSUME FleetInv, NEW d, Daemons = {d}, Lone(d)
    PROVE  /\ d \in Procs /\ queueFile \in SoundQueues /\ doneFile \in SUBSET Issues
           /\ job[d] \in BudgetItem \cup {NoJob} /\ job[d].key \notin Keys(queueFile)
           /\ pc[d] # "down" => queue[d] = queueFile /\ done[d] = doneFile
           /\ ~Busy(d) => job[d] = NoJob /\ job[d].key = NoIssue
           /\ Busy(d) => /\ job[d] \in BudgetItem /\ job[d].key \in Issues /\ pc[d] # "down"
<1>1. d \in Procs
  BY DEF Procs
<1>2. /\ queueFile \in SoundQueues /\ doneFile \in SUBSET Issues
      /\ Busy(d) => /\ job[d] \in BudgetItem /\ job[d].key \in Issues
                    /\ job[d].key \notin Keys(queue[d])
  BY <1>1, Held
<1>3. /\ pc[d] # "down" => queue[d] = queueFile /\ done[d] = doneFile
      /\ ~Busy(d) => job[d] = NoJob
      /\ Busy(d) => pc[d] # "down"
  BY DEF Lone, Busy, MemoryMatchesFile
<1>4. NoJob.key \notin Keys(queueFile) /\ NoJob.key = NoIssue
  BY <1>2, LineType, FleetAssumption DEF NoJob, NoIssue
<1> QED
  BY <1>1, <1>2, <1>3, <1>4

\* Nothing the life cycle speaks of is touched but that the daemon comes up, or
\* goes down with no issue in hand.
LEMMA StaysPut ==
    ASSUME NEW d, Daemons = {d}, job'[d] = job[d],
           UNCHANGED <<queueFile, doneFile>>,
           \/ (pc'[d] # "down") = (pc[d] # "down")
           \/ pc[d] = "down"
           \/ job[d].key = NoIssue
    PROVE  Lifecycle!Next \/ UNCHANGED Lifecycle!vars
<1> DEFINE was == pc[d] # "down"
           is == pc'[d] # "down"
           line == LineOf(queueFile)
           tries == Attempts(queueFile, job[d])
<1>1. /\ was \in BOOLEAN /\ is \in BOOLEAN
      /\ LineOf(queueFile') = line /\ Attempts(queueFile', job'[d]) = tries
      /\ was = is \/ ~was \/ job[d].key = NoIssue
  OBVIOUS
<1>2. /\ Lifecycle!vars = <<was, line, tries, job[d].key, doneFile>>
      /\ Lifecycle!vars' = <<is, line, tries, job[d].key, doneFile>>
      /\ Lifecycle!Begin <=> ~was /\ is
      /\ Lifecycle!End <=> was /\ ~is /\ job[d].key = NoIssue
  <2>1. TheDaemon = d
    BY DEF TheDaemon
  <2> HIDE DEF was, is
  <2>2. /\ Lifecycle!vars = <<was, line, tries, job[d].key, doneFile>>
        /\ Lifecycle!vars' = <<is, line, tries, job[d].key, doneFile>>
    BY <1>1, <2>1 DEF was, is, Lifecycle!vars, LineOf, Attempts
  <2>3. /\ Lifecycle!Begin <=> ~was /\ is
        /\ Lifecycle!End <=> was /\ ~is /\ job[d].key = NoIssue
    BY <1>1, <2>1 DEF was, is, Lifecycle!Begin, Lifecycle!End, LineOf, Attempts
  <2> QED
    BY <2>2, <2>3
<1> HIDE DEF was, is, line, tries
<1>3. CASE was = is
  BY <1>2, <1>3
<1>4. CASE was # is
  <2>1. CASE ~was /\ is
    <3>1. Lifecycle!Begin
      BY <1>2, <2>1
    <3> QED
      BY <3>1 DEF Lifecycle!Next, Lifecycle!DocumentedNext
  <2>2. CASE was /\ ~is
    <3>1. job[d].key = NoIssue
      BY <1>1, <2>2
    <3>2. Lifecycle!End
      BY <1>2, <2>2, <3>1
    <3> QED
      BY <3>2 DEF Lifecycle!Next, Lifecycle!DocumentedNext
  <2> QED
    BY <1>1, <1>4, <2>1, <2>2
<1> QED
  BY <1>3, <1>4

\* The daemon lets go of its issue: settled, queued once more, lost because it
\* goes down, or forgotten with the budget spent.
LEMMA LetsGo ==
    ASSUME FleetInv, NEW d, Daemons = {d}, Lone(d), Busy(d), job'[d] = NoJob,
           \/ /\ UNCHANGED <<queueFile, doneFile>>
              /\ pc'[d] = "down" \/ (pc'[d] # "down" /\ job[d].attempts >= MaxRetries)
           \/ /\ pc'[d] # "down"
              /\ UNCHANGED queueFile /\ doneFile' = doneFile \cup {job[d].key}
           \/ /\ pc'[d] # "down"
              /\ job[d].attempts < MaxRetries /\ UNCHANGED doneFile
              /\ queueFile' = RetryEnqueue(queueFile, job[d])
    PROVE  Lifecycle!Next
<1> DEFINE item == job[d]
           is == pc'[d] # "down"
<1>1. /\ queueFile \in SoundQueues /\ item \in BudgetItem /\ item.key \in Issues
      /\ item.key \notin Keys(queueFile) /\ pc[d] # "down" /\ is \in BOOLEAN
  BY LoneHolds
<1>2. NoJob.key = NoIssue /\ item.key # NoIssue
  BY <1>1, FleetAssumption DEF NoJob, NoIssue
<1>3. /\ \A i \in Issues : TriesOf(queueFile, NoJob, i)
            = IF i = item.key THEN 0 ELSE TriesOf(queueFile, item, i)
      /\ TriesOf(queueFile, item, item.key) = item.attempts
  BY <1>1, TriesAre, Forgotten
<1> HIDE DEF item
<1>4. /\ Attempts(queueFile, NoJob) = [Attempts(queueFile, item) EXCEPT ![item.key] = 0]
      /\ Attempts(queueFile, item)[item.key] = item.attempts
  BY <1>1, <1>3 DEF Attempts
<1> HIDE DEF is
<1>5. CASE UNCHANGED <<queueFile, doneFile>> /\ (~is \/ item.attempts >= MaxRetries)
  <2>1. CASE ~is
    <3>1. Lifecycle!Lose
      BY <1>1, <1>2, <1>4, <1>5, <2>1, Mapped DEF item, is
    <3> QED
      BY <3>1 DEF Lifecycle!Next, Lifecycle!DocumentedNext
  <2>2. CASE is /\ item.attempts >= MaxRetries
    <3>1. Lifecycle!Abandon
      BY <1>1, <1>2, <1>4, <1>5, <2>2, Mapped DEF item, is
    <3> QED
      BY <3>1 DEF Lifecycle!Next
  <2> QED
    BY <1>1, <1>5, <2>1, <2>2
<1>6. CASE is /\ UNCHANGED queueFile /\ doneFile' = doneFile \cup {item.key}
  <2>1. Lifecycle!Settle
    BY <1>1, <1>2, <1>4, <1>6, Mapped DEF item, is
  <2> QED
    BY <2>1 DEF Lifecycle!Next, Lifecycle!DocumentedNext
<1>7. CASE /\ is /\ item.attempts < MaxRetries /\ UNCHANGED doneFile
           /\ queueFile' = RetryEnqueue(queueFile, item)
  <2> DEFINE again == [item EXCEPT !.attempts = @ + 1]
  <2>1. again \in BudgetItem /\ again.key = item.key /\ again.attempts = item.attempts + 1
    BY <1>1, <1>7, RetriedItem DEF BudgetItem
  <2>2. queueFile' = Enqueue(queueFile, again)
    BY <1>7 DEF RetryEnqueue
  <2> HIDE DEF again
  <2>3. /\ queueFile' = Append(queueFile, again)
        /\ LineOf(queueFile') = Append(LineOf(queueFile), item.key)
        /\ \A i \in Issues : TriesOf(queueFile', NoJob, i)
              = IF i = item.key THEN item.attempts + 1 ELSE TriesOf(queueFile, NoJob, i)
    <3>1. again.key \notin Keys(queueFile)
      BY <1>1, <2>1, <2>2
    <3>2. /\ Enqueue(queueFile, again) = Append(queueFile, again)
          /\ LineOf(Append(queueFile, again)) = Append(LineOf(queueFile), again.key)
          /\ \A j \in Issues : TriesOf(Append(queueFile, again), NoJob, j)
                = IF j = again.key THEN again.attempts ELSE TriesOf(queueFile, NoJob, j)
      BY <1>1, <2>1, <3>1, Joins
    <3> QED
      BY <2>1, <2>2, <3>2
  <2>4. Attempts(queueFile', NoJob)
          = [Attempts(queueFile, item) EXCEPT ![item.key] = Attempts(queueFile, item)[item.key] + 1]
    BY <1>1, <1>3, <2>3 DEF Attempts
  <2>5. Lifecycle!Retry
    <3>1. Lifecycle!Retry <=>
            /\ is = TRUE
            /\ item.key # NoIssue /\ Attempts(queueFile, item)[item.key] < MaxRetries
            /\ LineOf(queueFile') = Append(LineOf(queueFile), item.key) /\ NoJob.key = NoIssue
            /\ Attempts(queueFile', NoJob) = [Attempts(queueFile, item) EXCEPT
                                                ![item.key] = Attempts(queueFile, item)[item.key] + 1]
            /\ doneFile' = doneFile
      <4>1. TheDaemon = d /\ pc[d] # "down"
        BY <1>1 DEF TheDaemon
      <4> QED
        BY <4>1 DEF item, is, Lifecycle!Retry, Lifecycle!LetGo, LineOf, Attempts
    <3>2. is = TRUE /\ item.key # NoIssue /\ NoJob.key = NoIssue /\ doneFile' = doneFile
      BY <1>1, <1>2, <1>7
    <3>3. Attempts(queueFile, item)[item.key] < MaxRetries
      BY <1>4, <1>7
    <3>4. LineOf(queueFile') = Append(LineOf(queueFile), item.key)
      BY <2>3
    <3> QED
      BY ZenonT(30), <2>4, <3>1, <3>2, <3>3, <3>4
  <2> QED
    BY <2>5 DEF Lifecycle!Next, Lifecycle!DocumentedNext
<1> QED
  BY <1>5, <1>6, <1>7 DEF item, is

LEMMA TickFollows ==
    ASSUME FleetInv, NEW d, Daemons = {d}, Lone(d), Tick(d)
    PROVE  Lifecycle!Next \/ UNCHANGED Lifecycle!vars
<1> USE LoneHolds
<1>1. CASE TickPaused(d) \/ TickPoll(d) \/ DrainNothing(d) \/ Execute(d) \/ FinishTick(d) \/ Unwind(d)
  <2>1. UNCHANGED <<queueFile, doneFile>>
    BY <1>1 DEF TickPaused, TickPoll, DrainNothing, Execute, FinishTick, Unwind, files
  <2>2. CASE TickPoll(d) \/ Execute(d)
    <3>1. job'[d] = job[d] /\ pc[d] # "down" /\ pc'[d] # "down"
      BY <2>2 DEF TickPoll, Execute, FleetInv, Settings
    <3> QED
      BY <2>1, <3>1, StaysPut
  <2>3. CASE TickPaused(d) \/ DrainNothing(d) \/ FinishTick(d) \/ Unwind(d)
    <3>1. ~Busy(d)
      BY <2>3 DEF TickPaused, DrainNothing, Polled, FinishTick, Unwind, Busy
    <3>2. job'[d] = NoJob
      BY <2>3 DEF TickPaused, DrainNothing, FinishTick, Unwind, Settle, Leave, FleetInv, JobsSound
    <3> QED
      BY <2>1, <3>1, <3>2, StaysPut
  <2> QED
    BY <1>1, <2>2, <2>3
<1>2. ASSUME NEW i \in Issues, PollEnqueue(d, i) PROVE Lifecycle!Next
  <2> DEFINE item == [key |-> i, attempts |-> 0]
  <2>1. item \in BudgetItem /\ item.key = i /\ item.attempts = 0
    BY Budget DEF BudgetItem
  <2>2. /\ queueFile' = Enqueue(queueFile, item) /\ job'[d] = job[d] /\ UNCHANGED doneFile
        /\ job[d] = NoJob /\ i \notin Keys(queueFile) \cup doneFile \cup {job[d].key}
        /\ pc[d] = "polling" /\ pc' = pc
    BY <1>2 DEF PollEnqueue, SaveQueue, ShouldSkip, Busy
  <2> HIDE DEF item
  <2>3. /\ queueFile' = Append(queueFile, item)
        /\ LineOf(queueFile') = Append(LineOf(queueFile), i)
        /\ \A j \in Issues : TriesOf(queueFile', NoJob, j)
              = IF j = i THEN 0 ELSE TriesOf(queueFile, NoJob, j)
    <3>1. item.key \notin Keys(queueFile)
      BY <2>1, <2>2
    <3>2. /\ Enqueue(queueFile, item) = Append(queueFile, item)
          /\ LineOf(Append(queueFile, item)) = Append(LineOf(queueFile), item.key)
          /\ \A j \in Issues : TriesOf(Append(queueFile, item), NoJob, j)
                = IF j = item.key THEN item.attempts ELSE TriesOf(queueFile, NoJob, j)
      BY <2>1, <3>1, Joins
    <3> QED
      BY <2>1, <2>2, <3>2
  <2>4. TriesOf(queueFile, NoJob, i) = 0
    BY <2>2, TriesAre
  <2>5. Attempts(queueFile', NoJob) = Attempts(queueFile, NoJob)
    BY <2>3, <2>4 DEF Attempts
  <2>6. Lifecycle!Detect(i)
    <3>1. Lifecycle!Detect(i) <=>
            /\ i \notin Keys(queueFile) \cup doneFile \cup {job[d].key}
            /\ LineOf(queueFile') = Append(LineOf(queueFile), i)
            /\ Attempts(queueFile', job[d]) = Attempts(queueFile, job[d])
            /\ doneFile' = doneFile
      BY <2>2, MappedUp
    <3> QED
      BY <2>2, <2>3, <2>5, <3>1
  <2> QED
    BY <2>6 DEF Lifecycle!Next, Lifecycle!DocumentedNext
<1>3. CASE DrainOne(d)
  <2>1. /\ queueFile # <<>> /\ queueFile' = Tail(queueFile) /\ UNCHANGED doneFile
        /\ job[d] = NoJob /\ job'[d] = Head(queueFile)
        /\ pc[d] # "down" /\ pc'[d] # "down"
    BY <1>3 DEF DrainOne, Polled, Take, SaveQueue, FleetInv, Settings, JobsSound, Busy
  <2>2. /\ LineOf(queueFile) # <<>> /\ Head(LineOf(queueFile)) = Head(queueFile).key
        /\ LineOf(queueFile') = Tail(LineOf(queueFile))
        /\ \A i \in Issues : TriesOf(queueFile', Head(queueFile), i) = TriesOf(queueFile, NoJob, i)
    BY <2>1, Launches
  <2>3. Attempts(queueFile', Head(queueFile)) = Attempts(queueFile, NoJob)
    BY <2>2 DEF Attempts
  <2>4. Lifecycle!Launch
    <3>1. Lifecycle!Launch <=>
            /\ NoJob.key = NoIssue /\ LineOf(queueFile) # <<>>
            /\ job'[d].key = Head(LineOf(queueFile)) /\ LineOf(queueFile') = Tail(LineOf(queueFile))
            /\ Attempts(queueFile', job'[d]) = Attempts(queueFile, NoJob) /\ doneFile' = doneFile
      BY <2>1, MappedUp
    <3> QED
      BY <2>1, <2>2, <2>3, <3>1 DEF NoJob
  <2> QED
    BY <2>4 DEF Lifecycle!Next, Lifecycle!DocumentedNext
<1>4. CASE MarkProcessed(d) \/ RetryLater(d)
  <2>1. /\ Busy(d) /\ job'[d] = NoJob /\ pc'[d] # "down"
    BY <1>4 DEF MarkProcessed, RetryLater, LetGo, Busy, FleetInv, Settings, JobsSound
  <2> QED
    BY <1>4, <2>1, LetsGo DEF MarkProcessed, RetryLater, SaveDone, SaveQueue, Busy
<1> QED
  BY <1>1, <1>2, <1>3, <1>4 DEF Tick

LEMMA FailureFollows ==
    ASSUME FleetInv, NEW d, Daemons = {d}, Lone(d), Fails(d)
    PROVE  Lifecycle!Next \/ UNCHANGED Lifecycle!vars
<1> USE LoneHolds
<1>1. CASE PollFails(d) \/ Crash(d) \/ Interrupt(d)
  <2>1. job'[d] = NoJob /\ pc'[d] = "down" /\ UNCHANGED <<queueFile, doneFile>>
    BY <1>1 DEF PollFails, Crash, Interrupt, Leave, Gone, files, FleetInv, Settings, JobsSound
  <2>2. CASE Busy(d)
    BY <2>1, <2>2, LetsGo
  <2>3. CASE ~Busy(d)
    BY <2>1, <2>3, StaysPut
  <2> QED
    BY <2>2, <2>3
<1>2. CASE IssueRaises(d)
  <2>1. /\ Busy(d) /\ job'[d] = NoJob /\ pc'[d] # "down"
    BY <1>2 DEF IssueRaises, LetGo, Busy, FleetInv, Settings, JobsSound
  <2>2. job[d].attempts \in Nat /\ MaxRetries \in Nat
    BY <2>1, Budget, FleetAssumption DEF BudgetItem
  <2> QED
    BY <1>2, <2>1, <2>2, LetsGo DEF IssueRaises, SaveQueue, Busy
<1> QED
  BY <1>1, <1>2 DEF Fails

LEMMA StepFollows ==
    ASSUME FleetInv, NEW d, Daemons = {d}, Lone(d), [Next]_vars, [OnlyRead]_vars
    PROVE  [Lifecycle!Next]_(Lifecycle!vars)
<1>1. CASE Start(d) \/ (UNCHANGED <<queueFile, doneFile, statusFile>> /\ Unmoved(d))
  BY <1>1, StaysPut DEF Start, Unmoved
<1>2. CASE Tick(d) \/ Fails(d)
  BY <1>2, TickFollows, FailureFollows
<1> QED
  BY <1>1, <1>2, WhoseStep

\* One daemon with its files, its polling, its crashes and its restarts gives
\* each issue the life of IssueLifecycle: the queue file is the line, and no step
\* of the daemon does what the life cycle does not know.  An operator who pauses
\* and resumes it, or whose command comes to nothing, changes no issue's life.
\* The life cycle is the code's; the one that the documentation promises lacks
\* Abandon, and the code does not implement that.
THEOREM FleetFollowsLifecycle ==
    ASSUME NEW d, Daemons = {d} PROVE Spec /\ ClientsOnlyRead => FollowsLifecycle
<1>1. Init => Lifecycle!Init
  <2> SUFFICES ASSUME Init PROVE Lifecycle!Init
    OBVIOUS
  <2>1. queueFile = <<>> /\ doneFile = {} /\ job[d] = NoJob /\ pc[d] = "down"
    BY DEF Init, Procs, Gone
  <2>2. NoJob.key = NoIssue /\ NoIssue \notin Issues /\ LineOf(<<>>) = <<>> /\ ToSet(<<>>) = {}
    BY FleetAssumption DEF NoJob, NoIssue, LineOf, ToSet
  <2>3. Attempts(<<>>, NoJob) = [i \in Issues |-> 0]
    BY <2>2, EmptySound, TriesAre DEF Attempts
  <2> QED
    BY <2>1, <2>2, <2>3, Mapped
<1>2. FleetInv /\ Lone(d) /\ [Next]_vars /\ [OnlyRead]_vars => [Lifecycle!Next]_(Lifecycle!vars)
  BY StepFollows
<1> QED
  BY <1>1, <1>2, FleetIsSound, LoneDaemon, PTL
     DEF Spec, ClientsOnlyRead, FollowsLifecycle, Lifecycle!Spec

\* So does the daemon that the documentation describes, which has no clients.
THEOREM FleetAloneFollowsLifecycle ==
    ASSUME Clients = {}, NEW d, Daemons = {d} PROVE Spec => FollowsLifecycle
BY FleetFollowsLifecycle, NoClientWrites, PTL

=========================================================================
