--------------------------- MODULE Orchestrator ---------------------------
(***************************************************************************)
(* The workflow orchestrator (runtime/orchestrator/engineering.py) with    *)
(* the sessions, the dispatcher and the agent life cycle it drives.  The   *)
(* runs of one runtime follow one another on the same agent objects; a     *)
(* cancellation, of the run's token or of an agent, may come between any   *)
(* two steps.                                                              *)
(*                                                                         *)
(* No code under src/ subscribes to the event bus, so publishing has no    *)
(* effect here.  An agent's work is one choice: it succeeds, fails, or     *)
(* raises.                                                                 *)
(***************************************************************************)
EXTENDS Naturals, SequencesExt

CONSTANTS
    Runs,             \* run_workflow calls, made in their order
    Recommendations,  \* what a recovery agent may recommend, NoStage included
    MaxSteps,         \* max_steps of the constructor
    MaxFaults         \* bound: failures, exceptions and cancellations

NoStage == "no stage"

\* DEFAULT_STAGE_ORDER; Retry, Escalate, Failed and Cancelled are not in it.
StageOrder == <<
    "Receive Repository", "Receive Issue", "Understand Issue", "Collect Context",
    "Repository Search", "Read Relevant Files", "Analyze Root Cause",
    "Create Engineering Plan", "Generate Patch", "Apply Changes", "Validate",
    "Run Tests", "Decision Point", "Review", "Completed">>
Terminal == {"Completed", "Failed", "Cancelled", "Escalate"}
Stages == ToSet(StageOrder) \cup Terminal \cup {"Retry"}

ASSUME OrchestratorAssumption ==
    /\ Runs \subseteq Nat /\ MaxSteps \in Nat \ {0} /\ MaxFaults \in Nat
    /\ NoStage \in Recommendations /\ Recommendations \subseteq Stages \cup {NoStage}

VARIABLES
    recovery,   \* whether an agent for the stage Retry was registered as well
    at,         \* where the run in progress stands
    run,        \* the run in progress, or the last one
    sessions,   \* SessionManager._sessions
    steps,      \* iterations of the loop so far
    cancelled,  \* the run's cancellation token
    stopped,    \* agents with _cancel_requested set
    returned,   \* what run did: nothing yet, a summary, an exception
    passed,     \* history: stages of each run an agent completed
    late,       \* history: agents that finished their stage after the cancellation
    faults      \* faults so far

ovars == <<recovery, at, run, sessions, steps, cancelled, stopped, returned,
          passed, late, faults>>

-------------------------------------------------------------------------
\* The agents of discover_agent_types and the stages each supports.
CoreAgents == {"repository_context", "issue_understanding", "planning",
               "validation", "review_generation"}
Agents == CoreAgents \cup {"recovery"}
Supports(a) ==
    CASE a = "repository_context" -> {"Receive Repository", "Collect Context",
                                      "Repository Search", "Read Relevant Files"}
      [] a = "issue_understanding" -> {"Receive Issue", "Understand Issue"}
      [] a = "planning" -> {"Analyze Root Cause", "Create Engineering Plan",
                            "Generate Patch", "Apply Changes"}
      [] a = "validation" -> {"Validate", "Run Tests", "Decision Point"}
      [] a = "review_generation" -> {"Review"}
      [] a = "recovery" -> {"Retry"}
Registered == IF recovery THEN Agents ELSE CoreAgents

\* _select_agent: no two registered agents support one stage.
Candidates(stage) == {a \in Registered : stage \in Supports(a)}

\* A context: what the summary reports and the steps depend on.
Created == [stage |-> "Receive Repository", state |-> "created", retries |-> 0,
            agent |-> "none", artifacts |-> 0]
Absent == [context |-> Created, open |-> FALSE]
WithStage(c, stage, state) == [c EXCEPT !.stage = stage, !.state = state]
Context == sessions[run].context

StateFor(stage) ==
    CASE stage = "Retry" -> "retrying"
      [] stage = "Escalate" -> "escalating"
      [] stage = "Completed" -> "completed"
      [] stage = "Failed" -> "failed"
      [] stage = "Cancelled" -> "cancelled"
      [] OTHER -> "running"

Position(stage) == CHOOSE n \in DOMAIN StageOrder : StageOrder[n] = stage

\* The stage after a success: the recommended one, else the next in the order.
\* Mutant: one stage is passed over.
NextStageSkips(stage, recommended) ==
    IF recommended # NoStage THEN recommended
    ELSE IF stage \in {"Review", "Completed"} THEN "Completed"
    ELSE StageOrder[Position(stage) + 2]
NextStage(stage, recommended) ==
    IF recommended # NoStage THEN recommended
    ELSE IF stage = "Completed" THEN stage
    ELSE StageOrder[Position(stage) + 1]
\* An agent of a stage outside the order must recommend one.
HasNext(stage, recommended) == recommended # NoStage \/ stage \in ToSet(StageOrder)

\* The first failure is routed to Retry, the next to Escalate.
HandleFailure(c) ==
    IF c.retries = 0 THEN WithStage([c EXCEPT !.retries = 1], "Retry", "retrying")
    ELSE WithStage(c, "Escalate", "escalating")

\* Mutant: the artifacts of the result are dropped.
AfterSuccessOnly(c, recommended) ==
    LET next == NextStage(c.stage, recommended)
    IN  [WithStage(c, next, StateFor(next)) EXCEPT !.agent = "none"]
AfterSuccess(c, recommended) ==
    LET next == NextStage(c.stage, recommended)
    IN  [WithStage(c, next, StateFor(next)) EXCEPT !.agent = "none", !.artifacts = @ + 1]

-------------------------------------------------------------------------
OrchestratorInit ==
    /\ recovery \in BOOLEAN
    /\ at = "idle" /\ run = 0 /\ steps = 0 /\ cancelled = FALSE
    /\ sessions = [r \in Runs |-> Absent]
    /\ stopped = {} /\ late = 0 /\ faults = 0
    /\ returned = [r \in Runs |-> "nothing"]
    /\ passed = [r \in Runs |-> {}]

Fault == faults < MaxFaults /\ faults' = faults + 1

\* Save a context in the session of the run; update_context refuses it once
\* the session is closed.
Update(c) ==
    /\ sessions[run].open
    /\ sessions' = [sessions EXCEPT ![run].context = c]

\* The end of run: one last update, the session closed, a summary or an
\* exception.  Mutant: an exception leaves the session open.
ConcludeSummary(c, how) ==
    /\ sessions[run].open
    /\ sessions' = [sessions EXCEPT ![run] = [context |-> c, open |-> how = "raised"]]
    /\ returned' = [returned EXCEPT ![run] = how]
    /\ at' = "idle" /\ steps' = 0 /\ late' = 0
    /\ UNCHANGED <<recovery, run, cancelled, stopped, passed>>
Conclude(c, how) ==
    /\ sessions[run].open
    /\ sessions' = [sessions EXCEPT ![run] = [context |-> c, open |-> FALSE]]
    /\ returned' = [returned EXCEPT ![run] = how]
    /\ at' = "idle" /\ steps' = 0 /\ late' = 0
    /\ UNCHANGED <<recovery, run, cancelled, stopped, passed>>

\* The except clauses of run: the context they save is the one run was called
\* with, whatever the loop has saved since.
ConcludeCancelled == Conclude(WithStage(Created, "Cancelled", "cancelled"), "summary")
ConcludeFailed(how) == Conclude(WithStage(Created, "Failed", "failed"), how)

\* create_session, and the head of _run_loop.  The context is a new one with
\* a token of its own.
BeginRun(r) ==
    /\ at = "idle" /\ returned[r] = "nothing"
    /\ \A q \in Runs : q < r => returned[q] # "nothing"
    /\ run' = r /\ steps' = 0 /\ cancelled' = FALSE /\ late' = 0
    /\ sessions' = [sessions EXCEPT ![r] =
           [context |-> [Created EXCEPT !.state = "running"], open |-> TRUE]]
    /\ at' = "top"
    /\ UNCHANGED <<recovery, stopped, returned, passed, faults>>

AtTopOnceMore == at = "top" /\ steps <= MaxSteps                   \* mutant
AtTop == at = "top" /\ steps < MaxSteps

\* throw_if_cancelled, in the loop and again in the dispatcher.
StopCancelled ==
    /\ AtTop \/ at = "dispatch"
    /\ cancelled
    /\ ConcludeCancelled
    /\ UNCHANGED faults

\* Mutant: the stage is looked at before the token.
ReachTerminalFirst ==
    /\ AtTop /\ Context.stage \in Terminal
    /\ Conclude(Context, "summary")
    /\ UNCHANGED faults
\* A terminal stage; only Completed is given its state again.  The last look at
\* the token and the return are one step: a cancellation in between comes too
\* late to be seen, and counts as one after the run.
ReachTerminal ==
    /\ AtTop /\ ~cancelled /\ Context.stage \in Terminal
    /\ Conclude(Context, "summary")
    /\ UNCHANGED faults

\* WorkflowException leaves run after the session is closed.
NobodySupports ==
    /\ AtTop /\ ~cancelled
    /\ Context.stage \notin Terminal /\ Candidates(Context.stage) = {}
    /\ ConcludeFailed("raised")
    /\ UNCHANGED faults

\* Mutant: the loop is left without a word.
LeaveLoop ==
    /\ at = "top" /\ steps = MaxSteps /\ at' = "idle"
    /\ UNCHANGED <<recovery, run, sessions, steps, cancelled, stopped, returned,
                   passed, late, faults>>
ExceedSteps ==
    /\ at = "top" /\ steps = MaxSteps
    /\ ConcludeFailed("raised")
    /\ UNCHANGED faults

SelectAgent ==
    /\ AtTop /\ ~cancelled /\ Context.stage \notin Terminal
    /\ \E a \in Candidates(Context.stage) : Update([Context EXCEPT !.agent = a])
    /\ steps' = steps + 1
    /\ at' = "dispatch"
    /\ UNCHANGED <<recovery, run, cancelled, stopped, returned, passed, late, faults>>

Dispatch ==
    /\ at = "dispatch" /\ ~cancelled
    /\ at' = "agent"
    /\ UNCHANGED <<recovery, run, sessions, steps, cancelled, stopped, returned,
                   passed, late, faults>>

\* EngineeringAgent.execute, up to perform.
BeginWork ==
    /\ at = "agent" /\ ~cancelled /\ Context.agent \notin stopped
    /\ at' = "perform"
    /\ UNCHANGED <<recovery, run, sessions, steps, cancelled, stopped, returned,
                   passed, late, faults>>

\* An exception that is not an agent's own leaves execute, the token's
\* included: the dispatcher wraps it, and the loop returns what
\* _handle_failure makes of it.
DispatchFails ==
    /\ \/ at = "agent" /\ cancelled /\ UNCHANGED faults
       \/ at = "perform" /\ Fault
    /\ Conclude(HandleFailure(Context), "summary")

\* A result that is not a success: from an agent once cancelled, whatever the
\* run, or from an AgentExecutionException.  The loop goes on.
ResultFails ==
    /\ \/ at = "agent" /\ ~cancelled /\ Context.agent \in stopped /\ UNCHANGED faults
       \/ at = "perform" /\ Fault
    /\ Update(HandleFailure(Context))
    /\ at' = "top"
    /\ UNCHANGED <<recovery, run, steps, cancelled, stopped, returned, passed, late>>

\* Core agents recommend nothing.
ResultSucceeds(recommended) ==
    /\ at = "perform"
    /\ Context.agent # "recovery" => recommended = NoStage
    /\ HasNext(Context.stage, recommended)
    /\ Update(AfterSuccess(Context, recommended))
    /\ passed' = [passed EXCEPT ![run] = @ \cup {Context.stage}]
    /\ late' = IF cancelled THEN late + 1 ELSE late
    /\ at' = "top"
    /\ UNCHANGED <<recovery, run, steps, cancelled, stopped, returned, faults>>

ResultLeadsNowhere ==
    /\ at = "perform" /\ ~HasNext(Context.stage, NoStage)
    /\ ConcludeFailed("raised")
    /\ UNCHANGED faults

-------------------------------------------------------------------------
\* CancellationToken.cancel and EngineeringAgent.cancel, called from outside.
CancelRun ==
    /\ at # "idle" /\ ~cancelled /\ Fault
    /\ cancelled' = TRUE
    /\ UNCHANGED <<recovery, at, run, sessions, steps, stopped, returned, passed, late>>

CancelAgent(a) ==
    /\ a \in Registered \ stopped /\ Fault
    /\ stopped' = stopped \cup {a}
    /\ UNCHANGED <<recovery, at, run, sessions, steps, cancelled, returned, passed, late>>

Advances ==
    \/ StopCancelled \/ ReachTerminal \/ NobodySupports \/ ExceedSteps
    \/ SelectAgent \/ Dispatch \/ BeginWork \/ DispatchFails \/ ResultFails
    \/ \E recommended \in Recommendations : ResultSucceeds(recommended)
    \/ ResultLeadsNowhere

OrchestratorNext ==
    \/ \E r \in Runs : BeginRun(r)
    \/ Advances
    \/ CancelRun \/ \E a \in Agents : CancelAgent(a)

OrchestratorSpec == OrchestratorInit /\ [][OrchestratorNext]_ovars

\* Every step of a run is straight-line code of one thread.
OrchestratorFairSpec == OrchestratorSpec /\ WF_ovars(Advances)

-------------------------------------------------------------------------
Contexts == [stage : Stages, state : {"created", "running", "retrying", "escalating",
                                      "completed", "failed", "cancelled"},
             retries : {0, 1}, agent : Agents \cup {"none"}, artifacts : Nat]

OrchestratorTypeOK ==
    /\ recovery \in BOOLEAN /\ cancelled \in BOOLEAN
    /\ at \in {"idle", "top", "dispatch", "agent", "perform"}
    /\ run \in Runs \cup {0} /\ (at # "idle" => run \in Runs)
    /\ sessions \in [Runs -> [context : Contexts, open : BOOLEAN]]
    /\ steps \in 0 .. MaxSteps /\ late \in Nat /\ faults \in 0 .. MaxFaults
    /\ stopped \in SUBSET Agents
    /\ returned \in [Runs -> {"nothing", "summary", "raised"}]
    /\ passed \in [Runs -> SUBSET Stages]

\* Every way out of a run, the exceptional ones included, leaves its session
\* closed, and only the run in progress has one open.
SessionsClosed ==
    \A r \in Runs : sessions[r].open <=> (at # "idle" /\ r = run)

Concluded(r, state) == returned[r] = "summary" /\ sessions[r].context.state = state

\* A run that reports "completed", the one status the daemon takes for success,
\* had every stage done by its agent: all of them if nothing failed, else those
\* from the stage the recovery agent sent it back to.
Resumed(r) == IF sessions[r].context.retries = 0 THEN "Receive Repository"
              ELSE "Generate Patch"
CompletedIsEarned ==
    \A r \in Runs : Concluded(r, "completed") =>
        \A n \in Position(Resumed(r)) .. Len(StageOrder) - 1 :
            StageOrder[n] \in passed[r]

\* Whenever the cancellation comes, during the last stage even, the run is not
\* reported as completed and at most the agent at work finishes its stage.
CancellationHolds ==
    /\ late <= 1
    /\ cancelled /\ at = "idle" => returned[run] # "nothing" /\ ~Concluded(run, "completed")

\* A summary lists one artifact for each stage done, on every way out of the
\* loop; a summary of a run that was cancelled lists none, whatever was done.
SummaryCountsWork ==
    \A r \in Runs : returned[r] = "summary" =>
        IF sessions[r].context.stage = "Cancelled" THEN sessions[r].context.artifacts = 0
        ELSE sessions[r].context.artifacts >= Cardinality(passed[r])

\* Every run returns or raises, however its agents fail and whatever is
\* cancelled: one retry and the step limit leave no endless loop.
RunsEnd == at # "idle" ~> run \in Runs /\ returned[run] # "nothing"

=========================================================================
