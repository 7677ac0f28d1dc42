------------------------- MODULE OrchestratorProofs -------------------------
(***************************************************************************)
(* What holds of every sequence of runs of the orchestrator, for any       *)
(* number of runs, steps and faults and whatever a recovery agent          *)
(* recommends.                                                             *)
(***************************************************************************)
EXTENDS Orchestrator, FiniteSetTheorems, TLAPS

States == {"created", "running", "retrying", "escalating", "completed", "failed", "cancelled"}

LEMMA OrderFacts ==
    /\ DOMAIN StageOrder = 1 .. 15
    /\ \A n \in 1 .. 15 : StageOrder[n] \in Stages
    /\ StageOrder[15] = "Completed"
    /\ \A stage \in ToSet(StageOrder) : \E n \in 1 .. 15 : StageOrder[n] = stage
<1>1. DOMAIN StageOrder = 1 .. 15
  BY DEF StageOrder
<1>2. StageOrder[15] = "Completed"
  BY DEF StageOrder
<1>3. ToSet(StageOrder) = {StageOrder[n] : n \in 1 .. 15}
  BY <1>1 DEF ToSet
<1> QED
  BY <1>1, <1>2, <1>3 DEF Stages

LEMMA NextStageType ==
    ASSUME NEW stage, NEW recommended \in Recommendations, HasNext(stage, recommended)
    PROVE  NextStage(stage, recommended) \in Stages
<1>1. CASE recommended # NoStage
  BY <1>1, OrchestratorAssumption DEF NextStage
<1>2. CASE recommended = NoStage /\ stage = "Completed"
  BY <1>2 DEF NextStage, Stages, Terminal
<1>3. CASE recommended = NoStage /\ stage # "Completed"
  <2>1. Position(stage) \in 1 .. 15 /\ StageOrder[Position(stage)] = stage
    BY <1>3, OrderFacts DEF HasNext, Position
  <2>2. Position(stage) + 1 \in 1 .. 15
    BY <1>3, <2>1, OrderFacts
  <2> QED
    BY <1>3, <2>2, OrderFacts DEF NextStage
<1> QED
  BY <1>1, <1>2, <1>3

LEMMA ContextTypes ==
    /\ Created \in Contexts /\ [Created EXCEPT !.state = "running"] \in Contexts
    /\ WithStage(Created, "Cancelled", "cancelled") \in Contexts
    /\ WithStage(Created, "Failed", "failed") \in Contexts
    /\ \A c \in Contexts :
        /\ \A a \in Agents : [c EXCEPT !.agent = a] \in Contexts
        /\ HandleFailure(c) \in Contexts
        /\ \A recommended \in Recommendations :
            HasNext(c.stage, recommended) => AfterSuccess(c, recommended) \in Contexts
<1>1. "Receive Repository" \in Stages
  <2>1. StageOrder[1] = "Receive Repository"
    BY DEF StageOrder
  <2>2. \A n \in 1 .. 15 : StageOrder[n] \in Stages
    BY OrderFacts
  <2>3. 1 \in 1 .. 15
    OBVIOUS
  <2> QED
    BY <2>1, <2>2, <2>3
<1>2. {"Cancelled", "Failed", "Retry", "Escalate"} \subseteq Stages
  BY DEF Stages, Terminal
<1>3. /\ Created \in Contexts /\ [Created EXCEPT !.state = "running"] \in Contexts
      /\ WithStage(Created, "Cancelled", "cancelled") \in Contexts
      /\ WithStage(Created, "Failed", "failed") \in Contexts
  BY <1>1, <1>2 DEF Created, Contexts, WithStage
<1>4. ASSUME NEW c \in Contexts
      PROVE  (\A a \in Agents : [c EXCEPT !.agent = a] \in Contexts) /\ HandleFailure(c) \in Contexts
  BY <1>2 DEF Contexts, HandleFailure, WithStage
<1>5. ASSUME NEW c \in Contexts, NEW recommended \in Recommendations, HasNext(c.stage, recommended)
      PROVE  AfterSuccess(c, recommended) \in Contexts
  <2>1. NextStage(c.stage, recommended) \in Stages
    BY <1>5, NextStageType
  <2>2. \A stage : StateFor(stage) \in States
    BY DEF StateFor, States
  <2> DEFINE next == NextStage(c.stage, recommended)
             onward == WithStage(c, next, StateFor(next))
  <2>3. onward \in Contexts /\ AfterSuccess(c, recommended) = [onward EXCEPT !.agent = "none", !.artifacts = @ + 1]
    <3>1. next \in Stages /\ StateFor(next) \in States
      BY <2>1, <2>2
    <3>2. AfterSuccess(c, recommended) = [onward EXCEPT !.agent = "none", !.artifacts = @ + 1]
      BY DEF AfterSuccess
    <3> HIDE DEF next
    <3> QED
      BY <3>1, <3>2 DEF WithStage, Contexts, States
  <2>4. ASSUME NEW d \in Contexts PROVE [d EXCEPT !.agent = "none", !.artifacts = @ + 1] \in Contexts
    <3>1. d.artifacts + 1 \in Nat /\ "none" \in Agents \cup {"none"}
      BY DEF Contexts
    <3> DEFINE more == d.artifacts + 1
    <3>2. [d EXCEPT !.agent = "none", !.artifacts = @ + 1] = [d EXCEPT !.agent = "none", !.artifacts = more]
      OBVIOUS
    <3> HIDE DEF more
    <3>3. more \in Nat
      BY <3>1 DEF more
    <3> QED
      BY <3>2, <3>3 DEF Contexts
  <2> HIDE DEF onward
  <2> QED
    BY <2>3, <2>4
<1> QED
  BY <1>3, <1>4, <1>5

LEMMA InProgress ==
    ASSUME OrchestratorTypeOK, at # "idle"
    PROVE  run \in Runs /\ Context \in Contexts
BY DEF OrchestratorTypeOK, Context

LEMMA ConcludeTypes ==
    ASSUME OrchestratorTypeOK, at # "idle", NEW c \in Contexts, NEW how \in {"summary", "raised"},
           Conclude(c, how), faults' \in 0 .. MaxFaults
    PROVE  OrchestratorTypeOK'
BY InProgress, OrchestratorAssumption DEF OrchestratorTypeOK, Conclude

LEMMA UpdateTypes ==
    ASSUME OrchestratorTypeOK, at # "idle", NEW c \in Contexts, Update(c)
    PROVE  sessions' \in [Runs -> [context : Contexts, open : BOOLEAN]]
BY InProgress DEF OrchestratorTypeOK, Update

\* The state is well typed after every step.
LEMMA OrchestratorTypesKept ==
    ASSUME OrchestratorTypeOK, [OrchestratorNext]_ovars PROVE OrchestratorTypeOK'
<1> USE OrchestratorAssumption
<1>1. ASSUME NEW r \in Runs, BeginRun(r) PROVE OrchestratorTypeOK'
  <2> DEFINE begun == [Created EXCEPT !.state = "running"]
  <2>1. begun \in Contexts /\ sessions' = [sessions EXCEPT ![r] = [context |-> begun, open |-> TRUE]]
    BY <1>1, ContextTypes DEF BeginRun
  <2> HIDE DEF begun
  <2>2. sessions' \in [Runs -> [context : Contexts, open : BOOLEAN]]
    BY <2>1 DEF OrchestratorTypeOK
  <2>3. /\ run' = r /\ steps' = 0 /\ cancelled' = FALSE /\ late' = 0 /\ at' = "top"
        /\ UNCHANGED <<recovery, stopped, returned, passed, faults>>
    BY <1>1 DEF BeginRun
  <2>4. steps' \in 0 .. MaxSteps /\ late' \in Nat /\ faults' \in 0 .. MaxFaults
    BY <2>3 DEF OrchestratorTypeOK
  <2>5. run' \in Runs /\ cancelled' \in BOOLEAN
    BY <2>3
  <2> QED
    BY <2>2, <2>3, <2>4, <2>5, Zenon DEF OrchestratorTypeOK
<1>2. CASE StopCancelled
  BY <1>2, ConcludeTypes, ContextTypes DEF StopCancelled, ConcludeCancelled, AtTop, OrchestratorTypeOK
<1>3. CASE ReachTerminal
  BY <1>3, ConcludeTypes, InProgress DEF ReachTerminal, AtTop, OrchestratorTypeOK
<1>4. CASE NobodySupports \/ ExceedSteps
  BY <1>4, ConcludeTypes, ContextTypes
     DEF NobodySupports, ExceedSteps, ConcludeFailed, AtTop, OrchestratorTypeOK
<1>5. CASE SelectAgent
  <2>1. PICK a \in Agents : Update([Context EXCEPT !.agent = a])
    BY <1>5 DEF SelectAgent, Candidates, Registered, Agents
  <2>2. sessions' \in [Runs -> [context : Contexts, open : BOOLEAN]]
    BY <1>5, <2>1, UpdateTypes, InProgress, ContextTypes DEF SelectAgent, AtTop
  <2> QED
    BY <1>5, <2>2 DEF SelectAgent, AtTop, OrchestratorTypeOK
<1>6. CASE Dispatch \/ BeginWork
  BY <1>6 DEF Dispatch, BeginWork, OrchestratorTypeOK
<1>7. CASE DispatchFails
  BY <1>7, ConcludeTypes, InProgress, ContextTypes DEF DispatchFails, Fault, OrchestratorTypeOK
<1>8. CASE ResultFails
  <2>1. at # "idle" /\ Update(HandleFailure(Context))
    BY <1>8 DEF ResultFails
  <2>2. sessions' \in [Runs -> [context : Contexts, open : BOOLEAN]]
    BY <2>1, UpdateTypes, InProgress, ContextTypes
  <2> QED
    BY <1>8, <2>2 DEF ResultFails, Fault, OrchestratorTypeOK
<1>9. ASSUME NEW recommended \in Recommendations, ResultSucceeds(recommended)
      PROVE  OrchestratorTypeOK'
  <2>1. /\ at # "idle" /\ Update(AfterSuccess(Context, recommended))
        /\ HasNext(Context.stage, recommended)
    BY <1>9 DEF ResultSucceeds
  <2>2. sessions' \in [Runs -> [context : Contexts, open : BOOLEAN]]
    BY <2>1, UpdateTypes, InProgress, ContextTypes
  <2>3. passed' \in [Runs -> SUBSET Stages]
    <3>1. Context.stage \in Stages /\ run \in Runs
      BY <2>1, InProgress DEF Contexts
    <3> QED
      BY <1>9, <3>1 DEF ResultSucceeds, OrchestratorTypeOK
  <2> QED
    BY <1>9, <2>1, <2>2, <2>3 DEF ResultSucceeds, OrchestratorTypeOK
<1>10. CASE ResultLeadsNowhere
  BY <1>10, ConcludeTypes, ContextTypes DEF ResultLeadsNowhere, ConcludeFailed, OrchestratorTypeOK
<1>11. CASE CancelRun
  BY <1>11 DEF CancelRun, Fault, OrchestratorTypeOK
<1>12. ASSUME NEW a \in Agents, CancelAgent(a) PROVE OrchestratorTypeOK'
  BY <1>12 DEF CancelAgent, Fault, OrchestratorTypeOK
<1>13. CASE UNCHANGED ovars
  BY <1>13 DEF ovars, OrchestratorTypeOK
<1> QED
  BY <1>1, <1>2, <1>3, <1>4, <1>5, <1>6, <1>7, <1>8, <1>9, <1>10, <1>11, <1>12, <1>13
     DEF OrchestratorNext, Advances

\* Every variable of the orchestrator keeps its type.
THEOREM OrchestratorTypeCorrect == OrchestratorSpec => []OrchestratorTypeOK
<1>1. OrchestratorInit => OrchestratorTypeOK
  <2> SUFFICES ASSUME OrchestratorInit PROVE OrchestratorTypeOK
    OBVIOUS
  <2>1. sessions \in [Runs -> [context : Contexts, open : BOOLEAN]]
    BY ContextTypes DEF OrchestratorInit, Absent
  <2>2. steps \in 0 .. MaxSteps /\ late \in Nat /\ faults \in 0 .. MaxFaults
    BY OrchestratorAssumption DEF OrchestratorInit
  <2> QED
    BY <2>1, <2>2 DEF OrchestratorInit, OrchestratorTypeOK
<1> QED
  BY <1>1, OrchestratorTypesKept, PTL DEF OrchestratorSpec

-------------------------------------------------------------------------
\* The session of a run is open exactly while the run is in progress.

LEMMA SessionsKept ==
    ASSUME OrchestratorTypeOK, SessionsClosed, [OrchestratorNext]_ovars PROVE SessionsClosed'
<1> USE DEF SessionsClosed, OrchestratorTypeOK
<1>1. ASSUME NEW r \in Runs, BeginRun(r) PROVE SessionsClosed'
  BY <1>1 DEF BeginRun
<1>2. ASSUME NEW c, NEW how, Conclude(c, how) PROVE SessionsClosed'
  BY <1>2 DEF Conclude
<1>3. ASSUME NEW c, Update(c), at # "idle", at' # "idle", run' = run PROVE SessionsClosed'
  BY <1>3 DEF Update
<1>4. CASE StopCancelled \/ ReachTerminal \/ NobodySupports \/ ExceedSteps \/ DispatchFails
           \/ ResultLeadsNowhere
  BY <1>2, <1>4 DEF StopCancelled, ConcludeCancelled, ReachTerminal, NobodySupports, ExceedSteps,
                    ConcludeFailed, DispatchFails, ResultLeadsNowhere
<1>5. CASE SelectAgent
  BY <1>3, <1>5 DEF SelectAgent, AtTop
<1>6. ASSUME NEW recommended \in Recommendations, ResultFails \/ ResultSucceeds(recommended)
      PROVE  SessionsClosed'
  BY <1>3, <1>6 DEF ResultFails, ResultSucceeds
<1>7. CASE UNCHANGED <<run, sessions>> /\ (at = "idle" <=> at' = "idle")
  BY <1>7
<1>8. CASE Dispatch \/ BeginWork \/ CancelRun \/ (\E a \in Agents : CancelAgent(a)) \/ UNCHANGED ovars
  BY <1>7, <1>8 DEF Dispatch, BeginWork, CancelRun, CancelAgent, ovars
<1> QED
  BY <1>1, <1>4, <1>5, <1>6, <1>8, OrchestratorAssumption DEF OrchestratorNext, Advances

\* No way out of a run, by whatever exception, leaves its session open.
THEOREM OrchestratorSessionsClosed == OrchestratorSpec => []SessionsClosed
<1>1. OrchestratorInit => SessionsClosed
  BY DEF OrchestratorInit, SessionsClosed, Absent
<1> QED
  BY <1>1, SessionsKept, OrchestratorTypeCorrect, PTL DEF OrchestratorSpec

-------------------------------------------------------------------------
\* What a run still has ahead of it: four steps for each iteration that is left
\* to the loop, and those of the iteration in progress.

Ahead(where) ==
    CASE where = "top" -> 1
      [] where = "perform" -> 2
      [] where = "agent" -> 3
      [] where = "dispatch" -> 4
Remaining == IF at = "idle" THEN 0 ELSE 4 * (MaxSteps - steps) + Ahead(at)

LEMMA StepsAhead ==
    Ahead("top") = 1 /\ Ahead("perform") = 2 /\ Ahead("agent") = 3 /\ Ahead("dispatch") = 4
BY DEF Ahead

LEMMA RemainingType ==
    ASSUME OrchestratorTypeOK
    PROVE  /\ Remaining \in Nat /\ (at # "idle" => Remaining > 0)
           /\ steps \in Nat /\ MaxSteps \in Nat /\ steps <= MaxSteps
BY StepsAhead, OrchestratorAssumption DEF OrchestratorTypeOK, Remaining

\* A step of the run in progress; where it ends the run, run has answered.
LEMMA AdvanceShortens ==
    ASSUME OrchestratorTypeOK, OrchestratorTypeOK', Advances
    PROVE  /\ Remaining' < Remaining
           /\ at' = "idle" => returned'[run'] # "nothing"
<1>0. at # "idle"
  BY DEF Advances, StopCancelled, ReachTerminal, NobodySupports, ExceedSteps, SelectAgent,
         Dispatch, BeginWork, DispatchFails, ResultFails, ResultSucceeds, ResultLeadsNowhere,
         AtTop
<1> DEFINE goal == Remaining' < Remaining /\ (at' = "idle" => returned'[run'] # "nothing")
<1> SUFFICES goal
  OBVIOUS
<1>1. ASSUME NEW c, NEW how, how # "nothing", Conclude(c, how) PROVE goal
  <2>1. at' = "idle" /\ run' = run /\ returned' = [returned EXCEPT ![run] = how]
    BY <1>1 DEF Conclude
  <2>2. run \in Runs /\ returned'[run] = how
    BY <1>0, <2>1, InProgress DEF OrchestratorTypeOK
  <2>3. Remaining' = 0
    BY <2>1 DEF Remaining
  <2> QED
    BY <1>0, <1>1, <2>1, <2>2, <2>3, RemainingType
<1>2. CASE StopCancelled \/ ReachTerminal \/ NobodySupports \/ ExceedSteps \/ DispatchFails
           \/ ResultLeadsNowhere
  BY <1>1, <1>2 DEF StopCancelled, ConcludeCancelled, ReachTerminal, NobodySupports, ExceedSteps,
                    ConcludeFailed, DispatchFails, ResultLeadsNowhere
<1>3. ASSUME at' # "idle", steps' \in Nat, Ahead(at) \in Nat, Ahead(at') \in Nat,
             Ahead(at') < Ahead(at) + 4 * (steps' - steps)
      PROVE  goal
  <2>1. Remaining = 4 * (MaxSteps - steps) + Ahead(at)
    BY <1>0 DEF Remaining
  <2>2. Remaining' = 4 * (MaxSteps - steps') + Ahead(at')
    BY <1>3 DEF Remaining
  <2> QED
    BY <1>3, <2>1, <2>2, RemainingType
<1> HIDE DEF goal
<1>4. CASE SelectAgent
  BY <1>3, <1>4, StepsAhead, RemainingType DEF SelectAgent, AtTop
<1>5. CASE Dispatch \/ BeginWork
  BY <1>3, <1>5, StepsAhead, RemainingType DEF Dispatch, BeginWork
<1>6. ASSUME NEW recommended \in Recommendations, ResultFails \/ ResultSucceeds(recommended)
      PROVE  goal
  BY <1>3, <1>6, StepsAhead, RemainingType DEF ResultFails, ResultSucceeds
<1> QED
  BY <1>2, <1>4, <1>5, <1>6, OrchestratorAssumption DEF Advances

\* Every step of a run brings its end nearer, by a measure that cannot fall below
\* zero and that no cancellation raises; the step that ends it leaves a summary
\* or an exception.
THEOREM OrchestratorRunsShorten ==
    OrchestratorSpec =>
        /\ [](Remaining \in Nat)
        /\ [][/\ Advances => Remaining' < Remaining
              /\ Remaining' > Remaining => \E r \in Runs : BeginRun(r)
              /\ at # "idle" /\ at' = "idle" => returned'[run] # "nothing"]_ovars
<1> DEFINE Shortens ==
        /\ Advances => Remaining' < Remaining
        /\ Remaining' > Remaining => \E r \in Runs : BeginRun(r)
        /\ at # "idle" /\ at' = "idle" => returned'[run] # "nothing"
<1>1. ASSUME OrchestratorTypeOK, OrchestratorTypeOK', OrchestratorNext PROVE Shortens
  <2>1. Remaining \in Nat /\ Remaining' \in Nat
    BY <1>1, RemainingType, StepsAhead, OrchestratorAssumption DEF OrchestratorTypeOK, Remaining
  <2>2. CASE Advances
    <3>1. Remaining' < Remaining /\ (at' = "idle" => returned'[run'] # "nothing")
      BY <1>1, <2>2, AdvanceShortens
    <3>2. run' = run
      BY <2>2 DEF Advances, StopCancelled, ConcludeCancelled, ReachTerminal, NobodySupports,
                  ExceedSteps, ConcludeFailed, SelectAgent, Dispatch, BeginWork, DispatchFails,
                  ResultFails, ResultSucceeds, ResultLeadsNowhere, Conclude
    <3> QED
      BY <2>1, <3>1, <3>2
  <2>3. ASSUME NEW r \in Runs, BeginRun(r) PROVE at = "idle" /\ at' = "top"
    BY <2>3 DEF BeginRun
  <2>4. CASE CancelRun \/ \E a \in Agents : CancelAgent(a)
    <3>1. UNCHANGED <<at, steps>> /\ ~(at # "idle" /\ at' = "idle")
      BY <2>4 DEF CancelRun, CancelAgent
    <3>2. Remaining' = Remaining
      BY <3>1 DEF Remaining
    <3>3. ~Advances
      BY <2>1, <3>2, <1>1, AdvanceShortens
    <3> QED
      BY <2>1, <3>1, <3>2, <3>3
  <2>5. ASSUME NEW r \in Runs, BeginRun(r) PROVE Shortens
    <3>1. ~Advances
      BY <2>3, <2>5 DEF Advances, StopCancelled, ReachTerminal, NobodySupports, ExceedSteps,
                  SelectAgent, Dispatch, BeginWork, DispatchFails, ResultFails, ResultSucceeds,
                  ResultLeadsNowhere, AtTop
    <3> QED
      BY <2>3, <2>5, <3>1
  <2> QED
    BY <1>1, <2>2, <2>4, <2>5 DEF OrchestratorNext
<1>2. OrchestratorTypeOK => Remaining \in Nat
  BY RemainingType
<1>3. OrchestratorTypeOK /\ OrchestratorTypeOK' /\ [OrchestratorNext]_ovars => [Shortens]_ovars
  BY <1>1
<1> QED
  BY <1>2, <1>3, OrchestratorTypeCorrect, PTL DEF OrchestratorSpec

-------------------------------------------------------------------------
\* A cancellation is not lost.

\* An agent that finishes after the cancellation hands over to the loop, whose
\* next look at the token is the end of the run.
Heeded ==
    /\ late = 0 \/ (late = 1 /\ at = "top" /\ cancelled)
    /\ CancellationHolds

LEMMA HeededKept ==
    ASSUME OrchestratorTypeOK, Heeded, [OrchestratorNext]_ovars PROVE Heeded'
<1> USE DEF Heeded, CancellationHolds, Concluded
<1>1. ASSUME NEW r \in Runs, BeginRun(r) PROVE Heeded'
  BY <1>1 DEF BeginRun
<1>2. ASSUME at # "idle", NEW c, NEW how, how # "nothing", Conclude(c, how),
             cancelled => how = "raised" \/ c.state # "completed"
      PROVE  Heeded'
  <2>1. run \in Runs
    BY <1>2, InProgress
  <2>2. returned'[run] = how /\ sessions'[run].context = c
    BY <1>2, <2>1 DEF Conclude, OrchestratorTypeOK
  <2> QED
    BY <1>2, <2>2 DEF Conclude
<1>3. CASE StopCancelled
  <2>1. WithStage(Created, "Cancelled", "cancelled").state # "completed"
    BY DEF WithStage, Created
  <2> QED
    BY <1>2, <1>3, <2>1 DEF StopCancelled, ConcludeCancelled, AtTop
<1>4. CASE ReachTerminal
  BY <1>2, <1>4 DEF ReachTerminal, AtTop
<1>5. CASE NobodySupports \/ ExceedSteps \/ ResultLeadsNowhere
  BY <1>2, <1>5 DEF NobodySupports, ExceedSteps, ResultLeadsNowhere, ConcludeFailed, AtTop
<1>6. CASE DispatchFails
  <2>1. at # "idle" /\ Conclude(HandleFailure(Context), "summary")
    BY <1>6 DEF DispatchFails
  <2>2. HandleFailure(Context).state # "completed"
    BY <2>1, InProgress DEF HandleFailure, WithStage, Contexts
  <2> QED
    BY <1>2, <2>1, <2>2
<1>7. ASSUME UNCHANGED <<late, cancelled>>, at # "idle", at' # "idle", late = 0 PROVE Heeded'
  BY <1>7
<1>8. CASE SelectAgent \/ Dispatch \/ BeginWork \/ ResultFails
  <2>1. late = 0
    BY <1>8 DEF SelectAgent, Dispatch, BeginWork, ResultFails
  <2> QED
    BY <1>7, <1>8, <2>1 DEF SelectAgent, AtTop, Dispatch, BeginWork, ResultFails
<1>9. ASSUME NEW recommended \in Recommendations, ResultSucceeds(recommended) PROVE Heeded'
  BY <1>9 DEF ResultSucceeds
<1>10. CASE CancelRun
  BY <1>10 DEF CancelRun
<1>11. ASSUME NEW a \in Agents, CancelAgent(a) PROVE Heeded'
  BY <1>11 DEF CancelAgent
<1>12. CASE UNCHANGED ovars
  BY <1>12 DEF ovars
<1> QED
  BY <1>1, <1>3, <1>4, <1>5, <1>6, <1>8, <1>9, <1>10, <1>11, <1>12 DEF OrchestratorNext, Advances

\* Whenever the token is cancelled, the run is not reported as completed, and at
\* most the agent at work finishes its stage.
THEOREM OrchestratorCancellationHolds == OrchestratorSpec => []CancellationHolds
<1>1. OrchestratorInit => Heeded
  BY DEF OrchestratorInit, Heeded, CancellationHolds, Concluded
<1>2. OrchestratorTypeOK /\ Heeded /\ [OrchestratorNext]_ovars => Heeded'
  BY HeededKept
<1>3. Heeded => CancellationHolds
  BY DEF Heeded
<1> QED
  BY <1>1, <1>2, <1>3, OrchestratorTypeCorrect, PTL DEF OrchestratorSpec

-------------------------------------------------------------------------
\* The artifacts of a summary.

\* Not an assumption about the code in the repository: its agents recommend
\* nothing.
NoCancelledAdvice == "Cancelled" \notin Recommendations

Counts ==
    /\ at # "idle" =>
        /\ returned[run] = "nothing"
        /\ Context.stage # "Cancelled"
        /\ IsFiniteSet(passed[run]) /\ Cardinality(passed[run]) <= Context.artifacts
    /\ \A r \in Runs : returned[r] = "nothing" /\ (at = "idle" \/ r # run) => passed[r] = {}
    /\ SummaryCountsWork

LEMMA NoStageCancels ==
    ASSUME NoCancelledAdvice, NEW stage, NEW recommended \in Recommendations,
           HasNext(stage, recommended)
    PROVE  NextStage(stage, recommended) # "Cancelled"
<1>1. \A n \in 1 .. 15 : StageOrder[n] # "Cancelled"
  <2>1. /\ StageOrder[1] # "Cancelled" /\ StageOrder[2] # "Cancelled" /\ StageOrder[3] # "Cancelled"
        /\ StageOrder[4] # "Cancelled" /\ StageOrder[5] # "Cancelled" /\ StageOrder[6] # "Cancelled"
        /\ StageOrder[7] # "Cancelled" /\ StageOrder[8] # "Cancelled" /\ StageOrder[9] # "Cancelled"
        /\ StageOrder[10] # "Cancelled" /\ StageOrder[11] # "Cancelled" /\ StageOrder[12] # "Cancelled"
        /\ StageOrder[13] # "Cancelled" /\ StageOrder[14] # "Cancelled" /\ StageOrder[15] # "Cancelled"
    BY DEF StageOrder
  <2>2. \A n \in 1 .. 15 : \/ n = 1 \/ n = 2 \/ n = 3 \/ n = 4 \/ n = 5 \/ n = 6 \/ n = 7 \/ n = 8
          \/ n = 9 \/ n = 10 \/ n = 11 \/ n = 12 \/ n = 13 \/ n = 14 \/ n = 15
    OBVIOUS
  <2> QED
    BY <2>1, <2>2
<1>2. CASE recommended # NoStage
  BY <1>2 DEF NextStage, NoCancelledAdvice
<1>3. CASE recommended = NoStage /\ stage = "Completed"
  BY <1>3 DEF NextStage
<1>4. CASE recommended = NoStage /\ stage # "Completed"
  <2>1. Position(stage) \in 1 .. 15 /\ StageOrder[Position(stage)] = stage
    BY <1>4, OrderFacts DEF HasNext, Position
  <2>2. Position(stage) + 1 \in 1 .. 15
    BY <1>4, <2>1, OrderFacts
  <2> QED
    BY <1>1, <1>4, <2>2 DEF NextStage
<1> QED
  BY <1>2, <1>3, <1>4

\* What the steps of the loop do to the context of the run in progress.
LEMMA ContextSteps ==
    ASSUME NEW c \in Contexts
    PROVE  /\ \A a : /\ [c EXCEPT !.agent = a].stage = c.stage
                     /\ [c EXCEPT !.agent = a].artifacts = c.artifacts
           /\ HandleFailure(c).stage # "Cancelled" /\ HandleFailure(c).artifacts = c.artifacts
           /\ \A recommended :
                /\ AfterSuccess(c, recommended).stage = NextStage(c.stage, recommended)
                /\ AfterSuccess(c, recommended).artifacts = c.artifacts + 1
<1>1. /\ \A a : /\ [c EXCEPT !.agent = a].stage = c.stage
                /\ [c EXCEPT !.agent = a].artifacts = c.artifacts
      /\ HandleFailure(c).stage # "Cancelled" /\ HandleFailure(c).artifacts = c.artifacts
  BY DEF Contexts, HandleFailure, WithStage
<1>2. ASSUME NEW recommended
      PROVE  /\ AfterSuccess(c, recommended).stage = NextStage(c.stage, recommended)
             /\ AfterSuccess(c, recommended).artifacts = c.artifacts + 1
  <2> DEFINE next == NextStage(c.stage, recommended)
  <2>1. AfterSuccess(c, recommended)
          = [WithStage(c, next, StateFor(next)) EXCEPT !.agent = "none", !.artifacts = @ + 1]
    BY DEF AfterSuccess
  <2> HIDE DEF next
  <2>2. AfterSuccess(c, recommended).stage = next /\ AfterSuccess(c, recommended).artifacts = c.artifacts + 1
    BY <2>1 DEF WithStage, Contexts
  <2> QED
    BY <2>2 DEF next
<1> QED
  BY <1>1, <1>2

LEMMA CountsKept ==
    ASSUME NoCancelledAdvice, OrchestratorTypeOK, Counts, [OrchestratorNext]_ovars PROVE Counts'
<1> USE DEF Counts, SummaryCountsWork
<1>1. ASSUME NEW r \in Runs, BeginRun(r) PROVE Counts'
  <2>1. /\ at = "idle" /\ returned[r] = "nothing" /\ run' = r /\ at' = "top"
        /\ UNCHANGED <<returned, passed>>
        /\ \A q \in Runs : q # r => sessions'[q] = sessions[q]
        /\ sessions'[r].context = [Created EXCEPT !.state = "running"]
    BY <1>1 DEF BeginRun, OrchestratorTypeOK
  <2>2. sessions'[r].context.stage # "Cancelled" /\ sessions'[r].context.artifacts = 0
    BY <2>1 DEF Created
  <2>3. passed[r] = {} /\ IsFiniteSet({}) /\ Cardinality({}) = 0
    BY <2>1, FS_EmptySet
  <2> QED
    BY <2>1, <2>2, <2>3 DEF Context
<1>2. ASSUME at # "idle", NEW c, NEW how \in {"summary", "raised"}, Conclude(c, how),
             \/ how = "raised"
             \/ IF c.stage = "Cancelled" THEN c.artifacts = 0
                ELSE c.artifacts >= Cardinality(passed[run])
      PROVE  Counts'
  <2>1. run \in Runs
    BY <1>2, InProgress
  <2>2. /\ returned' = [returned EXCEPT ![run] = how] /\ UNCHANGED <<passed, run>> /\ at' = "idle"
        /\ \A q \in Runs : q # run => sessions'[q] = sessions[q]
        /\ sessions'[run].context = c
    BY <1>2, <2>1 DEF Conclude, OrchestratorTypeOK
  <2> QED
    BY <1>2, <2>1, <2>2 DEF OrchestratorTypeOK
<1>3. CASE StopCancelled
  <2>1. /\ WithStage(Created, "Cancelled", "cancelled").stage = "Cancelled"
        /\ WithStage(Created, "Cancelled", "cancelled").artifacts = 0
    BY DEF WithStage, Created
  <2> QED
    BY <1>2, <1>3, <2>1 DEF StopCancelled, ConcludeCancelled, AtTop
<1>4. CASE ReachTerminal
  <2>1. at # "idle" /\ Conclude(Context, "summary")
    BY <1>4 DEF ReachTerminal, AtTop
  <2>2. Cardinality(passed[run]) \in Nat /\ Context.artifacts \in Nat
    BY <2>1, InProgress, FS_CardinalityType DEF Contexts
  <2> QED
    BY <1>2, <2>1, <2>2
<1>5. CASE NobodySupports \/ ExceedSteps \/ ResultLeadsNowhere
  BY <1>2, <1>5 DEF NobodySupports, ExceedSteps, ResultLeadsNowhere, ConcludeFailed, AtTop
<1>6. CASE DispatchFails
  <2>1. at # "idle" /\ Conclude(HandleFailure(Context), "summary")
    BY <1>6 DEF DispatchFails
  <2>2. Cardinality(passed[run]) \in Nat /\ Context.artifacts \in Nat
    BY <2>1, InProgress, FS_CardinalityType DEF Contexts
  <2> QED
    BY <1>2, <2>1, <2>2, InProgress, ContextSteps
<1>7. ASSUME at # "idle", at' # "idle", NEW c, Update(c), UNCHANGED <<run, returned>>,
             c.stage # "Cancelled",
             IsFiniteSet(passed'[run]), Cardinality(passed'[run]) <= c.artifacts,
             \A r \in Runs : r # run => passed'[r] = passed[r]
      PROVE  Counts'
  <2>1. run \in Runs
    BY <1>7, InProgress
  <2>2. sessions'[run].context = c /\ \A q \in Runs : q # run => sessions'[q] = sessions[q]
    BY <1>7, <2>1 DEF Update, OrchestratorTypeOK
  <2>3. Context' = c
    BY <1>7, <2>2 DEF Context
  <2> QED
    BY <1>7, <2>1, <2>2, <2>3
<1>8. CASE SelectAgent
  <2>1. PICK a : Update([Context EXCEPT !.agent = a])
    BY <1>8 DEF SelectAgent
  <2>2. at # "idle" /\ at' # "idle" /\ UNCHANGED <<run, returned, passed>>
    BY <1>8 DEF SelectAgent, AtTop
  <2>3. Context \in Contexts
    BY <2>2, InProgress
  <2>4. /\ [Context EXCEPT !.agent = a].stage = Context.stage
        /\ [Context EXCEPT !.agent = a].artifacts = Context.artifacts
    BY <2>3, ContextSteps
  <2> QED
    BY <1>7, <2>1, <2>2, <2>4
<1>9. CASE ResultFails
  <2>1. /\ at # "idle" /\ at' # "idle" /\ UNCHANGED <<run, returned, passed>>
        /\ Update(HandleFailure(Context))
    BY <1>9 DEF ResultFails
  <2> QED
    BY <1>7, <2>1, InProgress, ContextSteps
<1>10. ASSUME NEW recommended \in Recommendations, ResultSucceeds(recommended) PROVE Counts'
  <2>1. /\ at # "idle" /\ at' # "idle" /\ UNCHANGED <<run, returned>>
        /\ Update(AfterSuccess(Context, recommended)) /\ HasNext(Context.stage, recommended)
        /\ passed' = [passed EXCEPT ![run] = @ \cup {Context.stage}]
    BY <1>10 DEF ResultSucceeds
  <2>2. run \in Runs /\ Context \in Contexts
    BY <2>1, InProgress
  <2>3. /\ passed'[run] = passed[run] \cup {Context.stage}
        /\ \A r \in Runs : r # run => passed'[r] = passed[r]
    BY <2>1, <2>2 DEF OrchestratorTypeOK
  <2>4. /\ IsFiniteSet(passed'[run])
        /\ Cardinality(passed'[run]) \in Nat /\ Cardinality(passed[run]) \in Nat
        /\ Cardinality(passed'[run]) <= Cardinality(passed[run]) + 1
    <3>1. IsFiniteSet(passed[run])
      BY <2>1
    <3>2. /\ IsFiniteSet(passed[run] \cup {Context.stage})
          /\ \/ Cardinality(passed[run] \cup {Context.stage}) = Cardinality(passed[run])
             \/ Cardinality(passed[run] \cup {Context.stage}) = Cardinality(passed[run]) + 1
      BY <3>1, FS_AddElement
    <3>3. Cardinality(passed[run]) \in Nat
      BY <3>1, FS_CardinalityType
    <3> QED
      BY <2>3, <3>2, <3>3
  <2>5. /\ AfterSuccess(Context, recommended).stage # "Cancelled"
        /\ AfterSuccess(Context, recommended).artifacts = Context.artifacts + 1
        /\ Context.artifacts \in Nat
    BY <2>1, <2>2, ContextSteps, NoStageCancels DEF Contexts
  <2>6. Cardinality(passed'[run]) <= AfterSuccess(Context, recommended).artifacts
    BY <2>1, <2>4, <2>5
  <2> HIDE DEF Counts
  <2> QED
    BY <1>7, <2>1, <2>3, <2>4, <2>5, <2>6
<1>11. CASE UNCHANGED <<run, sessions, returned, passed>> /\ (at = "idle" <=> at' = "idle")
  BY <1>11 DEF Context
<1>12. CASE Dispatch \/ BeginWork \/ CancelRun \/ (\E a \in Agents : CancelAgent(a)) \/ UNCHANGED ovars
  BY <1>11, <1>12 DEF Dispatch, BeginWork, CancelRun, CancelAgent, ovars
<1> QED
  BY <1>1, <1>3, <1>4, <1>5, <1>6, <1>8, <1>9, <1>10, <1>12 DEF OrchestratorNext, Advances

\* The summary of a run lists an artifact for each stage done, and none if the
\* run was cancelled, as long as no agent recommends the stage Cancelled.
THEOREM OrchestratorSummaryCountsWork ==
    ASSUME NoCancelledAdvice PROVE OrchestratorSpec => []SummaryCountsWork
<1>1. OrchestratorInit => Counts
  BY DEF OrchestratorInit, Counts, SummaryCountsWork
<1>2. OrchestratorTypeOK /\ Counts /\ [OrchestratorNext]_ovars => Counts'
  BY CountsKept
<1>3. Counts => SummaryCountsWork
  BY DEF Counts
<1> QED
  BY <1>1, <1>2, <1>3, OrchestratorTypeCorrect, PTL DEF OrchestratorSpec

-------------------------------------------------------------------------
\* What "completed" stands for.

\* Not an assumption about the code in the repository, whose agents recommend
\* nothing: a recovery agent that sent a run on to Review would have it reported
\* as completed without a patch.
RecoveryGoesBack ==
    \A stage \in Recommendations \cap ToSet(StageOrder) :
        Position(stage) <= Position("Generate Patch")

LEMMA Positions ==
    /\ \A n \in 1 .. 15 : Position(StageOrder[n]) = n
    /\ \A stage \in ToSet(StageOrder) :
         Position(stage) \in 1 .. 15 /\ StageOrder[Position(stage)] = stage
    /\ Position("Receive Repository") = 1 /\ Position("Generate Patch") = 9
    /\ Position("Completed") = 15 /\ Len(StageOrder) = 15
    /\ {"Retry", "Escalate", "Failed", "Cancelled"} \cap ToSet(StageOrder) = {}
<1>1. \A n \in 1 .. 15 : \/ n = 1 \/ n = 2 \/ n = 3 \/ n = 4 \/ n = 5 \/ n = 6 \/ n = 7 \/ n = 8
          \/ n = 9 \/ n = 10 \/ n = 11 \/ n = 12 \/ n = 13 \/ n = 14 \/ n = 15
  OBVIOUS
<1>2. /\ StageOrder[1] = "Receive Repository" /\ StageOrder[2] = "Receive Issue"
      /\ StageOrder[3] = "Understand Issue" /\ StageOrder[4] = "Collect Context"
      /\ StageOrder[5] = "Repository Search" /\ StageOrder[6] = "Read Relevant Files"
      /\ StageOrder[7] = "Analyze Root Cause" /\ StageOrder[8] = "Create Engineering Plan"
      /\ StageOrder[9] = "Generate Patch" /\ StageOrder[10] = "Apply Changes"
      /\ StageOrder[11] = "Validate" /\ StageOrder[12] = "Run Tests"
      /\ StageOrder[13] = "Decision Point" /\ StageOrder[14] = "Review"
      /\ StageOrder[15] = "Completed" /\ Len(StageOrder) = 15
  BY DEF StageOrder
<1>3. ASSUME NEW m \in 1 .. 15, NEW n \in 1 .. 15, StageOrder[m] = StageOrder[n] PROVE m = n
  <2>1. CASE m = 1 \/ m = 2 \/ m = 3
    BY <1>1, <1>2, <1>3, <2>1, ZenonT(30)
  <2>2. CASE m = 4 \/ m = 5 \/ m = 6
    BY <1>1, <1>2, <1>3, <2>2, ZenonT(30)
  <2>3. CASE m = 7 \/ m = 8 \/ m = 9
    BY <1>1, <1>2, <1>3, <2>3, ZenonT(30)
  <2>4. CASE m = 10 \/ m = 11 \/ m = 12
    BY <1>1, <1>2, <1>3, <2>4, ZenonT(30)
  <2>5. CASE m = 13 \/ m = 14 \/ m = 15
    BY <1>1, <1>2, <1>3, <2>5, ZenonT(30)
  <2> QED
    BY <1>1, <2>1, <2>2, <2>3, <2>4, <2>5, Zenon
<1>4. DOMAIN StageOrder = 1 .. 15
  BY OrderFacts
<1>5. \A n \in 1 .. 15 : Position(StageOrder[n]) = n
  BY <1>3, <1>4 DEF Position
<1>6. ASSUME NEW stage \in ToSet(StageOrder)
      PROVE  Position(stage) \in 1 .. 15 /\ StageOrder[Position(stage)] = stage
  BY <1>4, OrderFacts DEF Position
<1>7. /\ Position("Receive Repository") = 1 /\ Position("Generate Patch") = 9
      /\ Position("Completed") = 15
  <2>1. Position(StageOrder[1]) = 1 /\ Position(StageOrder[9]) = 9 /\ Position(StageOrder[15]) = 15
    BY <1>5
  <2> QED
    BY <1>2, <2>1
<1>8. \A n \in 1 .. 15 : StageOrder[n] \notin {"Retry", "Escalate", "Failed", "Cancelled"}
  BY <1>1, <1>2
<1>9. {"Retry", "Escalate", "Failed", "Cancelled"} \cap ToSet(StageOrder) = {}
  BY <1>8, OrderFacts
<1> QED
  BY <1>2, <1>5, <1>6, <1>7, <1>9

\* The position from which a run has to have done every stage.
From(c) == IF c.retries = 0 THEN 1 ELSE 9

\* A context that has come to its stage by doing the earlier ones.
Earned(c, done) ==
    /\ c.retries \in {0, 1}
    /\ c.state = "completed" => c.stage = "Completed"
    /\ c.stage = "Retry" => c.retries = 1
    /\ c.stage \in ToSet(StageOrder) =>
         \A n \in From(c) .. Position(c.stage) - 1 : StageOrder[n] \in done

InEarnest ==
    /\ at # "idle" => returned[run] = "nothing" /\ Earned(Context, passed[run])
    /\ at \in {"dispatch", "agent", "perform"} => Context.agent \in Candidates(Context.stage)
    /\ CompletedIsEarned

\* What a failure and a success make of the context.
LEMMA FailureEarned ==
    ASSUME NEW c \in Contexts, NEW done, Earned(c, done)
    PROVE  Earned(HandleFailure(c), done) /\ HandleFailure(c).state # "completed"
BY Positions DEF Earned, HandleFailure, WithStage, Contexts

LEMMA SuccessEarned ==
    ASSUME RecoveryGoesBack, NEW c \in Contexts, NEW done, Earned(c, done),
           NEW recommended \in Recommendations, HasNext(c.stage, recommended),
           recommended # NoStage => c.stage = "Retry"
    PROVE  Earned(AfterSuccess(c, recommended), done \cup {c.stage})
<1> DEFINE next == NextStage(c.stage, recommended)
           after == AfterSuccess(c, recommended)
<1>1. after = [WithStage(c, next, StateFor(next)) EXCEPT !.agent = "none", !.artifacts = @ + 1]
  BY DEF AfterSuccess
<1>2. next = IF recommended # NoStage THEN recommended
             ELSE IF c.stage = "Completed" THEN c.stage
             ELSE StageOrder[Position(c.stage) + 1]
  BY DEF NextStage
<1> HIDE DEF next, after
<1>3. after.stage = next /\ after.state = StateFor(next) /\ after.retries = c.retries
  BY <1>1 DEF WithStage, Contexts
<1>4. StateFor(next) = "completed" => next = "Completed"
  BY DEF StateFor
<1>5. CASE recommended # NoStage
  <2>1. c.retries = 1 /\ next = recommended
    BY <1>2, <1>5 DEF Earned
  <2>2. ASSUME next \in ToSet(StageOrder) PROVE Position(next) \in 1 .. 9
    <3> DEFINE patch == Position("Generate Patch")
    <3>1. Position(next) \in 1 .. 15 /\ patch = 9
      BY <2>2, Positions
    <3>2. Position(next) <= patch
      BY <2>1, <2>2 DEF RecoveryGoesBack
    <3> HIDE DEF patch
    <3> QED
      BY <3>1, <3>2
  <2> QED
    BY <1>3, <1>4, <2>1, <2>2 DEF Earned, From, after
<1>6. CASE recommended = NoStage /\ c.stage = "Completed"
  <2>1. next = c.stage
    BY <1>2, <1>6
  <2> QED
    BY <1>3, <1>6, <2>1 DEF Earned, From, after
<1>7. CASE recommended = NoStage /\ c.stage # "Completed"
  <2>1. /\ c.stage \in ToSet(StageOrder) /\ Position(c.stage) \in 1 .. 14
        /\ StageOrder[Position(c.stage)] = c.stage
    <3>1. c.stage \in ToSet(StageOrder)
      BY <1>7 DEF HasNext
    <3>2. Position(c.stage) \in 1 .. 15 /\ StageOrder[Position(c.stage)] = c.stage
      BY <3>1, Positions
    <3>3. Position(c.stage) # 15
      BY <1>7, <3>2, OrderFacts
    <3> QED
      BY <3>1, <3>2, <3>3
  <2>2. next = StageOrder[Position(c.stage) + 1] /\ Position(next) = Position(c.stage) + 1
    <3>1. next = StageOrder[Position(c.stage) + 1]
      BY <1>2, <1>7
    <3>2. \A n \in 1 .. 15 : Position(StageOrder[n]) = n
      BY Positions
    <3>3. Position(c.stage) + 1 \in 1 .. 15
      BY <2>1
    <3>4. Position(StageOrder[Position(c.stage) + 1]) = Position(c.stage) + 1
      BY <3>2, <3>3
    <3> QED
      BY <3>1, <3>4
  <2>3. next # "Retry"
    <3>1. next \in ToSet(StageOrder)
      BY <2>1, <2>2, OrderFacts DEF ToSet
    <3> QED
      BY <3>1, Positions
  <2>4. \A n \in From(c) .. Position(next) - 1 : StageOrder[n] \in done \cup {c.stage}
    BY <2>1, <2>2 DEF Earned, From
  <2> QED
    BY <1>3, <1>4, <2>3, <2>4 DEF Earned, From, after
<1> QED
  BY <1>5, <1>6, <1>7

LEMMA InEarnestKept ==
    ASSUME RecoveryGoesBack, OrchestratorTypeOK, InEarnest, [OrchestratorNext]_ovars
    PROVE  InEarnest'
<1> USE DEF InEarnest
<1>1. ASSUME NEW r \in Runs, BeginRun(r) PROVE InEarnest'
  <2> DEFINE begun == [Created EXCEPT !.state = "running"]
  <2>1. /\ at = "idle" /\ returned[r] = "nothing" /\ run' = r /\ at' = "top"
        /\ UNCHANGED <<returned, passed>>
        /\ \A q \in Runs : q # r => sessions'[q] = sessions[q]
        /\ sessions'[r].context = begun
    BY <1>1 DEF BeginRun, OrchestratorTypeOK
  <2>2. Earned(begun, passed[r])
    <3>1. begun.stage = "Receive Repository" /\ begun.retries = 0 /\ begun.state = "running"
      BY DEF Created
    <3>2. Position(begun.stage) = 1 /\ From(begun) = 1
      BY <3>1, Positions DEF From
    <3>3. From(begun) .. Position(begun.stage) - 1 = {}
      BY <3>2
    <3> QED
      BY <3>1, <3>3 DEF Earned
  <2> HIDE DEF begun
  <2> QED
    BY <2>1, <2>2 DEF Context, CompletedIsEarned, Concluded, Resumed
<1>2. ASSUME at # "idle", NEW c, NEW how \in {"summary", "raised"}, Conclude(c, how),
             how = "summary" /\ c.state = "completed" => Earned(c, passed[run])
      PROVE  InEarnest'
  <2>1. run \in Runs
    BY <1>2, InProgress
  <2>2. /\ returned' = [returned EXCEPT ![run] = how] /\ UNCHANGED <<passed, run>> /\ at' = "idle"
        /\ \A q \in Runs : q # run => sessions'[q] = sessions[q]
        /\ sessions'[run].context = c
    BY <1>2, <2>1 DEF Conclude, OrchestratorTypeOK
  <2>3. /\ \A q \in Runs : q # run => returned'[q] = returned[q]
        /\ returned'[run] = how
    BY <2>1, <2>2 DEF OrchestratorTypeOK
  <2>4. ASSUME NEW r \in Runs, Concluded(r, "completed")'
        PROVE  \A n \in Position(Resumed(r)') .. Len(StageOrder) - 1 : StageOrder[n] \in passed'[r]
    <3>1. CASE r # run
      BY <2>2, <2>3, <2>4, <3>1 DEF CompletedIsEarned, Concluded, Resumed
    <3>2. CASE r = run
      <4>1. Earned(c, passed[run]) /\ c.stage = "Completed"
        BY <1>2, <2>2, <2>3, <2>4, <3>2 DEF Concluded, Earned
      <4>2. Position(Resumed(r)') = From(c)
        BY <2>2, <3>2, Positions DEF Resumed, From
      <4>3. "Completed" \in ToSet(StageOrder)
        BY OrderFacts DEF ToSet
      <4> QED
        BY <2>2, <3>2, <4>1, <4>2, <4>3, Positions DEF Earned
    <3> QED
      BY <3>1, <3>2
  <2> QED
    BY <2>2, <2>4 DEF CompletedIsEarned
<1>3. CASE StopCancelled
  <2>1. WithStage(Created, "Cancelled", "cancelled").state # "completed"
    BY DEF WithStage, Created
  <2> QED
    BY <1>2, <1>3, <2>1 DEF StopCancelled, ConcludeCancelled, AtTop
<1>4. CASE ReachTerminal
  BY <1>2, <1>4 DEF ReachTerminal, AtTop
<1>5. CASE NobodySupports \/ ExceedSteps \/ ResultLeadsNowhere
  BY <1>2, <1>5 DEF NobodySupports, ExceedSteps, ResultLeadsNowhere, ConcludeFailed, AtTop
<1>6. CASE DispatchFails
  <2>1. at # "idle" /\ Conclude(HandleFailure(Context), "summary")
    BY <1>6 DEF DispatchFails
  <2> QED
    BY <1>2, <2>1, InProgress, FailureEarned
<1>7. ASSUME at # "idle", at' # "idle", NEW c, Update(c), UNCHANGED <<run, returned>>,
             Earned(c, passed'[run]), at' = "dispatch" => c.agent \in Candidates(c.stage),
             at' \in {"top", "dispatch"}, UNCHANGED recovery,
             \A r \in Runs : r # run => passed'[r] = passed[r]
      PROVE  InEarnest'
  <2>1. run \in Runs
    BY <1>7, InProgress
  <2>2. sessions'[run].context = c /\ \A q \in Runs : q # run => sessions'[q] = sessions[q]
    BY <1>7, <2>1 DEF Update, OrchestratorTypeOK
  <2>3. Context' = c
    BY <1>7, <2>2 DEF Context
  <2>4. Candidates(c.stage)' = Candidates(c.stage)
    BY <1>7 DEF Candidates, Registered
  <2>5. CompletedIsEarned'
    BY <1>7, <2>1, <2>2 DEF CompletedIsEarned, Concluded, Resumed
  <2> QED
    BY <1>7, <2>1, <2>3, <2>4, <2>5 DEF Candidates, Registered
<1>8. CASE SelectAgent
  <2>1. PICK a \in Candidates(Context.stage) : Update([Context EXCEPT !.agent = a])
    BY <1>8 DEF SelectAgent
  <2>2. /\ at # "idle" /\ at' = "dispatch" /\ UNCHANGED <<run, returned, passed, recovery>>
    BY <1>8 DEF SelectAgent, AtTop
  <2> DEFINE c == [Context EXCEPT !.agent = a]
  <2>3. Context \in Contexts
    BY <2>2, InProgress
  <2>4. /\ c.stage = Context.stage /\ c.agent = a /\ c.retries = Context.retries
        /\ c.state = Context.state
    BY <2>3 DEF Contexts
  <2>5. Update(c)
    BY <2>1
  <2> HIDE DEF c
  <2>6. Earned(c, passed[run])
    BY <2>2, <2>4 DEF Earned, From
  <2>7. c.agent \in Candidates(c.stage)
    BY <2>1, <2>4
  <2> HIDE DEF InEarnest
  <2> QED
    BY <1>7, <2>2, <2>5, <2>6, <2>7
<1>9. CASE ResultFails
  <2>1. /\ at # "idle" /\ at' = "top" /\ UNCHANGED <<run, returned, passed, recovery>>
        /\ Update(HandleFailure(Context))
    BY <1>9 DEF ResultFails
  <2>2. Earned(HandleFailure(Context), passed[run])
    BY <2>1, InProgress, FailureEarned
  <2> QED
    BY <1>7, <2>1, <2>2
<1>10. ASSUME NEW recommended \in Recommendations, ResultSucceeds(recommended) PROVE InEarnest'
  <2>1. /\ at = "perform" /\ at' = "top" /\ UNCHANGED <<run, returned, recovery>>
        /\ Update(AfterSuccess(Context, recommended)) /\ HasNext(Context.stage, recommended)
        /\ passed' = [passed EXCEPT ![run] = @ \cup {Context.stage}]
        /\ Context.agent # "recovery" => recommended = NoStage
    BY <1>10 DEF ResultSucceeds
  <2>2. run \in Runs /\ Context \in Contexts
    BY <2>1, InProgress
  <2>3. /\ passed'[run] = passed[run] \cup {Context.stage}
        /\ \A r \in Runs : r # run => passed'[r] = passed[r]
    BY <2>1, <2>2 DEF OrchestratorTypeOK
  <2>4. recommended # NoStage => Context.stage = "Retry"
    BY <2>1 DEF Candidates, Supports
  <2>5. Earned(AfterSuccess(Context, recommended), passed'[run])
    BY <2>1, <2>2, <2>3, <2>4, SuccessEarned
  <2> QED
    BY <1>7, <2>1, <2>3, <2>5
<1>11. CASE /\ UNCHANGED <<run, sessions, returned, passed, recovery>> /\ (at = "idle" <=> at' = "idle")
            /\ at' \in {"dispatch", "agent", "perform"} => at \in {"dispatch", "agent", "perform"}
  BY <1>11 DEF Context, Candidates, Registered, CompletedIsEarned, Concluded, Resumed
<1>12. CASE Dispatch \/ BeginWork \/ CancelRun \/ (\E a \in Agents : CancelAgent(a)) \/ UNCHANGED ovars
  BY <1>11, <1>12 DEF Dispatch, BeginWork, CancelRun, CancelAgent, ovars
<1> QED
  BY <1>1, <1>3, <1>4, <1>5, <1>6, <1>8, <1>9, <1>10, <1>12 DEF OrchestratorNext, Advances

\* A run reported as completed had every stage done by its agent, or, after a
\* failure, every stage from the patch on: as long as a recovery agent sends a
\* run back and not ahead.
THEOREM OrchestratorCompletedIsEarned ==
    ASSUME RecoveryGoesBack PROVE OrchestratorSpec => []CompletedIsEarned
<1>1. OrchestratorInit => InEarnest
  BY DEF OrchestratorInit, InEarnest, CompletedIsEarned, Concluded
<1>2. OrchestratorTypeOK /\ InEarnest /\ [OrchestratorNext]_ovars => InEarnest'
  BY InEarnestKept
<1>3. InEarnest => CompletedIsEarned
  BY DEF InEarnest
<1> QED
  BY <1>1, <1>2, <1>3, OrchestratorTypeCorrect, PTL DEF OrchestratorSpec

=========================================================================
