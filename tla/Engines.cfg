\* The workflow orchestrator and the engineering pipeline, each by itself: two
\* runs of one runtime, where a recovery agent may be registered; and two runs
\* of the engine, with one file that exists and one that does not.
SPECIFICATION Spec
CONSTANTS
    Runs = {1, 2}
    Recommendations = {"no stage", "Generate Patch", "Escalate"}
    MaxSteps = 16
    MaxFaults = 2
    Files = {f1, f2}
    Existing = {f1}
    MaxRuns = 2
    MaxRepairs = 1
    Retries = 1
INVARIANTS
    OrchestratorTypeOK SessionsClosed CompletedIsEarned CancellationHolds SummaryCountsWork
    EngineTypeOK ReviewMeansApplied DryRunLeavesTree CallsBounded NoRetryOverWrites
PROPERTIES
    RunsEnd RollbackRestores KeepsContract RunsReturn
CHECK_DEADLOCK FALSE
