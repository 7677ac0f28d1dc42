SPECIFICATION Spec
CONSTANTS
  Workers = {w1}
  Issues = {i1, i2}
  Default = main
  Engines = {"agent", "infer"}
  MaxRetries = 1
  MaxRuns = 3
  MaxVersion = 2
  MaxFaults = 2
CHECK_DEADLOCK FALSE
INVARIANTS
  AloneInv
  NeverCommitsToDefault
  CommitsOwnWork
  BuildsOnFreshBase
  EscalationLeavesCleanTree
PROPERTIES
  ReviewedBranchKept
