SPECIFICATION Spec
CONSTANTS
  Workers = {w1, w2}
  Issues = {i1, i2}
  Default = main
  Engines = {"agent"}
  MaxRetries = 1
  MaxRuns = 2
  MaxVersion = 0
  MaxFaults = 0
CHECK_DEADLOCK FALSE
INVARIANT NeverCommitsToDefault
