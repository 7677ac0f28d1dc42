SPECIFICATION SteadySpec
CONSTANTS
  Issues = {1, 2}
  Daemons = {d1}
  Clients = {c1}
  ClientOps = {"retry", "run", "restart", "retryLatest", "check", "cliRetry"}
  MaxRetries = 1
  ListLimit = 2
  MaxFaults = 0
INVARIANTS
  FleetInv
  QueueKeysUnique
  AttemptsWithinBudget
  JobNotQueued
  DispatchesRequestedIssue
PROPERTIES
  PauseHoldsTicks
