SPECIFICATION FairSpec
CONSTANTS
  Issues = {1, 2, 3}
  Daemons = {d1}
  Clients = {}
  ClientOps = {}
  MaxRetries = 1
  ListLimit = 3
  MaxFaults = 2
INVARIANTS
  TypeOK
  MemoryMatchesFile
  ProcessedStaysOut
  StatusTracksJob
PROPERTIES
  FollowsLifecycle
  OpenIssuesSettle
