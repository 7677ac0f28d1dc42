SPECIFICATION ClaimsSpec
CONSTANTS
  Issues = {1, 2}
  Daemons = {d1}
  Clients = {c1}
  ClientOps = {}
  MaxRetries = 1
  ListLimit = 2
  MaxFaults = 0
INVARIANT WithdrawnNotExecuted
