SPECIFICATION ClaimsSpec
CONSTANTS
  Issues = {1, 2}
  Daemons = {d1}
  Clients = {}
  ClientOps = {}
  MaxRetries = 1
  ListLimit = 2
  MaxFaults = 1
PROPERTY SurvivesIssueFailure
