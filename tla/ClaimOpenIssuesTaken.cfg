SPECIFICATION ClaimsSpec
CONSTANTS
  Issues = {1, 2}
  Daemons = {d1}
  Clients = {}
  ClientOps = {}
  MaxRetries = 1
  ListLimit = 1
  MaxFaults = 0
PROPERTY OpenIssuesAreTaken
