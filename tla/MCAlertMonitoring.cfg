SPECIFICATION FairSpec
CONSTANTS
  Workers = {w1, w2}
  Clients = {c1, c2}
  Rules = {drift, many}
  OpenAlertsRules = {many}
  NoRule = NoRule
  NoOne = NoOne
  Threshold = 1
  MaxMessages = 2
  MaxFaults = 1
  MaxCalls = 3
INVARIANTS
  DuplicatesBounded
PROPERTIES
  HandlersStayNamed
  BreachIsRaised
