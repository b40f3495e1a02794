SPECIFICATION Spec
CONSTANTS
  Clients = {c1, c2}
  Nobody = Nobody
  MaxInFlight = 2
  MaxTransitions = 4
PROPERTY ClosedIsFinal
CHECK_DEADLOCK FALSE
