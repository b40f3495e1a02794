SPECIFICATION Spec
CONSTANTS
  Requests = {r1, r2}
  GENESIS = GENESIS
  MaxInFlight = 2
INVARIANT NoFork
CHECK_DEADLOCK FALSE
