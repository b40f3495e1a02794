SPECIFICATION Spec
CONSTANTS
  Requests = {r1, r2, r3, r4}
  GENESIS = GENESIS
  MaxInFlight = 3
INVARIANTS
  PredecessorsCommitted
  StampsFollowPredecessors
  ForksAreConcurrent
PROPERTY RefinesTree
SYMMETRY Symmetry
CHECK_DEADLOCK FALSE
