SPECIFICATION FairSpec
CONSTANTS
  Clients = {c1, c2, c3}
  Nobody = Nobody
  MaxInFlight = 3
  MaxTransitions = 4
INVARIANTS
  RecordIsConsistent
  CommentsAreLogged
  ResolvedMeansClosed
PROPERTIES
  StepsFollowLifecycle
  TransitionsEnd
CHECK_DEADLOCK FALSE
