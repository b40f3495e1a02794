SPECIFICATION MCSpec
CONSTANTS
  Requests = {r1, r2, r3}
  GENESIS = GENESIS
  MaxInFlight = 3
  Owners = {alice, bob}
  First = alice
  NoOwner = NoOwner
INVARIANTS
  RowExplained
  LogsMatchLedger
  SerialStatusIsLastStage
PROPERTIES
  CallsEnd
  SerialRefinesChain
CHECK_DEADLOCK FALSE
