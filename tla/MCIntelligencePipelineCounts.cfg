CONSTANTS
  LogOf <- MCLogOf
  MaterialityThreshold = 50000
  SystemicThreshold = 10
  Clients = {c1, c2}
  Batches <- MCBatches
  Claims <- MCClaims
  Payments <- MCPayments
  Amounts <- MCAmounts
  MaxBatches = 2
  MaxCycles = 2
  MaxFaults = 1
SYMMETRY ClientSymmetry
SPECIFICATION MCSpec
CHECK_DEADLOCK FALSE
INVARIANT CountMismatchIsFlagged
