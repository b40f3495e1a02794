SPECIFICATION Spec
CONSTANTS
  Sessions = {s1}
  NoSession = NoSession
  Calls = {}
  Endpoints = {}
  CycleCounts = {2}
  Modes = {"apply"}
  MaxProcs = 3
INVARIANT PatchedIsNoOp
CHECK_DEADLOCK FALSE
