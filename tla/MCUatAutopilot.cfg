SPECIFICATION MCSpec
CONSTANTS
  Sessions = {s1, s2}
  First = s1
  NoSession = NoSession
  Calls = {c1}
  Endpoints = {"autopilot_stop", "run_start", "run_stop", "approve", "phase2_apply"}
  CycleCounts = {1, 2}
  Modes = {"advisory", "apply", "manual_approval"}
  MaxProcs = 2
INVARIANTS
  AppliedIsApproved
  JudgedIsOwn
  RunningIsBacked
PROPERTY StopEnds
CHECK_DEADLOCK FALSE
