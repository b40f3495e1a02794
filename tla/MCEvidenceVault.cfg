SPECIFICATION MCSpec
CONSTANTS
  Tasks = {t1}
  Submissions = {c1}
  NoWriter = NoWriter
  p = p
  pKeysMoved = pKeysMoved
  q = q
  Payloads = {p, pKeysMoved, q}
  canonical <- MCcanonical
  raw_payload <- MCraw_payload
  NoHash = NoHash
  max_retries = 2
  hours_lookback = 2
  MaxHours = 3
  MaxFaults = 2
INVARIANTS
  LedgerMatchesVault
  RepeatsExplainCopies
  NeverOverstated
  OneMissTolerated
PROPERTY EvidenceArrives
CHECK_DEADLOCK FALSE
