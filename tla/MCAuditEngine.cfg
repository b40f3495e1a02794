CONSTANTS
  SodMatrix <- MCSodMatrix
  Roles <- MCRoles
  DutiesOf <- MCDutiesOf
  PrivilegedRoles <- MCPrivilegedRoles
  GenericAccounts <- MCGenericAccounts
  MaxPrivileged = 0
  HighVelocityThreshold = 1
  NamesIn <- MCNamesIn
  Uploads <- MCUploads
  Verdicts = {"confirmed"}
  MaxRuns = 1
  MaxVerdicts = 1
  Populations <- MCPopulations
  SampleSizes <- MCSampleSizes
  ConfidenceFactor = 1
  Denominator = 2
SPECIFICATION MCSpec
CHECK_DEADLOCK FALSE
INVARIANTS SheetsDoNotMatter ConflictsMatchRows AccusationsAreJustified LessDataNoWorse AllOrNothing SampleIsFull SelectionIsProportional
