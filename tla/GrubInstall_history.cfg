SPECIFICATION Spec
CONSTANTS
  MaxEntry = 2
  Images <- MCImages
  MaxRuns = 3
  MaxFaults = 2
INVARIANTS
  BootsElemental
  EntriesSound
  OthersKeepTheirOrder
  RetrySucceeds
PROPERTIES
  OthersUntouched
CHECK_DEADLOCK FALSE
