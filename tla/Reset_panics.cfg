SPECIFICATION FairMachineSpec
CONSTANTS
  SystemFS = {"ext2", "squashfs"}
  RecoveryFS = {"ext2", "squashfs"}
  FSOverride = TRUE
  HasOEM = FALSE
  HasPersistent = TRUE
  ChrootLeaks = TRUE
  MaxRuns = 2
  MaxFaults = 2
INVARIANT ResetUnmounts
PROPERTY CommandsEnd
CHECK_DEADLOCK FALSE
