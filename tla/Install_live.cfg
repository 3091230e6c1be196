SPECIFICATION LiveSpec
CONSTANTS
  SystemFS = {"ext2", "squashfs"}
  RecoveryFS = {"ext2", "squashfs"}
  FSOverride = TRUE
  HasOEM = TRUE
  HasPersistent = TRUE
  ChrootLeaks = TRUE
  Options <- MCOptions
  MaxRuns = 2
  MaxFaults = 2
INVARIANTS
  InstallDelivers
  InstallRepairs
  InstallCleansUp
  NoFormatKeepsBootable
CHECK_DEADLOCK FALSE
