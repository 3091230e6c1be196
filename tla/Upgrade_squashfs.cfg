SPECIFICATION Spec
CONSTANTS
  SystemFS = {"ext2", "squashfs"}
  RecoveryFS = {"ext2", "squashfs"}
  FSOverride = FALSE
  HasOEM = TRUE
  HasPersistent = TRUE
  ChrootLeaks = TRUE
  MaxRuns = 1
  MaxFaults = 0
INVARIANTS
  SquashfsActiveUpgrades
CHECK_DEADLOCK FALSE
