SPECIFICATION MachineSpec
CONSTANTS
  SystemFS = {"ext2", "squashfs"}
  RecoveryFS = {"ext2"}
  FSOverride = FALSE
  HasOEM = TRUE
  HasPersistent = FALSE
  ChrootLeaks = TRUE
  MaxRuns = 3
  MaxFaults = 2
INVARIANTS
  ResetDelivers
  ResetRepairs
  UpgradesUnaffected
  SingleFaultBoots
CHECK_DEADLOCK FALSE
