SPECIFICATION Spec
CONSTANTS
  SystemFS = {"ext2"}
  RecoveryFS = {"ext2", "squashfs"}
  FSOverride = FALSE
  HasOEM = TRUE
  HasPersistent = TRUE
  ChrootLeaks = TRUE
  MaxRuns = 3
  MaxFaults = 2
INVARIANTS
  RotationSafe
  SingleFaultBootable
  DeliversRequestedImage
  StateYamlAccurate
  GrubMatchesImages
  CleanedUp
  RetrySucceeds
PROPERTIES HostDataKept ImplementsImageSlots
CHECK_DEADLOCK FALSE
