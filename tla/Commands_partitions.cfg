SPECIFICATION Spec
CONSTANTS
  Hosts <- MCHosts
  Releases <- MCReleases
  Files <- MCFiles
  Dropins <- MCDropins
  Environments <- MCEnvironments
  FlagSets <- MCFlagSets
  Arguments = {"", "disk2", "docker:Bad"}
  Undecodable = {"docker:Bad"}
  Paths = {"there"}
INVARIANTS PartitionsKeepDefaults
CHECK_DEADLOCK FALSE
