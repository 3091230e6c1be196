SPECIFICATION Spec
CONSTANTS
  SectorsPerMiB = 2
  GPTBackup = 1
  MaxParts = 128
  Sizes = {5, 7}
  Tables <- MCTables
  Layouts <- MCLayouts
  Installs <- MCInstalls
  MaxRuns = 3
  MaxFaults = 1
INVARIANTS
  FormatsItsOwn
  LayoutKeeps
  LayoutDelivers
  LayoutStable
  InstallDelivers
  FittingInstallSucceeds
CHECK_DEADLOCK FALSE
