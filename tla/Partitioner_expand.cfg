SPECIFICATION Spec
CONSTANTS
  SectorsPerMiB = 2
  GPTBackup = 1
  MaxParts = 128
  Sizes = {5, 7}
  Tables <- MCTables
  Layouts <- MCLayouts
  Installs <- MCInstalls
  MaxRuns = 1
  MaxFaults = 0
INVARIANTS
  ExpansionNeverLoses
CHECK_DEADLOCK FALSE
