SPECIFICATION StagesSpec
CONSTANTS
  ExtraMounts <- MCExtraMounts
  MaxCalls = 4
  MaxFaults = 3
  Paths <- MCPaths
  Remote = {"https"}
  SetupURIs = {"setup"}
INVARIANTS Tracked LeakOnlyWithError StagesComplete HooksReport
CHECK_DEADLOCK FALSE
