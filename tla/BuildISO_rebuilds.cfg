SPECIFICATION BuildSpec
CONSTANTS
  ExtraMounts <- MCExtraMounts
  MaxCalls = 2
  MaxFaults = 3
  Specs <- MCSpecs
  Systems = {"os", "osImage"}
  Images = {"osImage"}
  LoaderSources = {"loaderISO"}
  EFISizes = {0, 6, 7, 8}
  Align = 8
  Overhead = 2
  MaxBuilds = 3
INVARIANTS ISODelivers VerifiedISOWhole SuccessKeepsHost FittingBuildSucceeds
CHECK_DEADLOCK FALSE
