SPECIFICATION Spec
CONSTANTS
  Aliases = {a1, a2}
  MaxRuns = 3
  MaxCalls = 6
  Keywords = {"driver", "outer", "open", "close", "closeAll", "export"}
  WritesFail = TRUE
SYMMETRY Symmetry
INVARIANTS TrafficReachesTheRun BundleIsASnapshot ManifestIsWhole SuiteEndSeals
PROPERTY ImplementsJournal
CHECK_DEADLOCK FALSE
