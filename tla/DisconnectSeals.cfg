SPECIFICATION Spec
CONSTANTS
  Aliases = {a1, a2}
  MaxRuns = 3
  MaxCalls = 6
  Keywords = {"driver", "outer", "open", "close", "closeAll", "export", "disconnectDmm"}
  WritesFail = FALSE
SYMMETRY Symmetry
INVARIANT ManifestIsWhole
CHECK_DEADLOCK FALSE
