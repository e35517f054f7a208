SPECIFICATION Spec
CONSTANTS
  Aliases = {a1, a2}
  Resources = {r1, r2}
  NoAlias = NoAlias
  MaxDrivers = 3
  Docs <- MCDocs
  Default = "packaged"
  RawDocs <- MCRawDocs
  Lacks <- MCLacks
SYMMETRY Symmetry
INVARIANTS
  NoForgottenDriver SomethingIsSelected SessionIdsAreUnique
  HealthIsOfThisDriver PolicyIsUniform
CHECK_DEADLOCK FALSE
