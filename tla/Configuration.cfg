SPECIFICATION Spec
CONSTANTS
  Procs = {p1, p2}
  Names = {"n1"}
  Unsafe = "../n"
  Exported = {"out"}
  Bodies = {"b1", "bad"}
  BadBodies = {"bad"}
  MaxCalls = 4
INVARIANTS EffectiveIsValid ProfilesAreWhole NoLitter
CHECK_DEADLOCK FALSE
