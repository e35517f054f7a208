SPECIFICATION Spec
CONSTANTS
  Workers = {w1, w2}
  Nobody = Nobody
  MaxClicks = 5
  MaxDrivers = 2
INVARIANTS TypeOK NoDriverIsLost OneMoreReading StatusSettles
PROPERTY StopEndsTheLoop
CHECK_DEADLOCK FALSE
