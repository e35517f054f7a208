SPECIFICATION Spec
CONSTANTS
  Threads = {t1, t2}
  Nobody = Nobody
  Functions = {volt, res}
  LateFunctions = {}
  Settings = {short, long}
  Default = short
  PowerOn = volt
  NoConfig = NoConfig
  Rejected = Rejected
  RetryQueries = TRUE
  Ops = {"measure", "read_once", "read_once_bus", "identify", "recover"}
  MaxCalls = 3
INVARIANT MeasureIsAsked
