SPECIFICATION Spec
CONSTANTS
  Threads = {t1}
  Nobody = Nobody
  Functions = {volt, res}
  LateFunctions = {}
  Settings = {short, long}
  Default = short
  PowerOn = volt
  NoConfig = NoConfig
  Rejected = Rejected
  RetryQueries = TRUE
  Ops = {"configure", "identify", "read_once"}
  MaxCalls = 4
INVARIANT NoFalseLabel
