SPECIFICATION Spec
CONSTANTS
  Threads = {t1}
  Nobody = Nobody
  Functions = {volt, res, freq}
  LateFunctions = {freq}
  Settings = {short, long}
  Default = short
  PowerOn = volt
  NoConfig = NoConfig
  Rejected = Rejected
  RetryQueries = TRUE
  Ops = {"configure", "measure", "read_once", "read_once_bus", "recover", "set_trigger", "initiate", "trigger_bus", "fetch", "read_query", "identify", "reset", "close", "connect"}
  MaxCalls = 4
INVARIANT TypeOK
INVARIANT ReadingIsLabelled
PROPERTY BusIsNotForgotten
