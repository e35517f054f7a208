SPECIFICATION FairSpec
CONSTANTS
  Threads = {t1}
  Nobody = Nobody
  ClearDrains = FALSE
  FlushWaits = TRUE
  IsSerial = TRUE
  RetryQueries = TRUE
  MaxRetries = 2
  MaxDrain = 2
  Ops = {"query", "read", "write", "measure", "self_test"}
  MaxCalls = 2
  MaxQuestions = 30
INVARIANTS TypeOK ReadyMeansUnblocked
PROPERTIES ImplementsStrictExchange RereadIsConfigured RetryFollowsClear ReadHasItsTimeout
