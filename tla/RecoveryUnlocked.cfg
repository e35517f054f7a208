SPECIFICATION FairSpec
CONSTANTS
  Threads = {t1, t2}
  Nobody = Nobody
  ClearDrains = TRUE
  FlushWaits = TRUE
  IsSerial = FALSE
  RetryQueries = TRUE
  MaxRetries = 1
  MaxDrain = 2
  Ops = {"query", "measure", "recover"}
  MaxCalls = 2
  MaxQuestions = 30
INVARIANTS OwnAnswersOnly NothingLeftBehind
PROPERTIES CallsReturn CallsAreBounded
