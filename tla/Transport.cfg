\* Both kinds of clear are run: this one leaves answers in flight.
SPECIFICATION Spec
CONSTANTS
  Callers = {t1, t2}
  Nobody = Nobody
  ClearDrains = FALSE
  RawQuestions = TRUE
  MaxQuestions = 4
INVARIANTS FlagCoversLine OneOutstanding NoStaleAnswer
PROPERTY ImplementsExchange
