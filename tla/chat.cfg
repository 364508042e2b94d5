\* One request of any kind, five attempts: the backoff meets its limit.
SPECIFICATION FairSpec
CONSTANTS
  t1 = t1
  Turns <- OneTurn
  MaxAttempts = 5
  BaseDelay = 1
  MaxDelay = 8
INVARIANTS RetriesAreWorthwhile StatusTellsCause
PROPERTIES TurnsAnswered
CHECK_DEADLOCK FALSE
