\* Two tasks that fail five times between them, in every order and every way.
SPECIFICATION Spec
CONSTANTS
  a1 = a1
  a2 = a2
  Tasks <- TwoTasks
  Signals <- EachStrategy
  MaxRetries = 2
  MaxMultiplier = 4
  MaxAttempts = 5
INVARIANT UnattendedRetriesBounded
CHECK_DEADLOCK FALSE
