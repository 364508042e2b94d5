\* Two steps of one task overlap.
SPECIFICATION SteadySpec
CONSTANTS
  None = None
  h1 = h1
  h2 = h2
  t1 = t1
  t2 = t2
  a1 = a1
  a2 = a2
  a3 = a3
  Handlers <- TwoHandlers
  Tasks <- OneTask
  ActionIds <- TwoActions
  Types = {"RUN_DIAGNOSTIC"}
  DiagnosticFailures = {"timeout"}
  MaxActions = 2
  MaxModelCalls = 2
  MaxInstalls = 1
  MaxRetries = 1
  MaxConcurrentTasks = 1
INVARIANT RunsAtMostOnce
CHECK_DEADLOCK FALSE
