\* One request at a time on two tasks, restarts anywhere.
SPECIFICATION Spec
CONSTANTS
  None = None
  h1 = h1
  h2 = h2
  t1 = t1
  t2 = t2
  a1 = a1
  a2 = a2
  a3 = a3
  Handlers <- OneHandler
  Tasks <- TwoTasks
  ActionIds <- TwoActions
  Types = {"COLLECT_INFORMATION", "INSTALL_TOOL"}
  DiagnosticFailures = {"timeout"}
  MaxActions = 2
  MaxModelCalls = 2
  MaxInstalls = 1
  MaxRetries = 0
  MaxConcurrentTasks = 1
SYMMETRY Symmetry
INVARIANTS TypeOK RunsAtMostOnce EffectsOnRecord ActiveTasksWithinLimit
PROPERTY ImplementsLifecycle
CHECK_DEADLOCK FALSE
