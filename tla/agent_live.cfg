\* One request at a time, the server stays up, every other action type.
SPECIFICATION SteadySpec
CONSTANTS
  None = None
  h1 = h1
  h2 = h2
  t1 = t1
  t2 = t2
  a1 = a1
  a2 = a2
  a3 = a3
  Handlers <- OneHandler
  Tasks <- OneTask
  ActionIds <- TwoActions
  Types = {"ANALYZE_OUTPUT", "VERIFY_FINDING", "COLLECT_INFORMATION", "CHECK_ENVIRONMENT", "DISCOVER_TARGET", "RESEARCH_TOOL", "GENERATE_REPORT", "ASK_USER", "WAIT_FOR_APPROVAL"}
  DiagnosticFailures = {"timeout", "missing_dependency"}
  MaxActions = 2
  MaxModelCalls = 2
  MaxInstalls = 1
  MaxRetries = 1
  MaxConcurrentTasks = 1
PROPERTY TasksSettle
CHECK_DEADLOCK FALSE
