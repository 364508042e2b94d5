\* Two commands and one reconnect.
SPECIFICATION FairSpec
CONSTANTS
  c1 = c1
  c2 = c2
  Commands <- TwoCommands
  MaxConnections = 2
INVARIANTS EndsAreTrue EndsOnTheirConnection NothingRunsUnwatched
PROPERTIES CommandsSettle
CHECK_DEADLOCK FALSE
