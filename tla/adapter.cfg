\* One command on every platform.
SPECIFICATION FairProcessSpec
CONSTANTS
  c1 = c1
  Commands <- OneCommand
  Platforms <- AllPlatforms
INVARIANTS OnlyACutLeavesAProcess
PROPERTIES RunsEnd
CHECK_DEADLOCK FALSE
