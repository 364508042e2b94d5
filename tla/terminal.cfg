\* Two commands on two session ids, with room for one session.
SPECIFICATION Spec
CONSTANTS
  None = None
  s1 = s1
  s2 = s2
  c1 = c1
  c2 = c2
  Commands <- TwoCommands
  Platforms <- OnlyTermux
  Sessions <- TwoSessions
  MaxSessions = 1
SYMMETRY Symmetry
INVARIANTS RunningSessionHasCommand
PROPERTIES ClosedForGood ImplementsTerminalService
CHECK_DEADLOCK FALSE
