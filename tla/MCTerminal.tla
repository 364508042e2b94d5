------------------------------ MODULE MCTerminal ------------------------------
(* Values for the constants of TerminalEngine and LocalProcess.  No property *)
(* of the run of the engine is about liveness, so its ids are symmetric.     *)
EXTENDS TerminalEngine, TLC

CONSTANTS s1, s2, c1, c2

AllPlatforms == {"linux", "macos", "windows", "termux"}
OnlyTermux == {"termux"}
TwoSessions == {s1, s2}
TwoCommands == {c1, c2}
Symmetry == Permutations(TwoSessions) \cup Permutations(TwoCommands)
=============================================================================
