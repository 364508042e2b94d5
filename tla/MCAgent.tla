-------------------------------- MODULE MCAgent --------------------------------
(***************************************************************************)
(* Small instances of AgentOrchestrator.                                   *)
(***************************************************************************)
EXTENDS AgentOrchestrator, TLC

CONSTANTS h1, h2, t1, t2, a1, a2, a3

OneHandler == {h1}
TwoHandlers == {h1, h2}
OneTask == {t1}
TwoTasks == {t1, t2}
OneAction == {a1}
TwoActions == {a1, a2}
ThreeActions == {a1, a2, a3}

\* Requests are interchangeable, and so are tasks.  Not used with liveness.
Symmetry ==
  Permutations(Handlers) \cup Permutations(Tasks)
=============================================================================
