---------------------------- MODULE TerminalService ----------------------------
(***************************************************************************)
(* What the terminal promises those who run commands on it: a command is   *)
(* begun once and in an open session, or it is refused and nothing runs;   *)
(* what becomes of it is decided once, and only a second cancel changes    *)
(* it; it is answered with that, when its process is gone, unless a cancel *)
(* would not wait.  Sessions close for good, and no more are open than the *)
(* limit.                                                                  *)
(***************************************************************************)
EXTENDS Naturals, FiniteSets

CONSTANTS
  Sessions, Commands, None,
  MaxSessions,  \* how many sessions may be open at a time
  Refusals      \* the answers to a command that is not begun

VARIABLES
  door,      \* each session: "none", "open" or "closed"
  place,     \* the session of each command that was begun
  phase,     \* how far each command is
  outcome,   \* what became of it, "none" before it is decided
  alive      \* the commands that have a process

vars == <<door, place, phase, outcome, alive>>

Open == {s \in Sessions : door[s] = "open"}

Init ==
  /\ door = [s \in Sessions |-> "none"]
  /\ place = [c \in Commands |-> None]
  /\ phase = [c \in Commands |-> "new"]
  /\ outcome = [c \in Commands |-> "none"]
  /\ alive = {}

-----------------------------------------------------------------------------
(* Sessions *)

\* Sessions close by themselves as well, also when another one is looked for.
Shut(gone) == [s \in Sessions |-> IF s \in gone THEN "closed" ELSE door[s]]

CloseSessions(gone) ==
  /\ door' = Shut(gone)
  /\ UNCHANGED <<place, phase, outcome, alive>>

OpenSession(s, gone) ==
  /\ door[s] = "none" /\ Cardinality(Open \ gone) < MaxSessions
  /\ door' = [Shut(gone) EXCEPT ![s] = "open"]
  /\ UNCHANGED <<place, phase, outcome, alive>>

-----------------------------------------------------------------------------
(* Commands *)

Moves(c, from, to) == phase[c] = from /\ phase' = [phase EXCEPT ![c] = to]

Decides(c, results) == \E r \in results : outcome' = [outcome EXCEPT ![c] = r]

\* Nothing of the command ever runs.  Its session may be found to have expired.
Refuse(c, gone) ==
  /\ Moves(c, "new", "refused")
  /\ Decides(c, Refusals)
  /\ door' = Shut(gone)
  /\ UNCHANGED <<place, alive>>

Begin(c, s) ==
  /\ Moves(c, "new", "starting")
  /\ s \in Open
  /\ place' = [place EXCEPT ![c] = s]
  /\ UNCHANGED <<door, outcome, alive>>

ProcessStarts(c) ==
  /\ Moves(c, "starting", "running")
  /\ alive' = alive \cup {c}
  /\ UNCHANGED <<door, place, outcome>>

\* Also long after the command was answered, if a cancel left it behind.
ProcessEnds(c) ==
  /\ c \in alive
  /\ alive' = alive \ {c}
  /\ UNCHANGED <<door, place, phase, outcome>>

\* No process could be started, or it was cancelled before.
EndsUnstarted(c) ==
  /\ Moves(c, "starting", "over")
  /\ Decides(c, {"FAILED", "error", "CANCELLED"})
  /\ UNCHANGED <<door, place, alive>>

EndsByItself(c) ==
  /\ c \notin alive
  /\ Moves(c, "running", "over")
  /\ Decides(c, {"COMPLETED", "FAILED"})
  /\ UNCHANGED <<door, place, alive>>

\* By its timeout or by a cancel: its process has to be ended first.
IsStopped(c) ==
  /\ Moves(c, "running", IF c \in alive THEN "stopping" ELSE "over")
  /\ Decides(c, {"TIMEOUT", "CANCELLED"})
  /\ UNCHANGED <<door, place, alive>>

HasStopped(c) ==
  /\ c \notin alive
  /\ Moves(c, "stopping", "over")
  /\ UNCHANGED <<door, place, outcome, alive>>

\* A cancel while the command is being stopped: nobody waits for its process.
Abandon(c) ==
  /\ Moves(c, "stopping", "over")
  /\ Decides(c, {"CANCELLED"})
  /\ UNCHANGED <<door, place, alive>>

Answer(c) ==
  /\ Moves(c, "over", "answered")
  /\ UNCHANGED <<door, place, outcome, alive>>

-----------------------------------------------------------------------------

Next ==
  \/ \E gone \in SUBSET Open :
       \/ CloseSessions(gone)
       \/ \E s \in Sessions : OpenSession(s, gone)
       \/ \E c \in Commands : Refuse(c, gone)
  \/ \E c \in Commands :
       \/ \E s \in Sessions : Begin(c, s)
       \/ ProcessStarts(c) \/ ProcessEnds(c) \/ EndsUnstarted(c) \/ EndsByItself(c)
       \/ IsStopped(c) \/ HasStopped(c) \/ Abandon(c) \/ Answer(c)

Spec == Init /\ [][Next]_vars
=============================================================================
