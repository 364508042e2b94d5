----------------------------- MODULE LocalProcess -----------------------------
(***************************************************************************)
(* LocalProcessAdapter.run and its Linux, macOS, Windows and Termux        *)
(* subclasses: a coroutine for each command and the process group it       *)
(* started, a leader that may have forked one child.                       *)
(*                                                                         *)
(* The coroutine drains the output under a time limit, ends a process that *)
(* passed the output limit, that is late or whose caller cancelled, and    *)
(* returns.  A second cancel reaches it while it is ending a process.      *)
(*                                                                         *)
(* External: the operating system.  SIGKILL ends a process, SIGTERM one    *)
(* that does not ignore it, and both reach their target, but not at once.  *)
(* A process exits by itself or never does.                                *)
(***************************************************************************)
CONSTANTS
  Commands,   \* command ids: one run of an adapter each
  Platforms   \* the platforms the host may be

ASSUME PlatformsAssumption ==
  Platforms \subseteq {"linux", "macos", "windows", "termux"}

VARIABLES
  platform,   \* the adapter select_adapter chose
  call,       \* the run coroutine of each command
  proc        \* the processes of each command

processVars == <<platform, call, proc>>

Point == {"idle", "spawning", "draining", "waiting", "stopping", "done"}

\* Why a coroutine awaits _terminate.
Reason == {"none", "limit", "timeout", "cancel"}

Return == {"none", "succeeded", "failed", "timed_out", "cancelled", "raised"}

\* cut: history, a cancel interrupted an unfinished _terminate.
Call == [at : Point, why : Reason, ret : Return, cut : BOOLEAN]

Awaits(at, why) == [at |-> at, why |-> why, ret |-> "none", cut |-> FALSE]
Returned(ret, cut) == [at |-> "done", why |-> "none", ret |-> ret, cut |-> cut]

Member == {"leader", "child"}

\* over: the output passed its limit.  closed: both pipes are at their end.
\* term, kill: the members SIGTERM and SIGKILL were sent to.
Process ==
  [live : SUBSET Member, deaf : SUBSET Member, over : BOOLEAN, closed : BOOLEAN,
   term : SUBSET Member, kill : SUBSET Member, code : {"none", "zero", "other"}]

NoProcess ==
  [live |-> {}, deaf |-> {}, over |-> FALSE, closed |-> FALSE, term |-> {},
   kill |-> {}, code |-> "none"]

Started(live, deaf) == [NoProcess EXCEPT !.live = live, !.deaf = deaf]

ProcessTypeOK ==
  /\ platform \in Platforms
  /\ call \in [Commands -> Call]
  /\ proc \in [Commands -> Process]

ProcessInit ==
  /\ platform \in Platforms
  /\ call = [c \in Commands |-> Awaits("idle", "none")]
  /\ proc = [c \in Commands |-> NoProcess]

Alive(c) == "leader" \in proc[c].live

GoTo(c, r) == call' = [call EXCEPT ![c] = r]
Becomes(c, p) == proc' = [proc EXCEPT ![c] = p]

-----------------------------------------------------------------------------
(* The hook _terminate of each platform, up to its first await. *)

\* Termux, and the last resort of the others: the leader only.
BaseSignal(c) ==
  Becomes(c, [proc[c] EXCEPT !.kill = @ \cup {"leader"}])

\* start_new_session made a group of the process: all of it gets SIGTERM.
LinuxSignal(c) == Becomes(c, [proc[c] EXCEPT !.term = @ \cup proc[c].live])

MacSignal(c) == Becomes(c, [proc[c] EXCEPT !.term = @ \cup proc[c].live])

\* taskkill /T /F ends the tree; without taskkill the base hook is left.
WindowsSignal(c) ==
  \/ Becomes(c, [proc[c] EXCEPT !.kill = @ \cup proc[c].live])
  \/ BaseSignal(c)

Signal(c) ==
  \/ platform = "linux" /\ LinuxSignal(c)
  \/ platform = "macos" /\ MacSignal(c)
  \/ platform = "windows" /\ WindowsSignal(c)
  \/ platform = "termux" /\ BaseSignal(c)

\* What run does when _terminate has returned.
AfterTerminate(why) ==
  CASE why = "limit" -> Awaits("waiting", "none")
    [] why = "timeout" -> Returned("timed_out", FALSE)
    [] OTHER -> Returned("cancelled", FALSE)

\* With a return code there is nothing to end, whatever a child still does.
Terminate(c, why) ==
  \/ /\ Alive(c)
     /\ Signal(c)
     /\ GoTo(c, Awaits("stopping", why))
  \/ /\ ~Alive(c)
     /\ GoTo(c, AfterTerminate(why))
     /\ UNCHANGED proc

-----------------------------------------------------------------------------
(* The coroutine *)

Spawns(c) ==
  /\ call[c].at = "spawning"
  /\ GoTo(c, Awaits("draining", "none"))
  /\ \E child \in SUBSET {"child"} :
       \E deaf \in SUBSET ({"leader"} \cup child) :
         Becomes(c, Started({"leader"} \cup child, deaf))
  /\ UNCHANGED platform

\* FileNotFoundError and PermissionError are results, another OSError is raised.
SpawnFails(c) ==
  /\ call[c].at = "spawning"
  /\ \E ret \in {"failed", "raised"} : GoTo(c, Returned(ret, FALSE))
  /\ UNCHANGED <<platform, proc>>

AtEof(c) == proc[c].closed \/ proc[c].live = {}

\* The readers go on to the end of both streams before the limit has effect.
Drained(c) ==
  /\ call[c].at = "draining" /\ AtEof(c)
  /\ IF proc[c].over
     THEN Terminate(c, "limit")
     ELSE GoTo(c, Awaits("waiting", "none")) /\ UNCHANGED proc
  /\ UNCHANGED platform

Returns(c) ==
  /\ call[c].at = "waiting" /\ ~Alive(c)
  /\ GoTo(c, Returned(IF proc[c].code = "zero" THEN "succeeded" ELSE "failed",
                      FALSE))
  /\ UNCHANGED <<platform, proc>>

\* What wait_for covers: the drain, the wait, and an end for the output limit.
UnderTimeLimit(c) ==
  \/ call[c].at \in {"draining", "waiting"}
  \/ call[c].at = "stopping" /\ call[c].why = "limit"

TimesOut(c) ==
  /\ UnderTimeLimit(c)
  /\ Terminate(c, "timeout")
  /\ UNCHANGED platform

\* A cancel inside the handler of a timeout or of a cancel ends _terminate.
Cancel(c) ==
  /\ \/ UnderTimeLimit(c) /\ Terminate(c, "cancel")
     \/ /\ call[c].at = "spawning"
        /\ GoTo(c, Returned("cancelled", FALSE)) /\ UNCHANGED proc
     \/ /\ call[c].at = "stopping" /\ call[c].why # "limit"
        /\ GoTo(c, Returned("cancelled", TRUE)) /\ UNCHANGED proc
  /\ UNCHANGED platform

\* A second SIGTERM in place of SIGKILL.
GraceEndsPolitely(c) ==
  /\ call[c].at = "stopping" /\ proc[c].kill = {} /\ Alive(c)
  /\ Signal(c)
  /\ UNCHANGED <<platform, call>>

\* Two seconds after SIGTERM: SIGKILL for the group.
GraceEnds(c) ==
  /\ call[c].at = "stopping" /\ proc[c].kill = {} /\ Alive(c)
  /\ Becomes(c, [proc[c] EXCEPT !.kill = proc[c].live])
  /\ UNCHANGED <<platform, call>>

\* Nobody waits for the process after the signal.
StoppedUnseen(c) ==
  /\ call[c].at = "stopping"
  /\ GoTo(c, AfterTerminate(call[c].why))
  /\ UNCHANGED <<platform, proc>>

Stopped(c) ==
  /\ call[c].at = "stopping" /\ ~Alive(c)
  /\ GoTo(c, AfterTerminate(call[c].why))
  /\ UNCHANGED <<platform, proc>>

-----------------------------------------------------------------------------
(* The processes *)

Leaves(c, m, code) ==
  Becomes(c, [proc[c] EXCEPT !.live = @ \ {m}, !.deaf = @ \ {m},
                             !.term = @ \ {m}, !.kill = @ \ {m},
                             !.code = IF m = "leader" THEN code ELSE @])

Exits(c) ==
  /\ \E m \in proc[c].live : \E code \in {"zero", "other"} : Leaves(c, m, code)
  /\ UNCHANGED <<platform, call>>

Killed(c) ==
  /\ \E m \in proc[c].live :
       /\ m \in proc[c].kill \cup (proc[c].term \ proc[c].deaf)
       /\ Leaves(c, m, "other")
  /\ UNCHANGED <<platform, call>>

Writes(c) ==
  /\ proc[c].live # {} /\ ~proc[c].closed /\ call[c].at = "draining"
  /\ \/ Becomes(c, [proc[c] EXCEPT !.over = TRUE])
     \/ Becomes(c, [proc[c] EXCEPT !.closed = TRUE])
  /\ UNCHANGED <<platform, call>>

\* What goes on by itself: the coroutine and the processes.
RunStep(c) ==
  \/ Spawns(c) \/ SpawnFails(c) \/ Drained(c) \/ Returns(c) \/ TimesOut(c)
  \/ GraceEnds(c) \/ Stopped(c)
  \/ Exits(c) \/ Killed(c) \/ Writes(c)

Start(c) ==
  /\ call[c].at = "idle"
  /\ GoTo(c, Awaits("spawning", "none"))
  /\ UNCHANGED <<platform, proc>>

ProcessNext == \E c \in Commands : Start(c) \/ RunStep(c) \/ Cancel(c)

ProcessSpec == ProcessInit /\ [][ProcessNext]_processVars

\* The event loop runs what is ready, timers fire and signals arrive.
RunFairness(c) ==
  /\ WF_processVars(Spawns(c) \/ SpawnFails(c) \/ Drained(c) \/ Returns(c))
  /\ WF_processVars(TimesOut(c))
  /\ WF_processVars(GraceEnds(c))
  /\ WF_processVars(Stopped(c))
  /\ WF_processVars(Killed(c))

FairProcessSpec == ProcessSpec /\ \A c \in Commands : RunFairness(c)

-----------------------------------------------------------------------------
(* Properties *)

\* When run has returned, the leader of the command is gone: on every platform
\* and in every order of output limit, timeout, exit and cancel, except where a
\* second cancel cut the grace period of the first short.
OnlyACutLeavesAProcess ==
  \A c \in Commands : call[c].at = "done" /\ ~call[c].cut => ~Alive(c)

\* Every run returns, also when its process ignores SIGTERM, never closes its
\* output or never exits: timer, grace period and SIGKILL end it.
RunsEnd ==
  \A c \in Commands : call[c].at = "spawning" ~> call[c].at = "done"
=============================================================================
