------------------------- MODULE TerminalEngine_proofs -------------------------
(***************************************************************************)
(* Proofs about LocalProcess and TerminalEngine for every set of commands, *)
(* sessions and platforms and every session limit.  The runs of the        *)
(* adapter come first and have an invariant of their own: a run that has   *)
(* returned left no process, unless a cancel cut the end of its process    *)
(* short.  The engine's adds that a RUNNING session has a command in       *)
(* flight.  Last, the engine implements TerminalService: RunMoves says how *)
(* each step of a run looks to its caller, ServiceInv how runs and answers *)
(* go together.                                                            *)
(***************************************************************************)
EXTENDS TerminalEngine, FiniteSetTheorems, TLAPS


\* A process exists only from its spawning on, and a run that is over has ended
\* it or was cut short.
GoodRun(c) ==
  /\ call[c].at \in {"idle", "spawning"} => proc[c].live = {}
  /\ call[c].at = "done" /\ ~call[c].cut => ~Alive(c)
  /\ call[c].at = "stopping" => call[c].why # "none"

ProcessInv == ProcessTypeOK /\ \A c \in Commands : GoodRun(c)

-----------------------------------------------------------------------------

LEMMA ProcessInitIsOK == ProcessInit => ProcessInv
<1> SUFFICES ASSUME ProcessInit  PROVE ProcessInv
  OBVIOUS
<1>1. Awaits("idle", "none") \in Call
  BY DEF Awaits, Call, Point, Reason, Return
<1>2. NoProcess \in Process
  BY DEF NoProcess, Process
<1>3. ASSUME NEW c \in Commands  PROVE GoodRun(c)
  BY DEF ProcessInit, GoodRun, NoProcess, Awaits
<1>4. QED  BY <1>1, <1>2, <1>3 DEF ProcessInit, ProcessInv, ProcessTypeOK

\* The parts of a process and of a call.
LEMMA Parts ==
  ASSUME ProcessTypeOK, NEW c \in Commands
  PROVE  /\ proc[c] \in Process /\ call[c] \in Call
         /\ proc[c].live \in SUBSET Member /\ proc[c].deaf \in SUBSET Member
         /\ proc[c].term \in SUBSET Member /\ proc[c].kill \in SUBSET Member
  BY DEF ProcessTypeOK, Process, Call

\* A step that gives one command a new call and a new process.
LEMMA OneRunChanges ==
  ASSUME ProcessInv, NEW c \in Commands, NEW r \in Call, NEW p \in Process,
         GoTo(c, r), Becomes(c, p), UNCHANGED platform,
         r.at \in {"idle", "spawning"} => p.live = {},
         r.at = "done" /\ ~r.cut => "leader" \notin p.live,
         r.at = "stopping" => r.why # "none"
  PROVE  ProcessInv'
<1>1. /\ call' = [call EXCEPT ![c] = r] /\ proc' = [proc EXCEPT ![c] = p]
  BY DEF GoTo, Becomes
<1>2. call \in [Commands -> Call] /\ proc \in [Commands -> Process] /\ platform \in Platforms
  BY DEF ProcessInv, ProcessTypeOK
<1>3. ProcessTypeOK'
  BY <1>1, <1>2 DEF ProcessTypeOK
<1>4. call'[c] = r /\ proc'[c] = p
  BY <1>1, <1>2
<1>5. GoodRun(c)'
  BY <1>4 DEF GoodRun, Alive
<1>6. ASSUME NEW d \in Commands \ {c}  PROVE GoodRun(d)'
  <2>1. call'[d] = call[d] /\ proc'[d] = proc[d]
    BY <1>1, <1>2
  <2>2. QED  BY <2>1 DEF ProcessInv, GoodRun, Alive
<1>7. QED  BY <1>3, <1>5, <1>6 DEF ProcessInv

\* What is left alone is given its own value.
LEMMA SameProcess ==
  ASSUME ProcessInv, NEW c \in Commands, UNCHANGED proc  PROVE Becomes(c, proc[c])
  BY DEF ProcessInv, ProcessTypeOK, Becomes

LEMMA SameCall ==
  ASSUME ProcessInv, NEW c \in Commands, UNCHANGED call  PROVE GoTo(c, call[c])
  BY DEF ProcessInv, ProcessTypeOK, GoTo

LEMMA Constructors ==
  /\ \A at \in Point, why \in Reason : Awaits(at, why) \in Call
  /\ \A ret \in Return, cut \in BOOLEAN : Returned(ret, cut) \in Call
  /\ \A live, deaf \in SUBSET Member : Started(live, deaf) \in Process
  BY DEF Awaits, Returned, Call, Point, Reason, Return, Started, NoProcess, Process, Member

\* Signals and their history leave alone who lives.
LEMMA SignalType ==
  ASSUME ProcessInv, NEW c \in Commands, Signal(c)
  PROVE  \E p \in Process : Becomes(c, p)
<1>1. /\ proc[c] \in Process
      /\ proc[c].live \in SUBSET Member
      /\ proc[c].term \in SUBSET Member /\ proc[c].kill \in SUBSET Member
  BY Parts DEF ProcessInv
<1>2. /\ [proc[c] EXCEPT !.kill = @ \cup {"leader"}] \in Process
      /\ [proc[c] EXCEPT !.kill = @ \cup proc[c].live] \in Process
      /\ [proc[c] EXCEPT !.term = @ \cup proc[c].live] \in Process
  BY <1>1 DEF Process, Member
<1>3. QED
  BY <1>2 DEF Signal, LinuxSignal, MacSignal, WindowsSignal, BaseSignal

\* What follows a _terminate is the end of the run or its wait.
LEMMA AfterTerminateType ==
  ASSUME NEW why \in Reason
  PROVE  /\ AfterTerminate(why) \in Call
         /\ AfterTerminate(why).at \in {"waiting", "done"}
  BY DEF AfterTerminate, Awaits, Returned, Call, Point, Reason, Return

LEMMA TerminateKeepsInv ==
  ASSUME ProcessInv, NEW c \in Commands, NEW why \in Reason \ {"none"},
         Terminate(c, why), UNCHANGED platform
  PROVE  ProcessInv'
<1>1. CASE Alive(c) /\ Signal(c) /\ GoTo(c, Awaits("stopping", why))
  <2>1. PICK p \in Process : Becomes(c, p)
    BY <1>1, SignalType
  <2>2. Awaits("stopping", why) \in Call
    BY Constructors DEF Point
  <2>3. Awaits("stopping", why).at = "stopping" /\ Awaits("stopping", why).why = why
    BY DEF Awaits
  <2>4. QED  BY <1>1, <2>1, <2>2, <2>3, OneRunChanges
<1>2. CASE ~Alive(c) /\ GoTo(c, AfterTerminate(why)) /\ UNCHANGED proc
  <2>1. proc[c] \in Process
    BY Parts DEF ProcessInv
  <2>2. Becomes(c, proc[c])
    BY <1>2, SameProcess
  <2>3. QED  BY <1>2, <2>1, <2>2, AfterTerminateType, OneRunChanges DEF Alive
<1>3. QED  BY <1>1, <1>2 DEF Terminate

\* A step of the coroutine that leaves its process alone.
LEMMA CallMoves ==
  ASSUME ProcessInv, NEW c \in Commands, NEW r \in Call, GoTo(c, r),
         UNCHANGED <<platform, proc>>,
         r.at \in {"idle", "spawning"} => call[c].at \in {"idle", "spawning"},
         r.at = "done" /\ ~r.cut => ~Alive(c),
         r.at = "stopping" => r.why # "none"
  PROVE  ProcessInv'
<1>1. proc[c] \in Process
  BY Parts DEF ProcessInv
<1>2. Becomes(c, proc[c])
  BY SameProcess
<1>3. r.at \in {"idle", "spawning"} => proc[c].live = {}
  BY DEF ProcessInv, GoodRun
<1>4. QED  BY <1>1, <1>2, <1>3, OneRunChanges DEF Alive

\* A step of a process that starts nobody.
LEMMA ProcessMoves ==
  ASSUME ProcessInv, NEW c \in Commands, NEW p \in Process, Becomes(c, p),
         UNCHANGED <<platform, call>>, p.live \subseteq proc[c].live
  PROVE  ProcessInv'
<1>1. call[c] \in Call
  BY Parts DEF ProcessInv
<1>2. GoTo(c, call[c])
  BY SameCall
<1>3. GoodRun(c)
  BY DEF ProcessInv
<1>4. QED  BY <1>1, <1>2, <1>3, OneRunChanges DEF GoodRun, Alive

LEMMA LeavesType ==
  ASSUME ProcessInv, NEW c \in Commands, NEW x \in proc[c].live,
         NEW code \in {"zero", "other"}, Leaves(c, x, code)
  PROVE  \E p \in Process : Becomes(c, p) /\ p.live \subseteq proc[c].live
<1> DEFINE p == [proc[c] EXCEPT !.live = @ \ {x}, !.deaf = @ \ {x},
                                !.term = @ \ {x}, !.kill = @ \ {x},
                                !.code = IF x = "leader" THEN code ELSE @]
<1>1. proc[c] \in Process
  BY Parts DEF ProcessInv
<1>2. p \in Process /\ p.live \subseteq proc[c].live
  BY <1>1 DEF Process
<1>3. Becomes(c, p)
  BY DEF Leaves
<1> HIDE DEF p
<1>4. QED  BY <1>2, <1>3

LEMMA StartKeepsInv ==
  ASSUME ProcessInv, NEW c \in Commands, Start(c)  PROVE ProcessInv'
<1>1. Awaits("spawning", "none") \in Call
  BY Constructors DEF Point, Reason
<1>2. Awaits("spawning", "none").at = "spawning"
  BY DEF Awaits
<1>3. QED  BY <1>1, <1>2, CallMoves DEF Start

LEMMA CancelKeepsInv ==
  ASSUME ProcessInv, NEW c \in Commands, Cancel(c)  PROVE ProcessInv'
<1>1. CASE UnderTimeLimit(c) /\ Terminate(c, "cancel")
  BY <1>1, TerminateKeepsInv DEF Cancel, Reason
<1>2. CASE /\ call[c].at = "spawning"
           /\ GoTo(c, Returned("cancelled", FALSE)) /\ UNCHANGED proc
  <2>1. Returned("cancelled", FALSE) \in Call
    BY Constructors DEF Return
  <2>2. Returned("cancelled", FALSE).at = "done"
    BY DEF Returned
  <2>3. ~Alive(c)
    BY <1>2 DEF ProcessInv, GoodRun, Alive
  <2>4. QED  BY <1>2, <2>1, <2>2, <2>3, CallMoves DEF Cancel
<1>3. CASE /\ call[c].at = "stopping" /\ call[c].why # "limit"
           /\ GoTo(c, Returned("cancelled", TRUE)) /\ UNCHANGED proc
  <2>1. Returned("cancelled", TRUE) \in Call
    BY Constructors DEF Return
  <2>2. Returned("cancelled", TRUE).at = "done" /\ Returned("cancelled", TRUE).cut
    BY DEF Returned
  <2>3. QED  BY <1>3, <2>1, <2>2, CallMoves DEF Cancel
<1>4. QED  BY <1>1, <1>2, <1>3 DEF Cancel

LEMMA RunStepKeepsInv ==
  ASSUME ProcessInv, NEW c \in Commands, RunStep(c)  PROVE ProcessInv'
<1>1. CASE Spawns(c)
  <2>1. PICK child \in SUBSET {"child"} : \E deaf \in SUBSET ({"leader"} \cup child) :
          Becomes(c, Started({"leader"} \cup child, deaf))
    BY <1>1 DEF Spawns
  <2>2. PICK deaf \in SUBSET ({"leader"} \cup child) :
          Becomes(c, Started({"leader"} \cup child, deaf))
    BY <2>1
  <2>3. Started({"leader"} \cup child, deaf) \in Process
    BY Constructors DEF Member
  <2>4. Awaits("draining", "none") \in Call
    BY Constructors DEF Point, Reason
  <2>5. Awaits("draining", "none").at = "draining"
    BY DEF Awaits
  <2>6. QED  BY <1>1, <2>2, <2>3, <2>4, <2>5, OneRunChanges DEF Spawns
<1>2. CASE SpawnFails(c)
  <2>1. PICK ret \in {"failed", "raised"} : GoTo(c, Returned(ret, FALSE))
    BY <1>2 DEF SpawnFails
  <2>2. Returned(ret, FALSE) \in Call
    BY Constructors DEF Return
  <2>3. Returned(ret, FALSE).at = "done"
    BY DEF Returned
  <2>4. ~Alive(c)
    BY <1>2 DEF SpawnFails, ProcessInv, GoodRun, Alive
  <2>5. QED  BY <1>2, <2>1, <2>2, <2>3, <2>4, CallMoves DEF SpawnFails
<1>3. CASE Drained(c)
  <2>1. CASE Terminate(c, "limit")
    BY <1>3, <2>1, TerminateKeepsInv DEF Drained, Reason
  <2>2. CASE GoTo(c, Awaits("waiting", "none")) /\ UNCHANGED proc
    <3>1. Awaits("waiting", "none") \in Call
      BY Constructors DEF Point, Reason
    <3>2. Awaits("waiting", "none").at = "waiting"
      BY DEF Awaits
    <3>3. QED  BY <1>3, <2>2, <3>1, <3>2, CallMoves DEF Drained
  <2>3. QED  BY <1>3, <2>1, <2>2 DEF Drained
<1>4. CASE Returns(c)
  <2> DEFINE ret == IF proc[c].code = "zero" THEN "succeeded" ELSE "failed"
  <2>1. ret \in Return
    BY DEF Return
  <2>2. GoTo(c, Returned(ret, FALSE)) /\ ~Alive(c)
    BY <1>4 DEF Returns
  <2> HIDE DEF ret
  <2>3. Returned(ret, FALSE) \in Call
    BY <2>1, Constructors
  <2>4. Returned(ret, FALSE).at = "done"
    BY DEF Returned
  <2>5. QED  BY <1>4, <2>2, <2>3, <2>4, CallMoves DEF Returns
<1>5. CASE TimesOut(c)
  BY <1>5, TerminateKeepsInv DEF TimesOut, Reason
<1>6. CASE GraceEnds(c)
  <2>1. proc[c] \in Process
    BY Parts DEF ProcessInv
  <2>2. /\ [proc[c] EXCEPT !.kill = proc[c].live] \in Process
        /\ [proc[c] EXCEPT !.kill = proc[c].live].live = proc[c].live
    BY <2>1 DEF Process
  <2>3. QED  BY <1>6, <2>2, ProcessMoves DEF GraceEnds
<1>7. CASE Stopped(c)
  <2>1. call[c].why \in Reason
    BY Parts DEF ProcessInv, Call
  <2>2. QED  BY <1>7, <2>1, AfterTerminateType, CallMoves DEF Stopped
<1>8. CASE Exits(c)
  <2>1. PICK x \in proc[c].live : \E code \in {"zero", "other"} : Leaves(c, x, code)
    BY <1>8 DEF Exits
  <2>2. PICK p \in Process : Becomes(c, p) /\ p.live \subseteq proc[c].live
    BY <2>1, LeavesType
  <2>3. QED  BY <1>8, <2>2, ProcessMoves DEF Exits
<1>9. CASE Killed(c)
  <2>1. PICK x \in proc[c].live : Leaves(c, x, "other")
    BY <1>9 DEF Killed
  <2>2. PICK p \in Process : Becomes(c, p) /\ p.live \subseteq proc[c].live
    BY <2>1, LeavesType
  <2>3. QED  BY <1>9, <2>2, ProcessMoves DEF Killed
<1>10. CASE Writes(c)
  <2>1. proc[c] \in Process
    BY Parts DEF ProcessInv
  <2>2. /\ [proc[c] EXCEPT !.over = TRUE] \in Process
        /\ [proc[c] EXCEPT !.over = TRUE].live = proc[c].live
        /\ [proc[c] EXCEPT !.closed = TRUE] \in Process
        /\ [proc[c] EXCEPT !.closed = TRUE].live = proc[c].live
    BY <2>1 DEF Process
  <2>3. QED  BY <1>10, <2>2, ProcessMoves DEF Writes
<1>11. QED
  BY <1>1, <1>2, <1>3, <1>4, <1>5, <1>6, <1>7, <1>8, <1>9, <1>10 DEF RunStep

\* What leaves a command's variables alone keeps the invariant.
LEMMA ProcessStutter ==
  ASSUME ProcessInv, UNCHANGED processVars  PROVE ProcessInv'
  BY DEF processVars, ProcessInv, ProcessTypeOK, GoodRun, Alive

LEMMA ProcessStepKeepsInv == ProcessInv /\ [ProcessNext]_processVars => ProcessInv'
  BY StartKeepsInv, RunStepKeepsInv, CancelKeepsInv, ProcessStutter DEF ProcessNext

-----------------------------------------------------------------------------

\* Every variable of runs and processes keeps its type, no process is there
\* before it is spawned, and none after a run that was not cut short.
THEOREM ProcessInvariantHolds == ProcessSpec => []ProcessInv
  BY ProcessInitIsOK, ProcessStepKeepsInv, PTL DEF ProcessSpec

\* When run has returned, the leader of the command is gone, on every platform
\* and in every order of output limit, timeout, exit and cancel, except where a
\* second cancel cut the grace period of the first short.
THEOREM NoProcessIsLeftBehind == ProcessSpec => []OnlyACutLeavesAProcess
<1>1. ProcessInv => OnlyACutLeavesAProcess
  BY DEF ProcessInv, GoodRun, OnlyACutLeavesAProcess
<1>2. QED  BY <1>1, ProcessInvariantHolds, PTL

-----------------------------------------------------------------------------
(* TerminalEngine and its sessions.                                        *)


EngineTypeOK ==
  /\ session \in [Sessions -> Status]
  /\ stale \in SUBSET Sessions
  /\ sessionOf \in [Commands -> Sessions \cup {None}]
  /\ reply \in [Commands -> CommandStatus \cup Refusal \cup {"none"}]
  /\ last \in [Sessions -> CommandStatus \cup {"none"}]

\* Session s has a command in flight, now and, given it has, still after a step.
Occupied(s) == \E c \in Commands : InFlight(c) /\ sessionOf[c] = s

IInv == ProcessInv /\ EngineTypeOK /\ RunningSessionHasCommand

-----------------------------------------------------------------------------

LEMMA InitIsOK == Init => IInv
<1> SUFFICES ASSUME Init  PROVE IInv
  OBVIOUS
<1>1. ProcessInv
  BY ProcessInitIsOK DEF Init
<1>2. EngineTypeOK
  BY DEF Init, EngineTypeOK, Status
<1>3. RunningSessionHasCommand
  BY DEF Init, RunningSessionHasCommand
<1>4. QED  BY <1>1, <1>2, <1>3 DEF IInv

\* A step that takes no command out of flight and makes no session RUNNING.
LEMMA NoSessionStarts ==
  ASSUME IInv, EngineTypeOK',
         \A s \in Sessions : session'[s] = "RUNNING" => session[s] = "RUNNING",
         \A c \in Commands : InFlight(c)
           => reply'[c] = "none" /\ sessionOf'[c] = sessionOf[c]
  PROVE  RunningSessionHasCommand'
<1> SUFFICES ASSUME NEW s \in Sessions, session'[s] = "RUNNING"
             PROVE  \E c \in Commands : InFlight(c)' /\ sessionOf'[c] = s
  BY DEF RunningSessionHasCommand
<1>1. PICK c \in Commands : InFlight(c) /\ sessionOf[c] = s
  BY DEF IInv, RunningSessionHasCommand
<1>2. InFlight(c)' /\ sessionOf'[c] = s
  BY <1>1 DEF InFlight
<1>3. QED  BY <1>2

\* An answer without a run: nothing of the command was in flight.
LEMMA AnswerTakesNothing ==
  ASSUME EngineTypeOK, NEW c \in Commands, New(c),
         NEW r \in CommandStatus \cup Refusal, Answers(c, r), UNCHANGED sessionOf
  PROVE  /\ reply' \in [Commands -> CommandStatus \cup Refusal \cup {"none"}]
         /\ \A d \in Commands : InFlight(d)
              => reply'[d] = "none" /\ sessionOf'[d] = sessionOf[d]
<1>1. reply \in [Commands -> CommandStatus \cup Refusal \cup {"none"}]
  BY DEF EngineTypeOK
<1>2. reply' = [reply EXCEPT ![c] = r]
  BY DEF Answers
<1>3. reply' \in [Commands -> CommandStatus \cup Refusal \cup {"none"}]
  BY <1>1, <1>2
<1>4. ASSUME NEW d \in Commands, InFlight(d)  PROVE reply'[d] = "none"
  <2>1. d # c
    BY <1>4 DEF New, InFlight
  <2>2. QED  BY <1>1, <1>2, <1>4, <2>1 DEF InFlight
<1>5. QED  BY <1>3, <1>4

\* The sessions change their status and nothing else.
LEMMA SessionsChange ==
  ASSUME IInv, session' \in [Sessions -> Status], stale' \in SUBSET Sessions,
         UNCHANGED <<processVars, sessionOf, reply, last>>,
         \A s \in Sessions : session'[s] = "RUNNING" => session[s] = "RUNNING"
  PROVE  IInv'
<1>1. ProcessInv'
  BY ProcessStutter DEF IInv
<1>2. EngineTypeOK'
  BY DEF IInv, EngineTypeOK
<1>3. RunningSessionHasCommand'
  BY <1>2, NoSessionStarts DEF InFlight
<1>4. QED  BY <1>1, <1>2, <1>3 DEF IInv

-----------------------------------------------------------------------------

LEMMA ReapedType ==
  ASSUME EngineTypeOK
  PROVE  /\ Reaped \in [Sessions -> Status]
         /\ \A s \in Sessions : Reaped[s] \in {session[s], "EXPIRED"}
  BY DEF EngineTypeOK, Reaped, Status

LEMMA CreateSessionKeepsInv ==
  ASSUME IInv, CreateSession  PROVE IInv'
<1>1. EngineTypeOK
  BY DEF IInv
<1>2. CASE session' = Reaped
  BY <1>1, <1>2, ReapedType, SessionsChange DEF CreateSession, EngineTypeOK
<1>3. CASE \E s \in Sessions \ Known : session' = [Reaped EXCEPT ![s] = "READY"]
  <2>1. PICK s \in Sessions \ Known : session' = [Reaped EXCEPT ![s] = "READY"]
    BY <1>3
  <2>2. session' \in [Sessions -> Status]
    BY <1>1, <2>1, ReapedType DEF Status
  <2>3. \A t \in Sessions : session'[t] = "RUNNING" => session[t] = "RUNNING"
    BY <1>1, <2>1, ReapedType
  <2>4. QED  BY <1>1, <2>2, <2>3, SessionsChange DEF CreateSession, EngineTypeOK
<1>4. QED  BY <1>2, <1>3 DEF CreateSession

LEMMA SessionStepsKeepInv ==
  ASSUME IInv, NEW s \in Sessions, GetStatus(s) \/ CloseSession(s) \/ TimePasses(s)
  PROVE  IInv'
<1>1. session \in [Sessions -> Status] /\ stale \in SUBSET Sessions
  BY DEF IInv, EngineTypeOK
<1>2. CASE GetStatus(s)
  <2>1. session' = [session EXCEPT ![s] = "EXPIRED"]
    BY <1>2 DEF GetStatus
  <2>2. session' \in [Sessions -> Status]
    BY <1>1, <2>1 DEF Status
  <2>3. QED  BY <1>1, <1>2, <2>1, <2>2, SessionsChange DEF GetStatus
<1>3. CASE CloseSession(s)
  <2>1. session' = [session EXCEPT ![s] = "STOPPED"]
    BY <1>3 DEF CloseSession
  <2>2. session' \in [Sessions -> Status]
    BY <1>1, <2>1 DEF Status
  <2>3. QED  BY <1>1, <1>3, <2>1, <2>2, SessionsChange DEF CloseSession
<1>4. CASE TimePasses(s)
  BY <1>1, <1>4, SessionsChange DEF TimePasses
<1>5. QED  BY <1>2, <1>3, <1>4

\* A refusal by the route, the session or the engine: no run and no change of
\* the session, other than that it expires.
LEMMA RefusalKeepsInv ==
  ASSUME IInv, NEW c \in Commands, New(c),
         NEW r \in CommandStatus \cup Refusal, Answers(c, r),
         session' \in [Sessions -> Status],
         \A s \in Sessions : session'[s] = "RUNNING" => session[s] = "RUNNING",
         last' \in [Sessions -> CommandStatus \cup {"none"}],
         UNCHANGED <<processVars, stale, sessionOf>>
  PROVE  IInv'
<1>1. EngineTypeOK
  BY DEF IInv
<1>2. ProcessInv'
  BY ProcessStutter DEF IInv
<1>3. UNCHANGED sessionOf /\ UNCHANGED stale
  OBVIOUS
<1>4. EngineTypeOK'
  BY <1>1, <1>3, AnswerTakesNothing DEF EngineTypeOK
<1>5. RunningSessionHasCommand'
  BY <1>1, <1>3, <1>4, AnswerTakesNothing, NoSessionStarts
<1>6. QED  BY <1>2, <1>4, <1>5 DEF IInv

LEMMA ExecuteStartsKeepsInv ==
  ASSUME IInv, NEW c \in Commands, NEW s \in Sessions, New(c),
         NEW valid, NEW permitted, ExecuteStarts(c, s, valid, permitted)
  PROVE  IInv'
<1>1. EngineTypeOK /\ ProcessInv
  BY DEF IInv
<1>2. /\ session' = [session EXCEPT ![s] = "RUNNING"]
      /\ sessionOf' = [sessionOf EXCEPT ![c] = s]
      /\ UNCHANGED stale /\ UNCHANGED reply /\ UNCHANGED last
  BY DEF ExecuteStarts
<1>3. ProcessInv'
  BY <1>1, StartKeepsInv DEF ExecuteStarts
<1>4. EngineTypeOK'
  BY <1>1, <1>2 DEF EngineTypeOK, Status
<1>5. RunningSessionHasCommand'
  <2> SUFFICES ASSUME NEW t \in Sessions, session'[t] = "RUNNING"
               PROVE  \E d \in Commands : InFlight(d)' /\ sessionOf'[d] = t
    BY DEF RunningSessionHasCommand
  <2>1. CASE t = s
    <3>1. sessionOf'[c] = s /\ reply'[c] = "none"
      BY <1>1, <1>2 DEF EngineTypeOK, New
    <3>2. InFlight(c)'
      BY <3>1, NoneAssumption DEF InFlight
    <3>3. QED  BY <2>1, <3>1, <3>2
  <2>2. CASE t # s
    <3>1. session[t] = "RUNNING"
      BY <1>1, <1>2, <2>2 DEF EngineTypeOK
    <3>2. PICK d \in Commands : InFlight(d) /\ sessionOf[d] = t
      BY <3>1 DEF IInv, RunningSessionHasCommand
    <3>3. d # c
      BY <3>2 DEF InFlight, New
    <3>4. InFlight(d)' /\ sessionOf'[d] = t
      BY <1>1, <1>2, <3>2, <3>3 DEF EngineTypeOK, InFlight
    <3>5. QED  BY <3>4
  <2>3. QED  BY <2>1, <2>2
<1>6. QED  BY <1>3, <1>4, <1>5 DEF IInv

LEMMA ExecuteKeepsInv ==
  ASSUME IInv, NEW c \in Commands, NEW s \in Sessions,
         NEW valid, NEW permitted, Execute(c, s, valid, permitted)
  PROVE  IInv'
<1>1. session \in [Sessions -> Status] /\ last \in [Sessions -> CommandStatus \cup {"none"}]
  BY DEF IInv, EngineTypeOK
<1>2. New(c)
  BY DEF Execute
<1>3. CASE ExecuteInactive(c, s)
  <2>1. session' = [session EXCEPT ![s] = IF Expired(s) THEN "EXPIRED" ELSE @]
    BY <1>3 DEF ExecuteInactive
  <2>2. session' \in [Sessions -> Status]
    BY <1>1, <2>1 DEF Status
  <2>3. \A t \in Sessions : session'[t] = "RUNNING" => session[t] = "RUNNING"
    BY <1>1, <2>1
  <2>4. "inactive" \in CommandStatus \cup Refusal
    BY DEF Refusal
  <2>5. QED  BY <1>1, <1>2, <1>3, <2>2, <2>3, <2>4, RefusalKeepsInv DEF ExecuteInactive
<1>4. CASE ExecuteRejected(c, s, valid, permitted)
  <2>1. "REJECTED" \in CommandStatus \cup Refusal
    BY DEF CommandStatus
  <2>2. last' = [last EXCEPT ![s] = "REJECTED"]
    BY <1>4 DEF ExecuteRejected
  <2>3. last' \in [Sessions -> CommandStatus \cup {"none"}]
    BY <1>1, <2>2 DEF CommandStatus
  <2>4. QED  BY <1>1, <1>2, <1>4, <2>1, <2>3, RefusalKeepsInv DEF ExecuteRejected
<1>5. CASE ExecuteStarts(c, s, valid, permitted)
  BY <1>2, <1>5, ExecuteStartsKeepsInv
<1>6. QED  BY <1>3, <1>4, <1>5 DEF Execute

LEMMA RouteRefusalType ==
  ASSUME NEW target, NEW action, NEW approved
  PROVE  RouteRefusal(target, action, approved) \in Refusal \cup {"none"}
  BY DEF RouteRefusal, Refusal

LEMMA PostExecuteKeepsInv ==
  ASSUME IInv, NEW c \in Commands, NEW s \in Sessions, PostExecute(c, s)
  PROVE  IInv'
<1>1. PICK target \in {"missing", "lapsed", "authorized"},
           action \in {"echo", "install", "verify", "other"}, approved \in BOOLEAN :
        \/ Execute(c, s, TRUE,
             Permits(Evaluate(action, target = "authorized"), approved))
        \/ /\ New(c) /\ RouteRefusal(target, action, approved) # "none"
           /\ Answers(c, RouteRefusal(target, action, approved))
           /\ UNCHANGED <<processVars, session, stale, sessionOf, last>>
  BY DEF PostExecute
<1>2. CASE Execute(c, s, TRUE,
             Permits(Evaluate(action, target = "authorized"), approved))
  BY <1>2, ExecuteKeepsInv
<1>3. CASE /\ New(c) /\ RouteRefusal(target, action, approved) # "none"
           /\ Answers(c, RouteRefusal(target, action, approved))
           /\ UNCHANGED <<processVars, session, stale, sessionOf, last>>
  <2>1. RouteRefusal(target, action, approved) \in CommandStatus \cup Refusal
    BY <1>3, RouteRefusalType
  <2>2. session \in [Sessions -> Status] /\ last \in [Sessions -> CommandStatus \cup {"none"}]
    BY DEF IInv, EngineTypeOK
  <2>3. QED  BY <1>3, <2>1, <2>2, RefusalKeepsInv
<1>4. QED  BY <1>1, <1>2, <1>3

LEMMA ServiceExecutesKeepsInv ==
  ASSUME IInv, NEW c \in Commands, NEW s \in Sessions, ServiceExecutes(c, s)
  PROVE  IInv'
<1>1. PICK valid, approved \in BOOLEAN : \E verdict \in Verdict :
        Execute(c, s, valid, Permits(verdict, approved))
  BY DEF ServiceExecutes
<1>2. PICK verdict \in Verdict : Execute(c, s, valid, Permits(verdict, approved))
  BY <1>1
<1>3. QED  BY <1>2, ExecuteKeepsInv

\* The last command of a session leaves it READY, closed or expired.
LEMMA ExecuteEndsKeepsInv ==
  ASSUME IInv, NEW c \in Commands, ExecuteEnds(c)  PROVE IInv'
<1> DEFINE t == sessionOf[c]
<1>1. EngineTypeOK
  BY DEF IInv
<1>2. t \in Sessions
  BY <1>1 DEF ExecuteEnds, InFlight, EngineTypeOK
<1>3. /\ session' = [session EXCEPT ![t] = IF @ = "RUNNING" THEN "READY" ELSE @]
      /\ stale' = stale \ {t}
  BY DEF ExecuteEnds, Released
<1>4. PICK r \in CommandStatus \cup {"error"} :
        /\ reply' = [reply EXCEPT ![c] = r]
        /\ last' \in {last, [last EXCEPT ![t] = StatusOf(call[c].ret)]}
  BY DEF ExecuteEnds, Answers, StatusOf, CommandStatus
<1>5. UNCHANGED sessionOf /\ UNCHANGED processVars
  BY DEF ExecuteEnds
<1>6. StatusOf(call[c].ret) \in CommandStatus
  BY DEF StatusOf, CommandStatus
<1>7. EngineTypeOK'
  <2>1. session' \in [Sessions -> Status]
    BY <1>1, <1>2, <1>3 DEF EngineTypeOK, Status
  <2>2. reply' \in [Commands -> CommandStatus \cup Refusal \cup {"none"}]
    BY <1>1, <1>4 DEF EngineTypeOK, Refusal
  <2>3. last' \in [Sessions -> CommandStatus \cup {"none"}]
    BY <1>1, <1>4, <1>6 DEF EngineTypeOK
  <2>4. stale' \in SUBSET Sessions /\ sessionOf' \in [Commands -> Sessions \cup {None}]
    BY <1>1, <1>3, <1>5 DEF EngineTypeOK
  <2>5. QED  BY <2>1, <2>2, <2>3, <2>4 DEF EngineTypeOK
<1>8. RunningSessionHasCommand'
  <2> SUFFICES ASSUME NEW s \in Sessions, session'[s] = "RUNNING"
               PROVE  \E d \in Commands : InFlight(d)' /\ sessionOf'[d] = s
    BY DEF RunningSessionHasCommand
  <2>1. s # t /\ session[s] = "RUNNING"
    BY <1>1, <1>2, <1>3 DEF EngineTypeOK
  <2>2. PICK d \in Commands : InFlight(d) /\ sessionOf[d] = s
    BY <2>1 DEF IInv, RunningSessionHasCommand
  <2>3. d # c
    BY <2>1, <2>2
  <2>4. reply'[d] = "none" /\ sessionOf'[d] = sessionOf[d]
    BY <1>1, <1>4, <1>5, <2>2, <2>3 DEF EngineTypeOK, InFlight
  <2>5. QED  BY <2>2, <2>4 DEF InFlight
<1>9. ProcessInv'
  BY <1>5, ProcessStutter DEF IInv
<1>10. QED  BY <1>7, <1>8, <1>9 DEF IInv

\* Steps of the adapter, which no session or answer takes part in.
LEMMA AdapterStepKeepsInv ==
  ASSUME IInv, ProcessInv', UNCHANGED engineVars  PROVE IInv'
<1>1. EngineTypeOK' /\ RunningSessionHasCommand'
  BY DEF IInv, EngineTypeOK, RunningSessionHasCommand, InFlight, engineVars
<1>2. QED  BY <1>1 DEF IInv

LEMMA StepKeepsInv == IInv /\ [Next]_vars => IInv'
<1> SUFFICES ASSUME IInv, [Next]_vars  PROVE IInv'
  OBVIOUS
<1>1. CASE CreateSession
  BY <1>1, CreateSessionKeepsInv
<1>2. ASSUME NEW s \in Sessions, GetStatus(s) \/ CloseSession(s) \/ TimePasses(s)
      PROVE  IInv'
  BY <1>2, SessionStepsKeepInv
<1>3. ASSUME NEW c \in Commands, NEW s \in Sessions,
             PostExecute(c, s) \/ ServiceExecutes(c, s)
      PROVE  IInv'
  BY <1>3, PostExecuteKeepsInv, ServiceExecutesKeepsInv
<1>4. ASSUME NEW c \in Commands, Runs(c) \/ TerminateCommand(c)  PROVE IInv'
  BY <1>4, RunStepKeepsInv, CancelKeepsInv, AdapterStepKeepsInv
     DEF Runs, TerminateCommand, IInv
<1>5. ASSUME NEW c \in Commands, ExecuteEnds(c)  PROVE IInv'
  BY <1>5, ExecuteEndsKeepsInv
<1>6. CASE UNCHANGED vars
  <2>1. UNCHANGED processVars /\ UNCHANGED engineVars
    BY <1>6 DEF vars
  <2>2. QED  BY <2>1, ProcessStutter, AdapterStepKeepsInv DEF IInv
<1>7. QED  BY <1>1, <1>2, <1>3, <1>4, <1>5, <1>6 DEF Next

LEMMA InvariantHolds == Spec => []IInv
  BY InitIsOK, StepKeepsInv, PTL DEF Spec

-----------------------------------------------------------------------------

\* Sessions, requests, answers and runs keep their types.
THEOREM TypesHold == Spec => []TypeOK
<1>1. IInv => TypeOK
  BY DEF IInv, TypeOK, ProcessInv, EngineTypeOK
<1>2. QED  BY <1>1, InvariantHolds, PTL

\* No session is left RUNNING without a command, whichever of several
\* overlapping commands ends last and whatever closes or expires in between.
THEOREM NoSessionIsLeftRunning == Spec => []RunningSessionHasCommand
<1>1. IInv => RunningSessionHasCommand
  BY DEF IInv
<1>2. QED  BY <1>1, InvariantHolds, PTL

\* Under the engine too, a run that is over has left no process, except after a
\* second cancel.
THEOREM EngineLeavesNoProcess == Spec => []OnlyACutLeavesAProcess
<1>1. IInv => OnlyACutLeavesAProcess
  BY DEF IInv, ProcessInv, GoodRun, OnlyACutLeavesAProcess
<1>2. QED  BY <1>1, InvariantHolds, PTL

\* No step brings a closed or an expired session back.
LEMMA StepReopensNothing ==
  ASSUME IInv, [Next]_vars, NEW s \in Sessions, session[s] \in {"STOPPED", "EXPIRED"}
  PROVE  session'[s] \notin Active
<1>1. EngineTypeOK
  BY DEF IInv
<1>2. CASE CreateSession
  <2>1. CASE session' = Reaped
    BY <2>1, <1>1, ReapedType DEF Active
  <2>2. CASE \E t \in Sessions \ Known : session' = [Reaped EXCEPT ![t] = "READY"]
    <3>1. PICK t \in Sessions \ Known : session' = [Reaped EXCEPT ![t] = "READY"]
      BY <2>2
    <3>2. t # s
      BY DEF Known
    <3>3. QED  BY <1>1, <3>1, <3>2, ReapedType DEF Active
  <2>3. QED  BY <1>2, <2>1, <2>2 DEF CreateSession
<1>3. ASSUME NEW t \in Sessions, GetStatus(t) \/ CloseSession(t) \/ TimePasses(t)
      PROVE  session'[s] \notin Active
  BY <1>1, <1>3 DEF GetStatus, CloseSession, TimePasses, EngineTypeOK, Active
<1>4. ASSUME NEW c \in Commands, NEW t \in Sessions, NEW valid, NEW permitted,
             Execute(c, t, valid, permitted)
      PROVE  session'[s] \notin Active
  BY <1>1, <1>4 DEF Execute, ExecuteInactive, ExecuteRejected, ExecuteStarts,
                    EngineTypeOK, Active
<1>5. ASSUME NEW c \in Commands, NEW t \in Sessions,
             PostExecute(c, t) \/ ServiceExecutes(c, t)
      PROVE  session'[s] \notin Active
  <2>1. CASE PostExecute(c, t)
    <3>1. \/ UNCHANGED session
          \/ \E valid, permitted \in BOOLEAN : Execute(c, t, valid, permitted)
      BY <2>1 DEF PostExecute, Permits
    <3>2. QED  BY <1>4, <3>1 DEF Active
  <2>2. CASE ServiceExecutes(c, t)
    BY <1>4, <2>2 DEF ServiceExecutes
  <2>3. QED  BY <1>5, <2>1, <2>2
<1>6. ASSUME NEW c \in Commands, Runs(c) \/ TerminateCommand(c) \/ ExecuteEnds(c)
      PROVE  session'[s] \notin Active
  <2>1. CASE UNCHANGED engineVars
    BY <2>1 DEF engineVars, Active
  <2>2. CASE ExecuteEnds(c)
    BY <1>1, <2>2 DEF ExecuteEnds, Released, EngineTypeOK, Active
  <2>3. QED  BY <1>6, <2>1, <2>2 DEF Runs, TerminateCommand
<1>7. CASE UNCHANGED vars
  BY <1>7 DEF vars, engineVars, Active
<1>8. QED  BY <1>2, <1>3, <1>5, <1>6, <1>7 DEF Next

\* A closed or expired session never takes a command again.
THEOREM SessionsCloseForGood == Spec => ClosedForGood
<1>1. IInv /\ [Next]_vars
      => [\A s \in Sessions : session[s] \in {"STOPPED", "EXPIRED"}
                                => session'[s] \notin Active]_vars
  BY StepReopensNothing
<1>2. QED  BY <1>1, InvariantHolds, PTL DEF Spec, ClosedForGood
-----------------------------------------------------------------------------
(* The engine and TerminalService.                                         *)

\* There are never more sessions than the limit, closed ones included.
KnownInv == IsFiniteSet(Known) /\ Cardinality(Known) <= MaxSessions

\* A command has a session when it has a run, and an answer of the engine only
\* when its run is over.
Standing(c) ==
  /\ sessionOf[c] = None <=> call[c].at = "idle"
  /\ reply[c] # "none" /\ sessionOf[c] # None => call[c].at = "done"

ServiceInv == KnownInv /\ \A c \in Commands : Standing(c)

\* How a run that becomes r, with the process p, looks to its caller.
RunMoves(c, r, p) ==
  LET from == PhaseOfRun(call[c])  was == OutcomeOfRun(call[c])
      to == PhaseOfRun(r)          is == OutcomeOfRun(r)
      spared == "leader" \in p.live <=> Alive(c)
  IN /\ call[c].at # "idle" /\ r.at # "idle"
     /\ call[c].at = "done" => r.at = "done"
     /\ \/ to = from /\ is = was /\ spared
        \/ to = from /\ is = was /\ Alive(c) /\ "leader" \notin p.live
        \/ from = "starting" /\ to = "running" /\ is = was /\ "leader" \in p.live
        \/ from = "starting" /\ to = "over" /\ is \in {"FAILED", "error", "CANCELLED"}
           /\ spared
        \/ from = "running" /\ to = "over" /\ is \in {"COMPLETED", "FAILED"}
           /\ spared /\ ~Alive(c)
        \/ from = "running" /\ to = (IF Alive(c) THEN "stopping" ELSE "over")
           /\ is \in {"TIMEOUT", "CANCELLED"} /\ spared
        \/ from = "stopping" /\ to = "over" /\ is = was /\ spared /\ ~Alive(c)
        \/ from = "stopping" /\ to = "over" /\ is = "CANCELLED" /\ spared

-----------------------------------------------------------------------------

\* What a call looks like where it awaits, and where it has returned.
LEMMA LooksOfACall ==
  /\ PhaseOfRun(Awaits("spawning", "none")) = "starting"
  /\ PhaseOfRun(Awaits("draining", "none")) = "running"
  /\ PhaseOfRun(Awaits("waiting", "none")) = "running"
  /\ PhaseOfRun(Awaits("stopping", "limit")) = "running"
  /\ PhaseOfRun(Awaits("stopping", "timeout")) = "stopping"
  /\ PhaseOfRun(Awaits("stopping", "cancel")) = "stopping"
  /\ \A at \in Point \ {"done"} :
       at # "stopping" => OutcomeOfRun(Awaits(at, "none")) = "none"
  /\ OutcomeOfRun(Awaits("stopping", "limit")) = "none"
  /\ OutcomeOfRun(Awaits("stopping", "timeout")) = "TIMEOUT"
  /\ OutcomeOfRun(Awaits("stopping", "cancel")) = "CANCELLED"
  /\ \A at, why : Awaits(at, why).at = at
  BY DEF Awaits, PhaseOfRun, OutcomeOfRun, Point

LEMMA LooksOfAReturn ==
  /\ \A r \in {Returned("succeeded", FALSE), Returned("failed", FALSE),
              Returned("raised", FALSE), Returned("timed_out", FALSE),
              Returned("cancelled", FALSE), Returned("cancelled", TRUE)} :
       r.at = "done" /\ PhaseOfRun(r) = "over"
  /\ OutcomeOfRun(Returned("succeeded", FALSE)) = "COMPLETED"
  /\ OutcomeOfRun(Returned("failed", FALSE)) = "FAILED"
  /\ OutcomeOfRun(Returned("raised", FALSE)) = "error"
  /\ OutcomeOfRun(Returned("timed_out", FALSE)) = "TIMEOUT"
  /\ OutcomeOfRun(Returned("cancelled", FALSE)) = "CANCELLED"
  /\ OutcomeOfRun(Returned("cancelled", TRUE)) = "CANCELLED"
  BY DEF Returned, PhaseOfRun, OutcomeOfRun, StatusOf

\* A signal ends nobody at once.
LEMMA SignalSpares ==
  ASSUME ProcessInv, NEW c \in Commands, Signal(c)
  PROVE  \E p \in Process : Becomes(c, p) /\ p.live = proc[c].live
<1>1. /\ proc[c] \in Process
      /\ proc[c].live \in SUBSET Member
      /\ proc[c].term \in SUBSET Member /\ proc[c].kill \in SUBSET Member
  BY Parts DEF ProcessInv
<1>2. /\ [proc[c] EXCEPT !.kill = @ \cup {"leader"}] \in Process
      /\ [proc[c] EXCEPT !.kill = @ \cup proc[c].live] \in Process
      /\ [proc[c] EXCEPT !.term = @ \cup proc[c].live] \in Process
  BY <1>1 DEF Process, Member
<1>3. /\ [proc[c] EXCEPT !.kill = @ \cup {"leader"}].live = proc[c].live
      /\ [proc[c] EXCEPT !.kill = @ \cup proc[c].live].live = proc[c].live
      /\ [proc[c] EXCEPT !.term = @ \cup proc[c].live].live = proc[c].live
  BY <1>1 DEF Process
<1>4. QED
  BY <1>2, <1>3 DEF Signal, LinuxSignal, MacSignal, WindowsSignal, BaseSignal

LEMMA TerminateMoves ==
  ASSUME ProcessInv, NEW c \in Commands, NEW why \in Reason \ {"none"},
         UnderTimeLimit(c), Terminate(c, why),
         why = "limit" => call[c].at = "draining"
  PROVE  \E r \in Call, p \in Process :
           GoTo(c, r) /\ Becomes(c, p) /\ RunMoves(c, r, p)
<1>1. /\ call[c].at \notin {"idle", "done"}
      /\ PhaseOfRun(call[c]) = "running" /\ OutcomeOfRun(call[c]) = "none"
  BY DEF UnderTimeLimit, PhaseOfRun, OutcomeOfRun
<1>2. why \in {"limit", "timeout", "cancel"}
  BY DEF Reason
<1>3. CASE Alive(c) /\ Signal(c) /\ GoTo(c, Awaits("stopping", why))
  <2>1. PICK p \in Process : Becomes(c, p) /\ p.live = proc[c].live
    BY <1>3, SignalSpares
  <2>2. Awaits("stopping", why) \in Call
    BY Constructors DEF Point
  <2>3. RunMoves(c, Awaits("stopping", why), p)
    BY <1>1, <1>2, <1>3, <2>1, LooksOfACall DEF RunMoves, Alive
  <2>4. QED  BY <1>3, <2>1, <2>2, <2>3
<1>4. CASE ~Alive(c) /\ GoTo(c, AfterTerminate(why)) /\ UNCHANGED proc
  <2>1. proc[c] \in Process
    BY Parts DEF ProcessInv
  <2>2. Becomes(c, proc[c])
    BY <1>4, SameProcess
  <2>3. AfterTerminate(why) \in Call
    BY AfterTerminateType
  <2>4. CASE why = "limit"
    <3>1. AfterTerminate(why) = Awaits("waiting", "none")
      BY <2>4 DEF AfterTerminate
    <3>2. OutcomeOfRun(Awaits("waiting", "none")) = "none"
      BY LooksOfACall DEF Point
    <3>3. RunMoves(c, Awaits("waiting", "none"), proc[c])
      BY <1>1, <1>4, <3>2, LooksOfACall DEF RunMoves, Alive
    <3>4. QED  BY <1>4, <2>1, <2>2, <2>3, <3>1, <3>3
  <2>5. CASE why = "timeout"
    <3>1. AfterTerminate(why) = Returned("timed_out", FALSE)
      BY <2>5 DEF AfterTerminate
    <3>2. RunMoves(c, Returned("timed_out", FALSE), proc[c])
      BY <1>1, <1>4, LooksOfAReturn DEF RunMoves, Alive
    <3>3. QED  BY <1>4, <2>1, <2>2, <2>3, <3>1, <3>2
  <2>6. CASE why = "cancel"
    <3>1. AfterTerminate(why) = Returned("cancelled", FALSE)
      BY <2>6 DEF AfterTerminate
    <3>2. RunMoves(c, Returned("cancelled", FALSE), proc[c])
      BY <1>1, <1>4, LooksOfAReturn DEF RunMoves, Alive
    <3>3. QED  BY <1>4, <2>1, <2>2, <2>3, <3>1, <3>2
  <2>7. QED  BY <1>2, <2>4, <2>5, <2>6
<1>5. QED  BY <1>3, <1>4 DEF Terminate

\* The step of the process that leaves its coroutine where it is.
LEMMA ProcessOnlyMoves ==
  ASSUME ProcessInv, NEW c \in Commands, call[c].at # "idle", UNCHANGED call,
         NEW p \in Process, Becomes(c, p), p.live \subseteq proc[c].live
  PROVE  \E r \in Call, q \in Process :
           GoTo(c, r) /\ Becomes(c, q) /\ RunMoves(c, r, q)
<1>1. call[c] \in Call /\ GoTo(c, call[c])
  BY Parts, SameCall DEF ProcessInv
<1>2. RunMoves(c, call[c], p)
  BY DEF RunMoves, Alive
<1>3. QED  BY <1>1, <1>2

\* The step of the coroutine that leaves its process alone.
LEMMA CallOnlyMoves ==
  ASSUME ProcessInv, NEW c \in Commands, UNCHANGED proc,
         NEW r \in Call, GoTo(c, r), RunMoves(c, r, proc[c])
  PROVE  \E s \in Call, q \in Process :
           GoTo(c, s) /\ Becomes(c, q) /\ RunMoves(c, s, q)
<1>1. proc[c] \in Process /\ Becomes(c, proc[c])
  BY Parts, SameProcess DEF ProcessInv
<1>2. QED  BY <1>1

LEMMA CancelMoves ==
  ASSUME ProcessInv, NEW c \in Commands, Cancel(c)
  PROVE  \E r \in Call, p \in Process :
           GoTo(c, r) /\ Becomes(c, p) /\ RunMoves(c, r, p)
<1>1. CASE UnderTimeLimit(c) /\ Terminate(c, "cancel")
  BY <1>1, TerminateMoves DEF Reason
<1>2. CASE /\ call[c].at = "spawning"
           /\ GoTo(c, Returned("cancelled", FALSE)) /\ UNCHANGED proc
  <2>1. Returned("cancelled", FALSE) \in Call
    BY Constructors DEF Return
  <2>2. PhaseOfRun(call[c]) = "starting"
    BY <1>2 DEF PhaseOfRun
  <2>3. RunMoves(c, Returned("cancelled", FALSE), proc[c])
    BY <1>2, <2>2, LooksOfAReturn DEF RunMoves, Alive
  <2>4. QED  BY <1>2, <2>1, <2>3, CallOnlyMoves
<1>3. CASE /\ call[c].at = "stopping" /\ call[c].why # "limit"
           /\ GoTo(c, Returned("cancelled", TRUE)) /\ UNCHANGED proc
  <2>1. Returned("cancelled", TRUE) \in Call
    BY Constructors DEF Return
  <2>2. PhaseOfRun(call[c]) = "stopping"
    BY <1>3 DEF PhaseOfRun
  <2>3. RunMoves(c, Returned("cancelled", TRUE), proc[c])
    BY <1>3, <2>2, LooksOfAReturn DEF RunMoves, Alive
  <2>4. QED  BY <1>3, <2>1, <2>3, CallOnlyMoves
<1>4. QED  BY <1>1, <1>2, <1>3 DEF Cancel

LEMMA SpawnsMoves ==
  ASSUME ProcessInv, NEW c \in Commands, Spawns(c)
  PROVE  \E r \in Call, p \in Process :
           GoTo(c, r) /\ Becomes(c, p) /\ RunMoves(c, r, p)
<1>1. PICK child \in SUBSET {"child"} : \E deaf \in SUBSET ({"leader"} \cup child) :
        Becomes(c, Started({"leader"} \cup child, deaf))
  BY DEF Spawns
<1>2. PICK deaf \in SUBSET ({"leader"} \cup child) :
        Becomes(c, Started({"leader"} \cup child, deaf))
  BY <1>1
<1>3. Started({"leader"} \cup child, deaf) \in Process
  BY Constructors DEF Member
<1>4. Awaits("draining", "none") \in Call
  BY Constructors DEF Point, Reason
<1>5. "leader" \in Started({"leader"} \cup child, deaf).live
  BY DEF Started, NoProcess
<1>6. PhaseOfRun(call[c]) = "starting" /\ OutcomeOfRun(call[c]) = "none"
  BY DEF Spawns, PhaseOfRun, OutcomeOfRun
<1>7. OutcomeOfRun(Awaits("draining", "none")) = "none"
  BY LooksOfACall DEF Point
<1>8. RunMoves(c, Awaits("draining", "none"), Started({"leader"} \cup child, deaf))
  BY <1>5, <1>6, <1>7, LooksOfACall DEF RunMoves, Spawns
<1>9. QED  BY <1>2, <1>3, <1>4, <1>8 DEF Spawns

LEMMA SpawnFailsMoves ==
  ASSUME ProcessInv, NEW c \in Commands, SpawnFails(c)
  PROVE  \E r \in Call, p \in Process :
           GoTo(c, r) /\ Becomes(c, p) /\ RunMoves(c, r, p)
<1>1. PICK ret \in {"failed", "raised"} : GoTo(c, Returned(ret, FALSE))
  BY DEF SpawnFails
<1>2. Returned(ret, FALSE) \in Call
  BY Constructors DEF Return
<1>3. PhaseOfRun(call[c]) = "starting"
  BY DEF SpawnFails, PhaseOfRun
<1>4. RunMoves(c, Returned(ret, FALSE), proc[c])
  BY <1>3, LooksOfAReturn DEF SpawnFails, RunMoves, Alive
<1>5. QED  BY <1>1, <1>2, <1>4, CallOnlyMoves DEF SpawnFails

LEMMA ReturnsMoves ==
  ASSUME ProcessInv, NEW c \in Commands, Returns(c)
  PROVE  \E r \in Call, p \in Process :
           GoTo(c, r) /\ Becomes(c, p) /\ RunMoves(c, r, p)
<1>1. PICK ret \in {"succeeded", "failed"} : GoTo(c, Returned(ret, FALSE))
  BY DEF Returns
<1>2. Returned(ret, FALSE) \in Call
  BY <1>1, Constructors DEF Return
<1>3. PhaseOfRun(call[c]) = "running" /\ ~Alive(c)
  BY DEF Returns, PhaseOfRun
<1>4. RunMoves(c, Returned(ret, FALSE), proc[c])
  BY <1>3, LooksOfAReturn DEF Returns, RunMoves, Alive
<1>5. QED  BY <1>1, <1>2, <1>4, CallOnlyMoves DEF Returns

LEMMA DrainedMoves ==
  ASSUME ProcessInv, NEW c \in Commands, Drained(c)
  PROVE  \E r \in Call, p \in Process :
           GoTo(c, r) /\ Becomes(c, p) /\ RunMoves(c, r, p)
<1>1. CASE Terminate(c, "limit")
  BY <1>1, TerminateMoves DEF Drained, UnderTimeLimit, Reason
<1>2. CASE GoTo(c, Awaits("waiting", "none")) /\ UNCHANGED proc
  <2>1. Awaits("waiting", "none") \in Call
    BY Constructors DEF Point, Reason
  <2>2. PhaseOfRun(call[c]) = "running" /\ OutcomeOfRun(call[c]) = "none"
    BY DEF Drained, PhaseOfRun, OutcomeOfRun
  <2>3. OutcomeOfRun(Awaits("waiting", "none")) = "none"
    BY LooksOfACall DEF Point
  <2>4. RunMoves(c, Awaits("waiting", "none"), proc[c])
    BY <2>2, <2>3, LooksOfACall DEF Drained, RunMoves, Alive
  <2>5. QED  BY <1>2, <2>1, <2>4, CallOnlyMoves
<1>3. QED  BY <1>1, <1>2 DEF Drained

LEMMA StoppedMoves ==
  ASSUME ProcessInv, NEW c \in Commands, Stopped(c)
  PROVE  \E r \in Call, p \in Process :
           GoTo(c, r) /\ Becomes(c, p) /\ RunMoves(c, r, p)
<1>1. call[c].at = "stopping" /\ ~Alive(c)
  BY DEF Stopped
<1>2. call[c].why \in {"limit", "timeout", "cancel"}
  BY <1>1, Parts DEF ProcessInv, GoodRun, Call, Reason
<1>3. AfterTerminate(call[c].why) \in Call
  BY <1>2, AfterTerminateType DEF Reason
<1>4. CASE call[c].why = "limit"
  <2>1. AfterTerminate(call[c].why) = Awaits("waiting", "none")
    BY <1>4 DEF AfterTerminate
  <2>2. PhaseOfRun(call[c]) = "running" /\ OutcomeOfRun(call[c]) = "none"
    BY <1>1, <1>4 DEF PhaseOfRun, OutcomeOfRun
  <2>3. OutcomeOfRun(Awaits("waiting", "none")) = "none"
    BY LooksOfACall DEF Point
  <2>4. RunMoves(c, Awaits("waiting", "none"), proc[c])
    BY <1>1, <2>2, <2>3, LooksOfACall DEF RunMoves, Alive
  <2>5. QED  BY <1>3, <2>1, <2>4, CallOnlyMoves DEF Stopped
<1>5. CASE call[c].why = "timeout"
  <2>1. AfterTerminate(call[c].why) = Returned("timed_out", FALSE)
    BY <1>5 DEF AfterTerminate
  <2>2. PhaseOfRun(call[c]) = "stopping" /\ OutcomeOfRun(call[c]) = "TIMEOUT"
    BY <1>1, <1>5 DEF PhaseOfRun, OutcomeOfRun
  <2>3. RunMoves(c, Returned("timed_out", FALSE), proc[c])
    BY <1>1, <2>2, LooksOfAReturn DEF RunMoves, Alive
  <2>4. QED  BY <1>3, <2>1, <2>3, CallOnlyMoves DEF Stopped
<1>6. CASE call[c].why = "cancel"
  <2>1. AfterTerminate(call[c].why) = Returned("cancelled", FALSE)
    BY <1>6 DEF AfterTerminate
  <2>2. PhaseOfRun(call[c]) = "stopping" /\ OutcomeOfRun(call[c]) = "CANCELLED"
    BY <1>1, <1>6 DEF PhaseOfRun, OutcomeOfRun
  <2>3. RunMoves(c, Returned("cancelled", FALSE), proc[c])
    BY <1>1, <2>2, LooksOfAReturn DEF RunMoves, Alive
  <2>4. QED  BY <1>3, <2>1, <2>3, CallOnlyMoves DEF Stopped
<1>7. QED  BY <1>2, <1>4, <1>5, <1>6

\* Every step of a run, however its coroutine and its process interleave, is one
\* of the moves its caller may see.
LEMMA RunStepMoves ==
  ASSUME ProcessInv, NEW c \in Commands, RunStep(c)
  PROVE  \E r \in Call, p \in Process :
           GoTo(c, r) /\ Becomes(c, p) /\ RunMoves(c, r, p)
<1>1. CASE Spawns(c)
  BY <1>1, SpawnsMoves
<1>2. CASE SpawnFails(c)
  BY <1>2, SpawnFailsMoves
<1>3. CASE Drained(c)
  BY <1>3, DrainedMoves
<1>4. CASE Returns(c)
  BY <1>4, ReturnsMoves
<1>5. CASE TimesOut(c)
  BY <1>5, TerminateMoves DEF TimesOut, Reason
<1>6. CASE GraceEnds(c)
  <2>1. proc[c] \in Process
    BY Parts DEF ProcessInv
  <2>2. /\ [proc[c] EXCEPT !.kill = proc[c].live] \in Process
        /\ [proc[c] EXCEPT !.kill = proc[c].live].live = proc[c].live
    BY <2>1 DEF Process
  <2>3. QED  BY <1>6, <2>2, ProcessOnlyMoves DEF GraceEnds
<1>7. CASE Stopped(c)
  BY <1>7, StoppedMoves
<1>8. CASE Exits(c)
  <2>1. PICK x \in proc[c].live : \E code \in {"zero", "other"} : Leaves(c, x, code)
    BY <1>8 DEF Exits
  <2>2. PICK p \in Process : Becomes(c, p) /\ p.live \subseteq proc[c].live
    BY <2>1, LeavesType
  <2>3. call[c].at # "idle"
    BY <2>1 DEF ProcessInv, GoodRun
  <2>4. QED  BY <1>8, <2>2, <2>3, ProcessOnlyMoves DEF Exits
<1>9. CASE Killed(c)
  <2>1. PICK x \in proc[c].live : Leaves(c, x, "other")
    BY <1>9 DEF Killed
  <2>2. PICK p \in Process : Becomes(c, p) /\ p.live \subseteq proc[c].live
    BY <2>1, LeavesType
  <2>3. call[c].at # "idle"
    BY <2>1 DEF ProcessInv, GoodRun
  <2>4. QED  BY <1>9, <2>2, <2>3, ProcessOnlyMoves DEF Killed
<1>10. CASE Writes(c)
  <2>1. proc[c] \in Process
    BY Parts DEF ProcessInv
  <2>2. /\ [proc[c] EXCEPT !.over = TRUE] \in Process
        /\ [proc[c] EXCEPT !.over = TRUE].live = proc[c].live
        /\ [proc[c] EXCEPT !.closed = TRUE] \in Process
        /\ [proc[c] EXCEPT !.closed = TRUE].live = proc[c].live
    BY <2>1 DEF Process
  <2>3. QED  BY <1>10, <2>2, ProcessOnlyMoves DEF Writes
<1>11. QED
  BY <1>1, <1>2, <1>3, <1>4, <1>5, <1>6, <1>7, <1>8, <1>9, <1>10 DEF RunStep

-----------------------------------------------------------------------------
(* What an engine that makes these moves looks like. *)

Living == {c \in Commands : Alive(c)}

\* Before and after a step of the run of c, when c alone moves.
LEMMA OneRunIsSeen ==
  ASSUME IInv, NEW c \in Commands, NEW r \in Call, NEW p \in Process,
         GoTo(c, r), Becomes(c, p), UNCHANGED engineVars
  PROVE  /\ Door' = Door
         /\ InFlight(c) =>
              /\ Phase[c] = PhaseOfRun(call[c]) /\ Outcome[c] = OutcomeOfRun(call[c])
              /\ Phase' = [Phase EXCEPT ![c] = PhaseOfRun(r)]
              /\ Outcome' = [Outcome EXCEPT ![c] = OutcomeOfRun(r)]
         /\ ~InFlight(c) => Phase' = Phase /\ Outcome' = Outcome
         /\ Living' = IF "leader" \in p.live THEN Living \cup {c} ELSE Living \ {c}
<1>1. /\ call' = [call EXCEPT ![c] = r] /\ proc' = [proc EXCEPT ![c] = p]
      /\ call \in [Commands -> Call] /\ proc \in [Commands -> Process]
  BY DEF GoTo, Becomes, IInv, ProcessInv, ProcessTypeOK
<1>2. /\ call'[c] = r /\ \A d \in Commands \ {c} : call'[d] = call[d]
      /\ proc'[c] = p /\ \A d \in Commands \ {c} : proc'[d] = proc[d]
  BY <1>1
<1>3. session' = session /\ sessionOf' = sessionOf /\ reply' = reply
  BY DEF engineVars
<1>4. Door' = Door
  BY <1>3 DEF Door
<1>5. \A d \in Commands : (New(d)' <=> New(d)) /\ (InFlight(d)' <=> InFlight(d))
  BY <1>3 DEF New, InFlight
<1>6. ASSUME InFlight(c)
      PROVE  /\ Phase[c] = PhaseOfRun(call[c]) /\ Outcome[c] = OutcomeOfRun(call[c])
             /\ Phase' = [Phase EXCEPT ![c] = PhaseOfRun(r)]
             /\ Outcome' = [Outcome EXCEPT ![c] = OutcomeOfRun(r)]
  <2>1. ~New(c)
    BY <1>6 DEF New, InFlight
  <2>2. /\ Phase[c] = PhaseOfRun(call[c]) /\ Outcome[c] = OutcomeOfRun(call[c])
    BY <1>6, <2>1 DEF Phase, Outcome
  <2>3. PhaseOfRun(call[c])' = PhaseOfRun(r) /\ OutcomeOfRun(call[c])' = OutcomeOfRun(r)
    BY <1>2 DEF PhaseOfRun, OutcomeOfRun
  <2>4. \A d \in Commands \ {c} :
          PhaseOfRun(call[d])' = PhaseOfRun(call[d])
          /\ OutcomeOfRun(call[d])' = OutcomeOfRun(call[d])
    BY <1>2 DEF PhaseOfRun, OutcomeOfRun
  <2>5. Phase' = [Phase EXCEPT ![c] = PhaseOfRun(r)]
    BY <1>3, <1>5, <1>6, <2>1, <2>3, <2>4 DEF Phase
  <2>6. Outcome' = [Outcome EXCEPT ![c] = OutcomeOfRun(r)]
    BY <1>3, <1>5, <1>6, <2>3, <2>4 DEF Outcome
  <2>7. QED  BY <2>2, <2>5, <2>6
<1>7. ASSUME ~InFlight(c)  PROVE Phase' = Phase /\ Outcome' = Outcome
  <2>1. \A d \in Commands \ {c} :
          PhaseOfRun(call[d])' = PhaseOfRun(call[d])
          /\ OutcomeOfRun(call[d])' = OutcomeOfRun(call[d])
    BY <1>2 DEF PhaseOfRun, OutcomeOfRun
  <2>2. Phase' = Phase
    BY <1>3, <1>5, <1>7, <2>1 DEF Phase
  <2>3. Outcome' = Outcome
    BY <1>3, <1>5, <1>7, <2>1 DEF Outcome
  <2>4. QED  BY <2>2, <2>3
<1>8. Living' = IF "leader" \in p.live THEN Living \cup {c} ELSE Living \ {c}
  BY <1>2 DEF Living, Alive
<1>9. QED  BY <1>4, <1>6, <1>7, <1>8

LEMMA RunIsAServiceStep ==
  ASSUME IInv, NEW c \in Commands, Standing(c), NEW r \in Call, NEW p \in Process,
         GoTo(c, r), Becomes(c, p), UNCHANGED engineVars, RunMoves(c, r, p)
  PROVE  [Service!Next]_(Service!vars)
<1> DEFINE from == PhaseOfRun(call[c])  was == OutcomeOfRun(call[c])
           to == PhaseOfRun(r)          is == OutcomeOfRun(r)
           lives == "leader" \in p.live
<1>1. /\ Door' = Door /\ sessionOf' = sessionOf
      /\ Living' = IF lives THEN Living \cup {c} ELSE Living \ {c}
      /\ c \in Living <=> Alive(c)
  BY OneRunIsSeen DEF engineVars, Living
<1>2. Living = {d \in Commands : Alive(d)} /\ Living' = {d \in Commands : Alive(d)'}
  BY DEF Living
<1>3. DOMAIN Phase = Commands /\ DOMAIN Outcome = Commands
      /\ Phase = [d \in Commands |-> Phase[d]] /\ Outcome = [d \in Commands |-> Outcome[d]]
  BY DEF Phase, Outcome
<1>4. CASE /\ Phase' = Phase /\ Outcome' = Outcome
           /\ (lives <=> Alive(c)) \/ (Alive(c) /\ ~lives)
  <2>1. CASE lives <=> Alive(c)
    <3>1. Living' = Living
      BY <1>1, <2>1
    <3>2. QED  BY <1>1, <1>2, <1>4, <3>1 DEF Service!vars
  <2>2. CASE Alive(c) /\ ~lives
    <3>1. Living' = Living \ {c} /\ c \in Living
      BY <1>1, <2>2
    <3>2. Service!ProcessEnds(c)
      BY <1>1, <1>2, <1>4, <3>1 DEF Service!ProcessEnds
    <3>3. QED  BY <3>2 DEF Service!Next
  <2>3. QED  BY <1>4, <2>1, <2>2
<1>5. CASE ~InFlight(c)
  <2>1. call[c].at = "done" /\ r.at = "done"
    BY <1>5 DEF RunMoves, Standing, InFlight
  <2>2. from = "over" /\ to = "over"
    BY <2>1 DEF PhaseOfRun
  <2>3. (lives <=> Alive(c)) \/ (Alive(c) /\ ~lives)
    BY <2>2 DEF RunMoves
  <2>4. QED  BY <1>4, <1>5, <2>3, OneRunIsSeen
<1>6. CASE InFlight(c)
  <2>1. /\ Phase[c] = from /\ Phase' = [Phase EXCEPT ![c] = to]
        /\ Outcome[c] = was /\ Outcome' = [Outcome EXCEPT ![c] = is]
    BY <1>6, OneRunIsSeen
  <2>2. /\ to = from => Phase' = Phase
        /\ is = was => Outcome' = Outcome
    BY <1>3, <2>1
  <2>3. (lives <=> Alive(c)) => Living' = Living
    BY <1>1
  <2>4. CASE /\ to = from /\ is = was
             /\ (lives <=> Alive(c)) \/ (Alive(c) /\ ~lives)
    BY <1>4, <2>2, <2>4
  <2>5. CASE from = "starting" /\ to = "running" /\ is = was /\ lives
    <3>1. Service!ProcessStarts(c)
      BY <1>1, <1>2, <2>1, <2>2, <2>5 DEF Service!ProcessStarts, Service!Moves
    <3>2. QED  BY <3>1 DEF Service!Next
  <2>6. CASE /\ from = "starting" /\ to = "over" /\ is \in {"FAILED", "error", "CANCELLED"}
             /\ lives <=> Alive(c)
    <3>1. Service!EndsUnstarted(c)
      BY <1>1, <1>2, <2>1, <2>3, <2>6
      DEF Service!EndsUnstarted, Service!Moves, Service!Decides
    <3>2. QED  BY <3>1 DEF Service!Next
  <2>7. CASE /\ from = "running" /\ to = "over" /\ is \in {"COMPLETED", "FAILED"}
             /\ (lives <=> Alive(c)) /\ ~Alive(c)
    <3>1. Service!EndsByItself(c)
      BY <1>1, <1>2, <2>1, <2>3, <2>7
      DEF Service!EndsByItself, Service!Moves, Service!Decides
    <3>2. QED  BY <3>1 DEF Service!Next
  <2>8. CASE /\ from = "running" /\ to = (IF Alive(c) THEN "stopping" ELSE "over")
             /\ is \in {"TIMEOUT", "CANCELLED"} /\ (lives <=> Alive(c))
    <3>1. Service!IsStopped(c)
      BY <1>1, <1>2, <2>1, <2>3, <2>8
      DEF Service!IsStopped, Service!Moves, Service!Decides
    <3>2. QED  BY <3>1 DEF Service!Next
  <2>9. CASE /\ from = "stopping" /\ to = "over" /\ is = was
             /\ (lives <=> Alive(c)) /\ ~Alive(c)
    <3>1. Service!HasStopped(c)
      BY <1>1, <1>2, <2>1, <2>2, <2>3, <2>9 DEF Service!HasStopped, Service!Moves
    <3>2. QED  BY <3>1 DEF Service!Next
  <2>10. CASE /\ from = "stopping" /\ to = "over" /\ is = "CANCELLED"
              /\ lives <=> Alive(c)
    <3>1. Service!Abandon(c)
      BY <1>1, <1>2, <2>1, <2>3, <2>10
      DEF Service!Abandon, Service!Moves, Service!Decides
    <3>2. QED  BY <3>1 DEF Service!Next
  <2>11. QED
    BY <2>4, <2>5, <2>6, <2>7, <2>8, <2>9, <2>10 DEF RunMoves
<1>7. QED  BY <1>5, <1>6

-----------------------------------------------------------------------------
(* Sessions *)

\* Steps of the sessions alone leave commands as they were.
LEMMA OnlySessionsMove ==
  ASSUME UNCHANGED <<processVars, sessionOf, reply>>
  PROVE  /\ sessionOf' = sessionOf /\ Phase' = Phase /\ Outcome' = Outcome
         /\ Living' = Living
         /\ \A c \in Commands : Standing(c) => Standing(c)'
  BY DEF processVars, Phase, Outcome, Living, Alive, New, InFlight, Standing

LEMMA OpenSessions ==
  /\ Service!Open = {s \in Sessions : session[s] \in Active}
  /\ Service!Open \subseteq Known
  BY DEF Service!Open, Door, Known, Active

\* The sessions an engine's look at the clock expires.
LEMMA ReapedDoor ==
  ASSUME EngineTypeOK
  PROVE  /\ {s \in Sessions : Expired(s)} \subseteq Service!Open
         /\ \A s \in Sessions : (Reaped[s] = "NONE" <=> session[s] = "NONE")
         /\ \A s \in Sessions :
              (IF Reaped[s] = "NONE" THEN "none"
               ELSE IF Reaped[s] \in Active THEN "open" ELSE "closed")
              = Service!Shut({t \in Sessions : Expired(t)})[s]
<1>1. {s \in Sessions : Expired(s)} \subseteq Service!Open
  BY OpenSessions DEF Expired
<1>2. ASSUME NEW s \in Sessions
      PROVE  /\ Reaped[s] = "NONE" <=> session[s] = "NONE"
             /\ (IF Reaped[s] = "NONE" THEN "none"
                 ELSE IF Reaped[s] \in Active THEN "open" ELSE "closed")
                = (IF s \in {t \in Sessions : Expired(t)} THEN "closed" ELSE Door[s])
  BY DEF Reaped, Expired, Active, Door
<1>3. QED  BY <1>1, <1>2 DEF Service!Shut

LEMMA SameCardinality == \A S : Service!Cardinality(S) = Cardinality(S)
  BY DEF Cardinality, Service!Cardinality

LEMMA CreateSessionIsAServiceStep ==
  ASSUME IInv, KnownInv, CreateSession
  PROVE  [Service!Next]_(Service!vars) /\ KnownInv'
<1> DEFINE gone == {s \in Sessions : Expired(s)}
<1>1. EngineTypeOK
  BY DEF IInv
<1>2. /\ sessionOf' = sessionOf /\ Phase' = Phase /\ Outcome' = Outcome
      /\ Living' = Living
  BY OnlySessionsMove DEF CreateSession
<1>3. Living = {d \in Commands : Alive(d)} /\ Living' = {d \in Commands : Alive(d)'}
  BY DEF Living
<1>4. gone \in SUBSET Service!Open
  BY <1>1, ReapedDoor
<1>5. CASE session' = Reaped
  <2>1. Door' = Service!Shut(gone)
    BY <1>1, <1>5, ReapedDoor DEF Door, Service!Shut
  <2>2. Service!CloseSessions(gone)
    BY <1>2, <1>3, <2>1 DEF Service!CloseSessions
  <2>3. Known' = Known
    BY <1>1, <1>5, ReapedDoor DEF Known
  <2>4. QED  BY <1>4, <2>2, <2>3 DEF Service!Next, KnownInv
<1>6. CASE /\ ~(Cardinality(Known) >= MaxSessions)
           /\ \E s \in Sessions \ Known : session' = [Reaped EXCEPT ![s] = "READY"]
  <2>1. PICK s \in Sessions \ Known : session' = [Reaped EXCEPT ![s] = "READY"]
    BY <1>6
  <2>2. /\ session'[s] = "READY"
        /\ \A t \in Sessions \ {s} : session'[t] = Reaped[t]
    BY <2>1, <1>1, ReapedType
  <2>3. Door[s] = "none"
    BY DEF Door, Known
  <2>4. Door' = [Service!Shut(gone) EXCEPT ![s] = "open"]
    <3>1. ASSUME NEW t \in Sessions
          PROVE  Door'[t] = [Service!Shut(gone) EXCEPT ![s] = "open"][t]
      <4>1. CASE t = s
        BY <2>2, <4>1 DEF Door, Active, Service!Shut
      <4>2. CASE t # s
        BY <1>1, <2>2, <4>2, ReapedDoor DEF Door, Service!Shut
      <4>3. QED  BY <4>1, <4>2
    <3>2. Door' = [t \in Sessions |-> Door'[t]]
      BY DEF Door
    <3>3. [Service!Shut(gone) EXCEPT ![s] = "open"]
            = [t \in Sessions |-> [Service!Shut(gone) EXCEPT ![s] = "open"][t]]
      BY DEF Service!Shut
    <3> QED  BY <3>1, <3>2, <3>3
  <2>5. IsFiniteSet(Known) /\ Cardinality(Known) \in Nat /\ Cardinality(Known) < MaxSessions
    BY <1>6, FS_CardinalityType, MaxSessionsAssumption DEF KnownInv
  <2>6. /\ IsFiniteSet(Service!Open \ gone)
        /\ Cardinality(Service!Open \ gone) <= Cardinality(Known)
    BY <2>5, OpenSessions, FS_Subset
  <2>7. Cardinality(Service!Open \ gone) \in Nat
    BY <2>6, FS_CardinalityType
  <2>8. Cardinality(Service!Open \ gone) < MaxSessions
    BY <2>5, <2>6, <2>7, MaxSessionsAssumption
  <2>9. Service!OpenSession(s, gone)
    BY <1>2, <1>3, <2>3, <2>4, <2>8, SameCardinality DEF Service!OpenSession
  <2>10. Known' = Known \cup {s}
    BY <1>1, <2>2, ReapedDoor DEF Known
  <2>11. IsFiniteSet(Known') /\ Cardinality(Known') = Cardinality(Known) + 1
    BY <2>5, <2>10, FS_AddElement
  <2>12. KnownInv'
    BY <2>5, <2>11, MaxSessionsAssumption DEF KnownInv
  <2>13. QED  BY <1>4, <2>9, <2>12 DEF Service!Next
<1>7. QED  BY <1>5, <1>6 DEF CreateSession

LEMMA SessionStepsAreServiceSteps ==
  ASSUME IInv, KnownInv, NEW s \in Sessions,
         GetStatus(s) \/ CloseSession(s) \/ TimePasses(s)
  PROVE  [Service!Next]_(Service!vars) /\ KnownInv'
<1>1. session \in [Sessions -> Status]
  BY DEF IInv, EngineTypeOK
<1>2. /\ sessionOf' = sessionOf /\ Phase' = Phase /\ Outcome' = Outcome
      /\ Living' = Living
  BY OnlySessionsMove DEF GetStatus, CloseSession, TimePasses
<1>3. Living = {d \in Commands : Alive(d)} /\ Living' = {d \in Commands : Alive(d)'}
  BY DEF Living
<1>4. CASE Door' = Door /\ Known' = Known
  BY <1>2, <1>3, <1>4 DEF Service!vars, KnownInv
<1>5. CASE s \in Service!Open /\ Door' = Service!Shut({s}) /\ Known' = Known
  <2>1. Service!CloseSessions({s}) /\ {s} \in SUBSET Service!Open
    BY <1>2, <1>3, <1>5 DEF Service!CloseSessions
  <2>2. QED  BY <1>5, <2>1 DEF Service!Next, KnownInv
<1>6. CASE TimePasses(s)
  BY <1>4, <1>6 DEF TimePasses, Door, Known
<1>7. CASE session[s] \in Active /\ \E v \in {"STOPPED", "EXPIRED"} : session' = [session EXCEPT ![s] = v]
  <2>1. /\ session'[s] \in {"STOPPED", "EXPIRED"}
        /\ \A t \in Sessions \ {s} : session'[t] = session[t]
    BY <1>1, <1>7
  <2>2. s \in Service!Open /\ s \in Known
    BY <1>7, OpenSessions
  <2>3. Door' = Service!Shut({s})
    BY <2>1 DEF Door, Active, Service!Shut
  <2>4. Known' = Known
    BY <2>1, <2>2 DEF Known
  <2>5. QED  BY <1>5, <2>2, <2>3, <2>4
<1>8. CASE session[s] \in Status \ (Active \cup {"NONE"}) /\ session' = [session EXCEPT ![s] = "STOPPED"]
  <2>1. /\ session'[s] = "STOPPED"
        /\ \A t \in Sessions \ {s} : session'[t] = session[t]
    BY <1>1, <1>8
  <2>2. Door' = Door
    BY <1>8, <2>1 DEF Door, Active
  <2>3. Known' = Known
    BY <1>8, <2>1 DEF Known
  <2>4. QED  BY <1>4, <2>2, <2>3
<1>9. CASE GetStatus(s)
  BY <1>7, <1>9 DEF GetStatus, Expired
<1>10. CASE CloseSession(s)
  BY <1>1, <1>7, <1>8, <1>10 DEF CloseSession, Known
<1>11. QED  BY <1>6, <1>9, <1>10

-----------------------------------------------------------------------------
(* Requests *)

ServiceRefusals == {"REJECTED"} \cup (Refusal \ {"error"})

\* What an answer does to what is seen of the commands.
LEMMA AnswerIsSeen ==
  ASSUME IInv, NEW c \in Commands, NEW r \in CommandStatus \cup Refusal, Answers(c, r),
         New(c) \/ InFlight(c), UNCHANGED <<processVars, sessionOf>>
  PROVE  /\ Phase' = [Phase EXCEPT ![c] = IF sessionOf[c] = None THEN "refused"
                                                                  ELSE "answered"]
         /\ Outcome' = [Outcome EXCEPT ![c] = r]
         /\ Living' = Living /\ sessionOf' = sessionOf
         /\ reply'[c] = r /\ \A d \in Commands \ {c} : reply'[d] = reply[d]
<1>1. reply \in [Commands -> CommandStatus \cup Refusal \cup {"none"}]
  BY DEF IInv, EngineTypeOK
<1>2. reply'[c] = r /\ \A d \in Commands \ {c} : reply'[d] = reply[d]
  BY <1>1 DEF Answers
<1>3. r # "none"
  BY DEF CommandStatus, Refusal
<1>4. call' = call /\ proc' = proc /\ sessionOf' = sessionOf
  BY DEF processVars
<1>5. ~New(c)' /\ ~InFlight(c)'
  BY <1>2, <1>3 DEF New, InFlight
<1>6. \A d \in Commands \ {c} : (New(d)' <=> New(d)) /\ (InFlight(d)' <=> InFlight(d))
  BY <1>2, <1>4 DEF New, InFlight
<1>7. Phase' = [Phase EXCEPT ![c] = IF sessionOf[c] = None THEN "refused"
                                                            ELSE "answered"]
  BY <1>4, <1>5, <1>6 DEF Phase
<1>8. Outcome' = [Outcome EXCEPT ![c] = r]
  BY <1>2, <1>4, <1>5, <1>6 DEF Outcome
<1>9. Living' = Living
  BY <1>4 DEF Living, Alive
<1>10. QED  BY <1>2, <1>4, <1>7, <1>8, <1>9

LEMMA RefusalIsAServiceStep ==
  ASSUME IInv, NEW c \in Commands, New(c), NEW r \in ServiceRefusals, Answers(c, r),
         UNCHANGED <<processVars, sessionOf>>,
         NEW gone \in SUBSET Service!Open, Door' = Service!Shut(gone)
  PROVE  Service!Next
<1>1. r \in CommandStatus \cup Refusal
  BY DEF ServiceRefusals, CommandStatus
<1>2. /\ Phase' = [Phase EXCEPT ![c] = "refused"]
      /\ Outcome' = [Outcome EXCEPT ![c] = r]
      /\ Living' = Living /\ sessionOf' = sessionOf
  BY <1>1, AnswerIsSeen DEF New
<1>3. Phase[c] = "new"
  BY DEF Phase
<1>4. Living = {d \in Commands : Alive(d)} /\ Living' = {d \in Commands : Alive(d)'}
  BY DEF Living
<1>5. Service!Refuse(c, gone)
  BY <1>2, <1>3, <1>4
  DEF Service!Refuse, Service!Moves, Service!Decides, ServiceRefusals
<1>6. QED  BY <1>5 DEF Service!Next

\* A request that is refused keeps what is counted, too.
LEMMA RefusalStands ==
  ASSUME IInv, ServiceInv, NEW c \in Commands, New(c),
         NEW r \in CommandStatus \cup Refusal, Answers(c, r),
         UNCHANGED <<processVars, sessionOf>>, Known' = Known
  PROVE  ServiceInv'
<1>1. \A d \in Commands \ {c} : reply'[d] = reply[d]
  BY AnswerIsSeen
<1>2. call' = call /\ sessionOf' = sessionOf
  BY DEF processVars
<1>3. \A d \in Commands : Standing(d)'
  BY <1>1, <1>2 DEF ServiceInv, Standing, New
<1>4. QED  BY <1>3 DEF ServiceInv, KnownInv

LEMMA DoorStays ==
  ASSUME UNCHANGED session
  PROVE  Door' = Service!Shut({}) /\ Known' = Known /\ {} \in SUBSET Service!Open
  BY DEF Door, Known, Service!Shut

LEMMA ExecuteInactiveIsAServiceStep ==
  ASSUME IInv, ServiceInv, NEW c \in Commands, NEW s \in Sessions, New(c),
         ExecuteInactive(c, s)
  PROVE  Service!Next /\ ServiceInv'
<1>1. session \in [Sessions -> Status]
  BY DEF IInv, EngineTypeOK
<1>2. session' = [session EXCEPT ![s] = IF Expired(s) THEN "EXPIRED" ELSE @]
  BY DEF ExecuteInactive
<1>3. "inactive" \in ServiceRefusals /\ "inactive" \in CommandStatus \cup Refusal
  BY DEF ServiceRefusals, Refusal
<1>4. CASE Expired(s)
  <2>1. /\ session'[s] = "EXPIRED"
        /\ \A t \in Sessions \ {s} : session'[t] = session[t]
    BY <1>1, <1>2, <1>4
  <2>2. {s} \in SUBSET Service!Open /\ s \in Known
    BY <1>4, OpenSessions DEF Expired
  <2>3. Door' = Service!Shut({s})
    BY <2>1 DEF Door, Active, Service!Shut
  <2>4. Known' = Known
    BY <2>1, <2>2 DEF Known
  <2>5. QED
    BY <1>3, <2>2, <2>3, <2>4, RefusalIsAServiceStep, RefusalStands DEF ExecuteInactive
<1>5. CASE ~Expired(s)
  <2>1. UNCHANGED session
    BY <1>1, <1>2, <1>5
  <2>2. QED
    BY <1>3, <2>1, DoorStays, RefusalIsAServiceStep, RefusalStands DEF ExecuteInactive
<1>6. QED  BY <1>4, <1>5

LEMMA ExecuteStartsIsAServiceStep ==
  ASSUME IInv, ServiceInv, NEW c \in Commands, NEW s \in Sessions, New(c),
         NEW valid, NEW permitted, ExecuteStarts(c, s, valid, permitted)
  PROVE  Service!Next /\ ServiceInv'
<1>1. EngineTypeOK /\ call \in [Commands -> Call]
  BY DEF IInv, ProcessInv, ProcessTypeOK
<1>2. /\ session[s] \in Active
      /\ session' = [session EXCEPT ![s] = "RUNNING"]
      /\ sessionOf' = [sessionOf EXCEPT ![c] = s]
      /\ reply' = reply /\ proc' = proc
      /\ call' = [call EXCEPT ![c] = Awaits("spawning", "none")]
  BY DEF ExecuteStarts, Start, GoTo
<1>3. /\ sessionOf'[c] = s /\ call'[c] = Awaits("spawning", "none")
      /\ \A d \in Commands \ {c} : sessionOf'[d] = sessionOf[d] /\ call'[d] = call[d]
  BY <1>1, <1>2 DEF EngineTypeOK
<1>4. InFlight(c)' /\ ~New(c)' /\ s # None
  BY <1>2, <1>3, NoneAssumption DEF New, InFlight
<1>5. \A d \in Commands \ {c} :
        /\ (New(d)' <=> New(d)) /\ (InFlight(d)' <=> InFlight(d))
        /\ PhaseOfRun(call[d])' = PhaseOfRun(call[d])
        /\ OutcomeOfRun(call[d])' = OutcomeOfRun(call[d])
  BY <1>2, <1>3 DEF New, InFlight, PhaseOfRun, OutcomeOfRun
<1>6. /\ PhaseOfRun(call[c])' = "starting" /\ OutcomeOfRun(call[c])' = "none"
      /\ call'[c].at = "spawning"
  BY <1>3 DEF Awaits, PhaseOfRun, OutcomeOfRun
<1>7. Phase' = [Phase EXCEPT ![c] = "starting"]
  BY <1>3, <1>4, <1>5, <1>6 DEF Phase
<1>8. Outcome' = Outcome
  <2>1. Outcome[c] = "none" /\ Outcome'[c] = "none"
    BY <1>4, <1>6 DEF Outcome, New, InFlight
  <2>2. \A d \in Commands \ {c} : Outcome'[d] = Outcome[d]
    BY <1>2, <1>5 DEF Outcome
  <2>3. Outcome = [d \in Commands |-> Outcome[d]] /\ Outcome' = [d \in Commands |-> Outcome'[d]]
    BY DEF Outcome
  <2>4. QED  BY <2>1, <2>2, <2>3
<1>9. Phase[c] = "new" /\ s \in Service!Open
  BY <1>2, OpenSessions DEF Phase
<1>10. Door' = Door /\ Known' = Known
  <2>1. session'[s] = "RUNNING" /\ \A t \in Sessions \ {s} : session'[t] = session[t]
    BY <1>1, <1>2 DEF EngineTypeOK
  <2>2. QED  BY <1>2, <2>1 DEF Door, Known, Active
<1>11. {d \in Commands : Alive(d)}' = {d \in Commands : Alive(d)}
  BY <1>2 DEF Alive
<1>12. Service!Begin(c, s)
  BY <1>2, <1>7, <1>8, <1>9, <1>10, <1>11 DEF Service!Begin, Service!Moves
<1>13. \A d \in Commands : Standing(d)'
  BY <1>2, <1>3, <1>4, <1>6 DEF ServiceInv, Standing, New
<1>14. QED  BY <1>10, <1>12, <1>13 DEF Service!Next, ServiceInv, KnownInv

LEMMA ExecuteIsAServiceStep ==
  ASSUME IInv, ServiceInv, NEW c \in Commands, NEW s \in Sessions,
         NEW valid, NEW permitted, Execute(c, s, valid, permitted)
  PROVE  Service!Next /\ ServiceInv'
<1>1. New(c)
  BY DEF Execute
<1>2. CASE ExecuteInactive(c, s)
  BY <1>1, <1>2, ExecuteInactiveIsAServiceStep
<1>3. CASE ExecuteRejected(c, s, valid, permitted)
  <2>1. "REJECTED" \in ServiceRefusals /\ "REJECTED" \in CommandStatus \cup Refusal
    BY DEF ServiceRefusals, CommandStatus
  <2>2. QED
    BY <1>1, <1>3, <2>1, DoorStays, RefusalIsAServiceStep, RefusalStands
    DEF ExecuteRejected
<1>4. CASE ExecuteStarts(c, s, valid, permitted)
  BY <1>1, <1>4, ExecuteStartsIsAServiceStep
<1>5. QED  BY <1>2, <1>3, <1>4 DEF Execute

LEMMA PostExecuteIsAServiceStep ==
  ASSUME IInv, ServiceInv, NEW c \in Commands, NEW s \in Sessions, PostExecute(c, s)
  PROVE  Service!Next /\ ServiceInv'
<1>1. PICK target \in {"missing", "lapsed", "authorized"},
           action \in {"echo", "install", "verify", "other"}, approved \in BOOLEAN :
        \/ Execute(c, s, TRUE,
             Permits(Evaluate(action, target = "authorized"), approved))
        \/ /\ New(c) /\ RouteRefusal(target, action, approved) # "none"
           /\ Answers(c, RouteRefusal(target, action, approved))
           /\ UNCHANGED <<processVars, session, stale, sessionOf, last>>
  BY DEF PostExecute
<1>2. CASE Execute(c, s, TRUE,
             Permits(Evaluate(action, target = "authorized"), approved))
  BY <1>2, ExecuteIsAServiceStep
<1>3. CASE /\ New(c) /\ RouteRefusal(target, action, approved) # "none"
           /\ Answers(c, RouteRefusal(target, action, approved))
           /\ UNCHANGED <<processVars, session, stale, sessionOf, last>>
  <2>1. /\ RouteRefusal(target, action, approved) \in ServiceRefusals
        /\ RouteRefusal(target, action, approved) \in CommandStatus \cup Refusal
    BY <1>3 DEF RouteRefusal, Refusal, ServiceRefusals
  <2>2. QED  BY <1>3, <2>1, DoorStays, RefusalIsAServiceStep, RefusalStands
<1>4. QED  BY <1>1, <1>2, <1>3

\* execute answers with what the run came to.
LEMMA ExecuteEndsIsAServiceStep ==
  ASSUME IInv, ServiceInv, NEW c \in Commands, ExecuteEnds(c)
  PROVE  Service!Next /\ ServiceInv'
<1> DEFINE t == sessionOf[c]
<1>1. EngineTypeOK
  BY DEF IInv
<1>2. InFlight(c) /\ call[c].at = "done" /\ t \in Sessions /\ t # None
  BY <1>1, NoneAssumption DEF ExecuteEnds, InFlight, EngineTypeOK
<1>3. OutcomeOfRun(call[c]) \in CommandStatus \cup Refusal
      /\ Answers(c, OutcomeOfRun(call[c]))
  BY <1>2 DEF ExecuteEnds, OutcomeOfRun, StatusOf, CommandStatus, Refusal
<1>4. Phase[c] = "over" /\ Outcome[c] = OutcomeOfRun(call[c])
  BY <1>2 DEF Phase, Outcome, PhaseOfRun, InFlight, New
<1>5. UNCHANGED <<processVars, sessionOf>>
  BY DEF ExecuteEnds
<1>6. /\ Phase' = [Phase EXCEPT ![c] = "answered"]
      /\ Outcome' = [Outcome EXCEPT ![c] = OutcomeOfRun(call[c])]
      /\ Living' = Living /\ sessionOf' = sessionOf
      /\ \A d \in Commands \ {c} : reply'[d] = reply[d]
  BY <1>2, <1>3, <1>5, AnswerIsSeen
<1>7. Outcome' = Outcome
  BY <1>4, <1>6 DEF Outcome
<1>8. Door' = Door /\ Known' = Known
  <2>1. /\ session'[t] = IF session[t] = "RUNNING" THEN "READY" ELSE session[t]
        /\ \A u \in Sessions \ {t} : session'[u] = session[u]
    BY <1>1, <1>2 DEF ExecuteEnds, Released, EngineTypeOK
  <2>2. QED  BY <2>1 DEF Door, Known, Active
<1>9. Living = {d \in Commands : Alive(d)} /\ Living' = {d \in Commands : Alive(d)'}
  BY DEF Living
<1>10. Service!Answer(c)
  BY <1>4, <1>6, <1>7, <1>8, <1>9 DEF Service!Answer, Service!Moves
<1>11. \A d \in Commands : Standing(d)'
  BY <1>2, <1>5, <1>6 DEF ServiceInv, Standing, processVars
<1>12. QED  BY <1>8, <1>10, <1>11 DEF Service!Next, ServiceInv, KnownInv

\* Steps of a run keep what is counted, too.
LEMMA RunStands ==
  ASSUME IInv, ServiceInv, NEW c \in Commands, NEW r \in Call, GoTo(c, r),
         UNCHANGED engineVars, call[c].at # "idle", r.at # "idle",
         call[c].at = "done" => r.at = "done"
  PROVE  ServiceInv'
<1>1. call' = [call EXCEPT ![c] = r] /\ call \in [Commands -> Call]
  BY DEF GoTo, IInv, ProcessInv, ProcessTypeOK
<1>2. call'[c] = r /\ \A d \in Commands \ {c} : call'[d] = call[d]
  BY <1>1
<1>3. session' = session /\ sessionOf' = sessionOf /\ reply' = reply
  BY DEF engineVars
<1>4. \A d \in Commands : Standing(d)'
  BY <1>2, <1>3 DEF ServiceInv, Standing
<1>5. Known' = Known
  BY <1>3 DEF Known
<1>6. QED  BY <1>4, <1>5 DEF ServiceInv, KnownInv

LEMMA NextIsAServiceStep ==
  IInv /\ ServiceInv /\ [Next]_vars => [Service!Next]_(Service!vars) /\ ServiceInv'
<1> SUFFICES ASSUME IInv, ServiceInv, [Next]_vars
             PROVE  [Service!Next]_(Service!vars) /\ ServiceInv'
  OBVIOUS
<1>1. CASE CreateSession
  <2>1. \A c \in Commands : Standing(c)'
    BY <1>1, OnlySessionsMove DEF CreateSession, ServiceInv
  <2>2. QED  BY <1>1, <2>1, CreateSessionIsAServiceStep DEF ServiceInv
<1>2. ASSUME NEW s \in Sessions, GetStatus(s) \/ CloseSession(s) \/ TimePasses(s)
      PROVE  [Service!Next]_(Service!vars) /\ ServiceInv'
  <2>1. \A c \in Commands : Standing(c)'
    BY <1>2, OnlySessionsMove DEF GetStatus, CloseSession, TimePasses, ServiceInv
  <2>2. QED  BY <1>2, <2>1, SessionStepsAreServiceSteps DEF ServiceInv
<1>3. ASSUME NEW c \in Commands, NEW s \in Sessions, PostExecute(c, s)
      PROVE  [Service!Next]_(Service!vars) /\ ServiceInv'
  BY <1>3, PostExecuteIsAServiceStep
<1>4. ASSUME NEW c \in Commands, NEW s \in Sessions, ServiceExecutes(c, s)
      PROVE  [Service!Next]_(Service!vars) /\ ServiceInv'
  <2>1. PICK valid, approved \in BOOLEAN : \E verdict \in Verdict :
          Execute(c, s, valid, Permits(verdict, approved))
    BY <1>4 DEF ServiceExecutes
  <2>2. PICK verdict \in Verdict : Execute(c, s, valid, Permits(verdict, approved))
    BY <2>1
  <2>3. QED  BY <2>2, ExecuteIsAServiceStep
<1>5. ASSUME NEW c \in Commands, Runs(c) \/ TerminateCommand(c)
      PROVE  [Service!Next]_(Service!vars) /\ ServiceInv'
  <2>1. ProcessInv /\ UNCHANGED engineVars /\ (RunStep(c) \/ Cancel(c))
    BY <1>5 DEF Runs, TerminateCommand, IInv
  <2>2. PICK r \in Call, p \in Process :
          GoTo(c, r) /\ Becomes(c, p) /\ RunMoves(c, r, p)
    BY <2>1, RunStepMoves, CancelMoves
  <2>3. [Service!Next]_(Service!vars)
    BY <2>1, <2>2, RunIsAServiceStep DEF ServiceInv
  <2>4. ServiceInv'
    BY <2>1, <2>2, RunStands DEF RunMoves
  <2>5. QED  BY <2>3, <2>4
<1>6. ASSUME NEW c \in Commands, ExecuteEnds(c)
      PROVE  [Service!Next]_(Service!vars) /\ ServiceInv'
  BY <1>6, ExecuteEndsIsAServiceStep
<1>7. CASE UNCHANGED vars
  <2>1. UNCHANGED <<processVars, sessionOf, reply>> /\ session' = session
    BY <1>7 DEF vars, engineVars
  <2>2. Door' = Door /\ Known' = Known
    BY <2>1 DEF Door, Known
  <2>3. Living = {d \in Commands : Alive(d)} /\ Living' = {d \in Commands : Alive(d)'}
    BY DEF Living
  <2>4. QED
    BY <2>1, <2>2, <2>3, OnlySessionsMove DEF Service!vars, ServiceInv, KnownInv
<1>8. QED  BY <1>1, <1>2, <1>3, <1>4, <1>5, <1>6, <1>7 DEF Next

LEMMA InitIsAServiceInit == Init => Service!Init /\ ServiceInv
<1> SUFFICES ASSUME Init  PROVE Service!Init /\ ServiceInv
  OBVIOUS
<1>1. /\ \A c \in Commands : New(c) /\ ~InFlight(c) /\ ~Alive(c) /\ call[c].at = "idle"
      /\ Known = {}
  BY DEF Init, ProcessInit, New, InFlight, Alive, NoProcess, Awaits, Known
<1>2. KnownInv
  BY <1>1, FS_EmptySet, MaxSessionsAssumption DEF KnownInv
<1>3. \A c \in Commands : Standing(c)
  BY <1>1 DEF Standing, Init
<1>4. Service!Init
  BY <1>1 DEF Init, Service!Init, Door, Phase, Outcome
<1>5. QED  BY <1>2, <1>3, <1>4 DEF ServiceInv

\* A command that is refused never runs; one that is begun is begun once, in a
\* session that is neither closed nor expired, and is answered once, with what its
\* run came to, when its process is gone unless a second cancel would not wait; no
\* more sessions are open than the limit.
THEOREM EngineImplementsTerminalService == Spec => ImplementsTerminalService
<1>1. Init => Service!Init /\ ServiceInv
  BY InitIsAServiceInit
<1>2. IInv /\ ServiceInv /\ [Next]_vars => [Service!Next]_(Service!vars) /\ ServiceInv'
  BY NextIsAServiceStep
<1>3. QED
  BY <1>1, <1>2, InvariantHolds, PTL DEF Spec, ImplementsTerminalService, Service!Spec

\* No more sessions than the limit are ever made: closed and expired ones are
\* counted as well, which is more than the setting is for.
THEOREM SessionsStayWithinLimit ==
  Spec => [](IsFiniteSet(Known) /\ Cardinality(Known) <= MaxSessions)
<1>1. IInv /\ ServiceInv /\ [Next]_vars => ServiceInv'
  BY NextIsAServiceStep
<1>2. Init => ServiceInv
  BY InitIsAServiceInit
<1>3. ServiceInv => IsFiniteSet(Known) /\ Cardinality(Known) <= MaxSessions
  BY DEF ServiceInv, KnownInv
<1>4. QED  BY <1>1, <1>2, <1>3, InvariantHolds, PTL DEF Spec
=============================================================================
