---------------------------- MODULE TerminalEngine ----------------------------
(***************************************************************************)
(* TerminalEngine and SessionManager, the routes of /terminal and the      *)
(* services that call the engine directly.  Requests are served by one     *)
(* event loop: execute runs in one step up to the start of its adapter's   *)
(* coroutine, and finishes in another when that one has returned, so       *)
(* sessions are closed, expire and get further commands in between.        *)
(*                                                                         *)
(* Time is the set of sessions idle for longer than the TTL.  A command    *)
(* may outlast the TTL of its session: both limits are settings.           *)
(***************************************************************************)
EXTENDS LocalProcess, Naturals, FiniteSets

CONSTANTS
  Sessions,     \* session ids (uuid4)
  MaxSessions,  \* max_concurrent_sessions
  None          \* no session

ASSUME NoneAssumption == None \notin Sessions
ASSUME MaxSessionsAssumption == MaxSessions \in Nat

VARIABLES
  session,    \* SessionManager._sessions[s].status, NONE when there is none
  stale,      \* sessions whose last activity is longer ago than the TTL
  sessionOf,  \* the session of each command request
  reply,      \* what the caller of execute got
  last        \* _last_result_by_session[s]: the status of its last result

engineVars == <<session, stale, sessionOf, reply, last>>
vars == <<processVars, engineVars>>

Status == {"NONE", "READY", "RUNNING", "STOPPED", "EXPIRED"}

CommandStatus == {"COMPLETED", "FAILED", "TIMEOUT", "CANCELLED", "REJECTED"}

\* The HTTP errors of the execute route, and the OSError no handler expects.
Refusal ==
  {"target_not_found", "action_not_registered", "policy_denied",
   "approval_required", "no_command_template", "inactive", "error"}

TypeOK ==
  /\ ProcessTypeOK
  /\ session \in [Sessions -> Status]
  /\ stale \in SUBSET Sessions
  /\ sessionOf \in [Commands -> Sessions \cup {None}]
  /\ reply \in [Commands -> CommandStatus \cup Refusal \cup {"none"}]
  /\ last \in [Sessions -> CommandStatus \cup {"none"}]

Init ==
  /\ ProcessInit
  /\ session = [s \in Sessions |-> "NONE"]
  /\ stale = {}
  /\ sessionOf = [c \in Commands |-> None]
  /\ reply = [c \in Commands |-> "none"]
  /\ last = [s \in Sessions |-> "none"]

Known == {s \in Sessions : session[s] # "NONE"}

Active == {"READY", "RUNNING"}

Expired(s) == session[s] \in Active /\ s \in stale

InFlight(c) == sessionOf[c] # None /\ reply[c] = "none"

-----------------------------------------------------------------------------
(* Sessions *)

Reaped == [s \in Sessions |-> IF Expired(s) THEN "EXPIRED" ELSE session[s]]

\* The limit counts every session there ever was.
CreateSession ==
  /\ IF Cardinality(Known) >= MaxSessions
     THEN session' = Reaped
     ELSE \E s \in Sessions \ Known :
            session' = [Reaped EXCEPT ![s] = "READY"]
  /\ UNCHANGED <<processVars, stale, sessionOf, reply, last>>

GetStatus(s) ==
  /\ Expired(s)
  /\ session' = [session EXCEPT ![s] = "EXPIRED"]
  /\ UNCHANGED <<processVars, stale, sessionOf, reply, last>>

CloseSession(s) ==
  /\ s \in Known
  /\ session' = [session EXCEPT ![s] = "STOPPED"]
  /\ stale' = stale \ {s}
  /\ UNCHANGED <<processVars, sessionOf, reply, last>>

TimePasses(s) ==
  /\ session[s] \in Active
  /\ stale' = stale \cup {s}
  /\ UNCHANGED <<processVars, session, sessionOf, reply, last>>

-----------------------------------------------------------------------------
(* Commands *)

Verdict == {"ALLOW", "REQUIRE_APPROVAL", "DENY"}

RiskTier(action) == IF action = "install" THEN "medium" ELSE "low"

\* PolicyEngine.evaluate for an action type of the registry.
Evaluate(action, authorized) ==
  IF ~authorized THEN "DENY"
  ELSE IF RiskTier(action) = "medium" THEN "REQUIRE_APPROVAL" ELSE "ALLOW"

\* ApprovedExecution.from_policy_decision
Permits(verdict, approved) ==
  verdict = "ALLOW" \/ (verdict = "REQUIRE_APPROVAL" /\ approved)

Answers(c, r) == reply' = [reply EXCEPT ![c] = r]

\* The session is looked up, expires if it must, and does not take the command.
ExecuteInactive(c, s) ==
  /\ session[s] \notin Active \/ s \in stale
  /\ session' = [session EXCEPT ![s] = IF Expired(s) THEN "EXPIRED" ELSE @]
  /\ Answers(c, "inactive")
  /\ UNCHANGED <<processVars, stale, sessionOf, last>>

\* argv or directory are not valid, or the decision does not permit it.
ExecuteRejected(c, s, valid, permitted) ==
  /\ session[s] \in Active /\ s \notin stale
  /\ ~(valid /\ permitted)
  /\ Answers(c, "REJECTED")
  /\ last' = [last EXCEPT ![s] = "REJECTED"]
  /\ UNCHANGED <<processVars, session, stale, sessionOf>>

ExecuteStarts(c, s, valid, permitted) ==
  /\ session[s] \in Active /\ s \notin stale
  /\ valid /\ permitted
  /\ session' = [session EXCEPT ![s] = "RUNNING"]
  /\ sessionOf' = [sessionOf EXCEPT ![c] = s]
  /\ Start(c)
  /\ UNCHANGED <<stale, reply, last>>

New(c) == sessionOf[c] = None /\ reply[c] = "none"

Execute(c, s, valid, permitted) ==
  /\ New(c)
  /\ \/ ExecuteInactive(c, s)
     \/ ExecuteRejected(c, s, valid, permitted)
     \/ ExecuteStarts(c, s, valid, permitted)

\* The answer of the route when it does not call the engine.
RouteRefusal(target, action, approved) ==
  LET verdict == Evaluate(action, target = "authorized")
  IN CASE target = "missing" -> "target_not_found"
       [] action = "other" -> "action_not_registered"
       [] verdict = "DENY" -> "policy_denied"
       [] verdict = "REQUIRE_APPROVAL" /\ ~approved -> "approval_required"
       [] action # "echo" -> "no_command_template"
       [] OTHER -> "none"

PostExecute(c, s) ==
  \E target \in {"missing", "lapsed", "authorized"},
     action \in {"echo", "install", "verify", "other"}, approved \in BOOLEAN :
    LET refusal == RouteRefusal(target, action, approved)
    IN \/ /\ refusal = "none"
          /\ Execute(c, s, TRUE,
               Permits(Evaluate(action, target = "authorized"), approved))
       \/ /\ New(c) /\ refusal # "none"
          /\ Answers(c, refusal)
          /\ UNCHANGED <<processVars, session, stale, sessionOf, last>>

\* The agent's executor and the installation service ask the policy themselves.
ServiceExecutes(c, s) ==
  \E valid, approved \in BOOLEAN : \E verdict \in Verdict :
    Execute(c, s, valid, Permits(verdict, approved))

\* The execution status of the adapter, which is not a command status.
StatusAsReturned(ret) == IF ret = "raised" THEN "FAILED" ELSE ret

StatusOf(ret) ==
  CASE ret = "timed_out" -> "TIMEOUT"
    [] ret = "succeeded" -> "COMPLETED"
    [] ret = "cancelled" -> "CANCELLED"
    [] OTHER -> "FAILED"

\* Without looking at the status, and without the status.
ReleasedAlways(s) ==
  stale' = stale \ {s} /\ session' = [session EXCEPT ![s] = "READY"]
ReleasedStillRunning(s) ==
  stale' = stale \ {s} /\ UNCHANGED session

\* The finally of _execute: READY again, unless it was closed or expired.
Released(s) ==
  /\ stale' = stale \ {s}
  /\ session' = [session EXCEPT ![s] = IF @ = "RUNNING" THEN "READY" ELSE @]

ExecuteEnds(c) ==
  /\ InFlight(c) /\ call[c].at = "done"
  /\ Released(sessionOf[c])
  /\ IF call[c].ret = "raised"
     THEN Answers(c, "error") /\ UNCHANGED last
     ELSE /\ Answers(c, StatusOf(call[c].ret))
          /\ last' = [last EXCEPT ![sessionOf[c]] = StatusOf(call[c].ret)]
  /\ UNCHANGED <<processVars, sessionOf>>

\* TerminalEngine.terminate: task.cancel() of a task still in _running.
TerminateCommand(c) ==
  /\ InFlight(c)
  /\ Cancel(c)
  /\ UNCHANGED engineVars

Runs(c) == RunStep(c) /\ UNCHANGED engineVars

Next ==
  \/ CreateSession
  \/ \E s \in Sessions : GetStatus(s) \/ CloseSession(s) \/ TimePasses(s)
  \/ \E c \in Commands, s \in Sessions : PostExecute(c, s) \/ ServiceExecutes(c, s)
  \/ \E c \in Commands : Runs(c) \/ TerminateCommand(c) \/ ExecuteEnds(c)

Spec == Init /\ [][Next]_vars

-----------------------------------------------------------------------------
(* Properties *)

\* A session that says RUNNING has a command in flight: whichever of several
\* overlapping commands ends last, it does not leave the session RUNNING.
RunningSessionHasCommand ==
  \A s \in Sessions :
    session[s] = "RUNNING" => \E c \in Commands : InFlight(c) /\ sessionOf[c] = s

\* A closed or expired session never takes a command again, also when one that
\* was started before it was closed comes to its end.
ClosedForGood ==
  [][\A s \in Sessions : session[s] \in {"STOPPED", "EXPIRED"}
                           => session'[s] \notin Active]_vars

-----------------------------------------------------------------------------
(* The engine implements TerminalService. *)

\* An expired session is open until the clock is looked at.
Door == [s \in Sessions |-> IF session[s] = "NONE" THEN "none"
                            ELSE IF session[s] \in Active THEN "open" ELSE "closed"]

\* A command being stopped for its output runs on to an end of its own.
PhaseOfRun(r) ==
  CASE r.at = "spawning" -> "starting"
    [] r.at \in {"draining", "waiting"} \/ (r.at = "stopping" /\ r.why = "limit")
         -> "running"
    [] r.at = "stopping" /\ r.why # "limit" -> "stopping"
    [] OTHER -> "over"

OutcomeOfRun(r) ==
  CASE r.at = "done" -> IF r.ret = "raised" THEN "error" ELSE StatusOf(r.ret)
    [] r.at = "stopping" /\ r.why = "timeout" -> "TIMEOUT"
    [] r.at = "stopping" /\ r.why = "cancel" -> "CANCELLED"
    [] OTHER -> "none"

Phase == [c \in Commands |->
  IF New(c) THEN "new"
  ELSE IF InFlight(c) THEN PhaseOfRun(call[c])
  ELSE IF sessionOf[c] = None THEN "refused" ELSE "answered"]

Outcome == [c \in Commands |->
  IF InFlight(c) THEN OutcomeOfRun(call[c]) ELSE reply[c]]

Service ==
  INSTANCE TerminalService WITH
    Refusals <- {"REJECTED"} \cup (Refusal \ {"error"}),
    door <- Door, place <- sessionOf, phase <- Phase, outcome <- Outcome,
    alive <- {c \in Commands : Alive(c)}

\* A command that is refused never runs; one that is begun is begun once, in a
\* session that is neither closed nor expired, and is answered with what its run
\* came to, when its process is gone unless a second cancel would not wait; no
\* more sessions are open than the limit: execute, create_session and terminate
\* keep the promises of TerminalService in every order of their steps.
ImplementsTerminalService == Service!Spec
=============================================================================
