--------------------------- MODULE ToolInstallation ---------------------------
(***************************************************************************)
(* ToolInstallationService over the in-memory registries, with the trust   *)
(* status of the tools it installs.                                        *)
(*                                                                         *)
(* The registry hands out the request itself, so what one call writes is   *)
(* seen by all at once, and a start_installation gives way to others only  *)
(* while it awaits the terminal engine: an install command, then the next  *)
(* attempt's, then the verification.  Everything between two awaits is one *)
(* action.  Calls that only raise or return are no action.                 *)
(***************************************************************************)
EXTENDS Naturals, Sequences, ToolTrust

CONSTANTS
  Requests,    \* installation requests (uuid4)
  Handlers,    \* coroutines of start_installation
  MaxAttempts, \* InstallationServiceConfig.max_install_attempts
  Gone         \* a command id the engine does not know

ASSUME InstallationAssumption ==
  /\ MaxAttempts \in Nat \ {0}
  /\ None \notin Requests \cup Handlers
  /\ Gone \notin Handlers \cup {None}

VARIABLES
  record,   \* the InstallationRequest of each request
  worker,   \* where each coroutine is
  running   \* _running_commands: whose command a request's entry names

installVars == <<record, worker, running>>
vars == <<trustVars, installVars>>

\* "none": not created yet.
InstallationState ==
  {"none", "WAITING_FOR_APPROVAL", "PREPARING", "INSTALLING", "VERIFYING",
   "INSTALLED", "FAILED", "BLOCKED", "CANCELLED", "ROLLBACK_REQUIRED"}

TerminalStates == {"INSTALLED", "FAILED", "BLOCKED", "CANCELLED"}

ErrorCategory == {"failed", "timeout"}

CommandStatus == {"completed", "cancelled"} \cup ErrorCategory

InstallationRequest ==
  [state    : InstallationState,
   tool     : Tools \cup {None},
   risky    : BOOLEAN,            \* plan.approval_required, plan.risk_level
   approved : BOOLEAN,            \* approved_by is set
   attempts : Seq(CommandStatus)]

NewRequest(s, t, risky) ==
  [state |-> s, tool |-> t, risky |-> risky, approved |-> FALSE, attempts |-> <<>>]

NoRequest == NewRequest("none", None, FALSE)

Worker ==
  [at      : {"idle", "installing", "verifying"},
   on      : Requests \cup {None},
   scope   : BOOLEAN,                             \* the target is authorized
   command : {"none", "running"} \cup CommandStatus,
   last    : {"none"} \cup ErrorCategory]         \* last_error_category

Idle ==
  [at |-> "idle", on |-> None, scope |-> FALSE, command |-> "none", last |-> "none"]

TypeOK ==
  /\ TrustTypeOK
  /\ record \in [Requests -> InstallationRequest]
  /\ worker \in [Handlers -> Worker]
  /\ running \in [Requests -> Handlers \cup {None, Gone}]

Init ==
  /\ TrustInit
  /\ record = [r \in Requests |-> NoRequest]
  /\ worker = [h \in Handlers |-> Idle]
  /\ running = [r \in Requests |-> None]

-----------------------------------------------------------------------------
(* request_installation, approve, reject, cancel.                          *)

IsTerminal(r) == record[r].state \in TerminalStates

SetState(r, s) == record' = [record EXCEPT ![r].state = s]

\* The checks a request passes before there is a plan.
Ready(t, platform, scope) == PassesChecks(Metadata[t], trust[t], platform, scope)

\* Not ready, or no plan possible with the managers on the server's path.
RequestBlocked(r, t, platform, scope, path) ==
  /\ record[r].state = "none"
  /\ \/ ~Ready(t, platform, scope)
     \/ ~PlanPossible(Metadata[t], platform, path)
  /\ record' = [record EXCEPT ![r] = NewRequest("BLOCKED", t, FALSE)]
  /\ UNCHANGED <<trustVars, worker, running>>

\* Accepted without a look at the plan.
RequestPreparedAtOnce(r, t, risky, platform, path) ==
  /\ record[r].state = "none" /\ Ready(t, platform, TRUE)
  /\ record' = [record EXCEPT ![r] = NewRequest("PREPARING", t, risky)]
  /\ UNCHANGED <<trustVars, worker, running>>

RequestAccepted(r, t, risky, platform, path) ==
  /\ record[r].state = "none" /\ Ready(t, platform, TRUE)
  /\ PlanPossible(Metadata[t], platform, path)
  /\ LET s == IF risky THEN "WAITING_FOR_APPROVAL" ELSE "PREPARING"
     IN record' = [record EXCEPT ![r] = NewRequest(s, t, risky)]
  /\ UNCHANGED <<trustVars, worker, running>>

Approve(r) ==
  /\ record[r].state = "WAITING_FOR_APPROVAL"
  /\ record' = [record EXCEPT ![r] = [@ EXCEPT !.state = "PREPARING", !.approved = TRUE]]
  /\ UNCHANGED <<trustVars, worker, running>>

\* A refusal of whatever has not been installed.
RejectAnything(r) ==
  /\ record[r].state \notin {"none", "INSTALLED"}
  /\ SetState(r, "CANCELLED")
  /\ UNCHANGED <<trustVars, worker, running>>

\* In any state that is not terminal, while it is being installed too.
Reject(r) ==
  /\ record[r].state # "none" /\ ~IsTerminal(r)
  /\ SetState(r, "CANCELLED")
  /\ UNCHANGED <<trustVars, worker, running>>

CancelNothingRunning(r) ==
  /\ record[r].state # "none" /\ ~IsTerminal(r) /\ running[r] = None
  /\ SetState(r, "CANCELLED")
  /\ UNCHANGED <<trustVars, worker, running>>

\* engine.terminate.  It does nothing to a command that is over.
CancelRunning(r, h) ==
  /\ record[r].state # "none" /\ ~IsTerminal(r) /\ running[r] = h
  /\ worker[h].command = "running"
  /\ worker' = [worker EXCEPT ![h].command = "cancelled"]
  /\ UNCHANGED <<trustVars, record, running>>

-----------------------------------------------------------------------------
(* start_installation.                                                     *)

\* The policy's verdict on the next attempt, and what the engine makes of it,
\* for a request that has become rec.
AttemptDenied(h, r, rec, scope) ==
  /\ ~scope
  /\ record' = [record EXCEPT ![r] = [rec EXCEPT !.state = "BLOCKED"]]
  /\ worker' = [worker EXCEPT ![h] = Idle]
  /\ running' = [running EXCEPT ![r] = None]

\* The session is closed or has expired: the engine raises, after the command
\* was entered as running and before it is.
AttemptRaises(h, r, rec, scope) ==
  /\ scope
  /\ record' = [record EXCEPT ![r] = rec]
  /\ worker' = [worker EXCEPT ![h] = Idle]
  /\ running' = [running EXCEPT ![r] = Gone]

AttemptRuns(h, r, rec, scope, last) ==
  /\ scope
  /\ record' = [record EXCEPT ![r] = rec]
  /\ worker' = [worker EXCEPT ![h] =
                  [at |-> "installing", on |-> r, scope |-> scope,
                   command |-> "running", last |-> last]]
  /\ running' = [running EXCEPT ![r] = h]

Attempt(h, r, rec, scope, last) ==
  \/ AttemptDenied(h, r, rec, scope)
  \/ AttemptRaises(h, r, rec, scope)
  \/ AttemptRuns(h, r, rec, scope, last)

Installing(r) == [record[r] EXCEPT !.state = "INSTALLING"]

\* A start for everything that was not refused: a retry, say.
MayRestart(r) == record[r].state \in {"PREPARING", "INSTALLING", "FAILED"}

MayStart(r) == record[r].state = "PREPARING"

Start(h, r, scope) ==
  /\ worker[h].at = "idle" /\ MayStart(r) /\ trust[record[r].tool] = "approved"
  /\ Attempt(h, r, Installing(r), scope, "none")
  /\ UNCHANGED trustVars

\* The tool is not approved any more, or its name is none that build_install_command
\* accepts: both raise when INSTALLING has been saved.
StartUnapproved(r) ==
  /\ MayStart(r) /\ trust[record[r].tool] # "approved"
  /\ record' = [record EXCEPT ![r] = Installing(r)]
  /\ UNCHANGED <<trustVars, worker, running>>

StartInvalidName(r) ==
  /\ MayStart(r) /\ trust[record[r].tool] = "approved"
  /\ record' = [record EXCEPT ![r] = Installing(r)]
  /\ UNCHANGED <<trustVars, worker, running>>

\* The command comes to an end by itself or by its timeout.
CommandEnds(h, status) ==
  /\ worker[h].command = "running"
  /\ worker' = [worker EXCEPT ![h].command = status]
  /\ UNCHANGED <<trustVars, record, running>>

\* The request the handler works on, its attempt entered.
Attempted(h) ==
  LET r == worker[h].on
  IN [record[r] EXCEPT !.attempts = Append(@, worker[h].command)]

InstallCancelled(h) ==
  /\ worker[h].at = "installing" /\ worker[h].command = "cancelled"
  /\ record' = [record EXCEPT ![worker[h].on] = [Attempted(h) EXCEPT !.state = "CANCELLED"]]
  /\ worker' = [worker EXCEPT ![h] = Idle]
  /\ running' = [running EXCEPT ![worker[h].on] = None]
  /\ UNCHANGED trustVars

\* The limit alone.
GivesUpForgetful(h) == Len(Attempted(h).attempts) = MaxAttempts

\* The attempts are used up, or the same category came twice in a row.
GivesUp(h) ==
  \/ Len(Attempted(h).attempts) = MaxAttempts
  \/ worker[h].last = worker[h].command

InstallFails(h) ==
  /\ worker[h].at = "installing" /\ worker[h].command \in ErrorCategory /\ GivesUp(h)
  /\ record' = [record EXCEPT ![worker[h].on] = [Attempted(h) EXCEPT !.state = "FAILED"]]
  /\ worker' = [worker EXCEPT ![h] = Idle]
  /\ running' = [running EXCEPT ![worker[h].on] = None]
  /\ UNCHANGED trustVars

\* The state is not touched: a request that was rejected meanwhile stays
\* CANCELLED and is attempted again.
Retry(h) ==
  /\ worker[h].at = "installing" /\ worker[h].command \in ErrorCategory /\ ~GivesUp(h)
  /\ Attempt(h, worker[h].on, Attempted(h), worker[h].scope, worker[h].command)
  /\ UNCHANGED trustVars

Verifying(h) == [Attempted(h) EXCEPT !.state = "VERIFYING"]

\* The command stays entered while its result is verified.
InstallStaysEntered(h) ==
  /\ worker[h].at = "installing" /\ worker[h].command = "completed"
  /\ UNCHANGED <<trustVars, running>>

\* The install command did its work: what the three ways on have in common.
InstallSucceeds(h) ==
  /\ worker[h].at = "installing" /\ worker[h].command = "completed"
  /\ running' = [running EXCEPT ![worker[h].on] = None]
  /\ UNCHANGED trustVars

\* A denied verification is rejected by the engine, so it verifies nothing.
VerifyDenied(h) ==
  /\ InstallSucceeds(h) /\ ~worker[h].scope
  /\ record' = [record EXCEPT ![worker[h].on] =
                  [Attempted(h) EXCEPT !.state = "ROLLBACK_REQUIRED"]]
  /\ worker' = [worker EXCEPT ![h] = Idle]

\* The entrypoint is no name build_verification_command accepts, or the session
\* is closed or has expired.
VerifyRaises(h) ==
  /\ InstallSucceeds(h)
  /\ record' = [record EXCEPT ![worker[h].on] = Verifying(h)]
  /\ worker' = [worker EXCEPT ![h] = Idle]

\* The verification command is not entered as running.
VerifyRuns(h) ==
  /\ InstallSucceeds(h) /\ worker[h].scope
  /\ record' = [record EXCEPT ![worker[h].on] = Verifying(h)]
  /\ worker' = [worker EXCEPT ![h] = [@ EXCEPT !.at = "verifying", !.command = "running"]]

\* It ended with 0 and had something to say.
Verified(h) ==
  /\ worker[h].at = "verifying" /\ worker[h].command = "completed"
  /\ SetState(worker[h].on, "INSTALLED")
  /\ worker' = [worker EXCEPT ![h] = Idle]
  /\ UNCHANGED <<trustVars, running>>

\* Verification until it succeeds.
VerifyAgain(h) ==
  /\ worker[h].at = "verifying" /\ worker[h].command # "running"
  /\ worker' = [worker EXCEPT ![h].command = "running"]
  /\ UNCHANGED <<trustVars, record, running>>

NotVerified(h) ==
  /\ worker[h].at = "verifying" /\ worker[h].command # "running"
  /\ SetState(worker[h].on, "ROLLBACK_REQUIRED")
  /\ worker' = [worker EXCEPT ![h] = Idle]
  /\ UNCHANGED <<trustVars, running>>

\* The clock passes expires_at of the target the start was given.
AuthorizationExpires(h) ==
  /\ worker[h].scope
  /\ worker' = [worker EXCEPT ![h].scope = FALSE]
  /\ UNCHANGED <<trustVars, record, running>>

-----------------------------------------------------------------------------

User(r) ==
  \/ \E t \in Tools, platform, server \in Platform : \E path \in SUBSET Managers(server) :
       \/ \E scope \in BOOLEAN : RequestBlocked(r, t, platform, scope, path)
       \/ \E risky \in BOOLEAN : RequestAccepted(r, t, risky, platform, path)
  \/ Approve(r) \/ Reject(r) \/ CancelNothingRunning(r)
  \/ \E h \in Handlers :
       \/ CancelRunning(r, h)
       \/ \E scope \in BOOLEAN : Start(h, r, scope)
  \/ StartUnapproved(r) \/ StartInvalidName(r)

\* What a start does once it is under way.
Proceed(h) ==
  \/ \E status \in CommandStatus \ {"cancelled"} : CommandEnds(h, status)
  \/ InstallCancelled(h) \/ InstallFails(h) \/ Retry(h)
  \/ VerifyDenied(h) \/ VerifyRaises(h) \/ VerifyRuns(h)
  \/ Verified(h) \/ NotVerified(h)

Next ==
  \/ TrustNext /\ UNCHANGED installVars
  \/ \E r \in Requests : User(r)
  \/ \E h \in Handlers : Proceed(h) \/ AuthorizationExpires(h)

\* Commands end, by their timeouts if not by themselves, and the event loop
\* schedules what is ready.
Fairness == \A h \in Handlers : WF_vars(Proceed(h))

Spec == Init /\ [][Next]_vars /\ Fairness

-----------------------------------------------------------------------------
(* What holds.                                                             *)

\* No two coroutines ever work on one request, however starts, cancels and
\* rejections overlap, although nothing but the state of the request keeps
\* them apart and both reject and cancel write it.
OneStartPerRequest ==
  \A g, h \in Handlers :
    worker[g].at # "idle" /\ worker[g].on = worker[h].on => g = h

\* An install command runs only for a tool whose verification confirmed it, and
\* with the user's approval if its risk calls for one, whatever became of the
\* tool, the request and the target since.
InstallsAreSanctioned ==
  \A h \in Handlers :
    LET rec == record[worker[h].on]
    IN worker[h].at = "installing" =>
         /\ Verdict[rec.tool] = "verified"
         /\ rec.risky => rec.approved

\* The attempts of a request tell one story: they are within the limit; only the
\* last may be anything but a failure; a category that came twice in a row was
\* the end; what is installed, or has to be rolled back, was installed by the
\* last attempt.
Story(rec) ==
  LET a == rec.attempts
      n == Len(a)
  IN /\ n <= MaxAttempts
     /\ \A i \in 1 .. n - 1 : a[i] \in ErrorCategory
     /\ \A i \in 1 .. n - 2 : a[i] # a[i + 1]
     /\ rec.state \in {"VERIFYING", "INSTALLED", "ROLLBACK_REQUIRED"} =>
          n > 0 /\ a[n] = "completed"

\* Whoever rejects, cancels or expires in between, the attempts tell one story.
AttemptsCoherent == \A r \in Requests : Story(record[r])

\* cancel finds the install command that runs: it is the one that is entered,
\* and an entry that names a command of a coroutine names its install command.
CancelFindsCommand ==
  /\ \A h \in Handlers : worker[h].at = "installing" => running[worker[h].on] = h
  /\ \A r \in Requests, h \in Handlers :
       running[r] = h => worker[h].at = "installing" /\ worker[h].on = r

\* What ended in INSTALLED, FAILED or BLOCKED stays so.
EndIsFinal ==
  [][\A r \in Requests :
       record[r].state \in TerminalStates \ {"CANCELLED"} =>
         record'[r].state = record[r].state]_vars

\* Every start comes to an end.
StartsEnd == \A h \in Handlers : worker[h].at # "idle" ~> worker[h].at = "idle"

=============================================================================
