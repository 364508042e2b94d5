# Verification of the agent backend

TLA+ models of the control logic of this repository, the TLC configurations that
check them, and proofs for every value of the constants. The system is a FastAPI
backend (`apps/api`) over Python services (`services/`) that lets a language
model plan diagnostic work, a user approve it, and a terminal, an installer or a
paired Android device carry it out. The models are about that control logic: what
is stored, who changes it, in which order, and what remains when requests overlap
or the process restarts. Texts, prompts, layout and user interfaces are left out.

## 1. Inventory

| Component | State | Operations | Talks to |
|---|---|---|---|
| Agent orchestrator (`services/agent_orchestrator`) | one `AgentTaskState` per task: phase, actions, pending action, budget counters, last error | create, step, pause, resume, cancel, clarify, approve, reject | reasoner (await), registry, terminal, installation, tool registry, discovery |
| Agent task registry and API (`registry.py`, `db/agent_repository.py`, `routes/agent.py`) | rows in `agent_tasks`; every `get` builds a new record, every `save` overwrites the row | create, get, save, count_active | one orchestrator and one database session per HTTP request |
| Agent reasoner (`reasoning.py`, `ai_schemas.py`) | none | decide | remote model |
| Tool installation (`services/installation`, `db/installation_repository.py`) | `InstallationRequest`: state, plan, attempts; a map of running commands per service object | request, approve, reject, cancel, start | terminal engine, tool registry, policy |
| Terminal engine (`services/terminal`) | sessions with state and time to live; running task of each command | create_session, execute, terminate, close | adapters, policy decision, event bus |
| Terminal adapters (`terminal/adapters`) | one process each, capped output readers | run, cancel | operating system |
| Policy engine (`services/policy`) | none; the registered action types are fixed | evaluate | terminal, installation, diagnostics |
| Termux connections (`services/termux`, `ws/termux_gateway.py`) | paired devices, open transport of each, pending commands | pair, confirm, authenticate, revoke, connect, disconnect, execute, cancel | device over a WebSocket |
| Termux device connector (`apps/termux_connector`) | running commands, reconnect delay | receive, run, terminate, reconnect | backend gateway |
| Tool registry (`services/tools`, `routes/tools.py`) | trust status of each tool | register, verify, approve, block, deprecate | installation, diagnostics |
| Self-healing (`services/self_healing`) | history of attempts | diagnose, propose, record | terminal (only where injected) |
| Chat pipeline and providers (`services/agent`) | none that outlives a call | chat, retry | remote model |
| Agent events, memory, report, voice | logs in memory | append, format | front end |
| REST surface, research, reporting | rows and stubs | CRUD | database |
| Web and Android front ends | user interface | - | REST surface |

How they interact. Each HTTP request has its own `AsyncSession`, its own
`AgentOrchestrator` and its own `ToolInstallationService`; the terminal engine,
the pairing service, the Termux connection manager, the event bus and the budget
manager are shared by all. Everything runs on one asyncio event loop, so code
between two awaits is atomic and everything across an await is not. Nothing takes
a lock or checks a row version: a request that reads a task, awaits the model for
seconds and saves has overwritten whatever was stored meanwhile.

What is hard, and what has to be true in spite of it:

* Agent loop. Overlapping requests on one task; a restart between the save of
  EXECUTING and the effect, or between the effect and its save; failures that
  escape half-way; four budgets that are checked in different places; the
  approval that has to survive from the gate to the execution one or more requests
  later. To be true: nothing runs unsanctioned, nothing runs twice, no budget is
  passed, what ran is on record, a stepped task comes to rest.
* Installation. Cancel and reject against a running start; the tool's approval
  withdrawn between the request and each attempt; errors that leave INSTALLING
  behind; the plan that the database does not keep. To be true: nothing is
  installed that was not approved, the attempts are bounded, a cancelled request
  is not resurrected, a request does not stay INSTALLING for ever.
* Terminal. Two commands on one session, expiry under a running command, a session
  limit that counts dead sessions. To be true: only a validated and allowed
  command starts, a session that is not active starts none, state and running
  commands agree.
* Termux. A device that reconnects before its old socket is noticed, results after
  the timeout, sockets that die during a send. To be true: every pending command
  is resolved once and by its own device, nothing stays pending for ever, a
  revoked device does not connect again.
* Terminal adapters. A process that ignores SIGTERM, forks a child or keeps its output
  open; a limit, a timeout and a cancel that arrive while another of them is being
  carried out. To be true: every run returns, and leaves no process behind.
* Device connector. A connection that closes under a running command; a task that still
  has something to send when the next connection is there. To be true: every
  command ends, is reported where it was asked for, and no process runs unwatched.
* Tool registry and discovery. Read-check-write transitions that overlap; many
  requests that find the cache empty at once. To be true: an approved tool was
  confirmed by its verification; the provider is searched no more often than allowed.
* Chat. Errors of nine kinds from the provider, retried or not, under a limit of
  attempts. To be true: an error that cannot go away is not retried, what the user is
  told is what happened, every request is answered.
* Self-healing. Failures of different kinds that alternate. To be true: nothing is
  retried unattended for ever.

Which module stands for which component, and what is left out, is in `PROJECT.json`
("components") and in the sections below; section 11 has what is not modelled at all.

## 2. The agent loop

### The modules

| Module | What it is |
|---|---|
| `AgentTask` | the persisted record and the pure decisions on it: budgets, policy gate, adaptation after a failure, phase after an action |
| `AgentOrchestrator` | the state machine of the API serving that record: one action for each stretch of a request between two awaits, restarts |
| `AgentLifecycle` | abstract specification: tasks open and close once; an action's service runs at most once, never for a rejected action |
| `MCAgent` | values for the constants of the agent runs |
| `AgentOrchestrator_proofs` | the inductive invariants, the theorems, and the refinement of `AgentLifecycle` by serial requests |

### How state and actions correspond to the code

`db` is the table `agent_tasks`; a task that does not exist has the phase CREATED,
the default of the dataclass that is never persisted. Every request handler `h` has
its own copy `snap[h]` of the record it read (`registry.get` builds a new object
from the row) and its position `pc[h]`. `Write` is `registry.save`: it overwrites
the whole row with the copy. The positions are the awaits that matter:

| `pc` | the code is |
|---|---|
| `create` | in `create_task`, after `count_active`, before the insert |
| `reason` | in `step`, awaiting `reasoner.decide` |
| `begin` | in `_execute`, EXECUTING set on the copy, about to save it |
| `effect` | in `_execute`, EXECUTING saved, about to do what the action does |
| `save` | about to save for the last time |

Each user request (`CreateTask`, `Pause`, `Resume`, `Cancel`,
`ProvideClarification`, `ApproveAction`, `RejectAction`) reads, checks its guard
and goes to its save. `step` is three actions, one for each way it leaves its first
half: `StepExecutesApproved` (PREPARING with a pending action),
`StepBlocksOnBudget`, `StepAsksReasoner`. The answer is one of `ReasoningFails`
(an `AgentReasoningError`), `ReasonerRaises` (anything else, which the Gemini client
lets through and `step` does not catch), `DecisionOutOfScope`, `DecisionDenied`,
`DecisionAwaitsApproval`, `DecisionExecutes`. `_run_action` is one action for each branch
of its dispatch and each way that branch ends, so an installation is
`InstallWithoutTool`, `InstallOverBudget`, `InstallRefused`, `InstallRaises` (before its
first command), `InstallRaisesAfterwards` (on a retry or in the verification) or
`InstallRuns`. An exception that `_execute` does not catch is `Escapes`: the request is
gone and the last save with it. Requests that only raise or return what they read are no
action. Errors of the database are left out: a failing save ends a request as a restart
does, and leaves the record it did not write.

`DurationPasses` is the clock passing `max_task_duration_seconds`, which `step`
checks with the other budgets. `Restart` ends every handler and keeps `db`.
`approved` and `ran` are history: which actions a user approved, and how often the
service behind an action was called. No guard of the code's actions reads them
except to tell that an identity is fresh (`uuid4`).

Abstractions: observations are kept as "is there one" and findings as the number
still unverified, because those are the only tests the code makes. The decision of
the reasoner is its action type, whether it asks for approval, and whether the
target it names is the task's. The tool, discovery, terminal and installation
services are the set of their outcomes. Self-healing proposals on a failure are
not modelled: `core/agent_orchestrator.py:80-94` injects no healer.

The row is written whole: `save` replaces the JSON of the record. Only its `phase`
column, which `count_active` reads, is written when the request changed it; where two
requests overlap, column and JSON can differ, and the model, which has one phase, leaves
that out (`ActiveTasksWithinLimit` is checked for requests that do not overlap).

Two facts about the code that the model makes visible and no document contradicts:
COLLECT_INFORMATION runs the same diagnostic as RUN_DIAGNOSTIC but is no
execution type, so it needs neither authorization nor approval by the agent gate
(it still passes the policy engine, `DiagnosticRefused`); and in production the SQL
installation registry does not restore the plan, so of the outcomes of an
installation only those up to `InstallRaises` occur. `InstallRaisesAfterwards` and `InstallRuns` are
the in-memory registry, which the tests use.

### The runs

Bounds common to all: two action identities (`MaxActions = 2`, the action budget, so
a third cannot be created), two model calls, one installation, one retry for
each type, one active task. One tool budget and one retry are enough to be at the
limit and to try to pass it; two actions are the fewest in which an action meets
the error signature, the observation or the pending slot another one left.
`agent_serial` alone has no retry (`MaxRetries = 0`): with two tasks the retries
would multiply its 2.4 million states, and they are explored by the other runs.

| Run | Instance | Shows |
|---|---|---|
| `agent_serial` | one handler, two tasks, COLLECT_INFORMATION (runs at once) and INSTALL_TOOL (waits for approval), restarts | `TypeOK`; `RunsAtMostOnce`; `EffectsOnRecord`; `ActiveTasksWithinLimit`; `ImplementsLifecycle`: AgentLifecycle is implemented when requests do not overlap, wherever the process restarts |
| `agent_concurrent` | two handlers, one task, INSTALL_TOOL, restarts | `ExecutionSanctioned`, `PendingActionsCoherent`, `BudgetsRespected` hold in every copy although copies are written over each other |
| `agent_live` | one handler, one task, the nine other types, no restart, fairness | `TasksSettle`: a stepped task is again and again over or waiting for somebody, unless its reasoner raises for ever |
| `agent_double_run` | two handlers, RUN_DIAGNOSTIC | `RunsAtMostOnce` violated: see below |

`RunsAtMostOnce` and its companions are checked with one handler because they are
false with two; that is what `agent_double_run` shows, not a bound that hides it.
One handler still serves an unlimited sequence of requests on two tasks. With two
handlers a terminal task can also be reopened by a copy that was read before it ended,
and two creations can pass the limit together.

COMPLETE_TASK is in no run: it is the same branch of the dispatch and the same
action (`Complete`) as GENERATE_REPORT. `CHECK_DEADLOCK FALSE` everywhere: a server
without work, with every task terminal and every identity used, really stops.

Handlers and tasks are symmetric in every run without liveness. Action
identities are not declared symmetric since `NewIds` chooses one of the unused
ones; that choice is sound because nothing distinguishes them.

### Fairness

`SteadySpec` has no restart and two conditions. `WF(Progress(h))`: a request that was
accepted runs on; the event loop schedules every ready coroutine, and what is awaited
is bounded (the reasoner and the terminal have timeouts). `WF` of "some handler
starts a step of task t": the client keeps calling step for a task that can be
stepped, which is how the loop is driven (`routes/agent.py` has one step
endpoint; nothing in the backend steps by itself). No fairness is assumed of users,
of the clock or of the reasoner's choice. The result is not that a task ends, which
depends on people, but that it does not go round for ever without them.

A step that records a decision, or whose action fails or raises, has used up an action or
a retry, so that can happen a bounded number of times. A step whose reasoner raises has
used up nothing: nothing is saved and the model call is not counted. `TasksSettle`
therefore excepts `RaisesForEver(t)`: the reasoner raises for `t` again and again *and* the
time of `t` never passes. In the code the time does pass, and `StepBlocksOnBudget` then
ends the task; but 30 minutes of the clock are no fairness of the scheduler, and the
exception says so. Without the exception, or with the clock taken out of it, TLC
finds the property violated.

### Where the code and its documents part

`agent_double_run` checks `RunsAtMostOnce` with two handlers. `orchestrator.py:10-14`
says that nothing is held only in memory, "so calling `step()` again after a hypothetical
process restart continues from exactly where persisted state left off rather than
re-running completed actions". After a restart that is so (`agent_serial`). The reason given
for it does not hold for steps that overlap: the pending action is cleared on a private
copy, two steps both read PREPARING with the same pending action, and both execute it.

Three more are visible in the model, and no run is spent on them:

* `budget.py:2-4` promises that an exhausted budget stops the task in BLOCKED and never
  crashes. The installation budget is checked within the action
  (`orchestrator.py:454`), its error is no `_ActionFailure`, and it escapes after
  EXECUTING was saved (`InstallOverBudget`).
* `orchestrator.py:300-302` says the approved action is executed rather than dropped for
  a new one. `resume` (222) always goes to PLANNING, so approve, pause, resume, step
  asks the reasoner again (`Pause`, `Resume`, `StepAsksReasoner`).
* The same `budget.py:2-4` calls its ceilings hard and never silently passed. The count of
  installations is raised only after `start_installation` has returned
  (`orchestrator.py:483`); when it raises after its command has run
  (`installation/service.py:307` on a retry, 372 and 390), the installation is made and
  not counted (`InstallRaisesAfterwards`).

### What is proved

In `AgentOrchestrator_proofs`, from `ConstantsAssumption` and `TasksAssumption` (the
budgets are naturals, `None` is no identity), for any number of handlers, tasks and
action identities, any budgets, any set of proposed types:

* `TypeCorrect`: `Spec => []TypeOK`
* `ExecutionIsSanctioned`: `Spec => []ExecutionSanctioned`
* `PendingActionsStayCoherent`: `Spec => []PendingActionsCoherent`
* `BudgetsAreRespected`: `Spec => []BudgetsRespected`

All rest on `InvariantHolds`: `Spec => []IInv`. None of the four is inductive
alone. That an executed action is approved depends on what was true of the pending
action when it was recorded, possibly two requests earlier and in another handler's
copy; so `IInv` speaks about records, not about moments. `Good(s, approved)` holds of
every stored record and of every private copy: it is a record of the right type, its
pending action is coherent, its counters are within the budgets, and it is
`Sanctioned` (an action marked APPROVED was approved by a user; an action of an
execution type is never NOT_REQUIRED; a pending action of an execution type belongs
to an authorized task). Because *every* copy is good, writing a stale one over a
newer one keeps the database good, which is the argument for overlapping requests.
It only works because every part of `Good` is monotone in `approved`
(`GoodIsMonotone`), which is why the history only grows. `HandlerOK` adds what
each position knows: at `reason` the action and model-call budgets have room in
this copy, at `begin` and `effect` the action exists and, if it is of an execution
type, it is approved and the task authorized.

The proof has one lemma for each pure operation on a record (`SucceededIsGood`,
`FailedIsGood`, `RecordedIsGood`, ...), one for each move of a handler
(`GotoKeepsHandlersOK`, `WriteKeepsStoredOK`, ...), and then one step for each action.

The second part of the module is about requests that come one at a time for each task,
`OneRequestPerTask`: no two requests that are under way are for the same task. Any number of
requests of different tasks still overlap, and the process may restart anywhere. It is a
premise on the behaviour and not on the constants. For all constants:

* `SerialRequestsRunOnce`: `Spec /\ []OneRequestPerTask => []RunsAtMostOnce`
* `SerialEffectsAreRecorded`: `Spec /\ []OneRequestPerTask => []EffectsOnRecord`
* `SerialRequestsImplementLifecycle`: `Spec /\ []OneRequestPerTask => ImplementsLifecycle`
* `SerialRequestsRespectLimit`:
  `Spec /\ []OneRequestPerTask /\ []OneCreation => []ActiveTasksWithinLimit`

Both premises are needed. `agent_double_run` is the counterexample without the first; and since
`create_task` counts the open tasks before an await, two creations of different tasks pass the
limit together, which `OneCreation` (one creation at a time) excludes. `RunsAtMostOnce`
is not inductive, because a service is called long after the step that made the call safe. What
makes it safe is a relation between the stored records, the history and the copies in
progress, and that is `SerialInv`:

* `RecordsSerial`: an action is of one task only; what ran is on record; a pending action has
  not run and was not refused; so neither an approval nor a restart can offer an action that
  already ran.
* `CopySerial`: the copy has at least the actions of the record it will overwrite and none of
  another task's; outside `create` the task is open in the database; at `begin` and `effect`
  the action has not run and is no longer pending in the copy; at `effect` the record *equals*
  the copy, which is what `BeginExecution`'s save is for.
* `CopiesApart`: the copies of requests under way share no action, so that no request of
  another task can run, record or refuse what this one holds.

Each step preserves it for its own reason: a user request starts from the stored record
(`ReadCopyIsSerial`), a decision takes an identity nothing holds (`NewIdIsFresh`), an outcome
keeps actions and pending slot (`OutcomesFollow`), `WAIT_FOR_APPROVAL` puts back an action
that has not run, and a service call leaves nothing that points to its action
(`ServiceCallIsSerial`). `LimitInv` adds that a request that will insert a task has counted
the open ones; the set of tasks need not be finite. For the refinement, every write opens,
closes or stutters (`WriteIsALifecycleStep`) and every service call is a first `Run` of an
unrefused action of an open task (`ServiceCallIsALifecycleStep`). TLC checks the same facts on
`agent_serial`.

The third part is about what the budgets mean for the outside. `BudgetsRespected` is about the
counters of a record; these two are about the services that were called:

* `ServicesStayWithinBudget`: `Spec => []ServicesWithinBudget`. However many requests overlap,
  at most `MaxActions` of the actions on a task's record had their service called. The
  invariant `ChargedInv` is that no record and no copy holds more actions than its counter has
  paid for.
* `InstallationsStayWithinBudget`: `Spec /\ []OneRequestPerTask /\ [][~LosesCount]_vars =>
  []InstallationsWithinBudget`. The installation is made before its count is stored, so
  the code does not keep this budget in every case, and the theorem says in which:
  `LosesCount` is a restart while a request for the task has counted an installation
  that it has still to save (`CountUnsaved`), or an exception of `start_installation` after
  its command. Everything else, other restarts included, keeps the budget. The
  invariant `PaidInv` is about the copy while there is one, and about the record unless its
  count is still to be saved. Both parts of `LosesCount` are needed: with either left out TLC
  finds a few steps after which the next installation is let through.

Only model-checked: `TasksSettle`, since liveness under fairness is out of reach of the prover.

## 3. The Termux connections

### The modules

| Module | What it is |
|---|---|
| `TermuxConnection` | pairing, the gateway coroutine of each socket, the transports and the calls of `execute` |
| `RemoteCalls` | abstract specification: a call starts on a device that is online, is decided once, ends once, and is not left undecided on a device that is offline; a revoked device never comes online again |
| `MCTermux` | values for the constants of the Termux runs |
| `TermuxConnection_proofs` | the inductive invariant, the theorems and the refinement |

### How state and actions correspond to the code

| Variable | In the code |
|---|---|
| `state`, `code`, `token` | `PairingService._devices[d].state`, `_pending`, `_token_hashes` |
| `overdue` | the clock has passed `expires_at` of the device's pairing code |
| `gate`, `peer` | where `termux_websocket_endpoint` is for each socket, and the device that authenticated there |
| `alive` | the other end of the socket is still there |
| `transport`, `pending` | `TermuxConnectionManager._transports`, `_pending` |
| `call` | the coroutine `execute` of each command: where it waits, the device, the transport it took, the future, the outcome |
| `reported` | history: which device sent the end of which command |

A socket is `unused`, then `greeting` (authenticated, `auth_ok` being sent), `open` (in
the receive loop) and `closed`. `HandleConnect` is everything up to the send of
`auth_ok`, `HandleDisconnect` is `handle_disconnect` with `mark_disconnected`, which the
`finally` of the loop calls without an await between them. It is reached when the
other end is gone (`PeerIsGone`) and when a message carries a command id that is no
UUID, whose `ValueError` nothing catches (`MessageWithBadId`).

A call goes `new`, `sending` (await of the transport's send), `waiting` (await of the
future or the timeout), `cancelling` (await of the best-effort `command_cancel`) and
`ended`. Its future is `open` until an answer or a disconnect decides it; the two ends
that need nobody's answer, `TimeOut` and `Cancelled`, are possible also when the
future is already decided, since asyncio has versions that prefer either.

The device is its environment: on an open socket it may send the end of any command,
its own or another device's, early, late or twice (`FinalMessage`), and it may vanish at any
moment (`PeerGoes`). So nothing that is shown depends on the program on the device.
Left out are `command_started` and the output chunks with their cap, which no
control depends on. `execute` is reached
from `RemoteTermuxAdapter`, which the tests wire to a session; the running
application does not yet, so the module speaks of the library under any caller.

### The runs

| Run | Instance | Shows |
|---|---|---|
| `termux` | two devices, two sockets, one call, fairness | `TypeOK`, `ViewsAgree`, `WaitingIsReachable`, `PendingIsAwaited`, `AnsweredByItsDevice`, `RevokedForGood`, `ImplementsRemoteCalls`; `CallsEnd`: every call of `execute` ends |

Two sockets are the fewest in which a device replaces its socket while an answer is
still on its way over the old one, or in which two devices are connected and one
answers for the other. One call is enough because
calls share only `pending`, of which each touches its own element, and a disconnect
treats them alike. The proofs below drop both bounds for all but `CallsEnd`. The calls and
sockets are never used again, which bounds the run: with identities drawn by `uuid4` a
second use does not happen in the code either. `CHECK_DEADLOCK FALSE`: when every socket
and call is used up the model stops.

Fairness is `WF` of what a call does without anybody's help: a send ends, with an error
when the other end is gone; the timer of `wait_for` fires (the engine clamps every
timeout to at most 120 seconds); the loop schedules ready coroutines. Nothing is
assumed of the device, the gateway, the users or the network.

### Where the code and its documents part

All three are steps of the model, which every property holds in spite of:

* `connection_manager.py:30-32` says that the manager checks "that the *device* itself is
  connected, authenticated, and not revoked". `execute` (172-174) looks only whether there is a
  transport, `revoke_device` does not close one, and `RemoteTermuxAdapter` looks at
  nothing: a device that is revoked while it is connected is sent commands until its
  socket closes. `RemoteCalls` promises no more than that: `Revoke` leaves a device online,
  and `ComesOnline` is closed to it from then on, which is what
  `docs/TERMUX_SETUP.md:189-199` describes.
* `connection_manager.py:157` tells the caller that the connection to the device was lost
  mid-command. `handle_disconnect` (145) knows the device and not the socket: when a device
  has reconnected, the end of its old socket drops the new transport and fails the
  commands that run over it.
* `adapter.py:56-58` promises that a failure of the connection never reaches the caller as
  a raw exception. A send on a broken connection raises the transport's own exception
  (`connection_manager.py:190`), which neither `execute` nor `run` catches; the command also
  stays in `_pending` until the device disconnects (`PendingIsAwaited` names that
  exception).

### What is proved

In `TermuxConnection_proofs`, from `NoneAssumption`, for any sets of devices, sockets and
calls: `TypeCorrect`, `ServicesAgree` (`ViewsAgree`), `WaitingStaysReachable`,
`PendingStaysAwaited`, `AnswersAreOwn`, `RevocationIsForGood`, and
`ConnectionImplementsRemoteCalls`, which says that `Spec` implements `RemoteCalls`.

They rest on `IInv`, the conjunction of the type, of `PairingOK` (the two services' views
of each device, and that only an unpaired device has a code), of `PeersOK` (an open socket
has a device) and of `GoodCall(c)` for each call. `GoodCall` ties together
what the properties only see at single points: where the call is, whether it is pending,
whether its device has a transport, and who decided its future. It is needed because, for
instance, `WaitingIsReachable` says nothing of a call that is still `sending`, whose
device may disconnect: it then starts to wait with a future that is decided already,
and one has to know that. The refinement uses it in the same way: a disconnect has to
map to `GoesOffline`, which decides *all* the open calls of the device, so one needs
that every call that looks open to its caller is pending.

Only model-checked: `CallsEnd`.

## 4. The installation of tools

### The modules

| Module | What it is |
|---|---|
| `ToolVerification` | what a tool declares of itself, the seven stages of `VerificationPipeline` over it, the eligibility of `ToolPolicyGate`, and the readiness and the plan of an installation |
| `ToolTrust` | extends it by the trust status of each tool and the requests of `routes/tools.py` that change it |
| `ToolInstallation` | extends it by the installation requests and the coroutines of `start_installation` |
| `MCInstall` | values for the constants of the installation runs |
| `ToolInstallation_proofs` | the inductive invariant and the theorems |

### How state and actions correspond to the code

| Variable | In the code |
|---|---|
| `trust` | `trust_status` of each tool's row |
| `approving` | the tool each `approve_tool` found VERIFIED, between its look and its write |
| `record` | the `InstallationRequest`: state, tool, whether its plan calls for approval, whether `approved_by` is set, the result of each attempt |
| `worker` | each coroutine of `start_installation`: the command it awaits (`installing`, `verifying`), the request, whether its target is still authorized, how the command stands, `last_error_category` |
| `running` | `_running_commands`: the coroutine whose command is entered for a request; `Gone` is a command that the engine does not run |

`ToolTrust` has one action for each request; only `approve_tool` is two, since only it
looks (`ApproveTool`) before it writes (`GrantApproval`). What verification finds
depends on the metadata a tool was registered with and on nothing else; these never
change, so they are the constant `Metadata`, and `Verdict` is the overall result of the
pipeline over them. `ToolVerification` keeps the stages as `verifier.py` has them
(`VerifySource`, `CheckPlatform`, `CheckDependencies`, ...) and reduces text to whether it
is there. `PassesChecks` and `PlanPossible` are what stands between a request and its
plan: the critical checks of `ReadinessChecker`, and a package manager on the server's
path that serves the target's platform.

`request_installation` is `RequestAccepted` or `RequestBlocked`, `cancel` is
`CancelRunning` or `CancelNothingRunning`. `start_installation` runs without a
break from one await of the terminal engine to the next, and so do the actions: `Start` goes
up to the first attempt and `Retry` from the end of one attempt to the next, both by
`Attempt`, which the policy denies (`AttemptDenied`), the engine refuses with an exception
(`AttemptRaises`) or which runs (`AttemptRuns`). `StartUnapproved` and `StartInvalidName` are the
exceptions after INSTALLING was saved. `InstallCancelled`, `InstallFails` and the three
actions that go on to the verification (`VerifyDenied`, `VerifyRaises`, `VerifyRuns`) are the
other ends of an attempt; `Verified` and `NotVerified` end the start. `CommandEnds`,
`CancelRunning` and `AuthorizationExpires` happen to a coroutine that waits.

The model is the service over the in-memory registries with one service object, the way
the tests wire it: the registry hands out the request itself, so what `reject`
writes is what the start reads. The running application differs in two ways that are not
modelled. Its SQL registry does not restore the plan, so `start_installation` always
raises there (`service.py:259`); and every HTTP request has a service of its own, whose
`_running_commands` is empty, so that `cancel` always takes its other branch. The terminal
engine is modelled by what a caller sees of it: a command that ends with one of four
results, and a session that makes it raise.

### The runs

| Run | Instance | Shows |
|---|---|---|
| `install` | two tools (the catalog's curl with a version, which verification confirms, and without one, of which it cannot tell), two reviewers, one request, two coroutines, three attempts, fairness | `TypeOK`; `OneStartPerRequest`; `InstallsAreSanctioned`; `AttemptsCoherent`; `CancelFindsCommand`; `ApprovalEarned`; `EndIsFinal`; `StartsEnd` |

Three attempts, not the default of two, because with two the detection of equal failures
never decides anything: the second failure is the last anyhow. One request is
enough because requests share nothing but the trust of their tools; two coroutines
are what it takes for one start to meet another, and the proofs drop both bounds.
`CHECK_DEADLOCK FALSE`: when the request is over and nobody reviews tools, nothing is left to do.

Fairness is `WF(Proceed(h))`: an installation command ends, by its timeout (the engine
clamps it to 120 seconds) if not by itself, and the event loop schedules ready coroutines.
Nothing is assumed of users or of the clock of an authorization.

`ApprovalEarned` says of a tool that the eligibility gate lets pass that *every* stage of
its verification confirmed it. The tool's status, the gate and the stages are three
pieces of code; that the overall result is `verified` only when each stage is, is what
ties them together.

### Where the code and its documents part

* `models.py:60-67` counts CANCELLED among the terminal states. `reject` (`service.py:220`)
  ends a request in it whatever runs; the start that awaits the command does not look
  again and writes VERIFYING and INSTALLED over it. The command is not stopped either.
  That is why `EndIsFinal` speaks of the other terminal states.
* `routes/tools.py:249-250` says that a tool must be VERIFIED before approval.
  `approve_tool` reads the status and writes APPROVED in another transaction (253), over a
  block that came between. That is why `ApprovalEarned` speaks of the verification and
  not of the status before.
* The candidates of the curated catalog carry no version, so the verification of one as
  it was discovered never confirms it: an administrator has to add what discovery does
  not record.
* The checks of an installation ask about the target, and `EnvironmentInspector` looks at
  the path of the server; the plan needs what serves the target among what the server has.

### What is proved

In `ToolInstallation_proofs`, from `MetadataAssumption` and `InstallationAssumption`, for any
tools, requests, reviewers, coroutines and limit of attempts: `TypeCorrect`,
`StartsAreExclusive` (`OneStartPerRequest`), `InstallationsAreSanctioned`, `AttemptsStayCoherent`,
`CancelAlwaysFindsCommand`, `ApprovalsAreEarned`, and `EndsAreFinal` (the action property
`EndIsFinal`).

They rest on `IInv`: the type, `TrustOK` (a tool that is VERIFIED or APPROVED, or whose
approval is under way, passed its verification), `OneStartPerRequest`, and one predicate each for
a request (`GoodRequest`) and for a coroutine with the request it works on
(`GoodWorker`). The point of `GoodWorker` is what survives a rejection: the request a
coroutine works on is INSTALLING *or CANCELLED*, it is sanctioned, and its attempts so far
are an `OpenStory`, failures of which no two in a row are alike, with the last one
remembered and room for another. Nobody can start a second time on CANCELLED, which
is why `OneStartPerRequest` survives `reject`. That no start meets a request that is
INSTALLED, FAILED or BLOCKED is then `EndsAreFinal`. The proof has one lemma for each kind of
step (`WorkStep`: a request, its coroutine and its entry change together; `LeaveStep`,
`RequestStep`, `WorkerStep` are its cases) and one on what an attempt adds (`AttemptEntered`);
each action is then an instance of one of them. `ConfirmedInEveryStage` is the lemma on the
pipeline: an overall result of `verified` means that every stage found that.

Only model-checked: `StartsEnd`.

## 5. The terminal adapters

`LocalProcess` is `LocalProcessAdapter.run` with its four subclasses: one coroutine for each
command, and the process group it started. `MCAdapter` gives the run its values; the
proofs are the first part of `TerminalEngine_proofs`.

### How state and actions correspond to the code

`call[c].at` is where the coroutine is: `spawning`, `draining` (`_drain` under the time
limit), `waiting` (`process.wait()`), `stopping` (inside `_terminate`, with the reason in
`why`) and `done`. `proc[c]` is the operating system's side: which of the leader and one
child live, which of them ignore SIGTERM (`deaf`), whether the output passed its limit
(`over`) or is at its end (`closed`), and who was sent SIGTERM and SIGKILL.

`Signal` is what `_terminate` does on each platform before its first await: SIGTERM for the
group on Linux and macOS, `taskkill /T /F` on Windows with the base hook as its fallback,
`kill` of the leader on Termux. `Terminate` does nothing when the leader has a return code,
whatever a child does. `Drained`, `Returns`, `TimesOut`, `Cancel`, `GraceEnds` and `Stopped`
are the ends of the awaits of `run`; `Exits`, `Killed` and `Writes` happen to the processes.
What the output says is left out; that it is too much is one bit.

`Cancel` covers three places. While the drain is awaited it begins a `_terminate`; while an
earlier timeout or cancel is being carried out, inside its `except` clause, it ends
`_terminate` in the middle. `call[c].cut` is history and remembers that.

### Run, fairness, proof

`adapter` (one command on each of the four platforms; commands share nothing) shows
`OnlyACutLeavesAProcess`, that a run which returned left no leader process, and `RunsEnd`,
that every run returns. Fairness is that of the event loop, of the timers and of SIGKILL;
a process is never assumed to exit or to close its output by itself. With one child and
any subset of the two deaf to SIGTERM every case of the group signals occurs.

`NoProcessIsLeftBehind` proves the first for every set of commands and platforms, from
`ProcessInv`: no process before its spawning, none after an uncut end, and a reason wherever
`_terminate` is awaited. `RunsEnd` is only model-checked.

### Where the code and its documents part

* A second cancel during the grace period of the first abandons a process that ignores
  SIGTERM; the comment at `local_process.py:151-155` does not have that case. The
  property excludes exactly this.
* `_CappedReader` (36-39) speaks of a process that is killed at its output limit. The limit has
  effect only after both streams are at their end (`Drained`), so a process that goes on
  writing runs until its timeout.
* On Linux and macOS a child that holds the pipe after the leader's exit is not signalled,
  since `_terminate` finds a return code.

## 6. The terminal engine

`TerminalEngine` EXTENDS `LocalProcess` by `SessionManager`, `TerminalEngine.execute`, the
routes of `/terminal` and the services that call the engine directly; the adapter is the real
one of section 5, not an abstraction of it. `TerminalService` is the abstract specification:
what the engine and the adapter together promise those who run commands. `MCTerminal` and
`TerminalEngine_proofs` go with them.

### How state and actions correspond to the code

| Variable | In the code |
|---|---|
| `session` | `_sessions[s].status` |
| `stale` | the sessions whose `last_activity_at` is longer ago than the TTL |
| `sessionOf`, `reply` | which session each request to `execute` runs on, and what its caller got |
| `last` | `_last_result_by_session` |
| `platform`, `call`, `proc` | the adapter, see section 5 |

`execute` runs without a break up to the start of its adapter, so it is one action with
three outcomes (`ExecuteInactive`, `ExecuteRejected`, `ExecuteStarts`), and `ExecuteEnds` is the
rest, after the await, with its `finally`. Between them sessions are closed, expire and take
further commands. `RouteRefusal` is what `/terminal/execute` checks before it calls the engine,
with the policy (`Evaluate`, `Permits`); the agent's executor and the installation service
ask the policy themselves (`ServiceExecutes`). Expiry is lazy as in the code: `GetStatus`,
`CreateSession` and `execute` look at the clock, nothing else does.

### Run and proofs

`terminal` has two commands and two session ids with room for one session, on the Termux
platform (475,000 states with symmetry; `LocalProcess` on all platforms is what `adapter` is for).
Two commands on one session are what it takes for the first end to meet the second
command, and one session at a limit of one shows that the limit is met.
`CHECK_DEADLOCK FALSE`: when all commands are used the model stops.

Shown there and proved for all values of the constants in `TerminalEngine_proofs`:
`RunningSessionHasCommand`, that no session stays RUNNING when its commands have
ended; `ClosedForGood`, that what was closed or has expired never becomes active; and
`ImplementsTerminalService`. Proved as well: `TypeOK` (`TypesHold`) and, as
`EngineLeavesNoProcess`, that the adapter's promise holds under the engine too. The
invariant is that of the adapter, whose lemmas (`StartKeepsInv`, `RunStepKeepsInv`,
`CancelKeepsInv`) are cited, with the engine's types and `RunningSessionHasCommand`. The
latter is inductive because a command in flight keeps its session and its missing reply
until its own `ExecuteEnds` (`NoSessionStarts`, `AnswerTakesNothing`).

`TerminalService` knows doors and commands and nothing of adapters, platforms or clocks. A
command is refused and never runs, or it is begun once, in an open session; what becomes of
it is decided once, before its process is ended, and only a cancel in the middle of that
changes it; and it is answered with that, when its process is gone unless such a cancel would
not wait. Sessions close for good and no more are open than the limit. The mapping reads the
phase and the outcome of a command off the adapter's position (`PhaseOfRun`, `OutcomeOfRun`):
a run that is being terminated for its output is still running for its caller, since its
status comes from its exit code. `EngineImplementsTerminalService` proves it for any
commands, sessions and platforms. `ServiceInv` is what the mapping needs beside the
invariant: a command has a session just when its run has started and an answer only when its run
is over. `RunMoves` lists what one step of a run may look like from outside, one lemma
shows that every step of the adapter is such a move, and another that every such move is a
step of `TerminalService`; so the platforms are dealt with once and out of the engine's way.

The other part of `ServiceInv`, `KnownInv`, is a theorem of its own. `SessionsStayWithinLimit`:
there are never more than `MaxSessions` sessions *of any status*. It is why the limit on open
sessions holds, and it is more than the limit should be: see below.

What `ToolInstallation` (section 4) assumes of a command is a part of `TerminalService`: the
result is one of COMPLETED, FAILED, TIMEOUT and CANCELLED or an exception, a session that is
closed or has expired refuses, and a command that a cancel stops is CANCELLED.

Not claimed, since the code does not do it: that a session which says READY has no command.
Of two commands on one session the first to end sets READY while the other runs.

### Where the code and its documents part

* `max_concurrent_sessions` counts closed and expired sessions as well
  (`session_manager.py:55`): after that many sessions the engine never creates another
  (`SessionsStayWithinLimit`).
* `routes/terminal.py:168-169` calls its last error unreachable. It is reached by `verify`,
  which is allowed without approval, and by `install` once approved (`RouteRefusal`).
* A rejection by the validation (`engine.py:178`) emits no COMMAND_REJECTED, and an `OSError`
  of the adapter leaves a STARTED event without an end.

## 7. The device connector

`TermuxDevice` is `cyberai_termux.py` on the Android device, the other end of
`TermuxConnection`. `MCDevice` and `TermuxDevice_proofs` go with it.

### How state and actions correspond to the code

`conn` is the connection as the loop sees it: `open`, `closed` (the socket is dead and the loop
has not noticed), `down` (between two connections) and `stopped` (the end of `main`). `inbox` is
what is still to be received; when a connection closes, `ConnectionCloses` cuts off any tail
of it. `asked[c]` is the number of the connection the command was asked for on, `running` the keys of
`running_tasks`, `task` where `_run_command` is, `proc` its process, and `sent`, which is
history, the messages with the connection they went over. All sends use the one variable
`ws` of the loop, which after a reconnect is the new connection, so a task that outlived
its connection would speak on the next.

`Receives` is one turn of the receive loop: a request starts a task (`ReceivesRequest`) or is
refused (`Refuses`), a cancel ends one (`ReceivesCancel`). `LeavesConnection` is the `finally`
that cancels all tasks. A task spawns, pumps and ends in one of the ways of its handlers:
`Finishes`, `TimesOut`, `SpawnFails`, and `PumpFails` where `ConnectionClosed` comes out of a
pump, which none of them names: the task is over, the process goes on, and the pump of
the other stream may be left (`LoosePump`).

### Run, fairness, proofs

`device` has two commands and two connections, so one reconnect, which is enough for a task of
the first to meet the second. It shows `EndsAreTrue` (the end of a command is reported once, no
task is left for it, and its process is gone unless it failed by its timeout and was sent
SIGTERM), `EndsOnTheirConnection` (the end of a
command is reported on the connection it came over), `NothingRunsUnwatched` (a process
runs under its task, was sent SIGTERM, or its task died on a closed connection), and under
fairness of the event loop, the timers and the noticing of a closed socket, `CommandsSettle`.

The first three, and `TypeOK`, are proved in `TermuxDevice_proofs` for any commands and any
number of connections. The invariant (`GoodTask`, `GoodInbox`, `GoodLoop`, `GoodSent`) is about what is on the
way: a live task belongs to the present connection because every path out of it cancels
all tasks, and a request still in the inbox is of this connection, is there once, and has no task
yet. `TailIsGood`, `AppendIsGood` and `PrefixIsGood` are the lemmas on the inbox as a sequence.
`EndsAreTrue` is not inductive: nothing in it says that a command whose end was reported is not
waiting in the inbox to be started again. `EndInv` has a reported command `Over`: asked for,
without a task and without a request on its way. Every step leaves `Over` what is
(`StaysOver`), and the step that reports an end is the one that makes its command `Over`
(`NewEnd`), so no end is reported twice.

The two ends of a connection are checked separately. `TermuxConnection` lets its device send
anything at any time, of which what this module sends is a part, so their composition
has no behaviour that `TermuxConnection` has not.

### Where the code and its documents part

`NothingRunsUnwatched` has two exceptions because the code has them: SIGTERM is never followed by
SIGKILL, and a process whose task died on `ConnectionClosed` is left to itself. An `OSError`
other than `FileNotFoundError` and `PermissionError` ends a task without a terminating
message (the docstring at 157-159 has one for every command). A loose pump sends its
output over the new connection, which is why `EndsOnTheirConnection` is about ends only.
The reconnect delay is never reset, and an `InvalidHandshake` ends the program.

## 8. Chat and the AI providers

`Chat` has one request of each kind that reaches a provider: a chat turn through
`AgentPipeline` with `call_with_retry`, the legacy chat, a decision of the agent's reasoner,
and the health check; over `GeminiProvider`, `MockProvider` or none. `MCChat` and
`Chat_proofs` go with it.

### How state and actions correspond to the code

A turn is `new`, `calling` (awaiting the provider), `sleeping` (the backoff) and `done` with its
`reply`, an HTTP status or the way its caller hears of it. `errors` is history: the code of
every `AIProviderError` so far. An answer is prose, nothing, an array, or an object, and an
object is the set of its fields that are there and of their type; `AIResponse` and
`AgentDecision` are the fields `schemas.py` and `ai_schemas.py` require, and `Objects` the
answers that lack at most one of them: validation is a conjunction, so one missing field
stands for any. `CodeOf` is `_classify_api_error`, `PipelineErrorOf` and `StatusOf` are the two
translations between the provider's error and the status, `Retries` and `Delay` are
`retry.py`.

### Run, fairness, proofs

`chat` has one request of any kind, up to five attempts, and delays whose doubling reaches
its maximum; requests share nothing. It shows `RetriesAreWorthwhile`, `StatusTellsCause`
and, since `_run_with_timeout` bounds every call of Gemini, `TurnsAnswered`.

`Chat_proofs` has the first two for any number of attempts, any delays and any requests. The
invariant `GoodTurn` says that a request which may still call has had only retryable
errors and fewer than allowed (`MayCall`), so a request that ends without an error has
not given up (`NobodyGaveUp`), and one that ends with an error has (`FailsKeepsInv`). The
type of the delay, a power of two, would need an induction, and is left out of it.

### Where the code and its documents part

`mock.py:58-63` says that `AI_PROVIDER=mock` exercises the same chat pipeline as Gemini.
`MockProvider.complete` answers with prose, which the pipeline takes for an unexpected
response: with it every chat turn is a 502. `schemas.py:150-152` has a plan that fails the
validation treated as INVALID_RESPONSE, which would be a 502 as well; the pipeline makes it a
failed validation and a 422, and `StatusTellsCause` does not judge which. An exception of the Gemini client that is
neither `APIError` nor `OSError` reaches the user as a 500. The top-level fields of an
`AIResponse` are validated apart from those of its task intent and may disagree with them.

## 9. Discovery

`ToolDiscovery` is `ToolDiscoveryService.discover` under many requests: the cache, the
`asyncio.Lock` around the provider, the throttle. `queue` is the lock, whose head holds it;
`fresh` and `gap` are what is left of the cache entries and of the pause between searches, in
ticks. `Arrives` is a call up to the lock, `Acquires` its second look at the cache once it has
it, `Wakes` the end of the throttle's sleep, `SearchReturns` and `SearchRaises` the ends of the
search. `_last_provider_call_at` begins at 0.0 on a monotonic clock that may be young: `gap`
may begin anywhere.

`discovery` (three callers, two capabilities, a gap of two ticks and a life of three: entries
expire while others wait) shows `SearchesAreDue`, that the provider is searched by one
call at a time, for what is not in the cache, and not before the gap has passed since
the last search that succeeded; and `CallsReturn`, under fairness of time, of the provider
and of the event loop. `ToolDiscovery_proofs` has `OnlyDueSearches` for any callers, gap and
life, from the invariant that whoever is past the lock holds it, finds nothing in the
cache, and sleeps at least as long as the throttle asks (`Due`).

The docstring (`discovery.py:15-19`) promises that the provider is not crawled; a search that
fails is neither cached nor counted, so a failing provider is asked without a pause.

## 10. Self-healing

`SelfHealing` is the pure algorithm of `services/self_healing`: `Diagnose` from the signals of a
failure, `Propose` from the diagnosis and what the task has been through, and `Heal`, one
call of the engine, that appends to the history. The confidence table and the order of
the rules are the code's.

`healing` (two tasks, five failures between them, one of ten signals each, 390,277 states)
shows `UnattendedRetriesBounded`: in every order of failures, no category is retried
without a person more than `max_retries` times, and waits never get shorter. The loop detection
sees only two equal categories in a row; the property is about A, B, A, B. The signals are one
for each branch of the planner, and one of a category that the upstream classifier
(`recovery.py:27-40`) knows and the planner has no rule for, which escalates.

Proved in `SelfHealing_proofs` for any tasks, limits and delays: `RetriesAreLimited`, that no
category of a task is retried unattended more than `MaxRetries` times; and
`UnattendedRetriesAreBounded`, which adds that the waits never get shorter. The second has the
hypothesis `PowersGrow`, that powers of two are numbers and do not decrease: the delays are
powers of two of the retries used, the provers know nothing of exponentiation, and the fact needs
induction. The invariant `GoodHistory` is inductive because `Propose` counts what a category
was seen before it chooses (`ProposalIsLimited`), and `DelaysInv` because what was waited so far
is no more than what the next retry would wait (`DelaysKeepGrowing`).

`history.py:4-6` says that a task should not be proposed the same strategy twice for a
category without new evidence; A, B, A proposes it again as long as there are retries left, and
the one bounded retry of the comment at `planner.py:121` can be a second one, the default of
`max_retries` being two. The orchestrator is built without the engine (`core/agent_orchestrator.py:80-94`), so
nothing of it runs in the application.

## 11. What is not modelled, and why

* The installation registry over SQL, and the service object of its own that each HTTP
  request has (section 4): planned.
* The JSON round trip of an agent task (`agent_repository.py`): every field is written and
  read by name, and the models have the record itself. The SQL models and migrations are
  declarations.
* The text of command output and its caps, with the byte arithmetic of
  `connection_manager.py:94`; argv validation and working directories are one bit, valid or not.
* Prompts, JSON layout, `stream` of the providers (nobody calls it), the mock's task plan.
* `record_outcome` and the success rate of self-healing, which nothing calls.
* Agent events, memory, report and voice: logs and formatting that no decision of the loop
  reads.
* The REST surface for targets, findings and reports: rows and stubs. `services/research/engine.py`
  imports names that `services/tools/registry.py` does not define, and cannot be loaded.
* The web and the Android front end: user interface.

## 12. Plan

Done: all components that have control of their own, in the order in which the system
depends on them: the agent loop, the Termux connections, the installation with
trust and verification, the adapters and the engine of the terminal, the device, the
providers, discovery, self-healing.

Left, in this order:

1. `InstallationRows`: the service over the SQL registry with one service object per
   request, copies that are written over each other, and the plan that is lost.
2. Abstract specifications of the installation and of the device, with their refinements.

## 13. Runs and theorems in one place

| Run | Properties proved for all values of the constants | Only model-checked |
|---|---|---|
| `agent_serial` | `TypeOK`; with one request at a time for each task: `RunsAtMostOnce`, `EffectsOnRecord`, `ImplementsLifecycle`; with one creation at a time as well: `ActiveTasksWithinLimit` | |
| `agent_concurrent` | `ExecutionSanctioned`, `PendingActionsCoherent`, `BudgetsRespected` | |
| `agent_live` | | `TasksSettle` |
| `agent_double_run` | | `RunsAtMostOnce`, violated |
| `termux` | `TypeOK`, `ViewsAgree`, `WaitingIsReachable`, `PendingIsAwaited`, `AnsweredByItsDevice`, `RevokedForGood`, `ImplementsRemoteCalls` | `CallsEnd` |
| `install` | `TypeOK`, `OneStartPerRequest`, `InstallsAreSanctioned`, `AttemptsCoherent`, `CancelFindsCommand`, `ApprovalEarned`, `EndIsFinal` | `StartsEnd` |
| `adapter` | `OnlyACutLeavesAProcess` | `RunsEnd` |
| `terminal` | `RunningSessionHasCommand`, `ClosedForGood`, `ImplementsTerminalService` | |
| `device` | `EndsAreTrue`, `EndsOnTheirConnection`, `NothingRunsUnwatched` | `CommandsSettle` |
| `chat` | `RetriesAreWorthwhile`, `StatusTellsCause` | `TurnsAnswered` |
| `discovery` | `SearchesAreDue` | `CallsReturn` |
| `healing` | `UnattendedRetriesBounded`, given `PowersGrow` | |

Proved and in no run: `TypeOK` of `TerminalEngine` and `TermuxDevice`,
`SessionsStayWithinLimit`, `RetriesAreLimited`, `ServicesStayWithinBudget` and
`InstallationsStayWithinBudget`, whose properties are stated in the proof modules.

The last holds only without the two ways of losing a count (section 2).

Liveness under fairness, and what recursive definitions and folds compute for every input,
are out of reach of the prover and stay with TLC. Every
other property of a passing run is proved.
