-------------------------- MODULE AgentOrchestrator --------------------------
(***************************************************************************)
(* The agent control loop as the API serves it.  Every HTTP request runs   *)
(* one method of AgentOrchestrator in a handler of its own: it reads the   *)
(* whole task record from the database, works on that private copy across  *)
(* its awaits, and writes the whole record back (the last writer wins).    *)
(* Between two awaits of one handler any other handler may run, and the    *)
(* process may restart, which drops every handler and keeps the database.  *)
(*                                                                         *)
(* A handler is at one of these points (pc):                               *)
(*   idle    no request                                                    *)
(*   create  create_task counted the active tasks, nothing is stored yet   *)
(*   reason  step is waiting for the reasoner                              *)
(*   begin   _execute has set EXECUTING and not saved it yet               *)
(*   effect  EXECUTING is saved, the action itself has not run yet         *)
(*   save    the copy is final and only has to be written                  *)
(*                                                                         *)
(* A request that only raises or returns what it read changes nothing and  *)
(* is not an action.                                                       *)
(***************************************************************************)
EXTENDS AgentTask, FiniteSets

CONSTANTS
  Handlers,            \* request handlers that can be active at one time
  Tasks,               \* task identities
  MaxConcurrentTasks   \* AgentBudgetConfig.max_concurrent_tasks

ASSUME TasksAssumption == None \notin Tasks /\ MaxConcurrentTasks \in Nat

VARIABLES
  db,        \* the persisted record of every task
  expired,   \* the tasks whose max_task_duration_seconds has passed
  pc,        \* where each handler is
  task,      \* the task a handler works on
  act,       \* the action a handler is executing
  snap,      \* a handler's private copy of the record
  approved,  \* history: the actions a user's approve request was accepted for
  ran        \* history: how often the service behind an action was called

handlerVars == <<pc, task, act, snap>>
historyVars == <<approved, ran>>
vars == <<db, expired, handlerVars, historyVars>>

PC == {"idle", "create", "reason", "begin", "effect", "save"}

Init ==
  /\ db = [t \in Tasks |-> BlankTask]
  /\ expired = {}
  /\ pc = [h \in Handlers |-> "idle"]
  /\ task = [h \in Handlers |-> None]
  /\ act = [h \in Handlers |-> None]
  /\ snap = [h \in Handlers |-> BlankTask]
  /\ approved = {}
  /\ ran = [i \in ActionIds |-> 0]

Exists(t) == db[t].phase # "CREATED"
Active(t) == Exists(t) /\ ~IsTerminal(db[t])
ActiveTasks == {t \in Tasks : Active(t)}

\* uuid4: an identity nobody has used.  Which one makes no difference, so one
\* stands for all of them.
Fresh(i) ==
  /\ \A t \in Tasks : db[t].actions[i] = NoAction
  /\ \A h \in Handlers : snap[h].actions[i] = NoAction
  /\ i \notin approved /\ ran[i] = 0

NewIds ==
  LET unused == {i \in ActionIds : Fresh(i)}
  IN IF unused = {} THEN {} ELSE {CHOOSE i \in unused : TRUE}

-----------------------------------------------------------------------------
(* Moves of one handler.                                                   *)

\* Handler h goes on at p with the copy s, executing action a of task t.
Goto(h, p, t, a, s) ==
  /\ pc' = [pc EXCEPT ![h] = p]
  /\ task' = [task EXCEPT ![h] = t]
  /\ act' = [act EXCEPT ![h] = a]
  /\ snap' = [snap EXCEPT ![h] = s]

\* The request is answered, or an exception ended it.
Release(h) == Goto(h, "idle", None, None, BlankTask)

\* The copy is final: s is what the handler will write.
Finish(h, s) == Goto(h, "save", task[h], None, s)

\* registry.get and registry.save.  A blind overwrite is all save does.
Read(h, t) == pc[h] = "idle" /\ Exists(t)
Write(h) == db' = [db EXCEPT ![task[h]] = snap[h]]

\* An exception that nothing in the orchestrator catches: the request ends with
\* an error, and nothing more of it is saved.
Escapes(h) == Release(h) /\ UNCHANGED <<db, expired, historyVars>>

-----------------------------------------------------------------------------
(* The requests of a user.                                                 *)

CreateTaskUnlimited(h, t, authorized, target) ==
  /\ pc[h] = "idle" /\ ~Exists(t) /\ \A g \in Handlers : task[g] # t
  /\ Goto(h, "create", t, None, NewTask(authorized, target))
  /\ UNCHANGED <<db, expired, historyVars>>

\* create_task up to the insert: the limit is checked against what is stored.
CreateTask(h, t, authorized, target) ==
  /\ pc[h] = "idle" /\ ~Exists(t) /\ \A g \in Handlers : task[g] # t
  /\ Cardinality(ActiveTasks) < MaxConcurrentTasks
  /\ Goto(h, "create", t, None, NewTask(authorized, target))
  /\ UNCHANGED <<db, expired, historyVars>>

\* The insert commits UNDERSTANDING; the authorization phase is a second save.
InsertTask(h) ==
  /\ pc[h] = "create"
  /\ Write(h)
  /\ Finish(h, Authorize(snap[h]))
  /\ UNCHANGED <<expired, historyVars>>

\* A pause that does not look at the phase first.
PauseAnyTask(h, t) ==
  /\ Read(h, t)
  /\ Goto(h, "save", t, None, [db[t] EXCEPT !.phase = "PAUSED"])
  /\ UNCHANGED <<db, expired, historyVars>>

Pause(h, t) ==
  /\ Read(h, t) /\ ~IsTerminal(db[t])
  /\ Goto(h, "save", t, None, [db[t] EXCEPT !.phase = "PAUSED"])
  /\ UNCHANGED <<db, expired, historyVars>>

Resume(h, t) ==
  /\ Read(h, t) /\ db[t].phase = "PAUSED"
  /\ Goto(h, "save", t, None, [db[t] EXCEPT !.phase = "PLANNING"])
  /\ UNCHANGED <<db, expired, historyVars>>

Cancel(h, t) ==
  /\ Read(h, t) /\ ~IsTerminal(db[t])
  /\ Goto(h, "save", t, None, [db[t] EXCEPT !.phase = "CANCELLED"])
  /\ UNCHANGED <<db, expired, historyVars>>

ProvideClarification(h, t) ==
  /\ Read(h, t) /\ db[t].phase = "WAITING_FOR_AUTHORIZATION"
  /\ Goto(h, "save", t, None,
          [db[t] EXCEPT !.phase = "PLANNING", !.observed = TRUE])
  /\ UNCHANGED <<db, expired, historyVars>>

AwaitsApproval(t) ==
  db[t].phase = "WAITING_FOR_APPROVAL" /\ db[t].pending # None

ApproveAction(h, t) ==
  /\ Read(h, t) /\ AwaitsApproval(t)
  /\ Goto(h, "save", t, None,
          [db[t] EXCEPT !.phase = "PREPARING",
                        !.actions[db[t].pending].approval = "APPROVED"])
  /\ approved' = approved \cup {db[t].pending}
  /\ UNCHANGED <<db, expired, ran>>

\* A reject that leaves the task to be stepped again.
RejectKeepsTaskOpen(h, t) ==
  /\ Read(h, t) /\ AwaitsApproval(t)
  /\ Goto(h, "save", t, None,
          [db[t] EXCEPT !.phase = "PREPARING",
                        !.actions[db[t].pending].approval = "REJECTED"])
  /\ UNCHANGED <<db, expired, historyVars>>

RejectAction(h, t) ==
  /\ Read(h, t) /\ AwaitsApproval(t)
  /\ Goto(h, "save", t, None,
          [db[t] EXCEPT !.phase = "BLOCKED", !.pending = None,
                        !.actions[db[t].pending].approval = "REJECTED"])
  /\ UNCHANGED <<db, expired, historyVars>>

-----------------------------------------------------------------------------
(* step: from the read to the first save.                                  *)

Steppable(t) == ~IsTerminal(db[t]) /\ db[t].phase \notin HaltedPhases
HoldsApproved(t) == db[t].phase = "PREPARING" /\ db[t].pending # None

\* The approved action is taken up without being taken out of the record.
ExecuteApprovedKeepsPending(h, t) ==
  /\ Read(h, t) /\ Steppable(t) /\ HoldsApproved(t)
  /\ Goto(h, "effect", t, db[t].pending, [db[t] EXCEPT !.phase = "EXECUTING"])
  /\ UNCHANGED <<db, expired, historyVars>>

StepExecutesApproved(h, t) ==
  /\ Read(h, t) /\ Steppable(t) /\ HoldsApproved(t)
  /\ Goto(h, "begin", t, db[t].pending,
          [db[t] EXCEPT !.phase = "EXECUTING", !.pending = None])
  /\ UNCHANGED <<db, expired, historyVars>>

BudgetSpent(t) ==
  ActionBudgetSpent(db[t]) \/ t \in expired \/ ModelCallBudgetSpent(db[t])

\* The budget error reaches the route instead of blocking the task.
StepRaisesOnBudget(h, t) ==
  /\ Read(h, t) /\ Steppable(t) /\ ~HoldsApproved(t) /\ BudgetSpent(t)
  /\ UNCHANGED vars

StepBlocksOnBudget(h, t) ==
  /\ Read(h, t) /\ Steppable(t) /\ ~HoldsApproved(t) /\ BudgetSpent(t)
  /\ Goto(h, "save", t, None, Blocked(db[t]))
  /\ UNCHANGED <<db, expired, historyVars>>

StepAsksReasoner(h, t) ==
  /\ Read(h, t) /\ Steppable(t) /\ ~HoldsApproved(t) /\ ~BudgetSpent(t)
  /\ Goto(h, "reason", t, None, db[t])
  /\ UNCHANGED <<db, expired, historyVars>>

\* The reasoner fails, or answers with something that is no decision.
ReasoningFails(h) ==
  /\ pc[h] = "reason"
  /\ Finish(h, Blocked(snap[h]))
  /\ UNCHANGED <<db, expired, historyVars>>

\* The tool registry or the provider raises anything else (a broken connection):
\* only AgentReasoningError is caught.  The record is as step found it, and the
\* model call is not counted.
ReasonerRaises(h) == pc[h] = "reason" /\ Escapes(h)

DecisionOutOfScope(h, d) ==
  /\ pc[h] = "reason" /\ OutOfScope(snap[h], d)
  /\ Finish(h, Blocked([snap[h] EXCEPT !.modelCalls = @ + 1]))
  /\ UNCHANGED <<db, expired, historyVars>>

DecisionDenied(h, d, i) ==
  /\ pc[h] = "reason" /\ GateDenies(snap[h], d)
  /\ Finish(h, [Recorded(snap[h], d, i) EXCEPT
                  !.phase = "WAITING_FOR_AUTHORIZATION"])
  /\ UNCHANGED <<db, expired, historyVars>>

DecisionAwaitsApproval(h, d, i) ==
  /\ pc[h] = "reason"
  /\ ~GateDenies(snap[h], d) /\ ~OutOfScope(snap[h], d) /\ RequiresApproval(d)
  /\ Finish(h, [Recorded(snap[h], d, i) EXCEPT
                  !.phase = "WAITING_FOR_APPROVAL", !.pending = i])
  /\ UNCHANGED <<db, expired, historyVars>>

DecisionExecutes(h, d, i) ==
  /\ pc[h] = "reason"
  /\ ~GateDenies(snap[h], d) /\ ~OutOfScope(snap[h], d) /\ ~RequiresApproval(d)
  /\ Goto(h, "begin", task[h], i,
          [Recorded(snap[h], d, i) EXCEPT !.phase = "EXECUTING"])
  /\ UNCHANGED <<db, expired, historyVars>>

\* EXECUTING is set on the copy only.
BeginWithoutSave(h) ==
  /\ pc[h] = "begin"
  /\ Goto(h, "effect", task[h], act[h], snap[h])
  /\ UNCHANGED <<db, expired, historyVars>>

\* EXECUTING is committed before the action has any effect.
BeginExecution(h) ==
  /\ pc[h] = "begin"
  /\ Write(h)
  /\ Goto(h, "effect", task[h], act[h], snap[h])
  /\ UNCHANGED <<expired, historyVars>>

-----------------------------------------------------------------------------
(* _execute: the action itself, on the handler's copy.                     *)

Executing(h, types) ==
  pc[h] = "effect" /\ snap[h].actions[act[h]].type \in types
TypeOf(h) == snap[h].actions[act[h]].type

\* One call of the terminal or installation service.
CallsService(h) == ran' = [ran EXCEPT ![act[h]] = @ + 1]

\* Ends in the copy s without having called a service.
Concludes(h, s) == Finish(h, s) /\ UNCHANGED <<db, expired, historyVars>>

CheckEnvironment(h) ==
  /\ Executing(h, {"CHECK_ENVIRONMENT"})
  /\ Concludes(h, Observed(snap[h], TypeOf(h)))

DiscoverTarget(h) ==
  /\ Executing(h, {"DISCOVER_TARGET"})
  /\ Concludes(h, IF snap[h].target
                  THEN Observed(snap[h], TypeOf(h))
                  ELSE Failed(snap[h], TypeOf(h), "invalid_argument"))

ResearchTool(h) ==
  /\ Executing(h, {"RESEARCH_TOOL"})
  /\ \E s \in {Observed(snap[h], TypeOf(h)),
               Failed(snap[h], TypeOf(h), "tool_unavailable")} :
       Concludes(h, s)

\* The provider of the discovery raises.
ResearchRaises(h) == Executing(h, {"RESEARCH_TOOL"}) /\ Escapes(h)

\* No tool named; checked before the budget.
InstallWithoutTool(h) ==
  /\ Executing(h, {"INSTALL_TOOL"})
  /\ Concludes(h, Failed(snap[h], TypeOf(h), "invalid_argument"))

\* BudgetExceededError is not an _ActionFailure.
InstallOverBudget(h) ==
  /\ Executing(h, {"INSTALL_TOOL"}) /\ InstallationBudgetSpent(snap[h])
  /\ Escapes(h)

\* Unregistered tool, no target scope, or the installation plan is blocked.
InstallRefused(h) ==
  /\ Executing(h, {"INSTALL_TOOL"}) /\ ~InstallationBudgetSpent(snap[h])
  /\ \E class \in {"tool_unavailable", "policy_restriction"} :
       Concludes(h, Failed(snap[h], TypeOf(h), class))

\* create_session raises, or start_installation before its first command.
InstallRaises(h) ==
  /\ Executing(h, {"INSTALL_TOOL"}) /\ ~InstallationBudgetSpent(snap[h])
  /\ Escapes(h)

\* start_installation raises after its first command (the session is closed when
\* it comes to a retry or to the verification): what was installed is not counted.
InstallRaisesAfterwards(h) ==
  /\ Executing(h, {"INSTALL_TOOL"}) /\ ~InstallationBudgetSpent(snap[h])
  /\ Release(h)
  /\ CallsService(h)
  /\ UNCHANGED <<db, expired, approved>>

InstallRuns(h) ==
  /\ Executing(h, {"INSTALL_TOOL"}) /\ ~InstallationBudgetSpent(snap[h])
  /\ LET s == [snap[h] EXCEPT !.installs = @ + 1]
     IN \/ Finish(h, Observed(s, TypeOf(h)))
        \/ Finish(h, Failed(s, TypeOf(h), "tool_unavailable"))
  /\ CallsService(h)
  /\ UNCHANGED <<db, expired, approved>>

\* No target scope, or the policy engine denies.
DiagnosticRefused(h) ==
  /\ Executing(h, {"RUN_DIAGNOSTIC", "COLLECT_INFORMATION"})
  /\ Concludes(h, Failed(snap[h], TypeOf(h), "policy_restriction"))

\* create_session raises (the terminal's session limit).
DiagnosticRaises(h) ==
  /\ Executing(h, {"RUN_DIAGNOSTIC", "COLLECT_INFORMATION"})
  /\ Escapes(h)

DiagnosticRuns(h) ==
  /\ Executing(h, {"RUN_DIAGNOSTIC", "COLLECT_INFORMATION"})
  /\ \/ Finish(h, Observed(snap[h], TypeOf(h)))
     \/ \E class \in DiagnosticFailures :
          Finish(h, Failed(snap[h], TypeOf(h), class))
  /\ CallsService(h)
  /\ UNCHANGED <<db, expired, approved>>

AnalyzeOutput(h) ==
  /\ Executing(h, {"ANALYZE_OUTPUT"})
  /\ Concludes(h, IF snap[h].observed
                  THEN [Succeeded(snap[h], TypeOf(h)) EXCEPT !.openFindings = @ + 1]
                  ELSE Failed(snap[h], TypeOf(h), "unexpected_output"))

\* A finding stays unverified only without any observation to back it.
VerifyFinding(h) ==
  /\ Executing(h, {"VERIFY_FINDING"})
  /\ Concludes(h, CASE snap[h].openFindings = 0 ->
                         Failed(snap[h], TypeOf(h), "unexpected_output")
                    [] snap[h].openFindings > 0 /\ snap[h].observed ->
                         [Succeeded(snap[h], TypeOf(h)) EXCEPT !.openFindings = @ - 1]
                    [] OTHER -> Succeeded(snap[h], TypeOf(h)))

AskUser(h) ==
  /\ Executing(h, {"ASK_USER"})
  /\ Concludes(h, [snap[h] EXCEPT !.phase = "WAITING_FOR_AUTHORIZATION"])

\* The action that waits is the one to be approved, so approving it executes
\* it again.
WaitForApproval(h) ==
  /\ Executing(h, {"WAIT_FOR_APPROVAL"})
  /\ Concludes(h, [snap[h] EXCEPT !.phase = "WAITING_FOR_APPROVAL",
                                  !.pending = act[h]])

Complete(h) ==
  /\ Executing(h, {"GENERATE_REPORT", "COMPLETE_TASK"})
  /\ Concludes(h, [snap[h] EXCEPT !.phase = "COMPLETED"])

\* The last write of every request.
Save(h) ==
  /\ pc[h] = "save"
  /\ Write(h)
  /\ Release(h)
  /\ UNCHANGED <<expired, historyVars>>

-----------------------------------------------------------------------------
(* The environment.                                                        *)

DurationPasses(t) ==
  /\ Active(t) /\ t \notin expired
  /\ expired' = expired \cup {t}
  /\ UNCHANGED <<db, handlerVars, historyVars>>

\* The process dies and comes back: requests are gone, the database is not.
Restart ==
  /\ \E h \in Handlers : pc[h] # "idle"
  /\ pc' = [h \in Handlers |-> "idle"]
  /\ task' = [h \in Handlers |-> None]
  /\ act' = [h \in Handlers |-> None]
  /\ snap' = [h \in Handlers |-> BlankTask]
  /\ UNCHANGED <<db, expired, historyVars>>

UserRequest(h, t) ==
  \/ \E authorized, target \in BOOLEAN : CreateTask(h, t, authorized, target)
  \/ Pause(h, t) \/ Resume(h, t) \/ Cancel(h, t)
  \/ ProvideClarification(h, t)
  \/ ApproveAction(h, t) \/ RejectAction(h, t)

StepRequest(h, t) ==
  \/ StepExecutesApproved(h, t)
  \/ StepBlocksOnBudget(h, t)
  \/ StepAsksReasoner(h, t)

ReasonerAnswers(h) ==
  \/ ReasoningFails(h) \/ ReasonerRaises(h)
  \/ \E d \in AgentDecision :
       \/ DecisionOutOfScope(h, d)
       \/ \E i \in NewIds :
            \/ DecisionDenied(h, d, i)
            \/ DecisionAwaitsApproval(h, d, i)
            \/ DecisionExecutes(h, d, i)

ActionRuns(h) ==
  \/ CheckEnvironment(h) \/ DiscoverTarget(h)
  \/ ResearchTool(h) \/ ResearchRaises(h)
  \/ InstallWithoutTool(h) \/ InstallOverBudget(h) \/ InstallRefused(h)
  \/ InstallRaises(h) \/ InstallRaisesAfterwards(h) \/ InstallRuns(h)
  \/ DiagnosticRefused(h) \/ DiagnosticRaises(h) \/ DiagnosticRuns(h)
  \/ AnalyzeOutput(h) \/ VerifyFinding(h)
  \/ AskUser(h) \/ WaitForApproval(h) \/ Complete(h)

\* A request that has been accepted goes on.
Progress(h) ==
  \/ InsertTask(h) \/ ReasonerAnswers(h) \/ BeginExecution(h)
  \/ ActionRuns(h) \/ Save(h)

\* The server while it stays up.
Serve ==
  \/ \E h \in Handlers :
       \/ \E t \in Tasks : UserRequest(h, t) \/ StepRequest(h, t)
       \/ Progress(h)
  \/ \E t \in Tasks : DurationPasses(t)

Next == Serve \/ Restart

Spec == Init /\ [][Next]_vars

\* No restart.  An accepted request runs on (the event loop schedules every
\* ready coroutine, and the awaited services are bounded by their timeouts),
\* and the client keeps asking for steps of a task that can take one.
Fairness ==
  /\ \A h \in Handlers : WF_vars(Progress(h))
  /\ \A t \in Tasks : WF_vars(\E h \in Handlers : StepRequest(h, t))

SteadySpec == Init /\ [][Serve]_vars /\ Fairness
-----------------------------------------------------------------------------
(* What every run relies on.                                               *)

\* Every variable has its type: the persisted records and the private copies
\* are AgentTaskState records (models.py), a handler is at one of the awaits
\* of its method, and it executes an action only between the two saves.
TypeOK ==
  /\ db \in [Tasks -> AgentTaskState]
  /\ expired \in SUBSET Tasks
  /\ pc \in [Handlers -> PC]
  /\ task \in [Handlers -> Tasks \cup {None}]
  /\ act \in [Handlers -> ActionIds \cup {None}]
  /\ snap \in [Handlers -> AgentTaskState]
  /\ approved \in SUBSET ActionIds
  /\ ran \in [ActionIds -> Nat]
  /\ \A h \in Handlers : pc[h] # "idle" => task[h] \in Tasks
  /\ \A h \in Handlers : pc[h] \in {"begin", "effect"} => act[h] \in ActionIds

-----------------------------------------------------------------------------
(* True of every record and copy, however many requests overlap.           *)

\* A diagnostic or an installation is executed only on a task that is
\* authorized, and only after a user's approve request for exactly that
\* action was accepted.  The gate, the wait, approve_action and the pick-up
\* of the pending action in the next step have to agree on it.
ExecutionSanctioned ==
  \A h \in Handlers :
    Executing(h, ExecutionActionTypes) => snap[h].authorized /\ act[h] \in approved

\* A record that is about to execute its pending action has that action, and
\* approved; one that waits for an approval names what is to be approved.
\* approve_action, reject_action and step look the action up unconditionally.
PendingCoherent(s) ==
  /\ s.phase = "PREPARING" =>
       s.pending # None /\ s.actions[s.pending].approval = "APPROVED"
  /\ s.phase = "WAITING_FOR_APPROVAL" =>
       s.pending # None /\ s.actions[s.pending] # NoAction

\* PendingCoherent for what is stored and for what any request will store.
PendingActionsCoherent ==
  /\ \A t \in Tasks : PendingCoherent(db[t])
  /\ \A h \in Handlers : PendingCoherent(snap[h])

WithinBudget(s) ==
  /\ s.actionCount <= MaxActions
  /\ s.modelCalls <= MaxModelCalls
  /\ s.installs <= MaxInstalls
  /\ \A type \in ActionType : s.retries[type] <= MaxRetries

\* No record ever passes a ceiling of AgentBudgetConfig, although each ceiling
\* is checked on a private copy and some of them before an await.
BudgetsRespected ==
  /\ \A t \in Tasks : WithinBudget(db[t])
  /\ \A h \in Handlers : WithinBudget(snap[h])

-----------------------------------------------------------------------------
(* True while the requests do not overlap, whenever the process restarts.  *)

\* The service behind an action is called at most once, across pauses, retries
\* and restarts: the pending action is taken off the stored record before its
\* effect, so a restart in between can lose the action but not repeat it.
RunsAtMostOnce == \A i \in ActionIds : ran[i] <= 1

\* No effect is off the record: the action behind a service call is stored
\* before the call, so it is still there after a restart at any point.
EffectsOnRecord ==
  \A i \in ActionIds :
    ran[i] > 0 => \E t \in Tasks : db[t].actions[i] # NoAction

\* The number of open tasks stays within max_concurrent_tasks.
ActiveTasksWithinLimit == Cardinality(ActiveTasks) <= MaxConcurrentTasks

\* Seen from outside the loop is an AgentLifecycle: a task opens once, closes
\* once and for good, runs nothing when it is closed, runs each action once and
\* never one that was rejected.
Lifecycle ==
  INSTANCE AgentLifecycle WITH
    open <- ActiveTasks,
    closed <- {t \in Tasks : Exists(t) /\ IsTerminal(db[t])},
    rejected <- {i \in ActionIds :
                   \E t \in Tasks : db[t].actions[i].approval = "REJECTED"}

ImplementsLifecycle == Lifecycle!Spec

-----------------------------------------------------------------------------
(* True while the server stays up.                                         *)

Settled(t) == ~Active(t) \/ db[t].phase \in HaltedPhases

\* The reasoner raises for t again and again, and the time of t never runs out.
RaisesForEver(t) ==
  /\ [](t \notin expired)
  /\ []<><<\E h \in Handlers : task[h] = t /\ ReasonerRaises(h)>>_vars

\* A task that is stepped does not run for ever: again and again it is over,
\* or it waits for somebody (a user's answer, approval or resume).  A step that
\* records a decision or fails uses up a budget or ends the task, also when an
\* exception of its action ends the request.  Only a step whose reasoner raises
\* uses up nothing: that task settles when its time is over.
TasksSettle == \A t \in Tasks : []<>Settled(t) \/ RaisesForEver(t)
=============================================================================
