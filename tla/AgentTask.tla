------------------------------ MODULE AgentTask ------------------------------
(***************************************************************************)
(* The record one agent task is persisted as (AgentTaskState) and the pure *)
(* decisions the orchestrator takes on it: the budgets, the policy gate,   *)
(* the adaptation after a failed action, and the phase each outcome leaves *)
(* the record in.  AgentOrchestrator is the state machine built from them. *)
(*                                                                         *)
(* Texts (objective, summaries, questions), timestamps, the confidence and *)
(* the subtask list never influence a branch and are left out.  The list   *)
(* of observations is kept as "is there one", the list of findings as the  *)
(* number still unverified: that is all the code tests.                    *)
(***************************************************************************)
EXTENDS Integers

CONSTANTS
  ActionIds,          \* identities of actions (uuid4 in the code)
  None,               \* "no action", "no error signature", "no task"
  Types,              \* the action types the reasoner may propose
  DiagnosticFailures, \* failure classes a diagnostic command may end in
  MaxActions,         \* AgentBudgetConfig.max_actions
  MaxModelCalls,      \* AgentBudgetConfig.max_model_calls
  MaxInstalls,        \* AgentBudgetConfig.max_tool_installations
  MaxRetries          \* AgentBudgetConfig.max_retries_per_action

ActionType ==
  {"DISCOVER_TARGET", "CHECK_ENVIRONMENT", "RESEARCH_TOOL", "INSTALL_TOOL",
   "RUN_DIAGNOSTIC", "COLLECT_INFORMATION", "ANALYZE_OUTPUT",
   "VERIFY_FINDING", "GENERATE_REPORT", "ASK_USER", "WAIT_FOR_APPROVAL",
   "COMPLETE_TASK"}

\* Types that change state outside the task and so need the real gate.
ExecutionActionTypes == {"RUN_DIAGNOSTIC", "INSTALL_TOOL"}

FailureClass ==
  {"missing_dependency", "missing_executable", "incompatible_version",
   "unsupported_platform", "permission_issue", "invalid_argument",
   "configuration_issue", "network_connectivity", "timeout",
   "tool_unavailable", "unexpected_output", "policy_restriction", "unknown"}

AgentPhase ==
  {"CREATED", "UNDERSTANDING", "RESEARCHING", "PLANNING",
   "WAITING_FOR_AUTHORIZATION", "WAITING_FOR_APPROVAL", "PREPARING",
   "EXECUTING", "OBSERVING", "ANALYZING", "VERIFYING", "RECOVERING", "PAUSED",
   "CANCELLED", "COMPLETED", "FAILED", "BLOCKED"}

TerminalPhases == {"CANCELLED", "COMPLETED", "FAILED", "BLOCKED"}

\* The phases step() returns from at once, waiting for somebody else.
HaltedPhases == {"PAUSED", "WAITING_FOR_APPROVAL", "WAITING_FOR_AUTHORIZATION"}

ApprovalState == {"NOT_REQUIRED", "PENDING", "APPROVED", "REJECTED"}

ASSUME ConstantsAssumption ==
  /\ None \notin ActionIds
  /\ None \notin ActionType \X FailureClass
  /\ Types \subseteq ActionType
  /\ DiagnosticFailures \subseteq FailureClass
  /\ MaxActions \in Nat /\ MaxModelCalls \in Nat
  /\ MaxInstalls \in Nat /\ MaxRetries \in Nat

AgentAction ==
  [type : ActionType \cup {"NONE"}, approval : ApprovalState]

\* An identity no action of the task has.
NoAction == [type |-> "NONE", approval |-> "NOT_REQUIRED"]

AgentTaskState ==
  [phase        : AgentPhase,
   authorized   : BOOLEAN,      \* authorization_status = "AUTHORIZED"
   target       : BOOLEAN,      \* a target is named
   actions      : [ActionIds -> AgentAction],
   pending      : ActionIds \cup {None},
   actionCount  : Nat,
   modelCalls   : Nat,
   installs     : Nat,
   retries      : [ActionType -> Nat],
   lastError    : (ActionType \X FailureClass) \cup {None},
   observed     : BOOLEAN,      \* observations is not empty
   openFindings : Nat]          \* findings not verified yet

\* The phase CREATED is the dataclass default and is never persisted: here it
\* marks a task that does not exist yet.
BlankTask ==
  [phase |-> "CREATED", authorized |-> FALSE, target |-> FALSE,
   actions |-> [i \in ActionIds |-> NoAction], pending |-> None,
   actionCount |-> 0, modelCalls |-> 0, installs |-> 0,
   retries |-> [ty \in ActionType |-> 0], lastError |-> None,
   observed |-> FALSE, openFindings |-> 0]

IsTerminal(s) == s.phase \in TerminalPhases

NewTask(authorized, target) ==
  [BlankTask EXCEPT !.phase = "UNDERSTANDING", !.authorized = authorized,
                    !.target = target]

\* The second half of create_task: where planning starts.
Authorize(s) ==
  [s EXCEPT !.phase = IF s.authorized THEN "PLANNING"
                                      ELSE "WAITING_FOR_AUTHORIZATION"]

-----------------------------------------------------------------------------
(* AgentBudgetManager: the ceilings checked before a step.                 *)

ActionBudgetSpent(s) == s.actionCount >= MaxActions

ModelCallBudgetSpent(s) == s.modelCalls >= MaxModelCalls

InstallationBudgetOffByOne(s) == s.installs > MaxInstalls
InstallationBudgetSpent(s) == s.installs >= MaxInstalls

RetryBudgetSpent(s, type) == s.retries[type] >= MaxRetries

-----------------------------------------------------------------------------
(* AgentPolicyGate and the decision it judges.                             *)

AgentDecision == [type : Types, asksApproval : BOOLEAN, inScope : BOOLEAN]

GateDenies(s, d) == d.type \in ExecutionActionTypes /\ ~s.authorized

\* A named target counts only when the task has one to compare it with.
OutOfScope(s, d) == ~GateDenies(s, d) /\ s.target /\ ~d.inScope

\* The model can only make this stricter.
ApprovalAsTheModelSays(d) == d.asksApproval
RequiresApproval(d) == d.asksApproval \/ d.type \in ExecutionActionTypes

BuildAction(s, d) ==
  [type |-> d.type,
   approval |-> IF GateDenies(s, d) \/ RequiresApproval(d)
                THEN "PENDING" ELSE "NOT_REQUIRED"]

\* The decision charged to the budgets and its action i appended.
Recorded(s, d, i) ==
  [s EXCEPT !.modelCalls = @ + 1, !.actionCount = @ + 1,
            !.actions[i] = BuildAction(s, d)]

-----------------------------------------------------------------------------
(* AdaptationEngine.decide and the bookkeeping of _handle_failure.         *)

NeverRetry == {"policy_restriction", "permission_issue", "unsupported_platform"}
NeedsAnotherTool == {"missing_dependency", "tool_unavailable"}

Adaptation(s, type, class) ==
  IF \/ s.lastError = <<type, class>>
     \/ class \in NeverRetry
     \/ RetryBudgetSpent(s, type)
  THEN "fail"
  ELSE IF class \in NeedsAnotherTool THEN "ask_user"
  ELSE "retry"

Failed(s, type, class) ==
  CASE Adaptation(s, type, class) = "retry" ->
         [s EXCEPT !.retries[type] = @ + 1, !.lastError = <<type, class>>,
                   !.phase = "RECOVERING"]
    [] Adaptation(s, type, class) = "ask_user" ->
         [s EXCEPT !.phase = "WAITING_FOR_AUTHORIZATION"]
    [] OTHER -> [s EXCEPT !.phase = "FAILED"]

-----------------------------------------------------------------------------
(* What an action that did not fail leaves behind.                         *)

\* A phase named after the action, without the default.
PostActionPhaseNoDefault(type) ==
  IF type = "RESEARCH_TOOL" THEN "RESEARCHING" ELSE type

PostActionPhase(type) ==
  CASE type = "ANALYZE_OUTPUT" -> "ANALYZING"
    [] type = "VERIFY_FINDING" -> "VERIFYING"
    [] type = "RESEARCH_TOOL" -> "RESEARCHING"
    [] OTHER -> "OBSERVING"

Succeeded(s, type) == [s EXCEPT !.phase = PostActionPhase(type)]

\* The same, with the OBSERVATION the action produced.
Observed(s, type) == [Succeeded(s, type) EXCEPT !.observed = TRUE]

Blocked(s) == [s EXCEPT !.phase = "BLOCKED"]
=============================================================================
