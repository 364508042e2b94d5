----------------------- MODULE AgentOrchestrator_proofs -----------------------
(***************************************************************************)
(* Proofs about AgentOrchestrator for every set of handlers, tasks and     *)
(* actions and all budgets.  The first half is the invariants of the       *)
(* records, which hold however many requests overlap and whenever the      *)
(* process restarts.  The second half is what the loop promises only while *)
(* the requests for one task come one at a time, restarts included and     *)
(* whatever the requests for other tasks do: each action runs once and on  *)
(* record, the limit on open tasks holds, and the loop implements          *)
(* AgentLifecycle.  Last comes what the budgets say of the services: how   *)
(* many of a task's actions they were ever called for.                     *)
(***************************************************************************)
EXTENDS AgentOrchestrator, FiniteSetTheorems, TLAPS

\* What is true of every stored record and every private copy, where A is the
\* set of actions a user has approved.
Sanctioned(s, A) ==
  /\ \A i \in ActionIds :
       /\ s.actions[i].approval = "APPROVED" => i \in A
       /\ s.actions[i].type \in ExecutionActionTypes =>
            s.actions[i].approval # "NOT_REQUIRED"
  /\ s.pending # None =>
       /\ s.actions[s.pending].type # "NONE"
       /\ s.actions[s.pending].type \in ExecutionActionTypes => s.authorized

Good(s, A) ==
  s \in AgentTaskState /\ PendingCoherent(s) /\ WithinBudget(s) /\ Sanctioned(s, A)

\* What is true of a handler at p that works on task t and executes action a
\* of its copy s.
HandlerOK(p, t, a, s) ==
  /\ p # "idle" => t \in Tasks
  /\ p = "reason" => s.actionCount < MaxActions /\ s.modelCalls < MaxModelCalls
  /\ p \in {"begin", "effect"} =>
       /\ a \in ActionIds
       /\ s.actions[a].type # "NONE"
       /\ s.actions[a].type \in ExecutionActionTypes =>
            s.authorized /\ s.actions[a].approval = "APPROVED"

\* The half of the inductive invariant about what outlives a request.
StoredOK ==
  /\ db \in [Tasks -> AgentTaskState]
  /\ expired \in SUBSET Tasks
  /\ approved \in SUBSET ActionIds
  /\ ran \in [ActionIds -> Nat]
  /\ \A t \in Tasks : Good(db[t], approved)

\* The half about the requests under way.
HandlersOK ==
  /\ pc \in [Handlers -> PC]
  /\ task \in [Handlers -> Tasks \cup {None}]
  /\ act \in [Handlers -> ActionIds \cup {None}]
  /\ snap \in [Handlers -> AgentTaskState]
  /\ \A h \in Handlers : Good(snap[h], approved)
  /\ \A h \in Handlers : HandlerOK(pc[h], task[h], act[h], snap[h])

IInv == StoredOK /\ HandlersOK

-----------------------------------------------------------------------------
(* Records.                                                                *)

LEMMA BlankIsGood == \A A : Good(BlankTask, A)
  BY ConstantsAssumption
  DEF Good, BlankTask, AgentTaskState, AgentAction, AgentPhase, ApprovalState,
      NoAction, PendingCoherent, WithinBudget, Sanctioned, ExecutionActionTypes

\* A change of phase alone, to one that promises nothing about the pending
\* action, keeps a record good.
LEMMA PhaseKeepsGood ==
  ASSUME NEW A, NEW s, Good(s, A),
         NEW p \in AgentPhase \ {"PREPARING", "WAITING_FOR_APPROVAL"}
  PROVE  Good([s EXCEPT !.phase = p], A)
  BY DEF Good, AgentTaskState, PendingCoherent, WithinBudget, Sanctioned

\* The same with an observation, or with another count of open findings.
LEMMA EvidenceKeepsGood ==
  ASSUME NEW A, NEW s, Good(s, A)
  PROVE  /\ Good([s EXCEPT !.observed = TRUE], A)
         /\ \A n \in Nat : Good([s EXCEPT !.openFindings = n], A)
  BY DEF Good, AgentTaskState, PendingCoherent, WithinBudget, Sanctioned

LEMMA SucceededIsGood ==
  ASSUME NEW A, NEW s, Good(s, A), NEW type
  PROVE  Good(Succeeded(s, type), A) /\ Good(Observed(s, type), A)
<1>1. PostActionPhase(type) \in AgentPhase \ {"PREPARING", "WAITING_FOR_APPROVAL"}
  BY DEF PostActionPhase, AgentPhase
<1>2. Good(Succeeded(s, type), A)
  BY <1>1, PhaseKeepsGood DEF Succeeded
<1>3. QED
  BY <1>2, EvidenceKeepsGood DEF Observed

\* Whatever the adaptation decides about a failure, the record stays good: a
\* retry is charged only while the retry budget lasts.
LEMMA FailedIsGood ==
  ASSUME NEW A, NEW s, Good(s, A), NEW type \in ActionType, NEW class \in FailureClass
  PROVE  Good(Failed(s, type, class), A)
<1>1. CASE Adaptation(s, type, class) = "retry"
  <2>1. s.retries[type] < MaxRetries
    BY <1>1, ConstantsAssumption
    DEF Adaptation, RetryBudgetSpent, Good, AgentTaskState
  <2>2. Failed(s, type, class) =
          [s EXCEPT !.retries[type] = @ + 1, !.lastError = <<type, class>>,
                    !.phase = "RECOVERING"]
    BY <1>1 DEF Failed
  <2> DEFINE r == [s.retries EXCEPT ![type] = @ + 1]
             f == [s EXCEPT !.retries = r, !.lastError = <<type, class>>,
                            !.phase = "RECOVERING"]
  <2>3. s \in AgentTaskState /\ s.retries \in [ActionType -> Nat]
    BY DEF Good, AgentTaskState
  <2>4. r \in [ActionType -> Nat] /\ \A ty \in ActionType : r[ty] <= MaxRetries
    <3>1. s.retries[type] \in Nat /\ s.retries[type] + 1 \in Nat
      BY <2>3
    <3>2. \A ty \in ActionType : r[ty] = IF ty = type THEN s.retries[type] + 1
                                                      ELSE s.retries[ty]
      BY <2>3
    <3>3. s.retries[type] + 1 <= MaxRetries
      BY <2>1, <3>1, ConstantsAssumption
    <3>4. \A ty \in ActionType : s.retries[ty] <= MaxRetries
      BY DEF Good, WithinBudget
    <3>5. r \in [ActionType -> Nat]
      BY <2>3, <3>1
    <3>6. QED
      BY <3>2, <3>3, <3>4, <3>5
  <2>5. Failed(s, type, class) = f
    BY <2>2, <2>3
  <2>6. f \in AgentTaskState
    <3>1. <<type, class>> \in (ActionType \X FailureClass) \cup {None}
      OBVIOUS
    <3>2. "RECOVERING" \in AgentPhase
      BY DEF AgentPhase
    <3> HIDE DEF r
    <3>3. QED
      BY <2>3, <2>4, <3>1, <3>2 DEF AgentTaskState
  <2>7. PendingCoherent(f) /\ WithinBudget(f) /\ Sanctioned(f, A)
    <3> HIDE DEF r
    <3>1. QED
      BY <2>3, <2>4 DEF Good, AgentTaskState, PendingCoherent, WithinBudget, Sanctioned
  <2>8. QED
    BY <2>5, <2>6, <2>7 DEF Good
<1>2. CASE Adaptation(s, type, class) = "ask_user"
  BY <1>2, PhaseKeepsGood DEF Failed, AgentPhase
<1>3. CASE Adaptation(s, type, class) \notin {"retry", "ask_user"}
  <2>1. Failed(s, type, class) = [s EXCEPT !.phase = "FAILED"]
    BY <1>3 DEF Failed
  <2>2. QED
    BY <2>1, PhaseKeepsGood DEF AgentPhase
<1>4. QED
  BY <1>1, <1>2, <1>3

-----------------------------------------------------------------------------
(* Records that get an action, or whose action is decided.                 *)

LEMMA NewTaskIsGood ==
  ASSUME NEW A, NEW authorized \in BOOLEAN, NEW target \in BOOLEAN
  PROVE  /\ Good(NewTask(authorized, target), A)
         /\ Good(Authorize(NewTask(authorized, target)), A)
<1>1. Good(NewTask(authorized, target), A)
  <2>1. Good(BlankTask, A) /\ BlankTask.pending = None
    BY BlankIsGood DEF BlankTask
  <2>2. QED
    BY <2>1
    DEF Good, NewTask, AgentTaskState, AgentPhase, PendingCoherent,
        WithinBudget, Sanctioned
<1>2. QED
  BY <1>1, PhaseKeepsGood DEF Authorize, AgentPhase

LEMMA AuthorizeIsGood ==
  ASSUME NEW A, NEW s, Good(s, A)
  PROVE  Good(Authorize(s), A)
  BY PhaseKeepsGood DEF Authorize, AgentPhase

\* Approving more actions does not make a record worse.
LEMMA GoodIsMonotone ==
  ASSUME NEW A, NEW B, A \subseteq B, NEW s, Good(s, A)
  PROVE  Good(s, B)
  BY DEF Good, Sanctioned

\* A decision is recorded under an unused identity, within the budgets that
\* were checked before the reasoner was asked.
LEMMA RecordedIsGood ==
  ASSUME NEW A, NEW s, Good(s, A), NEW d \in AgentDecision,
         NEW i \in ActionIds, s.actions[i] = NoAction,
         s.actionCount < MaxActions, s.modelCalls < MaxModelCalls,
         NEW p \in AgentPhase \ {"PREPARING", "WAITING_FOR_APPROVAL"}
  PROVE  Good([Recorded(s, d, i) EXCEPT !.phase = p], A)
<1> DEFINE b == BuildAction(s, d)
           m == [s.actions EXCEPT ![i] = b]
           f == [s EXCEPT !.modelCalls = @ + 1, !.actionCount = @ + 1,
                          !.actions = m, !.phase = p]
<1>1. s \in AgentTaskState /\ s.actions \in [ActionIds -> AgentAction]
  BY DEF Good, AgentTaskState
<1>2. [Recorded(s, d, i) EXCEPT !.phase = p] = f
  BY <1>1 DEF Recorded, AgentTaskState
<1>3. /\ b \in AgentAction /\ b.type # "NONE" /\ b.approval # "APPROVED"
      /\ b.type \in ExecutionActionTypes => b.approval # "NOT_REQUIRED"
  BY ConstantsAssumption
  DEF AgentDecision, BuildAction, AgentAction, ApprovalState, RequiresApproval,
      ActionType
<1>4. m \in [ActionIds -> AgentAction]
  BY <1>1, <1>3
<1>5. \A j \in ActionIds : m[j] = IF j = i THEN b ELSE s.actions[j]
  BY <1>1
<1>6. s.pending # i
  BY ConstantsAssumption DEF Good, Sanctioned, NoAction
<1> HIDE DEF b, m
<1>7. f \in AgentTaskState
  <2>1. s.modelCalls + 1 \in Nat /\ s.actionCount + 1 \in Nat /\ p \in AgentPhase
    BY <1>1 DEF AgentTaskState
  <2>2. QED
    BY <1>1, <1>4, <2>1 DEF AgentTaskState
<1>8. PendingCoherent(f) /\ WithinBudget(f)
  BY <1>1, ConstantsAssumption
  DEF Good, AgentTaskState, PendingCoherent, WithinBudget
<1>9. Sanctioned(f, A)
  BY <1>1, <1>3, <1>5, <1>6 DEF Good, AgentTaskState, Sanctioned
<1>10. QED
  BY <1>2, <1>7, <1>8, <1>9 DEF Good

\* A record may wait for the approval of any action it has, provided it is
\* authorized when the action is an execution.
LEMMA WaitingIsGood ==
  ASSUME NEW A, NEW s, Good(s, A), NEW i \in ActionIds,
         s.actions[i].type # "NONE",
         s.actions[i].type \in ExecutionActionTypes => s.authorized
  PROVE  Good([s EXCEPT !.phase = "WAITING_FOR_APPROVAL", !.pending = i], A)
<1> DEFINE f == [s EXCEPT !.phase = "WAITING_FOR_APPROVAL", !.pending = i]
<1>1. s \in AgentTaskState
  BY DEF Good
<1>2. f \in AgentTaskState
  BY <1>1 DEF AgentTaskState, AgentPhase
<1>3. i # None /\ s.actions[i] # NoAction
  BY ConstantsAssumption DEF NoAction
<1>4. f.phase = "WAITING_FOR_APPROVAL" /\ f.pending = i /\ f.actions = s.actions
  BY <1>1 DEF AgentTaskState
<1>5. PendingCoherent(f)
  BY <1>3, <1>4 DEF PendingCoherent
<1>6. WithinBudget(f)
  BY <1>1 DEF Good, AgentTaskState, WithinBudget
<1>7. Sanctioned(f, A)
  BY <1>1, <1>4 DEF Good, AgentTaskState, Sanctioned
<1>8. QED
  BY <1>2, <1>5, <1>6, <1>7 DEF Good

\* The user's answer for the pending action i: approved, it is in A from now on.
LEMMA ApprovedIsGood ==
  ASSUME NEW A, NEW s, Good(s, A), s.pending # None
  PROVE  Good([s EXCEPT !.phase = "PREPARING",
                        !.actions[s.pending].approval = "APPROVED"],
              A \cup {s.pending})
<1> DEFINE i == s.pending
           m == [s.actions EXCEPT ![i].approval = "APPROVED"]
           f == [s EXCEPT !.phase = "PREPARING", !.actions = m]
<1>1. s \in AgentTaskState /\ s.actions \in [ActionIds -> AgentAction] /\ i \in ActionIds
  BY DEF Good, AgentTaskState
<1>2. m = [s.actions EXCEPT ![i] = [type |-> s.actions[i].type, approval |-> "APPROVED"]]
  BY <1>1 DEF AgentAction
<1>3. m \in [ActionIds -> AgentAction]
  BY <1>1, <1>2 DEF AgentAction, ApprovalState
<1>4. /\ m[i] = [type |-> s.actions[i].type, approval |-> "APPROVED"]
      /\ \A j \in ActionIds \ {i} : m[j] = s.actions[j]
  BY <1>1, <1>2
<1>5. [s EXCEPT !.phase = "PREPARING", !.actions[s.pending].approval = "APPROVED"] = f
  BY <1>1 DEF AgentTaskState
<1> HIDE DEF m
<1>6. f \in AgentTaskState
  BY <1>1, <1>3 DEF AgentTaskState, AgentPhase
<1>7. PendingCoherent(f) /\ WithinBudget(f)
  BY <1>1, <1>4 DEF Good, AgentTaskState, PendingCoherent, WithinBudget
<1>8. Sanctioned(f, A \cup {i})
  BY <1>1, <1>4 DEF Good, AgentTaskState, Sanctioned
<1>9. QED
  BY <1>5, <1>6, <1>7, <1>8 DEF Good

\* Rejected, it stops the task.
LEMMA RejectedIsGood ==
  ASSUME NEW A, NEW s, Good(s, A), s.pending # None
  PROVE  Good([s EXCEPT !.phase = "BLOCKED", !.pending = None,
                        !.actions[s.pending].approval = "REJECTED"], A)
<1> DEFINE i == s.pending
           m == [s.actions EXCEPT ![i].approval = "REJECTED"]
           f == [s EXCEPT !.phase = "BLOCKED", !.pending = None, !.actions = m]
<1>1. s \in AgentTaskState /\ s.actions \in [ActionIds -> AgentAction] /\ i \in ActionIds
  BY DEF Good, AgentTaskState
<1>2. m = [s.actions EXCEPT ![i] = [type |-> s.actions[i].type, approval |-> "REJECTED"]]
  BY <1>1 DEF AgentAction
<1>3. m \in [ActionIds -> AgentAction]
  BY <1>1, <1>2 DEF AgentAction, ApprovalState
<1>4. /\ m[i] = [type |-> s.actions[i].type, approval |-> "REJECTED"]
      /\ \A j \in ActionIds \ {i} : m[j] = s.actions[j]
  BY <1>1, <1>2
<1>5. [s EXCEPT !.phase = "BLOCKED", !.pending = None,
                !.actions[s.pending].approval = "REJECTED"] = f
  BY <1>1 DEF AgentTaskState
<1> HIDE DEF m
<1>6. f \in AgentTaskState
  BY <1>1, <1>3 DEF AgentTaskState, AgentPhase
<1>7. PendingCoherent(f) /\ WithinBudget(f)
  BY <1>1, <1>4 DEF Good, AgentTaskState, PendingCoherent, WithinBudget
<1>8. Sanctioned(f, A)
  BY <1>1, <1>4 DEF Good, AgentTaskState, Sanctioned
<1>9. QED
  BY <1>5, <1>6, <1>7, <1>8 DEF Good

LEMMA InstalledIsGood ==
  ASSUME NEW A, NEW s, Good(s, A), s.installs < MaxInstalls
  PROVE  Good([s EXCEPT !.installs = @ + 1], A)
<1>1. s.installs \in Nat
  BY DEF Good, AgentTaskState
<1>2. s.installs + 1 \in Nat /\ s.installs + 1 <= MaxInstalls
  BY <1>1, ConstantsAssumption
<1>3. QED
  BY <1>2 DEF Good, AgentTaskState, PendingCoherent, WithinBudget, Sanctioned

-----------------------------------------------------------------------------
(* Moves.                                                                  *)

\* A handler may go to any point with any good copy that suits the point.
LEMMA GotoKeepsHandlersOK ==
  ASSUME HandlersOK, approved \subseteq approved',
         NEW h \in Handlers, NEW p \in PC, NEW t \in Tasks \cup {None},
         NEW a \in ActionIds \cup {None}, NEW s,
         Good(s, approved'), HandlerOK(p, t, a, s), Goto(h, p, t, a, s)
  PROVE  HandlersOK'
<1>1. s \in AgentTaskState
  BY DEF Good
<1>2. /\ pc' \in [Handlers -> PC]
      /\ task' \in [Handlers -> Tasks \cup {None}]
      /\ act' \in [Handlers -> ActionIds \cup {None}]
      /\ snap' \in [Handlers -> AgentTaskState]
  BY <1>1 DEF HandlersOK, Goto
<1>3. /\ pc'[h] = p /\ task'[h] = t /\ act'[h] = a /\ snap'[h] = s
      /\ \A g \in Handlers \ {h} :
           /\ pc'[g] = pc[g] /\ task'[g] = task[g]
           /\ act'[g] = act[g] /\ snap'[g] = snap[g]
  BY DEF HandlersOK, Goto
<1>4. \A g \in Handlers : Good(snap'[g], approved')
  BY <1>3, GoodIsMonotone DEF HandlersOK
<1>5. \A g \in Handlers : HandlerOK(pc'[g], task'[g], act'[g], snap'[g])
  BY <1>3 DEF HandlersOK
<1>6. QED
  BY <1>2, <1>4, <1>5 DEF HandlersOK

LEMMA ReleaseKeepsHandlersOK ==
  ASSUME HandlersOK, approved \subseteq approved', NEW h \in Handlers, Release(h)
  PROVE  HandlersOK'
<1>1. HandlerOK("idle", None, None, BlankTask)
  BY DEF HandlerOK
<1>2. Good(BlankTask, approved') /\ "idle" \in PC
  BY BlankIsGood DEF PC
<1>3. QED
  BY <1>1, <1>2, GotoKeepsHandlersOK DEF Release

LEMMA FinishKeepsHandlersOK ==
  ASSUME HandlersOK, approved \subseteq approved', NEW h \in Handlers,
         pc[h] # "idle", NEW s, Good(s, approved'), Finish(h, s)
  PROVE  HandlersOK'
<1>1. task[h] \in Tasks
  BY DEF HandlersOK, HandlerOK
<1>2. HandlerOK("save", task[h], None, s) /\ "save" \in PC
  BY <1>1 DEF HandlerOK, PC
<1>3. QED
  BY <1>1, <1>2, GotoKeepsHandlersOK DEF Finish

\* A request that starts from the stored record and only has to be saved.
LEMMA EditKeepsHandlersOK ==
  ASSUME HandlersOK, approved \subseteq approved', NEW h \in Handlers,
         NEW t \in Tasks, NEW s, Good(s, approved'), Goto(h, "save", t, None, s)
  PROVE  HandlersOK'
<1>1. HandlerOK("save", t, None, s) /\ "save" \in PC
  BY DEF HandlerOK, PC
<1>2. QED
  BY <1>1, GotoKeepsHandlersOK

LEMMA SameStoreIsOK ==
  ASSUME StoredOK, UNCHANGED <<db, expired, historyVars>>
  PROVE  StoredOK' /\ approved \subseteq approved'
  BY DEF StoredOK, historyVars

\* The copy of a handler is good, so the record it overwrites is good again.
LEMMA WriteKeepsStoredOK ==
  ASSUME IInv, NEW h \in Handlers, pc[h] # "idle", Write(h),
         UNCHANGED <<expired, historyVars>>
  PROVE  StoredOK' /\ approved \subseteq approved'
<1>1. task[h] \in Tasks /\ Good(snap[h], approved) /\ snap[h] \in AgentTaskState
  BY DEF IInv, HandlersOK, HandlerOK
<1>2. db' \in [Tasks -> AgentTaskState]
  BY <1>1 DEF IInv, StoredOK, Write
<1>3. \A t \in Tasks : Good(db'[t], approved)
  BY <1>1 DEF IInv, StoredOK, Write
<1>4. approved' = approved /\ expired' = expired /\ ran' = ran
  BY DEF historyVars
<1>5. QED
  BY <1>2, <1>3, <1>4 DEF IInv, StoredOK

LEMMA ServiceCallKeepsStoredOK ==
  ASSUME IInv, NEW h \in Handlers, pc[h] = "effect", CallsService(h),
         UNCHANGED <<db, expired, approved>>
  PROVE  StoredOK' /\ approved \subseteq approved'
<1>1. act[h] \in ActionIds
  BY DEF IInv, HandlersOK, HandlerOK
<1>2. ran' \in [ActionIds -> Nat]
  BY <1>1 DEF IInv, StoredOK, CallsService
<1>3. QED
  BY <1>2 DEF IInv, StoredOK

-----------------------------------------------------------------------------
(* The steps.                                                              *)

LEMMA InitIsOK == Init => IInv
<1> SUFFICES ASSUME Init PROVE IInv
  OBVIOUS
<1>1. Good(BlankTask, approved) /\ BlankTask \in AgentTaskState
  BY BlankIsGood DEF Good
<1>2. StoredOK
  BY <1>1 DEF Init, StoredOK
<1>3. HandlersOK
  BY <1>1 DEF Init, HandlersOK, HandlerOK, PC
<1>4. QED
  BY <1>2, <1>3 DEF IInv

LEMMA UserRequestKeepsIInv ==
  ASSUME IInv, NEW h \in Handlers, NEW t \in Tasks, UserRequest(h, t)
  PROVE  IInv'
<1> USE DEF IInv
<1>1. Good(db[t], approved) /\ db[t] \in AgentTaskState
  BY DEF StoredOK
<1>2. ASSUME NEW authorized \in BOOLEAN, NEW target \in BOOLEAN,
             CreateTask(h, t, authorized, target)
      PROVE  IInv'
  <2>1. StoredOK' /\ approved \subseteq approved'
    BY <1>2, SameStoreIsOK DEF CreateTask
  <2>2. /\ Good(NewTask(authorized, target), approved')
        /\ HandlerOK("create", t, None, NewTask(authorized, target))
        /\ "create" \in PC
    BY NewTaskIsGood DEF HandlerOK, PC
  <2>3. HandlersOK'
    BY <1>2, <2>1, <2>2, GotoKeepsHandlersOK DEF CreateTask
  <2>4. QED
    BY <2>1, <2>3
<1>3. ASSUME NEW p \in {"PAUSED", "PLANNING", "CANCELLED"},
             Goto(h, "save", t, None, [db[t] EXCEPT !.phase = p]),
             UNCHANGED <<db, expired, historyVars>>
      PROVE  IInv'
  <2>1. StoredOK' /\ approved \subseteq approved'
    BY <1>3, SameStoreIsOK
  <2>2. p \in AgentPhase \ {"PREPARING", "WAITING_FOR_APPROVAL"}
    BY DEF AgentPhase
  <2>3. Good([db[t] EXCEPT !.phase = p], approved')
    BY <1>1, <2>1, <2>2, PhaseKeepsGood, GoodIsMonotone
  <2>4. QED
    BY <1>3, <2>1, <2>3, EditKeepsHandlersOK
<1>4. CASE Pause(h, t)
  BY <1>3, <1>4 DEF Pause
<1>5. CASE Resume(h, t)
  BY <1>3, <1>5 DEF Resume
<1>6. CASE Cancel(h, t)
  BY <1>3, <1>6 DEF Cancel
<1>7. CASE ProvideClarification(h, t)
  <2> DEFINE s == [db[t] EXCEPT !.phase = "PLANNING", !.observed = TRUE]
  <2>1. StoredOK' /\ approved \subseteq approved'
    BY <1>7, SameStoreIsOK DEF ProvideClarification
  <2>2. Good([db[t] EXCEPT !.phase = "PLANNING"], approved')
    BY <1>1, <2>1, PhaseKeepsGood, GoodIsMonotone DEF AgentPhase
  <2>3. Good([[db[t] EXCEPT !.phase = "PLANNING"] EXCEPT !.observed = TRUE], approved')
    BY <2>2, EvidenceKeepsGood
  <2>4. Good(s, approved')
    BY <2>3
  <2>5. Goto(h, "save", t, None, s)
    BY <1>7 DEF ProvideClarification
  <2>6. QED
    BY <2>1, <2>4, <2>5, EditKeepsHandlersOK
<1>8. CASE ApproveAction(h, t)
  <2> DEFINE s == [db[t] EXCEPT !.phase = "PREPARING",
                                !.actions[db[t].pending].approval = "APPROVED"]
  <2>1. /\ db[t].pending # None /\ approved' = approved \cup {db[t].pending}
        /\ Goto(h, "save", t, None, s) /\ UNCHANGED <<db, expired, ran>>
    BY <1>8 DEF ApproveAction, AwaitsApproval
  <2>2. Good(s, approved')
    BY <1>1, <2>1, ApprovedIsGood
  <2>3. approved \subseteq approved' /\ db[t].pending \in ActionIds
    BY <1>1, <2>1 DEF AgentTaskState
  <2>4. StoredOK'
    BY <2>1, <2>3, GoodIsMonotone DEF StoredOK
  <2> HIDE DEF s
  <2>5. QED
    BY <2>1, <2>2, <2>3, <2>4, EditKeepsHandlersOK
<1>9. CASE RejectAction(h, t)
  <2> DEFINE s == [db[t] EXCEPT !.phase = "BLOCKED", !.pending = None,
                                !.actions[db[t].pending].approval = "REJECTED"]
  <2>1. StoredOK' /\ approved \subseteq approved'
    BY <1>9, SameStoreIsOK DEF RejectAction
  <2>2. db[t].pending # None /\ Goto(h, "save", t, None, s)
    BY <1>9 DEF RejectAction, AwaitsApproval
  <2>3. Good(s, approved)
    BY <1>1, <2>2, RejectedIsGood
  <2> HIDE DEF s
  <2>4. QED
    BY <2>1, <2>2, <2>3, GoodIsMonotone, EditKeepsHandlersOK
<1>10. QED
  BY <1>2, <1>4, <1>5, <1>6, <1>7, <1>8, <1>9 DEF UserRequest

LEMMA StepRequestKeepsIInv ==
  ASSUME IInv, NEW h \in Handlers, NEW t \in Tasks, StepRequest(h, t)
  PROVE  IInv'
<1> USE DEF IInv
<1>1. Good(db[t], approved) /\ db[t] \in AgentTaskState
  BY DEF StoredOK
<1>2. StoredOK' /\ approved' = approved
  BY SameStoreIsOK
  DEF StepRequest, StepExecutesApproved, StepBlocksOnBudget, StepAsksReasoner,
      historyVars
<1>3. CASE StepExecutesApproved(h, t)
  <2> DEFINE i == db[t].pending
             s == [db[t] EXCEPT !.phase = "EXECUTING", !.pending = None]
  <2>1. db[t].phase = "PREPARING" /\ i # None /\ Goto(h, "begin", t, i, s)
    BY <1>3 DEF StepExecutesApproved, HoldsApproved
  <2>2. i \in ActionIds
    BY <1>1, <2>1 DEF AgentTaskState
  <2>3. Good(s, approved)
    BY <1>1 DEF Good, AgentTaskState, AgentPhase, PendingCoherent, WithinBudget,
                Sanctioned
  <2>4. /\ s.actions[i].type # "NONE"
        /\ s.actions[i].approval = "APPROVED"
        /\ s.actions[i].type \in ExecutionActionTypes => s.authorized
    BY <1>1, <2>1 DEF Good, AgentTaskState, PendingCoherent, Sanctioned
  <2>5. HandlerOK("begin", t, i, s) /\ "begin" \in PC
    BY <2>2, <2>4 DEF HandlerOK, PC
  <2> HIDE DEF s
  <2>6. QED
    BY <1>2, <2>1, <2>2, <2>3, <2>5, GotoKeepsHandlersOK
<1>4. CASE StepBlocksOnBudget(h, t)
  <2>1. Good(Blocked(db[t]), approved)
    BY <1>1, PhaseKeepsGood DEF Blocked, AgentPhase
  <2>2. QED
    BY <1>2, <1>4, <2>1, EditKeepsHandlersOK DEF StepBlocksOnBudget
<1>5. CASE StepAsksReasoner(h, t)
  <2>1. db[t].actionCount < MaxActions /\ db[t].modelCalls < MaxModelCalls
    BY <1>1, <1>5, ConstantsAssumption
    DEF StepAsksReasoner, BudgetSpent, ActionBudgetSpent, ModelCallBudgetSpent,
        AgentTaskState
  <2>2. HandlerOK("reason", t, None, db[t]) /\ "reason" \in PC
    BY <2>1 DEF HandlerOK, PC
  <2>3. QED
    BY <1>1, <1>2, <1>5, <2>2, GotoKeepsHandlersOK DEF StepAsksReasoner
<1>6. QED
  BY <1>3, <1>4, <1>5 DEF StepRequest

LEMMA NewIdIsUnused ==
  ASSUME NEW i \in NewIds, NEW h \in Handlers
  PROVE  i \in ActionIds /\ snap[h].actions[i] = NoAction
<1> DEFINE unused == {j \in ActionIds : Fresh(j)}
<1>1. unused # {} /\ i = CHOOSE j \in unused : TRUE
  BY DEF NewIds
<1>2. i \in unused
  BY <1>1
<1>3. QED
  BY <1>2 DEF Fresh

LEMMA EscapesKeepsIInv ==
  ASSUME IInv, NEW h \in Handlers, Escapes(h)
  PROVE  IInv'
  BY SameStoreIsOK, ReleaseKeepsHandlersOK DEF IInv, Escapes

LEMMA ReasonerAnswersKeepsIInv ==
  ASSUME IInv, NEW h \in Handlers, ReasonerAnswers(h)
  PROVE  IInv'
<1> USE DEF IInv
<1> DEFINE s == snap[h]
<1>1. /\ pc[h] = "reason" /\ UNCHANGED <<db, expired, historyVars>>
  BY DEF ReasonerAnswers, ReasoningFails, ReasonerRaises, Escapes,
         DecisionOutOfScope, DecisionDenied, DecisionAwaitsApproval,
         DecisionExecutes
<1>2. StoredOK' /\ approved' = approved
  BY <1>1, SameStoreIsOK DEF historyVars
<1>3. /\ Good(s, approved) /\ s \in AgentTaskState /\ task[h] \in Tasks
      /\ s.actionCount < MaxActions /\ s.modelCalls < MaxModelCalls
  BY <1>1 DEF HandlersOK, HandlerOK
<1>4. CASE ReasoningFails(h)
  <2>1. Good(Blocked(s), approved)
    BY <1>3, PhaseKeepsGood DEF Blocked, AgentPhase
  <2>2. QED
    BY <1>1, <1>2, <1>4, <2>1, FinishKeepsHandlersOK DEF ReasoningFails
<1>5. ASSUME NEW d \in AgentDecision, DecisionOutOfScope(h, d)
      PROVE  IInv'
  <2> DEFINE c == [s EXCEPT !.modelCalls = @ + 1]
  <2>1. s.modelCalls + 1 \in Nat /\ s.modelCalls + 1 <= MaxModelCalls
    BY <1>3, ConstantsAssumption DEF AgentTaskState
  <2>2. Good(c, approved)
    BY <1>3, <2>1
    DEF Good, AgentTaskState, PendingCoherent, WithinBudget, Sanctioned
  <2>3. Good(Blocked(c), approved)
    BY <2>2, PhaseKeepsGood DEF Blocked, AgentPhase
  <2>4. Finish(h, Blocked(c))
    BY <1>5 DEF DecisionOutOfScope
  <2> HIDE DEF c
  <2>5. QED
    BY <1>1, <1>2, <2>3, <2>4, FinishKeepsHandlersOK
<1>6. ASSUME NEW d \in AgentDecision, NEW i \in NewIds
      PROVE  /\ i \in ActionIds /\ s.actions[i] = NoAction
             /\ \A p \in {"EXECUTING", "WAITING_FOR_AUTHORIZATION"} :
                  Good([Recorded(s, d, i) EXCEPT !.phase = p], approved)
  <2>1. i \in ActionIds /\ s.actions[i] = NoAction
    BY NewIdIsUnused
  <2>2. QED
    BY <1>3, <2>1, RecordedIsGood DEF AgentPhase
<1>7. ASSUME NEW d \in AgentDecision, NEW i \in NewIds, DecisionDenied(h, d, i)
      PROVE  IInv'
  BY <1>1, <1>2, <1>6, <1>7, FinishKeepsHandlersOK DEF DecisionDenied
<1>8. ASSUME NEW d \in AgentDecision, NEW i \in NewIds
      PROVE  /\ Recorded(s, d, i).actions[i] = BuildAction(s, d)
             /\ Recorded(s, d, i).authorized = s.authorized
             /\ [Recorded(s, d, i) EXCEPT !.phase = "EXECUTING"].actions
                   = Recorded(s, d, i).actions
             /\ [Recorded(s, d, i) EXCEPT !.phase = "EXECUTING"].authorized
                   = s.authorized
             /\ BuildAction(s, d).type # "NONE"
             /\ BuildAction(s, d).type = d.type
  <2>1. s.actions \in [ActionIds -> AgentAction] /\ i \in ActionIds
    BY <1>3, <1>6 DEF AgentTaskState
  <2>2. BuildAction(s, d).type = d.type /\ d.type # "NONE"
    BY ConstantsAssumption DEF AgentDecision, BuildAction, ActionType
  <2>3. QED
    BY <1>3, <2>1, <2>2 DEF Recorded, AgentTaskState
<1>9. ASSUME NEW d \in AgentDecision, NEW i \in NewIds,
             DecisionAwaitsApproval(h, d, i)
      PROVE  IInv'
  <2> DEFINE e == [Recorded(s, d, i) EXCEPT !.phase = "EXECUTING"]
             w == [Recorded(s, d, i) EXCEPT
                     !.phase = "WAITING_FOR_APPROVAL", !.pending = i]
  <2>1. Good(e, approved) /\ i \in ActionIds
    BY <1>6
  <2>2. d.type \in ExecutionActionTypes => s.authorized
    BY <1>9 DEF DecisionAwaitsApproval, GateDenies
  <2>3. Good([e EXCEPT !.phase = "WAITING_FOR_APPROVAL", !.pending = i], approved)
    <3>1. /\ e.actions[i].type # "NONE"
          /\ e.actions[i].type \in ExecutionActionTypes => e.authorized
      BY <1>8, <2>2
    <3> HIDE DEF e
    <3>2. QED
      BY <2>1, <3>1, WaitingIsGood
  <2>4. w = [e EXCEPT !.phase = "WAITING_FOR_APPROVAL", !.pending = i]
    <3> DEFINE r == Recorded(s, d, i)
    <3>1. DOMAIN r = DOMAIN s
      BY DEF Recorded
    <3>2. QED
      BY <3>1 DEF AgentTaskState
  <2>5. Finish(h, w)
    BY <1>9 DEF DecisionAwaitsApproval
  <2> HIDE DEF e, w
  <2>6. QED
    BY <1>1, <1>2, <2>3, <2>4, <2>5, FinishKeepsHandlersOK
<1>10. ASSUME NEW d \in AgentDecision, NEW i \in NewIds, DecisionExecutes(h, d, i)
       PROVE  IInv'
  <2> DEFINE e == [Recorded(s, d, i) EXCEPT !.phase = "EXECUTING"]
  <2>1. Good(e, approved) /\ i \in ActionIds
    BY <1>6
  <2>2. e.actions[i].type # "NONE" /\ e.actions[i].type \notin ExecutionActionTypes
    BY <1>8, <1>10 DEF DecisionExecutes, RequiresApproval
  <2>3. Goto(h, "begin", task[h], i, e)
    BY <1>10 DEF DecisionExecutes
  <2> HIDE DEF e
  <2>4. HandlerOK("begin", task[h], i, e) /\ "begin" \in PC
    BY <1>3, <2>1, <2>2 DEF HandlerOK, PC
  <2>5. QED
    BY <1>2, <1>3, <2>1, <2>3, <2>4, GotoKeepsHandlersOK
<1>11. CASE ReasonerRaises(h)
  BY <1>11, EscapesKeepsIInv DEF ReasonerRaises
<1>12. QED
  BY <1>4, <1>5, <1>7, <1>9, <1>10, <1>11 DEF ReasonerAnswers

\* What an executing handler has, and what its outcomes are.
LEMMA ExecutingFacts ==
  ASSUME IInv, NEW h \in Handlers, pc[h] = "effect"
  PROVE  /\ Good(snap[h], approved) /\ snap[h] \in AgentTaskState
         /\ act[h] \in ActionIds /\ TypeOf(h) \in ActionType
         /\ Good(Succeeded(snap[h], TypeOf(h)), approved)
         /\ Good(Observed(snap[h], TypeOf(h)), approved)
         /\ \A class \in FailureClass :
              Good(Failed(snap[h], TypeOf(h), class), approved)
<1>1. Good(snap[h], approved) /\ snap[h] \in AgentTaskState /\ act[h] \in ActionIds
  BY DEF IInv, HandlersOK, HandlerOK
<1>2. TypeOf(h) \in ActionType
  <2>1. snap[h].actions[act[h]] \in AgentAction
    BY <1>1 DEF AgentTaskState
  <2>2. TypeOf(h) # "NONE"
    BY DEF IInv, HandlersOK, HandlerOK, TypeOf
  <2>3. QED
    BY <2>1, <2>2 DEF TypeOf, AgentAction
<1>3. QED
  BY <1>1, <1>2, SucceededIsGood, FailedIsGood

\* An action that ends in a good copy keeps the invariant.
LEMMA ConcludesKeepsIInv ==
  ASSUME IInv, NEW h \in Handlers, pc[h] = "effect",
         NEW s, Good(s, approved), Concludes(h, s)
  PROVE  IInv'
<1>1. StoredOK' /\ approved' = approved
  BY SameStoreIsOK DEF IInv, Concludes, historyVars
<1>2. Finish(h, s)
  BY DEF Concludes
<1>3. QED
  BY <1>1, <1>2, FinishKeepsHandlersOK DEF IInv

LEMMA ServiceCallKeepsIInv ==
  ASSUME IInv, NEW h \in Handlers, pc[h] = "effect",
         CallsService(h), UNCHANGED <<db, expired, approved>>,
         NEW s, Good(s, approved), Finish(h, s)
  PROVE  IInv'
<1>1. StoredOK' /\ approved' = approved
  BY ServiceCallKeepsStoredOK
<1>2. QED
  BY <1>1, FinishKeepsHandlersOK DEF IInv

LEMMA ActionRunsKeepsIInv ==
  ASSUME IInv, NEW h \in Handlers, ActionRuns(h)
  PROVE  IInv'
<1> DEFINE s == snap[h]
           ty == TypeOf(h)
<1>1. pc[h] = "effect"
  BY DEF ActionRuns, CheckEnvironment, DiscoverTarget, ResearchTool,
         ResearchRaises, InstallRaisesAfterwards,
         InstallWithoutTool, InstallOverBudget, InstallRefused, InstallRaises,
         InstallRuns, DiagnosticRefused, DiagnosticRaises, DiagnosticRuns,
         AnalyzeOutput, VerifyFinding, AskUser, WaitForApproval, Complete,
         Executing
<1>2. /\ Good(s, approved) /\ s \in AgentTaskState
      /\ act[h] \in ActionIds /\ ty \in ActionType
      /\ Good(Succeeded(s, ty), approved) /\ Good(Observed(s, ty), approved)
      /\ \A class \in FailureClass : Good(Failed(s, ty, class), approved)
  BY <1>1, ExecutingFacts
<1>3. {"invalid_argument", "tool_unavailable", "policy_restriction",
       "unexpected_output"} \cup DiagnosticFailures \subseteq FailureClass
  BY ConstantsAssumption DEF FailureClass
<1>4. CASE CheckEnvironment(h)
  BY <1>1, <1>2, <1>4, ConcludesKeepsIInv DEF CheckEnvironment
<1>5. CASE DiscoverTarget(h)
  <2>1. PICK c \in {Observed(s, ty), Failed(s, ty, "invalid_argument")} : Concludes(h, c)
    BY <1>5 DEF DiscoverTarget
  <2>2. QED
    BY <1>1, <1>2, <1>3, <2>1, ConcludesKeepsIInv
<1>6. CASE ResearchTool(h)
  BY <1>1, <1>2, <1>3, <1>6, ConcludesKeepsIInv DEF ResearchTool
<1>7. CASE InstallWithoutTool(h)
  BY <1>1, <1>2, <1>3, <1>7, ConcludesKeepsIInv DEF InstallWithoutTool
<1>8. CASE InstallRefused(h)
  BY <1>1, <1>2, <1>3, <1>8, ConcludesKeepsIInv DEF InstallRefused
<1>9. CASE InstallRuns(h)
  <2> DEFINE c == [s EXCEPT !.installs = @ + 1]
  <2>1. s.installs < MaxInstalls
    BY <1>2, <1>9, ConstantsAssumption
    DEF InstallRuns, InstallationBudgetSpent, AgentTaskState
  <2>2. Good(c, approved)
    BY <1>2, <2>1, InstalledIsGood
  <2>3. /\ Finish(h, Observed(c, ty)) \/ Finish(h, Failed(c, ty, "tool_unavailable"))
        /\ CallsService(h) /\ UNCHANGED <<db, expired, approved>>
    BY <1>9 DEF InstallRuns
  <2> HIDE DEF c
  <2>4. /\ Good(Observed(c, ty), approved)
        /\ Good(Failed(c, ty, "tool_unavailable"), approved)
    BY <1>2, <1>3, <2>2, SucceededIsGood, FailedIsGood
  <2>5. QED
    BY <1>1, <2>3, <2>4, ServiceCallKeepsIInv
<1>10. CASE DiagnosticRefused(h)
  BY <1>1, <1>2, <1>3, <1>10, ConcludesKeepsIInv DEF DiagnosticRefused
<1>11. CASE DiagnosticRuns(h)
  <2>1. PICK c \in {Observed(s, ty)} \cup {Failed(s, ty, class) : class \in DiagnosticFailures} :
          Finish(h, c)
    BY <1>11 DEF DiagnosticRuns
  <2>2. Good(c, approved)
    BY <1>2, <1>3
  <2>3. CallsService(h) /\ UNCHANGED <<db, expired, approved>>
    BY <1>11 DEF DiagnosticRuns
  <2>4. QED
    BY <1>1, <2>1, <2>2, <2>3, ServiceCallKeepsIInv
<1>12. CASE AnalyzeOutput(h)
  <2> DEFINE n == Succeeded(s, ty)
             c == [n EXCEPT !.openFindings = @ + 1]
  <2>1. Good(c, approved)
    <3>1. Good(n, approved)
      BY <1>2
    <3> HIDE DEF n
    <3>2. n.openFindings + 1 \in Nat
      BY <3>1 DEF Good, AgentTaskState
    <3>3. QED
      BY <3>1, <3>2, EvidenceKeepsGood
  <2>2. Concludes(h, c) \/ Concludes(h, Failed(s, ty, "unexpected_output"))
    BY <1>12 DEF AnalyzeOutput
  <2> HIDE DEF c
  <2>3. QED
    BY <1>1, <1>2, <1>3, <2>1, <2>2, ConcludesKeepsIInv
<1>13. CASE VerifyFinding(h)
  <2> DEFINE n == Succeeded(s, ty)
             c == [n EXCEPT !.openFindings = @ - 1]
  <2>1. s.openFindings > 0 => Good(c, approved)
    <3>1. n.openFindings = s.openFindings /\ s.openFindings \in Nat
      BY <1>2 DEF Succeeded, AgentTaskState
    <3>2. Good(n, approved)
      BY <1>2
    <3> HIDE DEF n
    <3>3. s.openFindings > 0 => n.openFindings - 1 \in Nat
      BY <3>1
    <3>4. QED
      BY <3>2, <3>3, EvidenceKeepsGood
  <2>2. \/ s.openFindings > 0 /\ Concludes(h, c)
        \/ Concludes(h, n)
        \/ Concludes(h, Failed(s, ty, "unexpected_output"))
    BY <1>2, <1>13 DEF VerifyFinding, AgentTaskState
  <2> HIDE DEF c
  <2>3. QED
    BY <1>1, <1>2, <1>3, <2>1, <2>2, ConcludesKeepsIInv
<1>14. CASE AskUser(h)
  <2>1. Good([s EXCEPT !.phase = "WAITING_FOR_AUTHORIZATION"], approved)
    BY <1>2, PhaseKeepsGood DEF AgentPhase
  <2>2. QED
    BY <1>1, <1>14, <2>1, ConcludesKeepsIInv DEF AskUser
<1>15. CASE WaitForApproval(h)
  <2>1. ty = "WAIT_FOR_APPROVAL" /\ ty \notin ExecutionActionTypes
    BY <1>15 DEF WaitForApproval, Executing, TypeOf, ExecutionActionTypes
  <2>2. Good([s EXCEPT !.phase = "WAITING_FOR_APPROVAL", !.pending = act[h]], approved)
    BY <1>2, <2>1, WaitingIsGood DEF TypeOf
  <2>3. QED
    BY <1>1, <1>15, <2>2, ConcludesKeepsIInv DEF WaitForApproval
<1>16. CASE Complete(h)
  <2>1. Good([s EXCEPT !.phase = "COMPLETED"], approved)
    BY <1>2, PhaseKeepsGood DEF AgentPhase
  <2>2. QED
    BY <1>1, <1>16, <2>1, ConcludesKeepsIInv DEF Complete
<1>17. CASE \/ InstallOverBudget(h) \/ InstallRaises(h) \/ DiagnosticRaises(h)
            \/ ResearchRaises(h)
  BY <1>17, EscapesKeepsIInv
  DEF InstallOverBudget, InstallRaises, DiagnosticRaises, ResearchRaises
<1>18. CASE InstallRaisesAfterwards(h)
  <2>1. StoredOK' /\ approved' = approved
    BY <1>1, <1>18, ServiceCallKeepsStoredOK DEF InstallRaisesAfterwards
  <2>2. QED
    BY <1>18, <2>1, ReleaseKeepsHandlersOK DEF IInv, InstallRaisesAfterwards
<1>19. QED
  BY <1>4, <1>5, <1>6, <1>7, <1>8, <1>9, <1>10, <1>11, <1>12, <1>13, <1>14,
     <1>15, <1>16, <1>17, <1>18
  DEF ActionRuns

LEMMA ProgressKeepsIInv ==
  ASSUME IInv, NEW h \in Handlers, Progress(h)
  PROVE  IInv'
<1>1. CASE InsertTask(h)
  <2>1. pc[h] = "create" /\ Write(h) /\ UNCHANGED <<expired, historyVars>>
    BY <1>1 DEF InsertTask
  <2>2. StoredOK' /\ approved' = approved
    BY <2>1, WriteKeepsStoredOK DEF historyVars
  <2>3. Good(Authorize(snap[h]), approved)
    BY AuthorizeIsGood DEF IInv, HandlersOK
  <2>4. QED
    BY <1>1, <2>1, <2>2, <2>3, FinishKeepsHandlersOK DEF IInv, InsertTask
<1>2. CASE ReasonerAnswers(h)
  BY <1>2, ReasonerAnswersKeepsIInv
<1>3. CASE BeginExecution(h)
  <2>1. pc[h] = "begin" /\ Write(h) /\ UNCHANGED <<expired, historyVars>>
    BY <1>3 DEF BeginExecution
  <2>2. StoredOK' /\ approved' = approved
    BY <2>1, WriteKeepsStoredOK DEF historyVars
  <2>3. /\ task[h] \in Tasks /\ act[h] \in ActionIds /\ Good(snap[h], approved)
        /\ HandlerOK("effect", task[h], act[h], snap[h]) /\ "effect" \in PC
    BY <2>1 DEF IInv, HandlersOK, HandlerOK, PC
  <2>4. QED
    BY <1>3, <2>2, <2>3, GotoKeepsHandlersOK DEF IInv, BeginExecution
<1>4. CASE ActionRuns(h)
  BY <1>4, ActionRunsKeepsIInv
<1>5. CASE Save(h)
  <2>1. StoredOK' /\ approved \subseteq approved'
    BY <1>5, WriteKeepsStoredOK DEF Save
  <2>2. QED
    BY <1>5, <2>1, ReleaseKeepsHandlersOK DEF IInv, Save
<1>6. QED
  BY <1>1, <1>2, <1>3, <1>4, <1>5 DEF Progress

LEMMA DurationPassesKeepsIInv ==
  ASSUME IInv, NEW t \in Tasks, DurationPasses(t)
  PROVE  IInv'
  BY DEF IInv, StoredOK, HandlersOK, DurationPasses, handlerVars, historyVars

LEMMA RestartKeepsIInv ==
  ASSUME IInv, Restart
  PROVE  IInv'
<1>1. StoredOK' /\ approved' = approved
  BY SameStoreIsOK DEF IInv, Restart, historyVars
<1>2. Good(BlankTask, approved) /\ BlankTask \in AgentTaskState
  BY BlankIsGood DEF Good
<1>3. HandlersOK'
  BY <1>1, <1>2 DEF Restart, HandlersOK, HandlerOK, PC
<1>4. QED
  BY <1>1, <1>3 DEF IInv

LEMMA NextKeepsIInv == IInv /\ [Next]_vars => IInv'
<1> SUFFICES ASSUME IInv, [Next]_vars PROVE IInv'
  OBVIOUS
<1>1. ASSUME NEW h \in Handlers, NEW t \in Tasks, UserRequest(h, t) PROVE IInv'
  BY <1>1, UserRequestKeepsIInv
<1>2. ASSUME NEW h \in Handlers, NEW t \in Tasks, StepRequest(h, t) PROVE IInv'
  BY <1>2, StepRequestKeepsIInv
<1>3. ASSUME NEW h \in Handlers, Progress(h) PROVE IInv'
  BY <1>3, ProgressKeepsIInv
<1>4. ASSUME NEW t \in Tasks, DurationPasses(t) PROVE IInv'
  BY <1>4, DurationPassesKeepsIInv
<1>5. CASE Restart
  BY <1>5, RestartKeepsIInv
<1>6. CASE UNCHANGED vars
  BY <1>6 DEF IInv, StoredOK, HandlersOK, vars, handlerVars, historyVars
<1>7. QED
  BY <1>1, <1>2, <1>3, <1>4, <1>5, <1>6 DEF Next, Serve

\* Every record and copy is good in every reachable state.
THEOREM InvariantHolds == Spec => []IInv
<1>1. IInv /\ [Next]_vars => IInv'
  BY NextKeepsIInv
<1>2. Init => IInv
  BY InitIsOK
<1>3. QED
  BY <1>1, <1>2, PTL DEF Spec

-----------------------------------------------------------------------------
(* The theorems.                                                           *)

\* Every variable keeps its type, for all constants.
THEOREM TypeCorrect == Spec => []TypeOK
<1>1. IInv => TypeOK
  BY DEF IInv, StoredOK, HandlersOK, HandlerOK, TypeOK
<1>2. QED
  BY <1>1, InvariantHolds, PTL

\* No diagnostic and no installation is executed without authorization and
\* without the user's approval of that very action, however many requests
\* overlap and whenever the process restarts.
THEOREM ExecutionIsSanctioned == Spec => []ExecutionSanctioned
<1>1. IInv => ExecutionSanctioned
  <2> SUFFICES ASSUME IInv, NEW h \in Handlers, Executing(h, ExecutionActionTypes)
               PROVE  snap[h].authorized /\ act[h] \in approved
    BY DEF ExecutionSanctioned
  <2>1. /\ Good(snap[h], approved) /\ act[h] \in ActionIds /\ snap[h].authorized
        /\ snap[h].actions[act[h]].approval = "APPROVED"
    BY DEF IInv, HandlersOK, HandlerOK, Executing
  <2>2. QED
    BY <2>1 DEF Good, Sanctioned
<1>2. QED
  BY <1>1, InvariantHolds, PTL

\* What approve_action, reject_action and step look up is there.
THEOREM PendingActionsStayCoherent == Spec => []PendingActionsCoherent
<1>1. IInv => PendingActionsCoherent
  BY DEF IInv, StoredOK, HandlersOK, Good, PendingActionsCoherent
<1>2. QED
  BY <1>1, InvariantHolds, PTL

\* No record and no copy exceeds a budget, for all budgets.
THEOREM BudgetsAreRespected == Spec => []BudgetsRespected
<1>1. IInv => BudgetsRespected
  BY DEF IInv, StoredOK, HandlersOK, Good, BudgetsRespected
<1>2. QED
  BY <1>1, InvariantHolds, PTL

-----------------------------------------------------------------------------
(* While the requests for one task do not overlap.                         *)

\* Two requests that are served at one time work on different tasks.
OneRequestPerTask ==
  \A g, h \in Handlers :
    g # h /\ pc[g] # "idle" /\ pc[h] # "idle" => task[g] # task[h]

\* No two requests create tasks at one time.
OneCreation ==
  \A g, h \in Handlers : pc[g] = "create" /\ pc[h] = "create" => g = h

Taken(s) == {i \in ActionIds : s.actions[i] # NoAction}
Rejections(s) == {i \in ActionIds : s.actions[i].approval = "REJECTED"}
IsOpen(s) == s.phase # "CREATED" /\ ~IsTerminal(s)

\* The action a record keeps for later has not run and was not refused.
PendingIsOpen(s, R) ==
  s.pending # None =>
    R[s.pending] = 0 /\ s.actions[s.pending].approval # "REJECTED"

\* The stored records D and the service calls R: no action is of two tasks,
\* none ran twice or off the record, and none still to be decided ran at all.
RecordsSerial(D, R) ==
  /\ \A t \in Tasks : D[t].phase = "CREATED" => Taken(D[t]) = {}
  /\ \A t \in Tasks : PendingIsOpen(D[t], R)
  /\ \A t, u \in Tasks : t # u => Taken(D[t]) \cap Taken(D[u]) = {}
  /\ \A i \in ActionIds : R[i] <= 1
  /\ \A i \in ActionIds : R[i] > 0 => \E t \in Tasks : i \in Taken(D[t])

\* The copy s will not refuse more than the record r, unless it closes the
\* task for an action that never ran.
RefusesAtMostOne(p, r, s, R) ==
  \/ Rejections(s) = Rejections(r)
  \/ /\ p = "save" /\ IsTerminal(s)
     /\ \E i \in ActionIds : R[i] = 0 /\ Rejections(s) = Rejections(r) \cup {i}

\* How the copy s relates to D and R while the only request for task t, at p,
\* executes action a.
CopySerial(D, R, p, t, a, s) ==
  /\ s.phase # "CREATED"
  /\ PendingIsOpen(s, R)
  /\ Taken(D[t]) \subseteq Taken(s)
  /\ \A u \in Tasks \ {t} : Taken(s) \cap Taken(D[u]) = {}
  /\ p = "create" => D[t].phase = "CREATED" /\ ~IsTerminal(s) /\ Taken(s) = {}
  /\ p # "create" => IsOpen(D[t])
  /\ p \in {"begin", "effect"} =>
       /\ R[a] = 0 /\ s.pending # a
       /\ s.phase = "EXECUTING" /\ s.actions[a].approval # "REJECTED"
  /\ p = "effect" => D[t] = s
  /\ RefusesAtMostOne(p, D[t], s, R)

\* No action is in the copies of two requests.
CopiesApart ==
  \A g, h \in Handlers :
    g # h /\ pc[g] # "idle" /\ pc[h] # "idle" => Taken(snap[g]) \cap Taken(snap[h]) = {}

SerialInv ==
  /\ RecordsSerial(db, ran)
  /\ \A h \in Handlers :
       pc[h] # "idle" => CopySerial(db, ran, pc[h], task[h], act[h], snap[h])
  /\ CopiesApart

\* A request that creates a task has counted the open ones.
LimitInv ==
  /\ IsFiniteSet(ActiveTasks) /\ Cardinality(ActiveTasks) <= MaxConcurrentTasks
  /\ \A h \in Handlers :
       pc[h] = "create" => Cardinality(ActiveTasks) < MaxConcurrentTasks

\* The copies of all requests but h's fit the records D and the calls R.
OthersSerial(h, D, R) ==
  \A g \in Handlers \ {h} :
    pc[g] # "idle" => CopySerial(D, R, pc[g], task[g], act[g], snap[g])

\* A request goes on with a copy that fits what is stored then and has no
\* action of another one.
LEMMA GotoIsSerial ==
  ASSUME IInv, SerialInv, NEW h \in Handlers, NEW p, NEW t, NEW a, NEW s,
         Goto(h, p, t, a, s), RecordsSerial(db', ran'), OthersSerial(h, db', ran'),
         p # "idle" =>
           /\ CopySerial(db', ran', p, t, a, s)
           /\ \A g \in Handlers \ {h} :
                pc[g] # "idle" => Taken(s) \cap Taken(snap[g]) = {}
  PROVE  SerialInv'
<1>1. pc'[h] = p /\ task'[h] = t /\ act'[h] = a /\ snap'[h] = s
  BY DEF IInv, HandlersOK, Goto
<1>2. \A g \in Handlers \ {h} :
        /\ pc'[g] = pc[g] /\ task'[g] = task[g]
        /\ act'[g] = act[g] /\ snap'[g] = snap[g]
  BY DEF IInv, HandlersOK, Goto
<1>3. \A g \in Handlers :
        pc'[g] # "idle" => CopySerial(db', ran', pc'[g], task'[g], act'[g], snap'[g])
  BY <1>1, <1>2 DEF OthersSerial
<1>4. CopiesApart'
  <2> SUFFICES ASSUME NEW f \in Handlers, NEW g \in Handlers, f # g,
                      pc'[f] # "idle", pc'[g] # "idle"
               PROVE  Taken(snap'[f]) \cap Taken(snap'[g]) = {}
    BY DEF CopiesApart, Taken
  <2>1. CASE f # h /\ g # h
    BY <1>2, <2>1 DEF SerialInv, CopiesApart
  <2>2. CASE f = h \/ g = h
    BY <1>1, <1>2, <2>2
  <2>3. QED
    BY <2>1, <2>2
<1>5. QED
  BY <1>3, <1>4 DEF SerialInv

\* What is stored and run stays the same for the others.
LEMMA OthersStaySerial ==
  ASSUME SerialInv, NEW h \in Handlers, db' = db, ran' = ran
  PROVE  OthersSerial(h, db', ran') /\ RecordsSerial(db', ran')
  BY DEF SerialInv, OthersSerial

\* A request begins with a copy that has no action but those of its record.
LEMMA RequestIsSerial ==
  ASSUME OneRequestPerTask', IInv, SerialInv, NEW h \in Handlers,
         NEW p \in PC \ {"idle"}, NEW t \in Tasks, NEW a, NEW s,
         Goto(h, p, t, a, s), db' = db, ran' = ran,
         CopySerial(db, ran, p, t, a, s), Taken(s) \subseteq Taken(db[t])
  PROVE  SerialInv'
<1>1. ASSUME NEW g \in Handlers \ {h}, pc[g] # "idle"
      PROVE  Taken(s) \cap Taken(snap[g]) = {}
  <2>1. /\ pc'[h] = p /\ task'[h] = t
        /\ pc'[g] = pc[g] /\ task'[g] = task[g]
    BY DEF IInv, HandlersOK, Goto
  <2>2. task[g] # t
    BY <1>1, <2>1 DEF OneRequestPerTask
  <2>3. QED
    BY <1>1, <2>2 DEF SerialInv, CopySerial
<1>2. QED
  BY <1>1, OthersStaySerial, GotoIsSerial

\* A request goes on with a copy that has no action but those it had.
LEMMA ProgressingIsSerial ==
  ASSUME IInv, SerialInv, NEW h \in Handlers, pc[h] # "idle",
         NEW p, NEW t, NEW a, NEW s, Goto(h, p, t, a, s),
         RecordsSerial(db', ran'), OthersSerial(h, db', ran'),
         CopySerial(db', ran', p, t, a, s), Taken(s) \subseteq Taken(snap[h])
  PROVE  SerialInv'
<1>1. \A g \in Handlers \ {h} :
        pc[g] # "idle" => Taken(s) \cap Taken(snap[g]) = {}
  BY DEF SerialInv, CopiesApart
<1>2. QED
  BY <1>1, GotoIsSerial

\* What a copy that keeps the actions of another one inherits from it.
Follows(c, s) ==
  c.actions = s.actions /\ c.pending = s.pending /\ c.phase # "CREATED"

LEMMA OutcomesFollow ==
  ASSUME NEW s \in AgentTaskState, NEW type, NEW class
  PROVE  /\ Follows(Succeeded(s, type), s) /\ Follows(Observed(s, type), s)
         /\ Follows(Failed(s, type, class), s)
         /\ \A p \in AgentPhase \ {"CREATED"} : Follows([s EXCEPT !.phase = p], s)
<1>1. PostActionPhase(type) # "CREATED"
  BY DEF PostActionPhase
<1>2. Follows(Succeeded(s, type), s)
  BY <1>1 DEF Follows, Succeeded, AgentTaskState
<1>3. Follows(Observed(s, type), s)
  BY <1>1 DEF Follows, Observed, Succeeded, AgentTaskState
<1>4. Follows(Failed(s, type, class), s)
  BY DEF Follows, Failed, AgentTaskState
<1>5. \A p \in AgentPhase \ {"CREATED"} : Follows([s EXCEPT !.phase = p], s)
  BY DEF Follows, AgentTaskState
<1>6. QED
  BY <1>2, <1>3, <1>4, <1>5

\* A request that has read the record of an open task, changed no action of it
\* and only has to save its copy.
LEMMA ReadCopyIsSerial ==
  ASSUME SerialInv, NEW t \in Tasks, IsOpen(db[t]), NEW c,
         c.actions = db[t].actions, c.phase # "CREATED",
         c.pending \in {db[t].pending, None}
  PROVE  /\ CopySerial(db, ran, "save", t, None, c)
         /\ CopySerial(db, ran, "reason", t, None, c)
         /\ Taken(c) = Taken(db[t])
<1>1. Taken(c) = Taken(db[t]) /\ Rejections(c) = Rejections(db[t])
  BY DEF Taken, Rejections
<1>2. PendingIsOpen(c, ran)
  BY DEF SerialInv, RecordsSerial, PendingIsOpen
<1>3. QED
  BY <1>1, <1>2 DEF SerialInv, RecordsSerial, CopySerial, RefusesAtMostOne

LEMMA UserRequestIsSerial ==
  ASSUME OneRequestPerTask', IInv, SerialInv, NEW h \in Handlers, NEW t \in Tasks,
         UserRequest(h, t)
  PROVE  SerialInv'
<1>1. db' = db /\ ran' = ran
  BY DEF UserRequest, CreateTask, Pause, Resume, Cancel, ProvideClarification,
         ApproveAction, RejectAction, historyVars
<1>2. /\ Good(db[t], approved) /\ db[t] \in AgentTaskState
      /\ db[t].actions \in [ActionIds -> AgentAction]
      /\ db[t].pending # None => db[t].pending \in ActionIds
  BY DEF IInv, StoredOK, AgentTaskState
<1>3. ASSUME NEW authorized \in BOOLEAN, NEW target \in BOOLEAN,
             CreateTask(h, t, authorized, target)
      PROVE  SerialInv'
  <2> DEFINE s == NewTask(authorized, target)
  <2>1. /\ s.phase = "UNDERSTANDING" /\ s.pending = None
        /\ \A i \in ActionIds : s.actions[i] = NoAction
    BY DEF NewTask, BlankTask
  <2>2. Goto(h, "create", t, None, s) /\ db[t].phase = "CREATED"
    BY <1>3 DEF CreateTask, Exists
  <2>3. Taken(db[t]) = {}
    BY <2>2 DEF SerialInv, RecordsSerial
  <2> HIDE DEF s
  <2>4. Taken(s) = {} /\ Rejections(s) = {} /\ Rejections(db[t]) = {}
    BY <2>1, <2>3 DEF Taken, Rejections, NoAction
  <2>5. CopySerial(db, ran, "create", t, None, s)
    BY <2>1, <2>2, <2>3, <2>4
    DEF CopySerial, PendingIsOpen, RefusesAtMostOne, IsTerminal, TerminalPhases
  <2>6. QED
    BY <1>1, <2>2, <2>3, <2>4, <2>5, RequestIsSerial DEF PC
<1>4. ASSUME IsOpen(db[t]), NEW c, c.actions = db[t].actions,
             c.pending = db[t].pending, c.phase # "CREATED",
             Goto(h, "save", t, None, c)
      PROVE  SerialInv'
  BY <1>1, <1>4, ReadCopyIsSerial, RequestIsSerial DEF PC
<1>5. \A p \in AgentPhase \ {"CREATED"} : Follows([db[t] EXCEPT !.phase = p], db[t])
  BY <1>2, OutcomesFollow
<1>6. CASE Pause(h, t)
  BY <1>4, <1>5, <1>6 DEF Pause, Read, Exists, IsOpen, Follows, AgentPhase
<1>7. CASE Resume(h, t)
  BY <1>4, <1>5, <1>7
  DEF Resume, Read, Exists, IsOpen, Follows, AgentPhase, IsTerminal, TerminalPhases
<1>8. CASE Cancel(h, t)
  BY <1>4, <1>5, <1>8 DEF Cancel, Read, Exists, IsOpen, Follows, AgentPhase
<1>9. CASE ProvideClarification(h, t)
  <2> DEFINE c == [db[t] EXCEPT !.phase = "PLANNING", !.observed = TRUE]
  <2>1. c.actions = db[t].actions /\ c.pending = db[t].pending /\ c.phase # "CREATED"
    BY <1>2 DEF AgentTaskState
  <2>2. Goto(h, "save", t, None, c) /\ IsOpen(db[t])
    BY <1>9 DEF ProvideClarification, Read, Exists, IsOpen, IsTerminal, TerminalPhases
  <2> HIDE DEF c
  <2>3. QED
    BY <1>4, <2>1, <2>2
<1>10. CASE ApproveAction(h, t)
  <2> DEFINE i == db[t].pending
             m == [db[t].actions EXCEPT ![i].approval = "APPROVED"]
             c == [db[t] EXCEPT !.phase = "PREPARING",
                                !.actions[db[t].pending].approval = "APPROVED"]
  <2>1. Goto(h, "save", t, None, c) /\ IsOpen(db[t]) /\ i \in ActionIds
    BY <1>2, <1>10
    DEF ApproveAction, AwaitsApproval, IsOpen, IsTerminal, TerminalPhases
  <2>2. c.actions = m /\ c.pending = i /\ c.phase = "PREPARING"
    BY <1>2 DEF AgentTaskState
  <2>3. /\ m[i].type = db[t].actions[i].type /\ m[i].approval = "APPROVED"
        /\ \A j \in ActionIds \ {i} : m[j] = db[t].actions[j]
    BY <1>2, <2>1 DEF AgentAction
  <2>4. db[t].actions[i].type # "NONE"
    BY <1>2, <2>1, ConstantsAssumption DEF Good, Sanctioned
  <2> HIDE DEF c, m
  <2>5. Taken(c) = Taken(db[t])
    BY <2>1, <2>2, <2>3, <2>4 DEF Taken, NoAction
  <2>6. Rejections(c) = Rejections(db[t])
    BY <2>1, <2>2, <2>3, ConstantsAssumption
    DEF Rejections, SerialInv, RecordsSerial, PendingIsOpen
  <2>7. PendingIsOpen(c, ran)
    BY <2>2, <2>3 DEF PendingIsOpen, SerialInv, RecordsSerial
  <2>8. CopySerial(db, ran, "save", t, None, c)
    BY <2>1, <2>2, <2>5, <2>6, <2>7
    DEF SerialInv, RecordsSerial, CopySerial, RefusesAtMostOne
  <2>9. QED
    BY <1>1, <2>1, <2>5, <2>8, RequestIsSerial DEF PC
<1>11. CASE RejectAction(h, t)
  <2> DEFINE i == db[t].pending
             m == [db[t].actions EXCEPT ![i].approval = "REJECTED"]
             c == [db[t] EXCEPT !.phase = "BLOCKED", !.pending = None,
                                !.actions[db[t].pending].approval = "REJECTED"]
  <2>1. Goto(h, "save", t, None, c) /\ IsOpen(db[t]) /\ i \in ActionIds /\ i # None
    BY <1>2, <1>11
    DEF RejectAction, AwaitsApproval, IsOpen, IsTerminal, TerminalPhases
  <2>2. c.actions = m /\ c.pending = None /\ c.phase = "BLOCKED"
    BY <1>2 DEF AgentTaskState
  <2>3. /\ m[i].type = db[t].actions[i].type /\ m[i].approval = "REJECTED"
        /\ \A j \in ActionIds \ {i} : m[j] = db[t].actions[j]
    BY <1>2, <2>1 DEF AgentAction
  <2>4. db[t].actions[i].type # "NONE"
    BY <1>2, <2>1 DEF Good, Sanctioned
  <2> HIDE DEF c, m
  <2>5. Taken(c) = Taken(db[t])
    BY <2>1, <2>2, <2>3, <2>4 DEF Taken, NoAction
  <2>6. Rejections(c) = Rejections(db[t]) \cup {i} /\ ran[i] = 0
    BY <2>1, <2>2, <2>3 DEF Rejections, SerialInv, RecordsSerial, PendingIsOpen
  <2>7. CopySerial(db, ran, "save", t, None, c)
    BY <2>1, <2>2, <2>5, <2>6
    DEF SerialInv, RecordsSerial, CopySerial, RefusesAtMostOne, PendingIsOpen,
        IsTerminal, TerminalPhases
  <2>8. QED
    BY <1>1, <2>1, <2>5, <2>7, RequestIsSerial DEF PC
<1>12. QED
  BY <1>3, <1>6, <1>7, <1>8, <1>9, <1>10, <1>11 DEF UserRequest

LEMMA StepRequestIsSerial ==
  ASSUME OneRequestPerTask', IInv, SerialInv, NEW h \in Handlers, NEW t \in Tasks,
         StepRequest(h, t)
  PROVE  SerialInv'
<1>1. db' = db /\ ran' = ran
  BY DEF StepRequest, StepExecutesApproved, StepBlocksOnBudget, StepAsksReasoner,
         historyVars
<1>2. Good(db[t], approved) /\ db[t] \in AgentTaskState
  BY DEF IInv, StoredOK
<1>3. IsOpen(db[t])
  BY DEF StepRequest, StepExecutesApproved, StepBlocksOnBudget, StepAsksReasoner,
         Read, Steppable, Exists, IsOpen
<1>4. CASE StepExecutesApproved(h, t)
  <2> DEFINE i == db[t].pending
             c == [db[t] EXCEPT !.phase = "EXECUTING", !.pending = None]
  <2>1. /\ Goto(h, "begin", t, i, c) /\ i \in ActionIds /\ i # None
        /\ db[t].phase = "PREPARING"
    BY <1>2, <1>4 DEF StepExecutesApproved, HoldsApproved, AgentTaskState
  <2>2. c.actions = db[t].actions /\ c.pending = None /\ c.phase = "EXECUTING"
    BY <1>2 DEF AgentTaskState
  <2> HIDE DEF c
  <2>3. Taken(c) = Taken(db[t]) /\ Rejections(c) = Rejections(db[t])
    BY <2>2 DEF Taken, Rejections
  <2>4. ran[i] = 0 /\ c.actions[i].approval # "REJECTED"
    BY <2>1, <2>2 DEF SerialInv, RecordsSerial, PendingIsOpen
  <2>5. CopySerial(db, ran, "begin", t, i, c)
    BY <1>3, <2>1, <2>2, <2>3, <2>4
    DEF SerialInv, RecordsSerial, CopySerial, RefusesAtMostOne, PendingIsOpen
  <2>6. QED
    BY <1>1, <2>1, <2>3, <2>5, RequestIsSerial DEF PC
<1>5. CASE StepBlocksOnBudget(h, t)
  <2>1. Follows(Blocked(db[t]), db[t])
    BY <1>2, OutcomesFollow DEF Blocked, AgentPhase
  <2>2. /\ CopySerial(db, ran, "save", t, None, Blocked(db[t]))
        /\ Taken(Blocked(db[t])) = Taken(db[t])
    BY <1>3, <2>1, ReadCopyIsSerial DEF Follows
  <2>3. QED
    BY <1>1, <1>5, <2>2, RequestIsSerial DEF StepBlocksOnBudget, PC
<1>6. CASE StepAsksReasoner(h, t)
  <2>1. CopySerial(db, ran, "reason", t, None, db[t])
    BY <1>3, ReadCopyIsSerial DEF IsOpen
  <2>2. QED
    BY <1>1, <1>6, <2>1, RequestIsSerial DEF StepAsksReasoner, PC
<1>7. QED
  BY <1>4, <1>5, <1>6 DEF StepRequest

\* An unused identity is in no record and has not run.
LEMMA NewIdIsFresh ==
  ASSUME NEW i \in NewIds
  PROVE  i \in ActionIds /\ Fresh(i)
<1> DEFINE unused == {j \in ActionIds : Fresh(j)}
<1>1. unused # {} /\ i = CHOOSE j \in unused : TRUE
  BY DEF NewIds
<1>2. i \in unused
  BY <1>1
<1>3. QED
  BY <1>2

\* A copy that goes on from a copy of the same task and keeps its actions.
LEMMA FollowingCopyIsSerial ==
  ASSUME IInv, NEW h \in Handlers, pc[h] \in {"reason", "effect"},
         CopySerial(db, ran, pc[h], task[h], act[h], snap[h]),
         NEW c, Follows(c, snap[h])
  PROVE  /\ CopySerial(db, ran, "save", task[h], None, c)
         /\ Taken(c) = Taken(snap[h])
<1>1. Taken(c) = Taken(snap[h]) /\ Rejections(c) = Rejections(snap[h])
  BY DEF Follows, Taken, Rejections
<1>2. QED
  BY <1>1 DEF CopySerial, RefusesAtMostOne, PendingIsOpen, Follows

\* A request that an exception ends leaves the others as they are.
LEMMA EscapesIsSerial ==
  ASSUME IInv, SerialInv, NEW h \in Handlers, Escapes(h)
  PROVE  SerialInv'
<1>1. RecordsSerial(db', ran') /\ OthersSerial(h, db', ran')
  BY OthersStaySerial DEF Escapes, historyVars
<1>2. QED
  BY <1>1, GotoIsSerial DEF Escapes, Release

LEMMA ReasonerAnswersIsSerial ==
  ASSUME IInv, SerialInv, NEW h \in Handlers, ReasonerAnswers(h)
  PROVE  SerialInv'
<1> DEFINE s == snap[h]
           t == task[h]
<1>1. pc[h] = "reason" /\ db' = db /\ ran' = ran
  BY DEF ReasonerAnswers, ReasoningFails, ReasonerRaises, Escapes,
         DecisionOutOfScope, DecisionDenied, DecisionAwaitsApproval,
         DecisionExecutes, historyVars
<1>2. RecordsSerial(db', ran') /\ OthersSerial(h, db', ran')
  BY <1>1, OthersStaySerial
<1>3. Good(s, approved) /\ s \in AgentTaskState /\ t \in Tasks
  BY <1>1 DEF IInv, HandlersOK, HandlerOK
<1>4. CopySerial(db, ran, pc[h], t, act[h], s)
  BY <1>1 DEF SerialInv
<1>5. ASSUME NEW c, Follows(c, s), Finish(h, c)
      PROVE  SerialInv'
  BY <1>1, <1>2, <1>4, <1>5, FollowingCopyIsSerial, ProgressingIsSerial DEF Finish
<1>6. CASE ReasoningFails(h)
  BY <1>3, <1>5, <1>6, OutcomesFollow DEF ReasoningFails, Blocked, AgentPhase
<1>7. ASSUME NEW d \in AgentDecision, DecisionOutOfScope(h, d)
      PROVE  SerialInv'
  <2> DEFINE c == Blocked([s EXCEPT !.modelCalls = @ + 1])
  <2>1. Follows(c, s)
    BY <1>3 DEF Follows, Blocked, AgentTaskState
  <2>2. Finish(h, c)
    BY <1>7 DEF DecisionOutOfScope
  <2> HIDE DEF c
  <2>3. QED
    BY <1>5, <2>1, <2>2
\* A copy in which the decision d has been recorded as the unused action i.
<1> DEFINE Records(c, d, i) ==
             /\ c.actions = [s.actions EXCEPT ![i] = BuildAction(s, d)]
             /\ c.phase # "CREATED"
<1>8. ASSUME NEW d \in AgentDecision, NEW i \in NewIds, NEW c, Records(c, d, i),
             c.pending \in {s.pending, i}
      PROVE  /\ \A g \in Handlers \ {h} :
                  pc[g] # "idle" => Taken(c) \cap Taken(snap[g]) = {}
             /\ \A a : CopySerial(db, ran, "save", t, a, c)
             /\ c.phase = "EXECUTING" /\ c.pending = s.pending =>
                  CopySerial(db, ran, "begin", t, i, c)
  <2>1. /\ i \in ActionIds /\ ran[i] = 0 /\ s.actions[i] = NoAction
        /\ \A u \in Tasks : db[u].actions[i] = NoAction
        /\ \A g \in Handlers : snap[g].actions[i] = NoAction
    BY NewIdIsFresh DEF Fresh
  <2>2. i # None /\ s.pending # i
    BY <1>3, <2>1, ConstantsAssumption DEF Good, Sanctioned, NoAction
  <2>3. /\ BuildAction(s, d).type # "NONE"
        /\ BuildAction(s, d).approval # "REJECTED"
    BY ConstantsAssumption DEF BuildAction, AgentDecision, ActionType
  <2>4. \A j \in ActionIds :
          c.actions[j] = IF j = i THEN BuildAction(s, d) ELSE s.actions[j]
    BY <1>3, <1>8 DEF AgentTaskState
  <2>5. Taken(c) = Taken(s) \cup {i}
    BY <2>1, <2>3, <2>4 DEF Taken, NoAction
  <2>6. Rejections(c) = Rejections(s)
    BY <2>1, <2>3, <2>4 DEF Rejections, NoAction
  <2>7. \A u \in Tasks : i \notin Taken(db[u])
    BY <2>1 DEF Taken
  <2>8. PendingIsOpen(c, ran) /\ c.actions[i].approval # "REJECTED"
    <3>1. PendingIsOpen(s, ran) /\ (s.pending # None => s.pending \in ActionIds)
      BY <1>3, <1>4 DEF CopySerial, AgentTaskState
    <3>2. QED
      BY <1>8, <2>1, <2>2, <2>3, <2>4, <3>1 DEF PendingIsOpen
  <2>9. Rejections(s) = Rejections(db[t]) /\ IsOpen(db[t])
    BY <1>1, <1>4 DEF CopySerial, RefusesAtMostOne
  <2>10. \A g \in Handlers \ {h} :
           pc[g] # "idle" => Taken(c) \cap Taken(snap[g]) = {}
    <3>1. \A g \in Handlers : i \notin Taken(snap[g])
      BY <2>1 DEF Taken
    <3>2. QED
      BY <1>1, <2>5, <3>1 DEF SerialInv, CopiesApart
  <2>11. QED
    BY <1>4, <1>8, <2>1, <2>2, <2>5, <2>6, <2>7, <2>8, <2>9, <2>10
    DEF CopySerial, RefusesAtMostOne
<1>9. ASSUME NEW d \in AgentDecision, NEW i \in NewIds,
             NEW p \in {"WAITING_FOR_AUTHORIZATION", "EXECUTING"}
      PROVE  LET c == [Recorded(s, d, i) EXCEPT !.phase = p]
             IN  Records(c, d, i) /\ c.pending = s.pending /\ c.phase = p
  BY <1>3 DEF Recorded, AgentTaskState
<1>10. ASSUME NEW d \in AgentDecision, NEW i \in NewIds, DecisionDenied(h, d, i)
       PROVE  SerialInv'
  <2> DEFINE c == [Recorded(s, d, i) EXCEPT !.phase = "WAITING_FOR_AUTHORIZATION"]
  <2>1. Records(c, d, i) /\ c.pending = s.pending
    BY <1>9
  <2>2. Goto(h, "save", t, None, c)
    BY <1>10 DEF DecisionDenied, Finish
  <2> HIDE DEF c
  <2>3. /\ CopySerial(db, ran, "save", t, None, c)
        /\ \A g \in Handlers \ {h} :
             pc[g] # "idle" => Taken(c) \cap Taken(snap[g]) = {}
    BY <1>8, <2>1
  <2>4. QED
    BY <1>1, <1>2, <2>2, <2>3, GotoIsSerial
<1>11. ASSUME NEW d \in AgentDecision, NEW i \in NewIds,
              DecisionAwaitsApproval(h, d, i)
       PROVE  SerialInv'
  <2> DEFINE c == [Recorded(s, d, i) EXCEPT
                     !.phase = "WAITING_FOR_APPROVAL", !.pending = i]
  <2>1. Records(c, d, i) /\ c.pending = i
    BY <1>3 DEF Recorded, AgentTaskState
  <2>2. Goto(h, "save", t, None, c)
    BY <1>11 DEF DecisionAwaitsApproval, Finish
  <2> HIDE DEF c
  <2>3. /\ CopySerial(db, ran, "save", t, None, c)
        /\ \A g \in Handlers \ {h} :
             pc[g] # "idle" => Taken(c) \cap Taken(snap[g]) = {}
    BY <1>8, <2>1
  <2>4. QED
    BY <1>1, <1>2, <2>2, <2>3, GotoIsSerial
<1>12. ASSUME NEW d \in AgentDecision, NEW i \in NewIds, DecisionExecutes(h, d, i)
       PROVE  SerialInv'
  <2> DEFINE c == [Recorded(s, d, i) EXCEPT !.phase = "EXECUTING"]
  <2>1. Records(c, d, i) /\ c.pending = s.pending /\ c.phase = "EXECUTING"
    BY <1>9
  <2>2. Goto(h, "begin", t, i, c)
    BY <1>12 DEF DecisionExecutes
  <2> HIDE DEF c
  <2>3. /\ CopySerial(db, ran, "begin", t, i, c)
        /\ \A g \in Handlers \ {h} :
             pc[g] # "idle" => Taken(c) \cap Taken(snap[g]) = {}
    BY <1>8, <2>1
  <2>4. QED
    BY <1>1, <1>2, <2>2, <2>3, GotoIsSerial
<1>13. CASE ReasonerRaises(h)
  BY <1>13, EscapesIsSerial DEF ReasonerRaises
<1>14. QED
  BY <1>6, <1>7, <1>10, <1>11, <1>12, <1>13 DEF ReasonerAnswers

\* Overwriting the record of its task with the copy of the only request for it.
LEMMA WriteIsSerial ==
  ASSUME OneRequestPerTask, IInv, SerialInv, NEW h \in Handlers, pc[h] # "idle",
         Write(h), ran' = ran
  PROVE  RecordsSerial(db', ran') /\ OthersSerial(h, db', ran')
<1> DEFINE s == snap[h]
           t == task[h]
<1>1. t \in Tasks /\ CopySerial(db, ran, pc[h], t, act[h], s)
  BY DEF IInv, HandlersOK, HandlerOK, SerialInv
<1>2. \A u \in Tasks : db'[u] = IF u = t THEN s ELSE db[u]
  BY DEF IInv, StoredOK, Write
<1>3. \A u \in Tasks : db'[u].phase = "CREATED" => Taken(db'[u]) = {}
  BY <1>1, <1>2 DEF SerialInv, RecordsSerial, CopySerial
<1>4. \A u \in Tasks : PendingIsOpen(db'[u], ran')
  BY <1>1, <1>2 DEF SerialInv, RecordsSerial, CopySerial, PendingIsOpen
<1>5. \A u, v \in Tasks : u # v => Taken(db'[u]) \cap Taken(db'[v]) = {}
  BY <1>1, <1>2 DEF SerialInv, RecordsSerial, CopySerial
<1>6. \A i \in ActionIds : ran'[i] > 0 => \E u \in Tasks : i \in Taken(db'[u])
  BY <1>1, <1>2 DEF SerialInv, RecordsSerial, CopySerial
<1>7. ASSUME NEW g \in Handlers \ {h}, pc[g] # "idle"
      PROVE  CopySerial(db', ran', pc[g], task[g], act[g], snap[g])
  <2>1. /\ task[g] \in Tasks /\ task[g] # t
        /\ CopySerial(db, ran, pc[g], task[g], act[g], snap[g])
        /\ Taken(snap[g]) \cap Taken(s) = {}
    BY <1>7 DEF OneRequestPerTask, IInv, HandlersOK, HandlerOK, SerialInv, CopiesApart
  <2>2. db'[task[g]] = db[task[g]]
    BY <1>2, <2>1
  <2>3. \A u \in Tasks \ {task[g]} : Taken(snap[g]) \cap Taken(db'[u]) = {}
    BY <1>2, <2>1 DEF CopySerial
  <2>4. QED
    BY <2>1, <2>2, <2>3 DEF CopySerial
<1>8. QED
  BY <1>3, <1>4, <1>5, <1>6, <1>7 DEF SerialInv, RecordsSerial, OthersSerial

\* The record of the executing task is the copy, so the call is on record, and
\* nothing keeps the action for later.
LEMMA ServiceCallIsSerial ==
  ASSUME IInv, SerialInv, NEW h \in Handlers, pc[h] = "effect",
         CallsService(h), db' = db, NEW c, Follows(c, snap[h])
  PROVE  /\ RecordsSerial(db', ran') /\ OthersSerial(h, db', ran')
         /\ CopySerial(db', ran', "save", task[h], None, c)
         /\ Taken(c) = Taken(snap[h])
<1> DEFINE s == snap[h]
           t == task[h]
           a == act[h]
<1>1. /\ t \in Tasks /\ a \in ActionIds /\ a \in Taken(s)
      /\ CopySerial(db, ran, "effect", t, a, s)
  BY DEF IInv, HandlersOK, HandlerOK, SerialInv, Taken, NoAction
<1>2. /\ ran' \in [ActionIds -> Nat] /\ ran'[a] = 1
      /\ \A i \in ActionIds \ {a} : ran'[i] = ran[i]
  BY <1>1 DEF IInv, StoredOK, CallsService, CopySerial
<1>3. \A u \in Tasks : db[u].pending # None => db[u].pending \in Taken(db[u])
  BY DEF IInv, StoredOK, Good, Sanctioned, AgentTaskState, Taken, NoAction
<1>4. \A u \in Tasks : db[u].pending # a
  BY <1>1, <1>3, ConstantsAssumption DEF CopySerial
<1>5. \A u \in Tasks : PendingIsOpen(db[u], ran')
  BY <1>2, <1>3, <1>4 DEF SerialInv, RecordsSerial, PendingIsOpen, Taken
<1>6. a \in Taken(db[t])
  BY <1>1 DEF CopySerial
<1>7. RecordsSerial(db', ran')
  BY <1>1, <1>2, <1>5, <1>6 DEF SerialInv, RecordsSerial
<1>8. Taken(c) = Taken(s) /\ Rejections(c) = Rejections(s)
  BY DEF Follows, Taken, Rejections
<1>9. PendingIsOpen(c, ran')
  BY <1>1, <1>5 DEF CopySerial, PendingIsOpen, Follows
<1>10. ASSUME NEW g \in Handlers \ {h}, pc[g] # "idle"
       PROVE  CopySerial(db', ran', pc[g], task[g], act[g], snap[g])
  <2>1. /\ CopySerial(db, ran, pc[g], task[g], act[g], snap[g])
        /\ a \notin Taken(snap[g])
    BY <1>1, <1>10 DEF SerialInv, CopiesApart
  <2>2. /\ Good(snap[g], approved) /\ snap[g] \in AgentTaskState
        /\ pc[g] \in {"begin", "effect"} => act[g] \in Taken(snap[g])
    BY DEF IInv, HandlersOK, HandlerOK, Taken, NoAction
  <2>3. snap[g].pending # None => snap[g].pending \in Taken(snap[g])
    BY <2>2 DEF Good, Sanctioned, AgentTaskState, Taken, NoAction
  <2>4. Rejections(snap[g]) \subseteq Taken(snap[g])
    BY DEF Rejections, Taken, NoAction
  <2>5. \A i \in Taken(snap[g]) : ran'[i] = ran[i]
    BY <1>2, <2>1 DEF Taken
  <2>6. PendingIsOpen(snap[g], ran')
    BY <2>1, <2>3, <2>5 DEF CopySerial, PendingIsOpen
  <2>7. RefusesAtMostOne(pc[g], db'[task[g]], snap[g], ran')
    BY <2>1, <2>4, <2>5 DEF CopySerial, RefusesAtMostOne
  <2>8. pc[g] \in {"begin", "effect"} => ran'[act[g]] = 0
    BY <2>1, <2>2, <2>5 DEF CopySerial
  <2>9. QED
    BY <2>1, <2>6, <2>7, <2>8 DEF CopySerial
<1>11. QED
  BY <1>1, <1>7, <1>8, <1>9, <1>10
  DEF CopySerial, RefusesAtMostOne, Follows, OthersSerial

LEMMA ActionRunsIsSerial ==
  ASSUME IInv, SerialInv, NEW h \in Handlers, ActionRuns(h)
  PROVE  SerialInv'
<1> DEFINE s == snap[h]
           ty == TypeOf(h)
<1>1. pc[h] = "effect"
  BY DEF ActionRuns, CheckEnvironment, DiscoverTarget, ResearchTool,
         ResearchRaises, InstallRaisesAfterwards,
         InstallWithoutTool, InstallOverBudget, InstallRefused, InstallRaises,
         InstallRuns, DiagnosticRefused, DiagnosticRaises, DiagnosticRuns,
         AnalyzeOutput, VerifyFinding, AskUser, WaitForApproval, Complete,
         Executing
<1>2. /\ s \in AgentTaskState /\ task[h] \in Tasks /\ act[h] \in ActionIds
      /\ CopySerial(db, ran, pc[h], task[h], act[h], s)
  BY <1>1 DEF IInv, HandlersOK, HandlerOK, SerialInv
<1>3. /\ Follows(Succeeded(s, ty), s) /\ Follows(Observed(s, ty), s)
      /\ \A class : Follows(Failed(s, ty, class), s)
  BY <1>2, OutcomesFollow
<1>4. ASSUME NEW c, Follows(c, s), Concludes(h, c)
      PROVE  SerialInv'
  <2>1. /\ db' = db /\ ran' = ran
        /\ RecordsSerial(db', ran') /\ OthersSerial(h, db', ran')
    BY <1>4, OthersStaySerial DEF Concludes, historyVars
  <2>2. CopySerial(db', ran', "save", task[h], None, c) /\ Taken(c) = Taken(s)
    BY <1>1, <1>2, <1>4, <2>1, FollowingCopyIsSerial
  <2>3. QED
    BY <1>1, <1>4, <2>1, <2>2, ProgressingIsSerial DEF Concludes, Finish
<1>5. ASSUME NEW c, Follows(c, s), Finish(h, c), CallsService(h), db' = db
      PROVE  SerialInv'
  BY <1>1, <1>5, ServiceCallIsSerial, ProgressingIsSerial DEF Finish
<1>6. CASE InstallRaisesAfterwards(h)
  <2>1. Release(h) /\ CallsService(h) /\ db' = db
    BY <1>6 DEF InstallRaisesAfterwards
  <2>2. Follows(s, s)
    BY <1>2 DEF Follows, CopySerial
  <2>3. RecordsSerial(db', ran') /\ OthersSerial(h, db', ran')
    BY <1>1, <2>1, <2>2, ServiceCallIsSerial
  <2>4. QED
    BY <2>1, <2>3, GotoIsSerial DEF Release
<1>7. CASE CheckEnvironment(h)
  BY <1>3, <1>4, <1>7 DEF CheckEnvironment
<1>8. CASE DiscoverTarget(h)
  BY <1>3, <1>4, <1>8 DEF DiscoverTarget
<1>9. CASE ResearchTool(h)
  BY <1>3, <1>4, <1>9 DEF ResearchTool
<1>10. CASE InstallWithoutTool(h)
  BY <1>3, <1>4, <1>10 DEF InstallWithoutTool
<1>11. CASE InstallRefused(h)
  BY <1>3, <1>4, <1>11 DEF InstallRefused
<1>12. CASE InstallRuns(h)
  <2> DEFINE n == [s EXCEPT !.installs = @ + 1]
  <2>1. n \in AgentTaskState /\ n.actions = s.actions /\ n.pending = s.pending
    BY <1>2 DEF AgentTaskState
  <2>2. /\ Finish(h, Observed(n, ty)) \/ Finish(h, Failed(n, ty, "tool_unavailable"))
        /\ CallsService(h) /\ db' = db
    BY <1>12 DEF InstallRuns
  <2> HIDE DEF n
  <2>3. /\ Follows(Observed(n, ty), n)
        /\ Follows(Failed(n, ty, "tool_unavailable"), n)
    BY <2>1, OutcomesFollow
  <2>4. /\ Follows(Observed(n, ty), s)
        /\ Follows(Failed(n, ty, "tool_unavailable"), s)
    BY <2>1, <2>3 DEF Follows
  <2>5. QED
    BY <1>5, <2>2, <2>4
<1>13. CASE DiagnosticRefused(h)
  BY <1>3, <1>4, <1>13 DEF DiagnosticRefused
<1>14. CASE DiagnosticRuns(h)
  BY <1>3, <1>5, <1>14 DEF DiagnosticRuns
<1>15. CASE AnalyzeOutput(h)
  <2> DEFINE n == Succeeded(s, ty)
             c == [n EXCEPT !.openFindings = @ + 1]
  <2>1. Follows(c, s)
    BY <1>2, <1>3 DEF Follows, Succeeded, AgentTaskState
  <2>2. Concludes(h, c) \/ Concludes(h, Failed(s, ty, "unexpected_output"))
    BY <1>15 DEF AnalyzeOutput
  <2> HIDE DEF c
  <2>3. QED
    BY <1>3, <1>4, <2>1, <2>2
<1>16. CASE VerifyFinding(h)
  <2> DEFINE n == Succeeded(s, ty)
             c == [n EXCEPT !.openFindings = @ - 1]
  <2>1. Follows(c, s)
    BY <1>2, <1>3 DEF Follows, Succeeded, AgentTaskState
  <2>2. \/ Concludes(h, c) \/ Concludes(h, n)
        \/ Concludes(h, Failed(s, ty, "unexpected_output"))
    BY <1>2, <1>16 DEF VerifyFinding, AgentTaskState
  <2> HIDE DEF c
  <2>3. QED
    BY <1>3, <1>4, <2>1, <2>2
<1>17. CASE AskUser(h) \/ Complete(h)
  BY <1>2, <1>4, <1>17, OutcomesFollow DEF AskUser, Complete, AgentPhase
<1>18. CASE WaitForApproval(h)
  <2> DEFINE c == [s EXCEPT !.phase = "WAITING_FOR_APPROVAL", !.pending = act[h]]
  <2>1. /\ c.actions = s.actions /\ c.pending = act[h]
        /\ c.phase = "WAITING_FOR_APPROVAL"
    BY <1>2 DEF AgentTaskState
  <2>2. Concludes(h, c)
    BY <1>18 DEF WaitForApproval
  <2> HIDE DEF c
  <2>3. Taken(c) = Taken(s) /\ Rejections(c) = Rejections(s)
    BY <2>1 DEF Taken, Rejections
  <2>4. PendingIsOpen(c, ran)
    BY <1>1, <1>2, <2>1 DEF CopySerial, PendingIsOpen
  <2>5. CopySerial(db, ran, "save", task[h], None, c)
    BY <1>1, <1>2, <2>1, <2>3, <2>4 DEF CopySerial, RefusesAtMostOne
  <2>6. /\ db' = db /\ ran' = ran
        /\ RecordsSerial(db', ran') /\ OthersSerial(h, db', ran')
    BY <2>2, OthersStaySerial DEF Concludes, historyVars
  <2>7. QED
    BY <1>1, <2>2, <2>3, <2>5, <2>6, ProgressingIsSerial DEF Concludes, Finish
<1>19. CASE \/ InstallOverBudget(h) \/ InstallRaises(h) \/ DiagnosticRaises(h)
            \/ ResearchRaises(h)
  BY <1>19, EscapesIsSerial
  DEF InstallOverBudget, InstallRaises, DiagnosticRaises, ResearchRaises
<1>20. QED
  BY <1>6, <1>7, <1>8, <1>9, <1>10, <1>11, <1>12, <1>13, <1>14, <1>15, <1>16, <1>17,
     <1>18, <1>19
  DEF ActionRuns

LEMMA ProgressIsSerial ==
  ASSUME OneRequestPerTask, IInv, SerialInv, NEW h \in Handlers, Progress(h)
  PROVE  SerialInv'
<1> DEFINE s == snap[h]
           t == task[h]
<1>1. pc[h] # "idle" => /\ CopySerial(db, ran, pc[h], t, act[h], s)
                        /\ t \in Tasks /\ s \in AgentTaskState
  BY DEF IInv, HandlersOK, HandlerOK, SerialInv
<1>2. Write(h) /\ pc[h] # "idle" => db'[t] = s /\ \A u \in Tasks \ {t} : db'[u] = db[u]
  BY <1>1 DEF IInv, StoredOK, Write
<1>3. CASE InsertTask(h)
  <2> DEFINE c == Authorize(s)
  <2>1. pc[h] = "create" /\ Write(h) /\ ran' = ran /\ Goto(h, "save", t, None, c)
    BY <1>3 DEF InsertTask, Finish, historyVars
  <2>2. RecordsSerial(db', ran') /\ OthersSerial(h, db', ran')
    BY <2>1, WriteIsSerial
  <2>3. /\ c.actions = s.actions /\ c.pending = s.pending
        /\ c.phase \in {"PLANNING", "WAITING_FOR_AUTHORIZATION"}
    BY <1>1, <2>1 DEF Authorize, AgentTaskState
  <2> HIDE DEF c
  <2>4. Taken(c) = Taken(s) /\ Rejections(c) = Rejections(s)
    BY <2>3 DEF Taken, Rejections
  <2>5. IsOpen(s) /\ PendingIsOpen(c, ran)
    BY <1>1, <2>1, <2>3 DEF CopySerial, IsOpen, PendingIsOpen
  <2>6. CopySerial(db', ran', "save", t, None, c)
    BY <1>1, <1>2, <2>1, <2>3, <2>4, <2>5 DEF CopySerial, RefusesAtMostOne
  <2>7. QED
    BY <2>1, <2>2, <2>4, <2>6, ProgressingIsSerial
<1>4. CASE ReasonerAnswers(h)
  BY <1>4, ReasonerAnswersIsSerial
<1>5. CASE BeginExecution(h)
  <2>1. /\ pc[h] = "begin" /\ Write(h) /\ ran' = ran
        /\ Goto(h, "effect", t, act[h], s)
    BY <1>5 DEF BeginExecution, historyVars
  <2>2. RecordsSerial(db', ran') /\ OthersSerial(h, db', ran')
    BY <2>1, WriteIsSerial
  <2>3. IsOpen(s)
    BY <1>1, <2>1 DEF CopySerial, IsOpen, IsTerminal, TerminalPhases
  <2>4. CopySerial(db', ran', "effect", t, act[h], s)
    BY <1>1, <1>2, <2>1, <2>3 DEF CopySerial, RefusesAtMostOne
  <2>5. QED
    BY <2>1, <2>2, <2>4, ProgressingIsSerial
<1>6. CASE ActionRuns(h)
  BY <1>6, ActionRunsIsSerial
<1>7. CASE Save(h)
  <2>1. pc[h] = "save" /\ Write(h) /\ ran' = ran
    BY <1>7 DEF Save, historyVars
  <2>2. RecordsSerial(db', ran') /\ OthersSerial(h, db', ran')
    BY <2>1, WriteIsSerial
  <2>3. QED
    BY <1>7, <2>2, GotoIsSerial DEF Save, Release
<1>8. QED
  BY <1>3, <1>4, <1>5, <1>6, <1>7 DEF Progress

LEMMA InitIsSerial == IInv /\ Init => SerialInv
<1> SUFFICES ASSUME Init PROVE SerialInv
  OBVIOUS
<1>1. \A t \in Tasks : Taken(db[t]) = {} /\ db[t].pending = None
  BY DEF Init, BlankTask, Taken
<1>2. RecordsSerial(db, ran)
  BY <1>1 DEF RecordsSerial, PendingIsOpen, Init
<1>3. QED
  BY <1>2 DEF Init, SerialInv, CopiesApart

LEMMA NextIsSerial ==
  ASSUME OneRequestPerTask, OneRequestPerTask', IInv, SerialInv, [Next]_vars
  PROVE  SerialInv'
<1>1. ASSUME NEW h \in Handlers, NEW t \in Tasks, UserRequest(h, t) PROVE SerialInv'
  BY <1>1, UserRequestIsSerial
<1>2. ASSUME NEW h \in Handlers, NEW t \in Tasks, StepRequest(h, t) PROVE SerialInv'
  BY <1>2, StepRequestIsSerial
<1>3. ASSUME NEW h \in Handlers, Progress(h) PROVE SerialInv'
  BY <1>3, ProgressIsSerial
<1>4. ASSUME NEW t \in Tasks, DurationPasses(t) PROVE SerialInv'
  BY <1>4 DEF DurationPasses, handlerVars, historyVars, SerialInv, CopiesApart, Taken
<1>5. CASE Restart
  BY <1>5 DEF Restart, historyVars, SerialInv, CopiesApart
<1>6. CASE UNCHANGED vars
  BY <1>6 DEF vars, handlerVars, historyVars, SerialInv, CopiesApart, Taken
<1>7. QED
  BY <1>1, <1>2, <1>3, <1>4, <1>5, <1>6 DEF Next, Serve

\* However often the process restarts, requests that come one at a time for each
\* task keep SerialInv.
THEOREM SerialInvariantHolds ==
  Spec /\ []OneRequestPerTask => [](IInv /\ SerialInv)
<1>1. /\ OneRequestPerTask /\ OneRequestPerTask'
      /\ IInv /\ SerialInv /\ [Next]_vars
      => SerialInv'
  BY NextIsSerial
<1>2. Init => IInv /\ SerialInv
  BY InitIsOK, InitIsSerial
<1>3. QED
  BY <1>1, <1>2, InvariantHolds, PTL DEF Spec

\* One request at a time for each task, whatever those of other tasks do, no
\* service is called twice for the same action: the pending action is taken off
\* the stored record before its effect.
THEOREM SerialRequestsRunOnce ==
  Spec /\ []OneRequestPerTask => []RunsAtMostOnce
<1>1. SerialInv => RunsAtMostOnce
  BY DEF SerialInv, RecordsSerial, RunsAtMostOnce
<1>2. QED
  BY <1>1, SerialInvariantHolds, PTL

\* One request at a time for each task, every action whose service was called is
\* in a stored record: EXECUTING is saved before the call.
THEOREM SerialEffectsAreRecorded ==
  Spec /\ []OneRequestPerTask => []EffectsOnRecord
<1>1. SerialInv => EffectsOnRecord
  BY DEF SerialInv, RecordsSerial, EffectsOnRecord, Taken
<1>2. QED
  BY <1>1, SerialInvariantHolds, PTL

-----------------------------------------------------------------------------
(* The limit on open tasks.                                                *)

\* A step that stores nothing opens nothing.
LEMMA SameRecordsKeepLimit ==
  ASSUME LimitInv, UNCHANGED db,
         \A h \in Handlers :
           \/ pc'[h] # "create" \/ pc'[h] = pc[h]
           \/ Cardinality(ActiveTasks) < MaxConcurrentTasks
  PROVE  LimitInv'
<1>1. ActiveTasks' = ActiveTasks
  BY DEF ActiveTasks, Active, Exists
<1>2. QED
  BY <1>1 DEF LimitInv

\* What a move does to the points the handlers are at.
LEMMA GotoMovesOne ==
  ASSUME IInv, NEW h \in Handlers, NEW p, NEW t, NEW a, NEW s, Goto(h, p, t, a, s)
  PROVE  \A g \in Handlers : pc'[g] = IF g = h THEN p ELSE pc[g]
  BY DEF IInv, HandlersOK, Goto

\* Only the insert opens a task, and then one, when nobody else counts.
LEMMA WriteKeepsLimit ==
  ASSUME OneCreation, IInv, SerialInv, LimitInv, NEW h \in Handlers,
         pc[h] # "idle", Write(h),
         NEW p, p # "create", \A g \in Handlers : pc'[g] = IF g = h THEN p ELSE pc[g]
  PROVE  LimitInv'
<1> DEFINE t == task[h]
<1>1. t \in Tasks /\ CopySerial(db, ran, pc[h], t, act[h], snap[h])
  BY DEF IInv, HandlersOK, HandlerOK, SerialInv
<1>2. \A u \in Tasks : db'[u] = IF u = t THEN snap[h] ELSE db[u]
  BY <1>1 DEF IInv, StoredOK, Write
<1>3. IsFiniteSet(ActiveTasks) /\ Cardinality(ActiveTasks) <= MaxConcurrentTasks
  BY DEF LimitInv
<1>4. CASE pc[h] = "create"
  <2>1. /\ t \notin ActiveTasks /\ ActiveTasks' \subseteq ActiveTasks \cup {t}
        /\ Cardinality(ActiveTasks) < MaxConcurrentTasks
    BY <1>1, <1>2, <1>4 DEF CopySerial, ActiveTasks, Active, Exists, LimitInv
  <2>2. /\ IsFiniteSet(ActiveTasks \cup {t})
        /\ Cardinality(ActiveTasks \cup {t}) = Cardinality(ActiveTasks) + 1
    BY <1>3, <2>1, FS_AddElement
  <2>3. IsFiniteSet(ActiveTasks') /\ Cardinality(ActiveTasks') <= Cardinality(ActiveTasks) + 1
    BY <2>1, <2>2, FS_Subset
  <2>4. Cardinality(ActiveTasks) \in Nat /\ Cardinality(ActiveTasks') \in Nat
    BY <1>3, <2>3, FS_CardinalityType
  <2>5. Cardinality(ActiveTasks') <= MaxConcurrentTasks
    BY <2>1, <2>3, <2>4, TasksAssumption
  <2>6. \A g \in Handlers : pc'[g] # "create"
    BY <1>4 DEF OneCreation
  <2>7. QED
    BY <2>3, <2>5, <2>6 DEF LimitInv
<1>5. CASE pc[h] # "create"
  <2>1. ActiveTasks' \subseteq ActiveTasks
    BY <1>1, <1>2, <1>5 DEF CopySerial, ActiveTasks, Active, Exists, IsOpen
  <2>2. IsFiniteSet(ActiveTasks') /\ Cardinality(ActiveTasks') <= Cardinality(ActiveTasks)
    BY <1>3, <2>1, FS_Subset
  <2>3. Cardinality(ActiveTasks) \in Nat /\ Cardinality(ActiveTasks') \in Nat
    BY <1>3, <2>2, FS_CardinalityType
  <2>4. Cardinality(ActiveTasks') <= MaxConcurrentTasks
    BY <1>3, <2>2, <2>3, TasksAssumption
  <2>5. \A g \in Handlers :
          pc'[g] = "create" => Cardinality(ActiveTasks') < MaxConcurrentTasks
    <3>1. \A g \in Handlers :
            pc'[g] = "create" => Cardinality(ActiveTasks) < MaxConcurrentTasks
      BY DEF LimitInv
    <3>2. QED
      BY <2>2, <2>3, <3>1, TasksAssumption
  <2>6. QED
    BY <2>2, <2>4, <2>5 DEF LimitInv
<1>6. QED
  BY <1>4, <1>5

LEMMA RequestKeepsLimit ==
  ASSUME IInv, LimitInv, NEW h \in Handlers, NEW t \in Tasks,
         UserRequest(h, t) \/ StepRequest(h, t)
  PROVE  LimitInv'
<1>1. ASSUME NEW authorized \in BOOLEAN, NEW target \in BOOLEAN,
             CreateTask(h, t, authorized, target)
      PROVE  LimitInv'
  <2>1. \A g \in Handlers : g # h => pc'[g] = pc[g]
    BY <1>1, GotoMovesOne DEF CreateTask
  <2>2. QED
    BY <1>1, <2>1, SameRecordsKeepLimit DEF CreateTask
<1>2. ASSUME NEW p \in {"save", "begin", "reason"}, NEW a, NEW s, Goto(h, p, t, a, s),
             UNCHANGED db
      PROVE  LimitInv'
  <2>1. \A g \in Handlers : pc'[g] # "create" \/ pc'[g] = pc[g]
    BY <1>2, GotoMovesOne
  <2>2. QED
    BY <1>2, <2>1, SameRecordsKeepLimit
<1>3. CASE Pause(h, t)
  BY <1>2, <1>3 DEF Pause
<1>4. CASE Resume(h, t)
  BY <1>2, <1>4 DEF Resume
<1>5. CASE Cancel(h, t)
  BY <1>2, <1>5 DEF Cancel
<1>6. CASE ProvideClarification(h, t)
  BY <1>2, <1>6 DEF ProvideClarification
<1>7. CASE ApproveAction(h, t)
  BY <1>2, <1>7 DEF ApproveAction
<1>8. CASE RejectAction(h, t)
  BY <1>2, <1>8 DEF RejectAction
<1>9. CASE StepExecutesApproved(h, t)
  BY <1>2, <1>9 DEF StepExecutesApproved
<1>10. CASE StepBlocksOnBudget(h, t)
  BY <1>2, <1>10 DEF StepBlocksOnBudget
<1>11. CASE StepAsksReasoner(h, t)
  BY <1>2, <1>11 DEF StepAsksReasoner
<1>12. QED
  BY <1>1, <1>3, <1>4, <1>5, <1>6, <1>7, <1>8, <1>9, <1>10, <1>11
  DEF UserRequest, StepRequest

\* What the reasoner and the actions leave to the next save: they store nothing,
\* and a service is called only by an executing request.
LEMMA WorkStoresNothing ==
  ASSUME NEW h \in Handlers, ReasonerAnswers(h) \/ ActionRuns(h)
  PROVE  /\ db' = db
         /\ \E p \in {"save", "begin", "idle"} : pc' = [pc EXCEPT ![h] = p]
         /\ ran' = ran \/ (pc[h] = "effect" /\ CallsService(h))
<1>1. CASE ReasonerAnswers(h)
  BY <1>1
  DEF ReasonerAnswers, ReasoningFails, ReasonerRaises, Escapes, Release,
      DecisionOutOfScope, DecisionDenied, DecisionAwaitsApproval,
      DecisionExecutes, Finish, Goto, historyVars
<1>2. \A s : Finish(h, s) => pc' = [pc EXCEPT ![h] = "save"]
  BY DEF Finish, Goto
<1>3. \A s : Concludes(h, s) =>
        db' = db /\ ran' = ran /\ pc' = [pc EXCEPT ![h] = "save"]
  BY <1>2 DEF Concludes, historyVars
<1>4. Escapes(h) => db' = db /\ ran' = ran /\ pc' = [pc EXCEPT ![h] = "idle"]
  BY DEF Escapes, Release, Goto, historyVars
<1>5. CASE InstallRuns(h) \/ DiagnosticRuns(h) \/ InstallRaisesAfterwards(h)
  BY <1>2, <1>5
  DEF InstallRuns, DiagnosticRuns, InstallRaisesAfterwards, Executing, Release, Goto
<1>6. CASE \/ InstallOverBudget(h) \/ InstallRaises(h) \/ DiagnosticRaises(h)
           \/ ResearchRaises(h)
  BY <1>4, <1>6
  DEF InstallOverBudget, InstallRaises, DiagnosticRaises, ResearchRaises
<1>7. CASE \/ CheckEnvironment(h) \/ DiscoverTarget(h) \/ ResearchTool(h)
           \/ InstallWithoutTool(h) \/ InstallRefused(h) \/ DiagnosticRefused(h)
           \/ AnalyzeOutput(h) \/ VerifyFinding(h)
           \/ AskUser(h) \/ WaitForApproval(h) \/ Complete(h)
  <2>1. \E s : Concludes(h, s)
    BY <1>7
    DEF CheckEnvironment, DiscoverTarget, ResearchTool, InstallWithoutTool,
        InstallRefused, DiagnosticRefused, AnalyzeOutput, VerifyFinding,
        AskUser, WaitForApproval, Complete
  <2>2. QED
    BY <1>3, <2>1
<1>8. QED
  BY <1>1, <1>5, <1>6, <1>7 DEF ActionRuns

LEMMA NextKeepsLimit ==
  ASSUME OneCreation, IInv, SerialInv, LimitInv, [Next]_vars
  PROVE  LimitInv'
<1>1. ASSUME NEW h \in Handlers, NEW t \in Tasks,
             UserRequest(h, t) \/ StepRequest(h, t)
      PROVE  LimitInv'
  BY <1>1, RequestKeepsLimit
<1>2. ASSUME NEW h \in Handlers, ReasonerAnswers(h) \/ ActionRuns(h)
      PROVE  LimitInv'
  <2>1. \A g \in Handlers : pc'[g] # "create" \/ pc'[g] = pc[g]
    BY <1>2, WorkStoresNothing DEF IInv, HandlersOK
  <2>2. QED
    BY <1>2, <2>1, WorkStoresNothing, SameRecordsKeepLimit
<1>3. ASSUME NEW h \in Handlers, NEW p \in {"save", "effect", "idle"},
             NEW t, NEW a, NEW s, Goto(h, p, t, a, s), pc[h] # "idle", Write(h)
      PROVE  LimitInv'
  BY <1>3, GotoMovesOne, WriteKeepsLimit
<1>4. ASSUME NEW h \in Handlers, InsertTask(h) PROVE LimitInv'
  BY <1>3, <1>4 DEF InsertTask, Finish
<1>5. ASSUME NEW h \in Handlers, BeginExecution(h) PROVE LimitInv'
  BY <1>3, <1>5 DEF BeginExecution
<1>6. ASSUME NEW h \in Handlers, Save(h) PROVE LimitInv'
  BY <1>3, <1>6 DEF Save, Release
<1>7. ASSUME NEW t \in Tasks, DurationPasses(t) PROVE LimitInv'
  BY <1>7, SameRecordsKeepLimit DEF DurationPasses, handlerVars
<1>8. CASE Restart
  BY <1>8, SameRecordsKeepLimit DEF Restart
<1>9. CASE UNCHANGED vars
  BY <1>9, SameRecordsKeepLimit DEF vars, handlerVars
<1>10. QED
  BY <1>1, <1>2, <1>4, <1>5, <1>6, <1>7, <1>8, <1>9 DEF Next, Serve, Progress

LEMMA InitKeepsLimit == Init => LimitInv
<1> SUFFICES ASSUME Init PROVE LimitInv
  OBVIOUS
<1>1. ActiveTasks = {}
  BY DEF Init, ActiveTasks, Active, Exists, BlankTask
<1>2. IsFiniteSet({}) /\ Cardinality({}) = 0
  BY FS_EmptySet
<1>3. QED
  BY <1>1, <1>2, TasksAssumption DEF Init, LimitInv

\* One creation at a time and one request at a time for each task, there are
\* never more open tasks than max_concurrent_tasks, although create_task counts
\* them before an await and other tasks are served in between.
THEOREM SerialRequestsRespectLimit ==
  Spec /\ []OneRequestPerTask /\ []OneCreation => []ActiveTasksWithinLimit
<1>1. OneCreation /\ IInv /\ SerialInv /\ LimitInv /\ [Next]_vars => LimitInv'
  BY NextKeepsLimit
<1>2. LimitInv => ActiveTasksWithinLimit
  BY DEF LimitInv, ActiveTasksWithinLimit
<1>3. QED
  BY <1>1, <1>2, InitKeepsLimit, SerialInvariantHolds, PTL DEF Spec

-----------------------------------------------------------------------------
(* Refinement.                                                             *)

LEMMA SameRecordsAreAStutter ==
  ASSUME UNCHANGED <<db, ran>>
  PROVE  UNCHANGED Lifecycle!vars
  BY DEF Lifecycle!vars, ActiveTasks, Active, Exists

\* Storing the copy opens the task, closes it, or is not seen outside.
LEMMA WriteIsALifecycleStep ==
  ASSUME IInv, SerialInv, NEW h \in Handlers, pc[h] # "idle", Write(h), ran' = ran
  PROVE  [Lifecycle!Next]_(Lifecycle!vars)
<1> DEFINE s == snap[h]
           t == task[h]
           closed == {u \in Tasks : Exists(u) /\ IsTerminal(db[u])}
           rejected == {i \in ActionIds :
                          \E u \in Tasks : db[u].actions[i].approval = "REJECTED"}
<1>1. t \in Tasks /\ CopySerial(db, ran, pc[h], t, act[h], s)
  BY DEF IInv, HandlersOK, HandlerOK, SerialInv
<1>2. \A u \in Tasks : db'[u] = IF u = t THEN s ELSE db[u]
  BY <1>1 DEF IInv, StoredOK, Write
<1>3. ASSUME Rejections(s) = Rejections(db[t])
      PROVE  rejected' = rejected
  BY <1>1, <1>2, <1>3 DEF Rejections
<1>4. CASE pc[h] = "create"
  <2>1. t \notin ActiveTasks \cup closed
    BY <1>1, <1>4 DEF CopySerial, ActiveTasks, Active, Exists
  <2>2. ActiveTasks' = ActiveTasks \cup {t} /\ closed' = closed
    BY <1>1, <1>2, <1>4 DEF CopySerial, ActiveTasks, Active, Exists
  <2>3. rejected' = rejected
    BY <1>1, <1>3, <1>4 DEF CopySerial, RefusesAtMostOne
  <2>4. Lifecycle!Open(t)
    BY <2>1, <2>2, <2>3 DEF Lifecycle!Open
  <2>5. QED
    BY <1>1, <2>4 DEF Lifecycle!Next
<1>5. CASE pc[h] # "create" /\ ~IsTerminal(s)
  <2>1. ActiveTasks' = ActiveTasks /\ closed' = closed
    BY <1>1, <1>2, <1>5 DEF CopySerial, ActiveTasks, Active, Exists, IsOpen
  <2>2. rejected' = rejected
    BY <1>1, <1>3, <1>5 DEF CopySerial, RefusesAtMostOne
  <2>3. QED
    BY <2>1, <2>2 DEF Lifecycle!vars
<1>6. CASE pc[h] # "create" /\ IsTerminal(s)
  <2>1. t \in ActiveTasks
    BY <1>1, <1>6 DEF CopySerial, ActiveTasks, Active, Exists, IsOpen
  <2>2. ActiveTasks' = ActiveTasks \ {t} /\ closed' = closed \cup {t}
    BY <1>1, <1>2, <1>6 DEF CopySerial, ActiveTasks, Active, Exists, IsOpen
  <2>3. CASE Rejections(s) = Rejections(db[t])
    <3>1. Lifecycle!Close(t, {})
      BY <1>3, <2>1, <2>2, <2>3 DEF Lifecycle!Close
    <3>2. QED
      BY <1>1, <3>1 DEF Lifecycle!Next, Lifecycle!Close
  <2>4. ASSUME NEW i \in ActionIds, ran[i] = 0,
               Rejections(s) = Rejections(db[t]) \cup {i}
        PROVE  Lifecycle!Next
    <3>1. rejected' = rejected \cup {i}
      BY <1>1, <1>2, <2>4 DEF Rejections
    <3>2. Lifecycle!Close(t, {i})
      BY <2>1, <2>2, <2>4, <3>1 DEF Lifecycle!Close
    <3>3. QED
      BY <1>1, <2>4, <3>2 DEF Lifecycle!Next, Lifecycle!Close
  <2>5. QED
    BY <1>1, <2>3, <2>4 DEF CopySerial, RefusesAtMostOne
<1>7. QED
  BY <1>4, <1>5, <1>6

\* A service is called for an open task, for the first time, and not for an
\* action that was refused.
LEMMA ServiceCallIsALifecycleStep ==
  ASSUME IInv, SerialInv, NEW h \in Handlers, pc[h] = "effect",
         CallsService(h), db' = db
  PROVE  Lifecycle!Next
<1> DEFINE s == snap[h]
           t == task[h]
           a == act[h]
<1>1. /\ t \in Tasks /\ a \in ActionIds /\ a \in Taken(s)
      /\ CopySerial(db, ran, "effect", t, a, s)
  BY DEF IInv, HandlersOK, HandlerOK, SerialInv, Taken, NoAction
<1>2. t \in ActiveTasks
  BY <1>1 DEF CopySerial, ActiveTasks, Active, Exists, IsOpen
<1>3. ran[a] = 0 /\ ran' = [ran EXCEPT ![a] = 1]
  <2>1. ran[a] = 0
    BY <1>1 DEF CopySerial
  <2>2. QED
    BY <2>1 DEF CallsService
<1>4. \A u \in Tasks : db[u].actions[a].approval # "REJECTED"
  BY <1>1 DEF CopySerial, Taken, NoAction
<1>5. Lifecycle!Run(a)
  BY <1>1, <1>2, <1>3, <1>4 DEF Lifecycle!Run, ActiveTasks, Active, Exists
<1>6. QED
  BY <1>1, <1>5 DEF Lifecycle!Next

LEMMA NextIsALifecycleStep ==
  ASSUME IInv, SerialInv, [Next]_vars
  PROVE  [Lifecycle!Next]_(Lifecycle!vars)
<1>1. CASE UNCHANGED <<db, ran>>
  BY <1>1, SameRecordsAreAStutter
<1>2. ASSUME NEW h \in Handlers, NEW t \in Tasks,
             UserRequest(h, t) \/ StepRequest(h, t)
      PROVE  UNCHANGED <<db, ran>>
  BY <1>2
  DEF UserRequest, CreateTask, Pause, Resume, Cancel, ProvideClarification,
      ApproveAction, RejectAction, StepRequest, StepExecutesApproved,
      StepBlocksOnBudget, StepAsksReasoner, historyVars
<1>3. ASSUME NEW h \in Handlers, ReasonerAnswers(h) \/ ActionRuns(h)
      PROVE  [Lifecycle!Next]_(Lifecycle!vars)
  BY <1>1, <1>3, WorkStoresNothing, ServiceCallIsALifecycleStep
<1>4. ASSUME NEW h \in Handlers, InsertTask(h) \/ BeginExecution(h) \/ Save(h)
      PROVE  [Lifecycle!Next]_(Lifecycle!vars)
  BY <1>4, WriteIsALifecycleStep DEF InsertTask, BeginExecution, Save, historyVars
<1>5. CASE UNCHANGED vars \/ Restart \/ \E t \in Tasks : DurationPasses(t)
  BY <1>1, <1>5 DEF vars, Restart, DurationPasses, handlerVars, historyVars
<1>6. QED
  BY <1>1, <1>2, <1>3, <1>4, <1>5 DEF Next, Serve, Progress

LEMMA InitIsALifecycleInit == Init => Lifecycle!Init
<1> SUFFICES ASSUME Init PROVE Lifecycle!Init
  OBVIOUS
<1>1. /\ \A t \in Tasks : db[t].phase = "CREATED"
      /\ \A t \in Tasks : \A i \in ActionIds : db[t].actions[i].approval = "NOT_REQUIRED"
  BY DEF Init, BlankTask, NoAction
<1>2. QED
  BY <1>1 DEF Init, Lifecycle!Init, ActiveTasks, Active, Exists

\* One request at a time for each task, the agent loop implements
\* AgentLifecycle: a task opens once, closes once and for good, runs nothing when
\* it is closed, each action once, and none that was rejected.
THEOREM SerialRequestsImplementLifecycle ==
  Spec /\ []OneRequestPerTask => ImplementsLifecycle
<1>1. IInv /\ SerialInv /\ [Next]_vars => [Lifecycle!Next]_(Lifecycle!vars)
  BY NextIsALifecycleStep
<1>2. QED
  BY <1>1, InitIsALifecycleInit, SerialInvariantHolds, PTL
  DEF Spec, ImplementsLifecycle, Lifecycle!Spec

-----------------------------------------------------------------------------
(* What a step of a request does to the counts and the kinds of actions.   *)

\* A copy c of s that may differ in phase, findings and approvals, not in what
\* was recorded and charged.
SameCharges(c, s) ==
  /\ Taken(c) = Taken(s)
  /\ \A i \in ActionIds : c.actions[i].type = s.actions[i].type
  /\ c.actionCount = s.actionCount /\ c.installs = s.installs

Uncharged(c) == Taken(c) = {} /\ c.actionCount = 0 /\ c.installs = 0

\* Nobody but h moves.
OnlyMoves(h) ==
  \A g \in Handlers \ {h} : pc'[g] = pc[g] /\ task'[g] = task[g] /\ snap'[g] = snap[g]

\* A request for t is accepted.
Begins(h, t) ==
  /\ OnlyMoves(h) /\ UNCHANGED <<db, ran>>
  /\ pc[h] = "idle" /\ pc'[h] # "idle" /\ task'[h] = t
  /\ \/ SameCharges(snap'[h], db[t])
     \/ db[t].phase = "CREATED" /\ Uncharged(snap'[h])

\* It goes on, with its copy stored or not.
GoesOn(h) ==
  /\ OnlyMoves(h) /\ UNCHANGED ran /\ (Write(h) \/ UNCHANGED db)
  /\ pc[h] \notin {"idle", "save"} /\ pc'[h] # "idle" /\ task'[h] = task[h]
  /\ SameCharges(snap'[h], snap[h])

\* It records an action of its own under an unused identity.
Decides(h) ==
  /\ OnlyMoves(h) /\ UNCHANGED <<db, ran>>
  /\ pc[h] = "reason" /\ pc'[h] # "idle" /\ task'[h] = task[h]
  /\ snap'[h].actionCount = snap[h].actionCount + 1
  /\ snap'[h].installs = snap[h].installs
  /\ \E i \in NewIds :
       /\ Taken(snap'[h]) \subseteq Taken(snap[h]) \cup {i}
       /\ \A j \in ActionIds \ {i} : snap'[h].actions[j].type = snap[h].actions[j].type

\* It has called a service, and counts the call of the installation service.
HasCalled(h) ==
  /\ OnlyMoves(h) /\ CallsService(h) /\ UNCHANGED db
  /\ pc[h] = "effect" /\ pc'[h] = "save" /\ task'[h] = task[h]
  /\ Taken(snap'[h]) = Taken(snap[h])
  /\ \A i \in ActionIds : snap'[h].actions[i].type = snap[h].actions[i].type
  /\ snap'[h].actionCount = snap[h].actionCount
  /\ snap'[h].installs =
       IF TypeOf(h) = "INSTALL_TOOL" THEN snap[h].installs + 1 ELSE snap[h].installs

\* It is over: its copy is stored, or an exception ended it before it called a
\* service.
Ends(h) ==
  /\ OnlyMoves(h) /\ UNCHANGED ran
  /\ pc[h] # "idle" /\ pc'[h] = "idle" /\ Uncharged(snap'[h])
  /\ Write(h) \/ (pc[h] # "save" /\ UNCHANGED db)

LEMMA GotoIsAMove ==
  ASSUME IInv, NEW h \in Handlers, NEW p, NEW t, NEW a, NEW s, Goto(h, p, t, a, s)
  PROVE  /\ OnlyMoves(h)
         /\ pc'[h] = p /\ task'[h] = t /\ snap'[h] = s
  BY DEF IInv, HandlersOK, Goto, OnlyMoves

LEMMA ReleaseIsAMove ==
  ASSUME IInv, NEW h \in Handlers, Release(h)
  PROVE  OnlyMoves(h) /\ pc'[h] = "idle" /\ Uncharged(snap'[h])
<1>1. Uncharged(BlankTask)
  BY DEF Uncharged, Taken, BlankTask
<1>2. QED
  BY <1>1, GotoIsAMove DEF Release

\* The same actions and the same counts.
LEMMA SameActionsSameCharges ==
  ASSUME NEW c, NEW s, c.actions = s.actions, c.actionCount = s.actionCount,
         c.installs = s.installs
  PROVE  SameCharges(c, s)
  BY DEF SameCharges, Taken

LEMMA OutcomesAreFree ==
  ASSUME NEW s \in AgentTaskState, NEW type, NEW class
  PROVE  /\ SameCharges(Succeeded(s, type), s) /\ SameCharges(Observed(s, type), s)
         /\ SameCharges(Failed(s, type, class), s)
         /\ \A p : SameCharges([s EXCEPT !.phase = p], s)
<1>1. SameCharges(Succeeded(s, type), s)
  BY SameActionsSameCharges DEF Succeeded, AgentTaskState
<1>2. SameCharges(Observed(s, type), s)
  BY SameActionsSameCharges DEF Observed, Succeeded, AgentTaskState
<1>3. SameCharges(Failed(s, type, class), s)
  <2> DEFINE c == Failed(s, type, class)
  <2>1. c.actions = s.actions /\ c.actionCount = s.actionCount /\ c.installs = s.installs
    BY DEF Failed, AgentTaskState
  <2> HIDE DEF c
  <2>2. SameCharges(c, s)
    BY <2>1, SameActionsSameCharges
  <2>3. QED
    BY <2>2 DEF c
<1>4. \A p : SameCharges([s EXCEPT !.phase = p], s)
  BY SameActionsSameCharges DEF AgentTaskState
<1>5. QED
  BY <1>1, <1>2, <1>3, <1>4

\* An answer to an approval changes no action but its approval.
LEMMA ApprovalIsFree ==
  ASSUME NEW s \in AgentTaskState, s.pending \in ActionIds,
         s.actions[s.pending].type # "NONE",
         NEW c, NEW v, c.actions = [s.actions EXCEPT ![s.pending].approval = v],
         c.actionCount = s.actionCount, c.installs = s.installs
  PROVE  SameCharges(c, s)
<1>1. s.actions \in [ActionIds -> AgentAction]
  BY DEF AgentTaskState
<1>2. /\ \A i \in ActionIds : c.actions[i].type = s.actions[i].type
      /\ \A i \in ActionIds \ {s.pending} : c.actions[i] = s.actions[i]
  BY <1>1 DEF AgentAction
<1>3. c.actions[s.pending] # NoAction /\ s.actions[s.pending] # NoAction
  BY <1>2 DEF NoAction
<1>4. Taken(c) = Taken(s)
  BY <1>2, <1>3 DEF Taken
<1>5. QED
  BY <1>2, <1>4 DEF SameCharges

LEMMA RequestBegins ==
  ASSUME IInv, NEW h \in Handlers, NEW t \in Tasks, UserRequest(h, t) \/ StepRequest(h, t)
  PROVE  Begins(h, t)
<1>1. db[t] \in AgentTaskState /\ Good(db[t], approved)
  BY DEF IInv, StoredOK
<1>2. ASSUME NEW p \in PC \ {"idle"}, NEW a, NEW s, Goto(h, p, t, a, s), pc[h] = "idle",
             UNCHANGED <<db, ran>>,
             SameCharges(s, db[t]) \/ (db[t].phase = "CREATED" /\ Uncharged(s))
      PROVE  Begins(h, t)
  BY <1>2, GotoIsAMove DEF Begins
<1>3. \A p : SameCharges([db[t] EXCEPT !.phase = p], db[t])
  BY <1>1, OutcomesAreFree
<1>4. ASSUME NEW authorized \in BOOLEAN, NEW target \in BOOLEAN,
             CreateTask(h, t, authorized, target)
      PROVE  Begins(h, t)
  <2>1. Uncharged(NewTask(authorized, target))
    BY DEF NewTask, BlankTask, Uncharged, Taken
  <2>2. QED
    BY <1>2, <1>4, <2>1 DEF CreateTask, Exists, PC, historyVars
<1>5. CASE Pause(h, t) \/ Resume(h, t) \/ Cancel(h, t)
  BY <1>2, <1>3, <1>5 DEF Pause, Resume, Cancel, Read, PC, historyVars
<1>6. CASE ProvideClarification(h, t)
  <2> DEFINE c == [db[t] EXCEPT !.phase = "PLANNING", !.observed = TRUE]
  <2>1. SameCharges(c, db[t])
    BY <1>1, SameActionsSameCharges DEF AgentTaskState
  <2> HIDE DEF c
  <2>2. Goto(h, "save", t, None, c) /\ pc[h] = "idle" /\ UNCHANGED <<db, ran>>
    BY <1>6 DEF ProvideClarification, Read, historyVars, c
  <2>3. QED
    BY <1>2, <2>1, <2>2 DEF PC
<1>7. CASE ApproveAction(h, t)
  <2> DEFINE c == [db[t] EXCEPT !.phase = "PREPARING",
                                !.actions[db[t].pending].approval = "APPROVED"]
  <2>1. db[t].pending \in ActionIds /\ db[t].actions[db[t].pending].type # "NONE"
    BY <1>1, <1>7 DEF ApproveAction, AwaitsApproval, Good, Sanctioned, AgentTaskState
  <2>2. /\ c.actions = [db[t].actions EXCEPT ![db[t].pending].approval = "APPROVED"]
        /\ c.actionCount = db[t].actionCount /\ c.installs = db[t].installs
    BY <1>1 DEF AgentTaskState
  <2> HIDE DEF c
  <2>3. SameCharges(c, db[t])
    BY <1>1, <2>1, <2>2, ApprovalIsFree
  <2>4. Goto(h, "save", t, None, c) /\ pc[h] = "idle" /\ UNCHANGED <<db, ran>>
    BY <1>7 DEF ApproveAction, Read, c
  <2>5. QED
    BY <1>2, <2>3, <2>4 DEF PC
<1>8. CASE RejectAction(h, t)
  <2> DEFINE c == [db[t] EXCEPT !.phase = "BLOCKED", !.pending = None,
                                !.actions[db[t].pending].approval = "REJECTED"]
  <2>1. db[t].pending \in ActionIds /\ db[t].actions[db[t].pending].type # "NONE"
    BY <1>1, <1>8 DEF RejectAction, AwaitsApproval, Good, Sanctioned, AgentTaskState
  <2>2. /\ c.actions = [db[t].actions EXCEPT ![db[t].pending].approval = "REJECTED"]
        /\ c.actionCount = db[t].actionCount /\ c.installs = db[t].installs
    BY <1>1 DEF AgentTaskState
  <2> HIDE DEF c
  <2>3. SameCharges(c, db[t])
    BY <1>1, <2>1, <2>2, ApprovalIsFree
  <2>4. Goto(h, "save", t, None, c) /\ pc[h] = "idle" /\ UNCHANGED <<db, ran>>
    BY <1>8 DEF RejectAction, Read, historyVars, c
  <2>5. QED
    BY <1>2, <2>3, <2>4 DEF PC
<1>9. CASE StepExecutesApproved(h, t)
  <2> DEFINE c == [db[t] EXCEPT !.phase = "EXECUTING", !.pending = None]
  <2>1. SameCharges(c, db[t])
    BY <1>1, SameActionsSameCharges DEF AgentTaskState
  <2> HIDE DEF c
  <2>2. /\ Goto(h, "begin", t, db[t].pending, c) /\ pc[h] = "idle"
        /\ UNCHANGED <<db, ran>>
    BY <1>9 DEF StepExecutesApproved, Read, historyVars, c
  <2>3. QED
    BY <1>2, <2>1, <2>2 DEF PC
<1>10. CASE StepBlocksOnBudget(h, t)
  BY <1>2, <1>3, <1>10 DEF StepBlocksOnBudget, Blocked, Read, PC, historyVars
<1>11. CASE StepAsksReasoner(h, t)
  <2>1. SameCharges(db[t], db[t])
    BY DEF SameCharges
  <2>2. QED
    BY <1>2, <1>11, <2>1 DEF StepAsksReasoner, Read, PC, historyVars
<1>12. QED
  BY <1>4, <1>5, <1>6, <1>7, <1>8, <1>9, <1>10, <1>11 DEF UserRequest, StepRequest

LEMMA ReasonerAnswersMoves ==
  ASSUME IInv, NEW h \in Handlers, ReasonerAnswers(h)
  PROVE  GoesOn(h) \/ Decides(h) \/ Ends(h)
<1> DEFINE s == snap[h]
<1>1. /\ pc[h] = "reason" /\ UNCHANGED <<db, ran>> /\ s \in AgentTaskState
  BY DEF ReasonerAnswers, ReasoningFails, ReasonerRaises, Escapes,
         DecisionOutOfScope, DecisionDenied, DecisionAwaitsApproval,
         DecisionExecutes, historyVars, IInv, HandlersOK
<1>2. ASSUME NEW c, Finish(h, c), SameCharges(c, s)
      PROVE  GoesOn(h)
  BY <1>1, <1>2, GotoIsAMove DEF Finish, GoesOn
<1>3. CASE ReasoningFails(h)
  BY <1>1, <1>2, <1>3, OutcomesAreFree DEF ReasoningFails, Blocked
<1>4. ASSUME NEW d \in AgentDecision, DecisionOutOfScope(h, d)
      PROVE  GoesOn(h)
  <2> DEFINE c == Blocked([s EXCEPT !.modelCalls = @ + 1])
  <2>1. SameCharges(c, s)
    BY <1>1, SameActionsSameCharges DEF Blocked, AgentTaskState
  <2>2. Finish(h, c)
    BY <1>4 DEF DecisionOutOfScope
  <2> HIDE DEF c
  <2>3. QED
    BY <1>2, <2>1, <2>2
<1>5. ASSUME NEW d \in AgentDecision, NEW i \in NewIds, NEW c,
             c.actions = [s.actions EXCEPT ![i] = BuildAction(s, d)],
             c.actionCount = s.actionCount + 1, c.installs = s.installs,
             NEW p \in PC \ {"idle"}, NEW a, Goto(h, p, task[h], a, c)
      PROVE  Decides(h)
  <2>1. \A j \in ActionIds \ {i} : c.actions[j] = s.actions[j]
    BY <1>1, <1>5 DEF AgentTaskState
  <2>2. Taken(c) \subseteq Taken(s) \cup {i}
    BY <2>1 DEF Taken
  <2>3. /\ OnlyMoves(h) /\ pc'[h] # "idle" /\ task'[h] = task[h] /\ snap'[h] = c
    BY <1>5, GotoIsAMove
  <2>4. QED
    BY <1>1, <1>5, <2>1, <2>2, <2>3 DEF Decides
<1>6. ASSUME NEW d \in AgentDecision, NEW i \in NewIds, DecisionDenied(h, d, i)
      PROVE  Decides(h)
  <2> DEFINE c == [Recorded(s, d, i) EXCEPT !.phase = "WAITING_FOR_AUTHORIZATION"]
  <2>1. /\ c.actions = [s.actions EXCEPT ![i] = BuildAction(s, d)]
        /\ c.actionCount = s.actionCount + 1 /\ c.installs = s.installs
    BY <1>1 DEF Recorded, AgentTaskState
  <2>2. Goto(h, "save", task[h], None, c)
    BY <1>6 DEF DecisionDenied, Finish
  <2> HIDE DEF c
  <2>3. QED
    BY <1>5, <2>1, <2>2 DEF PC
<1>7. ASSUME NEW d \in AgentDecision, NEW i \in NewIds, DecisionAwaitsApproval(h, d, i)
      PROVE  Decides(h)
  <2> DEFINE c == [Recorded(s, d, i) EXCEPT
                     !.phase = "WAITING_FOR_APPROVAL", !.pending = i]
  <2>1. /\ c.actions = [s.actions EXCEPT ![i] = BuildAction(s, d)]
        /\ c.actionCount = s.actionCount + 1 /\ c.installs = s.installs
    BY <1>1 DEF Recorded, AgentTaskState
  <2>2. Goto(h, "save", task[h], None, c)
    BY <1>7 DEF DecisionAwaitsApproval, Finish
  <2> HIDE DEF c
  <2>3. QED
    BY <1>5, <2>1, <2>2 DEF PC
<1>8. ASSUME NEW d \in AgentDecision, NEW i \in NewIds, DecisionExecutes(h, d, i)
      PROVE  Decides(h)
  <2> DEFINE c == [Recorded(s, d, i) EXCEPT !.phase = "EXECUTING"]
  <2>1. /\ c.actions = [s.actions EXCEPT ![i] = BuildAction(s, d)]
        /\ c.actionCount = s.actionCount + 1 /\ c.installs = s.installs
    BY <1>1 DEF Recorded, AgentTaskState
  <2>2. Goto(h, "begin", task[h], i, c)
    BY <1>8 DEF DecisionExecutes
  <2> HIDE DEF c
  <2>3. QED
    BY <1>5, <2>1, <2>2 DEF PC
<1>9. CASE ReasonerRaises(h)
  BY <1>1, <1>9, ReleaseIsAMove DEF ReasonerRaises, Escapes, Ends
<1>10. QED
  BY <1>3, <1>4, <1>6, <1>7, <1>8, <1>9 DEF ReasonerAnswers

LEMMA ActionRunsMoves ==
  ASSUME IInv, NEW h \in Handlers, ActionRuns(h)
  PROVE  GoesOn(h) \/ HasCalled(h) \/ Ends(h) \/ InstallRaisesAfterwards(h)
<1> DEFINE s == snap[h]
           ty == TypeOf(h)
<1>1. pc[h] = "effect" /\ s \in AgentTaskState
  BY DEF ActionRuns, CheckEnvironment, DiscoverTarget, ResearchTool,
         ResearchRaises, InstallRaisesAfterwards,
         InstallWithoutTool, InstallOverBudget, InstallRefused, InstallRaises,
         InstallRuns, DiagnosticRefused, DiagnosticRaises, DiagnosticRuns,
         AnalyzeOutput, VerifyFinding, AskUser, WaitForApproval, Complete,
         Executing, IInv, HandlersOK
<1>2. /\ SameCharges(Succeeded(s, ty), s) /\ SameCharges(Observed(s, ty), s)
      /\ \A class : SameCharges(Failed(s, ty, class), s)
      /\ \A p : SameCharges([s EXCEPT !.phase = p], s)
  BY <1>1, OutcomesAreFree
<1>3. ASSUME NEW c, SameCharges(c, s), Concludes(h, c)
      PROVE  GoesOn(h)
  BY <1>1, <1>3, GotoIsAMove DEF Concludes, Finish, GoesOn, historyVars
<1>4. ASSUME Escapes(h)
      PROVE  Ends(h)
  BY <1>1, <1>4, ReleaseIsAMove DEF Escapes, Ends, historyVars
<1>5. CASE CheckEnvironment(h)
  BY <1>2, <1>3, <1>5 DEF CheckEnvironment
<1>6. CASE DiscoverTarget(h)
  BY <1>2, <1>3, <1>6 DEF DiscoverTarget
<1>7. CASE ResearchTool(h)
  BY <1>2, <1>3, <1>7 DEF ResearchTool
<1>8. CASE InstallWithoutTool(h)
  BY <1>2, <1>3, <1>8 DEF InstallWithoutTool
<1>9. CASE InstallRefused(h)
  BY <1>2, <1>3, <1>9 DEF InstallRefused
<1>10. CASE DiagnosticRefused(h)
  BY <1>2, <1>3, <1>10 DEF DiagnosticRefused
<1>11. CASE AskUser(h) \/ Complete(h)
  BY <1>2, <1>3, <1>11 DEF AskUser, Complete
<1>12. CASE WaitForApproval(h)
  <2> DEFINE c == [s EXCEPT !.phase = "WAITING_FOR_APPROVAL", !.pending = act[h]]
  <2>1. SameCharges(c, s)
    BY <1>1, SameActionsSameCharges DEF AgentTaskState
  <2>2. Concludes(h, c)
    BY <1>12 DEF WaitForApproval
  <2> HIDE DEF c
  <2>3. QED
    BY <1>3, <2>1, <2>2
<1>13. CASE AnalyzeOutput(h)
  <2> DEFINE c == [Succeeded(s, ty) EXCEPT !.openFindings = @ + 1]
  <2>1. SameCharges(c, s)
    <3>1. c.actions = s.actions /\ c.actionCount = s.actionCount /\ c.installs = s.installs
      BY <1>1 DEF Succeeded, AgentTaskState
    <3> HIDE DEF c
    <3>2. QED
      BY <3>1, SameActionsSameCharges
  <2>2. Concludes(h, c) \/ Concludes(h, Failed(s, ty, "unexpected_output"))
    BY <1>13 DEF AnalyzeOutput
  <2> HIDE DEF c
  <2>3. QED
    BY <1>2, <1>3, <2>1, <2>2
<1>14. CASE VerifyFinding(h)
  <2> DEFINE c == [Succeeded(s, ty) EXCEPT !.openFindings = @ - 1]
  <2>1. SameCharges(c, s)
    <3>1. c.actions = s.actions /\ c.actionCount = s.actionCount /\ c.installs = s.installs
      BY <1>1 DEF Succeeded, AgentTaskState
    <3> HIDE DEF c
    <3>2. QED
      BY <3>1, SameActionsSameCharges
  <2>2. \/ Concludes(h, c) \/ Concludes(h, Succeeded(s, ty))
        \/ Concludes(h, Failed(s, ty, "unexpected_output"))
    BY <1>1, <1>14 DEF VerifyFinding, AgentTaskState
  <2> HIDE DEF c
  <2>3. QED
    BY <1>2, <1>3, <2>1, <2>2
<1>15. CASE \/ InstallOverBudget(h) \/ InstallRaises(h) \/ DiagnosticRaises(h)
            \/ ResearchRaises(h)
  BY <1>4, <1>15
  DEF InstallOverBudget, InstallRaises, DiagnosticRaises, ResearchRaises
<1>16. ASSUME NEW c, Finish(h, c), CallsService(h), db' = db,
              NEW m, SameCharges(c, m), SameCharges(m, [s EXCEPT !.installs = m.installs]),
              m.installs = IF ty = "INSTALL_TOOL" THEN s.installs + 1 ELSE s.installs
       PROVE  HasCalled(h)
  <2>1. /\ Taken(c) = Taken(s) /\ c.actionCount = s.actionCount
        /\ c.installs = IF ty = "INSTALL_TOOL" THEN s.installs + 1 ELSE s.installs
        /\ \A i \in ActionIds : c.actions[i].type = s.actions[i].type
    BY <1>1, <1>16 DEF SameCharges, Taken, AgentTaskState
  <2>2. QED
    BY <1>1, <1>16, <2>1, GotoIsAMove DEF Finish, HasCalled
<1>17. CASE InstallRuns(h)
  <2> DEFINE m == [s EXCEPT !.installs = @ + 1]
  <2>1. /\ m \in AgentTaskState /\ m.actions = s.actions
        /\ m.actionCount = s.actionCount /\ m.installs = s.installs + 1
        /\ m = [s EXCEPT !.installs = m.installs]
    BY <1>1 DEF AgentTaskState
  <2>2. ty = "INSTALL_TOOL"
    BY <1>17 DEF InstallRuns, Executing, TypeOf
  <2>3. /\ Finish(h, Observed(m, ty)) \/ Finish(h, Failed(m, ty, "tool_unavailable"))
        /\ CallsService(h) /\ db' = db
    BY <1>17 DEF InstallRuns
  <2> HIDE DEF m
  <2>4. /\ SameCharges(Observed(m, ty), m)
        /\ SameCharges(Failed(m, ty, "tool_unavailable"), m)
        /\ SameCharges(m, [s EXCEPT !.installs = m.installs])
    BY <2>1, OutcomesAreFree, SameActionsSameCharges
  <2>5. QED
    BY <1>16, <2>1, <2>2, <2>3, <2>4
<1>18. CASE DiagnosticRuns(h)
  <2>1. ty # "INSTALL_TOOL" /\ CallsService(h) /\ db' = db
    BY <1>18 DEF DiagnosticRuns, Executing, TypeOf
  <2>2. SameCharges(s, [s EXCEPT !.installs = s.installs])
    BY <1>1, SameActionsSameCharges DEF AgentTaskState
  <2>3. QED
    BY <1>2, <1>16, <1>18, <2>1, <2>2 DEF DiagnosticRuns
<1>19. QED
  BY <1>5, <1>6, <1>7, <1>8, <1>9, <1>10, <1>11, <1>12, <1>13, <1>14, <1>15,
     <1>17, <1>18
  DEF ActionRuns

\* Every step is one of these moves, or no request takes part in it.
LEMMA StepMoves ==
  ASSUME IInv, [Serve]_vars
  PROVE  \/ UNCHANGED <<db, ran, pc, task, snap>>
         \/ \E h \in Handlers : \/ \E t \in Tasks : Begins(h, t)
                                \/ GoesOn(h) \/ Decides(h) \/ HasCalled(h) \/ Ends(h)
                                \/ InstallRaisesAfterwards(h)
<1>1. ASSUME NEW h \in Handlers, NEW t \in Tasks, UserRequest(h, t) \/ StepRequest(h, t)
      PROVE  Begins(h, t)
  BY <1>1, RequestBegins
<1>2. ASSUME NEW h \in Handlers, ReasonerAnswers(h) \/ ActionRuns(h)
      PROVE  \/ GoesOn(h) \/ Decides(h) \/ HasCalled(h) \/ Ends(h)
             \/ InstallRaisesAfterwards(h)
  BY <1>2, ReasonerAnswersMoves, ActionRunsMoves
<1>3. ASSUME NEW h \in Handlers, InsertTask(h)
      PROVE  GoesOn(h)
  <2> DEFINE c == Authorize(snap[h])
  <2>1. SameCharges(c, snap[h])
    BY OutcomesAreFree DEF Authorize, IInv, HandlersOK
  <2>2. Goto(h, "save", task[h], None, c)
    BY <1>3 DEF InsertTask, Finish
  <2> HIDE DEF c
  <2>3. QED
    BY <1>3, <2>1, <2>2, GotoIsAMove DEF InsertTask, GoesOn, historyVars
<1>4. ASSUME NEW h \in Handlers, BeginExecution(h)
      PROVE  GoesOn(h)
  BY <1>4, GotoIsAMove DEF BeginExecution, GoesOn, SameCharges, historyVars
<1>5. ASSUME NEW h \in Handlers, Save(h)
      PROVE  Ends(h)
  BY <1>5, ReleaseIsAMove DEF Save, Ends, historyVars
<1>6. CASE UNCHANGED vars \/ \E t \in Tasks : DurationPasses(t)
  BY <1>6 DEF vars, DurationPasses, handlerVars, historyVars
<1>7. QED
  BY <1>1, <1>2, <1>3, <1>4, <1>5, <1>6 DEF Serve, Progress

-----------------------------------------------------------------------------
(* What the counts say of the services that were called.                   *)

\* Every action of s was charged to it.
Charged(s) == IsFiniteSet(Taken(s)) /\ Cardinality(Taken(s)) <= s.actionCount

ChargedInv ==
  /\ \A t \in Tasks : Charged(db[t])
  /\ \A h \in Handlers : Charged(snap[h])

LEMMA SameIsCharged ==
  ASSUME NEW s, NEW c, Charged(s), SameCharges(c, s)
  PROVE  Charged(c)
  BY DEF Charged, SameCharges

LEMMA UnchargedIsCharged ==
  ASSUME NEW c, Uncharged(c)
  PROVE  Charged(c)
  BY FS_EmptySet DEF Charged, Uncharged

\* An action more, and one charged for it.
LEMMA DecidedIsCharged ==
  ASSUME IInv, ChargedInv, NEW h \in Handlers, Decides(h)
  PROVE  Charged(snap'[h])
<1> DEFINE s == snap[h]
           c == snap'[h]
<1>1. PICK i \in NewIds : Taken(c) \subseteq Taken(s) \cup {i}
  BY DEF Decides
<1>2. /\ IsFiniteSet(Taken(s)) /\ Cardinality(Taken(s)) <= s.actionCount
      /\ s.actionCount \in Nat /\ c.actionCount = s.actionCount + 1
  BY DEF Decides, ChargedInv, Charged, IInv, HandlersOK, AgentTaskState
<1> HIDE DEF s, c
<1>3. /\ IsFiniteSet(Taken(s) \cup {i})
      /\ Cardinality(Taken(s) \cup {i}) \in {Cardinality(Taken(s)), Cardinality(Taken(s)) + 1}
  BY <1>2, FS_AddElement
<1>4. IsFiniteSet(Taken(c)) /\ Cardinality(Taken(c)) <= Cardinality(Taken(s) \cup {i})
  BY <1>1, <1>3, FS_Subset
<1>5. Cardinality(Taken(s)) \in Nat /\ Cardinality(Taken(c)) \in Nat
  BY <1>2, <1>4, FS_CardinalityType
<1>6. Cardinality(Taken(c)) <= c.actionCount
  BY <1>2, <1>3, <1>4, <1>5
<1>7. Charged(c)
  BY <1>4, <1>6 DEF Charged
<1>8. QED
  BY <1>7 DEF c

\* The record written is a copy that was charged.
LEMMA WriteIsCharged ==
  ASSUME IInv, ChargedInv, NEW h \in Handlers, Write(h) \/ UNCHANGED db
  PROVE  \A t \in Tasks : Charged(db'[t])
<1>1. \A t \in Tasks : db'[t] \in {db[t], snap[h]}
  BY DEF IInv, StoredOK, Write
<1>2. QED
  BY <1>1 DEF ChargedInv

LEMMA ServeKeepsCharged ==
  ASSUME IInv, ChargedInv, [Serve]_vars
  PROVE  ChargedInv'
<1>1. ASSUME NEW h \in Handlers, OnlyMoves(h), Charged(snap'[h]), Write(h) \/ UNCHANGED db
      PROVE  ChargedInv'
  <2>1. \A g \in Handlers : Charged(snap'[g])
    BY <1>1 DEF OnlyMoves, ChargedInv
  <2>2. \A t \in Tasks : Charged(db'[t])
    BY <1>1, WriteIsCharged
  <2>3. QED
    BY <2>1, <2>2 DEF ChargedInv, Charged, Taken
<1>2. CASE UNCHANGED <<db, ran, pc, task, snap>>
  BY <1>2 DEF ChargedInv, Charged, Taken
<1>3. ASSUME NEW h \in Handlers, NEW t \in Tasks, Begins(h, t)
      PROVE  ChargedInv'
  <2>1. Charged(snap'[h])
    BY <1>3, SameIsCharged, UnchargedIsCharged DEF Begins, ChargedInv
  <2>2. QED
    BY <1>1, <1>3, <2>1 DEF Begins
<1>4. ASSUME NEW h \in Handlers, GoesOn(h)
      PROVE  ChargedInv'
  <2>1. Charged(snap'[h])
    BY <1>4, SameIsCharged DEF GoesOn, ChargedInv
  <2>2. QED
    BY <1>1, <1>4, <2>1 DEF GoesOn
<1>5. ASSUME NEW h \in Handlers, Decides(h)
      PROVE  ChargedInv'
  BY <1>1, <1>5, DecidedIsCharged DEF Decides
<1>6. ASSUME NEW h \in Handlers, HasCalled(h)
      PROVE  ChargedInv'
  <2>1. Charged(snap'[h])
    BY <1>6 DEF HasCalled, Charged, ChargedInv
  <2>2. QED
    BY <1>1, <1>6, <2>1 DEF HasCalled
<1>7. ASSUME NEW h \in Handlers, Ends(h)
      PROVE  ChargedInv'
  BY <1>1, <1>7, UnchargedIsCharged DEF Ends
<1>8. ASSUME NEW h \in Handlers, InstallRaisesAfterwards(h)
      PROVE  ChargedInv'
  BY <1>1, <1>8, ReleaseIsAMove, UnchargedIsCharged DEF InstallRaisesAfterwards
<1>9. QED
  BY <1>2, <1>3, <1>4, <1>5, <1>6, <1>7, <1>8, StepMoves

LEMMA BlankIsUncharged == Uncharged(BlankTask)
  BY DEF Uncharged, Taken, BlankTask

LEMMA NextKeepsCharged ==
  ASSUME IInv, ChargedInv, [Next]_vars
  PROVE  ChargedInv'
<1>1. CASE Restart
  <2>1. \A h \in Handlers : Charged(snap'[h])
    BY <1>1, BlankIsUncharged, UnchargedIsCharged DEF Restart
  <2>2. QED
    BY <1>1, <2>1 DEF Restart, ChargedInv, Charged, Taken
<1>2. CASE [Serve]_vars
  BY <1>2, ServeKeepsCharged
<1>3. QED
  BY <1>1, <1>2 DEF Next

LEMMA InitIsCharged == Init => ChargedInv
  BY BlankIsUncharged, UnchargedIsCharged DEF Init, ChargedInv

\* The actions of task t whose service was called.
Served(t) == {i \in ActionIds : db[t].actions[i] # NoAction /\ ran[i] > 0}

\* The services are called for no more than max_actions actions of a task.
ServicesWithinBudget ==
  \A t \in Tasks : IsFiniteSet(Served(t)) /\ Cardinality(Served(t)) <= MaxActions

\* However many requests overlap and however often the process restarts, the
\* services are called for at most max_actions of the actions on a task's
\* record: no record has an action it was not charged for.  An action that an
\* overlapping request took off the record does not count; one request at a time
\* for each task there is none (SerialEffectsAreRecorded).
THEOREM ServicesStayWithinBudget == Spec => []ServicesWithinBudget
<1>1. IInv /\ ChargedInv => ServicesWithinBudget
  <2> SUFFICES ASSUME IInv, ChargedInv, NEW t \in Tasks
               PROVE  IsFiniteSet(Served(t)) /\ Cardinality(Served(t)) <= MaxActions
    BY DEF ServicesWithinBudget
  <2>1. /\ IsFiniteSet(Taken(db[t])) /\ Cardinality(Taken(db[t])) <= db[t].actionCount
        /\ db[t].actionCount \in Nat /\ db[t].actionCount <= MaxActions
    BY DEF ChargedInv, Charged, IInv, StoredOK, Good, WithinBudget, AgentTaskState
  <2>2. Served(t) \in SUBSET Taken(db[t])
    BY DEF Served, Taken
  <2>3. IsFiniteSet(Served(t)) /\ Cardinality(Served(t)) <= Cardinality(Taken(db[t]))
    BY <2>1, <2>2, FS_Subset
  <2>4. Cardinality(Served(t)) \in Nat /\ Cardinality(Taken(db[t])) \in Nat
    BY <2>1, <2>3, FS_CardinalityType
  <2>5. QED
    BY <2>1, <2>3, <2>4, ConstantsAssumption
<1>2. IInv /\ ChargedInv /\ [Next]_vars => ChargedInv'
  BY NextKeepsCharged
<1>3. QED
  BY <1>1, <1>2, InitIsCharged, InvariantHolds, PTL DEF Spec

-----------------------------------------------------------------------------
(* Installations.                                                          *)

\* The installations of s that were made, where R is how often services were
\* called.
Installed(s, R) == {i \in ActionIds : s.actions[i].type = "INSTALL_TOOL" /\ R[i] > 0}

\* s has counted them all.
Paid(s, R) == IsFiniteSet(Installed(s, R)) /\ Cardinality(Installed(s, R)) <= s.installs

Busy(t) == \E h \in Handlers : pc[h] # "idle" /\ task[h] = t

\* A request for t has counted an installation that it has still to save.
CountUnsaved(t) ==
  \E h \in Handlers :
    pc[h] = "save" /\ task[h] = t /\ snap[h].installs # db[t].installs

\* An installation stays uncounted: the process restarts before the count is
\* saved, or start_installation raises after its command.
LosesCount ==
  \/ Restart /\ \E t \in Tasks : CountUnsaved(t)
  \/ \E h \in Handlers : InstallRaisesAfterwards(h)

\* The copy of a task that is worked on has counted its installations, and its
\* record too unless the count is still to be saved.
PaidInv ==
  /\ \A h \in Handlers : pc[h] # "idle" =>
       /\ Paid(snap[h], ran)
       /\ \A i \in Taken(db[task[h]]) :
            snap[h].actions[i].type = db[task[h]].actions[i].type
  /\ \A t \in Tasks : ~CountUnsaved(t) => Paid(db[t], ran)

LEMMA FewerArePaid ==
  ASSUME NEW s, NEW c, NEW R, NEW Q, Paid(s, R),
         Installed(c, Q) \subseteq Installed(s, R), c.installs = s.installs, s.installs \in Nat
  PROVE  Paid(c, Q)
<1>1. IsFiniteSet(Installed(c, Q)) /\ Cardinality(Installed(c, Q)) <= Cardinality(Installed(s, R))
  BY FS_Subset DEF Paid
<1>2. Cardinality(Installed(c, Q)) \in Nat /\ Cardinality(Installed(s, R)) \in Nat
  BY <1>1, FS_CardinalityType DEF Paid
<1>3. QED
  BY <1>1, <1>2 DEF Paid

\* The handlers but h, and what the tasks but h's have stored.
LEMMA OthersStayPaid ==
  ASSUME OneRequestPerTask, IInv, SerialInv, PaidInv, NEW h \in Handlers, pc[h] # "idle",
         OnlyMoves(h), Write(h) \/ UNCHANGED db,
         ran' = ran \/ (pc[h] = "effect" /\ CallsService(h))
  PROVE  /\ \A g \in Handlers \ {h} : pc'[g] # "idle" =>
              /\ Paid(snap'[g], ran')
              /\ \A i \in Taken(db'[task'[g]]) :
                   snap'[g].actions[i].type = db'[task'[g]].actions[i].type
         /\ \A t \in Tasks \ {task[h]} : ~CountUnsaved(t)' => Paid(db'[t], ran')
<1>1. \A t \in Tasks \ {task[h]} : db'[t] = db[t]
  BY DEF IInv, StoredOK, Write
<1>2. \A i \in ActionIds : ran'[i] # ran[i] => i \in Taken(snap[h])
  BY DEF IInv, StoredOK, HandlersOK, HandlerOK, CallsService, Taken, NoAction
<1>3. ASSUME NEW s, Taken(s) \cap Taken(snap[h]) = {}
      PROVE  Installed(s, ran') = Installed(s, ran)
  BY <1>2, <1>3 DEF Installed, Taken, NoAction
<1>4. ASSUME NEW g \in Handlers \ {h}, pc'[g] # "idle"
      PROVE  /\ Paid(snap'[g], ran')
             /\ \A i \in Taken(db'[task'[g]]) :
                  snap'[g].actions[i].type = db'[task'[g]].actions[i].type
  <2>1. pc[g] # "idle" /\ snap'[g] = snap[g] /\ task'[g] = task[g]
    BY <1>4 DEF OnlyMoves
  <2>2. task[g] \in Tasks /\ task[g] # task[h]
    BY <2>1 DEF OneRequestPerTask, IInv, HandlersOK, HandlerOK
  <2>3. Taken(snap[g]) \cap Taken(snap[h]) = {}
    BY <2>1 DEF SerialInv, CopiesApart
  <2>4. Paid(snap[g], ran')
    BY <1>3, <2>1, <2>3 DEF PaidInv, Paid
  <2>5. db'[task[g]] = db[task[g]]
    BY <1>1, <2>2
  <2>6. QED
    BY <2>1, <2>4, <2>5 DEF PaidInv
<1>5. ASSUME NEW t \in Tasks \ {task[h]}, ~CountUnsaved(t)'
      PROVE  Paid(db'[t], ran')
  <2>1. Taken(db[t]) \cap Taken(snap[h]) = {}
    BY DEF SerialInv, CopySerial
  <2>2. ~CountUnsaved(t)
    <3> SUFFICES ASSUME NEW g \in Handlers, pc[g] = "save", task[g] = t,
                        snap[g].installs # db[t].installs
                 PROVE  FALSE
      BY DEF CountUnsaved
    <3>1. g # h /\ pc'[g] = pc[g] /\ task'[g] = task[g] /\ snap'[g] = snap[g]
      BY DEF OnlyMoves
    <3>2. QED
      BY <1>1, <1>5, <3>1 DEF CountUnsaved
  <2>3. QED
    BY <1>1, <1>3, <2>1, <2>2 DEF PaidInv, Paid
<1>6. QED
  BY <1>4, <1>5

LEMMA BeginsIsPaid ==
  ASSUME OneRequestPerTask', IInv, SerialInv, PaidInv,
         NEW h \in Handlers, NEW t \in Tasks, Begins(h, t)
  PROVE  PaidInv'
<1>1. /\ OnlyMoves(h) /\ db' = db /\ ran' = ran
      /\ pc[h] = "idle" /\ pc'[h] # "idle" /\ task'[h] = t
  BY DEF Begins
<1>2. ~Busy(t)
  <2> SUFFICES ASSUME NEW g \in Handlers, pc[g] # "idle", task[g] = t
               PROVE  FALSE
    BY DEF Busy
  <2>1. g # h /\ pc'[g] = pc[g] /\ task'[g] = task[g]
    BY <1>1 DEF OnlyMoves
  <2>2. QED
    BY <1>1, <2>1 DEF OneRequestPerTask
<1>3. /\ Paid(snap'[h], ran)
      /\ \A i \in Taken(db[t]) : snap'[h].actions[i].type = db[t].actions[i].type
  <2>1. CASE SameCharges(snap'[h], db[t])
    <3>1. /\ Paid(db[t], ran) /\ db[t].installs \in Nat
          /\ Installed(snap'[h], ran) \subseteq Installed(db[t], ran)
          /\ snap'[h].installs = db[t].installs
      BY <1>2, <2>1
      DEF PaidInv, Busy, CountUnsaved, SameCharges, Installed, IInv, StoredOK,
          AgentTaskState
    <3>2. QED
      BY <2>1, <3>1, FewerArePaid DEF SameCharges, Taken
  <2>2. CASE db[t].phase = "CREATED" /\ Uncharged(snap'[h])
    <3>1. Taken(db[t]) = {}
      BY <2>2 DEF SerialInv, RecordsSerial
    <3>2. Installed(snap'[h], ran) = {} /\ snap'[h].installs = 0
      BY <2>2 DEF Uncharged, Installed, Taken, NoAction
    <3>3. QED
      BY <3>1, <3>2, FS_EmptySet DEF Paid
  <2>3. QED
    BY <2>1, <2>2 DEF Begins
<1>4. \A g \in Handlers : pc'[g] # "idle" =>
        /\ Paid(snap'[g], ran')
        /\ \A i \in Taken(db'[task'[g]]) :
             snap'[g].actions[i].type = db'[task'[g]].actions[i].type
  <2>1. ASSUME NEW g \in Handlers \ {h}, pc'[g] # "idle"
        PROVE  /\ Paid(snap'[g], ran')
               /\ \A i \in Taken(db'[task'[g]]) :
                    snap'[g].actions[i].type = db'[task'[g]].actions[i].type
    BY <1>1, <2>1 DEF OnlyMoves, PaidInv
  <2>2. QED
    BY <1>1, <1>3, <2>1
<1>5. ASSUME NEW u \in Tasks, ~CountUnsaved(u)'
      PROVE  Paid(db'[u], ran')
  <2>1. ~CountUnsaved(u)
    BY <1>1, <1>5 DEF CountUnsaved, OnlyMoves
  <2>2. QED
    BY <1>1, <2>1 DEF PaidInv
<1>6. QED
  BY <1>4, <1>5 DEF PaidInv, Paid, Installed, Taken

\* A request that is not about to save has nothing left to count.
LEMMA WorkingIsPaid ==
  ASSUME OneRequestPerTask, IInv, PaidInv, NEW h \in Handlers,
         pc[h] \notin {"idle", "save"}
  PROVE  Paid(db[task[h]], ran)
<1>1. task[h] \in Tasks /\ ~CountUnsaved(task[h])
  BY DEF OneRequestPerTask, IInv, HandlersOK, HandlerOK, CountUnsaved
<1>2. QED
  BY <1>1 DEF PaidInv

\* A request that goes on, with its copy counted.
LEMMA BusyIsPaid ==
  ASSUME OneRequestPerTask, IInv, SerialInv, PaidInv, NEW h \in Handlers, pc[h] # "idle",
         OnlyMoves(h), Write(h) \/ UNCHANGED db,
         ran' = ran \/ (pc[h] = "effect" /\ CallsService(h)),
         pc'[h] # "idle", task'[h] = task[h], Paid(snap'[h], ran'),
         snap'[h].installs \in Nat, (ran' = ran /\ pc[h] # "save") \/ pc'[h] = "save",
         \A i \in Taken(snap[h]) : snap'[h].actions[i].type = snap[h].actions[i].type
  PROVE  PaidInv'
<1> DEFINE t == task[h]
<1>1. t \in Tasks /\ Taken(db[t]) \subseteq Taken(snap[h])
  BY DEF IInv, HandlersOK, HandlerOK, SerialInv, CopySerial
<1>2. db'[t] \in {db[t], snap[h]}
  BY <1>1 DEF IInv, StoredOK, Write
<1>3. \A i \in Taken(db'[t]) : snap'[h].actions[i].type = db'[t].actions[i].type
  BY <1>1, <1>2 DEF PaidInv
<1>4. ~CountUnsaved(t)' => Paid(db'[t], ran')
  <2>1. CASE ran' = ran /\ pc[h] # "save"
    BY <1>2, <2>1, WorkingIsPaid DEF PaidInv
  <2>2. CASE pc'[h] = "save" /\ ~CountUnsaved(t)'
    <3>1. db'[t].installs = snap'[h].installs
      BY <2>2 DEF CountUnsaved
    <3>2. Installed(db'[t], ran') \subseteq Installed(snap'[h], ran')
      BY <1>3 DEF Installed, Taken, NoAction
    <3>3. QED
      BY <3>1, <3>2, FewerArePaid
  <2>3. QED
    BY <2>1, <2>2
<1>5. \A g \in Handlers : pc'[g] # "idle" =>
        /\ Paid(snap'[g], ran')
        /\ \A i \in Taken(db'[task'[g]]) :
             snap'[g].actions[i].type = db'[task'[g]].actions[i].type
  BY <1>3, OthersStayPaid
<1>6. \A u \in Tasks : ~CountUnsaved(u)' => Paid(db'[u], ran')
  BY <1>4, OthersStayPaid
<1>7. QED
  BY <1>5, <1>6 DEF PaidInv, Paid, Installed, Taken, CountUnsaved

LEMMA GoesOnIsPaid ==
  ASSUME OneRequestPerTask, IInv, SerialInv, PaidInv, NEW h \in Handlers, GoesOn(h)
  PROVE  PaidInv'
<1>1. /\ Paid(snap[h], ran) /\ snap[h].installs \in Nat
      /\ Installed(snap'[h], ran) \subseteq Installed(snap[h], ran)
      /\ snap'[h].installs = snap[h].installs
  BY DEF GoesOn, PaidInv, SameCharges, Installed, IInv, HandlersOK, AgentTaskState
<1>2. Paid(snap'[h], ran)
  BY <1>1, FewerArePaid
<1>3. QED
  BY <1>1, <1>2, BusyIsPaid DEF GoesOn, SameCharges, Taken

LEMMA DecidesIsPaid ==
  ASSUME OneRequestPerTask, IInv, SerialInv, PaidInv, NEW h \in Handlers, Decides(h)
  PROVE  PaidInv'
<1>1. PICK i \in NewIds :
        \A j \in ActionIds \ {i} : snap'[h].actions[j].type = snap[h].actions[j].type
  BY DEF Decides
<1>2. i \in ActionIds /\ ran[i] = 0 /\ i \notin Taken(snap[h])
  BY NewIdIsFresh DEF Fresh, Taken
<1>3. /\ Paid(snap[h], ran) /\ snap[h].installs \in Nat
      /\ Installed(snap'[h], ran) \subseteq Installed(snap[h], ran)
      /\ snap'[h].installs = snap[h].installs
  BY <1>1, <1>2 DEF Decides, PaidInv, Installed, IInv, HandlersOK, AgentTaskState
<1>4. Paid(snap'[h], ran)
  BY <1>3, FewerArePaid
<1>5. \A j \in Taken(snap[h]) : snap'[h].actions[j].type = snap[h].actions[j].type
  BY <1>1, <1>2 DEF Taken
<1>6. QED
  BY <1>3, <1>4, <1>5, BusyIsPaid DEF Decides

\* The call of the installation service is counted on the copy.
LEMMA HasCalledIsPaid ==
  ASSUME OneRequestPerTask, IInv, SerialInv, PaidInv, NEW h \in Handlers, HasCalled(h)
  PROVE  PaidInv'
<1> DEFINE s == snap[h]
           c == snap'[h]
           a == act[h]
<1>1. /\ Paid(s, ran) /\ s.installs \in Nat /\ a \in ActionIds
      /\ \A i \in ActionIds \ {a} : ran'[i] = ran[i]
  BY DEF HasCalled, PaidInv, IInv, StoredOK, HandlersOK, HandlerOK, AgentTaskState, CallsService
<1>2. \A i \in ActionIds : c.actions[i].type = s.actions[i].type
  BY DEF HasCalled
<1>3. CASE TypeOf(h) # "INSTALL_TOOL"
  <2>1. Installed(c, ran') \subseteq Installed(s, ran) /\ c.installs = s.installs
    BY <1>1, <1>2, <1>3 DEF Installed, TypeOf, HasCalled
  <2>2. Paid(c, ran')
    BY <1>1, <2>1, FewerArePaid
  <2>3. QED
    BY <1>1, <1>2, <2>1, <2>2, BusyIsPaid DEF HasCalled, Taken
<1>4. CASE TypeOf(h) = "INSTALL_TOOL"
  <2>1. c.installs = s.installs + 1
    BY <1>4 DEF HasCalled
  <2>2. Installed(c, ran') \subseteq Installed(s, ran) \cup {a}
    BY <1>1, <1>2 DEF Installed
  <2>3. /\ IsFiniteSet(Installed(s, ran) \cup {a})
        /\ Cardinality(Installed(s, ran) \cup {a})
             \in {Cardinality(Installed(s, ran)), Cardinality(Installed(s, ran)) + 1}
    BY <1>1, FS_AddElement DEF Paid
  <2>4. /\ IsFiniteSet(Installed(c, ran'))
        /\ Cardinality(Installed(c, ran')) <= Cardinality(Installed(s, ran) \cup {a})
    BY <2>2, <2>3, FS_Subset
  <2>5. Cardinality(Installed(s, ran)) \in Nat /\ Cardinality(Installed(c, ran')) \in Nat
    BY <1>1, <2>4, FS_CardinalityType DEF Paid
  <2>6. Cardinality(Installed(s, ran)) <= s.installs
    BY <1>1 DEF Paid
  <2>7. Cardinality(Installed(c, ran')) <= c.installs
    <3> HIDE DEF s, c
    <3>1. QED
      BY <1>1, <2>1, <2>3, <2>4, <2>5, <2>6
  <2>8. Paid(c, ran')
    BY <2>4, <2>7 DEF Paid
  <2>9. QED
    BY <1>1, <1>2, <2>1, <2>8, BusyIsPaid DEF HasCalled, Taken
<1>5. QED
  BY <1>3, <1>4

\* What a request that is over leaves on record has been counted.
LEMMA EndsIsPaid ==
  ASSUME OneRequestPerTask, IInv, SerialInv, PaidInv, NEW h \in Handlers, Ends(h)
  PROVE  PaidInv'
<1> DEFINE t == task[h]
<1>1. t \in Tasks /\ Paid(snap[h], ran)
  BY DEF Ends, IInv, HandlersOK, HandlerOK, PaidInv
<1>2. Paid(db'[t], ran')
  <2>1. CASE Write(h)
    BY <1>1, <2>1 DEF Ends, IInv, StoredOK, Write
  <2>2. CASE pc[h] # "save" /\ UNCHANGED db
    BY <2>2, WorkingIsPaid DEF Ends
  <2>3. QED
    BY <2>1, <2>2 DEF Ends
<1>3. /\ \A u \in Tasks : ~CountUnsaved(u)' => Paid(db'[u], ran')
      /\ \A g \in Handlers : pc'[g] # "idle" =>
           /\ Paid(snap'[g], ran')
           /\ \A i \in Taken(db'[task'[g]]) :
                snap'[g].actions[i].type = db'[task'[g]].actions[i].type
  BY <1>2, OthersStayPaid DEF Ends
<1>4. QED
  BY <1>3 DEF PaidInv, Paid, Installed, Taken, CountUnsaved

LEMMA NextKeepsPaid ==
  ASSUME OneRequestPerTask, OneRequestPerTask', IInv, SerialInv, PaidInv, [Next]_vars,
         [~LosesCount]_vars
  PROVE  PaidInv'
<1>1. CASE UNCHANGED <<db, ran, pc, task, snap>>
  BY <1>1 DEF PaidInv, Paid, Installed, Taken, CountUnsaved
<1>2. CASE Restart /\ ~LosesCount
  <2>1. \A t \in Tasks : Paid(db'[t], ran')
    BY <1>2 DEF LosesCount, PaidInv, Restart, historyVars
  <2>2. \A h \in Handlers : pc'[h] = "idle"
    BY <1>2 DEF Restart
  <2>3. QED
    BY <2>1, <2>2 DEF PaidInv, Paid, Installed, Taken, CountUnsaved
<1>3. CASE Serve /\ ~LosesCount
  BY <1>1, <1>3, BeginsIsPaid, GoesOnIsPaid, DecidesIsPaid, HasCalledIsPaid, EndsIsPaid,
     StepMoves
  DEF LosesCount
<1>4. CASE UNCHANGED vars
  BY <1>1, <1>4 DEF vars, handlerVars, historyVars
<1>5. QED
  BY <1>2, <1>3, <1>4 DEF Next

LEMMA InitIsPaid == Init => PaidInv
<1> SUFFICES ASSUME Init PROVE PaidInv
  OBVIOUS
<1>1. \A t \in Tasks : Installed(db[t], ran) = {} /\ db[t].installs = 0
  BY DEF Init, BlankTask, Installed
<1>2. QED
  BY <1>1, FS_EmptySet DEF Init, PaidInv, Paid

\* The installation service is called for no more than max_tool_installations
\* actions of a task.
InstallationsWithinBudget ==
  \A t \in Tasks :
    LET made == {i \in ActionIds : db[t].actions[i].type = "INSTALL_TOOL" /\ ran[i] > 0}
    IN  IsFiniteSet(made) /\ Cardinality(made) <= MaxInstalls

\* One request at a time for each task, and whenever the process restarts, no
\* more tools are installed for a task than its budget allows, although the
\* installation is made before its count is stored: only a lost count can let
\* one more pass, a restart before the count is saved or an exception of
\* start_installation after its command.  The code does not exclude either.
THEOREM InstallationsStayWithinBudget ==
  Spec /\ []OneRequestPerTask /\ [][~LosesCount]_vars => []InstallationsWithinBudget
<1>1. IInv /\ SerialInv /\ PaidInv => InstallationsWithinBudget
  <2> SUFFICES ASSUME IInv, SerialInv, PaidInv, NEW t \in Tasks
               PROVE  /\ IsFiniteSet(Installed(db[t], ran))
                      /\ Cardinality(Installed(db[t], ran)) <= MaxInstalls
    BY DEF InstallationsWithinBudget, Installed
  <2>1. ASSUME NEW s, Paid(s, ran), Installed(db[t], ran) \subseteq Installed(s, ran),
               s.installs \in Nat, s.installs <= MaxInstalls
        PROVE  /\ IsFiniteSet(Installed(db[t], ran))
               /\ Cardinality(Installed(db[t], ran)) <= MaxInstalls
    <3>1. /\ IsFiniteSet(Installed(db[t], ran))
          /\ Cardinality(Installed(db[t], ran)) <= Cardinality(Installed(s, ran))
      BY <2>1, FS_Subset DEF Paid
    <3>2. /\ Cardinality(Installed(db[t], ran)) \in Nat
          /\ Cardinality(Installed(s, ran)) \in Nat
      BY <2>1, <3>1, FS_CardinalityType DEF Paid
    <3>3. QED
      BY <2>1, <3>1, <3>2, ConstantsAssumption DEF Paid
  <2>2. CASE ~Busy(t)
    BY <2>1, <2>2
    DEF PaidInv, Busy, CountUnsaved, IInv, StoredOK, Good, WithinBudget, AgentTaskState
  <2>3. CASE Busy(t)
    <3>1. PICK h \in Handlers : pc[h] # "idle" /\ task[h] = t
      BY <2>3 DEF Busy
    <3>2. /\ Paid(snap[h], ran) /\ snap[h].installs \in Nat
          /\ snap[h].installs <= MaxInstalls
          /\ \A i \in Taken(db[t]) : snap[h].actions[i].type = db[t].actions[i].type
      BY <3>1 DEF PaidInv, IInv, HandlersOK, Good, WithinBudget, AgentTaskState
    <3>3. Installed(db[t], ran) \subseteq Installed(snap[h], ran)
      BY <3>2 DEF Installed, Taken, NoAction
    <3>4. QED
      BY <2>1, <3>2, <3>3
  <2>4. QED
    BY <2>2, <2>3
<1>2. /\ OneRequestPerTask /\ OneRequestPerTask'
      /\ IInv /\ SerialInv /\ PaidInv /\ [Next]_vars /\ [~LosesCount]_vars
      => PaidInv'
  BY NextKeepsPaid
<1>3. QED
  BY <1>1, <1>2, InitIsPaid, SerialInvariantHolds, PTL DEF Spec
=============================================================================
