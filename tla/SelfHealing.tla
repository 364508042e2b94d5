------------------------------ MODULE SelfHealing ------------------------------
(***************************************************************************)
(* SelfHealingEngine: from the signals of a failure to a diagnosis, from   *)
(* the diagnosis and what the task has been through to a strategy, and the *)
(* strategy into the history, which the next failure is judged by.         *)
(*                                                                         *)
(* The history is kept by task, since nothing looks at another task's, and *)
(* without the outcomes: nobody calls record_outcome, and nothing that is  *)
(* called reads what it would write.                                       *)
(***************************************************************************)
EXTENDS Naturals, Sequences, FiniteSetsExt

CONSTANTS
  Tasks,        \* agent tasks
  Signals,      \* FailureSignals that occur
  MaxRetries,   \* HealingPlannerConfig.max_retries
  MaxMultiplier,\* HealingPlannerConfig.max_timeout_multiplier
  MaxAttempts   \* bound on the attempts of all tasks

\* Categories with a pattern in _DIAGNOSIS_HINTS, and how sure it makes.
HintConfidence ==
  [missing_package |-> "HIGH", package_manager_failure |-> "MEDIUM",
   incompatible_version |-> "HIGH", permission_issue |-> "HIGH",
   missing_executable |-> "HIGH", network_connectivity |-> "MEDIUM",
   disk_space |-> "HIGH", invalid_argument |-> "MEDIUM"]

Hints == DOMAIN HintConfidence

\* Those of the diagnosis, and those that only the upstream classifier has.
Category ==
  Hints \cup {"policy_restriction", "timeout", "nonzero_exit", "unknown"}
        \cup {"missing_dependency", "unsupported_platform", "configuration_issue",
              "tool_unavailable", "unexpected_output"}

\* hint: the first pattern the output matches; category: the upstream
\* classifier's; either may be "none".
FailureSignals ==
  [policy_denied : BOOLEAN, timed_out : BOOLEAN, exited : BOOLEAN,
   hint : Hints \cup {"none"}, category : Category \cup {"none"}]

ASSUME HealingAssumption ==
  /\ Signals \subseteq FailureSignals
  /\ MaxRetries \in Nat /\ MaxMultiplier \in Nat /\ MaxAttempts \in Nat

VARIABLE history   \* the attempts of each task

StrategyKind ==
  {"retry_with_backoff", "install_missing_dependency", "use_alternative_tool",
   "adjust_timeout", "reduce_scope", "escalate_to_user", "abandon"}

\* parameter: backoff_seconds in units of backoff_base_seconds, or
\* timeout_multiplier, or 0.
Attempt ==
  [category : Category, kind : StrategyKind, parameter : Nat,
   recheck : BOOLEAN, approval : BOOLEAN]

TypeOK == history \in [Tasks -> Seq(Attempt)]

Init == history = [t \in Tasks |-> <<>>]

-----------------------------------------------------------------------------
(* DiagnosisEngine.diagnose.                                               *)

Diagnosis(category, confidence) == [category |-> category, confidence |-> confidence]

Upstream(s, default) == IF s.category = "none" THEN default ELSE s.category

Diagnose(s) ==
  CASE s.policy_denied -> Diagnosis("policy_restriction", "HIGH")
    [] ~s.policy_denied /\ s.timed_out -> Diagnosis("timeout", "HIGH")
    [] ~s.policy_denied /\ ~s.timed_out /\ s.hint # "none" ->
         Diagnosis(s.hint, HintConfidence[s.hint])
    [] OTHER ->
         IF s.exited THEN Diagnosis(Upstream(s, "nonzero_exit"), "LOW")
                     ELSE Diagnosis(Upstream(s, "unknown"), "UNKNOWN")

-----------------------------------------------------------------------------
(* HealingPlanner.propose.                                                 *)

Strategy(kind, parameter, recheck, approval) ==
  [kind |-> kind, parameter |-> parameter, recheck |-> recheck, approval |-> approval]

Escalate == Strategy("escalate_to_user", 0, FALSE, TRUE)

\* The attempts since another category came between.
RetriesInARow(prior, category) ==
  LET other == {i \in DOMAIN prior : prior[i].category # category}
  IN Len(prior) - Max(other \cup {0})

\* Attempts of this category, abandoned and escalated ones too.
RetriesUsed(prior, category) == Quantify(DOMAIN prior, LAMBDA i : prior[i].category = category)

Repeated(prior, category) ==
  prior # <<>> /\ prior[Len(prior)].category = category /\ category # "timeout"

Lesser(a, b) == IF a <= b THEN a ELSE b

Propose(d, prior) ==
  LET c == d.category
      used == RetriesUsed(prior, c)
      left == used < MaxRetries
  IN CASE Repeated(prior, c) -> Strategy("abandon", 0, FALSE, FALSE)
       [] ~Repeated(prior, c) ->
            CASE c \in {"policy_restriction", "permission_issue", "disk_space"} -> Escalate
              [] c = "timeout" /\ left ->
                   Strategy("adjust_timeout", Lesser(2 ^ (used + 1), MaxMultiplier), TRUE, FALSE)
              [] c \in {"missing_package", "missing_executable"} ->
                   Strategy("install_missing_dependency", 0, TRUE, TRUE)
              [] c = "network_connectivity" /\ left ->
                   Strategy("retry_with_backoff", 2 ^ used, FALSE, FALSE)
              [] c = "incompatible_version" ->
                   Strategy("use_alternative_tool", 0, FALSE, TRUE)
              [] c = "invalid_argument" -> Strategy("reduce_scope", 0, TRUE, TRUE)
              [] OTHER ->
                   IF d.confidence \in {"LOW", "UNKNOWN"} \/ ~left
                   THEN Escalate ELSE Strategy("retry_with_backoff", 1, FALSE, FALSE)

-----------------------------------------------------------------------------

HealingAttempt(category, s) ==
  [category |-> category, kind |-> s.kind, parameter |-> s.parameter,
   recheck |-> s.recheck, approval |-> s.approval]

Heal(t, s) ==
  /\ MapThenSumSet(LAMBDA u : Len(history[u]), Tasks) < MaxAttempts
  /\ LET d == Diagnose(s)
     IN history' = [history EXCEPT ![t] =
                      Append(@, HealingAttempt(d.category, Propose(d, @)))]

Next == \E t \in Tasks, s \in Signals : Heal(t, s)

Spec == Init /\ [][Next]_history

-----------------------------------------------------------------------------

\* Nobody is asked about an attempt of this kind.
Automatic(a) == a.kind \in {"retry_with_backoff", "adjust_timeout"}

\* However the failures of a task alternate, which the loop detection of
\* consecutive ones does not see, no category is retried unattended more than
\* MaxRetries times, and a retry of a timeout or a lost connection never waits
\* less than the one before.
UnattendedRetriesBounded ==
  \A t \in Tasks, c \in Category :
    LET h == history[t]
        retries == {i \in DOMAIN h : h[i].category = c /\ Automatic(h[i])}
    IN /\ Cardinality(retries) <= MaxRetries
       /\ c \in {"timeout", "network_connectivity"} =>
            \A i, j \in retries : i < j => h[i].parameter <= h[j].parameter
=============================================================================
