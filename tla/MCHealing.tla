------------------------------- MODULE MCHealing -------------------------------
(* Values for the constants of SelfHealing.                                  *)
EXTENDS SelfHealing

CONSTANTS a1, a2

TwoTasks == {a1, a2}

Plain == [policy_denied |-> FALSE, timed_out |-> FALSE, exited |-> FALSE,
          hint |-> "none", category |-> "none"]

\* A denial, a timeout, a failure the output does not tell of, a lost connection
\* the output tells of and one only the caller does, a category only the caller
\* has, and what leads to each of the other strategies.
EachStrategy ==
  {[Plain EXCEPT !.policy_denied = TRUE], [Plain EXCEPT !.timed_out = TRUE],
   [Plain EXCEPT !.exited = TRUE],
   [Plain EXCEPT !.category = "network_connectivity"],
   [Plain EXCEPT !.category = "tool_unavailable"]}
  \cup {[Plain EXCEPT !.hint = h] :
          h \in {"network_connectivity", "package_manager_failure", "missing_package",
                 "invalid_argument", "incompatible_version"}}
=============================================================================
