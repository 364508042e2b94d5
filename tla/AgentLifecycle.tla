---------------------------- MODULE AgentLifecycle ----------------------------
(***************************************************************************)
(* What the agent loop promises about its tasks, whatever goes on inside:  *)
(* a task is opened once and closed once; the service behind an action is  *)
(* called only for an open task, at most once for each action, and never   *)
(* for an action the user rejected; a rejection closes the task.           *)
(***************************************************************************)
EXTENDS Naturals

CONSTANTS Tasks, ActionIds

VARIABLES
  open,      \* tasks that have begun and not ended
  closed,    \* tasks that have ended
  rejected,  \* actions a user refused
  ran        \* how often the service behind each action was called

vars == <<open, closed, rejected, ran>>

Init ==
  /\ open = {} /\ closed = {} /\ rejected = {}
  /\ ran = [i \in ActionIds |-> 0]

Open(t) ==
  /\ t \notin open \cup closed
  /\ open' = open \cup {t}
  /\ UNCHANGED <<closed, rejected, ran>>

Run(i) ==
  /\ open # {} /\ ran[i] = 0 /\ i \notin rejected
  /\ ran' = [ran EXCEPT ![i] = 1]
  /\ UNCHANGED <<open, closed, rejected>>

Close(t, refused) ==
  /\ t \in open /\ \A i \in refused : ran[i] = 0
  /\ open' = open \ {t}
  /\ closed' = closed \cup {t}
  /\ rejected' = rejected \cup refused
  /\ UNCHANGED ran

Next ==
  \/ \E t \in Tasks : Open(t) \/ Close(t, {}) \/ \E i \in ActionIds : Close(t, {i})
  \/ \E i \in ActionIds : Run(i)

Spec == Init /\ [][Next]_vars
=============================================================================
