----------------------------- MODULE TermuxDevice -----------------------------
(***************************************************************************)
(* The connector on the Android device, cyberai_termux.py: the loop that   *)
(* connects, authenticates and receives, one task for each command, and    *)
(* the command's process.  TermuxConnection is the other end.              *)
(*                                                                         *)
(* A connection closes at any time.  The loop first handles what it has    *)
(* received, then cancels its tasks, waits and connects again; a task that *)
(* sends meanwhile gets ConnectionClosed.  All sends go through the one    *)
(* variable ws of the loop, which after a reconnect is the new connection. *)
(*                                                                         *)
(* External: the server asks for a command once (uuid4) and may cancel it  *)
(* on the same connection; SIGTERM ends a process that does not ignore it. *)
(***************************************************************************)
EXTENDS Naturals, Sequences

CONSTANTS
  Commands,        \* command ids
  MaxConnections   \* bound of the model: connections the device opens

ASSUME MaxConnectionsAssumption == MaxConnections \in Nat

VARIABLES
  conn,     \* the connection; closed: not noticed yet; stopped: the end of main
  epoch,    \* connections so far
  inbox,    \* what the server sent on this connection
  asked,    \* the connection each command was asked for on, 0 for none
  running,  \* the keys of running_tasks
  task,     \* the coroutine _run_command of each command
  proc,     \* its process
  sent      \* history: the messages sent, with the connection they went over

vars == <<conn, epoch, inbox, asked, running, task, proc, sent>>

Kind == {"output", "completed", "failed"}

Message == [kind : Kind, command : Commands, over : Nat]

\* term: SIGTERM was sent.  cut: its output met a closed connection.
\* loose: gather left the pump of the other stream behind.
Process ==
  [live : BOOLEAN, deaf : BOOLEAN, term : BOOLEAN, cut : BOOLEAN, loose : BOOLEAN]

NoProcess ==
  [live |-> FALSE, deaf |-> FALSE, term |-> FALSE, cut |-> FALSE, loose |-> FALSE]

TypeOK ==
  /\ conn \in {"down", "open", "closed", "stopped"}
  /\ epoch \in 0..MaxConnections
  /\ inbox \in Seq({"request", "cancel"} \X Commands)
  /\ asked \in [Commands -> 0..MaxConnections]
  /\ running \in SUBSET Commands
  /\ task \in [Commands -> {"none", "spawning", "pumping", "done"}]
  /\ proc \in [Commands -> Process]
  /\ sent \in SUBSET Message

Init ==
  /\ conn = "down" /\ epoch = 0 /\ inbox = <<>>
  /\ asked = [c \in Commands |-> 0]
  /\ running = {}
  /\ task = [c \in Commands |-> "none"]
  /\ proc = [c \in Commands |-> NoProcess]
  /\ sent = {}

-----------------------------------------------------------------------------
(* The server and the network *)

ServerRequests(c) ==
  /\ conn = "open" /\ asked[c] = 0
  /\ asked' = [asked EXCEPT ![c] = epoch]
  /\ inbox' = Append(inbox, <<"request", c>>)
  /\ UNCHANGED <<conn, epoch, running, task, proc, sent>>

ServerCancels(c) ==
  /\ conn = "open" /\ asked[c] = epoch
  /\ \A i \in DOMAIN inbox : inbox[i] # <<"cancel", c>>
  /\ inbox' = Append(inbox, <<"cancel", c>>)
  /\ UNCHANGED <<conn, epoch, asked, running, task, proc, sent>>

\* What was under way to the device is lost from some message on.
ConnectionCloses ==
  /\ conn = "open"
  /\ conn' = "closed"
  /\ \E n \in 0..Len(inbox) : inbox' = SubSeq(inbox, 1, n)
  /\ UNCHANGED <<epoch, asked, running, task, proc, sent>>

-----------------------------------------------------------------------------
(* The task of a command *)

Sends(kind, c) ==
  sent' = IF conn = "open"
          THEN sent \cup {[kind |-> kind, command |-> c, over |-> epoch]}
          ELSE sent

\* The task is done, with its last message sent or refused, and _cleanup runs.
Ends(c, kind) ==
  /\ task' = [task EXCEPT ![c] = "done"]
  /\ running' = running \ {c}
  /\ Sends(kind, c)
  /\ UNCHANGED <<conn, epoch, inbox, asked>>

EndsSilently(c) ==
  /\ task' = [task EXCEPT ![c] = "done"]
  /\ running' = running \ {c}
  /\ UNCHANGED <<conn, epoch, inbox, asked, sent>>

\* _terminate: SIGTERM to the group, and no more.
Terminated(p) == [p EXCEPT !.term = p.live]

Spawns(c) ==
  /\ task[c] = "spawning"
  /\ task' = [task EXCEPT ![c] = "pumping"]
  /\ \E deaf \in BOOLEAN :
       proc' = [proc EXCEPT ![c] = [NoProcess EXCEPT !.live = TRUE, !.deaf = deaf]]
  /\ UNCHANGED <<conn, epoch, inbox, asked, running, sent>>

\* FileNotFoundError and PermissionError are reported; another OSError ends the
\* task and nobody hears of it.
SpawnFails(c) ==
  /\ task[c] = "spawning"
  /\ Ends(c, "failed") \/ EndsSilently(c)
  /\ UNCHANGED proc

Pumps(c) ==
  /\ task[c] = "pumping" /\ conn = "open"
  /\ Sends("output", c)
  /\ UNCHANGED <<conn, epoch, inbox, asked, running, task, proc>>

\* ConnectionClosed out of a pump is none of the exceptions _run_command
\* handles: the process goes on.
PumpFails(c) ==
  /\ task[c] = "pumping" /\ conn # "open"
  /\ \E loose \in BOOLEAN :
       proc' = [proc EXCEPT ![c].cut = TRUE, ![c].loose = loose]
  /\ EndsSilently(c)

\* The other stream's pump goes on until its stream ends or it cannot send.
LoosePump(c) ==
  /\ proc[c].loose
  /\ IF proc[c].live /\ conn = "open"
     THEN Sends("output", c) /\ UNCHANGED proc
     ELSE /\ proc' = [proc EXCEPT ![c].loose = FALSE]
          /\ UNCHANGED sent
  /\ UNCHANGED <<conn, epoch, inbox, asked, running, task>>

Finishes(c) ==
  /\ task[c] = "pumping" /\ ~proc[c].live
  /\ \E kind \in {"completed", "failed"} : Ends(c, kind)
  /\ UNCHANGED proc

\* The process is left alone, and the limit covers only the wait for the exit.
TimesOutQuietly(c) ==
  /\ task[c] = "pumping"
  /\ Ends(c, "failed")
  /\ UNCHANGED proc
TimesOutAfterEof(c) ==
  /\ task[c] = "pumping" /\ ~proc[c].live
  /\ Ends(c, "failed")
  /\ UNCHANGED proc

TimesOut(c) ==
  /\ task[c] = "pumping"
  /\ proc' = [proc EXCEPT ![c] = Terminated(@)]
  /\ Ends(c, "failed")

Exits(c) ==
  /\ proc[c].live
  /\ proc' = [proc EXCEPT ![c].live = FALSE]
  /\ UNCHANGED <<conn, epoch, inbox, asked, running, task, sent>>

\* The same event when it is SIGTERM that brings it about.
Killed(c) == proc[c].term /\ ~proc[c].deaf /\ Exits(c)

-----------------------------------------------------------------------------
(* The loop *)

\* Tasks are cancelled: a process is sent SIGTERM where there is one.
CancelTasks(S) ==
  /\ task' = [c \in Commands |-> IF c \in S THEN "done" ELSE task[c]]
  /\ proc' = [c \in Commands |-> IF c \in S THEN Terminated(proc[c]) ELSE proc[c]]
  /\ running' = running \ S

Opens ==
  /\ conn = "down" /\ epoch < MaxConnections
  /\ conn' = "open" /\ epoch' = epoch + 1 /\ inbox' = <<>>
  /\ UNCHANGED <<asked, running, task, proc, sent>>

\* Authentication is refused, or the handshake ends in an exception that no
\* handler names.
GivesUp ==
  /\ conn = "down"
  /\ conn' = "stopped"
  /\ UNCHANGED <<epoch, inbox, asked, running, task, proc, sent>>

\* Without the cancellation of the tasks, and as if it stopped there.
LeavesTasks ==
  /\ conn' = "down" /\ inbox' = <<>>
  /\ UNCHANGED <<epoch, asked, running, task, proc, sent>>
LeavesLoop ==
  /\ CancelTasks(running)
  /\ conn' = "disconnected" /\ inbox' = <<>>
  /\ UNCHANGED <<epoch, asked, sent>>

LeavesConnection ==
  /\ CancelTasks(running)
  /\ conn' = "down" /\ inbox' = <<>>
  /\ UNCHANGED <<epoch, asked, sent>>

NoticesClosed ==
  /\ conn = "closed" /\ inbox = <<>>
  /\ LeavesConnection

Connected == conn \in {"open", "closed"}

ReceivesRequest(c) ==
  /\ Connected /\ inbox # <<>> /\ Head(inbox) = <<"request", c>>
  /\ task' = [task EXCEPT ![c] = "spawning"]
  /\ running' = running \cup {c}
  /\ inbox' = Tail(inbox)
  /\ UNCHANGED <<conn, epoch, asked, proc, sent>>

\* RefusedError of a validator.  A refusal that cannot be sent ends the loop.
Refuses(c) ==
  /\ Connected /\ inbox # <<>> /\ Head(inbox) = <<"request", c>>
  /\ \/ /\ conn = "open"
        /\ Sends("failed", c)
        /\ inbox' = Tail(inbox)
        /\ UNCHANGED <<conn, epoch, asked, running, task, proc>>
     \/ /\ conn = "closed"
        /\ LeavesConnection

ReceivesCancel(c) ==
  /\ Connected /\ inbox # <<>> /\ Head(inbox) = <<"cancel", c>>
  /\ CancelTasks(running \cap {c})
  /\ inbox' = Tail(inbox)
  /\ UNCHANGED <<conn, epoch, asked, sent>>

Receives(c) == ReceivesRequest(c) \/ Refuses(c) \/ ReceivesCancel(c)

TaskStep(c) == Spawns(c) \/ SpawnFails(c) \/ Finishes(c)

Next ==
  \/ ConnectionCloses \/ Opens \/ GivesUp \/ NoticesClosed
  \/ \E c \in Commands :
       \/ ServerRequests(c) \/ ServerCancels(c) \/ Receives(c)
       \/ TaskStep(c) \/ Pumps(c) \/ PumpFails(c) \/ LoosePump(c)
       \/ TimesOut(c) \/ Exits(c) \/ Killed(c)

Spec == Init /\ [][Next]_vars

\* The event loop runs what is ready, timers fire, a closed socket is noticed.
FairSpec ==
  /\ Spec
  /\ WF_vars(NoticesClosed)
  /\ \A c \in Commands :
       WF_vars(Receives(c)) /\ WF_vars(TaskStep(c)) /\ WF_vars(TimesOut(c))

-----------------------------------------------------------------------------
(* Properties *)

\* The end of a command is only reported on the connection its request came
\* over: no task of an old connection lives to use the ws of a new one.
EndsOnTheirConnection ==
  \A m \in sent : m.kind # "output" => m.over = asked[m.command]

\* A process runs under the task that limits its time, or SIGTERM was sent to
\* it, or its task died on a connection that closed under its output.
NothingRunsUnwatched ==
  \A c \in Commands :
    proc[c].live => task[c] = "pumping" \/ proc[c].term \/ proc[c].cut

\* What the device reports is true, and reported once: a command it says is over
\* never says so again, has no task any more, and its process is gone, unless it
\* failed by its timeout, whose SIGTERM the process may not heed.
EndsAreTrue ==
  /\ \A m, n \in sent :
       m.command = n.command /\ "output" \notin {m.kind, n.kind} => m = n
  /\ \A m \in sent : m.kind # "output" =>
       /\ task[m.command] \in {"none", "done"}
       /\ proc[m.command].live => m.kind = "failed" /\ proc[m.command].term

\* Every command that is started comes to its end on the device, whatever its
\* process and the connection do.
CommandsSettle ==
  \A c \in Commands : task[c] = "spawning" ~> task[c] = "done"
=============================================================================
