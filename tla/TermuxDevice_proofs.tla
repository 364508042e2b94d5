-------------------------- MODULE TermuxDevice_proofs --------------------------
(***************************************************************************)
(* Proofs about TermuxDevice for every set of commands and every number of *)
(* reconnects.  IInv ties a live task to the connection its command was    *)
(* asked for on; EndInv says of each reported end that its command is over *)
(* for good.                                                               *)
(***************************************************************************)
EXTENDS TermuxDevice, TLAPS

\* What holds of one command: its task, its process and its request.
GoodTask(c) ==
  /\ c \in running <=> task[c] \in {"spawning", "pumping"}
  /\ c \in running => Connected /\ asked[c] = epoch
  /\ task[c] \in {"none", "spawning"} => ~proc[c].live
  /\ asked[c] = 0 => task[c] = "none"
  /\ proc[c].live => task[c] = "pumping" \/ proc[c].term \/ proc[c].cut

\* What is still to be received was sent on this connection, and a request is
\* there once, before its task.
GoodInbox ==
  /\ \A i \in 1..Len(inbox) : asked[inbox[i][2]] = epoch
  /\ \A i \in 1..Len(inbox) :
       inbox[i][1] = "request" => task[inbox[i][2]] = "none"
  /\ \A i, j \in 1..Len(inbox) :
       inbox[i] = inbox[j] /\ inbox[i][1] = "request" => i = j

GoodLoop ==
  /\ Connected => epoch # 0
  /\ ~Connected => inbox = <<>>

GoodSent ==
  \A m \in sent : m.kind # "output" => m.over = asked[m.command] /\ m.over # 0

IInv ==
  /\ TypeOK
  /\ \A c \in Commands : GoodTask(c)
  /\ GoodInbox
  /\ GoodLoop
  /\ GoodSent

-----------------------------------------------------------------------------

LEMMA InitIsOK == Init => IInv
<1> SUFFICES ASSUME Init  PROVE IInv
  OBVIOUS
<1>1. NoProcess \in Process /\ ~NoProcess.live
  BY DEF NoProcess, Process
<1>2. TypeOK
  BY <1>1, MaxConnectionsAssumption DEF Init, TypeOK
<1>3. \A c \in Commands : GoodTask(c)
  BY <1>1 DEF Init, GoodTask
<1>4. GoodInbox /\ GoodLoop /\ GoodSent
  BY DEF Init, GoodInbox, GoodLoop, GoodSent, Connected
<1>5. QED  BY <1>2, <1>3, <1>4 DEF IInv

LEMMA TypeOfRun ==
  ASSUME IInv, NEW c \in Commands
  PROVE  /\ proc[c] \in Process
         /\ proc[c].live \in BOOLEAN /\ proc[c].deaf \in BOOLEAN
         /\ proc[c].term \in BOOLEAN
         /\ Terminated(proc[c]) \in Process
         /\ Terminated(proc[c]).live = proc[c].live
         /\ Terminated(proc[c]).term = proc[c].live
         /\ Terminated(proc[c]).cut = proc[c].cut
<1>1. proc[c] \in Process
  BY DEF IInv, TypeOK
<1>2. QED  BY <1>1 DEF Process, Terminated

\* A message about a command, whose end is reported while it has its task.
LEMMA SendsKeepsSent ==
  ASSUME IInv, NEW c \in Commands, NEW kind \in Kind, Sends(kind, c),
         UNCHANGED asked, kind # "output" => asked[c] = epoch
  PROVE  sent' \in SUBSET Message /\ GoodSent'
<1> DEFINE m == [kind |-> kind, command |-> c, over |-> epoch]
<1>1. sent \in SUBSET Message /\ epoch \in Nat /\ GoodSent /\ GoodLoop
  BY MaxConnectionsAssumption DEF IInv, TypeOK
<1>2. m \in Message
  BY <1>1 DEF Message
<1>3. CASE conn = "open" /\ sent' = sent \cup {m}
  <2>1. m.kind # "output" => m.over = asked'[m.command] /\ m.over # 0
    BY <1>1, <1>3 DEF GoodLoop, Connected
  <2> HIDE DEF m
  <2>2. QED  BY <1>1, <1>2, <1>3, <2>1 DEF GoodSent
<1>4. CASE sent' = sent
  BY <1>1, <1>4 DEF GoodSent
<1>5. QED  BY <1>3, <1>4 DEF Sends

\* A step that leaves the messages and the requests alone.
LEMMA SentStays ==
  ASSUME IInv, UNCHANGED <<asked, sent>>
  PROVE  sent' \in SUBSET Message /\ GoodSent'
  BY DEF IInv, TypeOK, GoodSent

\* A step in the life of a task: it goes on pumping or it is over.
LEMMA TaskStepKeepsInv ==
  ASSUME IInv, NEW c \in Commands, NEW t \in {"pumping", "done"}, NEW p \in Process,
         task[c] \in {"spawning", "pumping"},
         task' = [task EXCEPT ![c] = t], proc' = [proc EXCEPT ![c] = p],
         running' = IF t = "done" THEN running \ {c} ELSE running,
         p.live => t = "pumping" \/ p.term \/ p.cut,
         sent' \in SUBSET Message, GoodSent',
         UNCHANGED conn, UNCHANGED epoch, UNCHANGED inbox, UNCHANGED asked
  PROVE  IInv'
<1>1. /\ task \in [Commands -> {"none", "spawning", "pumping", "done"}]
      /\ proc \in [Commands -> Process] /\ running \in SUBSET Commands
      /\ GoodTask(c) /\ GoodInbox /\ GoodLoop
  BY DEF IInv, TypeOK
<1>2. TypeOK'
  BY <1>1 DEF IInv, TypeOK
<1>3. task'[c] = t /\ proc'[c] = p
  BY <1>1
<1>4. GoodTask(c)'
  BY <1>1, <1>3 DEF GoodTask, Connected
<1>5. ASSUME NEW d \in Commands \ {c}  PROVE GoodTask(d)'
  <2>1. task'[d] = task[d] /\ proc'[d] = proc[d] /\ (d \in running' <=> d \in running)
    BY <1>1
  <2>2. QED  BY <2>1 DEF IInv, GoodTask, Connected
<1>6. GoodInbox'
  <2>1. \A d \in Commands : task[d] = "none" => task'[d] = "none"
    BY <1>1
  <2>2. \A i \in 1..Len(inbox) : inbox[i][2] \in Commands
    BY DEF IInv, TypeOK
  <2>3. QED  BY <1>1, <2>1, <2>2 DEF GoodInbox
<1>7. GoodLoop'
  BY <1>1 DEF GoodLoop, Connected
<1>8. QED  BY <1>2, <1>4, <1>5, <1>6, <1>7 DEF IInv

\* A step of a process, or of a pump that no task waits for.
LEMMA ProcessStepKeepsInv ==
  ASSUME IInv, NEW c \in Commands, NEW p \in Process,
         proc' = [proc EXCEPT ![c] = p],
         p.live => proc[c].live, p.term = proc[c].term, p.cut = proc[c].cut,
         sent' \in SUBSET Message, GoodSent',
         UNCHANGED conn, UNCHANGED epoch, UNCHANGED inbox, UNCHANGED asked,
         UNCHANGED running, UNCHANGED task
  PROVE  IInv'
<1>1. proc \in [Commands -> Process] /\ GoodTask(c) /\ GoodInbox /\ GoodLoop
  BY DEF IInv, TypeOK
<1>2. TypeOK'
  BY <1>1 DEF IInv, TypeOK
<1>3. proc'[c] = p /\ \A d \in Commands \ {c} : proc'[d] = proc[d]
  BY <1>1
<1>4. GoodTask(c)'
  BY <1>1, <1>3 DEF GoodTask, Connected
<1>5. ASSUME NEW d \in Commands \ {c}  PROVE GoodTask(d)'
  BY <1>3 DEF IInv, GoodTask, Connected
<1>6. GoodInbox' /\ GoodLoop'
  BY <1>1 DEF GoodInbox, GoodLoop, Connected
<1>7. QED  BY <1>2, <1>4, <1>5, <1>6 DEF IInv

\* Some running tasks are cancelled, by a message or by the end of the
\* connection; what is left to be received is an end of the inbox.
LEMMA CancelKeepsTasks ==
  ASSUME IInv, NEW S \in SUBSET running, CancelTasks(S), UNCHANGED epoch,
         UNCHANGED asked
  PROVE  /\ task' \in [Commands -> {"none", "spawning", "pumping", "done"}]
         /\ proc' \in [Commands -> Process]
         /\ running' \in SUBSET Commands
         /\ \A d \in Commands : task[d] = "none" => task'[d] = "none"
         /\ \A d \in Commands : (d \in running' => Connected') => GoodTask(d)'
<1>1. /\ task \in [Commands -> {"none", "spawning", "pumping", "done"}]
      /\ proc \in [Commands -> Process] /\ running \in SUBSET Commands
  BY DEF IInv, TypeOK
<1>2. /\ task' = [c \in Commands |-> IF c \in S THEN "done" ELSE task[c]]
      /\ proc' = [c \in Commands |-> IF c \in S THEN Terminated(proc[c]) ELSE proc[c]]
      /\ running' = running \ S
  BY DEF CancelTasks
<1>3. task' \in [Commands -> {"none", "spawning", "pumping", "done"}]
  BY <1>1, <1>2
<1>4. proc' \in [Commands -> Process]
  BY <1>1, <1>2, TypeOfRun
<1>5. running' \in SUBSET Commands
  BY <1>1, <1>2
<1>6. ASSUME NEW d \in Commands, task[d] = "none"  PROVE task'[d] = "none"
  <2>1. d \notin S
    BY <1>6 DEF IInv, GoodTask
  <2>2. QED  BY <1>2, <1>6, <2>1
<1>7. ASSUME NEW d \in Commands, d \in running' => Connected'  PROVE GoodTask(d)'
  <2>1. GoodTask(d)
    BY DEF IInv
  <2>2. CASE d \in S
    <3>1. task'[d] = "done" /\ proc'[d] = Terminated(proc[d]) /\ d \notin running'
      BY <1>2, <2>2
    <3>2. asked[d] # 0
      BY <2>1, <2>2 DEF GoodTask
    <3>3. proc'[d].live => proc'[d].term
      BY <3>1, TypeOfRun
    <3>4. QED  BY <3>1, <3>2, <3>3 DEF GoodTask
  <2>3. CASE d \notin S
    <3>1. task'[d] = task[d] /\ proc'[d] = proc[d] /\ (d \in running' <=> d \in running)
      BY <1>2, <2>3
    <3>2. QED  BY <1>7, <2>1, <3>1 DEF GoodTask
  <2>4. QED  BY <2>2, <2>3
<1>8. QED  BY <1>3, <1>4, <1>5, <1>6, <1>7

LEMMA LeavesConnectionKeepsInv ==
  ASSUME IInv, LeavesConnection  PROVE IInv'
<1>1. CancelTasks(running) /\ conn' = "down" /\ inbox' = <<>>
  BY DEF LeavesConnection
<1>2. UNCHANGED epoch /\ UNCHANGED asked /\ UNCHANGED sent
  BY DEF LeavesConnection
<1>3. running' = {}
  BY <1>1 DEF CancelTasks
<1>4. /\ task' \in [Commands -> {"none", "spawning", "pumping", "done"}]
      /\ proc' \in [Commands -> Process]
      /\ \A d \in Commands : GoodTask(d)'
  BY <1>1, <1>2, <1>3, CancelKeepsTasks
<1>5. TypeOK'
  BY <1>1, <1>2, <1>3, <1>4 DEF IInv, TypeOK
<1>6. GoodInbox' /\ GoodLoop'
  BY <1>1 DEF GoodInbox, GoodLoop, Connected
<1>7. QED  BY <1>2, <1>4, <1>5, <1>6, SentStays DEF IInv

-----------------------------------------------------------------------------
(* The inbox as a sequence *)

\* What is left of a good inbox, at either end, is good.
LEMMA TailIsGood ==
  ASSUME IInv, inbox # <<>>
  PROVE  /\ Head(inbox) \in {"request", "cancel"} \X Commands
         /\ asked[Head(inbox)[2]] = epoch
         /\ Head(inbox)[1] = "request" => task[Head(inbox)[2]] = "none"
         /\ Tail(inbox) \in Seq({"request", "cancel"} \X Commands)
         /\ \A i \in 1..Len(Tail(inbox)) :
              /\ asked[Tail(inbox)[i][2]] = epoch
              /\ Tail(inbox)[i][1] = "request" => task[Tail(inbox)[i][2]] = "none"
              /\ Tail(inbox)[i] = Head(inbox) => Head(inbox)[1] # "request"
         /\ \A i, j \in 1..Len(Tail(inbox)) :
              Tail(inbox)[i] = Tail(inbox)[j] /\ Tail(inbox)[i][1] = "request" => i = j
<1>1. inbox \in Seq({"request", "cancel"} \X Commands) /\ GoodInbox
  BY DEF IInv, TypeOK
<1>2. /\ Head(inbox) = inbox[1] /\ 1 \in 1..Len(inbox)
      /\ Tail(inbox) \in Seq({"request", "cancel"} \X Commands)
      /\ Len(Tail(inbox)) = Len(inbox) - 1
      /\ \A i \in 1..Len(Tail(inbox)) :
           i + 1 \in 1..Len(inbox) /\ Tail(inbox)[i] = inbox[i + 1]
  BY <1>1
<1>3. Head(inbox) \in {"request", "cancel"} \X Commands
  BY <1>1, <1>2
<1>4. ASSUME NEW i \in 1..Len(Tail(inbox))
      PROVE  /\ asked[Tail(inbox)[i][2]] = epoch
             /\ Tail(inbox)[i][1] = "request" => task[Tail(inbox)[i][2]] = "none"
             /\ Tail(inbox)[i] = Head(inbox) => Head(inbox)[1] # "request"
  BY <1>1, <1>2 DEF GoodInbox
<1>5. ASSUME NEW i \in 1..Len(Tail(inbox)), NEW j \in 1..Len(Tail(inbox)),
             Tail(inbox)[i] = Tail(inbox)[j], Tail(inbox)[i][1] = "request"
      PROVE  i = j
  <2>1. i + 1 = j + 1
    BY <1>1, <1>2, <1>5 DEF GoodInbox
  <2>2. QED  BY <2>1
<1>6. QED  BY <1>1, <1>2, <1>3, <1>4, <1>5 DEF GoodInbox

LEMMA AppendIsGood ==
  ASSUME IInv, NEW c \in Commands, NEW what \in {"request", "cancel"},
         asked' = asked \/ asked' = [asked EXCEPT ![c] = epoch],
         asked'[c] = epoch, UNCHANGED epoch, UNCHANGED task,
         inbox' = Append(inbox, <<what, c>>),
         what = "request" => asked[c] = 0 /\ epoch # 0
  PROVE  inbox' \in Seq({"request", "cancel"} \X Commands) /\ GoodInbox'
<1>1. /\ inbox \in Seq({"request", "cancel"} \X Commands) /\ GoodInbox /\ GoodTask(c)
      /\ asked \in [Commands -> 0..MaxConnections]
  BY DEF IInv, TypeOK
<1>2. /\ inbox' \in Seq({"request", "cancel"} \X Commands)
      /\ Len(inbox') = Len(inbox) + 1 /\ Len(inbox) \in Nat
      /\ inbox'[Len(inbox) + 1] = <<what, c>>
      /\ \A i \in 1..Len(inbox) : inbox'[i] = inbox[i]
  BY <1>1
<1>3. \A i \in 1..Len(inbox') : i = Len(inbox) + 1 \/ i \in 1..Len(inbox)
  BY <1>2
<1>4. ASSUME NEW i \in 1..Len(inbox)
      PROVE  /\ inbox[i][2] \in Commands
             /\ asked'[inbox[i][2]] = epoch
             /\ what = "request" => inbox[i] # <<what, c>>
  <2>1. inbox[i] \in {"request", "cancel"} \X Commands /\ asked[inbox[i][2]] = epoch
    BY <1>1 DEF GoodInbox
  <2>2. inbox[i][2] \in Commands
    BY <2>1
  <2>3. asked'[inbox[i][2]] = epoch
    BY <1>1, <2>1, <2>2
  <2>4. inbox[i] = <<what, c>> => inbox[i][2] = c
    OBVIOUS
  <2>5. QED  BY <2>1, <2>2, <2>3, <2>4
<1>5. what = "request" => task[c] = "none"
  BY <1>1 DEF GoodTask
<1>6. ASSUME NEW i \in 1..Len(inbox')  PROVE asked'[inbox'[i][2]] = epoch
  BY <1>2, <1>3, <1>4
<1>7. ASSUME NEW i \in 1..Len(inbox'), inbox'[i][1] = "request"
      PROVE  task[inbox'[i][2]] = "none"
  BY <1>1, <1>2, <1>3, <1>5, <1>7 DEF GoodInbox
<1>8. ASSUME NEW i \in 1..Len(inbox'), NEW j \in 1..Len(inbox'),
             inbox'[i] = inbox'[j], inbox'[i][1] = "request"
      PROVE  i = j
  <2>1. CASE i \in 1..Len(inbox) /\ j \in 1..Len(inbox)
    BY <1>1, <1>2, <1>8, <2>1 DEF GoodInbox
  <2>2. CASE i \in 1..Len(inbox) /\ j = Len(inbox) + 1
    <3>1. inbox[i] = <<what, c>> /\ inbox[i][1] = "request"
      BY <1>2, <1>8, <2>2
    <3>2. what = "request"
      BY <3>1
    <3>3. QED  BY <1>4, <2>2, <3>1, <3>2
  <2>3. CASE i = Len(inbox) + 1 /\ j \in 1..Len(inbox)
    <3>1. inbox[j] = <<what, c>> /\ inbox[j][1] = "request"
      BY <1>2, <1>8, <2>3
    <3>2. what = "request"
      BY <3>1
    <3>3. QED  BY <1>4, <2>3, <3>1, <3>2
  <2>4. QED  BY <1>3, <2>1, <2>2, <2>3
<1>9. QED  BY <1>2, <1>6, <1>7, <1>8 DEF GoodInbox

LEMMA PrefixIsGood ==
  ASSUME IInv, NEW n \in 0..Len(inbox), inbox' = SubSeq(inbox, 1, n),
         UNCHANGED asked, UNCHANGED epoch, UNCHANGED task
  PROVE  inbox' \in Seq({"request", "cancel"} \X Commands) /\ GoodInbox'
<1>1. inbox \in Seq({"request", "cancel"} \X Commands) /\ GoodInbox
  BY DEF IInv, TypeOK
<1>2. /\ inbox' \in Seq({"request", "cancel"} \X Commands)
      /\ Len(inbox') = n
      /\ \A i \in 1..n : i \in 1..Len(inbox) /\ inbox'[i] = inbox[i]
  BY <1>1
<1>3. QED  BY <1>1, <1>2 DEF GoodInbox

-----------------------------------------------------------------------------
(* The server and the network *)

\* A step that changes nothing of tasks and processes.
LEMMA TasksStay ==
  ASSUME IInv, UNCHANGED running, UNCHANGED task, UNCHANGED proc, UNCHANGED asked,
         NEW c \in Commands, c \in running => Connected' /\ epoch' = epoch
  PROVE  GoodTask(c)'
  BY DEF IInv, GoodTask

LEMMA ServerRequestsKeepsInv ==
  ASSUME IInv, NEW c \in Commands, ServerRequests(c)  PROVE IInv'
<1>1. /\ conn = "open" /\ asked[c] = 0
      /\ asked' = [asked EXCEPT ![c] = epoch]
      /\ inbox' = Append(inbox, <<"request", c>>)
      /\ UNCHANGED conn /\ UNCHANGED epoch /\ UNCHANGED running
      /\ UNCHANGED task /\ UNCHANGED proc /\ UNCHANGED sent
  BY DEF ServerRequests
<1>2. /\ asked \in [Commands -> 0..MaxConnections] /\ epoch \in 0..MaxConnections
      /\ GoodLoop /\ GoodSent /\ sent \in SUBSET Message
  BY DEF IInv, TypeOK
<1>3. epoch # 0
  BY <1>1, <1>2 DEF GoodLoop, Connected
<1>4. asked'[c] = epoch /\ \A d \in Commands \ {c} : asked'[d] = asked[d]
  BY <1>1, <1>2
<1>5. inbox' \in Seq({"request", "cancel"} \X Commands) /\ GoodInbox'
  BY <1>1, <1>3, <1>4, AppendIsGood
<1>6. TypeOK'
  BY <1>1, <1>2, <1>5 DEF IInv, TypeOK
<1>7. ASSUME NEW d \in Commands  PROVE GoodTask(d)'
  <2>1. GoodTask(d)
    BY DEF IInv
  <2>2. CASE d = c
    BY <1>1, <1>3, <1>4, <2>1, <2>2 DEF GoodTask, Connected
  <2>3. CASE d # c
    BY <1>1, <1>4, <2>1, <2>3 DEF GoodTask, Connected
  <2>4. QED  BY <2>2, <2>3
<1>8. GoodSent'
  <2>1. \A m \in sent : m.command \in Commands
    BY <1>2 DEF Message
  <2>2. \A m \in sent : m.kind # "output" => m.command # c
    BY <1>1, <1>2 DEF GoodSent
  <2>3. QED  BY <1>1, <1>2, <1>4, <2>1, <2>2 DEF GoodSent
<1>9. GoodLoop'
  BY <1>1, <1>3 DEF GoodLoop, Connected
<1>10. QED  BY <1>5, <1>6, <1>7, <1>8, <1>9 DEF IInv

LEMMA ServerCancelsKeepsInv ==
  ASSUME IInv, NEW c \in Commands, ServerCancels(c)  PROVE IInv'
<1>1. /\ conn = "open" /\ asked[c] = epoch
      /\ inbox' = Append(inbox, <<"cancel", c>>)
      /\ UNCHANGED conn /\ UNCHANGED epoch /\ UNCHANGED asked /\ UNCHANGED running
      /\ UNCHANGED task /\ UNCHANGED proc /\ UNCHANGED sent
  BY DEF ServerCancels
<1>2. inbox' \in Seq({"request", "cancel"} \X Commands) /\ GoodInbox'
  BY <1>1, AppendIsGood
<1>3. TypeOK'
  BY <1>1, <1>2 DEF IInv, TypeOK
<1>4. \A d \in Commands : GoodTask(d)'
  BY <1>1, TasksStay DEF Connected
<1>5. GoodLoop'
  BY <1>1 DEF IInv, GoodLoop, Connected
<1>6. QED  BY <1>1, <1>2, <1>3, <1>4, <1>5, SentStays DEF IInv

LEMMA ConnectionClosesKeepsInv ==
  ASSUME IInv, ConnectionCloses  PROVE IInv'
<1>1. /\ conn = "open" /\ conn' = "closed"
      /\ UNCHANGED epoch /\ UNCHANGED asked /\ UNCHANGED running
      /\ UNCHANGED task /\ UNCHANGED proc /\ UNCHANGED sent
  BY DEF ConnectionCloses
<1>2. PICK n \in 0..Len(inbox) : inbox' = SubSeq(inbox, 1, n)
  BY DEF ConnectionCloses
<1>3. inbox' \in Seq({"request", "cancel"} \X Commands) /\ GoodInbox'
  BY <1>1, <1>2, PrefixIsGood
<1>4. TypeOK'
  BY <1>1, <1>3 DEF IInv, TypeOK
<1>5. \A d \in Commands : GoodTask(d)'
  BY <1>1, TasksStay DEF Connected
<1>6. GoodLoop'
  BY <1>1 DEF IInv, GoodLoop, Connected
<1>7. QED  BY <1>1, <1>3, <1>4, <1>5, <1>6, SentStays DEF IInv

LEMMA OpensKeepsInv ==
  ASSUME IInv, Opens  PROVE IInv'
<1>1. /\ conn = "down" /\ epoch < MaxConnections
      /\ conn' = "open" /\ epoch' = epoch + 1 /\ inbox' = <<>>
      /\ UNCHANGED asked /\ UNCHANGED running
      /\ UNCHANGED task /\ UNCHANGED proc /\ UNCHANGED sent
  BY DEF Opens
<1>2. epoch \in 0..MaxConnections
  BY DEF IInv, TypeOK
<1>3. epoch' \in 0..MaxConnections /\ epoch' # 0
  BY <1>1, <1>2, MaxConnectionsAssumption
<1>4. TypeOK'
  BY <1>1, <1>3 DEF IInv, TypeOK
<1>5. \A d \in Commands : d \notin running
  BY <1>1 DEF IInv, GoodTask, Connected
<1>6. \A d \in Commands : GoodTask(d)'
  BY <1>1, <1>5, TasksStay
<1>7. GoodInbox' /\ GoodLoop'
  BY <1>1, <1>3 DEF GoodInbox, GoodLoop
<1>8. QED  BY <1>1, <1>4, <1>6, <1>7, SentStays DEF IInv

LEMMA GivesUpKeepsInv ==
  ASSUME IInv, GivesUp  PROVE IInv'
<1>1. /\ conn = "down" /\ conn' = "stopped"
      /\ UNCHANGED epoch /\ UNCHANGED inbox /\ UNCHANGED asked /\ UNCHANGED running
      /\ UNCHANGED task /\ UNCHANGED proc /\ UNCHANGED sent
  BY DEF GivesUp
<1>2. TypeOK'
  BY <1>1 DEF IInv, TypeOK
<1>3. \A d \in Commands : d \notin running
  BY <1>1 DEF IInv, GoodTask, Connected
<1>4. \A d \in Commands : GoodTask(d)'
  BY <1>1, <1>3, TasksStay
<1>5. GoodInbox' /\ GoodLoop'
  BY <1>1 DEF IInv, GoodInbox, GoodLoop, Connected
<1>6. QED  BY <1>1, <1>2, <1>4, <1>5, SentStays DEF IInv

-----------------------------------------------------------------------------
(* The loop *)

LEMMA ReceivesRequestKeepsInv ==
  ASSUME IInv, NEW c \in Commands, ReceivesRequest(c)  PROVE IInv'
<1>1. /\ Connected /\ inbox # <<>> /\ Head(inbox) = <<"request", c>>
      /\ task' = [task EXCEPT ![c] = "spawning"]
      /\ running' = running \cup {c}
      /\ inbox' = Tail(inbox)
      /\ UNCHANGED conn /\ UNCHANGED epoch /\ UNCHANGED asked
      /\ UNCHANGED proc /\ UNCHANGED sent
  BY DEF ReceivesRequest
<1>2. /\ task \in [Commands -> {"none", "spawning", "pumping", "done"}]
      /\ running \in SUBSET Commands /\ epoch \in Nat /\ GoodLoop
  BY MaxConnectionsAssumption DEF IInv, TypeOK
<1>3. /\ asked[c] = epoch /\ task[c] = "none"
      /\ inbox' \in Seq({"request", "cancel"} \X Commands)
  BY <1>1, TailIsGood
<1>4. TypeOK'
  BY <1>1, <1>2, <1>3 DEF IInv, TypeOK
<1>5. task'[c] = "spawning" /\ \A d \in Commands \ {c} : task'[d] = task[d]
  BY <1>1, <1>2
<1>6. ASSUME NEW d \in Commands  PROVE GoodTask(d)'
  <2>1. GoodTask(d)
    BY DEF IInv
  <2>2. CASE d = c
    BY <1>1, <1>2, <1>3, <1>5, <2>1, <2>2 DEF GoodTask, GoodLoop, Connected
  <2>3. CASE d # c
    BY <1>1, <1>5, <2>1, <2>3 DEF GoodTask, Connected
  <2>4. QED  BY <2>2, <2>3
<1>7. GoodInbox'
  <2>1. \A i \in 1..Len(inbox') : inbox'[i] \in {"request", "cancel"} \X Commands
    BY <1>3
  <2>2. ASSUME NEW i \in 1..Len(inbox'), inbox'[i][1] = "request"
        PROVE  task'[inbox'[i][2]] = "none"
    <3>1. inbox'[i][2] \in Commands /\ inbox'[i] = <<inbox'[i][1], inbox'[i][2]>>
      BY <2>1
    <3>2. inbox'[i] # Head(inbox)
      <4>1. \A k \in 1..Len(Tail(inbox)) :
              Tail(inbox)[k] = Head(inbox) => Head(inbox)[1] # "request"
        BY <1>1, TailIsGood
      <4>2. Head(inbox)[1] = "request"
        BY <1>1
      <4>3. QED  BY <1>1, <4>1, <4>2
    <3>3. inbox'[i][2] # c
      <4>1. inbox'[i] # <<"request", c>>
        BY <1>1, <3>2
      <4>2. QED  BY <2>2, <3>1, <4>1
    <3>4. task[inbox'[i][2]] = "none"
      BY <1>1, <2>2, TailIsGood
    <3>5. QED  BY <1>5, <3>1, <3>3, <3>4
  <2>3. QED  BY <1>1, <2>2, TailIsGood DEF GoodInbox
<1>8. GoodLoop'
  BY <1>1, <1>2 DEF GoodLoop, Connected
<1>9. QED  BY <1>1, <1>4, <1>6, <1>7, <1>8, SentStays DEF IInv

LEMMA RefusesKeepsInv ==
  ASSUME IInv, NEW c \in Commands, Refuses(c)  PROVE IInv'
<1>1. Connected /\ inbox # <<>> /\ Head(inbox) = <<"request", c>>
  BY DEF Refuses
<1>2. CASE conn = "closed" /\ LeavesConnection
  BY <1>2, LeavesConnectionKeepsInv
<1>3. CASE /\ conn = "open" /\ Sends("failed", c) /\ inbox' = Tail(inbox)
           /\ UNCHANGED <<conn, epoch, asked, running, task, proc>>
  <2>1. /\ UNCHANGED conn /\ UNCHANGED epoch /\ UNCHANGED asked /\ UNCHANGED running
        /\ UNCHANGED task /\ UNCHANGED proc /\ inbox' = Tail(inbox)
    BY <1>3
  <2>2. /\ asked[c] = epoch
        /\ inbox' \in Seq({"request", "cancel"} \X Commands)
    BY <1>1, <2>1, TailIsGood
  <2>3. sent' \in SUBSET Message /\ GoodSent'
    BY <1>3, <2>1, <2>2, SendsKeepsSent DEF Kind
  <2>4. TypeOK'
    BY <2>1, <2>2, <2>3 DEF IInv, TypeOK
  <2>5. \A d \in Commands : GoodTask(d)'
    BY <1>1, <2>1, TasksStay DEF Connected
  <2>6. GoodInbox'
    BY <1>1, <2>1, TailIsGood DEF GoodInbox
  <2>7. GoodLoop'
    BY <1>1, <2>1 DEF IInv, GoodLoop, Connected
  <2>8. QED  BY <2>3, <2>4, <2>5, <2>6, <2>7 DEF IInv
<1>4. QED  BY <1>2, <1>3 DEF Refuses

LEMMA ReceivesCancelKeepsInv ==
  ASSUME IInv, NEW c \in Commands, ReceivesCancel(c)  PROVE IInv'
<1>1. /\ Connected /\ inbox # <<>>
      /\ CancelTasks(running \cap {c})
      /\ inbox' = Tail(inbox)
      /\ UNCHANGED conn /\ UNCHANGED epoch /\ UNCHANGED asked /\ UNCHANGED sent
  BY DEF ReceivesCancel
<1>2. /\ task' \in [Commands -> {"none", "spawning", "pumping", "done"}]
      /\ proc' \in [Commands -> Process] /\ running' \in SUBSET Commands
      /\ \A d \in Commands : task[d] = "none" => task'[d] = "none"
      /\ \A d \in Commands : (d \in running' => Connected') => GoodTask(d)'
  BY <1>1, CancelKeepsTasks
<1>3. inbox' \in Seq({"request", "cancel"} \X Commands)
  BY <1>1, TailIsGood
<1>4. TypeOK'
  BY <1>1, <1>2, <1>3 DEF IInv, TypeOK
<1>5. \A d \in Commands : GoodTask(d)'
  BY <1>1, <1>2 DEF Connected
<1>6. GoodInbox'
  <2>1. \A i \in 1..Len(inbox') : inbox'[i][2] \in Commands
    BY <1>3
  <2>2. QED  BY <1>1, <1>2, <2>1, TailIsGood DEF GoodInbox
<1>7. GoodLoop'
  BY <1>1 DEF IInv, GoodLoop, Connected
<1>8. QED  BY <1>1, <1>4, <1>5, <1>6, <1>7, SentStays DEF IInv

-----------------------------------------------------------------------------
(* Tasks and processes *)

\* A live task was asked for on this connection.
LEMMA TaskIsOfConnection ==
  ASSUME IInv, NEW c \in Commands, task[c] \in {"spawning", "pumping"}
  PROVE  asked[c] = epoch
  BY DEF IInv, GoodTask

LEMMA EndsKeepsInv ==
  ASSUME IInv, NEW c \in Commands, task[c] \in {"spawning", "pumping"},
         NEW p \in Process, proc' = [proc EXCEPT ![c] = p],
         p.live => p.term \/ p.cut,
         EndsSilently(c) \/ \E kind \in Kind : Ends(c, kind)
  PROVE  IInv'
<1>1. /\ task' = [task EXCEPT ![c] = "done"] /\ running' = running \ {c}
      /\ UNCHANGED conn /\ UNCHANGED epoch /\ UNCHANGED inbox /\ UNCHANGED asked
  BY DEF EndsSilently, Ends
<1>2. sent' \in SUBSET Message /\ GoodSent'
  <2>1. CASE EndsSilently(c)
    BY <1>1, <2>1, SentStays DEF EndsSilently
  <2>2. CASE \E kind \in Kind : Ends(c, kind)
    <3>1. PICK kind \in Kind : Sends(kind, c)
      BY <2>2 DEF Ends
    <3>2. QED  BY <1>1, <3>1, TaskIsOfConnection, SendsKeepsSent
  <2>3. QED  BY <2>1, <2>2
<1>3. QED  BY <1>1, <1>2, TaskStepKeepsInv

\* A process that is left as it is.
LEMMA SameProcess ==
  ASSUME IInv, NEW c \in Commands, UNCHANGED proc
  PROVE  proc' = [proc EXCEPT ![c] = proc[c]]
  BY DEF IInv, TypeOK

LEMMA SpawnsKeepsInv ==
  ASSUME IInv, NEW c \in Commands, Spawns(c)  PROVE IInv'
<1>1. PICK deaf \in BOOLEAN :
        proc' = [proc EXCEPT ![c] = [NoProcess EXCEPT !.live = TRUE, !.deaf = deaf]]
  BY DEF Spawns
<1>2. [NoProcess EXCEPT !.live = TRUE, !.deaf = deaf] \in Process
  BY DEF NoProcess, Process
<1>3. /\ task[c] = "spawning" /\ task' = [task EXCEPT ![c] = "pumping"]
      /\ UNCHANGED conn /\ UNCHANGED epoch /\ UNCHANGED inbox /\ UNCHANGED asked
      /\ UNCHANGED running /\ UNCHANGED sent
  BY DEF Spawns
<1>4. running' = IF "pumping" = "done" THEN running \ {c} ELSE running
  BY <1>3
<1>5. sent' \in SUBSET Message /\ GoodSent'
  BY <1>3, SentStays
<1>6. QED  BY <1>1, <1>2, <1>3, <1>4, <1>5, TaskStepKeepsInv

LEMMA PumpsKeepsInv ==
  ASSUME IInv, NEW c \in Commands, Pumps(c)  PROVE IInv'
<1>1. /\ task[c] = "pumping" /\ Sends("output", c)
      /\ UNCHANGED conn /\ UNCHANGED epoch /\ UNCHANGED inbox /\ UNCHANGED asked
      /\ UNCHANGED running /\ UNCHANGED task /\ UNCHANGED proc
  BY DEF Pumps
<1>2. sent' \in SUBSET Message /\ GoodSent'
  BY <1>1, SendsKeepsSent DEF Kind
<1>3. proc[c] \in Process
  BY TypeOfRun
<1>4. QED  BY <1>1, <1>2, <1>3, SameProcess, ProcessStepKeepsInv

LEMMA TaskEndsKeepInv ==
  ASSUME IInv, NEW c \in Commands,
         SpawnFails(c) \/ Finishes(c) \/ PumpFails(c) \/ TimesOut(c)
  PROVE  IInv'
<1>1. proc[c] \in Process
  BY TypeOfRun
<1>2. CASE SpawnFails(c)
  <2>1. ~proc[c].live
    BY <1>2 DEF SpawnFails, IInv, GoodTask
  <2>2. QED  BY <1>1, <1>2, <2>1, SameProcess, EndsKeepsInv DEF SpawnFails, Kind
<1>3. CASE Finishes(c)
  BY <1>1, <1>3, SameProcess, EndsKeepsInv DEF Finishes, Kind
<1>4. CASE PumpFails(c)
  <2>1. PICK loose \in BOOLEAN :
          proc' = [proc EXCEPT ![c].cut = TRUE, ![c].loose = loose]
    BY <1>4 DEF PumpFails
  <2> DEFINE p == [proc[c] EXCEPT !.cut = TRUE, !.loose = loose]
  <2>2. p \in Process /\ p.cut
    BY <1>1 DEF Process
  <2>3. proc' = [proc EXCEPT ![c] = p]
    BY <2>1 DEF IInv, TypeOK
  <2> HIDE DEF p
  <2>4. QED  BY <1>4, <2>2, <2>3, EndsKeepsInv DEF PumpFails
<1>5. CASE TimesOut(c)
  <2>1. proc' = [proc EXCEPT ![c] = Terminated(proc[c])]
    BY <1>5 DEF TimesOut, IInv, TypeOK
  <2>2. QED  BY <1>5, <2>1, TypeOfRun, EndsKeepsInv DEF TimesOut, Kind
<1>6. QED  BY <1>2, <1>3, <1>4, <1>5

LEMMA ExitsKeepsInv ==
  ASSUME IInv, NEW c \in Commands, Exits(c)  PROVE IInv'
<1> DEFINE p == [proc[c] EXCEPT !.live = FALSE]
<1>1. p \in Process /\ ~p.live /\ p.term = proc[c].term /\ p.cut = proc[c].cut
  BY TypeOfRun DEF Process
<1>2. /\ proc' = [proc EXCEPT ![c] = p]
      /\ UNCHANGED conn /\ UNCHANGED epoch /\ UNCHANGED inbox /\ UNCHANGED asked
      /\ UNCHANGED running /\ UNCHANGED task /\ UNCHANGED sent
  BY DEF Exits
<1>3. sent' \in SUBSET Message /\ GoodSent'
  BY <1>2, SentStays
<1> HIDE DEF p
<1>4. QED  BY <1>1, <1>2, <1>3, ProcessStepKeepsInv

LEMMA LoosePumpKeepsInv ==
  ASSUME IInv, NEW c \in Commands, LoosePump(c)  PROVE IInv'
<1>1. /\ UNCHANGED conn /\ UNCHANGED epoch /\ UNCHANGED inbox /\ UNCHANGED asked
      /\ UNCHANGED running /\ UNCHANGED task
  BY DEF LoosePump
<1>2. CASE Sends("output", c) /\ UNCHANGED proc
  <2>1. sent' \in SUBSET Message /\ GoodSent'
    BY <1>1, <1>2, SendsKeepsSent DEF Kind
  <2>2. proc[c] \in Process
    BY TypeOfRun
  <2>3. QED  BY <1>1, <1>2, <2>1, <2>2, SameProcess, ProcessStepKeepsInv
<1>3. CASE proc' = [proc EXCEPT ![c].loose = FALSE] /\ UNCHANGED sent
  <2> DEFINE p == [proc[c] EXCEPT !.loose = FALSE]
  <2>1. /\ p \in Process /\ p.live = proc[c].live
        /\ p.term = proc[c].term /\ p.cut = proc[c].cut
    BY TypeOfRun DEF Process
  <2>2. proc' = [proc EXCEPT ![c] = p]
    BY <1>3
  <2>3. sent' \in SUBSET Message /\ GoodSent'
    BY <1>1, <1>3, SentStays
  <2> HIDE DEF p
  <2>4. QED  BY <1>1, <2>1, <2>2, <2>3, ProcessStepKeepsInv
<1>4. QED  BY <1>2, <1>3 DEF LoosePump

-----------------------------------------------------------------------------

LEMMA StutterKeepsInv == ASSUME IInv, UNCHANGED vars  PROVE IInv'
<1>1. /\ UNCHANGED conn /\ UNCHANGED epoch /\ UNCHANGED inbox /\ UNCHANGED asked
      /\ UNCHANGED running /\ UNCHANGED task /\ UNCHANGED proc /\ UNCHANGED sent
  BY DEF vars
<1>2. TypeOK' /\ GoodInbox' /\ GoodLoop' /\ GoodSent'
  BY <1>1 DEF IInv, TypeOK, GoodInbox, GoodLoop, GoodSent, Connected
<1>3. \A c \in Commands : GoodTask(c)'
  BY <1>1 DEF IInv, GoodTask, Connected
<1>4. QED  BY <1>2, <1>3 DEF IInv

LEMMA StepKeepsInv == IInv /\ [Next]_vars => IInv'
<1> SUFFICES ASSUME IInv, [Next]_vars  PROVE IInv'
  OBVIOUS
<1>1. CASE ConnectionCloses \/ Opens \/ GivesUp \/ NoticesClosed
  BY <1>1, ConnectionClosesKeepsInv, OpensKeepsInv, GivesUpKeepsInv,
     LeavesConnectionKeepsInv DEF NoticesClosed
<1>2. ASSUME NEW c \in Commands, ServerRequests(c) \/ ServerCancels(c)  PROVE IInv'
  BY <1>2, ServerRequestsKeepsInv, ServerCancelsKeepsInv
<1>3. ASSUME NEW c \in Commands, Receives(c)  PROVE IInv'
  BY <1>3, ReceivesRequestKeepsInv, RefusesKeepsInv, ReceivesCancelKeepsInv
     DEF Receives
<1>4. ASSUME NEW c \in Commands, TaskStep(c) \/ PumpFails(c) \/ TimesOut(c)
      PROVE  IInv'
  BY <1>4, SpawnsKeepsInv, TaskEndsKeepInv DEF TaskStep
<1>5. ASSUME NEW c \in Commands, Pumps(c) \/ LoosePump(c) \/ Exits(c) \/ Killed(c)
      PROVE  IInv'
  BY <1>5, PumpsKeepsInv, LoosePumpKeepsInv, ExitsKeepsInv DEF Killed
<1>6. CASE UNCHANGED vars
  BY <1>6, StutterKeepsInv
<1>7. QED  BY <1>1, <1>2, <1>3, <1>4, <1>5, <1>6 DEF Next

LEMMA InvariantHolds == Spec => []IInv
  BY InitIsOK, StepKeepsInv, PTL DEF Spec

-----------------------------------------------------------------------------

\* Connection, inbox, tasks, processes and messages keep their types.
THEOREM TypesHold == Spec => []TypeOK
<1>1. IInv => TypeOK
  BY DEF IInv
<1>2. QED  BY <1>1, InvariantHolds, PTL

\* The end of a command is only reported on the connection its request came
\* over: no task outlives its connection to use the ws of the next one.
THEOREM EndsGoWhereRequestsCameFrom == Spec => []EndsOnTheirConnection
<1>1. IInv => EndsOnTheirConnection
  BY DEF IInv, GoodSent, EndsOnTheirConnection
<1>2. QED  BY <1>1, InvariantHolds, PTL

\* A process runs under the task that limits its time, or was sent SIGTERM, or
\* its task died on a connection that closed under its output.
THEOREM ProcessesAreWatched == Spec => []NothingRunsUnwatched
<1>1. IInv => NothingRunsUnwatched
  BY DEF IInv, GoodTask, NothingRunsUnwatched
<1>2. QED  BY <1>1, InvariantHolds, PTL

-----------------------------------------------------------------------------
(* Reported ends *)

\* No request of the command is still to be received.
NotWaiting(c) == \A i \in 1..Len(inbox) : inbox[i] # <<"request", c>>

\* The command was asked for, and no task will ever start for it again.
Over(c) == task[c] \in {"none", "done"} /\ asked[c] # 0 /\ NotWaiting(c)

\* What is said of a command that is over.
TrueEnd(m) ==
  /\ Over(m.command)
  /\ proc[m.command].live => m.kind = "failed" /\ proc[m.command].term

EndInv ==
  /\ \A m, n \in sent :
       m.command = n.command /\ "output" \notin {m.kind, n.kind} => m = n
  /\ \A m \in sent : m.kind # "output" => TrueEnd(m)

\* A step leaves a command over, and its process no better off.
StaysOver(c) ==
  Over(c) => /\ Over(c)'
             /\ proc'[c].live => proc[c].live
             /\ proc'[c].live /\ proc[c].term => proc'[c].term

LEMMA NoNewEnd ==
  ASSUME IInv, EndInv, \A c \in Commands : StaysOver(c),
         \A m \in sent' : m.kind # "output" => m \in sent
  PROVE  EndInv'
<1>1. \A m, n \in sent' :
        m.command = n.command /\ "output" \notin {m.kind, n.kind} => m = n
  BY DEF EndInv
<1>2. ASSUME NEW m \in sent', m.kind # "output"  PROVE TrueEnd(m)'
  <2>1. m \in sent /\ TrueEnd(m)
    BY <1>2 DEF EndInv
  <2>2. m.command \in Commands
    BY <2>1 DEF IInv, TypeOK, Message
  <2>3. StaysOver(m.command)
    BY <2>2
  <2>4. QED  BY <2>1, <2>3 DEF StaysOver, TrueEnd
<1>3. QED  BY <1>1, <1>2 DEF EndInv

\* The end of a command is reported by the step that makes it over.
LEMMA NewEnd ==
  ASSUME IInv, EndInv, NEW c \in Commands, NEW kind \in Kind, Sends(kind, c),
         ~Over(c), Over(c)', \A d \in Commands : StaysOver(d),
         proc'[c].live => kind = "failed" /\ proc'[c].term
  PROVE  EndInv'
<1> DEFINE e == [kind |-> kind, command |-> c, over |-> epoch]
<1>1. CASE sent' = sent
  BY <1>1, NoNewEnd
<1>2. CASE sent' = sent \cup {e}
  <2>1. e.command = c /\ e.kind = kind
    OBVIOUS
  <2> HIDE DEF e
  <2>2. \A m \in sent : m.kind # "output" => m.command # c
    BY DEF EndInv, TrueEnd
  <2>3. ASSUME NEW m \in sent', NEW n \in sent', m.command = n.command,
               "output" \notin {m.kind, n.kind}
        PROVE  m = n
    <3>1. m.kind # "output" /\ n.kind # "output"
      BY <2>3
    <3>2. CASE m \in sent /\ n \in sent
      BY <2>3, <3>2 DEF EndInv
    <3>3. CASE m \notin sent \/ n \notin sent
      BY <1>2, <2>1, <2>2, <2>3, <3>1, <3>3
    <3>4. QED  BY <3>2, <3>3
  <2>4. ASSUME NEW m \in sent', m.kind # "output"  PROVE TrueEnd(m)'
    <3>1. CASE m \in sent
      <4>1. TrueEnd(m) /\ m.command \in Commands
        BY <2>4, <3>1 DEF EndInv, IInv, TypeOK, Message
      <4>2. StaysOver(m.command)
        BY <4>1
      <4>3. QED  BY <4>1, <4>2 DEF StaysOver, TrueEnd
    <3>2. CASE m = e
      BY <2>1, <3>2 DEF TrueEnd
    <3>3. QED  BY <1>2, <3>1, <3>2
  <2>5. QED  BY <2>3, <2>4 DEF EndInv
<1>3. QED  BY <1>1, <1>2 DEF Sends

-----------------------------------------------------------------------------
(* What leaves a command over *)

LEMMA TailLeavesNotWaiting ==
  ASSUME IInv, inbox # <<>>, inbox' = Tail(inbox), NEW c \in Commands
  PROVE  /\ NotWaiting(c) => NotWaiting(c)'
         /\ Head(inbox) = <<"request", c>> => ~NotWaiting(c) /\ NotWaiting(c)'
<1>1. /\ Head(inbox) = inbox[1] /\ 1 \in 1..Len(inbox)
      /\ Len(Tail(inbox)) = Len(inbox) - 1
      /\ \A i \in 1..Len(Tail(inbox)) :
           i + 1 \in 1..Len(inbox) /\ Tail(inbox)[i] = inbox[i + 1]
  BY DEF IInv, TypeOK
<1>2. NotWaiting(c) => NotWaiting(c)'
  BY <1>1 DEF NotWaiting
<1>3. ASSUME Head(inbox) = <<"request", c>>  PROVE ~NotWaiting(c) /\ NotWaiting(c)'
  <2>1. Head(inbox)[1] = "request"
    BY <1>3
  <2>2. \A i \in 1..Len(Tail(inbox)) : Tail(inbox)[i] # Head(inbox)
    BY <2>1, TailIsGood
  <2>3. QED  BY <1>1, <1>3, <2>2 DEF NotWaiting
<1>4. QED  BY <1>2, <1>3

LEMMA AppendLeavesNotWaiting ==
  ASSUME IInv, NEW c \in Commands, NEW d \in Commands, NEW what \in {"request", "cancel"},
         inbox' = Append(inbox, <<what, c>>), what = "cancel" \/ c # d, NotWaiting(d)
  PROVE  NotWaiting(d)'
<1>1. /\ Len(inbox') = Len(inbox) + 1 /\ Len(inbox) \in Nat
      /\ inbox'[Len(inbox) + 1] = <<what, c>>
      /\ \A i \in 1..Len(inbox) : inbox'[i] = inbox[i]
  BY DEF IInv, TypeOK
<1>2. <<what, c>> # <<"request", d>>
  OBVIOUS
<1>3. QED  BY <1>1, <1>2 DEF NotWaiting

LEMMA PrefixLeavesNotWaiting ==
  ASSUME IInv, NEW d \in Commands, NEW n \in 0..Len(inbox),
         inbox' = SubSeq(inbox, 1, n), NotWaiting(d)
  PROVE  NotWaiting(d)'
<1>1. /\ Len(inbox') = n
      /\ \A i \in 1..n : i \in 1..Len(inbox) /\ inbox'[i] = inbox[i]
  BY DEF IInv, TypeOK
<1>2. QED  BY <1>1 DEF NotWaiting

\* A step of one command, which was not over, and of none of the others.
LEMMA OthersStayOver ==
  ASSUME IInv, NEW c \in Commands, ~Over(c), UNCHANGED inbox, UNCHANGED asked,
         \A d \in Commands \ {c} : task'[d] = task[d] /\ proc'[d] = proc[d]
  PROVE  \A d \in Commands : StaysOver(d)
<1>1. SUFFICES ASSUME NEW d \in Commands, Over(d)  PROVE StaysOver(d)
  BY DEF StaysOver
<1>2. d # c
  BY <1>1
<1>3. task'[d] = task[d] /\ proc'[d] = proc[d]
  BY <1>2
<1>4. QED  BY <1>1, <1>3 DEF StaysOver, Over, NotWaiting

\* Cancelling running tasks concerns no command that is over.
LEMMA CancelLeavesOver ==
  ASSUME IInv, NEW S \in SUBSET running, CancelTasks(S), UNCHANGED asked,
         \A d \in Commands : NotWaiting(d) => NotWaiting(d)'
  PROVE  \A d \in Commands : StaysOver(d)
<1>1. SUFFICES ASSUME NEW d \in Commands, Over(d)  PROVE StaysOver(d)
  BY DEF StaysOver
<1>2. d \notin S
  BY <1>1 DEF Over, IInv, GoodTask
<1>3. task'[d] = task[d] /\ proc'[d] = proc[d]
  BY <1>2 DEF CancelTasks
<1>4. QED  BY <1>1, <1>3 DEF StaysOver, Over

\* Steps that leave tasks and processes alone.
LEMMA WaitingLeavesOver ==
  ASSUME IInv, UNCHANGED task, UNCHANGED proc,
         \A d \in Commands : asked[d] # 0 => asked'[d] = asked[d],
         \A d \in Commands : asked[d] # 0 /\ NotWaiting(d) => NotWaiting(d)'
  PROVE  \A d \in Commands : StaysOver(d)
  BY DEF StaysOver, Over

-----------------------------------------------------------------------------

LEMMA NetworkKeepsEnds ==
  ASSUME IInv, EndInv,
         ConnectionCloses \/ Opens \/ GivesUp
           \/ \E c \in Commands : ServerRequests(c) \/ ServerCancels(c)
  PROVE  EndInv'
<1>1. UNCHANGED task /\ UNCHANGED proc /\ UNCHANGED sent
  BY DEF ConnectionCloses, Opens, GivesUp, ServerRequests, ServerCancels
<1>2. CASE ConnectionCloses
  <2>1. UNCHANGED asked
    BY <1>2 DEF ConnectionCloses
  <2>2. PICK n \in 0..Len(inbox) : inbox' = SubSeq(inbox, 1, n)
    BY <1>2 DEF ConnectionCloses
  <2>3. \A d \in Commands : NotWaiting(d) => NotWaiting(d)'
    BY <2>2, PrefixLeavesNotWaiting
  <2>4. QED  BY <1>1, <2>1, <2>3, WaitingLeavesOver, NoNewEnd
<1>3. CASE Opens \/ GivesUp
  <2>1. UNCHANGED asked /\ (inbox' = <<>> \/ inbox' = inbox)
    BY <1>3 DEF Opens, GivesUp
  <2>2. \A d \in Commands : NotWaiting(d) => NotWaiting(d)'
    BY <2>1 DEF NotWaiting
  <2>3. QED  BY <1>1, <2>1, <2>2, WaitingLeavesOver, NoNewEnd
<1>4. ASSUME NEW c \in Commands, ServerRequests(c)  PROVE EndInv'
  <2>1. /\ asked[c] = 0 /\ asked' = [asked EXCEPT ![c] = epoch]
        /\ inbox' = Append(inbox, <<"request", c>>)
    BY <1>4 DEF ServerRequests
  <2>2. \A d \in Commands : asked[d] # 0 => asked'[d] = asked[d]
    BY <2>1 DEF IInv, TypeOK
  <2>3. ASSUME NEW d \in Commands, asked[d] # 0, NotWaiting(d)  PROVE NotWaiting(d)'
    <3>1. c # d
      BY <2>1, <2>3
    <3>2. QED  BY <2>1, <2>3, <3>1, AppendLeavesNotWaiting
  <2>4. QED  BY <1>1, <2>2, <2>3, WaitingLeavesOver, NoNewEnd
<1>5. ASSUME NEW c \in Commands, ServerCancels(c)  PROVE EndInv'
  <2>1. UNCHANGED asked /\ inbox' = Append(inbox, <<"cancel", c>>)
    BY <1>5 DEF ServerCancels
  <2>2. \A d \in Commands : NotWaiting(d) => NotWaiting(d)'
    BY <2>1, AppendLeavesNotWaiting
  <2>3. QED  BY <1>1, <2>1, <2>2, WaitingLeavesOver, NoNewEnd
<1>6. QED  BY <1>2, <1>3, <1>4, <1>5

LEMMA LeavesConnectionKeepsEnds ==
  ASSUME IInv, EndInv, LeavesConnection  PROVE EndInv'
<1>1. CancelTasks(running) /\ inbox' = <<>> /\ UNCHANGED asked /\ UNCHANGED sent
  BY DEF LeavesConnection
<1>2. \A d \in Commands : NotWaiting(d) => NotWaiting(d)'
  BY <1>1 DEF NotWaiting
<1>3. QED  BY <1>1, <1>2, CancelLeavesOver, NoNewEnd

LEMMA ReceivesKeepsEnds ==
  ASSUME IInv, EndInv, NEW c \in Commands, Receives(c)  PROVE EndInv'
<1>1. CASE ReceivesRequest(c)
  <2>1. /\ inbox # <<>> /\ Head(inbox) = <<"request", c>> /\ inbox' = Tail(inbox)
        /\ task' = [task EXCEPT ![c] = "spawning"]
        /\ UNCHANGED asked /\ UNCHANGED proc /\ UNCHANGED sent
    BY <1>1 DEF ReceivesRequest
  <2>2. ~Over(c)
    BY <2>1, TailLeavesNotWaiting DEF Over
  <2>3. ASSUME NEW d \in Commands, Over(d)  PROVE StaysOver(d)
    <3>1. d # c
      BY <2>2, <2>3
    <3>2. task'[d] = task[d]
      BY <2>1, <3>1 DEF IInv, TypeOK
    <3>3. NotWaiting(d)'
      BY <2>1, <2>3, TailLeavesNotWaiting DEF Over
    <3>4. QED  BY <2>1, <2>3, <3>2, <3>3 DEF StaysOver, Over
  <2>4. \A d \in Commands : StaysOver(d)
    BY <2>3 DEF StaysOver
  <2>5. QED  BY <2>1, <2>4, NoNewEnd
<1>2. CASE /\ inbox # <<>> /\ Head(inbox) = <<"request", c>> /\ inbox' = Tail(inbox)
           /\ Sends("failed", c) /\ UNCHANGED <<conn, epoch, asked, running, task, proc>>
  <2>1. UNCHANGED asked /\ UNCHANGED task /\ UNCHANGED proc
    BY <1>2
  <2>2. \A d \in Commands : NotWaiting(d) => NotWaiting(d)'
    BY <1>2, TailLeavesNotWaiting
  <2>3. \A d \in Commands : StaysOver(d)
    BY <2>1, <2>2, WaitingLeavesOver
  <2>4. Head(inbox)[1] = "request" /\ Head(inbox)[2] = c
    BY <1>2
  <2>5. task[c] = "none" /\ asked[c] # 0 /\ ~proc[c].live
    <3>1. task[c] = "none" /\ asked[c] = epoch
      BY <1>2, <2>4, TailIsGood
    <3>2. epoch # 0
      BY <1>2 DEF IInv, GoodLoop
    <3>3. QED  BY <3>1, <3>2 DEF IInv, GoodTask
  <2>6. ~Over(c) /\ Over(c)'
    BY <1>2, <2>1, <2>5, TailLeavesNotWaiting DEF Over
  <2>7. "failed" \in Kind
    BY DEF Kind
  <2>8. QED  BY <1>2, <2>1, <2>3, <2>5, <2>6, <2>7, NewEnd
<1>3. CASE LeavesConnection
  BY <1>3, LeavesConnectionKeepsEnds
<1>4. CASE ReceivesCancel(c)
  <2>1. /\ inbox # <<>> /\ inbox' = Tail(inbox) /\ CancelTasks(running \cap {c})
        /\ UNCHANGED asked /\ UNCHANGED sent
    BY <1>4 DEF ReceivesCancel
  <2>2. \A d \in Commands : NotWaiting(d) => NotWaiting(d)'
    BY <2>1, TailLeavesNotWaiting
  <2>3. QED  BY <2>1, <2>2, CancelLeavesOver, NoNewEnd
<1>5. QED  BY <1>1, <1>2, <1>3, <1>4 DEF Receives, Refuses

\* A task that ends: its command is over, and its process is not asked about.
LEMMA EndsKeepsEnds ==
  ASSUME IInv, EndInv, NEW c \in Commands, task[c] \in {"spawning", "pumping"},
         \A d \in Commands \ {c} : proc'[d] = proc[d],
         \/ EndsSilently(c)
         \/ \E kind \in Kind : /\ Ends(c, kind)
                               /\ proc'[c].live => kind = "failed" /\ proc'[c].term
  PROVE  EndInv'
<1>1. task' = [task EXCEPT ![c] = "done"] /\ UNCHANGED inbox /\ UNCHANGED asked
  BY DEF EndsSilently, Ends
<1>2. task'[c] = "done" /\ \A d \in Commands \ {c} : task'[d] = task[d]
  BY <1>1 DEF IInv, TypeOK
<1>3. ~Over(c)
  BY DEF Over
<1>4. \A d \in Commands : StaysOver(d)
  BY <1>1, <1>2, <1>3, OthersStayOver
<1>5. CASE EndsSilently(c)
  BY <1>4, <1>5, NoNewEnd DEF EndsSilently
<1>6. ASSUME NEW kind \in Kind, Ends(c, kind),
             proc'[c].live => kind = "failed" /\ proc'[c].term
      PROVE  EndInv'
  <2>1. asked[c] # 0
    BY DEF IInv, GoodTask
  <2>2. NotWaiting(c)
    <3>1. task[c] # "none"
      OBVIOUS
    <3>2. \A i \in 1..Len(inbox) :
            inbox[i][1] = "request" => task[inbox[i][2]] = "none"
      BY DEF IInv, GoodInbox
    <3>3. ASSUME NEW i \in 1..Len(inbox), inbox[i] = <<"request", c>>  PROVE FALSE
      <4>1. inbox[i][1] = "request" /\ inbox[i][2] = c
        BY <3>3
      <4>2. QED  BY <3>1, <3>2, <4>1
    <3>4. QED  BY <3>3 DEF NotWaiting
  <2>3. Over(c)'
    BY <1>1, <1>2, <2>1, <2>2 DEF Over, NotWaiting
  <2>4. Sends(kind, c)
    BY <1>6 DEF Ends
  <2>5. QED  BY <1>3, <1>4, <1>6, <2>3, <2>4, NewEnd
<1>7. QED  BY <1>5, <1>6

LEMMA TaskStepKeepsEnds ==
  ASSUME IInv, EndInv, NEW c \in Commands,
         TaskStep(c) \/ PumpFails(c) \/ TimesOut(c)
  PROVE  EndInv'
<1>1. proc \in [Commands -> Process] /\ proc[c] \in Process
  BY DEF IInv, TypeOK
<1>2. CASE Spawns(c)
  <2>1. /\ task[c] = "spawning" /\ task' = [task EXCEPT ![c] = "pumping"]
        /\ UNCHANGED inbox /\ UNCHANGED asked /\ UNCHANGED sent
    BY <1>2 DEF Spawns
  <2>2. ~Over(c)
    BY <2>1 DEF Over
  <2>3. \A d \in Commands \ {c} : task'[d] = task[d] /\ proc'[d] = proc[d]
    BY <1>1, <1>2, <2>1 DEF Spawns, IInv, TypeOK
  <2>4. QED  BY <2>1, <2>2, <2>3, OthersStayOver, NoNewEnd
<1>3. CASE SpawnFails(c)
  <2>1. task[c] = "spawning" /\ UNCHANGED proc /\ ~proc[c].live
    BY <1>3 DEF SpawnFails, IInv, GoodTask
  <2>2. EndsSilently(c) \/ Ends(c, "failed")
    BY <1>3 DEF SpawnFails
  <2>3. QED  BY <2>1, <2>2, EndsKeepsEnds DEF Kind
<1>4. CASE Finishes(c)
  <2>1. task[c] = "pumping" /\ UNCHANGED proc /\ ~proc[c].live
    BY <1>4 DEF Finishes
  <2>2. Ends(c, "completed") \/ Ends(c, "failed")
    BY <1>4 DEF Finishes
  <2>3. QED  BY <2>1, <2>2, EndsKeepsEnds DEF Kind
<1>5. CASE PumpFails(c)
  <2>1. task[c] = "pumping" /\ EndsSilently(c)
    BY <1>5 DEF PumpFails
  <2>2. \A d \in Commands \ {c} : proc'[d] = proc[d]
    BY <1>1, <1>5 DEF PumpFails
  <2>3. QED  BY <2>1, <2>2, EndsKeepsEnds
<1>6. CASE TimesOut(c)
  <2>1. /\ task[c] = "pumping" /\ Ends(c, "failed")
        /\ proc' = [proc EXCEPT ![c] = Terminated(proc[c])]
    BY <1>6 DEF TimesOut
  <2>2. proc'[c] = Terminated(proc[c]) /\ \A d \in Commands \ {c} : proc'[d] = proc[d]
    BY <1>1, <2>1
  <2>3. proc'[c].live => proc'[c].term
    BY <2>2, TypeOfRun
  <2>4. QED  BY <2>1, <2>2, <2>3, EndsKeepsEnds DEF Kind
<1>7. QED  BY <1>2, <1>3, <1>4, <1>5, <1>6 DEF TaskStep

\* Output says nothing of an end, and a process that exits makes one truer.
LEMMA ProcessStepKeepsEnds ==
  ASSUME IInv, EndInv, NEW c \in Commands,
         Pumps(c) \/ LoosePump(c) \/ Exits(c) \/ Killed(c)
  PROVE  EndInv'
<1>1. UNCHANGED task /\ UNCHANGED inbox /\ UNCHANGED asked
  BY DEF Pumps, LoosePump, Exits, Killed
<1>2. sent' = sent \/ Sends("output", c)
  BY DEF Pumps, LoosePump, Exits, Killed
<1>3. \A m \in sent' : m.kind # "output" => m \in sent
  BY <1>2 DEF Sends
<1>4. proc \in [Commands -> Process] /\ proc[c] \in Process
  BY DEF IInv, TypeOK
<1>5. \/ UNCHANGED proc
      \/ proc' = [proc EXCEPT ![c].loose = FALSE]
      \/ proc' = [proc EXCEPT ![c].live = FALSE]
  BY DEF Pumps, LoosePump, Exits, Killed
<1>6. ASSUME NEW d \in Commands
      PROVE  (proc'[d].live => proc[d].live) /\ proc'[d].term = proc[d].term
  <2>1. CASE d = c
    BY <1>4, <1>5, <2>1 DEF Process
  <2>2. CASE d # c
    BY <1>4, <1>5, <2>2
  <2>3. QED  BY <2>1, <2>2
<1>7. \A d \in Commands : StaysOver(d)
  BY <1>1, <1>6 DEF StaysOver, Over, NotWaiting
<1>8. QED  BY <1>3, <1>7, NoNewEnd

LEMMA StepKeepsEnds == IInv /\ EndInv /\ [Next]_vars => EndInv'
<1> SUFFICES ASSUME IInv, EndInv, [Next]_vars  PROVE EndInv'
  OBVIOUS
<1>1. CASE ConnectionCloses \/ Opens \/ GivesUp
  BY <1>1, NetworkKeepsEnds
<1>2. CASE NoticesClosed
  BY <1>2, LeavesConnectionKeepsEnds DEF NoticesClosed
<1>3. ASSUME NEW c \in Commands, ServerRequests(c) \/ ServerCancels(c)  PROVE EndInv'
  BY <1>3, NetworkKeepsEnds
<1>4. ASSUME NEW c \in Commands, Receives(c)  PROVE EndInv'
  BY <1>4, ReceivesKeepsEnds
<1>5. ASSUME NEW c \in Commands, TaskStep(c) \/ PumpFails(c) \/ TimesOut(c)
      PROVE  EndInv'
  BY <1>5, TaskStepKeepsEnds
<1>6. ASSUME NEW c \in Commands, Pumps(c) \/ LoosePump(c) \/ Exits(c) \/ Killed(c)
      PROVE  EndInv'
  BY <1>6, ProcessStepKeepsEnds
<1>7. CASE UNCHANGED vars
  <2>1. /\ UNCHANGED task /\ UNCHANGED proc /\ UNCHANGED sent
        /\ UNCHANGED asked /\ UNCHANGED inbox
    BY <1>7 DEF vars
  <2>2. \A d \in Commands : StaysOver(d)
    BY <2>1 DEF StaysOver, Over, NotWaiting
  <2>3. QED  BY <2>1, <2>2, NoNewEnd
<1>8. QED  BY <1>1, <1>2, <1>3, <1>4, <1>5, <1>6, <1>7 DEF Next

\* What the device reports of the end of a command is said once and is true: its
\* task is over, no other will start for it, and its process is gone, unless it
\* failed by its timeout and has been sent SIGTERM.
THEOREM ReportedEndsAreTrue == Spec => []EndsAreTrue
<1>1. Init => EndInv
  BY DEF Init, EndInv
<1>2. EndInv => EndsAreTrue
  BY DEF EndInv, TrueEnd, Over, EndsAreTrue
<1>3. QED  BY <1>1, <1>2, InitIsOK, StepKeepsInv, StepKeepsEnds, PTL DEF Spec
=============================================================================
