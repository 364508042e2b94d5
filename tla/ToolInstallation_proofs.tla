------------------------ MODULE ToolInstallation_proofs ------------------------
(***************************************************************************)
(* The inductive invariant of ToolInstallation and what follows from it,   *)
(* for any tools, requests, coroutines and limit of attempts.              *)
(***************************************************************************)
EXTENDS ToolInstallation, TLAPS

\* Trust that was earned, and approvals under way that will be.
TrustOK ==
  /\ \A t \in Tools : trust[t] \in {"verified", "approved"} => Verdict[t] = "verified"
  /\ \A v \in Reviewers : approving[v] # None => Verdict[approving[v]] = "verified"

Sanctioned(rec) ==
  /\ rec.tool \in Tools /\ Verdict[rec.tool] = "verified"
  /\ rec.risky => rec.approved

\* Attempts after which another may follow: failures, no category twice in a
\* row, room for one more; last is what the coroutine remembers of them.
OpenStory(a, last) ==
  /\ Len(a) < MaxAttempts
  /\ \A i \in 1 .. Len(a) : a[i] \in ErrorCategory
  /\ \A i \in 1 .. Len(a) - 1 : a[i] # a[i + 1]
  /\ Len(a) = 0 => last = "none"
  /\ Len(a) > 0 => last = a[Len(a)]

\* What is known of a request, whoever works on it.
GoodRequest(rec) ==
  /\ Story(rec)
  /\ rec.state \in {"WAITING_FOR_APPROVAL", "PREPARING"} =>
       rec.attempts = <<>> /\ rec.tool \in Tools /\ Verdict[rec.tool] = "verified"
  /\ rec.state = "PREPARING" => (rec.risky => rec.approved)

\* What is known of coroutine h that has become w, when the request it works on
\* is rec and run is the command entered for it.
GoodWorker(h, w, rec, run) ==
  /\ w.at = "idle" => w = Idle
  /\ w.at # "idle" => w.on \in Requests /\ w.command # "none"
  /\ w.at = "installing" =>
       /\ rec.state \in {"INSTALLING", "CANCELLED"}
       /\ Sanctioned(rec) /\ OpenStory(rec.attempts, w.last)
       /\ run = h
  /\ w.at = "verifying" =>
       /\ rec.state \in {"VERIFYING", "CANCELLED"}
       /\ Len(rec.attempts) > 0 /\ rec.attempts[Len(rec.attempts)] = "completed"

WorkersOK ==
  \A h \in Handlers :
    GoodWorker(h, worker[h], record[worker[h].on], running[worker[h].on])

RequestsOK == \A r \in Requests : GoodRequest(record[r])

EntriesOK ==
  \A r \in Requests, h \in Handlers :
    running[r] = h => worker[h].at = "installing" /\ worker[h].on = r

IInv ==
  /\ TypeOK /\ TrustOK
  /\ OneStartPerRequest /\ WorkersOK /\ RequestsOK /\ EntriesOK

-----------------------------------------------------------------------------

LEMMA InitIsOK == Init => IInv
<1> SUFFICES ASSUME Init PROVE IInv
  OBVIOUS
<1>1. TypeOK
  BY DEF Init, TrustInit, TypeOK, TrustTypeOK, TrustStatus, NoRequest, NewRequest, Idle,
         InstallationRequest, InstallationState, Worker
<1>2. TrustOK /\ OneStartPerRequest
  BY DEF Init, TrustInit, TrustOK, OneStartPerRequest, Idle
<1>3. WorkersOK /\ RequestsOK
  BY InstallationAssumption
  DEF Init, WorkersOK, GoodWorker, Idle, RequestsOK, GoodRequest, Story, NoRequest, NewRequest
<1>4. EntriesOK
  BY InstallationAssumption DEF Init, EntriesOK
<1>5. QED
  BY <1>1, <1>2, <1>3, <1>4 DEF IInv

\* Every step of the trust requests keeps what concerns them.
LEMMA TrustStep == TypeOK /\ TrustOK /\ TrustNext => TrustTypeOK' /\ TrustOK'
<1> SUFFICES ASSUME TypeOK, TrustOK, TrustNext PROVE TrustTypeOK' /\ TrustOK'
  OBVIOUS
<1> USE MetadataAssumption
    DEF TypeOK, TrustTypeOK, TrustStatus, TrustOK, Registered, UpdateTrustStatus
<1>1. ASSUME NEW t \in Tools, RegisterTool(t) PROVE TrustTypeOK' /\ TrustOK'
  BY <1>1 DEF RegisterTool
<1>2. ASSUME NEW t \in Tools, VerifyTool(t) PROVE TrustTypeOK' /\ TrustOK'
  <2>1. TrustAfter(Verdict[t]) \in {"blocked", "verified", "under_review"}
    BY DEF TrustAfter
  <2>2. TrustAfter(Verdict[t]) = "verified" => Verdict[t] = "verified"
    BY DEF TrustAfter
  <2>3. QED
    BY <1>2, <2>1, <2>2 DEF VerifyTool
<1>3. ASSUME NEW t \in Tools, BlockTool(t) \/ DeprecateTool(t)
      PROVE  TrustTypeOK' /\ TrustOK'
  BY <1>3 DEF BlockTool, DeprecateTool
<1>4. ASSUME NEW t \in Tools, NEW v \in Reviewers, ApproveTool(v, t)
      PROVE  TrustTypeOK' /\ TrustOK'
  BY <1>4 DEF ApproveTool
<1>5. ASSUME NEW v \in Reviewers, GrantApproval(v) PROVE TrustTypeOK' /\ TrustOK'
  BY <1>5 DEF GrantApproval
<1>6. QED
  BY <1>1, <1>2, <1>3, <1>4, <1>5 DEF TrustNext

LEMMA TrustUntouched ==
  TypeOK /\ TrustOK /\ UNCHANGED trustVars => TrustTypeOK' /\ TrustOK'
  BY DEF TypeOK, TrustTypeOK, TrustOK, trustVars

-----------------------------------------------------------------------------
(* Steps by what they touch.                                               *)

\* Nobody but coroutine h works on request r.
Alone(h, r) == \A g \in Handlers \ {h} : worker[g].at # "idle" => worker[g].on # r

\* Request r, coroutine h and the entry of r become rec, w and run, where h
\* worked on nothing else and nobody else works on r.
LEMMA WorkStep ==
  ASSUME IInv, UNCHANGED trustVars,
         NEW h \in Handlers, NEW r \in Requests,
         NEW rec \in InstallationRequest, NEW w \in Worker,
         NEW run \in Handlers \cup {None, Gone},
         record' = [record EXCEPT ![r] = rec],
         worker' = [worker EXCEPT ![h] = w],
         running' = [running EXCEPT ![r] = run],
         worker[h].at # "idle" => worker[h].on = r,
         Alone(h, r),
         w.at # "idle" => w.on = r,
         GoodRequest(rec), GoodWorker(h, w, rec, run),
         run \in Handlers => run = h /\ w.at = "installing"
  PROVE  IInv'
<1>1. TypeOK' /\ TrustOK'
  BY TrustUntouched DEF IInv, TypeOK
<1>2. worker'[h] = w /\ \A g \in Handlers \ {h} : worker'[g] = worker[g]
  BY DEF IInv, TypeOK
<1>3. /\ record'[r] = rec /\ \A q \in Requests \ {r} : record'[q] = record[q]
      /\ running'[r] = run /\ \A q \in Requests \ {r} : running'[q] = running[q]
  BY DEF IInv, TypeOK
<1>4. OneStartPerRequest'
  <2>1. ASSUME NEW f \in Handlers, NEW g \in Handlers,
               worker'[f].at # "idle", worker'[f].on = worker'[g].on
        PROVE  f = g
    <3>1. CASE f # h /\ g # h
      BY <2>1, <1>2, <3>1 DEF IInv, OneStartPerRequest
    <3>2. CASE f = h /\ g # h
      <4>1. worker[g].on = r
        BY <2>1, <3>2, <1>2
      <4>2. worker[g].at = "idle" /\ worker[g] = Idle
        BY <4>1, <3>2 DEF Alone, IInv, WorkersOK, GoodWorker
      <4>3. QED
        BY <4>1, <4>2, InstallationAssumption DEF Idle
    <3>3. CASE f # h /\ g = h
      <4>1. worker[f].at # "idle" /\ worker[f].on = w.on /\ worker[f].on # r
        BY <2>1, <3>3, <1>2 DEF Alone
      <4>2. w = Idle /\ worker[f].on \in Requests
        BY <4>1, <3>3 DEF GoodWorker, IInv, WorkersOK
      <4>3. QED
        BY <4>1, <4>2, InstallationAssumption DEF Idle
    <3>4. QED
      BY <3>1, <3>2, <3>3
  <2>2. QED
    BY <2>1 DEF OneStartPerRequest
<1>5. WorkersOK'
  <2>1. ASSUME NEW g \in Handlers
        PROVE  GoodWorker(g, worker'[g], record'[worker'[g].on], running'[worker'[g].on])
    <3>1. CASE g = h /\ w.at # "idle"
      BY <1>2, <1>3, <3>1
    <3>2. CASE g = h /\ w.at = "idle"
      BY <1>2, <3>2 DEF GoodWorker
    <3>3. CASE g # h /\ worker[g].at = "idle"
      BY <1>2, <3>3 DEF GoodWorker, IInv, WorkersOK
    <3>4. CASE g # h /\ worker[g].at # "idle"
      <4>1. worker[g].on \in Requests \ {r}
        BY <3>4 DEF Alone, GoodWorker, IInv, WorkersOK
      <4>2. QED
        BY <4>1, <1>2, <1>3, <3>4 DEF IInv, WorkersOK
    <3>5. QED
      BY <3>1, <3>2, <3>3, <3>4
  <2>2. QED
    BY <2>1 DEF WorkersOK
<1>6. RequestsOK'
  BY <1>3 DEF IInv, RequestsOK, GoodRequest, Story
<1>7. EntriesOK'
  <2>1. ASSUME NEW q \in Requests, NEW g \in Handlers, running'[q] = g
        PROVE  worker'[g].at = "installing" /\ worker'[g].on = q
    <3>1. CASE q = r
      BY <2>1, <1>2, <1>3, <3>1
    <3>2. CASE q # r
      <4>1. worker[g].at = "installing" /\ worker[g].on = q
        BY <2>1, <1>3, <3>2 DEF IInv, EntriesOK
      <4>2. QED
        BY <4>1, <3>2, <1>2
    <3>3. QED
      BY <3>1, <3>2
  <2>2. QED
    BY <2>1 DEF EntriesOK
<1>8. QED
  BY <1>1, <1>4, <1>5, <1>6, <1>7 DEF IInv

\* Coroutine h leaves request r as rec, with an entry that is no command's.
LEMMA LeaveStep ==
  ASSUME IInv, UNCHANGED trustVars,
         NEW h \in Handlers, NEW r \in Requests,
         NEW rec \in InstallationRequest, NEW run \in {None, Gone},
         record' = [record EXCEPT ![r] = rec],
         worker' = [worker EXCEPT ![h] = Idle],
         running' = [running EXCEPT ![r] = run],
         worker[h].at # "idle" => worker[h].on = r,
         Alone(h, r),
         GoodRequest(rec)
  PROVE  IInv'
<1>1. Idle \in Worker /\ Idle.at = "idle"
  BY DEF Idle, Worker
<1>2. GoodWorker(h, Idle, rec, run)
  BY <1>1 DEF GoodWorker
<1>3. run \in Handlers \cup {None, Gone} /\ run \notin Handlers
  BY InstallationAssumption
<1>4. QED
  BY <1>1, <1>2, <1>3, WorkStep

\* Only request r changes, to a rec that suits whoever works on it.
LEMMA RequestStep ==
  ASSUME IInv, UNCHANGED <<trustVars, worker, running>>,
         NEW r \in Requests, NEW rec \in InstallationRequest,
         record' = [record EXCEPT ![r] = rec],
         GoodRequest(rec),
         \A h \in Handlers :
           worker[h].at # "idle" /\ worker[h].on = r =>
             GoodWorker(h, worker[h], rec, running[r])
  PROVE  IInv'
<1>1. TypeOK' /\ TrustOK'
  BY TrustUntouched DEF IInv, TypeOK
<1>2. record'[r] = rec /\ \A q \in Requests \ {r} : record'[q] = record[q]
  BY DEF IInv, TypeOK
<1>3. OneStartPerRequest' /\ EntriesOK'
  BY DEF IInv, OneStartPerRequest, EntriesOK
<1>4. RequestsOK'
  BY <1>2 DEF IInv, RequestsOK, GoodRequest, Story
<1>5. WorkersOK'
  <2>1. ASSUME NEW h \in Handlers
        PROVE  GoodWorker(h, worker[h], record'[worker[h].on], running[worker[h].on])
    <3>1. CASE worker[h].at = "idle"
      BY <3>1 DEF GoodWorker, IInv, WorkersOK
    <3>2. CASE worker[h].at # "idle" /\ worker[h].on = r
      BY <3>2, <1>2
    <3>3. CASE worker[h].at # "idle" /\ worker[h].on # r
      <4>1. worker[h].on \in Requests \ {r}
        BY <3>3 DEF GoodWorker, IInv, WorkersOK
      <4>2. QED
        BY <4>1, <1>2 DEF IInv, WorkersOK
    <3>4. QED
      BY <3>1, <3>2, <3>3
  <2>2. QED
    BY <2>1 DEF WorkersOK
<1>6. QED
  BY <1>1, <1>3, <1>4, <1>5 DEF IInv

\* Only the command or the target's authorization of coroutine h changes.
LEMMA WorkerStep ==
  ASSUME IInv, UNCHANGED <<trustVars, record, running>>,
         NEW h \in Handlers, NEW w \in Worker, worker[h].at # "idle",
         worker' = [worker EXCEPT ![h] = w],
         w.at = worker[h].at, w.on = worker[h].on, w.last = worker[h].last,
         w.command # "none"
  PROVE  IInv'
<1>1. TypeOK' /\ TrustOK'
  BY TrustUntouched DEF IInv, TypeOK
<1>2. worker'[h] = w /\ \A g \in Handlers \ {h} : worker'[g] = worker[g]
  BY DEF IInv, TypeOK
<1>3. OneStartPerRequest' /\ EntriesOK' /\ RequestsOK'
  BY <1>2 DEF IInv, OneStartPerRequest, EntriesOK, RequestsOK, GoodRequest, Story
<1>4. WorkersOK'
  BY <1>2 DEF IInv, WorkersOK, GoodWorker
<1>5. QED
  BY <1>1, <1>3, <1>4 DEF IInv

-----------------------------------------------------------------------------
(* The attempts.                                                           *)

LEMMA AttemptEntered ==
  ASSUME NEW a \in Seq(CommandStatus), NEW last, NEW status \in CommandStatus,
         OpenStory(a, last)
  PROVE  LET b == Append(a, status)
             n == Len(b)
         IN /\ b \in Seq(CommandStatus)
            /\ n = Len(a) + 1 /\ n <= MaxAttempts /\ b[n] = status
            /\ \A i \in 1 .. n - 1 : b[i] \in ErrorCategory
            /\ \A i \in 1 .. n - 2 : b[i] # b[i + 1]
            /\ status \in ErrorCategory /\ n # MaxAttempts /\ last # status =>
                 OpenStory(b, status)
<1> DEFINE b == Append(a, status)
<1>1. /\ b \in Seq(CommandStatus) /\ Len(b) = Len(a) + 1 /\ b[Len(b)] = status
      /\ Len(a) \in Nat
      /\ \A i \in 1 .. Len(a) : b[i] = a[i]
  OBVIOUS
<1>2. Len(b) <= MaxAttempts
  BY <1>1, InstallationAssumption DEF OpenStory
<1>3. \A i \in 1 .. Len(b) - 1 : b[i] \in ErrorCategory
  BY <1>1 DEF OpenStory
<1>4. \A i \in 1 .. Len(b) - 2 : b[i] # b[i + 1]
  <2>1. ASSUME NEW i \in 1 .. Len(b) - 2 PROVE b[i] # b[i + 1]
    <3>1. i \in 1 .. Len(a) - 1 /\ i \in 1 .. Len(a) /\ i + 1 \in 1 .. Len(a)
      BY <1>1
    <3>2. QED
      BY <1>1, <3>1 DEF OpenStory
  <2>2. QED
    BY <2>1
<1>5. ASSUME status \in ErrorCategory, Len(b) # MaxAttempts, last # status
      PROVE  OpenStory(b, status)
  <2>1. Len(b) < MaxAttempts /\ Len(b) > 0
    BY <1>1, <1>2, <1>5, InstallationAssumption
  <2>2. \A i \in 1 .. Len(b) : b[i] \in ErrorCategory
    BY <1>1, <1>3, <1>5
  <2>3. ASSUME NEW i \in 1 .. Len(b) - 1 PROVE b[i] # b[i + 1]
    <3>1. CASE i \in 1 .. Len(b) - 2
      BY <1>4, <3>1
    <3>2. CASE i = Len(a)
      BY <1>1, <1>5, <3>2 DEF OpenStory
    <3>3. QED
      BY <1>1, <3>1, <3>2
  <2>4. QED
    BY <1>1, <2>1, <2>2, <2>3 DEF OpenStory
<1>6. QED
  BY <1>1, <1>2, <1>3, <1>4, <1>5

\* What a coroutine that awaits an install command has in hand.
LEMMA AttemptOfWorker ==
  ASSUME IInv, NEW h \in Handlers, worker[h].at = "installing",
         worker[h].command \in CommandStatus
  PROVE  LET r == worker[h].on
             a == Attempted(h).attempts
             n == Len(a)
         IN /\ r \in Requests
            /\ record[r].state \in {"INSTALLING", "CANCELLED"}
            /\ Attempted(h) = [record[r] EXCEPT !.attempts = a]
            /\ a \in Seq(CommandStatus)
            /\ Sanctioned(record[r])
            /\ n <= MaxAttempts /\ n > 0 /\ a[n] = worker[h].command
            /\ \A i \in 1 .. n - 1 : a[i] \in ErrorCategory
            /\ \A i \in 1 .. n - 2 : a[i] # a[i + 1]
            /\ worker[h].command \in ErrorCategory /\ ~GivesUp(h) =>
                 OpenStory(a, worker[h].command)
            /\ Alone(h, r)
<1> DEFINE r == worker[h].on
           a == record[r].attempts
           b == Append(a, worker[h].command)
<1>1. /\ r \in Requests /\ record[r].state \in {"INSTALLING", "CANCELLED"}
      /\ Sanctioned(record[r]) /\ OpenStory(a, worker[h].last)
  BY DEF IInv, WorkersOK, GoodWorker
<1>2. record[r] \in InstallationRequest /\ a \in Seq(CommandStatus)
  BY <1>1 DEF IInv, TypeOK, InstallationRequest
<1>3. Attempted(h) = [record[r] EXCEPT !.attempts = b] /\ Attempted(h).attempts = b
  BY <1>2 DEF Attempted, InstallationRequest
<1>4. /\ b \in Seq(CommandStatus)
      /\ Len(b) = Len(a) + 1 /\ Len(b) <= MaxAttempts /\ b[Len(b)] = worker[h].command
      /\ \A i \in 1 .. Len(b) - 1 : b[i] \in ErrorCategory
      /\ \A i \in 1 .. Len(b) - 2 : b[i] # b[i + 1]
      /\ worker[h].command \in ErrorCategory /\ Len(b) # MaxAttempts
           /\ worker[h].last # worker[h].command => OpenStory(b, worker[h].command)
  BY <1>1, <1>2, AttemptEntered
<1>5. Len(b) > 0
  BY <1>2, <1>4
<1>6. Alone(h, r)
  BY DEF IInv, OneStartPerRequest, Alone
<1>7. QED
  BY <1>1, <1>3, <1>4, <1>5, <1>6 DEF GivesUp

\* The next attempt, of a request that has become rec and may have one.
LEMMA AttemptStep ==
  ASSUME IInv, UNCHANGED trustVars,
         NEW h \in Handlers, NEW r \in Requests, NEW rec \in InstallationRequest,
         NEW scope \in BOOLEAN, NEW last \in {"none"} \cup ErrorCategory,
         Attempt(h, r, rec, scope, last),
         worker[h].at # "idle" => worker[h].on = r,
         Alone(h, r),
         rec.state \in {"INSTALLING", "CANCELLED"},
         Sanctioned(rec), OpenStory(rec.attempts, last)
  PROVE  IInv'
<1>1. Story(rec) /\ GoodRequest(rec)
  <2>1. rec.attempts \in Seq(CommandStatus) /\ Len(rec.attempts) \in Nat
    BY DEF InstallationRequest
  <2>2. rec.state \notin {"VERIFYING", "INSTALLED", "ROLLBACK_REQUIRED",
                         "WAITING_FOR_APPROVAL", "PREPARING"}
    OBVIOUS
  <2> DEFINE a == rec.attempts
             n == Len(a)
  <2>3. /\ n \in Nat /\ n < MaxAttempts
        /\ \A i \in 1 .. n : a[i] \in ErrorCategory
        /\ \A i \in 1 .. n - 1 : a[i] # a[i + 1]
    BY <2>1 DEF OpenStory
  <2>5. /\ n <= MaxAttempts
        /\ \A i \in 1 .. n - 1 : a[i] \in ErrorCategory
        /\ \A i \in 1 .. n - 2 : a[i] # a[i + 1]
    <3> HIDE DEF a, n
    <3>1. QED
      BY <2>3, InstallationAssumption
  <2>6. Story(rec)
    BY <2>2, <2>5 DEF Story
  <2>4. QED
    BY <2>2, <2>6 DEF GoodRequest
<1>3. CASE AttemptDenied(h, r, rec, scope)
  <2> DEFINE new == [rec EXCEPT !.state = "BLOCKED"]
  <2>1. new \in InstallationRequest
    BY DEF InstallationRequest, InstallationState
  <2>2. GoodRequest(new)
    BY <1>1 DEF GoodRequest, Story, InstallationRequest
  <2>3. QED
    BY <1>3, <2>1, <2>2, LeaveStep DEF AttemptDenied
<1>4. CASE AttemptRaises(h, r, rec, scope)
  BY <1>1, <1>4, LeaveStep DEF AttemptRaises
<1>5. CASE AttemptRuns(h, r, rec, scope, last)
  <2> DEFINE w == [at |-> "installing", on |-> r, scope |-> scope,
                   command |-> "running", last |-> last]
  <2>1. w \in Worker /\ w.at = "installing" /\ w.on = r
    BY DEF Worker
  <2>2. GoodWorker(h, w, rec, h)
    BY DEF GoodWorker
  <2>3. QED
    BY <1>1, <1>5, <2>1, <2>2, WorkStep DEF AttemptRuns
<1>6. QED
  BY <1>3, <1>4, <1>5 DEF Attempt

-----------------------------------------------------------------------------
(* The actions of a user.                                                  *)

\* A request that was not created yet, or not started, has nobody working on it.
LEMMA Unattended ==
  ASSUME IInv, NEW r \in Requests,
         record[r].state \in {"none", "WAITING_FOR_APPROVAL", "PREPARING"}
  PROVE  \A g \in Handlers : worker[g].at # "idle" => worker[g].on # r
<1> SUFFICES ASSUME NEW g \in Handlers, worker[g].at # "idle", worker[g].on = r
             PROVE  FALSE
  OBVIOUS
<1>1. worker[g].at \in {"idle", "installing", "verifying"}
  BY DEF IInv, TypeOK, Worker
<1>2. record[r].state \in {"INSTALLING", "VERIFYING", "CANCELLED"}
  BY <1>1 DEF IInv, WorkersOK, GoodWorker
<1>3. QED
  BY <1>2

\* Only request r changes, and nobody works on it.
LEMMA UnattendedStep ==
  ASSUME IInv, UNCHANGED <<trustVars, worker, running>>,
         NEW r \in Requests, NEW rec \in InstallationRequest,
         record[r].state \in {"none", "WAITING_FOR_APPROVAL", "PREPARING"},
         record' = [record EXCEPT ![r] = rec],
         GoodRequest(rec)
  PROVE  IInv'
<1>1. \A h \in Handlers :
        worker[h].at # "idle" /\ worker[h].on = r =>
          GoodWorker(h, worker[h], rec, running[r])
  BY Unattended
<1>2. QED
  BY <1>1, RequestStep

LEMMA FreshRequest ==
  ASSUME NEW s \in InstallationState, NEW t \in Tools, NEW risky \in BOOLEAN,
         s \in {"BLOCKED", "WAITING_FOR_APPROVAL", "PREPARING"},
         s # "BLOCKED" => Verdict[t] = "verified",
         s = "PREPARING" => ~risky
  PROVE  /\ NewRequest(s, t, risky) \in InstallationRequest
         /\ GoodRequest(NewRequest(s, t, risky))
<1> DEFINE rec == NewRequest(s, t, risky)
<1>1. /\ rec.state = s /\ rec.tool = t /\ rec.risky = risky /\ rec.attempts = <<>>
  BY DEF NewRequest
<1>2. <<>> \in Seq(CommandStatus) /\ Len(<<>>) = 0
  OBVIOUS
<1>3. rec \in InstallationRequest
  BY <1>2 DEF NewRequest, InstallationRequest
<1>4. Story(rec)
  <2> HIDE DEF rec
  <2>1. QED
    BY <1>1, <1>2, InstallationAssumption DEF Story
<1>5. GoodRequest(rec)
  <2> HIDE DEF rec
  <2>1. QED
    BY <1>1, <1>4 DEF GoodRequest
<1>6. QED
  BY <1>3, <1>5

\* Approve, reject and cancel keep everything about a request but its state and
\* approval.
LEMMA RequestsAreGood ==
  ASSUME IInv, NEW r \in Requests
  PROVE  /\ record[r] \in InstallationRequest /\ GoodRequest(record[r])
         /\ \A s \in InstallationState :
              [record[r] EXCEPT !.state = s] \in InstallationRequest
         /\ GoodRequest([record[r] EXCEPT !.state = "CANCELLED"])
<1>1. record[r] \in InstallationRequest /\ GoodRequest(record[r])
  BY DEF IInv, TypeOK, RequestsOK
<1>2. \A s \in InstallationState : [record[r] EXCEPT !.state = s] \in InstallationRequest
  BY <1>1 DEF InstallationRequest
<1>3. GoodRequest([record[r] EXCEPT !.state = "CANCELLED"])
  BY <1>1 DEF GoodRequest, Story, InstallationRequest
<1>4. QED
  BY <1>1, <1>2, <1>3

\* reject and cancel, with whoever works on the request going on.
LEMMA CancelStep ==
  ASSUME IInv, NEW r \in Requests, SetState(r, "CANCELLED"),
         UNCHANGED <<trustVars, worker, running>>
  PROVE  IInv'
<1> DEFINE rec == [record[r] EXCEPT !.state = "CANCELLED"]
<1>1. rec \in InstallationRequest /\ GoodRequest(rec)
  BY RequestsAreGood DEF InstallationState
<1>2. record' = [record EXCEPT ![r] = rec]
  BY DEF SetState
<1>3. ASSUME NEW h \in Handlers, worker[h].at # "idle", worker[h].on = r
      PROVE  GoodWorker(h, worker[h], rec, running[r])
  <2>1. GoodWorker(h, worker[h], record[r], running[r])
    BY <1>3 DEF IInv, WorkersOK
  <2>2. rec.state = "CANCELLED" /\ rec.attempts = record[r].attempts /\ (Sanctioned(record[r]) => Sanctioned(rec))
    BY RequestsAreGood DEF InstallationRequest, Sanctioned
  <2>3. QED
    BY <2>1, <2>2 DEF GoodWorker
<1>4. QED
  BY <1>1, <1>2, <1>3, RequestStep

LEMMA UserStep ==
  ASSUME IInv, NEW r \in Requests, User(r)
  PROVE  IInv'
<1>1. ASSUME NEW t \in Tools, NEW platform, NEW scope, NEW path,
             RequestBlocked(r, t, platform, scope, path)
      PROVE  IInv'
  <2> DEFINE rec == NewRequest("BLOCKED", t, FALSE)
  <2>2. rec \in InstallationRequest /\ GoodRequest(rec)
    BY FreshRequest DEF InstallationState
  <2>3. /\ record[r].state = "none" /\ record' = [record EXCEPT ![r] = rec]
        /\ UNCHANGED <<trustVars, worker, running>>
    BY <1>1 DEF RequestBlocked
  <2> HIDE DEF rec
  <2>4. QED
    BY <2>2, <2>3, UnattendedStep
<1>2. ASSUME NEW t \in Tools, NEW risky \in BOOLEAN, NEW platform, NEW path,
             RequestAccepted(r, t, risky, platform, path)
      PROVE  IInv'
  <2> DEFINE s == IF risky THEN "WAITING_FOR_APPROVAL" ELSE "PREPARING"
             rec == NewRequest(s, t, risky)
  <2>1. Verdict[t] = "verified"
    BY <1>2 DEF RequestAccepted, Ready, PassesChecks, IInv, TrustOK
  <2>2. rec \in InstallationRequest /\ GoodRequest(rec)
    BY <2>1, FreshRequest DEF InstallationState
  <2>3. /\ record[r].state = "none" /\ record' = [record EXCEPT ![r] = rec]
        /\ UNCHANGED <<trustVars, worker, running>>
    BY <1>2 DEF RequestAccepted
  <2> HIDE DEF rec
  <2>4. QED
    BY <2>2, <2>3, UnattendedStep
<1>3. CASE Approve(r)
  <2> DEFINE rec == [record[r] EXCEPT !.state = "PREPARING", !.approved = TRUE]
  <2>1. record[r] \in InstallationRequest /\ GoodRequest(record[r])
    BY RequestsAreGood
  <2>2. rec \in InstallationRequest
    BY <2>1 DEF InstallationRequest, InstallationState
  <2>3. record[r].state = "WAITING_FOR_APPROVAL" /\ record' = [record EXCEPT ![r] = rec]
        /\ UNCHANGED <<trustVars, worker, running>>
    BY <1>3 DEF Approve
  <2>4. /\ rec.state = "PREPARING" /\ rec.approved = TRUE
        /\ rec.attempts = record[r].attempts /\ rec.tool = record[r].tool
    BY <2>1 DEF InstallationRequest
  <2> HIDE DEF rec
  <2>5. GoodRequest(rec)
    BY <2>1, <2>3, <2>4 DEF GoodRequest, Story
  <2>6. QED
    BY <2>2, <2>3, <2>5, UnattendedStep
<1>4. CASE Reject(r) \/ CancelNothingRunning(r)
  BY <1>4, CancelStep DEF Reject, CancelNothingRunning
<1>5. ASSUME NEW h \in Handlers, CancelRunning(r, h)
      PROVE  IInv'
  <2> DEFINE w == [worker[h] EXCEPT !.command = "cancelled"]
  <2>1. worker[h] \in Worker /\ worker[h].at # "idle"
    BY <1>5 DEF CancelRunning, IInv, TypeOK, WorkersOK, GoodWorker, Idle
  <2>2. w \in Worker /\ w.at = worker[h].at /\ w.on = worker[h].on /\ w.last = worker[h].last
        /\ w.command # "none"
    BY <2>1 DEF Worker, CommandStatus
  <2>3. QED
    BY <1>5, <2>1, <2>2, WorkerStep DEF CancelRunning
<1>6. ASSUME NEW h \in Handlers, NEW scope \in BOOLEAN, Start(h, r, scope)
      PROVE  IInv'
  <2> DEFINE rec == Installing(r)
  <2>1. record[r].state = "PREPARING" /\ worker[h].at = "idle"
    BY <1>6 DEF Start, MayStart
  <2>2. record[r] \in InstallationRequest /\ GoodRequest(record[r])
    BY RequestsAreGood
  <2>3. /\ rec \in InstallationRequest /\ rec.state = "INSTALLING"
        /\ rec.tool = record[r].tool /\ rec.risky = record[r].risky
        /\ rec.approved = record[r].approved /\ rec.attempts = record[r].attempts
    BY <2>2 DEF Installing, InstallationRequest, InstallationState
  <2>4. Sanctioned(rec)
    BY <2>1, <2>2, <2>3 DEF GoodRequest, Sanctioned
  <2>5. OpenStory(rec.attempts, "none")
    <3>1. rec.attempts = <<>> /\ Len(<<>>) = 0
      BY <2>1, <2>2, <2>3 DEF GoodRequest
    <3>2. QED
      BY <3>1, InstallationAssumption DEF OpenStory
  <2>6. Attempt(h, r, rec, scope, "none") /\ UNCHANGED trustVars
    BY <1>6 DEF Start
  <2>7. Alone(h, r)
    BY <2>1, Unattended DEF Alone
  <2> HIDE DEF rec
  <2>8. QED
    BY <2>1, <2>3, <2>4, <2>5, <2>6, <2>7, AttemptStep
<1>7. CASE StartUnapproved(r) \/ StartInvalidName(r)
  <2>1. record[r].state = "PREPARING"
    BY <1>7 DEF StartUnapproved, StartInvalidName, MayStart
  <2>2. Installing(r) \in InstallationRequest
    BY RequestsAreGood DEF Installing, InstallationState
  <2>3. GoodRequest(Installing(r))
    BY <2>1, RequestsAreGood DEF GoodRequest, Story, Installing, InstallationRequest
  <2>4. record' = [record EXCEPT ![r] = Installing(r)]
        /\ UNCHANGED <<trustVars, worker, running>>
    BY <1>7 DEF StartUnapproved, StartInvalidName
  <2>5. QED
    BY <2>1, <2>2, <2>3, <2>4, UnattendedStep
<1>8. QED
  BY <1>1, <1>2, <1>3, <1>4, <1>5, <1>6, <1>7 DEF User

-----------------------------------------------------------------------------
(* What a start does once it is under way.                                 *)

\* The request a coroutine has installed for, attempt entered, left as s.
LEMMA AttemptLeft ==
  ASSUME IInv, NEW h \in Handlers,
         worker[h].at = "installing", worker[h].command \in CommandStatus,
         NEW s \in InstallationState,
         s \notin {"WAITING_FOR_APPROVAL", "PREPARING"},
         s \in {"VERIFYING", "INSTALLED", "ROLLBACK_REQUIRED"} =>
           worker[h].command = "completed"
  PROVE  LET rec == [Attempted(h) EXCEPT !.state = s]
         IN /\ rec \in InstallationRequest /\ GoodRequest(rec)
            /\ rec.state = s /\ rec.attempts = Attempted(h).attempts
<1> DEFINE r == worker[h].on
           a == Attempted(h).attempts
           rec == [Attempted(h) EXCEPT !.state = s]
<1>1. /\ r \in Requests /\ Attempted(h) = [record[r] EXCEPT !.attempts = a]
      /\ a \in Seq(CommandStatus) /\ Len(a) <= MaxAttempts /\ Len(a) > 0
      /\ a[Len(a)] = worker[h].command
      /\ \A i \in 1 .. Len(a) - 1 : a[i] \in ErrorCategory
      /\ \A i \in 1 .. Len(a) - 2 : a[i] # a[i + 1]
  BY AttemptOfWorker
<1>2. record[r] \in InstallationRequest
  BY <1>1 DEF IInv, TypeOK
<1> HIDE DEF a
<1>3. Attempted(h) \in InstallationRequest /\ Attempted(h).attempts = a
  BY <1>1, <1>2 DEF InstallationRequest
<1>4. rec \in InstallationRequest /\ rec.state = s /\ rec.attempts = a
  BY <1>3 DEF InstallationRequest
<1> HIDE DEF rec
<1>5. Story(rec)
  BY <1>1, <1>4 DEF Story
<1>6. GoodRequest(rec)
  BY <1>4, <1>5 DEF GoodRequest
<1>7. QED
  BY <1>3, <1>4, <1>6 DEF rec, a

LEMMA ProceedStep ==
  ASSUME IInv, NEW h \in Handlers, Proceed(h)
  PROVE  IInv'
<1> DEFINE r == worker[h].on
<1>0. /\ worker[h] \in Worker
      /\ worker[h].command # "none" => worker[h].at # "idle"
      /\ worker[h].at # "idle" => r \in Requests
      /\ worker[h].at # "idle" => Alone(h, r)
  BY DEF IInv, TypeOK, WorkersOK, GoodWorker, Idle, OneStartPerRequest, Alone
<1>1. ASSUME NEW status \in CommandStatus, CommandEnds(h, status)
      PROVE  IInv'
  <2> DEFINE w == [worker[h] EXCEPT !.command = status]
  <2>1. w \in Worker /\ w.at = worker[h].at /\ w.on = worker[h].on /\ w.last = worker[h].last
        /\ w.command # "none"
    BY <1>0 DEF Worker, CommandStatus, ErrorCategory
  <2>2. worker[h].at # "idle" /\ worker' = [worker EXCEPT ![h] = w]
        /\ UNCHANGED <<trustVars, record, running>>
    BY <1>0, <1>1 DEF CommandEnds
  <2> HIDE DEF w
  <2>3. QED
    BY <2>1, <2>2, WorkerStep
<1>2. ASSUME NEW s \in {"CANCELLED", "FAILED", "VERIFYING", "ROLLBACK_REQUIRED"},
             worker[h].at = "installing", worker[h].command \in CommandStatus,
             s \in {"VERIFYING", "ROLLBACK_REQUIRED"} => worker[h].command = "completed",
             record' = [record EXCEPT ![r] = [Attempted(h) EXCEPT !.state = s]],
             worker' = [worker EXCEPT ![h] = Idle],
             running' = [running EXCEPT ![r] = None],
             UNCHANGED trustVars
      PROVE  IInv'
  <2> DEFINE rec == [Attempted(h) EXCEPT !.state = s]
  <2>1. rec \in InstallationRequest /\ GoodRequest(rec)
    BY <1>2, AttemptLeft DEF InstallationState
  <2>2. record' = [record EXCEPT ![r] = rec]
    BY <1>2
  <2> HIDE DEF rec
  <2>3. QED
    BY <1>0, <1>2, <2>1, <2>2, LeaveStep
<1>3. CASE InstallCancelled(h)
  BY <1>2, <1>3 DEF InstallCancelled, CommandStatus
<1>4. CASE InstallFails(h)
  BY <1>2, <1>4 DEF InstallFails, CommandStatus
<1>5. CASE Retry(h)
  <2> DEFINE rec == Attempted(h)
  <2>1. /\ worker[h].at = "installing" /\ worker[h].command \in ErrorCategory
        /\ Attempt(h, r, rec, worker[h].scope, worker[h].command) /\ UNCHANGED trustVars
        /\ ~GivesUp(h)
    BY <1>5 DEF Retry
  <2>2. /\ r \in Requests /\ record[r].state \in {"INSTALLING", "CANCELLED"}
        /\ Attempted(h) = [record[r] EXCEPT !.attempts = Attempted(h).attempts]
        /\ Attempted(h).attempts \in Seq(CommandStatus)
        /\ Sanctioned(record[r]) /\ OpenStory(Attempted(h).attempts, worker[h].command)
    BY <2>1, AttemptOfWorker DEF CommandStatus
  <2>3. record[r] \in InstallationRequest /\ worker[h].scope \in BOOLEAN
    BY <1>0, <2>1 DEF IInv, TypeOK, Worker
  <2>4. /\ rec \in InstallationRequest /\ rec.state \in {"INSTALLING", "CANCELLED"}
        /\ Sanctioned(rec) /\ OpenStory(rec.attempts, worker[h].command)
    BY <2>2, <2>3 DEF InstallationRequest, Sanctioned
  <2> HIDE DEF rec
  <2>5. QED
    BY <1>0, <2>1, <2>2, <2>3, <2>4, AttemptStep
<1>6. CASE VerifyDenied(h)
  BY <1>2, <1>6 DEF VerifyDenied, InstallSucceeds, CommandStatus
<1>7. CASE VerifyRaises(h)
  BY <1>2, <1>7 DEF VerifyRaises, InstallSucceeds, Verifying, CommandStatus
<1>8. CASE VerifyRuns(h)
  <2> DEFINE w == [worker[h] EXCEPT !.at = "verifying", !.command = "running"]
             rec == Verifying(h)
  <2>1. /\ worker[h].at = "installing" /\ worker[h].command = "completed"
        /\ record' = [record EXCEPT ![r] = rec]
        /\ worker' = [worker EXCEPT ![h] = w]
        /\ running' = [running EXCEPT ![r] = None]
        /\ UNCHANGED trustVars
    BY <1>8 DEF VerifyRuns, InstallSucceeds
  <2>2. /\ rec \in InstallationRequest /\ GoodRequest(rec) /\ rec.state = "VERIFYING"
        /\ rec.attempts = Attempted(h).attempts
    BY <2>1, AttemptLeft DEF InstallationState, CommandStatus, Verifying
  <2>3. Len(rec.attempts) > 0 /\ rec.attempts[Len(rec.attempts)] = "completed"
    BY <2>1, <2>2, AttemptOfWorker DEF CommandStatus
  <2>4. w \in Worker /\ w.at = "verifying" /\ w.on = r /\ w.command = "running"
    BY <1>0 DEF Worker
  <2> HIDE DEF w, rec
  <2>5. GoodWorker(h, w, rec, None)
    BY <1>0, <2>1, <2>2, <2>3, <2>4 DEF GoodWorker
  <2>6. None \notin Handlers
    BY InstallationAssumption
  <2>7. QED
    BY <1>0, <2>1, <2>2, <2>4, <2>5, <2>6, WorkStep
<1>9. CASE Verified(h) \/ NotVerified(h)
  <2>1. PICK s \in {"INSTALLED", "ROLLBACK_REQUIRED"} :
          record' = [record EXCEPT ![r] = [record[r] EXCEPT !.state = s]]
    BY <1>9 DEF Verified, NotVerified, SetState
  <2> DEFINE rec == [record[r] EXCEPT !.state = s]
  <2>2. /\ worker[h].at = "verifying"
        /\ record' = [record EXCEPT ![r] = rec]
        /\ worker' = [worker EXCEPT ![h] = Idle]
        /\ UNCHANGED trustVars /\ UNCHANGED running
    BY <1>9, <2>1 DEF Verified, NotVerified
  <2>3. /\ record[r] \in InstallationRequest /\ GoodRequest(record[r])
        /\ rec \in InstallationRequest
    BY <1>0, <2>2, RequestsAreGood DEF InstallationState
  <2>4. /\ Len(record[r].attempts) > 0
        /\ record[r].attempts[Len(record[r].attempts)] = "completed"
    BY <2>2 DEF IInv, WorkersOK, GoodWorker
  <2>5. rec.state = s /\ rec.attempts = record[r].attempts
    BY <2>3 DEF InstallationRequest
  <2> HIDE DEF rec
  <2>6. GoodRequest(rec)
    BY <2>3, <2>4, <2>5 DEF GoodRequest, Story
  <2>7. r \in Requests /\ running \in [Requests -> Handlers \cup {None, Gone}]
    BY <1>0, <2>2 DEF IInv, TypeOK
  <2>8. running[r] \in {None, Gone}
    <3>1. \A g \in Handlers : running[r] # g
      BY <1>0, <2>2, <2>7 DEF IInv, EntriesOK, Alone
    <3>2. QED
      BY <2>7, <3>1
  <2>9. running' = [running EXCEPT ![r] = running[r]]
    BY <2>2, <2>7
  <2>10. QED
    BY <1>0, <2>2, <2>3, <2>6, <2>8, <2>9, LeaveStep
<1>10. QED
  BY <1>1, <1>3, <1>4, <1>5, <1>6, <1>7, <1>8, <1>9 DEF Proceed

-----------------------------------------------------------------------------

LEMMA NextKeepsIInv == IInv /\ [Next]_vars => IInv'
<1> SUFFICES ASSUME IInv, [Next]_vars PROVE IInv'
  OBVIOUS
<1>1. CASE TrustNext /\ UNCHANGED installVars
  <2>1. TrustTypeOK' /\ TrustOK'
    BY <1>1, TrustStep DEF IInv
  <2>2. QED
    BY <1>1, <2>1 DEF IInv, TypeOK, OneStartPerRequest, WorkersOK, RequestsOK, EntriesOK,
                      installVars
<1>2. ASSUME NEW r \in Requests, User(r) PROVE IInv'
  BY <1>2, UserStep
<1>3. ASSUME NEW h \in Handlers, Proceed(h) PROVE IInv'
  BY <1>3, ProceedStep
<1>4. ASSUME NEW h \in Handlers, AuthorizationExpires(h) PROVE IInv'
  <2> DEFINE w == [worker[h] EXCEPT !.scope = FALSE]
  <2>1. worker[h] \in Worker /\ worker[h].at # "idle" /\ worker[h].command # "none"
    BY <1>4 DEF AuthorizationExpires, IInv, TypeOK, WorkersOK, GoodWorker, Idle
  <2>2. w \in Worker /\ w.at = worker[h].at /\ w.on = worker[h].on /\ w.last = worker[h].last
        /\ w.command # "none"
    BY <2>1 DEF Worker
  <2>3. worker' = [worker EXCEPT ![h] = w] /\ UNCHANGED <<trustVars, record, running>>
    BY <1>4 DEF AuthorizationExpires
  <2> HIDE DEF w
  <2>4. QED
    BY <2>1, <2>2, <2>3, WorkerStep
<1>5. CASE UNCHANGED vars
  BY <1>5 DEF IInv, TypeOK, TrustTypeOK, TrustOK, OneStartPerRequest, WorkersOK, RequestsOK,
              EntriesOK, vars, trustVars, installVars
<1>6. QED
  BY <1>1, <1>2, <1>3, <1>4, <1>5 DEF Next

\* IInv holds in every reachable state.
THEOREM InvariantHolds == Spec => []IInv
  BY InitIsOK, NextKeepsIInv, PTL DEF Spec

\* Every variable has its type.
THEOREM TypeCorrect == Spec => []TypeOK
<1>1. IInv => TypeOK
  BY DEF IInv
<1>2. QED
  BY <1>1, InvariantHolds, PTL

\* No two coroutines of start_installation work on one request.
THEOREM StartsAreExclusive == Spec => []OneStartPerRequest
<1>1. IInv => OneStartPerRequest
  BY DEF IInv
<1>2. QED
  BY <1>1, InvariantHolds, PTL

\* An install command runs only for a tool whose verification confirmed it, with
\* the approval its risk calls for.
THEOREM InstallationsAreSanctioned == Spec => []InstallsAreSanctioned
<1>1. IInv => InstallsAreSanctioned
  BY DEF IInv, WorkersOK, GoodWorker, Sanctioned, InstallsAreSanctioned
<1>2. QED
  BY <1>1, InvariantHolds, PTL

\* The attempts of a request tell one story, whoever rejects or cancels meanwhile.
THEOREM AttemptsStayCoherent == Spec => []AttemptsCoherent
<1>1. IInv => AttemptsCoherent
  BY DEF IInv, RequestsOK, GoodRequest, AttemptsCoherent
<1>2. QED
  BY <1>1, InvariantHolds, PTL

\* cancel finds the install command that runs.
THEOREM CancelAlwaysFindsCommand == Spec => []CancelFindsCommand
<1>1. IInv => CancelFindsCommand
  BY DEF IInv, WorkersOK, GoodWorker, EntriesOK, CancelFindsCommand
<1>2. QED
  BY <1>1, InvariantHolds, PTL

\* The most cautious finding wins: nothing but confirmations make a confirmation.
LEMMA ConfirmedInEveryStage ==
  ASSUME NEW m \in ToolMetadata, Overall(Report(m)) = "verified"
  PROVE  /\ \A s \in VerificationStage : Report(m)[s] = "verified"
         /\ m.platforms \subseteq SupportedPlatforms
<1>1. \A s \in VerificationStage : Report(m)[s] \in VerificationResult
  BY DEF Report, VerificationStage, VerificationResult, KnownIf, VerifySource,
         CheckPlatform, CheckDependencies, SecurityPolicyReview
<1>2. \A s \in VerificationStage : Report(m)[s] = "verified"
  <2> DEFINE report == Report(m)
  <2>1. \A s \in VerificationStage : report[s] \in VerificationResult
    BY <1>1
  <2>2. Overall(report) = "verified"
    OBVIOUS
  <2> HIDE DEF report
  <2>3. /\ ~Found(report, "failed") /\ ~Found(report, "unknown")
        /\ ~Found(report, "unverified")
    BY <2>2 DEF Overall
  <2>4. \A s \in VerificationStage : report[s] = "verified"
    BY <2>1, <2>3 DEF Found, VerificationResult
  <2>5. QED
    BY <2>4 DEF report
<1>3. CheckPlatform(m) = "verified"
  BY <1>2 DEF Report, VerificationStage
<1>4. QED
  BY <1>2, <1>3 DEF CheckPlatform

\* The gate lets a tool pass only if verification confirmed all of it, on a
\* platform it declares.
THEOREM ApprovalsAreEarned == Spec => []ApprovalEarned
<1>1. IInv => ApprovalEarned
  <2> SUFFICES ASSUME IInv, NEW t \in Tools, NEW p \in Platform,
                      Eligible(Metadata[t], trust[t], p)
               PROVE  /\ \A s \in VerificationStage : Report(Metadata[t])[s] = "verified"
                      /\ p \in Metadata[t].platforms
                      /\ Metadata[t].platforms \subseteq SupportedPlatforms
    BY DEF ApprovalEarned
  <2>1. trust[t] = "approved" /\ p \in Metadata[t].platforms
    BY DEF Eligible
  <2>2. Verdict[t] = "verified"
    BY <2>1 DEF IInv, TrustOK
  <2>3. Metadata[t] \in ToolMetadata /\ Overall(Report(Metadata[t])) = "verified"
    BY <2>2, MetadataAssumption DEF Verdict
  <2>4. QED
    BY <2>1, <2>3, ConfirmedInEveryStage
<1>2. QED
  BY <1>1, InvariantHolds, PTL

\* What ended in INSTALLED, FAILED or BLOCKED stays so: nobody may start, approve,
\* reject or cancel it, and whoever works on a request has it in another state.
THEOREM EndsAreFinal == Spec => EndIsFinal
<1>1. IInv /\ [Next]_vars =>
        [\A r \in Requests :
           record[r].state \in TerminalStates \ {"CANCELLED"} =>
             record'[r].state = record[r].state]_vars
  <2> SUFFICES ASSUME IInv, Next, NEW r \in Requests,
                      record[r].state \in {"INSTALLED", "FAILED", "BLOCKED"}
               PROVE  record'[r].state = record[r].state
    BY DEF TerminalStates
  <2>0. record \in [Requests -> InstallationRequest] /\ IsTerminal(r)
    BY DEF IInv, TypeOK, IsTerminal, TerminalStates
  <2>1. CASE TrustNext /\ UNCHANGED installVars
    BY <2>1 DEF installVars
  <2>2. ASSUME NEW q \in Requests, User(q) PROVE record'[r] = record[r]
    <3>1. ASSUME NEW h \in Handlers, NEW scope \in BOOLEAN, Start(h, q, scope)
          PROVE  record'[r] = record[r]
      BY <2>0, <3>1
      DEF Start, MayStart, Attempt, AttemptDenied, AttemptRaises, AttemptRuns
    <3>3. ASSUME NEW t, NEW risky, NEW platform, NEW scope, NEW path,
                 \/ RequestBlocked(q, t, platform, scope, path)
                 \/ RequestAccepted(q, t, risky, platform, path)
          PROVE  record'[r] = record[r]
      BY <2>0, <3>3 DEF RequestBlocked, RequestAccepted
    <3>2. QED
      BY <2>0, <2>2, <3>1, <3>3
      DEF User, Approve, Reject, CancelNothingRunning,
          CancelRunning, StartUnapproved, StartInvalidName, MayStart, SetState
  <2>3. ASSUME NEW h \in Handlers, Proceed(h) PROVE record'[r] = record[r]
    <3>2. worker[h].at \in {"installing", "verifying"} => r # worker[h].on
      BY DEF IInv, WorkersOK, GoodWorker
    <3>3. CASE Retry(h)
      BY <2>0, <3>2, <3>3
      DEF Retry, Attempt, AttemptDenied, AttemptRaises, AttemptRuns
    <3>4. CASE InstallCancelled(h) \/ InstallFails(h)
      BY <2>0, <3>2, <3>4 DEF InstallCancelled, InstallFails
    <3>5. CASE VerifyDenied(h) \/ VerifyRaises(h) \/ VerifyRuns(h)
      BY <2>0, <3>2, <3>5 DEF VerifyDenied, VerifyRaises, VerifyRuns, InstallSucceeds
    <3>6. CASE Verified(h) \/ NotVerified(h)
      BY <2>0, <3>2, <3>6 DEF Verified, NotVerified, SetState
    <3>7. QED
      BY <2>3, <3>3, <3>4, <3>5, <3>6 DEF Proceed, CommandEnds
  <2>4. ASSUME NEW h \in Handlers, AuthorizationExpires(h) PROVE record'[r] = record[r]
    BY <2>4 DEF AuthorizationExpires
  <2>5. QED
    BY <2>1, <2>2, <2>3, <2>4 DEF Next
<1>2. QED
  BY <1>1, InvariantHolds, PTL DEF Spec, EndIsFinal
=============================================================================
