------------------------------ MODULE RemoteCalls ------------------------------
(***************************************************************************)
(* What calling a command on a remote device promises: a call starts only  *)
(* on a device that is online; it is decided once, by an answer or by the  *)
(* device going offline; it ends once, with what was decided or because    *)
(* its caller gave up; no call is left undecided on an offline device; and *)
(* a revoked device never comes online again.  What it does not promise is *)
(* that a revoked device is sent no more commands: the one that is online  *)
(* stays online, and calls start on it until it goes offline.              *)
(***************************************************************************)
CONSTANTS Devices, Calls, None

VARIABLES
  online,   \* devices that commands can be sent to
  revoked,  \* devices whose credentials are withdrawn
  status,   \* what became of each call
  place     \* the device each call was made on

vars == <<online, revoked, status, place>>

Undecided(d) == {c \in Calls : status[c] = "open" /\ place[c] = d}

Init ==
  /\ online = {} /\ revoked = {}
  /\ status = [c \in Calls |-> "new"]
  /\ place = [c \in Calls |-> None]

ComesOnline(d) ==
  /\ d \notin revoked
  /\ online' = online \cup {d}
  /\ UNCHANGED <<revoked, status, place>>

\* Its connection stays as it is.
Revoke(d) ==
  /\ revoked' = revoked \cup {d}
  /\ UNCHANGED <<online, status, place>>

GoesOffline(d) ==
  /\ online' = online \ {d}
  /\ status' = [c \in Calls |-> IF c \in Undecided(d) THEN "decided" ELSE status[c]]
  /\ UNCHANGED <<revoked, place>>

\* Also when d is revoked, as long as it is online.
Start(c, d) ==
  /\ status[c] = "new" /\ d \in online
  /\ status' = [status EXCEPT ![c] = "open"]
  /\ place' = [place EXCEPT ![c] = d]
  /\ UNCHANGED <<online, revoked>>

Decide(c) ==
  /\ status[c] = "open" /\ place[c] \in online
  /\ status' = [status EXCEPT ![c] = "decided"]
  /\ UNCHANGED <<online, revoked, place>>

End(c) ==
  /\ status[c] \in {"open", "decided"}
  /\ status' = [status EXCEPT ![c] = "ended"]
  /\ UNCHANGED <<online, revoked, place>>

Next ==
  \/ \E d \in Devices : ComesOnline(d) \/ Revoke(d) \/ GoesOffline(d)
  \/ \E c \in Calls : Decide(c) \/ End(c) \/ \E d \in Devices : Start(c, d)

Spec == Init /\ [][Next]_vars
=============================================================================
