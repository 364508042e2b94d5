--------------------------- MODULE TermuxConnection ---------------------------
(***************************************************************************)
(* Remote commands on paired Android devices: PairingService,              *)
(* TermuxConnectionManager and the gateway coroutine of each WebSocket.    *)
(*                                                                         *)
(* A device may open a new socket while an old one is still served: the    *)
(* manager keeps one transport for each device, the last one connected.    *)
(* A command is sent on the transport its device has then, and answered by *)
(* messages on whatever socket the device uses.  The device is modelled by *)
(* the messages it may send, in any order; its process is not this module. *)
(*                                                                         *)
(* One action is one stretch of a coroutine between two awaits.  Requests  *)
(* that only raise (an unknown or revoked device, a wrong code or token, a *)
(* command for a device without transport) change nothing: no action.      *)
(***************************************************************************)
EXTENDS FiniteSets

CONSTANTS
  Devices,   \* identities of devices (uuid4)
  Sockets,   \* WebSocket connections, each opened once
  Calls,     \* calls of execute, and the command ids they draw
  None       \* "no device", "no socket"

ASSUME NoneAssumption == None \notin Devices /\ None \notin Sockets

VARIABLES
  state,      \* PairingService._devices[d].state
  code,       \* devices with a pairing code pending: _pending
  overdue,    \* devices whose pairing code has expired
  token,      \* devices with a stored token hash: _token_hashes
  gate,       \* where the gateway coroutine of each socket is
  peer,       \* the device that authenticated on each socket
  alive,      \* sockets whose device end is still there
  transport,  \* TermuxConnectionManager._transports
  pending,    \* TermuxConnectionManager._pending: the command ids in it
  call,       \* the execute coroutines
  reported    \* history: <<d, c>> when device d reported the end of command c

pairingVars == <<state, code, overdue, token>>
socketVars == <<gate, peer, alive>>
vars == <<pairingVars, socketVars, transport, pending, call, reported>>

DeviceState ==
  {"UNREGISTERED", "PAIRING_REQUIRED", "AUTHORIZED", "CONNECTED",
   "DISCONNECTED", "REVOKED"}

\* waiting: for the future or the timeout; cancelling: sending command_cancel.
CallPoint == {"new", "sending", "waiting", "cancelling", "ended"}

Answer == {"completed", "failed"}

Outcome == Answer \cup {"none", "lost", "timeout", "cancelled", "error"}

Call ==
  [at      : CallPoint,
   device  : Devices \cup {None},
   socket  : Sockets \cup {None},           \* the transport it was sent on
   future  : Answer \cup {"open", "lost"},
   outcome : Outcome]

NewCall ==
  [at |-> "new", device |-> None, socket |-> None, future |-> "open",
   outcome |-> "none"]

TypeOK ==
  /\ state \in [Devices -> DeviceState]
  /\ code \in SUBSET Devices /\ overdue \in SUBSET Devices
  /\ token \in SUBSET Devices
  /\ gate \in [Sockets -> {"unused", "greeting", "open", "closed"}]
  /\ peer \in [Sockets -> Devices \cup {None}]
  /\ alive \in SUBSET Sockets
  /\ transport \in [Devices -> Sockets \cup {None}]
  /\ pending \in SUBSET Calls
  /\ call \in [Calls -> Call]
  /\ reported \in SUBSET (Devices \X Calls)

Init ==
  /\ state = [d \in Devices |-> "UNREGISTERED"]
  /\ code = {} /\ overdue = {} /\ token = {}
  /\ gate = [s \in Sockets |-> "unused"]
  /\ peer = [s \in Sockets |-> None]
  /\ alive = {}
  /\ transport = [d \in Devices |-> None]
  /\ pending = {}
  /\ call = [c \in Calls |-> NewCall]
  /\ reported = {}

-----------------------------------------------------------------------------
(* PairingService.                                                         *)

RegisterDevice(d) ==
  /\ state[d] = "UNREGISTERED"
  /\ state' = [state EXCEPT ![d] = "PAIRING_REQUIRED"]
  /\ code' = code \cup {d}
  /\ UNCHANGED <<overdue, token, socketVars, transport, pending, call, reported>>

CodeExpires(d) ==
  /\ d \in code \ overdue
  /\ overdue' = overdue \cup {d}
  /\ UNCHANGED <<state, code, token, socketVars, transport, pending, call, reported>>

\* The right code.  A wrong one changes nothing.
ConfirmPairing(d) ==
  /\ d \in code \ overdue
  /\ code' = code \ {d}
  /\ token' = token \cup {d}
  /\ state' = [state EXCEPT ![d] = "AUTHORIZED"]
  /\ UNCHANGED <<overdue, socketVars, transport, pending, call, reported>>

\* Any code, too late.
ConfirmTooLate(d) ==
  /\ d \in code \cap overdue
  /\ code' = code \ {d}
  /\ UNCHANGED <<state, overdue, token, socketVars, transport, pending, call, reported>>

RevokeDevice(d) ==
  /\ state[d] # "UNREGISTERED"
  /\ state' = [state EXCEPT ![d] = "REVOKED"]
  /\ token' = token \ {d}
  /\ code' = code \ {d}
  /\ UNCHANGED <<overdue, socketVars, transport, pending, call, reported>>

Authenticates(d) == state[d] # "REVOKED" /\ d \in token

-----------------------------------------------------------------------------
(* The gateway coroutine of a socket.                                      *)

\* The auth message, up to the send of auth_ok: authenticate, keep the
\* transport, mark_connected.
HandleConnect(s, d) ==
  /\ gate[s] = "unused" /\ Authenticates(d)
  /\ gate' = [gate EXCEPT ![s] = "greeting"]
  /\ peer' = [peer EXCEPT ![s] = d]
  /\ alive' = alive \cup {s}
  /\ transport' = [transport EXCEPT ![d] = s]
  /\ state' = [state EXCEPT ![d] = "CONNECTED"]
  /\ UNCHANGED <<code, overdue, token, pending, call, reported>>

SendAuthOk(s) ==
  /\ gate[s] = "greeting"
  /\ gate' = [gate EXCEPT ![s] = "open"]
  /\ UNCHANGED <<pairingVars, peer, alive, transport, pending, call, reported>>

\* auth_ok is sent outside the try whose finally disconnects.
SendAuthOkRaises(s) ==
  /\ gate[s] = "greeting" /\ s \notin alive
  /\ gate' = [gate EXCEPT ![s] = "closed"]
  /\ UNCHANGED <<pairingVars, peer, alive, transport, pending, call, reported>>

\* mark_disconnected, without looking at the state, without effect, and with
\* another state.
ForgetsRevocation(st) == "DISCONNECTED"
StaysConnected(st) == st
AwaitsReconnect(st) == IF st = "CONNECTED" THEN "RECONNECTING" ELSE st

MarkDisconnected(st) == IF st = "CONNECTED" THEN "DISCONNECTED" ELSE st

\* Only the commands that are awaited already.
LostWaiting(d) == {c \in pending : call[c].device = d /\ call[c].at = "waiting"}

Lost(d) == {c \in pending : call[c].device = d}

\* handle_disconnect: it knows the device, not the socket.
HandleDisconnect(s) ==
  /\ gate[s] = "open"
  /\ gate' = [gate EXCEPT ![s] = "closed"]
  /\ transport' = [transport EXCEPT ![peer[s]] = None]
  /\ state' = [state EXCEPT ![peer[s]] = MarkDisconnected(@)]
  /\ pending' = pending \ Lost(peer[s])
  /\ call' = [c \in Calls |->
                IF c \in Lost(peer[s]) /\ call[c].future = "open"
                THEN [call[c] EXCEPT !.future = "lost"]
                ELSE call[c]]
  /\ UNCHANGED <<code, overdue, token, peer, alive, reported>>

\* receive_json finds the other end gone.
PeerIsGone(s) == s \notin alive /\ HandleDisconnect(s)

\* A command id that is no UUID: ValueError leaves the receive loop.
MessageWithBadId(s) == s \in alive /\ HandleDisconnect(s)

\* The message is for a command that is pending for the device that sends it.
ExpectedFromAnyone(c, d) == c \in pending
Expected(c, d) == c \in pending /\ call[c].device = d

\* command_completed or command_failed.  A message for any other command, or
\* for one that is decided, is ignored.
FinalMessage(s, c, answer) ==
  /\ gate[s] = "open"
  /\ reported' = reported \cup {<<peer[s], c>>}
  /\ IF Expected(c, peer[s]) /\ call[c].future = "open"
     THEN call' = [call EXCEPT ![c].future = answer]
     ELSE UNCHANGED call
  /\ UNCHANGED <<pairingVars, socketVars, transport, pending>>

-----------------------------------------------------------------------------
(* execute.                                                                *)

\* Up to the await of the send.  The state of the device is not looked at.
Execute(c, d) ==
  /\ call[c].at = "new" /\ transport[d] # None
  /\ call' = [call EXCEPT ![c] =
                [@ EXCEPT !.at = "sending", !.device = d, !.socket = transport[d]]]
  /\ pending' = pending \cup {c}
  /\ UNCHANGED <<pairingVars, socketVars, transport, reported>>

SendReturns(c) ==
  /\ call[c].at = "sending" /\ gate[call[c].socket] # "closed"
  /\ call' = [call EXCEPT ![c].at = "waiting"]
  /\ UNCHANGED <<pairingVars, socketVars, transport, pending, reported>>

Finish(c, outcome) ==
  call' = [call EXCEPT ![c] = [@ EXCEPT !.at = "ended", !.outcome = outcome]]

\* The send is outside the try whose finally takes the command out of _pending.
SendRaises(c) ==
  /\ call[c].at = "sending"
  /\ gate[call[c].socket] = "closed" \/ call[c].socket \notin alive
  /\ Finish(c, "error")
  /\ UNCHANGED <<pairingVars, socketVars, transport, pending, reported>>

CancelledInSend(c) ==
  /\ call[c].at = "sending"
  /\ Finish(c, "cancelled")
  /\ UNCHANGED <<pairingVars, socketVars, transport, pending, reported>>

\* The result is passed on, but the command stays pending.
ReturnKeepsPending(c) ==
  /\ call[c].at = "waiting" /\ call[c].future # "open"
  /\ Finish(c, call[c].future)
  /\ UNCHANGED <<pairingVars, socketVars, transport, pending, reported>>

\* The result is passed on.
Return(c) ==
  /\ call[c].at = "waiting" /\ call[c].future # "open"
  /\ Finish(c, call[c].future)
  /\ pending' = pending \ {c}
  /\ UNCHANGED <<pairingVars, socketVars, transport, reported>>

GiveUp(c, outcome) ==
  /\ call[c].at = "waiting"
  /\ call' = [call EXCEPT ![c] = [@ EXCEPT !.at = "cancelling", !.outcome = outcome]]
  /\ pending' = pending \ {c}
  /\ UNCHANGED <<pairingVars, socketVars, transport, reported>>

\* A timer that is armed again whenever it fires.
TimeOutRearmed(c) == call[c].at = "waiting" /\ UNCHANGED vars

\* wait_for ran out of time.  A result set in the same turn of the event loop
\* is returned or lost, depending on the version of asyncio.
TimeOut(c) == GiveUp(c, "timeout")

\* The caller's task was cancelled.
Cancelled(c) == GiveUp(c, "cancelled")

\* The best-effort command_cancel went out, or failed, which is ignored.
CancelSent(c) ==
  /\ call[c].at = "cancelling"
  /\ Finish(c, call[c].outcome)
  /\ UNCHANGED <<pairingVars, socketVars, transport, pending, reported>>

\* A cancellation in the middle of that send.
CancelledInCancel(c) ==
  /\ call[c].at = "cancelling"
  /\ Finish(c, "cancelled")
  /\ UNCHANGED <<pairingVars, socketVars, transport, pending, reported>>

-----------------------------------------------------------------------------

\* The device crashes, or the network drops the connection.
PeerGoes(s) ==
  /\ gate[s] \in {"greeting", "open"} /\ s \in alive
  /\ alive' = alive \ {s}
  /\ UNCHANGED <<pairingVars, gate, peer, transport, pending, call, reported>>

Pairing ==
  \E d \in Devices :
    \/ RegisterDevice(d) \/ CodeExpires(d)
    \/ ConfirmPairing(d) \/ ConfirmTooLate(d) \/ RevokeDevice(d)

Gateway(s) ==
  \/ \E d \in Devices : HandleConnect(s, d)
  \/ SendAuthOk(s) \/ SendAuthOkRaises(s)
  \/ PeerIsGone(s) \/ MessageWithBadId(s)
  \/ \E c \in Calls, answer \in Answer : FinalMessage(s, c, answer)

\* What an execute coroutine does without anybody's help.
Proceed(c) ==
  \/ SendReturns(c) \/ SendRaises(c)
  \/ Return(c) \/ TimeOut(c) \/ CancelSent(c)

Caller(c) ==
  \/ \E d \in Devices : Execute(c, d)
  \/ CancelledInSend(c) \/ Cancelled(c) \/ CancelledInCancel(c)

Next ==
  \/ Pairing
  \/ \E s \in Sockets : Gateway(s) \/ PeerGoes(s)
  \/ \E c \in Calls : Proceed(c) \/ Caller(c)

\* Sends end (with an error when the other end is gone), timers fire and the
\* event loop schedules what is ready.  Nothing is assumed of devices, users
\* or the network.
Fairness == \A c \in Calls : WF_vars(Proceed(c))

Spec == Init /\ [][Next]_vars /\ Fairness

-----------------------------------------------------------------------------
(* What holds.                                                             *)

\* The two services agree on who is connected: the pairing service says
\* CONNECTED exactly while the manager has a transport, unless the device was
\* revoked meanwhile, and only a device that was not revoked has a token.
ViewsAgree ==
  \A d \in Devices :
    /\ state[d] = "CONNECTED" => transport[d] # None
    /\ transport[d] # None => state[d] \in {"CONNECTED", "REVOKED"}
    /\ state[d] \in {"AUTHORIZED", "CONNECTED", "DISCONNECTED"} <=> d \in token

\* A call that waits undecided can still be decided by others than its timer:
\* it is pending, so an answer finds it, and its device has a transport, whose
\* disconnect will find it.
WaitingIsReachable ==
  \A c \in Calls :
    call[c].at = "waiting" /\ call[c].future = "open" =>
      c \in pending /\ transport[call[c].device] # None

\* What is pending is being awaited, except for a command whose send failed or
\* was cancelled: execute leaves that one behind until its device disconnects.
PendingIsAwaited ==
  \A c \in pending :
    \/ call[c].at \in {"sending", "waiting"}
    \/ /\ call[c].at = "ended" /\ call[c].outcome \in {"error", "cancelled"}
       /\ call[c].future # "lost"

\* A call is answered only by the device it was made on, however many devices
\* answer and over however many sockets.
AnsweredByItsDevice ==
  \A c \in Calls :
    call[c].future \in Answer => <<call[c].device, c>> \in reported

\* A revocation is for good, whichever sockets of the device come and go.
RevokedForGood ==
  [][\A d \in Devices : state[d] = "REVOKED" => state'[d] = "REVOKED"]_vars

\* Every call of execute comes to an end, whatever device and network do.
CallsEnd ==
  \A c \in Calls :
    call[c].at \in {"sending", "waiting", "cancelling"} ~> call[c].at = "ended"

\* execute as its callers see it.
Seen(r) ==
  CASE r.at = "new" -> "new"
    [] r.at \in {"cancelling", "ended"} -> "ended"
    [] r.at \in {"sending", "waiting"} /\ r.future = "open" -> "open"
    [] OTHER -> "decided"

\* What execute looks at before it sends a command: only whether there is a
\* transport.  A revoked device has one until its socket closes.
Online == {d \in Devices : transport[d] # None}
Revoked == {d \in Devices : state[d] = "REVOKED"}
Status == [c \in Calls |-> Seen(call[c])]
Place == [c \in Calls |-> call[c].device]

Remote ==
  INSTANCE RemoteCalls WITH
    online <- Online, revoked <- Revoked, status <- Status, place <- Place

\* Seen from its callers the connection is a RemoteCalls: calls start only on
\* devices with a transport, are decided and end once, none stays undecided
\* where the transport is gone, and no revoked device connects again.
ImplementsRemoteCalls == Remote!Spec
=============================================================================
