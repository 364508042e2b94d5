----------------------- MODULE TermuxConnection_proofs ------------------------
(***************************************************************************)
(* Proofs about TermuxConnection for every set of devices, sockets and     *)
(* calls: its safety properties, and that it implements RemoteCalls.       *)
(***************************************************************************)
EXTENDS TermuxConnection, TLAPS

\* ViewsAgree, and a code is pending only before the pairing is confirmed.
PairingOK == ViewsAgree /\ \A d \in code : state[d] = "PAIRING_REQUIRED"

PeersOK == \A s \in Sockets : gate[s] \in {"greeting", "open"} => peer[s] \in Devices

\* What is known of a call at every moment.  The second line of the last but one
\* conjunct is for calls that are sent, not only for those that wait: a device
\* may go while its command is being sent.
GoodCall(c) ==
  /\ call[c].at # "new" => call[c].device \in Devices /\ call[c].socket \in Sockets
  /\ call[c].at = "new" => call[c].future = "open" /\ c \notin pending
  /\ call[c].future \in Answer => <<call[c].device, c>> \in reported
  /\ call[c].at \in {"sending", "waiting"} /\ call[c].future = "open" =>
       c \in pending /\ transport[call[c].device] # None
  /\ c \in pending =>
       /\ call[c].future # "lost"
       /\ \/ call[c].at \in {"sending", "waiting"}
          \/ call[c].at = "ended" /\ call[c].outcome \in {"error", "cancelled"}

CallsOK == \A c \in Calls : GoodCall(c)

IInv == TypeOK /\ PairingOK /\ PeersOK /\ CallsOK

-----------------------------------------------------------------------------

LEMMA InitIsOK == Init => IInv
  BY NoneAssumption
  DEF Init, IInv, TypeOK, PairingOK, ViewsAgree, PeersOK, CallsOK, GoodCall,
      NewCall, Call, CallPoint, Outcome, Answer, DeviceState

\* A step that leaves calls alone and takes no transport away.
LEMMA UntouchedCalls ==
  ASSUME CallsOK, UNCHANGED <<pending, call, reported>>,
         \A d \in Devices : transport[d] # None => transport'[d] # None
  PROVE  CallsOK'
  BY DEF CallsOK, GoodCall

\* Pairing changes neither sockets nor calls.
LEMMA PairingKeepsIInv ==
  ASSUME IInv, Pairing
  PROVE  IInv'
<1>1. PICK d \in Devices :
        \/ RegisterDevice(d) \/ CodeExpires(d)
        \/ ConfirmPairing(d) \/ ConfirmTooLate(d) \/ RevokeDevice(d)
  BY DEF Pairing
<1>2. UNCHANGED <<socketVars, transport, pending, call, reported>>
  BY <1>1
  DEF RegisterDevice, CodeExpires, ConfirmPairing, ConfirmTooLate, RevokeDevice
<1>3. PeersOK' /\ CallsOK'
  BY <1>2, UntouchedCalls DEF IInv, PeersOK, socketVars
<1>4. /\ state' \in [Devices -> DeviceState]
      /\ code' \in SUBSET Devices /\ overdue' \in SUBSET Devices
      /\ token' \in SUBSET Devices
  BY <1>1
  DEF IInv, TypeOK, DeviceState, RegisterDevice, CodeExpires, ConfirmPairing,
      ConfirmTooLate, RevokeDevice
<1>5. TypeOK'
  BY <1>2, <1>4 DEF IInv, TypeOK, socketVars
<1>6. PairingOK'
  <2>1. CASE RegisterDevice(d)
    BY <2>1 DEF IInv, TypeOK, PairingOK, ViewsAgree, RegisterDevice
  <2>2. CASE CodeExpires(d)
    BY <2>2 DEF IInv, PairingOK, ViewsAgree, CodeExpires
  <2>3. CASE ConfirmPairing(d)
    BY <2>3 DEF IInv, TypeOK, PairingOK, ViewsAgree, ConfirmPairing
  <2>4. CASE ConfirmTooLate(d)
    BY <2>4 DEF IInv, PairingOK, ViewsAgree, ConfirmTooLate
  <2>5. CASE RevokeDevice(d)
    BY <2>5 DEF IInv, TypeOK, PairingOK, ViewsAgree, RevokeDevice
  <2> QED BY <1>1, <2>1, <2>2, <2>3, <2>4, <2>5
<1> QED BY <1>3, <1>5, <1>6 DEF IInv

-----------------------------------------------------------------------------
(* The gateway.                                                            *)

LEMMA HandleConnectKeepsIInv ==
  ASSUME IInv, NEW s \in Sockets, NEW d \in Devices, HandleConnect(s, d)
  PROVE  IInv'
<1> USE DEF HandleConnect
<1>1. TypeOK'
  BY DEF IInv, TypeOK, DeviceState
<1>2. PairingOK'
  BY NoneAssumption DEF IInv, TypeOK, PairingOK, ViewsAgree, Authenticates
<1>3. PeersOK'
  BY DEF IInv, TypeOK, PeersOK
<1>4. CallsOK'
  BY NoneAssumption, UntouchedCalls DEF IInv, TypeOK
<1> QED BY <1>1, <1>2, <1>3, <1>4 DEF IInv

\* SendAuthOk, SendAuthOkRaises and PeerGoes move one socket only.
LEMMA SocketKeepsIInv ==
  ASSUME IInv, NEW s \in Sockets,
         SendAuthOk(s) \/ SendAuthOkRaises(s) \/ PeerGoes(s)
  PROVE  IInv'
<1> USE DEF SendAuthOk, SendAuthOkRaises, PeerGoes
<1>1. UNCHANGED <<pairingVars, peer, transport, pending, call, reported>>
  OBVIOUS
<1>2. TypeOK'
  BY <1>1 DEF IInv, TypeOK, pairingVars
<1>3. PairingOK'
  BY <1>1 DEF IInv, PairingOK, ViewsAgree, pairingVars
<1>4. PeersOK'
  BY <1>1 DEF IInv, TypeOK, PeersOK
<1>5. CallsOK'
  BY <1>1, UntouchedCalls DEF IInv
<1> QED BY <1>2, <1>3, <1>4, <1>5 DEF IInv

\* The calls after a disconnect, one by one.
LEMMA CallAfterDisconnect ==
  ASSUME IInv, NEW s \in Sockets, HandleDisconnect(s), NEW c \in Calls
  PROVE  /\ peer[s] \in Devices
         /\ call'[c] =
              IF c \in Lost(peer[s]) /\ call[c].future = "open"
              THEN [call[c] EXCEPT !.future = "lost"]
              ELSE call[c]
         /\ c \in pending' <=> c \in pending /\ call[c].device # peer[s]
  BY DEF IInv, PeersOK, HandleDisconnect, Lost

LEMMA HandleDisconnectKeepsIInv ==
  ASSUME IInv, NEW s \in Sockets, HandleDisconnect(s)
  PROVE  IInv'
<1>1. peer[s] \in Devices
  BY DEF IInv, PeersOK, HandleDisconnect
<1>2. TypeOK'
  <2>1. state' \in [Devices -> DeviceState]
    BY <1>1 DEF IInv, TypeOK, HandleDisconnect, MarkDisconnected, DeviceState
  <2>2. call' \in [Calls -> Call]
    BY DEF IInv, TypeOK, HandleDisconnect, Call
  <2> QED BY <1>1, <2>1, <2>2 DEF IInv, TypeOK, HandleDisconnect
<1>3. PairingOK'
  BY <1>1 DEF IInv, TypeOK, PairingOK, ViewsAgree, HandleDisconnect, MarkDisconnected
<1>4. PeersOK'
  BY DEF IInv, TypeOK, PeersOK, HandleDisconnect
<1>5. ASSUME NEW c \in Calls PROVE GoodCall(c)'
  <2>1. GoodCall(c) /\ call[c] \in Call
    BY DEF IInv, TypeOK, CallsOK
  <2>2. CASE c \in Lost(peer[s]) /\ call[c].future = "open"
    <3>1. call'[c] = [call[c] EXCEPT !.future = "lost"] /\ c \notin pending'
      BY <2>2, CallAfterDisconnect DEF Lost
    <3> QED BY <2>1, <2>2, <3>1 DEF GoodCall, Call, Answer, Lost
  <2>3. CASE ~(c \in Lost(peer[s]) /\ call[c].future = "open")
    <3>1. call'[c] = call[c] /\ (c \in pending' <=> c \in pending /\ call[c].device # peer[s])
      BY <2>3, CallAfterDisconnect
    <3>2. \A d \in Devices \ {peer[s]} : transport'[d] = transport[d]
      BY DEF IInv, TypeOK, HandleDisconnect
    <3>3. reported' = reported
      BY DEF HandleDisconnect
    <3> QED BY <2>1, <2>3, <3>1, <3>2, <3>3 DEF GoodCall, Lost
  <2> QED BY <2>2, <2>3
<1> QED BY <1>2, <1>3, <1>4, <1>5 DEF IInv, CallsOK

LEMMA FinalMessageKeepsIInv ==
  ASSUME IInv, NEW s \in Sockets, NEW c \in Calls, NEW answer \in Answer,
         FinalMessage(s, c, answer)
  PROVE  IInv'
<1> USE DEF FinalMessage
<1>1. peer[s] \in Devices
  BY DEF IInv, PeersOK
<1>2. UNCHANGED <<pairingVars, socketVars, transport, pending>>
  OBVIOUS
<1>3. TypeOK'
  <2>1. call' \in [Calls -> Call]
    BY DEF IInv, TypeOK, Call
  <2> QED BY <1>1, <1>2, <2>1 DEF IInv, TypeOK, pairingVars, socketVars
<1>4. PairingOK' /\ PeersOK'
  BY <1>2 DEF IInv, PairingOK, ViewsAgree, PeersOK, pairingVars, socketVars
<1>5. ASSUME NEW e \in Calls PROVE GoodCall(e)'
  <2>1. GoodCall(e) /\ call[e] \in Call
    BY DEF IInv, TypeOK, CallsOK
  <2>2. CASE e = c /\ Expected(c, peer[s]) /\ call[c].future = "open"
    <3>1. call'[e] = [call[e] EXCEPT !.future = answer]
      BY <2>2 DEF IInv, TypeOK
    <3> QED BY <1>2, <2>1, <2>2, <3>1 DEF GoodCall, Call, Answer, Expected
  <2>3. CASE ~(e = c /\ Expected(c, peer[s]) /\ call[c].future = "open")
    <3>1. call'[e] = call[e] /\ reported \subseteq reported'
      BY <2>3 DEF IInv, TypeOK
    <3> QED BY <1>2, <2>1, <3>1 DEF GoodCall
  <2> QED BY <2>2, <2>3
<1> QED BY <1>3, <1>4, <1>5 DEF IInv, CallsOK

LEMMA GatewayKeepsIInv ==
  ASSUME IInv, NEW s \in Sockets, Gateway(s) \/ PeerGoes(s)
  PROVE  IInv'
<1>1. CASE \E d \in Devices : HandleConnect(s, d)
  BY <1>1, HandleConnectKeepsIInv
<1>2. CASE SendAuthOk(s) \/ SendAuthOkRaises(s) \/ PeerGoes(s)
  BY <1>2, SocketKeepsIInv
<1>3. CASE PeerIsGone(s) \/ MessageWithBadId(s)
  BY <1>3, HandleDisconnectKeepsIInv DEF PeerIsGone, MessageWithBadId
<1>4. CASE \E c \in Calls, answer \in Answer : FinalMessage(s, c, answer)
  BY <1>4, FinalMessageKeepsIInv
<1> QED BY <1>1, <1>2, <1>3, <1>4 DEF Gateway

-----------------------------------------------------------------------------
(* execute.                                                                *)

\* A step of one call, that leaves it good and all else alone.
LEMMA OneCallKeepsIInv ==
  ASSUME IInv, NEW c \in Calls, NEW r \in Call,
         call' = [call EXCEPT ![c] = r],
         UNCHANGED <<pairingVars, socketVars, transport, reported>>,
         pending' \in SUBSET Calls,
         \A e \in Calls \ {c} : e \in pending' <=> e \in pending,
         GoodCall(c)'
  PROVE  IInv'
<1>1. TypeOK'
  BY DEF IInv, TypeOK, pairingVars, socketVars
<1>2. PairingOK' /\ PeersOK'
  BY DEF IInv, PairingOK, ViewsAgree, PeersOK, pairingVars, socketVars
<1>3. ASSUME NEW e \in Calls PROVE GoodCall(e)'
  <2>1. CASE e = c
    BY <2>1
  <2>2. CASE e # c
    <3>1. call'[e] = call[e]
      BY <2>2 DEF IInv, TypeOK
    <3> QED BY <2>2, <3>1 DEF IInv, CallsOK, GoodCall
  <2> QED BY <2>1, <2>2
<1> QED BY <1>1, <1>2, <1>3 DEF IInv, CallsOK

LEMMA CallKeepsIInv ==
  ASSUME IInv, NEW c \in Calls, Proceed(c) \/ Caller(c)
  PROVE  IInv'
<1> DEFINE r == call[c]
<1>1. r \in Call /\ GoodCall(c) /\ pending \in SUBSET Calls /\ call \in [Calls -> Call]
  BY DEF IInv, TypeOK, CallsOK
<1>2. CASE \E d \in Devices : Execute(c, d)
  <2>1. PICK d \in Devices : Execute(c, d)
    BY <1>2
  <2> DEFINE n == [r EXCEPT !.at = "sending", !.device = d, !.socket = transport[d]]
  <2>2. transport[d] \in Sockets
    BY <2>1 DEF IInv, TypeOK, Execute
  <2>3. n \in Call /\ call' = [call EXCEPT ![c] = n] /\ call'[c] = n
    BY <1>1, <2>1, <2>2 DEF Execute, Call, CallPoint
  <2>4. GoodCall(c)'
    BY <1>1, <2>1, <2>2, <2>3 DEF Execute, GoodCall, Call, Answer
  <2> QED BY <1>1, <2>1, <2>3, <2>4, OneCallKeepsIInv DEF Execute
<1>3. CASE SendReturns(c)
  <2> DEFINE n == [r EXCEPT !.at = "waiting"]
  <2>1. n \in Call /\ call' = [call EXCEPT ![c] = n] /\ call'[c] = n
    BY <1>1, <1>3 DEF SendReturns, Call, CallPoint
  <2>2. GoodCall(c)'
    BY <1>1, <1>3, <2>1 DEF SendReturns, GoodCall, Call
  <2> QED BY <1>1, <1>3, <2>1, <2>2, OneCallKeepsIInv DEF SendReturns
<1>4. CASE SendRaises(c) \/ CancelledInSend(c)
  <2>1. PICK o \in {"error", "cancelled"} : Finish(c, o)
    BY <1>4 DEF SendRaises, CancelledInSend
  <2> DEFINE n == [r EXCEPT !.at = "ended", !.outcome = o]
  <2>2. n \in Call /\ call' = [call EXCEPT ![c] = n] /\ call'[c] = n
    BY <1>1, <2>1 DEF Finish, Call, CallPoint, Outcome
  <2>3. call[c].at = "sending" /\ UNCHANGED <<pairingVars, socketVars, transport, pending, reported>>
    BY <1>4 DEF SendRaises, CancelledInSend
  <2>4. GoodCall(c)'
    BY <1>1, <2>2, <2>3 DEF GoodCall, Call
  <2> QED BY <1>1, <2>2, <2>3, <2>4, OneCallKeepsIInv
<1>5. CASE Return(c)
  <2> DEFINE n == [r EXCEPT !.at = "ended", !.outcome = r.future]
  <2>1. n \in Call /\ call' = [call EXCEPT ![c] = n] /\ call'[c] = n
    BY <1>1, <1>5 DEF Return, Finish, Call, CallPoint, Outcome
  <2>2. GoodCall(c)'
    BY <1>1, <1>5, <2>1 DEF Return, GoodCall, Call
  <2> QED BY <1>1, <1>5, <2>1, <2>2, OneCallKeepsIInv DEF Return
<1>6. CASE TimeOut(c) \/ Cancelled(c)
  <2>1. PICK o \in {"timeout", "cancelled"} : GiveUp(c, o)
    BY <1>6 DEF TimeOut, Cancelled
  <2> DEFINE n == [r EXCEPT !.at = "cancelling", !.outcome = o]
  <2>2. n \in Call /\ call' = [call EXCEPT ![c] = n] /\ call'[c] = n
    BY <1>1, <2>1 DEF GiveUp, Call, CallPoint, Outcome
  <2>3. GoodCall(c)'
    BY <1>1, <2>1, <2>2 DEF GiveUp, GoodCall, Call
  <2> QED BY <1>1, <2>1, <2>2, <2>3, OneCallKeepsIInv DEF GiveUp
<1>7. CASE CancelSent(c) \/ CancelledInCancel(c)
  <2>1. PICK o \in {r.outcome, "cancelled"} : Finish(c, o)
    BY <1>7 DEF CancelSent, CancelledInCancel
  <2> DEFINE n == [r EXCEPT !.at = "ended", !.outcome = o]
  <2>2. n \in Call /\ call' = [call EXCEPT ![c] = n] /\ call'[c] = n
    BY <1>1, <2>1 DEF Finish, Call, CallPoint, Outcome
  <2>3. call[c].at = "cancelling" /\ UNCHANGED <<pairingVars, socketVars, transport, pending, reported>>
    BY <1>7 DEF CancelSent, CancelledInCancel
  <2>4. GoodCall(c)'
    BY <1>1, <2>2, <2>3 DEF GoodCall, Call
  <2> QED BY <1>1, <2>2, <2>3, <2>4, OneCallKeepsIInv
<1> QED BY <1>2, <1>3, <1>4, <1>5, <1>6, <1>7 DEF Proceed, Caller

-----------------------------------------------------------------------------

LEMMA NextKeepsIInv == IInv /\ [Next]_vars => IInv'
<1> SUFFICES ASSUME IInv, [Next]_vars PROVE IInv'
  OBVIOUS
<1>1. CASE Pairing
  BY <1>1, PairingKeepsIInv
<1>2. CASE \E s \in Sockets : Gateway(s) \/ PeerGoes(s)
  BY <1>2, GatewayKeepsIInv
<1>3. CASE \E c \in Calls : Proceed(c) \/ Caller(c)
  BY <1>3, CallKeepsIInv
<1>4. CASE UNCHANGED vars
  BY <1>4
  DEF IInv, TypeOK, PairingOK, ViewsAgree, PeersOK, CallsOK, GoodCall, vars,
      pairingVars, socketVars
<1> QED BY <1>1, <1>2, <1>3, <1>4 DEF Next

\* The inductive invariant holds: every call is good, whatever its device, the
\* sockets and the pairing do meanwhile.
THEOREM InvariantHolds == Spec => []IInv
  BY InitIsOK, NextKeepsIInv, PTL DEF Spec

\* Every variable keeps its type.
THEOREM TypeCorrect == Spec => []TypeOK
<1>1. IInv => TypeOK
  BY DEF IInv
<1> QED BY <1>1, InvariantHolds, PTL

\* PairingService and TermuxConnectionManager agree on who is connected.
THEOREM ServicesAgree == Spec => []ViewsAgree
<1>1. IInv => ViewsAgree
  BY DEF IInv, PairingOK
<1> QED BY <1>1, InvariantHolds, PTL

\* A call that waits undecided can be decided by its device and by the end of
\* its device's connection.
THEOREM WaitingStaysReachable == Spec => []WaitingIsReachable
<1>1. IInv => WaitingIsReachable
  BY DEF IInv, CallsOK, GoodCall, WaitingIsReachable
<1> QED BY <1>1, InvariantHolds, PTL

\* Only a failed or cancelled send leaves a pending command behind.
THEOREM PendingStaysAwaited == Spec => []PendingIsAwaited
<1>1. IInv => PendingIsAwaited
  BY DEF IInv, TypeOK, CallsOK, GoodCall, PendingIsAwaited
<1> QED BY <1>1, InvariantHolds, PTL

\* No device answers a call made on another one.
THEOREM AnswersAreOwn == Spec => []AnsweredByItsDevice
<1>1. IInv => AnsweredByItsDevice
  BY DEF IInv, CallsOK, GoodCall, AnsweredByItsDevice
<1> QED BY <1>1, InvariantHolds, PTL

\* No step takes a device out of REVOKED: pairing is confirmed only while it is
\* required, and a connection starts only with a token that is still stored.
THEOREM RevocationIsForGood == Spec => RevokedForGood
<1>1. ASSUME IInv, [Next]_vars, NEW d \in Devices, state[d] = "REVOKED"
      PROVE  state'[d] = "REVOKED"
  <2> USE <1>1
  <2>1. CASE Pairing
    BY <2>1
    DEF IInv, TypeOK, PairingOK, Pairing, RegisterDevice, CodeExpires,
        ConfirmPairing, ConfirmTooLate, RevokeDevice
  <2>2. CASE \E s \in Sockets : Gateway(s) \/ PeerGoes(s)
    <3>1. PICK s \in Sockets : Gateway(s) \/ PeerGoes(s)
      BY <2>2
    <3>2. CASE \E e \in Devices : HandleConnect(s, e)
      BY <3>2 DEF IInv, TypeOK, HandleConnect, Authenticates
    <3>3. CASE HandleDisconnect(s)
      BY <3>3 DEF IInv, TypeOK, HandleDisconnect, MarkDisconnected
    <3> QED
      BY <3>1, <3>2, <3>3
      DEF Gateway, SendAuthOk, SendAuthOkRaises, PeerIsGone, MessageWithBadId,
          FinalMessage, PeerGoes, pairingVars
  <2>3. CASE \E c \in Calls : Proceed(c) \/ Caller(c)
    BY <2>3
    DEF Proceed, Caller, Execute, SendReturns, SendRaises, CancelledInSend,
        Return, GiveUp, TimeOut, Cancelled, CancelSent, CancelledInCancel,
        pairingVars
  <2>4. CASE UNCHANGED vars
    BY <2>4 DEF vars, pairingVars
  <2> QED BY <2>1, <2>2, <2>3, <2>4 DEF Next
<1>2. IInv /\ [Next]_vars =>
        [\A d \in Devices : state[d] = "REVOKED" => state'[d] = "REVOKED"]_vars
  BY <1>1
<1> QED BY <1>2, InvariantHolds, PTL DEF Spec, RevokedForGood

-----------------------------------------------------------------------------
(* The refinement.                                                         *)

\* What a step of one call looks like from outside.
LEMMA SeenAfterStep ==
  ASSUME NEW c \in Calls, \A e \in Calls \ {c} : call'[e] = call[e]
  PROVE  /\ Status' = [Status EXCEPT ![c] = Seen(call'[c])]
         /\ Place' = [Place EXCEPT ![c] = call'[c].device]
<1>1. \A e \in Calls : Status'[e] = IF e = c THEN Seen(call'[c]) ELSE Status[e]
  BY DEF Status
<1>2. \A e \in Calls : Place'[e] = IF e = c THEN call'[c].device ELSE Place[e]
  BY DEF Place
<1> QED BY <1>1, <1>2 DEF Status, Place

\* The device of the call is the same, and so what is seen of its place.
LEMMA PlaceKept ==
  ASSUME NEW c \in Calls, \A e \in Calls \ {c} : call'[e] = call[e],
         call'[c].device = call[c].device
  PROVE  Place' = Place
  BY DEF Place

\* A step of execute that nobody outside sees, or one that ends the call.
LEMMA CallRefines ==
  ASSUME IInv, NEW c \in Calls, Proceed(c) \/ Caller(c)
  PROVE  [Remote!Next]_(Remote!vars)
<1>1. TypeOK /\ GoodCall(c) /\ call \in [Calls -> Call] /\ call[c] \in Call
  BY DEF IInv, TypeOK, CallsOK
<1>2. CASE \E d \in Devices : Execute(c, d)
  <2>1. PICK d \in Devices : Execute(c, d)
    BY <1>2
  <2>2. /\ \A e \in Calls \ {c} : call'[e] = call[e]
        /\ call'[c].at = "sending" /\ call'[c].device = d /\ call'[c].future = "open"
    BY <1>1, <2>1 DEF Execute, GoodCall, Call
  <2>3. /\ Status' = [Status EXCEPT ![c] = "open"] /\ Status[c] = "new"
        /\ Place' = [Place EXCEPT ![c] = d]
    BY <1>1, <2>1, <2>2, SeenAfterStep DEF Execute, Seen, Status
  <2>4. Online' = Online /\ Revoked' = Revoked /\ d \in Online
    BY <2>1 DEF Online, Revoked, Execute, pairingVars
  <2> QED BY <2>3, <2>4 DEF Remote!Start, Remote!Next
<1>3. CASE ~ \E d \in Devices : Execute(c, d)
  <2> DEFINE r == call'[c]
  <2>1. /\ \A e \in Calls \ {c} : call'[e] = call[e]
        /\ r.device = call[c].device /\ r.future = call[c].future
        /\ \/ r.at = "waiting" /\ call[c].at = "sending"
           \/ r.at \in {"cancelling", "ended"} /\ call[c].at # "new"
    <3>1. CASE SendReturns(c)
      BY <1>1, <3>1 DEF SendReturns, Call
    <3>2. CASE SendRaises(c) \/ CancelledInSend(c) \/ Return(c)
               \/ CancelSent(c) \/ CancelledInCancel(c)
      <4>1. PICK o : Finish(c, o)
        BY <3>2 DEF SendRaises, CancelledInSend, Return, CancelSent, CancelledInCancel
      <4>2. call[c].at # "new"
        BY <3>2 DEF SendRaises, CancelledInSend, Return, CancelSent, CancelledInCancel
      <4> QED BY <1>1, <4>1, <4>2 DEF Finish, Call
    <3>3. CASE TimeOut(c) \/ Cancelled(c)
      <4>1. PICK o : GiveUp(c, o)
        BY <3>3 DEF TimeOut, Cancelled
      <4> QED BY <1>1, <4>1 DEF GiveUp, Call
    <3> QED BY <1>3, <3>1, <3>2, <3>3 DEF Proceed, Caller
  <2>2. Status' = [Status EXCEPT ![c] = Seen(r)]
    BY <2>1, SeenAfterStep
  <2>3. Place' = Place
    BY <2>1, PlaceKept
  <2>4. Online' = Online /\ Revoked' = Revoked
    BY <1>3
    DEF Online, Revoked, Proceed, Caller, SendReturns, SendRaises, CancelledInSend,
        Return, TimeOut, Cancelled, GiveUp, CancelSent, CancelledInCancel, pairingVars
  <2>5. CASE Seen(r) = Seen(call[c])
    <3>1. Status' = Status
      BY <2>2, <2>5 DEF Status
    <3> QED BY <2>3, <2>4, <3>1 DEF Remote!vars
  <2>6. CASE Seen(r) # Seen(call[c])
    <3>1. Seen(r) = "ended" /\ Status[c] \in {"open", "decided"}
      BY <1>1, <2>1, <2>6 DEF Seen, Status, Call, CallPoint
    <3> QED BY <2>2, <2>3, <2>4, <3>1 DEF Remote!End, Remote!Next
  <2> QED BY <2>5, <2>6
<1> QED BY <1>2, <1>3

\* An answer decides the call, unless its caller is gone already.
LEMMA FinalMessageRefines ==
  ASSUME IInv, NEW s \in Sockets, NEW c \in Calls, NEW answer \in Answer,
         FinalMessage(s, c, answer)
  PROVE  [Remote!Next]_(Remote!vars)
<1>1. TypeOK /\ GoodCall(c) /\ call \in [Calls -> Call] /\ call[c] \in Call
  BY DEF IInv, TypeOK, CallsOK
<1>2. Online' = Online /\ Revoked' = Revoked
  BY DEF FinalMessage, Online, Revoked, pairingVars
<1>3. CASE Expected(c, peer[s]) /\ call[c].future = "open"
  <2> DEFINE r == call'[c]
  <2>1. /\ \A e \in Calls \ {c} : call'[e] = call[e]
        /\ r.device = call[c].device /\ r.at = call[c].at /\ r.future = answer
    BY <1>1, <1>3 DEF FinalMessage, Call
  <2>2. Status' = [Status EXCEPT ![c] = Seen(r)]
    BY <2>1, SeenAfterStep
  <2>3. Place' = Place
    BY <2>1, PlaceKept
  <2>4. CASE call[c].at \in {"sending", "waiting"}
    <3>1. Status[c] = "open" /\ Seen(r) = "decided"
      BY <1>3, <2>1, <2>4 DEF Status, Seen, Answer
    <3>2. Place[c] \in Online
      BY <1>1, <1>3, <2>4 DEF Place, Online, GoodCall
    <3> QED BY <1>2, <2>2, <2>3, <3>1, <3>2 DEF Remote!Decide, Remote!Next
  <2>5. CASE call[c].at \notin {"sending", "waiting"}
    <3>1. Seen(r) = Seen(call[c])
      BY <1>1, <1>3, <2>1, <2>5 DEF Seen, GoodCall, Expected
    <3>2. Status' = Status
      BY <2>2, <3>1 DEF Status
    <3> QED BY <1>2, <2>3, <3>2 DEF Remote!vars
  <2> QED BY <2>4, <2>5
<1>4. CASE ~(Expected(c, peer[s]) /\ call[c].future = "open")
  BY <1>2, <1>4 DEF FinalMessage, Status, Place, Remote!vars
<1> QED BY <1>3, <1>4

\* A disconnect takes the device off line and decides all that was undecided
\* there, since an undecided call is pending.
LEMMA HandleDisconnectRefines ==
  ASSUME IInv, NEW s \in Sockets, HandleDisconnect(s)
  PROVE  Remote!Next
<1>1. peer[s] \in Devices /\ call \in [Calls -> Call]
  BY DEF IInv, TypeOK, PeersOK, HandleDisconnect
<1>2. Online' = Online \ {peer[s]} /\ Revoked' = Revoked
  BY <1>1 DEF IInv, TypeOK, HandleDisconnect, MarkDisconnected, Online, Revoked
<1>3. ASSUME NEW c \in Calls
      PROVE  /\ Place'[c] = Place[c]
             /\ Status'[c] = IF c \in Remote!Undecided(peer[s]) THEN "decided" ELSE Status[c]
  <2>1. GoodCall(c) /\ call[c] \in Call
    BY <1>1 DEF IInv, CallsOK
  <2>2. Place[c] = call[c].device /\ Place'[c] = call'[c].device
    BY DEF Place
  <2>3. Status[c] = Seen(call[c]) /\ Status'[c] = Seen(call'[c])
    BY DEF Status
  <2>4. c \in Remote!Undecided(peer[s]) <=>
          Seen(call[c]) = "open" /\ call[c].device = peer[s]
    BY <2>2, <2>3 DEF Remote!Undecided
  <2>5. CASE c \in Lost(peer[s]) /\ call[c].future = "open"
    <3>1. call'[c] = [call[c] EXCEPT !.future = "lost"]
      BY <2>5, CallAfterDisconnect
    <3>2. call'[c].device = call[c].device /\ call'[c].at = call[c].at /\ call'[c].future = "lost"
      BY <2>1, <3>1 DEF Call
    <3>3. CASE call[c].at \in {"sending", "waiting"}
      BY <2>2, <2>3, <2>4, <2>5, <3>2, <3>3 DEF Seen, Lost
    <3>4. CASE call[c].at \notin {"sending", "waiting"}
      <4>1. Seen(call[c]) = "ended" /\ Seen(call'[c]) = "ended"
        BY <2>1, <2>5, <3>2, <3>4 DEF Seen, GoodCall, Lost
      <4> QED BY <2>2, <2>3, <2>4, <3>2, <4>1
    <3> QED BY <3>3, <3>4
  <2>6. CASE ~(c \in Lost(peer[s]) /\ call[c].future = "open")
    <3>1. call'[c] = call[c]
      BY <2>6, CallAfterDisconnect
    <3>2. ~(Seen(call[c]) = "open" /\ call[c].device = peer[s])
      BY <2>1, <2>6 DEF Seen, GoodCall, Lost, Call, CallPoint
    <3> QED BY <2>2, <2>3, <2>4, <3>1, <3>2
  <2> QED BY <2>5, <2>6
<1>4. Place' = Place
  BY <1>3 DEF Place
<1>5. Status' = [c \in Calls |-> IF c \in Remote!Undecided(peer[s]) THEN "decided" ELSE Status[c]]
  BY <1>3 DEF Status
<1> QED BY <1>1, <1>2, <1>4, <1>5 DEF Remote!GoesOffline, Remote!Next

\* execute, the pairing and the gateway implement RemoteCalls: each call is
\* decided and ends once, none stays undecided where the transport is gone, and
\* a revoked device never connects again.
THEOREM ConnectionImplementsRemoteCalls == Spec => ImplementsRemoteCalls
<1>1. Init => Remote!Init
  BY DEF Init, NewCall, Remote!Init, Online, Revoked, Status, Seen, Place
<1>2. ASSUME IInv, [Next]_vars
      PROVE  [Remote!Next]_(Remote!vars)
  <2> USE <1>2
  <2>1. CASE Pairing
    <3>1. UNCHANGED <<Online, Status, Place>>
      BY <2>1
      DEF Pairing, RegisterDevice, CodeExpires, ConfirmPairing, ConfirmTooLate,
          RevokeDevice, Online, Status, Place
    <3>2. CASE \E d \in Devices : RevokeDevice(d)
      <4>1. PICK d \in Devices : RevokeDevice(d)
        BY <3>2
      <4>2. Revoked' = Revoked \cup {d}
        BY <4>1 DEF IInv, TypeOK, RevokeDevice, Revoked
      <4> QED BY <3>1, <4>2 DEF Remote!Revoke, Remote!Next
    <3>3. CASE ~ \E d \in Devices : RevokeDevice(d)
      <4>1. Revoked' = Revoked
        BY <2>1, <3>3
        DEF IInv, TypeOK, PairingOK, Pairing, RegisterDevice, CodeExpires,
            ConfirmPairing, ConfirmTooLate, Revoked
      <4> QED BY <3>1, <4>1 DEF Remote!vars
    <3> QED BY <3>2, <3>3
  <2>2. CASE \E s \in Sockets : Gateway(s) \/ PeerGoes(s)
    <3>1. PICK s \in Sockets : Gateway(s) \/ PeerGoes(s)
      BY <2>2
    <3>2. CASE \E d \in Devices : HandleConnect(s, d)
      <4>1. PICK d \in Devices : HandleConnect(s, d)
        BY <3>2
      <4>2. Online' = Online \cup {d} /\ Revoked' = Revoked /\ d \notin Revoked
        BY <4>1, NoneAssumption
        DEF IInv, TypeOK, HandleConnect, Authenticates, Online, Revoked
      <4>3. Status' = Status /\ Place' = Place
        BY <4>1 DEF HandleConnect, Status, Place
      <4> QED BY <4>2, <4>3 DEF Remote!ComesOnline, Remote!Next
    <3>3. CASE HandleDisconnect(s)
      BY <3>3, HandleDisconnectRefines
    <3>4. CASE \E c \in Calls, answer \in Answer : FinalMessage(s, c, answer)
      BY <3>4, FinalMessageRefines
    <3>5. CASE SendAuthOk(s) \/ SendAuthOkRaises(s) \/ PeerGoes(s)
      BY <3>5
      DEF SendAuthOk, SendAuthOkRaises, PeerGoes, Online, Revoked, Status, Place,
          Remote!vars, pairingVars
    <3> QED
      BY <3>1, <3>2, <3>3, <3>4, <3>5 DEF Gateway, PeerIsGone, MessageWithBadId
  <2>3. CASE \E c \in Calls : Proceed(c) \/ Caller(c)
    BY <2>3, CallRefines
  <2>4. CASE UNCHANGED vars
    BY <2>4 DEF vars, pairingVars, Online, Revoked, Status, Place, Remote!vars
  <2> QED BY <2>1, <2>2, <2>3, <2>4 DEF Next
<1> QED BY <1>1, <1>2, InvariantHolds, PTL DEF Spec, ImplementsRemoteCalls, Remote!Spec
=============================================================================
