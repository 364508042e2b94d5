------------------------------ MODULE Chat_proofs ------------------------------
(***************************************************************************)
(* Proofs about Chat for every set of requests, every number of attempts   *)
(* and every delay: which errors are followed by another call, and what    *)
(* the status of a chat turn tells.                                        *)
(*                                                                         *)
(* A delay is a power of two, whose type only an induction could give, so  *)
(* the invariant names the fields of a turn and not the set Turn.          *)
(***************************************************************************)
EXTENDS Chat, TLAPS

Fields == {"kind", "at", "errors", "delay", "valid", "reply"}

IsTurn(r) == r = [f \in Fields |-> r[f]]

GaveUp(errors) ==
  errors # <<>> /\ (Last(errors) \notin Retryable \/ Len(errors) = MaxAttempts)

\* The errors of a request that may still call are all worth a retry, and there
\* is an attempt left.
MayCall(r) ==
  /\ \A i \in 1..Len(r.errors) : r.errors[i] \in Retryable
  /\ Len(r.errors) < MaxAttempts
  /\ r.kind # "message" => r.errors = <<>>

\* What the status of a chat turn tells, as in StatusTellsCause.
TellsCause(r) ==
  /\ r.reply = "200" <=> r.valid
  /\ r.reply = "504" <=> (GaveUp(r.errors) /\ Last(r.errors) = "timeout")
  /\ r.reply = "503" => r.errors = <<>>
  /\ r.reply = "422" => ~GaveUp(r.errors)

GoodTurn(r) ==
  /\ IsTurn(r)
  /\ r.at \in {"new", "calling", "sleeping", "done"}
  /\ r.errors \in Seq(Code)
  /\ Len(r.errors) <= MaxAttempts
  /\ r.kind # "message" => Len(r.errors) <= 1
  /\ r.at = "new" => r.errors = <<>>
  /\ r.at # "done" => MayCall(r) /\ r.valid = FALSE
  /\ r.at = "done" /\ r.kind = "message" => TellsCause(r)

IInv ==
  /\ turn = [t \in Turns |-> turn[t]]
  /\ \A t \in Turns : GoodTurn(turn[t])

-----------------------------------------------------------------------------

LEMMA InitIsOK == Init => IInv
<1> SUFFICES ASSUME Init  PROVE IInv
  OBVIOUS
<1>1. turn \in [Turns -> {NewTurn(kind) : kind \in Kind}]
  BY DEF Init
<1>2. ASSUME NEW kind  PROVE GoodTurn(NewTurn(kind))
  <2>1. IsTurn(NewTurn(kind))
    BY DEF IsTurn, NewTurn, Fields
  <2>2. MayCall(NewTurn(kind))
    BY MaxAttemptsAssumption DEF MayCall, NewTurn
  <2>3. QED  BY <2>1, <2>2, MaxAttemptsAssumption DEF GoodTurn, NewTurn
<1>3. \A t \in Turns : GoodTurn(turn[t])
  BY <1>1, <1>2
<1>4. QED  BY <1>1, <1>3 DEF IInv

LEMMA OneTurnChanges ==
  ASSUME IInv, NEW t \in Turns, NEW r, GoodTurn(r), turn' = [turn EXCEPT ![t] = r]
  PROVE  IInv'
<1>1. turn' = [u \in Turns |-> IF u = t THEN r ELSE turn[u]]
  BY DEF IInv
<1>2. turn' = [u \in Turns |-> turn'[u]]
  BY <1>1
<1>3. \A u \in Turns : GoodTurn(turn'[u])
  BY <1>1 DEF IInv
<1>4. QED  BY <1>2, <1>3 DEF IInv

\* Where nothing has failed for good, nobody gave up.
LEMMA NobodyGaveUp ==
  ASSUME NEW r, r.errors \in Seq(Code), MayCall(r)  PROVE ~GaveUp(r.errors)
<1> SUFFICES ASSUME r.errors # <<>>
             PROVE  Last(r.errors) \in Retryable /\ Len(r.errors) # MaxAttempts
  BY DEF GaveUp
<1>1. Len(r.errors) \in 1..Len(r.errors)
  OBVIOUS
<1>2. Len(r.errors) # MaxAttempts
  BY <1>1, MaxAttemptsAssumption DEF MayCall
<1>3. QED  BY <1>1, <1>2 DEF MayCall, Last

\* The request comes to its end without an error: 200 only for a valid answer,
\* 503 only when nothing was called, and never as a timeout.
LEMMA ReplyIsGood ==
  ASSUME NEW r, GoodTurn(r), r.at # "done", NEW reply, NEW valid \in BOOLEAN,
         NEW s, IsTurn(s), s.kind = r.kind, s.at = "done", s.errors = r.errors,
         s.valid = valid, s.reply = reply,
         r.kind = "message" => /\ reply = "200" <=> valid
                               /\ reply # "504"
                               /\ reply = "503" => r.errors = <<>>
  PROVE  GoodTurn(s)
<1>1. MayCall(r) /\ r.errors \in Seq(Code)
  BY DEF GoodTurn
<1>2. ~GaveUp(r.errors)
  BY <1>1, NobodyGaveUp
<1>3. s.kind = "message" => TellsCause(s)
  BY <1>2 DEF TellsCause
<1>4. QED  BY <1>3 DEF GoodTurn

LEMMA DoneType ==
  ASSUME NEW t \in Turns, NEW reply, GoodTurn(turn[t])
  PROVE  /\ IsTurn(Done(t, reply)) /\ Done(t, reply).kind = turn[t].kind
         /\ Done(t, reply).at = "done" /\ Done(t, reply).errors = turn[t].errors
         /\ Done(t, reply).valid = turn[t].valid /\ Done(t, reply).reply = reply
<1> DEFINE r == turn[t]
<1>1. IsTurn(r)
  BY DEF GoodTurn
<1>2. Done(t, reply) = [r EXCEPT !.at = "done", !.reply = reply]
  BY DEF Done
<1> HIDE DEF r
<1>3. Done(t, reply) =
        [f \in Fields |-> IF f = "reply" THEN reply
                          ELSE IF f = "at" THEN "done" ELSE r[f]]
  BY <1>1, <1>2 DEF IsTurn, Fields
<1>4. QED  BY <1>3 DEF IsTurn, Fields, r

LEMMA RepliesKeepsInv ==
  ASSUME IInv, NEW t \in Turns, NEW reply, Replies(t, reply), turn[t].at # "done",
         turn[t].kind = "message" => /\ reply # "200" /\ reply # "504"
                                     /\ reply = "503" => turn[t].errors = <<>>
  PROVE  IInv'
<1>1. GoodTurn(turn[t])
  BY DEF IInv
<1>2. turn[t].valid = FALSE
  BY <1>1 DEF GoodTurn
<1> DEFINE s == Done(t, reply)
<1>3. /\ IsTurn(s) /\ s.kind = turn[t].kind /\ s.at = "done"
      /\ s.errors = turn[t].errors /\ s.valid = FALSE /\ s.reply = reply
  BY <1>1, <1>2, DoneType
<1>4. turn' = [turn EXCEPT ![t] = s]
  BY DEF Replies
<1> HIDE DEF s
<1>5. turn[t].kind = "message" => /\ reply = "200" <=> FALSE
                                  /\ reply # "504"
                                  /\ reply = "503" => turn[t].errors = <<>>
  OBVIOUS
<1>6. GoodTurn(s)
  BY <1>1, <1>3, <1>5, ReplyIsGood
<1>7. QED  BY <1>4, <1>6, OneTurnChanges

LEMMA AnsweredKeepsInv ==
  ASSUME IInv, NEW t \in Turns, NEW answer, Answered(t, answer), turn[t].at # "done"
  PROVE  IInv'
<1> DEFINE kind == turn[t].kind
           valid == answer.form = "object" /\ Validates(kind, answer.fields)
           reply == AnswerReply(kind, answer)
           s == [Done(t, reply) EXCEPT !.valid = valid]
<1>1. GoodTurn(turn[t])
  BY DEF IInv
<1>2. /\ IsTurn(Done(t, reply)) /\ Done(t, reply).kind = kind
      /\ Done(t, reply).at = "done" /\ Done(t, reply).errors = turn[t].errors
      /\ Done(t, reply).reply = reply
  BY <1>1, DoneType
<1>3. valid \in BOOLEAN
  BY DEF Validates
<1>4. kind = "message" => /\ reply = "200" <=> valid
                          /\ reply \notin {"503", "504"}
  BY DEF AnswerReply, StatusOf
<1>5. turn' = [turn EXCEPT ![t] = s]
  BY DEF Answered
<1>6. /\ IsTurn(s) /\ s.kind = kind /\ s.at = "done" /\ s.errors = turn[t].errors
      /\ s.valid = valid /\ s.reply = reply
  <2> HIDE DEF kind, valid, reply
  <2>1. s = [f \in Fields |-> IF f = "valid" THEN valid ELSE Done(t, reply)[f]]
    BY <1>2 DEF IsTurn, Fields
  <2>2. QED  BY <1>2, <2>1 DEF IsTurn, Fields
<1> HIDE DEF valid, reply, s
<1>7. GoodTurn(s)
  BY <1>1, <1>3, <1>4, <1>6, ReplyIsGood
<1>8. QED  BY <1>5, <1>7, OneTurnChanges

-----------------------------------------------------------------------------
(* A failed call *)

\* One error more, of a code that is worth a retry or ends the request.
LEMMA AppendedErrors ==
  ASSUME NEW errors \in Seq(Code), NEW code \in Code
  PROVE  /\ Append(errors, code) \in Seq(Code)
         /\ Append(errors, code) # <<>>
         /\ Len(Append(errors, code)) = Len(errors) + 1
         /\ Len(errors) \in Nat
         /\ Last(Append(errors, code)) = code
         /\ \A i \in 1..Len(Append(errors, code)) :
              \/ Append(errors, code)[i] = code
              \/ /\ i \in 1..Len(errors)
                 /\ Append(errors, code)[i] = errors[i]
<1>1. Len(errors) \in Nat /\ Len(Append(errors, code)) = Len(errors) + 1
  OBVIOUS
<1>2. Append(errors, code)[Len(errors) + 1] = code
  OBVIOUS
<1>3. Append(errors, code) # <<>>
  BY <1>1
<1>4. QED  BY <1>1, <1>2, <1>3 DEF Last

LEMMA FailsKeepsInv ==
  ASSUME IInv, NEW t \in Turns, NEW code \in Code, Fails(t, code),
         turn[t].at = "calling"
  PROVE  IInv'
<1> DEFINE r == turn[t]
           errors == Append(r.errors, code)
           failed == [r EXCEPT !.errors = Append(@, code)]
           slept == [failed EXCEPT !.at = "sleeping", !.delay = Delay(Len(failed.errors))]
           reply == ErrorReply(r.kind, code)
           ended == [failed EXCEPT !.at = "done", !.reply = reply]
<1>1. GoodTurn(r) /\ MayCall(r) /\ r.errors \in Seq(Code) /\ IsTurn(r)
      /\ r.valid = FALSE
  BY DEF IInv, GoodTurn
<1>2. turn' = [turn EXCEPT ![t] = IF Retries(t, code) THEN slept ELSE ended]
  BY DEF Fails
<1> HIDE DEF r
<1>3. /\ IsTurn(failed) /\ failed.kind = r.kind /\ failed.errors = errors
      /\ failed.valid = FALSE
  <2>1. failed = [f \in Fields |-> IF f = "errors" THEN errors ELSE r[f]]
    BY <1>1 DEF IsTurn, Fields
  <2>2. QED  BY <1>1, <2>1 DEF IsTurn, Fields
<1>4. /\ errors \in Seq(Code) /\ errors # <<>> /\ Len(errors) = Len(r.errors) + 1
      /\ Len(r.errors) \in Nat /\ Last(errors) = code
      /\ \A i \in 1..Len(errors) :
           \/ errors[i] = code
           \/ i \in 1..Len(r.errors) /\ errors[i] = r.errors[i]
  BY <1>1, AppendedErrors
<1> HIDE DEF errors, failed
<1>5. /\ Len(errors) <= MaxAttempts
      /\ r.kind # "message" => Len(errors) = 1
  BY <1>1, <1>4, MaxAttemptsAssumption DEF MayCall
<1>6. CASE Retries(t, code)
  <2>1. /\ r.kind = "message" /\ code \in Retryable /\ Len(errors) < MaxAttempts
    BY <1>4, <1>6 DEF Retries, r
  <2>2. /\ IsTurn(slept) /\ slept.kind = r.kind /\ slept.at = "sleeping"
        /\ slept.errors = errors /\ slept.valid = FALSE
    <3>1. slept = [f \in Fields |-> IF f = "delay" THEN Delay(Len(failed.errors))
                                    ELSE IF f = "at" THEN "sleeping" ELSE failed[f]]
      BY <1>3 DEF IsTurn, Fields
    <3>2. QED  BY <1>3, <3>1 DEF IsTurn, Fields
  <2> HIDE DEF slept
  <2>3. MayCall(slept)
    BY <1>1, <1>4, <2>1, <2>2 DEF MayCall
  <2>4. GoodTurn(slept)
    BY <1>4, <1>5, <2>1, <2>2, <2>3 DEF GoodTurn
  <2>5. QED  BY <1>2, <1>6, <2>4, OneTurnChanges
<1>7. CASE ~Retries(t, code)
  <2>1. r.kind = "message" => code \notin Retryable \/ Len(errors) = MaxAttempts
    BY <1>4, <1>5, <1>7, MaxAttemptsAssumption DEF Retries, r
  <2>2. r.kind = "message" => GaveUp(errors)
    BY <1>4, <2>1 DEF GaveUp
  <2>3. r.kind = "message" => /\ reply \in {"502", "504"}
                              /\ reply = "504" <=> code = "timeout"
    BY DEF ErrorReply, PipelineErrorOf, StatusOf
  <2>4. /\ IsTurn(ended) /\ ended.kind = r.kind /\ ended.at = "done"
        /\ ended.errors = errors /\ ended.valid = FALSE /\ ended.reply = reply
    <3> HIDE DEF reply
    <3>1. ended = [f \in Fields |-> IF f = "reply" THEN reply
                                    ELSE IF f = "at" THEN "done" ELSE failed[f]]
      BY <1>3 DEF IsTurn, Fields
    <3>2. QED  BY <1>3, <3>1 DEF IsTurn, Fields
  <2> HIDE DEF ended, reply
  <2>5. r.kind = "message" => TellsCause(ended)
    BY <1>4, <2>2, <2>3, <2>4 DEF TellsCause
  <2>6. GoodTurn(ended)
    BY <1>4, <1>5, <2>4, <2>5 DEF GoodTurn
  <2>7. QED  BY <1>2, <1>7, <2>6, OneTurnChanges
<1>8. QED  BY <1>6, <1>7

-----------------------------------------------------------------------------
(* The steps of a request *)

\* The request is called, for the first time or again.
LEMMA CallingIsGood ==
  ASSUME NEW r, GoodTurn(r), r.at # "done", NEW delay
  PROVE  /\ GoodTurn([r EXCEPT !.at = "calling"])
         /\ GoodTurn([r EXCEPT !.at = "calling", !.delay = delay])
<1>1. IsTurn(r)
  BY DEF GoodTurn
<1>2. ASSUME NEW s, IsTurn(s), s.kind = r.kind, s.at = "calling",
             s.errors = r.errors, s.valid = r.valid
      PROVE  GoodTurn(s)
  BY <1>2 DEF GoodTurn, MayCall
<1>3. [r EXCEPT !.at = "calling"]
        = [f \in Fields |-> IF f = "at" THEN "calling" ELSE r[f]]
  BY <1>1 DEF IsTurn, Fields
<1>4. [r EXCEPT !.at = "calling", !.delay = delay]
        = [f \in Fields |-> IF f = "delay" THEN delay
                            ELSE IF f = "at" THEN "calling" ELSE r[f]]
  BY <1>1 DEF IsTurn, Fields
<1>5. GoodTurn([f \in Fields |-> IF f = "at" THEN "calling" ELSE r[f]])
  BY <1>2 DEF IsTurn, Fields
<1>6. GoodTurn([f \in Fields |-> IF f = "delay" THEN delay
                                 ELSE IF f = "at" THEN "calling" ELSE r[f]])
  BY <1>2 DEF IsTurn, Fields
<1>7. QED  BY <1>3, <1>4, <1>5, <1>6

LEMMA StepKeepsInv == IInv /\ [Next]_vars => IInv'
<1> SUFFICES ASSUME IInv, [Next]_vars  PROVE IInv'
  OBVIOUS
<1>1. ASSUME NEW t \in Turns, Refused(t)  PROVE IInv'
  <2>1. turn[t].at = "new"
    BY <1>1 DEF Refused
  <2>2. turn[t].errors = <<>>
    BY <2>1 DEF IInv, GoodTurn
  <2>3. PICK reply \in {"not_configured", "500", "503", "422"} : Replies(t, reply)
    BY <1>1 DEF Refused, StatusOf
  <2>4. QED  BY <2>1, <2>2, <2>3, RepliesKeepsInv
<1>2. ASSUME NEW t \in Turns, Begin(t) \/ Wakes(t)  PROVE IInv'
  <2>1. GoodTurn(turn[t]) /\ turn[t].at # "done"
    BY <1>2 DEF Begin, Wakes, IInv
  <2>2. CASE Begin(t)
    <3>1. turn' = [turn EXCEPT ![t] = [turn[t] EXCEPT !.at = "calling"]]
      BY <2>2 DEF Begin
    <3>2. QED  BY <2>1, <3>1, CallingIsGood, OneTurnChanges
  <2>3. CASE Wakes(t)
    <3>1. turn' = [turn EXCEPT ![t] = [turn[t] EXCEPT !.at = "calling", !.delay = 0]]
      BY <2>3 DEF Wakes, IInv
    <3>2. QED  BY <2>1, <3>1, CallingIsGood, OneTurnChanges
  <2>4. QED  BY <1>2, <2>2, <2>3
<1>3. ASSUME NEW t \in Turns, MockReturns(t)  PROVE IInv'
  BY <1>3, AnsweredKeepsInv DEF MockReturns, Calls
<1>4. ASSUME NEW t \in Turns, GeminiReturns(t)  PROVE IInv'
  <2>1. PICK answer : \/ Fails(t, "invalid_response") \/ Answered(t, answer)
    BY <1>4 DEF GeminiReturns
  <2>2. "invalid_response" \in Code /\ turn[t].at = "calling"
    BY <1>4 DEF Code, GeminiReturns, Calls
  <2>3. QED  BY <2>1, <2>2, FailsKeepsInv, AnsweredKeepsInv
<1>5. ASSUME NEW t \in Turns, GeminiFails(t)  PROVE IInv'
  <2>1. turn[t].at = "calling"
    BY <1>5 DEF GeminiFails, Calls
  <2>2. \/ \E http \in HttpErrors : Fails(t, CodeOf(http))
        \/ Fails(t, "network_error") \/ Replies(t, "500")
    BY <1>5 DEF GeminiFails
  <2>3. \A http : CodeOf(http) \in Code
    BY DEF CodeOf, Code
  <2>4. "network_error" \in Code
    BY DEF Code
  <2>5. QED  BY <2>1, <2>2, <2>3, <2>4, FailsKeepsInv, RepliesKeepsInv
<1>6. ASSUME NEW t \in Turns, TimesOut(t)  PROVE IInv'
  BY <1>6, FailsKeepsInv DEF TimesOut, Calls, Code
<1>7. ASSUME NEW t \in Turns, HealthChecked(t)  PROVE IInv'
  <2>1. turn[t].at = "calling" /\ turn[t].kind = "health"
    BY <1>7 DEF HealthChecked
  <2>2. \E reply : Replies(t, reply)
    BY <1>7 DEF HealthChecked
  <2>3. QED  BY <2>1, <2>2, RepliesKeepsInv
<1>8. CASE UNCHANGED vars
  BY <1>8 DEF vars, IInv
<1>9. QED  BY <1>1, <1>2, <1>3, <1>4, <1>5, <1>6, <1>7, <1>8 DEF Next

LEMMA InvariantHolds == Spec => []IInv
  BY InitIsOK, StepKeepsInv, PTL DEF Spec

-----------------------------------------------------------------------------

\* No call follows an error that is not worth a retry, there are never more than
\* the configured number of calls, and only a chat turn makes a second one.
THEOREM NoUselessRetry == Spec => []RetriesAreWorthwhile
<1>1. IInv => RetriesAreWorthwhile
  BY DEF IInv, GoodTurn, MayCall, RetriesAreWorthwhile, ToSet
<1>2. QED  BY <1>1, InvariantHolds, PTL

\* The status of a chat turn tells what became of it.
THEOREM StatusIsTrue == Spec => []StatusTellsCause
<1>1. IInv => StatusTellsCause
  BY DEF IInv, GoodTurn, TellsCause, GaveUp, StatusTellsCause
<1>2. QED  BY <1>1, InvariantHolds, PTL
=============================================================================
