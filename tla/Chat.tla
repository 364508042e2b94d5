--------------------------------- MODULE Chat ---------------------------------
(***************************************************************************)
(* Requests to the AI provider: a chat turn (POST /chat/message with its   *)
(* pipeline and retries), the legacy chat, a decision of the agent's       *)
(* reasoner and the health check, over GeminiProvider or MockProvider.     *)
(* Requests share nothing but the provider object, which has no state      *)
(* that they read.                                                         *)
(*                                                                         *)
(* An answer is prose, nothing, a JSON array, or a JSON object, which is   *)
(* modelled by the set of its fields that are present and of their type.   *)
(* Code fences around an answer are stripped before it is looked at.       *)
(*                                                                         *)
(* External: the Gemini API answers, fails with an HTTP status, breaks the *)
(* connection, raises something else, or says nothing.                     *)
(***************************************************************************)
EXTENDS Naturals, Sequences, SequencesExt, FiniteSetsExt

CONSTANTS
  Turns,        \* requests
  MaxAttempts,  \* ai_retry_max_attempts
  BaseDelay,    \* ai_retry_base_delay_seconds, here in half seconds
  MaxDelay      \* max_delay_seconds, in half seconds

ASSUME MaxAttemptsAssumption == MaxAttempts \in Nat \ {0}
ASSUME DelayAssumption == BaseDelay \in Nat /\ MaxDelay \in Nat

VARIABLES
  provider,  \* the configured provider; gemini without a key is "none"
  turn       \* the requests

vars == <<provider, turn>>

Kind == {"message", "legacy", "decision", "health"}

Code ==
  {"missing_api_key", "invalid_api_key", "configuration_error", "unavailable",
   "timeout", "rate_limited", "network_error", "invalid_response", "unknown"}

Retryable == {"unavailable", "timeout", "network_error", "rate_limited"}

Health == {"connected", "not_configured", "configuration_error", "unavailable"}

PipelineError ==
  {"empty_message", "invalid_input", "request_failed", "timeout",
   "invalid_task", "unexpected_response"}

\* 500: an exception that no handler names.
Reply ==
  {"none", "200", "422", "500", "502", "503", "504", "reasoning_error"} \cup Health

\* errors: history, the code of every AIProviderError so far.
\* valid: history, the last answer passed the validation of its kind.
Turn ==
  [kind : Kind, at : {"new", "calling", "sleeping", "done"}, errors : Seq(Code),
   delay : Nat, valid : BOOLEAN, reply : Reply]

NewTurn(kind) ==
  [kind |-> kind, at |-> "new", errors |-> <<>>, delay |-> 0, valid |-> FALSE,
   reply |-> "none"]

TypeOK ==
  /\ provider \in {"gemini", "mock", "none"}
  /\ turn \in [Turns -> Turn]

Init ==
  /\ provider \in {"gemini", "mock", "none"}
  /\ turn \in [Turns -> {NewTurn(kind) : kind \in Kind}]

-----------------------------------------------------------------------------
(* What an answer must contain *)

IntentFields ==
  {"id", "objective", "target", "targetType", "requestedAction",
   "authorizationStatus", "riskLevel", "requiresApproval", "missingInformation"}

StageFields == {"key", "label", "status"}

PlanFields == {"id", "conversationId", "status", "createdAt"}

TopFields ==
  {"message", "authorizationStatus", "riskLevel", "requiresApproval",
   "missingInformation", "nextAction"}

In(place, fields) == {place} \X fields

AIResponse ==
  In("answer", TopFields) \cup In("taskIntent", IntentFields)
    \cup In("taskPlan", PlanFields) \cup In("taskPlan.taskIntent", IntentFields)
    \cup In("taskPlan.workflow", StageFields)

AgentDecision ==
  In("answer", {"reasoningSummary", "intent", "nextAction", "actionType",
                "requiresApproval", "confidence"})

\* Fields the models give a default: absent or not, they never matter.
Optional ==
  {<<"taskIntent", "constraints">>, <<"answer", "arguments">>}

Required(kind) == IF kind = "decision" THEN AgentDecision ELSE AIResponse

\* Answers that lack at most one field.
Objects(kind) ==
  LET full == Required(kind) \cup Optional
  IN {full} \cup {full \ {f} : f \in full}

NotObjects == {"prose", "nothing", "array"}

\* MockProvider.complete answers with prose; generate_structured with all of it.
MockAnswer(kind) ==
  IF kind = "decision" THEN [form |-> "object", fields |-> AgentDecision]
                       ELSE [form |-> "prose", fields |-> {}]

GeminiAnswers(kind) ==
  {[form |-> "object", fields |-> f] : f \in Objects(kind)}
    \cup {[form |-> n, fields |-> {}] : n \in NotObjects}

-----------------------------------------------------------------------------
(* Ends of a request *)

\* A timeout is a failed request like the others.
PipelineErrorWithoutTimeout(code) ==
  IF code \in {"invalid_response", "unknown"}
  THEN "unexpected_response" ELSE "request_failed"

PipelineErrorOf(code) ==
  CASE code = "timeout" -> "timeout"
    [] code \in {"invalid_response", "unknown"} -> "unexpected_response"
    [] OTHER -> "request_failed"

StatusOf(error) ==
  CASE error \in {"empty_message", "invalid_input", "invalid_task"} -> "422"
    [] error = "timeout" -> "504"
    [] OTHER -> "502"

Done(t, reply) == [turn[t] EXCEPT !.at = "done", !.reply = reply]

Replies(t, reply) ==
  /\ turn' = [turn EXCEPT ![t] = Done(t, reply)]
  /\ UNCHANGED provider

\* What parse_ai_response or parse_agent_decision makes of an object.
Validates(kind, fields) == Required(kind) \subseteq fields

AnswerReply(kind, answer) ==
  LET valid == answer.form = "object" /\ Validates(kind, answer.fields)
  IN CASE kind = "legacy" -> "200"
       [] kind = "decision" -> IF valid THEN "200" ELSE "reasoning_error"
       [] answer.form \in {"prose", "nothing"} -> StatusOf("unexpected_response")
       [] OTHER -> IF valid THEN "200" ELSE StatusOf("invalid_task")

Answered(t, answer) ==
  /\ turn' = [turn EXCEPT ![t] =
       [Done(t, AnswerReply(turn[t].kind, answer)) EXCEPT
          !.valid = answer.form = "object"
                      /\ Validates(turn[t].kind, answer.fields)]]
  /\ UNCHANGED provider

\* What the callers of a provider do with an error that is not retried.
ErrorReply(kind, code) ==
  CASE kind = "message" -> StatusOf(PipelineErrorOf(code))
    [] kind = "legacy" -> "502"
    [] OTHER -> "reasoning_error"

\* min(base_delay_seconds * 2 ** (attempt - 1), max_delay_seconds)
Delay(attempt) == Min({BaseDelay * 2^(attempt - 1), MaxDelay})

\* Whatever the error was.
RetriesAnything(t, code) ==
  turn[t].kind = "message" /\ Len(turn[t].errors) + 1 < MaxAttempts

\* Only the chat pipeline calls through call_with_retry.
Retries(t, code) ==
  /\ turn[t].kind = "message"
  /\ code \in Retryable
  /\ Len(turn[t].errors) + 1 < MaxAttempts

Fails(t, code) ==
  LET failed == [turn[t] EXCEPT !.errors = Append(@, code)]
      attempt == Len(failed.errors)
  IN /\ turn' = [turn EXCEPT ![t] =
          IF Retries(t, code)
          THEN [failed EXCEPT !.at = "sleeping", !.delay = Delay(attempt)]
          ELSE [failed EXCEPT !.at = "done",
                              !.reply = ErrorReply(turn[t].kind, code)]]
     /\ UNCHANGED provider

-----------------------------------------------------------------------------
(* Requests *)

\* The provider comes first, then the message, without calling anybody.
Refused(t) ==
  /\ turn[t].at = "new"
  /\ \/ provider = "none"
        /\ Replies(t, CASE turn[t].kind = "health" -> "not_configured"
                        [] turn[t].kind = "decision" -> "500"
                        [] OTHER -> "503")
     \/ /\ provider # "none" /\ turn[t].kind = "message"
        /\ \E error \in {"empty_message", "invalid_input"} :
             Replies(t, StatusOf(error))

Begin(t) ==
  /\ turn[t].at = "new" /\ provider # "none"
  /\ turn' = [turn EXCEPT ![t].at = "calling"]
  /\ UNCHANGED provider

Wakes(t) ==
  /\ turn[t].at = "sleeping"
  /\ turn' = [turn EXCEPT ![t].at = "calling", ![t].delay = 0]
  /\ UNCHANGED provider

Calls(t) == turn[t].at = "calling" /\ turn[t].kind # "health"

MockReturns(t) ==
  /\ Calls(t) /\ provider = "mock"
  /\ Answered(t, MockAnswer(turn[t].kind))

\* generate_structured takes an answer that is no object for an error.
GeminiReturns(t) ==
  /\ Calls(t) /\ provider = "gemini"
  /\ \E answer \in GeminiAnswers(turn[t].kind) :
       IF turn[t].kind = "decision" /\ answer.form # "object"
       THEN Fails(t, "invalid_response")
       ELSE Answered(t, answer)

\* _classify_api_error
CodeOf(http) ==
  CASE http \in {401, 403} -> "invalid_api_key"
    [] http = 429 -> "rate_limited"
    [] http >= 500 -> "unavailable"
    [] OTHER -> "invalid_response"

HttpErrors == {400, 401, 403, 429, 500, 503}

GeminiFails(t) ==
  /\ Calls(t) /\ provider = "gemini"
  /\ \/ \E http \in HttpErrors : Fails(t, CodeOf(http))
     \/ Fails(t, "network_error")
     \/ Replies(t, "500")      \* neither APIError nor OSError

\* generate_structured awaits the client without a limit.
TimesOutOnComplete(t) ==
  /\ Calls(t) /\ provider = "gemini" /\ turn[t].kind # "decision"
  /\ Fails(t, "timeout")

\* _run_with_timeout
TimesOut(t) ==
  /\ Calls(t) /\ provider = "gemini"
  /\ Fails(t, "timeout")

HealthOf(http) ==
  IF CodeOf(http) = "invalid_api_key" THEN "configuration_error" ELSE "unavailable"

HealthChecked(t) ==
  /\ turn[t].at = "calling" /\ turn[t].kind = "health"
  /\ \/ Replies(t, "connected")
     \/ /\ provider = "gemini"
        /\ \/ \E http \in HttpErrors : Replies(t, HealthOf(http))
           \/ Replies(t, "unavailable")     \* TimeoutError, OSError
           \/ Replies(t, "500")

Next ==
  \E t \in Turns :
    \/ Refused(t) \/ Begin(t) \/ Wakes(t) \/ MockReturns(t) \/ GeminiReturns(t)
    \/ GeminiFails(t) \/ TimesOut(t) \/ HealthChecked(t)

Spec == Init /\ [][Next]_vars

\* Timers fire, the mock answers, and wait_for bounds every call of Gemini.
FairSpec ==
  /\ Spec
  /\ \A t \in Turns :
       /\ WF_vars(Refused(t) \/ Begin(t)) /\ WF_vars(Wakes(t))
       /\ WF_vars(MockReturns(t)) /\ WF_vars(TimesOut(t))
       /\ WF_vars(HealthChecked(t))

-----------------------------------------------------------------------------
(* Properties *)

\* No call follows an error that is not worth a retry, and there are never more
\* than the configured number of calls; requests other than chat turns make one.
RetriesAreWorthwhile ==
  \A t \in Turns :
    LET errors == turn[t].errors
    IN /\ Len(errors) <= MaxAttempts
       /\ turn[t].at = "calling" => ToSet(errors) \subseteq Retryable
                                    /\ Len(errors) < MaxAttempts
       /\ turn[t].kind # "message" => Len(errors) <= 1

\* The status of a chat turn tells what became of it: 200 for a plan that passed
\* the validation and nothing else, 504 when the last call timed out, 503 when
\* nobody was called, 422 only when no call failed for good.
StatusTellsCause ==
  \A t \in Turns :
    LET errors == turn[t].errors
        gaveUp == errors # <<>>
                  /\ (Last(errors) \notin Retryable \/ Len(errors) = MaxAttempts)
    IN turn[t].at = "done" /\ turn[t].kind = "message" =>
         /\ (turn[t].reply = "200") <=> turn[t].valid
         /\ turn[t].reply = "504" <=> (gaveUp /\ Last(errors) = "timeout")
         /\ turn[t].reply = "503" => errors = <<>>
         /\ turn[t].reply = "422" => ~gaveUp

\* Every request is answered, also when the provider never does.
TurnsAnswered == \A t \in Turns : turn[t].at = "calling" ~> turn[t].at = "done"
=============================================================================
