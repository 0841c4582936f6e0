-------------------------------- MODULE Gateway --------------------------------
(***************************************************************************)
(* Requests to the gateway (gateway.py): the targets of a route are tried  *)
(* in order, each with retries, an attempt timeout and the total deadline  *)
(* of the request; a refusal is kept while other targets are tried.        *)
(***************************************************************************)
EXTENDS ModelCalls, Sequences

CONSTANTS
  Requests,          \* requests to the gateway
  Route,             \* the ordered targets, as a sequence of models
  AttemptRetries,    \* max_retries of the gateway
  FallbackOnRefusal, \* fallback_on_refusal
  FailOnMissing      \* fail_on_missing_adapter

ASSUME GatewayAssumption ==
  /\ Requests \subseteq Callers
  /\ Route \in Seq(Models)
  /\ AttemptRetries \in Nat
  /\ FallbackOnRefusal \in BOOLEAN /\ FailOnMissing \in BOOLEAN

VARIABLE
  request \* position, input, targets and attempts of each request

gateway == request

Places == 1..Len(Route)

Outcomes == Answers \cup {"none", "failed", "exhausted"}

\* A target that does not suit the request, or has no adapter.
Skips == {"unfit", "missing"}

\* The kinds of GatewayAttempt that a request records.
Attempts == [place : Places, kind : Answers \cup Errors \cup Skips]

GatewayTypeOK ==
  request \in [Requests ->
    [at : {"idle", "choosing", "attempting", "waiting", "over"},
     input : Inputs, place : 1..Len(Route) + 1,
     retry : 0..AttemptRetries, refused : 0..Len(Route), outcome : Outcomes, attempts : Seq(Attempts)]]

GatewayInit ==
  request \in [Requests ->
    [at : {"idle"}, input : Inputs, place : {1}, retry : {0}, refused : {0},
     outcome : {"none"}, attempts : {<<>>}]]

Target(r) == <<Route[request[r].place], request[r].input>>

At(r, where) == request[r].at = where

Record(r, kind) == Append(request[r].attempts, [place |-> request[r].place, kind |-> kind])

Return(r, outcome, attempts) ==
  request' = [request EXCEPT ![r].at = "over", ![r].outcome = outcome, ![r].attempts = attempts]

\* Mutant: a refusal is forgotten when another target is tried.
NextTarget_Forgets(r, refused, attempts) ==
  request' = [request EXCEPT ![r].at = "choosing", ![r].place = @ + 1, ![r].retry = 0,
                             ![r].refused = 0, ![r].attempts = attempts]

NextTarget(r, refused, attempts) ==
  request' = [request EXCEPT ![r].at = "choosing", ![r].place = @ + 1, ![r].retry = 0,
                             ![r].refused = refused, ![r].attempts = attempts]

Submit(r) ==
  /\ At(r, "idle")
  /\ request' = [request EXCEPT ![r].at = "choosing"]
  /\ UNCHANGED calls

\* What the catalog, the adapters and the policies say of the next target: it
\* is attempted, skipped, or it has no adapter, which may fail the request.
Choose(r) ==
  /\ At(r, "choosing") /\ request[r].place \in Places
  /\ \/ request' = [request EXCEPT ![r].at = "attempting"]
     \/ \E s \in Skips :
          IF s = "missing" /\ FailOnMissing THEN Return(r, "failed", Record(r, s))
          ELSE NextTarget(r, request[r].refused, Record(r, s))
  /\ UNCHANGED calls

\* Mutant: the deadline is left to the timeout of the scope.
InTime_Always(r) == TRUE

\* budget.remaining_seconds() does not raise.
InTime(r) == r \notin expired

\* No target is left: the refusal that was kept, or a failure.
Conclude(r) ==
  /\ At(r, "choosing") /\ request[r].place \notin Places
  /\ InTime(r)
  /\ Return(r, IF request[r].refused # 0 THEN "refusal" ELSE "failed", request[r].attempts)
  /\ UNCHANGED calls

\* budget.remaining_seconds(), then the call under the attempt timeout.
Attempt(r) ==
  /\ At(r, "attempting")
  /\ InTime(r)
  /\ Call(r, Target(r))
  /\ request' = [request EXCEPT ![r].at = "waiting"]
  /\ UNCHANGED troubles

Retryable(e) == e \in {"transient", "timeout"}

MayRetry(r, e) == Retryable(e) /\ request[r].retry < AttemptRetries

\* An error of the attempt: another one after a pause, or the next target.
AttemptFailed(r, e) ==
  IF MayRetry(r, e)
  THEN request' = [request EXCEPT ![r].at = "attempting", ![r].retry = @ + 1,
                                  ![r].attempts = Record(r, e)]
  ELSE NextTarget(r, request[r].refused, Record(r, e))

\* The call has returned in time.
Evaluate(r) ==
  /\ At(r, "waiting") /\ Answered(r)
  /\ InTime(r)
  /\ \/ /\ answer[r] = "text" \/ (answer[r] = "refusal" /\ ~FallbackOnRefusal)
        /\ Return(r, answer[r], Record(r, answer[r]))
     \/ /\ answer[r] = "refusal" /\ FallbackOnRefusal
        /\ NextTarget(r, request[r].place, Record(r, "refusal"))
     \/ answer[r] \in Errors /\ AttemptFailed(r, answer[r])
  /\ UNCHANGED calls

\* attempt_timeout_ms: the call is abandoned.
AttemptTimesOut(r) ==
  /\ At(r, "waiting") /\ ~Answered(r)
  /\ InTime(r)
  /\ Trouble
  /\ Abandon(r)
  /\ AttemptFailed(r, "timeout")

\* The total deadline ends the request wherever it is.
Exhaust(r) ==
  /\ request[r].at \notin {"idle", "over"}
  /\ r \in expired
  /\ Abandon(r)
  /\ Return(r, "exhausted", request[r].attempts)
  /\ UNCHANGED troubles

RequestStep(r) ==
  \/ Choose(r) \/ Conclude(r) \/ Attempt(r) \/ Evaluate(r) \/ AttemptTimesOut(r)
  \/ Exhaust(r)

-----------------------------------------------------------------------------
OfPlace(attempts, p) == {i \in DOMAIN attempts : attempts[i].place = p}

Last(r) == request[r].attempts[Len(request[r].attempts)]

StoppedShort(r) == FailOnMissing /\ request[r].attempts # <<>> /\ Last(r).kind = "missing"

\* The outcome of a request agrees with its record of attempts: targets are
\* passed in order and never without an attempt or a reason, each within its
\* retries; an answer ends the request; a kept refusal is returned only when
\* every target has had its turn and none has answered; a failure means that
\* none has answered or refused, or that an adapter was missing.
RouteHonoured ==
  \A r \in Requests :
    LET attempts == request[r].attempts
        kinds == {attempts[i].kind : i \in DOMAIN attempts}
        tried == {attempts[i].place : i \in DOMAIN attempts}
    IN /\ \A i \in 1..Len(attempts) - 1 :
            attempts[i].kind # "text" /\ attempts[i].place <= attempts[i + 1].place
       /\ \A p \in Places : p < request[r].place => p \in tried
       /\ \A p \in Places : Cardinality(OfPlace(attempts, p)) <= AttemptRetries + 1
       /\ request[r].outcome = "text" => Last(r).kind = "text"
       /\ request[r].outcome = "refusal" =>
            /\ "refusal" \in kinds /\ "text" \notin kinds
            /\ FallbackOnRefusal => tried = Places
       /\ request[r].outcome = "failed" =>
            StoppedShort(r) \/ (tried = Places /\ kinds \cap Answers = {})

\* gateway.py: an exhausted request never becomes a target failure eligible
\* for retries or fallback.  Once its deadline has passed it starts no call,
\* records nothing but skipped targets, and neither answers nor reports that
\* its targets have failed.
ExhaustedIsFinal ==
  [][\A r \in Requests \cap expired :
       /\ awaiting[r] = NoFlight => awaiting'[r] = NoFlight
       /\ \A i \in DOMAIN request'[r].attempts \ DOMAIN request[r].attempts :
            request'[r].attempts[i].kind \in Skips
       /\ request[r].at # "over" /\ request'[r].at = "over" =>
            request'[r].outcome = "exhausted" \/ StoppedShort(r)']_<<calls, gateway>>
=============================================================================
