------------------------------ MODULE ModelCalls ------------------------------
(***************************************************************************)
(* Calls of wrapped language models: the single-flight cache of            *)
(* middleware.py around its circuit breaker, around a provider that        *)
(* retries under the deadline of whoever started the call (runtime.py).    *)
(* A call joins the task of its cache key or starts one.  The task does    *)
(* not end when its callers give up, and it inherits the deadline of the   *)
(* caller that started it.                                                 *)
(***************************************************************************)
EXTENDS Naturals, FiniteSets

CONSTANTS
  Callers,    \* tasks that call a model
  Models,     \* wrapped models
  Breakers,   \* instances of the circuit breaker middleware
  BreakerOf,  \* the one around each model; models may share it
  Inputs,     \* inputs, as the cache key sees them
  Flights,    \* identities of the tasks of the caches
  NoFlight,
  Threshold,  \* failure_threshold of the breakers
  Counted,    \* the kinds of error that is_failure accepts
  Retries,    \* max_retries of the providers
  MaxTroubles \* bound: failures, deadlines and interruptions

Keys == Models \X Inputs

\* What the provider answers, and what a call may raise instead.
Answers == {"text", "refusal"}
Errors == {"transient", "permanent", "timeout", "open"}

ASSUME CallAssumption ==
  /\ NoFlight \notin Flights
  /\ BreakerOf \in [Models -> Breakers]
  /\ Threshold \in Nat \ {0}
  /\ Counted \subseteq Errors
  /\ Retries \in Nat
  /\ MaxTroubles \in Nat

VARIABLES
  flight,     \* the tasks of the caches
  registered, \* in_flight: the task of each key
  cached,     \* what the caches hold
  breaker,    \* the state of each breaker, and whether it has cooled down
  awaiting,   \* the task that each caller awaits
  answer,     \* what the last call of each caller returned or raised
  expired,    \* callers whose total deadline has passed
  troubles

caches == <<flight, registered, cached, breaker>>
calls == <<caches, awaiting, answer, expired, troubles>>

Stages == {"lookup", "upstream", "store"}

Tasks == [key : Keys, stage : Stages, tries : 0..Retries, owner : Callers,
          result : Answers \cup {"none"}]

ASSUME NoFlightAssumption == NoFlight \notin Tasks

CallsTypeOK ==
  /\ flight \in [Flights -> Tasks \cup {NoFlight}]
  /\ registered \in [Keys -> Flights \cup {NoFlight}]
  /\ cached \in [Keys -> Answers \cup {"none"}]
  /\ breaker \in [Breakers -> [failures : Nat, opened : {"no", "cooling", "cooled"}]]
  /\ awaiting \in [Callers -> Flights \cup {NoFlight}]
  /\ answer \in [Callers -> Answers \cup Errors \cup {"none"}]
  /\ expired \subseteq Callers
  /\ troubles \in 0..MaxTroubles

CallsInit ==
  /\ flight = [f \in Flights |-> NoFlight]
  /\ registered = [k \in Keys |-> NoFlight]
  /\ cached = [k \in Keys |-> "none"]
  /\ breaker = [b \in Breakers |-> [failures |-> 0, opened |-> "no"]]
  /\ awaiting = [c \in Callers |-> NoFlight]
  /\ answer = [c \in Callers |-> "none"]
  /\ expired = {}
  /\ troubles = 0

-----------------------------------------------------------------------------
(* The caller's side *)

Trouble == troubles < MaxTroubles /\ troubles' = troubles + 1

Unused == {f \in Flights : flight[f] = NoFlight}

\* Mutant: a task that stores its result is not joined any more.
Joinable_Unstored(k) ==
  registered[k] # NoFlight /\ flight[registered[k]].stage # "store"

Joinable(k) == registered[k] # NoFlight

\* The cached middleware: await the task of the key, or a new one.
Call(c, k) ==
  /\ IF Joinable(k)
     THEN /\ awaiting' = [awaiting EXCEPT ![c] = registered[k]]
          /\ UNCHANGED <<flight, registered>>
     ELSE /\ Unused # {}
          /\ LET f == CHOOSE f \in Unused : TRUE
             IN /\ flight' = [flight EXCEPT ![f] =
                     [key |-> k, stage |-> "lookup", tries |-> 0, owner |-> c,
                      result |-> "none"]]
                /\ registered' = [registered EXCEPT ![k] = f]
                /\ awaiting' = [awaiting EXCEPT ![c] = f]
  /\ answer' = [answer EXCEPT ![c] = "none"]
  /\ UNCHANGED <<cached, breaker, expired>>

Answered(c) == awaiting[c] = NoFlight /\ answer[c] # "none"

\* asyncio.shield: the caller gives up and the task goes on.
Abandon(c) ==
  /\ awaiting' = [awaiting EXCEPT ![c] = NoFlight]
  /\ answer' = [answer EXCEPT ![c] = "none"]
  /\ UNCHANGED <<caches, expired>>

\* The total deadline of a caller passes.
Expire(c) ==
  /\ c \notin expired
  /\ Trouble
  /\ expired' = expired \cup {c}
  /\ UNCHANGED <<caches, awaiting, answer>>

-----------------------------------------------------------------------------
(* The task's side *)

Stage(f, s) == flight[f] # NoFlight /\ flight[f].stage = s

Breaker(f) == BreakerOf[flight[f].key[1]]

\* The finally of resolve: a task removes its own entry.
Deregister(f) == [k \in Keys |-> IF registered[k] = f THEN NoFlight ELSE registered[k]]

\* Mutant: only the caller that started the task hears of its end.
Waiters_Owner(f) == {c \in {flight[f].owner} : awaiting[c] = f}

Waiters(f) == {c \in Callers : awaiting[c] = f}

\* The task is done, and with it the calls that await it.
Finish(f, a) ==
  /\ flight' = [flight EXCEPT ![f] = NoFlight]
  /\ registered' = Deregister(f)
  /\ awaiting' = [c \in Callers |-> IF c \in Waiters(f) THEN NoFlight ELSE awaiting[c]]
  /\ answer' = [c \in Callers |-> IF c \in Waiters(f) THEN a ELSE answer[c]]
  /\ UNCHANGED expired

Proceed(f, task) ==
  /\ flight' = [flight EXCEPT ![f] = task]
  /\ UNCHANGED <<registered, awaiting, answer, expired>>

\* Mutant: a success resets the counter alone.
Recovered_Open(b) == breaker' = [breaker EXCEPT ![b].failures = 0]

\* state.failures = 0, state.opened_at = None
Recovered(b) == breaker' = [breaker EXCEPT ![b] = [failures |-> 0, opened |-> "no"]]

\* An error that reaches the breaker: the last of the threshold opens it.
Failed(b, e) ==
  IF e \notin Counted THEN UNCHANGED breaker
  ELSE breaker' = [breaker EXCEPT ![b] =
         [failures |-> @.failures + 1,
          opened |-> IF @.failures + 1 >= Threshold THEN "cooling" ELSE @.opened]]

\* cache.get, then the breaker's check; cache.get and the observer may raise.
LookUp(f) ==
  /\ Stage(f, "lookup")
  /\ \/ /\ cached[flight[f].key] # "none"
        /\ Finish(f, cached[flight[f].key])
        /\ UNCHANGED troubles
     \/ /\ cached[flight[f].key] = "none"
        /\ IF breaker[Breaker(f)].opened = "cooling"
           THEN Finish(f, "open")
           ELSE Proceed(f, [flight[f] EXCEPT !.stage = "upstream"])
        /\ UNCHANGED troubles
     \/ Trouble /\ Finish(f, "permanent")
  /\ UNCHANGED <<cached, breaker>>

\* The breaker is reset, then its observer is awaited and the answer stored.
ProviderAnswers(f) ==
  /\ Stage(f, "upstream")
  /\ \E a \in Answers : Proceed(f, [flight[f] EXCEPT !.stage = "store", !.result = a])
  /\ Recovered(Breaker(f))
  /\ UNCHANGED <<cached, troubles>>

\* The observer of state changes, told of the success, raises: it is taken for
\* a failure of the model, whatever the breaker has seen meanwhile, and the
\* answer is lost.
ObserverRaises(f) ==
  /\ Stage(f, "store")
  /\ Trouble
  /\ Finish(f, "permanent")
  /\ Failed(Breaker(f), "permanent")
  /\ UNCHANGED cached

\* with_retry: a retryable error is retried after a pause.
ProviderFails(f) ==
  /\ Stage(f, "upstream")
  /\ Trouble
  /\ \/ /\ flight[f].tries < Retries
        /\ Proceed(f, [flight[f] EXCEPT !.tries = @ + 1])
        /\ UNCHANGED breaker
     \/ /\ flight[f].tries = Retries
        /\ Finish(f, "transient")
        /\ Failed(Breaker(f), "transient")
     \/ /\ Finish(f, "permanent")
        /\ Failed(Breaker(f), "permanent")
  /\ UNCHANGED cached

\* execution_scope: the deadline in the task's context is its owner's.
DeadlineEnds(f) ==
  /\ Stage(f, "upstream")
  /\ flight[f].owner \in expired
  /\ Finish(f, "timeout")
  /\ Failed(Breaker(f), "timeout")
  /\ UNCHANGED <<cached, troubles>>

\* cache.set, which may raise with or without its effect.
Store(f) ==
  /\ Stage(f, "store")
  /\ LET k == flight[f].key
         stored == [cached EXCEPT ![k] = flight[f].result]
     IN \/ cached' = stored /\ Finish(f, flight[f].result) /\ UNCHANGED troubles
        \/ cached' \in {cached, stored} /\ Finish(f, "permanent") /\ Trouble
  /\ UNCHANGED breaker

\* cooldown_ms have passed since the breaker opened.
CoolDown(b) ==
  /\ breaker[b].opened = "cooling"
  /\ breaker' = [breaker EXCEPT ![b].opened = "cooled"]
  /\ UNCHANGED <<flight, registered, cached, awaiting, answer, expired, troubles>>

FlightStep(f) ==
  \/ LookUp(f) \/ ProviderAnswers(f) \/ ObserverRaises(f) \/ ProviderFails(f)
  \/ DeadlineEnds(f) \/ Store(f)

-----------------------------------------------------------------------------
\* README.md: concurrent requests of one cache key share one generation.  No
\* two tasks work on one key, none of them asks the provider again for what
\* is cached, and a task that works can be found and joined.
OneFlightPerKey ==
  \A f \in Flights : flight[f] # NoFlight =>
    /\ registered[flight[f].key] = f
    /\ flight[f].stage = "upstream" => cached[flight[f].key] = "none"

\* A call that waits has a task that works for it: waiting calls are never
\* left behind by a task that is gone.
WaitersServed ==
  \A c \in Callers : awaiting[c] # NoFlight => flight[awaiting[c]] # NoFlight

\* Whatever the order in which concurrent calls succeed and fail, a breaker is
\* open exactly when the failures since the last success reach the threshold.
BreakerConsistent ==
  \A b \in Breakers : breaker[b].opened # "no" <=> breaker[b].failures >= Threshold
=============================================================================
