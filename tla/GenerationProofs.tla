--------------------------- MODULE GenerationProofs ---------------------------
(***************************************************************************)
(* Theorems about generation, for any callers, models, breakers, routes    *)
(* and ceilings: the caches and breakers under every order of concurrent   *)
(* calls, the budget that loops share, how a request walks its route, and  *)
(* that nobody waits for a call or a worker that nothing works for.        *)
(***************************************************************************)
EXTENDS Generation, FiniteSetTheorems, TLAPS

-----------------------------------------------------------------------------
(* Requests *)

\* A request that attempts a target has one.
Placed == \A r \in Requests : request[r].at \in {"attempting", "waiting"} => request[r].place \in Places

GatewayInv == GatewayTypeOK /\ Placed

\* The states of a request.
RequestStates ==
  [at : {"idle", "choosing", "attempting", "waiting", "over"},
   input : Inputs, place : 1..Len(Route) + 1,
   retry : 0..AttemptRetries, refused : 0..Len(Route), outcome : Outcomes, attempts : Seq(Attempts)]

LEMMA GatewayInitially == GatewayInit => GatewayInv
<1> SUFFICES ASSUME GatewayInit PROVE GatewayInv
  OBVIOUS
<1>1. Len(Route) \in Nat /\ AttemptRetries \in Nat
  BY GatewayAssumption
<1>2. \A r \in Requests : request[r].at = "idle"
  BY DEF GatewayInit
<1>3. GatewayTypeOK
  <2> DEFINE First ==
        [at : {"idle"}, input : Inputs, place : {1}, retry : {0}, refused : {0},
         outcome : {"none"}, attempts : {<<>>}]
  <2>1. ASSUME NEW q \in First PROVE q \in RequestStates
    <3>1. 1 \in 1..Len(Route) + 1 /\ 0 \in 0..AttemptRetries /\ 0 \in 0..Len(Route)
      BY <1>1
    <3>2. "none" \in Outcomes /\ <<>> \in Seq(Attempts)
      BY DEF Outcomes
    <3> DEFINE places == 1..Len(Route) + 1
               retries == 0..AttemptRetries
               refusals == 0..Len(Route)
               lists == Seq(Attempts)
    <3>3. 1 \in places /\ 0 \in retries /\ 0 \in refusals /\ <<>> \in lists
      BY <3>1, <3>2
    <3> HIDE DEF places, retries, refusals, lists
    <3>4. q \in [at : {"idle", "choosing", "attempting", "waiting", "over"},
                 input : Inputs, place : places, retry : retries, refused : refusals,
                 outcome : Outcomes, attempts : lists]
      BY <3>2, <3>3
    <3> QED
      BY <3>4 DEF RequestStates, places, retries, refusals, lists
  <2>2. request \in [Requests -> First]
    BY DEF GatewayInit
  <2> QED
    BY <2>1, <2>2 DEF GatewayTypeOK, RequestStates
<1> QED
  BY <1>2, <1>3 DEF GatewayInv, Placed

LEMMA Recorded ==
  ASSUME GatewayInv, NEW r \in Requests, request[r].place \in Places,
         NEW kind \in Answers \cup Errors \cup Skips
  PROVE  Record(r, kind) \in Seq(Attempts)
<1>1. request[r].attempts \in Seq(Attempts)
  BY DEF GatewayInv, GatewayTypeOK
<1>2. [place |-> request[r].place, kind |-> kind] \in Attempts
  BY DEF Attempts
<1> QED
  BY <1>1, <1>2 DEF Record

LEMMA NextTargetKeeps ==
  ASSUME GatewayInv, NEW r \in Requests, request[r].place \in Places,
         NEW refused \in 0..Len(Route), NEW attempts \in Seq(Attempts),
         NextTarget(r, refused, attempts)
  PROVE  GatewayInv'
<1>1. Len(Route) \in Nat /\ AttemptRetries \in Nat
  BY GatewayAssumption
<1>2. request \in [Requests -> RequestStates]
  BY DEF GatewayInv, GatewayTypeOK, RequestStates
<1>3. request[r].place + 1 \in 1..Len(Route) + 1
  BY <1>1 DEF Places
<1>4. request' \in [Requests -> RequestStates]
  BY <1>1, <1>2, <1>3 DEF NextTarget, RequestStates
<1>5. request'[r].at = "choosing" /\ \A q \in Requests \ {r} : request'[q] = request[q]
  BY <1>2 DEF NextTarget
<1> QED
  BY <1>4, <1>5 DEF GatewayInv, GatewayTypeOK, RequestStates, Placed

LEMMA ReturnKeeps ==
  ASSUME GatewayInv, NEW r \in Requests, NEW outcome \in Outcomes, NEW attempts \in Seq(Attempts),
         Return(r, outcome, attempts)
  PROVE  GatewayInv'
<1>1. request \in [Requests -> RequestStates]
  BY DEF GatewayInv, GatewayTypeOK, RequestStates
<1>a. request[r] \in RequestStates
  BY <1>1
<1>b. [request[r] EXCEPT !.at = "over", !.outcome = outcome, !.attempts = attempts] \in RequestStates
  BY <1>a DEF RequestStates
<1>c. request' = [request EXCEPT ![r] =
        [request[r] EXCEPT !.at = "over", !.outcome = outcome, !.attempts = attempts]]
  BY <1>1, <1>a DEF Return, RequestStates
<1>2. request' \in [Requests -> RequestStates]
  BY <1>1, <1>b, <1>c
<1>3. request'[r].at = "over" /\ \A q \in Requests \ {r} : request'[q] = request[q]
  BY <1>1 DEF Return
<1> QED
  BY <1>2, <1>3 DEF GatewayInv, GatewayTypeOK, RequestStates, Placed

LEMMA AttemptFailedKeeps ==
  ASSUME GatewayInv, NEW r \in Requests, request[r].place \in Places, NEW e \in Errors,
         AttemptFailed(r, e)
  PROVE  GatewayInv'
<1>1. Record(r, e) \in Seq(Attempts)
  BY Recorded
<1>2. request \in [Requests -> RequestStates]
  BY DEF GatewayInv, GatewayTypeOK, RequestStates
<1>3. CASE MayRetry(r, e)
  <2>1. request[r].retry + 1 \in 0..AttemptRetries
    BY <1>2, <1>3, GatewayAssumption DEF MayRetry, RequestStates
  <2>2. request' = [request EXCEPT ![r].at = "attempting", ![r].retry = @ + 1,
                                   ![r].attempts = Record(r, e)]
    BY <1>3 DEF AttemptFailed
  <2> HIDE DEF Record
  <2> DEFINE record == Record(r, e)
             next == [request[r] EXCEPT !.at = "attempting", !.retry = @ + 1, !.attempts = record]
  <2>a. record \in Seq(Attempts)
    BY <1>1
  <2> HIDE DEF record
  <2>b. next \in RequestStates
    BY <1>2, <2>1, <2>a DEF RequestStates
  <2>c. request' = [request EXCEPT ![r] = next]
    BY <1>2, <2>2 DEF RequestStates, record
  <2> HIDE DEF next
  <2>3. request' \in [Requests -> RequestStates]
    BY <1>2, <2>b, <2>c
  <2>4. request'[r].place \in Places /\ \A q \in Requests \ {r} : request'[q] = request[q]
    BY <1>2, <2>2 DEF RequestStates
  <2> QED
    BY <2>3, <2>4 DEF GatewayInv, GatewayTypeOK, RequestStates, Placed
<1>4. CASE ~MayRetry(r, e)
  <2>1. request[r].refused \in 0..Len(Route)
    BY <1>2 DEF RequestStates
  <2> QED
    BY <1>1, <1>4, <2>1, NextTargetKeeps DEF AttemptFailed
<1> QED
  BY <1>3, <1>4

\* One field of one request.
LEMMA MovesKeeps ==
  ASSUME GatewayInv, NEW r \in Requests, NEW to \in {"choosing", "attempting", "waiting"},
         request[r].place \in Places \/ to = "choosing",
         request' = [request EXCEPT ![r].at = to]
  PROVE  GatewayInv'
<1>1. request \in [Requests -> RequestStates]
  BY DEF GatewayInv, GatewayTypeOK, RequestStates
<1>2. request' \in [Requests -> RequestStates]
  BY <1>1 DEF RequestStates
<1>3. /\ request'[r].place = request[r].place /\ request'[r].at = to
      /\ \A q \in Requests \ {r} : request'[q] = request[q]
  BY <1>1 DEF RequestStates
<1> QED
  BY <1>2, <1>3 DEF GatewayInv, GatewayTypeOK, RequestStates, Placed

LEMMA GatewayStep ==
  ASSUME GatewayInv, [Next]_vars
  PROVE  GatewayInv'
<1>1. UNCHANGED request => GatewayInv'
  BY DEF GatewayInv, GatewayTypeOK, Placed
<1>2. ASSUME NEW r \in Requests, Submit(r)
      PROVE  GatewayInv'
  BY <1>2, MovesKeeps DEF Submit
<1>3. ASSUME NEW r \in Requests, RequestStep(r)
      PROVE  GatewayInv'
  <2>0. /\ request[r].attempts \in Seq(Attempts)
        /\ request[r].refused \in 0..Len(Route)
        /\ request[r].place \in 1..Len(Route) + 1
    BY DEF GatewayInv, GatewayTypeOK
  <2>1. CASE Choose(r)
    <3>1. CASE request' = [request EXCEPT ![r].at = "attempting"]
      BY <2>1, <3>1, MovesKeeps DEF Choose
    <3>2. ASSUME NEW s \in Skips,
                 IF s = "missing" /\ FailOnMissing THEN Return(r, "failed", Record(r, s))
                 ELSE NextTarget(r, request[r].refused, Record(r, s))
          PROVE  GatewayInv'
      <4>1. Record(r, s) \in Seq(Attempts)
        BY <2>1, Recorded DEF Choose
      <4> QED
        BY <2>0, <2>1, <3>2, <4>1, ReturnKeeps, NextTargetKeeps DEF Choose, Outcomes
    <3> QED
      BY <2>1, <3>1, <3>2 DEF Choose
  <2>2. CASE Conclude(r)
    <3>1. PICK o \in Outcomes : Return(r, o, request[r].attempts)
      BY <2>2 DEF Conclude, Outcomes, Answers
    <3> QED
      BY <2>0, <3>1, ReturnKeeps
  <2>3. CASE Attempt(r)
    BY <2>3, MovesKeeps DEF Attempt, At, GatewayInv, Placed
  <2>4. CASE Evaluate(r)
    <3>1. request[r].place \in Places
      BY <2>4 DEF Evaluate, At, GatewayInv, Placed
    <3>2. CASE answer[r] \in {"text", "refusal"} /\ Return(r, answer[r], Record(r, answer[r]))
      <4>1. answer[r] \in Outcomes /\ Record(r, answer[r]) \in Seq(Attempts)
        BY <3>1, <3>2, Recorded DEF Outcomes, Answers
      <4> QED
        BY <3>2, <4>1, ReturnKeeps
    <3>3. CASE NextTarget(r, request[r].place, Record(r, "refusal"))
      <4>1. request[r].place \in 0..Len(Route) /\ Record(r, "refusal") \in Seq(Attempts)
        BY <3>1, Recorded, GatewayAssumption DEF Answers, Places
      <4> QED
        BY <3>1, <3>3, <4>1, NextTargetKeeps
    <3>4. CASE answer[r] \in Errors /\ AttemptFailed(r, answer[r])
      BY <3>1, <3>4, AttemptFailedKeeps
    <3> QED
      BY <2>4, <3>2, <3>3, <3>4 DEF Evaluate
  <2>5. CASE AttemptTimesOut(r)
    BY <2>5, AttemptFailedKeeps DEF AttemptTimesOut, At, GatewayInv, Placed, Errors
  <2>6. CASE Exhaust(r)
    BY <2>0, <2>6, ReturnKeeps DEF Exhaust, Outcomes
  <2> QED
    BY <1>3, <2>1, <2>2, <2>3, <2>4, <2>5, <2>6 DEF RequestStep
<1> QED
  BY <1>1, <1>2, <1>3 DEF Next, Arrive, Work, Environment, vars, gateway

-----------------------------------------------------------------------------
(* Caches and breakers *)

\* An entry of in_flight names a task that works on its key.
RegisteredWorks ==
  \A k \in Keys : registered[k] # NoFlight =>
    flight[registered[k]] # NoFlight /\ flight[registered[k]].key = k

\* A task that stores has an answer.
Resulted ==
  \A f \in Flights : flight[f] # NoFlight =>
    (flight[f].stage = "store" => flight[f].result \in Answers)

CallsInv ==
  /\ CallsTypeOK /\ OneFlightPerKey /\ WaitersServed /\ RegisteredWorks /\ BreakerConsistent
  /\ Resulted

\* What a step of Next does to the calls.
CallsStep ==
  \/ \E c \in Callers, k \in Keys : Call(c, k) /\ UNCHANGED troubles
  \/ \E c \in Callers : Abandon(c) /\ troubles' \in 0..MaxTroubles
  \/ \E c \in Callers : Expire(c)
  \/ \E f \in Flights : FlightStep(f)
  \/ \E b \in Breakers : CoolDown(b)
  \/ UNCHANGED <<caches, awaiting, answer, expired>> /\ troubles' \in 0..MaxTroubles

LEMMA TroubleInRange ==
  ASSUME CallsTypeOK
  PROVE  troubles \in 0..MaxTroubles /\ (Trouble => troubles' \in 0..MaxTroubles)
BY CallAssumption DEF CallsTypeOK, Trouble

LEMMA NextCalls ==
  ASSUME CallsTypeOK, GatewayInv, [Next]_vars
  PROVE  CallsStep
<1>1. UNCHANGED calls => CallsStep
  BY TroubleInRange DEF CallsStep, calls
<1>2. CASE Arrive
  BY <1>1, <1>2 DEF Arrive, Submit, Begin
<1>3. CASE Work
  <2>1. ASSUME NEW f \in Flights, FlightStep(f)
        PROVE  CallsStep
    BY <2>1 DEF CallsStep
  <2>2. ASSUME NEW r \in Requests, RequestStep(r)
        PROVE  CallsStep
    <3>1. r \in Callers
      BY GatewayAssumption
    <3>2. CASE Attempt(r)
      <4>1. Target(r) \in Keys
        BY <3>2, GatewayAssumption DEF Attempt, At, Target, Keys, Places, GatewayInv, GatewayTypeOK, Placed
      <4> QED
        BY <3>1, <3>2, <4>1 DEF Attempt, CallsStep
    <3>3. CASE AttemptTimesOut(r) \/ Exhaust(r)
      BY <3>1, <3>3, TroubleInRange DEF AttemptTimesOut, Exhaust, CallsStep
    <3>4. CASE Choose(r) \/ Conclude(r) \/ Evaluate(r)
      BY <1>1, <3>4 DEF Choose, Conclude, Evaluate
    <3> QED
      BY <2>2, <3>2, <3>3, <3>4 DEF RequestStep
  <2>3. ASSUME NEW l \in Loops, LoopStep(l)
        PROVE  CallsStep
    <3>1. l \in Callers
      BY LoopAssumption
    <3>2. CASE Step(l)
      <4>1. \A i \in Inputs : <<LoopModel, i>> \in Keys
        BY LoopAssumption DEF Keys
      <4> QED
        BY <1>1, <3>1, <3>2, <4>1 DEF Step, CallsStep
    <3>3. CASE Interrupt(l)
      BY <3>1, <3>3, TroubleInRange DEF Interrupt, CallsStep
    <3>4. CASE ToolStep(l)
      BY <1>1, <3>4, TroubleInRange DEF ToolStep, ToolReturns, ToolRaises, ToolSuspends, ToolStops, CallsStep
    <3>5. CASE Response(l) \/ CallFailed(l) \/ StartTool(l) \/ Cancel(l) \/ Join(l) \/ EndBatch(l)
      BY <1>1, <3>5 DEF Response, CallFailed, StartTool, Cancel, Join, EndBatch
    <3> QED
      BY <2>3, <3>2, <3>3, <3>4, <3>5 DEF LoopStep
  <2> QED
    BY <1>3, <2>1, <2>2, <2>3 DEF Work
<1>4. CASE Environment
  <2>1. Active \subseteq Callers
    BY GatewayAssumption, LoopAssumption DEF Active
  <2> QED
    BY <1>4, <2>1 DEF Environment, CallsStep
<1>5. CASE UNCHANGED vars
  BY <1>1, <1>5 DEF vars
<1> QED
  BY <1>2, <1>3, <1>4, <1>5 DEF Next

LEMMA CallsInitially == CallsInit => CallsInv
<1> SUFFICES ASSUME CallsInit PROVE CallsInv
  OBVIOUS
<1>1. CallsTypeOK
  BY CallAssumption DEF CallsInit, CallsTypeOK
<1> QED
  BY <1>1, CallAssumption DEF CallsInit, CallsInv, OneFlightPerKey, WaitersServed, RegisteredWorks,
                              BreakerConsistent, Resulted

LEMMA CallKeeps ==
  ASSUME CallsInv, NEW c \in Callers, NEW k \in Keys, Call(c, k), UNCHANGED troubles
  PROVE  CallsInv'
<1> USE DEF CallsInv, CallsTypeOK
<1>1. CASE Joinable(k)
  <2>1. /\ awaiting' = [awaiting EXCEPT ![c] = registered[k]]
        /\ UNCHANGED <<flight, registered, cached, breaker, expired>>
        /\ answer' = [answer EXCEPT ![c] = "none"]
    BY <1>1 DEF Call
  <2>2. flight[registered[k]] # NoFlight
    BY <1>1 DEF Joinable, RegisteredWorks
  <2>3. WaitersServed'
    BY <2>1, <2>2 DEF WaitersServed
  <2> QED
    BY <2>1, <2>3 DEF OneFlightPerKey, RegisteredWorks, BreakerConsistent, Resulted
<1>2. CASE ~Joinable(k)
  <2> DEFINE task == [key |-> k, stage |-> "lookup", tries |-> 0, owner |-> c, result |-> "none"]
  <2>1. PICK f \in Flights :
          /\ flight[f] = NoFlight
          /\ flight' = [flight EXCEPT ![f] = task]
          /\ registered' = [registered EXCEPT ![k] = f]
          /\ awaiting' = [awaiting EXCEPT ![c] = f]
    BY <1>2 DEF Call, Unused
  <2>2. task \in Tasks /\ task.key = k /\ task.stage = "lookup"
    BY CallAssumption DEF Tasks, Stages
  <2>3. registered[k] = NoFlight /\ f # NoFlight
    BY <1>2, CallAssumption DEF Joinable
  <2> HIDE DEF task
  <2>4. task # NoFlight
    BY <2>2, NoFlightAssumption
  <2>5. CallsTypeOK'
    BY <2>1, <2>2 DEF Call
  <2>6. \A g \in Flights : flight[g] # NoFlight => flight[g].key # k
    BY <2>3, CallAssumption DEF OneFlightPerKey
  <2>7. OneFlightPerKey'
    BY <2>1, <2>2, <2>6 DEF Call, OneFlightPerKey, Tasks
  <2>8. WaitersServed'
    BY <2>1, <2>4 DEF WaitersServed
  <2>9. RegisteredWorks'
    BY <2>1, <2>2, <2>4 DEF RegisteredWorks
  <2>10. Resulted'
    BY <2>1, <2>2 DEF Resulted
  <2> QED
    BY <2>5, <2>7, <2>8, <2>9, <2>10 DEF Call, BreakerConsistent
<1> QED
  BY <1>1, <1>2

\* Any step of a task that goes on.
LEMMA ProceedKeeps ==
  ASSUME CallsInv, NEW f \in Flights, flight[f] # NoFlight,
         NEW task \in Tasks, task.key = flight[f].key,
         task.stage = "upstream" => cached[task.key] = "none",
         task.stage = "store" => task.result \in Answers,
         Proceed(f, task), UNCHANGED cached, troubles' \in 0..MaxTroubles,
         breaker' \in [Breakers -> [failures : Nat, opened : {"no", "cooling", "cooled"}]],
         BreakerConsistent'
  PROVE  CallsInv'
<1> USE DEF CallsInv, CallsTypeOK, Proceed
<1>1. task # NoFlight
  BY NoFlightAssumption
<1>2. CallsTypeOK'
  OBVIOUS
<1>3. OneFlightPerKey' /\ RegisteredWorks' /\ WaitersServed' /\ Resulted'
  BY <1>1 DEF OneFlightPerKey, RegisteredWorks, WaitersServed, Resulted
<1> QED
  BY <1>2, <1>3

\* Any end of a task, with or without a result for the cache.
LEMMA FinishKeeps ==
  ASSUME CallsInv, NEW f \in Flights, flight[f] # NoFlight,
         NEW a \in Answers \cup Errors, Finish(f, a),
         NEW held \in Answers \cup {"none"},
         cached' = [cached EXCEPT ![flight[f].key] = held], troubles' \in 0..MaxTroubles,
         breaker' \in [Breakers -> [failures : Nat, opened : {"no", "cooling", "cooled"}]],
         BreakerConsistent'
  PROVE  CallsInv'
<1> USE DEF CallsInv, CallsTypeOK, Finish
<1> DEFINE k == flight[f].key
<1>1. k \in Keys /\ flight[f] \in Tasks
  BY DEF Tasks
<1>2. registered' \in [Keys -> Flights \cup {NoFlight}]
  BY DEF Deregister
<1>3. /\ awaiting' \in [Callers -> Flights \cup {NoFlight}]
      /\ answer' \in [Callers -> Answers \cup Errors \cup {"none"}]
  OBVIOUS
<1>4. CallsTypeOK'
  BY <1>1, <1>2, <1>3
<1>5. \A g \in Flights \ {f} : flight'[g] = flight[g] /\ (flight[g] # NoFlight => flight[g].key # k)
  BY <1>1 DEF OneFlightPerKey
<1>6. flight'[f] = NoFlight
  OBVIOUS
<1>7. OneFlightPerKey'
  <2> SUFFICES ASSUME NEW g \in Flights, flight'[g] # NoFlight
               PROVE  /\ registered'[flight'[g].key] = g
                      /\ flight'[g].stage = "upstream" => cached'[flight'[g].key] = "none"
    BY DEF OneFlightPerKey
  <2>1. g # f /\ flight'[g] = flight[g] /\ flight[g].key # k
    BY <1>5, <1>6
  <2>2. flight[g].key \in Keys
    BY <2>1 DEF Tasks
  <2>3. registered[flight[g].key] = g
    BY <2>1 DEF OneFlightPerKey
  <2> QED
    BY <2>1, <2>2, <2>3 DEF OneFlightPerKey, Deregister
<1>8. RegisteredWorks'
  BY <1>2, <1>5 DEF RegisteredWorks, Deregister
<1>9. WaitersServed'
  BY <1>5 DEF WaitersServed, Waiters
<1>10. Resulted'
  BY <1>5, <1>6 DEF Resulted
<1> QED
  BY <1>4, <1>7, <1>8, <1>9, <1>10

\* An error that reaches a breaker keeps it consistent.
LEMMA FailedKeeps ==
  ASSUME CallsInv, NEW b \in Breakers, NEW e, Failed(b, e)
  PROVE  /\ breaker' \in [Breakers -> [failures : Nat, opened : {"no", "cooling", "cooled"}]]
         /\ BreakerConsistent'
<1> USE DEF CallsInv, CallsTypeOK, BreakerConsistent
<1>1. CASE e \notin Counted
  BY <1>1 DEF Failed
<1>2. CASE e \in Counted
  <2> DEFINE after == [failures |-> breaker[b].failures + 1,
                       opened |-> IF breaker[b].failures + 1 >= Threshold THEN "cooling"
                                  ELSE breaker[b].opened]
  <2>1. breaker' = [breaker EXCEPT ![b] = after]
    BY <1>2 DEF Failed
  <2>2. /\ after \in [failures : Nat, opened : {"no", "cooling", "cooled"}]
        /\ after.opened # "no" <=> after.failures >= Threshold
    BY CallAssumption
  <2> HIDE DEF after
  <2> QED
    BY <2>1, <2>2
<1> QED
  BY <1>1, <1>2

LEMMA FlightKeeps ==
  ASSUME CallsInv, NEW f \in Flights, FlightStep(f)
  PROVE  CallsInv'
<1> DEFINE States == [failures : Nat, opened : {"no", "cooling", "cooled"}]
<1>1. /\ CallsTypeOK /\ BreakerConsistent
      /\ breaker \in [Breakers -> States] /\ cached \in [Keys -> Answers \cup {"none"}]
      /\ troubles \in 0..MaxTroubles /\ (Trouble => troubles' \in 0..MaxTroubles)
  BY TroubleInRange DEF CallsInv, CallsTypeOK
<1>2. flight[f] # NoFlight
  BY DEF FlightStep, LookUp, ProviderAnswers, ObserverRaises, ProviderFails, DeadlineEnds, Store, Stage
<1>3. flight[f] \in Tasks /\ flight[f].key \in Keys /\ Breaker(f) \in Breakers
  <2>1. flight[f] \in Tasks
    BY <1>2 DEF CallsInv, CallsTypeOK
  <2>2. flight[f].key \in Keys
    BY <2>1 DEF Tasks
  <2> QED
    BY <2>1, <2>2, CallAssumption DEF Breaker, Keys
<1>4. ASSUME UNCHANGED breaker
      PROVE  breaker' \in [Breakers -> States] /\ BreakerConsistent'
  BY <1>1, <1>4 DEF BreakerConsistent
\* A task that ends without a result for the cache.
<1>5. ASSUME NEW a \in Answers \cup Errors, Finish(f, a), UNCHANGED cached,
             troubles' \in 0..MaxTroubles, breaker' \in [Breakers -> States], BreakerConsistent'
      PROVE  CallsInv'
  <2>1. /\ cached[flight[f].key] \in Answers \cup {"none"}
        /\ cached' = [cached EXCEPT ![flight[f].key] = cached[flight[f].key]]
    BY <1>1, <1>3, <1>5
  <2> QED
    BY <1>2, <1>5, <2>1, FinishKeeps
<1>6. CASE LookUp(f)
  <2>1. UNCHANGED <<cached, breaker>> /\ breaker' \in [Breakers -> States] /\ BreakerConsistent'
    BY <1>4, <1>6 DEF LookUp
  <2>2. CASE cached[flight[f].key] # "none" /\ Finish(f, cached[flight[f].key]) /\ UNCHANGED troubles
    BY <1>1, <1>3, <1>5, <2>1, <2>2
  <2>3. CASE (Finish(f, "open") \/ Finish(f, "permanent")) /\ troubles' \in 0..MaxTroubles
    BY <1>5, <2>1, <2>3 DEF Errors
  <2>4. CASE /\ cached[flight[f].key] = "none" /\ UNCHANGED troubles
             /\ Proceed(f, [flight[f] EXCEPT !.stage = "upstream"])
    <3> DEFINE task == [flight[f] EXCEPT !.stage = "upstream"]
    <3>1. task \in Tasks /\ task.key = flight[f].key /\ task.stage = "upstream"
      BY <1>3 DEF Tasks, Stages
    <3> HIDE DEF task
    <3>2. Proceed(f, task)
      BY <2>4 DEF task
    <3> QED
      BY <1>1, <1>2, <2>1, <2>4, <3>1, <3>2, ProceedKeeps
  <2> QED
    BY <1>1, <1>6, <2>2, <2>3, <2>4 DEF LookUp
<1>7. CASE ProviderAnswers(f)
  <2>1. PICK a \in Answers : Proceed(f, [flight[f] EXCEPT !.stage = "store", !.result = a])
    BY <1>7 DEF ProviderAnswers
  <2> DEFINE task == [flight[f] EXCEPT !.stage = "store", !.result = a]
  <2>2. task \in Tasks /\ task.key = flight[f].key /\ task.stage = "store" /\ task.result = a
    BY <1>3 DEF Tasks, Stages
  <2>3. breaker' \in [Breakers -> States] /\ BreakerConsistent'
    BY <1>1, <1>3, <1>7, CallAssumption DEF ProviderAnswers, Recovered, BreakerConsistent
  <2>4. Proceed(f, task)
    BY <2>1
  <2> HIDE DEF task
  <2> QED
    BY <1>1, <1>2, <1>7, <2>2, <2>3, <2>4, ProceedKeeps DEF ProviderAnswers
<1>8. CASE ObserverRaises(f)
  BY <1>1, <1>3, <1>5, <1>8, FailedKeeps DEF ObserverRaises, Errors
<1>9. CASE ProviderFails(f)
  <2>1. CASE /\ flight[f].tries < Retries /\ UNCHANGED breaker
             /\ Proceed(f, [flight[f] EXCEPT !.tries = @ + 1])
    <3> DEFINE task == [flight[f] EXCEPT !.tries = @ + 1]
    <3>0. flight[f].tries + 1 \in 0..Retries
      BY <1>3, <2>1, CallAssumption DEF Tasks
    <3>1. task \in Tasks /\ task.key = flight[f].key /\ task.stage = flight[f].stage
      BY <1>3, <3>0 DEF Tasks
    <3> HIDE DEF task
    <3>2. Proceed(f, task)
      BY <2>1 DEF task
    <3>3. cached[task.key] = "none" /\ task.stage = "upstream"
      BY <1>9, <3>1 DEF ProviderFails, Stage, CallsInv, OneFlightPerKey
    <3> QED
      BY <1>1, <1>2, <1>4, <1>9, <2>1, <3>1, <3>2, <3>3, ProceedKeeps DEF ProviderFails
  <2>2. ASSUME NEW e \in {"transient", "permanent"}, Finish(f, e), Failed(Breaker(f), e)
        PROVE  CallsInv'
    BY <1>1, <1>3, <1>5, <1>9, <2>2, FailedKeeps DEF ProviderFails, Errors
  <2> QED
    BY <1>9, <2>1, <2>2 DEF ProviderFails
<1>10. CASE DeadlineEnds(f)
  BY <1>1, <1>3, <1>5, <1>10, FailedKeeps DEF DeadlineEnds, Errors
<1>11. CASE Store(f)
  <2>1. UNCHANGED breaker /\ breaker' \in [Breakers -> States] /\ BreakerConsistent'
    BY <1>4, <1>11 DEF Store
  <2>2. flight[f].result \in Answers \cup {"none"}
    BY <1>3 DEF Tasks
  <2>3. CASE UNCHANGED cached /\ Finish(f, "permanent") /\ Trouble
    BY <1>1, <1>5, <2>1, <2>3 DEF Errors
  <2>4. CASE /\ cached' = [cached EXCEPT ![flight[f].key] = flight[f].result]
             /\ Finish(f, "permanent") /\ Trouble
    BY <1>1, <1>2, <2>1, <2>2, <2>4, FinishKeeps DEF Errors
  <2>5. CASE /\ cached' = [cached EXCEPT ![flight[f].key] = flight[f].result]
             /\ Finish(f, flight[f].result) /\ UNCHANGED troubles
    <3>1. flight[f].result \in Answers
      BY <1>11 DEF Store, Stage, CallsInv, Resulted
    <3> QED
      BY <1>1, <1>2, <2>1, <2>2, <2>5, <3>1, FinishKeeps
  <2> QED
    BY <1>11, <2>3, <2>4, <2>5 DEF Store
<1> QED
  BY <1>6, <1>7, <1>8, <1>9, <1>10, <1>11 DEF FlightStep

LEMMA CallsStepKeeps ==
  ASSUME CallsInv, CallsStep
  PROVE  CallsInv'
<1>1. ASSUME NEW c \in Callers, Abandon(c), troubles' \in 0..MaxTroubles
      PROVE  CallsInv'
  BY <1>1 DEF CallsInv, CallsTypeOK, Abandon, caches, OneFlightPerKey, WaitersServed, RegisteredWorks,
              BreakerConsistent, Resulted
<1>2. ASSUME NEW c \in Callers, Expire(c)
      PROVE  CallsInv'
  BY <1>2, TroubleInRange DEF CallsInv, CallsTypeOK, Expire, caches, OneFlightPerKey, WaitersServed,
              RegisteredWorks, BreakerConsistent, Resulted
<1>3. ASSUME NEW b \in Breakers, CoolDown(b)
      PROVE  CallsInv'
  BY <1>3 DEF CallsInv, CallsTypeOK, CoolDown, OneFlightPerKey, WaitersServed, RegisteredWorks,
              BreakerConsistent, Resulted
<1>4. ASSUME UNCHANGED <<caches, awaiting, answer, expired>>, troubles' \in 0..MaxTroubles
      PROVE  CallsInv'
  BY <1>4 DEF CallsInv, CallsTypeOK, caches, OneFlightPerKey, WaitersServed, RegisteredWorks,
              BreakerConsistent, Resulted
<1> QED
  BY <1>1, <1>2, <1>3, <1>4, CallKeeps, FlightKeeps DEF CallsStep

LEMMA CallsInvariance == Spec => [](CallsInv /\ GatewayInv)
<1>1. Init => CallsInv /\ GatewayInv
  BY CallsInitially, GatewayInitially DEF Init
<1>2. CallsInv /\ GatewayInv /\ [Next]_vars => CallsInv' /\ GatewayInv'
  BY NextCalls, CallsStepKeeps, GatewayStep DEF CallsInv
<1> QED
  BY <1>1, <1>2, PTL DEF Spec

\* The single-flight cache of middleware.py: whatever calls are made, fail,
\* expire or are abandoned, a key has one task at most, that task can be
\* joined, and it does not ask the provider for what is cached.
THEOREM SingleFlight == Spec => []OneFlightPerKey
<1>1. CallsInv => OneFlightPerKey
  BY DEF CallsInv
<1> QED
  BY <1>1, CallsInvariance, PTL

\* Nobody awaits a task of the cache that is gone.
THEOREM Served == Spec => []WaitersServed
<1>1. CallsInv => WaitersServed
  BY DEF CallsInv
<1> QED
  BY <1>1, CallsInvariance, PTL

\* The circuit breaker of middleware.py is open exactly when the failures
\* since the last success have reached its threshold, in every order of
\* concurrent calls.
THEOREM BreakersAgree == Spec => []BreakerConsistent
<1>1. CallsInv => BreakerConsistent
  BY DEF CallsInv
<1> QED
  BY <1>1, CallsInvariance, PTL

-----------------------------------------------------------------------------
(* Loops *)

\* What a step of Next does to the loops.
LoopsStep == (\E l \in Loops : Begin(l) \/ LoopStep(l)) \/ UNCHANGED loops

LEMMA NextLoops == [Next]_vars => LoopsStep
BY DEF Next, Arrive, Work, Environment, vars, LoopsStep

Small == \A l \in Loops : Len(batch[l]) <= MaxBatch

\* Nothing is left of earlier batches when a loop calls its model.
Clean ==
  \A l \in Loops : at[l] \in {"idle", "step", "waiting"} =>
    why[l] = "none" /\ \A i \in DOMAIN batch[l] : batch[l][i] \in {"ok", "error"}

\* A loop that is about to call its model has calls left.
Stepping ==
  \A l \in Loops :
    /\ at[l] = "idle" => steps[l] = 0
    /\ at[l] = "step" => steps[l] < StepLimit

\* While a batch goes on, none of its workers has raised.
Sound ==
  \A l \in Loops : at[l] = "tools" /\ why[l] = "none" =>
    \A i \in DOMAIN batch[l] : batch[l][i] # "stopped"

Shape == LoopTypeOK /\ Small /\ Clean /\ Stepping /\ Sound

LEMMA LoopNumbers ==
  /\ MaxSteps \in Nat /\ MaxToolCalls \in Nat /\ MaxToolErrors \in Nat /\ MaxTokens \in Nat
  /\ MaxBatch \in Nat /\ MaxUsage \in Nat /\ StepLimit \in Nat \ {0}
BY LoopAssumption

\* A tool of a batch changes its state.
LEMMA Marked ==
  ASSUME Shape, NEW l \in Loops, NEW i \in DOMAIN batch[l], NEW x \in Tool,
         batch' = [batch EXCEPT ![l][i] = x]
  PROVE  /\ batch' \in [Loops -> Seq(Tool)]
         /\ batch'[l][i] = x
         /\ Len(batch'[l]) = Len(batch[l]) /\ DOMAIN batch'[l] = DOMAIN batch[l]
         /\ \A j \in DOMAIN batch[l] \ {i} : batch'[l][j] = batch[l][j]
         /\ \A m \in Loops \ {l} : batch'[m] = batch[m]
         /\ Small'
<1>1. batch \in [Loops -> Seq(Tool)] /\ batch[l] \in Seq(Tool)
  BY DEF Shape, LoopTypeOK
<1>2. batch' = [batch EXCEPT ![l] = [batch[l] EXCEPT ![i] = x]]
  BY <1>1
<1> DEFINE new == [batch[l] EXCEPT ![i] = x]
<1>3. /\ new \in Seq(Tool) /\ Len(new) = Len(batch[l]) /\ DOMAIN new = DOMAIN batch[l]
      /\ new[i] = x /\ \A j \in DOMAIN batch[l] \ {i} : new[j] = batch[l][j]
  BY <1>1
<1>4. batch' = [batch EXCEPT ![l] = new]
  BY <1>2
<1> HIDE DEF new
<1>5. batch'[l] = new /\ \A m \in Loops \ {l} : batch'[m] = batch[m]
  BY <1>1, <1>4
<1>6. batch' \in [Loops -> Seq(Tool)]
  BY <1>1, <1>3, <1>4
<1>7. Small'
  BY <1>3, <1>5 DEF Shape, Small
<1> QED
  BY <1>3, <1>5, <1>6, <1>7

\* What the tools of a running batch do.
ToolMoves(l, i, x) ==
  /\ at[l] \in {"tools", "joining"} /\ i \in DOMAIN batch[l]
  /\ batch' = [batch EXCEPT ![l][i] = x]
  /\ why' \in {why, [why EXCEPT ![l] = why'[l]]} /\ why'[l] \in Ends
  /\ why[l] # "none" => why'[l] # "none"
  /\ x = "stopped" /\ at[l] = "tools" => why'[l] # "none"
  /\ UNCHANGED <<at, steps, asked, gated>>
  /\ ledger' \in [steps : Nat, calls : Nat, errors : Nat, tokens : Nat]
  /\ starts' \in Nat

LEMMA ToolShape ==
  ASSUME Shape, NEW l \in Loops, NEW i, NEW x \in Tool, ToolMoves(l, i, x)
  PROVE  Shape'
<1>1. /\ batch' \in [Loops -> Seq(Tool)] /\ Small' /\ \A m \in Loops \ {l} : batch'[m] = batch[m]
      /\ batch'[l][i] = x /\ DOMAIN batch'[l] = DOMAIN batch[l]
      /\ \A j \in DOMAIN batch[l] \ {i} : batch'[l][j] = batch[l][j]
  BY Marked DEF ToolMoves
<1>2. LoopTypeOK'
  BY <1>1 DEF Shape, LoopTypeOK, ToolMoves
<1>3. \A m \in Loops \ {l} : why'[m] = why[m]
  BY DEF ToolMoves, Shape, LoopTypeOK
<1>4. Clean'
  BY <1>1, <1>3 DEF Shape, Clean, ToolMoves
<1>5. Stepping'
  BY DEF Shape, Stepping, ToolMoves
<1>6. Sound'
  BY <1>1, <1>3 DEF Shape, Sound, ToolMoves
<1> QED
  BY <1>1, <1>2, <1>4, <1>5, <1>6 DEF Shape

LEMMA Ledgers ==
  ASSUME Shape, NEW n \in Nat, NEW m \in Nat
  PROVE  /\ ledger \in [steps : Nat, calls : Nat, errors : Nat, tokens : Nat]
         /\ [ledger EXCEPT !.steps = @ + n] \in [steps : Nat, calls : Nat, errors : Nat, tokens : Nat]
         /\ [ledger EXCEPT !.errors = @ + n] \in [steps : Nat, calls : Nat, errors : Nat, tokens : Nat]
         /\ [ledger EXCEPT !.tokens = @ + n, !.calls = @ + m]
              \in [steps : Nat, calls : Nat, errors : Nat, tokens : Nat]
<1>1. ledger \in [steps : Nat, calls : Nat, errors : Nat, tokens : Nat]
  BY DEF Shape, LoopTypeOK
<1>2. /\ ledger.steps + n \in Nat /\ ledger.errors + n \in Nat
      /\ ledger.tokens + n \in Nat /\ ledger.calls + m \in Nat
  BY <1>1
<1>3. [ledger EXCEPT !.steps = @ + n] \in [steps : Nat, calls : Nat, errors : Nat, tokens : Nat]
  BY <1>1, <1>2
<1>4. [ledger EXCEPT !.errors = @ + n] \in [steps : Nat, calls : Nat, errors : Nat, tokens : Nat]
  BY <1>1, <1>2
<1>5. [ledger EXCEPT !.tokens = @ + n, !.calls = @ + m]
        \in [steps : Nat, calls : Nat, errors : Nat, tokens : Nat]
  BY <1>1, <1>2
<1> QED
  BY <1>1, <1>3, <1>4, <1>5

\* Every step of a tool is one of ToolMoves.
LEMMA ToolsMove ==
  ASSUME Shape, NEW l \in Loops, StartTool(l) \/ ToolStep(l)
  PROVE  \E i \in Nat, x \in Tool : ToolMoves(l, i, x)
<1>1. /\ why[l] \in Ends /\ starts \in Nat /\ starts + 1 \in Nat /\ batch[l] \in Seq(Tool)
      /\ why \in [Loops -> Ends]
      /\ ledger \in [steps : Nat, calls : Nat, errors : Nat, tokens : Nat]
  BY DEF Shape, LoopTypeOK
<1>2. /\ \A i \in DOMAIN batch[l] : i \in Nat
      /\ Todo(l) \subseteq DOMAIN batch[l] /\ Running(l) \subseteq DOMAIN batch[l]
  BY <1>1 DEF Todo, Running
<1>3. ASSUME NEW end \in Ends \ {"none"}, Raise(l, end)
      PROVE  why' \in {why, [why EXCEPT ![l] = why'[l]]} /\ why'[l] \in Ends /\ why'[l] # "none"
  BY <1>1, <1>3 DEF Raise
<1>4. ASSUME UNCHANGED why
      PROVE  /\ why' \in {why, [why EXCEPT ![l] = why'[l]]} /\ why'[l] \in Ends
             /\ why[l] # "none" => why'[l] # "none"
  BY <1>1, <1>4
<1>5. CASE StartTool(l)
  <2>1. PICK i \in Todo(l) :
          IF Refuses(ledger)
          THEN Raise(l, "tripped") /\ batch' = [batch EXCEPT ![l][i] = "stopped"] /\ UNCHANGED starts
          ELSE batch' = [batch EXCEPT ![l][i] = "running"] /\ starts' = starts + 1 /\ UNCHANGED why
    BY <1>5 DEF StartTool
  <2>2. /\ at[l] = "tools" /\ i \in DOMAIN batch[l] /\ i \in Nat
        /\ UNCHANGED <<at, steps, asked, gated, ledger>>
    BY <1>2, <1>5 DEF StartTool
  <2>3. CASE Refuses(ledger)
    <3>1. ToolMoves(l, i, "stopped")
      BY <1>1, <1>3, <2>1, <2>2, <2>3 DEF ToolMoves, Ends
    <3> QED
      BY <2>2, <3>1 DEF Tool
  <2>4. CASE ~Refuses(ledger)
    <3>1. ToolMoves(l, i, "running")
      BY <1>1, <1>4, <2>1, <2>2, <2>4 DEF ToolMoves
    <3> QED
      BY <2>2, <3>1 DEF Tool
  <2> QED
    BY <2>3, <2>4
<1>6. ASSUME NEW i, ToolReturns(l, i)
      PROVE  i \in Nat /\ \E x \in Tool : ToolMoves(l, i, x)
  <2>1. PICK r \in {"ok", "error"} :
          /\ ledger' = [ledger EXCEPT !.errors = @ + (IF r = "error" THEN 1 ELSE 0)]
          /\ IF Exceeds(ledger')
             THEN batch' = [batch EXCEPT ![l][i] = "stopped"] /\ Raise(l, "tripped")
             ELSE /\ batch' = [batch EXCEPT ![l][i] = r]
                  /\ IF r = "error" /\ StopOnError /\ Sequential(l)
                     THEN Raise(l, "failed") ELSE UNCHANGED why
    BY <1>6 DEF ToolReturns
  <2>2. ledger' \in [steps : Nat, calls : Nat, errors : Nat, tokens : Nat]
    BY <2>1, Ledgers
  <2>3. /\ at[l] = "tools" /\ i \in DOMAIN batch[l] /\ i \in Nat
        /\ UNCHANGED <<at, steps, asked, gated, starts>>
    BY <1>2, <1>6 DEF ToolReturns
  <2>4. CASE Exceeds(ledger')
    <3>1. ToolMoves(l, i, "stopped")
      BY <1>1, <1>3, <2>1, <2>2, <2>3, <2>4 DEF ToolMoves, Ends
    <3> QED
      BY <2>3, <3>1 DEF Tool
  <2>5. CASE ~Exceeds(ledger')
    <3>1. ToolMoves(l, i, r)
      BY <1>1, <1>3, <1>4, <2>1, <2>2, <2>3, <2>5 DEF ToolMoves, Ends
    <3> QED
      BY <2>3, <3>1 DEF Tool
  <2> QED
    BY <2>4, <2>5
<1>7. ASSUME NEW i, ToolRaises(l, i) \/ ToolSuspends(l, i)
      PROVE  i \in Nat /\ ToolMoves(l, i, "stopped")
  BY <1>1, <1>2, <1>3, <1>7 DEF ToolRaises, ToolSuspends, ToolMoves, Ends
<1>8. ASSUME NEW i, ToolStops(l, i)
      PROVE  i \in Nat /\ ToolMoves(l, i, "stopped")
  BY <1>1, <1>2, <1>4, <1>8 DEF ToolStops, ToolMoves
<1>9. CASE ToolStep(l)
  <2>1. PICK i \in 1..MaxBatch :
          ToolReturns(l, i) \/ ToolRaises(l, i) \/ ToolSuspends(l, i) \/ ToolStops(l, i)
    BY <1>9 DEF ToolStep
  <2>2. "stopped" \in Tool
    BY DEF Tool
  <2> QED
    BY <2>1, <2>2, <1>6, <1>7, <1>8
<1> QED
  BY <1>5, <1>9

LEMMA ShapeInitially == LoopInit => Shape
<1> SUFFICES ASSUME LoopInit PROVE Shape
  OBVIOUS
<1>1. /\ StepLimit \in Nat \ {0} /\ <<>> \in Seq(Tool) /\ Len(<<>>) = 0 /\ MaxBatch \in Nat
      /\ DOMAIN <<>> = {}
  BY LoopNumbers
<1>2. LoopTypeOK
  <2>1. batch \in [Loops -> Seq(Tool)]
    BY <1>1 DEF LoopInit
  <2>2. steps \in [Loops -> 0..StepLimit]
    BY <1>1 DEF LoopInit
  <2>3. ledger \in [steps : Nat, calls : Nat, errors : Nat, tokens : Nat]
    BY DEF LoopInit
  <2> QED
    BY <2>1, <2>2, <2>3 DEF LoopInit, LoopTypeOK, Ends
<1>3. Small
  BY <1>1 DEF LoopInit, Small
<1>4. Clean
  BY <1>1 DEF LoopInit, Clean
<1>5. Stepping /\ Sound
  BY <1>1 DEF LoopInit, Stepping, Sound
<1> QED
  BY <1>2, <1>3, <1>4, <1>5 DEF Shape

\* The tools that a response asks for.
LEMMA FreshBatch ==
  ASSUME NEW n \in 0..MaxBatch
  PROVE  /\ [i \in 1..n |-> "todo"] \in Seq(Tool)
         /\ Len([i \in 1..n |-> "todo"]) = n
         /\ DOMAIN [i \in 1..n |-> "todo"] = 1..n
         /\ \A i \in 1..n : [j \in 1..n |-> "todo"][i] = "todo"
<1>1. n \in Nat
  BY LoopNumbers
<1> QED
  BY <1>1 DEF Tool

\* A loop moves on, and its batch with it or not.
LEMMA MoveShape ==
  ASSUME Shape, NEW l \in Loops,
         NEW to \in {"step", "waiting", "tools", "joining", "over"}, at' = [at EXCEPT ![l] = to],
         to \in {"step", "waiting"} =>
           why[l] = "none" /\ \A i \in DOMAIN batch[l] : batch[l][i] \in {"ok", "error"},
         why' \in {why, [why EXCEPT ![l] = why'[l]]}, why'[l] \in Ends,
         to \in {"step", "waiting"} => UNCHANGED why,
         steps' \in [Loops -> 0..StepLimit], \A m \in Loops \ {l} : steps'[m] = steps[m],
         to = "step" => steps'[l] < StepLimit,
         NEW new \in Seq(Tool), Len(new) <= MaxBatch, batch' = [batch EXCEPT ![l] = new],
         to \in {"step", "waiting"} => new = batch[l],
         gated' \in [Loops -> SUBSET (1..MaxBatch)],
         ledger' \in [steps : Nat, calls : Nat, errors : Nat, tokens : Nat],
         to = "tools" => \A i \in DOMAIN new : new[i] # "stopped",
         asked' \in Nat, UNCHANGED starts
  PROVE  Shape'
<1> USE DEF Shape
<1>1. LoopTypeOK'
  BY DEF LoopTypeOK
<1>2. Small'
  BY DEF LoopTypeOK, Small
<1>3. Clean'
  BY DEF LoopTypeOK, Clean
<1>4. Stepping'
  BY DEF LoopTypeOK, Stepping
<1>5. Sound'
  BY DEF LoopTypeOK, Sound
<1> QED
  BY <1>1, <1>2, <1>3, <1>4, <1>5

\* A loop moves on and keeps its batch.
LEMMA MoveOnShape ==
  ASSUME Shape, NEW l \in Loops,
         NEW to \in {"joining", "over"}, at' = [at EXCEPT ![l] = to],
         why' \in {why, [why EXCEPT ![l] = why'[l]]}, why'[l] \in Ends,
         UNCHANGED <<steps, asked, batch, gated, starts>>,
         ledger' \in [steps : Nat, calls : Nat, errors : Nat, tokens : Nat]
  PROVE  Shape'
<1>1. /\ batch[l] \in Seq(Tool) /\ Len(batch[l]) <= MaxBatch
      /\ batch' = [batch EXCEPT ![l] = batch[l]]
      /\ steps' \in [Loops -> 0..StepLimit] /\ asked' \in Nat
      /\ gated' \in [Loops -> SUBSET (1..MaxBatch)]
  BY DEF Shape, LoopTypeOK, Small
<1> QED
  BY <1>1, MoveShape

LEMMA ShapeStep ==
  ASSUME Shape, LoopsStep
  PROVE  Shape'
<1>1. /\ LoopTypeOK /\ Small /\ Clean /\ Stepping /\ Sound
      /\ ledger \in [steps : Nat, calls : Nat, errors : Nat, tokens : Nat]
      /\ steps \in [Loops -> 0..StepLimit] /\ asked \in Nat /\ asked + 1 \in Nat
      /\ gated \in [Loops -> SUBSET (1..MaxBatch)]
      /\ \A l \in Loops : /\ batch[l] \in Seq(Tool) /\ Len(batch[l]) <= MaxBatch
                           /\ batch = [batch EXCEPT ![l] = batch[l]]
                           /\ why[l] \in Ends
  BY DEF Shape, LoopTypeOK, Small
<1>2. ASSUME NEW l \in Loops, NEW end \in Ends, End(l, end)
      PROVE  /\ at' = [at EXCEPT ![l] = "over"]
             /\ why' \in {why, [why EXCEPT ![l] = why'[l]]} /\ why'[l] \in Ends
  BY <1>1, <1>2 DEF End, LoopTypeOK
<1>3. ASSUME NEW l \in Loops, Begin(l)
      PROVE  Shape'
  <2>1. steps[l] < StepLimit
    BY <1>1, <1>3, LoopNumbers DEF Begin, Stepping
  <2> QED
    BY <1>1, <1>3, <2>1, MoveShape DEF Begin, Clean
<1>4. ASSUME NEW l \in Loops, Step(l)
      PROVE  Shape'
  <2>1. [ledger EXCEPT !.steps = @ + 1] \in [steps : Nat, calls : Nat, errors : Nat, tokens : Nat]
    BY Ledgers
  <2>2. ledger' \in [steps : Nat, calls : Nat, errors : Nat, tokens : Nat]
    BY <1>1, <1>4, <2>1 DEF Step
  <2>3. CASE End(l, "tripped") /\ UNCHANGED <<steps, asked>>
    <3>1. at' = [at EXCEPT ![l] = "over"] /\ why' \in {why, [why EXCEPT ![l] = why'[l]]}
          /\ why'[l] \in Ends
      BY <1>2, <2>3 DEF Ends
    <3> QED
      BY <1>4, <2>2, <2>3, <3>1, MoveOnShape DEF Step
  <2>4. CASE /\ at' = [at EXCEPT ![l] = "waiting"] /\ steps' = [steps EXCEPT ![l] = @ + 1]
             /\ asked' = asked + 1 /\ UNCHANGED why
    <3>1. steps[l] + 1 \in 0..StepLimit
      BY <1>1, <1>4, LoopNumbers DEF Step, Stepping
    <3>2. steps' \in [Loops -> 0..StepLimit] /\ \A m \in Loops \ {l} : steps'[m] = steps[m]
      BY <1>1, <2>4, <3>1
    <3>3. why[l] = "none" /\ \A i \in DOMAIN batch[l] : batch[l][i] \in {"ok", "error"}
      BY <1>1, <1>4 DEF Step, Clean
    <3> QED
      BY <1>1, <1>4, <2>2, <2>4, <3>2, <3>3, MoveShape DEF Step
  <2> QED
    BY <1>4, <2>3, <2>4 DEF Step
<1>5. ASSUME NEW l \in Loops, Response(l)
      PROVE  Shape'
  <2>1. PICK used \in 0..MaxUsage, n \in 0..MaxBatch :
          /\ ledger' = [ledger EXCEPT !.tokens = @ + used, !.calls = @ + n]
          /\ IF Exceeds(ledger') \/ n = 0
             THEN /\ End(l, IF Exceeds(ledger') THEN "tripped" ELSE "text")
                  /\ UNCHANGED <<batch, gated>>
             ELSE /\ at' = [at EXCEPT ![l] = "tools"]
                  /\ batch' = [batch EXCEPT ![l] = [i \in 1..n |-> "todo"]]
                  /\ \E g \in SUBSET (1..n) : gated' = [gated EXCEPT ![l] = g]
                  /\ UNCHANGED why
    BY <1>5 DEF Response
  <2>2. used \in Nat /\ n \in Nat /\ n <= MaxBatch
    BY LoopNumbers
  <2>3. ledger' \in [steps : Nat, calls : Nat, errors : Nat, tokens : Nat]
    BY <2>1, <2>2, Ledgers
  <2>4. CASE Exceeds(ledger') \/ n = 0
    <3>1. PICK end \in Ends : End(l, end)
      BY <2>1, <2>4 DEF Ends
    <3>2. at' = [at EXCEPT ![l] = "over"] /\ why' \in {why, [why EXCEPT ![l] = why'[l]]}
          /\ why'[l] \in Ends
      BY <1>2, <3>1
    <3> QED
      BY <1>5, <2>1, <2>3, <2>4, <3>2, MoveOnShape DEF Response
  <2>5. CASE ~(Exceeds(ledger') \/ n = 0)
    <3> DEFINE new == [i \in 1..n |-> "todo"]
    <3>1. new \in Seq(Tool) /\ Len(new) <= MaxBatch /\ \A i \in DOMAIN new : new[i] # "stopped"
      BY <2>2, FreshBatch
    <3>2. batch' = [batch EXCEPT ![l] = new]
      BY <2>1, <2>5
    <3> HIDE DEF new
    <3>3. gated' \in [Loops -> SUBSET (1..MaxBatch)]
      <4>1. PICK g \in SUBSET (1..n) : gated' = [gated EXCEPT ![l] = g]
        BY <2>1, <2>5
      <4>2. g \in SUBSET (1..MaxBatch)
        BY <2>2, LoopNumbers
      <4> QED
        BY <1>1, <4>1, <4>2
    <3>4. at' = [at EXCEPT ![l] = "tools"] /\ UNCHANGED why
      BY <2>1, <2>5
    <3> QED
      BY <1>1, <1>5, <2>3, <3>1, <3>2, <3>3, <3>4, MoveShape DEF Response
  <2> QED
    BY <2>4, <2>5
<1>6. ASSUME NEW l \in Loops, CallFailed(l)
      PROVE  Shape'
  BY <1>1, <1>2, <1>6, MoveOnShape DEF CallFailed, Ends
<1>7. ASSUME NEW l \in Loops, StartTool(l) \/ ToolStep(l)
      PROVE  Shape'
  BY <1>7, ToolsMove, ToolShape
<1>8. ASSUME NEW l \in Loops, Cancel(l) \/ Join(l)
      PROVE  Shape'
  BY <1>1, <1>8, MoveOnShape DEF Cancel, Join
<1>9. ASSUME NEW l \in Loops, EndBatch(l)
      PROVE  Shape'
  <2>1. CASE \E end \in {"failed", "text"} : End(l, end)
    <3>1. PICK end \in Ends : End(l, end)
      BY <2>1 DEF Ends
    <3> QED
      BY <1>1, <1>2, <1>9, <3>1, MoveOnShape DEF EndBatch
  <2>2. CASE steps[l] # StepLimit /\ at' = [at EXCEPT ![l] = "step"] /\ UNCHANGED why
    <3>1. steps[l] < StepLimit
      BY <1>1, <2>2, LoopNumbers
    <3>2. why[l] = "none"
      BY <1>9 DEF EndBatch
    <3>3. \A i \in DOMAIN batch[l] : batch[l][i] \in {"ok", "error"}
      BY <1>1, <1>9, <3>2 DEF EndBatch, Todo, Running, Tool, Shape, Sound
    <3> QED
      BY <1>1, <1>9, <2>2, <3>1, <3>2, <3>3, MoveShape DEF EndBatch
  <2> QED
    BY <1>9, <2>1, <2>2 DEF EndBatch
<1>10. ASSUME NEW l \in Loops, Interrupt(l)
       PROVE  Shape'
  <2>1. CASE End(l, "cut")
    <3>1. at' = [at EXCEPT ![l] = "over"] /\ why' \in {why, [why EXCEPT ![l] = why'[l]]}
          /\ why'[l] \in Ends
      BY <1>2, <2>1 DEF Ends
    <3> QED
      BY <1>1, <1>10, <3>1, MoveOnShape DEF Interrupt
  <2>2. CASE at' = [at EXCEPT ![l] = "joining"] /\ why' = [why EXCEPT ![l] = "cut"]
    <3>1. why' \in {why, [why EXCEPT ![l] = why'[l]]} /\ why'[l] \in Ends
      BY <1>1, <2>2 DEF LoopTypeOK, Ends
    <3> QED
      BY <1>1, <1>10, <2>2, <3>1, MoveOnShape DEF Interrupt
  <2> QED
    BY <1>10, <2>1, <2>2 DEF Interrupt
<1>11. CASE UNCHANGED loops
  BY <1>1, <1>11 DEF loops, Shape, LoopTypeOK, Small, Clean, Stepping, Sound
<1> QED
  BY <1>3, <1>4, <1>5, <1>6, <1>7, <1>8, <1>9, <1>10, <1>11 DEF LoopsStep, LoopStep

-----------------------------------------------------------------------------
(* The budget *)

Counters == [steps : Nat, calls : Nat, errors : Nat, tokens : Nat]

\* Nothing is ever taken back from the ledger.
Grows ==
  /\ ledger.steps <= ledger'.steps /\ ledger.calls <= ledger'.calls
  /\ ledger.errors <= ledger'.errors /\ ledger.tokens <= ledger'.tokens

LEMMA LedgerGrows ==
  ASSUME Shape, LoopsStep
  PROVE  ledger \in Counters /\ ledger' \in Counters /\ Grows
<1>1. ledger \in Counters /\ ledger' \in Counters
  BY ShapeStep DEF Shape, LoopTypeOK, Counters
<1>2. CASE UNCHANGED ledger
  BY <1>1, <1>2 DEF Grows, Counters
<1>3. ASSUME NEW n \in Nat, ledger' = [ledger EXCEPT !.steps = @ + n]
      PROVE  Grows
  BY <1>1, <1>3 DEF Grows, Counters
<1>4. ASSUME NEW n \in Nat, ledger' = [ledger EXCEPT !.errors = @ + n]
      PROVE  Grows
  BY <1>1, <1>4 DEF Grows, Counters
<1>5. ASSUME NEW n \in Nat, NEW m \in Nat, ledger' = [ledger EXCEPT !.tokens = @ + n, !.calls = @ + m]
      PROVE  Grows
  BY <1>1, <1>5 DEF Grows, Counters
<1>6. ASSUME NEW l \in Loops, Step(l)
      PROVE  Grows
  BY <1>2, <1>3, <1>6 DEF Step
<1>7. ASSUME NEW l \in Loops, Response(l)
      PROVE  Grows
  <2>1. PICK used \in 0..MaxUsage, n \in 0..MaxBatch :
          ledger' = [ledger EXCEPT !.tokens = @ + used, !.calls = @ + n]
    BY <1>7 DEF Response
  <2>2. used \in Nat /\ n \in Nat
    BY LoopNumbers
  <2> QED
    BY <1>5, <2>1, <2>2
<1>8. ASSUME NEW l \in Loops, NEW i, ToolReturns(l, i)
      PROVE  Grows
  BY <1>4, <1>8 DEF ToolReturns
<1>9. ASSUME NEW l \in Loops,
             \/ Begin(l) \/ CallFailed(l) \/ StartTool(l) \/ Cancel(l) \/ Join(l)
             \/ EndBatch(l) \/ Interrupt(l)
      PROVE  Grows
  BY <1>2, <1>9 DEF Begin, CallFailed, StartTool, Cancel, Join, EndBatch, Interrupt
<1>10. ASSUME NEW l \in Loops, NEW i, ToolRaises(l, i) \/ ToolSuspends(l, i) \/ ToolStops(l, i)
       PROVE  Grows
  BY <1>2, <1>10 DEF ToolRaises, ToolSuspends, ToolStops
<1>11. CASE UNCHANGED loops
  BY <1>2, <1>11 DEF loops
<1> QED
  BY <1>1, <1>6, <1>7, <1>8, <1>9, <1>10, <1>11 DEF LoopsStep, LoopStep, ToolStep

\* A ledger that refuses goes on refusing.
LEMMA RefusesForEver ==
  ASSUME Shape, LoopsStep
  PROVE  /\ Exceeds(ledger) => Exceeds(ledger')
         /\ Refuses(ledger) => Refuses(ledger')
         /\ Exceeds(ledger') => Refuses(ledger')
<1>1. ledger \in Counters /\ ledger' \in Counters /\ Grows
  BY LedgerGrows
<1> QED
  BY <1>1, LoopNumbers DEF Refuses, Exceeds, Grows, Counters

\* A loop has tripped only on a ledger that refuses.
Refused == (\E l \in Loops : why[l] = "tripped") => Refuses(ledger)

LEMMA RefusedStep ==
  ASSUME Shape, Refused, LoopsStep
  PROVE  Refused'
<1>1. \/ UNCHANGED why
      \/ \E l \in Loops, end \in Ends : why' = [why EXCEPT ![l] = end] /\ end # "tripped"
      \/ Refuses(ledger')
  <2>0. why \in [Loops -> Ends]
    BY DEF Shape, LoopTypeOK
  <2>1. ASSUME NEW l \in Loops, Step(l)
        PROVE  UNCHANGED why \/ Refuses(ledger')
    BY <2>1, RefusesForEver DEF Step
  <2>2. ASSUME NEW l \in Loops, Response(l)
        PROVE  \/ UNCHANGED why \/ Refuses(ledger')
               \/ why' = [why EXCEPT ![l] = "text"]
    BY <2>2, RefusesForEver DEF Response, End
  <2>3. ASSUME NEW l \in Loops, StartTool(l)
        PROVE  UNCHANGED why \/ Refuses(ledger')
    BY <2>3, RefusesForEver DEF StartTool
  <2>4. ASSUME NEW l \in Loops, NEW i, ToolReturns(l, i)
        PROVE  \/ UNCHANGED why \/ Refuses(ledger')
               \/ why' = [why EXCEPT ![l] = IF @ = "none" THEN "failed" ELSE @]
    BY <2>4, RefusesForEver DEF ToolReturns, Raise
  <2>5. ASSUME NEW l \in Loops, NEW i, ToolRaises(l, i) \/ ToolSuspends(l, i) \/ ToolStops(l, i)
        PROVE  \/ UNCHANGED why
               \/ why' = [why EXCEPT ![l] = IF @ = "none" THEN "failed" ELSE @]
               \/ why' = [why EXCEPT ![l] = IF @ = "none" THEN "suspended" ELSE @]
    BY <2>5 DEF ToolRaises, ToolSuspends, ToolStops, Raise
  <2>6. ASSUME NEW l \in Loops,
               Begin(l) \/ CallFailed(l) \/ Cancel(l) \/ Join(l) \/ EndBatch(l) \/ Interrupt(l)
        PROVE  \/ UNCHANGED why \/ why' = [why EXCEPT ![l] = "failed"]
               \/ why' = [why EXCEPT ![l] = "text"] \/ why' = [why EXCEPT ![l] = "cut"]
    BY <2>6 DEF Begin, CallFailed, Cancel, Join, EndBatch, Interrupt, End
  <2>7. ASSUME NEW l \in Loops, NEW end \in {"failed", "suspended"},
               why' = [why EXCEPT ![l] = IF @ = "none" THEN end ELSE @]
        PROVE  UNCHANGED why \/ why' = [why EXCEPT ![l] = end]
    BY <2>0, <2>7
  <2>8. {"text", "failed", "suspended", "cut"} \subseteq Ends \ {"tripped"}
    BY DEF Ends
  <2>9. ASSUME NEW l \in Loops, Begin(l) \/ LoopStep(l)
        PROVE  \/ UNCHANGED why
               \/ \E end \in {"text", "failed", "suspended", "cut"} : why' = [why EXCEPT ![l] = end]
               \/ Refuses(ledger')
    BY <2>1, <2>2, <2>3, <2>4, <2>5, <2>6, <2>7, <2>9 DEF LoopStep, ToolStep
  <2> QED
    BY <2>8, <2>9 DEF LoopsStep, loops
<1>2. Refuses(ledger) => Refuses(ledger')
  BY RefusesForEver
<1>3. why \in [Loops -> Ends]
  BY DEF Shape, LoopTypeOK
<1> QED
  BY <1>1, <1>2, <1>3 DEF Refused

\* Calls are asked for, and tools started, on a ledger that does not refuse.
LEMMA RefusedStops ==
  ASSUME LoopsStep, Refuses(ledger)
  PROVE  asked' = asked /\ starts' = starts
BY DEF LoopsStep, Begin, LoopStep, Step, Response, CallFailed, StartTool, ToolStep, ToolReturns,
       ToolRaises, ToolSuspends, ToolStops, Cancel, Join, EndBatch, Interrupt, loops

\* The steps of the ledger are the calls asked for, and one that was refused.
AskedOnLedger == asked <= ledger.steps /\ asked <= MaxSteps

LEMMA AskedStep ==
  ASSUME Shape, AskedOnLedger, LoopsStep
  PROVE  AskedOnLedger'
<1>1. ledger \in Counters /\ ledger' \in Counters /\ Grows /\ asked \in Nat
  BY LedgerGrows DEF Shape, LoopTypeOK
<1>2. CASE UNCHANGED asked
  BY <1>1, <1>2, LoopNumbers DEF AskedOnLedger, Grows, Counters
<1>3. ASSUME NEW l \in Loops, Step(l), ~UNCHANGED asked
      PROVE  AskedOnLedger'
  <2>1. asked' = asked + 1 /\ ledger' = [ledger EXCEPT !.steps = @ + 1] /\ ~Exceeds(ledger')
    BY <1>3 DEF Step
  <2>2. ledger'.steps = ledger.steps + 1
    BY <1>1, <2>1 DEF Counters
  <2>3. ledger'.steps <= MaxSteps
    BY <1>1, <2>1, LoopNumbers DEF Exceeds, Counters
  <2> QED
    BY <1>1, <2>1, <2>2, <2>3, LoopNumbers DEF AskedOnLedger, Counters
<1>4. UNCHANGED asked \/ \E l \in Loops : Step(l)
  BY DEF LoopsStep, Begin, LoopStep, Response, CallFailed, StartTool, ToolStep, ToolReturns,
         ToolRaises, ToolSuspends, ToolStops, Cancel, Join, EndBatch, Interrupt, loops
<1> QED
  BY <1>2, <1>3, <1>4

\* The tokens used, and those that calls in flight may still use.
TokensHeld ==
  ledger.tokens > 0 \/ InFlight # {} =>
    ledger.tokens + Cardinality(InFlight) * MaxUsage < MaxTokens + Cardinality(Loops) * MaxUsage

LEMMA Times ==
  ASSUME NEW a \in Nat, NEW b \in Nat, a <= b, NEW u \in Nat
  PROVE  a * u <= b * u /\ a * u \in Nat /\ b * u \in Nat
<1>1. PICK d \in Nat : b = a + d
  <2>1. b - a \in Nat /\ b = a + (b - a)
    OBVIOUS
  <2> QED
    BY <2>1
<1>2. b * u = a * u + d * u
  BY <1>1
<1>3. a * u \in Nat /\ d * u \in Nat
  OBVIOUS
<1> QED
  BY <1>2, <1>3

LEMMA Flying ==
  /\ IsFiniteSet(InFlight) /\ Cardinality(InFlight) \in Nat
  /\ Cardinality(Loops) \in Nat /\ Cardinality(InFlight) <= Cardinality(Loops)
<1>1. InFlight \in SUBSET Loops /\ IsFiniteSet(Loops)
  BY LoopAssumption DEF InFlight
<1> QED
  BY <1>1, FS_Subset, FS_CardinalityType

LEMMA FlyingNext ==
  /\ IsFiniteSet(InFlight') /\ Cardinality(InFlight') \in Nat
  /\ Cardinality(InFlight') <= Cardinality(Loops)
<1>1. InFlight' \in SUBSET Loops /\ IsFiniteSet(Loops)
  BY LoopAssumption DEF InFlight
<1> QED
  BY <1>1, FS_Subset, FS_CardinalityType

\* A step that neither dispatches a call nor takes its answer.
LEMMA NoCall ==
  ASSUME Shape, LoopsStep
  PROVE  \/ \E l \in Loops : Response(l)
         \/ ledger.tokens < MaxTokens /\ ledger'.tokens = ledger.tokens
         \/ ledger'.tokens = ledger.tokens /\ InFlight' \subseteq InFlight
<1>1. ledger \in Counters /\ at \in [Loops -> {"idle", "step", "waiting", "tools", "joining", "over"}]
      /\ MaxTokens \in Nat
  BY LoopNumbers DEF Shape, LoopTypeOK, Counters
<1>2. ASSUME NEW l \in Loops, Step(l)
      PROVE  \/ ledger.tokens < MaxTokens /\ ledger'.tokens = ledger.tokens
             \/ ledger'.tokens = ledger.tokens /\ InFlight' \subseteq InFlight
  <2>1. CASE Refuses(ledger)
    BY <1>1, <1>2, <2>1 DEF Step, End, InFlight
  <2>2. CASE ~Refuses(ledger)
    <3>1. ledger' = [ledger EXCEPT !.steps = @ + 1]
      BY <1>2, <2>2 DEF Step
    <3> QED
      BY <1>1, <2>2, <3>1 DEF Refuses, Counters
  <2> QED
    BY <2>1, <2>2
<1>3. ASSUME NEW l \in Loops, ToolStep(l)
      PROVE  ledger'.tokens = ledger.tokens /\ InFlight' \subseteq InFlight
  <2>1. UNCHANGED at
    BY <1>3 DEF ToolStep, ToolReturns, ToolRaises, ToolSuspends, ToolStops
  <2>2. UNCHANGED ledger \/ \E n \in Nat : ledger' = [ledger EXCEPT !.errors = @ + n]
    BY <1>3 DEF ToolStep, ToolReturns, ToolRaises, ToolSuspends, ToolStops
  <2> QED
    BY <1>1, <2>1, <2>2 DEF Counters, InFlight
<1>4. ASSUME NEW l \in Loops,
             \/ Begin(l) \/ CallFailed(l) \/ StartTool(l) \/ Cancel(l) \/ Join(l)
             \/ EndBatch(l) \/ Interrupt(l)
      PROVE  ledger'.tokens = ledger.tokens /\ InFlight' \subseteq InFlight
  BY <1>1, <1>4 DEF Begin, CallFailed, StartTool, Cancel, Join, EndBatch, Interrupt, End, InFlight
<1>5. CASE UNCHANGED loops
  BY <1>5 DEF loops, InFlight
<1> QED
  BY <1>2, <1>3, <1>4, <1>5 DEF LoopsStep, LoopStep

LEMMA TokensStep ==
  ASSUME Shape, TokensHeld, LoopsStep
  PROVE  TokensHeld'
<1> DEFINE n == Cardinality(InFlight)
           m == Cardinality(InFlight')
           all == Cardinality(Loops)
<1>1. /\ ledger.tokens \in Nat /\ ledger'.tokens \in Nat /\ MaxUsage \in Nat /\ MaxTokens \in Nat
      /\ n \in Nat /\ m \in Nat /\ all \in Nat /\ m <= all
  BY LedgerGrows, LoopNumbers, Flying, FlyingNext DEF Counters
<1>2. m * MaxUsage <= all * MaxUsage /\ m * MaxUsage \in Nat /\ all * MaxUsage \in Nat
      /\ n * MaxUsage \in Nat
  BY <1>1, Times
<1>3. CASE ledger.tokens < MaxTokens /\ ledger'.tokens = ledger.tokens
  BY <1>1, <1>2, <1>3 DEF TokensHeld
<1>4. CASE ledger'.tokens = ledger.tokens /\ InFlight' \subseteq InFlight
  <2>1. m <= n
    BY <1>4, Flying, FS_Subset
  <2>2. m * MaxUsage <= n * MaxUsage
    BY <1>1, <2>1, Times
  <2>3. ledger'.tokens > 0 \/ InFlight' # {} =>
          ledger.tokens + n * MaxUsage < MaxTokens + all * MaxUsage
    BY <1>4 DEF TokensHeld
  <2> QED
    BY <1>1, <1>2, <1>4, <2>2, <2>3 DEF TokensHeld
<1>5. ASSUME NEW l \in Loops, Response(l)
      PROVE  TokensHeld'
  <2>1. PICK used \in 0..MaxUsage, k \in 0..MaxBatch :
          ledger' = [ledger EXCEPT !.tokens = @ + used, !.calls = @ + k]
    BY <1>5 DEF Response
  <2>2. ledger'.tokens = ledger.tokens + used /\ used \in Nat /\ used <= MaxUsage
    BY <2>1, LoopNumbers DEF Shape, LoopTypeOK
  <2>3. l \in InFlight /\ InFlight' = InFlight \ {l}
    <3>1. at \in [Loops -> {"idle", "step", "waiting", "tools", "joining", "over"}]
      BY DEF Shape, LoopTypeOK
    <3> QED
      BY <1>5, <3>1 DEF Response, End, InFlight
  <2>4. m = n - 1
    BY <2>3, Flying, FS_RemoveElement
  <2>5. n * MaxUsage = m * MaxUsage + MaxUsage
    BY <1>1, <2>4
  <2>6. ledger.tokens + n * MaxUsage < MaxTokens + all * MaxUsage
    BY <2>3 DEF TokensHeld
  <2> QED
    BY <1>1, <1>2, <2>2, <2>5, <2>6 DEF TokensHeld
<1> QED
  BY <1>3, <1>4, <1>5, NoCall

-----------------------------------------------------------------------------
(* Tools that are executed *)

\* The tools that the ledger counts and that have not started.
AllTodo == {p \in Loops \X (1..MaxBatch) : p[2] \in Todo(p[1])}

StartsHeld ==
  /\ starts + Cardinality(AllTodo) <= ledger.calls
  /\ starts <= MaxToolCalls

LEMMA TodoFinite ==
  /\ IsFiniteSet(AllTodo) /\ Cardinality(AllTodo) \in Nat
  /\ IsFiniteSet(AllTodo') /\ Cardinality(AllTodo') \in Nat
<1>1. IsFiniteSet(Loops) /\ IsFiniteSet(1..MaxBatch)
  BY LoopAssumption, LoopNumbers, FS_Interval
<1>2. IsFiniteSet(Loops \X (1..MaxBatch))
  BY <1>1, FS_Product
<1>3. AllTodo \in SUBSET (Loops \X (1..MaxBatch)) /\ AllTodo' \in SUBSET (Loops \X (1..MaxBatch))
  BY DEF AllTodo
<1> QED
  BY <1>2, <1>3, FS_Subset, FS_CardinalityType

LEMMA TodoRange ==
  ASSUME Shape, NEW l \in Loops
  PROVE  Todo(l) \subseteq 1..MaxBatch
<1>1. batch[l] \in Seq(Tool) /\ Len(batch[l]) <= MaxBatch /\ MaxBatch \in Nat
  BY LoopNumbers DEF Shape, LoopTypeOK, Small
<1> QED
  BY <1>1 DEF Todo

LEMMA StartsStep ==
  ASSUME Shape, StartsHeld, LoopsStep
  PROVE  StartsHeld'
<1>1. /\ ledger \in Counters /\ ledger' \in Counters /\ Grows /\ starts \in Nat
      /\ MaxToolCalls \in Nat
      /\ Cardinality(AllTodo) \in Nat /\ Cardinality(AllTodo') \in Nat
      /\ batch \in [Loops -> Seq(Tool)]
  BY LedgerGrows, TodoFinite, LoopNumbers DEF Shape, LoopTypeOK
<1>2. ASSUME UNCHANGED starts, AllTodo' \subseteq AllTodo
      PROVE  StartsHeld'
  <2>1. Cardinality(AllTodo') <= Cardinality(AllTodo)
    BY <1>2, TodoFinite, FS_Subset
  <2> QED
    BY <1>1, <1>2, <2>1 DEF StartsHeld, Grows, Counters
<1>3. UNCHANGED batch => AllTodo' = AllTodo
  BY DEF AllTodo, Todo
<1>4. ASSUME NEW l \in Loops, NEW i \in DOMAIN batch[l], NEW x \in Tool \ {"todo"},
             batch' = [batch EXCEPT ![l][i] = x]
      PROVE  AllTodo' = AllTodo \ {<<l, i>>}
  <2>1. /\ batch'[l][i] = x /\ DOMAIN batch'[l] = DOMAIN batch[l]
        /\ \A j \in DOMAIN batch[l] \ {i} : batch'[l][j] = batch[l][j]
        /\ \A k \in Loops \ {l} : batch'[k] = batch[k]
    BY <1>4, Marked
  <2>2. Todo(l)' = Todo(l) \ {i} /\ \A k \in Loops \ {l} : Todo(k)' = Todo(k)
    BY <2>1 DEF Todo
  <2>3. ASSUME NEW k \in Loops, NEW j \in 1..MaxBatch
        PROVE  <<k, j>> \in AllTodo' <=> <<k, j>> \in AllTodo \ {<<l, i>>}
    BY <2>2 DEF AllTodo
  <2>4. AllTodo' \subseteq Loops \X (1..MaxBatch) /\ AllTodo \subseteq Loops \X (1..MaxBatch)
    BY DEF AllTodo
  <2> QED
    BY <2>3, <2>4
<1>5. ASSUME NEW l \in Loops, StartTool(l)
      PROVE  StartsHeld'
  <2>1. PICK i \in Todo(l) :
          IF Refuses(ledger)
          THEN batch' = [batch EXCEPT ![l][i] = "stopped"] /\ UNCHANGED starts
          ELSE batch' = [batch EXCEPT ![l][i] = "running"] /\ starts' = starts + 1
    BY <1>5 DEF StartTool
  <2>2. i \in DOMAIN batch[l] /\ i \in 1..MaxBatch
    BY TodoRange DEF Todo
  <2>3. AllTodo' = AllTodo \ {<<l, i>>}
    BY <1>4, <2>1, <2>2 DEF Tool
  <2>4. CASE Refuses(ledger)
    BY <1>2, <2>1, <2>3, <2>4
  <2>5. CASE ~Refuses(ledger)
    <3>1. <<l, i>> \in AllTodo
      BY <2>2 DEF AllTodo
    <3>2. Cardinality(AllTodo') = Cardinality(AllTodo) - 1
      BY <2>3, <3>1, TodoFinite, FS_RemoveElement
    <3>3. ledger.calls <= MaxToolCalls
      BY <1>1, <2>5 DEF Refuses, Exceeds, Counters
    <3> QED
      BY <1>1, <2>1, <2>5, <3>2, <3>3 DEF StartsHeld, Grows, Counters
  <2> QED
    BY <2>4, <2>5
<1>6. ASSUME NEW l \in Loops, ToolStep(l)
      PROVE  StartsHeld'
  <2>1. PICK i \in 1..MaxBatch :
          ToolReturns(l, i) \/ ToolRaises(l, i) \/ ToolSuspends(l, i) \/ ToolStops(l, i)
    BY <1>6 DEF ToolStep
  <2>2. i \in DOMAIN batch[l] /\ UNCHANGED starts
    BY <2>1 DEF ToolReturns, ToolRaises, ToolSuspends, ToolStops, Running
  <2>3. PICK x \in Tool \ {"todo"} : batch' = [batch EXCEPT ![l][i] = x]
    <3>1. {"ok", "error", "stopped"} \subseteq Tool \ {"todo"}
      BY DEF Tool
    <3> QED
      <4>1. CASE ToolReturns(l, i)
        <5>1. PICK r \in {"ok", "error"} :
                IF Exceeds(ledger') THEN batch' = [batch EXCEPT ![l][i] = "stopped"]
                ELSE batch' = [batch EXCEPT ![l][i] = r]
          BY <4>1 DEF ToolReturns
        <5> QED
          BY <3>1, <5>1
      <4>2. CASE ToolRaises(l, i) \/ ToolSuspends(l, i) \/ ToolStops(l, i)
        BY <3>1, <4>2 DEF ToolRaises, ToolSuspends, ToolStops
      <4> QED
        BY <2>1, <4>1, <4>2
  <2> QED
    BY <1>2, <1>4, <2>2, <2>3
<1>7. ASSUME NEW l \in Loops, Response(l)
      PROVE  StartsHeld'
  <2>1. PICK used \in 0..MaxUsage, n \in 0..MaxBatch :
          /\ ledger' = [ledger EXCEPT !.tokens = @ + used, !.calls = @ + n]
          /\ UNCHANGED batch \/ batch' = [batch EXCEPT ![l] = [i \in 1..n |-> "todo"]]
    BY <1>7 DEF Response
  <2>2. UNCHANGED starts
    BY <1>7 DEF Response
  <2>3. CASE UNCHANGED batch
    BY <1>2, <1>3, <2>2, <2>3
  <2>4. CASE batch' = [batch EXCEPT ![l] = [i \in 1..n |-> "todo"]]
    <3> DEFINE new == {l} \X (1..n)
    <3>1. n \in Nat /\ n <= MaxBatch /\ MaxBatch \in Nat
      BY LoopNumbers
    <3>2. batch'[l] = [i \in 1..n |-> "todo"] /\ \A k \in Loops \ {l} : batch'[k] = batch[k]
      BY <1>1, <2>4, Zenon
    <3>3. Todo(l)' \subseteq 1..n /\ \A k \in Loops \ {l} : Todo(k)' = Todo(k)
      BY <3>2 DEF Todo
    <3>4. AllTodo' \subseteq AllTodo \cup new
      BY <3>3 DEF AllTodo
    <3>5. IsFiniteSet(1..n) /\ Cardinality(1..n) = n
      BY <3>1, FS_Interval
    <3>6. IsFiniteSet(new) /\ Cardinality(new) = 1 * Cardinality(1..n)
      <4>1. IsFiniteSet({l}) /\ Cardinality({l}) = 1
        BY FS_Singleton, Zenon
      <4>2. /\ IsFiniteSet({l} \X (1..n))
            /\ Cardinality({l} \X (1..n)) = Cardinality({l}) * Cardinality(1..n)
        BY <3>5, <4>1, FS_Product
      <4> QED
        BY <4>1, <4>2
    <3> HIDE DEF new
    <3>7. /\ IsFiniteSet(AllTodo \cup new) /\ IsFiniteSet(AllTodo \cap new)
          /\ Cardinality(AllTodo \cup new)
               = Cardinality(AllTodo) + Cardinality(new) - Cardinality(AllTodo \cap new)
      BY <3>6, TodoFinite, FS_Union, FS_Subset
    <3>8. Cardinality(AllTodo \cap new) \in Nat
      BY <3>7, FS_CardinalityType
    <3>9. Cardinality(AllTodo') <= Cardinality(AllTodo \cup new)
      BY <3>4, <3>7, FS_Subset
    <3>10. Cardinality(AllTodo \cup new) \in Nat /\ Cardinality(new) = n
      BY <3>1, <3>5, <3>6, <3>7, FS_CardinalityType
    <3>11. ledger'.calls = ledger.calls + n
      BY <1>1, <2>1 DEF Counters
    <3>12. ledger.calls \in Nat
      BY <1>1 DEF Counters
    <3>13. starts + Cardinality(AllTodo) <= ledger.calls /\ starts <= MaxToolCalls
      BY DEF StartsHeld
    <3>14. Cardinality(AllTodo') <= Cardinality(AllTodo) + n
      BY <1>1, <3>1, <3>7, <3>8, <3>9, <3>10
    <3>15. starts' + Cardinality(AllTodo') <= ledger'.calls /\ starts' <= MaxToolCalls
      BY <1>1, <2>2, <3>1, <3>11, <3>12, <3>13, <3>14
    <3> QED
      BY <3>15 DEF StartsHeld
  <2> QED
    BY <2>1, <2>3, <2>4
<1>8. ASSUME NEW l \in Loops,
             \/ Begin(l) \/ Step(l) \/ CallFailed(l) \/ Cancel(l) \/ Join(l) \/ EndBatch(l)
             \/ Interrupt(l)
      PROVE  UNCHANGED <<batch, starts>>
  BY <1>8 DEF Begin, Step, CallFailed, Cancel, Join, EndBatch, Interrupt
<1>9. UNCHANGED loops => UNCHANGED <<batch, starts>>
  BY DEF loops
<1> QED
  BY <1>2, <1>3, <1>5, <1>6, <1>7, <1>8, <1>9 DEF LoopsStep, LoopStep

-----------------------------------------------------------------------------
(* Suspension *)

\* A batch with a tool that may suspend is executed in order.
InOrder ==
  \A l \in Loops : gated[l] # {} =>
    \A i, j \in DOMAIN batch[l] :
      i < j /\ batch[l][j] # "todo" => batch[l][i] \in {"ok", "error"}

\* A tool i of a batch that is executed in order runs.
Frontier(l, i) ==
  /\ \A j \in DOMAIN batch[l] : j < i => batch[l][j] \in {"ok", "error"}
  /\ \A j \in DOMAIN batch[l] : j > i => batch[l][j] = "todo"

LEMMA AtFrontier ==
  ASSUME Shape, InOrder, NEW l \in Loops, gated[l] # {}, NEW i \in Running(l)
  PROVE  Frontier(l, i) /\ i \in DOMAIN batch[l] /\ i \in Nat
<1>1. batch[l] \in Seq(Tool) /\ i \in DOMAIN batch[l] /\ i \in Nat /\ batch[l][i] = "running"
  BY DEF Shape, LoopTypeOK, Running
<1> QED
  BY <1>1 DEF InOrder, Frontier

\* The boundary of a loop that is suspended.
Bounded(l) ==
  \E i \in gated[l] \cap DOMAIN batch[l] :
    /\ batch[l][i] = "stopped"
    /\ \A j \in 1..i - 1 : batch[l][j] \in {"ok", "error"}
    /\ \A j \in i + 1..Len(batch[l]) : batch[l][j] = "todo"

\* A suspended batch is left as it is.
LEMMA SuspendedRests ==
  ASSUME Shape, NEW l \in Loops, why[l] = "suspended", Bounded(l), LoopsStep
  PROVE  UNCHANGED <<batch[l], gated[l]>>
<1>1. batch \in [Loops -> Seq(Tool)] /\ gated \in [Loops -> SUBSET (1..MaxBatch)]
  BY DEF Shape, LoopTypeOK
<1>2. Running(l) = {} /\ gated[l] # {}
  <2>1. PICK i \in gated[l] \cap DOMAIN batch[l] :
          /\ batch[l][i] = "stopped"
          /\ \A j \in 1..i - 1 : batch[l][j] \in {"ok", "error"}
          /\ \A j \in i + 1..Len(batch[l]) : batch[l][j] = "todo"
    BY DEF Bounded
  <2>2. ASSUME NEW j \in DOMAIN batch[l]
        PROVE  j \in 1..i - 1 \/ j = i \/ j \in i + 1..Len(batch[l])
    BY <1>1
  <2> QED
    BY <2>1, <2>2 DEF Running
<1>3. at[l] \notin {"idle", "step", "waiting"}
  BY DEF Shape, Clean
<1>4. ~StartTool(l) /\ ~ToolStep(l) /\ ~Response(l)
  BY <1>2, <1>3 DEF StartTool, Free, Sequential, ToolStep, ToolReturns, ToolRaises, ToolSuspends,
                    ToolStops, Response
<1>5. ASSUME NEW m \in Loops \ {l}, Response(m)
      PROVE  UNCHANGED <<batch[l], gated[l]>>
  BY <1>1, <1>5 DEF Response
<1>6. ASSUME NEW m \in Loops \ {l}, StartTool(m) \/ ToolStep(m)
      PROVE  UNCHANGED <<batch[l], gated[l]>>
  <2>1. PICK i \in Nat, x \in Tool : ToolMoves(m, i, x)
    BY <1>6, ToolsMove
  <2> QED
    BY <1>1, <2>1 DEF ToolMoves
<1>7. ASSUME NEW m \in Loops,
             \/ Begin(m) \/ Step(m) \/ CallFailed(m) \/ Cancel(m) \/ Join(m) \/ EndBatch(m)
             \/ Interrupt(m)
      PROVE  UNCHANGED <<batch, gated>>
  BY <1>7 DEF Begin, Step, CallFailed, Cancel, Join, EndBatch, Interrupt
<1>8. CASE UNCHANGED loops
  BY <1>8 DEF loops
<1> QED
  BY <1>4, <1>5, <1>6, <1>7, <1>8 DEF LoopsStep, LoopStep

\* A loop is suspended by one of its tools, which stops at the boundary.
LEMMA Suspending ==
  ASSUME Shape, InOrder, NEW l \in Loops, why[l] # "suspended", why'[l] = "suspended", LoopsStep
  PROVE  Bounded(l)'
<1>1. /\ batch \in [Loops -> Seq(Tool)] /\ batch[l] \in Seq(Tool)
      /\ gated \in [Loops -> SUBSET (1..MaxBatch)] /\ why \in [Loops -> Ends]
  BY DEF Shape, LoopTypeOK
<1>2. \E i \in 1..MaxBatch : ToolSuspends(l, i)
  <2>1. ASSUME NEW m \in Loops, NEW end \in Ends \ {"suspended"},
               \/ why' = [why EXCEPT ![m] = end]
               \/ why' = [why EXCEPT ![m] = IF @ = "none" THEN end ELSE @]
        PROVE  FALSE
    BY <1>1, <2>1
  <2>2. ~UNCHANGED why
    OBVIOUS
  <2>3. {"text", "tripped", "failed", "cut"} \subseteq Ends \ {"suspended"}
    BY DEF Ends
  <2>4. ASSUME NEW m \in Loops,
               \/ Begin(m) \/ Step(m) \/ Response(m) \/ CallFailed(m) \/ StartTool(m) \/ Cancel(m)
               \/ Join(m) \/ EndBatch(m) \/ Interrupt(m)
        PROVE  FALSE
    <3>1. CASE Begin(m) \/ Step(m) \/ CallFailed(m)
      BY <2>1, <2>2, <2>3, <3>1 DEF Begin, Step, CallFailed, End
    <3>2. CASE Response(m)
      BY <2>1, <2>2, <2>3, <3>2 DEF Response, End
    <3>3. CASE StartTool(m) \/ Cancel(m) \/ Join(m)
      BY <2>1, <2>2, <2>3, <3>3 DEF StartTool, Cancel, Join, Raise
    <3>4. CASE EndBatch(m) \/ Interrupt(m)
      BY <2>1, <2>2, <2>3, <3>4 DEF EndBatch, Interrupt, End
    <3> QED
      BY <2>4, <3>1, <3>2, <3>3, <3>4
  <2>5. ASSUME NEW m \in Loops, NEW i, ToolReturns(m, i) \/ ToolRaises(m, i) \/ ToolStops(m, i)
        PROVE  FALSE
    BY <2>1, <2>2, <2>3, <2>5 DEF ToolReturns, ToolRaises, ToolStops, Raise
  <2>6. ASSUME NEW m \in Loops \ {l}, NEW i, ToolSuspends(m, i)
        PROVE  FALSE
    BY <1>1, <2>6 DEF ToolSuspends, Raise
  <2>7. ~UNCHANGED loops
    BY <2>2 DEF loops
  <2> QED
    BY <2>4, <2>5, <2>6, <2>7 DEF LoopsStep, LoopStep, ToolStep
<1>3. PICK i \in 1..MaxBatch : ToolSuspends(l, i)
  BY <1>2
<1>4. /\ i \in Running(l) /\ i \in gated[l] /\ UNCHANGED gated
      /\ batch' = [batch EXCEPT ![l][i] = "stopped"]
  BY <1>3 DEF ToolSuspends
<1>5. Frontier(l, i) /\ i \in DOMAIN batch[l] /\ i \in Nat
  BY <1>4, AtFrontier
<1>6. /\ batch'[l][i] = "stopped"
      /\ Len(batch'[l]) = Len(batch[l]) /\ DOMAIN batch'[l] = DOMAIN batch[l]
      /\ \A j \in DOMAIN batch[l] \ {i} : batch'[l][j] = batch[l][j]
  BY <1>4, <1>5, Marked DEF Tool
<1>7. /\ \A j \in 1..i - 1 : j \in DOMAIN batch[l] /\ j < i
      /\ \A j \in i + 1..Len(batch[l]) : j \in DOMAIN batch[l] /\ j > i
  BY <1>1, <1>5
<1>8. \A j \in 1..i - 1 : batch'[l][j] \in {"ok", "error"}
  BY <1>5, <1>6, <1>7 DEF Frontier
<1>9. \A j \in i + 1..Len(batch'[l]) : batch'[l][j] = "todo"
  BY <1>5, <1>6, <1>7 DEF Frontier
<1> QED
  BY <1>4, <1>5, <1>6, <1>8, <1>9 DEF Bounded

\* A tool starts when those before it have returned.
LEMMA InOrderStep ==
  ASSUME Shape, InOrder, LoopsStep
  PROVE  InOrder'
<1>1. /\ batch \in [Loops -> Seq(Tool)] /\ gated \in [Loops -> SUBSET (1..MaxBatch)]
  BY DEF Shape, LoopTypeOK
<1>2. UNCHANGED <<batch, gated>> => InOrder'
  BY DEF InOrder
\* A tool that has started, or may start, changes its state.
<1>3. ASSUME NEW l \in Loops, NEW i \in DOMAIN batch[l], NEW x \in Tool, x # "todo",
             batch' = [batch EXCEPT ![l][i] = x], UNCHANGED gated,
             gated[l] # {} => Frontier(l, i)
      PROVE  InOrder'
  <2>1. /\ batch'[l][i] = x /\ DOMAIN batch'[l] = DOMAIN batch[l]
        /\ \A j \in DOMAIN batch[l] \ {i} : batch'[l][j] = batch[l][j]
        /\ \A m \in Loops \ {l} : batch'[m] = batch[m]
    BY <1>3, Marked
  <2>2. \A j \in DOMAIN batch[l] : j \in Nat
    BY <1>1
  <2>3. ASSUME gated[l] # {}, NEW a \in DOMAIN batch[l], NEW b \in DOMAIN batch[l], a < b,
               batch'[l][b] # "todo"
        PROVE  batch'[l][a] \in {"ok", "error"}
    <3>1. CASE b = i
      BY <1>3, <2>1, <2>2, <2>3, <3>1 DEF Frontier
    <3>2. CASE b # i
      <4>1. batch[l][b] # "todo"
        BY <2>1, <2>3, <3>2
      <4>2. a # i
        BY <1>3, <2>2, <2>3, <4>1 DEF Frontier
      <4> QED
        BY <2>1, <2>3, <4>1, <4>2 DEF InOrder
    <3> QED
      BY <3>1, <3>2
  <2> QED
    BY <1>3, <2>1, <2>3 DEF InOrder
<1>4. ASSUME NEW l \in Loops, StartTool(l)
      PROVE  InOrder'
  <2>1. PICK i \in Todo(l) :
          /\ \A j \in Todo(l) : i <= j
          /\ batch' = [batch EXCEPT ![l][i] = "stopped"] \/ batch' = [batch EXCEPT ![l][i] = "running"]
    BY <1>4 DEF StartTool
  <2>2. i \in DOMAIN batch[l] /\ batch[l][i] = "todo" /\ UNCHANGED gated
    BY <1>4 DEF StartTool, Todo
  <2>3. ASSUME gated[l] # {}
        PROVE  Frontier(l, i)
    <3>1. Running(l) = {} /\ why[l] = "none" /\ at[l] = "tools"
      BY <1>4, <2>3 DEF StartTool, Free, Sequential
    <3>2. ASSUME NEW j \in DOMAIN batch[l], j < i
          PROVE  batch[l][j] \in {"ok", "error"}
      <4>1. batch[l][j] # "todo"
        BY <1>1, <2>1, <2>2, <3>2 DEF Todo
      <4>2. batch[l][j] # "running" /\ batch[l][j] # "stopped"
        BY <3>1 DEF Running, Shape, Sound
      <4>3. batch[l][j] \in Tool
        BY <1>1
      <4> QED
        BY <4>1, <4>2, <4>3 DEF Tool
    <3>3. ASSUME NEW j \in DOMAIN batch[l], j > i
          PROVE  batch[l][j] = "todo"
      BY <1>1, <2>2, <2>3, <3>3 DEF InOrder
    <3> QED
      BY <3>2, <3>3 DEF Frontier
  <2> QED
    BY <1>3, <2>1, <2>2, <2>3 DEF Tool
<1>5. ASSUME NEW l \in Loops, ToolStep(l)
      PROVE  InOrder'
  <2>1. PICK i \in 1..MaxBatch :
          ToolReturns(l, i) \/ ToolRaises(l, i) \/ ToolSuspends(l, i) \/ ToolStops(l, i)
    BY <1>5 DEF ToolStep
  <2>2. i \in Running(l) /\ UNCHANGED gated
    BY <2>1 DEF ToolReturns, ToolRaises, ToolSuspends, ToolStops
  <2>3. PICK x \in {"ok", "error", "stopped"} : batch' = [batch EXCEPT ![l][i] = x]
    <3>1. CASE ToolReturns(l, i)
      <4>1. PICK r \in {"ok", "error"} :
              IF Exceeds(ledger') THEN batch' = [batch EXCEPT ![l][i] = "stopped"]
              ELSE batch' = [batch EXCEPT ![l][i] = r]
        BY <3>1 DEF ToolReturns
      <4> QED
        BY <4>1
    <3>2. CASE ToolRaises(l, i) \/ ToolSuspends(l, i) \/ ToolStops(l, i)
      BY <3>2 DEF ToolRaises, ToolSuspends, ToolStops
    <3> QED
      BY <2>1, <3>1, <3>2
  <2>4. i \in DOMAIN batch[l]
    BY <2>2 DEF Running
  <2>5. gated[l] # {} => Frontier(l, i)
    BY <2>2, AtFrontier
  <2>6. x \in Tool /\ x # "todo"
    BY DEF Tool
  <2> QED
    BY <1>3, <2>2, <2>3, <2>4, <2>5, <2>6
<1>6. ASSUME NEW l \in Loops, Response(l)
      PROVE  InOrder'
  <2>1. CASE UNCHANGED <<batch, gated>>
    BY <1>2, <2>1
  <2>2. ASSUME NEW n \in 0..MaxBatch, batch' = [batch EXCEPT ![l] = [i \in 1..n |-> "todo"]],
               \A m \in Loops \ {l} : gated'[m] = gated[m]
        PROVE  InOrder'
    <3>1. \A m \in Loops \ {l} : batch'[m] = batch[m]
      BY <1>1, <2>2
    <3>2. \A i \in DOMAIN batch'[l] : batch'[l][i] = "todo"
      BY <1>1, <2>2
    <3> QED
      BY <2>2, <3>1, <3>2 DEF InOrder
  <2> QED
    BY <1>1, <1>6, <2>1, <2>2 DEF Response
<1>7. ASSUME NEW l \in Loops,
             \/ Begin(l) \/ Step(l) \/ CallFailed(l) \/ Cancel(l) \/ Join(l) \/ EndBatch(l)
             \/ Interrupt(l)
      PROVE  InOrder'
  BY <1>2, <1>7 DEF Begin, Step, CallFailed, Cancel, Join, EndBatch, Interrupt
<1>8. CASE UNCHANGED loops
  BY <1>2, <1>8 DEF loops
<1> QED
  BY <1>4, <1>5, <1>6, <1>7, <1>8 DEF LoopsStep, LoopStep

LEMMA BoundaryStep ==
  ASSUME Shape, InOrder, SuspensionIsBoundary, LoopsStep
  PROVE  SuspensionIsBoundary'
<1> SUFFICES ASSUME NEW l \in Loops, why'[l] = "suspended"
             PROVE  Bounded(l)'
  BY DEF SuspensionIsBoundary, Bounded
<1>1. CASE why[l] = "suspended"
  <2>1. Bounded(l)
    BY <1>1 DEF SuspensionIsBoundary, Bounded
  <2> QED
    BY <1>1, <2>1, SuspendedRests DEF Bounded
<1>2. CASE why[l] # "suspended"
  BY <1>2, Suspending
<1> QED
  BY <1>1, <1>2

-----------------------------------------------------------------------------
(* The end of a loop *)

LEMMA LeftStep ==
  ASSUME Shape, NothingLeftRunning, LoopsStep
  PROVE  NothingLeftRunning'
<1> SUFFICES ASSUME NEW l \in Loops, at'[l] = "over"
             PROVE  Running(l)' = {}
  BY DEF NothingLeftRunning
<1>1. /\ batch \in [Loops -> Seq(Tool)]
      /\ at \in [Loops -> {"idle", "step", "waiting", "tools", "joining", "over"}]
  BY DEF Shape, LoopTypeOK
<1>2. at[l] \in {"step", "waiting"} => Running(l) = {}
  BY DEF Shape, Clean, Running
<1>3. at[l] = "over" => Running(l) = {}
  BY DEF NothingLeftRunning
<1>4. ASSUME UNCHANGED batch[l], Running(l) = {}
      PROVE  Running(l)' = {}
  BY <1>4 DEF Running
<1>5. ASSUME NEW m \in Loops \ {l}, StartTool(m) \/ ToolStep(m)
      PROVE  UNCHANGED <<batch[l], at[l]>>
  <2>1. PICK i \in Nat, x \in Tool : ToolMoves(m, i, x)
    BY <1>5, ToolsMove
  <2> QED
    BY <1>1, <2>1 DEF ToolMoves
<1>6. ~StartTool(l) /\ ~ToolStep(l)
  BY <1>1 DEF StartTool, ToolStep, ToolReturns, ToolRaises, ToolSuspends, ToolStops
<1>7. ASSUME NEW m \in Loops \ {l},
             \/ Begin(m) \/ Step(m) \/ Response(m) \/ CallFailed(m) \/ Cancel(m) \/ Join(m)
             \/ EndBatch(m) \/ Interrupt(m)
      PROVE  UNCHANGED <<batch[l], at[l]>>
  BY <1>1, <1>7 DEF Begin, Step, Response, CallFailed, Cancel, Join, EndBatch, Interrupt, End
<1>8. CASE Response(l)
  <2>1. UNCHANGED batch \/ at'[l] = "tools"
    BY <1>1, <1>8 DEF Response
  <2> QED
    BY <1>2, <1>4, <1>8, <2>1 DEF Response
<1>9. CASE Begin(l) \/ Step(l) \/ CallFailed(l) \/ Cancel(l)
  BY <1>1, <1>2, <1>4, <1>9 DEF Begin, Step, CallFailed, Cancel, End
<1>10. CASE Join(l) \/ EndBatch(l)
  BY <1>4, <1>10 DEF Join, Joined, EndBatch
<1>11. CASE Interrupt(l)
  BY <1>1, <1>2, <1>4, <1>11 DEF Interrupt, End
<1>12. CASE UNCHANGED loops
  BY <1>3, <1>4, <1>12 DEF loops
<1> QED
  BY <1>3, <1>4, <1>5, <1>6, <1>7, <1>8, <1>9, <1>10, <1>11, <1>12 DEF LoopsStep, LoopStep

-----------------------------------------------------------------------------
(* The theorems about loops *)

LoopInv ==
  /\ Shape /\ Refused /\ AskedOnLedger /\ TokensHeld /\ StartsHeld
  /\ InOrder /\ SuspensionIsBoundary /\ NothingLeftRunning

LEMMA LoopInitially == LoopInit => LoopInv
<1> SUFFICES ASSUME LoopInit PROVE LoopInv
  OBVIOUS
<1>1. Shape
  BY ShapeInitially
<1>2. Refused /\ AskedOnLedger /\ TokensHeld
  BY LoopNumbers DEF LoopInit, Refused, AskedOnLedger, TokensHeld, InFlight
<1>3. InOrder /\ SuspensionIsBoundary /\ NothingLeftRunning
  BY DEF LoopInit, InOrder, SuspensionIsBoundary, NothingLeftRunning
<1>4. AllTodo = {}
  BY DEF LoopInit, AllTodo, Todo
<1>5. StartsHeld
  BY <1>4, FS_EmptySet, LoopNumbers DEF LoopInit, StartsHeld
<1> QED
  BY <1>1, <1>2, <1>3, <1>5 DEF LoopInv

LEMMA LoopInvariance == Spec => []LoopInv
<1>1. Init => LoopInv
  BY LoopInitially DEF Init
<1>2. LoopInv /\ [Next]_vars => LoopInv'
  BY NextLoops, ShapeStep, RefusedStep, AskedStep, TokensStep, StartsStep, InOrderStep, BoundaryStep,
     LeftStep
  DEF LoopInv
<1> QED
  BY <1>1, <1>2, PTL DEF Spec

\* BudgetGuard (_agent_budget.py): whatever loops share the ledger, they do not
\* dispatch more calls or execute more tools than the guard allows, and the
\* tokens stay below the ceiling and one response of each loop.
THEOREM Budget == Spec => []BudgetHeld
<1>1. LoopInv => BudgetHeld
  BY DEF LoopInv, BudgetHeld, AskedOnLedger, TokensHeld, StartsHeld
<1> QED
  BY <1>1, LoopInvariance, PTL

\* Once a loop has tripped, the loops that share its ledger dispatch no call
\* and start no tool.
THEOREM Tripped == Spec => TrippedStops
<1>1. LoopInv /\ [Next]_vars =>
        [(\E l \in Loops : why[l] = "tripped") => asked' = asked /\ starts' = starts]_<<calls, loops>>
  BY NextLoops, RefusedStops DEF LoopInv, Refused
<1> QED
  BY <1>1, LoopInvariance, PTL DEF Spec, TrippedStops

\* generate_text executes a batch with a tool that may suspend in order: when
\* it suspends, what comes before has returned and nothing after has started.
THEOREM Boundary == Spec => []SuspensionIsBoundary
<1>1. LoopInv => SuspensionIsBoundary
  BY DEF LoopInv
<1> QED
  BY <1>1, LoopInvariance, PTL

\* generate_text joins its workers: a loop that is over leaves no tool running.
THEOREM ToolsJoined == Spec => []NothingLeftRunning
<1>1. LoopInv => NothingLeftRunning
  BY DEF LoopInv
<1> QED
  BY <1>1, LoopInvariance, PTL

\* The state of requests, calls and loops has its type.
THEOREM TypeCorrect == Spec => []TypeOK
<1>1. LoopInv /\ CallsInv /\ GatewayInv => TypeOK
  BY DEF LoopInv, Shape, CallsInv, GatewayInv, TypeOK
<1> QED
  BY <1>1, LoopInvariance, CallsInvariance, PTL

-----------------------------------------------------------------------------
(* Exhausted requests *)

\* What ExhaustedIsFinal says of one request.
Final(r) ==
  /\ awaiting[r] = NoFlight => awaiting'[r] = NoFlight
  /\ \A i \in DOMAIN request'[r].attempts \ DOMAIN request[r].attempts :
       request'[r].attempts[i].kind \in Skips
  /\ request[r].at # "over" /\ request'[r].at = "over" =>
       request'[r].outcome = "exhausted" \/ StoppedShort(r)'

\* A step of somebody else.
LEMMA OthersFinal ==
  ASSUME NEW r \in Requests, UNCHANGED request[r],
         awaiting[r] = NoFlight => awaiting'[r] = NoFlight
  PROVE  Final(r)
BY DEF Final

\* Only a caller itself begins to wait.
LEMMA CallsWait ==
  ASSUME CallsTypeOK, NEW r \in Callers, awaiting[r] = NoFlight,
         \/ \E f \in Flights : FlightStep(f)
         \/ \E c \in Callers \ {r}, k \in Keys : Call(c, k)
         \/ \E c \in Callers : Abandon(c)
         \/ UNCHANGED awaiting
  PROVE  awaiting'[r] = NoFlight
<1>1. awaiting \in [Callers -> Flights \cup {NoFlight}]
  BY DEF CallsTypeOK
<1>2. ASSUME NEW f \in Flights, FlightStep(f)
      PROVE  awaiting'[r] = NoFlight
  BY <1>1, <1>2 DEF FlightStep, LookUp, ProviderAnswers, ObserverRaises, ProviderFails, DeadlineEnds,
                    Store, Finish, Proceed
<1>3. ASSUME NEW c \in Callers \ {r}, NEW k \in Keys, Call(c, k)
      PROVE  awaiting'[r] = NoFlight
  <2>1. \E f : awaiting' = [awaiting EXCEPT ![c] = f]
    BY <1>3 DEF Call
  <2> QED
    BY <1>1, <2>1
<1>4. ASSUME NEW c \in Callers, Abandon(c)
      PROVE  awaiting'[r] = NoFlight
  BY <1>1, <1>4 DEF Abandon
<1> QED
  BY <1>2, <1>3, <1>4

\* An exhausted request is skipped on or ends.
LEMMA ExhaustedSteps ==
  ASSUME CallsTypeOK, GatewayInv, NEW r \in Requests, r \in expired, RequestStep(r)
  PROVE  Final(r)
<1>1. request \in [Requests -> RequestStates] /\ awaiting \in [Callers -> Flights \cup {NoFlight}]
  BY DEF GatewayInv, GatewayTypeOK, RequestStates, CallsTypeOK
<1>2. r \in Callers
  BY GatewayAssumption
<1>3. Choose(r) \/ Exhaust(r)
  BY DEF RequestStep, Conclude, Attempt, Evaluate, AttemptTimesOut, InTime
<1>4. request[r].attempts \in Seq(Attempts)
  BY <1>1 DEF RequestStates
<1>5. CASE Exhaust(r)
  <2>1. /\ request'[r].at = "over" /\ request'[r].outcome = "exhausted"
        /\ request'[r].attempts = request[r].attempts
    BY <1>1, <1>5 DEF Exhaust, Return, RequestStates
  <2>2. awaiting'[r] = NoFlight
    BY <1>1, <1>2, <1>5 DEF Exhaust, Abandon
  <2> QED
    BY <2>1, <2>2 DEF Final
<1>6. CASE Choose(r)
  <2>1. UNCHANGED awaiting
    BY <1>6 DEF Choose, calls
  <2>2. CASE request' = [request EXCEPT ![r].at = "attempting"]
    <3>1. request'[r].at = "attempting" /\ request'[r].attempts = request[r].attempts
      BY <1>1, <2>2 DEF RequestStates
    <3> QED
      BY <2>1, <3>1 DEF Final
  <2>3. ASSUME NEW s \in Skips,
               IF s = "missing" /\ FailOnMissing THEN Return(r, "failed", Record(r, s))
               ELSE NextTarget(r, request[r].refused, Record(r, s))
        PROVE  Final(r)
    <3> DEFINE new == Record(r, s)
               entry == [place |-> request[r].place, kind |-> s]
    <3>1. request'[r].attempts = new
      BY <1>1, <2>3 DEF Return, NextTarget, RequestStates
    <3>2. new = Append(request[r].attempts, entry) /\ entry.kind = s
      BY DEF Record
    <3>3. entry \in Attempts
      BY <1>6 DEF Attempts, Choose
    <3> HIDE DEF new, entry
    <3>4. /\ DOMAIN new = 1..Len(request[r].attempts) + 1
          /\ DOMAIN request[r].attempts = 1..Len(request[r].attempts)
          /\ Len(request[r].attempts) \in Nat
          /\ Len(new) = Len(request[r].attempts) + 1
          /\ new # <<>>
          /\ new[Len(request[r].attempts) + 1] = entry
      BY <1>4, <3>2, <3>3
    <3>5. \A i \in DOMAIN new \ DOMAIN request[r].attempts : new[i].kind \in Skips
      BY <2>3, <3>2, <3>4
    <3>6. request'[r].at = "over" => StoppedShort(r)'
      <4>1. CASE s = "missing" /\ FailOnMissing
        BY <3>1, <3>2, <3>4, <4>1 DEF StoppedShort, Last
      <4>2. CASE ~(s = "missing" /\ FailOnMissing)
        BY <1>1, <2>3, <4>2 DEF NextTarget, RequestStates
      <4> QED
        BY <4>1, <4>2
    <3> QED
      BY <2>1, <3>1, <3>5, <3>6 DEF Final
  <2> QED
    BY <1>6, <2>2, <2>3 DEF Choose
<1> QED
  BY <1>3, <1>5, <1>6

\* A request changes by its own steps only.
LEMMA ExhaustedStep ==
  ASSUME CallsTypeOK, GatewayInv, [Next]_vars, NEW r \in Requests, r \in expired
  PROVE  Final(r)
<1>1. request \in [Requests -> RequestStates] /\ awaiting \in [Callers -> Flights \cup {NoFlight}]
      /\ r \in Callers
  BY GatewayAssumption DEF GatewayInv, GatewayTypeOK, RequestStates, CallsTypeOK
<1>2. CASE Arrive
  <2>1. UNCHANGED awaiting
    BY <1>2 DEF Arrive, Submit, Begin, calls
  <2>2. UNCHANGED request \/ \E q \in Requests : request' = [request EXCEPT ![q].at = "choosing"]
    BY <1>2 DEF Arrive, Submit, Begin, gateway
  <2>3. /\ request'[r].attempts = request[r].attempts
        /\ request'[r].at = request[r].at \/ request'[r].at = "choosing"
    <3>1. CASE UNCHANGED request
      BY <3>1
    <3>2. ASSUME NEW q \in Requests, request' = [request EXCEPT ![q].at = "choosing"]
          PROVE  /\ request'[r].attempts = request[r].attempts
                 /\ request'[r].at = request[r].at \/ request'[r].at = "choosing"
      <4>1. request'[r] = IF q = r THEN [request[r] EXCEPT !.at = "choosing"] ELSE request[r]
        BY <1>1, <3>2
      <4>2. request[r] \in RequestStates
        BY <1>1
      <4> QED
        BY <4>1, <4>2 DEF RequestStates
    <3> QED
      BY <2>2, <3>1, <3>2
  <2> QED
    BY <2>1, <2>3 DEF Final
<1>3. ASSUME NEW f \in Flights, FlightStep(f), UNCHANGED gateway
      PROVE  Final(r)
  BY <1>1, <1>3, CallsWait, OthersFinal DEF gateway
<1>4. ASSUME NEW q \in Requests \ {r}, RequestStep(q)
      PROVE  Final(r)
  <2>1. UNCHANGED request[r]
    BY <1>1, <1>4 DEF RequestStep, Choose, Conclude, Attempt, Evaluate, AttemptTimesOut, Exhaust,
                      AttemptFailed, NextTarget, Return
  <2>2. q \in Callers \ {r}
    BY GatewayAssumption
  <2>3. \/ UNCHANGED awaiting \/ \E c \in Callers : Abandon(c)
        \/ \E c \in Callers \ {r}, k \in Keys : Call(c, k)
    <3>1. CASE Attempt(q)
      <4>1. Target(q) \in Keys
        BY <3>1, GatewayAssumption DEF Attempt, At, Target, Keys, Places, GatewayInv, GatewayTypeOK, Placed
      <4> QED
        BY <2>2, <3>1, <4>1 DEF Attempt
    <3>2. CASE AttemptTimesOut(q) \/ Exhaust(q)
      BY <2>2, <3>2 DEF AttemptTimesOut, Exhaust
    <3>3. CASE Choose(q) \/ Conclude(q) \/ Evaluate(q)
      BY <3>3 DEF Choose, Conclude, Evaluate, calls
    <3> QED
      BY <1>4, <3>1, <3>2, <3>3 DEF RequestStep
  <2> QED
    BY <1>1, <2>1, <2>3, CallsWait, OthersFinal
<1>5. ASSUME NEW l \in Loops, LoopStep(l), UNCHANGED gateway
      PROVE  Final(r)
  <2>1. l \in Callers \ {r}
    BY GenerationAssumption
  <2>2. \/ UNCHANGED awaiting \/ \E c \in Callers : Abandon(c)
        \/ \E c \in Callers \ {r}, k \in Keys : Call(c, k)
    <3>1. CASE Step(l)
      <4>1. \A i \in Inputs : <<LoopModel, i>> \in Keys
        BY LoopAssumption DEF Keys
      <4> QED
        BY <2>1, <3>1, <4>1 DEF Step, calls
    <3>2. CASE Interrupt(l)
      BY <2>1, <3>2 DEF Interrupt
    <3>3. CASE ToolStep(l)
      BY <3>3 DEF ToolStep, ToolReturns, ToolRaises, ToolSuspends, ToolStops, calls
    <3>4. CASE Response(l) \/ CallFailed(l) \/ StartTool(l) \/ Cancel(l) \/ Join(l) \/ EndBatch(l)
      BY <3>4 DEF Response, CallFailed, StartTool, Cancel, Join, EndBatch, calls
    <3> QED
      BY <1>5, <3>1, <3>2, <3>3, <3>4 DEF LoopStep
  <2> QED
    BY <1>1, <1>5, <2>2, CallsWait, OthersFinal DEF gateway
<1>6. CASE Environment
  BY <1>1, <1>6, OthersFinal DEF Environment, Expire, CoolDown, gateway
<1>7. CASE UNCHANGED vars
  BY <1>7, OthersFinal DEF vars, calls, gateway
<1> QED
  BY <1>2, <1>3, <1>4, <1>5, <1>6, <1>7, ExhaustedSteps DEF Next, Work

\* GatewayGuard and the request scope of gateway.py: a request whose deadline
\* has passed calls no model any more and ends exhausted.
THEOREM Exhausted == Spec => ExhaustedIsFinal
<1>1. CallsInv /\ GatewayInv /\ [Next]_vars =>
        [\A r \in Requests \cap expired :
           /\ awaiting[r] = NoFlight => awaiting'[r] = NoFlight
           /\ \A i \in DOMAIN request'[r].attempts \ DOMAIN request[r].attempts :
                request'[r].attempts[i].kind \in Skips
           /\ request[r].at # "over" /\ request'[r].at = "over" =>
                request'[r].outcome = "exhausted" \/ StoppedShort(r)']_<<calls, gateway>>
  BY ExhaustedStep DEF CallsInv, Final
<1> QED
  BY <1>1, CallsInvariance, PTL DEF Spec, ExhaustedIsFinal

-----------------------------------------------------------------------------
(* Routes *)

Tried(a) == {a[i].place : i \in DOMAIN a}
Kinds(a) == {a[i].kind : i \in DOMAIN a}

\* The targets before the current one have been tried, in order, those after
\* it have not, and it has been tried once for each retry.
Passed(q) ==
  /\ \A i \in 1..Len(q.attempts) - 1 :
       /\ q.attempts[i].kind # "text"
       /\ q.attempts[i].place <= q.attempts[i + 1].place
  /\ \A i \in DOMAIN q.attempts : q.attempts[i].place <= q.place
  /\ \A p \in Places : p < q.place => p \in Tried(q.attempts)
  /\ \A p \in Places : Cardinality(OfPlace(q.attempts, p)) <= AttemptRetries + 1

\* A request that is not over has no answer but the refusal that it keeps.
Pending(q) ==
  /\ q.outcome = "none"
  /\ "text" \notin Kinds(q.attempts)
  /\ q.refused # 0 <=> "refusal" \in Kinds(q.attempts)
  /\ "refusal" \in Kinds(q.attempts) => FallbackOnRefusal
  /\ q.place \in Places => Cardinality(OfPlace(q.attempts, q.place)) <= q.retry
  /\ q.at \in {"idle", "choosing"} => q.place \notin Tried(q.attempts) /\ q.retry = 0

\* The outcome of a request follows from its attempts.
Concluded(q) ==
  LET last == q.attempts[Len(q.attempts)].kind
  IN /\ q.outcome = "text" => q.attempts # <<>> /\ last = "text"
     /\ q.outcome = "refusal" =>
          /\ "refusal" \in Kinds(q.attempts) /\ "text" \notin Kinds(q.attempts)
          /\ FallbackOnRefusal => Tried(q.attempts) = Places
     /\ q.outcome = "failed" =>
          \/ FailOnMissing /\ q.attempts # <<>> /\ last = "missing"
          \/ Tried(q.attempts) = Places /\ Kinds(q.attempts) \cap Answers = {}

Honest(q) == Passed(q) /\ (q.at # "over" => Pending(q)) /\ Concluded(q)

RouteInv == \A r \in Requests : Honest(request[r])

\* A sequence and one element more.
LEMMA AppendedAt ==
  ASSUME NEW S, NEW s \in Seq(S), NEW e \in S, NEW a, a = Append(s, e)
  PROVE  /\ a \in Seq(S) /\ Len(a) = Len(s) + 1 /\ Len(s) \in Nat
         /\ DOMAIN a = 1..(Len(s) + 1) /\ DOMAIN s = 1..Len(s)
         /\ a[Len(s) + 1] = e /\ \A i \in 1..Len(s) : a[i] = s[i]
OBVIOUS

\* The attempts of q, and e after them.
Extends(q, e, a) ==
  /\ a \in Seq(Attempts) /\ a # <<>> /\ a[Len(a)].kind = e.kind
  /\ \A i \in 1..Len(a) - 1 : a[i].kind # "text" /\ a[i].place <= a[i + 1].place
  /\ \A i \in DOMAIN a : a[i].place <= q.place
  /\ \A p \in Places : p <= q.place => p \in Tried(a)
  /\ Kinds(a) = Kinds(q.attempts) \cup {e.kind}
  /\ Cardinality(OfPlace(a, q.place)) <= q.retry + 1
  /\ \A p \in Places : Cardinality(OfPlace(a, p)) <= AttemptRetries + 1

\* One more attempt of the current target.
LEMMA OneMoreAttempt ==
  ASSUME NEW q \in RequestStates, Passed(q), Pending(q), q.at \in {"choosing", "attempting", "waiting"},
         q.place \in Places, NEW e \in Attempts, e.place = q.place,
         NEW a, a = Append(q.attempts, e)
  PROVE  Extends(q, e, a)
<1> DEFINE b == q.attempts
           n == Len(b)
<1>1. b \in Seq(Attempts) /\ q.retry \in Nat /\ q.retry <= AttemptRetries /\ Places \subseteq Nat
  BY GatewayAssumption DEF RequestStates, Places
<1>2. e \in Attempts /\ e.place = q.place /\ q.place \in Places
  BY DEF Attempts
<1>3. a = Append(b, e)
  OBVIOUS
<1>4. /\ \A i \in 1..Len(b) - 1 : b[i].kind # "text" /\ b[i].place <= b[i + 1].place
      /\ \A i \in DOMAIN b : b[i].place <= q.place
      /\ \A p \in Places : p < q.place => p \in Tried(b)
      /\ "text" \notin Kinds(b)
      /\ Cardinality(OfPlace(b, q.place)) <= q.retry
  BY DEF Passed, Pending
<1> HIDE DEF b
<1>5. /\ a \in Seq(Attempts) /\ Len(a) = n + 1 /\ n \in Nat /\ n = Len(b)
      /\ DOMAIN a = 1..(n + 1) /\ DOMAIN b = 1..n
      /\ a[n + 1] = e /\ \A i \in 1..n : a[i] = b[i]
  <2>1. b \in Seq(Attempts) /\ e \in Attempts
    BY <1>1, <1>2
  <2> QED
    BY <2>1, <1>3, AppendedAt
<1> HIDE DEF n
<1>6. ASSUME NEW i \in 1..n
      PROVE  b[i].kind # "text" /\ b[i].place <= q.place
  BY <1>4, <1>5, <1>6 DEF Kinds
<1>7. ASSUME NEW i \in 1..Len(a) - 1
      PROVE  a[i].kind # "text" /\ a[i].place <= a[i + 1].place
  <2>1. i \in 1..n /\ a[i] = b[i] /\ b[i].kind # "text"
    BY <1>5, <1>6, <1>7
  <2>2. CASE i = n
    BY <2>1, <2>2, <1>2, <1>5, <1>6
  <2>3. CASE i # n
    <3>1. i \in 1..Len(b) - 1 /\ i + 1 \in 1..n
      BY <2>1, <2>3, <1>5
    <3> QED
      BY <2>1, <3>1, <1>4, <1>5
  <2> QED
    BY <2>2, <2>3
<1>8. \A i \in DOMAIN a : a[i].place <= q.place
  <2>1. q.place \in Nat
    BY <1>1
  <2> QED
    BY <2>1, <1>2, <1>5, <1>6
<1>9. ASSUME NEW p \in Places, p <= q.place
      PROVE  p \in Tried(a)
  <2>1. CASE p = q.place
    BY <2>1, <1>2, <1>5 DEF Tried
  <2>2. CASE p # q.place
    <3>1. p < q.place
      <4>1. p \in Nat /\ q.place \in Nat
        BY <1>1
      <4> QED
        BY <4>1, <2>2, <1>9
    <3>2. PICK i \in DOMAIN b : b[i].place = p
      BY <3>1, <1>4 DEF Tried
    <3> QED
      BY <3>2, <1>5 DEF Tried
  <2> QED
    BY <2>1, <2>2
<1>10. Kinds(a) = Kinds(b) \cup {e.kind}
  BY <1>2, <1>5 DEF Kinds
<1>11. OfPlace(a, q.place) = OfPlace(b, q.place) \cup {n + 1} /\ n + 1 \notin OfPlace(b, q.place)
  BY <1>2, <1>5 DEF OfPlace
<1>12. ASSUME NEW p \in Places \ {q.place}
       PROVE  OfPlace(a, p) = OfPlace(b, p)
  BY <1>2, <1>5, <1>12 DEF OfPlace
<1>13. IsFiniteSet(OfPlace(b, q.place)) /\ Cardinality(OfPlace(b, q.place)) \in Nat
  <2>1. OfPlace(b, q.place) \subseteq 1..n
    BY <1>5 DEF OfPlace
  <2>2. IsFiniteSet(1..n)
    BY <1>5, FS_Interval
  <2> QED
    BY <2>1, <2>2, FS_Subset, FS_CardinalityType
<1>14. /\ Cardinality(OfPlace(a, q.place)) <= q.retry + 1
       /\ Cardinality(OfPlace(a, q.place)) <= AttemptRetries + 1
  <2>1. Cardinality(OfPlace(a, q.place)) = Cardinality(OfPlace(b, q.place)) + 1
    BY <1>11, <1>13, FS_AddElement
  <2>2. AttemptRetries \in Nat
    BY GatewayAssumption
  <2> QED
    BY <2>1, <2>2, <1>1, <1>4, <1>13
<1>15. \A p \in Places : Cardinality(OfPlace(a, p)) <= AttemptRetries + 1
  BY <1>12, <1>14 DEF Passed, b
<1>16. a # <<>> /\ a[Len(a)].kind = e.kind
  BY <1>2, <1>5
<1> QED
  BY <1>5, <1>7, <1>8, <1>9, <1>10, <1>14, <1>15, <1>16 DEF b, Extends

\* A request that returns with an attempt.
LEMMA AnswerHonest ==
  ASSUME NEW q \in RequestStates, NEW s \in RequestStates, Passed(q), Pending(q),
         q.at \in {"choosing", "attempting", "waiting"}, q.place \in Places,
         NEW e \in Attempts, e.place = q.place, s.attempts = Append(q.attempts, e),
         s.place = q.place, s.at = "over",
         \/ e.kind = "text" /\ s.outcome = "text"
         \/ e.kind = "refusal" /\ s.outcome = "refusal" /\ ~FallbackOnRefusal
         \/ e.kind = "missing" /\ s.outcome = "failed" /\ FailOnMissing
  PROVE  Honest(s)
<1> DEFINE a == s.attempts
<1>1. /\ a \in Seq(Attempts) /\ a # <<>> /\ a[Len(a)].kind = e.kind
      /\ \A i \in 1..Len(a) - 1 : a[i].kind # "text" /\ a[i].place <= a[i + 1].place
      /\ \A i \in DOMAIN a : a[i].place <= q.place
      /\ \A p \in Places : p <= q.place => p \in Tried(a)
      /\ Kinds(a) = Kinds(q.attempts) \cup {e.kind}
      /\ \A p \in Places : Cardinality(OfPlace(a, p)) <= AttemptRetries + 1
  <2>1. Extends(q, e, a)
    BY OneMoreAttempt
  <2> QED
    BY <2>1 DEF Extends
<1>2. \A p \in Places : p < s.place => p \in Tried(a)
  <2>1. \A p \in Places : p < q.place => p <= q.place
    BY DEF Places
  <2> QED
    BY <2>1, <1>1
<1>3. Passed(s)
  BY <1>1, <1>2 DEF Passed
<1>4. Concluded(s)
  BY <1>1 DEF Concluded, Pending, Answers
<1> QED
  BY <1>3, <1>4 DEF Honest

\* A request that has passed every target.
LEMMA SpentHonest ==
  ASSUME NEW q \in RequestStates, NEW s \in RequestStates, Passed(q), Pending(q),
         q.place \notin Places, s.attempts = q.attempts, s.place = q.place, s.at = "over",
         s.outcome = IF q.refused # 0 THEN "refusal" ELSE "failed"
  PROVE  Honest(s)
<1>1. Passed(s)
  BY DEF Passed
<1>2. Tried(q.attempts) = Places
  <2>1. Len(Route) \in Nat /\ q.place \in 1..Len(Route) + 1 /\ q.attempts \in Seq(Attempts)
    BY GatewayAssumption DEF RequestStates
  <2>2. \A p \in Places : p < q.place
    BY <2>1 DEF Places
  <2>3. Tried(q.attempts) \subseteq Places
    <3>1. \A i \in DOMAIN q.attempts : q.attempts[i] \in Attempts
      BY <2>1
    <3>2. \A x \in Attempts : x.place \in Places
      BY DEF Attempts
    <3> QED
      BY <3>1, <3>2 DEF Tried
  <2> QED
    BY <2>2, <2>3 DEF Passed
<1>3. Concluded(s)
  BY <1>2 DEF Concluded, Pending, Answers
<1> QED
  BY <1>1, <1>3 DEF Honest

\* A request that goes on to the next target.
LEMMA NextHonest ==
  ASSUME NEW q \in RequestStates, NEW s \in RequestStates, Passed(q), Pending(q),
         q.at \in {"choosing", "attempting", "waiting"}, q.place \in Places,
         NEW e \in Attempts, e.place = q.place, s.attempts = Append(q.attempts, e),
         s.place = q.place + 1, s.at = "choosing", s.retry = 0, s.outcome = q.outcome,
         \/ e.kind \notin Answers /\ s.refused = q.refused
         \/ e.kind = "refusal" /\ s.refused = q.place /\ FallbackOnRefusal
  PROVE  Honest(s)
<1> DEFINE a == s.attempts
<1>1. /\ a \in Seq(Attempts)
      /\ \A i \in 1..Len(a) - 1 : a[i].kind # "text" /\ a[i].place <= a[i + 1].place
      /\ \A i \in DOMAIN a : a[i].place <= q.place
      /\ \A p \in Places : p <= q.place => p \in Tried(a)
      /\ Kinds(a) = Kinds(q.attempts) \cup {e.kind}
      /\ \A p \in Places : Cardinality(OfPlace(a, p)) <= AttemptRetries + 1
  <2>1. Extends(q, e, a)
    BY OneMoreAttempt
  <2> QED
    BY <2>1 DEF Extends
<1>2. Places \subseteq Nat \ {0} /\ \A i \in DOMAIN a : a[i].place \in Nat
  <2>1. Places \subseteq Nat \ {0} /\ \A x \in Attempts : x.place \in Places
    BY DEF Places, Attempts
  <2>2. \A i \in DOMAIN a : a[i] \in Attempts
    BY <1>1
  <2> QED
    BY <2>1, <2>2
<1>3. q.place \in Nat \ {0}
  BY <1>2
<1>4. \A i \in DOMAIN a : a[i].place < s.place /\ a[i].place <= s.place /\ a[i].place # s.place
  BY <1>1, <1>2, <1>3
<1>5. \A p \in Places : p < s.place => p \in Tried(a)
  <2>1. \A p \in Places : p < s.place => p <= q.place
    BY <1>2, <1>3
  <2> QED
    BY <2>1, <1>1
<1>6. OfPlace(a, s.place) = {} /\ s.place \notin Tried(a)
  BY <1>4 DEF OfPlace, Tried
<1>7. Cardinality(OfPlace(a, s.place)) = 0
  BY <1>6, FS_EmptySet, Zenon
<1>8. s.refused # 0 <=> "refusal" \in Kinds(a)
  BY <1>1, <1>3 DEF Pending, Answers
<1>9. "text" \notin Kinds(a) /\ ("refusal" \in Kinds(a) => FallbackOnRefusal)
  BY <1>1 DEF Pending, Answers
<1>10. Passed(s)
  BY <1>1, <1>4, <1>5 DEF Passed
<1>11. Pending(s)
  BY <1>6, <1>7, <1>8, <1>9 DEF Pending
<1>12. Concluded(s)
  BY DEF Concluded, Pending
<1> QED
  BY <1>10, <1>11, <1>12 DEF Honest

\* A request that tries its target again.
LEMMA AgainHonest ==
  ASSUME NEW q \in RequestStates, NEW s \in RequestStates, Passed(q), Pending(q),
         q.at \in {"choosing", "attempting", "waiting"}, q.place \in Places,
         NEW e \in Attempts, e.place = q.place, s.attempts = Append(q.attempts, e),
         s.place = q.place, s.at = "attempting", s.retry = q.retry + 1, s.outcome = q.outcome,
         e.kind \notin Answers, s.refused = q.refused
  PROVE  Honest(s)
<1> DEFINE a == s.attempts
<1>1. /\ a \in Seq(Attempts)
      /\ \A i \in 1..Len(a) - 1 : a[i].kind # "text" /\ a[i].place <= a[i + 1].place
      /\ \A i \in DOMAIN a : a[i].place <= q.place
      /\ \A p \in Places : p <= q.place => p \in Tried(a)
      /\ Kinds(a) = Kinds(q.attempts) \cup {e.kind}
      /\ Cardinality(OfPlace(a, q.place)) <= q.retry + 1
      /\ \A p \in Places : Cardinality(OfPlace(a, p)) <= AttemptRetries + 1
  <2>1. Extends(q, e, a)
    BY OneMoreAttempt
  <2> QED
    BY <2>1 DEF Extends
<1>2. \A p \in Places : p < q.place => p <= q.place
  BY DEF Places
<1>3. Passed(s)
  BY <1>1, <1>2 DEF Passed
<1>4. Pending(s)
  BY <1>1 DEF Pending, Answers
<1>5. Concluded(s)
  BY DEF Concluded, Pending
<1> QED
  BY <1>3, <1>4, <1>5 DEF Honest

\* A request that moves on within its current target.
LEMMA MoveHonest ==
  ASSUME NEW q \in RequestStates, NEW s \in RequestStates, Honest(q), q.at # "over",
         \/ s.at \in {"attempting", "waiting"}
         \/ q.at = "idle" /\ s.at = "choosing",
         s.place = q.place, s.retry = q.retry, s.refused = q.refused, s.outcome = q.outcome,
         s.attempts = q.attempts
  PROVE  Honest(s)
BY DEF Honest, Passed, Pending, Concluded

\* What the helpers of a request write.
LEMMA NextTargetWrites ==
  ASSUME GatewayInv, NEW r \in Requests, NEW refused, NEW attempts, NextTarget(r, refused, attempts)
  PROVE  /\ request'[r].at = "choosing" /\ request'[r].place = request[r].place + 1
         /\ request'[r].retry = 0 /\ request'[r].refused = refused
         /\ request'[r].outcome = request[r].outcome /\ request'[r].attempts = attempts
BY DEF GatewayInv, GatewayTypeOK, NextTarget

LEMMA ReturnWrites ==
  ASSUME GatewayInv, NEW r \in Requests, NEW outcome, NEW attempts, Return(r, outcome, attempts)
  PROVE  /\ request'[r].at = "over" /\ request'[r].place = request[r].place
         /\ request'[r].outcome = outcome /\ request'[r].attempts = attempts
BY DEF GatewayInv, GatewayTypeOK, Return

LEMMA MoveWrites ==
  ASSUME GatewayInv, NEW r \in Requests, NEW to, request' = [request EXCEPT ![r].at = to]
  PROVE  /\ request'[r].at = to /\ request'[r].place = request[r].place
         /\ request'[r].retry = request[r].retry /\ request'[r].refused = request[r].refused
         /\ request'[r].outcome = request[r].outcome /\ request'[r].attempts = request[r].attempts
BY DEF GatewayInv, GatewayTypeOK

\* The attempt that a request records.
LEMMA Recording ==
  ASSUME NEW r \in Requests, request[r].place \in Places, NEW kind \in Answers \cup Errors \cup Skips
  PROVE  \E e \in Attempts : /\ e.place = request[r].place /\ e.kind = kind
                             /\ Record(r, kind) = Append(request[r].attempts, e)
<1> DEFINE e == [place |-> request[r].place, kind |-> kind]
<1>1. e \in Attempts /\ e.place = request[r].place /\ e.kind = kind
  BY DEF Attempts
<1>2. Record(r, kind) = Append(request[r].attempts, e)
  BY DEF Record
<1> QED
  BY <1>1, <1>2

LEMMA FailedHonest ==
  ASSUME GatewayInv, GatewayInv', NEW r \in Requests, Honest(request[r]),
         request[r].at = "waiting", NEW k \in Errors, AttemptFailed(r, k)
  PROVE  Honest(request'[r])
<1>1. request[r] \in RequestStates /\ request'[r] \in RequestStates /\ request[r].place \in Places
  BY DEF GatewayInv, GatewayTypeOK, RequestStates, Placed
<1>2. Passed(request[r]) /\ Pending(request[r])
  BY DEF Honest
<1>3. PICK e \in Attempts : /\ e.place = request[r].place /\ e.kind = k
                            /\ Record(r, k) = Append(request[r].attempts, e)
  BY <1>1, Recording
<1>4. e.kind \notin Answers
  BY <1>3 DEF Errors, Answers
<1>5. CASE MayRetry(r, k)
  <2>1. request' = [request EXCEPT ![r].at = "attempting", ![r].retry = @ + 1, ![r].attempts = Record(r, k)]
    BY <1>5 DEF AttemptFailed
  <2>2. /\ request'[r].at = "attempting" /\ request'[r].place = request[r].place
        /\ request'[r].retry = request[r].retry + 1 /\ request'[r].refused = request[r].refused
        /\ request'[r].outcome = request[r].outcome /\ request'[r].attempts = Record(r, k)
    BY <2>1 DEF GatewayInv, GatewayTypeOK
  <2> QED
    BY <1>1, <1>2, <1>3, <1>4, <2>2, AgainHonest
<1>6. CASE ~MayRetry(r, k)
  <2>1. NextTarget(r, request[r].refused, Record(r, k))
    BY <1>6 DEF AttemptFailed
  <2>2. /\ request'[r].at = "choosing" /\ request'[r].place = request[r].place + 1
       /\ request'[r].retry = 0 /\ request'[r].refused = request[r].refused
       /\ request'[r].outcome = request[r].outcome /\ request'[r].attempts = Record(r, k)
    BY <2>1, NextTargetWrites
  <2> QED
    BY <1>1, <1>2, <1>3, <1>4, <2>2, NextHonest
<1> QED
  BY <1>5, <1>6

\* Every step of a request keeps it honest.
LEMMA RequestHonest ==
  ASSUME GatewayInv, GatewayInv', NEW r \in Requests, Honest(request[r]), Submit(r) \/ RequestStep(r)
  PROVE  Honest(request'[r])
<1>1. request[r] \in RequestStates /\ request'[r] \in RequestStates
  BY DEF GatewayInv, GatewayTypeOK, RequestStates
<1>2. CASE Submit(r)
  BY <1>1, <1>2, MoveWrites, MoveHonest DEF Submit, At
<1>3. CASE Choose(r)
  <2>1. request[r].at = "choosing" /\ request[r].place \in Places /\ Passed(request[r]) /\ Pending(request[r])
    BY <1>3 DEF Choose, At, Honest
  <2>2. CASE request' = [request EXCEPT ![r].at = "attempting"]
    BY <1>1, <2>1, <2>2, MoveWrites, MoveHonest
  <2>3. ASSUME NEW s \in Skips,
               IF s = "missing" /\ FailOnMissing THEN Return(r, "failed", Record(r, s))
               ELSE NextTarget(r, request[r].refused, Record(r, s))
        PROVE  Honest(request'[r])
    <3>1. PICK e \in Attempts : /\ e.place = request[r].place /\ e.kind = s
                                /\ Record(r, s) = Append(request[r].attempts, e)
      BY <2>1, Recording
    <3>2. CASE s = "missing" /\ FailOnMissing
      <4>1. Return(r, "failed", Record(r, s))
        BY <2>3, <3>2
      <4>2. /\ request'[r].at = "over" /\ request'[r].place = request[r].place
            /\ request'[r].outcome = "failed" /\ request'[r].attempts = Append(request[r].attempts, e)
        BY <3>1, <4>1, ReturnWrites
      <4> QED
        BY <1>1, <2>1, <3>1, <3>2, <4>2, AnswerHonest
    <3>3. CASE ~(s = "missing" /\ FailOnMissing)
      <4>1. NextTarget(r, request[r].refused, Record(r, s))
        BY <2>3, <3>3
      <4>2. e.kind \notin Answers
        BY <3>1 DEF Skips, Answers
      <4>3. /\ request'[r].at = "choosing" /\ request'[r].place = request[r].place + 1
           /\ request'[r].retry = 0 /\ request'[r].refused = request[r].refused
           /\ request'[r].outcome = request[r].outcome /\ request'[r].attempts = Append(request[r].attempts, e)
        BY <3>1, <4>1, NextTargetWrites
      <4> QED
        BY <1>1, <2>1, <3>1, <4>2, <4>3, NextHonest
    <3> QED
      BY <3>2, <3>3
  <2> QED
    BY <1>3, <2>2, <2>3 DEF Choose
<1>4. CASE Conclude(r)
  <2>1. /\ request[r].at = "choosing" /\ request[r].place \notin Places
        /\ Passed(request[r]) /\ Pending(request[r])
        /\ Return(r, IF request[r].refused # 0 THEN "refusal" ELSE "failed", request[r].attempts)
    BY <1>4 DEF Conclude, At, Honest
  <2> QED
    BY <1>1, <2>1, ReturnWrites, SpentHonest
<1>5. CASE Attempt(r)
  BY <1>1, <1>5, MoveWrites, MoveHonest DEF Attempt, At
<1>6. CASE Evaluate(r)
  <2>1. /\ request[r].at = "waiting" /\ request[r].place \in Places
        /\ Passed(request[r]) /\ Pending(request[r])
    BY <1>6 DEF Evaluate, At, Honest, GatewayInv, Placed
  <2>2. CASE /\ answer[r] = "text" \/ (answer[r] = "refusal" /\ ~FallbackOnRefusal)
             /\ Return(r, answer[r], Record(r, answer[r]))
    <3>1. PICK e \in Attempts : /\ e.place = request[r].place /\ e.kind = answer[r]
                                /\ Record(r, answer[r]) = Append(request[r].attempts, e)
      BY <2>1, <2>2, Recording DEF Answers
    <3>2. /\ request'[r].at = "over" /\ request'[r].place = request[r].place
          /\ request'[r].outcome = answer[r] /\ request'[r].attempts = Append(request[r].attempts, e)
      BY <2>2, <3>1, ReturnWrites
    <3> QED
      BY <1>1, <2>1, <2>2, <3>1, <3>2, AnswerHonest
  <2>3. CASE /\ answer[r] = "refusal" /\ FallbackOnRefusal
             /\ NextTarget(r, request[r].place, Record(r, "refusal"))
    <3>1. PICK e \in Attempts : /\ e.place = request[r].place /\ e.kind = "refusal"
                                /\ Record(r, "refusal") = Append(request[r].attempts, e)
      BY <2>1, Recording DEF Answers
    <3> QED
      BY <1>1, <2>1, <2>3, <3>1, NextTargetWrites, NextHonest
  <2>4. CASE answer[r] \in Errors /\ AttemptFailed(r, answer[r])
    BY <2>1, <2>4, FailedHonest
  <2> QED
    BY <1>6, <2>2, <2>3, <2>4 DEF Evaluate
<1>7. CASE AttemptTimesOut(r)
  BY <1>7, FailedHonest DEF AttemptTimesOut, At, Errors
<1>8. CASE Exhaust(r)
  <2>1. request[r].at # "over" /\ Return(r, "exhausted", request[r].attempts)
    BY <1>8 DEF Exhaust
  <2> QED
    BY <2>1, ReturnWrites DEF Honest, Passed, Concluded
<1> QED
  BY <1>2, <1>3, <1>4, <1>5, <1>6, <1>7, <1>8 DEF RequestStep

LEMMA RouteStep ==
  ASSUME GatewayInv, RouteInv, [Next]_vars
  PROVE  RouteInv'
<1>1. GatewayInv' /\ request \in [Requests -> RequestStates]
  BY GatewayStep DEF GatewayInv, GatewayTypeOK, RequestStates
<1>2. ASSUME NEW r \in Requests, Submit(r) \/ RequestStep(r)
      PROVE  \A q \in Requests \ {r} : request'[q] = request[q]
  BY <1>1, <1>2 DEF Submit, RequestStep, Choose, Conclude, Attempt, Evaluate, AttemptTimesOut, Exhaust,
                    AttemptFailed, NextTarget, Return
<1>3. ASSUME NEW r \in Requests, Submit(r) \/ RequestStep(r)
      PROVE  RouteInv'
  <2>1. Honest(request'[r])
    BY <1>1, <1>3, RequestHonest DEF RouteInv
  <2>2. \A q \in Requests \ {r} : request'[q] = request[q] /\ Honest(request[q])
    BY <1>2, <1>3 DEF RouteInv
  <2>3. \A q \in Requests \ {r} : Honest(request'[q])
    BY <2>2, Zenon
  <2> QED
    BY <2>1, <2>3 DEF RouteInv
<1>4. CASE UNCHANGED gateway
  BY <1>4 DEF RouteInv, gateway
<1>5. \/ \E r \in Requests : Submit(r) \/ RequestStep(r)
      \/ UNCHANGED gateway
  BY DEF Next, Arrive, Work, Environment, vars
<1> QED
  BY <1>3, <1>4, <1>5

LEMMA RouteInitially == GatewayInit => RouteInv
<1> SUFFICES ASSUME GatewayInit, NEW r \in Requests PROVE Honest(request[r])
  BY DEF RouteInv
<1>1. /\ request[r].at = "idle" /\ request[r].place = 1 /\ request[r].retry = 0 /\ request[r].refused = 0
      /\ request[r].outcome = "none" /\ request[r].attempts = <<>>
  BY DEF GatewayInit
<1>2. AttemptRetries \in Nat
  BY GatewayAssumption
<1>3. \A p \in Places : OfPlace(<<>>, p) = {}
  BY DEF OfPlace
<1>4. \A p \in Places : Cardinality(OfPlace(<<>>, p)) = 0
  BY <1>3, FS_EmptySet, Zenon
<1>5. Passed(request[r])
  BY <1>1, <1>2, <1>4 DEF Passed, Places
<1>6. Pending(request[r])
  BY <1>1, <1>4 DEF Pending, Kinds, Tried
<1> QED
  BY <1>1, <1>5, <1>6 DEF Honest, Concluded

LEMMA RouteInvariance == Spec => []RouteInv
<1>1. Init => RouteInv
  BY RouteInitially DEF Init
<1>2. GatewayInv /\ RouteInv /\ [Next]_vars => RouteInv'
  BY RouteStep
<1> QED
  BY <1>1, <1>2, CallsInvariance, PTL DEF Spec

\* A request to the gateway (gateway.py) returns what its record of attempts
\* says: targets in order, each within its retries, a kept refusal only after
\* every target, and a failure only when none has answered, for any route, any
\* number of retries and either policy.
THEOREM RoutesKept == Spec => []RouteHonoured
<1>1. RouteInv /\ GatewayInv => RouteHonoured
  <2> SUFFICES ASSUME RouteInv, GatewayInv PROVE RouteHonoured
    OBVIOUS
  <2>1. ASSUME NEW r \in Requests
        PROVE  Passed(request[r]) /\ Concluded(request[r])
    BY <2>1 DEF RouteInv, Honest
  <2> QED
    BY <2>1 DEF RouteHonoured, Passed, Concluded, Kinds, Tried, Last, StoppedShort
<1> QED
  BY <1>1, RouteInvariance, CallsInvariance, PTL

-----------------------------------------------------------------------------
(* Nobody waits in vain *)

\* Where a request, a loop or a task of a cache can go on by itself: the guards
\* of RequestStep, LoopStep and FlightStep without their effects.
CallOpen(k) == Joinable(k) \/ Unused # {}

FlightOpen(f) == flight[f] # NoFlight

RequestOpen(r) ==
  \/ r \in expired
  \/ At(r, "choosing")
  \/ At(r, "attempting") /\ CallOpen(Target(r))
  \/ At(r, "waiting") /\ Answered(r)

LoopOpen(l) ==
  \/ at[l] = "step" /\ (Refuses(ledger) \/ \E i \in Inputs : CallOpen(<<LoopModel, i>>))
  \/ at[l] = "waiting" /\ Answered(l)
  \/ at[l] = "tools" /\ why[l] # "none"
  \/ at[l] = "tools" /\ Running(l) \cap 1..MaxBatch # {}
  \/ at[l] = "tools" /\ Todo(l) # {} /\ Free(l)
  \/ at[l] = "tools" /\ Todo(l) = {} /\ Running(l) = {}
  \/ at[l] = "joining" /\ (Joined(l) \/ Running(l) \cap 1..MaxBatch # {})

\* A call that was made has a task that works for it, or has returned.
Heard(c) == awaiting[c] # NoFlight \/ answer[c] # "none"

Attended ==
  /\ \A r \in Requests : At(r, "waiting") => Heard(r)
  /\ \A l \in Loops : at[l] = "waiting" => Heard(l)

LEMMA CallHears ==
  ASSUME CallsInv, NEW c \in Callers, NEW k \in Keys, Call(c, k)
  PROVE  Heard(c)' /\ \A d \in Callers \ {c} : UNCHANGED <<awaiting[d], answer[d]>>
<1>1. PICK f \in Flights : awaiting' = [awaiting EXCEPT ![c] = f]
  <2>1. CASE Joinable(k)
    BY <2>1 DEF Call, Joinable, CallsInv, CallsTypeOK
  <2>2. CASE ~Joinable(k)
    <3>1. Unused # {} /\ Unused \subseteq Flights
      BY <2>2 DEF Call, Unused
    <3>2. (CHOOSE f \in Unused : TRUE) \in Flights
      BY <3>1
    <3> QED
      BY <2>2, <3>2 DEF Call
  <2> QED
    BY <2>1, <2>2
<1> QED
  BY <1>1, CallAssumption DEF Call, Heard, CallsInv, CallsTypeOK

LEMMA AbandonSpares ==
  ASSUME CallsInv, NEW c \in Callers, Abandon(c)
  PROVE  \A d \in Callers \ {c} : UNCHANGED <<awaiting[d], answer[d]>>
BY DEF Abandon, CallsInv, CallsTypeOK

\* A task that ends answers all who await it.
LEMMA FinishHears ==
  ASSUME CallsInv, NEW f, NEW a, a # "none", Finish(f, a), NEW c \in Callers, Heard(c)
  PROVE  Heard(c)'
BY DEF Finish, Waiters, Heard, CallsInv, CallsTypeOK

LEMMA FlightHears ==
  ASSUME CallsInv, NEW f \in Flights, FlightStep(f), NEW c \in Callers, Heard(c)
  PROVE  Heard(c)'
<1>1. \A task : Proceed(f, task) => Heard(c)'
  BY DEF Proceed, Heard
<1>2. \A a : Finish(f, a) /\ a # "none" => Heard(c)'
  BY FinishHears
<1>3. flight[f] # NoFlight
  BY DEF FlightStep, LookUp, ProviderAnswers, ObserverRaises, ProviderFails, DeadlineEnds, Store, Stage
<1>4. CASE LookUp(f)
  BY <1>1, <1>2, <1>4 DEF LookUp
<1>5. CASE ProviderAnswers(f) \/ ObserverRaises(f) \/ ProviderFails(f) \/ DeadlineEnds(f)
  BY <1>1, <1>2, <1>5 DEF ProviderAnswers, ObserverRaises, ProviderFails, DeadlineEnds
<1>6. CASE Store(f)
  <2>1. flight[f].result # "none"
    BY <1>3, <1>6 DEF Store, Stage, CallsInv, Resulted, Answers
  <2> QED
    BY <1>2, <1>6, <2>1 DEF Store
<1> QED
  BY <1>4, <1>5, <1>6 DEF FlightStep

\* A step of a request or a loop leaves the calls of the others alone.
LEMMA RequestAttends ==
  ASSUME CallsInv, GatewayInv, Attended, NEW r \in Requests, RequestStep(r), UNCHANGED loops
  PROVE  Attended'
<1>1. r \in Callers /\ Requests \subseteq Callers /\ Loops \subseteq Callers /\ r \notin Loops
  BY GatewayAssumption, LoopAssumption, GenerationAssumption
<1>2. \A q \in Requests \ {r} : request'[q] = request[q]
  BY DEF RequestStep, Choose, Conclude, Attempt, Evaluate, AttemptTimesOut, Exhaust, AttemptFailed,
     NextTarget, Return, GatewayInv, GatewayTypeOK
<1>3. UNCHANGED at
  BY DEF loops
<1>4. ASSUME Heard(r)' \/ ~At(r, "waiting")',
             \A d \in Callers \ {r} : UNCHANGED <<awaiting[d], answer[d]>>
      PROVE  Attended'
  BY <1>1, <1>2, <1>3, <1>4 DEF Attended, At, Heard
<1>5. CASE Attempt(r)
  <2>1. Target(r) \in Keys
    BY <1>5, GatewayAssumption DEF Attempt, At, Target, Keys, Places, GatewayInv, GatewayTypeOK, Placed
  <2> QED
    BY <1>1, <1>4, <1>5, <2>1, CallHears DEF Attempt
<1>6. CASE ~Attempt(r)
  <2>1. \A refused, attempts : NextTarget(r, refused, attempts) => ~At(r, "waiting")'
    BY NextTargetWrites DEF At
  <2>2. \A outcome, attempts : Return(r, outcome, attempts) => ~At(r, "waiting")'
    BY ReturnWrites DEF At
  <2>3. \A e : AttemptFailed(r, e) => ~At(r, "waiting")'
    <3> SUFFICES ASSUME NEW e, AttemptFailed(r, e)
                 PROVE  ~At(r, "waiting")'
      OBVIOUS
    <3>1. CASE MayRetry(r, e)
      BY <3>1 DEF AttemptFailed, At, GatewayInv, GatewayTypeOK
    <3>2. CASE ~MayRetry(r, e)
      BY <2>1, <3>2 DEF AttemptFailed
    <3> QED
      BY <3>1, <3>2
  <2>4. ASSUME request' = [request EXCEPT ![r].at = "attempting"] PROVE ~At(r, "waiting")'
    <3>1. request'[r].at = "attempting"
      BY <2>4, MoveWrites
    <3> QED
      BY <3>1 DEF At
  <2>5. ~At(r, "waiting")'
    BY <1>6, <2>1, <2>2, <2>3, <2>4 DEF RequestStep, Choose, Conclude, Evaluate, AttemptTimesOut, Exhaust
  <2>6. \A d \in Callers \ {r} : UNCHANGED <<awaiting[d], answer[d]>>
    BY <1>1, <1>6, AbandonSpares DEF RequestStep, Choose, Conclude, Evaluate, AttemptTimesOut, Exhaust, calls
  <2> QED
    BY <1>4, <2>5, <2>6
<1> QED
  BY <1>5, <1>6

LEMMA LoopAttends ==
  ASSUME CallsInv, Shape, Attended, NEW l \in Loops, LoopStep(l), UNCHANGED gateway
  PROVE  Attended'
<1>1. l \in Callers /\ Requests \subseteq Callers /\ Loops \subseteq Callers /\ l \notin Requests
  BY GatewayAssumption, LoopAssumption, GenerationAssumption
<1>2. UNCHANGED request
  BY DEF gateway
<1>3. at \in [Loops -> {"idle", "step", "waiting", "tools", "joining", "over"}]
  BY DEF Shape, LoopTypeOK
<1>4. ASSUME NEW to, at' = [at EXCEPT ![l] = to], to # "waiting" \/ Heard(l)',
             \A d \in Callers \ {l} : UNCHANGED <<awaiting[d], answer[d]>>
      PROVE  Attended'
  BY <1>1, <1>2, <1>3, <1>4 DEF Attended, At, Heard
<1>5. CASE UNCHANGED <<at, awaiting, answer>>
  BY <1>2, <1>5 DEF Attended, At, Heard
<1>6. CASE Step(l)
  <2>1. CASE at' = [at EXCEPT ![l] = "over"] /\ UNCHANGED calls
    BY <1>4, <2>1 DEF calls
  <2>2. CASE at' = [at EXCEPT ![l] = "waiting"] /\ \E i \in Inputs : Call(l, <<LoopModel, i>>)
    <3>1. PICK i \in Inputs : Call(l, <<LoopModel, i>>)
      BY <2>2
    <3>2. <<LoopModel, i>> \in Keys
      BY LoopAssumption DEF Keys
    <3> QED
      BY <1>1, <1>4, <2>2, <3>1, <3>2, CallHears
  <2> QED
    BY <1>6, <2>1, <2>2 DEF Step, End
<1>7. CASE Response(l)
  <2>1. UNCHANGED calls /\ \E to \in {"over", "tools"} : at' = [at EXCEPT ![l] = to]
    BY <1>7 DEF Response, End
  <2> QED
    BY <1>4, <2>1 DEF calls
<1>8. CASE CallFailed(l) \/ Cancel(l) \/ Join(l)
  <2>1. UNCHANGED calls /\ \E to \in {"over", "joining"} : at' = [at EXCEPT ![l] = to]
    BY <1>8 DEF CallFailed, Cancel, Join, End
  <2> QED
    BY <1>4, <2>1 DEF calls
<1>9. CASE EndBatch(l)
  <2>1. UNCHANGED calls /\ \E to \in {"over", "step"} : at' = [at EXCEPT ![l] = to]
    BY <1>9 DEF EndBatch, End
  <2> QED
    BY <1>4, <2>1 DEF calls
<1>10. CASE StartTool(l) \/ ToolStep(l)
  BY <1>5, <1>10 DEF StartTool, ToolStep, ToolReturns, ToolRaises, ToolSuspends, ToolStops, calls
<1>11. CASE Interrupt(l)
  <2>1. \E to \in {"over", "joining"} : at' = [at EXCEPT ![l] = to]
    BY <1>11 DEF Interrupt, End
  <2>2. \A d \in Callers \ {l} : UNCHANGED <<awaiting[d], answer[d]>>
    BY <1>1, <1>11, AbandonSpares DEF Interrupt
  <2> QED
    BY <1>4, <2>1, <2>2
<1> QED
  BY <1>6, <1>7, <1>8, <1>9, <1>10, <1>11 DEF LoopStep

LEMMA NextAttends ==
  ASSUME CallsInv, GatewayInv, Shape, Attended, [Next]_vars
  PROVE  Attended'
<1>1. Requests \subseteq Callers /\ Loops \subseteq Callers
  BY GatewayAssumption, LoopAssumption
<1>2. CASE UNCHANGED <<request, at, awaiting, answer>>
  BY <1>2 DEF Attended, At, Heard
<1>3. CASE Arrive
  <2>1. UNCHANGED <<awaiting, answer>>
    BY <1>3 DEF Arrive, Submit, Begin, calls
  <2>2. \A r \in Requests : At(r, "waiting")' => At(r, "waiting")
    BY <1>3 DEF Arrive, Submit, Begin, At, gateway, GatewayInv, GatewayTypeOK
  <2>3. \A l \in Loops : at'[l] = "waiting" => at[l] = "waiting"
    BY <1>3 DEF Arrive, Submit, Begin, loops, Shape, LoopTypeOK
  <2> QED
    BY <2>1, <2>2, <2>3 DEF Attended, Heard
<1>4. CASE \E f \in Flights : FlightStep(f) /\ UNCHANGED <<gateway, loops>>
  <2>1. \A c \in Callers : Heard(c) => Heard(c)'
    BY <1>4, FlightHears
  <2>2. UNCHANGED <<request, at>>
    BY <1>4 DEF gateway, loops
  <2> QED
    BY <1>1, <2>1, <2>2 DEF Attended, At
<1>5. CASE Environment \/ UNCHANGED vars
  BY <1>2, <1>5 DEF Environment, Expire, CoolDown, vars, calls, gateway, loops
<1> QED
  BY <1>3, <1>4, <1>5, RequestAttends, LoopAttends DEF Next, Work

\* Workers that are all taken are running or have raised.
LEMMA BatchOpen ==
  ASSUME Shape, NEW l \in Loops, at[l] \in {"tools", "joining"}
  PROVE  LoopOpen(l)
<1>1. Running(l) \subseteq 1..MaxBatch
  <2>1. batch[l] \in Seq(Tool) /\ Len(batch[l]) <= MaxBatch
    BY DEF Shape, LoopTypeOK, Small
  <2>2. DOMAIN batch[l] = 1..Len(batch[l]) /\ Len(batch[l]) \in Nat /\ MaxBatch \in Nat
    BY <2>1, LoopAssumption
  <2> QED
    BY <2>1, <2>2 DEF Running
<1>2. CASE Running(l) # {}
  BY <1>1, <1>2 DEF LoopOpen
<1>3. CASE Running(l) = {} /\ at[l] = "joining"
  BY <1>3 DEF LoopOpen, Joined
<1>4. CASE Running(l) = {} /\ at[l] = "tools" /\ why[l] # "none"
  BY <1>4 DEF LoopOpen
<1>5. CASE Running(l) = {} /\ at[l] = "tools" /\ why[l] = "none"
  <2>1. Busy(l) = {}
    BY <1>5 DEF Busy, Running, Shape, Sound
  <2>2. Cardinality(Busy(l)) < MaxConcurrency
    BY <2>1, FS_EmptySet, LoopAssumption
  <2>3. Free(l)
    BY <1>5, <2>2 DEF Free
  <2> QED
    BY <1>5, <2>3 DEF LoopOpen
<1> QED
  BY <1>2, <1>3, <1>4, <1>5

\* Whoever made a call either has its answer or awaits a task that works.
LEMMA HeardOpen ==
  ASSUME CallsInv, NEW c \in Callers, Heard(c)
  PROVE  Answered(c) \/ (awaiting[c] \in Flights /\ FlightOpen(awaiting[c]))
BY DEF Heard, Answered, FlightOpen, CallsInv, CallsTypeOK, WaitersServed

\* Where a request or a loop is not over, it can go on, or the task that it
\* awaits can; before it calls a model it may have to wait for a task of
\* another call, which can go on.
GoesOn ==
  /\ \A r \in Requests : request[r].at \notin {"idle", "over"} =>
       \/ RequestOpen(r)
       \/ At(r, "waiting") /\ awaiting[r] \in Flights /\ FlightOpen(awaiting[r])
       \/ At(r, "attempting") /\ \E f \in Flights : FlightOpen(f)
  /\ \A l \in Loops : at[l] \notin {"idle", "over"} =>
       \/ LoopOpen(l)
       \/ at[l] = "waiting" /\ awaiting[l] \in Flights /\ FlightOpen(awaiting[l])
       \/ at[l] = "step" /\ \E f \in Flights : FlightOpen(f)

LEMMA AttendedGoesOn ==
  ASSUME CallsInv, GatewayInv, Shape, Attended, Flights # {}, Inputs # {}
  PROVE  GoesOn
<1>1. \A k : CallOpen(k) \/ \E f \in Flights : FlightOpen(f)
  BY DEF CallOpen, Unused, FlightOpen
<1>2. ASSUME NEW r \in Requests, request[r].at \notin {"idle", "over"}
      PROVE  \/ RequestOpen(r)
             \/ At(r, "waiting") /\ awaiting[r] \in Flights /\ FlightOpen(awaiting[r])
             \/ At(r, "attempting") /\ \E f \in Flights : FlightOpen(f)
  <2>1. At(r, "choosing") \/ At(r, "attempting") \/ At(r, "waiting")
    BY <1>2 DEF At, GatewayInv, GatewayTypeOK
  <2>2. r \in Callers
    BY GatewayAssumption
  <2>3. CASE At(r, "choosing") \/ At(r, "attempting")
    BY <1>1, <2>3 DEF RequestOpen
  <2>4. CASE At(r, "waiting")
    BY <2>2, <2>4, HeardOpen DEF Attended, RequestOpen
  <2> QED
    BY <2>1, <2>3, <2>4
<1>3. ASSUME NEW l \in Loops, at[l] \notin {"idle", "over"}
      PROVE  \/ LoopOpen(l)
             \/ at[l] = "waiting" /\ awaiting[l] \in Flights /\ FlightOpen(awaiting[l])
             \/ at[l] = "step" /\ \E f \in Flights : FlightOpen(f)
  <2>1. at[l] \in {"step", "waiting", "tools", "joining"} /\ l \in Callers
    BY <1>3, LoopAssumption DEF Shape, LoopTypeOK
  <2>2. CASE at[l] = "step"
    BY <1>1, <2>2 DEF LoopOpen
  <2>3. CASE at[l] = "waiting"
    BY <2>1, <2>3, HeardOpen DEF Attended, LoopOpen
  <2> QED
    BY <2>1, <2>2, <2>3, BatchOpen
<1> QED
  BY <1>2, <1>3 DEF GoesOn

\* Nobody waits for a call that nobody works for, or for a worker that has
\* gone, whatever calls fail, expire or are abandoned: every request and every
\* loop that is not over can go on by itself, or the task that it waits for
\* can.  NobodyStuck says as much in terms of ENABLED.
THEOREM NobodyWaitsInVain == Spec => [](Flights # {} /\ Inputs # {} => GoesOn)
<1>1. Init => Attended
  BY DEF Init, GatewayInit, LoopInit, Attended, At
<1>2. CallsInv /\ GatewayInv /\ LoopInv /\ Attended /\ [Next]_vars => Attended'
  BY NextAttends DEF LoopInv
<1>3. CallsInv /\ GatewayInv /\ LoopInv /\ Attended => (Flights # {} /\ Inputs # {} => GoesOn)
  BY AttendedGoesOn DEF LoopInv
<1> QED
  BY <1>1, <1>2, <1>3, CallsInvariance, LoopInvariance, PTL DEF Spec
=============================================================================
