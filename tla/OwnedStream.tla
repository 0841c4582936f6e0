----------------------------- MODULE OwnedStream -----------------------------
(***************************************************************************)
(* A stream that owns the task which produces its events: OwnedStream of   *)
(* _streaming.py with the runners of stream_text, stream_object and        *)
(* stream_agent.  A runner publishes, then closes the broadcast in its     *)
(* finally; aclose cancels and joins it; a collect that is cancelled       *)
(* cancels the runner it awaits.                                           *)
(***************************************************************************)
EXTENDS Broadcast

CONSTANTS
  Closers,    \* calls of aclose
  Collectors, \* calls of collect
  ErrorEvent, \* published by a runner that fails
  MaxEvents   \* bound: events of the runner

ASSUME StreamAssumption == ErrorEvent \in Events /\ MaxEvents \in Nat

VARIABLES
  runner,    \* the runner task
  doomed,    \* has it been cancelled
  result,    \* what it returned or raised
  closer,    \* where each aclose is
  collector  \* where each collect is, or what it returned

owned == <<runner, doomed, result, closer, collector>>
streamVars == <<broadcast, owned>>

\* A task is created, runs, runs its finally, and is done.
Runners == {"none", "created", "running", "unwinding", "done"}

Results == {"none", "result", "error", "cancelled"}

StreamTypeOK ==
  /\ BroadcastTypeOK
  /\ runner \in Runners
  /\ doomed \in BOOLEAN
  /\ result \in Results
  /\ closer \in [Closers -> {"idle", "joining", "closed", "interrupted"}]
  /\ collector \in [Collectors -> {"idle", "waiting"} \cup (Results \ {"none"})]

\* The stream exists when its task is created, and not before.
StreamInit(r) ==
  /\ BroadcastInit
  /\ runner = r
  /\ doomed = FALSE
  /\ result = "none"
  /\ closer = [a \in Closers |-> "idle"]
  /\ collector = [a \in Collectors |-> "idle"]

Over == runner = "done"

\* The task is scheduled for the first time.  When it was cancelled before
\* that, its body never runs, and neither does the finally.
RunnerStarts ==
  /\ runner = "created"
  /\ IF doomed THEN runner' = "done" /\ result' = "cancelled"
               ELSE runner' = "running" /\ UNCHANGED result
  /\ UNCHANGED <<broadcast, doomed, closer, collector>>

RunnerPublishes ==
  /\ runner = "running" /\ ~doomed
  /\ Len(feed) < MaxEvents
  /\ \E e \in Events \ {ErrorEvent} : Publish(e)
  /\ UNCHANGED owned

\* The body ends: it returns, raises an error it may have published an event
\* for, or is interrupted by the cancellation.
RunnerEnds ==
  /\ runner = "running"
  /\ \/ ~doomed /\ result' = "result" /\ UNCHANGED broadcast
     \/ ~doomed /\ result' = "error" /\ UNCHANGED broadcast
     \/ ~doomed /\ result' = "error" /\ Publish(ErrorEvent)
     \/ doomed /\ result' = "cancelled" /\ UNCHANGED broadcast
  /\ runner' = "unwinding"
  /\ UNCHANGED <<doomed, closer, collector>>

\* Mutant: the broadcast is closed when the runner succeeds.
Closes_Success == IF result = "result" THEN Close ELSE UNCHANGED broadcast

\* finally: await broadcast.close()
Closes == Close

RunnerFinally ==
  /\ runner = "unwinding"
  /\ Closes
  /\ runner' = "done"
  /\ UNCHANGED <<doomed, result, closer, collector>>

\* Task.cancel
CancelRunner == doomed' = (doomed \/ ~Over)

\* aclose: cancel what is not done, and join it.
Aclose(a) ==
  /\ closer[a] = "idle"
  /\ runner # "none"
  /\ CancelRunner
  /\ closer' = [closer EXCEPT ![a] = "joining"]
  /\ UNCHANGED <<broadcast, runner, result, collector>>

\* Mutant: aclose does not join the runner.
Joined_Always == TRUE

Joined == Over

AcloseJoins(a) ==
  /\ closer[a] = "joining"
  /\ Joined
  /\ Close
  /\ closer' = [closer EXCEPT ![a] = "closed"]
  /\ UNCHANGED <<runner, doomed, result, collector>>

\* The caller of aclose is itself cancelled while it joins: the broadcast is
\* left to the runner.
AcloseInterrupted(a) ==
  /\ closer[a] = "joining"
  /\ closer' = [closer EXCEPT ![a] = "interrupted"]
  /\ UNCHANGED <<broadcast, runner, doomed, result, collector>>

Collect(a) ==
  /\ collector[a] = "idle"
  /\ runner # "none"
  /\ collector' = [collector EXCEPT ![a] = "waiting"]
  /\ UNCHANGED <<broadcast, runner, doomed, result, closer>>

Collected(a) ==
  /\ collector[a] = "waiting"
  /\ Over
  /\ collector' = [collector EXCEPT ![a] = result]
  /\ UNCHANGED <<broadcast, runner, doomed, result, closer>>

\* collect awaits the task itself: its cancellation is the task's.
CollectInterrupted(a) ==
  /\ collector[a] = "waiting" /\ ~Over
  /\ CancelRunner
  /\ collector' = [collector EXCEPT ![a] = "cancelled"]
  /\ UNCHANGED <<broadcast, runner, result, closer>>

Produce == RunnerStarts \/ RunnerPublishes \/ RunnerEnds \/ RunnerFinally

Control ==
  \/ \E a \in Closers : Aclose(a) \/ AcloseJoins(a) \/ AcloseInterrupted(a)
  \/ \E a \in Collectors : Collect(a) \/ Collected(a) \/ CollectInterrupted(a)

\* The runner does not depend on those who read its events.
Left == UNCHANGED owned

Read ==
  \E c \in Consumers :
    \/ Pull(c) /\ UNCHANGED owned
    \/ Leave(c) /\ Left

Init == StreamInit("created")

Next == Produce \/ Control \/ Read

\* The event loop runs what is ready: the runner's steps, readers that are
\* asked for their next event, joins and collections of a finished task.
Spec ==
  /\ Init /\ [][Next]_streamVars
  /\ WF_streamVars(Produce)
  /\ \A c \in Consumers : WF_streamVars(Pull(c) /\ UNCHANGED owned)
  /\ \A a \in Closers : WF_streamVars(AcloseJoins(a))
  /\ \A a \in Collectors : WF_streamVars(Collected(a))

-----------------------------------------------------------------------------
\* A stream whose aclose has returned is over, with everything upstream
\* cleaned up, and its readers are not left waiting.
ClosedIsOver ==
  (\E a \in Closers : closer[a] = "closed") =>
    /\ Over /\ done
    /\ \A c \in Consumers : phase[c] # "waiting"

\* A runner is cancelled by those who own the stream, never because readers
\* give up or fall behind.
OnlyOwnersCancel ==
  doomed \/ result = "cancelled" =>
    \/ \E x \in Closers : closer[x] # "idle"
    \/ \E x \in Collectors : collector[x] = "cancelled"

\* Readers of a stream do not wait for ever, unless the runner was cancelled
\* before it ever ran and nobody has closed the stream since; collect returns
\* whether anybody reads or not.
StreamSettles ==
  /\ \A c \in Consumers :
       <>(phase[c] # "ready" /\ (phase[c] # "waiting" \/ (Over /\ ~done /\ feed = <<>>)))
  /\ \A a \in Collectors : collector[a] = "waiting" ~> collector[a] # "waiting"
=============================================================================
