------------------------------- MODULE LiveRun -------------------------------
(***************************************************************************)
(* A live agent run (_agent_live.py): one task connects a realtime         *)
(* session, prompts it, reads its events, executes the tools it asks for   *)
(* and ends at the first answer, while updates go over the same session,   *)
(* operators cancel the run in the store or through its token, and the     *)
(* owner of the stream or a deadline cancels the task.                     *)
(*                                                                         *)
(* A cancelled task is interrupted at the await where it is, so no other   *)
(* step of it follows the cancellation.                                    *)
(***************************************************************************)
EXTENDS RealtimeSession

CONSTANTS
  Run,          \* the run, as the reader of its session
  LocalTools,   \* calls of tools that the agent has
  MaxTurns,     \* run_limits.max_steps
  MaxCancels    \* bound: cancellations, of the task, the token or the stored run

ASSUME LiveAssumption ==
  /\ Run \in Consumers
  /\ LocalTools \subseteq Calls
  /\ MaxTurns \in Nat \ {0}
  /\ MaxCancels \in Nat

VARIABLES
  pc,         \* where the run is
  status,     \* its stored status
  future,     \* live_session_future
  doomed,     \* the task is cancelled and has not noticed yet
  cancels,    \* counts towards MaxCancels
  expired,    \* the deadline of its execution scope is over
  token,      \* its AgentCancellationToken is cancelled
  seen,       \* seen_tool_calls: the calls it has taken up
  awaiting,   \* awaiting_tool_response
  turns,      \* completed_response_steps
  ran,        \* calls whose tools it has invoked, in order
  delivered,  \* calls whose results were sent, in order
  outcome     \* what its caller is given

run == <<pc, status, future, doomed, cancels, expired, token>>
loop == <<seen, awaiting, turns, ran, delivered>>
vars == <<session, updates, run, loop, outcome>>

Boundaries == {"connecting", "prompting", "reading", "read", "delivering", "sending",
               "delivered"}

Handlers == {"suspending", "cancelling", "interrupting", "failing"}

PCs == {"created", "saving", "preparing", "tool", "executing", "finishing",
        "closing", "over"} \cup Boundaries \cup Handlers

\* A run is "cut" by a cancellation before its first step or in a handler, and
\* has "raised" when a hook failed while it suspended.
Outcomes == {"none", "completed", "suspended", "cancelled", "failed", "cut", "raised", "adopted"}

LiveTypeOK ==
  /\ SessionTypeOK
  /\ pc \in PCs
  /\ status \in {"none", "running", "suspended", "completed", "failed", "cancelled"}
  /\ future \in {"pending", "set", "failed", "cancelled"}
  /\ doomed \in BOOLEAN
  /\ cancels \in 0..MaxCancels
  /\ expired \in BOOLEAN
  /\ token \in BOOLEAN
  /\ seen \in SUBSET (Calls \X Args)
  /\ awaiting \in BOOLEAN
  /\ turns \in 0..MaxTurns
  /\ ran \in Seq(Calls)
  /\ delivered \in Seq(Calls)
  /\ outcome \in Outcomes

Init ==
  /\ SessionInit
  /\ pc = "created"
  /\ status = "none"
  /\ future = "pending"
  /\ doomed = FALSE
  /\ cancels = 0
  /\ expired = FALSE
  /\ token = FALSE
  /\ seen = {}
  /\ awaiting = FALSE
  /\ turns = 0
  /\ ran = <<>>
  /\ delivered = <<>>
  /\ outcome = "none"

Over == pc = "over"

\* _raise_if_agent_run_cancelled: the token, then the stored status.
Noticed == token \/ status = "cancelled"

\* The run is at p and was not cancelled there.
At(p) == pc = p /\ ~doomed

Goto(p) == pc' = p /\ UNCHANGED <<status, future, doomed, cancels, expired, token, outcome>>

Stay == UNCHANGED <<session, updates, loop>>

\* _prepare_state_update accepts a state of the first revision.
CanSave == status \in {"none", "running"}

\* The caller is given o, and the finally of the run is next.
Ends(s, o) ==
  /\ pc' = "closing"
  /\ status' = s
  /\ outcome' = o
  /\ UNCHANGED <<future, cancels, expired, token>>

-----------------------------------------------------------------------------
(* Starting and connecting *)

\* A task that was cancelled before its first step runs nothing at all.
Start ==
  /\ pc = "created"
  /\ IF doomed THEN pc' = "over" /\ outcome' = "cut" ELSE pc' = "saving" /\ UNCHANGED outcome
  /\ UNCHANGED <<status, future, doomed, cancels, expired, token>> /\ Stay

\* The run is stored, or its key is that of another run, whose state is the
\* result of this one.
Save ==
  /\ At("saving")
  /\ \/ pc' = "preparing" /\ status' = "running" /\ UNCHANGED <<future, outcome>>
     \/ pc' = "closing" /\ future' = "cancelled" /\ outcome' = "adopted" /\ UNCHANGED status
  /\ UNCHANGED <<doomed, cancels, expired, token>> /\ Stay

\* Skills, hooks, instructions and input guards, any of which may raise.
Prepare ==
  /\ At("preparing")
  /\ \/ Noticed /\ Goto("cancelling") /\ UNCHANGED session
     \/ Goto("failing") /\ UNCHANGED session
     \/ /\ Goto("connecting")
        /\ conn' = "opening"
        /\ UNCHANGED <<broadcast, receiver, closed, ended, closing>>
  /\ UNCHANGED <<updates, loop>>

\* connect is a task of its own; the run may not have looked at its result.
Connecting ==
  /\ pc = "connecting"
  /\ Opened \/ Greeted
  /\ UNCHANGED <<run, outcome, updates, loop>>

ConnectFails ==
  /\ At("connecting")
  /\ NotConnected
  /\ Goto("failing")
  /\ UNCHANGED <<updates, loop>>

Connected ==
  /\ At("connecting") /\ conn = "ready"
  /\ pc' = "prompting"
  /\ future' = "set"
  /\ UNCHANGED <<status, doomed, cancels, expired, token, outcome>> /\ Stay

\* What the run awaits is cancelled with it.  A session that has just been
\* connected, and that the run has not been given, is dropped as it is.
Abandon ==
  IF pc = "connecting" /\ conn \in {"opening", "greeting"}
  THEN NotConnected ELSE UNCHANGED session

LeaveBoundary(p) ==
  /\ pc \in Boundaries /\ ~doomed
  /\ Goto(p)
  /\ Abandon
  /\ UNCHANGED <<updates, loop>>

\* await_boundary: between two looks at what it awaits the run notices that
\* it is cancelled, or that its wall time is over.
Notice == Noticed /\ LeaveBoundary("cancelling")

WallTimeOver == LeaveBoundary("failing")

\* The prompt, if there is one, is sent, or sending it raises.
Prompt ==
  /\ At("prompting")
  /\ Goto("reading") \/ Goto("failing")
  /\ Stay

-----------------------------------------------------------------------------
(* The loop *)

\* The next event is there, the run goes on waiting, the session is over, or
\* the run has fallen behind the retained events.
ReadEvent ==
  /\ At("reading")
  /\ Pull(Run)
  /\ CASE got'[Run] # got[Run] -> Goto("read")
       [] phase'[Run] = "waiting" -> UNCHANGED <<run, outcome>>
       [] OTHER -> Goto("failing")
  /\ UNCHANGED <<conn, receiver, closed, ended, closing, updates, loop>>

Event == got[Run][Len(got[Run])]

TakenUp(c) == \E a \in Args : <<c, a>> \in seen

\* The first call with its id is taken up; a repetition of it is ignored.
ReadCall ==
  /\ Event.kind = "call"
  /\ LET c == Event.call IN
     IF TakenUp(c)
     THEN /\ Goto(IF <<c, Event.args>> \in seen THEN "reading" ELSE "failing")
          /\ UNCHANGED <<seen, awaiting>>
     ELSE /\ Goto(IF c \in LocalTools THEN "tool" ELSE "delivering")
          /\ seen' = seen \cup {<<c, Event.args>>}
          /\ awaiting' = TRUE
  /\ UNCHANGED <<turns, ran, delivered>>

ReadOutput ==
  /\ Event.kind = "output"
  /\ awaiting' = FALSE
  /\ Goto("reading")
  /\ UNCHANGED <<seen, turns, ran, delivered>>

\* Mutant: the end of the response that asked for tools ends the run.
Answers_Any == Event.kind = "answered"

\* The response is not the one that asked for tools.
Answers == Event.kind = "answered" /\ ~awaiting

\* The end of a response: the run finishes, or goes on unless another turn
\* would exceed max_steps.
ReadEnd ==
  /\ Event.kind \in {"answered", "turn"}
  /\ turns' = turns + 1
  /\ Goto(IF Answers THEN "finishing" ELSE IF turns' >= MaxTurns THEN "failing" ELSE "reading")
  /\ UNCHANGED <<seen, awaiting, ran, delivered>>

ReadOther ==
  /\ Event.kind \in {"started", "result", "error", "ended"}
  /\ Goto(IF Event.kind \in {"error", "ended"} THEN "failing" ELSE "reading")
  /\ UNCHANGED loop

\* The run looks for a cancellation, then at the event.
Process ==
  /\ At("read") /\ ~Noticed
  /\ ReadCall \/ ReadOutput \/ ReadEnd \/ ReadOther
  /\ UNCHANGED <<session, updates>>

\* A tool needs an approval and suspends the run, or is invoked.
InvokeTool ==
  /\ At("tool")
  /\ \/ Noticed /\ Goto("cancelling") /\ UNCHANGED ran
     \/ ~Noticed /\ Goto("failing") /\ UNCHANGED ran
     \/ ~Noticed /\ Goto("suspending") /\ UNCHANGED ran
     \/ ~Noticed /\ Goto("executing") /\ ran' = Append(ran, Event.call)
  /\ UNCHANGED <<session, updates, seen, awaiting, turns, delivered>>

\* The tool returns; an error may end the run (stop_on_error, an unknown
\* outcome), and a subagent may suspend it.
ToolReturns ==
  /\ At("executing")
  /\ \/ Noticed /\ Goto("cancelling")
     \/ ~Noticed /\ Goto("delivering")
     \/ Goto("failing")
     \/ Goto("suspending")
  /\ Stay

\* A session that is closed or over takes no more results.
Send ==
  /\ At("delivering")
  /\ Goto(IF Refuses THEN "failing" ELSE "sending")
  /\ Stay

\* The result is sent, although the session may have ended meanwhile.
Deliver ==
  /\ At("sending")
  /\ conn = "ready"
  /\ SendResult(Event.call)
  /\ delivered' = Append(delivered, Event.call)
  /\ Goto("delivered")
  /\ UNCHANGED <<updates, seen, awaiting, turns, ran>>

\* The transport fails.
DeliveryFails ==
  /\ At("sending")
  /\ Goto("failing")
  /\ Stay

Delivered ==
  /\ At("delivered")
  /\ Goto("reading")
  /\ Stay

-----------------------------------------------------------------------------
(* Ways out *)

\* Output guards, memory and hooks, then the last save.
Finish ==
  /\ At("finishing")
  /\ \/ Noticed /\ Goto("cancelling")
     \/ Goto("failing")
     \/ CanSave /\ Ends("completed", "completed") /\ UNCHANGED doomed
  /\ Stay

\* except ToolExecutionSuspended.  A hook that raises, or a cancellation that
\* wins, leaves the handler without a state being recorded by it.
Suspend ==
  /\ At("suspending")
  /\ IF CanSave THEN Ends("suspended", "suspended") ELSE Ends(status, "cancelled")
  /\ UNCHANGED doomed /\ Stay

SuspendHookFails ==
  /\ At("suspending")
  /\ Ends(status, "raised")
  /\ UNCHANGED doomed /\ Stay

\* except AgentRunCancelled, or CancelledError before the deadline.
PersistCancelled ==
  /\ pc \in {"cancelling", "interrupting"} /\ ~doomed
  /\ Ends(IF status = "running" THEN "cancelled" ELSE status, "cancelled")
  /\ UNCHANGED doomed /\ Stay

\* Any other exception.  Those who wait for the session are given the error,
\* unless the state could not be saved.
Fail ==
  /\ At("failing")
  /\ pc' = "closing"
  /\ status' = IF CanSave THEN "failed" ELSE status
  /\ future' = IF CanSave /\ future = "pending" THEN "failed" ELSE future
  /\ outcome' = IF status = "cancelled" THEN "cancelled" ELSE "failed"
  /\ UNCHANGED <<doomed, cancels, expired, token>> /\ Stay

\* The statuses that an interrupted save may leave behind.
Maybe(s) == {status, IF CanSave THEN s ELSE status}

\* The cancellation reaches the run at an await of its body.  It is a failure
\* if the deadline of the scope is over.
Interrupted ==
  /\ doomed /\ pc \notin Handlers \cup {"created", "closing", "over"}
  /\ pc' = IF expired THEN "failing" ELSE "interrupting"
  /\ status' \in CASE pc = "saving" -> Maybe("running")
                   [] pc = "finishing" -> Maybe("completed")
                   [] OTHER -> {status}
  /\ doomed' = FALSE
  /\ Abandon
  /\ UNCHANGED <<future, cancels, expired, token, outcome, updates, loop>>

\* The cancellation reaches a handler, which may have recorded the end.
HandlerInterrupted ==
  /\ doomed /\ pc \in Handlers
  /\ \E s \in Maybe(CASE pc = "suspending" -> "suspended" [] pc = "failing" -> "failed"
                      [] OTHER -> "cancelled") :
       Ends(s, "cut")
  /\ doomed' = FALSE
  /\ Stay

\* Mutant: a session is closed when its run completes.
Given_Completed == future = "set" /\ status = "completed"

\* `if live_session is not None`
Given == future = "set"

\* finally: await live_session.aclose()
Closing ==
  /\ pc = "closing"
  /\ \/ Given /\ CloseSession /\ UNCHANGED <<run, outcome>>
     \/ /\ Shut
        /\ doomed' = FALSE
        /\ UNCHANGED <<pc, status, future, cancels, expired, token, outcome>>
     \/ doomed /\ JoinInterrupted /\ UNCHANGED <<run, outcome>>
     \/ ~doomed /\ Joined /\ UNCHANGED <<run, outcome>>
  /\ UNCHANGED <<updates, loop>>

\* The finally of the runner: whoever waits for a session is told that there
\* is none.
Return ==
  /\ pc = "closing"
  /\ Given => closing \in {"closed", "cut"}
  /\ pc' = "over"
  /\ future' = IF future = "pending" THEN "cancelled" ELSE future
  /\ doomed' = FALSE
  /\ UNCHANGED <<status, cancels, expired, token, outcome>> /\ Stay

-----------------------------------------------------------------------------
(* Everybody else *)

\* Cancellations and long sessions are looked at separately.
Trouble ==
  /\ ~Over
  /\ cancels < MaxCancels /\ Received <= FewEvents
  /\ cancels' = cancels + 1

\* aclose of the stream, a cancelled collect, or the deadline of the scope.
CancelTask ==
  /\ Trouble
  /\ doomed' = TRUE
  /\ expired' \in {expired, TRUE}
  /\ UNCHANGED <<pc, status, future, token, outcome>> /\ Stay

CancelToken ==
  /\ ~token /\ Trouble
  /\ token' = TRUE
  /\ UNCHANGED <<pc, status, future, doomed, expired, outcome>> /\ Stay

\* cancel_agent_run
CancelRun ==
  /\ status = "running" /\ Trouble
  /\ status' = "cancelled"
  /\ UNCHANGED <<pc, future, doomed, expired, token, outcome>> /\ Stay

\* LiveAgentStreamResult.update waits for the session, which may never be.
UpdateStep(u) ==
  /\ \/ future = "set" /\ (StartUpdate(u) \/ FinishUpdate(u) \/ FailUpdate(u))
     \/ /\ future \in {"failed", "cancelled"} /\ updater[u] = "waiting"
        /\ Told(u, "failed")
        /\ UNCHANGED <<config, wire, holder, plan>>
  /\ UNCHANGED <<session, run, loop, outcome>>

RunStep ==
  \/ Start \/ Save \/ Prepare \/ Connecting \/ ConnectFails \/ Connected \/ Notice
  \/ Prompt \/ ReadEvent \/ Process \/ InvokeTool \/ ToolReturns \/ Send \/ Deliver
  \/ DeliveryFails \/ Delivered \/ Finish \/ Suspend \/ SuspendHookFails \/ PersistCancelled \/ Fail
  \/ Interrupted \/ HandlerInterrupted \/ Closing \/ Return

SessionUnwinds == ReceiverUnwinds /\ UNCHANGED <<updates, run, loop, outcome>>

SessionStep ==
  /\ \/ Receive /\ (cancels = 0 \/ Received < FewEvents)
     \/ ReceiverEnds
  /\ UNCHANGED <<updates, run, loop, outcome>>

Next ==
  \/ RunStep \/ WallTimeOver \/ SessionStep \/ SessionUnwinds
  \/ CancelTask \/ CancelToken \/ CancelRun
  \/ \E u \in Updaters : UpdateStep(u)

\* The tasks of the loop are scheduled, tools, sends and attempts to connect
\* return or raise, and a cancelled receiver unwinds.  The provider promises
\* no event.
Spec ==
  /\ Init /\ [][Next]_vars
  /\ WF_vars(RunStep)
  /\ WF_vars(SessionUnwinds)

-----------------------------------------------------------------------------
(* What the run has read *)

IsCall(i) == got[Run][i].kind = "call"

\* The i-th event asks for what was not asked for before.
NewCall(i) ==
  /\ IsCall(i)
  /\ \A j \in 1..i - 1 : IsCall(j) => got[Run][j].call # got[Run][i].call

AsksFirst(i, c) == NewCall(i) /\ got[Run][i].call = c

\* The i-th event ends a response, and there was output since the last call
\* that was new.
AnswerAt(i) ==
  /\ got[Run][i].kind = "answered"
  /\ \A a \in 1..i - 1 : NewCall(a) =>
       \E k \in a + 1..i - 1 : got[Run][k].kind = "output"

OnceInOrder(s) ==
  /\ \A i \in DOMAIN s : \E a \in DOMAIN got[Run] : AsksFirst(a, s[i])
  /\ \A i, j \in DOMAIN s : i < j =>
       \A a, b \in DOMAIN got[Run] : AsksFirst(a, s[i]) /\ AsksFirst(b, s[j]) => a < b

Among(c, s) == \E i \in DOMAIN s : s[i] = c

\* What was executed was sent, but for the last result; what is sent of a tool
\* of the agent was executed.
OneAtATime ==
  /\ \A i \in DOMAIN ran : i < Len(ran) => Among(ran[i], delivered)
  /\ \A i \in DOMAIN delivered : delivered[i] \in LocalTools => Among(delivered[i], ran)

\* Everything asked for is answered, and nothing but the last event could have
\* ended the run.
Answered ==
  /\ \A i \in DOMAIN got[Run] : IsCall(i) => Among(got[Run][i].call, delivered)
  /\ \A i \in DOMAIN got[Run] : AnswerAt(i) <=> i = Len(got[Run])

-----------------------------------------------------------------------------
\* Repeated calls and responses that only ask for tools notwithstanding, each
\* call is executed and answered once, in order and one at a time, and the
\* run completes with the first answer after all of them, never before
\* (docs/agents/live-realtime.md: "Identical repeated tool calls execute once
\* per run", "ends at the first completed response after tool execution").
CallsAnswered ==
  /\ OnceInOrder(ran) /\ OnceInOrder(delivered)
  /\ OneAtATime
  /\ status = "completed" => Answered

\* A run that is over has shut the session it was given, told those who wait
\* for one, and recorded its end, with two exceptions that leave it stored
\* running: a cancellation, be it the first, reached the handler that was to
\* record it ("cut"), or an on_agent_end hook failed in the handler that
\* suspends it ("raised", _agent_live.py:806-814).  Not claimed of a session
\* that the run dropped before it was given it, nor of a task that was
\* cancelled before it ran.
LeavesNothing ==
  Over =>
    /\ future = "set" => conn = "shut" /\ receiver # "receiving" /\ (done \/ receiver = "cancelled")
    /\ conn \notin {"opening", "greeting"}
    /\ status = "running" => outcome \in {"cut", "raised"}
    /\ future = "pending" => status = "none" /\ outcome = "cut"

\* A run ends once it is cancelled, in any of the three ways, or its session
\* is over, wherever it is.
LiveSettles == (token \/ doomed \/ status = "cancelled" \/ done) ~> Over
=============================================================================
