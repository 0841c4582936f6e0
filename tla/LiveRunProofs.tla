--------------------------- MODULE LiveRunProofs ---------------------------
(***************************************************************************)
(* Theorems about realtime sessions and the live runs that read them, for  *)
(* any events, calls, tools, updates, turns and any capacity of the buffer.*)
(***************************************************************************)
EXTENDS LiveRun, BroadcastProofs, Integers

\* A connection has a receiver once it is ready, and is shut before its close
\* is joined; a receiver that is over has closed the broadcast.
Connection ==
  /\ conn = "ready" => receiver # "none"
  /\ conn \in {"none", "opening", "greeting"} => receiver = "none" /\ ~ended
  /\ closing # "no" => closed
  /\ closing \in {"joining", "closed", "cut"} => conn = "shut" /\ receiver # "receiving"
  /\ receiver = "receiving" => conn = "ready" /\ ~ended
  /\ receiver = "done" => done

\* It is opened for a run that waits for it, and is given to no other.
Reached ==
  /\ pc \in {"created", "saving", "preparing"} => conn = "none" /\ future = "pending"
  /\ conn \in {"opening", "greeting"} => pc = "connecting"
  /\ future = "set" => conn \in {"ready", "shut"} /\ receiver # "none"
  /\ closing # "no" => future = "set"
  /\ pc = "over" /\ future = "set" => closing \in {"closed", "cut"}

\* What is stored of a run, and who is told, when it is about to end.
Recorded ==
  /\ pc \in {"created", "saving"} => status = "none"
  /\ pc \in {"closing", "over"} /\ status = "running" => outcome \in {"cut", "raised"}
  /\ pc = "over" /\ future = "pending" => status = "none" /\ outcome = "cut"

\* The flag says whether the end was published.
Flagged == ~ended => \A i \in 1..Len(feed) : feed[i].kind # "ended"

\* An update under way has the lock and sends what is in force with its own
\* part; nothing in force has been taken back from the provider.
Serial ==
  /\ \A u \in Updaters : updater[u] = "sending" => holder = u /\ plan[u] = config \cup {u}
  /\ \A u \in Updaters : updater[u] = "updated" => u \in config
  /\ config \subseteq wire

\* The state of the session, of the updates, of the run and of its loop.
SessionTypes ==
  /\ conn \in Conns
  /\ receiver \in {"none", "receiving", "cancelled", "done"}
  /\ closed \in BOOLEAN
  /\ ended \in BOOLEAN
  /\ closing \in {"no", "shutting", "joining", "closed", "cut"}

UpdateTypes ==
  /\ config \in SUBSET Updaters
  /\ wire \in SUBSET Updaters
  /\ holder \in Updaters \cup {Nobody}
  /\ plan \in [Updaters -> SUBSET Updaters]
  /\ updater \in [Updaters -> UpdaterStates]

RunTypes ==
  /\ pc \in PCs
  /\ status \in {"none", "running", "suspended", "completed", "failed", "cancelled"}
  /\ future \in {"pending", "set", "failed", "cancelled"}
  /\ doomed \in BOOLEAN
  /\ cancels \in 0..MaxCancels
  /\ expired \in BOOLEAN
  /\ token \in BOOLEAN
  /\ outcome \in Outcomes

\* While the run goes on reading.
Looping == {"created", "saving", "preparing", "connecting", "prompting", "reading", "read",
            "tool", "executing", "delivering", "sending", "delivered"}

\* While it has a new call to answer.
Handling == {"tool", "executing", "delivering", "sending"}

\* The number of events it has looked at, of those that it has read.
Looked == IF pc = "read" THEN Len(got[Run]) - 1 ELSE Len(got[Run])

\* The calls that are taken up are those of the events it has looked at, and
\* the one it answers is new.
Calling ==
  /\ pc = "read" => Len(got[Run]) > 0
  /\ \A c \in Calls : TakenUp(c) => \E a \in 1..Looked : AsksFirst(a, c)
  /\ pc \in Looping => \A i \in 1..Looked : IsCall(i) => TakenUp(got[Run][i].call)
  /\ pc \in Handling \cup {"delivered"} =>
       Len(got[Run]) > 0 /\ NewCall(Len(got[Run]))
  /\ pc \in {"tool", "executing"} => Event.call \in LocalTools

Ran(c) == Among(c, ran)
Sent(c) == Among(c, delivered)

\* What is taken up was sent, but for the call it answers; that one was
\* executed before it is sent, if it is a tool of the agent.
Sending ==
  /\ \A c \in Calls : Ran(c) \/ Sent(c) => TakenUp(c)
  /\ pc \in Looping => \A c \in Calls : TakenUp(c) => Sent(c) \/ (pc \in Handling /\ c = Event.call)
  /\ \A c \in Calls : c = Event.call =>
       /\ pc = "tool" => ~Ran(c)
       /\ pc \in Handling => ~Sent(c)
       /\ pc = "executing" \/ (pc \in {"delivering", "sending"} /\ c \in LocalTools) => Ran(c)

\* No event that it has looked at could have ended the run, and the flag says
\* whether there is a new call since the last output.
Waiting ==
  /\ pc \in Looping => \A i \in 1..Looked : ~AnswerAt(i)
  /\ pc \in Looping =>
       (awaiting <=> \E a \in 1..Looked :
          NewCall(a) /\ \A k \in a + 1..Looked : got[Run][k].kind # "output")
  /\ pc \in Looping => turns < MaxTurns

Completed ==
  /\ pc = "finishing" \/ status = "completed" => Answered
  /\ status = "completed" => pc \in {"interrupting", "failing", "closing", "over"}

LoopTypes ==
  /\ seen \in SUBSET (Calls \X Args)
  /\ awaiting \in BOOLEAN
  /\ turns \in 0..MaxTurns
  /\ ran \in Seq(Calls)
  /\ delivered \in Seq(Calls)

SInv == BInv /\ SessionTypes /\ Connection /\ Flagged /\ EndedOnce

IInv ==
  /\ SInv /\ UpdateTypes /\ RunTypes
  /\ Reached /\ Recorded /\ Serial

LInv ==
  /\ LoopTypes /\ Calling /\ Sending /\ Waiting /\ Completed
  /\ OnceInOrder(ran) /\ OnceInOrder(delivered) /\ OneAtATime

\* A step that publishes anything publishes an event of the session.
LEMMA PlainEvents ==
  /\ \A k \in PlainKinds : Plain(k) \in Events /\ Plain(k).kind = k
  /\ \A c \in Calls : ToolResult(c) \in Events /\ ToolResult(c).kind = "result"
BY SessionAssumption DEF Plain, ToolResult

-----------------------------------------------------------------------------
(* The session *)

\* Whoever publishes e may: the end is the first one, and nothing but a result
\* follows it.
LEMMA EndKept ==
  ASSUME BInv, Flagged, EndedOnce, NEW e \in Events, feed' = Append(feed, e),
         \/ e.kind = "result" /\ ended' = ended
         \/ e.kind # "ended" /\ ~ended /\ ended' = ended
         \/ e.kind = "ended" /\ ~ended /\ ended'
  PROVE  Flagged' /\ EndedOnce'
<1>1. feed \in Seq(Events)
  BY DEF BInv, BroadcastTypeOK
<1>2. /\ feed' \in Seq(Events) /\ Len(feed') = Len(feed) + 1
      /\ feed'[Len(feed) + 1] = e
      /\ \A i \in 1..Len(feed) : feed'[i] = feed[i]
  BY <1>1
<1>3. DOMAIN feed = 1..Len(feed) /\ DOMAIN feed' = 1..Len(feed') /\ Len(feed) \in Nat
  BY <1>1, <1>2
<1>4. Flagged'
  BY <1>2, <1>3 DEF Flagged
<1>5. ASSUME NEW i \in DOMAIN feed', NEW j \in DOMAIN feed', i < j, feed'[i].kind = "ended"
      PROVE  feed'[j].kind = "result"
  <2>1. i \in 1..Len(feed) /\ feed[i].kind = "ended" /\ ended
    BY <1>2, <1>3, <1>5 DEF Flagged
  <2>2. CASE j = Len(feed) + 1
    BY <2>1, <2>2, <1>2
  <2>3. CASE j \in 1..Len(feed)
    BY <2>1, <2>3, <1>2, <1>3, <1>5 DEF EndedOnce
  <2> QED
    BY <1>3, <1>2, <2>2, <2>3
<1> QED
  BY <1>4, <1>5 DEF EndedOnce

\* What the operations of a session keep, and never take back.
Onward ==
  /\ receiver # "none" => receiver' # "none"
  /\ conn \in {"ready", "shut"} => conn' \in {"ready", "shut"}
  /\ conn' \in {"opening", "greeting"} => conn \in {"opening", "greeting"}
  /\ closing \in {"closed", "cut"} => closing' = closing

LEMMA OpenedKeeps ==
  ASSUME SInv, Opened
  PROVE  SInv' /\ Onward
<1>1. BInv'
  BY SameKeeps DEF SInv, Opened
<1> QED
  BY <1>1 DEF SInv, Opened, SessionTypes, Conns, Connection, Flagged, EndedOnce, Onward, broadcast

LEMMA GreetedKeeps ==
  ASSUME SInv, Greeted
  PROVE  SInv' /\ Onward /\ conn' = "ready"
<1> DEFINE e == Plain("started")
<1>1. e \in Events /\ e.kind = "started"
  BY PlainEvents DEF PlainKinds
<1>2. Publishes(e) /\ done' = done
  BY DEF Greeted, Publish, Publishes
<1>3. BInv'
  BY <1>1, <1>2, PublishKeeps DEF SInv
<1>4. ~ended /\ ended' = ended
  BY DEF Greeted, SInv, Connection
<1>5. Flagged' /\ EndedOnce'
  BY <1>1, <1>2, <1>4, EndKept DEF SInv, Publishes
<1> QED
  BY <1>2, <1>3, <1>4, <1>5 DEF SInv, Greeted, SessionTypes, Conns, Connection, Onward

LEMMA NotConnectedKeeps ==
  ASSUME SInv, NotConnected
  PROVE  SInv' /\ Onward /\ conn' \in {"none", "shut"} /\ conn \in {"opening", "greeting"}
<1>1. BInv'
  BY SameKeeps, CloseKeeps DEF SInv, NotConnected
<1>2. feed' = feed /\ (done => done')
  BY DEF NotConnected, Close, broadcast
<1>3. Flagged' /\ EndedOnce'
  BY <1>2 DEF SInv, NotConnected, Flagged, EndedOnce
<1>4. Connection'
  BY <1>2 DEF SInv, NotConnected, Connection
<1> QED
  BY <1>1, <1>3, <1>4 DEF SInv, NotConnected, SessionTypes, Conns, Onward

LEMMA ReceiveKeeps ==
  ASSUME SInv, Receive
  PROVE  SInv' /\ Onward /\ conn' = conn
<1>1. PICK e \in Provided : Publish(e)
  BY DEF Receive
<1>2. e \in Events /\ e.kind # "ended"
  BY DEF Provided
<1>3. Publishes(e) /\ done' = done
  BY <1>1 DEF Publish, Publishes
<1>4. BInv'
  BY <1>2, <1>3, PublishKeeps DEF SInv
<1>5. ~ended /\ ended' = ended
  BY DEF Receive, SInv, Connection
<1>6. Flagged' /\ EndedOnce'
  BY <1>2, <1>3, <1>5, EndKept DEF SInv, Publishes
<1> QED
  BY <1>3, <1>4, <1>5, <1>6 DEF SInv, Receive, SessionTypes, Connection, Onward

\* The end of a session, whoever comes to it.
LEMMA EndOnceKeeps ==
  ASSUME SInv, EndOnce
  PROVE  BInv' /\ Flagged' /\ EndedOnce' /\ done'
<1> DEFINE e == Plain("ended")
<1>1. e \in Events /\ e.kind = "ended"
  BY PlainEvents DEF PlainKinds
<1>2. CASE ended
  <2>1. Close
    BY <1>2 DEF EndOnce, Unended
  <2>2. BInv' /\ done'
    BY <2>1, CloseKeeps DEF SInv
  <2> QED
    BY <2>1, <2>2, <1>2 DEF SInv, EndOnce, Close, Flagged, EndedOnce
<1>3. CASE ~ended
  <2>1. Publishes(e) /\ done' /\ ended'
    BY <1>3 DEF EndOnce, Unended, PublishLast, Publishes
  <2>2. BInv'
    BY <1>1, <2>1, PublishKeeps DEF SInv
  <2>3. Flagged' /\ EndedOnce'
    BY <1>1, <1>3, <2>1, EndKept DEF SInv, Publishes
  <2> QED
    BY <2>1, <2>2, <2>3
<1> QED
  BY <1>2, <1>3

LEMMA ReceiverEndsKeeps ==
  ASSUME SInv, ReceiverEnds
  PROVE  SInv' /\ Onward /\ conn' = conn
<1>1. BInv' /\ Flagged' /\ EndedOnce' /\ done'
  BY EndOnceKeeps DEF ReceiverEnds
<1> QED
  BY <1>1 DEF SInv, ReceiverEnds, EndOnce, SessionTypes, Connection, Onward

LEMMA ReceiverUnwindsKeeps ==
  ASSUME SInv, ReceiverUnwinds
  PROVE  SInv' /\ Onward /\ conn' = conn
<1>1. BInv' /\ done'
  BY CloseKeeps DEF ReceiverUnwinds, SInv
<1> QED
  BY <1>1 DEF SInv, ReceiverUnwinds, Close, SessionTypes, Connection, Flagged, EndedOnce, Onward

LEMMA CloseSessionKeeps ==
  ASSUME SInv, CloseSession
  PROVE  SInv' /\ Onward /\ conn' = conn
<1>1. BInv'
  BY SameKeeps DEF SInv, CloseSession
<1> QED
  BY <1>1 DEF SInv, CloseSession, SessionTypes, Connection, Flagged, EndedOnce, Onward, broadcast

LEMMA ShutKeeps ==
  ASSUME SInv, Shut, conn \in {"ready", "shut"}, receiver # "none"
  PROVE  SInv' /\ Onward /\ conn' = "shut"
<1>1. BInv'
  BY SameKeeps DEF SInv, Shut
<1> QED
  BY <1>1 DEF SInv, Shut, Stopped, SessionTypes, Conns, Connection, Flagged, EndedOnce, Onward, broadcast

LEMMA JoinedKeeps ==
  ASSUME SInv, Joined
  PROVE  SInv' /\ Onward /\ conn' = conn
<1>1. BInv' /\ Flagged' /\ EndedOnce' /\ done'
  BY EndOnceKeeps DEF Joined
<1> QED
  BY <1>1 DEF SInv, Joined, EndOnce, SessionTypes, Connection, Onward

LEMMA JoinInterruptedKeeps ==
  ASSUME SInv, JoinInterrupted
  PROVE  SInv' /\ Onward /\ conn' = conn
<1>1. BInv'
  BY SameKeeps DEF SInv, JoinInterrupted
<1> QED
  BY <1>1 DEF SInv, JoinInterrupted, SessionTypes, Connection, Flagged, EndedOnce, Onward, broadcast

LEMMA SendResultKeeps ==
  ASSUME SInv, NEW c \in Calls, SendResult(c)
  PROVE  SInv' /\ Onward /\ conn' = conn
<1> DEFINE e == ToolResult(c)
<1>1. e \in Events /\ e.kind = "result"
  BY PlainEvents
<1>2. Publishes(e) /\ done' = done
  BY DEF SendResult, Publish, Publishes
<1>3. BInv'
  BY <1>1, <1>2, PublishKeeps DEF SInv
<1>4. Flagged' /\ EndedOnce'
  BY <1>1, <1>2, EndKept DEF SInv, Publishes, SendResult
<1> QED
  BY <1>2, <1>3, <1>4 DEF SInv, SendResult, SessionTypes, Connection, Onward

LEMMA ReadKeeps ==
  ASSUME SInv, Pull(Run), UNCHANGED <<conn, receiver, closed, ended, closing>>
  PROVE  SInv' /\ Onward
<1>1. BInv' /\ done' = done
  BY PullKeeps, LiveAssumption DEF SInv
<1>2. feed' = feed
  BY DEF Pull, Goes
<1> QED
  BY <1>1, <1>2 DEF SInv, SessionTypes, Connection, Flagged, EndedOnce, Onward

LEMMA SessionSame ==
  ASSUME SInv, UNCHANGED session
  PROVE  SInv' /\ Onward /\ conn' = conn
<1>1. BInv' /\ done' = done
  BY SameKeeps DEF SInv, session
<1> QED
  BY <1>1 DEF SInv, session, broadcast, SessionTypes, Connection, Flagged, EndedOnce, Onward

-----------------------------------------------------------------------------
(* Updates *)

LEMMA UpdateStepKeeps ==
  ASSUME UpdateTypes, Serial, NEW u \in Updaters, UpdateStep(u)
  PROVE  UpdateTypes' /\ Serial' /\ UNCHANGED <<session, run, loop, outcome>>
<1> USE SessionAssumption DEF UpdateTypes, Serial, UpdaterStates, Told
<1>1. CASE StartUpdate(u)
  BY <1>1 DEF UpdateStep, StartUpdate, Unlocked
<1>2. CASE FinishUpdate(u)
  BY <1>2 DEF UpdateStep, FinishUpdate
<1>3. CASE FailUpdate(u)
  BY <1>3 DEF UpdateStep, FailUpdate
<1>4. CASE updater[u] = "waiting" /\ Told(u, "failed") /\ UNCHANGED <<config, wire, holder, plan>>
  BY <1>4 DEF UpdateStep
<1> QED
  BY <1>1, <1>2, <1>3, <1>4 DEF UpdateStep

LEMMA OthersUpdateNothing ==
  ASSUME [Next]_vars, ~\E u \in Updaters : UpdateStep(u)
  PROVE  UNCHANGED updates
<1>1. CASE RunStep
  BY <1>1 DEF RunStep, Start, Save, Prepare, Connecting, ConnectFails, Connected, Notice,
     LeaveBoundary, Prompt, ReadEvent, Process, InvokeTool, ToolReturns, Send, Deliver, DeliveryFails,
     Delivered, Finish, Suspend, SuspendHookFails, PersistCancelled, Fail, Interrupted,
     HandlerInterrupted, Closing, Return, Stay
<1>2. CASE WallTimeOver \/ SessionStep \/ SessionUnwinds \/ CancelTask \/ CancelToken \/ CancelRun
  BY <1>2 DEF WallTimeOver, LeaveBoundary, SessionStep, SessionUnwinds, CancelTask, CancelToken,
     CancelRun, Stay
<1>3. CASE UNCHANGED vars
  BY <1>3 DEF vars
<1> QED
  BY <1>1, <1>2, <1>3 DEF Next

-----------------------------------------------------------------------------
(* The run *)

LEMMA CallTypes ==
  ASSUME NEW e \in Events, e.kind = "call"
  PROVE  e.call \in Calls /\ e.args \in Args
BY SessionAssumption DEF SessionEvents, Plain, PlainKinds, ToolCall, ToolResult

\* What the run has read.
LEMMA ReadTypes ==
  ASSUME BInv
  PROVE  got[Run] \in Seq(Events) /\ Len(got[Run]) \in Nat
         /\ DOMAIN got[Run] = 1..Len(got[Run])
         /\ \A i \in 1..Len(got[Run]) : got[Run][i] \in Events
<1>1. got[Run] \in Seq(Events)
  BY LiveAssumption DEF BInv, BroadcastTypeOK
<1> QED
  BY <1>1

\* Everybody but the run.
LEMMA OthersKeep ==
  ASSUME IInv, SessionStep \/ SessionUnwinds \/ CancelTask \/ CancelToken \/ CancelRun
               \/ \E u \in Updaters : UpdateStep(u)
  PROVE  SInv' /\ RunTypes' /\ Reached' /\ Recorded'
<1> USE DEF RunTypes, Reached, Recorded
<1>1. CASE SessionStep \/ SessionUnwinds
  <2>1. SInv' /\ Onward /\ conn' = conn
    BY <1>1, ReceiveKeeps, ReceiverEndsKeeps, ReceiverUnwindsKeeps DEF SessionStep, SessionUnwinds, IInv
  <2>2. UNCHANGED <<run, outcome, closing>>
    BY <1>1 DEF SessionStep, SessionUnwinds, Receive, ReceiverEnds, ReceiverUnwinds
  <2> QED
    BY <2>1, <2>2 DEF IInv, run, Onward
<1>2. CASE CancelTask \/ CancelToken \/ CancelRun \/ \E u \in Updaters : UpdateStep(u)
  <2>1. SInv' /\ Onward /\ UNCHANGED session
    <3>1. UNCHANGED session
      BY <1>2, UpdateStepKeeps DEF CancelTask, CancelToken, CancelRun, Stay, IInv
    <3> QED
      BY <3>1, SessionSame DEF IInv
  <2>2. CASE CancelTask \/ CancelToken \/ CancelRun
    <3>1. cancels' \in 0..MaxCancels
      <4>1. cancels < MaxCancels /\ cancels' = cancels + 1
        BY <2>2 DEF CancelTask, CancelToken, CancelRun, Trouble
      <4>2. cancels \in 0..MaxCancels
        BY DEF IInv
      <4> QED
        BY <4>1, <4>2, LiveAssumption
    <3>2. RunTypes'
      <4>1. expired' \in BOOLEAN /\ doomed' \in BOOLEAN /\ token' \in BOOLEAN
        BY <2>2 DEF CancelTask, CancelToken, CancelRun, IInv
      <4>2. UNCHANGED <<pc, future, outcome>> /\ status' \in {status, "cancelled"}
        BY <2>2 DEF CancelTask, CancelToken, CancelRun
      <4> QED
        BY <3>1, <4>1, <4>2 DEF IInv
    <3>3. Reached'
      BY <2>1, <2>2 DEF CancelTask, CancelToken, CancelRun, IInv, session
    <3>4. Recorded'
      BY <2>2 DEF CancelTask, CancelToken, CancelRun, Trouble, Over, IInv
    <3> QED
      BY <2>1, <3>2, <3>3, <3>4
  <2>3. CASE \E u \in Updaters : UpdateStep(u)
    BY <2>1, <2>3, UpdateStepKeeps DEF IInv, run, session
  <2> QED
    BY <1>2, <2>2, <2>3
<1> QED
  BY <1>1, <1>2

\* What is awaited is given up with the connection that is being made.
LEMMA AbandonKeeps ==
  ASSUME IInv, Abandon
  PROVE  /\ SInv' /\ Onward /\ UNCHANGED closing
         /\ conn' \notin {"opening", "greeting"}
         /\ conn \notin {"opening", "greeting"} => UNCHANGED conn
<1>1. CASE pc = "connecting" /\ conn \in {"opening", "greeting"}
  BY <1>1, NotConnectedKeeps DEF IInv, Abandon, NotConnected
<1>2. CASE ~(pc = "connecting" /\ conn \in {"opening", "greeting"})
  BY <1>2, SessionSame DEF IInv, Abandon, Reached, session
<1> QED
  BY <1>1, <1>2

LEMMA RunStepKeeps ==
  ASSUME IInv, LInv, RunStep \/ WallTimeOver
  PROVE  SInv' /\ RunTypes' /\ Reached' /\ Recorded'
<1> USE DEF RunTypes, PCs, Boundaries, Handlers, Outcomes, Reached, Recorded
<1>s. ASSUME UNCHANGED session
      PROVE  SInv' /\ UNCHANGED <<conn, receiver, closing>>
  BY <1>s, SessionSame DEF IInv, session
<1>1. CASE Start
  BY <1>1, <1>s DEF Start, Stay, IInv
<1>2. CASE Save
  BY <1>2, <1>s DEF Save, Stay, At, IInv
<1>3. CASE Prepare
  <2>1. CASE UNCHANGED session
    BY <1>3, <2>1, <1>s DEF Prepare, At, Goto, IInv
  <2>2. CASE Goto("connecting") /\ conn' = "opening" /\ UNCHANGED <<broadcast, receiver, closed, ended, closing>>
    <3>1. BInv' /\ done' = done
      BY <2>2, SameKeeps DEF IInv, SInv
    <3>2. SInv'
      BY <1>3, <2>2, <3>1 DEF Prepare, At, IInv, SInv, SessionTypes, Conns, Connection, Flagged,
         EndedOnce, broadcast
    <3> QED
      BY <1>3, <2>2, <3>2 DEF Prepare, At, Goto, IInv
  <2> QED
    BY <1>3, <2>1, <2>2 DEF Prepare
<1>4. CASE Connecting
  <2>1. SInv' /\ Onward /\ closing' = closing
    BY <1>4, OpenedKeeps, GreetedKeeps DEF Connecting, Opened, Greeted, IInv
  <2> QED
    BY <1>4, <2>1 DEF Connecting, IInv, Onward, run
<1>5. CASE ConnectFails
  <2>1. SInv' /\ Onward /\ closing' = closing /\ conn' \in {"none", "shut"}
        /\ conn \in {"opening", "greeting"}
    BY <1>5, NotConnectedKeeps DEF ConnectFails, NotConnected, IInv
  <2> QED
    BY <1>5, <2>1 DEF ConnectFails, At, Goto, IInv, Onward
<1>6. CASE Connected
  <2>1. receiver # "none"
    BY <1>6 DEF Connected, IInv, SInv, Connection
  <2> QED
    BY <1>6, <2>1, <1>s DEF Connected, Stay, At, IInv
<1>7. CASE Notice \/ WallTimeOver
  <2>1. SInv' /\ Onward /\ UNCHANGED closing /\ conn' \notin {"opening", "greeting"}
    BY <1>7, AbandonKeeps DEF Notice, WallTimeOver, LeaveBoundary
  <2> QED
    BY <1>7, <2>1 DEF Notice, WallTimeOver, LeaveBoundary, Goto, IInv, Onward
<1>8. CASE Prompt \/ ToolReturns \/ Send \/ DeliveryFails \/ Delivered
  BY <1>8, <1>s DEF Prompt, ToolReturns, Send, DeliveryFails, Delivered, At, Goto, Stay, IInv
<1>9. CASE ReadEvent
  <2>1. SInv' /\ Onward
    BY <1>9, ReadKeeps DEF ReadEvent, IInv
  <2>2. UNCHANGED <<conn, receiver, closing, status, future, doomed, cancels, expired, token, outcome>>
        /\ pc' \in {"reading", "read", "failing"}
    BY <1>9 DEF ReadEvent, At, Goto, run
  <2> QED
    BY <1>9, <2>1, <2>2 DEF ReadEvent, At, IInv
<1>10. CASE Process
  <2>1. UNCHANGED session /\ UNCHANGED <<status, future, doomed, cancels, expired, token, outcome>>
        /\ pc' \in {"reading", "tool", "delivering", "finishing", "failing"}
    BY <1>10 DEF Process, ReadCall, ReadOutput, ReadEnd, ReadOther, Goto
  <2> QED
    BY <1>10, <2>1, <1>s DEF Process, At, IInv
<1>11. CASE InvokeTool
  BY <1>11, <1>s DEF InvokeTool, At, Goto, IInv
<1>12. CASE Deliver
  <2>1. Event.call \in Calls
    <3>1. IsCall(Len(got[Run])) /\ Len(got[Run]) > 0
      BY <1>12 DEF Deliver, At, LInv, Calling, Handling, NewCall
    <3>2. BInv
      BY DEF IInv, SInv
    <3> QED
      BY <3>1, <3>2, ReadTypes, CallTypes DEF IsCall, Event
  <2>2. SInv' /\ Onward /\ conn' = conn
    BY <1>12, <2>1, SendResultKeeps DEF Deliver, IInv
  <2> QED
    BY <1>12, <2>2 DEF Deliver, SendResult, At, Goto, IInv, Onward
<1>13. CASE Finish \/ Suspend \/ SuspendHookFails \/ PersistCancelled \/ Fail
  BY <1>13, <1>s DEF Finish, Suspend, SuspendHookFails, PersistCancelled, Fail, Ends, CanSave, Stay,
     At, Goto, IInv
<1>14. CASE Interrupted
  <2>1. SInv' /\ Onward /\ UNCHANGED closing /\ conn' \notin {"opening", "greeting"}
    BY <1>14, AbandonKeeps DEF Interrupted
  <2>2. /\ status' \in {status, "running", "completed"}
        /\ pc' \in {"failing", "interrupting"}
        /\ UNCHANGED <<future, cancels, expired, token, outcome>>
        /\ doomed' = FALSE
    BY <1>14 DEF Interrupted, Maybe
  <2>3. RunTypes'
    <3> HIDE DEF Reached, Recorded
    <3>1. pc' \in PCs /\ doomed' \in BOOLEAN
      BY <2>2
    <3>2. status' \in {"none", "running", "suspended", "completed", "failed", "cancelled"}
      BY <2>2 DEF IInv
    <3> QED
      BY <2>2, <3>1, <3>2 DEF IInv
  <2>4. Reached'
    <3> HIDE DEF RunTypes, Recorded, PCs, Boundaries, Handlers, Outcomes
    <3>1. /\ future = "set" => conn \in {"ready", "shut"} /\ receiver # "none"
          /\ closing # "no" => future = "set"
      BY DEF IInv
    <3>2. /\ future = "set" => conn' \in {"ready", "shut"} /\ receiver' # "none"
          /\ closing' # "no" => future = "set"
      BY <2>1, <3>1 DEF Onward
    <3>3. pc' \in {"failing", "interrupting"} /\ future' = future
      BY <2>2
    <3> QED
      BY <2>1, <3>2, <3>3
  <2>5. Recorded'
    BY <2>2
  <2> QED
    BY <2>1, <2>3, <2>4, <2>5
<1>15. CASE HandlerInterrupted
  <2>1. UNCHANGED session /\ UNCHANGED <<future, cancels, expired, token>>
        /\ pc' = "closing" /\ outcome' = "cut" /\ doomed' = FALSE
    BY <1>15 DEF HandlerInterrupted, Ends, Stay
  <2>2. status' \in {status, "suspended", "failed", "cancelled"}
    BY <1>15 DEF HandlerInterrupted, Ends, Maybe
  <2>3. SInv' /\ UNCHANGED <<conn, receiver, closing>>
    BY <2>1, <1>s
  <2>4. RunTypes'
    <3> HIDE DEF Reached, Recorded
    <3>1. pc' \in PCs /\ doomed' \in BOOLEAN /\ outcome' \in Outcomes
      BY <2>1
    <3>2. status' \in {"none", "running", "suspended", "completed", "failed", "cancelled"}
      BY <2>2 DEF IInv
    <3> QED
      BY <2>1, <3>1, <3>2 DEF IInv
  <2>5. Reached'
    <3> HIDE DEF RunTypes, Recorded, PCs, Boundaries, Handlers, Outcomes
    <3>1. pc' = "closing" /\ future' = future /\ UNCHANGED <<conn, receiver, closing>>
      BY <2>1, <2>3
    <3>2. conn \in {"opening", "greeting"} => pc = "connecting"
      BY DEF IInv
    <3>3. pc # "connecting"
      BY <1>15 DEF HandlerInterrupted, Handlers
    <3> QED
      BY <3>1, <3>2, <3>3 DEF IInv
  <2> QED
    BY <2>1, <2>3, <2>4, <2>5
<1>16. CASE Closing
  <2>1. CASE Given /\ CloseSession /\ UNCHANGED <<run, outcome>>
    <3>1. SInv' /\ Onward /\ conn' = conn
      BY <2>1, CloseSessionKeeps DEF IInv
    <3> QED
      BY <1>16, <2>1, <3>1 DEF Closing, Given, CloseSession, IInv, run, Onward
  <2>2. CASE Shut /\ doomed' = FALSE /\ UNCHANGED <<pc, status, future, cancels, expired, token, outcome>>
    <3>1. conn \in {"ready", "shut"} /\ receiver # "none" /\ future = "set"
      BY <2>2 DEF Shut, IInv
    <3>2. SInv' /\ Onward /\ conn' = "shut"
      BY <2>2, <3>1, ShutKeeps DEF IInv
    <3> QED
      BY <1>16, <2>2, <3>1, <3>2 DEF Closing, Shut, IInv, Onward
  <2>3. CASE (Joined \/ JoinInterrupted) /\ UNCHANGED <<run, outcome>>
    <3>1. SInv' /\ Onward /\ conn' = conn
      BY <2>3, JoinedKeeps, JoinInterruptedKeeps DEF IInv
    <3>2. closing # "no"
      BY <2>3 DEF Joined, JoinInterrupted
    <3> QED
      BY <1>16, <2>3, <3>1, <3>2 DEF Closing, IInv, run, Onward
  <2> QED
    BY <1>16, <2>1, <2>2, <2>3 DEF Closing
<1>17. CASE Return
  <2>1. SInv' /\ UNCHANGED <<conn, receiver, closing>>
    BY <1>17, <1>s DEF Return, Stay
  <2>2. RunTypes'
    BY <1>17 DEF Return, IInv
  <2>3. Reached'
    BY <1>17, <2>1 DEF Return, Given, IInv
  <2>4. Recorded'
    BY <1>17 DEF Return, IInv
  <2> QED
    BY <2>1, <2>2, <2>3, <2>4
<1> HIDE DEF RunTypes, Reached, Recorded
<1> QED
  BY <1>1, <1>2, <1>3, <1>4, <1>5, <1>6, <1>7, <1>8, <1>9, <1>10, <1>11, <1>12, <1>13, <1>14, <1>15,
     <1>16, <1>17 DEF RunStep

-----------------------------------------------------------------------------
(* The loop *)

\* Reading on changes nothing of what was read.
LEMMA ReadBefore ==
  ASSUME got[Run] \in Seq(Events), NEW e \in Events, got'[Run] = Append(got[Run], e),
         NEW i \in 1..Len(got[Run])
  PROVE  /\ got'[Run][i] = got[Run][i]
         /\ IsCall(i)' <=> IsCall(i)
         /\ NewCall(i)' <=> NewCall(i)
         /\ \A c : AsksFirst(i, c)' <=> AsksFirst(i, c)
         /\ AnswerAt(i)' <=> AnswerAt(i)
<1>1. \A j \in 1..Len(got[Run]) : got'[Run][j] = got[Run][j]
  OBVIOUS
<1>2. \A j \in 1..i - 1 : j \in 1..Len(got[Run])
  OBVIOUS
<1>3. \A j \in 1..Len(got[Run]) : IsCall(j)' <=> IsCall(j)
  BY <1>1 DEF IsCall
<1>4. ASSUME NEW j \in 1..Len(got[Run])
      PROVE  NewCall(j)' <=> NewCall(j)
  <2>1. \A k \in 1..j - 1 : k \in 1..Len(got[Run])
    OBVIOUS
  <2> QED
    BY <1>1, <1>3, <2>1 DEF NewCall
<1>5. AnswerAt(i)' <=> AnswerAt(i)
  <2>1. \A a \in 1..i - 1 : NewCall(a)' <=> NewCall(a)
    BY <1>2, <1>4
  <2>2. \A a \in 1..i - 1 : \A k \in a + 1..i - 1 : k \in 1..Len(got[Run])
    OBVIOUS
  <2> QED
    BY <1>1, <2>1, <2>2 DEF AnswerAt
<1> QED
  BY <1>1, <1>3, <1>4, <1>5 DEF AsksFirst

LEMMA ReadSame ==
  ASSUME got'[Run] = got[Run]
  PROVE  /\ \A i : IsCall(i)' <=> IsCall(i)
         /\ \A i : NewCall(i)' <=> NewCall(i)
         /\ \A i, c : AsksFirst(i, c)' <=> AsksFirst(i, c)
         /\ \A i : AnswerAt(i)' <=> AnswerAt(i)
         /\ Event' = Event
BY DEF IsCall, NewCall, AsksFirst, AnswerAt, Event

\* A call is asked for first at one place.
LEMMA FirstOnce ==
  ASSUME NEW a \in 1..Len(got[Run]), NEW b \in 1..Len(got[Run]), NEW c,
         Len(got[Run]) \in Nat, AsksFirst(a, c), AsksFirst(b, c)
  PROVE  a = b
<1>1. ASSUME NEW i \in 1..Len(got[Run]), NEW j \in 1..Len(got[Run]), i < j,
             AsksFirst(i, c), AsksFirst(j, c)
      PROVE  FALSE
  <2>1. i \in 1..j - 1
    BY <1>1
  <2> QED
    BY <1>1, <2>1 DEF AsksFirst, NewCall
<1>2. ~(a < b) /\ ~(b < a)
  BY <1>1
<1> QED
  BY <1>2

\* One more event does not disturb what was done in order.
LEMMA OrderRead ==
  ASSUME got[Run] \in Seq(Events), NEW e \in Events, got'[Run] = Append(got[Run], e),
         NEW s, OnceInOrder(s)
  PROVE  OnceInOrder(s)'
<1> DEFINE n == Len(got[Run])
<1>1. /\ DOMAIN got[Run] = 1..n /\ DOMAIN got'[Run] = 1..n + 1 /\ n \in Nat
      /\ Len(got'[Run]) = n + 1
      /\ \A a \in 1..n : a \in 1..n + 1
  OBVIOUS
<1>2. \A a \in 1..n : \A c : AsksFirst(a, c)' <=> AsksFirst(a, c)
  BY ReadBefore
<1>3. \A i \in DOMAIN s : \E a \in 1..n : AsksFirst(a, s[i]) /\ AsksFirst(a, s[i])'
  BY <1>1, <1>2 DEF OnceInOrder
<1>4. ASSUME NEW i \in DOMAIN s, NEW b \in 1..n + 1, AsksFirst(b, s[i])'
      PROVE  b \in 1..n /\ AsksFirst(b, s[i])
  <2>1. PICK a \in 1..n : AsksFirst(a, s[i]) /\ AsksFirst(a, s[i])'
    BY <1>3
  <2>2. CASE b = n + 1
    <3>1. a \in 1..b - 1
      BY <1>1, <2>2
    <3>2. IsCall(a)' /\ got'[Run][a].call = s[i] /\ got'[Run][b].call = s[i]
      BY <2>1, <1>4 DEF AsksFirst, NewCall
    <3> QED
      BY <3>1, <3>2, <1>4 DEF AsksFirst, NewCall
  <2>3. CASE b # n + 1
    BY <2>3, <1>1, <1>2, <1>4
  <2> QED
    BY <2>2, <2>3
<1> QED
  <2>1. \A i \in DOMAIN s : \E a \in DOMAIN got'[Run] : AsksFirst(a, s[i])'
    BY <1>1, <1>3
  <2>2. ASSUME NEW i \in DOMAIN s, NEW j \in DOMAIN s, i < j,
               NEW a \in DOMAIN got'[Run], NEW b \in DOMAIN got'[Run],
               AsksFirst(a, s[i])', AsksFirst(b, s[j])'
        PROVE  a < b
    <3>1. a \in 1..n /\ AsksFirst(a, s[i]) /\ b \in 1..n /\ AsksFirst(b, s[j])
      BY <1>1, <1>4, <2>2
    <3> QED
      BY <1>1, <2>2, <3>1 DEF OnceInOrder
  <2> QED
    BY <2>1, <2>2 DEF OnceInOrder

\* Nor does the call that was asked for last.
LEMMA OrderAppend ==
  ASSUME got[Run] \in Seq(Events), NEW s \in Seq(Calls), OnceInOrder(s), NEW c \in Calls,
         NewCall(Len(got[Run])), Len(got[Run]) > 0, got[Run][Len(got[Run])].call = c, ~Among(c, s)
  PROVE  OnceInOrder(Append(s, c))
<1> DEFINE n == Len(got[Run])
           q == Append(s, c)
           m == Len(s)
<1>1. /\ DOMAIN got[Run] = 1..n /\ n \in Nat \ {0} /\ n \in 1..n
      /\ DOMAIN s = 1..m /\ m \in Nat /\ DOMAIN q = 1..m + 1
      /\ q[m + 1] = c /\ \A i \in 1..m : q[i] = s[i]
  OBVIOUS
<1> HIDE DEF q, m
<1>2. AsksFirst(n, c)
  BY DEF AsksFirst
<1>3. ASSUME NEW i \in DOMAIN q
      PROVE  \E a \in DOMAIN got[Run] : AsksFirst(a, q[i])
  <2>1. CASE i = m + 1
    BY <2>1, <1>1, <1>2
  <2>2. CASE i # m + 1
    BY <2>2, <1>1 DEF OnceInOrder
  <2> QED
    BY <2>1, <2>2
<1>4. ASSUME NEW i \in DOMAIN q, NEW j \in DOMAIN q, i < j,
             NEW a \in DOMAIN got[Run], NEW b \in DOMAIN got[Run],
             AsksFirst(a, q[i]), AsksFirst(b, q[j])
      PROVE  a < b
  <2>1. i \in 1..m /\ q[i] = s[i] /\ i \in DOMAIN s
    BY <1>1, <1>4
  <2>2. CASE j = m + 1
    <3>1. b = n
      BY <2>2, <1>1, <1>2, <1>4, FirstOnce
    <3>2. s[i] # c
      BY <2>1 DEF Among
    <3>3. a # n
      BY <2>1, <3>2, <1>4 DEF AsksFirst
    <3> QED
      BY <3>1, <3>3, <1>1, <1>4
  <2>3. CASE j # m + 1
    <3>1. j \in DOMAIN s /\ q[j] = s[j]
      BY <2>3, <1>1, <1>4
    <3> QED
      BY <2>1, <3>1, <1>4 DEF OnceInOrder
  <2> QED
    BY <2>2, <2>3
<1> QED
  BY <1>3, <1>4 DEF OnceInOrder, q

\* Where the run neither looks at an event nor answers one.
Idle == {"created", "saving", "preparing", "connecting", "prompting", "reading"}

\* Steps that neither read nor answer.
LEMMA SameLoop ==
  ASSUME LInv, BInv, got'[Run] = got[Run], UNCHANGED <<seen, ran, delivered>>,
         awaiting' \in BOOLEAN /\ turns' \in 0..MaxTurns,
         pc' \in Looping => UNCHANGED <<awaiting, turns>>,
         \/ pc' = pc /\ (status' = "completed" => status = "completed")
         \/ /\ pc' \notin Looping \cup {"finishing"}
            /\ status' = "completed" =>
                 /\ status = "completed" \/ pc = "finishing"
                 /\ pc' \in {"interrupting", "failing", "closing", "over"}
         \/ pc \in Idle \cup {"delivered"} /\ pc' \in Idle /\ status' # "completed"
         \/ pc = "executing" /\ pc' = "delivering" /\ status' # "completed"
         \/ pc = "delivering" /\ pc' = "sending" /\ status' # "completed"
  PROVE  LInv'
<1>1. /\ \A i : IsCall(i)' <=> IsCall(i)
      /\ \A i : NewCall(i)' <=> NewCall(i)
      /\ \A i, c : AsksFirst(i, c)' <=> AsksFirst(i, c)
      /\ \A i : AnswerAt(i)' <=> AnswerAt(i)
      /\ Event' = Event
  BY ReadSame
<1>2. UNCHANGED <<seen, ran, delivered>>
  OBVIOUS
<1>3. \A c : TakenUp(c)' <=> TakenUp(c)
  BY <1>2 DEF TakenUp
<1>4. /\ \A c : Ran(c)' <=> Ran(c)
      /\ \A c : Sent(c)' <=> Sent(c)
  BY <1>2 DEF Ran, Sent, Among
<1>5. /\ Looked \in Int
      /\ pc # "read" => Looked = Len(got[Run])
      /\ pc' # "read" => Looked' = Len(got[Run])
      /\ pc' = "read" => pc = "read" /\ Looked' = Looked
      /\ Looked' \in Int /\ Looked <= Looked'
      /\ Looked # Looked' => pc' \notin Looping \cup {"finishing"}
  BY ReadTypes DEF Looked, Idle, Looping
<1>6. LoopTypes'
  BY <1>2 DEF LInv, LoopTypes
<1>7. Calling'
  <2>1. pc' = "read" => Len(got'[Run]) > 0
    BY <1>5 DEF LInv, Calling
  <2>2. ASSUME NEW c \in Calls, TakenUp(c)
        PROVE  \E a \in 1..Looked' : AsksFirst(a, c)
    <3>1. PICK a \in 1..Looked : AsksFirst(a, c)
      BY <2>2 DEF LInv, Calling
    <3>2. a \in 1..Looked'
      BY <1>5
    <3> QED
      BY <3>1, <3>2
  <2>3. ASSUME pc' \in Looping
        PROVE  \A i \in 1..Looked' : IsCall(i) => TakenUp(got[Run][i].call)
    BY <1>5, <2>3 DEF LInv, Calling, Looping, Idle
  <2>4. ASSUME pc' \in Handling \cup {"delivered"}
        PROVE  Len(got[Run]) > 0 /\ NewCall(Len(got[Run]))
    <3>1. pc \in Handling \cup {"delivered"}
      BY <2>4 DEF Looping, Idle, Handling
    <3> QED
      BY <3>1 DEF LInv, Calling
  <2>5. pc' \in {"tool", "executing"} => Event.call \in LocalTools
    BY DEF LInv, Calling, Looping, Idle, Handling
  <2> QED
    <3>1. \A c \in Calls : TakenUp(c)' => \E a \in 1..Looked' : AsksFirst(a, c)'
      BY <1>1, <1>3, <2>2
    <3>2. pc' \in Looping => \A i \in 1..Looked' : IsCall(i)' => (TakenUp(got[Run][i].call))'
      BY <1>1, <1>2, <2>3 DEF TakenUp
    <3>3. pc' \in Handling \cup {"delivered"} =>
            (Len(got[Run]) > 0 /\ NewCall(Len(got[Run])))'
      BY <2>4 DEF IsCall, NewCall
    <3> QED
      BY <1>1, <2>1, <2>5, <3>1, <3>2, <3>3 DEF Calling
<1>8. Sending'
  <2>1. \A c \in Calls : Ran(c) \/ Sent(c) => TakenUp(c)
    BY DEF LInv, Sending
  <2>2. pc' \in Looping => \A c \in Calls : TakenUp(c) => Sent(c) \/ (pc' \in Handling /\ c = Event.call)
    BY DEF LInv, Sending, Looping, Idle, Handling
  <2>3. \A c \in Calls : c = Event.call =>
          /\ pc' = "tool" => ~Ran(c)
          /\ pc' \in Handling => ~Sent(c)
          /\ pc' = "executing" \/ (pc' \in {"delivering", "sending"} /\ c \in LocalTools) => Ran(c)
    BY DEF LInv, Sending, Looping, Idle, Handling
  <2> QED
    BY <1>1, <1>3, <1>4, <2>1, <2>2, <2>3 DEF Sending
<1>9. Waiting'
  BY <1>1, <1>2, <1>5 DEF LInv, Waiting, Looping, Idle
<1>10. Answered' <=> Answered
  BY <1>1, <1>4, <1>2 DEF Answered, Among
<1>11. Completed'
  BY <1>10 DEF LInv, Completed, Looping, Idle
<1>12. OnceInOrder(ran)' /\ OnceInOrder(delivered)'
  BY <1>1, <1>2 DEF LInv, OnceInOrder
<1>13. OneAtATime'
  BY <1>2 DEF LInv, OneAtATime, Among
<1> QED
  BY <1>6, <1>7, <1>8, <1>9, <1>11, <1>12, <1>13 DEF LInv

\* The run is given its next event, or is told that there is none.
LEMMA ReadEventKeeps ==
  ASSUME LInv, BInv, ReadEvent
  PROVE  LInv'
<1> DEFINE n == Len(got[Run])
<1>0. got[Run] \in Seq(Events) /\ n \in Nat /\ DOMAIN got[Run] = 1..n
  BY ReadTypes
<1>1. UNCHANGED <<seen, awaiting, turns, ran, delivered>> /\ pc = "reading"
  BY DEF ReadEvent, loop, At
<1>2. CASE got'[Run] = got[Run]
  <2>1. pc' \in {"reading", "failing"} /\ status' = status
    BY <1>2, <1>1 DEF ReadEvent, Goto, run
  <2>2. status # "completed"
    BY <1>1 DEF LInv, Completed
  <2>3. awaiting \in BOOLEAN /\ turns \in 0..MaxTurns
    BY DEF LInv, LoopTypes
  <2> QED
    BY <1>1, <1>2, <2>1, <2>2, <2>3, SameLoop DEF Looping
<1>3. CASE got'[Run] # got[Run]
  <2>1. PICK e \in Events : got'[Run] = Append(got[Run], e)
    <3> DEFINE i == Len(got[Run]) - First + 1
    <3>1. /\ ~Evicted(Run) /\ Len(got[Run]) < Len(feed)
          /\ got' = [got EXCEPT ![Run] = Append(@, history[Len(@) - First + 1])]
      BY <1>3 DEF ReadEvent, Pull, Goes
    <3>2. i \in 1..Len(history) /\ history \in Seq(Events)
      BY <3>1, <1>0 DEF Evicted, First, BInv, Buffered, BroadcastTypeOK
    <3>3. history[i] \in Events
      BY <3>2
    <3>4. got \in [Consumers -> Seq(Events)] /\ Run \in Consumers
      BY LiveAssumption DEF BInv, BroadcastTypeOK
    <3> QED
      BY <3>1, <3>3, <3>4
  <2>2. pc' = "read" /\ status' = status
    <3>1. phase'[Run] # "waiting"
      BY <1>3 DEF ReadEvent, Pull, Goes
    <3> QED
      BY <1>3, <3>1 DEF ReadEvent, Goto
  <2>3. /\ Len(got'[Run]) = n + 1 /\ DOMAIN got'[Run] = 1..n + 1
        /\ \A i \in 1..n : i \in 1..n + 1
        /\ Looked = n /\ Looked' = n
    BY <1>0, <1>1, <2>1, <2>2 DEF Looked
  <2>4. \A i \in 1..n : /\ got'[Run][i] = got[Run][i]
                        /\ IsCall(i)' <=> IsCall(i)
                        /\ NewCall(i)' <=> NewCall(i)
                        /\ \A c : AsksFirst(i, c)' <=> AsksFirst(i, c)
                        /\ AnswerAt(i)' <=> AnswerAt(i)
    BY <1>0, <2>1, ReadBefore
  <2>5. LoopTypes'
    BY <1>1 DEF LInv, LoopTypes
  <2>6. Calling'
    <3>1. \A c \in Calls : TakenUp(c)' => \E a \in 1..Looked' : AsksFirst(a, c)'
      BY <1>1, <2>3, <2>4 DEF LInv, Calling, TakenUp
    <3>2. \A i \in 1..Looked' : IsCall(i)' => (TakenUp(got[Run][i].call))'
      BY <1>1, <2>3, <2>4 DEF LInv, Calling, TakenUp, Looping
    <3> QED
      BY <1>0, <2>2, <2>3, <3>1, <3>2 DEF Calling, Handling, TakenUp, NewCall, IsCall
  <2>7. Sending'
    <3>1. \A c : (TakenUp(c)' <=> TakenUp(c)) /\ (Ran(c)' <=> Ran(c)) /\ (Sent(c)' <=> Sent(c))
      BY <1>1 DEF TakenUp, Ran, Sent, Among
    <3> QED
      BY <1>1, <2>2, <3>1 DEF LInv, Sending, Handling, Looping
  <2>8. Waiting'
    <3>1. \A i \in 1..Looked' : ~AnswerAt(i)'
      BY <1>1, <2>3, <2>4 DEF LInv, Waiting, Looping
    <3>2. awaiting' <=> \E a \in 1..Looked :
            NewCall(a) /\ \A k \in a + 1..Looked : got[Run][k].kind # "output"
      BY <1>1 DEF LInv, Waiting, Looping
    <3>3. \A a \in 1..n : \A k \in a + 1..n : k \in 1..n
      BY <1>0
    <3>4. awaiting' <=> \E a \in 1..n :
            NewCall(a) /\ \A k \in a + 1..n : got[Run][k].kind # "output"
      BY <2>3, <3>2
    <3>5. ASSUME NEW a \in 1..n
          PROVE  (\A k \in a + 1..n : got'[Run][k].kind # "output")
                   <=> \A k \in a + 1..n : got[Run][k].kind # "output"
      BY <2>4, <3>3
    <3>6. awaiting' <=> \E a \in 1..n :
            NewCall(a)' /\ \A k \in a + 1..n : got'[Run][k].kind # "output"
      BY <2>4, <3>4, <3>5
    <3>7. awaiting' <=> \E a \in 1..Looked' :
            NewCall(a)' /\ \A k \in a + 1..Looked' : got'[Run][k].kind # "output"
      BY <2>3, <3>6
    <3> QED
      BY <1>1, <2>2, <3>1, <3>7 DEF Waiting, LInv, Looping
  <2>9. Completed'
    BY <1>1, <2>2 DEF LInv, Completed
  <2>10. OnceInOrder(ran)' /\ OnceInOrder(delivered)'
    <3>1. \A s : OnceInOrder(s) => OnceInOrder(s)'
      BY <1>0, <2>1, OrderRead
    <3> QED
      BY <1>1, <3>1 DEF LInv
  <2>11. OneAtATime'
    BY <1>1 DEF LInv, OneAtATime, Among
  <2> QED
    BY <2>5, <2>6, <2>7, <2>8, <2>9, <2>10, <2>11 DEF LInv
<1> QED
  BY <1>2, <1>3

\* An event that is neither a new call nor the answer.
LEMMA LookOn ==
  ASSUME LInv, BInv, got'[Run] = got[Run], UNCHANGED <<seen, ran, delivered>>,
         pc = "read", pc' = "reading", status' = status,
         ~NewCall(Len(got[Run])), IsCall(Len(got[Run])) => TakenUp(Event.call),
         ~AnswerAt(Len(got[Run])),
         awaiting' = (awaiting /\ Event.kind # "output"),
         turns' \in 0..MaxTurns, turns' < MaxTurns
  PROVE  LInv'
<1> DEFINE n == Len(got[Run])
<1>0. got[Run] \in Seq(Events) /\ n \in Nat \ {0} /\ DOMAIN got[Run] = 1..n
  BY ReadTypes DEF LInv, Calling
<1>1. /\ \A i : IsCall(i)' <=> IsCall(i)
      /\ \A i : NewCall(i)' <=> NewCall(i)
      /\ \A i, c : AsksFirst(i, c)' <=> AsksFirst(i, c)
      /\ \A i : AnswerAt(i)' <=> AnswerAt(i)
      /\ Event' = Event /\ Event = got[Run][n]
  BY ReadSame DEF Event
<1>2. Looked = n - 1 /\ Looked' = n /\ \A i \in 1..n : i = n \/ i \in 1..n - 1
  BY <1>0 DEF Looked
<1>3. LoopTypes'
  BY DEF LInv, LoopTypes
<1>4. Calling'
  <2>1. \A c \in Calls : TakenUp(c)' => \E a \in 1..Looked' : AsksFirst(a, c)'
    BY <1>0, <1>1, <1>2 DEF LInv, Calling, TakenUp
  <2>2. \A i \in 1..n : IsCall(i) => TakenUp(got[Run][i].call)
    BY <1>1, <1>2 DEF LInv, Calling, Looping
  <2>3. \A i \in 1..Looked' : IsCall(i)' => (TakenUp(got[Run][i].call))'
    BY <1>1, <1>2, <2>2 DEF TakenUp
  <2> QED
    BY <1>2, <2>1, <2>3 DEF Calling, Handling, TakenUp, NewCall, IsCall
<1>5. Sending'
  <2>1. \A c : (TakenUp(c)' <=> TakenUp(c)) /\ (Ran(c)' <=> Ran(c)) /\ (Sent(c)' <=> Sent(c))
    BY DEF TakenUp, Ran, Sent, Among
  <2> QED
    BY <2>1 DEF LInv, Sending, Handling, Looping
<1>6. Waiting'
  <2>1. \A i \in 1..Looked' : ~AnswerAt(i)'
    BY <1>1, <1>2 DEF LInv, Waiting, Looping
  <2>2. awaiting <=> \E a \in 1..n - 1 :
          NewCall(a) /\ \A k \in a + 1..n - 1 : got[Run][k].kind # "output"
    BY <1>2 DEF LInv, Waiting, Looping
  <2>3. \A a \in 1..n - 1 : \A k \in a + 1..n : k = n \/ k \in a + 1..n - 1
    BY <1>0
  <2>4. \A a \in 1..n - 1 : n \in a + 1..n /\ a \in 1..n /\ \A k \in a + 1..n - 1 : k \in a + 1..n
    BY <1>0
  <2>5. awaiting' <=> \E a \in 1..n :
          NewCall(a) /\ \A k \in a + 1..n : got[Run][k].kind # "output"
    <3>1. ASSUME awaiting'
          PROVE  \E a \in 1..n : NewCall(a) /\ \A k \in a + 1..n : got[Run][k].kind # "output"
      BY <1>1, <2>2, <2>3, <2>4, <3>1
    <3>2. ASSUME NEW a \in 1..n, NewCall(a), \A k \in a + 1..n : got[Run][k].kind # "output"
          PROVE  awaiting'
      <4>1. a \in 1..n - 1
        BY <1>2, <3>2
      <4> QED
        BY <1>1, <2>2, <2>4, <3>2, <4>1
    <3> QED
      BY <3>1, <3>2
  <2> QED
    BY <1>1, <1>2, <2>1, <2>5 DEF Waiting
<1>7. Completed'
  BY DEF LInv, Completed
<1>8. OnceInOrder(ran)' /\ OnceInOrder(delivered)'
  BY <1>1 DEF LInv, OnceInOrder
<1>9. OneAtATime'
  BY DEF LInv, OneAtATime, Among
<1> QED
  BY <1>3, <1>4, <1>5, <1>6, <1>7, <1>8, <1>9 DEF LInv

\* A call that is new is taken up.
LEMMA TakeUp ==
  ASSUME LInv, BInv, pc = "read", got'[Run] = got[Run], UNCHANGED <<turns, ran, delivered>>,
         IsCall(Len(got[Run])), ~TakenUp(Event.call), status' = status,
         seen' = seen \cup {<<Event.call, Event.args>>}, awaiting' = TRUE,
         pc' = IF Event.call \in LocalTools THEN "tool" ELSE "delivering"
  PROVE  LInv'
<1> DEFINE n == Len(got[Run])
           c == Event.call
<1>0. got[Run] \in Seq(Events) /\ n \in Nat \ {0} /\ DOMAIN got[Run] = 1..n
  BY ReadTypes DEF LInv, Calling
<1>1. /\ \A i : IsCall(i)' <=> IsCall(i)
      /\ \A i : NewCall(i)' <=> NewCall(i)
      /\ \A i, d : AsksFirst(i, d)' <=> AsksFirst(i, d)
      /\ \A i : AnswerAt(i)' <=> AnswerAt(i)
      /\ Event' = Event /\ Event = got[Run][n]
  BY ReadSame DEF Event
<1>2. Looked = n - 1 /\ Looked' = n /\ \A i \in 1..n : i = n \/ i \in 1..n - 1
  BY <1>0 DEF Looked
<1>3. Event \in Events /\ Event.kind = "call" /\ c \in Calls /\ Event.args \in Args
  BY <1>0, <1>1, CallTypes DEF IsCall
<1>4. \A d : TakenUp(d)' <=> TakenUp(d) \/ d = c
  BY <1>3 DEF TakenUp
<1>5. \A d : (Ran(d)' <=> Ran(d)) /\ (Sent(d)' <=> Sent(d))
  BY DEF Ran, Sent, Among
<1>6. NewCall(n)
  <2>1. \A j \in 1..n - 1 : IsCall(j) => TakenUp(got[Run][j].call)
    BY <1>2 DEF LInv, Calling, Looping
  <2> QED
    BY <1>1, <2>1 DEF NewCall
<1>7. LoopTypes'
  BY <1>3 DEF LInv, LoopTypes
<1>8. Calling'
  <2>1. ASSUME NEW d \in Calls, TakenUp(d)'
        PROVE  \E a \in 1..Looked' : AsksFirst(a, d)
    <3>1. CASE d = c
      BY <1>0, <1>1, <1>2, <1>6, <3>1 DEF AsksFirst
    <3>2. CASE d # c
      BY <1>0, <1>2, <1>4, <2>1, <3>2 DEF LInv, Calling
    <3> QED
      BY <3>1, <3>2
  <2>2. \A i \in 1..n : IsCall(i) => TakenUp(got[Run][i].call) \/ got[Run][i].call = c
    BY <1>1, <1>2 DEF LInv, Calling, Looping
  <2>3. \A i \in 1..n : IsCall(i) => (TakenUp(got[Run][i].call))'
    BY <1>3, <2>2 DEF TakenUp
  <2> HIDE DEF c
  <2>4. (Len(got[Run]) > 0 /\ NewCall(Len(got[Run])))'
    BY <1>0, <1>6 DEF NewCall, IsCall
  <2> QED
    BY <1>1, <1>2, <2>1, <2>3, <2>4 DEF Calling, c
<1>9. Sending'
  <2>1. ~Ran(c) /\ ~Sent(c)
    BY <1>3 DEF LInv, Sending
  <2> QED
    BY <1>1, <1>3, <1>4, <1>5, <2>1 DEF LInv, Sending, Handling, Looping
<1>10. Waiting'
  <2>1. ~AnswerAt(n)
    BY <1>1, <1>3 DEF AnswerAt
  <2>2. \A i \in 1..Looked' : ~AnswerAt(i)'
    BY <1>1, <1>2, <2>1 DEF LInv, Waiting, Looping
  <2>3. n \in 1..n /\ \A k \in n + 1..n : FALSE
    BY <1>0
  <2>4. \E a \in 1..Looked' : NewCall(a)' /\ \A k \in a + 1..Looked' : got'[Run][k].kind # "output"
    BY <1>1, <1>2, <1>6, <2>3
  <2>5. turns' < MaxTurns
    BY DEF LInv, Waiting, Looping
  <2> QED
    BY <2>2, <2>4, <2>5 DEF Waiting
<1>11. Completed'
  BY DEF LInv, Completed
<1>12. OnceInOrder(ran)' /\ OnceInOrder(delivered)'
  BY <1>1 DEF LInv, OnceInOrder
<1>13. OneAtATime'
  BY DEF LInv, OneAtATime, Among
<1> QED
  BY <1>7, <1>8, <1>9, <1>10, <1>11, <1>12, <1>13 DEF LInv

\* The run is answered when everything that was asked for was sent.
LEMMA AnswerEnds ==
  ASSUME LInv, BInv, pc = "read", got'[Run] = got[Run], UNCHANGED <<seen, awaiting, ran, delivered>>,
         Event.kind = "answered", ~awaiting, pc' = "finishing", status' = status,
         turns' \in 0..MaxTurns
  PROVE  LInv'
<1> DEFINE n == Len(got[Run])
<1>0. got[Run] \in Seq(Events) /\ n \in Nat \ {0} /\ DOMAIN got[Run] = 1..n
  BY ReadTypes DEF LInv, Calling
<1>1. /\ \A i : IsCall(i)' <=> IsCall(i)
      /\ \A i : NewCall(i)' <=> NewCall(i)
      /\ \A i, d : AsksFirst(i, d)' <=> AsksFirst(i, d)
      /\ \A i : AnswerAt(i)' <=> AnswerAt(i)
      /\ Event' = Event /\ Event = got[Run][n]
  BY ReadSame DEF Event
<1>2. Looked = n - 1 /\ Looked' = n /\ \A i \in 1..n : i = n \/ i \in 1..n - 1
  BY <1>0 DEF Looked
<1>3. \A d : (TakenUp(d)' <=> TakenUp(d)) /\ (Ran(d)' <=> Ran(d)) /\ (Sent(d)' <=> Sent(d))
  BY DEF TakenUp, Ran, Sent, Among
<1>4. LoopTypes'
  BY DEF LInv, LoopTypes
<1>5. Calling'
  <2>1. \A d \in Calls : TakenUp(d)' => \E a \in 1..Looked' : AsksFirst(a, d)'
    BY <1>0, <1>1, <1>2, <1>3 DEF LInv, Calling
  <2> QED
    BY <2>1 DEF Calling, Looping, Handling
<1>6. Sending'
  BY <1>3 DEF LInv, Sending, Looping, Handling
<1>7. Waiting'
  BY DEF Waiting, Looping
<1>8. Completed'
  <2>1. ASSUME NEW i \in 1..n, IsCall(i)
        PROVE  Sent(got[Run][i].call)
    <3>1. i \in 1..n - 1
      BY <1>1, <1>2, <2>1 DEF IsCall
    <3>2. TakenUp(got[Run][i].call)
      BY <1>2, <2>1, <3>1 DEF LInv, Calling, Looping
    <3>3. got[Run][i] \in Events
      BY <1>0, <2>1
    <3>4. got[Run][i].call \in Calls
      BY <2>1, <3>3, CallTypes DEF IsCall
    <3> QED
      BY <3>2, <3>4 DEF LInv, Sending, Looping, Handling
  <2>2. AnswerAt(n)
    <3>1. ASSUME NEW a \in 1..n - 1, NewCall(a)
          PROVE  \E k \in a + 1..n - 1 : got[Run][k].kind = "output"
      BY <1>2, <3>1 DEF LInv, Waiting, Looping
    <3> QED
      BY <1>1, <3>1 DEF AnswerAt
  <2>3. \A i \in 1..n - 1 : ~AnswerAt(i)
    BY <1>2 DEF LInv, Waiting, Looping
  <2>4. \A i \in 1..n : AnswerAt(i) <=> i = n
    BY <1>0, <1>2, <2>2, <2>3
  <2>5. Answered
    BY <1>0, <2>1, <2>4 DEF Answered, Sent
  <2>6. Answered'
    BY <1>1, <2>5 DEF Answered, Among
  <2> QED
    BY <2>6 DEF LInv, Completed
<1>9. OnceInOrder(ran)' /\ OnceInOrder(delivered)'
  BY <1>1 DEF LInv, OnceInOrder
<1>10. OneAtATime'
  BY DEF LInv, OneAtATime, Among
<1> QED
  BY <1>4, <1>5, <1>6, <1>7, <1>8, <1>9, <1>10 DEF LInv

\* The run looks at an event.
LEMMA ProcessKeeps ==
  ASSUME LInv, BInv, Process
  PROVE  LInv'
<1> DEFINE n == Len(got[Run])
<1>0. got[Run] \in Seq(Events) /\ n \in Nat \ {0}
  BY ReadTypes DEF LInv, Calling, Process, At
<1>1. /\ pc = "read" /\ got'[Run] = got[Run] /\ Event = got[Run][n] /\ Event \in Events
      /\ UNCHANGED broadcast
  BY <1>0 DEF Process, At, session, broadcast, Event
<1>2. status # "completed" /\ awaiting \in BOOLEAN /\ turns \in 0..MaxTurns /\ turns < MaxTurns
  BY <1>1 DEF LInv, Completed, LoopTypes, Waiting, Looping
<1>3. MaxTurns \in Nat
  BY LiveAssumption
<1>4. CASE ReadCall
  <2>1. IsCall(n) /\ Event.call \in Calls /\ Event.args \in Args
    BY <1>1, <1>4, CallTypes DEF ReadCall, IsCall
  <2>2. CASE ~TakenUp(Event.call)
    <3>1. /\ seen' = seen \cup {<<Event.call, Event.args>>} /\ awaiting' = TRUE
          /\ pc' = IF Event.call \in LocalTools THEN "tool" ELSE "delivering"
          /\ status' = status /\ UNCHANGED <<turns, ran, delivered>>
      BY <1>4, <2>2 DEF ReadCall, Goto
    <3> QED
      BY <1>1, <2>1, <2>2, <3>1, TakeUp
  <2>3. CASE TakenUp(Event.call) /\ pc' = "reading"
    <3>1. UNCHANGED <<seen, awaiting, turns, ran, delivered, status>>
      BY <1>4, <2>3 DEF ReadCall, Goto
    <3>2. PICK a \in 1..n - 1 : AsksFirst(a, Event.call)
      BY <1>1, <2>1, <2>3 DEF LInv, Calling, Looked
    <3>3. ~NewCall(n)
      BY <1>1, <3>2 DEF NewCall, AsksFirst
    <3>4. ~AnswerAt(n) /\ Event.kind # "output"
      BY <1>1, <2>1 DEF AnswerAt, IsCall
    <3>5. awaiting' = (awaiting /\ Event.kind # "output")
      BY <1>2, <3>1, <3>4
    <3> QED
      BY <1>1, <1>2, <2>3, <3>1, <3>3, <3>4, <3>5, LookOn
  <2>4. CASE TakenUp(Event.call) /\ pc' = "failing"
    <3>1. UNCHANGED <<seen, awaiting, turns, ran, delivered, status>>
      BY <1>4, <2>4 DEF ReadCall, Goto
    <3> QED
      BY <1>1, <1>2, <2>4, <3>1, SameLoop DEF Looping
  <2> QED
    BY <1>4, <2>2, <2>3, <2>4 DEF ReadCall, Goto
<1>5. CASE ReadOutput
  <2>1. /\ ~NewCall(n) /\ ~IsCall(n) /\ ~AnswerAt(n)
        /\ pc' = "reading" /\ UNCHANGED <<seen, turns, ran, delivered, status>>
        /\ awaiting' = (awaiting /\ Event.kind # "output")
    BY <1>1, <1>5 DEF ReadOutput, NewCall, IsCall, AnswerAt, Goto
  <2> QED
    BY <1>1, <1>2, <2>1, LookOn
<1>6. CASE ReadEnd
  <2>1. /\ ~NewCall(n) /\ ~IsCall(n) /\ Event.kind \in {"answered", "turn"}
        /\ UNCHANGED <<seen, awaiting, ran, delivered, status>> /\ turns' = turns + 1
        /\ pc' = IF Event.kind = "answered" /\ ~awaiting THEN "finishing"
                 ELSE IF turns' >= MaxTurns THEN "failing" ELSE "reading"
    BY <1>1, <1>6 DEF ReadEnd, Answers, NewCall, IsCall, Goto
  <2>2. turns' \in 0..MaxTurns
    BY <1>2, <1>3, <2>1
  <2>3. CASE Event.kind = "answered" /\ ~awaiting
    BY <1>1, <2>1, <2>2, <2>3, AnswerEnds
  <2>4. CASE ~(Event.kind = "answered" /\ ~awaiting) /\ turns' >= MaxTurns
    <3>1. pc' = "failing"
      BY <2>1, <2>4
    <3> QED
      BY <1>1, <1>2, <2>1, <2>2, <3>1, SameLoop DEF Looping
  <2>5. CASE ~(Event.kind = "answered" /\ ~awaiting) /\ ~(turns' >= MaxTurns)
    <3>1. ~AnswerAt(n)
      <4>1. CASE Event.kind = "turn"
        BY <1>1, <4>1 DEF AnswerAt
      <4>2. CASE awaiting
        <5>1. PICK a \in 1..n - 1 : NewCall(a) /\ \A k \in a + 1..n - 1 : got[Run][k].kind # "output"
          BY <1>1, <4>2 DEF LInv, Waiting, Looping, Looked
        <5> QED
          BY <5>1 DEF AnswerAt
      <4> QED
        BY <2>1, <2>5, <4>1, <4>2
    <3>2. awaiting' = (awaiting /\ Event.kind # "output")
      BY <1>2, <2>1
    <3>3. pc' = "reading" /\ turns' < MaxTurns
      BY <1>3, <2>1, <2>2, <2>5
    <3> QED
      BY <1>1, <2>1, <2>2, <3>1, <3>2, <3>3, LookOn
  <2> QED
    BY <2>3, <2>4, <2>5
<1>7. CASE ReadOther
  <2>1. /\ ~NewCall(n) /\ ~IsCall(n) /\ ~AnswerAt(n) /\ Event.kind # "output"
        /\ pc' \in {"reading", "failing"} /\ UNCHANGED <<seen, awaiting, turns, ran, delivered, status>>
    BY <1>1, <1>7 DEF ReadOther, NewCall, IsCall, AnswerAt, Goto, loop
  <2>2. CASE pc' = "reading"
    <3>1. awaiting' = (awaiting /\ Event.kind # "output")
      BY <1>2, <2>1
    <3> QED
      BY <1>1, <1>2, <2>1, <2>2, <3>1, LookOn
  <2>3. CASE pc' = "failing"
    BY <1>1, <1>2, <2>1, <2>3, SameLoop DEF Looping
  <2> QED
    BY <2>1, <2>2, <2>3
<1> QED
  BY <1>4, <1>5, <1>6, <1>7 DEF Process

\* The tool that is invoked is new, and every other was sent.
LEMMA InvokeKeeps ==
  ASSUME LInv, BInv, pc = "tool", pc' = "executing", got'[Run] = got[Run], status' = status,
         UNCHANGED <<seen, awaiting, turns, delivered>>, ran' = Append(ran, Event.call)
  PROVE  LInv'
<1> DEFINE n == Len(got[Run])
           c == Event.call
           m == Len(ran)
<1>0. got[Run] \in Seq(Events) /\ n \in Nat \ {0} /\ DOMAIN got[Run] = 1..n
  BY ReadTypes DEF LInv, Calling, Handling
<1>1. /\ \A i : IsCall(i)' <=> IsCall(i)
      /\ \A i : NewCall(i)' <=> NewCall(i)
      /\ \A i, d : AsksFirst(i, d)' <=> AsksFirst(i, d)
      /\ \A i : AnswerAt(i)' <=> AnswerAt(i)
      /\ Event' = Event /\ Event = got[Run][n]
  BY ReadSame DEF Event
<1>2. Looked = n /\ Looked' = n
  BY DEF Looked
<1>3. NewCall(n) /\ n > 0 /\ c \in LocalTools /\ c \in Calls
  BY LiveAssumption DEF LInv, Calling, Handling
<1>4. /\ ran \in Seq(Calls) /\ ran' \in Seq(Calls) /\ m \in Nat /\ Len(ran') = m + 1
      /\ DOMAIN ran = 1..m /\ DOMAIN ran' = 1..m + 1
      /\ ran'[m + 1] = c /\ \A i \in 1..m : ran'[i] = ran[i]
  BY <1>3 DEF LInv, LoopTypes
<1>5. \A d : Ran(d)' <=> Ran(d) \/ d = c
  BY <1>4 DEF Ran, Among
<1>6. \A d : (Sent(d)' <=> Sent(d)) /\ (TakenUp(d)' <=> TakenUp(d))
  BY DEF Sent, Among, TakenUp
<1>7. ~Ran(c) /\ ~Sent(c) /\ TakenUp(c)
  <2>1. IsCall(n) /\ n \in 1..n
    BY <1>0, <1>3 DEF NewCall
  <2>2. TakenUp(c)
    BY <1>1, <1>2, <2>1 DEF LInv, Calling, Looping
  <2> QED
    BY <1>3, <2>2 DEF LInv, Sending, Handling
<1>8. LoopTypes'
  BY <1>4 DEF LInv, LoopTypes
<1>9. Calling'
  <2>1. \A d \in Calls : TakenUp(d)' => \E a \in 1..Looked' : AsksFirst(a, d)'
    BY <1>1, <1>2, <1>6 DEF LInv, Calling
  <2>2. \A i \in 1..n : IsCall(i) => TakenUp(got[Run][i].call)
    BY <1>2 DEF LInv, Calling, Looping
  <2>3. \A i \in 1..n : IsCall(i) => (TakenUp(got[Run][i].call))'
    BY <2>2 DEF TakenUp
  <2>4. (Len(got[Run]) > 0 /\ NewCall(Len(got[Run])))'
    BY <1>0, <1>3 DEF NewCall, IsCall
  <2> QED
    BY <1>1, <1>2, <1>3, <2>1, <2>3, <2>4 DEF Calling
<1>10. Sending'
  BY <1>1, <1>5, <1>6, <1>7 DEF LInv, Sending, Handling, Looping
<1>11. Waiting'
  BY <1>1, <1>2 DEF LInv, Waiting, Looping
<1>12. Completed'
  BY DEF LInv, Completed
<1>13. OnceInOrder(ran)'
  <2>1. OnceInOrder(Append(ran, c))
    BY <1>0, <1>1, <1>3, <1>4, <1>7, OrderAppend DEF LInv, Ran
  <2> HIDE DEF c
  <2>2. Append(ran, c) = ran'
    BY DEF c
  <2>3. /\ \A i \in DOMAIN ran' : \E a \in DOMAIN got[Run] : AsksFirst(a, ran'[i])
        /\ \A i, j \in DOMAIN ran' : i < j =>
             \A a, b \in DOMAIN got[Run] : AsksFirst(a, ran'[i]) /\ AsksFirst(b, ran'[j]) => a < b
    BY <2>1, <2>2 DEF OnceInOrder
  <2> QED
    BY <2>3, SMTT(30) DEF OnceInOrder, AsksFirst, NewCall, IsCall
<1>14. OnceInOrder(delivered)'
  BY <1>1 DEF LInv, OnceInOrder
<1>15. OneAtATime'
  <2>1. ASSUME NEW i \in 1..m
        PROVE  Sent(ran[i])
    <3>1. ran[i] \in Calls /\ Ran(ran[i])
      BY <1>4 DEF Ran, Among
    <3>2. ran[i] # c /\ TakenUp(ran[i])
      BY <1>7, <3>1 DEF LInv, Sending
    <3> QED
      BY <3>1, <3>2 DEF LInv, Sending, Looping
  <2>2. \A i \in DOMAIN ran' : i < Len(ran') => Sent(ran'[i])
    BY <1>4, <2>1
  <2>3. \A i \in DOMAIN delivered : delivered[i] \in LocalTools =>
          \E j \in DOMAIN ran' : ran'[j] = delivered[i]
    BY <1>4 DEF LInv, OneAtATime, Among
  <2> QED
    BY <2>2, <2>3 DEF OneAtATime, Among, Sent
<1> QED
  BY <1>8, <1>9, <1>10, <1>11, <1>12, <1>13, <1>14, <1>15 DEF LInv

\* The result that is sent is of a new call, the only one that was not sent.
LEMMA DeliverKeeps ==
  ASSUME LInv, BInv, pc = "sending", pc' = "delivered", got'[Run] = got[Run], status' = status,
         UNCHANGED <<seen, awaiting, turns, ran>>, delivered' = Append(delivered, Event.call)
  PROVE  LInv'
<1> DEFINE n == Len(got[Run])
           c == Event.call
           m == Len(delivered)
<1>0. /\ got[Run] \in Seq(Events) /\ n \in Nat \ {0} /\ DOMAIN got[Run] = 1..n
      /\ got[Run][n] \in Events
  BY ReadTypes DEF LInv, Calling, Handling
<1>1. /\ \A i : IsCall(i)' <=> IsCall(i)
      /\ \A i : NewCall(i)' <=> NewCall(i)
      /\ \A i, d : AsksFirst(i, d)' <=> AsksFirst(i, d)
      /\ \A i : AnswerAt(i)' <=> AnswerAt(i)
      /\ Event' = Event /\ Event = got[Run][n]
  BY ReadSame DEF Event
<1>2. Looked = n /\ Looked' = n
  BY DEF Looked
<1>3. NewCall(n) /\ n > 0 /\ c \in Calls
  <2>1. NewCall(n) /\ n > 0
    BY DEF LInv, Calling, Handling
  <2> QED
    BY <1>0, <1>1, <2>1, CallTypes DEF NewCall, IsCall
<1>4. /\ delivered \in Seq(Calls) /\ delivered' \in Seq(Calls) /\ m \in Nat
      /\ Len(delivered') = m + 1
      /\ DOMAIN delivered = 1..m /\ DOMAIN delivered' = 1..m + 1
      /\ delivered'[m + 1] = c /\ \A i \in 1..m : delivered'[i] = delivered[i]
  BY <1>3 DEF LInv, LoopTypes
<1>5. \A d : Sent(d)' <=> Sent(d) \/ d = c
  BY <1>4 DEF Sent, Among
<1>6. \A d : (Ran(d)' <=> Ran(d)) /\ (TakenUp(d)' <=> TakenUp(d))
  BY DEF Ran, Among, TakenUp
<1>7. ~Sent(c) /\ TakenUp(c) /\ (c \in LocalTools => Ran(c))
  <2>1. IsCall(n) /\ n \in 1..n
    BY <1>0, <1>3 DEF NewCall
  <2>2. TakenUp(c)
    BY <1>1, <1>2, <2>1 DEF LInv, Calling, Looping
  <2> QED
    BY <1>3, <2>2 DEF LInv, Sending, Handling
<1>8. LoopTypes'
  BY <1>4 DEF LInv, LoopTypes
<1>9. Calling'
  <2>1. \A d \in Calls : TakenUp(d)' => \E a \in 1..Looked' : AsksFirst(a, d)'
    BY <1>1, <1>2, <1>6 DEF LInv, Calling
  <2>2. \A i \in 1..n : IsCall(i) => TakenUp(got[Run][i].call)
    BY <1>2 DEF LInv, Calling, Looping
  <2>3. \A i \in 1..n : IsCall(i) => (TakenUp(got[Run][i].call))'
    BY <2>2 DEF TakenUp
  <2>4. (Len(got[Run]) > 0 /\ NewCall(Len(got[Run])))'
    BY <1>0, <1>3 DEF NewCall, IsCall
  <2> QED
    BY <1>1, <1>2, <1>3, <2>1, <2>3, <2>4 DEF Calling
<1>10. Sending'
  <2>1. \A d \in Calls : TakenUp(d) => Sent(d) \/ d = c
    BY DEF LInv, Sending, Looping
  <2>2. \A d \in Calls : Ran(d) \/ Sent(d) => TakenUp(d)
    BY DEF LInv, Sending
  <2> QED
    BY <1>1, <1>5, <1>6, <1>7, <2>1, <2>2 DEF Sending, Handling, Looping
<1>11. Waiting'
  BY <1>1, <1>2 DEF LInv, Waiting, Looping
<1>12. Completed'
  BY DEF LInv, Completed
<1>13. OnceInOrder(ran)'
  BY <1>1 DEF LInv, OnceInOrder
<1>14. OnceInOrder(delivered)'
  <2>1. OnceInOrder(Append(delivered, c))
    BY <1>0, <1>1, <1>3, <1>4, <1>7, OrderAppend DEF LInv, Sent
  <2> HIDE DEF c
  <2>2. Append(delivered, c) = delivered'
    BY DEF c
  <2>3. /\ \A i \in DOMAIN delivered' : \E a \in DOMAIN got[Run] : AsksFirst(a, delivered'[i])
        /\ \A i, j \in DOMAIN delivered' : i < j =>
             \A a, b \in DOMAIN got[Run] :
               AsksFirst(a, delivered'[i]) /\ AsksFirst(b, delivered'[j]) => a < b
    BY <2>1, <2>2 DEF OnceInOrder
  <2> QED
    BY <2>3, SMTT(30) DEF OnceInOrder, AsksFirst, NewCall, IsCall
<1>15. OneAtATime'
  <2>1. \A i \in DOMAIN ran : i < Len(ran) => Sent(ran[i]) /\ Sent(ran[i])'
    BY <1>5 DEF LInv, OneAtATime, Sent
  <2>2. ASSUME NEW i \in DOMAIN delivered', delivered'[i] \in LocalTools
        PROVE  Ran(delivered'[i])
    <3>1. CASE i = m + 1
      BY <1>4, <1>7, <2>2, <3>1
    <3>2. CASE i # m + 1
      BY <1>4, <2>2, <3>2 DEF LInv, OneAtATime, Ran
    <3> QED
      BY <3>1, <3>2
  <2> QED
    BY <2>1, <2>2 DEF OneAtATime, Among, Sent, Ran
<1> QED
  BY <1>8, <1>9, <1>10, <1>11, <1>12, <1>13, <1>14, <1>15 DEF LInv

\* Every step of the run that reads nothing, and answers nothing.
LEMMA RunQuietKeeps ==
  ASSUME IInv, LInv,
         \/ Start \/ Save \/ Prepare \/ Connecting \/ ConnectFails \/ Connected \/ Notice
         \/ WallTimeOver \/ Prompt \/ ToolReturns \/ Send \/ DeliveryFails \/ Delivered \/ Finish
         \/ Suspend \/ SuspendHookFails \/ PersistCancelled \/ Fail \/ Interrupted
         \/ HandlerInterrupted \/ Closing \/ Return
  PROVE  LInv'
<1> DEFINE Moves ==
             \/ pc' = pc /\ (status' = "completed" => status = "completed")
             \/ /\ pc' \notin Looping \cup {"finishing"}
                /\ status' = "completed" =>
                     /\ status = "completed" \/ pc = "finishing"
                     /\ pc' \in {"interrupting", "failing", "closing", "over"}
             \/ pc \in Idle \cup {"delivered"} /\ pc' \in Idle /\ status' # "completed"
             \/ pc = "executing" /\ pc' = "delivering" /\ status' # "completed"
             \/ pc = "delivering" /\ pc' = "sending" /\ status' # "completed"
<1>1. BInv /\ awaiting \in BOOLEAN /\ turns \in 0..MaxTurns
  BY DEF IInv, SInv, LInv, LoopTypes
<1>2. status = "completed" => pc \in {"interrupting", "failing", "closing", "over"}
  BY DEF LInv, Completed
<1>3. ASSUME UNCHANGED <<got, seen, awaiting, turns, ran, delivered>>, Moves
      PROVE  LInv'
  BY <1>1, <1>3, SameLoop
<1> USE DEF Stay, loop, session, broadcast, Looping, Idle
<1>4. CASE Start \/ Save
  BY <1>2, <1>3, <1>4 DEF Start, Save, At
<1>5. CASE Prepare \/ Connecting \/ ConnectFails \/ Connected
  BY <1>2, <1>3, <1>5 DEF Prepare, Connecting, ConnectFails, Connected, Opened, Greeted,
     NotConnected, Publish, Close, At, Goto, run
<1>6. CASE Notice \/ WallTimeOver
  BY <1>2, <1>3, <1>6 DEF Notice, WallTimeOver, LeaveBoundary, Abandon, NotConnected, Close, Goto,
     Boundaries
<1>7. CASE Prompt \/ ToolReturns \/ Send \/ DeliveryFails \/ Delivered
  BY <1>2, <1>3, <1>7 DEF Prompt, ToolReturns, Send, DeliveryFails, Delivered, At, Goto
<1>8. CASE Finish \/ Suspend \/ SuspendHookFails \/ PersistCancelled \/ Fail
  BY <1>2, <1>3, <1>8 DEF Finish, Suspend, SuspendHookFails, PersistCancelled, Fail, Ends, CanSave,
     At, Goto
<1>9. CASE Interrupted
  <2>1. UNCHANGED <<got, seen, awaiting, turns, ran, delivered>>
    BY <1>9 DEF Interrupted, Abandon, NotConnected, Close
  <2>2. pc' \in {"failing", "interrupting"}
    BY <1>9 DEF Interrupted
  <2>3. status' = "completed" => status = "completed" \/ pc = "finishing"
    BY <1>9 DEF Interrupted, Maybe
  <2> QED
    BY <1>3, <2>1, <2>2, <2>3
<1>10. CASE HandlerInterrupted
  <2>1. UNCHANGED <<got, seen, awaiting, turns, ran, delivered>> /\ pc' = "closing"
    BY <1>10 DEF HandlerInterrupted, Ends
  <2>2. status' = "completed" => status = "completed"
    BY <1>10 DEF HandlerInterrupted, Ends, Maybe
  <2> QED
    BY <1>3, <2>1, <2>2
<1>11. CASE Closing
  BY <1>2, <1>3, <1>11 DEF Closing, CloseSession, Shut, Joined, JoinInterrupted, EndOnce,
     PublishLast, Close, run
<1>12. CASE Return
  BY <1>2, <1>3, <1>12 DEF Return
<1> QED
  BY <1>4, <1>5, <1>6, <1>7, <1>8, <1>9, <1>10, <1>11, <1>12

\* What anybody else does.
LEMMA OthersQuietKeep ==
  ASSUME IInv, LInv,
         \/ SessionStep \/ SessionUnwinds \/ CancelTask \/ CancelToken \/ CancelRun
         \/ \E u \in Updaters : UpdateStep(u)
         \/ UNCHANGED vars
  PROVE  LInv'
<1>1. BInv /\ awaiting \in BOOLEAN /\ turns \in 0..MaxTurns
  BY DEF IInv, SInv, LInv, LoopTypes
<1>2. UNCHANGED <<got, seen, awaiting, turns, ran, delivered, pc>>
  <2>1. CASE SessionStep \/ SessionUnwinds
    BY <2>1 DEF SessionStep, SessionUnwinds, Receive, ReceiverEnds, ReceiverUnwinds, EndOnce,
       PublishLast, Publish, Close, run, loop
  <2>2. CASE CancelTask \/ CancelToken \/ CancelRun
    BY <2>2 DEF CancelTask, CancelToken, CancelRun, Stay, loop, session, broadcast
  <2>3. CASE (\E u \in Updaters : UpdateStep(u)) \/ UNCHANGED vars
    BY <2>3 DEF UpdateStep, vars, loop, run, session, broadcast
  <2> QED
    BY <2>1, <2>2, <2>3
<1>3. status' = "completed" => status = "completed"
  <2>1. CASE SessionStep \/ SessionUnwinds
    BY <2>1 DEF SessionStep, SessionUnwinds, run
  <2>2. CASE CancelTask \/ CancelToken \/ CancelRun
    BY <2>2 DEF CancelTask, CancelToken, CancelRun
  <2>3. CASE (\E u \in Updaters : UpdateStep(u)) \/ UNCHANGED vars
    BY <2>3 DEF UpdateStep, vars, run
  <2> QED
    BY <2>1, <2>2, <2>3
<1> QED
  BY <1>1, <1>2, <1>3, SameLoop

LEMMA LoopStep ==
  ASSUME IInv, LInv, [Next]_vars
  PROVE  LInv'
<1>1. BInv /\ status \in {"none", "running", "suspended", "completed", "failed", "cancelled"}
  BY DEF IInv, SInv, RunTypes
<1>2. awaiting \in BOOLEAN /\ turns \in 0..MaxTurns
  BY DEF LInv, LoopTypes
<1>3. CASE InvokeTool
  <2>1. /\ pc = "tool" /\ status' = status /\ got' = got
        /\ UNCHANGED <<seen, awaiting, turns, delivered>>
    BY <1>3 DEF InvokeTool, At, Goto, session, broadcast
  <2>2. CASE pc' = "executing" /\ ran' = Append(ran, Event.call)
    BY <1>1, <2>1, <2>2, InvokeKeeps
  <2>3. CASE pc' \in {"cancelling", "failing", "suspending"} /\ ran' = ran
    <3>1. status # "completed"
      BY <2>1 DEF LInv, Completed
    <3> QED
      BY <1>1, <1>2, <2>1, <2>3, <3>1, SameLoop DEF Looping
  <2> QED
    BY <1>3, <2>2, <2>3 DEF InvokeTool, Goto
<1>4. CASE Deliver
  BY <1>1, <1>4, DeliverKeeps DEF Deliver, SendResult, Publish, At, Goto
<1>5. CASE ReadEvent \/ Process
  BY <1>1, <1>5, ReadEventKeeps, ProcessKeeps
<1> QED
  BY <1>3, <1>4, <1>5, RunQuietKeeps, OthersQuietKeep DEF Next, RunStep

-----------------------------------------------------------------------------
(* The theorems *)

LEMMA Initially == Init => IInv /\ LInv
<1> SUFFICES ASSUME Init PROVE IInv /\ LInv
  OBVIOUS
<1> USE DEF Init, SessionInit
<1>1. BInv
  BY BroadcastInitially
<1>2. feed = <<>> /\ got[Run] = <<>> /\ Len(got[Run]) = 0 /\ Len(feed) = 0
  BY LiveAssumption DEF BroadcastInit
<1>3. SInv
  <2>1. SessionTypes /\ Connection
    BY DEF SessionTypes, Conns, Connection
  <2>2. 1..Len(feed) = {} /\ DOMAIN feed = {}
    BY <1>2
  <2> QED
    BY <1>1, <2>1, <2>2 DEF SInv, Flagged, EndedOnce
<1>4. UpdateTypes /\ Serial
  BY SessionAssumption DEF UpdateTypes, UpdaterStates, Serial
<1>5. RunTypes /\ Reached /\ Recorded
  <2>1. 0 \in 0..MaxCancels
    BY LiveAssumption
  <2>2. RunTypes
    BY <2>1 DEF RunTypes, PCs, Outcomes
  <2> QED
    BY <2>2 DEF Reached, Recorded
<1>6. LoopTypes
  <2>1. 0 \in 0..MaxTurns /\ <<>> \in Seq(Calls)
    BY LiveAssumption
  <2> QED
    BY <2>1 DEF LoopTypes
<1>7. Looked = 0
  BY <1>2 DEF Looked
<1>8. \A c : ~TakenUp(c) /\ ~Ran(c) /\ ~Sent(c)
  BY DEF TakenUp, Ran, Sent, Among
<1>9. Calling /\ Sending
  BY <1>7, <1>8 DEF Calling, Sending, Handling
<1>10. Waiting
  BY <1>7, LiveAssumption DEF Waiting
<1>11. Completed /\ OnceInOrder(ran) /\ OnceInOrder(delivered) /\ OneAtATime
  BY DEF Completed, OnceInOrder, OneAtATime
<1> QED
  BY <1>3, <1>4, <1>5, <1>6, <1>9, <1>10, <1>11 DEF IInv, LInv

LEMMA Step == IInv /\ LInv /\ [Next]_vars => IInv' /\ LInv'
<1> SUFFICES ASSUME IInv, LInv, [Next]_vars PROVE IInv' /\ LInv'
  OBVIOUS
<1>1. LInv'
  BY LoopStep
<1>2. UpdateTypes' /\ Serial'
  <2>1. CASE \E u \in Updaters : UpdateStep(u)
    BY <2>1, UpdateStepKeeps DEF IInv
  <2>2. CASE ~\E u \in Updaters : UpdateStep(u)
    <3>1. UNCHANGED updates
      BY <2>2, OthersUpdateNothing
    <3> QED
      BY <3>1 DEF IInv, updates, UpdateTypes, Serial
  <2> QED
    BY <2>1, <2>2
<1>3. SInv' /\ RunTypes' /\ Reached' /\ Recorded'
  <2>1. CASE RunStep \/ WallTimeOver
    BY <2>1, RunStepKeeps
  <2>2. CASE SessionStep \/ SessionUnwinds \/ CancelTask \/ CancelToken \/ CancelRun
             \/ \E u \in Updaters : UpdateStep(u)
    BY <2>2, OthersKeep
  <2>3. CASE UNCHANGED vars
    <3>1. SInv' /\ UNCHANGED <<conn, receiver, closing>>
      BY <2>3, SessionSame DEF IInv, vars, session
    <3> QED
      BY <2>3, <3>1 DEF IInv, vars, run, RunTypes, Reached, Recorded
  <2> QED
    BY <2>1, <2>2, <2>3 DEF Next
<1> QED
  BY <1>1, <1>2, <1>3 DEF IInv

LEMMA Always == Spec => [](IInv /\ LInv)
BY Initially, Step, PTL DEF Spec

\* Every variable stays in its type: the run takes at most max_steps turns,
\* and the buffer of its session never holds more than its capacity.
THEOREM TypeCorrect == Spec => []LiveTypeOK
<1>1. IInv /\ LInv => LiveTypeOK
  BY DEF IInv, SInv, LInv, BInv, SessionTypes, UpdateTypes, RunTypes, LoopTypes, SessionTypeOK,
     LiveTypeOK
<1> QED
  BY <1>1, Always, PTL

\* The loop of _run_live_with_session executes and answers every call once,
\* in order and one at a time, and completes with the first answer after all
\* of them, whatever the provider repeats or reorders.
THEOREM CallsAnsweredAlways == Spec => []CallsAnswered
<1>1. LInv => CallsAnswered
  BY DEF LInv, Completed, CallsAnswered
<1> QED
  BY <1>1, Always, PTL

\* However the receiver, aclose and their cancellations interleave, _ended
\* lets the end of a session be published once, and nothing but results
\* follow it.
THEOREM EndedOnceAlways == Spec => []EndedOnce
<1>1. IInv => EndedOnce
  BY DEF IInv, SInv
<1> QED
  BY <1>1, Always, PTL

\* _update_lock and the copy that update makes keep every update that has
\* returned in force, although others fail or are cancelled halfway.
THEOREM UpdatesKeptAlways == Spec => []UpdatesKept
<1>1. IInv => UpdatesKept
  BY DEF IInv, UpdateTypes, Serial, UpdatesKept
<1> QED
  BY <1>1, Always, PTL

\* The handlers and the finally of a live run shut the session it was given,
\* join or abandon its receiver, and record the run, wherever in its body it
\* was interrupted.  A cancellation or a failing on_agent_end hook inside the
\* handler that records the run may leave it stored running.
THEOREM LeavesNothingAlways == Spec => []LeavesNothing
<1>1. IInv => LeavesNothing
  BY DEF IInv, SInv, RunTypes, SessionTypes, Connection, Reached, Recorded, Over, LeavesNothing
<1> QED
  BY <1>1, Always, PTL
=============================================================================
