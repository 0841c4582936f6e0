--------------------------- MODULE RealtimeSession ---------------------------
(***************************************************************************)
(* CallbackRealtimeSession of realtime.py: a receiver task publishes what  *)
(* the provider sends, callers send tool results and configuration         *)
(* updates over the same connection, and aclose shuts all of it down.  One *)
(* event loop runs them, so a step is what a task does between two awaits. *)
(* The transport may fail at any call; a send that is cancelled or fails   *)
(* may have reached the provider.                                          *)
(***************************************************************************)
EXTENDS Broadcast, FiniteSets

CONSTANTS
  Calls, NoCall,  \* ids of tool calls
  Args,           \* what distinguishes two calls that have one id
  Updaters,       \* calls of update, each of a part of the configuration
  Nobody,
  MaxEvents,      \* bound: events of the session without results
  FewEvents       \* bound: those of a session that is updated or cancelled

\* Events that carry nothing but their kind: output of the model, the end of
\* a response that answers or that asks for tools, an error, the end.
Plain(kind) == [kind |-> kind, call |-> NoCall, args |-> NoCall]

ToolCall(c, a) == [kind |-> "call", call |-> c, args |-> a]

ToolResult(c) == [kind |-> "result", call |-> c, args |-> NoCall]

PlainKinds == {"started", "output", "answered", "turn", "error", "ended"}

SessionEvents ==
  {Plain(k) : k \in PlainKinds} \cup {ToolCall(c, a) : c \in Calls, a \in Args}
    \cup {ToolResult(c) : c \in Calls}

ASSUME SessionAssumption ==
  /\ NoCall \notin Calls \cup Args /\ Nobody \notin Updaters
  /\ Events \subseteq SessionEvents
  /\ {Plain(k) : k \in PlainKinds} \cup {ToolResult(c) : c \in Calls} \subseteq Events
  /\ {MaxEvents, FewEvents} \subseteq Nat

VARIABLES
  conn,      \* the connection: when it is shut, its close was called
  receiver,  \* the task of _receive_loop
  closed,    \* _closed
  ended,     \* _ended
  closing,   \* where aclose is
  config,    \* parts of the configuration that updates have set
  wire,      \* those of the last configuration that reached the provider
  holder,    \* who holds _update_lock
  plan,      \* the configuration that each update sends
  updater    \* where each update is, or what it returned; none if not called

session == <<broadcast, conn, receiver, closed, ended, closing>>
updates == <<config, wire, holder, plan, updater>>

Conns == {"none", "opening", "greeting", "ready", "shut"}

UpdaterStates == {"none", "waiting", "sending", "updated", "failed"}

SessionTypeOK ==
  /\ BroadcastTypeOK
  /\ conn \in Conns
  /\ receiver \in {"none", "receiving", "cancelled", "done"}
  /\ closed \in BOOLEAN
  /\ ended \in BOOLEAN
  /\ closing \in {"no", "shutting", "joining", "closed", "cut"}
  /\ config \in SUBSET Updaters
  /\ wire \in SUBSET Updaters
  /\ holder \in Updaters \cup {Nobody}
  /\ plan \in [Updaters -> SUBSET Updaters]
  /\ updater \in [Updaters -> UpdaterStates]

SessionInit ==
  /\ BroadcastInit
  /\ conn = "none"
  /\ receiver = "none"
  /\ closed = FALSE
  /\ ended = FALSE
  /\ closing = "no"
  /\ config = {} /\ wire = {}
  /\ plan = [u \in Updaters |-> {}]
  /\ holder = Nobody
  /\ updater \in [Updaters -> {"none", "waiting"}]

-----------------------------------------------------------------------------
(* Connecting *)

\* The factory has opened the transport; initialize sends the configuration
\* and may wait for the provider's acknowledgement.
Opened ==
  /\ conn = "opening"
  /\ conn' = "greeting"
  /\ UNCHANGED <<broadcast, receiver, closed, ended, closing>>

\* initialize publishes the first event and starts the receiver.
Greeted ==
  /\ conn = "greeting"
  /\ Publish(Plain("started"))
  /\ conn' = "ready"
  /\ receiver' = "receiving"
  /\ UNCHANGED <<closed, ended, closing>>

\* Connecting fails or is cancelled: a transport that is open is closed.
NotConnected ==
  \/ /\ conn = "opening"
     /\ conn' = "none"
     /\ UNCHANGED <<broadcast, receiver, closed, ended, closing>>
  \/ /\ conn = "greeting"
     /\ Close
     /\ conn' = "shut"
     /\ closed' = TRUE
     /\ UNCHANGED <<receiver, ended, closing>>

-----------------------------------------------------------------------------
(* The receiver *)

Provided == {e \in Events : e.kind \notin {"started", "result", "ended"}}

Received == Len(SelectSeq(feed, LAMBDA e : e.kind # "result"))

\* Updates and long sessions are looked at separately.
Bound == IF \A u \in Updaters : updater[u] = "none" THEN MaxEvents ELSE FewEvents

\* recv_json returns a message and its event is published.  There is no await
\* between the two, nor between publishing the end and closing.
Receive ==
  /\ receiver = "receiving"
  /\ Received < Bound
  /\ \E e \in Provided : Publish(e)
  /\ UNCHANGED <<conn, receiver, closed, ended, closing>>

\* Publish and close in one step.
PublishLast(e) ==
  /\ feed' = Append(feed, e)
  /\ history' = Retain(history, e)
  /\ done' = TRUE
  /\ phase' = Woken(phase)
  /\ UNCHANGED got

\* Mutant: the end is published whoever has published it.
Unended_Always == TRUE

Unended == ~ended

\* `if not self._ended`: the end of a session is published once.
EndOnce ==
  /\ ended' = TRUE
  /\ IF Unended THEN PublishLast(Plain("ended")) ELSE Close

\* The provider ends the session, or the transport does: it is closed, a
\* message is too large or cannot be parsed.
ReceiverEnds ==
  /\ receiver = "receiving"
  /\ EndOnce
  /\ receiver' = "done"
  /\ UNCHANGED <<conn, closed, closing>>

\* The receiver was cancelled: its finally closes the broadcast.
ReceiverUnwinds ==
  /\ receiver = "cancelled"
  /\ Close
  /\ receiver' = "done"
  /\ UNCHANGED <<conn, closed, ended, closing>>

-----------------------------------------------------------------------------
(* aclose *)

CloseSession ==
  /\ ~closed
  /\ closed' = TRUE
  /\ closing' = "shutting"
  /\ UNCHANGED <<broadcast, conn, receiver, ended>>

\* Mutant: the receiver is not cancelled.
Stopped_Not(r) == r

\* self._receiver_task.cancel()
Stopped(r) == IF r = "receiving" THEN "cancelled" ELSE r

\* The last payloads and close of the connection, which return, raise, time
\* out or are cancelled: the receiver is cancelled all the same.
Shut ==
  /\ closing = "shutting"
  /\ conn' = "shut"
  /\ receiver' = Stopped(receiver)
  /\ closing' = "joining"
  /\ UNCHANGED <<broadcast, closed, ended>>

\* The receiver is joined.  The end is published if nobody has, but by then
\* the receiver has closed the broadcast.
Joined ==
  /\ closing = "joining"
  /\ receiver \in {"none", "done"}
  /\ EndOnce
  /\ closing' = "closed"
  /\ UNCHANGED <<conn, receiver, closed>>

\* The task that closes is cancelled while it joins.
JoinInterrupted ==
  /\ closing = "joining"
  /\ closing' = "cut"
  /\ UNCHANGED <<broadcast, conn, receiver, closed, ended>>

-----------------------------------------------------------------------------
(* Sending *)

\* _send_payloads refuses.
Refuses == closed \/ done

\* send_tool_result: the event is published when the payload was sent, even
\* if the session has ended meanwhile.
SendResult(c) ==
  /\ Publish(ToolResult(c))
  /\ UNCHANGED <<conn, receiver, closed, ended, closing>>

Told(u, s) == updater' = [updater EXCEPT ![u] = s]

\* Mutant: an update does not take the lock.
Unlocked_Always == TRUE

Unlocked == holder = Nobody

\* A caller has the session and the lock: the configuration that is sent is
\* the present one with the part of the update.
StartUpdate(u) ==
  /\ updater[u] = "waiting"
  /\ Unlocked
  /\ IF Refuses
     THEN Told(u, "failed") /\ UNCHANGED <<holder, plan>>
     ELSE Told(u, "sending") /\ holder' = u /\ plan' = [plan EXCEPT ![u] = config \cup {u}]
  /\ UNCHANGED <<config, wire>>

\* The payloads are sent and the configuration is recorded.
FinishUpdate(u) ==
  /\ updater[u] = "sending"
  /\ conn = "ready"
  /\ wire' = plan[u]
  /\ config' = plan[u]
  /\ holder' = Nobody
  /\ plan' = [plan EXCEPT ![u] = {}]
  /\ Told(u, "updated")

\* Sending raises or is cancelled, and may have reached the provider.
FailUpdate(u) ==
  /\ updater[u] = "sending"
  /\ wire' \in {wire, plan[u]}
  /\ holder' = Nobody
  /\ plan' = [plan EXCEPT ![u] = {}]
  /\ Told(u, "failed")
  /\ UNCHANGED config


-----------------------------------------------------------------------------
\* The end of a session is published at most once, by the receiver or by
\* aclose, and is followed by nothing but results of tools that were being
\* sent when it came (_receive_loop and aclose set and test _ended).
EndedOnce ==
  \A i, j \in DOMAIN feed :
    i < j /\ feed[i].kind = "ended" => feed[j].kind = "result"

\* An update that has returned stays in force, in the session's own
\* configuration and at the provider, whatever is updated concurrently or
\* fails (docs/agents/live-realtime.md: "Concurrent updates are serialized").
UpdatesKept ==
  \A u \in Updaters : updater[u] = "updated" => u \in config /\ u \in wire
=============================================================================
