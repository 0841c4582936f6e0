---------------------------- MODULE ResponsesHost ----------------------------
(***************************************************************************)
(* One streaming request of ResponsesAgentHost (responses_host.py): the    *)
(* host reads the events of an agent stream, which runs as a task of its   *)
(* own, records every response event in its store before it sends it, and  *)
(* completes the record.  The client may disconnect at any time and        *)
(* replays what it has missed; a call of the store may fail, with or       *)
(* without its effect.                                                     *)
(***************************************************************************)
EXTENDS OwnedStream, FiniteSets

CONSTANTS
  Host,       \* the host, as the reader and the collector of the stream
  Deltas,     \* events of the agent that carry text
  MaxFaults   \* bound: store calls that fail

VARIABLES
  pc,        \* where the host is in stream_prepared
  sequence,  \* its next sequence_number
  hand,      \* the event it has recorded and not sent yet, or none
  record,    \* status of the stored response
  log,       \* its stored events; sequence numbers are positions from zero
  connected, \* is the client there
  seen,      \* the events that the client has, from the stream or a replay
  polled,    \* the events that another client has, from replays alone
  faults

host == <<pc, sequence, hand, record, log, connected, seen, polled, faults>>
vars == <<streamVars, host>>

Opening == <<"created", "in_progress", "item_added", "part_added">>
Closing == <<"text_done", "part_done", "item_done">>

Ended == {"completed", "failed"}

\* The events of the protocol that carry no text.
Frame == {Opening[i] : i \in DOMAIN Opening} \cup {Closing[i] : i \in DOMAIN Closing} \cup Ended

Sendable == Frame \cup Deltas

\* "none" stands for no event.
ASSUME HostAssumption ==
  /\ Host \in Consumers /\ Host \in Collectors
  /\ Deltas \subseteq Events \ {ErrorEvent}
  /\ Deltas \cap (Frame \cup {"none"}) = {}
  /\ MaxFaults \in Nat

PCs == {"idle", "opening", "reading", "delta", "collecting", "closing", "ending",
        "completing", "failing", "marking", "over", "raised"}

HostTypeOK ==
  /\ StreamTypeOK
  /\ pc \in PCs
  /\ sequence \in Nat
  /\ hand \in Sendable \cup {"none"}
  /\ record \in {"none", "in_progress", "completed", "failed"}
  /\ log \in Seq(Sendable)
  /\ connected \in BOOLEAN
  /\ seen \in Seq(Sendable)
  /\ polled \in Seq(Sendable)
  /\ faults \in Nat

HostInit ==
  /\ StreamInit("none")
  /\ pc = "idle"
  /\ sequence = 0
  /\ hand = "none"
  /\ record = "none"
  /\ log = <<>>
  /\ connected = TRUE
  /\ seen = <<>>
  /\ polled = <<>>
  /\ faults = 0

\* InMemoryResponsesEventStore.append expects the next sequence number.
Expected == sequence = Len(log)

\* The event is recorded and the host goes on, or the call raises.  An
\* application's store may raise although the event is recorded.
AppendEvent(item, next, raised) ==
  /\ hand = "none"
  /\ \/ /\ Expected
        /\ log' = Append(log, item)
        /\ hand' = item
        /\ pc' = next
        /\ UNCHANGED faults
     \/ /\ ~Expected
        /\ pc' = raised
        /\ UNCHANGED <<log, hand, faults>>
     \/ /\ faults < MaxFaults
        /\ faults' = faults + 1
        /\ log' \in {log, IF Expected THEN Append(log, item) ELSE log}
        /\ pc' = raised
        /\ UNCHANGED hand
  /\ UNCHANGED <<sequence, record, connected, seen, polled>>

\* Mutant: the last event is sent before the record is completed.
Unmarked_Never == FALSE

\* The last event is recorded and the record is not completed yet.
Unmarked == pc \in {"completing", "marking"}

\* An event is yielded to the client when it is recorded; the last one when
\* the response is complete as well.
Yield ==
  /\ hand # "none" /\ connected
  /\ ~Unmarked
  /\ seen' = Append(seen, hand)
  /\ hand' = "none"
  /\ sequence' = sequence + 1
  /\ UNCHANGED <<streamVars, pc, record, log, connected, polled, faults>>

CreateRecord ==
  /\ pc = "idle"
  /\ record' = "in_progress"
  /\ pc' = "opening"
  /\ UNCHANGED <<streamVars, sequence, hand, log, connected, seen, polled, faults>>

Open ==
  /\ pc = "opening" /\ sequence < Len(Opening)
  /\ AppendEvent(Opening[sequence + 1], "opening", "raised")
  /\ UNCHANGED streamVars

\* stream_agent, once the opening events are sent.
StartAgent ==
  /\ pc = "opening" /\ sequence = Len(Opening)
  /\ runner' = "created"
  /\ pc' = "reading"
  /\ UNCHANGED <<broadcast, doomed, result, closer, collector>>
  /\ UNCHANGED <<sequence, hand, record, log, connected, seen, polled, faults>>

Reading == pc = "reading" /\ hand = "none"

\* The host asks for the next event of the agent.  It sends text on, and it
\* fails the response when it has fallen behind the retained history.
ReadEvent ==
  /\ Reading
  /\ Pull(Host)
  /\ pc' = CASE got'[Host] # got[Host] ->
                  IF got'[Host][Len(got'[Host])] \in Deltas THEN "delta" ELSE "reading"
             [] phase'[Host] = "overrun" -> "failing"
             [] phase'[Host] = "ended" -> "collecting"
             [] OTHER -> "reading"
  /\ UNCHANGED <<owned, sequence, hand, record, log, connected, seen, polled, faults>>

SendDelta ==
  /\ pc = "delta"
  /\ AppendEvent(got[Host][Len(got[Host])], "reading", "failing")
  /\ UNCHANGED streamVars

StartCollect ==
  /\ pc = "collecting"
  /\ Collect(Host)
  /\ UNCHANGED host

\* Mutants: the outcome of the agent is not looked at; its error is not handled.
Settled_Closing(r) == "closing"
Settled_Escapes(r) == IF r = "result" THEN "closing" ELSE "raised"

\* What becomes of the response when the agent is over.
Settled(r) == CASE r = "result" -> "closing" [] r = "error" -> "failing" [] OTHER -> "raised"

EndCollect ==
  /\ pc = "collecting"
  /\ Collected(Host)
  /\ pc' = Settled(collector'[Host])
  /\ UNCHANGED <<sequence, hand, record, log, connected, seen, polled, faults>>

\* How many of the closing events are recorded.
Sent == Cardinality({i \in DOMAIN log : \E j \in DOMAIN Closing : log[i] = Closing[j]})

CloseOutput ==
  /\ pc = "closing" /\ Sent < Len(Closing)
  /\ AppendEvent(Closing[Sent + 1], "closing", "raised")
  /\ UNCHANGED streamVars

Complete ==
  /\ pc = "closing" /\ Sent = Len(Closing)
  /\ AppendEvent("completed", "completing", "raised")
  /\ UNCHANGED streamVars

Fail ==
  /\ pc = "failing"
  /\ AppendEvent("failed", "marking", "raised")
  /\ UNCHANGED streamVars

\* The record of the store is completed, or that call raises.
Mark ==
  /\ pc \in {"completing", "marking"}
  /\ \/ /\ record' = IF pc = "completing" THEN "completed" ELSE "failed"
        /\ pc' = "over"
        /\ UNCHANGED <<hand, faults>>
     \/ /\ faults < MaxFaults
        /\ faults' = faults + 1
        /\ pc' = "raised"
        /\ hand' = "none"
        /\ UNCHANGED record
  /\ UNCHANGED <<streamVars, sequence, log, connected, seen, polled>>

\* The client disconnects: the generator is closed where it waits.  Only when
\* it waits for the result of the agent is the agent cancelled with it.
Disconnect ==
  /\ connected
  /\ connected' = FALSE
  /\ hand' = "none"
  /\ pc' = IF pc \in {"idle", "over", "raised"} THEN pc ELSE "raised"
  /\ \/ /\ collector[Host] = "waiting" /\ CollectInterrupted(Host)
     \/ /\ collector[Host] # "waiting" \/ Over
        /\ IF pc \in {"reading"} /\ phase[Host] \in {"ready", "waiting"}
           THEN Leave(Host) /\ UNCHANGED owned ELSE UNCHANGED streamVars
  /\ UNCHANGED <<sequence, record, log, seen, polled, faults>>

\* Mutant: the number of events is taken for the last sequence number.
After_Count(n) == SubSeq(log, n + 2, Len(log))

\* replay: the stored events with a sequence number greater than n - 1.
After(n) == SubSeq(log, n + 1, Len(log))

\* A client that has disconnected replays the events that it has missed, and
\* another one polls the stored events while they are written.
Replay ==
  /\ ~connected
  /\ seen' = seen \o After(Len(seen))
  /\ UNCHANGED polled

Poll ==
  /\ polled' = polled \o After(Len(polled))
  /\ UNCHANGED seen

ReplayStep ==
  /\ record # "none"
  /\ Replay \/ Poll
  /\ UNCHANGED <<streamVars, pc, sequence, hand, record, log, connected, faults>>

HostStep ==
  \/ CreateRecord \/ Open \/ StartAgent \/ ReadEvent \/ SendDelta \/ StartCollect
  \/ EndCollect \/ CloseOutput \/ Complete \/ Fail \/ Mark \/ Yield

HostNext == HostStep \/ (Produce /\ UNCHANGED host) \/ Disconnect \/ ReplayStep

HostSpec ==
  /\ HostInit /\ [][HostNext]_vars
  /\ WF_vars(HostStep)
  /\ WF_vars(Produce /\ UNCHANGED host)

-----------------------------------------------------------------------------
IsPrefixOf(s, t) == Len(s) <= Len(t) /\ \A i \in DOMAIN s : s[i] = t[i]

\* docs/PROTOCOLS.md: a replay after Last-Event-ID gives only later events.
\* A client has the stored events from the first on, without a gap or a
\* repetition, however it got them.
ClientsHavePrefix == IsPrefixOf(seen, log) /\ IsPrefixOf(polled, log)

\* The events of s that carry text, and how many of them do up to the i-th.
TextsOf(s) == {i \in DOMAIN s : s[i] \in Deltas}

TextsUpTo(s, i) == Cardinality({j \in TextsOf(s) : j <= i})

\* The n-th text of s is the n-th text of t, as far as both have one.
SameTexts(s, t) ==
  \A i \in TextsOf(s), j \in TextsOf(t) : TextsUpTo(s, i) = TextsUpTo(t, j) => s[i] = t[j]

\* The text of a stored response is the text of the agent: a completed one
\* has all of it, another one a prefix, in order.
TextIsAgents ==
  /\ SameTexts(log, feed)
  /\ Cardinality(TextsOf(log)) <= Cardinality(TextsOf(feed))
  /\ record = "completed" => Cardinality(TextsOf(log)) = Cardinality(TextsOf(feed)) /\ result = "result"

\* The record, its events and what the client was told agree: a response that
\* is completed or failed ends with that event and no other, and no client is
\* told the end of a response whose record is still in progress.
EndsAgree ==
  /\ record \in Ended => log # <<>> /\ log[Len(log)] = record
  /\ \A i \in 1..Len(log) - 1 : log[i] \notin Ended
  /\ connected => (\A i \in DOMAIN seen : seen[i] \in Ended => record = seen[i])

\* A response does not stay in progress, unless the client disconnected or
\* the store failed.
ResponseSettles == record = "in_progress" ~> record \in Ended \/ ~connected \/ faults > 0
=============================================================================
