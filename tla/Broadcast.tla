------------------------------ MODULE Broadcast ------------------------------
(***************************************************************************)
(* Broadcast of _streaming.py: one replay buffer, optionally bounded, that *)
(* any number of generators read from its beginning.  Everything runs on   *)
(* one event loop, so what a generator does between two awaits is a step.  *)
(***************************************************************************)
EXTENDS Naturals, Sequences

CONSTANTS
  Events,
  Consumers,
  Capacity   \* max_events; a Capacity that is never reached stands for None

ASSUME CapacityAssumption == Capacity \in Nat \ {0}

VARIABLES
  feed,      \* every event published; the code has its length, _published
  history,   \* the events it retains
  done,
  phase,     \* what each generator is doing
  got        \* the events it has yielded; the code has their number, cursor

broadcast == <<feed, history, done, phase, got>>

Phases == {"ready", "waiting", "ended", "overrun", "gone"}

BroadcastTypeOK ==
  /\ feed \in Seq(Events)
  /\ history \in Seq(Events) /\ Len(history) <= Capacity
  /\ done \in BOOLEAN
  /\ phase \in [Consumers -> Phases]
  /\ got \in [Consumers -> Seq(Events)]

BroadcastInit ==
  /\ feed = <<>>
  /\ history = <<>>
  /\ done = FALSE
  /\ phase = [c \in Consumers |-> "ready"]
  /\ got = [c \in Consumers |-> <<>>]

\* Mutant: the deque drops the event that does not fit.
Retain_Oldest(h, e) == IF Len(h) < Capacity THEN Append(h, e) ELSE h

\* deque(maxlen=Capacity).append(e)
Retain(h, e) == Append(IF Len(h) < Capacity THEN h ELSE Tail(h), e)

\* _changed.set() resumes every generator that waits, even if another one
\* clears the notification first.
Woken(p) == [c \in Consumers |-> IF p[c] = "waiting" THEN "ready" ELSE p[c]]

Publish(e) ==
  /\ feed' = Append(feed, e)
  /\ history' = Retain(history, e)
  /\ phase' = Woken(phase)
  /\ UNCHANGED <<done, got>>

Close ==
  /\ done' = TRUE
  /\ phase' = Woken(phase)
  /\ UNCHANGED <<feed, history, got>>

\* The sequence number of the first event that is retained, from zero.
First == Len(feed) - Len(history)

Evicted(c) == Len(got[c]) < First

Goes(c, p) == phase' = [phase EXCEPT ![c] = p] /\ UNCHANGED <<feed, history, done, got>>

\* The generator is asked for its next event.  It waits only if there is
\* nothing to yield, and there is no await between the look and the wait.
Pull(c) ==
  /\ phase[c] = "ready"
  /\ \/ Evicted(c) /\ Goes(c, "overrun")
     \/ /\ ~Evicted(c) /\ Len(got[c]) < Len(feed)
        /\ got' = [got EXCEPT ![c] = Append(@, history[Len(@) - First + 1])]
        /\ UNCHANGED <<feed, history, done, phase>>
     \/ /\ Len(got[c]) = Len(feed)
        /\ Goes(c, IF done THEN "ended" ELSE "waiting")

\* A reader gives up.
Leave(c) ==
  /\ phase[c] \in {"ready", "waiting"}
  /\ Goes(c, "gone")

-----------------------------------------------------------------------------
\* A generator waits only while there is nothing that it could yield and
\* there may yet be: no notification is lost between the look at the cursor
\* and the wait, whoever else clears the notification.
NoLostWakeup == \A c \in Consumers : phase[c] = "waiting" => Len(got[c]) = Len(feed) /\ ~done

\* Readers are given what EventFeed promises.
Feed == INSTANCE EventFeed WITH
  closed <- done,
  told <- [c \in Consumers |-> IF phase[c] \in {"ended", "overrun"} THEN phase[c] ELSE "open"]

ImplementsEventFeed == Feed!Spec
=============================================================================
