------------------------------ MODULE EventFeed ------------------------------
(***************************************************************************)
(* What a stream promises to those who read its events: docs and the class *)
(* comment of Broadcast in _streaming.py.  A reader is given every event   *)
(* from the first one on, in order; it is told when there are no more, or  *)
(* that it has fallen behind, and is never given an incomplete history.    *)
(***************************************************************************)
EXTENDS Naturals, Sequences

CONSTANTS
  Events,     \* events that may be published
  Consumers   \* readers of the stream

VARIABLES
  feed,    \* the events so far
  closed,  \* will there be more
  got,     \* what each reader has been given
  told     \* what it was told at the end: "open", "ended" or "overrun"

vars == <<feed, closed, got, told>>

Init ==
  /\ feed = <<>>
  /\ closed = FALSE
  /\ got = [c \in Consumers |-> <<>>]
  /\ told = [c \in Consumers |-> "open"]

Publish ==
  /\ ~closed
  /\ \E e \in Events : feed' = Append(feed, e)
  /\ UNCHANGED <<closed, got, told>>

Close ==
  /\ closed' = TRUE
  /\ UNCHANGED <<feed, got, told>>

Deliver(c) ==
  /\ told[c] = "open"
  /\ Len(got[c]) < Len(feed)
  /\ got' = [got EXCEPT ![c] = Append(@, feed[Len(@) + 1])]
  /\ UNCHANGED <<feed, closed, told>>

End(c) ==
  /\ told[c] = "open"
  /\ closed /\ got[c] = feed
  /\ told' = [told EXCEPT ![c] = "ended"]
  /\ UNCHANGED <<feed, closed, got>>

FallBehind(c) ==
  /\ told[c] = "open"
  /\ Len(got[c]) < Len(feed)
  /\ told' = [told EXCEPT ![c] = "overrun"]
  /\ UNCHANGED <<feed, closed, got>>

Next == Publish \/ Close \/ \E c \in Consumers : Deliver(c) \/ End(c) \/ FallBehind(c)

Spec == Init /\ [][Next]_vars
=============================================================================
