------------------------- MODULE ResponsesHostProofs -------------------------
(***************************************************************************)
(* Theorems about streams, for any events, readers, closers, collectors    *)
(* and any capacity of the replay buffer, and about the host that answers  *)
(* a request from such a stream, for any number of faults of its store.    *)
(***************************************************************************)
EXTENDS ResponsesHost, BroadcastProofs, FiniteSetTheorems

\* Nothing is published once the broadcast is closed: its runner is over.
ClosedLast == done => Over

\* A runner that has ended has a result.
Resulted == runner \in {"unwinding", "done"} => result # "none"

\* An aclose that returned has closed the broadcast of a runner that is over.
Joins == \A a \in Closers : closer[a] = "closed" => Over /\ done

IInv ==
  /\ StreamTypeOK /\ BInv
  /\ ClosedLast /\ Resulted /\ Joins /\ OnlyOwnersCancel

-----------------------------------------------------------------------------
(* The steps *)

LEMMA Initially == Init => IInv
<1> SUFFICES ASSUME Init PROVE IInv
  OBVIOUS
<1>1. BInv
  BY BroadcastInitially DEF Init, StreamInit
<1>2. StreamTypeOK
  BY <1>1 DEF Init, StreamInit, StreamTypeOK, BInv, Runners, Results
<1> QED
  BY <1>1, <1>2 DEF Init, StreamInit, BroadcastInit, IInv, ClosedLast, Resulted, Joins, OnlyOwnersCancel

\* What every step of the runner, of a closer and of a reader keeps.
LEMMA Step == IInv /\ [Next]_streamVars => IInv'
<1> SUFFICES ASSUME IInv, [Next]_streamVars PROVE IInv'
  OBVIOUS
<1> USE DEF Runners, Results, Over
<1>a. StreamTypeOK /\ BInv /\ ClosedLast /\ Resulted /\ Joins /\ OnlyOwnersCancel
  BY DEF IInv
<1>b. ASSUME UNCHANGED broadcast
      PROVE  BInv' /\ done' = done
  BY <1>b, <1>a, SameKeeps
<1>1. CASE Produce
  <2>1. CASE RunnerStarts
    BY <2>1, <1>a, <1>b DEF RunnerStarts, IInv, StreamTypeOK, BInv, ClosedLast, Resulted, Joins, OnlyOwnersCancel
  <2>2. CASE RunnerPublishes
    <3>1. PICK e \in Events : Publish(e)
      BY <2>2 DEF RunnerPublishes
    <3>2. ~done
      BY <2>2, <1>a DEF RunnerPublishes, ClosedLast
    <3> QED
      BY <2>2, <3>1, <3>2, <1>a, PublishKeeps DEF RunnerPublishes, owned, Publishes, IInv, StreamTypeOK, BInv, ClosedLast, Resulted, Joins, OnlyOwnersCancel, Publish
  <2>3. CASE RunnerEnds
    <3>1. ~done
      BY <2>3, <1>a DEF RunnerEnds, ClosedLast
    <3>2. BInv' /\ done' = done
      BY <2>3, <3>1, <1>b, <1>a, PublishKeeps, StreamAssumption DEF RunnerEnds, Publish, Publishes
    <3> QED
      BY <2>3, <3>1, <3>2, <1>a DEF RunnerEnds, IInv, StreamTypeOK, BInv, ClosedLast, Resulted, Joins, OnlyOwnersCancel
  <2>4. CASE RunnerFinally
    BY <2>4, <1>a, CloseKeeps DEF RunnerFinally, Closes, IInv, StreamTypeOK, BInv, ClosedLast, Resulted, Joins, OnlyOwnersCancel
  <2> QED
    BY <1>1, <2>1, <2>2, <2>3, <2>4 DEF Produce
<1>2. CASE Control
  <2>1. ASSUME NEW a \in Closers, Aclose(a) PROVE IInv'
    BY <2>1, <1>a, <1>b DEF Aclose, CancelRunner, IInv, StreamTypeOK, BInv, ClosedLast, Resulted, Joins, OnlyOwnersCancel
  <2>2. ASSUME NEW a \in Closers, AcloseJoins(a) PROVE IInv'
    BY <2>2, <1>a, CloseKeeps DEF AcloseJoins, Joined, IInv, StreamTypeOK, BInv, ClosedLast, Resulted, Joins, OnlyOwnersCancel
  <2>3. ASSUME NEW a \in Closers, AcloseInterrupted(a) PROVE IInv'
    BY <2>3, <1>a, <1>b DEF AcloseInterrupted, IInv, StreamTypeOK, BInv, ClosedLast, Resulted, Joins, OnlyOwnersCancel
  <2>4. ASSUME NEW a \in Collectors, Collect(a) PROVE IInv'
    BY <2>4, <1>a, <1>b DEF Collect, IInv, StreamTypeOK, BInv, ClosedLast, Resulted, Joins, OnlyOwnersCancel
  <2>5. ASSUME NEW a \in Collectors, CollectInterrupted(a) PROVE IInv'
    BY <2>5, <1>a, <1>b DEF CollectInterrupted, CancelRunner, IInv, StreamTypeOK, BInv, ClosedLast, Resulted, Joins, OnlyOwnersCancel
  <2>6. ASSUME NEW a \in Collectors, Collected(a) PROVE IInv'
    BY <2>6, <1>a, <1>b DEF Collected, IInv, StreamTypeOK, BInv, ClosedLast, Resulted, Joins, OnlyOwnersCancel
  <2> QED
    BY <1>2, <2>1, <2>2, <2>3, <2>4, <2>5, <2>6 DEF Control
<1>3. CASE Read
  <2>1. UNCHANGED owned
    BY <1>3 DEF Read, Left
  <2>2. BInv' /\ done' = done
    BY <1>3, <1>a, PullKeeps, LeaveKeeps DEF Read
  <2> QED
    BY <2>1, <2>2, <1>a DEF owned, IInv, StreamTypeOK, BInv, ClosedLast, Resulted, Joins, OnlyOwnersCancel
<1>4. CASE UNCHANGED streamVars
  BY <1>4, <1>a, <1>b DEF streamVars, owned, IInv, StreamTypeOK, BInv, ClosedLast, Resulted, Joins, OnlyOwnersCancel
<1> QED
  BY <1>1, <1>2, <1>3, <1>4 DEF Next

LEMMA Invariance == Spec => []IInv
BY Initially, Step, PTL DEF Spec

\* The state of a stream has its type.
THEOREM TypeCorrect == Spec => []StreamTypeOK
<1>1. IInv => StreamTypeOK
  BY DEF IInv
<1> QED
  BY <1>1, Invariance, PTL

-----------------------------------------------------------------------------
(* The theorems *)

\* No generator of Broadcast.subscribe (_streaming.py) waits for a change that
\* has already happened, however many others wait, leave or are woken.
THEOREM WakeupsKept == Spec => []NoLostWakeup
<1>1. IInv => NoLostWakeup
  BY DEF IInv, BInv
<1> QED
  BY <1>1, Invariance, PTL

\* When an aclose of OwnedStream returns, its task is over, the broadcast is
\* closed and no reader waits, whoever else closes, collects or is cancelled.
THEOREM CloseJoins == Spec => []ClosedIsOver
<1>1. IInv => ClosedIsOver
  BY DEF IInv, BInv, ClosedIsOver, Joins, NoLostWakeup
<1> QED
  BY <1>1, Invariance, PTL

\* The task of an OwnedStream is cancelled by an aclose or by a collect that
\* is cancelled, never because readers leave or fall behind.
THEOREM OwnersCancel == Spec => []OnlyOwnersCancel
<1>1. IInv => OnlyOwnersCancel
  BY DEF IInv
<1> QED
  BY <1>1, Invariance, PTL

-----------------------------------------------------------------------------
(* Refinement *)

\* What a reader has been told, as EventFeed sees it.
Told == [c \in Consumers |-> IF phase[c] \in {"ended", "overrun"} THEN phase[c] ELSE "open"]

\* A published event of a broadcast that is open is one of the feed.
LEMMA PublishFeeds ==
  ASSUME IInv, NEW e \in Events, Publish(e), ~done
  PROVE  Feed!Publish
<1>1. Told' = Told
  BY DEF IInv, BInv, BroadcastTypeOK, Publish, Woken, Told
<1> QED
  BY <1>1 DEF Publish, Feed!Publish, Told

LEMMA CloseFeeds ==
  ASSUME IInv, Close
  PROVE  Feed!Close
<1>1. Told' = Told
  BY DEF IInv, BInv, BroadcastTypeOK, Close, Woken, Told
<1> QED
  BY <1>1 DEF Close, Feed!Close, Told

\* A reader that is woken is given the next event of the feed, or is told the
\* truth.
LEMMA PullFeeds ==
  ASSUME IInv, NEW c \in Consumers, Pull(c)
  PROVE  Feed!Next \/ UNCHANGED Feed!vars
<1> USE DEF IInv, BInv, BroadcastTypeOK
<1>1. Told[c] = "open" /\ phase[c] = "ready"
  BY DEF Pull, Told
<1>2. CASE Evicted(c) /\ Goes(c, "overrun")
  <2>1. Len(got[c]) < Len(feed)
    BY <1>2 DEF Evicted, First
  <2>2. Told' = [Told EXCEPT ![c] = "overrun"]
    BY <1>2 DEF Goes, Told
  <2>3. Feed!FallBehind(c)
    BY <1>1, <1>2, <2>1, <2>2 DEF Feed!FallBehind, Goes, Told
  <2> QED
    BY <2>3 DEF Feed!Next
<1>3. CASE /\ ~Evicted(c) /\ Len(got[c]) < Len(feed)
           /\ got' = [got EXCEPT ![c] = Append(@, history[Len(@) - First + 1])]
           /\ UNCHANGED <<feed, history, done, phase>>
  <2> DEFINE n == Len(got[c])
  <2>1. n - First + 1 \in 1..Len(history)
    BY <1>3 DEF Evicted, First, Buffered
  <2>2. history[n - First + 1] = feed[n + 1]
    BY <2>1, <1>3 DEF Buffered, First
  <2>3. Told' = Told
    BY <1>3 DEF Told
  <2>4. got' = [got EXCEPT ![c] = Append(@, feed[Len(@) + 1])]
    BY <1>3, <2>2
  <2>5. Feed!Deliver(c)
    BY <1>1, <1>3, <2>3, <2>4 DEF Feed!Deliver, Told
  <2> QED
    BY <2>5 DEF Feed!Next
<1>4. CASE Len(got[c]) = Len(feed) /\ done /\ Goes(c, "ended")
  <2>1. got[c] = feed
    <3>1. got[c] \in Seq(Events) /\ feed \in Seq(Events)
      OBVIOUS
    <3>2. \A i \in 1..Len(got[c]) : got[c][i] = feed[i]
      BY DEF Prefixes
    <3> HIDE DEF IInv, BInv, BroadcastTypeOK
    <3> QED
      BY <1>4, <3>1, <3>2
  <2>2. Told' = [Told EXCEPT ![c] = "ended"]
    BY <1>4 DEF Goes, Told
  <2>3. Feed!End(c)
    BY <1>1, <1>4, <2>1, <2>2 DEF Feed!End, Goes, Told
  <2> QED
    BY <2>3 DEF Feed!Next
<1>5. CASE Goes(c, "waiting")
  <2>1. Told' = Told
    BY <1>1, <1>5 DEF Goes, Told
  <2> QED
    BY <1>5, <2>1 DEF Goes, Feed!vars, Told
<1> QED
  BY <1>2, <1>3, <1>4, <1>5 DEF Pull

LEMMA LeaveFeeds ==
  ASSUME IInv, NEW c \in Consumers, Leave(c)
  PROVE  UNCHANGED Feed!vars
<1>1. Told' = Told
  BY DEF IInv, BInv, BroadcastTypeOK, Leave, Goes, Told
<1> QED
  BY <1>1 DEF Leave, Goes, Feed!vars, Told

LEMMA FeedStep == IInv /\ [Next]_streamVars => [Feed!Next]_(Feed!vars)
<1> SUFFICES ASSUME IInv, [Next]_streamVars
             PROVE  Feed!Next \/ UNCHANGED Feed!vars
  OBVIOUS
<1>1. ASSUME UNCHANGED broadcast
      PROVE  UNCHANGED Feed!vars
  BY <1>1 DEF broadcast, Feed!vars
<1>2. runner # "done" => ~done
  BY DEF IInv, ClosedLast, Over
<1>3. CASE Produce
  <2>1. CASE RunnerPublishes \/ RunnerEnds
    BY <2>1, <1>1, <1>2, PublishFeeds, StreamAssumption DEF RunnerPublishes, RunnerEnds, Feed!Next
  <2>2. CASE RunnerStarts \/ RunnerFinally
    BY <2>2, <1>1, CloseFeeds DEF RunnerStarts, RunnerFinally, Closes, Feed!Next
  <2> QED
    BY <1>3, <2>1, <2>2 DEF Produce
<1>4. CASE Control
  BY <1>4, <1>1, CloseFeeds DEF Control, Aclose, AcloseJoins, AcloseInterrupted, Collect, Collected,
                                CollectInterrupted, Feed!Next
<1>5. CASE Read
  BY <1>5, PullFeeds, LeaveFeeds DEF Read
<1>6. CASE UNCHANGED streamVars
  BY <1>6, <1>1 DEF streamVars
<1> QED
  BY <1>3, <1>4, <1>5, <1>6 DEF Next

\* Every reader of a stream is given what EventFeed promises: the events from
\* the first one on, in order and without a gap, and a true end.
THEOREM Refinement == Spec => ImplementsEventFeed
<1>1. Init => Feed!Init
  BY DEF Init, StreamInit, BroadcastInit, Feed!Init
<1> QED
  BY <1>1, FeedStep, Invariance, PTL DEF Spec, ImplementsEventFeed, Feed!Spec

-----------------------------------------------------------------------------
(* Texts of a sequence of events *)

LEMMA TextsFinite ==
  ASSUME NEW S, NEW s \in Seq(S), NEW i \in Nat
  PROVE  /\ TextsOf(s) \subseteq 1..Len(s)
         /\ IsFiniteSet(TextsOf(s)) /\ Cardinality(TextsOf(s)) \in Nat
         /\ IsFiniteSet({j \in TextsOf(s) : j <= i})
         /\ TextsUpTo(s, i) \in Nat /\ TextsUpTo(s, i) <= Cardinality(TextsOf(s))
<1>1. TextsOf(s) \subseteq 1..Len(s) /\ Len(s) \in Nat
  BY DEF TextsOf
<1>2. IsFiniteSet(1..Len(s))
  BY <1>1, FS_Interval
<1>3. IsFiniteSet(TextsOf(s))
  BY <1>1, <1>2, FS_Subset
<1>4. {j \in TextsOf(s) : j <= i} \subseteq TextsOf(s)
  OBVIOUS
<1>5. IsFiniteSet({j \in TextsOf(s) : j <= i}) /\ TextsUpTo(s, i) <= Cardinality(TextsOf(s))
  BY <1>3, <1>4, FS_Subset DEF TextsUpTo
<1>6. Cardinality(TextsOf(s)) \in Nat /\ TextsUpTo(s, i) \in Nat
  BY <1>3, <1>5, FS_CardinalityType DEF TextsUpTo
<1> QED
  BY <1>1, <1>3, <1>5, <1>6

\* An event without text changes no text.
LEMMA AppendFrame ==
  ASSUME NEW S, NEW s \in Seq(S), NEW e, e \notin Deltas
  PROVE  TextsOf(Append(s, e)) = TextsOf(s)
<1>1. DOMAIN Append(s, e) = 1..(Len(s) + 1) /\ DOMAIN s = 1..Len(s) /\ Len(s) \in Nat
  OBVIOUS
<1>2. Append(s, e)[Len(s) + 1] = e /\ \A i \in 1..Len(s) : Append(s, e)[i] = s[i]
  OBVIOUS
<1> QED
  BY <1>1, <1>2 DEF TextsOf

\* Another text is the one after the last.
LEMMA AppendText ==
  ASSUME NEW S, NEW s \in Seq(S), NEW e \in Deltas
  PROVE  /\ TextsOf(Append(s, e)) = TextsOf(s) \cup {Len(s) + 1}
         /\ Cardinality(TextsOf(Append(s, e))) = Cardinality(TextsOf(s)) + 1
         /\ TextsUpTo(Append(s, e), Len(s) + 1) = Cardinality(TextsOf(s)) + 1
         /\ \A i \in 1..Len(s) : TextsUpTo(Append(s, e), i) = TextsUpTo(s, i)
<1>1. DOMAIN Append(s, e) = 1..(Len(s) + 1) /\ DOMAIN s = 1..Len(s) /\ Len(s) \in Nat
  OBVIOUS
<1>2. Append(s, e)[Len(s) + 1] = e /\ \A i \in 1..Len(s) : Append(s, e)[i] = s[i]
  OBVIOUS
<1>3. TextsOf(Append(s, e)) = TextsOf(s) \cup {Len(s) + 1}
  BY <1>1, <1>2 DEF TextsOf
<1>4. TextsOf(s) \subseteq 1..Len(s) /\ IsFiniteSet(TextsOf(s))
  BY <1>1, TextsFinite
<1>5. Len(s) + 1 \notin TextsOf(s)
  BY <1>1, <1>4
<1>6. Cardinality(TextsOf(s) \cup {Len(s) + 1}) = Cardinality(TextsOf(s)) + 1
  BY <1>4, <1>5, FS_AddElement
<1>7. {j \in TextsOf(s) \cup {Len(s) + 1} : j <= Len(s) + 1} = TextsOf(s) \cup {Len(s) + 1}
  BY <1>1, <1>4
<1>8. ASSUME NEW i \in 1..Len(s)
      PROVE  {j \in TextsOf(s) \cup {Len(s) + 1} : j <= i} = {j \in TextsOf(s) : j <= i}
  BY <1>1, <1>8
<1> QED
  BY <1>3, <1>6, <1>7, <1>8 DEF TextsUpTo

\* When the last event is a text, no other one is as late.
LEMMA LastText ==
  ASSUME NEW S, NEW s \in Seq(S), s # <<>>, s[Len(s)] \in Deltas
  PROVE  /\ Len(s) \in TextsOf(s)
         /\ \A j \in TextsOf(s) : TextsUpTo(s, j) = Cardinality(TextsOf(s)) => j = Len(s)
<1>1. Len(s) \in Nat /\ Len(s) \in DOMAIN s
  OBVIOUS
<1>2. Len(s) \in TextsOf(s)
  BY <1>1 DEF TextsOf
<1>3. ASSUME NEW j \in TextsOf(s), j # Len(s)
      PROVE  TextsUpTo(s, j) # Cardinality(TextsOf(s))
  <2>1. TextsOf(s) \subseteq 1..Len(s) /\ IsFiniteSet(TextsOf(s)) /\ Cardinality(TextsOf(s)) \in Nat
    BY <1>1, TextsFinite
  <2>2. j \in Nat /\ j < Len(s)
    BY <2>1, <1>1, <1>3
  <2>3. {k \in TextsOf(s) : k <= j} \subseteq TextsOf(s) \ {Len(s)}
    BY <2>1, <2>2, <1>1
  <2>4. Cardinality(TextsOf(s) \ {Len(s)}) = Cardinality(TextsOf(s)) - 1
        /\ IsFiniteSet(TextsOf(s) \ {Len(s)})
    BY <2>1, <1>2, FS_RemoveElement
  <2>5. Cardinality({k \in TextsOf(s) : k <= j}) <= Cardinality(TextsOf(s)) - 1
    BY <2>3, <2>4, FS_Subset
  <2>6. TextsUpTo(s, j) \in Nat
    BY <2>2, TextsFinite
  <2> QED
    BY <2>1, <2>5, <2>6 DEF TextsUpTo
<1> QED
  BY <1>2, <1>3

\* The texts of a prefix are the first ones of the whole.
LEMMA TextsOfPrefix ==
  ASSUME NEW S, NEW s \in Seq(S), NEW t \in Seq(S), IsPrefixOf(s, t)
  PROVE  /\ Cardinality(TextsOf(s)) <= Cardinality(TextsOf(t))
         /\ \A j \in TextsOf(t) :
              IF j <= Len(s) THEN j \in TextsOf(s) /\ TextsUpTo(t, j) = TextsUpTo(s, j) /\ t[j] = s[j]
                             ELSE TextsUpTo(t, j) > Cardinality(TextsOf(s))
         /\ Len(s) = Len(t) => TextsOf(s) = TextsOf(t)
<1>1. /\ Len(s) \in Nat /\ Len(t) \in Nat /\ Len(s) <= Len(t)
      /\ DOMAIN s = 1..Len(s) /\ DOMAIN t = 1..Len(t)
      /\ \A i \in 1..Len(s) : s[i] = t[i]
  BY DEF IsPrefixOf
<1>2. /\ TextsOf(s) \subseteq 1..Len(s) /\ TextsOf(t) \subseteq 1..Len(t)
      /\ IsFiniteSet(TextsOf(s)) /\ IsFiniteSet(TextsOf(t))
      /\ Cardinality(TextsOf(s)) \in Nat
  BY <1>1, TextsFinite
<1>3. TextsOf(s) = {j \in TextsOf(t) : j <= Len(s)}
  BY <1>1 DEF TextsOf
<1>4. Cardinality(TextsOf(s)) <= Cardinality(TextsOf(t))
  <2>1. TextsOf(s) \subseteq TextsOf(t)
    BY <1>3
  <2> QED
    BY <2>1, <1>2, FS_Subset
<1>5. ASSUME NEW j \in TextsOf(t), j <= Len(s)
      PROVE  j \in TextsOf(s) /\ TextsUpTo(t, j) = TextsUpTo(s, j) /\ t[j] = s[j]
  <2>1. j \in TextsOf(s) /\ t[j] = s[j]
    BY <1>1, <1>2, <1>3, <1>5
  <2>2. {k \in TextsOf(t) : k <= j} = {k \in TextsOf(s) : k <= j}
    BY <1>1, <1>2, <1>3, <1>5
  <2> QED
    BY <2>1, <2>2 DEF TextsUpTo
<1>6. ASSUME NEW j \in TextsOf(t), ~(j <= Len(s))
      PROVE  TextsUpTo(t, j) > Cardinality(TextsOf(s))
  <2>1. j \in Nat /\ j > Len(s)
    BY <1>1, <1>2, <1>6
  <2>2. j \notin TextsOf(s) /\ TextsOf(s) \cup {j} \subseteq {k \in TextsOf(t) : k <= j}
    BY <1>1, <1>2, <1>3, <2>1
  <2>3. Cardinality(TextsOf(s) \cup {j}) = Cardinality(TextsOf(s)) + 1
    BY <1>2, <2>2, FS_AddElement
  <2>4. IsFiniteSet({k \in TextsOf(t) : k <= j}) /\ TextsUpTo(t, j) \in Nat
    BY <2>1, TextsFinite
  <2>5. Cardinality(TextsOf(s) \cup {j}) <= TextsUpTo(t, j)
    BY <2>2, <2>4, FS_Subset DEF TextsUpTo
  <2> QED
    BY <2>3, <2>4, <2>5, <1>2
<1>7. Len(s) = Len(t) => TextsOf(s) = TextsOf(t)
  BY <1>1 DEF TextsOf
<1> QED
  BY <1>4, <1>5, <1>6, <1>7

\* What a record has in common with the events of an agent outlives an event
\* without text, on either side,
LEMMA SameWithFrame ==
  ASSUME NEW S, NEW s \in Seq(S), NEW t \in Seq(S), SameTexts(s, t), NEW e, e \notin Deltas
  PROVE  SameTexts(Append(s, e), t) /\ SameTexts(s, Append(t, e))
<1>1. ASSUME NEW q \in Seq(S)
      PROVE  /\ TextsOf(Append(q, e)) = TextsOf(q)
             /\ \A i \in TextsOf(q) : Append(q, e)[i] = q[i] /\ TextsUpTo(Append(q, e), i) = TextsUpTo(q, i)
  <2>1. TextsOf(Append(q, e)) = TextsOf(q)
    BY <1>1, AppendFrame
  <2>2. TextsOf(q) \subseteq 1..Len(q)
    BY <1>1 DEF TextsOf
  <2>3. \A i \in TextsOf(q) : Append(q, e)[i] = q[i]
    BY <1>1, <2>2
  <2> QED
    BY <2>1, <2>3 DEF TextsUpTo
<1>2. SameTexts(Append(s, e), t)
  BY <1>1, Zenon DEF SameTexts
<1>3. SameTexts(s, Append(t, e))
  BY <1>1, Zenon DEF SameTexts
<1> QED
  BY <1>2, <1>3

\* a text of the agent that the record lacks so far,
LEMMA SameWithNext ==
  ASSUME NEW S, NEW s \in Seq(S), NEW t \in Seq(S), SameTexts(s, t), NEW e \in Deltas,
         Cardinality(TextsOf(s)) = Cardinality(TextsOf(t))
  PROVE  SameTexts(s, Append(t, e))
<1>1. Len(t) \in Nat /\ TextsOf(t) \subseteq 1..Len(t) /\ \A i \in 1..Len(t) : Append(t, e)[i] = t[i]
  BY DEF TextsOf
<1>2. /\ TextsOf(Append(t, e)) = TextsOf(t) \cup {Len(t) + 1}
      /\ TextsUpTo(Append(t, e), Len(t) + 1) = Cardinality(TextsOf(t)) + 1
      /\ \A i \in 1..Len(t) : TextsUpTo(Append(t, e), i) = TextsUpTo(t, i)
  BY AppendText
<1>3. ASSUME NEW i \in TextsOf(s), NEW j \in TextsOf(Append(t, e)),
             TextsUpTo(s, i) = TextsUpTo(Append(t, e), j)
      PROVE  s[i] = Append(t, e)[j]
  <2>1. CASE j = Len(t) + 1
    <3>1. i \in Nat
      BY <1>3, TextsFinite DEF TextsOf
    <3>2. /\ TextsUpTo(s, i) \in Nat /\ Cardinality(TextsOf(s)) \in Nat
          /\ TextsUpTo(s, i) <= Cardinality(TextsOf(s))
      BY <3>1, TextsFinite
    <3> QED
      BY <2>1, <3>2, <1>2, <1>3
  <2>2. CASE j \in TextsOf(t)
    BY <2>2, <1>1, <1>2, <1>3 DEF SameTexts
  <2> QED
    BY <2>1, <2>2, <1>2
<1> QED
  BY <1>3 DEF SameTexts

\* and the record of that text.
LEMMA SameWithLast ==
  ASSUME NEW S, NEW s \in Seq(S), NEW t \in Seq(S), SameTexts(s, t),
         t # <<>>, t[Len(t)] \in Deltas, Cardinality(TextsOf(t)) = Cardinality(TextsOf(s)) + 1
  PROVE  /\ SameTexts(Append(s, t[Len(t)]), t)
         /\ Cardinality(TextsOf(Append(s, t[Len(t)]))) = Cardinality(TextsOf(t))
<1> DEFINE e == t[Len(t)]
<1>0. e \in Deltas
  OBVIOUS
<1>1. /\ Len(s) \in Nat /\ TextsOf(s) \subseteq 1..Len(s)
      /\ Append(s, e)[Len(s) + 1] = e /\ \A i \in 1..Len(s) : Append(s, e)[i] = s[i]
  BY DEF TextsOf
<1>2. /\ TextsOf(Append(s, e)) = TextsOf(s) \cup {Len(s) + 1}
      /\ Cardinality(TextsOf(Append(s, e))) = Cardinality(TextsOf(s)) + 1
      /\ TextsUpTo(Append(s, e), Len(s) + 1) = Cardinality(TextsOf(s)) + 1
      /\ \A i \in 1..Len(s) : TextsUpTo(Append(s, e), i) = TextsUpTo(s, i)
  BY <1>0, AppendText
<1>3. ASSUME NEW i \in TextsOf(Append(s, e)), NEW j \in TextsOf(t),
             TextsUpTo(Append(s, e), i) = TextsUpTo(t, j)
      PROVE  Append(s, e)[i] = t[j]
  <2>1. CASE i = Len(s) + 1
    <3>1. TextsUpTo(t, j) = Cardinality(TextsOf(t))
      BY <2>1, <1>2, <1>3
    <3>2. j = Len(t)
      BY <3>1, <1>3, LastText
    <3> QED
      BY <3>2, <2>1, <1>1
  <2>2. CASE i \in TextsOf(s)
    BY <2>2, <1>1, <1>2, <1>3 DEF SameTexts
  <2> QED
    BY <2>1, <2>2, <1>2
<1> QED
  BY <1>2, <1>3 DEF SameTexts

\* A record that agrees with the first events of an agent agrees with all.
LEMMA SameWithWhole ==
  ASSUME NEW S, NEW s \in Seq(S), NEW p \in Seq(S), NEW t \in Seq(S), IsPrefixOf(p, t),
         SameTexts(s, p), Cardinality(TextsOf(s)) <= Cardinality(TextsOf(p))
  PROVE  SameTexts(s, t) /\ Cardinality(TextsOf(s)) <= Cardinality(TextsOf(t))
<1>1. /\ Cardinality(TextsOf(s)) \in Nat /\ Cardinality(TextsOf(p)) \in Nat
      /\ Cardinality(TextsOf(t)) \in Nat
  BY TextsFinite
<1>2. /\ Cardinality(TextsOf(p)) <= Cardinality(TextsOf(t))
      /\ \A j \in TextsOf(t) :
           IF j <= Len(p) THEN j \in TextsOf(p) /\ TextsUpTo(t, j) = TextsUpTo(p, j) /\ t[j] = p[j]
                          ELSE TextsUpTo(t, j) > Cardinality(TextsOf(p))
  BY TextsOfPrefix
<1>3. ASSUME NEW i \in TextsOf(s), NEW j \in TextsOf(t), TextsUpTo(s, i) = TextsUpTo(t, j)
      PROVE  s[i] = t[j]
  <2>1. CASE j <= Len(p)
    BY <2>1, <1>2, <1>3 DEF SameTexts
  <2>2. CASE ~(j <= Len(p))
    <3>1. i \in Nat
      BY <1>3 DEF TextsOf
    <3>2. TextsUpTo(s, i) \in Nat /\ TextsUpTo(s, i) <= Cardinality(TextsOf(s))
      BY <3>1, TextsFinite
    <3>3. TextsUpTo(t, j) > Cardinality(TextsOf(p))
      BY <2>2, <1>2
    <3> QED
      BY <3>2, <3>3, <1>1, <1>3
  <2> QED
    BY <2>1, <2>2
<1> QED
  BY <1>1, <1>2, <1>3 DEF SameTexts

-----------------------------------------------------------------------------
(* The invariant of a host *)

\* A client that is there has been sent what is recorded, but for the event
\* that the host has in its hand.
Following ==
  connected =>
    /\ sequence = Len(seen)
    /\ hand # "none" => log # <<>> /\ Len(log) = Len(seen) + 1 /\ hand = log[Len(log)]

\* An end is the last event, and it is recorded, marked and sent in that order.
Finishing ==
  /\ pc = "completing" => log # <<>> /\ log[Len(log)] = "completed"
  /\ pc = "marking" => log # <<>> /\ log[Len(log)] = "failed"
  /\ (record \in Ended) <=> (pc = "over")
  /\ record \in Ended => log # <<>> /\ log[Len(log)] = record
  /\ hand \in Ended => pc \in {"completing", "marking", "over"}
  /\ \A i \in DOMAIN log :
       log[i] \in Ended => i = Len(log) /\ pc \in {"completing", "marking", "over", "raised"}
  /\ connected => \A i \in DOMAIN seen : seen[i] \in Ended => record = seen[i]

\* A host that was told the end has been given every event.
Caught == phase[Host] = "ended" => done /\ Len(got[Host]) = Len(feed)

Finished == pc \in {"closing", "completing"} \/ record = "completed"

\* The texts in the record are those that the host was given, but for the one
\* that it is about to record or has failed to.
TextKept ==
  /\ SameTexts(log, got[Host])
  /\ Cardinality(TextsOf(log)) <= Cardinality(TextsOf(got[Host]))
  /\ pc \in {"idle", "opening", "reading", "collecting"} \/ Finished =>
       Cardinality(TextsOf(log)) = Cardinality(TextsOf(got[Host]))
  /\ pc = "delta" => /\ got[Host] # <<>> /\ got[Host][Len(got[Host])] \in Deltas
                     /\ Cardinality(TextsOf(got[Host])) = Cardinality(TextsOf(log)) + 1
  /\ pc = "collecting" \/ Finished => phase[Host] = "ended"
  /\ Finished => result = "result"
  /\ pc \in {"idle", "opening"} => runner = "none"

HostInv ==
  /\ HostTypeOK /\ IInv
  /\ ClientsHavePrefix /\ Following /\ Finishing /\ Caught /\ TextKept

LEMMA HostInitially == HostInit => HostInv
<1> SUFFICES ASSUME HostInit PROVE HostInv
  OBVIOUS
<1> USE DEF HostInit, StreamInit, BroadcastInit
<1>1. BInv
  BY BroadcastInitially
<1>2. StreamTypeOK
  BY <1>1 DEF StreamTypeOK, BInv, Runners, Results
<1>3. IInv
  BY <1>1, <1>2 DEF IInv, ClosedLast, Resulted, Joins, OnlyOwnersCancel
<1>4. HostTypeOK
  BY <1>2 DEF HostTypeOK, PCs
<1>5. ClientsHavePrefix /\ Following /\ Finishing
  BY DEF ClientsHavePrefix, IsPrefixOf, Following, Finishing, Ended
<1>6. log = got[Host]
  BY HostAssumption
<1>7. TextsOf(log) = {}
  BY DEF TextsOf
<1>8. Cardinality(TextsOf(log)) = 0
  BY <1>7, FS_EmptySet, Zenon
<1>9. Caught /\ TextKept
  <2>1. Caught
    BY HostAssumption DEF Caught
  <2>2. SameTexts(log, got[Host])
    BY <1>6, <1>7 DEF SameTexts
  <2> QED
    BY <2>1, <2>2, <1>6, <1>8 DEF TextKept, Finished
<1> QED
  BY <1>3, <1>4, <1>5, <1>9 DEF HostInv

\* What the host does to its stream: a step of it, or its creation.
LEMMA HostStreams ==
  ASSUME HostInv, [HostNext]_vars
  PROVE  [Next]_streamVars \/ StartAgent
<1>0. Host \in Consumers /\ Host \in Collectors
  BY HostAssumption
<1>1. CASE HostStep
  <2>1. CASE ReadEvent
    BY <2>1, <1>0 DEF ReadEvent, Next, Read
  <2>2. CASE StartCollect \/ EndCollect
    BY <2>2, <1>0 DEF StartCollect, EndCollect, Next, Control
  <2>3. CASE CreateRecord \/ Open \/ SendDelta \/ CloseOutput \/ Complete \/ Fail \/ Mark \/ Yield
    BY <2>3 DEF CreateRecord, Open, SendDelta, CloseOutput, Complete, Fail, Mark, Yield
  <2> QED
    BY <1>1, <2>1, <2>2, <2>3 DEF HostStep
<1>2. CASE Disconnect
  BY <1>2, <1>0 DEF Disconnect, Next, Control, Read, Left
<1>3. CASE ReplayStep \/ UNCHANGED vars
  BY <1>3 DEF ReplayStep, vars
<1>4. CASE Produce
  BY <1>4 DEF Next
<1> QED
  BY <1>1, <1>2, <1>3, <1>4 DEF HostNext

LEMMA StreamKept ==
  ASSUME HostInv, [HostNext]_vars
  PROVE  IInv'
<1>1. IInv
  BY DEF HostInv
<1>2. CASE [Next]_streamVars
  BY <1>1, <1>2, Step
<1>3. CASE StartAgent
  <2>1. UNCHANGED broadcast /\ UNCHANGED <<doomed, result, closer, collector>>
        /\ runner = "none" /\ runner' = "created"
    BY <1>3 DEF StartAgent, HostInv, TextKept
  <2>2. BInv' /\ done' = done
    BY <2>1, <1>1, SameKeeps DEF IInv
  <2> QED
    BY <1>1, <2>1, <2>2 DEF IInv, StreamTypeOK, BInv, ClosedLast, Resulted, Joins, OnlyOwnersCancel, Over, Runners
<1> QED
  BY <1>2, <1>3, HostStreams

\* What a call of the store may leave behind.
LEMMA Recorded ==
  ASSUME HostTypeOK, NEW item \in Sendable, NEW next, NEW raised,
         AppendEvent(item, next, raised)
  PROVE  /\ hand = "none" /\ faults' \in Nat
         /\ UNCHANGED <<sequence, record, connected, seen, polled>>
         /\ \/ /\ log' = Append(log, item) /\ sequence = Len(log)
               /\ hand' = item /\ pc' = next
            \/ log' \in {log, Append(log, item)} /\ UNCHANGED hand /\ pc' = raised
BY DEF AppendEvent, Expected, HostTypeOK

\* The clauses that have no text: an event is recorded,
LEMMA RecordKeeps ==
  ASSUME HostInv, NEW item \in Sendable, NEW next \in PCs \ {"over"}, NEW raised \in {"raised", "failing"},
         AppendEvent(item, next, raised), UNCHANGED streamVars,
         pc \in {"opening", "delta", "closing", "failing"},
         item = "completed" <=> next = "completing", item = "failed" <=> next = "marking",
         item \in Ended => raised = "raised"
  PROVE  HostTypeOK' /\ ClientsHavePrefix' /\ Following' /\ Finishing' /\ Caught'
<1>1. HostTypeOK /\ ClientsHavePrefix /\ Following /\ Finishing /\ Caught
  BY DEF HostInv
<1>2. /\ hand = "none" /\ faults' \in Nat
      /\ UNCHANGED <<sequence, record, connected, seen, polled>>
      /\ \/ /\ log' = Append(log, item) /\ sequence = Len(log)
            /\ hand' = item /\ pc' = next
         \/ log' \in {log, Append(log, item)} /\ UNCHANGED hand /\ pc' = raised
  BY <1>1, Recorded
<1>3. log \in Seq(Sendable) /\ seen \in Seq(Sendable) /\ polled \in Seq(Sendable)
  BY <1>1 DEF HostTypeOK
<1>4. /\ log' \in {log, Append(log, item)} /\ log' \in Seq(Sendable)
      /\ Len(log) <= Len(log') /\ \A i \in 1..Len(log) : log'[i] = log[i]
  <2>1. CASE log' = log
    BY <2>1, <1>3
  <2>2. CASE log' = Append(log, item)
    BY <2>2, <1>3
  <2> QED
    BY <2>1, <2>2, <1>2
<1>5. HostTypeOK'
  <2>1. StreamTypeOK'
    BY <1>1 DEF HostTypeOK, streamVars, broadcast, owned, StreamTypeOK, BroadcastTypeOK
  <2> QED
    BY <2>1, <1>1, <1>2, <1>4 DEF HostTypeOK, PCs
<1>6. ClientsHavePrefix'
  <2>1. ASSUME NEW s \in Seq(Sendable), IsPrefixOf(s, log)
        PROVE  IsPrefixOf(s, log')
    <3>1. /\ DOMAIN s = 1..Len(s) /\ Len(s) \in Nat /\ Len(log) \in Nat /\ Len(log') \in Nat
          /\ Len(s) <= Len(log) /\ \A i \in 1..Len(s) : s[i] = log[i]
      BY <2>1, <1>3, <1>4 DEF IsPrefixOf
    <3>2. \A i \in 1..Len(s) : i \in 1..Len(log)
      BY <3>1
    <3>3. \A i \in 1..Len(s) : s[i] = log'[i]
      BY <3>1, <3>2, <1>4
    <3>4. Len(s) <= Len(log')
      BY <3>1, <1>4
    <3> QED
      BY <3>1, <3>3, <3>4 DEF IsPrefixOf
  <2>2. IsPrefixOf(seen, log') /\ IsPrefixOf(polled, log')
    BY <2>1, <1>1, <1>3 DEF ClientsHavePrefix
  <2>3. seen' = seen /\ polled' = polled
    BY <1>2
  <2> QED
    BY <2>2, <2>3 DEF ClientsHavePrefix, IsPrefixOf
<1>7. Following'
  BY <1>1, <1>2, <1>3 DEF Following
<1>8. \A i \in 1..Len(log) : log[i] \notin Ended
  BY <1>1, <1>3 DEF Finishing
<1>9. Finishing'
  <2>1. pc' = "completing" => log' # <<>> /\ log'[Len(log')] = "completed"
    BY <1>2, <1>3
  <2>2. pc' = "marking" => log' # <<>> /\ log'[Len(log')] = "failed"
    BY <1>2, <1>3
  <2>3. record' \notin Ended /\ pc' # "over"
    BY <1>1, <1>2 DEF Finishing
  <2>4. hand' \in Ended => pc' \in {"completing", "marking"}
    BY <1>2 DEF Ended
  <2>5. ASSUME NEW i \in DOMAIN log', log'[i] \in Ended
        PROVE  i = Len(log') /\ pc' \in {"completing", "marking", "over", "raised"}
    <3>1. DOMAIN log' = 1..Len(log') /\ DOMAIN log = 1..Len(log) /\ Len(log) \in Nat
      BY <1>3, <1>4
    <3>2. i \notin 1..Len(log)
      BY <1>4, <1>8, <2>5
    <3>3. log' = Append(log, item)
      BY <3>1, <3>2, <2>5, <1>4
    <3>4. Len(log') = Len(log) + 1 /\ log'[Len(log) + 1] = item
      BY <3>3, <1>3
    <3>5. i = Len(log) + 1 /\ i = Len(log') /\ item \in Ended
      BY <3>1, <3>2, <3>4, <2>5
    <3> QED
      BY <3>5, <1>2 DEF Ended
  <2>6. connected' => \A i \in DOMAIN seen' : seen'[i] \in Ended => record' = seen'[i]
    BY <1>1, <1>2 DEF Finishing
  <2> QED
    BY <2>1, <2>2, <2>3, <2>4, <2>5, <2>6 DEF Finishing
<1>10. Caught'
  BY <1>1 DEF Caught, streamVars, broadcast
<1> QED
  BY <1>5, <1>6, <1>7, <1>9, <1>10

\* nothing is recorded and the response goes on,
LEMMA SilenceKeeps ==
  ASSUME HostInv, UNCHANGED <<sequence, hand, record, log, connected, seen, polled, faults>>,
         pc \in {"opening", "reading", "collecting"},
         pc' \in PCs \ {"completing", "marking", "over"}
  PROVE  ClientsHavePrefix' /\ Following' /\ Finishing'
<1>1. ClientsHavePrefix /\ Following /\ Finishing
  BY DEF HostInv
<1>2. log' = log /\ hand' = hand /\ record' = record /\ seen' = seen /\ connected' = connected
  OBVIOUS
<1>3. ClientsHavePrefix' /\ Following'
  BY <1>1, <1>2 DEF ClientsHavePrefix, IsPrefixOf, Following
<1>4. record \notin Ended /\ hand \notin Ended /\ \A i \in DOMAIN log : log[i] \notin Ended
  BY <1>1 DEF Finishing
<1>5. connected => \A i \in DOMAIN seen : seen[i] \in Ended => record = seen[i]
  BY <1>1 DEF Finishing
<1> QED
  BY <1>2, <1>3, <1>4, <1>5 DEF Finishing

\* the response is created, an event is sent, and the record is completed,
LEMMA CreateKeeps ==
  ASSUME HostInv, CreateRecord
  PROVE  ClientsHavePrefix' /\ Following' /\ Finishing'
<1>1. ClientsHavePrefix /\ Following /\ Finishing
  BY DEF HostInv
<1>2. log' = log /\ hand' = hand /\ seen' = seen /\ connected' = connected /\ polled' = polled
      /\ sequence' = sequence /\ pc = "idle" /\ pc' = "opening" /\ record' = "in_progress"
  BY DEF CreateRecord
<1>3. ClientsHavePrefix' /\ Following'
  BY <1>1, <1>2 DEF ClientsHavePrefix, IsPrefixOf, Following
<1>4. record \notin Ended /\ hand \notin Ended /\ \A i \in DOMAIN log : log[i] \notin Ended
  BY <1>1, <1>2 DEF Finishing
<1>5. connected => \A i \in DOMAIN seen : seen[i] \notin Ended
  BY <1>1, <1>2, <1>4 DEF Finishing
<1> QED
  BY <1>2, <1>3, <1>4, <1>5 DEF Finishing, Ended

LEMMA YieldKeeps ==
  ASSUME HostInv, Yield
  PROVE  ClientsHavePrefix' /\ Following' /\ Finishing'
<1>1. ClientsHavePrefix /\ Following /\ Finishing
  BY DEF HostInv
<1>2. log' = log /\ seen' = Append(seen, hand) /\ connected' = connected /\ polled' = polled
      /\ sequence' = sequence + 1 /\ pc' = pc /\ record' = record /\ hand' = "none"
      /\ hand # "none" /\ connected /\ pc \notin {"completing", "marking"}
  BY DEF Yield, Unmarked
<1>3. log \in Seq(Sendable) /\ seen \in Seq(Sendable) /\ polled \in Seq(Sendable) /\ hand \in Sendable
  BY <1>2 DEF HostInv, HostTypeOK
<1>4. sequence = Len(seen) /\ Len(log) = Len(seen) + 1 /\ hand = log[Len(log)]
  BY <1>1, <1>2 DEF Following
<1>5. /\ Len(seen') = Len(seen) + 1 /\ seen'[Len(seen) + 1] = hand /\ DOMAIN seen' = 1..(Len(seen) + 1)
      /\ \A i \in 1..Len(seen) : seen'[i] = seen[i]
  BY <1>2, <1>3
<1>6. ClientsHavePrefix'
  <2>1. \A i \in DOMAIN seen' : seen'[i] = log[i]
    BY <1>1, <1>3, <1>4, <1>5 DEF ClientsHavePrefix, IsPrefixOf
  <2>2. Len(seen') <= Len(log)
    BY <1>3, <1>4, <1>5
  <2> QED
    BY <2>1, <2>2, <1>1, <1>2 DEF ClientsHavePrefix, IsPrefixOf
<1>7. Following'
  BY <1>2, <1>4, <1>5 DEF Following
<1>8. \A i \in DOMAIN seen' : seen'[i] \in Ended => record = seen'[i]
  <2>1. hand \in Ended => record = hand
    BY <1>1, <1>2, <1>4 DEF Finishing
  <2> QED
    BY <2>1, <1>1, <1>2, <1>3, <1>5 DEF Finishing
<1>9. hand' \notin Ended
  BY <1>2 DEF Ended
<1>10. Finishing'
  BY <1>1, <1>2, <1>8, <1>9 DEF Finishing
<1> QED
  BY <1>6, <1>7, <1>10

LEMMA MarkKeeps ==
  ASSUME HostInv, Mark
  PROVE  ClientsHavePrefix' /\ Following' /\ Finishing'
<1>1. ClientsHavePrefix /\ Following /\ Finishing
  BY DEF HostInv
<1>2. /\ log' = log /\ seen' = seen /\ connected' = connected /\ polled' = polled /\ sequence' = sequence
      /\ pc \in {"completing", "marking"}
      /\ \/ record' = (IF pc = "completing" THEN "completed" ELSE "failed") /\ pc' = "over" /\ hand' = hand
         \/ record' = record /\ pc' = "raised" /\ hand' = "none"
  BY DEF Mark
<1>3. ClientsHavePrefix' /\ Following'
  BY <1>1, <1>2 DEF ClientsHavePrefix, IsPrefixOf, Following
<1>4. record \notin Ended /\ \A i \in DOMAIN log : log[i] \in Ended => i = Len(log)
  BY <1>1, <1>2 DEF Finishing
<1>5. connected => \A i \in DOMAIN seen : seen[i] \notin Ended
  BY <1>1, <1>4 DEF Finishing
<1>6. Finishing'
  BY <1>1, <1>2, <1>4, <1>5 DEF Finishing, Ended
<1> QED
  BY <1>3, <1>6

\* and the client leaves, or what is recorded is read again.
LEMMA DisconnectKeeps ==
  ASSUME HostInv, Disconnect
  PROVE  ClientsHavePrefix' /\ Following' /\ Finishing'
<1>1. ClientsHavePrefix /\ Following /\ Finishing
  BY DEF HostInv
<1>2. /\ log' = log /\ seen' = seen /\ ~connected' /\ polled' = polled /\ record' = record
      /\ hand' = "none" /\ pc' = IF pc \in {"idle", "over", "raised"} THEN pc ELSE "raised"
  BY DEF Disconnect
<1>3. ClientsHavePrefix' /\ Following'
  BY <1>1, <1>2 DEF ClientsHavePrefix, IsPrefixOf, Following
<1>4. Finishing'
  BY <1>1, <1>2 DEF Finishing, Ended
<1> QED
  BY <1>3, <1>4

\* A client that has the first n events has them all after a replay.
LEMMA ReplayCompletes ==
  ASSUME NEW s \in Seq(Sendable), log \in Seq(Sendable), IsPrefixOf(s, log)
  PROVE  s \o After(Len(s)) \in Seq(Sendable) /\ IsPrefixOf(s \o After(Len(s)), log)
<1> DEFINE n == Len(s)
           r == After(n)
<1>1. n \in Nat /\ Len(log) \in Nat /\ n <= Len(log) /\ \A i \in 1..n : s[i] = log[i]
  BY DEF IsPrefixOf
<1>2. r \in Seq(Sendable) /\ Len(r) = Len(log) - n /\ \A i \in 1..Len(r) : r[i] = log[n + i]
  BY <1>1 DEF After
<1> HIDE DEF r, n
<1>3. /\ s \o r \in Seq(Sendable) /\ Len(s \o r) = Len(log)
      /\ \A i \in 1..Len(log) : (s \o r)[i] = IF i <= n THEN s[i] ELSE r[i - n]
  BY <1>1, <1>2 DEF n
<1>4. ASSUME NEW i \in 1..Len(log)
      PROVE  (s \o r)[i] = log[i]
  <2>1. CASE i <= n
    BY <2>1, <1>1, <1>3
  <2>2. CASE ~(i <= n)
    BY <2>2, <1>1, <1>2, <1>3
  <2> QED
    BY <2>1, <2>2
<1>5. IsPrefixOf(s \o r, log)
  BY <1>1, <1>3, <1>4 DEF IsPrefixOf
<1> QED
  BY <1>3, <1>5 DEF r, n

LEMMA ReplayKeeps ==
  ASSUME HostInv, ReplayStep
  PROVE  ClientsHavePrefix' /\ Following' /\ Finishing' /\ HostTypeOK'
<1>1. ClientsHavePrefix /\ Following /\ Finishing /\ HostTypeOK
  BY DEF HostInv
<1>2. log' = log /\ connected' = connected /\ record' = record /\ sequence' = sequence /\ hand' = hand
      /\ pc' = pc /\ UNCHANGED streamVars /\ faults' = faults
  BY DEF ReplayStep
<1>3. log \in Seq(Sendable) /\ seen \in Seq(Sendable) /\ polled \in Seq(Sendable)
  BY <1>1 DEF HostTypeOK
<1>4. \/ ~connected /\ seen' = seen \o After(Len(seen)) /\ polled' = polled
      \/ seen' = seen /\ polled' = polled \o After(Len(polled))
  BY DEF ReplayStep, Replay, Poll
<1>5. seen' \in Seq(Sendable) /\ polled' \in Seq(Sendable) /\ IsPrefixOf(seen', log) /\ IsPrefixOf(polled', log)
  BY <1>1, <1>3, <1>4, ReplayCompletes, Zenon DEF ClientsHavePrefix
<1>6. ClientsHavePrefix'
  BY <1>2, <1>5 DEF ClientsHavePrefix, IsPrefixOf
<1>7. Following' /\ Finishing'
  BY <1>1, <1>2, <1>4 DEF Following, Finishing
<1>8. HostTypeOK'
  <2>1. StreamTypeOK'
    BY <1>1, <1>2 DEF HostTypeOK, streamVars, broadcast, owned, StreamTypeOK, BroadcastTypeOK
  <2> QED
    BY <2>1, <1>1, <1>2, <1>5 DEF HostTypeOK
<1> QED
  BY <1>6, <1>7, <1>8

-----------------------------------------------------------------------------
(* The host and the broadcast *)

LEMMA CaughtKept ==
  ASSUME HostInv, [HostNext]_vars
  PROVE  Caught'
<1>0. Host \in Consumers /\ Host \in Collectors
  BY HostAssumption
<1>1. Caught /\ ClosedLast /\ phase \in [Consumers -> Phases]
  BY DEF HostInv, IInv, BInv, BroadcastTypeOK
<1>2. ASSUME UNCHANGED broadcast PROVE Caught'
  BY <1>1, <1>2 DEF Caught, broadcast
<1>3. ASSUME NEW e, Publish(e), ~done PROVE Caught'
  BY <1>0, <1>1, <1>3 DEF Caught, Publish, Woken
<1>4. ASSUME Close PROVE Caught'
  BY <1>0, <1>1, <1>4 DEF Caught, Close, Woken
<1>5. CASE Produce
  BY <1>1, <1>2, <1>3, <1>4, <1>5 DEF Produce, RunnerStarts, RunnerPublishes, RunnerEnds, RunnerFinally,
                                      Closes, ClosedLast, Over
<1>6. CASE Pull(Host)
  BY <1>0, <1>1, <1>6 DEF Caught, Pull, Goes
<1>7. CASE Leave(Host)
  BY <1>0, <1>1, <1>7 DEF Caught, Leave, Goes
<1>8. CASE HostStep
  <2>1. CASE CreateRecord \/ Open \/ StartAgent \/ SendDelta \/ StartCollect \/ EndCollect
    BY <2>1, <1>2 DEF CreateRecord, Open, StartAgent, SendDelta, StartCollect, EndCollect, Collect, Collected, streamVars
  <2>2. CASE CloseOutput \/ Complete \/ Fail \/ Mark \/ Yield
    BY <2>2, <1>2 DEF CloseOutput, Complete, Fail, Mark, Yield, streamVars
  <2> QED
    BY <1>6, <1>8, <2>1, <2>2 DEF HostStep, ReadEvent
<1>9. CASE Disconnect \/ ReplayStep \/ UNCHANGED vars
  BY <1>2, <1>7, <1>9 DEF Disconnect, CollectInterrupted, ReplayStep, vars, streamVars
<1> QED
  BY <1>5, <1>8, <1>9 DEF HostNext

\* The texts: nothing is recorded and nothing is read,
LEMMA TextStays ==
  ASSUME HostInv, log' = log, got' = got,
         pc' \in {"idle", "opening", "reading", "collecting"} \/ Finished' =>
           pc \in {"idle", "opening", "reading", "collecting"} \/ Finished,
         pc' = "delta" => pc = "delta",
         pc' = "collecting" \/ Finished' => phase'[Host] = "ended",
         Finished' => result' = "result",
         pc' \in {"idle", "opening"} => runner' = "none"
  PROVE  TextKept'
<1>1. TextKept
  BY DEF HostInv
<1>2. /\ SameTexts(log', got'[Host])
      /\ Cardinality(TextsOf(log')) <= Cardinality(TextsOf(got'[Host]))
  BY <1>1 DEF TextKept
<1>3. pc' \in {"idle", "opening", "reading", "collecting"} \/ Finished' =>
        Cardinality(TextsOf(log')) = Cardinality(TextsOf(got'[Host]))
  BY <1>1 DEF TextKept
<1>4. pc' = "delta" => /\ got'[Host] # <<>> /\ got'[Host][Len(got'[Host])] \in Deltas
                       /\ Cardinality(TextsOf(got'[Host])) = Cardinality(TextsOf(log')) + 1
  BY <1>1 DEF TextKept
<1> QED
  BY <1>2, <1>3, <1>4 DEF TextKept

\* an event without text is recorded,
LEMMA FrameText ==
  ASSUME HostInv, NEW item \in Frame, NEW next, AppendEvent(item, next, "raised"), UNCHANGED streamVars,
         <<pc, next>> \in {<<"opening", "opening">>, <<"closing", "closing">>, <<"closing", "completing">>,
                           <<"failing", "marking">>}
  PROVE  TextKept'
<1>1. TextKept /\ HostTypeOK /\ Finishing /\ got[Host] \in Seq(Events) /\ record \notin Ended
  BY HostAssumption DEF HostInv, HostTypeOK, StreamTypeOK, BroadcastTypeOK, Finishing
<1>2. item \in Sendable /\ item \notin Deltas
  BY HostAssumption DEF Sendable
<1>3. /\ record' = record /\ log' \in {log, Append(log, item)} /\ pc' \in {next, "raised"}
      /\ got' = got /\ phase' = phase /\ result' = result /\ runner' = runner
  BY <1>1, <1>2, Recorded DEF streamVars, broadcast, owned
<1>4. log \in Seq(Sendable \cup Events) /\ got[Host] \in Seq(Sendable \cup Events)
  <2>1. log \in Seq(Sendable)
    BY <1>1 DEF HostTypeOK
  <2> QED
    BY <1>1, <2>1
<1>5. TextsOf(log') = TextsOf(log) /\ SameTexts(log', got[Host])
  <2>1. TextsOf(Append(log, item)) = TextsOf(log)
    BY <1>2, <1>4, AppendFrame
  <2>2. SameTexts(Append(log, item), got[Host])
    BY <1>1, <1>2, <1>4, SameWithFrame DEF TextKept
  <2> QED
    BY <2>1, <2>2, <1>1, <1>3 DEF TextKept
<1>6. Finished' => Finished
  BY <1>1, <1>3 DEF Finished, Ended
<1>7. Cardinality(TextsOf(log')) <= Cardinality(TextsOf(got'[Host]))
  BY <1>1, <1>3, <1>5 DEF TextKept
<1>8. pc' \in {"idle", "opening", "reading", "collecting"} \/ Finished' =>
        Cardinality(TextsOf(log')) = Cardinality(TextsOf(got'[Host]))
  BY <1>1, <1>3, <1>5, <1>6 DEF TextKept
<1>9. pc' # "delta" /\ pc' # "collecting"
  BY <1>3
<1>10. Finished' => phase'[Host] = "ended" /\ result' = "result"
  BY <1>1, <1>3, <1>6 DEF TextKept
<1>11. pc' \in {"idle", "opening"} => runner' = "none"
  BY <1>1, <1>3 DEF TextKept
<1> QED
  BY <1>3, <1>5, <1>7, <1>8, <1>9, <1>10, <1>11 DEF TextKept

\* the host reads an event,
LEMMA ReadText ==
  ASSUME HostInv, ReadEvent
  PROVE  TextKept'
<1>0. Host \in Consumers /\ Len(got[Host]) \in Nat /\ record \notin Ended
  BY HostAssumption DEF HostInv, HostTypeOK, StreamTypeOK, BroadcastTypeOK, Finishing, ReadEvent, Reading
<1>1. TextKept /\ got \in [Consumers -> Seq(Events)] /\ phase \in [Consumers -> Phases] /\ IInv /\ log \in Seq(Sendable)
  BY DEF HostInv, HostTypeOK, StreamTypeOK, BroadcastTypeOK
<1>2. Pull(Host) /\ log' = log /\ record' = record /\ pc = "reading" /\ result' = result /\ phase[Host] = "ready"
  BY DEF ReadEvent, Reading, Pull, owned
<1>3. Cardinality(TextsOf(log)) = Cardinality(TextsOf(got[Host]))
  BY <1>1, <1>2 DEF TextKept
<1>4. CASE got'[Host] # got[Host]
  <2>1. PICK e \in Events : got'[Host] = Append(got[Host], e)
    <3>1. got' = [got EXCEPT ![Host] = Append(@, history[Len(@) - First + 1])]
          /\ ~Evicted(Host) /\ Len(got[Host]) < Len(feed)
      BY <1>2, <1>4 DEF Pull, Goes
    <3>2. Len(got[Host]) - First + 1 \in 1..Len(history)
      BY <3>1, <1>0, <1>1 DEF Evicted, First, IInv, BInv, BroadcastTypeOK
    <3>3. history[Len(got[Host]) - First + 1] \in Events
      BY <3>2, <1>1 DEF IInv, BInv, BroadcastTypeOK
    <3>4. got'[Host] = Append(got[Host], history[Len(got[Host]) - First + 1])
      BY <3>1, <1>0, <1>1
    <3> QED
      BY <3>3, <3>4
  <2>2. got[Host] \in Seq(Events)
    BY <1>0, <1>1
  <2>3. got'[Host] # <<>> /\ got'[Host][Len(got'[Host])] = e
    BY <2>1, <2>2
  <2>4. log \in Seq(Sendable \cup Events) /\ got[Host] \in Seq(Sendable \cup Events)
    BY <2>2, <1>1
  <2>5. pc' = IF e \in Deltas THEN "delta" ELSE "reading"
    <3>1. phase'[Host] = "ready"
      BY <1>2, <1>4 DEF Pull, Goes
    <3> QED
      BY <3>1, <1>4, <2>3 DEF ReadEvent
  <2>6. ~Finished'
    BY <2>5, <1>0, <1>2 DEF Finished, Ended
  <2>7. CASE e \in Deltas
    <3>1. SameTexts(log, got'[Host])
      BY <2>1, <2>4, <2>7, <1>1, <1>3, SameWithNext DEF TextKept
    <3>2. Cardinality(TextsOf(got'[Host])) = Cardinality(TextsOf(got[Host])) + 1
      BY <2>1, <2>4, <2>7, AppendText
    <3>3. Cardinality(TextsOf(got[Host])) \in Nat
      BY <2>2, TextsFinite
    <3> QED
      BY <3>1, <3>2, <3>3, <2>3, <2>5, <2>6, <2>7, <1>2, <1>3 DEF TextKept
  <2>8. CASE e \notin Deltas
    <3>1. SameTexts(log, got'[Host])
      BY <2>1, <2>4, <2>8, <1>1, SameWithFrame DEF TextKept
    <3>2. TextsOf(got'[Host]) = TextsOf(got[Host])
      BY <2>1, <2>2, <2>8, AppendFrame
    <3>3. Cardinality(TextsOf(got'[Host])) \in Nat
      BY <3>2, <2>2, TextsFinite
    <3> QED
      BY <3>1, <3>2, <3>3, <2>5, <2>6, <2>8, <1>2, <1>3 DEF TextKept
  <2> QED
    BY <2>7, <2>8
<1>5. CASE got'[Host] = got[Host]
  <2>1. pc' = CASE phase'[Host] = "overrun" -> "failing" [] phase'[Host] = "ended" -> "collecting" [] OTHER -> "reading"
    BY <1>5 DEF ReadEvent
  <2>2. /\ pc' \in {"failing", "collecting", "reading"}
        /\ pc' = "collecting" => phase'[Host] = "ended"
    BY <2>1
  <2>3. ~Finished'
    BY <2>2, <1>0, <1>2 DEF Finished, Ended
  <2> QED
    BY <2>2, <2>3, <1>1, <1>2, <1>3, <1>5 DEF TextKept
<1> QED
  BY <1>4, <1>5

\* and it records the text that it has read.
LEMMA DeltaText ==
  ASSUME HostInv, SendDelta
  PROVE  TextKept' /\ got[Host] # <<>> /\ got[Host][Len(got[Host])] \in Deltas
<1>1. TextKept /\ HostTypeOK /\ Finishing /\ got[Host] \in Seq(Events) /\ record \notin Ended /\ pc = "delta"
  BY HostAssumption DEF HostInv, HostTypeOK, StreamTypeOK, BroadcastTypeOK, Finishing, SendDelta
<1> DEFINE e == got[Host][Len(got[Host])]
<1>2. /\ got[Host] # <<>> /\ e \in Deltas
      /\ Cardinality(TextsOf(got[Host])) = Cardinality(TextsOf(log)) + 1
  BY <1>1 DEF TextKept
<1>3. /\ record' = record /\ pc' \in {"reading", "failing"}
      /\ pc' = "reading" => log' = Append(log, e)
      /\ log' \in {log, Append(log, e)}
      /\ got' = got
  <2>1. e \in Sendable
    BY <1>2 DEF Sendable
  <2>2. AppendEvent(e, "reading", "failing") /\ got' = got
    BY DEF SendDelta, streamVars, broadcast
  <2> HIDE DEF e
  <2> QED
    BY <1>1, <2>1, <2>2, Recorded
<1>4. log \in Seq(Sendable \cup Events) /\ got[Host] \in Seq(Sendable \cup Events)
  <2>1. log \in Seq(Sendable)
    BY <1>1 DEF HostTypeOK
  <2> QED
    BY <1>1, <2>1
<1>5. /\ SameTexts(Append(log, e), got[Host])
      /\ Cardinality(TextsOf(Append(log, e))) = Cardinality(TextsOf(got[Host]))
  BY <1>1, <1>2, <1>4, SameWithLast DEF TextKept
<1>6. Cardinality(TextsOf(log)) \in Nat /\ Cardinality(TextsOf(got[Host])) \in Nat
  BY <1>4, TextsFinite
<1>7. SameTexts(log', got'[Host]) /\ Cardinality(TextsOf(log')) <= Cardinality(TextsOf(got'[Host]))
  <2>1. CASE log' = log
    BY <2>1, <1>1, <1>3, <1>6 DEF TextKept
  <2>2. CASE log' = Append(log, e)
    BY <2>2, <1>3, <1>5, <1>6
  <2> QED
    BY <2>1, <2>2, <1>3
<1>8. pc' = "reading" => Cardinality(TextsOf(log')) = Cardinality(TextsOf(got'[Host]))
  BY <1>3, <1>5
<1>9. ~Finished'
  BY <1>1, <1>3 DEF Finished, Ended
<1> QED
  BY <1>2, <1>3, <1>7, <1>8, <1>9 DEF TextKept

-----------------------------------------------------------------------------
(* The steps of the host *)

LEMMA SentCounts == ASSUME log \in Seq(Sendable) PROVE Sent \in Nat
<1>1. {i \in DOMAIN log : \E j \in DOMAIN Closing : log[i] = Closing[j]} \subseteq 1..Len(log) /\ Len(log) \in Nat
  OBVIOUS
<1>2. IsFiniteSet({i \in DOMAIN log : \E j \in DOMAIN Closing : log[i] = Closing[j]})
  BY <1>1, FS_Interval, FS_Subset
<1> QED
  BY <1>2, FS_CardinalityType DEF Sent

\* The calls of the store, with the events they record.
LEMMA StoreCalls ==
  ASSUME HostInv, Open \/ SendDelta \/ CloseOutput \/ Complete \/ Fail
  PROVE  HostInv'
<1>0. HostTypeOK /\ log \in Seq(Sendable) /\ sequence \in Nat
  BY DEF HostInv, HostTypeOK
<1>1. ASSUME NEW item \in Frame, NEW next, AppendEvent(item, next, "raised"), UNCHANGED streamVars,
             <<pc, next>> \in {<<"opening", "opening">>, <<"closing", "closing">>, <<"closing", "completing">>,
                               <<"failing", "marking">>},
             item = "completed" <=> next = "completing", item = "failed" <=> next = "marking"
      PROVE  HostInv'
  <2>1. item \in Sendable /\ next \in PCs \ {"over"} /\ pc \in {"opening", "delta", "closing", "failing"}
    BY <1>1 DEF Sendable, PCs
  <2>2. HostTypeOK' /\ ClientsHavePrefix' /\ Following' /\ Finishing' /\ Caught'
    BY <1>1, <2>1, RecordKeeps
  <2>3. TextKept'
    BY <1>1, FrameText
  <2>4. IInv'
    BY <1>1, Step DEF HostInv
  <2> QED
    BY <2>2, <2>3, <2>4 DEF HostInv
<1>2. CASE Open
  <2>1. sequence + 1 \in 1..4 /\ Len(Opening) = 4
    BY <1>0, <1>2 DEF Open, Opening
  <2>2. Opening[sequence + 1] \in {"created", "in_progress", "item_added", "part_added"}
        /\ Opening[sequence + 1] \in Frame
    BY <2>1 DEF Opening, Frame
  <2> QED
    BY <1>1, <1>2, <2>2 DEF Open
<1>3. CASE CloseOutput
  <2>1. Sent + 1 \in 1..3 /\ Len(Closing) = 3
    BY <1>0, <1>3, SentCounts DEF CloseOutput, Closing
  <2>2. Closing[Sent + 1] \in {"text_done", "part_done", "item_done"} /\ Closing[Sent + 1] \in Frame
    BY <2>1 DEF Closing, Frame
  <2> QED
    BY <1>1, <1>3, <2>2 DEF CloseOutput
<1>4. CASE Complete
  <2>1. "completed" \in Frame
    BY DEF Frame, Ended
  <2> QED
    BY <1>1, <1>4, <2>1 DEF Complete
<1>5. CASE Fail
  <2>1. "failed" \in Frame
    BY DEF Frame, Ended
  <2> QED
    BY <1>1, <1>5, <2>1 DEF Fail
<1>6. CASE SendDelta
  <2>1. TextKept' /\ got[Host] # <<>> /\ got[Host][Len(got[Host])] \in Deltas
    BY <1>6, DeltaText
  <2> DEFINE e == got[Host][Len(got[Host])]
  <2>2. e \in Sendable /\ e \notin Ended
    BY <2>1, HostAssumption DEF Sendable, Frame
  <2>3. AppendEvent(e, "reading", "failing") /\ UNCHANGED streamVars /\ pc = "delta"
    BY <1>6 DEF SendDelta
  <2> HIDE DEF e
  <2>4. e # "completed" /\ e # "failed"
    BY <2>2 DEF Ended
  <2>5. "reading" \in PCs \ {"over"}
    BY DEF PCs
  <2>6. HostTypeOK' /\ ClientsHavePrefix' /\ Following' /\ Finishing' /\ Caught'
    BY <2>2, <2>3, <2>4, <2>5, RecordKeeps
  <2>7. IInv'
    BY <2>3, Step DEF HostInv
  <2> QED
    BY <2>1, <2>6, <2>7 DEF HostInv
<1> QED
  BY <1>2, <1>3, <1>4, <1>5, <1>6

\* What every step of the host, of its agent and of its clients keeps.
LEMMA HostKeeps == HostInv /\ [HostNext]_vars => HostInv'
<1> SUFFICES ASSUME HostInv, [HostNext]_vars PROVE HostInv'
  OBVIOUS
<1>1. IInv' /\ StreamTypeOK' /\ Caught'
  BY StreamKept, CaughtKept DEF IInv
<1>2. HostTypeOK /\ Finishing /\ TextKept /\ Caught
  BY DEF HostInv
<1>3. Host \in Consumers /\ Host \in Collectors /\ collector \in [Collectors -> {"idle", "waiting"} \cup (Results \ {"none"})]
      /\ phase \in [Consumers -> Phases]
  BY <1>2, HostAssumption DEF HostTypeOK, StreamTypeOK, BroadcastTypeOK
<1>4. CASE Open \/ SendDelta \/ CloseOutput \/ Complete \/ Fail
  BY <1>4, StoreCalls
<1>5. CASE CreateRecord
  <2>1. HostTypeOK'
    BY <1>1, <1>2, <1>5 DEF CreateRecord, HostTypeOK, PCs
  <2>2. TextKept'
    BY <1>2, <1>5, TextStays DEF CreateRecord, Finished, TextKept, streamVars, broadcast, owned
  <2> QED
    BY <1>1, <1>5, <2>1, <2>2, CreateKeeps DEF HostInv
<1>6. CASE StartAgent
  <2>1. HostTypeOK'
    BY <1>1, <1>2, <1>6 DEF StartAgent, HostTypeOK, PCs
  <2>2. ~Finished'
    BY <1>2, <1>6 DEF StartAgent, Finished, Finishing, Ended
  <2>3. TextKept'
    BY <1>6, <2>2, TextStays DEF StartAgent, broadcast
  <2>4. ClientsHavePrefix' /\ Following' /\ Finishing'
    BY <1>6, SilenceKeeps DEF StartAgent, PCs
  <2> QED
    BY <1>1, <2>1, <2>3, <2>4 DEF HostInv
<1>7. CASE ReadEvent
  <2>1. pc' \in {"delta", "reading", "failing", "collecting"}
    BY <1>7 DEF ReadEvent
  <2>2. HostTypeOK'
    BY <1>1, <1>2, <1>7, <2>1 DEF ReadEvent, HostTypeOK, PCs
  <2>3. ClientsHavePrefix' /\ Following' /\ Finishing'
    BY <1>7, <2>1, SilenceKeeps DEF ReadEvent, Reading, PCs
  <2> QED
    BY <1>1, <1>7, <2>2, <2>3, ReadText DEF HostInv
<1>8. CASE StartCollect
  <2>1. HostTypeOK'
    BY <1>1, <1>2, <1>8 DEF StartCollect, host, HostTypeOK
  <2>2. pc = "collecting" /\ pc' = pc /\ UNCHANGED <<sequence, hand, record, log, connected, seen, polled, faults>>
        /\ UNCHANGED broadcast
    BY <1>8 DEF StartCollect, host, Collect
  <2>3. ~Finished'
    BY <1>2, <2>2 DEF Finished, Finishing, Ended
  <2>4. TextKept'
    BY <1>2, <2>2, <2>3, TextStays DEF TextKept, broadcast
  <2>5. ClientsHavePrefix' /\ Following' /\ Finishing'
    BY <2>2, SilenceKeeps DEF PCs
  <2> QED
    BY <1>1, <2>1, <2>4, <2>5 DEF HostInv
<1>9. CASE EndCollect
  <2>1. /\ pc = "collecting" /\ UNCHANGED <<sequence, hand, record, log, connected, seen, polled, faults>>
        /\ UNCHANGED broadcast /\ result' = result /\ collector'[Host] = result
        /\ pc' \in {"closing", "failing", "raised"} /\ (pc' = "closing" => result = "result")
    BY <1>3, <1>9 DEF EndCollect, Collected, Settled
  <2>2. HostTypeOK'
    BY <1>1, <1>2, <2>1 DEF HostTypeOK, PCs
  <2>3. record \notin Ended
    BY <1>2, <2>1 DEF Finishing
  <2>4. Finished' => result' = "result"
    BY <2>1, <2>3 DEF Finished, Ended
  <2>5. phase'[Host] = "ended"
    BY <1>2, <2>1 DEF TextKept, broadcast
  <2>6. TextKept'
    BY <2>1, <2>4, <2>5, TextStays DEF broadcast
  <2>7. ClientsHavePrefix' /\ Following' /\ Finishing'
    BY <2>1, SilenceKeeps DEF PCs
  <2> QED
    BY <1>1, <2>2, <2>6, <2>7 DEF HostInv
<1>10. CASE Mark
  <2>1. /\ log' = log /\ UNCHANGED streamVars /\ pc \in {"completing", "marking"}
        /\ \/ record' = (IF pc = "completing" THEN "completed" ELSE "failed") /\ pc' = "over"
           \/ record' = record /\ pc' = "raised"
    BY <1>10 DEF Mark
  <2>2. HostTypeOK'
    BY <1>1, <1>2, <1>10 DEF Mark, HostTypeOK, PCs
  <2>3. Finished' => Finished
    BY <2>1 DEF Finished
  <2>4. got' = got /\ phase' = phase /\ result' = result
    BY <2>1 DEF streamVars, broadcast, owned
  <2>5. TextKept'
    BY <1>2, <2>1, <2>3, <2>4, TextStays DEF TextKept
  <2> QED
    BY <1>1, <1>10, <2>2, <2>5, MarkKeeps DEF HostInv
<1>11. CASE Yield
  <2>1. HostTypeOK'
    BY <1>1, <1>2, <1>11 DEF Yield, HostTypeOK
  <2>2. log' = log /\ pc' = pc /\ record' = record /\ got' = got /\ phase' = phase /\ result' = result /\ runner' = runner
    BY <1>11 DEF Yield, streamVars, broadcast, owned
  <2>3. TextKept'
    BY <1>2, <2>2, TextStays DEF TextKept, Finished
  <2> QED
    BY <1>1, <1>11, <2>1, <2>3, YieldKeeps DEF HostInv
<1>12. CASE Disconnect
  <2>1. /\ log' = log /\ record' = record /\ pc' = IF pc \in {"idle", "over", "raised"} THEN pc ELSE "raised"
        /\ got' = got /\ result' = result /\ runner' = runner
        /\ pc = "reading" \/ phase' = phase
    BY <1>12 DEF Disconnect, CollectInterrupted, Leave, Goes, streamVars, broadcast, owned
  <2>2. HostTypeOK'
    BY <1>1, <1>2, <1>12 DEF Disconnect, HostTypeOK, PCs
  <2>3. Finished' => Finished /\ pc # "reading"
    BY <1>2, <2>1 DEF Finished, Finishing, Ended
  <2>4. pc' # "delta" /\ pc' # "collecting"
    BY <2>1
  <2>5. pc' \in {"idle", "opening", "reading", "collecting"} => pc = pc'
    BY <2>1
  <2>6. TextKept'
    BY <1>2, <2>1, <2>3, <2>4, <2>5, TextStays DEF TextKept
  <2> QED
    BY <1>1, <1>12, <2>2, <2>6, DisconnectKeeps DEF HostInv
<1>13. CASE ReplayStep
  <2>1. log' = log /\ pc' = pc /\ record' = record /\ got' = got /\ phase' = phase /\ result' = result /\ runner' = runner
    BY <1>13 DEF ReplayStep, streamVars, broadcast, owned
  <2>2. TextKept'
    BY <1>2, <2>1, TextStays DEF TextKept, Finished
  <2> QED
    BY <1>1, <1>13, <2>2, ReplayKeeps DEF HostInv
<1>14. CASE (Produce /\ UNCHANGED host) \/ UNCHANGED vars
  <2>1. UNCHANGED host
    BY <1>14 DEF vars
  <2>2. log' = log /\ pc' = pc /\ record' = record
    BY <2>1 DEF host
  <2>3. got' = got
    BY <1>14 DEF Produce, RunnerStarts, RunnerPublishes, RunnerEnds, RunnerFinally, Closes, Publish, Close,
                 vars, streamVars, broadcast
  <2>4. phase[Host] = "ended" => phase'[Host] = "ended"
    BY <1>3, <1>14 DEF Produce, RunnerStarts, RunnerPublishes, RunnerEnds, RunnerFinally, Closes, Publish, Close,
                       Woken, vars, streamVars, broadcast
  <2>5. done => result' = result
    BY <1>14 DEF HostInv, IInv, ClosedLast, Over, Produce, RunnerStarts, RunnerPublishes, RunnerEnds,
                 RunnerFinally, vars, streamVars, owned
  <2>6. runner = "none" => runner' = "none"
    BY <1>14 DEF Produce, RunnerStarts, RunnerPublishes, RunnerEnds, RunnerFinally, vars, streamVars, owned
  <2>7. Finished' = Finished
    BY <2>2 DEF Finished
  <2>8. TextKept'
    BY <1>2, <2>2, <2>3, <2>4, <2>5, <2>6, <2>7, TextStays DEF TextKept, Caught
  <2>9. HostTypeOK'
    BY <1>1, <1>2, <2>1 DEF HostTypeOK, host
  <2>10. ClientsHavePrefix' /\ Following' /\ Finishing'
    BY <2>1 DEF HostInv, host, ClientsHavePrefix, IsPrefixOf, Following, Finishing
  <2> QED
    BY <1>1, <2>8, <2>9, <2>10 DEF HostInv
<1> QED
  BY <1>4, <1>5, <1>6, <1>7, <1>8, <1>9, <1>10, <1>11, <1>12, <1>13, <1>14 DEF HostNext, HostStep

LEMMA HostInvariance == HostSpec => []HostInv
BY HostInitially, HostKeeps, PTL DEF HostSpec

-----------------------------------------------------------------------------
(* The theorems about the host *)

\* The state of a response has its type.
THEOREM HostTypeCorrect == HostSpec => []HostTypeOK
<1>1. HostInv => HostTypeOK
  BY DEF HostInv
<1> QED
  BY <1>1, HostInvariance, PTL

\* Whether a client reads the stream of stream_prepared (responses_host.py),
\* comes back with Last-Event-ID or only ever replays, it has the recorded
\* events from the first on, without a gap and without a repetition, however
\* often calls of the store fail after they have recorded an event.
THEOREM PrefixesSeen == HostSpec => []ClientsHavePrefix
<1>1. HostInv => ClientsHavePrefix
  BY DEF HostInv
<1> QED
  BY <1>1, HostInvariance, PTL

\* A record that is completed or failed has that event last and once, and a
\* client is told the end only after the record is complete (responses_host.py).
THEOREM EndsMarked == HostSpec => []EndsAgree
<1>1. HostInv => EndsAgree
  <2> SUFFICES ASSUME HostInv PROVE EndsAgree
    OBVIOUS
  <2>1. Finishing /\ log \in Seq(Sendable)
    BY DEF HostInv, HostTypeOK
  <2>2. \A i \in 1..Len(log) - 1 : i \in DOMAIN log /\ i # Len(log)
    BY <2>1
  <2> QED
    BY <2>1, <2>2 DEF EndsAgree, Finishing
<1> QED
  BY <1>1, HostInvariance, PTL

\* The recorded text of a response is a prefix of the text of its agent, in
\* order, and all of it once the record is completed: stream_prepared
\* completes a record only when it was told the end of the broadcast and the
\* agent returned a result.
THEOREM TextIsKept == HostSpec => []TextIsAgents
<1>1. HostInv => TextIsAgents
  <2> SUFFICES ASSUME HostInv PROVE TextIsAgents
    OBVIOUS
  <2>1. /\ TextKept /\ Caught /\ Prefixes /\ log \in Seq(Sendable)
        /\ got[Host] \in Seq(Events) /\ feed \in Seq(Events)
    BY HostAssumption DEF HostInv, HostTypeOK, IInv, BInv, BroadcastTypeOK
  <2>2. log \in Seq(Sendable \cup Events) /\ got[Host] \in Seq(Sendable \cup Events) /\ feed \in Seq(Sendable \cup Events)
    BY <2>1
  <2>3. IsPrefixOf(got[Host], feed)
    BY <2>1, HostAssumption DEF Prefixes, IsPrefixOf
  <2>4. SameTexts(log, feed) /\ Cardinality(TextsOf(log)) <= Cardinality(TextsOf(feed))
    BY <2>1, <2>2, <2>3, SameWithWhole DEF TextKept
  <2>5. ASSUME record = "completed"
        PROVE  Cardinality(TextsOf(log)) = Cardinality(TextsOf(feed)) /\ result = "result"
    <3>1. Finished /\ phase[Host] = "ended" /\ result = "result"
          /\ Cardinality(TextsOf(log)) = Cardinality(TextsOf(got[Host]))
      BY <2>1, <2>5 DEF TextKept, Finished
    <3>2. Len(got[Host]) = Len(feed)
      BY <2>1, <3>1 DEF Caught
    <3>3. TextsOf(got[Host]) = TextsOf(feed)
      BY <2>2, <2>3, <3>2, TextsOfPrefix
    <3> QED
      BY <3>1, <3>3
  <2> QED
    BY <2>4, <2>5 DEF TextIsAgents
<1> QED
  BY <1>1, HostInvariance, PTL
=============================================================================
