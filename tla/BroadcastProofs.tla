--------------------------- MODULE BroadcastProofs ---------------------------
(***************************************************************************)
(* The invariant of a replay buffer, for any events, readers and capacity: *)
(* whoever publishes, closes, reads or leaves keeps it.                    *)
(***************************************************************************)
EXTENDS Broadcast, TLAPS

\* The buffer holds the last events of the feed.
Buffered ==
  /\ Len(history) <= Len(feed)
  /\ \A i \in 1..Len(history) : history[i] = feed[First + i]

\* A reader has been given the first events of the feed.
Prefixes ==
  \A c \in Consumers :
    /\ Len(got[c]) <= Len(feed)
    /\ \A i \in 1..Len(got[c]) : got[c][i] = feed[i]

BInv == BroadcastTypeOK /\ Buffered /\ Prefixes /\ NoLostWakeup

\* e is published; the broadcast may be closed in the same step.
Publishes(e) ==
  /\ feed' = Append(feed, e)
  /\ history' = Retain(history, e)
  /\ phase' = Woken(phase)
  /\ done' \in {done, TRUE}
  /\ UNCHANGED got

-----------------------------------------------------------------------------
\* What a full or a free buffer retains: the new event, and of the others as
\* many of the newest as fit.
LEMMA RetainNewest ==
  ASSUME NEW h \in Seq(Events), Len(h) <= Capacity, NEW e \in Events
  PROVE  /\ Retain(h, e) \in Seq(Events)
         /\ Len(Retain(h, e)) = IF Len(h) < Capacity THEN Len(h) + 1 ELSE Capacity
         /\ \A i \in 1..Len(Retain(h, e)) :
              Retain(h, e)[i] = IF i = Len(Retain(h, e)) THEN e
                                ELSE h[i + (Len(h) + 1 - Len(Retain(h, e)))]
<1>1. Capacity \in Nat \ {0}
  BY CapacityAssumption
<1>2. CASE Len(h) < Capacity
  BY <1>1, <1>2 DEF Retain
<1>3. CASE Len(h) = Capacity
  <2>1. h # <<>> /\ Tail(h) \in Seq(Events) /\ Len(Tail(h)) = Capacity - 1
    BY <1>1, <1>3
  <2>2. \A i \in 1..Len(Tail(h)) : Tail(h)[i] = h[i + 1]
    BY <1>1, <1>3
  <2>3. Retain(h, e) = Append(Tail(h), e)
    BY <1>3, <1>1 DEF Retain
  <2> DEFINE t == Tail(h)
  <2>4. t \in Seq(Events) /\ Len(t) = Capacity - 1
    BY <2>1
  <2>5. \A i \in 1..Len(t) : t[i] = h[i + 1]
    BY <2>2
  <2> HIDE DEF t
  <2>6. /\ Append(t, e) \in Seq(Events)
        /\ Len(Append(t, e)) = Capacity
        /\ Append(t, e)[Capacity] = e
        /\ \A i \in 1..Len(t) : Append(t, e)[i] = t[i]
    BY <1>1, <2>4
  <2>7. Retain(h, e) = Append(t, e)
    BY <2>3 DEF t
  <2>8. Len(h) + 1 - Capacity = 1
    BY <1>1, <1>3
  <2>9. ASSUME NEW i \in 1..Capacity, i # Capacity
        PROVE  Append(t, e)[i] = h[i + 1]
    <3>1. i \in 1..Len(t)
      BY <1>1, <2>4, <2>9
    <3> QED
      BY <3>1, <2>5, <2>6
  <2> QED
    BY <1>1, <1>3, <2>6, <2>7, <2>8, <2>9
<1> QED
  BY <1>1, <1>2, <1>3

\* One more event of the feed, whether the broadcast is closed with it or not.
LEMMA PublishKeeps ==
  ASSUME BInv, NEW e \in Events, Publishes(e)
  PROVE  BInv'
<1> USE DEF BInv, BroadcastTypeOK
<1>1. /\ feed' \in Seq(Events) /\ Len(feed') = Len(feed) + 1
      /\ feed'[Len(feed')] = e
      /\ \A i \in 1..Len(feed) : feed'[i] = feed[i]
  BY DEF Publishes
<1>2. /\ history' \in Seq(Events) /\ Len(history') <= Capacity /\ Len(history') \in Nat
      /\ Len(history') <= Len(history) + 1
      /\ \A i \in 1..Len(history') :
           history'[i] = IF i = Len(history') THEN e
                         ELSE history[i + (Len(history) + 1 - Len(history'))]
  <2>1. history \in Seq(Events) /\ Len(history) <= Capacity
    OBVIOUS
  <2>2. history' = Retain(history, e)
    BY DEF Publishes
  <2>3. /\ Retain(history, e) \in Seq(Events)
        /\ Len(Retain(history, e)) = IF Len(history) < Capacity THEN Len(history) + 1 ELSE Capacity
        /\ \A i \in 1..Len(Retain(history, e)) :
              Retain(history, e)[i] = IF i = Len(Retain(history, e)) THEN e
                ELSE history[i + (Len(history) + 1 - Len(Retain(history, e)))]
    BY <2>1, RetainNewest
  <2>4. Len(history) \in Nat /\ Capacity \in Nat \ {0}
    BY <2>1, CapacityAssumption
  <2>5. Len(history') = IF Len(history) < Capacity THEN Len(history) + 1 ELSE Capacity
    BY <2>2, <2>3
  <2>6. \A i \in 1..Len(history') :
          history'[i] = IF i = Len(history') THEN e
                        ELSE history[i + (Len(history) + 1 - Len(history'))]
    BY <2>2, <2>3, Zenon
  <2>7. history' \in Seq(Events)
    BY <2>2, <2>3, Zenon
  <2>8. /\ Len(history') <= Capacity /\ Len(history') \in Nat
        /\ Len(history') <= Len(history) + 1
    BY <2>1, <2>4, <2>5
  <2> QED
    BY <2>6, <2>7, <2>8, Zenon
<1>3. phase' \in [Consumers -> Phases] /\ \A c \in Consumers : phase'[c] # "waiting"
  BY DEF Publishes, Woken, Phases
<1>4. Buffered'
  <2>1. Len(history') <= Len(feed')
    BY <1>1, <1>2 DEF Buffered
  <2>2. ASSUME NEW i \in 1..Len(history')
        PROVE  history'[i] = feed'[First' + i]
    <3>1. CASE i = Len(history')
      BY <3>1, <1>1, <1>2, <2>1 DEF First
    <3>2. CASE i # Len(history')
      <4> DEFINE j == i + (Len(history) + 1 - Len(history'))
      <4>0. Len(history) \in Nat /\ Len(history') \in Nat /\ Len(history') <= Len(history) + 1
        BY <1>2
      <4>a. j \in 1..Len(history)
        BY <3>2, <4>0
      <4>b. history'[i] = history[j]
        BY <3>2, <1>2, Zenon
      <4>1. j \in 1..Len(history) /\ history'[i] = history[j]
        BY <4>a, <4>b
      <4>2. history[j] = feed[First + j]
        BY <4>1 DEF Buffered
      <4>3. First + j = First' + i /\ First + j \in 1..Len(feed)
        BY <4>1, <1>1, <1>2 DEF First, Buffered
      <4> QED
        BY <4>1, <4>2, <4>3, <1>1
    <3> QED
      BY <3>1, <3>2
  <2> QED
    BY <2>1, <2>2 DEF Buffered
<1>5. Prefixes'
  BY <1>1 DEF Publishes, Prefixes
<1>6. BroadcastTypeOK'
  BY <1>1, <1>2, <1>3 DEF Publishes
<1> QED
  BY <1>3, <1>4, <1>5, <1>6 DEF NoLostWakeup

LEMMA CloseKeeps ==
  ASSUME BInv, Close
  PROVE  BInv' /\ done'
BY DEF BInv, BroadcastTypeOK, Close, Woken, Phases, Buffered, First, Prefixes,
       NoLostWakeup

\* A reader is asked for its next event.
LEMMA PullKeeps ==
  ASSUME BInv, NEW c \in Consumers, Pull(c)
  PROVE  BInv' /\ done' = done
<1> USE DEF BInv, BroadcastTypeOK
<1>1. CASE Evicted(c) /\ Goes(c, "overrun")
  BY <1>1 DEF Goes, Phases, Buffered, First, Prefixes, NoLostWakeup
<1>2. CASE /\ ~Evicted(c) /\ Len(got[c]) < Len(feed)
           /\ got' = [got EXCEPT ![c] = Append(@, history[Len(@) - First + 1])]
           /\ UNCHANGED <<feed, history, done, phase>>
  <2> DEFINE n == Len(got[c])
  <2>1. n - First + 1 \in 1..Len(history)
    BY <1>2 DEF Evicted, First, Buffered
  <2>2. history[n - First + 1] = feed[n + 1] /\ history[n - First + 1] \in Events
    BY <2>1, <1>2 DEF Buffered, First
  <2>3. /\ got'[c] \in Seq(Events) /\ Len(got'[c]) = n + 1
        /\ got'[c][n + 1] = feed[n + 1]
        /\ \A i \in 1..n : got'[c][i] = got[c][i]
    BY <1>2, <2>2
  <2>4. \A d \in Consumers \ {c} : got'[d] = got[d]
    BY <1>2
  <2>5. Prefixes'
    BY <1>2, <2>3, <2>4 DEF Prefixes
  <2>6. got' \in [Consumers -> Seq(Events)]
    BY <1>2, <2>3, <2>4
  <2>7. NoLostWakeup'
    <3> SUFFICES ASSUME NEW d \in Consumers, phase[d] = "waiting"
                 PROVE  Len(got'[d]) = Len(feed) /\ ~done
      BY <1>2 DEF NoLostWakeup
    <3> QED
      BY <1>2, <2>4 DEF NoLostWakeup, Pull
  <2> QED
    BY <1>2, <2>5, <2>6, <2>7 DEF Buffered, First
<1>3. CASE /\ Len(got[c]) = Len(feed)
           /\ Goes(c, IF done THEN "ended" ELSE "waiting")
  BY <1>3 DEF Goes, Phases, Buffered, First, Prefixes, NoLostWakeup
<1> QED
  BY <1>1, <1>2, <1>3 DEF Pull

LEMMA LeaveKeeps ==
  ASSUME BInv, NEW c \in Consumers, Leave(c)
  PROVE  BInv' /\ done' = done
BY DEF BInv, BroadcastTypeOK, Leave, Goes, Phases, Buffered, First, Prefixes,
       NoLostWakeup

LEMMA SameKeeps ==
  ASSUME BInv, UNCHANGED broadcast
  PROVE  BInv' /\ done' = done
BY DEF BInv, broadcast, BroadcastTypeOK, Buffered, First, Prefixes, NoLostWakeup

LEMMA BroadcastInitially == BroadcastInit => BInv
<1> SUFFICES ASSUME BroadcastInit PROVE BInv
  OBVIOUS
<1>1. BroadcastTypeOK
  <2>1. Capacity \in Nat \ {0} /\ <<>> \in Seq(Events) /\ Len(<<>>) = 0
    BY CapacityAssumption
  <2>2. history = <<>> /\ feed = <<>>
    BY DEF BroadcastInit
  <2>3. phase \in [Consumers -> Phases]
    BY DEF BroadcastInit, Phases
  <2>4. got \in [Consumers -> Seq(Events)]
    BY <2>1 DEF BroadcastInit
  <2>5. Len(history) <= Capacity
    BY <2>1, <2>2
  <2>6. feed \in Seq(Events) /\ history \in Seq(Events)
    BY <2>1, <2>2, Zenon
  <2>7. done \in BOOLEAN
    BY DEF BroadcastInit
  <2> QED
    BY <2>3, <2>4, <2>5, <2>6, <2>7, Zenon DEF BroadcastTypeOK
<1> QED
  BY <1>1 DEF BroadcastInit, BInv, Buffered, First, Prefixes, NoLostWakeup
=============================================================================
