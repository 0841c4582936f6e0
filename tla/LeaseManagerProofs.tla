------------------------- MODULE LeaseManagerProofs -------------------------
(***************************************************************************)
(* Proofs about LeaseManager, for every set of workers, lease duration,    *)
(* backend and bound.                                                      *)
(*                                                                         *)
(* Everything follows from one inductive invariant: nothing anybody holds, *)
(* has in flight or has written is newer than the newest grant, and the    *)
(* stored lease, when there is one, is that grant.                         *)
(***************************************************************************)
EXTENDS LeaseManager, TLAPS

\* The stored lease is the newest grant: "memory" keeps the counter apart from
\* the lease it deletes, "sql" keeps only the row.
StoredIsNewest == entry # NoLease => entry.fence = Granted

\* No guard, call in flight or checkpoint is ahead of the store.
NothingAhead ==
  /\ \A w \in Workers : guard[w] <= Granted
  /\ \A q \in calls : q.token <= Granted
  /\ lastWrite <= Granted

\* A call took its time from a clock that only advances.
SentBefore == \A q \in calls : q.at <= now

IInv == TypeOK /\ StoredIsNewest /\ NothingAhead /\ SentBefore /\ SoleOwner

\* The grant number is a natural number.
LEMMA GrantedNat == TypeOK => Granted \in Nat
  BY BackendAssumption DEF TypeOK, Granted, Lease

LEMMA InitIInv == Init => IInv
  BY BackendAssumption DEF Init, IInv, TypeOK, StoredIsNewest, NothingAhead, SentBefore, SoleOwner,
     Granted, Lease, NoLease, Call, PCs

-----------------------------------------------------------------------------

\* A step that sends a call, moves a worker or refuses one leaves the store
\* alone; guards are only dropped.
LEMMA QuietStep ==
  ASSUME IInv, TypeOK', UNCHANGED <<entry, counter>>,
         \A w \in Workers : guard'[w] \in {guard[w], 0},
         \A q \in calls' : q.token <= Granted /\ q.at <= now',
         lastWrite' <= Granted
  PROVE  IInv'
<1>1. Granted' = Granted
  BY DEF Granted
<1>2. Granted \in Nat
  BY GrantedNat DEF IInv
<1>3. StoredIsNewest'
  BY <1>1 DEF IInv, StoredIsNewest, NoLease
<1>4. NothingAhead'
  BY <1>1, <1>2 DEF IInv, NothingAhead
<1>5. SentBefore'
  BY DEF SentBefore
<1>6. SoleOwner'
  BY DEF IInv, SoleOwner
<1> QED
  BY <1>3, <1>4, <1>5, <1>6 DEF IInv

LEMMA CallStep ==
  ASSUME IInv, NEW w \in Workers,
         CallAcquire(w) \/ CallRenew(w) \/ CallRelease(w)
  PROVE  IInv'
<1>1. PICK op \in {"acquire", "renew", "release"}, token \in {0, guard[w]} : Send(op, w, token)
  BY DEF CallAcquire, CallRenew, CallRelease
<1>2. Granted \in Nat
  BY GrantedNat DEF IInv
<1>3. token \in Nat /\ token <= Granted
  BY <1>2 DEF IInv, TypeOK, NothingAhead
<1>4. [op |-> op, by |-> w, token |-> token, at |-> now] \in Call
  BY <1>3 DEF IInv, TypeOK, Call
<1>5. TypeOK'
  BY <1>1, <1>4 DEF IInv, TypeOK, Send, CallAcquire, CallRenew, CallRelease, PCs
<1>6. /\ UNCHANGED <<entry, counter, now, lastWrite>>
      /\ \A v \in Workers : guard'[v] \in {guard[v], 0}
  BY DEF CallAcquire, CallRenew, CallRelease, IInv, TypeOK
<1>7. \A q \in calls' : q.token <= Granted /\ q.at <= now'
  BY <1>1, <1>3, <1>6 DEF Send, IInv, NothingAhead, SentBefore, TypeOK
<1>8. lastWrite' <= Granted
  BY <1>6 DEF IInv, NothingAhead
<1> QED
  BY <1>5, <1>6, <1>7, <1>8, QuietStep

LEMMA AcquireStep ==
  ASSUME IInv, NEW q \in calls, Acquire(q)
  PROVE  IInv'
<1>1. Granted \in Nat /\ q \in Call
  BY GrantedNat DEF IInv, TypeOK
<1>2. CASE entry # NoLease /\ ~IsExpired(entry, q.at)
  <2>1. TypeOK'
    BY <1>2 DEF IInv, TypeOK, Acquire, PCs, Call
  <2>2. UNCHANGED <<entry, counter, guard, now, lastWrite>> /\ calls' \subseteq calls
    BY <1>2 DEF Acquire
  <2> QED
    BY <2>1, <2>2, QuietStep DEF IInv, NothingAhead, SentBefore
<1>3. CASE ~(entry # NoLease /\ ~IsExpired(entry, q.at))
  <2>1. /\ entry' = [fence |-> NextFence, expires |-> q.at + Ttl]
        /\ counter' = IF Backend = "memory" THEN NextFence ELSE counter
        /\ calls' = calls \ {q}
        /\ UNCHANGED <<now, lastWrite>>
        /\ \A w \in Workers : guard'[w] = guard[w] \/ (w = q.by /\ guard'[w] = NextFence)
    BY <1>3, <1>1 DEF Acquire, IInv, TypeOK, Call
  <2>2. NextFence = Granted + 1
    BY DEF NextFence, Granted
  <2>3. TypeOK'
    <3>1. entry' \in Lease /\ counter' \in Nat
      BY <1>1, <2>1, <2>2, TtlAssumption DEF Lease, Call, IInv, TypeOK
    <3>2. guard' \in [Workers -> Nat] /\ pc' \in [Workers -> PCs] /\ lost' \in [Workers -> BOOLEAN]
      <4>1. q.by \in Workers /\ NextFence \in Nat
        BY <1>1, <2>2 DEF Call
      <4>2. CASE pc[q.by] = "acquiring"
        <5>1. guard' = [guard EXCEPT ![q.by] = NextFence] /\ pc' = [pc EXCEPT ![q.by] = "working"]
          BY <1>3, <4>2 DEF Acquire
        <5>2. lost' = [lost EXCEPT ![q.by] = FALSE]
          BY <1>3, <4>2 DEF Acquire
        <5>3. lost' \in [Workers -> BOOLEAN]
          BY <5>2 DEF IInv, TypeOK
        <5> QED
          BY <4>1, <5>1, <5>3 DEF IInv, TypeOK, PCs
      <4>3. CASE pc[q.by] # "acquiring"
        BY <1>3, <4>3 DEF Acquire, IInv, TypeOK
      <4> QED
        BY <4>2, <4>3
    <3> QED
      BY <2>1, <3>1, <3>2 DEF IInv, TypeOK
  <2>4. Granted' = Granted + 1
    BY <2>1, <2>2, BackendAssumption DEF Granted
  <2>5. StoredIsNewest'
    BY <2>1, <2>2, <2>4 DEF StoredIsNewest
  <2>6. NothingAhead'
    BY <1>1, <2>1, <2>2, <2>4, <2>3 DEF IInv, NothingAhead, TypeOK, Call
  <2>7. SentBefore'
    BY <2>1 DEF IInv, SentBefore
  <2>8. SoleOwner'
    BY <1>1, <2>1, <2>2 DEF IInv, SoleOwner, NothingAhead, TypeOK
  <2> QED
    BY <2>3, <2>5, <2>6, <2>7, <2>8 DEF IInv
<1> QED
  BY <1>2, <1>3

LEMMA RenewStep ==
  ASSUME IInv, NEW q \in calls, Renew(q)
  PROVE  IInv'
<1>1. q \in Call /\ Granted \in Nat
  BY GrantedNat DEF IInv, TypeOK
<1>2. /\ UNCHANGED <<now, counter, guard, lastWrite>>
      /\ calls' = calls \ {q}
      /\ entry' = entry \/ (entry # NoLease /\ entry' = [entry EXCEPT !.expires = q.at + Ttl])
  BY DEF Renew, Matches
<1>3. TypeOK'
  <2>1. entry' \in Lease /\ calls' \subseteq Call
    BY <1>1, <1>2, TtlAssumption DEF IInv, TypeOK, Call, Lease
  <2>2. lost' \in [Workers -> BOOLEAN]
    BY DEF IInv, TypeOK, Renew
  <2> QED
    BY <2>1, <2>2, <1>2 DEF IInv, TypeOK, Renew
<1>4. entry'.fence = entry.fence
  BY <1>2 DEF IInv, TypeOK, Lease
<1>5. Granted' = Granted
  BY <1>2, <1>4 DEF Granted
<1>6. StoredIsNewest'
  BY <1>2, <1>4, <1>5 DEF IInv, StoredIsNewest, NoLease
<1>7. NothingAhead' /\ SentBefore' /\ SoleOwner'
  BY <1>2, <1>5 DEF IInv, NothingAhead, SentBefore, SoleOwner
<1> QED
  BY <1>3, <1>6, <1>7 DEF IInv

LEMMA RenewFailsStep ==
  ASSUME IInv, NEW q \in calls, RenewFails(q)
  PROVE  IInv'
<1>1. TypeOK'
  BY DEF IInv, TypeOK, RenewFails
<1> QED
  BY <1>1, QuietStep DEF IInv, NothingAhead, SentBefore, RenewFails

LEMMA ReleaseStep ==
  ASSUME IInv, NEW q \in calls, Release(q)
  PROVE  IInv'
<1>1. /\ UNCHANGED <<now, counter, pc, guard, lost, lastWrite>>
      /\ calls' = calls \ {q}
      /\ entry' = entry \/ entry' = Released
  BY DEF Release
<1>2. entry' \in Lease /\ (Backend = "sql" => entry'.fence = entry.fence)
  BY <1>1, BackendAssumption DEF IInv, TypeOK, Lease, Released, NoLease
<1>3. TypeOK'
  BY <1>1, <1>2 DEF IInv, TypeOK
<1>4. Granted' = Granted
  BY <1>1, <1>2, BackendAssumption DEF Granted
<1>5. StoredIsNewest'
  BY <1>1, <1>2, <1>4, BackendAssumption DEF IInv, TypeOK, Lease, StoredIsNewest, Released, NoLease, Granted
<1>6. NothingAhead' /\ SentBefore' /\ SoleOwner'
  BY <1>1, <1>4 DEF IInv, NothingAhead, SentBefore, SoleOwner
<1> QED
  BY <1>3, <1>5, <1>6 DEF IInv

\* A checkpoint is accepted only from the newest grant.
LEMMA AppendStep ==
  ASSUME IInv, NEW w \in Workers, AppendFenced(w)
  PROVE  IInv' /\ lastWrite' >= lastWrite
<1>1. Granted \in Nat
  BY GrantedNat DEF IInv
<1>2. lastWrite' = lastWrite \/ (lastWrite' = guard[w] /\ guard[w] = Granted)
  BY DEF AppendFenced, Matches, IInv, StoredIsNewest
<1>3. TypeOK'
  BY DEF IInv, TypeOK, AppendFenced, PCs
<1>4. lastWrite' <= Granted /\ lastWrite' >= lastWrite
  BY <1>1, <1>2 DEF IInv, NothingAhead, TypeOK
<1> QED
  BY <1>3, <1>4, QuietStep DEF IInv, NothingAhead, SentBefore, AppendFenced

LEMMA WorkerStep ==
  ASSUME IInv, NEW w \in Workers, Leave(w) \/ Crash(w)
  PROVE  IInv'
<1>1. TypeOK'
  BY DEF IInv, TypeOK, Leave, Crash, PCs
<1>2. /\ UNCHANGED <<now, entry, counter, calls, lastWrite>>
      /\ \A v \in Workers : guard'[v] \in {guard[v], 0}
  BY DEF Leave, Crash, IInv, TypeOK
<1> QED
  BY <1>1, <1>2, QuietStep DEF IInv, NothingAhead, SentBefore

LEMMA TickStep ==
  ASSUME IInv, Tick
  PROVE  IInv'
<1>1. TypeOK' /\ now' >= now
  BY DEF IInv, TypeOK, Tick
<1>2. \A q \in calls : q.at <= now'
  BY <1>1 DEF IInv, TypeOK, SentBefore, Call
<1> QED
  BY <1>1, <1>2, QuietStep DEF IInv, NothingAhead, Tick

LEMMA NextIInv == IInv /\ [Next]_vars => IInv'
<1> SUFFICES ASSUME IInv, [Next]_vars PROVE IInv'
  OBVIOUS
<1>1. CASE UNCHANGED vars
  BY <1>1 DEF vars, IInv, TypeOK, StoredIsNewest, NothingAhead, SentBefore, SoleOwner, Granted
<1>2. CASE \E w \in Workers :
             CallAcquire(w) \/ CallRenew(w) \/ AppendFenced(w) \/ Leave(w) \/ CallRelease(w) \/ Crash(w)
  BY <1>2, CallStep, AppendStep, WorkerStep
<1>3. CASE \E q \in calls : Acquire(q) \/ Renew(q) \/ RenewFails(q) \/ Release(q)
  BY <1>3, AcquireStep, RenewStep, RenewFailsStep, ReleaseStep
<1>4. CASE Tick
  BY <1>4, TickStep
<1> QED
  BY <1>1, <1>2, <1>3, <1>4 DEF Next

\* The inductive invariant holds in every reachable state.
THEOREM Invariant == Spec => []IInv
  BY InitIInv, NextIInv, PTL DEF Spec

\* Every variable keeps its type whatever the calls and crashes.
THEOREM TypeCorrect == Spec => []TypeOK
<1>1. IInv => TypeOK
  BY DEF IInv
<1> QED
  BY <1>1, Invariant, PTL

\* No two workers ever execute under the same grant of
\* _with_execution_lease_impl: acquire numbers a grant above everything that
\* any guard holds.
THEOREM SoleOwnerAlways == Spec => []SoleOwner
<1>1. IInv => SoleOwner
  BY DEF IInv
<1> QED
  BY <1>1, Invariant, PTL

\* append_fenced never accepts a checkpoint under an older fencing token than
\* one it accepted before: what it accepts comes from the newest grant.
THEOREM FencedWrites == Spec => FencedWritesMonotone
<1>1. IInv /\ [Next]_vars => [lastWrite' >= lastWrite]_vars
  <2> SUFFICES ASSUME IInv, Next PROVE lastWrite' >= lastWrite
    BY DEF vars
  <2>1. CASE \E w \in Workers : AppendFenced(w)
    BY <2>1, AppendStep
  <2>2. CASE ~\E w \in Workers : AppendFenced(w)
    <3>1. lastWrite' = lastWrite
      BY <2>2 DEF Next, CallAcquire, CallRenew, Leave, CallRelease, Crash, Acquire, Renew,
         RenewFails, Release, Tick
    <3> QED
      BY <3>1 DEF IInv, TypeOK
  <2> QED
    BY <2>1, <2>2
<1> QED
  BY <1>1, Invariant, PTL DEF Spec, FencedWritesMonotone

-----------------------------------------------------------------------------
(* Refinement of FencedLease *)

LEMMA InitFenced == Init => Fenced!Init
  BY BackendAssumption DEF Init, Fenced!Init, Granted, Standing, NoLease

\* A step that leaves the grant and the lease alone, at the same time.
LEMMA Unseen == UNCHANGED <<now, entry, counter>> => UNCHANGED <<Granted, Standing>>
  BY DEF Granted, Standing, IsExpired, NoLease

\* A grant displaces nothing that still holds, although it was decided by the
\* clock of an earlier moment.
LEMMA AcquireFenced ==
  ASSUME IInv, NEW q \in calls, Acquire(q)
  PROVE  [Fenced!Next]_<<Granted, Standing>>
<1>1. q \in Call /\ q.at <= now /\ Granted \in Nat /\ now \in Nat /\ entry \in Lease
  BY GrantedNat DEF IInv, TypeOK, SentBefore
<1>2. CASE entry # NoLease /\ ~IsExpired(entry, q.at)
  BY <1>2, Unseen DEF Acquire
<1>3. CASE ~(entry # NoLease /\ ~IsExpired(entry, q.at))
  <2>1. Standing # "held"
    BY <1>1, <1>3 DEF Standing, IsExpired, Lease, Call
  <2>2. NextFence = Granted + 1
    BY DEF NextFence, Granted
  <2>3. entry' = [fence |-> Granted + 1, expires |-> q.at + Ttl] /\ now' = now
    BY <1>3, <2>2 DEF Acquire
  <2>4. Granted' = Granted + 1
    BY <1>3, <2>2, <2>3, BackendAssumption DEF Granted, Acquire
  <2>5. entry' # NoLease /\ entry'.expires # 0
    BY <1>1, <2>3, TtlAssumption DEF NoLease, Call
  <2>6. Standing' \in {"held", "lapsed"}
    BY <2>5 DEF Standing, NoLease
  <2> QED
    BY <2>1, <2>4, <2>6 DEF Fenced!Next, Fenced!Grant
<1> QED
  BY <1>2, <1>3

\* A renewal, however late, prolongs or revives the grant it was sent for.
LEMMA RenewFenced ==
  ASSUME IInv, NEW q \in calls, Renew(q)
  PROVE  [Fenced!Next]_<<Granted, Standing>>
<1>1. q \in Call /\ entry \in Lease
  BY DEF IInv, TypeOK
<1>2. CASE Matches(q.token, q.at)
  <2>1. entry' = [entry EXCEPT !.expires = q.at + Ttl] /\ UNCHANGED <<now, counter>>
    BY <1>2 DEF Renew
  <2>2. entry # NoLease /\ entry.expires # 0
    BY <1>1, <1>2 DEF Matches, IsExpired, Lease, Call
  <2>3. Granted' = Granted
    BY <1>1, <2>1 DEF Granted, Lease
  <2>4. entry'.expires # 0 /\ entry' # NoLease
    BY <1>1, <2>1, TtlAssumption DEF Lease, Call, NoLease
  <2>5. Standing \in {"held", "lapsed"} /\ Standing' \in {"held", "lapsed"}
    BY <2>2, <2>4 DEF Standing, NoLease
  <2> QED
    BY <2>3, <2>5 DEF Fenced!Next, Fenced!Lapse, Fenced!Revive
<1>3. CASE ~Matches(q.token, q.at)
  BY <1>3, Unseen DEF Renew
<1> QED
  BY <1>2, <1>3

LEMMA ReleaseFenced ==
  ASSUME IInv, NEW q \in calls, Release(q)
  PROVE  [Fenced!Next]_<<Granted, Standing>>
<1>1. UNCHANGED <<now, counter>> /\ entry \in Lease
  BY DEF IInv, TypeOK, Release
<1>2. CASE entry' = entry
  BY <1>1, <1>2, Unseen
<1>3. CASE entry' = Released
  <2>1. Standing' = "free"
    BY <1>1, <1>3 DEF Standing, Released, NoLease, Lease
  <2>2. Granted' = Granted
    BY <1>1, <1>3, BackendAssumption DEF Granted, Released, Lease
  <2>3. Standing \in {"free", "held", "lapsed"}
    BY DEF Standing
  <2> QED
    BY <2>1, <2>2, <2>3 DEF Fenced!Next, Fenced!Release
<1> QED
  BY <1>2, <1>3 DEF Release

\* Time can only make a held lease lapse.
LEMMA TickFenced ==
  ASSUME IInv, Tick
  PROVE  [Fenced!Next]_<<Granted, Standing>>
<1>1. now \in Nat /\ entry \in Lease /\ now' = now + 1 /\ UNCHANGED <<entry, counter>>
  BY DEF IInv, TypeOK, Tick
<1>2. Granted' = Granted
  BY <1>1 DEF Granted
<1>3. CASE entry = NoLease \/ entry.expires = 0
  <2>1. Standing' = Standing
    BY <1>1, <1>3 DEF Standing, NoLease
  <2> QED
    BY <1>2, <2>1
<1>4. CASE ~(entry = NoLease \/ entry.expires = 0)
  <2>1. Standing' = Standing \/ (Standing = "held" /\ Standing' = "lapsed")
    BY <1>1, <1>4 DEF Standing, NoLease, IsExpired, Lease
  <2> QED
    BY <1>2, <2>1 DEF Fenced!Next, Fenced!Lapse
<1> QED
  BY <1>3, <1>4

LEMMA NextFenced == IInv /\ [Next]_vars => [Fenced!Next]_<<Granted, Standing>>
<1> SUFFICES ASSUME IInv, [Next]_vars PROVE [Fenced!Next]_<<Granted, Standing>>
  OBVIOUS
<1>1. CASE UNCHANGED vars
  BY <1>1, Unseen DEF vars
<1>2. CASE \E w \in Workers :
             CallAcquire(w) \/ CallRenew(w) \/ AppendFenced(w) \/ Leave(w) \/ CallRelease(w) \/ Crash(w)
  BY <1>2, Unseen DEF CallAcquire, CallRenew, AppendFenced, Leave, CallRelease, Crash
<1>3. CASE \E q \in calls : RenewFails(q)
  BY <1>3, Unseen DEF RenewFails
<1>4. CASE \E q \in calls : Acquire(q) \/ Renew(q) \/ Release(q)
  BY <1>4, AcquireFenced, RenewFenced, ReleaseFenced
<1>5. CASE Tick
  BY <1>5, TickFenced
<1> QED
  BY <1>1, <1>2, <1>3, <1>4, <1>5 DEF Next

\* The lease managers implement FencedLease: whatever the order in which late
\* calls take effect, a grant displaces only a lease that is free or lapsed,
\* takes the next fencing token, and is never ended or revived by another's
\* call.
THEOREM Refinement == Spec => ImplementsFencedLease
<1>1. Spec => Fenced!Init /\ [][Fenced!Next]_<<Granted, Standing>>
  BY InitFenced, NextFenced, Invariant, PTL DEF Spec
<1> QED
  BY <1>1 DEF ImplementsFencedLease, Fenced!Spec, Fenced!vars
=============================================================================
