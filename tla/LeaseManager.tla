---------------------------- MODULE LeaseManager ----------------------------
(***************************************************************************)
(* The execution lease of one workflow run: the lease managers of          *)
(* workflow_state.py and the worker side of _with_execution_lease_impl     *)
(* (workflow_graph.py) that drives them.                                   *)
(*                                                                         *)
(* A call samples the clock when it is made and takes effect later, when   *)
(* its lock or transaction is obtained, so a call in flight is a record    *)
(* with the time it sampled.  A heartbeat whose task was cancelled may     *)
(* still take effect: its worker thread is not interrupted.  Workers crash *)
(* at any time and leave their calls in flight.                            *)
(*                                                                         *)
(* Backend "memory" is InMemoryWorkflowLeaseManager (the lease is deleted  *)
(* on release, the fencing counter is kept apart); backend "sql" is the    *)
(* SQLite and Postgres managers (one row, release sets its expiry to 0).   *)
(* A token is a fresh uuid per grant, so the model lets the fencing token  *)
(* stand for both.                                                         *)
(***************************************************************************)
EXTENDS Naturals, FiniteSets

CONSTANTS
  Workers,   \* worker processes that may execute the run
  Ttl,       \* lease_ttl_ms, in ticks
  Backend,   \* "memory" or "sql"
  MaxTime,   \* bound: the clock stops here
  MaxFence,  \* bound: number of grants
  MaxCalls   \* bound: calls in flight at once

ASSUME TtlAssumption == Ttl \in Nat \ {0}
ASSUME BackendAssumption == Backend \in {"memory", "sql"}
ASSUME BoundsAssumption == MaxTime \in Nat /\ MaxFence \in Nat /\ MaxCalls \in Nat

VARIABLES
  now,       \* the clock of the store (one host, or the database server)
  entry,     \* stored lease of the run: its fencing token and expiry
  counter,   \* "memory" only: _fencing_tokens[run_id]
  calls,     \* lease-manager calls in flight
  pc,        \* where each worker is in _with_execution_lease_impl
  guard,     \* fencing token in the worker's _WorkflowLeaseGuard, 0 if none
  lost,      \* guard.lost of each worker
  lastWrite  \* fencing token recorded by the newest fenced checkpoint

vars == <<now, entry, counter, calls, pc, guard, lost, lastWrite>>

-----------------------------------------------------------------------------
(* Types *)

NoLease == [fence |-> 0, expires |-> 0]

Lease == [fence : Nat, expires : Nat]

Call == [op : {"acquire", "renew", "release"}, by : Workers, token : Nat, at : Nat]

PCs == {"idle", "acquiring", "working", "releasing"}

TypeOK ==
  /\ now \in Nat
  /\ entry \in Lease
  /\ counter \in Nat
  /\ calls \subseteq Call
  /\ pc \in [Workers -> PCs]
  /\ guard \in [Workers -> Nat]
  /\ lost \in [Workers -> BOOLEAN]
  /\ lastWrite \in Nat

-----------------------------------------------------------------------------
(* The stored lease *)

IsExpired(lease, time) == lease.expires <= time

\* Mutant: expiry is not looked at.
Matches_Expired(token, time) == entry # NoLease /\ entry.fence = token

\* Mutant: the token is not compared.
Matches_AnyToken(token, time) == entry # NoLease /\ ~IsExpired(entry, time)

\* The lease that "UPDATE ... WHERE token = ? AND expires_at_ms > ?" selects.
Matches(token, time) ==
  /\ entry # NoLease
  /\ entry.fence = token
  /\ ~IsExpired(entry, time)

NextFence == (IF Backend = "memory" THEN counter ELSE entry.fence) + 1

\* The grant the store stands at, whether or not it is still held.
Granted == IF Backend = "memory" THEN counter ELSE entry.fence

\* What release leaves of the lease.
Released == IF Backend = "memory" THEN NoLease ELSE [entry EXCEPT !.expires = 0]

-----------------------------------------------------------------------------
(* Actions *)

Init ==
  /\ now = 0
  /\ entry = NoLease
  /\ counter = 0
  /\ calls = {}
  /\ pc = [w \in Workers |-> "idle"]
  /\ guard = [w \in Workers |-> 0]
  /\ lost = [w \in Workers |-> FALSE]
  /\ lastWrite = 0

Send(op, w, token) ==
  /\ Cardinality(calls) < MaxCalls
  /\ calls' = calls \cup {[op |-> op, by |-> w, token |-> token, at |-> now]}

\* _with_execution_lease_impl awaits lease_manager.acquire(...).  A worker
\* that crashed while acquiring is used again once that call has taken effect.
CallAcquire(w) ==
  /\ pc[w] = "idle"
  /\ \A q \in calls : ~(q.op = "acquire" /\ q.by = w)
  /\ Send("acquire", w, 0)
  /\ pc' = [pc EXCEPT ![w] = "acquiring"]
  /\ UNCHANGED <<now, entry, counter, guard, lost, lastWrite>>

\* acquire(...) takes effect: refused while the stored lease is unexpired at
\* the sampled time, else a new grant.  A worker that crashed meanwhile never
\* learns of its grant.
Acquire(q) ==
  /\ q \in calls /\ q.op = "acquire"
  /\ calls' = calls \ {q}
  /\ IF entry # NoLease /\ ~IsExpired(entry, q.at)
       THEN /\ pc' = [pc EXCEPT ![q.by] = IF @ = "acquiring" THEN "idle" ELSE @]
            /\ UNCHANGED <<entry, counter, guard, lost>>
       ELSE /\ NextFence <= MaxFence
            /\ entry' = [fence |-> NextFence, expires |-> q.at + Ttl]
            /\ counter' = IF Backend = "memory" THEN NextFence ELSE counter
            /\ IF pc[q.by] = "acquiring"
                 THEN /\ pc' = [pc EXCEPT ![q.by] = "working"]
                      /\ guard' = [guard EXCEPT ![q.by] = NextFence]
                      /\ lost' = [lost EXCEPT ![q.by] = FALSE]
                 ELSE UNCHANGED <<pc, guard, lost>>
  /\ UNCHANGED <<now, lastWrite>>

\* The heartbeat task wakes up and awaits renew(...); it stops for good once
\* the guard is lost, and has at most one renewal in flight.
CallRenew(w) ==
  /\ pc[w] = "working" /\ ~lost[w]
  /\ \A q \in calls : ~(q.op = "renew" /\ q.by = w /\ q.token = guard[w])
  /\ Send("renew", w, guard[w])
  /\ UNCHANGED <<now, entry, counter, pc, guard, lost, lastWrite>>

\* renew(...) takes effect: it extends the lease it matches, else the
\* heartbeat reads None and marks the guard lost.
Renew(q) ==
  /\ q \in calls /\ q.op = "renew"
  /\ calls' = calls \ {q}
  /\ IF Matches(q.token, q.at)
       THEN entry' = [entry EXCEPT !.expires = q.at + Ttl] /\ UNCHANGED lost
       ELSE /\ lost' = [lost EXCEPT ![q.by] = @ \/ (pc[q.by] = "working" /\ guard[q.by] = q.token)]
            /\ UNCHANGED entry
  /\ UNCHANGED <<now, counter, pc, guard, lastWrite>>

\* renew(...) raises (the database is unreachable): "except Exception:
\* guard.lost.set()".  The stored lease is untouched.
RenewFails(q) ==
  /\ q \in calls /\ q.op = "renew"
  /\ calls' = calls \ {q}
  /\ lost' = [lost EXCEPT ![q.by] = @ \/ (pc[q.by] = "working" /\ guard[q.by] = q.token)]
  /\ UNCHANGED <<now, entry, counter, pc, guard, lastWrite>>

\* append_fenced(...): ownership is checked at the store's own clock inside
\* the transaction that appends; a refusal marks the guard lost and the
\* operation unwinds.
AppendFenced(w) ==
  /\ pc[w] = "working"
  /\ IF Matches(guard[w], now)
       THEN lastWrite' = guard[w] /\ UNCHANGED <<lost, pc>>
       ELSE /\ lost' = [lost EXCEPT ![w] = TRUE]
            /\ pc' = [pc EXCEPT ![w] = "releasing"]
            /\ UNCHANGED lastWrite
  /\ UNCHANGED <<now, entry, counter, calls, guard>>

\* The operation returned or raised: the finally block of
\* _with_execution_lease_impl cancels the heartbeat.
Leave(w) ==
  /\ pc[w] = "working"
  /\ pc' = [pc EXCEPT ![w] = "releasing"]
  /\ UNCHANGED <<now, entry, counter, calls, guard, lost, lastWrite>>

\* ... and awaits release(...).
CallRelease(w) ==
  /\ pc[w] = "releasing"
  /\ Send("release", w, guard[w])
  /\ pc' = [pc EXCEPT ![w] = "idle"]
  /\ guard' = [guard EXCEPT ![w] = 0]
  /\ UNCHANGED <<now, entry, counter, lost, lastWrite>>

\* release(...) takes effect, or is suppressed with its exception.
Release(q) ==
  /\ q \in calls /\ q.op = "release"
  /\ calls' = calls \ {q}
  /\ \/ /\ entry # NoLease /\ entry.fence = q.token
        /\ entry' = Released
     \/ UNCHANGED entry
  /\ UNCHANGED <<now, counter, pc, guard, lost, lastWrite>>

\* The worker process dies; what it sent may still take effect.
Crash(w) ==
  /\ pc[w] # "idle"
  /\ pc' = [pc EXCEPT ![w] = "idle"]
  /\ guard' = [guard EXCEPT ![w] = 0]
  /\ UNCHANGED <<now, entry, counter, calls, lost, lastWrite>>

Tick ==
  /\ now < MaxTime
  /\ now' = now + 1
  /\ UNCHANGED <<entry, counter, calls, pc, guard, lost, lastWrite>>

Next ==
  \/ \E w \in Workers :
       CallAcquire(w) \/ CallRenew(w) \/ AppendFenced(w) \/ Leave(w) \/ CallRelease(w) \/ Crash(w)
  \/ \E q \in calls : Acquire(q) \/ Renew(q) \/ RenewFails(q) \/ Release(q)
  \/ Tick

Spec == Init /\ [][Next]_vars

-----------------------------------------------------------------------------
(* Properties *)

Standing ==
  IF entry = NoLease \/ entry.expires = 0 THEN "free"
  ELSE IF IsExpired(entry, now) THEN "lapsed" ELSE "held"

Fenced == INSTANCE FencedLease WITH fence <- Granted, standing <- Standing

\* Whatever the order in which late calls take effect and workers crash, the
\* stored lease behaves as FencedLease: a grant never displaces an unexpired
\* one, every grant takes the next fencing token, and neither a late renewal
\* nor a late release revives or ends anybody else's grant (acquire, renew
\* and release of the three lease managers).
ImplementsFencedLease == Fenced!Spec

\* No two workers ever execute under the same grant (the token handed back by
\* acquire reaches one caller of _with_execution_lease_impl).
SoleOwner ==
  \A v, w \in Workers : guard[v] # 0 /\ guard[v] = guard[w] => v = w

\* Once a checkpoint was appended under a fencing token, nothing is ever
\* appended under an older one, even by an owner that was only slow
\* (append_fenced; docs/WORKFLOWS.md, "the former owner is then refused").
FencedWritesMonotone == [][lastWrite' >= lastWrite]_vars
=============================================================================
