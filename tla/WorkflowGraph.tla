---------------------------- MODULE WorkflowGraph ----------------------------
(***************************************************************************)
(* WorkflowGraph: run, resume_workflow, cancel_workflow and fork_workflow  *)
(* executed by concurrent callers over a shared checkpoint store and lease *)
(* manager (workflow_graph.py, workflow_state.py).                         *)
(*                                                                         *)
(* One action is the code between two awaits that other callers can        *)
(* observe; each store or lease call is atomic (the stores' own lock or    *)
(* transaction).  A caller holds in ck the checkpoint it last loaded or    *)
(* appended and may be stale with respect to the store.  A caller may      *)
(* crash between any two actions.                                          *)
(*                                                                         *)
(* The lease of a run is FencedLease, which LeaseManager implements.       *)
(***************************************************************************)
EXTENDS WorkflowCheckpoint, Integers, Sequences

CONSTANTS
  Callers,         \* tasks or processes calling the API
  Keys,            \* idempotency keys
  NoKey,           \* a run without idempotency key
  Results,         \* what the executor of each node may return
  Adapter,         \* TRUE: steps are dispatched through a workflow adapter
  Leased,          \* TRUE: a lease manager is configured
  MaxConcurrency,  \* max_concurrency
  CondRaises,      \* TRUE: edge conditions may raise
  MaxCalls,        \* bound: API calls made that a lease did not refuse
  MaxCrashes,      \* bound: crashes
  MaxFaults,       \* bound: leases that lapse under a live owner, failed renewals
  AllowCancel,     \* the calls the instance makes besides run(...)
  AllowResume,
  AllowFork

\* "flaky" is a failure the retry policy accepts, "failed" one it does not.
Outcomes == {"completed", "failed", "flaky", "suspended", "cancelled"}

ASSUME EngineAssumption ==
  /\ NoKey \notin Keys
  /\ Results \in [Nodes -> SUBSET Outcomes]
  /\ {Adapter, Leased, CondRaises, AllowCancel, AllowResume, AllowFork} \subseteq BOOLEAN
  /\ MaxConcurrency \in Nat \ {0}
  /\ {MaxCalls, MaxCrashes, MaxFaults} \subseteq Nat

VARIABLES
  history,   \* the checkpoint store: checkpoints of each run
  key,       \* idempotency key of each run
  fence,     \* lease of each run: its newest fencing token ...
  standing,  \* ... and whether it is free, held or lapsed
  pc,        \* what each caller does next
  op,        \* the call it is in: execute, recover, resume or none
  run,       \* the run it works on
  idem,      \* the idempotency key it was given
  ck,        \* its checkpoint
  ack,       \* resume_workflow: the interrupt acknowledged, or the node named
  task,      \* progress of each node in the caller's current wave
  guard,     \* fencing token of its _WorkflowLeaseGuard, 0 without
  lost,      \* guard.lost
  ran,       \* executors invoked: <<node, attempt, caller>> per run
  calls, crashes, faults

store == <<history, key>>
lease == <<fence, standing>>
local == <<pc, op, run, idem, ck, ack, task, guard, lost>>
bounds == <<calls, crashes, faults>>
vars == <<store, lease, local, ran, bounds>>

-----------------------------------------------------------------------------
(* Types *)

PCs ==
  {"idle", "create", "claim", "recover", "recover-append", "resume", "resume-append",
   "cancel", "loop", "plan", "start", "exec", "settle", "close", "reroute", "abort", "unwind"}

\* "none": not in the wave.  ready: to be started.  started: recorded, waiting
\* for the semaphore.  active: executor invoked.  An outcome: returned, not
\* yet recorded.  The rest is what recording it led to.
Tasks ==
  Outcomes \cup
  {"none", "ready", "started", "active", "retried", "rec-suspended", "rec-cancelled",
   "rec-failed", "interrupt", "edges", "routed"}

\* resume_workflow presents an interrupt id, or names a suspended node.
Named(n) == [named |-> n]

NoAck == NoInterrupt

TypeOK ==
  /\ history \in [Runs -> Seq(Checkpoint)]
  /\ key \in [Runs -> Keys \cup {NoKey}]
  /\ fence \in [Runs -> Nat]
  /\ standing \in [Runs -> {"free", "held", "lapsed"}]
  /\ pc \in [Callers -> PCs]
  /\ op \in [Callers -> {"none", "execute", "recover", "resume"}]
  /\ run \in [Callers -> Runs]
  /\ idem \in [Callers -> Keys \cup {NoKey}]
  /\ ck \in [Callers -> Checkpoint]
  /\ ack \in [Callers -> Interrupt \cup {Named(n) : n \in Nodes} \cup {NoAck}]
  /\ task \in [Callers -> [Nodes -> Tasks]]
  /\ guard \in [Callers -> Nat]
  /\ lost \in [Callers -> BOOLEAN]
  /\ ran \in [Runs -> SUBSET (Nodes \X Nat \X Callers)]
  /\ calls \in Int  \* Claim gives a refused call back
  /\ crashes \in Nat /\ faults \in Nat

-----------------------------------------------------------------------------
(* The store *)

Exists(r) == history[r] # <<>>

Newest(r) == history[r][Len(history[r])]

RunsWithKey(k) == {r \in Runs : Exists(r) /\ key[r] = k}

\* Mutant: the sequence the caller expects is not compared.
CanAppend_NoCompare(c) ==
  LET r == run[c] IN Exists(r) /\ Newest(r).status \notin Terminal

\* _prepare_append: the run exists, is not terminal, and the caller's
\* checkpoint is the newest one.
CanAppend(c) ==
  LET r == run[c] IN
  /\ Exists(r)
  /\ ck[c].seq = Newest(r).seq
  /\ Newest(r).status \notin Terminal

\* Mutant: any unexpired lease will do.
OwnsLease_AnyToken(c) == standing[run[c]] = "held"

\* The lease row append_fenced (and validate) looks for.
OwnsLease(c) == standing[run[c]] = "held" /\ fence[run[c]] = guard[c]

-----------------------------------------------------------------------------
(* Steps of a caller *)

Tasked(c, S) == {n \in Nodes : task[c][n] \in S}

NoTasks == [n \in Nodes |-> "none"]

Goto(c, label) == pc' = [pc EXCEPT ![c] = label]

SetTask(c, n, t) == task' = [task EXCEPT ![c][n] = t]

\* _append accepted: under a lease the candidate is stamped and fenced.
Commit(c, cand) ==
  /\ CanAppend(c)
  /\ guard[c] # 0 => OwnsLease(c)
  /\ history' = [history EXCEPT ![run[c]] = Append(@, Stamp(cand, guard[c]))]
  /\ ck' = [ck EXCEPT ![c] = Stamp(cand, guard[c])]
  /\ UNCHANGED <<key, lease, op, run, idem, ack, guard, lost, ran, bounds>>

\* _append refused: the error unwinds the call; a lost lease is remembered.
\* Whether the caller is then told of a cancellation or gets the error, it
\* stops here.
Refused(c, label) ==
  /\ ~CanAppend(c) \/ (guard[c] # 0 /\ ~OwnsLease(c))
  /\ lost' = [lost EXCEPT ![c] = @ \/ (guard[c] # 0 /\ ~OwnsLease(c))]
  /\ Goto(c, label)
  /\ UNCHANGED <<store, lease, op, run, idem, ck, ack, task, guard, ran, bounds>>

\* A step of the caller that touches neither the store nor the lease.
Locally == UNCHANGED <<store, lease, op, run, idem, ack, guard, bounds>>

\* What _assert_execution_lease and the heartbeat find wrong.
LeaseBad(c) == guard[c] # 0 /\ (lost[c] \/ ~OwnsLease(c))

-----------------------------------------------------------------------------
(* Calls *)

Begin(c) ==
  /\ pc[c] = "idle"
  /\ calls < MaxCalls
  /\ calls' = calls + 1
  /\ UNCHANGED <<store, lease, task, guard, lost, ran, crashes, faults>>

\* run(...): nothing is stored for the key, so a new run is prepared.
CallRun(c, k, r) ==
  /\ Begin(c)
  /\ k = NoKey \/ RunsWithKey(k) = {}
  /\ ~Exists(r) /\ \A d \in Callers : pc[d] = "create" => run[d] # r
  /\ Goto(c, "create")
  /\ op' = [op EXCEPT ![c] = "execute"]
  /\ run' = [run EXCEPT ![c] = r]
  /\ idem' = [idem EXCEPT ![c] = k]
  /\ ck' = [ck EXCEPT ![c] = Initial]
  /\ UNCHANGED ack

\* run(..., recover_running=True): the stored run of the key still runs.
CallRecover(c, r) ==
  /\ Begin(c)
  /\ Exists(r) /\ key[r] # NoKey /\ Newest(r).status = "running"
  /\ Goto(c, "claim")
  /\ op' = [op EXCEPT ![c] = "recover"]
  /\ run' = [run EXCEPT ![c] = r]
  /\ UNCHANGED <<idem, ck, ack>>

\* resume_workflow(run_id, interrupt_id=..., node_name=...): the ids the
\* caller may present are those some checkpoint ever showed.
CallResume(c, r, a) ==
  /\ AllowResume
  /\ Begin(c)
  /\ Exists(r)
  /\ \/ \E n \in Nodes : a = Named(n)
     \/ \E i \in 1..Len(history[r]) : history[r][i].interrupt = a /\ a # NoInterrupt
  /\ Goto(c, "claim")
  /\ op' = [op EXCEPT ![c] = "resume"]
  /\ run' = [run EXCEPT ![c] = r]
  /\ ack' = [ack EXCEPT ![c] = a]
  /\ UNCHANGED <<idem, ck>>

\* cancel_workflow(run_id): load_latest; a terminal run is returned as it is.
CallCancel(c, r) ==
  /\ AllowCancel
  /\ Begin(c)
  /\ Exists(r) /\ Newest(r).status \notin Terminal
  /\ Goto(c, "cancel")
  /\ op' = [op EXCEPT ![c] = "none"]
  /\ run' = [run EXCEPT ![c] = r]
  /\ ck' = [ck EXCEPT ![c] = Newest(r)]
  /\ UNCHANGED <<idem, ack>>

\* fork_workflow(run_id, checkpoint_id=...): any stored checkpoint may be the
\* source; nothing is stored for the key of the fork.
CallFork(c, s, i, k, r) ==
  /\ AllowFork
  /\ Begin(c)
  /\ i \in 1..Len(history[s])
  /\ k = NoKey \/ RunsWithKey(k) = {}
  /\ ~Exists(r) /\ \A d \in Callers : pc[d] = "create" => run[d] # r
  /\ Goto(c, "create")
  /\ op' = [op EXCEPT ![c] = "execute"]
  /\ run' = [run EXCEPT ![c] = r]
  /\ idem' = [idem EXCEPT ![c] = k]
  /\ ck' = [ck EXCEPT ![c] = Fork(history[s][i])]
  /\ UNCHANGED ack

\* Mutant: a claimed key is not looked for.
KeyTaken_Never(c) == FALSE

\* The key of the call was claimed by another run meanwhile.
KeyTaken(c) == idem[c] # NoKey /\ RunsWithKey(idem[c]) # {}

\* The first append of run(...) or fork_workflow(...), made without a lease: a
\* key claimed meanwhile makes the caller return the winner's run.
Create(c) ==
  /\ pc[c] = "create"
  /\ IF KeyTaken(c)
       THEN Goto(c, "unwind") /\ UNCHANGED store
       ELSE /\ history' = [history EXCEPT ![run[c]] = <<ck[c]>>]
            /\ key' = [key EXCEPT ![run[c]] = idem[c]]
            /\ Goto(c, "claim")
  /\ UNCHANGED <<lease, op, run, idem, ck, ack, task, guard, lost, ran, bounds>>

\* Mutant: an expired lease is not taken over.
Available_Free(r) == standing[r] = "free"

Available(r) == standing[r] # "held"

\* Mutant: a takeover keeps the fencing token of the expired lease.
NextToken_Kept(r) == IF standing[r] = "lapsed" THEN fence[r] ELSE fence[r] + 1

NextToken(r) == fence[r] + 1

\* _with_execution_lease_impl: acquire, or WorkflowConflictError.
Claim(c) ==
  /\ pc[c] = "claim"
  /\ IF ~Leased
       THEN /\ Goto(c, IF op[c] = "execute" THEN "loop" ELSE op[c])
            /\ UNCHANGED <<lease, guard, lost, calls>>
       ELSE IF ~Available(run[c])
         THEN /\ Goto(c, "unwind")
              /\ calls' = calls - 1  \* a refused call does not use up MaxCalls
              /\ UNCHANGED <<lease, guard, lost>>
         ELSE /\ Goto(c, IF op[c] = "execute" THEN "loop" ELSE op[c])
              /\ fence' = [fence EXCEPT ![run[c]] = NextToken(run[c])]
              /\ standing' = [standing EXCEPT ![run[c]] = "held"]
              /\ guard' = [guard EXCEPT ![c] = NextToken(run[c])]
              /\ lost' = [lost EXCEPT ![c] = FALSE]
              /\ UNCHANGED calls
  /\ UNCHANGED <<store, op, run, idem, ck, ack, task, ran, crashes, faults>>

-----------------------------------------------------------------------------
(* Recovery and resume *)

RecoverLoad(c) ==
  /\ pc[c] = "recover"
  /\ ck' = [ck EXCEPT ![c] = Newest(run[c])]
  /\ Goto(c, IF InStatus(Newest(run[c]), {"running"}) = {} THEN "loop" ELSE "recover-append")
  /\ UNCHANGED <<task, lost, ran>> /\ Locally

RecoverAppend(c) ==
  /\ pc[c] = "recover-append"
  /\ \/ Commit(c, Recover(ck[c])) /\ Goto(c, "loop") /\ UNCHANGED task
     \/ Refused(c, "unwind")

\* The pending interrupt must be acknowledged by its own id; without one,
\* exactly one suspended node is named.
Resumable(k, a) ==
  /\ k.status = "suspended"
  /\ IF k.interrupt # NoInterrupt THEN a = k.interrupt ELSE \E n \in InStatus(k, {"suspended"}) : a = Named(n)

ResumeLoad(c) ==
  /\ pc[c] = "resume"
  /\ ck' = [ck EXCEPT ![c] = Newest(run[c])]
  /\ Goto(c, IF Resumable(Newest(run[c]), ack[c]) THEN "resume-append" ELSE "unwind")
  /\ UNCHANGED <<task, lost, ran>> /\ Locally

\* completed_without_edges, evaluated before _execute goes on.
EdgesLeft(k) ==
  [n \in Nodes |-> IF k.node[n] = "completed" /\ Undecided(k, n) # {} THEN "edges" ELSE "none"]

ResumeWith(c, cand) ==
  /\ Commit(c, cand)
  /\ IF cand.status = "suspended"
       THEN Goto(c, "unwind") /\ UNCHANGED task
       ELSE Goto(c, "reroute") /\ task' = [task EXCEPT ![c] = EdgesLeft(cand)]

ResumeAppend(c) ==
  /\ pc[c] = "resume-append"
  /\ \/ ck[c].interrupt # NoInterrupt /\ ResumeWith(c, Acknowledge(ck[c]))
     \/ /\ ck[c].interrupt = NoInterrupt /\ Adapter
        /\ Commit(c, Redispatch(ck[c], ack[c].named))
        /\ Goto(c, "loop") /\ UNCHANGED task
     \/ /\ ck[c].interrupt = NoInterrupt /\ ~Adapter
        /\ \E s \in Results[ack[c].named] \cap {"completed", "suspended"} :
             ResumeWith(c, Continue(ck[c], ack[c].named, s))
     \/ /\ ck[c].interrupt = NoInterrupt /\ ~Adapter  \* resume_agent_run raises
        /\ Goto(c, "unwind")
        /\ UNCHANGED <<ck, task, lost, ran>> /\ Locally
     \/ Refused(c, "unwind")

\* _evaluate_edges of one node; bad is where an exception leads.
Route(c, n, bad) ==
  \/ /\ Undecided(ck[c], n) = {}
     /\ SetTask(c, n, "routed")
     /\ UNCHANGED <<pc, ck, lost, ran>> /\ Locally
  \/ /\ Undecided(ck[c], n) # {}
     /\ \E choice \in Choices(ck[c], n) : Commit(c, Decide(ck[c], choice))
     /\ SetTask(c, n, "routed") /\ UNCHANGED pc
  \/ /\ CondRaises /\ Undecided(ck[c], n) \cap Conditional # {}
     /\ Goto(c, bad)
     /\ UNCHANGED <<ck, task, lost, ran>> /\ Locally
  \/ Undecided(ck[c], n) # {} /\ Refused(c, bad)

Reroute(c) ==
  /\ pc[c] = "reroute"
  /\ \/ \E n \in Tasked(c, {"edges"}) : Route(c, n, "unwind")
     \/ /\ Tasked(c, {"edges"}) = {}
        /\ Goto(c, "loop")
        /\ task' = [task EXCEPT ![c] = NoTasks]
        /\ UNCHANGED <<ck, lost, ran>> /\ Locally

-----------------------------------------------------------------------------
(* The _execute loop *)

\* _assert_execution_lease, then load_latest: only a cancellation is noticed.
LoopTop(c) ==
  /\ pc[c] = "loop"
  /\ lost' = [lost EXCEPT ![c] = @ \/ LeaseBad(c)]
  /\ Goto(c, IF LeaseBad(c) \/ Newest(run[c]).status = "cancelled" THEN "unwind" ELSE "plan")
  /\ UNCHANGED <<ck, task, ran>> /\ Locally

SkipNode(c) ==
  /\ pc[c] = "plan"
  /\ \E n \in Skippable(ck[c]) :
       \/ Commit(c, Skip(ck[c], n)) /\ UNCHANGED <<pc, task>>
       \/ Refused(c, "unwind")

ReturnSuspended(c) ==
  /\ pc[c] = "plan" /\ Skippable(ck[c]) = {}
  /\ ck[c].interrupt # NoInterrupt
  /\ Goto(c, "unwind")
  /\ UNCHANGED <<ck, task, lost, ran>> /\ Locally

\* Mutant: a pending interrupt is not looked at.
Planning_Ungated(c) == pc[c] = "plan" /\ Skippable(ck[c]) = {}

Planning(c) == pc[c] = "plan" /\ Skippable(ck[c]) = {} /\ ck[c].interrupt = NoInterrupt

\* The last append of a call.
CommitLast(c, cand) ==
  \/ Commit(c, cand) /\ Goto(c, "unwind") /\ UNCHANGED task
  \/ Refused(c, "unwind")

SuspendBefore(c) ==
  /\ Planning(c) /\ Blocked(ck[c]) # {}
  /\ CommitLast(c, Suspend(ck[c], run[c], "before", First(Blocked(ck[c]))))

Conclude(c) ==
  /\ Planning(c) /\ Ready(ck[c]) = {}
  /\ IF AlreadyFinished(ck[c], FinalStatus(ck[c]))
       THEN Goto(c, "unwind") /\ UNCHANGED <<ck, task, lost, ran>> /\ Locally
       ELSE CommitLast(c, FinishRun(ck[c], FinalStatus(ck[c])))

BeginWave(c) ==
  /\ Planning(c) /\ Ready(ck[c]) # {} /\ Blocked(ck[c]) = {}
  /\ task' = [task EXCEPT ![c] = [n \in Nodes |-> IF n \in Ready(ck[c]) THEN "ready" ELSE "none"]]
  /\ Goto(c, "start")
  /\ UNCHANGED <<ck, lost, ran>> /\ Locally

StartNode(c) ==
  /\ pc[c] = "start"
  /\ LET n == First(Tasked(c, {"ready"})) IN
       \/ /\ Commit(c, Start(ck[c], n))
          /\ SetTask(c, n, "started")
          /\ Goto(c, IF Tasked(c, {"ready"}) = {n} THEN "exec" ELSE "start")
       \/ Refused(c, "unwind")

MayDispatch(c, n) ==
  /\ pc[c] = "exec" /\ task[c][n] = "started"
  /\ Cardinality(Tasked(c, {"active"})) < MaxConcurrency

\* execute_one enters the semaphore and _execute_node asserts the lease: a
\* lost lease is an exception like any other there, and fails the node.
Dispatch(c, n) ==
  /\ MayDispatch(c, n)
  /\ lost' = [lost EXCEPT ![c] = @ \/ LeaseBad(c)]
  /\ SetTask(c, n, IF LeaseBad(c) THEN "failed" ELSE "active")
  /\ ran' = IF LeaseBad(c) THEN ran
            ELSE [ran EXCEPT ![run[c]] = @ \cup {<<n, ck[c].attempt[n], c>>}]
  /\ UNCHANGED <<pc, ck>> /\ Locally

Return(c, n) ==
  /\ pc[c] = "exec" /\ task[c][n] = "active"
  /\ \E o \in Results[n] : SetTask(c, n, o)
  /\ UNCHANGED <<pc, ck, lost, ran>> /\ Locally

\* gather(...) returned; load_latest again, for a cancellation only.
Gather(c) ==
  /\ pc[c] = "exec"
  /\ Tasked(c, {"started", "active"}) = {}
  /\ Goto(c, IF Newest(run[c]).status = "cancelled" THEN "unwind" ELSE "settle")
  /\ UNCHANGED <<ck, task, lost, ran>> /\ Locally

\* Mutant: one attempt too many.
ShouldRetry_OneMore(c, n) == task[c][n] = "flaky" /\ ck[c].attempt[n] <= MaxAttempts[n]

ShouldRetry(c, n) == task[c][n] = "flaky" /\ ck[c].attempt[n] < MaxAttempts[n]

RecordedStatus(outcome) == IF outcome = "flaky" THEN "failed" ELSE outcome

\* Only the first unacknowledged interrupt of a wave is kept.
AfterInterrupt(c, n) ==
  n \in InterruptAfter /\ <<"after", n>> \notin ck[c].resolved /\ Tasked(c, {"interrupt"}) = {}

\* How a recorded outcome takes part in closing the wave.
Fate(c, n) ==
  LET status == RecordedStatus(task[c][n]) IN
  CASE status = "suspended" -> "rec-suspended"
    [] status = "cancelled" -> "rec-cancelled"
    [] status = "failed" /\ n \in FailFast -> "rec-failed"
    [] OTHER -> IF AfterInterrupt(c, n) THEN "interrupt" ELSE "edges"

Settle(c) ==
  /\ pc[c] = "settle"
  /\ LET n == First(Tasked(c, Outcomes)) IN
       \/ /\ IF ShouldRetry(c, n)
               THEN Commit(c, Retry(ck[c], n)) /\ SetTask(c, n, "retried")
               ELSE /\ Commit(c, FinishNode(ck[c], n, RecordedStatus(task[c][n])))
                    /\ SetTask(c, n, Fate(c, n))
          /\ Goto(c, IF Tasked(c, Outcomes) = {n} THEN "close" ELSE "settle")
       \/ Refused(c, "unwind")

\* A cancelled, suspended or fail-fast node ends the wave before any edge of
\* the wave is evaluated.
CloseStatus(c) ==
  CASE Tasked(c, {"rec-cancelled"}) # {} -> "cancelled"
    [] Tasked(c, {"rec-cancelled"}) = {} /\ Tasked(c, {"rec-suspended"}) # {} -> "suspended"
    [] Tasked(c, {"rec-cancelled", "rec-suspended"}) = {} /\ Tasked(c, {"rec-failed"}) # {} -> "failed"
    [] OTHER -> "running"

CloseStop(c) ==
  /\ pc[c] = "close" /\ CloseStatus(c) # "running"
  /\ CommitLast(c, FinishRun(ck[c], CloseStatus(c)))

CloseEdges(c) ==
  /\ pc[c] = "close" /\ CloseStatus(c) = "running" /\ Tasked(c, {"edges"}) # {}
  /\ Route(c, First(Tasked(c, {"edges"})), "abort")

\* "except Exception" around the edge evaluation finishes the run as failed.
Abort(c) ==
  /\ pc[c] = "abort"
  /\ CommitLast(c, FinishRun(ck[c], "failed"))

CloseInterrupt(c) ==
  /\ pc[c] = "close" /\ CloseStatus(c) = "running" /\ Tasked(c, {"edges"}) = {}
  /\ Tasked(c, {"interrupt"}) # {}
  /\ CommitLast(c, Suspend(ck[c], run[c], "after", First(Tasked(c, {"interrupt"}))))

CloseWave(c) ==
  /\ pc[c] = "close" /\ CloseStatus(c) = "running"
  /\ Tasked(c, {"edges", "interrupt"}) = {}
  /\ Goto(c, "loop")
  /\ task' = [task EXCEPT ![c] = NoTasks]
  /\ UNCHANGED <<ck, lost, ran>> /\ Locally

-----------------------------------------------------------------------------
(* Cancellation, leaving, failures *)

\* cancel_workflow appends without a lease; a refused append is accepted when
\* the run was cancelled meanwhile and raised otherwise.
CancelAppend(c) ==
  /\ pc[c] = "cancel"
  /\ CommitLast(c, Cancel(ck[c]))

Nowhere == CHOOSE r \in Runs : TRUE

Forget(c) ==
  /\ pc' = [pc EXCEPT ![c] = "idle"]
  /\ op' = [op EXCEPT ![c] = "none"]
  /\ run' = [run EXCEPT ![c] = Nowhere]
  /\ idem' = [idem EXCEPT ![c] = NoKey]
  /\ ck' = [ck EXCEPT ![c] = Initial]
  /\ ack' = [ack EXCEPT ![c] = NoAck]
  /\ task' = [task EXCEPT ![c] = NoTasks]
  /\ guard' = [guard EXCEPT ![c] = 0]
  /\ lost' = [lost EXCEPT ![c] = FALSE]

\* The finally block of _with_execution_lease_impl: release matches only the
\* caller's own grant, and its failure is suppressed.
Unwind(c) ==
  /\ pc[c] = "unwind"
  /\ Forget(c)
  /\ IF guard[c] = 0 \/ fence[run[c]] # guard[c]
       THEN UNCHANGED <<standing, faults>>
       ELSE \/ standing' = [standing EXCEPT ![run[c]] = "free"] /\ UNCHANGED faults
            \/ faults < MaxFaults /\ faults' = faults + 1 /\ UNCHANGED standing
  /\ UNCHANGED <<store, fence, ran, calls, crashes>>

Crash(c) ==
  /\ pc[c] # "idle"
  /\ crashes < MaxCrashes
  /\ crashes' = crashes + 1
  /\ Forget(c)
  /\ UNCHANGED <<store, lease, ran, calls, faults>>

Owners(r) == {c \in Callers : run[c] = r /\ guard[c] # 0 /\ guard[c] = fence[r]}

\* Time passes: the lease of a crashed owner expires; that of a live owner
\* only if its renewals are late (a blocked event loop, a slow database).
Lapse(r) ==
  /\ standing[r] = "held"
  /\ standing' = [standing EXCEPT ![r] = "lapsed"]
  /\ IF Owners(r) = {} THEN UNCHANGED faults
     ELSE faults < MaxFaults /\ faults' = faults + 1
  /\ UNCHANGED <<store, fence, local, ran, calls, crashes>>

\* A renewal sent in time is applied late.
Revive(r) ==
  /\ standing[r] = "lapsed"
  /\ Owners(r) # {}
  /\ standing' = [standing EXCEPT ![r] = "held"]
  /\ UNCHANGED <<store, fence, local, ran, bounds>>

\* The heartbeat reads None for a lease that is gone, or its renewal raises.
Heartbeat(c) ==
  /\ guard[c] # 0 /\ ~lost[c]
  /\ lost' = [lost EXCEPT ![c] = TRUE]
  /\ IF ~OwnsLease(c) THEN UNCHANGED faults
     ELSE faults < MaxFaults /\ faults' = faults + 1
  /\ UNCHANGED <<store, lease, pc, op, run, idem, ck, ack, task, guard, ran, calls, crashes>>

-----------------------------------------------------------------------------

Init ==
  /\ history = [r \in Runs |-> <<>>]
  /\ key = [r \in Runs |-> NoKey]
  /\ fence = [r \in Runs |-> 0]
  /\ standing = [r \in Runs |-> "free"]
  /\ pc = [c \in Callers |-> "idle"]
  /\ op = [c \in Callers |-> "none"]
  /\ run = [c \in Callers |-> Nowhere]
  /\ idem = [c \in Callers |-> NoKey]
  /\ ck = [c \in Callers |-> Initial]
  /\ ack = [c \in Callers |-> NoAck]
  /\ task = [c \in Callers |-> NoTasks]
  /\ guard = [c \in Callers |-> 0]
  /\ lost = [c \in Callers |-> FALSE]
  /\ ran = [r \in Runs |-> {}]
  /\ calls = 0 /\ crashes = 0 /\ faults = 0

Call(c) ==
  \/ \E k \in Keys \cup {NoKey}, r \in Runs : CallRun(c, k, r)
  \/ \E r \in Runs : CallRecover(c, r) \/ CallCancel(c, r)
  \/ \E r \in Runs :
       \E a \in {Named(n) : n \in Nodes} \cup {history[r][i].interrupt : i \in 1..Len(history[r])} : CallResume(c, r, a)
  \/ \E s, r \in Runs, k \in Keys \cup {NoKey} :
       \E i \in 1..Len(history[s]) : CallFork(c, s, i, k, r)

Execute(c) ==
  \/ LoopTop(c) \/ SkipNode(c) \/ ReturnSuspended(c) \/ SuspendBefore(c) \/ Conclude(c)
  \/ BeginWave(c) \/ StartNode(c) \/ Gather(c) \/ Settle(c)
  \/ CloseStop(c) \/ CloseEdges(c) \/ Abort(c) \/ CloseInterrupt(c) \/ CloseWave(c)
  \/ \E n \in Nodes : Dispatch(c, n) \/ Return(c, n)

Step(c) ==
  \/ Create(c) \/ Claim(c) \/ RecoverLoad(c) \/ RecoverAppend(c)
  \/ ResumeLoad(c) \/ ResumeAppend(c) \/ Reroute(c)
  \/ Execute(c) \/ CancelAppend(c) \/ Unwind(c)

Next ==
  \/ \E c \in Callers : Call(c) \/ Step(c) \/ Crash(c) \/ Heartbeat(c)
  \/ \E r \in Runs : Lapse(r) \/ Revive(r)

Spec == Init /\ [][Next]_vars
=============================================================================
