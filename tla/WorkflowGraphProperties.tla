----------------------- MODULE WorkflowGraphProperties -----------------------
(* What WorkflowGraph must guarantee, whoever calls it and whenever it fails. *)
EXTENDS WorkflowGraph

RecordedAt(r, i) == history[r][i]

\* A run begun by run(...), not by fork_workflow(...).
Started(r) == Exists(r) /\ RecordedAt(r, 1).last = "workflow-start"

Recorded(r) == {history[r][i] : i \in 1..Len(history[r])}

-----------------------------------------------------------------------------
(* The history *)

Log == INSTANCE RunLog WITH log <- history, key <- key

\* However callers race, crash and retry, the histories behave as RunLog:
\* append-only, gapless, final once terminal, one run per key (_append,
\* _prepare_append and the stores' idempotency claim).
ImplementsRunLog == Log!Spec

\* A decision once recorded is never changed or withdrawn, nor is a node that
\* completed, failed or was skipped ever given another status
\* (docs/WORKFLOWS.md: "Resume and recovery reuse the recorded boolean").
OutcomesAreFinal ==
  \A r \in Runs : \A i \in 1..Len(history[r]) : \A j \in i..Len(history[r]) :
    /\ \A e \in Edges : RecordedAt(r, i).edge[e] # "undecided" =>
         RecordedAt(r, j).edge[e] = RecordedAt(r, i).edge[e]
    /\ \A n \in Nodes : RecordedAt(r, i).node[n] \in {"completed", "failed", "skipped"} =>
         RecordedAt(r, j).node[n] = RecordedAt(r, i).node[n]

\* The fencing tokens recorded in the history of a run never decrease: no
\* checkpoint of a superseded owner follows one of its successor
\* (append_fenced).  A fork starts from the token of the run it was forked
\* from, which says nothing about its own lease.
FencesMonotone ==
  \A r \in Runs : Started(r) =>
    \A i \in 1..Len(history[r]) : \A j \in i..Len(history[r]) :
      RecordedAt(r, i).fence <= RecordedAt(r, j).fence

-----------------------------------------------------------------------------
(* Routing *)

\* A node that was ever started had every incoming edge decided and one taken;
\* in a run that was started, not forked, and was not cancelled, a node skipped
\* had all of them dropped (_ready, _resolve_skipped).  A fork of a cancelled
\* run keeps the nodes the cancellation skipped.
RoutedByEdges ==
  \A r \in Runs : \A k \in Recorded(r) : \A n \in Nodes :
    /\ Incoming(n) # {} /\ k.attempt[n] > 0 => AllDecided(k, n) /\ SomeTaken(k, n)
    /\ Started(r) /\ Incoming(n) # {} /\ k.node[n] = "skipped" /\ k.status # "cancelled" =>
         AllDecided(k, n) /\ ~SomeTaken(k, n)

\* A run that ends by itself leaves no node behind: unless a fail-fast node
\* failed or a condition raised, every node was executed or skipped (_execute
\* finishes a run when no node is ready; the status "failed" for "no runnable
\* nodes; definition or state is inconsistent" is never legitimately reached).
NothingStranded ==
  \A r \in Runs : \A k \in Recorded(r) :
    k.status \in {"completed", "failed"} =>
      \/ InStatus(k, {"pending", "running", "suspended"}) = {}
      \/ InStatus(k, {"failed"}) \cap FailFast # {}
      \/ CondRaises

-----------------------------------------------------------------------------
(* Dispatch *)

\* An executor is invoked only for an attempt that is on record as running, and
\* no two callers ever invoke it for the same attempt of a node, even without a
\* lease manager: the attempt is won by the compare-and-swap of its step-start
\* checkpoint.
OneCallerPerAttempt ==
  \A r \in Runs : \A x \in ran[r] :
    /\ \E k \in Recorded(r) : k.node[x[1]] = "running" /\ k.attempt[x[1]] = x[2]
    /\ \A y \in ran[r] : x[1] = y[1] /\ x[2] = y[2] => x[3] = y[3]

\* With a lease manager, two callers are executing nodes of one run at once
\* only if the first of them has lost the lease of the run.
OneExecutorPerLease ==
  Leased =>
    \A c, d \in Callers :
      c # d /\ run[c] = run[d] /\ Tasked(c, {"active"}) # {} /\ Tasked(d, {"active"}) # {} =>
        ~OwnsLease(c) \/ ~OwnsLease(d)

-----------------------------------------------------------------------------
(* Interrupts *)

\* A node with a declared interrupt before it never runs unacknowledged, in
\* forks and recovered runs as well.
InterruptBeforeHonoured ==
  \A r \in Runs : \A k \in Recorded(r) : \A n \in InterruptBefore :
    k.node[n] = "running" => <<"before", n>> \in k.resolved

\* What acknowledging the pending interrupt of a checkpoint puts on record.
Acknowledged(k) == <<k.interrupt.phase, k.interrupt.node>>

\* A pending interrupt is a gate: whatever races with it, the next checkpoint
\* of the run acknowledges that interrupt, cancels the run, or only marks a
\* node that can no longer be reached (resume_workflow, cancel_workflow; a
\* recovery that loads the suspended run still resolves skips).  Nothing else
\* puts an acknowledgement on record, and none is withdrawn.
InterruptsAreGates ==
  \A r \in Runs : \A i \in 1..(Len(history[r]) - 1) :
    LET k == RecordedAt(r, i)  next == RecordedAt(r, i + 1) IN
    /\ k.interrupt # NoInterrupt =>
         \/ next.interrupt = k.interrupt /\ next.last = "workflow-step-skipped"
         \/ next.interrupt = NoInterrupt /\ next.last = "workflow-cancelled"
         \/ next.interrupt = NoInterrupt /\ next.last = "workflow-resume" /\ Acknowledged(k) \in next.resolved
    /\ k.resolved \subseteq next.resolved
    /\ \A m \in next.resolved \ k.resolved :
         k.interrupt # NoInterrupt /\ m = Acknowledged(k) /\ next.last = "workflow-resume"

\* As long as the interrupt after a node is pending, the node has finished and
\* nothing has flowed out of it: every edge that leaves it is undecided
\* (_execute raises the interrupt before it evaluates them).
InterruptAfterHonoured ==
  \A r \in Runs : \A k \in Recorded(r) :
    k.interrupt # NoInterrupt /\ k.interrupt.phase = "after" =>
      /\ k.node[k.interrupt.node] \in {"completed", "failed"}
      /\ Undecided(k, k.interrupt.node) = Outgoing(k.interrupt.node)

\* Declared interrupts are honoured in runs that are resumed, recovered and
\* forked: none is passed by once raised, none is acknowledged but by its own
\* resumption, and no node runs before its own was.
InterruptsHonoured == InterruptBeforeHonoured /\ InterruptsAreGates /\ InterruptAfterHonoured

-----------------------------------------------------------------------------
(* Retries and leases *)

\* The checkpoints up to the i-th that put a started node back without a retry.
PutBack(r, i, n) ==
  {j \in 1..i : \/ RecordedAt(r, j).last = "workflow-fork"
                \/ /\ RecordedAt(r, j).last \in {"workflow-recovered", "workflow-resume"}
                   /\ RecordedAt(r, j - 1).node[n] \in {"running", "suspended"}}

\* Attempts of a node beyond its retry policy, or beyond those a fork inherits,
\* are explained one by one by a recorded recovery, resumption or fork that put
\* the node back (_should_retry, _recover_running_nodes, fork_workflow).
AttemptsAccounted ==
  \A r \in Runs : \A i \in 1..Len(history[r]) : \A n \in Nodes :
    \E allowed \in {MaxAttempts[n], RecordedAt(r, 1).attempt[n]} :
      RecordedAt(r, i).attempt[n] <= allowed + Cardinality(PutBack(r, i, n))

-----------------------------------------------------------------------------
(* Liveness *)

\* Tasks are scheduled and executors return; time passes for the lease of a
\* crashed owner; the application keeps re-entering a run that still runs.
Fairness ==
  /\ \A c \in Callers : WF_vars(Step(c))
  /\ \A r \in Runs : WF_vars(Owners(r) = {} /\ Lapse(r))
  /\ \A c \in Callers, r \in Runs : SF_vars(CallRecover(c, r))

FairSpec == Spec /\ Fairness

StillRunning(r) == Exists(r) /\ key[r] # NoKey /\ Newest(r).status = "running"

\* Every run that was started under a key ends or is suspended, although the
\* worker that executes it may crash at any point and leave its lease behind.
RunsSettle == \A r \in Runs : StillRunning(r) ~> ~StillRunning(r)
=============================================================================
