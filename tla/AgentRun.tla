------------------------------ MODULE AgentRun ------------------------------
(***************************************************************************)
(* Runs of agents over a shared run store: AgentRuntime._run_impl and      *)
(* resume_agent_run (agent.py) as tasks that interleave at their awaits,   *)
(* the stores of agent_state.py, and the operators that cancel runs, trees *)
(* of runs and claims.                                                     *)
(*                                                                         *)
(* A run is executed by one task, in a chain with the subagents it waits   *)
(* for.  A suspended run is claimed by a resumer, which executes the       *)
(* approved tool and continues the conversation in a child run.  A store   *)
(* call is one step: every store holds a lock or a transaction across it.  *)
(* Tasks are cancelled by asyncio, or die with their process, at any       *)
(* await; a save may outlive the task that awaited it.                     *)
(***************************************************************************)
EXTENDS Naturals, Sequences, FiniteSets

CONSTANTS
  Runs,        \* run ids that may be given out
  Resumers,    \* calls of resume_agent_run; each stands for its claim_token
  Keys,        \* idempotency keys of the application
  StartKeys,   \* those that its calls of run_agent pass; NoKey for none
  NoKey, NoRun, NoClaim,
  MaxStarts,   \* bound: calls of run_agent by the application
  MaxSteps,    \* bound: tool calls of one run
  MaxTroubles, \* bound: deaths and interruptions of tasks
  MaxCancels   \* bound: operators' cancellations

ASSUME NoneAssumption ==
  /\ NoRun \notin Runs
  /\ NoClaim \notin Resumers
  /\ NoKey \notin Keys \cup Runs
  /\ Runs \cap (Resumers \cup Keys) = {}
ASSUME StartAssumption == StartKeys \subseteq Keys \cup {NoKey}
ASSUME RunsAssumption == IsFiniteSet(Runs)
ASSUME BoundsAssumption == {MaxStarts, MaxSteps, MaxTroubles, MaxCancels} \subseteq Nat

VARIABLES
  \* the store
  status, revision, key, parent, pending, claim,
  \* the execution of each run
  pc,          \* where it is in _run_impl
  task,        \* the call it is part of: a run of the application or a resumer
  depth,       \* how many runs of that call wait for it
  steps,       \* tool calls so far
  outcome,     \* the status its caller was given, or "raised"
  \* resumers
  rpc, target, hand, cont, answer,
  inflight,    \* resumers whose interrupted save may still reach the store
  executed,    \* times the approved tool of a run was executed
  \* cancellation
  token,       \* calls whose AgentCancellationToken is cancelled
  todo,        \* what cancel_agent_run_tree has still to do, innermost first
  visited,     \* runs it has visited, beginning with its root
  listed,      \* runs whose children it has looked up
  late,        \* runs created below a run that was already listed
  troubles     \* counts towards MaxTroubles and MaxCancels

store == <<status, revision, key, parent, pending, claim>>
execution == <<pc, task, depth, steps, outcome>>
resumption == <<rpc, target, hand, cont, answer, inflight, executed>>
operators == <<todo, visited, listed>>
vars == <<store, execution, resumption, operators, token, late, troubles>>

-----------------------------------------------------------------------------
(* Types *)

Terminal == {"completed", "failed", "cancelled"}

Status == {"none", "running", "suspended"} \cup Terminal

Tasks == Runs \cup Resumers

PCs == {"none", "begin", "segment", "tool", "waiting", "closing", "finishing",
        "suspending", "failing", "cancelling", "over", "unrecorded", "dead"}

Holding == {"claimed", "resolved", "continuing", "settling"}

ResumerPCs == {"idle", "claiming", "reconciling", "over", "dead"} \cup Holding

TypeOK ==
  /\ status \in [Runs -> Status]
  /\ revision \in [Runs -> Nat]
  /\ key \in [Runs -> Keys \cup Runs \cup {NoKey}]
  /\ parent \in [Runs -> Runs \cup {NoRun}]
  /\ pending \in [Runs -> BOOLEAN]
  /\ claim \in [Runs -> Resumers \cup {NoClaim}]
  /\ pc \in [Runs -> PCs]
  /\ task \in [Runs -> Tasks]
  /\ depth \in [Runs -> Nat]
  /\ steps \in [Runs -> Nat]
  /\ outcome \in [Runs -> Status \cup {"raised"}]
  /\ rpc \in [Resumers -> ResumerPCs]
  /\ target \in [Resumers -> Runs \cup {NoRun}]
  /\ hand \in [Resumers -> Nat]
  /\ cont \in [Resumers -> Runs \cup {NoRun}]
  /\ answer \in [Resumers -> Status \cup {"resumed", "refused", "changed"}]
  /\ inflight \in SUBSET Resumers
  /\ executed \in [Runs -> Nat]
  /\ token \in SUBSET Tasks
  /\ visited \in SUBSET Runs
  /\ listed \in SUBSET Runs
  /\ late \in SUBSET Runs
  /\ troubles \in [deaths : Nat, cancels : Nat]

-----------------------------------------------------------------------------
(* The store *)

Stored == {r \in Runs : status[r] # "none"}

\* Mutant: the stored revision is overwritten whatever it is.
CanUpdate_Always(r, rev) == status[r] # "none"

\* _prepare_state_update accepts a state that was read at revision rev.
CanUpdate(r, rev) == revision[r] = rev /\ status[r] \notin Terminal

\* Mutant: the lookup of the key and the save are not one transaction.
KeyFree_Always(k) == TRUE

KeyFree(k) == k = NoKey \/ \A r \in Stored : key[r] # k

\* The next revision of r says s.
Update(r, s) ==
  /\ status' = [status EXCEPT ![r] = s]
  /\ revision' = [revision EXCEPT ![r] = @ + 1]
  /\ UNCHANGED <<key, parent>>

\* cancel_run: a run that has ended is left as it is.
Cancelled(r) ==
  IF CanUpdate(r, revision[r])
  THEN Update(r, "cancelled") ELSE UNCHANGED <<status, revision, key, parent>>

\* Mutant: fail_resume_claim expects the status from before the claim.
ClaimStands_Suspended(r, x) == status[r] = "suspended" /\ claim[r] = x

\* fail_resume_claim finds the claim it is to fail.
ClaimStands(r, x) == status[r] = "running" /\ claim[r] = x

\* Run ids are fresh; which one is given out next makes no difference.
Fresh == CHOOSE r \in Runs : status[r] = "none"

\* A run that is stored running, with the caller's key or with none.
NewRun(r, k, p, t, d) ==
  /\ status[r] = "none" /\ r = Fresh
  /\ KeyFree(k)
  /\ status' = [status EXCEPT ![r] = "running"]
  /\ key' = [key EXCEPT ![r] = k]
  /\ parent' = [parent EXCEPT ![r] = p]
  /\ task' = [task EXCEPT ![r] = t]
  /\ depth' = [depth EXCEPT ![r] = d]
  /\ late' = IF p \in listed THEN late \cup {r} ELSE late
  /\ UNCHANGED <<revision, pending, claim>>

-----------------------------------------------------------------------------
(* One run: _run_impl *)

\* "dead" is a task that was killed with its process or cancelled by asyncio,
\* by the timeout of a caller too; "unrecorded" one that ended by itself and
\* recorded nothing.
Live(r) == pc[r] \notin {"none", "over", "unrecorded", "dead"}

\* A check reads the token of the call, then the stored status.
Noticed(r) == task[r] \in token \/ status[r] = "cancelled"

Goto(r, p) == pc' = [pc EXCEPT ![r] = p]

\* The call is over and its caller is given o.
Ends(r, o) ==
  /\ pc' = [pc EXCEPT ![r] = "over"]
  /\ outcome' = [outcome EXCEPT ![r] = o]
  /\ UNCHANGED <<task, depth, steps>>

Trouble ==
  /\ troubles.deaths < MaxTroubles
  /\ troubles' = [troubles EXCEPT !.deaths = @ + 1]

Locally == UNCHANGED <<resumption, operators, troubles>>

Init ==
  /\ status = [r \in Runs |-> "none"]
  /\ revision = [r \in Runs |-> 0]
  /\ key = [r \in Runs |-> NoKey]
  /\ parent = [r \in Runs |-> NoRun]
  /\ pending = [r \in Runs |-> FALSE]
  /\ claim = [r \in Runs |-> NoClaim]
  /\ pc = [r \in Runs |-> "none"]
  /\ task = [r \in Runs |-> r]
  /\ depth = [r \in Runs |-> 0]
  /\ steps = [r \in Runs |-> 0]
  /\ outcome = [r \in Runs |-> "none"]
  /\ rpc = [x \in Resumers |-> "idle"]
  /\ target = [x \in Resumers |-> NoRun]
  /\ hand = [x \in Resumers |-> 0]
  /\ cont = [x \in Resumers |-> NoRun]
  /\ answer = [x \in Resumers |-> "none"]
  /\ inflight = {}
  /\ executed = [r \in Runs |-> 0]
  /\ token = {}
  /\ todo = <<>> /\ visited = {} /\ listed = {} /\ late = {}
  /\ troubles = [deaths |-> 0, cancels |-> 0]

\* run_agent of the application.  When its key is taken the caller is given
\* the state of the run that has it, and nothing is stored.
Start(r) ==
  /\ Cardinality({s \in Stored : parent[s] = NoRun}) < MaxStarts
  /\ \E k \in StartKeys : NewRun(r, k, NoRun, r, 0)
  /\ Goto(r, "begin")
  /\ UNCHANGED <<steps, outcome, token>> /\ Locally

\* _raise_if_agent_run_cancelled, before and after the segment.
Check(r, from, to) ==
  /\ pc[r] = from
  /\ IF Noticed(r) THEN Goto(r, "cancelling") /\ token' = token \cup {task[r]}
                   ELSE Goto(r, to) /\ UNCHANGED token
  /\ UNCHANGED <<store, task, depth, steps, outcome, late>> /\ Locally

CheckStart(r) == Check(r, "begin", "segment")

CheckEnd(r) == Check(r, "closing", "finishing")

\* The wrapped tool checks before it executes; AgentRunCancelled raised by a
\* tool becomes an error result, and the model loop goes on.
ToolCheck(r) ==
  /\ pc[r] = "segment"
  /\ steps[r] < MaxSteps
  /\ steps' = [steps EXCEPT ![r] = @ + 1]
  /\ IF Noticed(r) THEN UNCHANGED pc /\ token' = token \cup {task[r]}
                   ELSE Goto(r, "tool") /\ UNCHANGED token
  /\ UNCHANGED <<store, task, depth, outcome, late>> /\ Locally

\* The check is repeated when the tool returns, unless it raises.
Rechecked(r) == token' \in {token, IF Noticed(r) THEN token \cup {task[r]} ELSE token}

\* The tool has its result, asks for a human approval, or exceeds its timeout
\* with an unknown outcome.
ToolReturns(r) ==
  /\ pc[r] = "tool"
  /\ \/ Goto(r, "segment") /\ Rechecked(r)
     \/ \E p \in {"suspending", "failing"} : Goto(r, p) /\ UNCHANGED token
  /\ UNCHANGED <<store, task, depth, steps, outcome, late>> /\ Locally

\* A subagent tool runs the subagent as a child of this run, in the same call.
Spawn(r, c) ==
  /\ pc[r] = "tool"
  /\ NewRun(c, NoKey, r, task[r], depth[r] + 1)
  /\ pc' = [pc EXCEPT ![r] = "waiting", ![c] = "begin"]
  /\ UNCHANGED <<steps, outcome, token>> /\ Locally

\* Mutant: a timeout does not reach the run that is waited for.
Under_None(r) == {}

\* The runs of the call that r waits for.
Under(r) == {c \in Runs : Live(c) /\ task[c] = task[r] /\ depth[c] > depth[r]}

\* The child's exception is an error result, unless its outcome is unknown.
ChildReturns(r) ==
  /\ pc[r] = "waiting"
  /\ Under(r) = {}
  /\ \/ Goto(r, "segment") /\ Rechecked(r)
     \/ /\ \E c \in Runs : parent[c] = r /\ outcome[c] = "raised"
        /\ Goto(r, "failing") /\ UNCHANGED token
  /\ UNCHANGED <<store, task, depth, steps, outcome, late>> /\ Locally

\* The wall time of the run, or the timeout of the subagent tool, is up: the
\* subagents are cancelled by asyncio and record nothing.
ChildTimesOut(r) ==
  /\ pc[r] = "waiting"
  /\ Trouble
  /\ pc' = [c \in Runs |-> CASE c = r -> "failing" [] c \in Under(r) -> "dead" [] OTHER -> pc[c]]
  /\ UNCHANGED <<store, task, depth, steps, outcome, token, late, resumption, operators>>

\* The last model call of the segment returns; model calls look at the token.
SegmentEnds(r) ==
  /\ pc[r] = "segment"
  /\ \/ task[r] \notin token /\ Goto(r, "closing")
     \/ task[r] \in token /\ Goto(r, "cancelling")
     \/ Goto(r, "failing")
  /\ UNCHANGED <<store, task, depth, steps, outcome, token, late>> /\ Locally

\* The state in hand is still the initial one, at revision 0.  A final event
\* that cannot be delivered is raised after the state was recorded.
Record(r, s) ==
  /\ CanUpdate(r, 0)
  /\ Update(r, s)
  /\ pending' = [pending EXCEPT ![r] = s = "suspended"]
  /\ \E o \in {s, "raised"} : Ends(r, o)
  /\ UNCHANGED <<claim, token, late>>

\* Somebody else has updated the run.
Conflict(r) ==
  /\ ~CanUpdate(r, 0) /\ status[r] # "cancelled"
  /\ IF pc[r] = "finishing" THEN Goto(r, "failing") /\ UNCHANGED outcome ELSE Ends(r, "raised")
  /\ UNCHANGED <<store, task, depth, steps, token, late>>

\* _persist_agent_run_state: a refusal is a cancellation if the store says so.
Persist(r, s, refused) ==
  \/ Record(r, s)
  \/ /\ ~CanUpdate(r, 0) /\ status[r] = "cancelled"
     /\ refused
     /\ UNCHANGED <<store, token, late>>
  \/ Conflict(r)

\* The result is recorded; a final model answer may itself be an error.
Finish(r) ==
  /\ pc[r] = "finishing"
  /\ \E s \in {"completed", "failed"} :
       Persist(r, s, Goto(r, "cancelling") /\ UNCHANGED <<task, depth, steps, outcome>>)
  /\ Locally

Suspend(r) ==
  /\ pc[r] = "suspending"
  /\ Persist(r, "suspended", Ends(r, "cancelled"))
  /\ Locally

\* A hook that fails while the run suspends: the exception leaves the handler
\* before the state is recorded, and no other handler records it.  Nobody is
\* killed, and the caller is given the exception.
SuspendHookFails(r) ==
  /\ pc[r] = "suspending"
  /\ Goto(r, "unrecorded")
  /\ outcome' = [outcome EXCEPT ![r] = "raised"]
  /\ UNCHANGED <<store, task, depth, steps, token, late>> /\ Locally

\* The caller is given the exception, whatever the store says.
Fail(r) ==
  /\ pc[r] = "failing"
  /\ \/ /\ CanUpdate(r, 0)
        /\ Update(r, "failed")
        /\ Ends(r, "raised")
        /\ UNCHANGED <<pending, claim, token, late>>
     \/ /\ ~CanUpdate(r, 0)
        /\ Ends(r, IF status[r] = "cancelled" THEN "cancelled" ELSE "raised")
        /\ UNCHANGED <<store, token, late>>
  /\ Locally

\* AgentRunCancelled: cancel_run unless the store says cancelled already.
Cancel(r) ==
  /\ pc[r] = "cancelling"
  /\ Cancelled(r)
  /\ Ends(r, "cancelled")
  /\ UNCHANGED <<pending, claim, token, late>> /\ Locally

Execute(r) ==
  \/ CheckStart(r) \/ ToolCheck(r) \/ ToolReturns(r) \/ ChildReturns(r)
  \/ SegmentEnds(r) \/ CheckEnd(r) \/ Finish(r) \/ Suspend(r) \/ Fail(r) \/ Cancel(r)
  \/ \E c \in Runs : Spawn(r, c)

-----------------------------------------------------------------------------
(* resume_agent_run *)

Move(x, p) == rpc' = [rpc EXCEPT ![x] = p]

Answers(x, a) ==
  /\ rpc' = [rpc EXCEPT ![x] = "over"]
  /\ answer' = [answer EXCEPT ![x] = a]

\* A suspended run with a pending approval is loaded, and found resumable.
\* Claim tokens are fresh, as run ids are.
Resume(x, r) ==
  /\ rpc[x] = "idle" /\ x = CHOOSE y \in Resumers : rpc[y] = "idle"
  /\ status[r] = "suspended" /\ pending[r]
  /\ Move(x, "claiming")
  /\ target' = [target EXCEPT ![x] = r]
  /\ UNCHANGED <<store, execution, hand, cont, answer, inflight, executed, operators, token, late, troubles>>

\* Mutant: a claim only looks for the pending approval.
Claimable_Pending(r) == status[r] \in {"suspended", "running"} /\ pending[r]

\* _claim_pending_approval
Claimable(r) == status[r] = "suspended" /\ claim[r] = NoClaim /\ pending[r]

Claim(x) ==
  /\ rpc[x] = "claiming"
  /\ LET r == target[x] IN
     \/ /\ Claimable(r)
        /\ Update(r, "running")
        /\ claim' = [claim EXCEPT ![r] = x]
        /\ hand' = [hand EXCEPT ![x] = revision[r] + 1]
        /\ Move(x, "claimed")
        /\ UNCHANGED <<pending, answer>>
     \/ /\ ~Claimable(r)
        /\ Answers(x, "refused")
        /\ UNCHANGED <<store, hand>>
  /\ UNCHANGED <<execution, target, cont, inflight, executed, operators, token, late, troubles>>

\* The approved tool is executed under the claim: the token is looked at, the
\* stored status is not.  A denied tool is not executed.  A timeout, a
\* cancellation, a failing hook or a changed tool ends the resumption.
ExecuteApproved(x) ==
  /\ rpc[x] = "claimed"
  /\ \/ /\ x \notin token
        /\ executed' = [executed EXCEPT ![target[x]] = @ + 1]
        /\ \E p \in {"resolved", "reconciling"} : Move(x, p)
     \/ /\ \/ x \notin token /\ Move(x, "resolved")
           \/ Move(x, "reconciling")
        /\ UNCHANGED executed
  /\ UNCHANGED <<store, execution, target, hand, cont, answer, inflight, operators, token, late, troubles>>

\* The conversation continues in a child run, under a key of its own.
Continue(x, c) ==
  /\ rpc[x] = "resolved"
  /\ NewRun(c, target[x], target[x], x, 0)
  /\ Goto(c, "begin")
  /\ Move(x, "continuing")
  /\ cont' = [cont EXCEPT ![x] = c]
  /\ UNCHANGED <<steps, outcome, target, hand, answer, inflight, executed, operators, token, troubles>>

Returned(x) == outcome[cont[x]]

\* The continuation has returned a result.
Answered(x) == pc[cont[x]] = "over" /\ Returned(x) \in {"completed", "failed", "suspended"}

ContinuationEnds(x) ==
  /\ rpc[x] = "continuing"
  /\ ~Live(cont[x])
  /\ Move(x, IF Answered(x) THEN "settling" ELSE "reconciling")
  /\ UNCHANGED <<store, execution, target, hand, cont, answer, inflight, executed, operators, token, late, troubles>>

\* The claimed run takes the status of its continuation.
Settled(x) ==
  /\ Update(target[x], Returned(x))
  /\ pending' = [pending EXCEPT ![target[x]] = FALSE]
  /\ claim' = [claim EXCEPT ![target[x]] = NoClaim]

Settle(x) ==
  /\ rpc[x] = "settling"
  /\ IF CanUpdate(target[x], hand[x])
     THEN Settled(x) /\ Answers(x, "resumed")
     ELSE Move(x, "reconciling") /\ UNCHANGED <<store, answer>>
  /\ UNCHANGED <<execution, target, hand, cont, inflight, executed, operators, token, late, troubles>>

\* Mutant: the approval is handed back for another attempt.
FailClaim_Retry(r, x) ==
  IF ClaimStands(r, x)
  THEN Update(r, "suspended") /\ claim' = [claim EXCEPT ![r] = NoClaim] /\ UNCHANGED pending
  ELSE UNCHANGED store

\* fail_resume_claim of the claim r, x.
FailClaim(r, x) ==
  IF ClaimStands(r, x)
  THEN Update(r, "failed") /\ UNCHANGED <<pending, claim>>
  ELSE UNCHANGED store

\* Whatever went wrong under the claim, the claimed run is failed, not retried.
Reconcile(x) ==
  /\ rpc[x] = "reconciling"
  /\ FailClaim(target[x], x)
  /\ Answers(x, CASE ClaimStands(target[x], x) -> "failed"
                  [] status[target[x]] = "cancelled" -> "cancelled"
                  [] OTHER -> "changed")
  /\ UNCHANGED <<execution, target, hand, cont, inflight, executed, operators, token, late, troubles>>

\* A save that its task no longer awaits reaches the store.
LateSettle(x) ==
  /\ x \in inflight
  /\ inflight' = inflight \ {x}
  /\ IF CanUpdate(target[x], hand[x]) THEN Settled(x) ELSE UNCHANGED store
  /\ UNCHANGED <<execution, rpc, target, hand, cont, answer, executed, operators, token, late, troubles>>

Resumption(x) ==
  \/ Claim(x) \/ ExecuteApproved(x) \/ ContinuationEnds(x) \/ Settle(x) \/ Reconcile(x) \/ LateSettle(x)
  \/ \E c \in Runs : Continue(x, c)

-----------------------------------------------------------------------------
(* Tasks that are cancelled or die *)

Killed(t) == [r \in Runs |-> IF task[r] = t /\ Live(r) THEN "dead" ELSE pc[r]]

\* asyncio cancels a resumption: the continuation records nothing, the claim
\* is reconciled, and a save in flight may still be applied.
Interrupt(x) ==
  /\ rpc[x] \in Holding
  /\ Trouble
  /\ pc' = Killed(x)
  /\ Move(x, "reconciling")
  /\ inflight' \in {inflight, IF rpc[x] = "settling" THEN inflight \cup {x} ELSE inflight}
  /\ UNCHANGED <<store, task, depth, steps, outcome, target, hand, cont, answer, executed, operators, token, late>>

\* A call dies with its process, or a run_agent call is cancelled by asyncio.
Die(t) ==
  /\ Trouble
  /\ \/ pc # Killed(t)
     \/ t \in Resumers /\ rpc[t] \in Holding \cup {"claiming", "reconciling"}
  /\ pc' = Killed(t)
  /\ rpc' = [x \in Resumers |-> IF x = t THEN "dead" ELSE rpc[x]]
  /\ UNCHANGED <<store, task, depth, steps, outcome, target, hand, cont, answer, inflight, executed, operators, token, late>>

-----------------------------------------------------------------------------
(* Operators *)

Cancelling ==
  /\ troubles.cancels < MaxCancels
  /\ troubles' = [troubles EXCEPT !.cancels = @ + 1]
  /\ UNCHANGED <<pending, claim, execution, resumption, late>>

\* A call in progress.
InProgress(t) ==
  \/ \E r \in Runs : task[r] = t /\ Live(r)
  \/ t \in Resumers /\ rpc[t] \in Holding \cup {"claiming"}

\* The calls in progress that execute r or resume it.
Calls(r) == {t \in {task[r]} \cup {x \in Resumers : target[x] = r} : InProgress(t)}

\* An operator passes the token of a call of r, or none: the token is cancelled
\* if the run now is.
TokenFollows(r) ==
  \E T \in {{}} \cup {{t} : t \in Calls(r)} :
    token' = IF status'[r] = "cancelled" THEN token \cup T ELSE token

\* cancel_agent_run
CancelRun(r) ==
  /\ Cancelling
  /\ status[r] # "none"
  /\ Cancelled(r)
  /\ TokenFollows(r)
  /\ UNCHANGED <<todo, visited, listed>>

\* The application cancels the token it gave to a call.
CancelToken(t) ==
  /\ Cancelling
  /\ InProgress(t) /\ t \notin token
  /\ token' = token \cup {t}
  /\ UNCHANGED <<status, revision, key, parent, todo, visited, listed>>

List(r) == [op |-> "list", run |-> r]

Visit(r) == [op |-> "cancel", run |-> r]

\* cancel_agent_run_tree cancels the root first.
CancelTree(r) ==
  /\ Cancelling
  /\ visited = {}
  /\ status[r] # "none"
  /\ Cancelled(r)
  /\ visited' = {r}
  /\ todo' = <<List(r)>>
  /\ TokenFollows(r)
  /\ UNCHANGED listed

\* What a visit of r adds to the traversal: every visited run is listed.
Visited(r) == <<List(r)>>

\* Mutant: only running children are listed.
Children_Running(r) == {c \in Stored : parent[c] = r /\ status[c] = "running"}

Children(r) == {c \in Stored : parent[c] = r}

\* find_by_parent_run_id: the children are visited in the order of the store.
ListChildren ==
  /\ todo # <<>> /\ Head(todo).op = "list"
  /\ \E order \in [1..Cardinality(Children(Head(todo).run)) -> Children(Head(todo).run)] :
       /\ \A i, j \in DOMAIN order : order[i] = order[j] => i = j
       /\ todo' = [i \in DOMAIN order |-> Visit(order[i])] \o Tail(todo)
  /\ listed' = listed \cup {Head(todo).run}
  /\ UNCHANGED <<store, execution, resumption, token, late, troubles, visited>>

VisitChild ==
  /\ todo # <<>> /\ Head(todo).op = "cancel"
  /\ LET c == Head(todo).run IN
     \/ /\ c \notin visited
        /\ Cancelled(c)
        /\ visited' = visited \cup {c}
        /\ todo' = Visited(c) \o Tail(todo)
        /\ UNCHANGED <<pending, claim>>
     \/ /\ c \in visited
        /\ todo' = Tail(todo)
        /\ UNCHANGED <<store, visited>>
  /\ UNCHANGED <<execution, resumption, token, late, troubles, listed>>

\* fail_agent_run_resume_claim: a lease monitor fails a claim that it read at
\* some time, whether its resumer is alive or not.
MonitorFails(x) ==
  /\ hand[x] > 0
  /\ ClaimStands(target[x], x)
  /\ FailClaim(target[x], x)
  /\ UNCHANGED <<execution, resumption, operators, token, late, troubles>>

Operate ==
  \/ \E r \in Runs : CancelRun(r) \/ CancelTree(r)
  \/ \E t \in Tasks : CancelToken(t)
  \/ ListChildren \/ VisitChild
  \/ \E x \in Resumers : MonitorFails(x)

-----------------------------------------------------------------------------
(* Specification *)

Next ==
  \/ \E r \in Runs : Start(r) \/ Execute(r) \/ SuspendHookFails(r) \/ ChildTimesOut(r)
  \/ \E x \in Resumers : Resumption(x) \/ Interrupt(x) \/ \E r \in Runs : Resume(x, r)
  \/ \E t \in Tasks : Die(t)
  \/ Operate

Spec == Init /\ [][Next]_vars

\* Tasks that are not killed are scheduled, and saves in flight arrive.
FairSpec ==
  /\ Spec
  /\ \A r \in Runs : WF_vars(Execute(r))
  /\ \A x \in Resumers : WF_vars(Resumption(x))
=============================================================================
