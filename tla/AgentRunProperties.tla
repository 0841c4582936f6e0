------------------------- MODULE AgentRunProperties -------------------------
(* What runs of agents must satisfy, whoever executes, resumes or cancels.  *)
EXTENDS AgentRun

\* An approved tool is executed at most once for each suspended run, however
\* many callers resume it and whatever happens to them: _claim_pending_approval
\* and the reconciliation of a claim, agent.py:2611-2755.
ApprovedOnce == \A r \in Runs : executed[r] <= 1

\* While a resumer works on a run its claim stands, and nobody but a
\* cancellation or a lease monitor has moved the run from the revision that
\* the claim returned.
ClaimGuarded ==
  \A x \in Resumers : rpc[x] \in Holding =>
    /\ claim[target[x]] = x
    /\ \/ status[target[x]] = "running" /\ revision[target[x]] = hand[x]
       \/ status[target[x]] \in {"cancelled", "failed"}

\* A caller that is told how a run ended is told what the store holds: in
\* particular AgentRunCancelled is raised only for a run that is recorded
\* cancelled, and no result is returned that was not recorded
\* (_persist_agent_run_state).
ReportsHonest ==
  /\ \A r \in Runs : outcome[r] \in Terminal => status[r] = outcome[r]
  /\ \A x \in Resumers :
       /\ answer[x] \in {"failed", "cancelled"} => status[target[x]] = answer[x]
       /\ answer[x] = "resumed" => status[target[x]] \in {Returned(x), "cancelled"}
       /\ answer[x] # "none" => status[target[x]] # "running" \/ claim[target[x]] # x

\* A run that is stored running is being executed, or is claimed by a resumer
\* at work, with two exceptions: its task was killed or cancelled by asyncio
\* ("dead"), or an on_agent_end hook raised while it suspended ("unrecorded",
\* agent.py:1111-1118).  No other error path of _run_impl or resume_agent_run
\* forgets to record the end of a run.  Calls of the store do not fail here.
RunningIsOwned ==
  \A r \in Runs : status[r] = "running" =>
    \/ Live(r) \/ pc[r] \in {"unrecorded", "dead"}
    \/ \E x \in Resumers : claim[r] = x /\ rpc[x] \in Holding \cup {"reconciling", "dead"}

\* Runs are nested as their calls are: the runs of a call that still execute
\* below another run are waited for by it, and a continuation by its resumer.
\* A timeout of a parent leaves no child behind that goes on executing.
NoOrphans ==
  \A r \in Runs : Live(r) /\ parent[r] # NoRun =>
    \/ pc[parent[r]] = "waiting" /\ task[parent[r]] = task[r]
    \/ task[r] \in Resumers /\ rpc[task[r]] = "continuing" /\ cont[task[r]] = r

\* When cancel_agent_run_tree has returned, every run that it visited has
\* ended, and a child of one that it missed was created after the lookup.
TreeCovered ==
  visited # {} /\ todo = <<>> =>
    /\ \A r \in visited : status[r] \in Terminal
    /\ \A c \in Stored : parent[c] \in visited => c \in visited \cup late

\* docs/agents/approvals.md: the SDK persists status="suspended" and a pending
\* approval; so a suspended run can be resumed.
SuspendedAsks == \A r \in Runs : status[r] = "suspended" => pending[r]

\* The store and its callers keep the promises of AgentRunLife.
Life == INSTANCE AgentRunLife WITH
  claimed <- [r \in Runs |-> \E x \in Resumers : target[x] = r /\ hand[x] > 0]

ImplementsAgentRunLife == Life!Spec

\* A run does not stay running for ever, unless the task that executes it was
\* killed or cancelled by asyncio, the resumer that claims it was killed, or an
\* on_agent_end hook raised while it suspended (agent.py:1111-1118), which
\* leaves it running with nobody killed.  (A resumption stops in the model when
\* the run ids are used up.)
RunsSettle ==
  \A r \in Runs : status[r] = "running" ~>
    \/ status[r] # "running" \/ pc[r] \in {"unrecorded", "dead"}
    \/ \E x \in Resumers : claim[r] = x /\ (rpc[x] = "dead" \/ (rpc[x] = "resolved" /\ Stored = Runs))
=============================================================================
