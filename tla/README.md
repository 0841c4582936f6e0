# zhivex-ai: TLA+ models of durable agents and workflows

This directory is a verification project for the `zhivex_ai` package
(`src/src/zhivex_ai/`). It models the parts of the package where correctness is
hardest to test, because several tasks, processes or clients act on the same
state and any of them may stop at any await:

- durable workflow graphs, executed by workers that race, stall and crash over a
  shared checkpoint store and lease manager;
- agent runs over a shared run store, with subagents, approvals that other
  processes resume, and operators that cancel;
- generation: gateway requests and tool loops over wrapped models with a
  single-flight cache, a circuit breaker, deadlines and a shared budget;
- streams that own their producer, and the Responses host that records one;
- live agent runs over realtime sessions, with tool calls, concurrent updates,
  broken transports and cancellation at every await.

Everything here is translated from the code; `PROJECT.json` maps every
definition to its lines. Paths below are relative to `src/src/zhivex_ai/`.

## 1. Inventory of the system

| Component | State | Operations | Interacts with | Hard behaviour | What makes it correct |
|---|---|---|---|---|---|
| Workflow graph engine, `workflow_graph.py` | the checkpoint in hand, tasks of the current wave, lease guard | `run`, `recover_running`, `resume_workflow`, `cancel_workflow`, `fork_workflow`, the `_execute` loop, heartbeat | checkpoint store, lease manager, executors, agents, adapters | callers racing on one run, crashes between any two appends, stale checkpoints, partial waves | attempts won by one caller, routing as decided, interrupts acknowledged, no node stranded, every run settles |
| Checkpoint stores, `workflow_state.py` | append-only history per run, idempotency index | `append`, `append_fenced`, `load_latest`, `find_by_idempotency_key` | engine, lease rows | compare-and-swap on the sequence, ownership and append in one step | history gapless, final once terminal, one run per key, no stale owner |
| Lease managers, `workflow_state.py` | lease row, fencing counter | `acquire`, `renew`, `release`, `validate` | engine heartbeat, stores | calls that take effect late, expiry, takeover | one holder, fencing tokens grow, late calls harmless |
| Agent run stores, `agent_state.py` | revisioned run state, idempotency keys, approval claims | `save`, `claim_idempotency_key`, `cancel_run`, `claim_pending_approval`, `fail_resume_claim`, lookups | agent loop, approvals, operators | two resumes of one approval, cancellation racing a save, a monitor failing a live claim | one claim, terminal states final, one run per key |
| Agent execution, `agent.py`, `_agent_execution.py`, `_agent_approvals.py` | position of each run, its subagents, claims in hand, cancellation tokens | `_run_impl`, tools, subagents, `resume_agent_run`, `cancel_agent_run_tree` | stores, tools, child runs | cancellation while a tool runs, a tool whose outcome is unknown, deaths between claim and save, trees of runs | a tool executed once per claim, what is reported is what is stored, no run left running unowned, no orphans |
| Budgets, `_agent_budget.py` | ledgers shared by a parent and its children | `before_model`, `after_model`, `before_tool`, `after_tool` | tool loops | concurrent children pass the check together | overshoot bounded by the calls in flight, a tripped budget is final |
| Tool loop, `generate_text.py` | step, batch of tool calls, workers | `generate_text`, `_execute_tools` | models, budgets, approvals | parallel workers, one of them raises or suspends, cancellation | an approval is a boundary, workers are joined |
| Middleware, `middleware.py` | in-flight table, cache, breaker state | cached generate, circuit breaker | models, cache | single flight, half-open probes, waiters that give up | one upstream call per key, no waiter left behind, breaker consistent |
| Gateway and runtime, `gateway.py`, `runtime.py` | attempts, deadline | `_run_generate`, `execution_scope`, `with_retry` | wrapped models | fallback order, refusals, late answers | outcome agrees with the attempts, an exhausted request is final |
| Streaming, `_streaming.py` | replay buffer, wake-up event, runner task | `publish`, `close`, `stream`, `aclose`, `collect` | agent and text streams, host | several consumers and one event, eviction, cancellation in any order | no lost wake-up, no skipped event, closing is final |
| Responses host, `responses_host.py` | record and event log per response | `stream_prepared`, `append`, `complete`, `replay` | agent stream, clients | disconnects, store failures between two steps, completion racing replay | gapless replay, record, log and client agree |
| Declarative agents, `workflow.py` | none across calls | `SequentialAgent`, `ParallelAgent`, `LoopAgent` | agents | - | not modelled |
| Realtime sessions, `realtime.py` | connection, receiver task, `_closed`, `_ended`, configuration and its lock | `initialize`, `_receive_loop`, `send_tool_result`, `update`, `aclose` | provider, broadcast, live runs | close racing the receiver, a send racing the end, updates that overlap or fail halfway | one end, nothing but results after it, returned updates stay in force |
| Live agents, `_agent_live.py`, `_agent_streams.py` | position of the run, calls taken up, turns, the future of its session | `connect`, the event loop, tools, the handlers, `runner`, `LiveAgentStreamResult.update` | session, run store, tools, operators | repeated calls, responses that only ask for tools, cancellation inside handlers | every call executed and answered once and in order, the run ends with its answer, nothing left open |
| Providers, serialisation, catalog, skills, CLI, evaluation, UI, audio, observability | - | I/O, conversion, tables | - | - | not modelled: data and third-party wire formats |

## 2. Modules

    FencedLease          what a lease promises                  (abstract)
       ^ implemented by
    LeaseManager         lease managers, heartbeat, late calls, crashes
    LeaseManagerProofs                                          (TLAPS)

    RunLog               what a checkpoint store promises       (abstract)
       ^ implemented by
    WorkflowCheckpoint   the record of a run and its transitions (pure)
    WorkflowGraph        callers executing runs over the store and the lease
    WorkflowGraphProperties
    WorkflowGraphProofs  types, RunLog, executors, tokens       (TLAPS)
    WorkflowHistoryProofs  what histories say                   (TLAPS)

    AgentRunLife         what an agent run store promises       (abstract)
       ^ implemented by
    AgentRun             runs, subagents, resumers, operators over the store
    AgentRunProperties
    AgentRunProofs                                              (TLAPS)

    EventFeed            what a stream promises its readers     (abstract)
       ^ implemented by
    Broadcast            the replay buffer and its generators
    OwnedStream          Broadcast and the task that fills it
    BroadcastProofs      the buffer, for whoever uses it        (TLAPS)
    ResponsesHost        OwnedStream, the host, its store and its clients
    ResponsesHostProofs  the stream, then the host              (TLAPS)

    RealtimeSession      Broadcast, its receiver, updates, results and aclose
    LiveRun              RealtimeSession and the agent run that reads it
    LiveRunProofs                                               (TLAPS)

    ModelCalls           cache, breaker and provider retries around models
    Gateway              requests to the gateway over ModelCalls
    ToolLoop             loops with tools and a shared budget over ModelCalls
    Generation           Gateway and ToolLoop at the same time
    GenerationProofs                                            (TLAPS)

    MCLeaseManager, MCWorkflowGraph, MCAgentRun, MCOwnedStream,
    MCResponsesHost, MCLiveRun, MCGeneration     instances for TLC

**LeaseManager** is the lease of one run at the finest grain. A call samples the
clock when it is made and takes effect when its lock or transaction is
obtained, so calls in flight are records in `calls`. The heartbeat task may be
cancelled while its renewal is in a worker thread or on the wire: the renewal
stays in flight and may still be applied. `pc`, `guard` and `lost` are the
position of each worker in `_with_execution_lease_impl`, its `_WorkflowLeaseGuard`
and `guard.lost`. `entry` is the stored lease; with `Backend = "memory"` it is
deleted on release and `counter` is `_fencing_tokens[run_id]`; with `"sql"` the
row stays, its expiry zeroed. `lastWrite` is the fencing token of the newest
checkpoint appended under a lease.

**FencedLease** is the same lease with clocks and calls abstracted away: a grant
number and whether it is free, held or lapsed. `LeaseManager` implements it
(`ImplementsFencedLease`), and `WorkflowGraph` uses it, one per run, as `fence`
and `standing`.

**WorkflowCheckpoint** is the pure part of the engine: the checkpoint record,
what the engine reads from it (`Ready`, `Skippable`, `Undecided`, `Blocked`,
`FinalStatus`) and one operator per recorded transition (`Start`, `Retry`,
`FinishNode`, `Decide`, `Suspend`, `Recover`, `Acknowledge`, `Cancel`, `Fork`, ...).

**WorkflowGraph** is the concurrent part. Each caller is a task inside one API
call; `pc` says which await it is at, `ck` is the checkpoint it holds, `task` is
the progress of each node in its current wave, `guard`/`lost` its lease guard.

| Code | Actions |
|---|---|
| `run`: key lookup, first append | `CallRun`, `CallRecover`, `Create` |
| `_with_execution_lease_impl` | `Claim`, `Heartbeat`, `Unwind` |
| `recover_and_execute` | `RecoverLoad`, `RecoverAppend` |
| `_resume_workflow_claimed` | `CallResume`, `ResumeLoad`, `ResumeAppend`, `Reroute` |
| `cancel_workflow`, `fork_workflow` | `CallCancel`, `CancelAppend`, `CallFork`, `Create` |
| `_execute`, top of the loop | `LoopTop`, `SkipNode`, `ReturnSuspended`, `SuspendBefore`, `Conclude` |
| `_execute`, a wave | `BeginWave`, `StartNode`, `Dispatch`, `Return`, `Gather`, `Settle` |
| `_execute`, end of the wave | `CloseStop`, `CloseEdges`, `Abort`, `CloseInterrupt`, `CloseWave` |
| the environment | `Crash`, `Lapse`, `Revive` |

An action that appends has two outcomes, `Commit` (the store accepts: the
sequence is the expected one, the run is not terminal, and under a lease the
lease is still the caller's) and `Refused` (anything else: the exception unwinds
the call, and a lost lease is remembered in `lost`).

**RunLog** is what the documentation promises of the history ("Canonical
Checkpoints" in `docs/WORKFLOWS.md`): append-only, gapless, final once
terminal, one run per key. `WorkflowGraph` implements it (`ImplementsRunLog`).

**AgentRun** is the life of agent runs over one run store. `status`, `revision`,
`key`, `parent`, `pending`, `claim` are the stored state of each run; `pc`,
`depth`, `steps`, `outcome` are where its task is in `_run_impl`, `task` the call
it belongs to; `rpc`, `target`, `hand`, `cont`, `answer` are where each call of
`resume_agent_run` is, with `hand` the revision that its claim returned. A store
call is one step, and everything that a task does between two store calls or
awaits belongs to the step that begins it.

| Code | Actions |
|---|---|
| `run_agent`: claim of the key or first save | `Start` |
| `_raise_if_agent_run_cancelled` | `CheckStart`, `CheckEnd` |
| the tool loop of `_run_impl` | `ToolCheck`, `ToolReturns`, `SegmentEnds` |
| a subagent tool | `Spawn`, `ChildReturns`, `ChildTimesOut` |
| `_persist_agent_run_state`, refused or not | `Persist` (`Record`, `Conflict`) |
| the ends of `_run_impl` | `Finish`, `Suspend`, `SuspendHookFails`, `Fail`, `Cancel` |
| `resume_agent_run`: claim, approved tool, continuation, last save | `Resume`, `Claim`, `ExecuteApproved`, `Continue`, `ContinuationEnds`, `Settle` |
| a resumption that fails or is cancelled; its save may arrive late | `Interrupt`, `Reconcile`, `LateSettle` |
| a task or a process dies | `Die` |
| `cancel_agent_run`, `cancel_agent_run_tree`, tokens, `fail_agent_run_resume_claim` | `CancelRun`, `CancelTree`, `ListChildren`, `VisitChild`, `CancelToken`, `MonitorFails` |

**AgentRunLife** is what `docs/agents/durable-state.md` promises of a stored run:
one run per key, a revision that counts its updates, terminal states that nobody
overwrites, one claim of a pending approval. `AgentRun` implements it.

**Broadcast** is the replay buffer: `feed` is everything published (the code keeps
its length), `history` what is retained, `got` what each generator has yielded
(the code keeps its length, `cursor`), `phase` whether it waits for the event.
**OwnedStream** adds the runner task that fills it, calls of `aclose` and of
`collect`, which await and cancel it. **EventFeed** is the promise to readers:
every event, in order, from the first one on, or an error; never a gap.

**ResponsesHost** composes `OwnedStream` with `stream_prepared`: the host is the
reader and the collector of the stream; it records an event in its store, sends
it, and completes the record; the client may disconnect at any step and replay
later, another one polls, store calls may fail with or without their effect.

**RealtimeSession** is `CallbackRealtimeSession` over `Broadcast`, of which it is
another producer: `conn` is the transport, `receiver` the task of
`_receive_loop`, `closed` and `ended` the two flags, `closing` where `aclose` is.
Events are kinds: output, a response that answers or that only asks for tools, a
call with its id and arguments, a result, an error, the end. `config` and `wire`
are the parts of the configuration that updates have set here and at the
provider; a send that fails may have reached it.

**LiveRun** is the task of `run_live_impl` as the one reader of such a session.
`pc` is the await it is at; the awaits inside `await_boundary` (`Boundaries`) are
left whenever the token or the store says so, or the wall time is over.
`seen`, `awaiting` and `turns` are its loop variables, `ran` and `delivered` what it
executed and sent, `future` is `live_session_future`. `doomed` is a cancellation
that has been requested of the task and is raised at its next await, in a
handler too. `outcome` is what its caller is given.

| Code | Actions |
|---|---|
| `initialize`: opens, greets, or cleans up | `Opened`, `Greeted`, `NotConnected` |
| `_receive_loop` | `Receive`, `ReceiverEnds`, `ReceiverUnwinds` |
| `aclose` | `CloseSession`, `Shut`, `Joined`, `JoinInterrupted` |
| `update`, `LiveAgentStreamResult.update` | `StartUpdate`, `FinishUpdate`, `FailUpdate`, `UpdateStep` |
| `run_live_impl`: up to the first prompt | `Start`, `Save`, `Prepare`, `Connecting`, `ConnectFails`, `Connected`, `Prompt` |
| `await_boundary` | `Notice`, `WallTimeOver`, `Abandon` |
| its event loop | `ReadEvent`, `Process` (`ReadCall`, `ReadOutput`, `ReadEnd`, `ReadOther`) |
| a tool and its result | `InvokeTool`, `ToolReturns`, `Send`, `Deliver`, `DeliveryFails`, `Delivered` |
| the end, and the handlers | `Finish`, `Suspend`, `SuspendHookFails`, `PersistCancelled`, `Fail` |
| a cancelled task | `CancelTask`, `Interrupted`, `HandlerInterrupted` |
| the two `finally` | `Closing`, `Return` |

**ModelCalls** is a call of a wrapped model: the cache with its table of tasks in
flight around the breaker around a provider that retries. A task outlives the
callers that give it up (`asyncio.shield`) and has the deadline of the caller
that started it, because `create_task` copies the context. **Gateway** is
`_run_generate`, **ToolLoop** the loop of `generate_text` with `_execute_tools`
and the guard's ledger; **Generation** lets both work on the same models.

| Code | Actions |
|---|---|
| `_cached_generate`: join or start a task, give up | `Call`, `Abandon` |
| its task: cache, breaker, provider, store | `LookUp`, `ProviderAnswers`, `ProviderFails`, `ObserverRaises`, `DeadlineEnds`, `Store` |
| the breaker's cooldown, a deadline | `CoolDown`, `Expire` |
| `_run_generate` | `Submit`, `Choose`, `Attempt`, `Evaluate`, `AttemptTimesOut`, `Conclude`, `Exhaust` |
| `generate_text` with a budget guard | `Begin`, `Step`, `Response`, `CallFailed`, `EndBatch`, `Interrupt` |
| `_execute_tools` | `StartTool`, `ToolReturns`, `ToolRaises`, `ToolSuspends`, `Cancel`, `ToolStops`, `Join` |

## 3. What the runs check

All passing runs are exhaustive on their instance; sizes are distinct states.

| Run | Instance | Shows | States |
|---|---|---|---|
| `lease` | SQL backend, 2 workers, TTL 2, time to 4, 3 grants, 2 calls in flight | `FencedWritesMonotone`, refinement of `FencedLease` under late and lost calls and crashes | 253,888 |
| `leased` | a line, 2 callers, crash, lapse, cancellation, an adapter that suspends | stale owners never write (`FencesMonotone`), never two unexpired executors (`OneExecutorPerLease`), recorded outcomes are not taken back (`OutcomesAreFinal`) | 449,229 |
| `recovery` | a line without leases, racing recoveries, resumes and forks, interrupts before and after, a retried step, conditions that raise, a crash | attempts won by one caller and within the policy, `InterruptsHonoured`, refinement of `RunLog` | 562,706 |
| `routing` | a diamond, conditional edges, a captured failure, a node that may suspend, fail-fast failures | `RoutedByEdges`, `NothingStranded` | 28,531 |
| `settles` | one crash, one renewal fault, re-entry | liveness of workflows: `RunsSettle` | 164,556 |
| `agents` | 2 runs, 2 starts for one key, 2 resumers, operators, one death, interruption or timeout and one cancellation | `ApprovedOnce`, `ClaimGuarded`, `ReportsHonest`, `RunningIsOwned`, `NoOrphans`, `TreeCovered`, refinement of `AgentRunLife`, liveness: `RunsSettle` | 232,726 |
| `streams` | 2 readers, 2 collectors, 1 closer, 3 events in a buffer of 2 | `ClosedIsOver`, refinement of `EventFeed`, liveness: `StreamSettles` | 99,118 |
| `responses` | the host as reader and collector, 3 events in a buffer of 2, a client that disconnects, one that polls, one store fault | `ClientsHavePrefix`, `TextIsAgents`, `EndsAgree`, liveness: `ResponseSettles` | 123,054 |
| `live` | 2 calls, one of the agent's tools and one unknown, which may be repeated or have their ids reused, 2 updates, a buffer of 3, 2 turns, one cancellation | `CallsAnswered`, `EndedOnce`, `UpdatesKept`, `LeavesNothing`, liveness: `LiveSettles` | 325,229 |
| `generation` | any two of 2 requests and 2 loops at once, 2 models behind one breaker, 1 input, 2 troubles | `OneFlightPerKey`, `BreakerConsistent`, `RouteHonoured`, `BudgetHeld`, `SuspensionIsBoundary`, `NobodyStuck`, `ExhaustedIsFinal`, `TrippedStops` | 624,153 |

### Bounds

`WorkflowGraph`: `MaxCalls`, `MaxCrashes` and `MaxFaults` bound API calls, crashes
and lapses of a live owner's lease; a call that a lease refuses does not count.
Two callers suffice because every property is about a pair (a stale owner and
its successor, a worker and a canceller, two claimants of a key), and the
history between them is unconstrained. Definitions have two to four nodes: a
line and a diamond are the shapes in which a decision, a wave and a join
interact. In `LeaseManager`, TTL 2 and time 4 let a call be sampled before and
applied after an expiry and a takeover; `MaxFence` bounds grants and `MaxCalls`
calls in flight. The run takes the SQL backend; the in-memory one differs in
deleting a released lease, and the theorems of section 4 hold for both.

`AgentRun`: two runs are a parent and a child, a run that suspends and its
continuation, or two starts for one key; two resumers race for one approval.
`NoOrphans` and `TreeCovered` matter most in deeper trees, which the theorems of
section 4 cover: they hold for any number of runs and any nesting. Of what the environment
does, `MaxTroubles` bounds deaths, interruptions and timeouts, and `MaxCancels`
cancellations by an operator, one of each, so that the two meet; the theorems of
section 4 hold for any number. `StartKeys` is what the application may pass: both
starts pass the one key, as starts without a key meet in no record. `MaxSteps` bounds the tools of one run.

`OwnedStream`: the buffer of two is smaller than the three events, so that both
eviction and reading without it happen; two readers are what one shared
notification needs to go wrong.

`ResponsesHost`: three events over a buffer of two, one failing store call, which
may be any of them, with or without its effect.

`LiveRun`: four events of the provider are a call, its repetition, an output and an
answer, or a call, the response that asked for it, an output and an answer;
with an update or a cancellation two events suffice (`FewEvents`): updates
and the loop meet only in the transport and its end, and two events take the run
to every await at which it can be cancelled (a tool, a send, the end). The buffer of three is
smaller than a run's events, so that a run that falls behind is cut off.
`MaxCancels` = 1 lets one cancellation, in any of its three ways, hit any await;
the theorems hold for any number, of the task in its handlers too.

`Generation`: one input makes every caller meet in the caches; two of the four
callers at once are a request with a request, a loop with a loop, and one of
each; `MaxTroubles` = 2 bounds failures and deadlines and is enough to open the
breaker (`Threshold` = 2) or to have a late answer of an abandoned call. Each
ceiling of the budget is small enough to be reached. `Counted` is an `is_failure`
that ignores transient errors, so that both kinds occur. Both models share a
breaker, which middleware shared between models does.

Each cfg has `CHECK_DEADLOCK FALSE` where, once the bounds are used up and every
call has returned, nothing is left to do. Callers are symmetric where a cfg says
so, never in a run with a liveness property.

### Disagreements the runs show

Two runs are expected to be violated; each states a promise of the
documentation, and `PROJECT.json` quotes it.

| Run | What happens |
|---|---|
| `v_recovery` | a crash between `workflow-step-finish` and `workflow-edge-decisions`: recovery never evaluates those edges; the run ends failed as "inconsistent" |
| `v_suspended` | the continuation of a resumed run suspends again: its parent is stored suspended without a pending approval and can never be resumed |

The modules, with other constants, show more of the same kind. In
`workflow_graph.py`:

- a fork of a checkpoint suspended after a node strands that node's successors
  (`AllowFork` with an interrupt after, 1813);
- of two interrupts after nodes of one wave only the first is raised (1093);
- an interrupt after a node is never raised either when a sibling suspends in the
  same wave, or when the caller crashes before it and a resumption evaluates the
  node's edges (1716);
- a fork of a cancelled run keeps the nodes that the cancellation skipped, in a
  run that is not cancelled and may well reach them (1773-1830), hence the
  exception of forks in `RoutedByEdges`;
- a recovery that loads a suspended run resolves its skips before it looks at the
  pending interrupt (871-872), so a suspended run may still record skips;
- a renewal that raises makes a healthy node fail, and the failure is recorded
  because the lease is in fact still held (562);
- the adapter branch of `resume_workflow` (1644) skips the edges of siblings
  that completed beside the suspended step, which strands their successors;
- a captured failure beside a suspended sibling, or in a wave with a pending
  interrupt after it, is not routed after the resume: only completed nodes are
  looked for (1716);
- an interrupt after a node that was itself suspended and completed by
  `resume_workflow` is never raised (1713-1720);
- nodes that wait for the semaphore (942) are still dispatched after the
  cancellation of the run was recorded.

`NothingStranded` is therefore claimed for `routing`, whose instance leaves out
crashes between the two appends, adapters, forks, and a captured failure beside
a suspension. The instance says so by its constants; nothing in the module
excludes the cases. Section 4 proves it for every definition under these
conditions, which `Orderly` states. `InterruptsHonoured` is about interrupts that were raised, and
holds (section 4) in all of these cases: it does not say that each declared
interrupt after a node is raised, which the list above refutes.

In the agent runtime:

- an approved tool is executed although the run was cancelled in the store by
  another process after the claim: the token is looked at before it, the store is
  not (`ExecuteApproved`); `ClaimGuarded` therefore allows a cancelled run under a
  claim, and `ApprovedOnce` is what remains;
- a resume with an explicit `idempotency_key` that another run has is given that
  run as its continuation (the model gives continuations their default key);
- asyncio's cancellation of `run_agent` and a wall time that cuts a subagent off
  leave the run stored as running, as a death of the process does: `pc` is then
  "dead";
- so does, with its task alive and nobody killed, an `on_agent_end` hook that
  raises while the run suspends (`agent.py:1111-1118`): the exception leaves the
  handler before the state is recorded, and no sibling handler sees it. As long as
  the store itself does not fail, this is the one error path of `_run_impl` that
  forgets to record the end of a run. `pc`
  has a label of its own for it, "unrecorded" (`SuspendHookFails`), which
  `RunningIsOwned` and `RunsSettle` name as an exception next to "dead", and
  without which TLC refutes both;
- a runner of a stream that is cancelled before it first runs never closes its
  broadcast; `StreamSettles` excludes exactly that case.

In the generation layer (`middleware.py`, `gateway.py`):

- the task of a single flight has the deadline of the caller that started it, so
  others that joined it time out with it (`DeadlineEnds`);
- every caller that arrives after the cooldown probes the model, not one
  (`BreakerConsistent` holds nonetheless);
- a refusal is cached like an answer, and the usage of one cached answer is
  charged to every loop that it was shared with;
- an observer of state changes that raises on a success is counted as a failure
  of the model, and the answer is lost (`ObserverRaises`).

In the host (`responses_host.py`): a client that disconnects leaves the record in
progress, while the agent runs on; so does a store call that fails outside the
`try`. A host that falls behind the agent's retained events records the
response as failed, although the agent may complete. `ResponseSettles` names the
first two, `TextIsAgents` covers the third.

In live runs and realtime sessions:

- a session whose `connect` completes while `await_boundary` looks for a
  cancellation is dropped with the finished task (`_agent_live.py:268`): nobody
  closes its connection, whose receiver reads on, although `aclose` of the
  stream promises cleanup upstream. `Abandon` has the step and `LeavesNothing`
  leaves out sessions that the run was never given;
- the end that `aclose` publishes comes after the receiver, which it has joined,
  has closed the broadcast (`realtime.py:152-157`): a reader that was waiting has
  been told that the feed is over and never sees that event;
- a runner that is cancelled before its first step never settles
  `live_session_future`, and callers of `update` or `send_text` that wait for a
  session wait for ever (`LeavesNothing` names the case);
- a cancellation that reaches the handler which is to record the end of a run,
  be it the first (while the run suspends or fails) or a second, may leave it
  stored as running (outcome "cut"); so does an `on_agent_end` hook that raises
  in the handler that suspends it (`_agent_live.py:806-814`, outcome "raised").
  `LeavesNothing` names both and claims the record in every other case.

A fork copies `metadata["execution_lease"]` of its source, so the fencing tokens
in its history start from a token of another run: `FencesMonotone` speaks of runs
that were started, not forked.

### Fairness

| Specification | Fair | Why the code justifies it |
|---|---|---|
| `WorkflowGraph!FairSpec` | each caller's next step; `Lapse` of a lease whose owner is gone; strongly, re-entering a run that still runs | the event loop schedules ready tasks, store calls and executors return; time passes; an application retries `run(..., recover_running=True)`, and a caller is not always idle, hence strong |
| `AgentRun!FairSpec` | each run's and each resumer's next step | tasks that are not killed are scheduled, saves in flight arrive; nothing is assumed of operators, monitors or deaths |
| `OwnedStream!Spec` | the runner, each reader's pull, the joins | the event loop runs what is ready; a reader that is asked for its next event |
| `LiveRun!Spec` | the run's next step, the unwinding of a cancelled receiver | tools, sends and attempts to connect return or raise; nothing of the provider's events, of wall time, updates and cancellations |
| `ResponsesHost!HostSpec` | the host's next step, the runner | the same; nothing of the client |

`Generation` states no fairness: `NobodyStuck` says that whoever is not done can
go on, or waits for somebody who can, and every step uses up attempts, steps or
tools, which are bounded.

## 4. What is proved

TLAPS proves, for every value of the constants that the modules' named
assumptions allow, and without the bounds of the instances:

| Module | Theorem | Statement |
|---|---|---|
| `LeaseManagerProofs` | `TypeCorrect`, `SoleOwnerAlways`, `FencedWrites`, `Refinement` | `TypeOK`, `SoleOwner`, `FencedWritesMonotone`, `ImplementsFencedLease` |
| `WorkflowGraphProofs` | `TypeCorrect`, `HistoryIsLog`, `LeaseExcludes`, `FencesOrdered` | `TypeOK`, `ImplementsRunLog`, `OneExecutorPerLease`, `FencesMonotone` |
| `WorkflowHistoryProofs` | `OutcomesStay`, `EdgesDecide`, `InterruptsGate`, `AttemptsExplained`, `AttemptsWon`, `NobodyStranded` | `OutcomesAreFinal`, `RoutedByEdges`, `InterruptsHonoured`, `AttemptsAccounted`, `OneCallerPerAttempt`; `NothingStranded` where the definition is `Orderly`, nothing crashes and no lease lapses under its owner |
| `AgentRunProofs` | `TypeCorrect`, `ApprovalExecutesOnce`, `ClaimsGuard`, `ReportsAreHonest`, `RunningOwned`, `CallsNest`, `TreesCovered`, `Refinement` | `TypeOK`, `ApprovedOnce`, `ClaimGuarded`, `ReportsHonest`, `RunningIsOwned`, `NoOrphans`, `TreeCovered`, `ImplementsAgentRunLife` |
| `ResponsesHostProofs`, of streams | `TypeCorrect`, `WakeupsKept`, `CloseJoins`, `OwnersCancel`, `Refinement` | `StreamTypeOK`, `NoLostWakeup`, `ClosedIsOver`, `OnlyOwnersCancel`, `ImplementsEventFeed` |
| `ResponsesHostProofs`, of the host | `HostTypeCorrect`, `PrefixesSeen`, `EndsMarked`, `TextIsKept` | `HostTypeOK`, `ClientsHavePrefix`, `EndsAgree`, `TextIsAgents` |
| `LiveRunProofs` | `TypeCorrect`, `CallsAnsweredAlways`, `EndedOnceAlways`, `UpdatesKeptAlways`, `LeavesNothingAlways` | `LiveTypeOK`, `CallsAnswered`, `EndedOnce`, `UpdatesKept`, `LeavesNothing` |
| `GenerationProofs` | `TypeCorrect`, `SingleFlight`, `Served`, `BreakersAgree`, `Budget`, `Tripped`, `Boundary`, `ToolsJoined`, `Exhausted`, `RoutesKept`, `NobodyWaitsInVain` | `TypeOK`, `OneFlightPerKey`, `WaitersServed`, `BreakerConsistent`, `BudgetHeld`, `TrippedStops`, `SuspensionIsBoundary`, `NothingLeftRunning`, `ExhaustedIsFinal`, `RouteHonoured`; `GoesOn`, what `NobodyStuck` says with the guards written out |

### Leases

The only assumptions are a positive TTL, one of the two backends, natural bounds.
None of the properties is inductive alone. `IInv` adds to `TypeOK` and `SoleOwner`:

- `StoredIsNewest`: the stored lease, if there is one, is the newest grant, so
  a new grant's number is fresh. This is what the counter that survives a
  release is for.
- `NothingAhead`: no guard, call in flight or recorded write carries a token
  newer than the newest grant.
- `SentBefore`: a call was sampled at or before the present, so a lease it
  renews was unexpired at a past time, which is why a late renewal can only
  bring back the same grant (`Revive`).

`FencedWrites` follows because an append is accepted only when the writer's
token is the stored one, hence the newest, and `NothingAhead` bounds every
earlier write by it. `Refinement` maps the state by `Granted` and `Standing`
and takes each action to a step of `FencedLease` or a stutter, one lemma per
action that touches the stored lease.

### Workflows

For every workflow definition that passes `_validate`, any number of callers,
runs and keys, with or without leases, adapters and interrupts. The argument has
three layers.

1. *Transitions.* For each operator of `WorkflowCheckpoint` a lemma: applied to a
   checkpoint it yields one, numbered next and with the fencing token it had
   (`Follows`); `Stamp` changes the token only.
2. *Steps.* For each action of a caller at work a lemma `...Advances`: it leaves
   the history alone or commits something that follows the caller's checkpoint
   (`Records`), moves on with a wave that is open (`Moves`), and leaves the rest
   of the call alone (`Keeps`). `AdvancePreserves` then treats all of them at
   once; calls, the first append, leaving and the environment have lemmas of
   their own.
3. *Invariants.* `TypeOK` is not inductive: the next node to start or to settle
   is the first of a set that must not be empty (`WaveOpen`), and the newest
   checkpoint is read of a run that must exist (`Working`). For `RunLog`,
   `Numbered` says that the newest checkpoint is numbered by the length of the
   history, so the compare-and-swap on the sequence closes no gap, and
   `Creating` that a run is created once. `LeaseExcludes` needs `Guarded`: a
   caller without a guard has no wave, and no two guards of a run are the same
   grant. `FencesOrdered` needs `Loaded`, that the checkpoint in a caller's hand
   is in the history of its run, so that one with the newest sequence is the
   newest one, and `Current`, that no recorded token is ahead of the lease.

The assumptions are `DefinitionAssumption` and `EngineAssumption`: what
`_validate` checks, non-empty run ids, and the ranges of the constants.

### Histories of workflows

What a history says is proved from one invariant, `HInv`, with three conjuncts.

- `HistoriesKept`: every checkpoint on record is `Sound` (nodes were started where
  the edges lead and past their interrupt, only nodes that are done have decided
  edges, nothing runs in a suspended run, a pending interrupt after a node holds
  its edges back), and each one `Succeeds` the one before it (what is final stays,
  an attempt is counted or explained, interrupts are passed by their resumption
  or a cancellation). Sequences of checkpoints with these properties add up to
  `OutcomesAreFinal`, `AttemptsAccounted` and the rest (`Kept`, lemma `ExtendKept`:
  one checkpoint more).
- `Loaded`: what a caller holds is on record, hence sound; and because the append
  compares the sequence, what it appends succeeds the newest one.
- `CallersFit`: sound checkpoints are not enough for a step to yield a sound one.
  What a caller may do depends on what it knows at its place (`Fits`): that its wave
  is exactly what its checkpoint records as running, that a node it is to start is
  ready and not blocked, that a node whose edges it is to evaluate has finished,
  that what it holds has no pending interrupt.

There is a lemma for each operator of `WorkflowCheckpoint` (it yields a sound
successor) and one for each action (`Proceeds`: it adds such a checkpoint and goes
on to where it fits). `RoutedByEdges` is then about checkpoints, `SkipsIn` and
`AccountedIn` carry the first checkpoint of the history along. `AttemptsWon` adds
what is known of attempts not yet executed: nobody else has run the attempt that a
caller has won (`OwnAttempts`) and nobody else is about to (`Apart`), because it was
recorded by the compare-and-swap and attempts never decrease (`GrowsIn`).

Two of these properties said too much at first and the proof showed it: the
exception of forked and of cancelled runs in `RoutedByEdges`, and that of skips
recorded while an interrupt is pending in `InterruptsAreGates`, are states that
the code reaches (section 3).

### Agent runs

For any finite set of runs, any resumers and keys, any nesting of subagents. The
assumptions are that the "none" values are none of the others, that run ids are
no keys or claim tokens, that starts pass keys or none, and natural bounds. A lemma, `NextShape`, says once what
a step does to each run (it advances, is recorded, ends unrecorded, is stopped,
created, withdrawn, claimed or settled: `RunStep`) and to each resumer (`ResumerStep`), with one proof
step per action; each conjunct of the invariant is then proved from the shapes.
`IInv` adds to the properties:

- `RunInv`: a run whose task is at work is stored running at revision 0, or
  somebody has cancelled it. A run's own save is therefore refused only when it
  was cancelled, which makes `ReportsHonest` true of `AgentRunCancelled`; the
  branch `Conflict` of `_persist_agent_run_state` is never taken.
- `Hands`, `Claimed`, `ClaimedOnce`: a claim that was won is the only one that the
  run ever has, because its revision has moved on. This, and not the status, is
  why a second claim cannot succeed after a failed one.
- `Execution`: an executed tool belongs to a resumer that won a claim and has
  left the state in which it executes, hence once.
- `Saving`: a save in flight belongs to a resumer that no longer acts, so that it
  and the reconciliation cannot both be recorded.

`Refinement` maps `claimed` to whether some resumer holds a revision. `CallsNest`
has an invariant of its own, `Nested`, over the depth of a run in its call, and
`TreesCovered` one over the traversal, `Covers`: what is listed or still to be
listed accounts for every child that was not created late.

### Streams

For any events, readers, closers, collectors and any capacity. The buffer has an
invariant, `BInv`, of its own, and one lemma per operation in `BroadcastProofs`,
which streams and sessions share. In it `Buffered` says that the buffer holds the
newest events, as many as fit, and `Prefixes` that every reader has a prefix of the
feed; `ClosedLast` that the broadcast is closed only when the runner publishes no
more, which `EventFeed` needs and which holds because every close is the runner's
own or joins it first.

### The host of responses

For any events, capacity and number of faults. `HostInv` has the invariant of the
stream, whose lemmas are reused for every step of the host that touches it, and:

- `Following`: a client that is connected has been sent the log, but for the event
  in the host's hand. This gives `ClientsHavePrefix` across disconnects, since a
  replay starts from what the client has.
- `Finishing`: which end is recorded at each place of the code, that it is the last
  event, and that the record is marked before the client is told (`EndsAgree`).
- `TextKept`: the texts in the log are those that the host was given, but for the
  one it is about to record or has failed to; with `Caught`, that a host which was
  told the end has the whole feed, this is `TextIsAgents`.

Texts are compared by rank, the number of texts up to a position, instead of as
filtered sequences: `SelectSeq` is defined by recursion over the data, which is
beyond the provers, and cardinalities are not. `TextIsAgents` is stated so in
the module itself, and the run checks that statement.

### Realtime sessions and live runs

For any events, calls, tools, updates, turns, cancellations and any capacity. The
invariant has two parts. `IInv` is about what surrounds the loop, and each
conjunct answers one question:

- `Connection`: what the two flags and the receiver say about each other. A
  receiver exists once the connection is ready; a join is over only after it.
- `Flagged`: as long as `_ended` is not set nobody has published the end. With it
  `EndedOnce` is inductive, although the receiver, which was cancelled, and
  `aclose` may both come to the end.
- `Reached`: the connection is opened by a run that waits for it and is given to
  it alone; a run that is over has closed what it was given. `Recorded`: what is
  stored when it is about to end, unless its handler was cut or its suspension
  hook raised. Together they imply `LeavesNothing`.
- `Serial`: an update that is being sent has the lock and carries everything
  that is in force; nothing in force was taken back from the provider.

`LInv` is about the loop, for which `Looked` counts the events it has looked at.
`CallsAnswered` compares `ran` and `delivered` with those events, so the invariant
says what the flags of the code remember of them: `Calling`, that `seen` has
exactly the calls among them and that the one at hand is new; `Sending`, that
every call taken up was sent but for that one, which is executed before it is sent;
`Waiting`, that `awaiting` is true exactly when no output followed the last new
call, hence that no event so far could have ended the run. A step that neither
reads nor answers is treated once (`SameLoop`); reading, taking up a call, other
events, the answer, invoking and delivering have a lemma each.

`NobodyStranded` needs hypotheses, because `NothingStranded` is false in general.
`Orderly` has those about the definition and the deployment, each of which
excludes an entry of the list in section 3:

| Hypothesis | Without it |
|---|---|
| callers exclude each other, by leases or because there is one | a second caller recovers the run between the two appends of a wave and ends it, as after a crash |
| no run is forked | a fork of a run that is suspended after a node |
| an adapter suspends nothing | its resumption skips the edges of siblings |
| a captured failure has no interrupt after it, and is ordered by an edge against every node that may suspend | a resumption looks for completed nodes only, so it never routes the failure |
| no crash, and no lease that lapses under its owner | the loss of a wave between its two appends (`v_recovery`) |

A condition that raises and a fail-fast node that failed are exceptions of the
property itself.

A node is left over (`Leftover`) when it is done and its edges are undecided.
Only a step that records an outcome makes one, and two things clear it:
`_record_edge_decisions` of the same wave, or a resumption, which evaluates the
completed nodes. So `Kempt` says of the newest checkpoint of a run that goes on
that each node left over `Waits`, for a resumption that must come first because
a suspension or an interrupt is pending, or that a caller is in `Charge`; and
`Suited` says of that caller that its wave still has all of them on its list
(`Covers`). `Alive`, that whoever was granted a lease still has it, is what calm
means, and it keeps a second caller from taking over while there is somebody in
charge. When a run is about to end, nothing waits and nobody is in charge, hence
nothing is left over; then nothing can be pending either: of the pending nodes one
has no pending predecessor (`Foremost`, by well-founded induction on the rank of
an acyclic graph), all its edges are decided, so it is ready or to be skipped,
and the scan of the engine, which found nothing, would have found it.

### Generation

For any requests and loops over any models, breakers and inputs. The three parts
have invariants of their own, and a step of one is a stutter or a known step
(`CallsStep`, `LoopsStep`) of the others. `CallsInv` adds that a registered task
works on the key it is registered for, without which deregistering it could
remove another's. `LoopInv` adds to the budget that every count is covered by the
ledger: what was dispatched is at most what it counts (`AskedOnLedger`,
`StartsHeld`), and while calls are in flight it had room when the last of them
was dispatched (`TokensHeld`), which bounds the overshoot; `Refused` says that a
loop that tripped left a ledger that refuses everything from then on, because
counters only grow. `InOrder` says that a sequential batch is a returned prefix,
one tool, and an untouched rest, and gives `SuspensionIsBoundary`.

`RouteHonoured` is about the end of a request; `Honest` says what holds on the
way. `Passed`: every target before the current one has been tried, in order, and
none after it. `Pending`: a request that is not over has no answer but the refusal
it keeps, and has tried its target at most once for each retry begun. A lemma says
what one attempt more does to the list (`OneMoreAttempt`), and one each what an
answer, a spent target, the next target and another retry make of it. A step of the
models or the loops changes no request, so `RouteStep` has only the actions of the
gateway as cases.

`NobodyWaitsInVain` is the part of `NobodyStuck` that needs no `ENABLED`.
`RequestOpen`, `LoopOpen` and `FlightOpen` are the guards of the steps, written
out; `GoesOn` says that whoever is not over has its guard open, or awaits a task
that runs, or finds every task taken before its call and waits for one of them.
Two facts carry it. `Attended`: a caller that waits has an answer or a task
registered for it, since joining registers the caller, `Finish` answers all who
are registered, and to abandon a call touches no other caller. And `BatchOpen`:
a batch always has a worker that runs, one that may start, a reason to stop, or
nothing left to join, because no more workers are busy than run or have raised.
The instance needs at least one task and one input.

### Only model-checked

Every safety invariant that a run checks has its theorem, `NothingStranded` under
the conditions above, except

- `NobodyStuck`, which is about `ENABLED`. That the guards of
  `NobodyWaitsInVain` enable their steps is read off the actions; the run checks
  the property itself.

All liveness (`RunsSettle` twice, `StreamSettles`, `ResponseSettles`,
`LiveSettles`) is out of the provers' reach as well.

## 5. What the models leave out

Of workflows:

- State, outputs, prompts, timestamps, spans, metadata other than resolved
  interrupts and the execution lease; `ready_nodes`, which is stored and never
  read by the engine.
- Parallel edges between the same two nodes: an edge is the pair of its nodes.
- Which skippable node is recorded first: the scan of `_resolve_skipped` starts
  over at the first step after a pass, the model allows any order.
- Loads whose result the code only compares with "cancelled" are one action
  with that comparison.
- The lease token (a fresh uuid per grant) and the fencing token are one value.
- A caller whose task is cancelled is a crash whose lease lapses at once
  instead of being released; both make the run free to be taken over.
- A store that fails with an I/O error, or rejects the data of a checkpoint,
  ends the call like a crash, except in the edge evaluation, where it has the
  effect of a condition that raises.
- The loss of the lease is not retried by a custom `retry_if`.
- `migrate_workflow_run_checkpoint` (`workflow_state.py:651`), the projection of
  a run into an agent run store (`_persist_projection`), and the locks inside a
  store: every store call is one atomic step. The order in which Postgres takes
  its advisory locks (`workflow_state.py:1702`) is left out with them.
- The two clocks of a deployment with in-memory or SQLite leases on several
  hosts: these backends live on one host, Postgres uses the server's clock.

Of agent runs: parallel subagents of one run, several pending approvals at once,
handoffs, late saves of runs that were killed (a resumption's late save is
modelled), calls of a run store that fail with an I/O error (in a handler they
too leave a run unrecorded), the contents of messages, memory and traces, `RunLimits`. Of
generation: the variant of the loop in `stream_text`, guards that do not include
child runs, tools that run in threads and outlive their cancellation, the other
order of middleware (breaker outside the cache), streams of the gateway (they do
not fall back once a target is chosen), scoring of targets (the route is given).
Of streams: SSE framing. Of realtime sessions: the event of a finished
generation that is not the end of a response, calls without an id, `send_audio`
and `send_text`, which keep no state, several events in one message (the model
has them one after the other), and GPT-Live sessions (`OpenAILiveSession` of
`providers/_native_sessions.py`), which have a single reader and no buffer. Of
the host: non-streaming creation, the mapping of messages.

Declarative agents (`workflow.py`) keep nothing across calls and are a fixed
composition of agent runs. Providers, serialisation, catalog, skills, CLI,
evaluation, UI and observability are I/O, conversions and tables, with no state
that actors share.

## 6. Plan

1. Done: leases, checkpoint stores and the workflow engine; agent runs; streams
   and the host; generation; realtime sessions and live runs, with the proofs of
   section 4.
2. Done: the histories of workflows, the host and the routes of the gateway, with
   which every safety property has its theorem, `NothingStranded` with the
   conditions on a definition and its environment under which it holds.
3. GPT-Live sessions (`OpenAILiveSession`) with their delegated runs.
4. The projection of workflow runs into the agent run store, composed with
   `WorkflowGraph`'s run history; `migrate_workflow_run_checkpoint`.
