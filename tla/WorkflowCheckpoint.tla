------------------------- MODULE WorkflowCheckpoint -------------------------
(***************************************************************************)
(* The durable record of a workflow run and what each recorded transition  *)
(* does to it: the pure part of workflow_graph.py.                         *)
(*                                                                         *)
(* A node is its position in the definition (self._steps iterates in that  *)
(* order).  An edge is the pair of its nodes: a definition with two edges  *)
(* between the same nodes is not represented.  State, outputs, prompts,    *)
(* timestamps and ready_nodes (stored, never read by the engine) are left  *)
(* out; the metadata the engine reads back (resolved_interrupts,           *)
(* execution_lease) are the fields resolved and fence.                     *)
(***************************************************************************)
EXTENDS Naturals, FiniteSets

CONSTANTS
  N,                \* number of steps
  Edges,            \* pairs of nodes
  Entrypoints,      \* set of nodes
  Conditional,      \* edges that have a condition
  FailFast,         \* nodes with error_policy "fail_fast"
  MaxAttempts,      \* retry_policy.max_attempts of each node, 1 without policy
  InterruptBefore,  \* nodes with a declared interrupt before
  InterruptAfter,   \* nodes with a declared interrupt after
  Runs              \* run ids; bounds the number of runs

Nodes == 1..N

\* _validate_acyclic: the steps can be ordered along the edges.
Acyclic == \E rank \in [Nodes -> Nodes] : \A e \in Edges : rank[e[1]] < rank[e[2]]

\* _validate_reachability: what contains the entrypoints and is closed under
\* the edges contains every step.
AllReachable ==
  \A S \in SUBSET Nodes :
    Entrypoints \subseteq S /\ (\A e \in Edges : e[1] \in S => e[2] \in S) => S = Nodes

\* _validate: references exist.
ASSUME DefinitionAssumption ==
  /\ N \in Nat \ {0}
  /\ Edges \subseteq Nodes \X Nodes
  /\ Entrypoints \subseteq Nodes
  /\ Acyclic /\ AllReachable
  /\ Conditional \subseteq Edges
  /\ FailFast \subseteq Nodes
  /\ MaxAttempts \in [Nodes -> Nat \ {0}]
  /\ InterruptBefore \subseteq Nodes
  /\ InterruptAfter \subseteq Nodes
  /\ Runs # {}

-----------------------------------------------------------------------------
(* Types *)

RunStatus == {"running", "suspended", "completed", "failed", "cancelled"}

Terminal == {"completed", "failed", "cancelled"}

NodeStatus ==
  {"pending", "running", "suspended", "completed", "failed", "cancelled", "skipped"}

Decision == {"undecided", "taken", "dropped"}

Phases == {"before", "after"}

TransitionType ==
  {"workflow-start", "workflow-fork", "workflow-recovered", "workflow-resume",
   "workflow-cancelled", "workflow-interrupt", "workflow-finish",
   "workflow-step-start", "workflow-step-retry", "workflow-step-finish",
   "workflow-step-skipped", "workflow-edge-decisions"}

\* interrupt_id is a fresh uuid: the run and the sequence that recorded it.
Interrupt == [run : Runs, seq : Nat, phase : Phases, node : Nodes]

NoInterrupt == [none |-> TRUE]

Checkpoint ==
  [seq : Nat, status : RunStatus, last : TransitionType,
   node : [Nodes -> NodeStatus], attempt : [Nodes -> Nat],
   edge : [Edges -> Decision], interrupt : Interrupt \cup {NoInterrupt},
   resolved : SUBSET (Phases \X Nodes), fence : Nat]

-----------------------------------------------------------------------------
(* Reading a checkpoint *)

First(S) == CHOOSE n \in S : \A m \in S : n <= m

Incoming(n) == {e \in Edges : e[2] = n}

Outgoing(n) == {e \in Edges : e[1] = n}

InStatus(ck, S) == {n \in Nodes : ck.node[n] \in S}

AllDecided(ck, n) == \A e \in Incoming(n) : ck.edge[e] # "undecided"

SomeTaken(ck, n) == \E e \in Incoming(n) : ck.edge[e] = "taken"

\* Mutant: a join fires on its first taken edge.
Ready_AnyTaken(ck) ==
  {n \in InStatus(ck, {"pending"}) :
     IF Incoming(n) = {} THEN n \in Entrypoints ELSE SomeTaken(ck, n)}

\* _ready
Ready(ck) ==
  {n \in InStatus(ck, {"pending"}) :
     IF Incoming(n) = {} THEN n \in Entrypoints ELSE AllDecided(ck, n) /\ SomeTaken(ck, n)}

\* The nodes _resolve_skipped marks.
Skippable(ck) ==
  {n \in InStatus(ck, {"pending"}) :
     Incoming(n) # {} /\ AllDecided(ck, n) /\ ~SomeTaken(ck, n)}

\* The edges _evaluate_edges decides for a node.
Undecided(ck, n) == {e \in Outgoing(n) : ck.edge[e] = "undecided"}

\* Ready nodes whose declared interrupt was not acknowledged.
Blocked(ck) == {n \in Ready(ck) \cap InterruptBefore : <<"before", n>> \notin ck.resolved}

\* How _execute finishes a run when nothing is ready.
FinalStatus(ck) ==
  CASE InStatus(ck, {"cancelled"}) # {} -> "cancelled"
    [] InStatus(ck, {"cancelled"}) = {} /\ InStatus(ck, {"suspended"}) # {} -> "suspended"
    [] InStatus(ck, {"cancelled", "suspended"}) = {} /\ InStatus(ck, {"failed"}) # {} -> "failed"
    [] InStatus(ck, {"completed", "skipped"}) = Nodes -> "completed"
    [] OTHER -> "failed"  \* "no runnable nodes; definition or state is inconsistent"

\* _finish appends nothing when the run already ended this way.
AlreadyFinished(ck, status) == ck.status = status /\ ck.last = "workflow-finish"

-----------------------------------------------------------------------------
(* Transitions: the candidate each _update or _append records *)

Initial ==
  [seq |-> 0, status |-> "running", last |-> "workflow-start",
   node |-> [n \in Nodes |-> "pending"], attempt |-> [n \in Nodes |-> 0],
   edge |-> [e \in Edges |-> "undecided"], interrupt |-> NoInterrupt,
   resolved |-> {}, fence |-> 0]

\* Mutant: the edges leaving a skipped node stay open.
Skip_EdgesOpen(ck, n) ==
  [ck EXCEPT !.seq = @ + 1, !.last = "workflow-step-skipped",
             !.node[n] = "skipped"]

Skip(ck, n) ==
  [ck EXCEPT !.seq = @ + 1, !.last = "workflow-step-skipped",
             !.node[n] = "skipped",
             !.edge = [e \in Edges |-> IF e \in Undecided(ck, n) THEN "dropped" ELSE @[e]]]

Start(ck, n) ==
  [ck EXCEPT !.seq = @ + 1, !.last = "workflow-step-start", !.status = "running",
             !.node[n] = "running",
             !.attempt[n] = @ + 1]

Retry(ck, n) ==
  [ck EXCEPT !.seq = @ + 1, !.last = "workflow-step-retry",
             !.node[n] = "pending"]

FinishNode(ck, n, status) ==
  [ck EXCEPT !.seq = @ + 1, !.last = "workflow-step-finish",
             !.node[n] = status]

\* The value an edge may get: no condition means taken.
Values(ck, n, e) ==
  IF ck.node[n] \notin {"completed", "failed"} THEN {"dropped"}
  ELSE IF e \notin Conditional THEN {"taken"}
  ELSE {"taken", "dropped"}

\* The joint outcomes of _evaluate_edges for a node.
Choices(ck, n) ==
  {c \in [Undecided(ck, n) -> {"taken", "dropped"}] :
     \A e \in Undecided(ck, n) : c[e] \in Values(ck, n, e)}

Decide(ck, choice) ==
  [ck EXCEPT !.seq = @ + 1, !.last = "workflow-edge-decisions",
             !.edge = [e \in Edges |-> IF e \in DOMAIN choice THEN choice[e] ELSE @[e]]]

Suspend(ck, r, phase, n) ==
  [ck EXCEPT !.seq = @ + 1, !.last = "workflow-interrupt", !.status = "suspended",
             !.interrupt = [run |-> r, seq |-> ck.seq + 1, phase |-> phase, node |-> n]]

FinishRun(ck, status) ==
  [ck EXCEPT !.seq = @ + 1, !.last = "workflow-finish", !.status = status]

Recover(ck) ==
  [ck EXCEPT !.seq = @ + 1, !.last = "workflow-recovered", !.status = "running",
             !.node = [n \in Nodes |-> IF @[n] = "running" THEN "pending" ELSE @[n]]]

\* resume_workflow acknowledging the pending interrupt.
Acknowledge(ck) ==
  [ck EXCEPT !.seq = @ + 1, !.last = "workflow-resume", !.status = "running",
             !.interrupt = NoInterrupt,
             !.resolved = @ \cup {<<ck.interrupt.phase, ck.interrupt.node>>}]

\* resume_workflow of a suspended node: an adapter step is dispatched again,
\* an agent step continues its child run and reports how that went.
Redispatch(ck, n) ==
  [ck EXCEPT !.seq = @ + 1, !.last = "workflow-resume", !.status = "running",
             !.node[n] = "pending"]

Continue(ck, n, status) ==
  [ck EXCEPT !.seq = @ + 1, !.last = "workflow-resume",
             !.status = IF status = "suspended" THEN "suspended" ELSE "running",
             !.node[n] = status]

\* Mutant: finished nodes are marked as well.
Cancel_Finished(ck) ==
  [ck EXCEPT !.seq = @ + 1, !.last = "workflow-cancelled", !.status = "cancelled",
             !.interrupt = NoInterrupt,
             !.node = [n \in Nodes |-> IF @[n] = "pending" THEN "skipped" ELSE "cancelled"]]

Cancel(ck) ==
  [ck EXCEPT !.seq = @ + 1, !.last = "workflow-cancelled", !.status = "cancelled",
             !.interrupt = NoInterrupt,
             !.node = [n \in Nodes |-> CASE @[n] \in {"running", "suspended"} -> "cancelled"
                                         [] @[n] = "pending" -> "skipped"
                                         [] OTHER -> @[n]]]

Fork(ck) ==
  [ck EXCEPT !.seq = 0, !.last = "workflow-fork", !.status = "running",
             !.interrupt = NoInterrupt, !.resolved = {},
             !.node = [n \in Nodes |-> IF @[n] \in {"running", "suspended"} THEN "pending" ELSE @[n]]]

\* metadata["execution_lease"], stamped by _append under a lease.
Stamp(ck, token) == IF token = 0 THEN ck ELSE [ck EXCEPT !.fence = token]
=============================================================================
