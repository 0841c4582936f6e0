----------------------- MODULE WorkflowHistoryProofs -----------------------
(***************************************************************************)
(* Theorems about what the histories of WorkflowGraph say, for every       *)
(* workflow definition, any number of callers and runs and any bounds:     *)
(* outcomes are final, nodes run where the edges lead, attempts are        *)
(* accounted for and won by one caller, interrupts are gates, and nothing  *)
(* is left stranded where callers exclude each other and nothing fails.    *)
(***************************************************************************)
EXTENDS WorkflowGraphProofs, FiniteSetTheorems

-----------------------------------------------------------------------------
(* One checkpoint after another *)

\* The statuses a node never leaves.
Done == {"completed", "failed", "skipped"}

\* No running node has an unacknowledged interrupt before it, and nodes were
\* started where the edges lead.
StartsJustified(k) ==
  /\ \A n \in InterruptBefore : k.node[n] = "running" => <<"before", n>> \in k.resolved
  /\ \A n \in Nodes : Incoming(n) # {} /\ k.attempt[n] > 0 => AllDecided(k, n) /\ SomeTaken(k, n)

\* Edges are decided once the node they leave is done.
EdgesJustified(k) == \A e \in Edges : k.edge[e] # "undecided" => k.node[e[1]] \in Done

\* Nothing runs in a suspended run, and only such a run has an interrupt.
Rests(k) ==
  /\ k.status = "suspended" => InStatus(k, {"running"}) = {}
  /\ k.interrupt # NoInterrupt => k.status = "suspended"

\* The node of a pending interrupt after it holds its edges back.
HoldsBack(k) ==
  k.interrupt # NoInterrupt /\ k.interrupt.phase = "after" =>
    /\ k.node[k.interrupt.node] \in {"completed", "failed"}
    /\ Undecided(k, k.interrupt.node) = Outgoing(k.interrupt.node)

\* What is true of every checkpoint in the store.
Sound(k) == StartsJustified(k) /\ EdgesJustified(k) /\ Rests(k) /\ HoldsBack(k)

\* What is recorded for good stays as it is.
Final(k, x) ==
  /\ \A e \in Edges : k.edge[e] # "undecided" => x.edge[e] = k.edge[e]
  /\ \A n \in Nodes : k.node[n] \in Done => x.node[n] = k.node[n]

\* x puts a started node back without a retry.
PutsBack(k, x, n) ==
  x.last \in {"workflow-recovered", "workflow-resume"} /\ k.node[n] \in {"running", "suspended"}

\* An attempt starts a pending node; a node becomes pending again by a retry
\* its policy allows, or because it is put back.
Tries(k, x) ==
  \A n \in Nodes :
    \/ /\ x.attempt[n] = k.attempt[n]
       /\ x.node[n] = "pending" => k.node[n] = "pending" \/ k.attempt[n] < MaxAttempts[n] \/ PutsBack(k, x, n)
    \/ x.attempt[n] = k.attempt[n] + 1 /\ k.node[n] = "pending" /\ x.node[n] # "pending"

\* What InterruptsAreGates says of two checkpoints.
Gates(k, x) ==
  /\ k.interrupt # NoInterrupt =>
       \/ x.interrupt = k.interrupt /\ x.last = "workflow-step-skipped"
       \/ x.interrupt = NoInterrupt /\ x.last = "workflow-cancelled"
       \/ x.interrupt = NoInterrupt /\ x.last = "workflow-resume" /\ Acknowledged(k) \in x.resolved
  /\ k.resolved \subseteq x.resolved
  /\ \A m \in x.resolved \ k.resolved :
       k.interrupt # NoInterrupt /\ m = Acknowledged(k) /\ x.last = "workflow-resume"

Unreachable(k, n) == Incoming(n) # {} /\ AllDecided(k, n) /\ ~SomeTaken(k, n)

\* A node is skipped by the cancellation of its run or when no edge leads to it.
Skips(k, x) ==
  \A n \in Nodes : x.node[n] = "skipped" /\ k.node[n] # "skipped" => x.status = "cancelled" \/ Unreachable(k, n)

\* What is true of every checkpoint and the next one of its run.
Succeeds(k, x) == Final(k, x) /\ Tries(k, x) /\ Gates(k, x) /\ Skips(k, x)

\* What is true of the first checkpoint of a run.
Opens(x) ==
  /\ Sound(x) /\ InStatus(x, {"running"}) = {} /\ x.interrupt = NoInterrupt
  /\ x.last \in {"workflow-start", "workflow-fork"}
  /\ x.last = "workflow-start" => \A n \in Nodes : x.attempt[n] = 0 /\ x.node[n] # "skipped"

\* What was read of the edges of a checkpoint stays true as long as they do.
LEMMA SameEdges ==
  ASSUME NEW k, NEW x, x.edge = k.edge
  PROVE  \A n : /\ AllDecided(x, n) <=> AllDecided(k, n)
                /\ SomeTaken(x, n) <=> SomeTaken(k, n)
                /\ Undecided(x, n) = Undecided(k, n)
BY DEF AllDecided, SomeTaken, Undecided

-----------------------------------------------------------------------------
(* What each transition changes *)

LEMMA SkipParts ==
  ASSUME NEW k \in Checkpoint, NEW n \in Nodes
  PROVE  LET x == Skip(k, n) IN
         /\ x.last = "workflow-step-skipped" /\ x.status = k.status /\ x.attempt = k.attempt
         /\ x.node = [k.node EXCEPT ![n] = "skipped"]
         /\ x.edge = [e \in Edges |-> IF e \in Undecided(k, n) THEN "dropped" ELSE k.edge[e]]
         /\ x.interrupt = k.interrupt /\ x.resolved = k.resolved
BY Zenon DEF Skip, Checkpoint

LEMMA StartParts ==
  ASSUME NEW k \in Checkpoint, NEW n \in Nodes
  PROVE  LET x == Start(k, n) IN
         /\ x.last = "workflow-step-start" /\ x.status = "running"
         /\ x.attempt = [k.attempt EXCEPT ![n] = k.attempt[n] + 1]
         /\ x.node = [k.node EXCEPT ![n] = "running"] /\ x.edge = k.edge
         /\ x.interrupt = k.interrupt /\ x.resolved = k.resolved
BY Zenon DEF Start, Checkpoint

LEMMA RetryParts ==
  ASSUME NEW k \in Checkpoint, NEW n \in Nodes
  PROVE  LET x == Retry(k, n) IN
         /\ x.last = "workflow-step-retry" /\ x.status = k.status /\ x.attempt = k.attempt
         /\ x.node = [k.node EXCEPT ![n] = "pending"] /\ x.edge = k.edge
         /\ x.interrupt = k.interrupt /\ x.resolved = k.resolved
BY Zenon DEF Retry, Checkpoint

LEMMA FinishNodeParts ==
  ASSUME NEW k \in Checkpoint, NEW n \in Nodes, NEW s
  PROVE  LET x == FinishNode(k, n, s) IN
         /\ x.last = "workflow-step-finish" /\ x.status = k.status /\ x.attempt = k.attempt
         /\ x.node[n] = s /\ \A m \in Nodes \ {n} : x.node[m] = k.node[m]
         /\ x.edge = k.edge /\ x.interrupt = k.interrupt /\ x.resolved = k.resolved
<1> DEFINE x == FinishNode(k, n, s)
<1>1. /\ x.last = "workflow-step-finish" /\ x.status = k.status /\ x.attempt = k.attempt
      /\ x.edge = k.edge /\ x.interrupt = k.interrupt /\ x.resolved = k.resolved
      /\ x.node = [k.node EXCEPT ![n] = s]
  BY Zenon DEF FinishNode, Checkpoint
<1>2. k.node \in [Nodes -> NodeStatus]
  BY Parts
<1> HIDE DEF x
<1>3. x.node[n] = s /\ \A m \in Nodes \ {n} : x.node[m] = k.node[m]
  BY <1>1, <1>2
<1> QED
  BY <1>1, <1>3, Zenon DEF x

LEMMA DecideParts ==
  ASSUME NEW k \in Checkpoint, NEW choice
  PROVE  LET x == Decide(k, choice) IN
         /\ x.last = "workflow-edge-decisions" /\ x.status = k.status /\ x.attempt = k.attempt
         /\ x.node = k.node
         /\ x.edge = [e \in Edges |-> IF e \in DOMAIN choice THEN choice[e] ELSE k.edge[e]]
         /\ x.interrupt = k.interrupt /\ x.resolved = k.resolved
BY Zenon DEF Decide, Checkpoint

LEMMA SuspendParts ==
  ASSUME NEW k \in Checkpoint, NEW r, NEW p, NEW n
  PROVE  LET x == Suspend(k, r, p, n) IN
         /\ x.last = "workflow-interrupt" /\ x.status = "suspended" /\ x.attempt = k.attempt
         /\ x.node = k.node /\ x.edge = k.edge /\ x.resolved = k.resolved
         /\ x.interrupt.phase = p /\ x.interrupt.node = n
BY Zenon DEF Suspend, Checkpoint

LEMMA FinishRunParts ==
  ASSUME NEW k \in Checkpoint, NEW s
  PROVE  LET x == FinishRun(k, s) IN
         /\ x.last = "workflow-finish" /\ x.status = s /\ x.attempt = k.attempt
         /\ x.node = k.node /\ x.edge = k.edge
         /\ x.interrupt = k.interrupt /\ x.resolved = k.resolved
BY Zenon DEF FinishRun, Checkpoint

LEMMA RecoverParts ==
  ASSUME NEW k \in Checkpoint
  PROVE  LET x == Recover(k) IN
         /\ x.last = "workflow-recovered" /\ x.status = "running" /\ x.attempt = k.attempt
         /\ x.node = [n \in Nodes |-> IF k.node[n] = "running" THEN "pending" ELSE k.node[n]]
         /\ x.edge = k.edge /\ x.interrupt = k.interrupt /\ x.resolved = k.resolved
BY Zenon DEF Recover, Checkpoint

LEMMA AcknowledgeParts ==
  ASSUME NEW k \in Checkpoint
  PROVE  LET x == Acknowledge(k) IN
         /\ x.last = "workflow-resume" /\ x.status = "running" /\ x.attempt = k.attempt
         /\ x.node = k.node /\ x.edge = k.edge /\ x.interrupt = NoInterrupt
         /\ x.resolved = k.resolved \cup {Acknowledged(k)}
BY Zenon DEF Acknowledge, Acknowledged, Checkpoint

LEMMA RedispatchParts ==
  ASSUME NEW k \in Checkpoint, NEW n
  PROVE  LET x == Redispatch(k, n) IN
         /\ x.last = "workflow-resume" /\ x.status = "running" /\ x.attempt = k.attempt
         /\ x.node = [k.node EXCEPT ![n] = "pending"] /\ x.edge = k.edge
         /\ x.interrupt = k.interrupt /\ x.resolved = k.resolved
BY Zenon DEF Redispatch, Checkpoint

LEMMA ContinueParts ==
  ASSUME NEW k \in Checkpoint, NEW n \in Nodes, NEW s
  PROVE  LET x == Continue(k, n, s) IN
         /\ x.last = "workflow-resume" /\ x.attempt = k.attempt
         /\ x.node[n] = s /\ \A m \in Nodes \ {n} : x.node[m] = k.node[m]
         /\ x.edge = k.edge /\ x.interrupt = k.interrupt /\ x.resolved = k.resolved
<1> DEFINE x == Continue(k, n, s)
<1>1. /\ x.last = "workflow-resume" /\ x.attempt = k.attempt
      /\ x.edge = k.edge /\ x.interrupt = k.interrupt /\ x.resolved = k.resolved
      /\ x.node = [k.node EXCEPT ![n] = s]
  BY Zenon DEF Continue, Checkpoint
<1>2. k.node \in [Nodes -> NodeStatus]
  BY Parts
<1> HIDE DEF x
<1>3. x.node[n] = s /\ \A m \in Nodes \ {n} : x.node[m] = k.node[m]
  BY <1>1, <1>2
<1> QED
  BY <1>1, <1>3, Zenon DEF x

LEMMA CancelParts ==
  ASSUME NEW k \in Checkpoint
  PROVE  LET x == Cancel(k) IN
         /\ x.last = "workflow-cancelled" /\ x.status = "cancelled" /\ x.attempt = k.attempt
         /\ x.node = [n \in Nodes |-> CASE k.node[n] \in {"running", "suspended"} -> "cancelled"
                                        [] k.node[n] = "pending" -> "skipped"
                                        [] OTHER -> k.node[n]]
         /\ x.edge = k.edge /\ x.interrupt = NoInterrupt /\ x.resolved = k.resolved
BY Zenon DEF Cancel, Checkpoint

LEMMA ForkParts ==
  ASSUME NEW k \in Checkpoint
  PROVE  LET x == Fork(k) IN
         /\ x.last = "workflow-fork" /\ x.attempt = k.attempt
         /\ x.node = [n \in Nodes |-> IF k.node[n] \in {"running", "suspended"} THEN "pending" ELSE k.node[n]]
         /\ x.edge = k.edge /\ x.interrupt = NoInterrupt /\ x.status = "running"
BY Zenon DEF Fork, Checkpoint

\* Stamping changes the fencing token only.
LEMMA StampParts ==
  ASSUME NEW k \in Checkpoint, NEW token
  PROVE  LET x == Stamp(k, token) IN
         /\ x.last = k.last /\ x.status = k.status /\ x.attempt = k.attempt
         /\ x.node = k.node /\ x.edge = k.edge
         /\ x.interrupt = k.interrupt /\ x.resolved = k.resolved
<1>1. CASE token = 0
  BY <1>1 DEF Stamp
<1>2. CASE token # 0
  <2>1. Stamp(k, token) = [k EXCEPT !.fence = token]
    BY <1>2 DEF Stamp
  <2> QED
    BY <2>1, Zenon DEF Checkpoint
<1> QED
  BY <1>1, <1>2

-----------------------------------------------------------------------------
(* Each transition keeps what is recorded *)

\* The edges and the steps of a definition.
LEMMA Definition ==
  /\ \A e \in Edges : e[1] \in Nodes /\ e[2] \in Nodes
  /\ InterruptBefore \subseteq Nodes /\ \A n \in Nodes : MaxAttempts[n] \in Nat \ {0}
BY DefinitionAssumption

\* A checkpoint whose edges, attempts, interrupt and acknowledgements are those
\* of a sound one is sound if only nodes that were not done changed.
LEMMA SoundAgain ==
  ASSUME NEW k \in Checkpoint, Sound(k), NEW x,
         x.edge = k.edge, x.attempt = k.attempt, x.interrupt = k.interrupt, x.resolved = k.resolved,
         \A n \in Nodes : k.node[n] \in Done => x.node[n] = k.node[n],
         \A n \in Nodes : x.node[n] = "running" => k.node[n] = "running",
         Rests(x)
  PROVE  Sound(x)
<1>1. StartsJustified(x)
  BY SameEdges, Definition DEF Sound, StartsJustified
<1>2. EdgesJustified(x)
  BY Definition DEF Sound, EdgesJustified
<1>3. HoldsBack(x)
  BY SameEdges, Parts DEF Sound, HoldsBack, Done, Interrupt
<1> QED
  BY <1>1, <1>2, <1>3 DEF Sound

\* _resolve_skipped
LEMMA SkipSound ==
  ASSUME NEW k \in Checkpoint, Sound(k), NEW n \in Skippable(k), NEW x, x = Skip(k, n)
  PROVE  Sound(x) /\ Succeeds(k, x)
<1>1. n \in Nodes /\ k.node[n] = "pending" /\ Unreachable(k, n)
  BY DEF Skippable, InStatus, Unreachable
<1>2. /\ x.last = "workflow-step-skipped" /\ x.status = k.status /\ x.attempt = k.attempt
      /\ x.interrupt = k.interrupt /\ x.resolved = k.resolved
      /\ x.node[n] = "skipped" /\ \A m \in Nodes \ {n} : x.node[m] = k.node[m]
      /\ \A e \in Edges : x.edge[e] = IF e[1] = n /\ k.edge[e] = "undecided" THEN "dropped" ELSE k.edge[e]
  <2>1. /\ x.node = [k.node EXCEPT ![n] = "skipped"]
        /\ x.edge = [e \in Edges |-> IF e \in Undecided(k, n) THEN "dropped" ELSE k.edge[e]]
    BY <1>1, SkipParts
  <2>2. k.node \in [Nodes -> NodeStatus]
    BY Parts
  <2>3. \A e \in Edges : e \in Undecided(k, n) <=> e[1] = n /\ k.edge[e] = "undecided"
    BY DEF Undecided, Outgoing
  <2> QED
    BY <1>1, <2>1, <2>2, <2>3, SkipParts
<1>3. \A e \in Edges : k.edge[e] # "undecided" => x.edge[e] = k.edge[e]
  BY <1>2
<1>4. StartsJustified(x)
  <2>1. \A m \in Nodes : AllDecided(k, m) => AllDecided(x, m)
    BY <1>3 DEF AllDecided, Incoming
  <2>2. \A m \in Nodes : SomeTaken(k, m) => SomeTaken(x, m)
    BY <1>3 DEF SomeTaken, Incoming
  <2> QED
    BY <1>2, <2>1, <2>2, Definition DEF Sound, StartsJustified
<1>5. EdgesJustified(x)
  BY <1>1, <1>2, Definition DEF Sound, EdgesJustified, Done
<1>6. Rests(x)
  BY <1>1, <1>2 DEF Sound, Rests, InStatus
<1>7. HoldsBack(x)
  <2> SUFFICES ASSUME k.interrupt # NoInterrupt, k.interrupt.phase = "after"
               PROVE  /\ x.node[k.interrupt.node] \in {"completed", "failed"}
                      /\ Undecided(x, k.interrupt.node) = Outgoing(k.interrupt.node)
    BY <1>2 DEF HoldsBack
  <2>1. k.interrupt.node \in Nodes /\ k.node[k.interrupt.node] \in {"completed", "failed"}
    BY Parts DEF Interrupt, Sound, HoldsBack
  <2>2. Undecided(k, k.interrupt.node) = Outgoing(k.interrupt.node)
    BY DEF Sound, HoldsBack
  <2>3. k.interrupt.node # n
    BY <1>1, <2>1
  <2> QED
    BY <1>2, <2>1, <2>2, <2>3 DEF Undecided, Outgoing
<1>8. Final(k, x)
  BY <1>1, <1>2, <1>3 DEF Final, Done
<1>9. Tries(k, x) /\ Gates(k, x) /\ Skips(k, x)
  BY <1>1, <1>2 DEF Tries, Gates, Skips
<1> QED
  BY <1>4, <1>5, <1>6, <1>7, <1>8, <1>9 DEF Sound, Succeeds

\* The start of a ready step whose interrupt is acknowledged.
LEMMA StartSound ==
  ASSUME NEW k \in Checkpoint, Sound(k), NEW n \in Ready(k) \ Blocked(k), k.interrupt = NoInterrupt,
         NEW x, x = Start(k, n)
  PROVE  Sound(x) /\ Succeeds(k, x)
<1>1. /\ n \in Nodes /\ k.node[n] = "pending"
      /\ Incoming(n) # {} => AllDecided(k, n) /\ SomeTaken(k, n)
      /\ n \in InterruptBefore => <<"before", n>> \in k.resolved
  BY DEF Ready, Blocked, InStatus
<1>2. /\ x.last = "workflow-step-start" /\ x.status = "running" /\ x.edge = k.edge
      /\ x.interrupt = k.interrupt /\ x.resolved = k.resolved
      /\ x.node[n] = "running" /\ \A m \in Nodes \ {n} : x.node[m] = k.node[m]
      /\ x.attempt[n] = k.attempt[n] + 1 /\ \A m \in Nodes \ {n} : x.attempt[m] = k.attempt[m]
  <2>1. /\ x.node = [k.node EXCEPT ![n] = "running"]
        /\ x.attempt = [k.attempt EXCEPT ![n] = k.attempt[n] + 1]
    BY <1>1, StartParts
  <2>2. k.node \in [Nodes -> NodeStatus] /\ k.attempt \in [Nodes -> Nat]
    BY Parts
  <2> QED
    BY <1>1, <2>1, <2>2, StartParts
<1>3. StartsJustified(x)
  BY <1>1, <1>2, SameEdges, Definition DEF Sound, StartsJustified
<1>4. EdgesJustified(x) /\ Rests(x) /\ HoldsBack(x)
  BY <1>1, <1>2, Definition DEF Sound, EdgesJustified, Rests, HoldsBack, Done
<1>5. Final(k, x) /\ Gates(k, x) /\ Skips(k, x)
  BY <1>1, <1>2 DEF Final, Gates, Skips, Done
<1>6. Tries(k, x)
  BY <1>1, <1>2 DEF Tries
<1> QED
  BY <1>3, <1>4, <1>5, <1>6 DEF Sound, Succeeds

\* A retry that the policy allows.
LEMMA RetrySound ==
  ASSUME NEW k \in Checkpoint, Sound(k), NEW n \in Nodes, k.node[n] = "running", k.interrupt = NoInterrupt,
         k.attempt[n] < MaxAttempts[n], NEW x, x = Retry(k, n)
  PROVE  Sound(x) /\ Succeeds(k, x)
<1>1. /\ x.last = "workflow-step-retry" /\ x.status = k.status /\ x.edge = k.edge /\ x.attempt = k.attempt
      /\ x.interrupt = k.interrupt /\ x.resolved = k.resolved
      /\ x.node[n] = "pending" /\ \A m \in Nodes \ {n} : x.node[m] = k.node[m]
  <2>1. x.node = [k.node EXCEPT ![n] = "pending"]
    BY RetryParts
  <2>2. k.node \in [Nodes -> NodeStatus]
    BY Parts
  <2> QED
    BY <2>1, <2>2, RetryParts
<1>2. Sound(x)
  <2>1. Rests(x)
    BY <1>1 DEF Sound, Rests, InStatus
  <2> QED
    BY <1>1, <2>1, SoundAgain DEF Done
<1>3. Succeeds(k, x)
  BY <1>1 DEF Succeeds, Final, Tries, Gates, Skips, Done
<1> QED
  BY <1>2, <1>3

\* The recorded outcome of a step.
LEMMA FinishNodeSound ==
  ASSUME NEW k \in Checkpoint, Sound(k), NEW n \in Nodes, k.node[n] = "running", k.interrupt = NoInterrupt,
         NEW s \in {"completed", "failed", "suspended", "cancelled"}, NEW x, x = FinishNode(k, n, s)
  PROVE  Sound(x) /\ Succeeds(k, x)
<1>1. /\ x.last = "workflow-step-finish" /\ x.status = k.status /\ x.edge = k.edge /\ x.attempt = k.attempt
      /\ x.interrupt = k.interrupt /\ x.resolved = k.resolved
      /\ x.node[n] = s /\ \A m \in Nodes \ {n} : x.node[m] = k.node[m]
  BY FinishNodeParts
<1>2. Sound(x)
  <2>1. Rests(x)
    BY <1>1 DEF Sound, Rests, InStatus
  <2> QED
    BY <1>1, <2>1, SoundAgain DEF Done
<1>3. Succeeds(k, x)
  BY <1>1 DEF Succeeds, Final, Tries, Gates, Skips, Done
<1> QED
  BY <1>2, <1>3

\* The decisions on the edges that leave a finished step.
LEMMA DecideSound ==
  ASSUME NEW k \in Checkpoint, Sound(k), NEW n \in Nodes, k.node[n] \in {"completed", "failed"},
         k.interrupt = NoInterrupt, NEW choice \in Choices(k, n), NEW x, x = Decide(k, choice)
  PROVE  Sound(x) /\ Succeeds(k, x)
<1>1. /\ x.last = "workflow-edge-decisions" /\ x.status = k.status /\ x.attempt = k.attempt /\ x.node = k.node
      /\ x.interrupt = k.interrupt /\ x.resolved = k.resolved
      /\ \A e \in Edges : k.edge[e] # "undecided" \/ e[1] # n => x.edge[e] = k.edge[e]
  <2>1. DOMAIN choice = Undecided(k, n)
    BY DEF Choices
  <2>2. \A e \in Edges : e \in Undecided(k, n) <=> e[1] = n /\ k.edge[e] = "undecided"
    BY DEF Undecided, Outgoing
  <2>3. x.edge = [e \in Edges |-> IF e \in DOMAIN choice THEN choice[e] ELSE k.edge[e]]
    BY DecideParts
  <2> QED
    BY <2>1, <2>2, <2>3, DecideParts
<1>2. StartsJustified(x)
  <2>1. \A m \in Nodes : AllDecided(k, m) => AllDecided(x, m)
    BY <1>1 DEF AllDecided, Incoming
  <2>2. \A m \in Nodes : SomeTaken(k, m) => SomeTaken(x, m)
    BY <1>1 DEF SomeTaken, Incoming
  <2> QED
    BY <1>1, <2>1, <2>2 DEF Sound, StartsJustified
<1>3. EdgesJustified(x)
  BY <1>1, Definition DEF Sound, EdgesJustified, Done
<1>4. Rests(x) /\ HoldsBack(x)
  BY <1>1 DEF Sound, Rests, HoldsBack, InStatus
<1>5. Succeeds(k, x)
  BY <1>1 DEF Succeeds, Final, Tries, Gates, Skips
<1> QED
  BY <1>2, <1>3, <1>4, <1>5 DEF Sound

\* A declared interrupt: after a node that finished, none of whose edges is
\* decided yet.
LEMMA SuspendSound ==
  ASSUME NEW k \in Checkpoint, Sound(k), InStatus(k, {"running"}) = {}, k.interrupt = NoInterrupt,
         NEW r, NEW p, NEW n \in Nodes,
         p = "after" => k.node[n] \in {"completed", "failed"} /\ Undecided(k, n) = Outgoing(n),
         NEW x, x = Suspend(k, r, p, n)
  PROVE  Sound(x) /\ Succeeds(k, x)
<1>1. /\ x.last = "workflow-interrupt" /\ x.status = "suspended" /\ x.edge = k.edge /\ x.attempt = k.attempt
      /\ x.node = k.node /\ x.resolved = k.resolved
      /\ x.interrupt.phase = p /\ x.interrupt.node = n
  BY SuspendParts
<1>2. StartsJustified(x) /\ EdgesJustified(x)
  BY <1>1, SameEdges DEF Sound, StartsJustified, EdgesJustified
<1>3. Rests(x) /\ HoldsBack(x)
  BY <1>1, SameEdges DEF Rests, HoldsBack, InStatus
<1>4. Succeeds(k, x)
  BY <1>1 DEF Succeeds, Final, Tries, Gates, Skips
<1> QED
  BY <1>2, <1>3, <1>4 DEF Sound

\* The end of a run in which nothing runs.
LEMMA FinishRunSound ==
  ASSUME NEW k \in Checkpoint, Sound(k), InStatus(k, {"running"}) = {}, k.interrupt = NoInterrupt,
         NEW s, NEW x, x = FinishRun(k, s)
  PROVE  Sound(x) /\ Succeeds(k, x)
<1>1. /\ x.last = "workflow-finish" /\ x.edge = k.edge /\ x.attempt = k.attempt
      /\ x.node = k.node /\ x.resolved = k.resolved /\ x.interrupt = k.interrupt
  BY FinishRunParts
<1>2. Sound(x)
  <2>1. Rests(x)
    BY <1>1 DEF Rests, InStatus
  <2> QED
    BY <1>1, <2>1, SoundAgain
<1>3. Succeeds(k, x)
  BY <1>1 DEF Succeeds, Final, Tries, Gates, Skips
<1> QED
  BY <1>2, <1>3

\* _recover_running_nodes of a run in which something runs.
LEMMA RecoverSound ==
  ASSUME NEW k \in Checkpoint, Sound(k), InStatus(k, {"running"}) # {}, NEW x, x = Recover(k)
  PROVE  Sound(x) /\ Succeeds(k, x)
<1>1. k.interrupt = NoInterrupt
  BY DEF Sound, Rests
<1>2. /\ x.last = "workflow-recovered" /\ x.status = "running" /\ x.edge = k.edge /\ x.attempt = k.attempt
      /\ x.interrupt = k.interrupt /\ x.resolved = k.resolved
      /\ \A n \in Nodes : x.node[n] = IF k.node[n] = "running" THEN "pending" ELSE k.node[n]
  BY RecoverParts
<1>3. Sound(x)
  <2>1. Rests(x)
    BY <1>1, <1>2 DEF Rests
  <2> QED
    BY <1>2, <2>1, SoundAgain DEF Done
<1>4. Succeeds(k, x)
  BY <1>1, <1>2 DEF Succeeds, Final, Tries, PutsBack, Gates, Skips, Done
<1> QED
  BY <1>3, <1>4

\* The acknowledgement of the pending interrupt.
LEMMA AcknowledgeSound ==
  ASSUME NEW k \in Checkpoint, Sound(k), k.interrupt # NoInterrupt, NEW x, x = Acknowledge(k)
  PROVE  Sound(x) /\ Succeeds(k, x)
<1>1. /\ x.last = "workflow-resume" /\ x.status = "running" /\ x.edge = k.edge /\ x.attempt = k.attempt
      /\ x.node = k.node /\ x.interrupt = NoInterrupt /\ x.resolved = k.resolved \cup {Acknowledged(k)}
  BY AcknowledgeParts
<1>2. StartsJustified(x) /\ EdgesJustified(x)
  BY <1>1, SameEdges DEF Sound, StartsJustified, EdgesJustified
<1>3. Rests(x) /\ HoldsBack(x)
  BY <1>1 DEF Rests, HoldsBack
<1>4. Succeeds(k, x)
  BY <1>1 DEF Succeeds, Final, Tries, Gates, Skips
<1> QED
  BY <1>2, <1>3, <1>4 DEF Sound

\* The resumption of a suspended node.
LEMMA RedispatchSound ==
  ASSUME NEW k \in Checkpoint, Sound(k), k.interrupt = NoInterrupt, NEW n \in InStatus(k, {"suspended"}),
         NEW x, x = Redispatch(k, n)
  PROVE  Sound(x) /\ Succeeds(k, x)
<1>1. n \in Nodes /\ k.node[n] = "suspended"
  BY DEF InStatus
<1>2. /\ x.last = "workflow-resume" /\ x.status = "running" /\ x.edge = k.edge /\ x.attempt = k.attempt
      /\ x.interrupt = k.interrupt /\ x.resolved = k.resolved
      /\ x.node[n] = "pending" /\ \A m \in Nodes \ {n} : x.node[m] = k.node[m]
  <2>1. x.node = [k.node EXCEPT ![n] = "pending"]
    BY <1>1, RedispatchParts
  <2>2. k.node \in [Nodes -> NodeStatus]
    BY Parts
  <2> QED
    BY <1>1, <2>1, <2>2, RedispatchParts
<1>3. Sound(x)
  <2>1. Rests(x)
    BY <1>2 DEF Rests
  <2> QED
    BY <1>1, <1>2, <2>1, SoundAgain DEF Done
<1>4. Succeeds(k, x)
  BY <1>1, <1>2 DEF Succeeds, Final, Tries, PutsBack, Gates, Skips, Done
<1> QED
  BY <1>3, <1>4

LEMMA ContinueSound ==
  ASSUME NEW k \in Checkpoint, Sound(k), k.status = "suspended", k.interrupt = NoInterrupt,
         NEW n \in InStatus(k, {"suspended"}), NEW s \in {"completed", "suspended"}, NEW x, x = Continue(k, n, s)
  PROVE  Sound(x) /\ Succeeds(k, x)
<1>1. n \in Nodes /\ k.node[n] = "suspended"
  BY DEF InStatus
<1>2. /\ x.last = "workflow-resume" /\ x.edge = k.edge /\ x.attempt = k.attempt
      /\ x.interrupt = k.interrupt /\ x.resolved = k.resolved
      /\ x.node[n] = s /\ \A m \in Nodes \ {n} : x.node[m] = k.node[m]
  BY <1>1, ContinueParts
<1>3. Sound(x)
  <2>1. Rests(x)
    BY <1>1, <1>2 DEF Sound, Rests, InStatus
  <2> QED
    BY <1>1, <1>2, <2>1, SoundAgain DEF Done
<1>4. Succeeds(k, x)
  BY <1>1, <1>2 DEF Succeeds, Final, Tries, PutsBack, Gates, Skips, Done
<1> QED
  BY <1>3, <1>4

\* cancel_workflow
LEMMA CancelSound ==
  ASSUME NEW k \in Checkpoint, Sound(k), NEW x, x = Cancel(k)
  PROVE  Sound(x) /\ Succeeds(k, x)
<1>1. /\ x.last = "workflow-cancelled" /\ x.status = "cancelled" /\ x.edge = k.edge /\ x.attempt = k.attempt
      /\ x.interrupt = NoInterrupt /\ x.resolved = k.resolved
      /\ \A n \in Nodes : k.node[n] \in Done => x.node[n] = k.node[n]
      /\ \A n \in Nodes : x.node[n] # "running" /\ x.node[n] # "pending"
  <2>1. x.node = [n \in Nodes |-> CASE k.node[n] \in {"running", "suspended"} -> "cancelled"
                                   [] k.node[n] = "pending" -> "skipped"
                                   [] OTHER -> k.node[n]]
    BY CancelParts
  <2> QED
    BY <2>1, CancelParts DEF Done
<1>2. StartsJustified(x) /\ EdgesJustified(x)
  BY <1>1, SameEdges, Definition DEF Sound, StartsJustified, EdgesJustified
<1>3. Rests(x) /\ HoldsBack(x)
  BY <1>1 DEF Rests, HoldsBack
<1>4. Succeeds(k, x)
  BY <1>1 DEF Succeeds, Final, Tries, Gates, Skips
<1> QED
  BY <1>2, <1>3, <1>4 DEF Sound

\* run(...) and fork_workflow(...) open a history.
LEMMA InitialOpens == Opens(Initial)
<1>1. Sound(Initial)
  BY Definition DEF Initial, Sound, StartsJustified, EdgesJustified, Rests, HoldsBack
<1> QED
  BY <1>1 DEF Opens, Initial, InStatus

LEMMA ForkOpens ==
  ASSUME NEW k \in Checkpoint, Sound(k), NEW x, x = Fork(k)
  PROVE  Opens(x)
<1>1. /\ x.last = "workflow-fork" /\ x.attempt = k.attempt /\ x.edge = k.edge /\ x.interrupt = NoInterrupt
      /\ \A n \in Nodes : k.node[n] \in Done => x.node[n] = k.node[n]
      /\ \A n \in Nodes : x.node[n] # "running"
      /\ x.status = "running"
  <2>1. x.node = [n \in Nodes |-> IF k.node[n] \in {"running", "suspended"} THEN "pending" ELSE k.node[n]]
    BY ForkParts
  <2> QED
    BY <2>1, ForkParts DEF Done
<1>2. StartsJustified(x) /\ EdgesJustified(x)
  BY <1>1, SameEdges, Definition DEF Sound, StartsJustified, EdgesJustified
<1>3. Rests(x) /\ HoldsBack(x)
  BY <1>1 DEF Rests, HoldsBack
<1> QED
  BY <1>1, <1>2, <1>3 DEF Sound, Opens, InStatus

\* None of this depends on the fencing token.
LEMMA StampSound ==
  ASSUME NEW k \in Checkpoint, NEW y \in Checkpoint, Sound(y), NEW token, NEW x, x = Stamp(y, token)
  PROVE  /\ Sound(x)
         /\ Succeeds(k, y) => Succeeds(k, x)
<1>1. /\ x.last = y.last /\ x.status = y.status /\ x.attempt = y.attempt
      /\ x.node = y.node /\ x.edge = y.edge
      /\ x.interrupt = y.interrupt /\ x.resolved = y.resolved
  BY StampParts
<1>2. StartsJustified(x) /\ EdgesJustified(x)
  BY <1>1, SameEdges DEF Sound, StartsJustified, EdgesJustified
<1>3. Rests(x) /\ HoldsBack(x)
  BY <1>1, SameEdges DEF Sound, Rests, HoldsBack, InStatus
<1>4. Succeeds(k, y) => Succeeds(k, x)
  BY <1>1 DEF Succeeds, Final, Tries, PutsBack, Gates, Skips
<1> QED
  BY <1>2, <1>3, <1>4 DEF Sound

-----------------------------------------------------------------------------
(* What a caller knows of the checkpoint in its hand *)

NoneRunning(k) == InStatus(k, {"running"}) = {}

\* A node of the wave that is recorded as running.
InWork == {"started", "active"} \cup Outcomes

\* The nodes recorded as running are those in work in the caller's wave.
Wave(k, t) == \A n \in Nodes : k.node[n] = "running" <=> t[n] \in InWork

\* The nodes of a wave whose edges are still to be evaluated have finished,
\* and none of the edges held back by an interrupt is decided.
Closable(k, t) ==
  \A n \in Nodes :
    /\ t[n] \in {"edges", "interrupt"} => k.node[n] \in {"completed", "failed"}
    /\ t[n] = "interrupt" => Undecided(k, n) = Outgoing(n)

\* How checkpoint k, what is to be acknowledged and wave t go with the place
\* a caller in call o has reached.
Fits(label, o, k, a, t) ==
  /\ label = "create" => Opens(k)
  /\ label = "claim" /\ o = "execute" => NoneRunning(k)
  /\ label \in {"loop", "plan", "resume-append", "reroute", "close", "abort"} => NoneRunning(k)
  /\ label \in {"start", "exec", "settle", "close", "abort", "reroute"} => k.interrupt = NoInterrupt
  /\ label = "recover-append" => ~NoneRunning(k)
  /\ label = "resume-append" => Resumable(k, a)
  /\ label \in {"start", "exec", "settle"} => Wave(k, t)
  /\ label = "start" => \A n \in Nodes : t[n] = "ready" => n \in Ready(k) \ Blocked(k)
  /\ label = "exec" => \A n \in Nodes : t[n] # "ready"
  /\ label = "settle" => \A n \in Nodes : t[n] \notin {"ready", "started", "active"}
  /\ label \in {"start", "exec"} => \A n \in Nodes : t[n] \notin {"edges", "interrupt"}
  /\ label \in {"settle", "close"} => Closable(k, t)
  /\ label = "reroute" => \A n \in Nodes : t[n] = "edges" => k.node[n] = "completed"

FitsAt(c) == Fits(pc[c], op[c], ck[c], ack[c], task[c])

CallersFit == \A c \in Callers : FitsAt(c)

\* The caller appends cand, which is sound and succeeds what it holds.
Adds(c, cand) ==
  Commit(c, cand) /\ Follows(ck[c], cand) /\ Sound(cand) /\ Succeeds(ck[c], cand)

\* The caller goes on to where its checkpoint and its wave fit.
Proceeds(c) ==
  \E label, t, k :
    /\ pc' = [pc EXCEPT ![c] = label] /\ task' = [task EXCEPT ![c] = t]
    /\ UNCHANGED <<op, run, ack>>
    /\ Adds(c, k) \/ (UNCHANGED history /\ ck' = [ck EXCEPT ![c] = k])
    /\ Fits(label, op[c], k, ack[c], t)

\* What a caller at work holds is sound.
Holds(c) == Inv /\ FitsAt(c) /\ Sound(ck[c])

LEMMA NothingRuns ==
  ASSUME NEW k
  PROVE  NoneRunning(k) <=> \A n \in Nodes : k.node[n] # "running"
BY DEF NoneRunning, InStatus

\* Nothing is expected of a checkpoint in these places.
LEMMA AnythingFits ==
  ASSUME NEW label \in {"idle", "unwind", "recover", "resume", "cancel"}, NEW o, NEW k, NEW a, NEW t
  PROVE  Fits(label, o, k, a, t)
BY DEF Fits

\* A step that leaves the checkpoint and the store alone.
LEMMA StaysProceeds ==
  ASSUME Inv, NEW c \in Callers, UNCHANGED <<history, ck, op, run, ack>>,
         NEW label, NEW t, Goto(c, label), task' = [task EXCEPT ![c] = t],
         Fits(label, op[c], ck[c], ack[c], t)
  PROVE  Proceeds(c)
<1>1. ck' = [ck EXCEPT ![c] = ck[c]]
  BY DEF Inv, TypeOK
<1> QED
  BY <1>1, Zenon DEF Proceeds, Goto

\* The same, the wave staying as it is too.
LEMMA GoesOn ==
  ASSUME Inv, NEW c \in Callers, UNCHANGED <<history, ck, op, run, ack, task>>,
         NEW label, Goto(c, label), Fits(label, op[c], ck[c], ack[c], task[c])
  PROVE  Proceeds(c)
<1>1. task' = [task EXCEPT ![c] = task[c]]
  BY DEF Inv, TypeOK
<1> QED
  BY <1>1, StaysProceeds, Zenon

\* A refused append leads to where anything, or the same, fits.
LEMMA RefusedProceeds ==
  ASSUME Inv, NEW c \in Callers, NEW label, Refused(c, label), Fits(label, op[c], ck[c], ack[c], task[c])
  PROVE  Proceeds(c)
BY GoesOn DEF Refused, store

\* An accepted one.
LEMMA AddsProceeds ==
  ASSUME Inv, NEW c \in Callers, NEW k, Adds(c, k), NEW label, NEW t,
         Goto(c, label), task' = [task EXCEPT ![c] = t], Fits(label, op[c], k, ack[c], t)
  PROVE  Proceeds(c)
<1>1. UNCHANGED <<op, run, ack>>
  BY DEF Adds, Commit
<1> QED
  BY <1>1, Zenon DEF Proceeds, Goto

LEMMA AddsGoesOn ==
  ASSUME Inv, NEW c \in Callers, NEW k, Adds(c, k), NEW label,
         Goto(c, label), UNCHANGED task, Fits(label, op[c], k, ack[c], task[c])
  PROVE  Proceeds(c)
<1>1. task' = [task EXCEPT ![c] = task[c]]
  BY DEF Inv, TypeOK
<1> QED
  BY <1>1, AddsProceeds, Zenon

\* The last append of a call.
LEMMA LastProceeds ==
  ASSUME Inv, NEW c \in Callers, NEW k, CommitLast(c, k),
         Follows(ck[c], k), Sound(k), Succeeds(ck[c], k)
  PROVE  Proceeds(c)
<1>1. \A x : Fits("unwind", op[c], x, ack[c], task[c])
  BY AnythingFits
<1>2. CASE Commit(c, k) /\ Goto(c, "unwind") /\ UNCHANGED task
  BY <1>1, <1>2, AddsGoesOn DEF Adds
<1>3. CASE Refused(c, "unwind")
  BY <1>1, <1>3, RefusedProceeds
<1> QED
  BY <1>2, <1>3 DEF CommitLast

-----------------------------------------------------------------------------
(* The steps of a caller, one by one *)

LEMMA ClaimProceeds ==
  ASSUME Inv, NEW c \in Callers, FitsAt(c), Claim(c)
  PROVE  Proceeds(c)
<1>1. UNCHANGED <<history, ck, op, run, ack, task>>
  BY DEF Claim, store
<1>2. op[c] \in {"execute", "recover", "resume"} /\ pc[c] = "claim"
  BY DEF Inv, TypeOK, Claiming, Claim
<1>3. PICK label \in {"unwind", IF op[c] = "execute" THEN "loop" ELSE op[c]} : Goto(c, label)
  BY DEF Claim
<1>4. Fits(label, op[c], ck[c], ack[c], task[c])
  BY <1>2, <1>3 DEF Fits, FitsAt
<1> QED
  BY <1>1, <1>3, <1>4, GoesOn

LEMMA RecoverLoadProceeds ==
  ASSUME Inv, NEW c \in Callers, RecoverLoad(c)
  PROVE  Proceeds(c)
<1> DEFINE k == Newest(run[c])
           label == IF NoneRunning(k) THEN "loop" ELSE "recover-append"
<1>1. UNCHANGED <<history, op, run, ack>> /\ ck' = [ck EXCEPT ![c] = k] /\ Goto(c, label)
  BY DEF RecoverLoad, Locally, store, NoneRunning
<1>2. task' = [task EXCEPT ![c] = task[c]]
  BY DEF RecoverLoad, Inv, TypeOK
<1>3. Fits(label, op[c], k, ack[c], task[c])
  BY DEF Fits
<1> HIDE DEF k, label
<1> QED
  BY <1>1, <1>2, <1>3, Zenon DEF Proceeds, Goto

LEMMA RecoverAppendProceeds ==
  ASSUME NEW c \in Callers, Holds(c), RecoverAppend(c)
  PROVE  Proceeds(c)
<1> DEFINE x == Recover(ck[c])
<1>1. Inv /\ ck[c] \in Checkpoint /\ InStatus(ck[c], {"running"}) # {} /\ Sound(ck[c])
  BY InHand DEF Holds, FitsAt, Fits, RecoverAppend, NoneRunning
<1>2. Follows(ck[c], x) /\ Sound(x) /\ Succeeds(ck[c], x)
  BY <1>1, RecoverFollows, RecoverSound
<1>3. \A n \in Nodes : x.node[n] # "running"
  <2>1. x.node = [n \in Nodes |-> IF ck[c].node[n] = "running" THEN "pending" ELSE ck[c].node[n]]
    BY <1>1, RecoverParts
  <2> QED
    BY <2>1
<1> HIDE DEF x
<1>4. Fits("loop", op[c], x, ack[c], task[c])
  BY <1>3, NothingRuns DEF Fits
<1>5. CASE Commit(c, x) /\ Goto(c, "loop") /\ UNCHANGED task
  BY <1>1, <1>2, <1>4, <1>5, AddsGoesOn DEF Adds
<1>6. CASE Refused(c, "unwind")
  BY <1>1, <1>6, AnythingFits, RefusedProceeds
<1> QED
  BY <1>5, <1>6 DEF RecoverAppend, x

LEMMA ResumeLoadProceeds ==
  ASSUME Inv, NEW c \in Callers, Sound(Newest(run[c])), ResumeLoad(c)
  PROVE  Proceeds(c)
<1> DEFINE k == Newest(run[c])
           label == IF Resumable(k, ack[c]) THEN "resume-append" ELSE "unwind"
<1>1. UNCHANGED <<history, op, run, ack>> /\ ck' = [ck EXCEPT ![c] = k] /\ Goto(c, label)
  BY DEF ResumeLoad, Locally, store
<1>2. task' = [task EXCEPT ![c] = task[c]]
  BY DEF ResumeLoad, Inv, TypeOK
<1>3. Fits(label, op[c], k, ack[c], task[c])
  BY DEF Fits, Resumable, Sound, Rests, NoneRunning
<1> HIDE DEF k, label
<1> QED
  BY <1>1, <1>2, <1>3, Zenon DEF Proceeds, Goto

\* An accepted resumption goes on with the edges it left.
LEMMA ResumeWithProceeds ==
  ASSUME Inv, NEW c \in Callers, NEW x, ResumeWith(c, x), Follows(ck[c], x), Sound(x), Succeeds(ck[c], x),
         NoneRunning(x), x.interrupt = NoInterrupt
  PROVE  Proceeds(c)
<1>1. Adds(c, x)
  BY DEF Adds, ResumeWith
<1>2. CASE x.status = "suspended"
  BY <1>1, <1>2, AnythingFits, AddsGoesOn DEF ResumeWith
<1>3. CASE x.status # "suspended"
  <2>1. Fits("reroute", op[c], x, ack[c], EdgesLeft(x))
    BY DEF Fits, EdgesLeft
  <2> QED
    BY <1>1, <1>3, <2>1, AddsProceeds DEF ResumeWith
<1> QED
  BY <1>2, <1>3

LEMMA ResumeAppendProceeds ==
  ASSUME NEW c \in Callers, Holds(c), ResumeAppend(c)
  PROVE  Proceeds(c)
<1> DEFINE k == ck[c]
<1>1. /\ Inv /\ k \in Checkpoint /\ Sound(k) /\ Resumable(k, ack[c])
      /\ \A n \in Nodes : k.node[n] # "running"
  BY InHand, NothingRuns DEF Holds, FitsAt, Fits, ResumeAppend
<1>2. CASE k.interrupt # NoInterrupt /\ ResumeWith(c, Acknowledge(k))
  <2> DEFINE x == Acknowledge(k)
  <2>1. Follows(k, x) /\ Sound(x) /\ Succeeds(k, x)
    BY <1>1, <1>2, AcknowledgeFollows, AcknowledgeSound
  <2>2. x.interrupt = NoInterrupt /\ x.node = k.node
    BY <1>1, AcknowledgeParts
  <2> QED
    BY <1>1, <1>2, <2>1, <2>2, NothingRuns, ResumeWithProceeds
<1>3. CASE k.interrupt = NoInterrupt
  <2>1. PICK n \in InStatus(k, {"suspended"}) : ack[c] = Named(n)
    BY <1>1, <1>3 DEF Resumable
  <2>2. ack[c].named = n /\ n \in Nodes /\ k.status = "suspended"
    BY <1>1, <2>1 DEF Named, Resumable, InStatus
  <2>3. CASE Commit(c, Redispatch(k, n)) /\ Goto(c, "loop") /\ UNCHANGED task
    <3> DEFINE x == Redispatch(k, n)
    <3>1. Follows(k, x) /\ Sound(x) /\ Succeeds(k, x)
      BY <1>1, <1>3, RedispatchFollows, RedispatchSound
    <3>2. x.node = [k.node EXCEPT ![n] = "pending"]
      BY <1>1, RedispatchParts
    <3> HIDE DEF x
    <3>3. \A m \in Nodes : x.node[m] # "running"
      BY <1>1, <3>2, Parts
    <3>4. Fits("loop", op[c], x, ack[c], task[c])
      BY <3>3, NothingRuns DEF Fits
    <3> QED
      BY <1>1, <2>3, <3>1, <3>4, AddsGoesOn DEF Adds, x
  <2>4. CASE \E s \in Results[n] \cap {"completed", "suspended"} : ResumeWith(c, Continue(k, n, s))
    <3> PICK s \in {"completed", "suspended"} : ResumeWith(c, Continue(k, n, s))
      BY <2>4
    <3> DEFINE x == Continue(k, n, s)
    <3>1. Follows(k, x) /\ Sound(x) /\ Succeeds(k, x)
      BY <1>1, <1>3, <2>2, ContinueFollows, ContinueSound
    <3>2. x.interrupt = NoInterrupt /\ \A m \in Nodes : x.node[m] # "running"
      BY <1>1, <1>3, <2>2, ContinueParts
    <3> QED
      BY <1>1, <3>1, <3>2, NothingRuns, ResumeWithProceeds
  <2>5. CASE Goto(c, "unwind") /\ UNCHANGED <<ck, task, lost, ran>> /\ Locally
    BY <1>1, <2>5, AnythingFits, GoesOn DEF Locally, store
  <2>6. CASE Refused(c, "unwind")
    BY <1>1, <2>6, AnythingFits, RefusedProceeds
  <2> QED
    BY <1>3, <2>2, <2>3, <2>4, <2>5, <2>6 DEF ResumeAppend
<1>4. CASE Refused(c, "unwind")
  BY <1>1, <1>4, AnythingFits, RefusedProceeds
<1> QED
  BY <1>2, <1>3, <1>4 DEF ResumeAppend

\* The edges of a node that finished, of a wave or before a resumption.
LEMMA RouteProceeds ==
  ASSUME NEW c \in Callers, Holds(c), pc[c] \in {"reroute", "close"}, NEW n \in Nodes, task[c][n] = "edges",
         NEW bad \in {"unwind", "abort"}, Route(c, n, bad)
  PROVE  Proceeds(c)
<1> DEFINE k == ck[c]
           t == [task[c] EXCEPT ![n] = "routed"]
<1>1. /\ Inv /\ k \in Checkpoint /\ Sound(k) /\ Fits(pc[c], op[c], k, ack[c], task[c])
      /\ k.interrupt = NoInterrupt /\ NoneRunning(k)
  BY InHand DEF Holds, FitsAt, Fits
<1>2. /\ k.node[n] \in {"completed", "failed"}
      /\ \A m \in Nodes \ {n} : t[m] = task[c][m]
      /\ t[n] = "routed"
  BY <1>1, InHand DEF Fits, Closable
<1>3. SetTask(c, n, "routed") => task' = [task EXCEPT ![c] = t]
  BY DEF SetTask
<1>4. UNCHANGED pc => Goto(c, pc[c])
  BY <1>1 DEF Inv, TypeOK, Goto
<1>5. Fits(bad, op[c], k, ack[c], task[c])
  BY <1>1 DEF Fits
<1> HIDE DEF t
<1>6. Fits(pc[c], op[c], k, ack[c], t)
  BY <1>1, <1>2 DEF Fits, Closable
<1>7. CASE SetTask(c, n, "routed") /\ UNCHANGED <<pc, ck, lost, ran>> /\ Locally
  BY <1>1, <1>3, <1>4, <1>6, <1>7, StaysProceeds DEF Locally, store
<1>8. CASE /\ \E choice \in Choices(k, n) : Commit(c, Decide(k, choice))
           /\ SetTask(c, n, "routed") /\ UNCHANGED pc
  <2> PICK choice \in Choices(k, n) : Commit(c, Decide(k, choice))
    BY <1>8
  <2> DEFINE x == Decide(k, choice)
  <2>1. Follows(k, x) /\ Sound(x) /\ Succeeds(k, x)
    BY <1>1, <1>2, DecideFollows, DecideSound
  <2>2. /\ x.node = k.node /\ x.interrupt = NoInterrupt
        /\ x.edge = [e \in Edges |-> IF e \in DOMAIN choice THEN choice[e] ELSE k.edge[e]]
    BY <1>1, DecideParts
  <2>3. DOMAIN choice = Undecided(k, n)
    BY DEF Choices
  <2> HIDE DEF x
  <2>4. \A m \in Nodes \ {n} : Undecided(x, m) = Undecided(k, m)
    BY <2>2, <2>3 DEF Undecided, Outgoing
  <2>5. NoneRunning(x)
    BY <1>1, <2>2, NothingRuns
  <2>6. Fits(pc[c], op[c], x, ack[c], t)
    BY <1>1, <1>2, <1>6, <2>2, <2>4, <2>5 DEF Fits, Closable
  <2> QED
    BY <1>1, <1>3, <1>4, <1>8, <2>1, <2>6, AddsProceeds DEF Adds, x
<1>9. CASE Goto(c, bad) /\ UNCHANGED <<ck, task, lost, ran>> /\ Locally
  BY <1>1, <1>5, <1>9, GoesOn DEF Locally, store
<1>10. CASE Refused(c, bad)
  BY <1>1, <1>5, <1>10, RefusedProceeds
<1> QED
  BY <1>7, <1>8, <1>9, <1>10 DEF Route

LEMMA RerouteProceeds ==
  ASSUME NEW c \in Callers, Holds(c), Reroute(c)
  PROVE  Proceeds(c)
<1>1. Inv /\ pc[c] = "reroute" /\ FitsAt(c)
  BY DEF Holds, Reroute
<1>2. CASE \E n \in Tasked(c, {"edges"}) : Route(c, n, "unwind")
  <2> PICK n \in Nodes : task[c][n] = "edges" /\ Route(c, n, "unwind")
    BY <1>2 DEF Tasked
  <2> QED
    BY <1>1, RouteProceeds
<1>3. CASE Goto(c, "loop") /\ task' = [task EXCEPT ![c] = NoTasks] /\ UNCHANGED <<ck, lost, ran>> /\ Locally
  <2>1. Fits("loop", op[c], ck[c], ack[c], NoTasks)
    BY <1>1 DEF FitsAt, Fits
  <2> QED
    BY <1>1, <1>3, <2>1, StaysProceeds DEF Locally, store
<1> QED
  BY <1>2, <1>3 DEF Reroute

\* From the loop to the next wave: only skipped nodes are recorded.
LEMMA PlanProceeds ==
  ASSUME NEW c \in Callers, Holds(c), LoopTop(c) \/ SkipNode(c) \/ ReturnSuspended(c) \/ BeginWave(c)
  PROVE  Proceeds(c)
<1> DEFINE k == ck[c]
<1>1. Inv /\ k \in Checkpoint /\ Sound(k) /\ NoneRunning(k)
  BY InHand DEF Holds, FitsAt, Fits, LoopTop, SkipNode, ReturnSuspended, BeginWave, Planning
<1>2. \A o, a, t : Fits("plan", o, k, a, t) /\ Fits("unwind", o, k, a, t)
  BY <1>1 DEF Fits
<1>3. CASE LoopTop(c)
  BY <1>1, <1>2, <1>3, GoesOn DEF LoopTop, Locally, store
<1>4. CASE ReturnSuspended(c)
  BY <1>1, <1>2, <1>4, GoesOn DEF ReturnSuspended, Locally, store
<1>5. CASE SkipNode(c)
  <2>1. PICK n \in Skippable(k) : (Commit(c, Skip(k, n)) /\ UNCHANGED <<pc, task>>) \/ Refused(c, "unwind")
    BY <1>5 DEF SkipNode
  <2>2. CASE Commit(c, Skip(k, n)) /\ UNCHANGED <<pc, task>>
    <3> DEFINE x == Skip(k, n)
    <3>1. n \in Nodes
      BY DEF Skippable, InStatus
    <3>2. Follows(k, x) /\ Sound(x) /\ Succeeds(k, x)
      BY <1>1, <3>1, SkipFollows, SkipSound
    <3>3. x.node = [k.node EXCEPT ![n] = "skipped"]
      BY <1>1, <3>1, SkipParts
    <3> HIDE DEF x
    <3>4. NoneRunning(x)
      BY <1>1, <3>3, NothingRuns, Parts
    <3>5. Fits("plan", op[c], x, ack[c], task[c])
      BY <3>4 DEF Fits
    <3>6. Goto(c, "plan")
      BY <1>1, <1>5, <2>2 DEF SkipNode, Goto, Inv, TypeOK
    <3> QED
      BY <1>1, <2>2, <3>2, <3>5, <3>6, AddsGoesOn DEF Adds, x
  <2>3. CASE Refused(c, "unwind")
    BY <1>1, <1>2, <2>3, RefusedProceeds
  <2> QED
    BY <2>1, <2>2, <2>3
<1>6. CASE BeginWave(c)
  <2> DEFINE t == [n \in Nodes |-> IF n \in Ready(k) THEN "ready" ELSE "none"]
  <2>1. k.interrupt = NoInterrupt /\ Blocked(k) = {}
    BY <1>6 DEF BeginWave, Planning
  <2>2. \A n \in Nodes : t[n] \notin InWork /\ (t[n] = "ready" => n \in Ready(k)) /\ t[n] \notin {"edges", "interrupt"}
    BY DEF InWork, Outcomes
  <2> HIDE DEF t
  <2>3. Fits("start", op[c], k, ack[c], t)
    BY <1>1, <2>1, <2>2, NothingRuns DEF Fits, Wave
  <2> QED
    BY <1>1, <1>6, <2>3, StaysProceeds DEF BeginWave, Locally, store, t
<1> QED
  BY <1>3, <1>4, <1>5, <1>6

\* The last append of _execute: an interrupt, or the end of the run.
LEMMA ConcludeProceeds ==
  ASSUME NEW c \in Callers, Holds(c),
         SuspendBefore(c) \/ Conclude(c) \/ CloseStop(c) \/ Abort(c) \/ CloseInterrupt(c)
  PROVE  Proceeds(c)
<1> DEFINE k == ck[c]
<1>1. /\ Inv /\ k \in Checkpoint /\ Sound(k) /\ NoneRunning(k) /\ k.interrupt = NoInterrupt /\ run[c] \in Runs
  BY InHand DEF Holds, FitsAt, Fits, SuspendBefore, Conclude, CloseStop, Abort, CloseInterrupt, Planning
<1>2. ASSUME NEW s \in RunStatus, CommitLast(c, FinishRun(k, s))
      PROVE  Proceeds(c)
  BY <1>1, <1>2, FinishRunFollows, FinishRunSound, LastProceeds DEF NoneRunning
<1>3. CASE SuspendBefore(c)
  <2> DEFINE n == First(Blocked(k))
  <2>1. n \in Nodes
    BY <1>3, FirstIsMember DEF SuspendBefore, Blocked, Ready, InStatus
  <2>2. "before" \in Phases /\ "before" # "after"
    BY DEF Phases
  <2> HIDE DEF n
  <2>3. Follows(k, Suspend(k, run[c], "before", n))
    BY <1>1, <2>1, <2>2, SuspendFollows
  <2>4. Sound(Suspend(k, run[c], "before", n)) /\ Succeeds(k, Suspend(k, run[c], "before", n))
    BY <1>1, <2>1, <2>2, SuspendSound DEF NoneRunning
  <2> QED
    BY <1>1, <1>3, <2>3, <2>4, LastProceeds DEF SuspendBefore, n
<1>4. CASE Conclude(c)
  <2>1. FinalStatus(k) \in RunStatus
    BY DEF FinalStatus, RunStatus
  <2>2. CASE Goto(c, "unwind") /\ UNCHANGED <<ck, task, lost, ran>> /\ Locally
    BY <1>1, <2>2, AnythingFits, GoesOn DEF Locally, store
  <2> QED
    BY <1>2, <1>4, <2>1, <2>2 DEF Conclude
<1>5. CASE CloseStop(c)
  BY <1>2, <1>5 DEF CloseStop, CloseStatus, RunStatus
<1>6. CASE Abort(c)
  BY <1>2, <1>6 DEF Abort, RunStatus
<1>7. CASE CloseInterrupt(c)
  <2> DEFINE n == First(Tasked(c, {"interrupt"}))
  <2>1. n \in Nodes /\ task[c][n] = "interrupt"
    BY <1>7, FirstIsMember DEF CloseInterrupt, Tasked
  <2> HIDE DEF n
  <2>2. k.node[n] \in {"completed", "failed"} /\ Undecided(k, n) = Outgoing(n)
    BY <1>7, <2>1 DEF CloseInterrupt, Holds, FitsAt, Fits, Closable
  <2>3. "after" \in Phases
    BY DEF Phases
  <2>4. Follows(k, Suspend(k, run[c], "after", n))
    BY <1>1, <2>1, <2>3, SuspendFollows
  <2>5. Sound(Suspend(k, run[c], "after", n)) /\ Succeeds(k, Suspend(k, run[c], "after", n))
    BY <1>1, <2>1, <2>2, SuspendSound DEF NoneRunning
  <2> QED
    BY <1>1, <1>7, <2>4, <2>5, LastProceeds DEF CloseInterrupt, n
<1> QED
  BY <1>3, <1>4, <1>5, <1>6, <1>7

\* The next node of a wave: it is ready, and stays so while others start.
LEMMA StartNodeProceeds ==
  ASSUME NEW c \in Callers, Holds(c), StartNode(c)
  PROVE  Proceeds(c)
<1> DEFINE k == ck[c]
           n == First(Tasked(c, {"ready"}))
           t == [task[c] EXCEPT ![n] = "started"]
           x == Start(k, n)
           label == IF Tasked(c, {"ready"}) = {n} THEN "exec" ELSE "start"
<1>1. /\ Inv /\ k \in Checkpoint /\ Sound(k) /\ k.interrupt = NoInterrupt /\ Wave(k, task[c])
      /\ \A m \in Nodes : task[c][m] = "ready" => m \in Ready(k) \ Blocked(k)
      /\ \A m \in Nodes : task[c][m] \notin {"edges", "interrupt"}
  BY InHand DEF Holds, FitsAt, Fits, StartNode
<1>2. n \in Nodes /\ task[c][n] = "ready"
  <2>1. \E m \in Nodes : task[c][m] = "ready"
    BY <1>1 DEF Inv, WaveOpen, WaveOpenAt, StartNode
  <2> QED
    BY <2>1, FirstIsMember DEF Tasked
<1>3. (Commit(c, x) /\ SetTask(c, n, "started") /\ Goto(c, label)) \/ Refused(c, "unwind")
  BY DEF StartNode
<1> HIDE DEF n
<1>4. Follows(k, x) /\ Sound(x) /\ Succeeds(k, x)
  BY <1>1, <1>2, StartFollows, StartSound
<1>5. /\ x.edge = k.edge /\ x.resolved = k.resolved /\ x.interrupt = NoInterrupt
      /\ x.node[n] = "running" /\ \A m \in Nodes \ {n} : x.node[m] = k.node[m]
  <2>1. x.node = [k.node EXCEPT ![n] = "running"]
    BY <1>1, <1>2, StartParts
  <2>2. k.node \in [Nodes -> NodeStatus]
    BY <1>1, Parts
  <2> QED
    BY <1>1, <1>2, <2>1, <2>2, StartParts
<1>6. t[n] = "started" /\ \A m \in Nodes \ {n} : t[m] = task[c][m]
  BY <1>1, <1>2, InHand
<1>7. label = "exec" => \A m \in Nodes \ {n} : task[c][m] # "ready"
  BY DEF Tasked
<1>8. label \in {"exec", "start"}
  OBVIOUS
<1> HIDE DEF x, t, label
<1>9. Wave(x, t)
  BY <1>1, <1>5, <1>6 DEF Wave, InWork
<1>10. \A m \in Nodes : t[m] = "ready" => m \in Ready(x) \ Blocked(x)
  <2> SUFFICES ASSUME NEW m \in Nodes \ {n}, m \in Ready(k) \ Blocked(k)
               PROVE  m \in Ready(x) \ Blocked(x)
    BY <1>1, <1>6
  <2> QED
    BY <1>5, SameEdges DEF Ready, Blocked, InStatus
<1>11. Fits(label, op[c], x, ack[c], t)
  BY <1>1, <1>5, <1>6, <1>7, <1>8, <1>9, <1>10 DEF Fits
<1>12. CASE Commit(c, x) /\ SetTask(c, n, "started") /\ Goto(c, label)
  BY <1>1, <1>4, <1>11, <1>12, AddsProceeds DEF Adds, SetTask, t
<1>13. CASE Refused(c, "unwind")
  BY <1>1, <1>13, AnythingFits, RefusedProceeds
<1> QED
  BY <1>3, <1>12, <1>13

\* Executors are invoked and return: what is recorded as running does not change.
LEMMA WorkProceeds ==
  ASSUME NEW c \in Callers, Holds(c), (\E n \in Nodes : Dispatch(c, n) \/ Return(c, n)) \/ Gather(c)
  PROVE  Proceeds(c)
<1> DEFINE k == ck[c]
<1>1. /\ Inv /\ k \in Checkpoint /\ k.interrupt = NoInterrupt /\ Wave(k, task[c]) /\ pc[c] = "exec"
      /\ \A m \in Nodes : task[c][m] \notin {"ready", "edges", "interrupt"}
  BY InHand DEF Holds, FitsAt, Fits, Dispatch, MayDispatch, Return, Gather
<1>2. ASSUME NEW n \in Nodes, task[c][n] \in {"started", "active"}, NEW v \in {"active"} \cup Outcomes,
             SetTask(c, n, v), UNCHANGED <<pc, ck>>, Locally
      PROVE  Proceeds(c)
  <2> DEFINE t == [task[c] EXCEPT ![n] = v]
  <2>1. t[n] = v /\ \A m \in Nodes \ {n} : t[m] = task[c][m]
    BY <1>1, InHand
  <2>2. v \in InWork /\ task[c][n] \in InWork /\ v \notin {"ready", "edges", "interrupt"}
    BY <1>2 DEF InWork, Outcomes
  <2> HIDE DEF t
  <2>3. Fits("exec", op[c], k, ack[c], t)
    BY <1>1, <2>1, <2>2 DEF Fits, Wave
  <2>4. Goto(c, "exec")
    BY <1>1, <1>2 DEF Goto, Inv, TypeOK
  <2> QED
    BY <1>1, <1>2, <2>3, <2>4, StaysProceeds DEF SetTask, Locally, store, t
<1>3. CASE \E n \in Nodes : Dispatch(c, n)
  <2> PICK n \in Nodes : Dispatch(c, n)
    BY <1>3
  <2> DEFINE v == IF LeaseBad(c) THEN "failed" ELSE "active"
  <2>1. v \in {"active"} \cup Outcomes
    BY DEF Outcomes
  <2> HIDE DEF v
  <2> QED
    BY <1>2, <2>1 DEF Dispatch, MayDispatch, v
<1>4. CASE \E n \in Nodes : Return(c, n)
  BY <1>2, <1>4, EngineAssumption DEF Return
<1>5. CASE Gather(c)
  <2>1. \A m \in Nodes : task[c][m] \notin {"started", "active"}
    BY <1>5 DEF Gather, Tasked
  <2>2. Fits("settle", op[c], k, ack[c], task[c]) /\ Fits("unwind", op[c], k, ack[c], task[c])
    BY <1>1, <2>1 DEF Fits, Closable
  <2> QED
    BY <1>1, <1>5, <2>2, GoesOn DEF Gather, Locally, store
<1> QED
  BY <1>3, <1>4, <1>5

\* The next outcome of a wave: a retry, or the end of the step.
LEMMA SettleProceeds ==
  ASSUME NEW c \in Callers, Holds(c), Settle(c)
  PROVE  Proceeds(c)
<1> DEFINE k == ck[c]
           n == First(Tasked(c, Outcomes))
           s == RecordedStatus(task[c][n])
           label == IF Tasked(c, Outcomes) = {n} THEN "close" ELSE "settle"
<1>1. /\ Inv /\ k \in Checkpoint /\ Sound(k) /\ k.interrupt = NoInterrupt /\ Wave(k, task[c])
      /\ \A m \in Nodes : task[c][m] \notin {"ready", "started", "active"}
      /\ Closable(k, task[c])
  BY InHand DEF Holds, FitsAt, Fits, Settle
<1>2. n \in Nodes /\ task[c][n] \in Outcomes
  <2>1. \E m \in Nodes : task[c][m] \in Outcomes
    BY <1>1 DEF Inv, WaveOpen, WaveOpenAt, Settle
  <2> QED
    BY <2>1, FirstIsMember DEF Tasked
<1>3. \/ IF ShouldRetry(c, n)
           THEN Commit(c, Retry(k, n)) /\ SetTask(c, n, "retried") /\ Goto(c, label)
           ELSE Commit(c, FinishNode(k, n, s)) /\ SetTask(c, n, Fate(c, n)) /\ Goto(c, label)
      \/ Refused(c, "unwind")
  BY DEF Settle
<1>4. label = "close" => \A m \in Nodes \ {n} : task[c][m] \notin Outcomes
  BY DEF Tasked
<1>5. label \in {"settle", "close"}
  OBVIOUS
<1> HIDE DEF n, label
<1>6. s \in {"completed", "failed", "suspended", "cancelled"} /\ k.node[n] = "running"
  BY <1>1, <1>2 DEF RecordedStatus, Outcomes, Wave, InWork
<1> HIDE DEF s
<1>7. ASSUME NEW x, Follows(k, x), Sound(x), Succeeds(k, x), x.edge = k.edge, x.interrupt = NoInterrupt,
             x.node[n] # "running", \A m \in Nodes \ {n} : x.node[m] = k.node[m],
             NEW v, v \notin InWork \cup {"ready"},
             v \in {"edges", "interrupt"} => x.node[n] \in {"completed", "failed"},
             Commit(c, x), SetTask(c, n, v), Goto(c, label)
      PROVE  Proceeds(c)
  <2> DEFINE t == [task[c] EXCEPT ![n] = v]
  <2>1. t[n] = v /\ \A m \in Nodes \ {n} : t[m] = task[c][m]
    BY <1>1, <1>2, InHand
  <2> HIDE DEF t
  <2>2. Wave(x, t)
    BY <1>1, <1>7, <2>1 DEF Wave
  <2>3. Undecided(k, n) = Outgoing(n)
    BY <1>1, <1>2, <1>6 DEF Sound, EdgesJustified, Done, Undecided, Outgoing
  <2>4. Closable(x, t)
    BY <1>1, <1>7, <2>1, <2>3, SameEdges DEF Closable
  <2>5. \A m \in Nodes : t[m] \notin {"ready", "started", "active"}
    BY <1>1, <1>7, <2>1 DEF InWork
  <2>6. label = "close" => NoneRunning(x)
    BY <1>4, <1>7, <2>1, <2>2, <2>5, NothingRuns DEF Wave, InWork
  <2>7. Fits(label, op[c], x, ack[c], t)
    BY <1>5, <1>7, <2>2, <2>4, <2>5, <2>6 DEF Fits
  <2> QED
    BY <1>1, <1>7, <2>7, AddsProceeds DEF Adds, SetTask, t
<1>8. CASE ShouldRetry(c, n) /\ Commit(c, Retry(k, n)) /\ SetTask(c, n, "retried") /\ Goto(c, label)
  <2> DEFINE x == Retry(k, n)
  <2>1. k.attempt[n] < MaxAttempts[n]
    BY <1>8 DEF ShouldRetry
  <2>2. Follows(k, x) /\ Sound(x) /\ Succeeds(k, x)
    BY <1>1, <1>2, <1>6, <2>1, RetryFollows, RetrySound
  <2>3. x.node = [k.node EXCEPT ![n] = "pending"] /\ k.node \in [Nodes -> NodeStatus]
    BY <1>1, <1>2, RetryParts, Parts
  <2>4. x.edge = k.edge /\ x.interrupt = NoInterrupt
    BY <1>1, <1>2, RetryParts
  <2> HIDE DEF x
  <2>5. x.node[n] = "pending" /\ \A m \in Nodes \ {n} : x.node[m] = k.node[m]
    BY <1>2, <2>3
  <2>6. "retried" \notin InWork \cup {"ready"}
    BY DEF InWork, Outcomes
  <2> QED
    BY <1>7, <1>8, <2>2, <2>4, <2>5, <2>6 DEF x
<1>9. CASE Commit(c, FinishNode(k, n, s)) /\ SetTask(c, n, Fate(c, n)) /\ Goto(c, label)
  <2> DEFINE x == FinishNode(k, n, s)
  <2>1. Follows(k, x) /\ Sound(x) /\ Succeeds(k, x)
    BY <1>1, <1>2, <1>6, FinishNodeFollows, FinishNodeSound DEF NodeStatus
  <2>2. /\ x.edge = k.edge /\ x.interrupt = NoInterrupt /\ x.node[n] = s
        /\ \A m \in Nodes \ {n} : x.node[m] = k.node[m]
    BY <1>1, <1>2, FinishNodeParts
  <2>3. /\ Fate(c, n) \in {"rec-suspended", "rec-cancelled", "rec-failed", "interrupt", "edges"}
        /\ Fate(c, n) \in {"edges", "interrupt"} => s \in {"completed", "failed"}
    BY <1>6 DEF Fate, s
  <2>4. Fate(c, n) \notin InWork \cup {"ready"}
    BY <2>3 DEF InWork, Outcomes
  <2> HIDE DEF x
  <2> QED
    BY <1>6, <1>7, <1>9, <2>1, <2>2, <2>3, <2>4 DEF x
<1>10. CASE Refused(c, "unwind")
  BY <1>1, <1>10, AnythingFits, RefusedProceeds
<1> QED
  BY <1>3, <1>8, <1>9, <1>10

\* The edges of a wave, and its end.
LEMMA CloseProceeds ==
  ASSUME NEW c \in Callers, Holds(c), CloseEdges(c) \/ CloseWave(c)
  PROVE  Proceeds(c)
<1>1. Inv /\ pc[c] = "close" /\ FitsAt(c)
  BY DEF Holds, CloseEdges, CloseWave
<1>2. CASE CloseEdges(c)
  <2> DEFINE n == First(Tasked(c, {"edges"}))
  <2>1. n \in Nodes /\ task[c][n] = "edges"
    BY <1>2, FirstIsMember DEF CloseEdges, Tasked
  <2> HIDE DEF n
  <2> QED
    BY <1>1, <1>2, <2>1, RouteProceeds DEF CloseEdges, n
<1>3. CASE CloseWave(c)
  <2>1. Fits("loop", op[c], ck[c], ack[c], NoTasks)
    BY <1>1 DEF FitsAt, Fits
  <2> QED
    BY <1>1, <1>3, <2>1, StaysProceeds DEF CloseWave, Locally, store
<1> QED
  BY <1>2, <1>3

LEMMA CancelAppendProceeds ==
  ASSUME NEW c \in Callers, Holds(c), CancelAppend(c)
  PROVE  Proceeds(c)
<1>1. Inv /\ ck[c] \in Checkpoint /\ Sound(ck[c])
  BY InHand DEF Holds
<1>2. Follows(ck[c], Cancel(ck[c])) /\ Sound(Cancel(ck[c])) /\ Succeeds(ck[c], Cancel(ck[c]))
  BY <1>1, CancelFollows, CancelSound
<1> QED
  BY <1>1, <1>2, LastProceeds DEF CancelAppend

LEMMA ExecuteProceeds ==
  ASSUME NEW c \in Callers, Holds(c), Execute(c)
  PROVE  Proceeds(c)
BY PlanProceeds, ConcludeProceeds, StartNodeProceeds, WorkProceeds, SettleProceeds, CloseProceeds DEF Execute

-----------------------------------------------------------------------------
(* What a step of the system adds to the histories *)

\* A sound checkpoint that succeeds the newest one of a run ...
Appends(r, x) ==
  /\ Exists(r) /\ Newest(r).status \notin Terminal
  /\ history' = [history EXCEPT ![r] = Append(@, x)]
  /\ Sound(x) /\ Succeeds(Newest(r), x)

\* ... or the first one of another.
Begins(r, x) ==
  /\ ~Exists(r)
  /\ history' = [history EXCEPT ![r] = <<x>>]
  /\ Opens(x)

HistoryStep == UNCHANGED history \/ \E r \in Runs, x \in Checkpoint : Appends(r, x) \/ Begins(r, x)

\* Every checkpoint of every history is sound.
AllSound == \A r \in Runs : \A i \in 1..Len(history[r]) : Sound(history[r][i])

\* The fencing token has no part in what fits.
LEMMA StampFits ==
  ASSUME NEW k \in Checkpoint, NEW token, NEW label, NEW o, NEW a, NEW t, Fits(label, o, k, a, t)
  PROVE  Fits(label, o, Stamp(k, token), a, t)
<1> DEFINE x == Stamp(k, token)
<1>1. /\ x.last = k.last /\ x.status = k.status /\ x.attempt = k.attempt
      /\ x.node = k.node /\ x.edge = k.edge
      /\ x.interrupt = k.interrupt /\ x.resolved = k.resolved
  BY StampParts
<1>2. Opens(k) => Opens(x)
  <2> SUFFICES ASSUME Opens(k)
               PROVE  Opens(x)
    OBVIOUS
  <2>1. Sound(x)
    BY StampSound DEF Opens
  <2> HIDE DEF x
  <2> QED
    BY <1>1, <2>1 DEF Opens, InStatus
<1> HIDE DEF x
<1>3. /\ NoneRunning(x) <=> NoneRunning(k)
      /\ Ready(x) = Ready(k) /\ Blocked(x) = Blocked(k)
      /\ Resumable(k, a) => Resumable(x, a)
  BY <1>1, SameEdges DEF NoneRunning, Ready, Blocked, Resumable, InStatus
<1>4. (Wave(k, t) => Wave(x, t)) /\ (Closable(k, t) => Closable(x, t))
  BY <1>1, SameEdges DEF Wave, Closable
<1>5. Fits(label, o, x, a, t)
  BY <1>1, <1>2, <1>3, <1>4 DEF Fits
<1> QED
  BY <1>5 DEF x

\* An accepted append makes a history longer.
LEMMA AddsLengthens ==
  ASSUME Inv, NEW c \in Callers, NEW k, Adds(c, k)
  PROVE  ~UNCHANGED history
<1> DEFINE x == Stamp(k, guard[c])
<1>1. k \in Checkpoint /\ guard[c] \in Nat
  BY DEF Adds, Follows, Inv, TypeOK
<1>2. x \in Checkpoint /\ run[c] \in Runs /\ history[run[c]] \in Seq(Checkpoint)
  BY <1>1, StampType DEF Inv, TypeOK
<1>3. history' = [history EXCEPT ![run[c]] = Append(@, x)]
  BY DEF Adds, Commit
<1> HIDE DEF x
<1>4. history'[run[c]] = Append(history[run[c]], x)
  BY <1>2, <1>3 DEF Inv, TypeOK
<1>5. Len(history'[run[c]]) = Len(history[run[c]]) + 1 /\ Len(history[run[c]]) \in Nat
  BY <1>2, <1>4
<1> QED
  BY <1>5

\* A caller at work, which appends only to what it holds in its hand.
LEMMA ProceedFits ==
  ASSUME Inv, CallersFit, NEW c \in Callers, Proceeds(c), UNCHANGED history \/ InHistory(ck[c], run[c])
  PROVE  HistoryStep /\ CallersFit'
<1> PICK label, t, k :
      /\ pc' = [pc EXCEPT ![c] = label] /\ task' = [task EXCEPT ![c] = t]
      /\ UNCHANGED <<op, run, ack>>
      /\ Adds(c, k) \/ (UNCHANGED history /\ ck' = [ck EXCEPT ![c] = k])
      /\ Fits(label, op[c], k, ack[c], t)
  BY DEF Proceeds
<1>1. /\ pc'[c] = label /\ task'[c] = t
      /\ \A d \in Callers \ {c} : pc'[d] = pc[d] /\ task'[d] = task[d] /\ op'[d] = op[d] /\ ack'[d] = ack[d]
  BY DEF Inv, TypeOK
<1>2. CASE UNCHANGED history /\ ck' = [ck EXCEPT ![c] = k]
  <2>1. ck'[c] = k /\ \A d \in Callers \ {c} : ck'[d] = ck[d]
    BY <1>2 DEF Inv, TypeOK
  <2>2. CallersFit'
    BY <1>1, <2>1, Zenon DEF CallersFit, FitsAt
  <2> QED
    BY <1>2, <2>2 DEF HistoryStep
<1>3. CASE Adds(c, k)
  <2> DEFINE x == Stamp(k, guard[c])
             r == run[c]
  <2>1. k \in Checkpoint /\ guard[c] \in Nat /\ r \in Runs /\ ck[c] \in Checkpoint
    BY <1>3 DEF Adds, Follows, Inv, TypeOK
  <2>2. /\ history' = [history EXCEPT ![r] = Append(@, x)] /\ ck' = [ck EXCEPT ![c] = x]
        /\ Exists(r) /\ Newest(r).status \notin Terminal /\ ck[c].seq = Newest(r).seq
    BY <1>3 DEF Adds, Commit, CanAppend
  <2>3. ck[c] = Newest(r)
    BY <1>3, <2>1, <2>2, AddsLengthens, NewestInHistory
  <2>4. x \in Checkpoint /\ Sound(x) /\ Succeeds(Newest(r), x)
    BY <1>3, <2>1, <2>3, StampType, StampSound DEF Adds
  <2>5. Fits(label, op[c], x, ack[c], t)
    BY <2>1, StampFits
  <2> HIDE DEF x
  <2>6. ck'[c] = x /\ \A d \in Callers \ {c} : ck'[d] = ck[d]
    BY <2>2 DEF Inv, TypeOK
  <2>7. CallersFit'
    BY <1>1, <2>5, <2>6, Zenon DEF CallersFit, FitsAt
  <2>8. Appends(r, x)
    BY <2>2, <2>4 DEF Appends
  <2> QED
    BY <2>1, <2>4, <2>7, <2>8 DEF HistoryStep
<1> QED
  BY <1>2, <1>3

\* A caller that leaves the store alone and reaches a place that its
\* checkpoint fits, the others staying where they are.
LEMMA QuietFits ==
  ASSUME CallersFit, NEW c \in Callers, UNCHANGED history, FitsAt(c)',
         \A d \in Callers \ {c} : UNCHANGED <<pc[d], op[d], ck[d], ack[d], task[d]>>
  PROVE  HistoryStep /\ CallersFit'
<1>1. CallersFit'
  BY Zenon DEF CallersFit, FitsAt
<1> QED
  BY <1>1 DEF HistoryStep

LEMMA CallFits ==
  ASSUME Inv, CallersFit, AllSound, NEW c \in Callers, Call(c)
  PROVE  HistoryStep /\ CallersFit'
<1>1. UNCHANGED <<history, task>>
  BY DEF Call, CallRun, CallRecover, CallCancel, CallResume, CallFork, Begin, store
<1>2. ASSUME NEW label, Goto(c, label), NEW o, op' = [op EXCEPT ![c] = o], label = "claim" => o # "execute",
             label \in {"claim", "cancel"}, UNCHANGED ck \/ \E k : ck' = [ck EXCEPT ![c] = k],
             UNCHANGED ack \/ \E a : ack' = [ack EXCEPT ![c] = a]
      PROVE  HistoryStep /\ CallersFit'
  <2>1. /\ pc'[c] = label /\ op'[c] = o
        /\ \A d \in Callers \ {c} : UNCHANGED <<pc[d], op[d], ck[d], ack[d], task[d]>>
    BY <1>1, <1>2 DEF Goto, Inv, TypeOK
  <2>2. FitsAt(c)'
    BY <1>2, <2>1 DEF FitsAt, Fits
  <2> QED
    BY <1>1, <2>1, <2>2, QuietFits
<1>3. ASSUME NEW x, Opens(x), Goto(c, "create"), op' = [op EXCEPT ![c] = "execute"],
             ck' = [ck EXCEPT ![c] = x], UNCHANGED ack
      PROVE  HistoryStep /\ CallersFit'
  <2>1. /\ pc'[c] = "create" /\ ck'[c] = x
        /\ \A d \in Callers \ {c} : UNCHANGED <<pc[d], op[d], ck[d], ack[d], task[d]>>
    BY <1>1, <1>3 DEF Goto, Inv, TypeOK
  <2>2. FitsAt(c)'
    BY <1>3, <2>1 DEF FitsAt, Fits
  <2> QED
    BY <1>1, <2>1, <2>2, QuietFits
<1>4. CASE \E k \in Keys \cup {NoKey}, r \in Runs : CallRun(c, k, r)
  BY <1>3, <1>4, InitialOpens DEF CallRun
<1>5. CASE \E s, r \in Runs, k \in Keys \cup {NoKey} : \E i \in 1..Len(history[s]) : CallFork(c, s, i, k, r)
  <2> PICK s \in Runs, r \in Runs, k \in Keys \cup {NoKey} : \E i \in 1..Len(history[s]) : CallFork(c, s, i, k, r)
    BY <1>5
  <2> PICK i \in 1..Len(history[s]) : CallFork(c, s, i, k, r)
    OBVIOUS
  <2>1. Opens(Fork(history[s][i]))
    BY Stored, ForkOpens DEF AllSound
  <2> QED
    BY <1>3, <2>1 DEF CallFork
<1>6. CASE \E r \in Runs : CallRecover(c, r) \/ CallCancel(c, r)
  BY <1>2, <1>6 DEF CallRecover, CallCancel
<1>7. CASE \E r \in Runs : \E a : CallResume(c, r, a)
  BY <1>2, <1>7 DEF CallResume
<1> QED
  BY <1>4, <1>5, <1>6, <1>7 DEF Call

LEMMA CreateFits ==
  ASSUME Inv, CallersFit, NEW c \in Callers, Create(c)
  PROVE  HistoryStep /\ CallersFit'
<1>1. /\ UNCHANGED <<op, run, ck, ack, task>> /\ pc[c] = "create" /\ Opens(ck[c])
      /\ ck[c] \in Checkpoint /\ run[c] \in Runs
      /\ \A d \in Callers \ {c} : pc'[d] = pc[d]
      /\ pc'[c] \in {"unwind", "claim"}
  BY InHand DEF Create, CallersFit, FitsAt, Fits, Goto, Inv, TypeOK
<1>2. FitsAt(c)'
  BY <1>1 DEF FitsAt, Fits, Opens, NoneRunning
<1>3. CallersFit'
  BY <1>1, <1>2, Zenon DEF CallersFit, FitsAt
<1>4. HistoryStep
  <2>1. CASE KeyTaken(c)
    BY <2>1 DEF HistoryStep, Create, store
  <2>2. CASE ~KeyTaken(c)
    <3>1. Begins(run[c], ck[c])
      BY <1>1, <2>2 DEF Begins, Create, Inv, Creating
    <3> QED
      BY <1>1, <3>1 DEF HistoryStep
  <2> QED
    BY <2>1, <2>2
<1> QED
  BY <1>3, <1>4

\* What a caller relies on is recorded, hence sound.
LEMMA LoadedSound ==
  ASSUME Inv, AllSound, NEW c \in Callers, InHistory(ck[c], run[c])
  PROVE  Sound(ck[c])
<1>1. ck[c].seq \in Nat /\ run[c] \in Runs /\ Len(history[run[c]]) \in Nat
  BY Lengths
<1>2. ck[c].seq + 1 \in 1..Len(history[run[c]])
  BY <1>1 DEF InHistory
<1> QED
  BY <1>1, <1>2 DEF InHistory, AllSound

LEMMA NewestSound ==
  ASSUME Inv, AllSound, NEW r \in Runs, Exists(r)
  PROVE  Sound(Newest(r))
<1>1. history[r] \in Seq(Checkpoint) /\ history[r] # <<>>
  BY DEF Inv, TypeOK, Exists
<1>2. Len(history[r]) \in 1..Len(history[r])
  BY <1>1
<1> QED
  BY <1>2 DEF AllSound, Newest

LEMMA StepFits ==
  ASSUME Inv, CallersFit, Loaded, AllSound, NEW c \in Callers, Step(c)
  PROVE  HistoryStep /\ CallersFit'
<1>1. FitsAt(c)
  BY DEF CallersFit
<1>2. CASE Create(c)
  BY <1>2, CreateFits
<1>3. CASE Unwind(c)
  <2>1. /\ UNCHANGED history /\ pc'[c] = "idle"
        /\ \A d \in Callers \ {c} : UNCHANGED <<pc[d], op[d], ck[d], ack[d], task[d]>>
    BY <1>3 DEF Unwind, Forget, store, Inv, TypeOK
  <2> QED
    BY <2>1, AnythingFits, QuietFits DEF FitsAt
<1>4. CASE Claim(c) \/ RecoverLoad(c) \/ ResumeLoad(c)
  <2>1. UNCHANGED history
    BY <1>4 DEF Claim, RecoverLoad, ResumeLoad, Locally, store
  <2>2. ResumeLoad(c) => Sound(Newest(run[c]))
    BY NewestSound, InHand DEF ResumeLoad, Inv, Working
  <2>3. Proceeds(c)
    BY <1>1, <1>4, <2>2, ClaimProceeds, RecoverLoadProceeds, ResumeLoadProceeds
  <2> QED
    BY <2>1, <2>3, ProceedFits
<1>5. CASE RecoverAppend(c) \/ ResumeAppend(c) \/ Reroute(c) \/ Execute(c) \/ CancelAppend(c)
  <2>1. ~Unloaded(c)
    BY <1>5 DEF RecoverAppend, ResumeAppend, Reroute, Execute, CancelAppend,
       LoopTop, SkipNode, ReturnSuspended, SuspendBefore, Conclude, BeginWave, StartNode,
       Dispatch, MayDispatch, Return, Gather, Settle, CloseStop, CloseEdges, Abort,
       CloseInterrupt, CloseWave, Planning, Unloaded
  <2>2. InHistory(ck[c], run[c])
    BY <2>1 DEF Loaded
  <2>3. Holds(c)
    BY <1>1, <2>2, LoadedSound DEF Holds
  <2>4. Proceeds(c)
    BY <1>5, <2>3, RecoverAppendProceeds, ResumeAppendProceeds, RerouteProceeds, ExecuteProceeds,
       CancelAppendProceeds
  <2> QED
    BY <2>2, <2>4, ProceedFits
<1> QED
  BY <1>2, <1>3, <1>4, <1>5 DEF Step

\* Every step of the system.
LEMMA NextFits ==
  ASSUME Inv, CallersFit, Loaded, AllSound, [Next]_vars
  PROVE  HistoryStep /\ CallersFit'
<1>1. CASE UNCHANGED <<history, pc, op, ck, ack, task>>
  BY <1>1 DEF HistoryStep, CallersFit, FitsAt
<1>2. CASE \E c \in Callers : Crash(c)
  <2> PICK c \in Callers : Crash(c)
    BY <1>2
  <2>1. /\ UNCHANGED history /\ pc'[c] = "idle"
        /\ \A d \in Callers \ {c} : UNCHANGED <<pc[d], op[d], ck[d], ack[d], task[d]>>
    BY DEF Crash, Forget, store, Inv, TypeOK
  <2> QED
    BY <2>1, AnythingFits, QuietFits DEF FitsAt
<1>3. CASE \E c \in Callers : Call(c) \/ Step(c)
  BY <1>3, CallFits, StepFits
<1>4. CASE UNCHANGED vars \/ (\E c \in Callers : Heartbeat(c)) \/ (\E r \in Runs : Lapse(r) \/ Revive(r))
  BY <1>1, <1>4 DEF vars, store, local, Heartbeat, Lapse, Revive
<1> QED
  BY <1>2, <1>3, <1>4 DEF Next

LEMMA InitFits == Init => CallersFit
BY AnythingFits DEF Init, CallersFit, FitsAt

-----------------------------------------------------------------------------
(* What the history of a run says, as a sequence h of checkpoints *)

\* Its first checkpoint.
OpenedIn(h) ==
  h # <<>> =>
    /\ h[1].last \in {"workflow-start", "workflow-fork"}
    /\ h[1].last = "workflow-start" => \A n \in Nodes : h[1].attempt[n] = 0 /\ h[1].node[n] # "skipped"

SoundIn(h) == \A i \in 1..Len(h) : Sound(h[i])

GatesIn(h) == \A i \in 1..(Len(h) - 1) : Gates(h[i], h[i + 1])

FinalIn(h) == \A i \in 1..Len(h) : \A j \in i..Len(h) : Final(h[i], h[j])

\* Attempts are never taken back.
GrowsIn(h) == \A i \in 1..Len(h) : \A j \in i..Len(h) : \A n \in Nodes : h[i].attempt[n] <= h[j].attempt[n]

\* A run that was started and not cancelled skips what no edge leads to.
SkipsIn(h) ==
  h # <<>> /\ h[1].last = "workflow-start" =>
    \A i \in 1..Len(h) : \A n \in Nodes :
      h[i].node[n] = "skipped" /\ h[i].status # "cancelled" => Unreachable(h[i], n)

\* PutBack, of a sequence.
PutBackIn(h, i, n) ==
  {j \in 1..i : \/ h[j].last = "workflow-fork"
                \/ /\ h[j].last \in {"workflow-recovered", "workflow-resume"}
                   /\ h[j - 1].node[n] \in {"running", "suspended"}}

\* The attempts of a node in checkpoint k are explained by p nodes put back; if
\* it is pending, so is one attempt more.
Explained(k, n, allowed, p) ==
  /\ k.attempt[n] <= allowed + p
  /\ k.node[n] = "pending" => k.attempt[n] < allowed + p

AccountedIn(h) ==
  \A i \in 1..Len(h) : \A n \in Nodes :
    \E allowed \in {MaxAttempts[n], h[1].attempt[n]} : Explained(h[i], n, allowed, Cardinality(PutBackIn(h, i, n)))

Kept(h) ==
  OpenedIn(h) /\ SoundIn(h) /\ GatesIn(h) /\ FinalIn(h) /\ GrowsIn(h) /\ SkipsIn(h) /\ AccountedIn(h)

\* A history and one checkpoint more.
LEMMA Longer ==
  ASSUME NEW h \in Seq(Checkpoint), h # <<>>, NEW x \in Checkpoint
  PROVE  LET l == Len(h) g == Append(h, x) IN
         /\ l \in Nat \ {0} /\ g # <<>> /\ Len(g) = l + 1 /\ g[l + 1] = x
         /\ \A i \in 1..l : g[i] = h[i] /\ h[i] \in Checkpoint
OBVIOUS

LEMMA FinalAgain ==
  ASSUME NEW k, NEW y, NEW x, Final(k, y), Final(y, x)
  PROVE  Final(k, x)
BY DEF Final

LEMMA FinalItself ==
  ASSUME NEW x
  PROVE  Final(x, x)
BY DEF Final

\* What no edge leads to stays so.
LEMMA StaysUnreachable ==
  ASSUME NEW k, NEW x, Final(k, x), NEW n, Unreachable(k, n)
  PROVE  Unreachable(x, n)
BY DEF Final, Unreachable, AllDecided, SomeTaken, Incoming

\* What was put back up to a checkpoint does not depend on later ones.
LEMMA PutBackEarlier ==
  ASSUME NEW h \in Seq(Checkpoint), h # <<>>, OpenedIn(h), NEW x \in Checkpoint, NEW n, NEW i \in 1..Len(h)
  PROVE  PutBackIn(Append(h, x), i, n) = PutBackIn(h, i, n)
<1> DEFINE g == Append(h, x)
<1>1. Len(h) \in Nat /\ i \in Nat /\ i <= Len(h) /\ \A j \in 1..Len(h) : g[j] = h[j]
  BY Longer
<1> HIDE DEF g
<1>2. g[1] = h[1] /\ h[1].last \notin {"workflow-recovered", "workflow-resume"}
  BY <1>1 DEF OpenedIn
<1>3. \A j \in 1..i : g[j] = h[j] /\ (j # 1 => j - 1 \in 1..Len(h))
  BY <1>1
<1>4. \A j \in 1..i : j # 1 => g[j - 1] = h[j - 1]
  BY <1>1, <1>3
<1>5. PutBackIn(g, i, n) = PutBackIn(h, i, n)
  BY <1>2, <1>3, <1>4 DEF PutBackIn
<1> QED
  BY <1>5 DEF g

\* The set is finite, and one larger if the new checkpoint puts the node back.
LEMMA PutBackFinite ==
  ASSUME NEW h, NEW i \in Nat, NEW n
  PROVE  IsFiniteSet(PutBackIn(h, i, n)) /\ Cardinality(PutBackIn(h, i, n)) \in Nat
<1>1. IsFiniteSet(1..i) /\ PutBackIn(h, i, n) \subseteq 1..i
  BY FS_Interval DEF PutBackIn
<1> QED
  BY <1>1, FS_Subset, FS_CardinalityType

LEMMA PutBackLater ==
  ASSUME NEW h \in Seq(Checkpoint), h # <<>>, OpenedIn(h), NEW x \in Checkpoint, NEW n
  PROVE  LET l == Len(h)
             old == Cardinality(PutBackIn(h, l, n))
             new == Cardinality(PutBackIn(Append(h, x), l + 1, n)) IN
         /\ old \in Nat /\ new \in Nat /\ old <= new
         /\ PutsBack(h[l], x, n) => new = old + 1
<1> DEFINE l == Len(h)
           g == Append(h, x)
           before == PutBackIn(h, l, n)
           after == PutBackIn(g, l + 1, n)
<1>1. l \in Nat \ {0} /\ g[l + 1] = x /\ g[l] = h[l] /\ l \in 1..l
  BY Longer
<1>2. before = PutBackIn(g, l, n)
  BY <1>1, PutBackEarlier
<1> HIDE DEF l, g
<1>3. (l + 1) - 1 = l /\ 1..(l + 1) = 1..l \cup {l + 1} /\ l + 1 \notin 1..l
  BY <1>1
<1>4. after \in {before, before \cup {l + 1}}
  BY <1>2, <1>3 DEF PutBackIn
<1>5. l + 1 \notin before
  BY <1>2, <1>3 DEF PutBackIn
<1>6. PutsBack(h[l], x, n) => l + 1 \in after
  BY <1>1, <1>3 DEF PutsBack, PutBackIn
<1>7. IsFiniteSet(before) /\ Cardinality(before) \in Nat
  BY <1>1, PutBackFinite
<1> HIDE DEF before, after
<1>8. Cardinality(before \cup {l + 1}) = Cardinality(before) + 1
  BY <1>5, <1>7, FS_AddElement
<1>9. /\ Cardinality(after) \in Nat /\ Cardinality(before) <= Cardinality(after)
      /\ PutsBack(h[l], x, n) => Cardinality(after) = Cardinality(before) + 1
  <2>1. CASE after = before
    BY <1>5, <1>6, <1>7, <2>1
  <2>2. CASE after = before \cup {l + 1}
    BY <1>7, <1>8, <2>2
  <2> QED
    BY <1>4, <2>1, <2>2
<1> QED
  BY <1>7, <1>9 DEF l, g, before, after

\* A run opened by run(...) or fork_workflow(...).
LEMMA OpenKept ==
  ASSUME NEW x \in Checkpoint, Opens(x)
  PROVE  Kept(<<x>>)
<1> DEFINE h == <<x>>
<1>1. Len(h) = 1 /\ h[1] = x /\ h # <<>> /\ \A i \in 1..Len(h) : i = 1
  OBVIOUS
<1> HIDE DEF h
<1>2. OpenedIn(h) /\ SoundIn(h) /\ GatesIn(h)
  BY <1>1 DEF OpenedIn, SoundIn, GatesIn, Opens
<1>3. FinalIn(h) /\ GrowsIn(h)
  <2>1. \A i \in 1..Len(h) : \A j \in i..Len(h) : i = 1 /\ j = 1
    BY <1>1
  <2>2. x.attempt \in [Nodes -> Nat]
    BY Parts
  <2> QED
    BY <1>1, <2>1, <2>2, FinalItself DEF FinalIn, GrowsIn
<1>4. SkipsIn(h)
  BY <1>1 DEF SkipsIn, Opens
<1>5. AccountedIn(h)
  <2> SUFFICES ASSUME NEW n \in Nodes
               PROVE  \E allowed \in {MaxAttempts[n], x.attempt[n]} :
                        Explained(x, n, allowed, Cardinality(PutBackIn(h, 1, n)))
    BY <1>1 DEF AccountedIn
  <2>1. MaxAttempts[n] \in Nat \ {0} /\ x.attempt[n] \in Nat
    BY Definition, Parts
  <2>2. CASE x.last = "workflow-start"
    <3>1. x.attempt[n] = 0 /\ Cardinality(PutBackIn(h, 1, n)) \in Nat
      BY <2>2, PutBackFinite DEF Opens
    <3> QED
      BY <2>1, <3>1 DEF Explained
  <2>3. CASE x.last = "workflow-fork"
    <3>1. PutBackIn(h, 1, n) = {1}
      BY <1>1, <2>3 DEF PutBackIn
    <3>2. Cardinality({1}) = 1
      BY FS_Singleton
    <3>3. Explained(x, n, x.attempt[n], 1)
      BY <2>1 DEF Explained
    <3> QED
      BY <3>1, <3>2, <3>3
  <2> QED
    BY <2>2, <2>3 DEF Opens
<1> QED
  BY <1>2, <1>3, <1>4, <1>5 DEF Kept, h

\* A run that goes on.
LEMMA ExtendKept ==
  ASSUME NEW h \in Seq(Checkpoint), h # <<>>, NEW x \in Checkpoint, Kept(h),
         h[Len(h)].status # "cancelled", Sound(x), Succeeds(h[Len(h)], x)
  PROVE  Kept(Append(h, x))
<1> DEFINE l == Len(h)
           g == Append(h, x)
           k == h[l]
<1>1. /\ l \in Nat \ {0} /\ g # <<>> /\ Len(g) = l + 1 /\ g[l + 1] = x
      /\ \A i \in 1..l : g[i] = h[i] /\ h[i] \in Checkpoint
  BY Longer
<1>2. k \in Checkpoint /\ k.status # "cancelled" /\ Succeeds(k, x) /\ k = h[l]
  BY <1>1
<1>3. \A n \in Nodes, i \in 1..l : PutBackIn(g, i, n) = PutBackIn(h, i, n)
  BY PutBackEarlier DEF Kept
<1>4. \A n \in Nodes : /\ Cardinality(PutBackIn(h, l, n)) \in Nat /\ Cardinality(PutBackIn(g, l + 1, n)) \in Nat
                       /\ Cardinality(PutBackIn(h, l, n)) <= Cardinality(PutBackIn(g, l + 1, n))
                       /\ PutsBack(k, x, n) => Cardinality(PutBackIn(g, l + 1, n)) = Cardinality(PutBackIn(h, l, n)) + 1
  BY PutBackLater DEF Kept
<1> HIDE DEF l, g, k
<1>5. 1..Len(g) = 1..l \cup {l + 1} /\ l + 1 \notin 1..l /\ 1 \in 1..l /\ l \in 1..l /\ g[1] = h[1]
  BY <1>1
<1>6. OpenedIn(g) /\ SoundIn(g)
  BY <1>1, <1>5 DEF Kept, OpenedIn, SoundIn, l
<1>7. GatesIn(g)
  <2> SUFFICES ASSUME NEW i \in 1..l
               PROVE  Gates(g[i], g[i + 1])
    BY <1>1 DEF GatesIn
  <2>1. CASE i = l
    BY <1>1, <1>2, <2>1 DEF Succeeds
  <2>2. CASE i # l
    <3>1. i \in 1..(l - 1) /\ i + 1 \in 1..l
      BY <1>1, <2>2
    <3> QED
      BY <1>1, <3>1 DEF Kept, GatesIn, l
  <2> QED
    BY <2>1, <2>2
<1>8. \A i \in 1..Len(g) : \A j \in i..Len(g) :
         \/ i \in 1..l /\ j \in i..l
         \/ i \in 1..l /\ l \in i..l /\ j = l + 1
         \/ i = l + 1 /\ j = l + 1
  BY <1>1
<1>9. FinalIn(g)
  <2>1. \A i \in 1..l : \A j \in i..l : j \in 1..l /\ Final(g[i], g[j])
    BY <1>1 DEF Kept, FinalIn, l
  <2>2. \A i \in 1..l : l \in i..l => Final(g[i], x)
    BY <1>1, <1>2, <1>5, <2>1, FinalAgain DEF Succeeds
  <2> QED
    BY <1>1, <1>8, <2>1, <2>2, FinalItself DEF FinalIn
<1>10. GrowsIn(g)
  <2>1. \A n \in Nodes : k.attempt[n] \in Nat /\ x.attempt[n] \in Nat /\ k.attempt[n] <= x.attempt[n]
    BY <1>2, Parts DEF Succeeds, Tries
  <2>2. \A i \in 1..l : \A n \in Nodes : h[i].attempt[n] \in Nat
    BY <1>1, Parts
  <2>3. \A i \in 1..l : \A j \in i..l : j \in 1..l /\ \A n \in Nodes : g[i].attempt[n] <= g[j].attempt[n]
    BY <1>1 DEF Kept, GrowsIn, l
  <2>4. \A i \in 1..l : l \in i..l => \A n \in Nodes : g[i].attempt[n] <= x.attempt[n]
    BY <1>1, <1>2, <1>5, <2>1, <2>2, <2>3
  <2> QED
    BY <1>1, <1>8, <2>1, <2>3, <2>4 DEF GrowsIn
<1>11. SkipsIn(g)
  <2> SUFFICES ASSUME h[1].last = "workflow-start", NEW n \in Nodes, NEW i \in 1..Len(g),
                      g[i].node[n] = "skipped", g[i].status # "cancelled"
               PROVE  Unreachable(g[i], n)
    BY <1>1, <1>5 DEF SkipsIn
  <2>1. \A j \in 1..l : h[j].node[n] = "skipped" /\ h[j].status # "cancelled" => Unreachable(h[j], n)
    BY DEF Kept, SkipsIn, l
  <2>2. CASE i \in 1..l
    BY <1>1, <2>1, <2>2
  <2>3. CASE i = l + 1
    <3>1. x.node[n] = "skipped" /\ x.status # "cancelled"
      BY <1>1, <2>3
    <3>2. Unreachable(k, n)
      BY <1>2, <1>5, <2>1, <3>1 DEF Succeeds, Skips
    <3> QED
      BY <1>1, <1>2, <2>3, <3>2, StaysUnreachable DEF Succeeds
  <2> QED
    BY <1>5, <2>2, <2>3
<1>12. AccountedIn(g)
  <2> SUFFICES ASSUME NEW n \in Nodes, NEW i \in 1..Len(g)
               PROVE  \E allowed \in {MaxAttempts[n], h[1].attempt[n]} :
                        Explained(g[i], n, allowed, Cardinality(PutBackIn(g, i, n)))
    BY <1>5 DEF AccountedIn
  <2>1. \A j \in 1..l : \E allowed \in {MaxAttempts[n], h[1].attempt[n]} :
           Explained(h[j], n, allowed, Cardinality(PutBackIn(h, j, n)))
    BY DEF Kept, AccountedIn, l
  <2>2. CASE i \in 1..l
    BY <1>1, <1>3, <2>1, <2>2
  <2>3. CASE i = l + 1
    <3> DEFINE p == Cardinality(PutBackIn(h, l, n))
               q == Cardinality(PutBackIn(g, l + 1, n))
    <3>1. PICK allowed \in {MaxAttempts[n], h[1].attempt[n]} : Explained(k, n, allowed, p)
      BY <1>2, <1>5, <2>1
    <3>2. /\ MaxAttempts[n] \in Nat /\ h[1].attempt[n] \in Nat
          /\ k.attempt[n] \in Nat /\ x.attempt[n] \in Nat
      BY <1>1, <1>2, <1>5, Definition, Parts
    <3>3. p \in Nat /\ q \in Nat /\ p <= q /\ (PutsBack(k, x, n) => q = p + 1)
      BY <1>4
    <3> HIDE DEF p, q
    <3>4. \/ /\ x.attempt[n] = k.attempt[n]
             /\ x.node[n] = "pending" =>
                  k.node[n] = "pending" \/ k.attempt[n] < MaxAttempts[n] \/ PutsBack(k, x, n)
          \/ x.attempt[n] = k.attempt[n] + 1 /\ k.node[n] = "pending" /\ x.node[n] # "pending"
      BY <1>2 DEF Succeeds, Tries
    <3>5. allowed \in Nat /\ k.attempt[n] <= allowed + p /\ (k.node[n] = "pending" => k.attempt[n] < allowed + p)
      BY <3>1, <3>2 DEF Explained
    <3>6. Explained(x, n, allowed, q) \/ Explained(x, n, MaxAttempts[n], q)
      <4>1. CASE x.attempt[n] = k.attempt[n] + 1 /\ k.node[n] = "pending" /\ x.node[n] # "pending"
        <5>1. x.attempt[n] <= allowed + q
          BY <3>2, <3>3, <3>5, <4>1
        <5> QED
          BY <4>1, <5>1 DEF Explained
      <4>2. CASE x.attempt[n] = k.attempt[n] /\ (x.node[n] = "pending" => k.node[n] = "pending")
        <5>1. x.attempt[n] <= allowed + q /\ (k.node[n] = "pending" => x.attempt[n] < allowed + q)
          BY <3>2, <3>3, <3>5, <4>2
        <5> QED
          BY <4>2, <5>1 DEF Explained
      <4>3. CASE x.attempt[n] = k.attempt[n] /\ k.attempt[n] < MaxAttempts[n]
        <5>1. x.attempt[n] < MaxAttempts[n] + q /\ x.attempt[n] <= MaxAttempts[n] + q
          BY <3>2, <3>3, <4>3
        <5> QED
          BY <5>1 DEF Explained
      <4>4. CASE x.attempt[n] = k.attempt[n] /\ PutsBack(k, x, n)
        <5>1. x.attempt[n] < allowed + q /\ x.attempt[n] <= allowed + q
          BY <3>2, <3>3, <3>5, <4>4
        <5> QED
          BY <5>1 DEF Explained
      <4> QED
        BY <3>4, <4>1, <4>2, <4>3, <4>4
    <3> QED
      BY <1>1, <2>3, <3>6 DEF q
  <2> QED
    BY <1>5, <2>2, <2>3
<1> QED
  BY <1>6, <1>7, <1>9, <1>10, <1>11, <1>12 DEF Kept, g

-----------------------------------------------------------------------------
(* The histories of the system *)

\* Every history keeps all of this.
HistoriesKept == \A r \in Runs : Kept(history[r])

LEMMA KeptSound ==
  ASSUME HistoriesKept
  PROVE  AllSound
BY DEF HistoriesKept, Kept, SoundIn, AllSound

LEMMA StepKept ==
  ASSUME Inv, HistoriesKept, HistoryStep
  PROVE  HistoriesKept'
<1>1. history \in [Runs -> Seq(Checkpoint)]
  BY DEF Inv, TypeOK
<1>2. CASE UNCHANGED history
  BY <1>2 DEF HistoriesKept
<1>3. ASSUME NEW r \in Runs, NEW x \in Checkpoint, Appends(r, x)
      PROVE  HistoriesKept'
  <2>1. history'[r] = Append(history[r], x) /\ \A s \in Runs \ {r} : history'[s] = history[s]
    BY <1>1, <1>3 DEF Appends
  <2>2. Kept(Append(history[r], x))
    BY <1>1, <1>3, ExtendKept DEF Appends, Exists, Newest, Terminal, HistoriesKept
  <2> QED
    BY <2>1, <2>2 DEF HistoriesKept
<1>4. ASSUME NEW r \in Runs, NEW x \in Checkpoint, Begins(r, x)
      PROVE  HistoriesKept'
  <2>1. history'[r] = <<x>> /\ \A s \in Runs \ {r} : history'[s] = history[s]
    BY <1>1, <1>4 DEF Begins
  <2>2. Kept(<<x>>)
    BY <1>4, OpenKept DEF Begins
  <2> QED
    BY <2>1, <2>2 DEF HistoriesKept
<1> QED
  BY <1>2, <1>3, <1>4 DEF HistoryStep

LEMMA InitKept ==
  ASSUME Init
  PROVE  HistoriesKept
<1>1. \A r \in Runs : history[r] = <<>>
  BY DEF Init
<1>2. Kept(<<>>)
  BY DEF Kept, OpenedIn, SoundIn, GatesIn, FinalIn, GrowsIn, SkipsIn, AccountedIn
<1> QED
  BY <1>1, <1>2 DEF HistoriesKept

\* The inductive invariant of the histories: what is recorded fits together,
\* and every caller is where its checkpoint lets it be.
HInv == Loaded /\ CallersFit /\ HistoriesKept

LEMMA NextKept ==
  ASSUME Inv, HInv, [Next]_vars
  PROVE  HInv'
<1>1. Inv' /\ LogStep
  BY NextPreserves
<1>2. HistoryStep /\ CallersFit'
  BY NextFits, KeptSound DEF HInv
<1> QED
  BY <1>1, <1>2, NextLoaded, StepKept DEF HInv

\* What every history keeps, in every state callers can reach.
THEOREM HistoryInvariant == Spec => []HInv
<1>1. Init => HInv
  BY InitLoaded, InitFits, InitKept DEF HInv
<1>2. Inv /\ HInv /\ [Next]_vars => HInv'
  BY NextKept
<1> QED
  BY <1>1, <1>2, Invariant, PTL DEF Spec

\* However callers race, crash, recover and cancel, a decision once recorded
\* stays as it is, and so does a node that completed, failed or was skipped.
THEOREM OutcomesStay == Spec => []OutcomesAreFinal
<1>1. HInv => OutcomesAreFinal
  BY DEF HInv, HistoriesKept, Kept, FinalIn, Final, Done, OutcomesAreFinal, RecordedAt
<1> QED
  BY <1>1, HistoryInvariant, PTL

\* Nodes are started where the edges lead and skipped where none does, in every
\* workflow definition and for every result of its conditions.
THEOREM EdgesDecide == Spec => []RoutedByEdges
<1>1. HInv => RoutedByEdges
  <2> SUFFICES ASSUME HInv, NEW r \in Runs, NEW i \in 1..Len(history[r]), NEW n \in Nodes, Incoming(n) # {}
               PROVE  LET k == history[r][i] IN
                      /\ k.attempt[n] > 0 => AllDecided(k, n) /\ SomeTaken(k, n)
                      /\ Started(r) /\ k.node[n] = "skipped" /\ k.status # "cancelled" =>
                           AllDecided(k, n) /\ ~SomeTaken(k, n)
    BY DEF RoutedByEdges, Recorded
  <2>1. Sound(history[r][i]) /\ SkipsIn(history[r])
    BY DEF HInv, HistoriesKept, Kept, SoundIn
  <2> QED
    BY <2>1 DEF Sound, StartsJustified, SkipsIn, Unreachable, Started, Exists, RecordedAt
<1> QED
  BY <1>1, HistoryInvariant, PTL

\* A declared interrupt is a gate: no node runs before its own was acknowledged,
\* nothing flows out of a node as long as the one after it is pending, and a
\* pending interrupt is passed by its own resumption or a cancellation only.
THEOREM InterruptsGate == Spec => []InterruptsHonoured
<1>1. HInv => InterruptsHonoured
  <2> SUFFICES ASSUME HInv
               PROVE  InterruptsHonoured
    OBVIOUS
  <2>1. \A r \in Runs : \A k \in Recorded(r) : Sound(k)
    BY DEF HInv, HistoriesKept, Kept, SoundIn, Recorded
  <2>2. InterruptBeforeHonoured
    BY <2>1, Definition DEF InterruptBeforeHonoured, Sound, StartsJustified
  <2>3. InterruptAfterHonoured
    BY <2>1 DEF InterruptAfterHonoured, Sound, HoldsBack
  <2>4. InterruptsAreGates
    BY DEF HInv, HistoriesKept, Kept, GatesIn, Gates, InterruptsAreGates, RecordedAt
  <2> QED
    BY <2>2, <2>3, <2>4 DEF InterruptsHonoured
<1> QED
  BY <1>1, HistoryInvariant, PTL

\* Every attempt of a node beyond its retry policy is explained by a recovery,
\* a resumption or a fork on record.
THEOREM AttemptsExplained == Spec => []AttemptsAccounted
<1>1. HInv => AttemptsAccounted
  <2> SUFFICES ASSUME HInv, NEW r \in Runs, NEW i \in 1..Len(history[r]), NEW n \in Nodes
               PROVE  \E allowed \in {MaxAttempts[n], history[r][1].attempt[n]} :
                        history[r][i].attempt[n] <= allowed + Cardinality(PutBack(r, i, n))
    BY DEF AttemptsAccounted, RecordedAt
  <2>1. PutBack(r, i, n) = PutBackIn(history[r], i, n)
    BY DEF PutBack, PutBackIn, RecordedAt
  <2>2. AccountedIn(history[r])
    BY DEF HInv, HistoriesKept, Kept
  <2> QED
    BY <2>1, <2>2 DEF AccountedIn, Explained
<1> QED
  BY <1>1, HistoryInvariant, PTL

-----------------------------------------------------------------------------
(* Attempts *)

\* The caller has won an attempt of n and is to invoke, or runs, its executor.
Works(c, n) == pc[c] \in {"start", "exec"} /\ task[c][n] \in {"started", "active"}

\* Nobody else ran an executor for that attempt ...
OwnAttempts ==
  \A c \in Callers, n \in Nodes : Works(c, n) =>
    \A x \in ran[run[c]] : x[1] = n /\ x[2] = ck[c].attempt[n] => x[3] = c

\* ... or is about to.
Apart ==
  \A c, d \in Callers, n \in Nodes :
    c # d /\ run[c] = run[d] /\ Works(c, n) /\ Works(d, n) => ck[c].attempt[n] # ck[d].attempt[n]

WInv == OneCallerPerAttempt /\ OwnAttempts /\ Apart

LEMMA RecordedGrows ==
  ASSUME Inv, Grows, NEW r \in Runs
  PROVE  Recorded(r) \subseteq {history'[r][i] : i \in 1..Len(history'[r])}
<1>1. Len(history[r]) \in Nat /\ Len(history[r]) <= Len(history'[r])
  BY Lengths DEF Grows
<1>2. ASSUME NEW i \in 1..Len(history[r])
      PROVE  i \in 1..Len(history'[r]) /\ history'[r][i] = history[r][i]
  BY <1>1 DEF Grows
<1> QED
  BY <1>2 DEF Recorded

\* A step in which nobody wins an attempt or runs an executor.
LEMMA NobodyStarts ==
  ASSUME Inv, WInv, Grows, UNCHANGED ran,
         \A c \in Callers, n \in Nodes :
           Works(c, n)' => Works(c, n) /\ run'[c] = run[c] /\ ck'[c].attempt[n] = ck[c].attempt[n]
  PROVE  WInv'
<1>1. OneCallerPerAttempt'
  <2>1. \A r \in Runs : \A k \in Recorded(r) : k \in Recorded(r)'
    BY RecordedGrows DEF Recorded
  <2> QED
    BY <2>1 DEF WInv, OneCallerPerAttempt
<1>2. OwnAttempts' /\ Apart'
  BY DEF WInv, OwnAttempts, Apart
<1> QED
  BY <1>1, <1>2 DEF WInv

\* A step of a caller that leads out of the wave.
LEMMA LeavesWave ==
  ASSUME Inv, WInv, Grows, UNCHANGED ran, NEW c \in Callers, pc'[c] \notin {"start", "exec"},
         \A d \in Callers \ {c} : UNCHANGED <<pc[d], run[d], ck[d], task[d]>>
  PROVE  WInv'
BY NobodyStarts DEF Works

\* The other callers, in a step of a caller at work.
LEMMA OthersRest ==
  ASSUME Inv, NEW c \in Callers, Advances(c)
  PROVE  /\ \A d \in Callers \ {c} : UNCHANGED <<pc[d], run[d], ck[d], task[d]>>
         /\ run' = run
<1>1. \A d \in Callers \ {c} : pc'[d] = pc[d] /\ task'[d] = task[d]
  BY DEF Advances, Moves, Inv, TypeOK
<1>2. \A d \in Callers \ {c} : ck'[d] = ck[d]
  BY DEF Advances, Records, Commit, Inv, TypeOK
<1> QED
  BY <1>1, <1>2 DEF Advances, Keeps

LEMMA RouteLeaves ==
  ASSUME Inv, NEW c \in Callers, pc[c] \in {"reroute", "close"}, NEW n, NEW bad \in {"unwind", "abort"},
         Route(c, n, bad)
  PROVE  pc'[c] \notin {"start", "exec"} /\ UNCHANGED ran
BY DEF Route, Goto, Commit, Refused, Inv, TypeOK

\* The steps that are not part of a wave.
LEMMA LeavesOrStays ==
  ASSUME Inv, NEW c \in Callers, Step(c), ~BeginWave(c), ~StartNode(c),
         \A n \in Nodes : ~Dispatch(c, n) /\ ~Return(c, n)
  PROVE  pc'[c] \notin {"start", "exec"} /\ UNCHANGED ran
<1> USE DEF Goto, Inv, TypeOK
<1>1. CASE Create(c) \/ Claim(c) \/ RecoverLoad(c) \/ ResumeLoad(c) \/ Unwind(c)
  BY <1>1 DEF Create, Claim, RecoverLoad, ResumeLoad, Unwind, Forget
<1>2. ASSUME NEW k, NEW label \in {"unwind", "loop", "close", "settle", "reroute", "plan"},
             Commit(c, k) /\ Goto(c, label)
      PROVE  pc'[c] \notin {"start", "exec"} /\ UNCHANGED ran
  BY <1>2 DEF Commit
<1>3. ASSUME Refused(c, "unwind")
      PROVE  pc'[c] \notin {"start", "exec"} /\ UNCHANGED ran
  BY <1>3 DEF Refused
<1>4. ASSUME NEW k, CommitLast(c, k)
      PROVE  pc'[c] \notin {"start", "exec"} /\ UNCHANGED ran
  BY <1>2, <1>3, <1>4 DEF CommitLast
<1>5. ASSUME NEW k, ResumeWith(c, k)
      PROVE  pc'[c] \notin {"start", "exec"} /\ UNCHANGED ran
  BY <1>2, <1>5 DEF ResumeWith
<1>6. CASE RecoverAppend(c) \/ CancelAppend(c)
  BY <1>2, <1>3, <1>4, <1>6 DEF RecoverAppend, CancelAppend
<1>7. CASE ResumeAppend(c)
  BY <1>2, <1>3, <1>5, <1>7 DEF ResumeAppend
<1>8. CASE Reroute(c)
  BY <1>8, RouteLeaves DEF Reroute
<1>9. CASE LoopTop(c) \/ ReturnSuspended(c) \/ Gather(c) \/ CloseWave(c)
  BY <1>9 DEF LoopTop, ReturnSuspended, Gather, CloseWave
<1>10. CASE SkipNode(c)
  <2>1. pc[c] = "plan" /\ (UNCHANGED pc \/ Refused(c, "unwind")) /\ UNCHANGED ran
    BY <1>10 DEF SkipNode, Commit, Refused
  <2> QED
    BY <1>3, <2>1
<1>11. CASE SuspendBefore(c) \/ CloseStop(c) \/ Abort(c) \/ CloseInterrupt(c)
  BY <1>4, <1>11 DEF SuspendBefore, CloseStop, Abort, CloseInterrupt
<1>12. CASE Conclude(c)
  BY <1>4, <1>12 DEF Conclude
<1>13. CASE Settle(c)
  BY <1>2, <1>3, <1>13 DEF Settle
<1>14. CASE CloseEdges(c)
  BY <1>14, RouteLeaves DEF CloseEdges
<1> QED
  BY <1>1, <1>6, <1>7, <1>8, <1>9, <1>10, <1>11, <1>12, <1>13, <1>14 DEF Step, Execute

\* What a caller at work holds has no more attempts than the newest checkpoint.
LEMMA AttemptsRecorded ==
  ASSUME Inv, HInv, NEW r \in Runs, Exists(r), NEW k \in Recorded(r), NEW n \in Nodes
  PROVE  /\ k.attempt[n] \in Nat /\ Newest(r).attempt[n] \in Nat
         /\ k.attempt[n] <= Newest(r).attempt[n]
<1>1. PICK i \in 1..Len(history[r]) : k = history[r][i]
  BY DEF Recorded
<1>2. GrowsIn(history[r])
  BY DEF HInv, HistoriesKept, Kept
<1>3. Len(history[r]) \in Nat /\ Len(history[r]) \in i..Len(history[r])
  BY Lengths
<1>4. k \in Checkpoint /\ Newest(r) \in Checkpoint
  BY <1>1, Stored
<1> QED
  BY <1>1, <1>2, <1>3, <1>4, Parts DEF GrowsIn, Newest

LEMMA WorksOnRecord ==
  ASSUME Inv, HInv, NEW c \in Callers, pc[c] \in {"start", "exec"}
  PROVE  ck[c] \in Recorded(run[c]) /\ Exists(run[c]) /\ run[c] \in Runs
<1>1. InHistory(ck[c], run[c])
  BY DEF HInv, Loaded, Unloaded
<1>2. ck[c].seq + 1 \in 1..Len(history[run[c]])
  BY <1>1, Lengths DEF InHistory
<1> QED
  BY <1>1, <1>2 DEF InHistory, Recorded, Inv, TypeOK, Working

\* The attempt a caller wins is one that nobody has won before.
LEMMA StartsApart ==
  ASSUME Inv, HInv, WInv, Grows, NEW c \in Callers, StartNode(c)
  PROVE  WInv'
<1> DEFINE k == ck[c]
           n == First(Tasked(c, {"ready"}))
           x == Start(k, n)
           y == Stamp(x, guard[c])
<1>1. n \in Nodes /\ task[c][n] = "ready" /\ pc[c] = "start"
  <2>1. \E m \in Nodes : task[c][m] = "ready"
    BY DEF Inv, WaveOpen, WaveOpenAt, StartNode
  <2> QED
    BY <2>1, FirstIsMember DEF Tasked, StartNode
<1> HIDE DEF n
<1>2. Advances(c)
  BY StartNodeAdvances
<1>3. CASE Refused(c, "unwind")
  <2>1. pc'[c] \notin {"start", "exec"} /\ UNCHANGED ran
    BY <1>3 DEF Refused, Goto, Inv, TypeOK
  <2> QED
    BY <1>2, <2>1, OthersRest, LeavesWave
<1>4. CASE Commit(c, x) /\ SetTask(c, n, "started")
  <2>1. run[c] \in Runs /\ Exists(run[c]) /\ k = Newest(run[c])
    BY <1>1, <1>4, NewestInHistory DEF Commit, CanAppend, HInv, Loaded, Unloaded, Inv, TypeOK
  <2>2. ck'[c] = y /\ ran' = ran
    BY <1>4 DEF Commit, Inv, TypeOK
  <2>3. y.attempt[n] = k.attempt[n] + 1 /\ \A m \in Nodes \ {n} : y.attempt[m] = k.attempt[m]
    <3>1. x \in Checkpoint
      BY <1>1, InHand, StartFollows DEF Follows
    <3>2. y.attempt = x.attempt
      BY <3>1, StampParts
    <3>3. k \in Checkpoint
      BY InHand
    <3>4. x.attempt = [k.attempt EXCEPT ![n] = k.attempt[n] + 1]
      BY <1>1, <3>3, StartParts
    <3>5. k.attempt \in [Nodes -> Nat]
      BY <3>3, Parts
    <3> QED
      BY <1>1, <3>2, <3>4, <3>5
  <2> HIDE DEF y
  <2>4. \A m \in Nodes \ {n} : task'[c][m] = task[c][m]
    BY <1>4 DEF SetTask, Inv, TypeOK
  <2>5. /\ run' = run
        /\ \A d \in Callers \ {c} : UNCHANGED <<pc[d], run[d], ck[d], task[d]>>
    BY <1>2, OthersRest
  <2>6. \A z \in ran[run[c]] : z[1] = n => z[2] # y.attempt[n]
    <3>1. \A z \in ran[run[c]] : \E q \in Recorded(run[c]) : q.attempt[z[1]] = z[2]
      BY <2>1 DEF WInv, OneCallerPerAttempt
    <3> QED
      BY <1>1, <2>1, <2>3, <3>1, AttemptsRecorded
  <2>7. \A d \in Callers \ {c} : run[d] = run[c] /\ Works(d, n) => ck[d].attempt[n] # y.attempt[n]
    <3>1. \A d \in Callers \ {c} : run[d] = run[c] /\ Works(d, n) => ck[d] \in Recorded(run[c])
      BY WorksOnRecord DEF Works
    <3> QED
      BY <1>1, <2>1, <2>3, <3>1, AttemptsRecorded
  <2>8. \A d \in Callers \ {c}, m \in Nodes : Works(d, m)' => Works(d, m)
    BY <2>5 DEF Works
  <2>9. \A m \in Nodes \ {n} : Works(c, m)' => Works(c, m)
    BY <1>1, <2>4 DEF Works
  <2>10. OwnAttempts'
    BY <2>2, <2>3, <2>5, <2>6, <2>8, <2>9 DEF WInv, OwnAttempts
  <2>11. Apart'
    BY <2>2, <2>3, <2>5, <2>7, <2>8, <2>9 DEF WInv, Apart
  <2>12. OneCallerPerAttempt'
    <3>1. \A r \in Runs : \A q \in Recorded(r) : q \in Recorded(r)'
      BY RecordedGrows DEF Recorded
    <3> QED
      BY <2>2, <3>1 DEF WInv, OneCallerPerAttempt
  <2> QED
    BY <2>10, <2>11, <2>12 DEF WInv
<1> QED
  BY <1>3, <1>4 DEF StartNode, n

\* An executor is invoked for the attempt its caller has won.
LEMMA DispatchApart ==
  ASSUME Inv, HInv, WInv, Grows, NEW c \in Callers, NEW n \in Nodes, Dispatch(c, n)
  PROVE  WInv'
<1> DEFINE x == <<n, ck[c].attempt[n], c>>
<1>1. Works(c, n) /\ pc[c] = "exec" /\ UNCHANGED <<pc, ck, run, history>>
  BY DEF Dispatch, MayDispatch, Works, Locally, store
<1>2. /\ \A m \in Nodes \ {n} : task'[c][m] = task[c][m]
      /\ \A d \in Callers \ {c} : task'[d] = task[d]
  BY DEF Dispatch, SetTask, Inv, TypeOK
<1>3. \A d \in Callers, m \in Nodes : Works(d, m)' => Works(d, m)
  BY <1>1, <1>2 DEF Works
<1>4. CASE ran' = ran
  BY <1>1, <1>3, <1>4, NobodyStarts
<1>5. CASE ran' = [ran EXCEPT ![run[c]] = @ \cup {x}]
  <2>1. run[c] \in Runs /\ ck[c] \in Recorded(run[c])
    BY <1>1, WorksOnRecord
  <2>2. ran'[run[c]] = ran[run[c]] \cup {x} /\ \A r \in Runs \ {run[c]} : ran'[r] = ran[r]
    BY <1>5, <2>1 DEF Inv, TypeOK
  <2>3. ck[c].node[n] = "running"
    BY <1>1 DEF HInv, CallersFit, FitsAt, Fits, Wave, InWork, Works
  <2>4. x[1] = n /\ x[2] = ck[c].attempt[n] /\ x[3] = c
    OBVIOUS
  <2> HIDE DEF x
  <2>5. \A y \in ran[run[c]] : y[1] = n /\ y[2] = ck[c].attempt[n] => y[3] = c
    BY <1>1 DEF WInv, OwnAttempts
  <2>6. OneCallerPerAttempt'
    <3>1. \A r \in Runs : Recorded(r)' = Recorded(r)
      BY <1>1 DEF Recorded
    <3> SUFFICES ASSUME NEW r \in Runs, NEW y \in ran'[r]
                 PROVE  /\ \E k \in Recorded(r) : k.node[y[1]] = "running" /\ k.attempt[y[1]] = y[2]
                        /\ \A z \in ran'[r] : y[1] = z[1] /\ y[2] = z[2] => y[3] = z[3]
      BY <3>1 DEF OneCallerPerAttempt
    <3>2. CASE r # run[c]
      BY <2>2, <3>2 DEF WInv, OneCallerPerAttempt
    <3>3. CASE r = run[c] /\ y \in ran[r]
      BY <2>1, <2>2, <2>4, <2>5, <3>3 DEF WInv, OneCallerPerAttempt
    <3>4. CASE r = run[c] /\ y = x
      BY <2>1, <2>2, <2>3, <2>4, <2>5, <3>4
    <3> QED
      BY <2>2, <3>2, <3>3, <3>4
  <2>7. OwnAttempts'
    <3> SUFFICES ASSUME NEW d \in Callers, NEW m \in Nodes, Works(d, m)', NEW y \in ran'[run[d]],
                        y[1] = m, y[2] = ck[d].attempt[m]
                 PROVE  y[3] = d
      BY <1>1 DEF OwnAttempts
    <3>1. Works(d, m) /\ run[d] \in Runs
      BY <1>3 DEF Inv, TypeOK
    <3>2. CASE y \in ran[run[d]]
      BY <3>1, <3>2 DEF WInv, OwnAttempts
    <3>3. CASE y = x /\ run[d] = run[c]
      BY <1>1, <2>4, <3>1, <3>3 DEF WInv, Apart
    <3> QED
      BY <2>2, <3>1, <3>2, <3>3
  <2>8. Apart'
    BY <1>1, <1>3 DEF WInv, Apart
  <2> QED
    BY <2>6, <2>7, <2>8 DEF WInv
<1> QED
  BY <1>4, <1>5 DEF Dispatch

LEMMA StepApart ==
  ASSUME Inv, HInv, WInv, Grows, NEW c \in Callers, Step(c)
  PROVE  WInv'
<1>1. CASE StartNode(c)
  BY <1>1, StartsApart
<1>2. CASE \E n \in Nodes : Dispatch(c, n)
  BY <1>2, DispatchApart
<1>3. CASE BeginWave(c)
  <2>1. task'[c] = [n \in Nodes |-> IF n \in Ready(ck[c]) THEN "ready" ELSE "none"] /\ ran' = ran
    BY <1>3 DEF BeginWave, Inv, TypeOK
  <2>2. \A n \in Nodes : task'[c][n] \notin {"started", "active"}
    BY <2>1
  <2>3. \A n \in Nodes : ~Works(c, n)'
    BY <2>2 DEF Works
  <2>4. \A d \in Callers \ {c} : UNCHANGED <<pc[d], run[d], ck[d], task[d]>>
    BY <1>3, BeginWaveAdvances, OthersRest
  <2>5. \A d \in Callers, n \in Nodes :
           Works(d, n)' => Works(d, n) /\ run'[d] = run[d] /\ ck'[d].attempt[n] = ck[d].attempt[n]
    BY <2>3, <2>4 DEF Works
  <2> QED
    BY <2>1, <2>5, NobodyStarts
<1>4. CASE \E n \in Nodes : Return(c, n)
  <2> PICK n \in Nodes : Return(c, n)
    BY <1>4
  <2>1. UNCHANGED <<pc, ck, run, ran>> /\ Works(c, n)
    BY DEF Return, Locally, Works
  <2>2. /\ \A m \in Nodes \ {n} : task'[c][m] = task[c][m]
        /\ \A d \in Callers \ {c} : task'[d] = task[d]
    BY DEF Return, SetTask, Inv, TypeOK
  <2>3. \A d \in Callers, m \in Nodes : Works(d, m)' => Works(d, m)
    BY <2>1, <2>2 DEF Works
  <2> QED
    BY <2>1, <2>3, NobodyStarts
<1>5. CASE ~BeginWave(c) /\ ~StartNode(c) /\ \A n \in Nodes : ~Dispatch(c, n) /\ ~Return(c, n)
  <2>1. pc'[c] \notin {"start", "exec"} /\ UNCHANGED ran
    BY <1>5, LeavesOrStays
  <2>2. \A d \in Callers \ {c} : UNCHANGED <<pc[d], run[d], ck[d], task[d]>>
    <3>1. CASE Create(c) \/ Unwind(c)
      BY <3>1 DEF Create, Unwind, Forget, Goto, Inv, TypeOK
    <3>2. CASE ~Create(c) /\ ~Unwind(c)
      BY <3>2, OthersRest, ClaimAdvances, RecoverLoadAdvances, RecoverAppendAdvances, ResumeLoadAdvances,
         ResumeAppendAdvances, RerouteAdvances, ExecuteAdvances, CancelAppendAdvances DEF Step
    <3> QED
      BY <3>1, <3>2
  <2> QED
    BY <2>1, <2>2, LeavesWave
<1> QED
  BY <1>1, <1>2, <1>3, <1>4, <1>5

LEMMA NextApart ==
  ASSUME Inv, HInv, WInv, [Next]_vars
  PROVE  WInv'
<1>1. Grows
  BY NextPreserves, LogGrows
<1>2. CASE UNCHANGED <<pc, run, ck, task, ran>>
  <2>1. \A c \in Callers, n \in Nodes : Works(c, n)' => Works(c, n)
    BY <1>2 DEF Works
  <2> QED
    BY <1>1, <1>2, <2>1, NobodyStarts
<1>3. CASE \E c \in Callers : Crash(c) \/ Call(c)
  <2> PICK c \in Callers : Crash(c) \/ Call(c)
    BY <1>3
  <2>1. /\ pc'[c] \notin {"start", "exec"} /\ UNCHANGED ran
        /\ \A d \in Callers \ {c} : UNCHANGED <<pc[d], run[d], ck[d], task[d]>>
    BY DEF Crash, Forget, Call, CallRun, CallRecover, CallCancel, CallResume, CallFork, Begin, Goto, Inv, TypeOK
  <2> QED
    BY <1>1, <2>1, LeavesWave
<1>4. CASE \E c \in Callers : Step(c)
  BY <1>1, <1>4, StepApart
<1>5. CASE UNCHANGED vars \/ (\E c \in Callers : Heartbeat(c)) \/ (\E r \in Runs : Lapse(r) \/ Revive(r))
  BY <1>2, <1>5 DEF vars, local, Heartbeat, Lapse, Revive
<1> QED
  BY <1>3, <1>4, <1>5 DEF Next

\* No two callers ever invoke the executor of a node for the same attempt, with
\* or without a lease manager, and none is invoked that is not on record.
THEOREM AttemptsWon == Spec => []OneCallerPerAttempt
<1>1. Init => WInv
  BY DEF Init, WInv, OneCallerPerAttempt, OwnAttempts, Apart, Works
<1>2. Inv /\ HInv /\ WInv /\ [Next]_vars => WInv'
  BY NextApart
<1>3. WInv => OneCallerPerAttempt
  BY DEF WInv
<1> QED
  BY <1>1, <1>2, <1>3, Invariant, HistoryInvariant, PTL DEF Spec

-----------------------------------------------------------------------------
(* What may be left over *)

\* Nodes whose executor may suspend, and nodes whose failure is captured.
Suspends == {n \in Nodes : "suspended" \in Results[n]}

Captured == {n \in Nodes \ FailFast : Results[n] \cap {"failed", "flaky"} # {}}

\* Where no node is stranded: callers exclude each other, by a lease or because
\* there is one; a captured failure is ordered against every suspension by an
\* edge and has no interrupt after it; an adapter suspends nothing, since its
\* resumption decides no edges of other nodes; and no run is forked.
Orderly ==
  /\ Leased \/ \A c, d \in Callers : c = d
  /\ ~AllowFork
  /\ Adapter => Suspends = {}
  /\ Captured \cap InterruptAfter = {}
  /\ \A n \in Captured, m \in Suspends : n = m \/ <<n, m>> \in Edges \/ <<m, n>> \in Edges

\* Nothing crashed, no lease lapsed under its owner and no condition raised.
Calm == Orderly /\ ~CondRaises /\ crashes = 0 /\ faults = 0

\* A fail-fast node failed: nothing more is promised of the others.
Doomed(k) == InStatus(k, {"failed"}) \cap FailFast # {}

\* What NothingStranded says of one checkpoint.
Unstranded(k) ==
  k.status \in {"completed", "failed"} =>
    InStatus(k, {"pending", "running", "suspended"}) = {} \/ Doomed(k) \/ CondRaises

\* A node that is done and has not had its edges decided: only the caller whose
\* wave it is in, or a resumption, decides them.
Leftover(k, n) == k.node[n] \in Done /\ Undecided(k, n) # {}

\* A resumption will: resume_workflow evaluates the edges of completed nodes,
\* and the run cannot go on before.
Waits(k, n) == k.node[n] = "completed" /\ (InStatus(k, {"suspended"}) # {} \/ k.interrupt # NoInterrupt)

Rested(k) == Doomed(k) \/ \A n \in Nodes : Leftover(k, n) => Waits(k, n)

\* The edges of a node are decided together, and a status tells what its
\* executor may return.
Whole(k) ==
  \A n \in Nodes :
    /\ Undecided(k, n) \in {{}, Outgoing(n)}
    /\ k.node[n] \notin {"pending", "skipped"} => k.attempt[n] > 0
    /\ k.node[n] = "suspended" => n \in Suspends
    /\ k.node[n] = "failed" => n \in FailFast \cup Captured
    /\ k.node[n] = "skipped" => Undecided(k, n) = {}

\* Where a caller is in charge of what its wave leaves over.
Charge == {"settle", "close", "reroute"}

Covers(k, t) == Doomed(k) \/ \A n \in Nodes : Leftover(k, n) => Waits(k, n) \/ t[n] \in {"edges", "interrupt"}

\* How checkpoint k and wave t go with the place a caller has reached.
Suits(label, k, t) ==
  /\ label # "abort"
  /\ label \in Charge => Covers(k, t)
  /\ label \notin Charge => Rested(k)
  /\ label \in {"start", "exec"} =>
       \A n \in Nodes : t[n] \in {"none", "ready", "started", "active"} \cup Results[n]
  /\ label = "settle" => \A n \in Nodes : t[n] \in Outcomes => t[n] \in Results[n]
  /\ label \in {"settle", "close"} =>
       \A n \in Nodes :
         /\ t[n] = "rec-failed" => k.node[n] = "failed" /\ n \in FailFast
         /\ t[n] = "rec-suspended" => k.node[n] = "suspended"
         /\ t[n] = "interrupt" => n \in InterruptAfter
  /\ label = "reroute" => \A n \in Nodes : t[n] # "interrupt"

\* Where a caller that executes a run has its newest checkpoint in hand, unless
\* a cancellation has overtaken it.
Busy == PCs \ (Unclaimed \cup {"recover", "resume", "unwind"})

\* Who was granted a lease still has it.
Alive == \A c \in Callers : guard[c] # 0 => OwnsLease(c) /\ ~lost[c]

Suited == \A c \in Callers : pc[c] \in Busy /\ CanAppend(c) => Suits(pc[c], ck[c], task[c])

\* A run that goes on is whole, and at rest unless a caller is in charge of it.
Kempt ==
  \A r \in Runs : Exists(r) /\ Newest(r).status \notin Terminal =>
    /\ Whole(Newest(r))
    /\ Rested(Newest(r)) \/ \E c \in Callers : run[c] = r /\ pc[c] \in Charge /\ CanAppend(c)

Fresh == \A c \in Callers : pc[c] = "create" => ck[c] = Initial

EndsWell == \A r \in Runs : \A k \in Recorded(r) : Unstranded(k)

CInv == Alive /\ Suited /\ Kempt /\ Fresh /\ EndsWell

\* The inductive invariant of the calm.
CalmInv == Calm => CInv

-----------------------------------------------------------------------------
(* What a checkpoint leaves over *)

\* A fail-fast node that failed stays failed.
LEMMA StaysDoomed ==
  ASSUME NEW k, NEW x, Final(k, x), Doomed(k)
  PROVE  Doomed(x)
BY DEF Final, Doomed, InStatus, Done

\* While a node is suspended every leftover is a completed node: a captured
\* failure is ordered before or after the suspended node, so its edges are
\* decided or it has not run.
LEMMA SuspendedRests ==
  ASSUME Orderly, NEW k \in Checkpoint, Sound(k), Whole(k), InStatus(k, {"suspended"}) # {}
  PROVE  Rested(k)
<1> SUFFICES ASSUME ~Doomed(k), NEW n \in Nodes, Leftover(k, n)
             PROVE  k.node[n] = "completed"
  BY DEF Rested, Waits
<1>1. PICK m \in Nodes : k.node[m] = "suspended"
  BY DEF InStatus
<1>2. k.node[n] # "skipped"
  BY DEF Whole, Leftover
<1>3. CASE k.node[n] = "failed"
  <2>1. n \in Captured /\ m \in Suspends
    BY <1>1, <1>3 DEF Whole, Doomed, InStatus
  <2>2. k.attempt[n] > 0 /\ k.attempt[m] > 0
    BY <1>1, <1>3 DEF Whole
  <2>3. <<n, m>> \in Edges \/ <<m, n>> \in Edges
    BY <1>1, <1>3, <2>1 DEF Orderly
  <2>4. CASE <<n, m>> \in Edges
    <3> DEFINE e == <<n, m>>
    <3>1. e \in Incoming(m) /\ e \in Outgoing(n)
      BY <2>4 DEF Incoming, Outgoing
    <3>2. k.edge[e] # "undecided"
      BY <2>2, <3>1 DEF Sound, StartsJustified, AllDecided
    <3>3. e \notin Undecided(k, n)
      BY <3>2 DEF Undecided
    <3> QED
      BY <3>1, <3>3 DEF Whole, Leftover
  <2>5. CASE <<m, n>> \in Edges
    <3> DEFINE e == <<m, n>>
    <3>1. e \in Incoming(n) /\ e[1] = m
      BY <2>5 DEF Incoming
    <3>2. k.edge[e] # "undecided"
      BY <2>2, <3>1 DEF Sound, StartsJustified, AllDecided
    <3> QED
      BY <1>1, <2>5, <3>1, <3>2 DEF Sound, EdgesJustified, Done
  <2> QED
    BY <2>3, <2>4, <2>5
<1> QED
  BY <1>2, <1>3 DEF Leftover, Done

\* A checkpoint stays whole when edges stay as they are and nodes change by
\* the rules.
LEMMA WholeAgain ==
  ASSUME NEW k, Whole(k), NEW x, x.edge = k.edge,
         \A n \in Nodes :
           \/ x.node[n] = k.node[n] /\ x.attempt[n] = k.attempt[n]
           \/ x.node[n] = "pending"
           \/ x.node[n] \in {"running", "completed", "cancelled"} /\ x.attempt[n] > 0
           \/ x.node[n] = "suspended" /\ x.attempt[n] > 0 /\ n \in Suspends
           \/ x.node[n] = "failed" /\ x.attempt[n] > 0 /\ n \in FailFast \cup Captured
  PROVE  Whole(x)
<1>1. \A n \in Nodes : Undecided(x, n) = Undecided(k, n)
  BY SameEdges
<1> QED
  BY <1>1 DEF Whole

\* What is left over waits on, when nothing more is left over and what was
\* waited for is still there.
LEMMA RestedAgain ==
  ASSUME NEW k, Rested(k), NEW x, Final(k, x), x.edge = k.edge,
         \A n \in Nodes : x.node[n] \in Done => k.node[n] \in Done,
         x.interrupt = k.interrupt \/ x.interrupt # NoInterrupt,
         \A n \in Nodes : k.node[n] = "suspended" => x.node[n] = "suspended"
  PROVE  Rested(x)
<1>1. \A n \in Nodes : Undecided(x, n) = Undecided(k, n)
  BY SameEdges
<1>2. CASE Doomed(k)
  BY <1>2, StaysDoomed DEF Rested
<1>3. CASE ~Doomed(k)
  <2> SUFFICES ASSUME NEW n \in Nodes, Leftover(x, n)
               PROVE  Waits(x, n)
    BY DEF Rested
  <2>1. Leftover(k, n) /\ Waits(k, n)
    BY <1>1, <1>3 DEF Rested, Leftover
  <2>2. x.node[n] = "completed"
    BY <2>1 DEF Final, Waits, Done
  <2> QED
    BY <2>1, <2>2 DEF Waits, InStatus
<1> QED
  BY <1>2, <1>3

\* A skipped node leaves nothing over.
LEMMA SkipRests ==
  ASSUME NEW k \in Checkpoint, NEW n \in Nodes, k.node[n] = "pending", Whole(k), Rested(k), Sound(k)
  PROVE  Whole(Skip(k, n)) /\ Rested(Skip(k, n))
<1> DEFINE x == Skip(k, n)
<1>1. /\ x.attempt = k.attempt /\ x.interrupt = k.interrupt
      /\ x.node = [k.node EXCEPT ![n] = "skipped"]
      /\ x.edge = [e \in Edges |-> IF e \in Undecided(k, n) THEN "dropped" ELSE k.edge[e]]
  BY SkipParts
<1>2. k.node \in [Nodes -> NodeStatus]
  BY Parts
<1> HIDE DEF x
<1>3. x.node[n] = "skipped" /\ \A m \in Nodes \ {n} : x.node[m] = k.node[m]
  BY <1>1, <1>2
<1>4. Undecided(x, n) = {}
  BY <1>1 DEF Undecided, Outgoing
<1>5. \A m \in Nodes \ {n} : Undecided(x, m) = Undecided(k, m)
  BY <1>1 DEF Undecided, Outgoing
<1>6. Whole(x)
  BY <1>1, <1>3, <1>4, <1>5 DEF Whole
<1>7. Doomed(k) => Doomed(x)
  BY <1>3 DEF Doomed, InStatus
<1>8. \A m \in Nodes : Leftover(x, m) => Leftover(k, m) /\ (Waits(k, m) => Waits(x, m))
  BY <1>1, <1>3, <1>4, <1>5 DEF Leftover, Waits, InStatus
<1>9. Rested(x)
  BY <1>7, <1>8 DEF Rested
<1> QED
  BY <1>6, <1>9 DEF x

\* Deciding the edges of a node leaves less over.
LEMMA DecideCovers ==
  ASSUME NEW k \in Checkpoint, NEW n \in Nodes, NEW choice \in Choices(k, n), Whole(k),
         NEW t, Covers(k, t), NEW u, \A m \in Nodes \ {n} : u[m] = t[m]
  PROVE  Whole(Decide(k, choice)) /\ Covers(Decide(k, choice), u)
<1> DEFINE x == Decide(k, choice)
<1>1. /\ x.attempt = k.attempt /\ x.interrupt = k.interrupt /\ x.node = k.node
      /\ x.edge = [e \in Edges |-> IF e \in DOMAIN choice THEN choice[e] ELSE k.edge[e]]
  BY DecideParts
<1>2. DOMAIN choice = Undecided(k, n) /\ \A e \in Undecided(k, n) : choice[e] # "undecided"
  BY DEF Choices
<1> HIDE DEF x
<1>3. Undecided(x, n) = {}
  BY <1>1, <1>2 DEF Undecided, Outgoing
<1>4. \A m \in Nodes \ {n} : Undecided(x, m) = Undecided(k, m)
  BY <1>1, <1>2 DEF Undecided, Outgoing
<1>5. Whole(x)
  BY <1>1, <1>3, <1>4 DEF Whole
<1>6. \A m \in Nodes : Leftover(x, m) => m # n /\ Leftover(k, m) /\ (Waits(k, m) => Waits(x, m))
  BY <1>1, <1>3, <1>4 DEF Leftover, Waits, InStatus
<1>7. Doomed(k) => Doomed(x)
  BY <1>1 DEF Doomed, InStatus
<1>8. Covers(x, u)
  BY <1>6, <1>7 DEF Covers
<1> QED
  BY <1>5, <1>8 DEF x

\* A node that has its edges decided needs no cover.
LEMMA RoutedCovers ==
  ASSUME NEW k, NEW n \in Nodes, Undecided(k, n) = {}, NEW t, Covers(k, t),
         NEW u, \A m \in Nodes \ {n} : u[m] = t[m]
  PROVE  Covers(k, u)
BY DEF Covers, Leftover

-----------------------------------------------------------------------------
(* Every pending node gets its turn *)

\* Among the pending nodes is one that no edge from a pending node enters.
LEMMA Foremost ==
  ASSUME NEW S \in SUBSET Nodes, S # {}
  PROVE  \E n \in S : \A e \in Incoming(n) : e[1] \notin S
<1>1. PICK rank \in [Nodes -> Nodes] : \A e \in Edges : rank[e[1]] < rank[e[2]]
  BY DefinitionAssumption DEF Acyclic
<1> DEFINE R == {ss \in Nat \X Nat : ss[1] < ss[2]}
           T == {rank[n] : n \in S}
<1>2. IsWellFoundedOn(R, Nat)
  BY NatLessThanWellFounded DEF OpToRel
<1>3. \A a, b \in Nat : <<a, b>> \in R <=> a < b
  OBVIOUS
<1>4. Nodes \subseteq Nat
  BY DefinitionAssumption DEF Nodes
<1>5. T \subseteq Nat /\ T # {}
  BY <1>1, <1>4
<1> HIDE DEF R
<1>6. PICK a \in T : \A b \in T : ~(<<b, a>> \in R)
  <2> HIDE DEF T
  <2> QED
    BY <1>2, <1>5, WFMin, Zenon
<1>7. \A b \in T : ~(b < a)
  BY <1>3, <1>5, <1>6, Zenon
<1>8. PICK n \in S : rank[n] = a
  BY <1>6
<1>9. \A e \in Incoming(n) : e[1] \notin S
  BY <1>1, <1>7, <1>8 DEF Incoming
<1> QED
  BY <1>9

\* A node that no edge enters is an entrypoint.
LEMMA Enters ==
  ASSUME NEW n \in Nodes, Incoming(n) = {}
  PROVE  n \in Entrypoints
<1> SUFFICES ASSUME n \notin Entrypoints
             PROVE  FALSE
  OBVIOUS
<1> DEFINE S == Nodes \ {n}
<1>1. Entrypoints \subseteq S /\ \A e \in Edges : e[1] \in S => e[2] \in S
  BY DefinitionAssumption DEF Incoming
<1>2. S = Nodes
  BY <1>1, DefinitionAssumption DEF AllReachable
<1> QED
  BY <1>2

\* When nothing is left over, nothing runs and nothing can be started or
\* skipped, no node is pending.
LEMMA NonePending ==
  ASSUME NEW k \in Checkpoint, Ready(k) = {}, Skippable(k) = {},
         \A n \in Nodes : k.node[n] \in Done \cup {"pending"},
         \A n \in Nodes : ~Leftover(k, n)
  PROVE  InStatus(k, {"pending"}) = {}
<1> DEFINE S == InStatus(k, {"pending"})
<1> SUFFICES ASSUME S # {}
             PROVE  FALSE
  OBVIOUS
<1>1. S \in SUBSET Nodes
  BY DEF InStatus
<1>2. PICK n \in S : \A e \in Incoming(n) : e[1] \notin S
  BY <1>1, Foremost
<1>3. \A e \in Incoming(n) : e \in Outgoing(e[1]) /\ e[1] \in Nodes /\ k.node[e[1]] \in Done
  BY <1>2, Definition DEF Incoming, Outgoing, InStatus
<1>4. AllDecided(k, n)
  BY <1>3 DEF AllDecided, Leftover, Undecided
<1>5. n \in Nodes
  BY <1>1, <1>2
<1> QED
  BY <1>1, <1>2, <1>4, <1>5, Enters DEF Ready, Skippable

-----------------------------------------------------------------------------
(* While nothing crashes or lapses, who holds a lease keeps it *)

\* A caller that owns its lease does not lose it by its own steps.
LEMMA LostKept ==
  ASSUME Inv, Alive, NEW c \in Callers, Step(c), ~Claim(c), ~Unwind(c)
  PROVE  UNCHANGED lost
<1>1. lost \in [Callers -> BOOLEAN]
  BY DEF Inv, TypeOK
<1>2. ~LeaseBad(c) /\ (guard[c] = 0 \/ OwnsLease(c))
  BY DEF Alive, LeaseBad
<1>3. lost = [lost EXCEPT ![c] = @ \/ LeaseBad(c)]
  <2>1. lost[c] = (lost[c] \/ LeaseBad(c))
    BY <1>1, <1>2
  <2> QED
    BY <1>1, <2>1
<1>4. lost = [lost EXCEPT ![c] = @ \/ (guard[c] # 0 /\ ~OwnsLease(c))]
  <2>1. lost[c] = (lost[c] \/ (guard[c] # 0 /\ ~OwnsLease(c)))
    BY <1>1, <1>2
  <2> QED
    BY <1>1, <2>1
<1>5. \A label : Refused(c, label) => UNCHANGED lost
  BY <1>4 DEF Refused
<1>6. \A x : Commit(c, x) => UNCHANGED lost
  BY DEF Commit
<1>7. \A n, bad : Route(c, n, bad) => UNCHANGED lost
  BY <1>5, <1>6 DEF Route
<1>8. \A x : CommitLast(c, x) => UNCHANGED lost
  BY <1>5, <1>6 DEF CommitLast
<1>9. CASE Create(c) \/ RecoverLoad(c) \/ ResumeLoad(c)
  BY <1>9 DEF Create, RecoverLoad, ResumeLoad
<1>10. CASE RecoverAppend(c) \/ ResumeAppend(c) \/ Reroute(c) \/ CancelAppend(c)
  BY <1>5, <1>6, <1>7, <1>8, <1>10 DEF RecoverAppend, ResumeAppend, ResumeWith, Reroute, CancelAppend
<1>11. CASE LoopTop(c) \/ \E n \in Nodes : Dispatch(c, n)
  BY <1>3, <1>11 DEF LoopTop, Dispatch
<1>12. CASE \/ SkipNode(c) \/ ReturnSuspended(c) \/ SuspendBefore(c) \/ Conclude(c) \/ BeginWave(c)
            \/ StartNode(c) \/ Gather(c) \/ Settle(c) \/ \E n \in Nodes : Return(c, n)
  BY <1>5, <1>6, <1>8, <1>12 DEF SkipNode, ReturnSuspended, SuspendBefore, Conclude, BeginWave, StartNode,
     Gather, Settle, Return
<1>13. CASE CloseStop(c) \/ CloseEdges(c) \/ Abort(c) \/ CloseInterrupt(c) \/ CloseWave(c)
  BY <1>7, <1>8, <1>13 DEF CloseStop, CloseEdges, Abort, CloseInterrupt, CloseWave
<1> QED
  BY <1>9, <1>10, <1>11, <1>12, <1>13 DEF Step, Execute

\* Nothing of the leases changes.
LEMMA SameLeases ==
  ASSUME Alive, UNCHANGED <<lease, guard, lost>>, \A c \in Callers : guard[c] # 0 => run'[c] = run[c]
  PROVE  Alive'
BY DEF Alive, OwnsLease, lease

LEMMA ClaimAlive ==
  ASSUME Inv, Guarded, Alive, NEW c \in Callers, Claim(c)
  PROVE  Alive'
<1>1. CASE UNCHANGED <<lease, guard, lost>>
  BY <1>1, SameLeases DEF Claim
<1>2. CASE /\ Available(run[c])
           /\ fence' = [fence EXCEPT ![run[c]] = NextToken(run[c])]
           /\ standing' = [standing EXCEPT ![run[c]] = "held"]
           /\ guard' = [guard EXCEPT ![c] = NextToken(run[c])]
           /\ lost' = [lost EXCEPT ![c] = FALSE]
  <2>1. /\ run[c] \in Runs /\ run' = run
        /\ fence \in [Runs -> Nat] /\ guard \in [Callers -> Nat] /\ run \in [Callers -> Runs]
        /\ standing \in [Runs -> {"free", "held", "lapsed"}] /\ lost \in [Callers -> BOOLEAN]
    BY DEF Inv, TypeOK, Claim
  <2>2. standing'[run[c]] = "held" /\ fence'[run[c]] = guard'[c] /\ lost'[c] = FALSE
    BY <1>2, <2>1
  <2>3. ASSUME NEW d \in Callers \ {c}, guard'[d] # 0
        PROVE  OwnsLease(d)' /\ ~lost'[d]
    <3>1. guard'[d] = guard[d] /\ lost'[d] = lost[d]
      BY <1>2, <2>1
    <3>2. OwnsLease(d) /\ ~lost[d]
      BY <2>3, <3>1 DEF Alive
    <3>3. run[d] # run[c]
      BY <1>2, <3>2 DEF OwnsLease, Available
    <3> QED
      BY <1>2, <2>1, <3>1, <3>2, <3>3 DEF OwnsLease
  <2> QED
    BY <2>1, <2>2, <2>3 DEF Alive, OwnsLease
<1> QED
  BY <1>1, <1>2 DEF Claim

\* A caller that leaves gives back its own lease only.
LEMMA UnwindAlive ==
  ASSUME Inv, Guarded, Alive, NEW c \in Callers, Unwind(c)
  PROVE  Alive'
<1>1. /\ guard'[c] = 0 /\ fence' = fence
      /\ \A d \in Callers \ {c} : guard'[d] = guard[d] /\ lost'[d] = lost[d] /\ run'[d] = run[d]
  BY DEF Unwind, Forget, Inv, TypeOK
<1>2. CASE UNCHANGED standing
  BY <1>1, <1>2 DEF Alive, OwnsLease
<1>3. CASE guard[c] # 0 /\ fence[run[c]] = guard[c] /\ standing' = [standing EXCEPT ![run[c]] = "free"]
  <2>1. \A r \in Runs \ {run[c]} : standing'[r] = standing[r]
    BY <1>3 DEF Inv, TypeOK
  <2>2. \A d \in Callers \ {c} : guard[d] # 0 => run[d] # run[c]
    BY <1>3 DEF Alive, OwnsLease, Guarded
  <2>3. \A d \in Callers : run[d] \in Runs
    BY DEF Inv, TypeOK
  <2> QED
    BY <1>1, <2>1, <2>2, <2>3 DEF Alive, OwnsLease
<1> QED
  BY <1>2, <1>3 DEF Unwind

LEMMA NextAlive ==
  ASSUME Inv, Guarded, Alive, [Next]_vars, UNCHANGED <<crashes, faults>>
  PROVE  Alive'
<1>1. faults \in Nat /\ crashes \in Nat
  BY DEF Inv, TypeOK
<1>2. CASE UNCHANGED vars
  BY <1>2, SameLeases DEF vars, local
<1>3. ASSUME NEW c \in Callers, Call(c)
      PROVE  Alive'
  <2>1. PICK r : Begin(c) /\ run' = [run EXCEPT ![c] = r]
    BY <1>3 DEF Call, CallRun, CallRecover, CallCancel, CallResume, CallFork
  <2>2. guard[c] = 0 /\ \A d \in Callers \ {c} : run'[d] = run[d]
    BY <2>1 DEF Begin, Guarded, Unclaimed, Inv, TypeOK
  <2> QED
    BY <2>1, <2>2, SameLeases DEF Begin
<1>4. ASSUME NEW c \in Callers, Step(c)
      PROVE  Alive'
  <2>1. CASE Claim(c) \/ Unwind(c)
    BY <2>1, ClaimAlive, UnwindAlive
  <2>2. CASE ~Claim(c) /\ ~Unwind(c)
    <3>1. UNCHANGED lost
      BY <1>4, <2>2, LostKept
    <3>2. UNCHANGED <<fence, standing, guard, run>>
      <4>1. CASE Create(c)
        BY <4>1 DEF Create, lease
      <4>2. CASE ~Create(c)
        BY <1>4, <2>2, <4>2, RecoverLoadAdvances, RecoverAppendAdvances, ResumeLoadAdvances,
           ResumeAppendAdvances, RerouteAdvances, ExecuteAdvances, CancelAppendAdvances DEF Step, Advances, Keeps
      <4> QED
        BY <4>1, <4>2
    <3> QED
      BY <3>1, <3>2, SameLeases DEF lease
  <2> QED
    BY <2>1, <2>2
<1>5. ASSUME NEW c \in Callers, Crash(c) \/ Heartbeat(c)
      PROVE  FALSE
  BY <1>1, <1>5 DEF Crash, Heartbeat, Alive
<1>6. ASSUME NEW r \in Runs, Lapse(r) \/ Revive(r)
      PROVE  Alive'
  <2>1. UNCHANGED <<fence, guard, lost, run>>
    BY <1>6 DEF Lapse, Revive, local
  <2>2. \A c \in Callers : guard[c] # 0 /\ run[c] = r => standing[r] = "held" /\ Owners(r) # {}
    BY DEF Alive, OwnsLease, Owners
  <2>3. \A c \in Callers : guard[c] # 0 => run[c] # r
    BY <1>1, <1>6, <2>2 DEF Lapse, Revive
  <2>4. \A s \in Runs \ {r} : standing'[s] = standing[s]
    BY <1>6 DEF Lapse, Revive, Inv, TypeOK
  <2> QED
    BY <2>1, <2>3, <2>4 DEF Alive, OwnsLease, Inv, TypeOK
<1> QED
  BY <1>2, <1>3, <1>4, <1>5, <1>6 DEF Next

\* Executing callers exclude each other.
LEMMA Exclusive ==
  ASSUME Inv, Guarded, Alive, Orderly, NEW c \in Callers, NEW d \in Callers, run[c] = run[d],
         pc[c] \notin Unclaimed \cup {"unwind"}, pc[d] \notin Unclaimed \cup {"unwind"}
  PROVE  c = d
<1>1. CASE \A a, b \in Callers : a = b
  BY <1>1
<1>2. CASE Leased
  <2>1. guard[c] # 0 /\ guard[d] # 0
    BY <1>2 DEF Guarded
  <2>2. guard[c] = guard[d]
    BY <2>1 DEF Alive, OwnsLease
  <2> QED
    BY <2>1, <2>2 DEF Guarded
<1> QED
  BY <1>1, <1>2 DEF Orderly

-----------------------------------------------------------------------------
(* What a step of a caller makes of its run *)

\* A recorded end is a good one; a run that goes on is whole, and suits the
\* place the caller goes on to.
Ends(label, k, t) == Unstranded(k) /\ (k.status \notin Terminal => Whole(k) /\ Suits(label, k, t))

\* The caller records such a checkpoint, or goes on with the one it has.
Tends(c) ==
  \E label, t :
    /\ pc' = [pc EXCEPT ![c] = label] /\ task' = [task EXCEPT ![c] = t] /\ UNCHANGED run
    /\ \/ \E k : Commit(c, k) /\ Follows(ck[c], k) /\ Ends(label, k, t)
       \/ UNCHANGED <<history, ck>> /\ (CanAppend(c) => Suits(label, ck[c], t))

\* The invariant, where a step starts.
Given == Inv /\ HInv /\ Guarded /\ CInv /\ Orderly /\ ~CondRaises

\* What a caller may rely on that can append to its run.
LEMMA OnNewest ==
  ASSUME Inv, HInv, NEW c \in Callers, pc[c] \in Busy \cup {"cancel"}, CanAppend(c)
  PROVE  ck[c] = Newest(run[c]) /\ ck[c] \in Checkpoint /\ Sound(ck[c]) /\ FitsAt(c) /\ run[c] \in Runs
<1>1. ~Unloaded(c)
  BY DEF Busy, Unclaimed, Unloaded
<1>2. InHistory(ck[c], run[c])
  BY <1>1 DEF HInv, Loaded
<1>3. run[c] \in Runs /\ ck[c] \in Checkpoint
  BY InHand
<1>4. ck[c] = Newest(run[c])
  BY <1>2, <1>3, NewestInHistory DEF CanAppend
<1>5. Sound(ck[c])
  BY <1>2, LoadedSound, KeptSound DEF HInv
<1> QED
  BY <1>3, <1>4, <1>5 DEF HInv, CallersFit

LEMMA Minding ==
  ASSUME Given, NEW c \in Callers, pc[c] \in Busy, CanAppend(c)
  PROVE  /\ ck[c] \in Checkpoint /\ Sound(ck[c]) /\ Fits(pc[c], op[c], ck[c], ack[c], task[c])
         /\ Whole(ck[c]) /\ Suits(pc[c], ck[c], task[c]) /\ ck[c].status \notin Terminal
<1>1. ck[c] = Newest(run[c]) /\ ck[c] \in Checkpoint /\ Sound(ck[c]) /\ FitsAt(c) /\ run[c] \in Runs
  BY OnNewest DEF Given
<1>2. Exists(run[c]) /\ Newest(run[c]).status \notin Terminal
  BY DEF CanAppend
<1> QED
  BY <1>1, <1>2 DEF FitsAt, Given, CInv, Suited, Kempt

\* Where nothing but rest is asked for.
Calmly == {"loop", "plan", "unwind", "recover-append", "resume-append"}

LEMMA RestSuits ==
  ASSUME NEW label \in Calmly, NEW k, NEW t
  PROVE  Suits(label, k, t) <=> Rested(k)
BY DEF Suits, Calmly, Charge

LEMMA StaysTends ==
  ASSUME Inv, NEW c \in Callers, UNCHANGED <<history, ck, run>>, NEW label, Goto(c, label),
         NEW t, task' = [task EXCEPT ![c] = t], CanAppend(c) => Suits(label, ck[c], t)
  PROVE  Tends(c)
BY Zenon DEF Tends, Goto

LEMMA KeepsTends ==
  ASSUME Inv, NEW c \in Callers, UNCHANGED <<history, ck, run, task>>, NEW label, Goto(c, label),
         CanAppend(c) => Suits(label, ck[c], task[c])
  PROVE  Tends(c)
<1>1. task' = [task EXCEPT ![c] = task[c]]
  BY DEF Inv, TypeOK
<1> QED
  BY <1>1, StaysTends, Zenon

\* A caller that owns its lease is refused only what is no longer its to append.
LEMMA RefusedTends ==
  ASSUME Given, NEW c \in Callers, NEW label, Refused(c, label)
  PROVE  Tends(c)
<1>1. ~CanAppend(c)
  BY DEF Refused, Given, CInv, Alive
<1>2. UNCHANGED <<history, ck, run, task>> /\ Goto(c, label) /\ Inv
  BY DEF Refused, store, Given
<1> QED
  BY <1>1, <1>2, KeepsTends

LEMMA CommitTends ==
  ASSUME Inv, NEW c \in Callers, NEW k, Commit(c, k), Follows(ck[c], k), NEW label, Goto(c, label),
         NEW t, task' = [task EXCEPT ![c] = t], Ends(label, k, t)
  PROVE  Tends(c)
<1>1. UNCHANGED run
  BY DEF Commit
<1> QED
  BY <1>1, Zenon DEF Tends, Goto

LEMMA CommitKeepsTends ==
  ASSUME Inv, NEW c \in Callers, NEW k, Commit(c, k), Follows(ck[c], k), NEW label, Goto(c, label),
         UNCHANGED task, Ends(label, k, task[c])
  PROVE  Tends(c)
<1>1. task' = [task EXCEPT ![c] = task[c]]
  BY DEF Inv, TypeOK
<1> QED
  BY <1>1, CommitTends, Zenon

LEMMA LastTends ==
  ASSUME Given, NEW c \in Callers, NEW k, CommitLast(c, k),
         Commit(c, k) => Follows(ck[c], k) /\ Unstranded(k) /\ (k.status \notin Terminal => Whole(k) /\ Rested(k))
  PROVE  Tends(c)
<1>1. CASE Commit(c, k) /\ Goto(c, "unwind") /\ UNCHANGED task
  <2>1. Ends("unwind", k, task[c])
    BY <1>1, RestSuits DEF Ends, Calmly
  <2> QED
    BY <1>1, <2>1, CommitKeepsTends DEF Given
<1>2. CASE Refused(c, "unwind")
  BY <1>2, RefusedTends
<1> QED
  BY <1>1, <1>2 DEF CommitLast

-----------------------------------------------------------------------------
(* Before a wave *)

LEMMA RecoverAppendTends ==
  ASSUME Given, NEW c \in Callers, RecoverAppend(c)
  PROVE  Tends(c)
<1>1. Inv /\ pc[c] = "recover-append" /\ pc[c] \in Busy
  BY DEF Given, RecoverAppend, Busy, PCs, Unclaimed
<1>2. CASE Refused(c, "unwind")
  BY <1>2, RefusedTends
<1>3. CASE Commit(c, Recover(ck[c])) /\ Goto(c, "loop") /\ UNCHANGED task
  <2> DEFINE k == ck[c]
             x == Recover(k)
  <2>1. k \in Checkpoint /\ Whole(k) /\ Rested(k) /\ Sound(k)
    BY <1>1, <1>3, Minding, RestSuits DEF Commit, Calmly
  <2>2. Follows(k, x)
    BY <2>1, RecoverFollows
  <2>3. Final(k, x)
    BY <1>1, <2>1, <1>3, RecoverSound, Minding DEF Succeeds, Fits, Commit, NoneRunning
  <2>4. /\ x.status = "running" /\ x.attempt = k.attempt /\ x.edge = k.edge /\ x.interrupt = k.interrupt
        /\ x.node = [n \in Nodes |-> IF k.node[n] = "running" THEN "pending" ELSE k.node[n]]
    BY <2>1, RecoverParts
  <2> HIDE DEF x
  <2>5. Whole(x)
    BY <2>1, <2>4, WholeAgain
  <2>6. Rested(x)
    BY <2>1, <2>3, <2>4, RestedAgain DEF Done
  <2>7. Ends("loop", x, task[c])
    BY <2>4, <2>5, <2>6, RestSuits DEF Ends, Calmly, Unstranded
  <2> QED
    BY <1>1, <1>3, <2>2, <2>7, CommitKeepsTends DEF x
<1> QED
  BY <1>2, <1>3 DEF RecoverAppend

\* What waits when a run is resumed is what resume_workflow evaluates again.
LEMMA ResumedCovers ==
  ASSUME NEW k, Whole(k), Doomed(k) \/ \A n \in Nodes : Leftover(k, n) => k.node[n] = "completed"
  PROVE  Covers(k, EdgesLeft(k)) /\ \A n \in Nodes : EdgesLeft(k)[n] # "interrupt"
BY DEF Covers, Leftover, EdgesLeft

LEMMA ResumeWithTends ==
  ASSUME Given, NEW c \in Callers, NEW x, ResumeWith(c, x), Follows(ck[c], x), Whole(x),
         x.status = "suspended" => Rested(x), x.status \in {"running", "suspended"},
         Doomed(x) \/ \A n \in Nodes : Leftover(x, n) => x.node[n] = "completed"
  PROVE  Tends(c)
<1>1. Inv /\ Commit(c, x) /\ Unstranded(x)
  BY DEF Given, ResumeWith, Unstranded
<1>2. CASE x.status = "suspended"
  <2>1. Ends("unwind", x, task[c])
    BY <1>1, <1>2, RestSuits DEF Ends, Calmly
  <2> QED
    BY <1>1, <1>2, <2>1, CommitKeepsTends DEF ResumeWith
<1>3. CASE x.status # "suspended"
  <2>1. Suits("reroute", x, EdgesLeft(x))
    BY ResumedCovers DEF Suits, Charge
  <2>2. Ends("reroute", x, EdgesLeft(x))
    BY <1>1, <2>1 DEF Ends
  <2> QED
    BY <1>1, <1>3, <2>2, CommitTends DEF ResumeWith
<1> QED
  BY <1>2, <1>3

LEMMA ResumeAppendTends ==
  ASSUME Given, NEW c \in Callers, ResumeAppend(c)
  PROVE  Tends(c)
<1> DEFINE k == ck[c]
<1>1. Inv /\ pc[c] = "resume-append" /\ pc[c] \in Busy
  BY DEF Given, ResumeAppend, Busy, PCs, Unclaimed
<1>2. ASSUME CanAppend(c)
      PROVE  k \in Checkpoint /\ Whole(k) /\ Rested(k) /\ Sound(k) /\ Resumable(k, ack[c]) /\ NoneRunning(k)
  BY <1>1, <1>2, Minding, RestSuits DEF Calmly, Fits
<1>3. CASE Refused(c, "unwind")
  BY <1>3, RefusedTends
<1>4. CASE Goto(c, "unwind") /\ UNCHANGED <<ck, task, lost, ran>> /\ Locally
  BY <1>1, <1>2, <1>4, KeepsTends, RestSuits DEF Locally, store, Calmly
<1>5. CASE k.interrupt # NoInterrupt /\ ResumeWith(c, Acknowledge(k))
  <2> DEFINE x == Acknowledge(k)
  <2>1. CanAppend(c)
    BY <1>5 DEF ResumeWith, Commit
  <2>2. Follows(k, x) /\ Final(k, x)
    BY <1>2, <1>5, <2>1, AcknowledgeFollows, AcknowledgeSound DEF Succeeds
  <2>3. x.status = "running" /\ x.attempt = k.attempt /\ x.node = k.node /\ x.edge = k.edge
    BY <1>2, <2>1, AcknowledgeParts
  <2> HIDE DEF x
  <2>4. Whole(x)
    BY <1>2, <2>1, <2>3, WholeAgain
  <2>5. Doomed(x) \/ \A n \in Nodes : Leftover(x, n) => x.node[n] = "completed"
    BY <1>2, <2>1, <2>3, SameEdges DEF Rested, Doomed, Leftover, Waits, InStatus
  <2> QED
    BY <1>5, <2>2, <2>3, <2>4, <2>5, ResumeWithTends DEF x
<1>6. CASE k.interrupt = NoInterrupt /\ CanAppend(c)
  <2>1. PICK n \in InStatus(k, {"suspended"}) : ack[c] = Named(n)
    BY <1>2, <1>6 DEF Resumable
  <2>2. ack[c].named = n /\ n \in Nodes /\ k.node[n] = "suspended" /\ k.status = "suspended"
    BY <1>2, <1>6, <2>1 DEF Named, Resumable, InStatus
  <2>3. n \in Suspends /\ k.attempt[n] > 0
    BY <1>2, <1>6, <2>2 DEF Whole
  <2>4. ~Adapter
    BY <2>3 DEF Given, Orderly
  <2>5. CASE \E s \in Results[n] \cap {"completed", "suspended"} : ResumeWith(c, Continue(k, n, s))
    <3> PICK s \in Results[n] \cap {"completed", "suspended"} : ResumeWith(c, Continue(k, n, s))
      BY <2>5
    <3> DEFINE x == Continue(k, n, s)
    <3>1. Follows(k, x) /\ Final(k, x) /\ Sound(x)
      BY <1>2, <1>6, <2>2, ContinueFollows, ContinueSound DEF Succeeds
    <3>2. /\ x.attempt = k.attempt /\ x.node[n] = s /\ \A m \in Nodes \ {n} : x.node[m] = k.node[m]
          /\ x.edge = k.edge
      BY <1>2, <1>6, <2>2, ContinueParts
    <3>3. x.status = IF s = "suspended" THEN "suspended" ELSE "running"
      BY <1>2, <1>6, Zenon DEF Continue, Checkpoint
    <3>4. x \in Checkpoint
      BY <3>1 DEF Follows
    <3> HIDE DEF x
    <3>5. Whole(x)
      BY <1>2, <1>6, <2>3, <3>2, WholeAgain DEF Suspends
    <3>6. x.status = "suspended" => Rested(x)
      <4> SUFFICES ASSUME x.status = "suspended"
                   PROVE  Rested(x)
        OBVIOUS
      <4>1. n \in InStatus(x, {"suspended"})
        BY <2>2, <3>2, <3>3 DEF InStatus
      <4> QED
        BY <3>1, <3>4, <3>5, <4>1, SuspendedRests DEF Given
    <3>7. Doomed(x) \/ \A m \in Nodes : Leftover(x, m) => x.node[m] = "completed"
      <4>1. Doomed(k) => Doomed(x)
        BY <3>1, StaysDoomed
      <4>2. \A m \in Nodes \ {n} : Leftover(x, m) => Leftover(k, m)
        BY <3>2, SameEdges DEF Leftover
      <4>3. Leftover(x, n) => x.node[n] = "completed"
        BY <3>2 DEF Leftover, Done
      <4> QED
        BY <1>2, <1>6, <3>2, <4>1, <4>2, <4>3 DEF Rested, Waits
    <3> QED
      BY <3>1, <3>3, <3>5, <3>6, <3>7, ResumeWithTends DEF x
  <2> QED
    BY <1>3, <1>4, <1>6, <2>2, <2>4, <2>5 DEF ResumeAppend
<1>7. CASE k.interrupt = NoInterrupt /\ ~CanAppend(c)
  BY <1>3, <1>4, <1>7 DEF ResumeAppend, ResumeWith, Commit
<1> QED
  BY <1>3, <1>5, <1>6, <1>7 DEF ResumeAppend

-----------------------------------------------------------------------------
(* Edges *)

\* The edges of a node, evaluated where they are in the caller's charge.
LEMMA RouteTends ==
  ASSUME Given, NEW c \in Callers, pc[c] \in {"reroute", "close"}, NEW n \in Nodes, task[c][n] = "edges",
         NEW bad, Route(c, n, bad)
  PROVE  Tends(c)
<1> DEFINE k == ck[c]
           t == [task[c] EXCEPT ![n] = "routed"]
<1>1. Inv /\ pc[c] \in Busy /\ pc[c] \in Charge
  BY DEF Given, Busy, PCs, Unclaimed, Charge
<1>2. t[n] = "routed" /\ \A m \in Nodes \ {n} : t[m] = task[c][m]
  BY <1>1, InHand
<1>3. SetTask(c, n, "routed") => task' = [task EXCEPT ![c] = t]
  BY DEF SetTask
<1>4. UNCHANGED pc => Goto(c, pc[c])
  BY <1>1 DEF Inv, TypeOK, Goto
<1>5. ASSUME CanAppend(c)
      PROVE  /\ k \in Checkpoint /\ Whole(k) /\ Suits(pc[c], k, task[c]) /\ Covers(k, task[c]) /\ Sound(k)
             /\ k.status \notin Terminal
  BY <1>1, <1>5, Minding DEF Suits
<1> HIDE DEF t
<1>6. CASE Undecided(k, n) = {} /\ SetTask(c, n, "routed") /\ UNCHANGED <<pc, ck, lost, ran>> /\ Locally
  <2> SUFFICES ASSUME CanAppend(c)
               PROVE  Suits(pc[c], k, t)
    BY <1>1, <1>3, <1>4, <1>6, StaysTends DEF Locally, store
  <2>1. Covers(k, t)
    BY <1>2, <1>5, <1>6, RoutedCovers
  <2> QED
    BY <1>1, <1>2, <1>5, <2>1 DEF Suits, Charge, Outcomes
<1>7. CASE /\ \E choice \in Choices(k, n) : Commit(c, Decide(k, choice))
           /\ SetTask(c, n, "routed") /\ UNCHANGED pc
  <2> PICK choice \in Choices(k, n) : Commit(c, Decide(k, choice))
    BY <1>7
  <2> DEFINE x == Decide(k, choice)
  <2>1. CanAppend(c)
    BY DEF Commit
  <2>2. Follows(k, x)
    BY <1>5, <2>1, DecideFollows
  <2>3. x.node = k.node /\ x.status = k.status
    BY <1>5, <2>1, DecideParts
  <2>4. Whole(x) /\ Covers(x, t)
    BY <1>2, <1>5, <2>1, DecideCovers
  <2> HIDE DEF x
  <2>5. Suits(pc[c], x, t)
    BY <1>1, <1>2, <1>5, <2>1, <2>3, <2>4 DEF Suits, Charge, Outcomes
  <2>6. Ends(pc[c], x, t)
    BY <1>5, <2>1, <2>3, <2>4, <2>5 DEF Ends, Unstranded, Terminal
  <2> QED
    BY <1>1, <1>3, <1>4, <1>7, <2>2, <2>6, CommitTends DEF x
<1>8. CASE Refused(c, bad)
  BY <1>8, RefusedTends
<1> QED
  BY <1>6, <1>7, <1>8 DEF Route, Given

LEMMA RerouteTends ==
  ASSUME Given, NEW c \in Callers, Reroute(c)
  PROVE  Tends(c)
<1>1. Inv /\ pc[c] = "reroute" /\ pc[c] \in Busy
  BY DEF Given, Reroute, Busy, PCs, Unclaimed
<1>2. CASE \E n \in Tasked(c, {"edges"}) : Route(c, n, "unwind")
  <2> PICK n \in Nodes : task[c][n] = "edges" /\ Route(c, n, "unwind")
    BY <1>2 DEF Tasked
  <2> QED
    BY <1>1, RouteTends
<1>3. CASE /\ Tasked(c, {"edges"}) = {} /\ Goto(c, "loop") /\ task' = [task EXCEPT ![c] = NoTasks]
           /\ UNCHANGED <<ck, lost, ran>> /\ Locally
  <2>1. CanAppend(c) => Rested(ck[c])
    <3> SUFFICES ASSUME CanAppend(c)
                 PROVE  Rested(ck[c])
      OBVIOUS
    <3>1. Suits("reroute", ck[c], task[c])
      BY <1>1, Minding
    <3>2. \A n \in Nodes : task[c][n] \notin {"edges", "interrupt"}
      BY <1>3, <3>1 DEF Suits, Tasked
    <3> QED
      BY <3>1, <3>2 DEF Suits, Charge, Covers, Rested
  <2> QED
    BY <1>1, <1>3, <2>1, StaysTends, RestSuits DEF Locally, store, Calmly
<1> QED
  BY <1>2, <1>3 DEF Reroute

-----------------------------------------------------------------------------
(* Planning *)

LEMMA LoopTends ==
  ASSUME Given, NEW c \in Callers, LoopTop(c) \/ ReturnSuspended(c)
  PROVE  Tends(c)
<1>1. Inv /\ pc[c] \in Busy /\ pc[c] \in Calmly
  BY DEF Given, LoopTop, ReturnSuspended, Busy, PCs, Unclaimed, Calmly
<1>2. CanAppend(c) => Rested(ck[c])
  BY <1>1, Minding, RestSuits
<1>3. \A label \in {"plan", "unwind"} : CanAppend(c) => Suits(label, ck[c], task[c])
  BY <1>2, RestSuits DEF Calmly
<1> QED
  BY <1>1, <1>3, KeepsTends DEF LoopTop, ReturnSuspended, Locally, store

LEMMA SkipTends ==
  ASSUME Given, NEW c \in Callers, SkipNode(c)
  PROVE  Tends(c)
<1> DEFINE k == ck[c]
<1>1. Inv /\ pc[c] = "plan" /\ pc[c] \in Busy
  BY DEF Given, SkipNode, Busy, PCs, Unclaimed
<1>2. PICK n \in Skippable(k) : (Commit(c, Skip(k, n)) /\ UNCHANGED <<pc, task>>) \/ Refused(c, "unwind")
  BY DEF SkipNode
<1>3. CASE Commit(c, Skip(k, n)) /\ UNCHANGED <<pc, task>>
  <2> DEFINE x == Skip(k, n)
  <2>1. /\ k \in Checkpoint /\ Whole(k) /\ Rested(k) /\ Sound(k) /\ n \in Nodes /\ k.node[n] = "pending"
        /\ k.status \notin Terminal
    BY <1>1, <1>3, Minding, RestSuits DEF Commit, Calmly, Skippable, InStatus
  <2>2. Follows(k, x) /\ Whole(x) /\ Rested(x) /\ x.status = k.status
    BY <2>1, SkipFollows, SkipRests, SkipParts
  <2>3. Ends("plan", x, task[c])
    BY <2>1, <2>2, RestSuits DEF Ends, Calmly, Unstranded, Terminal
  <2>4. Goto(c, "plan")
    BY <1>1, <1>3 DEF Goto, Inv, TypeOK
  <2> HIDE DEF x
  <2> QED
    BY <1>1, <1>3, <2>2, <2>3, <2>4, CommitKeepsTends DEF x
<1>4. CASE Refused(c, "unwind")
  BY <1>4, RefusedTends
<1> QED
  BY <1>2, <1>3, <1>4

LEMMA SuspendBeforeTends ==
  ASSUME Given, NEW c \in Callers, SuspendBefore(c)
  PROVE  Tends(c)
<1> DEFINE k == ck[c]
           n == First(Blocked(k))
           x == Suspend(k, run[c], "before", n)
<1>1. Inv /\ pc[c] = "plan" /\ pc[c] \in Busy /\ CommitLast(c, x)
  BY DEF Given, SuspendBefore, Planning, Busy, PCs, Unclaimed
<1>2. ASSUME Commit(c, x)
      PROVE  Follows(k, x) /\ Unstranded(x) /\ Whole(x) /\ Rested(x)
  <2>1. k \in Checkpoint /\ Whole(k) /\ Rested(k) /\ Sound(k) /\ run[c] \in Runs
    BY <1>1, <1>2, Minding, RestSuits, InHand DEF Commit, Calmly
  <2>2. n \in Nodes
    <3>1. Blocked(k) \in SUBSET Nodes /\ Blocked(k) # {}
      BY DEF Blocked, Ready, InStatus, SuspendBefore
    <3> QED
      BY <3>1, FirstIsMember
  <2> HIDE DEF n
  <2>3. Follows(k, x)
    BY <2>1, <2>2, SuspendFollows DEF Phases
  <2>4. /\ x.status = "suspended" /\ x.attempt = k.attempt /\ x.node = k.node /\ x.edge = k.edge
        /\ x.interrupt.phase = "before"
    BY <2>1, SuspendParts
  <2>5. x.interrupt # NoInterrupt
    <3>1. x.interrupt = [run |-> run[c], seq |-> k.seq + 1, phase |-> "before", node |-> n]
      BY <2>1, Zenon DEF Suspend, Checkpoint
    <3> QED
      BY <3>1 DEF NoInterrupt
  <2> HIDE DEF x
  <2>6. Whole(x) /\ Unstranded(x)
    BY <2>1, <2>4, WholeAgain DEF Unstranded
  <2>7. Rested(x)
    BY <2>1, <2>4, <2>5, RestedAgain DEF Final
  <2> QED
    BY <2>3, <2>6, <2>7
<1> HIDE DEF x
<1> QED
  BY <1>1, <1>2, LastTends

\* The end of a run leaves its nodes as they are.
LEMMA FinishRests ==
  ASSUME NEW k \in Checkpoint, Whole(k), NEW s
  PROVE  /\ Whole(FinishRun(k, s)) /\ FinishRun(k, s).status = s
         /\ \A S : InStatus(FinishRun(k, s), S) = InStatus(k, S)
         /\ Rested(k) => Rested(FinishRun(k, s))
<1> DEFINE x == FinishRun(k, s)
<1>1. /\ x.status = s /\ x.attempt = k.attempt /\ x.node = k.node /\ x.edge = k.edge
      /\ x.interrupt = k.interrupt
  BY FinishRunParts
<1> HIDE DEF x
<1>2. Whole(x)
  BY <1>1, WholeAgain
<1>3. Rested(k) => Rested(x)
  BY <1>1, RestedAgain DEF Final
<1>4. \A S : InStatus(x, S) = InStatus(k, S)
  BY <1>1 DEF InStatus
<1> QED
  BY <1>1, <1>2, <1>3, <1>4 DEF x

\* A run that ends with nothing ready has nothing to come.
LEMMA ConcludeTends ==
  ASSUME Given, NEW c \in Callers, Conclude(c)
  PROVE  Tends(c)
<1> DEFINE k == ck[c]
           s == FinalStatus(k)
           x == FinishRun(k, s)
<1>1. /\ Inv /\ pc[c] = "plan" /\ pc[c] \in Busy
      /\ Ready(k) = {} /\ Skippable(k) = {} /\ k.interrupt = NoInterrupt
  BY DEF Given, Conclude, Planning, Busy, PCs, Unclaimed
<1>2. ASSUME CanAppend(c)
      PROVE  k \in Checkpoint /\ Whole(k) /\ Rested(k) /\ Sound(k) /\ NoneRunning(k)
  BY <1>1, <1>2, Minding, RestSuits DEF Calmly, Fits
<1>3. CASE Goto(c, "unwind") /\ UNCHANGED <<ck, task, lost, ran>> /\ Locally
  BY <1>1, <1>2, <1>3, KeepsTends, RestSuits DEF Locally, store, Calmly
<1>4. CASE CommitLast(c, x)
  <2>1. ASSUME Commit(c, x)
        PROVE  Follows(k, x) /\ Unstranded(x) /\ Whole(x) /\ Rested(x)
    <3>1. k \in Checkpoint /\ Whole(k) /\ Rested(k) /\ NoneRunning(k)
      BY <1>2, <2>1 DEF Commit
    <3>2. s \in RunStatus
      BY DEF FinalStatus, RunStatus
    <3>3. Follows(k, x)
      BY <3>1, <3>2, FinishRunFollows
    <3>4. Whole(x) /\ Rested(x) /\ x.status = s /\ \A S : InStatus(x, S) = InStatus(k, S)
      BY <3>1, FinishRests
    <3>5. ASSUME s \in {"completed", "failed"}, ~Doomed(k)
          PROVE  InStatus(k, {"pending", "running", "suspended"}) = {}
      <4>1. InStatus(k, {"cancelled"}) = {} /\ InStatus(k, {"suspended"}) = {}
        BY <3>5 DEF FinalStatus, InStatus
      <4>2. \A n \in Nodes : k.node[n] \in NodeStatus \ {"cancelled", "suspended", "running"}
        BY <3>1, <4>1, Parts DEF InStatus, NoneRunning
      <4>3. \A n \in Nodes : k.node[n] \in Done \cup {"pending"}
        BY <4>2 DEF NodeStatus, Done
      <4>4. \A n \in Nodes : ~Leftover(k, n)
        BY <1>1, <3>1, <3>5, <4>1 DEF Rested, Waits
      <4>5. InStatus(k, {"pending"}) = {}
        BY <1>1, <3>1, <4>3, <4>4, NonePending
      <4> QED
        BY <4>3, <4>5 DEF InStatus, Done
    <3> HIDE DEF x, s
    <3>6. Unstranded(x)
      BY <3>4, <3>5 DEF Unstranded, Doomed
    <3> QED
      BY <3>3, <3>4, <3>6
  <2> HIDE DEF x
  <2> QED
    BY <1>4, <2>1, LastTends
<1> QED
  BY <1>3, <1>4 DEF Conclude

-----------------------------------------------------------------------------
(* A wave *)

\* What an executor may return is an outcome.
LEMMA ReturnsOutcomes == \A n \in Nodes : Results[n] \subseteq Outcomes
BY EngineAssumption

LEMMA BeginWaveTends ==
  ASSUME Given, NEW c \in Callers, BeginWave(c)
  PROVE  Tends(c)
<1> DEFINE t == [n \in Nodes |-> IF n \in Ready(ck[c]) THEN "ready" ELSE "none"]
<1>1. Inv /\ pc[c] = "plan" /\ pc[c] \in Busy
  BY DEF Given, BeginWave, Planning, Busy, PCs, Unclaimed
<1>2. CanAppend(c) => Rested(ck[c])
  BY <1>1, Minding, RestSuits DEF Calmly
<1>3. CanAppend(c) => Suits("start", ck[c], t)
  BY <1>2 DEF Suits, Charge
<1> HIDE DEF t
<1> QED
  BY <1>1, <1>3, StaysTends DEF BeginWave, Locally, store, t

LEMMA StartNodeTends ==
  ASSUME Given, NEW c \in Callers, StartNode(c)
  PROVE  Tends(c)
<1> DEFINE k == ck[c]
           n == First(Tasked(c, {"ready"}))
           x == Start(k, n)
           t == [task[c] EXCEPT ![n] = "started"]
           label == IF Tasked(c, {"ready"}) = {n} THEN "exec" ELSE "start"
<1>1. Inv /\ pc[c] = "start" /\ pc[c] \in Busy
  BY DEF Given, StartNode, Busy, PCs, Unclaimed
<1>2. n \in Nodes /\ task[c][n] = "ready"
  <2>1. \E m \in Nodes : task[c][m] = "ready"
    BY <1>1 DEF Inv, WaveOpen, WaveOpenAt
  <2> QED
    BY <2>1, FirstIsMember DEF Tasked
<1>3. Refused(c, "unwind") \/ (Commit(c, x) /\ SetTask(c, n, "started") /\ Goto(c, label))
  BY DEF StartNode
<1> HIDE DEF n
<1>4. t[n] = "started" /\ \A m \in Nodes \ {n} : t[m] = task[c][m]
  BY <1>1, <1>2, InHand
<1>5. label \in {"start", "exec"} /\ (SetTask(c, n, "started") => task' = [task EXCEPT ![c] = t])
  BY DEF SetTask
<1> HIDE DEF t, label
<1>6. CASE Commit(c, x) /\ SetTask(c, n, "started") /\ Goto(c, label)
  <2>1. /\ k \in Checkpoint /\ Whole(k) /\ Sound(k) /\ Suits("start", k, task[c])
        /\ Fits("start", op[c], k, ack[c], task[c]) /\ k.status \notin Terminal
    BY <1>1, <1>6, Minding DEF Commit
  <2>2. Rested(k) /\ n \in Ready(k) \ Blocked(k) /\ k.interrupt = NoInterrupt
    BY <1>2, <2>1 DEF Suits, Charge, Fits
  <2>3. Follows(k, x)
    BY <1>2, <2>1, StartFollows
  <2>4. /\ x.status = "running" /\ x.edge = k.edge /\ x.interrupt = k.interrupt
        /\ x.attempt = [k.attempt EXCEPT ![n] = k.attempt[n] + 1]
        /\ x.node = [k.node EXCEPT ![n] = "running"]
    BY <1>2, <2>1, StartParts
  <2>5. k.node \in [Nodes -> NodeStatus] /\ k.attempt \in [Nodes -> Nat] /\ k.node[n] = "pending"
    BY <2>1, <2>2, Parts DEF Ready, InStatus
  <2> HIDE DEF x
  <2>6. /\ x.node[n] = "running" /\ x.attempt[n] > 0
        /\ \A m \in Nodes \ {n} : x.node[m] = k.node[m] /\ x.attempt[m] = k.attempt[m]
    BY <1>2, <2>4, <2>5
  <2>7. Whole(x)
    <3>1. \A m \in Nodes :
            \/ x.node[m] = k.node[m] /\ x.attempt[m] = k.attempt[m]
            \/ x.node[m] = "running" /\ x.attempt[m] > 0
      BY <2>6
    <3>2. x.edge = k.edge /\ Whole(k)
      BY <2>1, <2>4
    <3> QED
      BY <3>1, <3>2, WholeAgain
  <2>8. Rested(x)
    <3>1. Final(k, x)
      BY <2>4, <2>5, <2>6 DEF Final, Done
    <3>2. \A m \in Nodes : x.node[m] \in Done => k.node[m] \in Done
      BY <2>6 DEF Done
    <3>3. \A m \in Nodes : k.node[m] = "suspended" => x.node[m] = "suspended"
      BY <2>5, <2>6
    <3> QED
      BY <2>2, <2>4, <3>1, <3>2, <3>3, RestedAgain
  <2>9. Suits(label, x, t)
    BY <1>4, <1>5, <2>1, <2>8 DEF Suits, Charge
  <2>10. Ends(label, x, t)
    BY <2>4, <2>7, <2>9 DEF Ends, Unstranded
  <2> QED
    BY <1>1, <1>5, <1>6, <2>3, <2>10, CommitTends DEF x
<1> QED
  BY <1>3, <1>6, RefusedTends

LEMMA WorkTends ==
  ASSUME Given, NEW c \in Callers, Gather(c) \/ \E n \in Nodes : Dispatch(c, n) \/ Return(c, n)
  PROVE  Tends(c)
<1> DEFINE k == ck[c]
<1>1. Inv /\ pc[c] = "exec" /\ pc[c] \in Busy
  BY DEF Given, Gather, Dispatch, MayDispatch, Return, Busy, PCs, Unclaimed
<1>2. ASSUME CanAppend(c)
      PROVE  Rested(k) /\ \A m \in Nodes : task[c][m] \in {"none", "ready", "started", "active"} \cup Results[m]
  BY <1>1, <1>2, Minding DEF Suits, Charge
<1>3. ASSUME NEW n \in Nodes, NEW v \in {"active"} \cup Results[n], SetTask(c, n, v),
             UNCHANGED <<pc, ck, run, history>>
      PROVE  Tends(c)
  <2> DEFINE t == [task[c] EXCEPT ![n] = v]
  <2>1. t[n] = v /\ \A m \in Nodes \ {n} : t[m] = task[c][m]
    BY <1>1, InHand
  <2>2. task' = [task EXCEPT ![c] = t] /\ Goto(c, "exec")
    BY <1>1, <1>3 DEF SetTask, Goto, Inv, TypeOK
  <2> HIDE DEF t
  <2>3. CanAppend(c) => Suits("exec", k, t)
    BY <1>2, <2>1 DEF Suits, Charge
  <2> QED
    BY <1>1, <1>3, <2>2, <2>3, StaysTends
<1>4. CASE \E n \in Nodes : Return(c, n)
  BY <1>3, <1>4 DEF Return, Locally, store
<1>5. CASE \E n \in Nodes : Dispatch(c, n)
  <2> PICK n \in Nodes : Dispatch(c, n)
    BY <1>5
  <2>1. ~LeaseBad(c)
    BY DEF Given, CInv, Alive, LeaseBad
  <2>2. SetTask(c, n, "active") /\ UNCHANGED <<pc, ck, run, history>>
    BY <2>1 DEF Dispatch, Locally, store
  <2> QED
    BY <1>3, <2>2
<1>6. CASE Gather(c)
  <2>1. CASE Newest(run[c]).status = "cancelled"
    BY <1>1, <1>6, <2>1, KeepsTends DEF Gather, Locally, store, CanAppend, Terminal
  <2>2. CASE Newest(run[c]).status # "cancelled"
    <3>1. CanAppend(c) => Suits("settle", k, task[c])
      <4> SUFFICES ASSUME CanAppend(c)
                   PROVE  Suits("settle", k, task[c])
        OBVIOUS
      <4>1. Covers(k, task[c])
        BY <1>2 DEF Rested, Covers
      <4>2. \A n \in Nodes : task[c][n] \in {"none", "ready", "started", "active"} \cup (Results[n] \cap Outcomes)
        BY <1>2, ReturnsOutcomes
      <4> QED
        BY <4>1, <4>2 DEF Suits, Charge, Outcomes
    <3> QED
      BY <1>1, <1>6, <2>2, <3>1, KeepsTends DEF Gather, Locally, store
  <2> QED
    BY <2>1, <2>2
<1> QED
  BY <1>4, <1>5, <1>6

\* An outcome that is recorded: the edges of the node come into the caller's
\* charge, or its status keeps the run from going on.
LEMMA SettleTends ==
  ASSUME Given, NEW c \in Callers, Settle(c)
  PROVE  Tends(c)
<1> DEFINE k == ck[c]
           n == First(Tasked(c, Outcomes))
           s == RecordedStatus(task[c][n])
           label == IF Tasked(c, Outcomes) = {n} THEN "close" ELSE "settle"
<1>1. Inv /\ pc[c] = "settle" /\ pc[c] \in Busy
  BY DEF Given, Settle, Busy, PCs, Unclaimed
<1>2. n \in Nodes /\ task[c][n] \in Outcomes
  <2>1. \E m \in Nodes : task[c][m] \in Outcomes
    BY <1>1 DEF Inv, WaveOpen, WaveOpenAt
  <2> QED
    BY <2>1, FirstIsMember DEF Tasked
<1>3. \/ Refused(c, "unwind")
      \/ Commit(c, Retry(k, n)) /\ SetTask(c, n, "retried") /\ Goto(c, label)
      \/ Commit(c, FinishNode(k, n, s)) /\ SetTask(c, n, Fate(c, n)) /\ Goto(c, label)
  BY DEF Settle
<1> HIDE DEF n
<1>4. label \in {"close", "settle"}
  OBVIOUS
<1> HIDE DEF label
<1>5. ASSUME CanAppend(c)
      PROVE  /\ k \in Checkpoint /\ Whole(k) /\ Sound(k) /\ Suits("settle", k, task[c])
             /\ k.status \notin Terminal /\ k.node[n] = "running" /\ k.attempt[n] > 0
             /\ task[c][n] \in Results[n]
  <2>1. /\ k \in Checkpoint /\ Whole(k) /\ Sound(k) /\ Suits("settle", k, task[c])
        /\ Fits("settle", op[c], k, ack[c], task[c]) /\ k.status \notin Terminal
    BY <1>1, <1>5, Minding
  <2>2. k.node[n] = "running" /\ task[c][n] \in Results[n]
    BY <1>2, <2>1 DEF Fits, Wave, InWork, Suits
  <2>3. k.attempt[n] > 0
    BY <1>2, <2>1, <2>2 DEF Whole
  <2> QED
    BY <2>1, <2>2, <2>3
<1>6. ASSUME NEW x, NEW v, Commit(c, x), Follows(k, x), x.status = k.status, x.edge = k.edge,
             x.attempt = k.attempt, x.interrupt = k.interrupt,
             \A m \in Nodes \ {n} : x.node[m] = k.node[m],
             x.node[n] = "suspended" => n \in Suspends,
             x.node[n] = "failed" => n \in FailFast \cup Captured,
             x.node[n] \in {"pending", "completed", "cancelled", "suspended", "failed"},
             x.node[n] \in {"completed", "failed"} =>
               v \in {"edges", "interrupt"} \/ (n \in FailFast /\ x.node[n] = "failed"),
             v = "rec-failed" => x.node[n] = "failed" /\ n \in FailFast,
             v = "rec-suspended" => x.node[n] = "suspended",
             v = "interrupt" => n \in InterruptAfter,
             v \notin Outcomes, SetTask(c, n, v), Goto(c, label)
      PROVE  Tends(c)
  <2> DEFINE t == [task[c] EXCEPT ![n] = v]
  <2>1. t[n] = v /\ \A m \in Nodes \ {n} : t[m] = task[c][m]
    BY <1>1, <1>2, InHand
  <2>2. task' = [task EXCEPT ![c] = t]
    BY <1>6 DEF SetTask
  <2> HIDE DEF t
  <2>3. CanAppend(c)
    BY <1>6 DEF Commit
  <2>4. Whole(x)
    BY <1>5, <1>6, <2>3, WholeAgain
  <2>5. Doomed(k) => Doomed(x)
    BY <1>5, <1>6, <2>3 DEF Doomed, InStatus
  <2>6. Leftover(x, n) => t[n] \in {"edges", "interrupt"} \/ Doomed(x)
    BY <1>2, <1>6, <2>1 DEF Leftover, Done, Doomed, InStatus
  <2>7. \A m \in Nodes \ {n} : Leftover(x, m) => Leftover(k, m) /\ (Waits(k, m) => Waits(x, m))
    BY <1>5, <1>6, <2>3, SameEdges DEF Leftover, Waits, InStatus
  <2>8. Covers(x, t)
    BY <1>5, <2>1, <2>3, <2>5, <2>6, <2>7 DEF Suits, Charge, Covers
  <2>9. Suits(label, x, t)
    BY <1>4, <1>5, <1>6, <2>1, <2>3, <2>8 DEF Suits, Charge
  <2>10. Ends(label, x, t)
    BY <1>5, <1>6, <2>3, <2>4, <2>9 DEF Ends, Unstranded, Terminal
  <2> QED
    BY <1>1, <1>6, <2>2, <2>10, CommitTends
<1>7. CASE Commit(c, Retry(k, n)) /\ SetTask(c, n, "retried") /\ Goto(c, label)
  <2> DEFINE x == Retry(k, n)
  <2>1. k \in Checkpoint /\ Follows(k, x)
    BY <1>2, <1>5, <1>7, RetryFollows DEF Commit
  <2>2. /\ x.status = k.status /\ x.edge = k.edge /\ x.attempt = k.attempt /\ x.interrupt = k.interrupt
        /\ x.node = [k.node EXCEPT ![n] = "pending"] /\ k.node \in [Nodes -> NodeStatus]
    BY <1>2, <2>1, RetryParts, Parts
  <2> HIDE DEF x
  <2>3. x.node[n] = "pending" /\ \A m \in Nodes \ {n} : x.node[m] = k.node[m]
    BY <1>2, <2>2
  <2>4. "retried" \notin Outcomes
    BY DEF Outcomes
  <2> QED
    BY <1>6, <1>7, <2>1, <2>2, <2>3, <2>4 DEF x
<1>8. CASE Commit(c, FinishNode(k, n, s)) /\ SetTask(c, n, Fate(c, n)) /\ Goto(c, label)
  <2> DEFINE x == FinishNode(k, n, s)
             v == Fate(c, n)
  <2>1. CanAppend(c)
    BY <1>8 DEF Commit
  <2>2. s \in {"completed", "failed", "suspended", "cancelled"}
    BY <1>2 DEF RecordedStatus, Outcomes
  <2>3. Follows(k, x)
    BY <1>2, <1>5, <2>1, <2>2, FinishNodeFollows DEF NodeStatus
  <2>4. /\ x.status = k.status /\ x.edge = k.edge /\ x.attempt = k.attempt /\ x.interrupt = k.interrupt
        /\ x.node[n] = s /\ \A m \in Nodes \ {n} : x.node[m] = k.node[m]
    BY <1>2, <1>5, <2>1, FinishNodeParts
  <2>5. (s = "suspended" => n \in Suspends) /\ (s = "failed" => n \in FailFast \cup Captured)
    BY <1>2, <1>5, <2>1 DEF RecordedStatus, Suspends, Captured, Outcomes
  <2>6. /\ v \in {"rec-suspended", "rec-cancelled", "rec-failed", "interrupt", "edges"}
        /\ s \in {"completed", "failed"} => v \in {"edges", "interrupt"} \/ (n \in FailFast /\ s = "failed")
        /\ v = "rec-failed" => s = "failed" /\ n \in FailFast
        /\ v = "rec-suspended" => s = "suspended"
        /\ v = "interrupt" => n \in InterruptAfter
    BY <2>2 DEF Fate, AfterInterrupt
  <2>7. v \notin Outcomes
    BY <2>6 DEF Outcomes
  <2> HIDE DEF x, v, s
  <2> QED
    BY <1>6, <1>8, <2>2, <2>3, <2>4, <2>5, <2>6, <2>7 DEF x, v
<1> QED
  BY <1>3, <1>7, <1>8, RefusedTends

-----------------------------------------------------------------------------
(* The end of a wave *)

LEMMA CloseStopTends ==
  ASSUME Given, NEW c \in Callers, CloseStop(c)
  PROVE  Tends(c)
<1> DEFINE k == ck[c]
           s == CloseStatus(c)
           x == FinishRun(k, s)
<1>1. Inv /\ pc[c] = "close" /\ pc[c] \in Busy /\ CommitLast(c, x) /\ s \in {"cancelled", "suspended", "failed"}
  BY DEF Given, CloseStop, CloseStatus, Busy, PCs, Unclaimed
<1>2. /\ s = "suspended" => Tasked(c, {"rec-suspended"}) # {}
      /\ s = "failed" => Tasked(c, {"rec-failed"}) # {}
  BY DEF CloseStatus, Tasked
<1> HIDE DEF s
<1>3. ASSUME Commit(c, x)
      PROVE  Follows(k, x) /\ Unstranded(x) /\ (x.status \notin Terminal => Whole(x) /\ Rested(x))
  <2>1. k \in Checkpoint /\ Whole(k) /\ Sound(k) /\ Suits("close", k, task[c])
    BY <1>1, <1>3, Minding DEF Commit
  <2>2. s \in RunStatus
    BY <1>1 DEF RunStatus
  <2>3. Follows(k, x)
    BY <2>1, <2>2, FinishRunFollows
  <2>4. /\ Whole(x) /\ x.status = s /\ (\A S : InStatus(x, S) = InStatus(k, S))
        /\ Rested(k) => Rested(x)
    BY <2>1, FinishRests
  <2>5. s = "suspended" => Rested(k)
    <3>1. s = "suspended" => InStatus(k, {"suspended"}) # {}
      BY <1>2, <2>1 DEF Suits, Tasked, InStatus
    <3> QED
      BY <2>1, <3>1, SuspendedRests DEF Given
  <2>6. s = "failed" => Doomed(k)
    BY <1>2, <2>1 DEF Suits, Tasked, Doomed, InStatus
  <2> HIDE DEF x
  <2>7. Unstranded(x)
    BY <1>1, <2>4, <2>6 DEF Unstranded, Doomed
  <2> QED
    BY <1>1, <2>3, <2>4, <2>5, <2>7 DEF Terminal
<1> HIDE DEF x
<1> QED
  BY <1>1, <1>3, LastTends

LEMMA CloseInterruptTends ==
  ASSUME Given, NEW c \in Callers, CloseInterrupt(c)
  PROVE  Tends(c)
<1> DEFINE k == ck[c]
           n == First(Tasked(c, {"interrupt"}))
           x == Suspend(k, run[c], "after", n)
<1>1. /\ Inv /\ pc[c] = "close" /\ pc[c] \in Busy /\ CommitLast(c, x)
      /\ \A m \in Nodes : task[c][m] # "edges"
  BY DEF Given, CloseInterrupt, Tasked, Busy, PCs, Unclaimed
<1>2. n \in Nodes
  BY FirstIsMember DEF CloseInterrupt, Tasked
<1> HIDE DEF n
<1>3. ASSUME Commit(c, x)
      PROVE  Follows(k, x) /\ Unstranded(x) /\ Whole(x) /\ Rested(x)
  <2>1. /\ k \in Checkpoint /\ Whole(k) /\ Sound(k) /\ Suits("close", k, task[c]) /\ run[c] \in Runs
        /\ Fits("close", op[c], k, ack[c], task[c])
    BY <1>1, <1>3, Minding, InHand DEF Commit
  <2>2. Follows(k, x)
    BY <1>2, <2>1, SuspendFollows DEF Phases
  <2>3. x.status = "suspended" /\ x.attempt = k.attempt /\ x.node = k.node /\ x.edge = k.edge
    BY <2>1, SuspendParts
  <2>4. x.interrupt # NoInterrupt
    <3>1. x.interrupt = [run |-> run[c], seq |-> k.seq + 1, phase |-> "after", node |-> n]
      BY <2>1, Zenon DEF Suspend, Checkpoint
    <3> QED
      BY <3>1 DEF NoInterrupt
  <2> HIDE DEF x
  <2>5. Whole(x) /\ Unstranded(x)
    BY <2>1, <2>3, WholeAgain DEF Unstranded
  <2>6. ASSUME NEW m \in Nodes, Leftover(k, m), task[c][m] = "interrupt", ~Doomed(k)
        PROVE  k.node[m] = "completed"
    <3>1. m \in InterruptAfter /\ k.node[m] \in {"completed", "failed"}
      BY <2>1, <2>6 DEF Suits, Fits, Closable
    <3>2. k.node[m] = "failed" => m \in Captured
      BY <2>1, <2>6 DEF Whole, Doomed, InStatus
    <3> QED
      BY <3>1, <3>2 DEF Given, Orderly
  <2>7. Doomed(k) => Doomed(x)
    BY <2>3 DEF Doomed, InStatus
  <2>8. \A m \in Nodes : Leftover(x, m) => Leftover(k, m)
    BY <2>3, SameEdges DEF Leftover
  <2>9. ASSUME ~Doomed(k), NEW m \in Nodes, Leftover(x, m)
        PROVE  Waits(x, m)
    <3>1. Waits(k, m) \/ task[c][m] = "interrupt"
      BY <1>1, <2>1, <2>8, <2>9 DEF Suits, Charge, Covers
    <3>2. k.node[m] = "completed"
      BY <2>6, <2>8, <2>9, <3>1 DEF Waits
    <3> QED
      BY <2>3, <2>4, <3>2 DEF Waits
  <2> QED
    BY <2>2, <2>5, <2>7, <2>9 DEF Rested
<1> HIDE DEF x
<1> QED
  BY <1>1, <1>3, LastTends

LEMMA CloseTends ==
  ASSUME Given, NEW c \in Callers, CloseEdges(c) \/ CloseWave(c) \/ Abort(c)
  PROVE  Tends(c)
<1>1. Inv /\ pc[c] \in {"close", "abort"} /\ pc[c] \in Busy
  BY DEF Given, CloseEdges, CloseWave, Abort, Busy, PCs, Unclaimed
<1>2. CASE CloseEdges(c)
  <2> DEFINE n == First(Tasked(c, {"edges"}))
  <2>1. n \in Nodes /\ task[c][n] = "edges"
    BY <1>2, FirstIsMember DEF CloseEdges, Tasked
  <2> HIDE DEF n
  <2> QED
    BY <1>2, <2>1, RouteTends DEF CloseEdges, n
<1>3. CASE CloseWave(c)
  <2>1. CanAppend(c) => Rested(ck[c])
    <3> SUFFICES ASSUME CanAppend(c)
                 PROVE  Rested(ck[c])
      OBVIOUS
    <3>1. Suits("close", ck[c], task[c])
      BY <1>1, <1>3, Minding DEF CloseWave
    <3>2. \A n \in Nodes : task[c][n] \notin {"edges", "interrupt"}
      BY <1>3 DEF CloseWave, Tasked
    <3> QED
      BY <3>1, <3>2 DEF Suits, Charge, Covers, Rested
  <2> QED
    BY <1>1, <1>3, <2>1, StaysTends, RestSuits DEF CloseWave, Locally, store, Calmly
<1>4. CASE Abort(c)
  <2>1. ~CanAppend(c)
    BY <1>1, <1>4, Minding DEF Abort, Suits
  <2> QED
    BY <1>4, <2>1, RefusedTends DEF Abort, CommitLast, Commit
<1> QED
  BY <1>2, <1>3, <1>4

\* A cancellation leaves nothing to do.
LEMMA CancelAppendTends ==
  ASSUME Given, NEW c \in Callers, CancelAppend(c)
  PROVE  Tends(c)
<1>1. CommitLast(c, Cancel(ck[c])) /\ ck[c] \in Checkpoint
  BY InHand DEF CancelAppend, Given
<1>2. Cancel(ck[c]).status = "cancelled" /\ Follows(ck[c], Cancel(ck[c]))
  BY <1>1, CancelParts, CancelFollows
<1> QED
  BY <1>1, <1>2, LastTends DEF Unstranded, Terminal

LEMMA ExecuteTends ==
  ASSUME Given, NEW c \in Callers, Execute(c)
  PROVE  Tends(c)
BY LoopTends, SkipTends, SuspendBeforeTends, ConcludeTends, BeginWaveTends, StartNodeTends, WorkTends,
   SettleTends, CloseStopTends, CloseInterruptTends, CloseTends DEF Execute

-----------------------------------------------------------------------------
(* The invariant is kept *)

\* The fencing token has no part in it.
LEMMA StampEnds ==
  ASSUME NEW k \in Checkpoint, NEW token, NEW label, NEW t, Ends(label, k, t)
  PROVE  Ends(label, Stamp(k, token), t)
<1> DEFINE x == Stamp(k, token)
<1>1. /\ x.status = k.status /\ x.attempt = k.attempt /\ x.node = k.node /\ x.edge = k.edge
      /\ x.interrupt = k.interrupt
  BY StampParts
<1> HIDE DEF x
<1>2. /\ Unstranded(x) <=> Unstranded(k)
      /\ Whole(x) <=> Whole(k)
      /\ Rested(x) <=> Rested(k)
      /\ Covers(x, t) <=> Covers(k, t)
  <2>1. \A S : InStatus(x, S) = InStatus(k, S)
    BY <1>1 DEF InStatus
  <2>2. (Doomed(x) <=> Doomed(k)) /\ \A n : (Leftover(x, n) <=> Leftover(k, n)) /\ (Waits(x, n) <=> Waits(k, n))
    BY <1>1, <2>1, SameEdges DEF Doomed, Leftover, Waits
  <2> QED
    BY <1>1, <2>1, <2>2, SameEdges DEF Unstranded, Whole, Rested, Covers
<1>3. Suits(label, x, t) <=> Suits(label, k, t)
  BY <1>1, <1>2 DEF Suits
<1>4. Ends(label, x, t)
  BY <1>1, <1>2, <1>3 DEF Ends
<1> QED
  BY <1>4 DEF x

\* Nothing of the histories and of those in charge of them changes.
LEMMA SameRuns ==
  ASSUME Inv, HInv, CInv, UNCHANGED history,
         \A d \in Callers :
           pc'[d] \in Busy \/ (pc[d] \in Busy /\ CanAppend(d)) => UNCHANGED <<pc[d], run[d], ck[d], task[d]>>
  PROVE  Suited' /\ Kempt' /\ EndsWell'
<1>1. \A r : Exists(r)' = Exists(r) /\ Newest(r)' = Newest(r) /\ Recorded(r)' = Recorded(r)
  BY DEF Exists, Newest, Recorded
<1>2. \A d \in Callers : UNCHANGED <<run[d], ck[d]>> => (CanAppend(d)' <=> CanAppend(d))
  BY <1>1 DEF CanAppend
<1>3. Suited'
  BY <1>2 DEF CInv, Suited
<1>4. Charge \subseteq Busy
  BY DEF Charge, Busy, PCs, Unclaimed
<1>5. Kempt'
  <2> SUFFICES ASSUME NEW r \in Runs, Exists(r), Newest(r).status \notin Terminal, ~Rested(Newest(r))
               PROVE  \E d \in Callers : run'[d] = r /\ pc'[d] \in Charge /\ CanAppend(d)'
    BY <1>1 DEF CInv, Kempt
  <2>1. PICK d \in Callers : run[d] = r /\ pc[d] \in Charge /\ CanAppend(d)
    BY DEF CInv, Kempt
  <2>2. UNCHANGED <<pc[d], run[d], ck[d], task[d]>>
    BY <1>4, <2>1
  <2> QED
    BY <1>2, <2>1, <2>2
<1>6. EndsWell'
  BY <1>1 DEF CInv, EndsWell
<1> QED
  BY <1>3, <1>5, <1>6

\* Where a caller is busy, its checkpoint is older than what is appended next.
LEMMA BusyOlder ==
  ASSUME Inv, HInv, NEW d \in Callers, pc[d] \in Busy
  PROVE  /\ run[d] \in Runs /\ Exists(run[d]) /\ ck[d].seq \in Nat
         /\ Len(history[run[d]]) \in Nat /\ ck[d].seq < Len(history[run[d]])
<1>1. ~Unloaded(d) /\ pc[d] \notin {"idle", "create", "unwind"}
  BY DEF Busy, Unclaimed, Unloaded
<1> QED
  BY <1>1, Lengths DEF HInv, Loaded, InHistory, Inv, Working

\* A checkpoint that ends well, or is suited to its caller, appended to the run.
LEMMA CommitKept ==
  ASSUME Given, NEW c \in Callers, NEW k, Commit(c, k), Follows(ck[c], k),
         NEW label, NEW t, pc' = [pc EXCEPT ![c] = label], task' = [task EXCEPT ![c] = t], UNCHANGED run,
         Ends(label, k, t)
  PROVE  Suited' /\ Kempt' /\ EndsWell'
<1> DEFINE r == run[c]
           x == Stamp(k, guard[c])
<1>1. /\ pc'[c] = label /\ task'[c] = t
      /\ \A d \in Callers \ {c} : pc'[d] = pc[d] /\ task'[d] = task[d]
  BY DEF Given, Inv, TypeOK
<1>2. /\ history' = [history EXCEPT ![r] = Append(@, x)] /\ ck' = [ck EXCEPT ![c] = x]
      /\ Exists(r) /\ ck[c].seq = Newest(r).seq
  BY DEF Commit, CanAppend
<1>3. r \in Runs /\ k \in Checkpoint /\ guard[c] \in Nat /\ Len(history[r]) \in Nat
  BY Lengths DEF Follows, Given, Inv, TypeOK
<1>4. x \in Checkpoint /\ x.seq = Len(history[r])
  <2>1. k.seq = Newest(r).seq + 1 /\ Newest(r).seq = Len(history[r]) - 1
    BY <1>2, <1>3 DEF Follows, Given, Inv, Numbered
  <2>2. x \in Checkpoint /\ x.seq = k.seq
    BY <1>3, StampType
  <2> QED
    BY <1>3, <2>1, <2>2
<1>5. Ends(label, x, t)
  BY <1>3, StampEnds
<1> HIDE DEF x
<1>6. /\ history'[r] = Append(history[r], x) /\ history[r] \in Seq(Checkpoint)
      /\ \A s \in Runs \ {r} : history'[s] = history[s]
  BY <1>2, <1>3 DEF Given, Inv, TypeOK
<1>7. /\ Len(history'[r]) = Len(history[r]) + 1 /\ history'[r][Len(history[r]) + 1] = x
      /\ \A i \in 1..Len(history[r]) : history'[r][i] = history[r][i]
  BY <1>3, <1>4, <1>6
<1>8. Newest(r)' = x
  BY <1>7 DEF Newest
<1>9. \A s \in Runs \ {r} : Exists(s)' = Exists(s) /\ Newest(s)' = Newest(s) /\ Recorded(s)' = Recorded(s)
  BY <1>6 DEF Exists, Newest, Recorded
<1>10. ck'[c] = x /\ \A d \in Callers \ {c} : ck'[d] = ck[d]
  BY <1>2 DEF Given, Inv, TypeOK
<1>11. \A d \in Callers : run[d] \in Runs
  BY DEF Given, Inv, TypeOK
<1>12. Suited'
  <2> SUFFICES ASSUME NEW d \in Callers, pc'[d] \in Busy, CanAppend(d)'
               PROVE  Suits(pc'[d], ck'[d], task'[d])
    BY DEF Suited
  <2>1. CASE d = c
    BY <1>1, <1>5, <1>8, <1>10, <2>1 DEF CanAppend, Ends
  <2>2. CASE d # c /\ run[d] = r
    <3>1. ck[d].seq \in Nat /\ ck[d].seq < Len(history[r])
      BY <1>1, <2>2, BusyOlder DEF Given
    <3>2. ck[d].seq = x.seq
      BY <1>8, <1>10, <2>2 DEF CanAppend
    <3> QED
      BY <1>3, <1>4, <3>1, <3>2
  <2>3. CASE d # c /\ run[d] # r
    <3>1. CanAppend(d)
      BY <1>9, <1>10, <1>11, <2>3 DEF CanAppend
    <3> QED
      BY <1>1, <1>10, <2>3, <3>1 DEF Given, CInv, Suited
  <2> QED
    BY <2>1, <2>2, <2>3
<1>13. Kempt'
  <2> SUFFICES ASSUME NEW s \in Runs, Exists(s)', Newest(s)'.status \notin Terminal
               PROVE  /\ Whole(Newest(s)')
                      /\ \/ Rested(Newest(s)')
                         \/ \E d \in Callers : run'[d] = s /\ pc'[d] \in Charge /\ CanAppend(d)'
    BY DEF Kempt
  <2>1. CASE s = r
    <3>1. Whole(x) /\ Suits(label, x, t)
      BY <1>5, <1>8, <2>1 DEF Ends
    <3>2. CanAppend(c)'
      BY <1>8, <1>10, <2>1 DEF CanAppend
    <3> QED
      BY <1>1, <1>8, <2>1, <3>1, <3>2 DEF Suits
  <2>2. CASE s # r
    <3>1. /\ Whole(Newest(s))
          /\ Rested(Newest(s)) \/ \E d \in Callers : run[d] = s /\ pc[d] \in Charge /\ CanAppend(d)
      BY <1>9, <2>2 DEF Given, CInv, Kempt
    <3>2. \A d \in Callers : run[d] = s /\ pc[d] \in Charge /\ CanAppend(d) =>
            run'[d] = s /\ pc'[d] \in Charge /\ CanAppend(d)'
      BY <1>1, <1>9, <1>10, <2>2 DEF CanAppend
    <3> QED
      BY <1>9, <2>2, <3>1, <3>2
  <2> QED
    BY <2>1, <2>2
<1>14. EndsWell'
  <2>1. Recorded(r)' \subseteq Recorded(r) \cup {x}
    <3> SUFFICES ASSUME NEW i \in 1..Len(history'[r])
                 PROVE  history'[r][i] \in Recorded(r) \cup {x}
      BY DEF Recorded
    <3>1. i \in 1..Len(history[r]) \/ i = Len(history[r]) + 1
      BY <1>3, <1>7
    <3> QED
      BY <1>7, <3>1 DEF Recorded
  <2> QED
    BY <1>5, <1>9, <2>1 DEF EndsWell, Given, CInv, Ends
<1> QED
  BY <1>12, <1>13, <1>14

\* A caller that tends to its run keeps the invariant.
LEMMA TendsKept ==
  ASSUME Given, NEW c \in Callers, pc[c] \in Busy \cup {"cancel"}, Tends(c)
  PROVE  Suited' /\ Kempt' /\ EndsWell'
<1>1. PICK label, t :
        /\ pc' = [pc EXCEPT ![c] = label] /\ task' = [task EXCEPT ![c] = t] /\ UNCHANGED run
        /\ \/ \E k : Commit(c, k) /\ Follows(ck[c], k) /\ Ends(label, k, t)
           \/ UNCHANGED <<history, ck>> /\ (CanAppend(c) => Suits(label, ck[c], t))
  BY DEF Tends
<1>2. CASE \E k : Commit(c, k) /\ Follows(ck[c], k) /\ Ends(label, k, t)
  BY <1>1, <1>2, CommitKept
<1>3. CASE UNCHANGED <<history, ck>> /\ (CanAppend(c) => Suits(label, ck[c], t))
  <2>1. /\ pc'[c] = label /\ task'[c] = t
        /\ \A d \in Callers \ {c} : pc'[d] = pc[d] /\ task'[d] = task[d]
    BY <1>1 DEF Given, Inv, TypeOK
  <2>2. \A d \in Callers : CanAppend(d)' <=> CanAppend(d)
    BY <1>1, <1>3 DEF CanAppend, Exists, Newest
  <2>3. \A r : Exists(r)' = Exists(r) /\ Newest(r)' = Newest(r) /\ Recorded(r)' = Recorded(r)
    BY <1>3 DEF Exists, Newest, Recorded
  <2>4. Suited'
    BY <1>3, <2>1, <2>2 DEF Given, CInv, Suited
  <2>5. Kempt'
    <3> SUFFICES ASSUME NEW r \in Runs, Exists(r), Newest(r).status \notin Terminal, ~Rested(Newest(r))
                 PROVE  \E d \in Callers : run'[d] = r /\ pc'[d] \in Charge /\ CanAppend(d)'
      BY <2>3 DEF Given, CInv, Kempt
    <3>1. PICK d \in Callers : run[d] = r /\ pc[d] \in Charge /\ CanAppend(d)
      BY DEF Given, CInv, Kempt
    <3>2. CASE d # c
      BY <1>1, <2>1, <2>2, <3>1, <3>2
    <3>3. CASE d = c
      <4>1. ck[c] = Newest(r)
        BY <3>1, <3>3, OnNewest DEF Given
      <4>2. label \in Charge
        BY <1>3, <3>1, <3>3, <4>1 DEF Suits
      <4> QED
        BY <1>1, <2>1, <2>2, <3>1, <3>3, <4>2
    <3> QED
      BY <3>2, <3>3
  <2>6. EndsWell'
    BY <2>3 DEF Given, CInv, EndsWell
  <2> QED
    BY <2>4, <2>5, <2>6
<1> QED
  BY <1>1, <1>2, <1>3

\* A caller whose checkpoint is at rest comes to be in charge of nothing.
LEMMA EntersKept ==
  ASSUME Inv, HInv, CInv, NEW c \in Callers, pc[c] \notin Busy, UNCHANGED <<history, run, task>>,
         NEW label \in {"loop", "recover-append", "resume-append", "recover", "resume", "unwind"}, Goto(c, label),
         \A d \in Callers \ {c} : ck'[d] = ck[d],
         label \in Busy /\ CanAppend(c)' => Rested(ck'[c])
  PROVE  Suited' /\ Kempt' /\ EndsWell'
<1>1. pc'[c] = label /\ \A d \in Callers \ {c} : pc'[d] = pc[d]
  BY DEF Goto, Inv, TypeOK
<1>2. \A r : Exists(r)' = Exists(r) /\ Newest(r)' = Newest(r) /\ Recorded(r)' = Recorded(r)
  BY DEF Exists, Newest, Recorded
<1>3. \A d \in Callers \ {c} : CanAppend(d)' <=> CanAppend(d)
  BY <1>2 DEF CanAppend
<1>4. Suited'
  <2> SUFFICES ASSUME NEW d \in Callers, pc'[d] \in Busy, CanAppend(d)'
               PROVE  Suits(pc'[d], ck'[d], task'[d])
    BY DEF Suited
  <2>1. CASE d = c
    <3>1. label \in Calmly /\ Rested(ck'[c])
      BY <1>1, <2>1 DEF Busy, Calmly
    <3> QED
      BY <1>1, <2>1, <3>1, RestSuits
  <2>2. CASE d # c
    BY <1>1, <1>3, <2>2 DEF CInv, Suited
  <2> QED
    BY <2>1, <2>2
<1>5. Kempt'
  <2> SUFFICES ASSUME NEW r \in Runs, Exists(r), Newest(r).status \notin Terminal, ~Rested(Newest(r))
               PROVE  \E d \in Callers : run'[d] = r /\ pc'[d] \in Charge /\ CanAppend(d)'
    BY <1>2 DEF CInv, Kempt
  <2>1. PICK d \in Callers : run[d] = r /\ pc[d] \in Charge /\ CanAppend(d)
    BY DEF CInv, Kempt
  <2>2. d # c
    BY <2>1 DEF Charge, Busy, PCs, Unclaimed
  <2> QED
    BY <1>1, <1>3, <2>1, <2>2
<1>6. EndsWell'
  BY <1>2 DEF CInv, EndsWell
<1> QED
  BY <1>4, <1>5, <1>6

\* A caller that recovers or resumes a run under its lease finds it at rest.
LEMMA LoadKept ==
  ASSUME Given, NEW c \in Callers, RecoverLoad(c) \/ ResumeLoad(c)
  PROVE  Suited' /\ Kempt' /\ EndsWell'
<1> DEFINE r == run[c]
<1>1. /\ pc[c] \in {"recover", "resume"} /\ UNCHANGED <<history, run, task>>
      /\ ck' = [ck EXCEPT ![c] = Newest(r)]
  BY DEF RecoverLoad, ResumeLoad, Locally, store
<1>2. PICK label \in {"loop", "recover-append", "resume-append", "unwind"} : Goto(c, label)
  BY DEF RecoverLoad, ResumeLoad
<1>3. /\ r \in Runs /\ Exists(r) /\ ck'[c] = Newest(r) /\ Newest(r)' = Newest(r)
      /\ \A d \in Callers \ {c} : ck'[d] = ck[d]
  BY <1>1 DEF Given, Inv, TypeOK, Working, Newest
<1>4. pc[c] \notin Busy /\ pc[c] \notin Unclaimed \cup {"unwind"}
  BY <1>1 DEF Busy, Unclaimed
<1>5. ASSUME CanAppend(c)', ~Rested(Newest(r))
      PROVE  FALSE
  <2>1. Newest(r).status \notin Terminal
    BY <1>1, <1>3, <1>5 DEF CanAppend
  <2>2. PICK d \in Callers : run[d] = r /\ pc[d] \in Charge
    BY <1>3, <1>5, <2>1 DEF Given, CInv, Kempt
  <2>3. pc[d] \notin Unclaimed \cup {"unwind"}
    BY <2>2 DEF Charge, Unclaimed
  <2>4. d = c
    BY <1>4, <2>2, <2>3, Exclusive DEF Given, CInv
  <2> QED
    BY <1>1, <2>2, <2>4 DEF Charge
<1> QED
  BY <1>1, <1>2, <1>3, <1>4, <1>5, EntersKept DEF Given

\* So does the one that is granted the lease of a run it has just prepared.
LEMMA ClaimKept ==
  ASSUME Given, NEW c \in Callers, Claim(c)
  PROVE  Suited' /\ Kempt' /\ EndsWell'
<1> DEFINE r == run[c]
<1>1. /\ pc[c] = "claim" /\ UNCHANGED <<history, run, task, ck>>
      /\ op[c] \in {"execute", "recover", "resume"}
  BY DEF Claim, store, Given, Inv, TypeOK, Claiming
<1>2. PICK label \in {"loop", "recover", "resume", "unwind"} :
        Goto(c, label) /\ (label = "loop" => op[c] = "execute" /\ (Leased => Available(r)))
  BY <1>1 DEF Claim
<1>3. r \in Runs /\ Exists(r) /\ pc[c] \notin Busy
  BY <1>1 DEF Given, Inv, TypeOK, Working, Busy, Unclaimed
<1>4. ASSUME label = "loop", CanAppend(c)
      PROVE  Rested(ck[c])
  <2>1. InHistory(ck[c], r) /\ ck[c].seq = Newest(r).seq
    BY <1>1, <1>2, <1>4 DEF Given, HInv, Loaded, Unloaded, CanAppend
  <2>2. ck[c] = Newest(r)
    BY <1>3, <2>1, NewestInHistory DEF Given
  <2>3. ASSUME NEW d \in Callers, run[d] = r, pc[d] \in Charge
        PROVE  FALSE
    <3>1. d # c /\ pc[d] \notin Unclaimed \cup {"unwind"}
      BY <1>1, <2>3 DEF Charge, Unclaimed
    <3>2. Leased
      BY <3>1 DEF Given, Orderly
    <3>3. guard[d] # 0
      BY <3>1, <3>2 DEF Given, Guarded
    <3> QED
      BY <1>2, <1>4, <2>3, <3>2, <3>3 DEF Given, CInv, Alive, OwnsLease, Available
  <2>4. Newest(r).status \notin Terminal
    BY <1>4 DEF CanAppend
  <2> QED
    BY <1>3, <2>2, <2>3, <2>4 DEF Given, CInv, Kempt
<1>5. label \in Busy /\ CanAppend(c)' => Rested(ck'[c])
  <2>1. CanAppend(c)' => CanAppend(c)
    BY <1>1 DEF CanAppend, Exists, Newest
  <2>2. label \in Busy => label = "loop"
    BY DEF Busy
  <2> QED
    BY <1>1, <1>4, <2>1, <2>2
<1> QED
  BY <1>1, <1>2, <1>3, <1>5, EntersKept DEF Given

\* Nothing is left over when nothing has run.
LEMMA InitialRests == Whole(Initial) /\ Rested(Initial) /\ Unstranded(Initial)
<1>1. Initial.node = [n \in Nodes |-> "pending"] /\ Initial.edge = [e \in Edges |-> "undecided"]
      /\ Initial.status = "running"
  BY DEF Initial
<1>2. \A n \in Nodes : Initial.node[n] = "pending" /\ Undecided(Initial, n) = Outgoing(n)
  BY <1>1 DEF Undecided, Outgoing
<1> QED
  BY <1>1, <1>2 DEF Whole, Rested, Leftover, Unstranded, Done

LEMMA CreateKept ==
  ASSUME Given, NEW c \in Callers, Create(c)
  PROVE  Suited' /\ Kempt' /\ EndsWell'
<1> DEFINE r == run[c]
<1>1. /\ pc[c] = "create" /\ UNCHANGED <<run, ck, task>> /\ r \in Runs
      /\ pc'[c] \in {"unwind", "claim"} /\ \A d \in Callers \ {c} : pc'[d] = pc[d]
  BY DEF Create, Goto, Given, Inv, TypeOK
<1>2. pc[c] \notin Busy /\ pc'[c] \notin Busy
  BY <1>1 DEF Busy, Unclaimed
<1>3. CASE UNCHANGED history
  BY <1>1, <1>2, <1>3, SameRuns DEF Given
<1>4. CASE history' = [history EXCEPT ![r] = <<ck[c]>>]
  <2>1. ck[c] = Initial /\ ~Exists(r)
    BY <1>1 DEF Given, CInv, Fresh, Inv, Creating
  <2>2. history'[r] = <<Initial>> /\ \A s \in Runs \ {r} : history'[s] = history[s]
    BY <1>1, <1>4, <2>1 DEF Given, Inv, TypeOK
  <2>3. Newest(r)' = Initial /\ Recorded(r)' = {Initial}
    <3>1. Len(history'[r]) = 1 /\ history'[r][1] = Initial
      BY <2>2, Singleton
    <3>2. 1..1 = {1}
      OBVIOUS
    <3> QED
      BY <1>1, <3>1, <3>2 DEF Newest, Recorded
  <2>4. \A s \in Runs \ {r} : Exists(s)' = Exists(s) /\ Newest(s)' = Newest(s) /\ Recorded(s)' = Recorded(s)
    BY <2>2 DEF Exists, Newest, Recorded
  <2>5. ASSUME NEW d \in Callers, pc[d] \in Busy
        PROVE  d # c /\ run[d] \in Runs \ {r} /\ pc'[d] = pc[d] /\ (CanAppend(d)' <=> CanAppend(d))
    <3>1. run[d] \in Runs \ {r}
      BY <2>1, <2>5, BusyOlder DEF Given
    <3> QED
      BY <1>1, <1>2, <2>4, <2>5, <3>1 DEF CanAppend
  <2>6. Suited'
    BY <1>1, <1>2, <2>5 DEF Given, CInv, Suited
  <2>7. Kempt'
    <3> SUFFICES ASSUME NEW s \in Runs, Exists(s)', Newest(s)'.status \notin Terminal
                 PROVE  /\ Whole(Newest(s)')
                        /\ \/ Rested(Newest(s)')
                           \/ \E d \in Callers : run'[d] = s /\ pc'[d] \in Charge /\ CanAppend(d)'
      BY DEF Kempt
    <3>1. CASE s = r
      BY <1>1, <2>3, <3>1, InitialRests
    <3>2. CASE s # r
      <4>1. /\ Whole(Newest(s))
            /\ Rested(Newest(s)) \/ \E d \in Callers : run[d] = s /\ pc[d] \in Charge /\ CanAppend(d)
        BY <2>4, <3>2 DEF Given, CInv, Kempt
      <4>2. Charge \subseteq Busy
        BY DEF Charge, Busy, PCs, Unclaimed
      <4> QED
        BY <1>1, <2>4, <2>5, <3>2, <4>1, <4>2
    <3> QED
      BY <3>1, <3>2
  <2>8. EndsWell'
    BY <1>1, <2>3, <2>4, InitialRests DEF EndsWell, Given, CInv
  <2> QED
    BY <2>6, <2>7, <2>8
<1> QED
  BY <1>3, <1>4 DEF Create, store

\* A caller that enters a call, or leaves it, is in charge of no run.
LEMMA CallKept ==
  ASSUME Given, NEW c \in Callers, Call(c) \/ Unwind(c)
  PROVE  Suited' /\ Kempt' /\ Fresh' /\ EndsWell'
<1>1. ~AllowFork
  BY DEF Given, Orderly
<1>2. CASE Call(c)
  <2>1. /\ pc[c] = "idle" /\ UNCHANGED history
        /\ pc'[c] \in {"create", "claim", "cancel"} /\ (pc'[c] = "create" => ck'[c] = Initial)
        /\ \A d \in Callers \ {c} : UNCHANGED <<pc[d], run[d], ck[d], task[d]>>
    BY <1>1, <1>2 DEF Call, CallRun, CallRecover, CallCancel, CallResume, CallFork, Begin, Goto, store,
       Given, Inv, TypeOK
  <2>2. pc[c] \notin Busy /\ pc'[c] \notin Busy
    BY <2>1 DEF Busy, Unclaimed
  <2>3. Suited' /\ Kempt' /\ EndsWell'
    BY <2>1, <2>2, SameRuns DEF Given
  <2>4. Fresh'
    BY <2>1 DEF Fresh, Given, CInv
  <2> QED
    BY <2>3, <2>4
<1>3. CASE Unwind(c)
  <2>1. /\ pc[c] = "unwind" /\ UNCHANGED history /\ pc'[c] = "idle"
        /\ \A d \in Callers \ {c} : UNCHANGED <<pc[d], run[d], ck[d], task[d]>>
    BY <1>3 DEF Unwind, Forget, store, Given, Inv, TypeOK
  <2>2. pc[c] \notin Busy /\ pc'[c] \notin Busy
    BY <2>1 DEF Busy, Unclaimed
  <2>3. Suited' /\ Kempt' /\ EndsWell'
    BY <2>1, <2>2, SameRuns DEF Given
  <2>4. Fresh'
    BY <2>1 DEF Fresh, Given, CInv
  <2> QED
    BY <2>3, <2>4
<1> QED
  BY <1>2, <1>3

LEMMA StepCalm ==
  ASSUME Given, NEW c \in Callers, Step(c)
  PROVE  Suited' /\ Kempt' /\ Fresh' /\ EndsWell'
<1>1. CASE Unwind(c)
  BY <1>1, CallKept
<1>2. CASE Create(c)
  <2>1. UNCHANGED ck /\ pc'[c] # "create" /\ \A d \in Callers \ {c} : pc'[d] = pc[d]
    BY <1>2 DEF Create, Goto, Given, Inv, TypeOK
  <2>2. Fresh'
    BY <2>1 DEF Fresh, Given, CInv
  <2> QED
    BY <1>2, <2>2, CreateKept
<1>3. ASSUME Advances(c)
      PROVE  Fresh'
  <2>1. pc'[c] # "create" /\ \A d \in Callers \ {c} : UNCHANGED <<pc[d], ck[d]>>
    BY <1>3, OthersRest DEF Advances, Moves, Onward, Given, Inv, TypeOK
  <2> QED
    BY <2>1 DEF Fresh, Given, CInv
<1>4. CASE Claim(c)
  BY <1>3, <1>4, ClaimKept, ClaimAdvances DEF Given
<1>5. CASE RecoverLoad(c) \/ ResumeLoad(c)
  BY <1>3, <1>5, LoadKept, RecoverLoadAdvances, ResumeLoadAdvances DEF Given
<1>6. CASE RecoverAppend(c) \/ ResumeAppend(c) \/ Reroute(c) \/ Execute(c) \/ CancelAppend(c)
  <2>1. Advances(c)
    BY <1>6, RecoverAppendAdvances, ResumeAppendAdvances, RerouteAdvances, ExecuteAdvances,
       CancelAppendAdvances DEF Given
  <2>2. pc[c] \in Busy \cup {"cancel"}
    BY <1>6 DEF RecoverAppend, ResumeAppend, Reroute, Execute, CancelAppend,
       LoopTop, SkipNode, ReturnSuspended, SuspendBefore, Conclude, BeginWave, StartNode,
       Dispatch, MayDispatch, Return, Gather, Settle, CloseStop, CloseEdges, Abort,
       CloseInterrupt, CloseWave, Planning, Busy, PCs, Unclaimed
  <2>3. Tends(c)
    BY <1>6, RecoverAppendTends, ResumeAppendTends, RerouteTends, ExecuteTends, CancelAppendTends
  <2> QED
    BY <1>3, <2>1, <2>2, <2>3, TendsKept
<1> QED
  BY <1>1, <1>2, <1>4, <1>5, <1>6 DEF Step

\* Crashes and faults are counted and never forgotten.
LEMMA CountsGrow ==
  ASSUME Inv, [Next]_vars, crashes' = 0, faults' = 0
  PROVE  UNCHANGED <<crashes, faults>>
<1>1. crashes \in Nat /\ faults \in Nat
  BY DEF Inv, TypeOK
<1>2. ASSUME NEW c \in Callers, Step(c)
      PROVE  UNCHANGED <<crashes, faults>>
  <2>1. \A x : Commit(c, x) => UNCHANGED <<crashes, faults>>
    BY DEF Commit, bounds
  <2>2. \A label : Refused(c, label) => UNCHANGED <<crashes, faults>>
    BY DEF Refused, bounds
  <2>3. Locally => UNCHANGED <<crashes, faults>>
    BY DEF Locally, bounds
  <2>4. \A x : CommitLast(c, x) => UNCHANGED <<crashes, faults>>
    BY <2>1, <2>2 DEF CommitLast
  <2>5. \A n, bad : Route(c, n, bad) => UNCHANGED <<crashes, faults>>
    BY <2>1, <2>2, <2>3 DEF Route
  <2>6. CASE Create(c) \/ Claim(c) \/ RecoverLoad(c) \/ ResumeLoad(c)
    BY <2>3, <2>6 DEF Create, Claim, RecoverLoad, ResumeLoad, bounds
  <2>7. CASE RecoverAppend(c) \/ ResumeAppend(c) \/ Reroute(c) \/ CancelAppend(c)
    BY <2>1, <2>2, <2>3, <2>4, <2>5, <2>7 DEF RecoverAppend, ResumeAppend, ResumeWith, Reroute, CancelAppend
  <2>8. CASE \/ LoopTop(c) \/ SkipNode(c) \/ ReturnSuspended(c) \/ SuspendBefore(c) \/ Conclude(c)
             \/ BeginWave(c) \/ StartNode(c) \/ Gather(c) \/ Settle(c)
             \/ \E n \in Nodes : Dispatch(c, n) \/ Return(c, n)
    BY <2>1, <2>2, <2>3, <2>4, <2>8 DEF LoopTop, SkipNode, ReturnSuspended, SuspendBefore, Conclude,
       BeginWave, StartNode, Gather, Settle, Dispatch, Return
  <2>9. CASE CloseStop(c) \/ CloseEdges(c) \/ Abort(c) \/ CloseInterrupt(c) \/ CloseWave(c)
    BY <2>3, <2>4, <2>5, <2>9 DEF CloseStop, CloseEdges, Abort, CloseInterrupt, CloseWave
  <2>10. CASE Unwind(c)
    BY <1>1, <2>10 DEF Unwind
  <2> QED
    BY <1>2, <2>6, <2>7, <2>8, <2>9, <2>10 DEF Step, Execute
<1>3. ASSUME NEW c \in Callers, Call(c)
      PROVE  UNCHANGED <<crashes, faults>>
  BY <1>3 DEF Call, CallRun, CallRecover, CallCancel, CallResume, CallFork, Begin
<1>4. ASSUME NEW c \in Callers, Crash(c) \/ Heartbeat(c)
      PROVE  UNCHANGED <<crashes, faults>>
  BY <1>1, <1>4 DEF Crash, Heartbeat
<1>5. ASSUME NEW r \in Runs, Lapse(r) \/ Revive(r)
      PROVE  UNCHANGED <<crashes, faults>>
  BY <1>1, <1>5 DEF Lapse, Revive, bounds
<1>6. CASE UNCHANGED vars
  BY <1>6 DEF vars, bounds
<1> QED
  BY <1>2, <1>3, <1>4, <1>5, <1>6 DEF Next

LEMMA NextCalm ==
  ASSUME Inv, HInv, Guarded, CalmInv, [Next]_vars
  PROVE  CalmInv'
<1> SUFFICES ASSUME Calm'
             PROVE  CInv'
  BY DEF CalmInv
<1>1. UNCHANGED <<crashes, faults>>
  BY CountsGrow DEF Calm
<1>2. Given
  BY <1>1 DEF Calm, CalmInv, Orderly, Given
<1>3. Alive'
  BY <1>1, <1>2, NextAlive DEF Given, CInv
<1>4. CASE UNCHANGED <<history, pc, run, ck, task>>
  <2>1. Fresh'
    BY <1>2, <1>4 DEF Fresh, Given, CInv
  <2> QED
    BY <1>2, <1>3, <1>4, <2>1, SameRuns DEF CInv, Given
<1>5. CASE \E c \in Callers : Call(c)
  BY <1>2, <1>3, <1>5, CallKept DEF CInv
<1>6. CASE \E c \in Callers : Step(c)
  BY <1>2, <1>3, <1>6, StepCalm DEF CInv
<1>7. CASE \E c \in Callers : Crash(c)
  BY <1>1, <1>7 DEF Crash, Inv, TypeOK
<1>8. CASE UNCHANGED vars \/ (\E c \in Callers : Heartbeat(c)) \/ (\E r \in Runs : Lapse(r) \/ Revive(r))
  BY <1>4, <1>8 DEF vars, store, local, Heartbeat, Lapse, Revive
<1> QED
  BY <1>5, <1>6, <1>7, <1>8 DEF Next

LEMMA InitCalm == Init => CalmInv
<1> SUFFICES ASSUME Init
             PROVE  CInv
  BY DEF CalmInv
<1>1. \A c \in Callers : pc[c] = "idle" /\ guard[c] = 0
  BY DEF Init
<1>2. \A r \in Runs : ~Exists(r) /\ Recorded(r) = {}
  <2>1. \A r \in Runs : history[r] = <<>>
    BY DEF Init
  <2>2. Len(<<>>) = 0 /\ 1..0 = {}
    OBVIOUS
  <2> QED
    BY <2>1, <2>2 DEF Exists, Recorded
<1> QED
  BY <1>1, <1>2 DEF CInv, Alive, Suited, Kempt, Fresh, EndsWell, Busy, Unclaimed

\* A run that ends by itself leaves no node behind: in every workflow
\* definition, and for any callers that exclude each other, as long as nothing
\* crashes and no lease lapses under its owner.  A completed node whose edges
\* are undecided then always waits for a suspension or an interrupt, or is in
\* the charge of a caller that has yet to decide them.
THEOREM NobodyStranded == Spec => [](Orderly /\ crashes = 0 /\ faults = 0 => NothingStranded)
<1>1. CalmInv => (Orderly /\ crashes = 0 /\ faults = 0 => NothingStranded)
  <2>1. CondRaises => NothingStranded
    BY DEF NothingStranded
  <2>2. EndsWell => NothingStranded
    BY DEF EndsWell, Unstranded, Doomed, NothingStranded
  <2> QED
    BY <2>1, <2>2 DEF CalmInv, Calm, CInv
<1>2. Init => CalmInv
  BY InitCalm
<1>3. Inv /\ HInv /\ Guarded /\ CalmInv /\ [Next]_vars => CalmInv'
  BY NextCalm
<1>4. Init => Guarded
  BY InitGuarded
<1>5. Inv /\ Guarded /\ [Next]_vars => Guarded'
  BY NextGuarded
<1> QED
  BY <1>1, <1>2, <1>3, <1>4, <1>5, Invariant, HistoryInvariant, PTL DEF Spec
=============================================================================
