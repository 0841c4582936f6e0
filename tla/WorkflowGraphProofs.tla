------------------------ MODULE WorkflowGraphProofs ------------------------
(***************************************************************************)
(* Theorems about WorkflowGraph for every workflow definition, any number  *)
(* of callers, runs and keys, and any bounds: its state is well typed, the *)
(* histories it leaves in the store are those RunLog promises, the lease   *)
(* of a run excludes two executors, and the fencing tokens in a history    *)
(* never decrease.                                                         *)
(***************************************************************************)
EXTENDS WorkflowGraphProperties, WellFoundedInduction, TLAPS

-----------------------------------------------------------------------------
(* What the operators return *)

\* The first member of a set of nodes is a member of it.
LEMMA FirstIsMember ==
  ASSUME NEW S \in SUBSET Nodes, S # {}
  PROVE  First(S) \in S
<1>1. S \subseteq Nat
  BY DefinitionAssumption DEF Nodes
<1> DEFINE R == {ss \in Nat \X Nat : ss[1] < ss[2]}
<1>2. IsWellFoundedOn(R, Nat)
  BY NatLessThanWellFounded DEF OpToRel
<1>3. \A n, m \in Nat : <<n, m>> \in R <=> n < m
  OBVIOUS
<1> HIDE DEF R
<1>4. PICK m \in S : \A n \in S : ~(<<n, m>> \in R)
  BY <1>1, <1>2, WFMin, Zenon
<1>5. \A n \in S : ~(n < m)
  BY <1>1, <1>3, <1>4, Zenon
<1>6. \A n \in S : m <= n
  BY <1>1, <1>5
<1> QED
  BY <1>6, Zenon DEF First

\* cand is a checkpoint, numbered after k and not yet stamped.
Follows(k, cand) == cand \in Checkpoint /\ cand.seq = k.seq + 1 /\ cand.fence = k.fence

\* The parts of a checkpoint.
LEMMA Parts ==
  ASSUME NEW k \in Checkpoint
  PROVE  /\ k.seq \in Nat /\ k.seq + 1 \in Nat /\ k.status \in RunStatus
         /\ k.node \in [Nodes -> NodeStatus] /\ k.attempt \in [Nodes -> Nat]
         /\ k.edge \in [Edges -> Decision] /\ k.interrupt \in Interrupt \cup {NoInterrupt}
         /\ k.resolved \in SUBSET (Phases \X Nodes) /\ k.fence \in Nat
BY DEF Checkpoint

\* _resolve_skipped records a checkpoint.
LEMMA SkipFollows ==
  ASSUME NEW k \in Checkpoint, NEW n \in Nodes
  PROVE  Follows(k, Skip(k, n))
<1>1. "workflow-step-skipped" \in TransitionType
  BY DEF TransitionType
<1>2. [k.node EXCEPT ![n] = "skipped"] \in [Nodes -> NodeStatus]
  BY Parts DEF NodeStatus
<1>3. [e \in Edges |-> IF e \in Undecided(k, n) THEN "dropped" ELSE k.edge[e]] \in [Edges -> Decision]
  BY Parts DEF Decision
<1>4. Skip(k, n) \in Checkpoint
  BY <1>1, <1>2, <1>3, Parts, Zenon DEF Skip, Checkpoint
<1>5. Skip(k, n).seq = k.seq + 1 /\ Skip(k, n).fence = k.fence
  BY Zenon DEF Skip, Checkpoint
<1> QED
  BY <1>4, <1>5 DEF Follows

\* So does the start of a step.
LEMMA StartFollows ==
  ASSUME NEW k \in Checkpoint, NEW n \in Nodes
  PROVE  Follows(k, Start(k, n))
<1>1. "workflow-step-start" \in TransitionType /\ "running" \in RunStatus
  BY DEF TransitionType, RunStatus
<1>2. [k.node EXCEPT ![n] = "running"] \in [Nodes -> NodeStatus]
  BY Parts DEF NodeStatus
<1>3. [k.attempt EXCEPT ![n] = k.attempt[n] + 1] \in [Nodes -> Nat]
  BY Parts
<1>4. Start(k, n) \in Checkpoint
  BY <1>1, <1>2, <1>3, Parts, Zenon DEF Start, Checkpoint
<1>5. Start(k, n).seq = k.seq + 1 /\ Start(k, n).fence = k.fence
  BY Zenon DEF Start, Checkpoint
<1> QED
  BY <1>4, <1>5 DEF Follows

\* So does a retry.
LEMMA RetryFollows ==
  ASSUME NEW k \in Checkpoint, NEW n \in Nodes
  PROVE  Follows(k, Retry(k, n))
<1>1. "workflow-step-retry" \in TransitionType
  BY DEF TransitionType
<1>2. [k.node EXCEPT ![n] = "pending"] \in [Nodes -> NodeStatus]
  BY Parts DEF NodeStatus
<1>3. Retry(k, n) \in Checkpoint
  BY <1>1, <1>2, Parts, Zenon DEF Retry, Checkpoint
<1>4. Retry(k, n).seq = k.seq + 1 /\ Retry(k, n).fence = k.fence
  BY Zenon DEF Retry, Checkpoint
<1> QED
  BY <1>3, <1>4 DEF Follows

\* So does the end of a step, whatever its outcome.
LEMMA FinishNodeFollows ==
  ASSUME NEW k \in Checkpoint, NEW n \in Nodes, NEW s \in NodeStatus
  PROVE  Follows(k, FinishNode(k, n, s))
<1>1. "workflow-step-finish" \in TransitionType
  BY DEF TransitionType
<1>2. [k.node EXCEPT ![n] = s] \in [Nodes -> NodeStatus]
  BY Parts
<1>3. FinishNode(k, n, s) \in Checkpoint
  BY <1>1, <1>2, Parts, Zenon DEF FinishNode, Checkpoint
<1>4. FinishNode(k, n, s).seq = k.seq + 1 /\ FinishNode(k, n, s).fence = k.fence
  BY Zenon DEF FinishNode, Checkpoint
<1> QED
  BY <1>3, <1>4 DEF Follows

\* So do the decisions on the edges of a node.
LEMMA DecideFollows ==
  ASSUME NEW k \in Checkpoint, NEW n \in Nodes, NEW choice \in Choices(k, n)
  PROVE  Follows(k, Decide(k, choice))
<1>1. "workflow-edge-decisions" \in TransitionType
  BY DEF TransitionType
<1>2. [e \in Edges |-> IF e \in DOMAIN choice THEN choice[e] ELSE k.edge[e]] \in [Edges -> Decision]
  BY Parts DEF Decision, Choices
<1>3. Decide(k, choice) \in Checkpoint
  BY <1>1, <1>2, Parts, Zenon DEF Decide, Checkpoint
<1>4. Decide(k, choice).seq = k.seq + 1 /\ Decide(k, choice).fence = k.fence
  BY Zenon DEF Decide, Checkpoint
<1> QED
  BY <1>3, <1>4 DEF Follows

\* So does an interrupt.
LEMMA SuspendFollows ==
  ASSUME NEW k \in Checkpoint, NEW r \in Runs, NEW p \in Phases, NEW n \in Nodes
  PROVE  Follows(k, Suspend(k, r, p, n))
<1>1. "workflow-interrupt" \in TransitionType /\ "suspended" \in RunStatus
  BY DEF TransitionType, RunStatus
<1>2. [run |-> r, seq |-> k.seq + 1, phase |-> p, node |-> n] \in Interrupt
  BY Parts DEF Interrupt
<1>3. Suspend(k, r, p, n) \in Checkpoint
  BY <1>1, <1>2, Parts, Zenon DEF Suspend, Checkpoint
<1>4. Suspend(k, r, p, n).seq = k.seq + 1 /\ Suspend(k, r, p, n).fence = k.fence
  BY Zenon DEF Suspend, Checkpoint
<1> QED
  BY <1>3, <1>4 DEF Follows

\* So does the end of a run.
LEMMA FinishRunFollows ==
  ASSUME NEW k \in Checkpoint, NEW s \in RunStatus
  PROVE  Follows(k, FinishRun(k, s))
<1>1. "workflow-finish" \in TransitionType
  BY DEF TransitionType
<1>2. FinishRun(k, s) \in Checkpoint
  BY <1>1, Parts, Zenon DEF FinishRun, Checkpoint
<1>3. FinishRun(k, s).seq = k.seq + 1 /\ FinishRun(k, s).fence = k.fence
  BY Zenon DEF FinishRun, Checkpoint
<1> QED
  BY <1>2, <1>3 DEF Follows

\* So does a recovery.
LEMMA RecoverFollows ==
  ASSUME NEW k \in Checkpoint
  PROVE  Follows(k, Recover(k))
<1>1. "workflow-recovered" \in TransitionType /\ "running" \in RunStatus
  BY DEF TransitionType, RunStatus
<1>2. [n \in Nodes |-> IF k.node[n] = "running" THEN "pending" ELSE k.node[n]] \in [Nodes -> NodeStatus]
  BY Parts DEF NodeStatus
<1>3. Recover(k) \in Checkpoint
  BY <1>1, <1>2, Parts, Zenon DEF Recover, Checkpoint
<1>4. Recover(k).seq = k.seq + 1 /\ Recover(k).fence = k.fence
  BY Zenon DEF Recover, Checkpoint
<1> QED
  BY <1>3, <1>4 DEF Follows

\* So does the acknowledgement of an interrupt.
LEMMA AcknowledgeFollows ==
  ASSUME NEW k \in Checkpoint, k.interrupt # NoInterrupt
  PROVE  Follows(k, Acknowledge(k))
<1>1. "workflow-resume" \in TransitionType /\ "running" \in RunStatus
  BY DEF TransitionType, RunStatus
<1>2. k.resolved \cup {<<k.interrupt.phase, k.interrupt.node>>} \in SUBSET (Phases \X Nodes)
  BY Parts DEF Interrupt
<1>3. Acknowledge(k) \in Checkpoint
  BY <1>1, <1>2, Parts, Zenon DEF Acknowledge, Checkpoint
<1>4. Acknowledge(k).seq = k.seq + 1 /\ Acknowledge(k).fence = k.fence
  BY Zenon DEF Acknowledge, Checkpoint
<1> QED
  BY <1>3, <1>4 DEF Follows

\* So does the resumption of an adapter step.
LEMMA RedispatchFollows ==
  ASSUME NEW k \in Checkpoint, NEW n
  PROVE  Follows(k, Redispatch(k, n))
<1>1. "workflow-resume" \in TransitionType /\ "running" \in RunStatus
  BY DEF TransitionType, RunStatus
<1>2. [k.node EXCEPT ![n] = "pending"] \in [Nodes -> NodeStatus]
  BY Parts DEF NodeStatus
<1>3. Redispatch(k, n) \in Checkpoint
  BY <1>1, <1>2, Parts, Zenon DEF Redispatch, Checkpoint
<1>4. Redispatch(k, n).seq = k.seq + 1 /\ Redispatch(k, n).fence = k.fence
  BY Zenon DEF Redispatch, Checkpoint
<1> QED
  BY <1>3, <1>4 DEF Follows

\* So does the resumption of an agent step.
LEMMA ContinueFollows ==
  ASSUME NEW k \in Checkpoint, NEW n, NEW s \in {"completed", "suspended"}
  PROVE  Follows(k, Continue(k, n, s))
<1>1. "workflow-resume" \in TransitionType /\ (IF s = "suspended" THEN "suspended" ELSE "running") \in RunStatus
  BY DEF TransitionType, RunStatus
<1>2. [k.node EXCEPT ![n] = s] \in [Nodes -> NodeStatus]
  BY Parts DEF NodeStatus
<1>3. Continue(k, n, s) \in Checkpoint
  BY <1>1, <1>2, Parts, Zenon DEF Continue, Checkpoint
<1>4. Continue(k, n, s).seq = k.seq + 1 /\ Continue(k, n, s).fence = k.fence
  BY Zenon DEF Continue, Checkpoint
<1> QED
  BY <1>3, <1>4 DEF Follows

\* So does a cancellation.
LEMMA CancelFollows ==
  ASSUME NEW k \in Checkpoint
  PROVE  Follows(k, Cancel(k))
<1>1. "workflow-cancelled" \in TransitionType /\ "cancelled" \in RunStatus
  BY DEF TransitionType, RunStatus
<1>2. [n \in Nodes |-> CASE k.node[n] \in {"running", "suspended"} -> "cancelled"
                          [] k.node[n] = "pending" -> "skipped"
                          [] OTHER -> k.node[n]] \in [Nodes -> NodeStatus]
  BY Parts DEF NodeStatus
<1>3. Cancel(k) \in Checkpoint
  BY <1>1, <1>2, Parts, Zenon DEF Cancel, Checkpoint
<1>4. Cancel(k).seq = k.seq + 1 /\ Cancel(k).fence = k.fence
  BY Zenon DEF Cancel, Checkpoint
<1> QED
  BY <1>3, <1>4 DEF Follows

\* Stamping a candidate with a fencing token changes nothing else.
LEMMA StampType ==
  ASSUME NEW k \in Checkpoint, NEW token \in Nat
  PROVE  /\ Stamp(k, token) \in Checkpoint /\ Stamp(k, token).seq = k.seq
         /\ Stamp(k, token).fence = IF token = 0 THEN k.fence ELSE token
<1>1. [k EXCEPT !.fence = token] \in Checkpoint
  BY Zenon DEF Checkpoint
<1>2. [k EXCEPT !.fence = token].seq = k.seq /\ [k EXCEPT !.fence = token].fence = token
  BY Zenon DEF Checkpoint
<1> QED
  BY <1>1, <1>2 DEF Stamp

\* A run starts with a checkpoint numbered 0 ...
LEMMA InitialType == Initial \in Checkpoint /\ Initial.seq = 0
BY DEF Initial, Checkpoint, RunStatus, NodeStatus, Decision, TransitionType

\* ... and so does a fork.
LEMMA ForkType ==
  ASSUME NEW k \in Checkpoint
  PROVE  Fork(k) \in Checkpoint /\ Fork(k).seq = 0
<1>1. "workflow-fork" \in TransitionType /\ "running" \in RunStatus /\ 0 \in Nat
  BY DEF TransitionType, RunStatus
<1>2. [n \in Nodes |-> IF k.node[n] \in {"running", "suspended"} THEN "pending" ELSE k.node[n]]
        \in [Nodes -> NodeStatus]
  BY Parts DEF NodeStatus
<1>3. Fork(k) \in Checkpoint
  BY <1>1, <1>2, Parts, Zenon DEF Fork, Checkpoint
<1>4. Fork(k).seq = 0
  BY Zenon DEF Fork, Checkpoint
<1> QED
  BY <1>3, <1>4

-----------------------------------------------------------------------------
(* The inductive invariant *)

\* The newest checkpoint of a run is numbered by the length of its history,
\* so the checkpoint that follows what a caller holds closes no gap.
Numbered == \A r \in Runs : Exists(r) => Newest(r).seq = Len(history[r]) - 1

\* A caller about to create a run is the only one, and nothing is stored yet.
Creating ==
  \A c \in Callers : pc[c] = "create" =>
    /\ ~Exists(run[c]) /\ ck[c].seq = 0
    /\ \A d \in Callers : pc[d] = "create" /\ run[d] = run[c] => d = c

\* Any other caller works on a stored run.
Working == \A c \in Callers : pc[c] \notin {"idle", "create", "unwind"} => Exists(run[c])

\* A wave has a next node as long as it is being recorded: the first of the
\* nodes to start, or of the outcomes to settle, exists.
WaveOpenAt(label, t) ==
  /\ label = "start" => \E n \in Nodes : t[n] = "ready"
  /\ label = "exec" => \E n \in Nodes : t[n] \in {"started", "active"} \cup Outcomes
  /\ label = "settle" => \E n \in Nodes : t[n] \in Outcomes

WaveOpen == \A c \in Callers : WaveOpenAt(pc[c], task[c])

\* A caller that is to claim the lease knows what for.
Claiming == \A c \in Callers : pc[c] \in {"create", "claim"} => op[c] # "none"

Inv == TypeOK /\ Claiming /\ Numbered /\ Creating /\ Working /\ WaveOpen

-----------------------------------------------------------------------------
(* What a step of a caller at work amounts to *)

\* Where a caller at work may go on.
Onward == PCs \ {"idle", "create", "claim", "cancel"}

\* It leaves the store alone, the caller keeping its checkpoint or loading the
\* newest one, or appends what follows the caller's checkpoint ...
Records(c) ==
  \/ /\ UNCHANGED history
     /\ UNCHANGED ck \/ ck' = [ck EXCEPT ![c] = Newest(run[c])]
  \/ \E cand : Follows(ck[c], cand) /\ Commit(c, cand)

\* ... and moves it on, with a wave that is open.
Moves(c) ==
  \E label \in Onward, t \in [Nodes -> Tasks] :
    /\ pc' = [pc EXCEPT ![c] = label]
    /\ task' = [task EXCEPT ![c] = t]
    /\ WaveOpenAt(label, t)

\* It keeps the call it is in and, unless it claims it, the lease.
Keeps(c) ==
  /\ UNCHANGED <<key, op, run, idem, ack>>
  /\ Claim(c) \/ UNCHANGED <<fence, standing, guard>>
  /\ fence' \in [Runs -> Nat]
  /\ standing' \in [Runs -> {"free", "held", "lapsed"}]
  /\ guard' \in [Callers -> Nat]
  /\ lost' \in [Callers -> BOOLEAN]
  /\ ran' \in [Runs -> SUBSET (Nodes \X Nat \X Callers)]
  /\ calls' \in Int /\ crashes' \in Nat /\ faults' \in Nat

Advances(c) ==
  pc[c] \notin {"idle", "create", "unwind"} /\ Records(c) /\ Moves(c) /\ Keeps(c)

\* What every step does to the store, in the words of RunLog.
LogStep == Log!Next \/ UNCHANGED Log!vars

\* Such a step preserves the invariant and appends in order.
LEMMA AdvancePreserves ==
  ASSUME Inv, NEW c \in Callers, Advances(c)
  PROVE  Inv' /\ LogStep
<1> USE DEF Inv
<1> DEFINE r == run[c]
<1>1. r \in Runs /\ Exists(r)
  BY DEF Advances, Working, TypeOK
<1>2. history \in [Runs -> Seq(Checkpoint)]
  BY DEF TypeOK
<1>3. /\ history' \in [Runs -> Seq(Checkpoint)] /\ Numbered' /\ LogStep
      /\ \A s \in Runs : Exists(s)' <=> Exists(s)
  <2>1. CASE UNCHANGED history
    <3>1. UNCHANGED Log!vars
      BY <2>1 DEF Advances, Keeps, Log!vars
    <3> QED
      BY <1>2, <2>1, <3>1 DEF Numbered, Newest, Exists, LogStep
  <2>2. CASE \E cand : Follows(ck[c], cand) /\ Commit(c, cand)
    <3> PICK cand : Follows(ck[c], cand) /\ Commit(c, cand)
      BY <2>2
    <3> DEFINE k == Stamp(cand, guard[c])
    <3>1. history' = [history EXCEPT ![r] = Append(@, k)]
      BY DEF Commit
    <3>2. CanAppend(c)
      BY DEF Commit
    <3>3. k \in Checkpoint /\ k.seq = Len(history[r])
      <4>1. cand \in Checkpoint /\ cand.seq = Len(history[r])
        BY <1>1, <1>2, <3>2 DEF Follows, CanAppend, Numbered
      <4>2. guard[c] \in Nat
        BY DEF TypeOK
      <4> QED
        BY <4>1, <4>2, StampType
    <3> HIDE DEF k
    <3>4. /\ history' \in [Runs -> Seq(Checkpoint)]
          /\ history'[r] = Append(history[r], k)
          /\ \A s \in Runs \ {r} : history'[s] = history[s]
      BY <1>1, <1>2, <3>1, <3>3
    <3>5. Len(history'[r]) = Len(history[r]) + 1 /\ history'[r][Len(history[r]) + 1] = k
      BY <1>1, <1>2, <3>3, <3>4
    <3>6. \A s \in Runs : Exists(s)' <=> Exists(s)
      BY <1>1, <1>2, <3>4, <3>5 DEF Exists
    <3>7. Numbered'
      <4> SUFFICES ASSUME NEW s \in Runs, Exists(s)'
                   PROVE  Newest(s)'.seq = Len(history'[s]) - 1
        BY DEF Numbered
      <4>1. CASE s = r
        <5>1. Newest(s)' = k
          BY <3>5, <4>1 DEF Newest
        <5>2. Len(history[r]) \in Nat
          BY <1>1, <1>2
        <5> QED
          BY <3>3, <3>5, <4>1, <5>1, <5>2
      <4>2. CASE s # r
        BY <3>4, <3>6, <4>2 DEF Numbered, Newest
      <4> QED
        BY <4>1, <4>2
    <3>8. Log!Extends(r)
      BY <3>1, <3>3, <3>5 DEF Log!Extends
    <3>9. Log!Extend(r)
      BY <1>1, <3>2, <3>8 DEF Advances, Keeps, Log!Extend, Log!Newest, CanAppend, Exists, Newest
    <3> QED
      BY <1>1, <3>4, <3>6, <3>7, <3>9 DEF LogStep, Log!Next
  <2> QED
    BY <2>1, <2>2 DEF Advances, Records
<1>4. PICK label \in Onward, t \in [Nodes -> Tasks] :
        /\ pc' = [pc EXCEPT ![c] = label]
        /\ task' = [task EXCEPT ![c] = t]
        /\ WaveOpenAt(label, t)
  BY DEF Advances, Moves
<1>5. PICK k \in Checkpoint : ck' = [ck EXCEPT ![c] = k]
  <2>1. CASE UNCHANGED ck
    <3>1. ck[c] \in Checkpoint /\ ck' = [ck EXCEPT ![c] = ck[c]]
      BY <2>1 DEF TypeOK
    <3> QED
      BY <3>1
  <2>2. CASE ck' = [ck EXCEPT ![c] = Newest(r)]
    <3>1. Newest(r) \in Checkpoint
      BY <1>1, <1>2 DEF Newest, Exists
    <3> QED
      BY <2>2, <3>1
  <2>3. CASE \E cand : Follows(ck[c], cand) /\ Commit(c, cand)
    <3> PICK cand : Follows(ck[c], cand) /\ Commit(c, cand)
      BY <2>3
    <3>1. Stamp(cand, guard[c]) \in Checkpoint
      BY StampType DEF Follows, TypeOK
    <3> QED
      BY <3>1 DEF Commit
  <2> QED
    BY <2>1, <2>2, <2>3 DEF Advances, Records
<1>6. TypeOK'
  BY <1>3, <1>4, <1>5 DEF TypeOK, Advances, Keeps, Onward
<1>7. pc'[c] = label /\ task'[c] = t
  BY <1>4 DEF TypeOK
<1>8. \A d \in Callers \ {c} : pc'[d] = pc[d] /\ task'[d] = task[d] /\ ck'[d] = ck[d]
  BY <1>4, <1>5 DEF TypeOK
<1>9. run' = run /\ run \in [Callers -> Runs]
  BY DEF Advances, Keeps, TypeOK
<1>10. Creating'
  <2>1. label # "create"
    BY DEF Onward
  <2>2. SUFFICES ASSUME NEW d \in Callers, pc'[d] = "create"
                 PROVE  /\ ~Exists(run[d])' /\ ck'[d].seq = 0
                        /\ \A e \in Callers : pc'[e] = "create" /\ run'[e] = run'[d] => e = d
    BY DEF Creating
  <2>3. d # c /\ pc[d] = "create" /\ ck'[d] = ck[d]
    BY <1>7, <1>8, <2>1, <2>2
  <2>4. ~Exists(run[d])'
    BY <1>3, <1>9, <2>3 DEF Creating, Exists
  <2>5. \A e \in Callers : pc'[e] = "create" => pc[e] = "create"
    BY <1>7, <1>8, <2>1
  <2> QED
    BY <1>9, <2>3, <2>4, <2>5 DEF Creating
<1>11. Working'
  BY <1>1, <1>3, <1>7, <1>8, <1>9 DEF Working, Onward
<1>12. WaveOpen'
  BY <1>4, <1>7, <1>8, Zenon DEF WaveOpen
<1>13. Claiming'
  BY <1>7, <1>8 DEF Claiming, Onward, Advances, Keeps
<1> QED
  BY <1>3, <1>6, <1>10, <1>11, <1>12, <1>13

-----------------------------------------------------------------------------
(* The parts of a caller's step *)

AtWork(c) == pc[c] \notin {"idle", "create", "unwind"}

Quiet == Onward \ {"start", "exec", "settle"}

\* Going on without touching the wave.
LEMMA GotoMoves ==
  ASSUME Inv, NEW c \in Callers, NEW label \in Quiet, Goto(c, label), UNCHANGED task
  PROVE  Moves(c)
<1>1. task[c] \in [Nodes -> Tasks] /\ task' = [task EXCEPT ![c] = task[c]]
  BY DEF Inv, TypeOK
<1>2. WaveOpenAt(label, task[c])
  BY DEF Quiet, WaveOpenAt
<1> QED
  BY <1>1, <1>2 DEF Moves, Goto, Quiet

\* Going on with a new wave, or none.
LEMMA WaveMoves ==
  ASSUME NEW c \in Callers, NEW label \in Onward, Goto(c, label),
         NEW t \in [Nodes -> Tasks], task' = [task EXCEPT ![c] = t], WaveOpenAt(label, t)
  PROVE  Moves(c)
BY DEF Moves, Goto

\* A step that touches neither the store nor the lease.
Loads(c) == UNCHANGED ck \/ ck' = [ck EXCEPT ![c] = Newest(run[c])]

LEMMA LocallyKeeps ==
  ASSUME Inv, Locally, NEW c \in Callers, Loads(c), lost' \in [Callers -> BOOLEAN],
         ran' \in [Runs -> SUBSET (Nodes \X Nat \X Callers)]
  PROVE  Records(c) /\ Keeps(c)
BY DEF Inv, TypeOK, Locally, Loads, Records, Keeps, store, lease, bounds

\* An accepted append of what follows the checkpoint in hand.
LEMMA CommitKeeps ==
  ASSUME Inv, NEW c \in Callers, NEW cand, Follows(ck[c], cand), Commit(c, cand)
  PROVE  Records(c) /\ Keeps(c)
<1>1. Records(c)
  BY DEF Records
<1>2. Keeps(c)
  BY DEF Commit, Keeps, Inv, TypeOK, lease, bounds
<1> QED
  BY <1>1, <1>2

\* A refused append.
LEMMA RefusedAdvances ==
  ASSUME Inv, NEW c \in Callers, AtWork(c), NEW label \in Quiet, Refused(c, label)
  PROVE  Advances(c)
<1>1. Moves(c)
  BY GotoMoves DEF Refused
<1>2. Records(c) /\ Keeps(c)
  BY DEF Inv, TypeOK, Refused, Records, Keeps, store, lease, bounds
<1> QED
  BY <1>1, <1>2 DEF Advances, AtWork

\* A local step that goes on.
LEMMA LocalAdvances ==
  ASSUME Inv, NEW c \in Callers, AtWork(c), Locally, UNCHANGED <<lost, ran>>, Loads(c), Moves(c)
  PROVE  Advances(c)
<1>1. lost' \in [Callers -> BOOLEAN] /\ ran' \in [Runs -> SUBSET (Nodes \X Nat \X Callers)]
  BY DEF Inv, TypeOK
<1> QED
  BY <1>1, LocallyKeeps DEF Advances, AtWork

\* The last append of a call.
LEMMA CommitLastAdvances ==
  ASSUME Inv, NEW c \in Callers, AtWork(c), NEW cand, Follows(ck[c], cand), CommitLast(c, cand)
  PROVE  Advances(c)
<1>1. "unwind" \in Quiet
  BY DEF Quiet, Onward, PCs
<1>2. CASE Commit(c, cand) /\ Goto(c, "unwind") /\ UNCHANGED task
  BY <1>1, <1>2, CommitKeeps, GotoMoves DEF Advances, AtWork
<1>3. CASE Refused(c, "unwind")
  BY <1>1, <1>3, RefusedAdvances
<1> QED
  BY <1>2, <1>3 DEF CommitLast

-----------------------------------------------------------------------------
(* The steps of a caller at work, one by one *)

\* The checkpoint in hand, and the labels a step may go on to.
LEMMA InHand ==
  ASSUME Inv, NEW c \in Callers
  PROVE  ck[c] \in Checkpoint /\ run[c] \in Runs /\ task[c] \in [Nodes -> Tasks]
BY DEF Inv, TypeOK

LEMMA Labels ==
  {"unwind", "abort", "plan", "loop", "recover-append", "resume-append", "reroute", "close"} \subseteq Quiet
BY DEF Quiet, Onward, PCs

LEMMA RecoverLoadAdvances ==
  ASSUME Inv, NEW c \in Callers, RecoverLoad(c)
  PROVE  Advances(c)
<1>1. AtWork(c)
  BY DEF RecoverLoad, AtWork
<1>2. Loads(c)
  BY DEF Loads, RecoverLoad
<1>3. Moves(c)
  BY Labels, GotoMoves DEF RecoverLoad
<1> QED
  BY <1>1, <1>2, <1>3, LocalAdvances DEF Loads, RecoverLoad

LEMMA RecoverAppendAdvances ==
  ASSUME Inv, NEW c \in Callers, RecoverAppend(c)
  PROVE  Advances(c)
<1>1. AtWork(c)
  BY DEF RecoverAppend, AtWork
<1>2. Follows(ck[c], Recover(ck[c]))
  BY InHand, RecoverFollows
<1>3. CASE Commit(c, Recover(ck[c])) /\ Goto(c, "loop") /\ UNCHANGED task
  BY <1>1, <1>2, <1>3, Labels, CommitKeeps, GotoMoves DEF Advances, AtWork
<1>4. CASE Refused(c, "unwind")
  BY <1>1, <1>4, Labels, RefusedAdvances
<1> QED
  BY <1>3, <1>4 DEF RecoverAppend

LEMMA ResumeLoadAdvances ==
  ASSUME Inv, NEW c \in Callers, ResumeLoad(c)
  PROVE  Advances(c)
<1>1. AtWork(c)
  BY DEF ResumeLoad, AtWork
<1>2. Loads(c)
  BY DEF Loads, ResumeLoad
<1>3. Moves(c)
  BY Labels, GotoMoves DEF ResumeLoad
<1> QED
  BY <1>1, <1>2, <1>3, LocalAdvances DEF Loads, ResumeLoad

\* An accepted resumption, whose remaining edges are routed next.
LEMMA ResumeWithAdvances ==
  ASSUME Inv, NEW c \in Callers, AtWork(c), NEW cand, Follows(ck[c], cand), ResumeWith(c, cand)
  PROVE  Advances(c)
<1>1. Records(c) /\ Keeps(c)
  BY CommitKeeps DEF ResumeWith
<1>2. Moves(c)
  <2>1. CASE cand.status = "suspended"
    BY <2>1, Labels, GotoMoves DEF ResumeWith
  <2>2. CASE cand.status # "suspended"
    <3>1. EdgesLeft(cand) \in [Nodes -> Tasks]
      BY DEF EdgesLeft, Tasks
    <3>2. "reroute" \in Onward /\ WaveOpenAt("reroute", EdgesLeft(cand))
      BY DEF Onward, PCs, WaveOpenAt
    <3> QED
      BY <2>2, <3>1, <3>2, WaveMoves, Zenon DEF ResumeWith
  <2> QED
    BY <2>1, <2>2
<1> QED
  BY <1>1, <1>2 DEF Advances, AtWork

LEMMA ResumeAppendAdvances ==
  ASSUME Inv, NEW c \in Callers, ResumeAppend(c)
  PROVE  Advances(c)
<1>1. AtWork(c)
  BY DEF ResumeAppend, AtWork
<1>2. CASE ck[c].interrupt # NoInterrupt /\ ResumeWith(c, Acknowledge(ck[c]))
  BY <1>1, <1>2, InHand, AcknowledgeFollows, ResumeWithAdvances
<1>3. CASE Commit(c, Redispatch(ck[c], ack[c].named)) /\ Goto(c, "loop") /\ UNCHANGED task
  BY <1>1, <1>3, InHand, RedispatchFollows, Labels, CommitKeeps, GotoMoves DEF Advances, AtWork
<1>4. CASE \E s \in Results[ack[c].named] \cap {"completed", "suspended"} :
             ResumeWith(c, Continue(ck[c], ack[c].named, s))
  BY <1>1, <1>4, InHand, ContinueFollows, ResumeWithAdvances
<1>5. CASE Goto(c, "unwind") /\ UNCHANGED <<ck, task, lost, ran>> /\ Locally
  BY <1>1, <1>5, Labels, GotoMoves, LocalAdvances DEF Loads
<1>6. CASE Refused(c, "unwind")
  BY <1>1, <1>6, Labels, RefusedAdvances
<1> QED
  BY <1>2, <1>3, <1>4, <1>5, <1>6 DEF ResumeAppend

\* A wave whose nodes need not be open any more.
LEMMA SetTaskMoves ==
  ASSUME Inv, NEW c \in Callers, NEW n \in Nodes, NEW x \in Tasks, SetTask(c, n, x),
         NEW label \in Onward, Goto(c, label),
         WaveOpenAt(label, [task[c] EXCEPT ![n] = x])
  PROVE  Moves(c)
<1>1. [task[c] EXCEPT ![n] = x] \in [Nodes -> Tasks]
  BY InHand
<1>2. task' = [task EXCEPT ![c] = [task[c] EXCEPT ![n] = x]]
  BY DEF SetTask
<1> QED
  BY <1>1, <1>2, WaveMoves, Zenon

\* The edges of a node of the wave.
LEMMA RouteAdvances ==
  ASSUME Inv, NEW c \in Callers, pc[c] \in {"reroute", "close"}, NEW n \in Nodes,
         NEW bad \in {"unwind", "abort"}, Route(c, n, bad)
  PROVE  Advances(c)
<1>1. AtWork(c)
  BY DEF AtWork
<1>2. bad \in Quiet
  BY Labels
<1>3. SetTask(c, n, "routed") /\ UNCHANGED pc => Moves(c)
  <2>1. "routed" \in Tasks /\ pc[c] \in Onward
    BY DEF Tasks, Onward, PCs
  <2>2. UNCHANGED pc => Goto(c, pc[c])
    BY DEF Inv, TypeOK, Goto
  <2>3. WaveOpenAt(pc[c], [task[c] EXCEPT ![n] = "routed"])
    BY DEF WaveOpenAt
  <2> QED
    BY <2>1, <2>2, <2>3, SetTaskMoves
<1>4. CASE SetTask(c, n, "routed") /\ UNCHANGED <<pc, ck, lost, ran>> /\ Locally
  BY <1>1, <1>3, <1>4, LocalAdvances DEF Loads
<1>5. CASE /\ \E choice \in Choices(ck[c], n) : Commit(c, Decide(ck[c], choice))
           /\ SetTask(c, n, "routed") /\ UNCHANGED pc
  BY <1>1, <1>3, <1>5, InHand, DecideFollows, CommitKeeps DEF Advances, AtWork
<1>6. CASE Goto(c, bad) /\ UNCHANGED <<ck, task, lost, ran>> /\ Locally
  BY <1>1, <1>2, <1>6, GotoMoves, LocalAdvances DEF Loads
<1>7. CASE Refused(c, bad)
  BY <1>1, <1>2, <1>7, RefusedAdvances
<1> QED
  BY <1>4, <1>5, <1>6, <1>7 DEF Route

LEMMA RerouteAdvances ==
  ASSUME Inv, NEW c \in Callers, Reroute(c)
  PROVE  Advances(c)
<1>1. AtWork(c)
  BY DEF Reroute, AtWork
<1>2. CASE \E n \in Tasked(c, {"edges"}) : Route(c, n, "unwind")
  BY <1>2, RouteAdvances DEF Reroute, Tasked
<1>3. CASE Goto(c, "loop") /\ task' = [task EXCEPT ![c] = NoTasks] /\ UNCHANGED <<ck, lost, ran>> /\ Locally
  <2>1. NoTasks \in [Nodes -> Tasks] /\ "loop" \in Onward /\ WaveOpenAt("loop", NoTasks)
    BY DEF NoTasks, Tasks, Onward, PCs, WaveOpenAt
  <2>2. Moves(c)
    BY <1>3, <2>1, WaveMoves, Zenon
  <2> QED
    BY <1>1, <1>3, <2>2, LocalAdvances DEF Loads
<1> QED
  BY <1>2, <1>3 DEF Reroute

LEMMA ClaimAdvances ==
  ASSUME Inv, NEW c \in Callers, Claim(c)
  PROVE  Advances(c)
<1>1. AtWork(c)
  BY DEF Claim, AtWork
<1>2. Loads(c)
  BY DEF Loads, Claim
<1>3. Moves(c)
  <2>1. op[c] \in {"execute", "recover", "resume"}
    BY DEF Inv, TypeOK, Claiming, Claim
  <2>2. {"loop", "unwind", "recover", "resume"} \subseteq Quiet
    BY DEF Quiet, Onward, PCs
  <2>3. \E label \in Quiet : Goto(c, label)
    BY <2>1, <2>2 DEF Claim
  <2> QED
    BY <2>3, GotoMoves DEF Claim
<1>4. Records(c)
  BY DEF Claim, Records, store
<1>5. UNCHANGED <<fence, standing, guard, lost>> => Keeps(c)
  BY DEF Claim, Keeps, Inv, TypeOK, store
<1>6. CASE UNCHANGED <<fence, standing, guard, lost>>
  BY <1>1, <1>2, <1>3, <1>4, <1>5, <1>6 DEF Advances, AtWork
<1>7. CASE ~UNCHANGED <<fence, standing, guard, lost>>
  <2>1. /\ fence' = [fence EXCEPT ![run[c]] = fence[run[c]] + 1]
        /\ standing' = [standing EXCEPT ![run[c]] = "held"]
        /\ guard' = [guard EXCEPT ![c] = fence[run[c]] + 1]
        /\ lost' = [lost EXCEPT ![c] = FALSE]
        /\ calls' = calls
    BY <1>7 DEF Claim, NextToken, lease
  <2>2. Keeps(c)
    BY <2>1 DEF Claim, Keeps, Inv, TypeOK, store
  <2> QED
    BY <1>1, <1>2, <1>3, <1>4, <2>2 DEF Advances, AtWork
<1> QED
  BY <1>6, <1>7

LEMMA LoopTopAdvances ==
  ASSUME Inv, NEW c \in Callers, LoopTop(c)
  PROVE  Advances(c)
<1>1. AtWork(c) /\ Loads(c)
  BY DEF Loads, LoopTop, AtWork
<1>2. Moves(c)
  BY Labels, GotoMoves DEF LoopTop
<1>3. lost' \in [Callers -> BOOLEAN] /\ ran' \in [Runs -> SUBSET (Nodes \X Nat \X Callers)]
  <2>1. (lost[c] \/ LeaseBad(c)) \in BOOLEAN /\ lost' = [lost EXCEPT ![c] = lost[c] \/ LeaseBad(c)]
    BY Zenon DEF LoopTop
  <2> QED
    BY <2>1 DEF LoopTop, Inv, TypeOK
<1> QED
  BY <1>1, <1>2, <1>3, LocallyKeeps DEF Advances, AtWork, LoopTop

LEMMA SkipNodeAdvances ==
  ASSUME Inv, NEW c \in Callers, SkipNode(c)
  PROVE  Advances(c)
<1>1. AtWork(c) /\ "plan" \in Quiet
  BY Labels DEF SkipNode, AtWork
<1>2. PICK n \in Nodes : \/ Commit(c, Skip(ck[c], n)) /\ UNCHANGED <<pc, task>>
                         \/ Refused(c, "unwind")
  BY DEF SkipNode, Skippable, InStatus
<1>3. CASE Commit(c, Skip(ck[c], n)) /\ UNCHANGED <<pc, task>>
  <2>1. Goto(c, "plan")
    BY <1>3 DEF SkipNode, Goto, Inv, TypeOK
  <2> QED
    BY <1>1, <1>3, <2>1, InHand, SkipFollows, CommitKeeps, GotoMoves DEF Advances, AtWork
<1>4. CASE Refused(c, "unwind")
  BY <1>1, <1>4, Labels, RefusedAdvances
<1> QED
  BY <1>2, <1>3, <1>4

LEMMA ReturnSuspendedAdvances ==
  ASSUME Inv, NEW c \in Callers, ReturnSuspended(c)
  PROVE  Advances(c)
BY Labels, GotoMoves, LocalAdvances DEF Loads, ReturnSuspended, AtWork

LEMMA SuspendBeforeAdvances ==
  ASSUME Inv, NEW c \in Callers, SuspendBefore(c)
  PROVE  Advances(c)
<1>1. First(Blocked(ck[c])) \in Nodes
  BY FirstIsMember DEF SuspendBefore, Blocked, Ready, InStatus
<1>2. "before" \in Phases
  BY DEF Phases
<1> QED
  BY <1>1, <1>2, InHand, SuspendFollows, CommitLastAdvances DEF SuspendBefore, Planning, AtWork

LEMMA ConcludeAdvances ==
  ASSUME Inv, NEW c \in Callers, Conclude(c)
  PROVE  Advances(c)
<1>1. AtWork(c)
  BY DEF Conclude, Planning, AtWork
<1>2. FinalStatus(ck[c]) \in RunStatus
  BY DEF FinalStatus, RunStatus
<1>3. CASE Goto(c, "unwind") /\ UNCHANGED <<ck, task, lost, ran>> /\ Locally
  BY <1>1, <1>3, Labels, GotoMoves, LocalAdvances DEF Loads
<1>4. CASE CommitLast(c, FinishRun(ck[c], FinalStatus(ck[c])))
  BY <1>1, <1>2, <1>4, InHand, FinishRunFollows, CommitLastAdvances
<1> QED
  BY <1>3, <1>4 DEF Conclude

LEMMA BeginWaveAdvances ==
  ASSUME Inv, NEW c \in Callers, BeginWave(c)
  PROVE  Advances(c)
<1> DEFINE t == [n \in Nodes |-> IF n \in Ready(ck[c]) THEN "ready" ELSE "none"]
<1>1. AtWork(c) /\ Loads(c)
  BY DEF Loads, BeginWave, Planning, AtWork
<1>2. t \in [Nodes -> Tasks] /\ "start" \in Onward
  BY DEF Tasks, Onward, PCs
<1>3. WaveOpenAt("start", t)
  BY DEF BeginWave, Ready, InStatus, WaveOpenAt
<1>4. Moves(c)
  BY <1>2, <1>3, WaveMoves, Zenon DEF BeginWave
<1> QED
  BY <1>1, <1>4, LocalAdvances DEF Loads, BeginWave

LEMMA StartNodeAdvances ==
  ASSUME Inv, NEW c \in Callers, StartNode(c)
  PROVE  Advances(c)
<1> DEFINE n == First(Tasked(c, {"ready"}))
<1>1. AtWork(c)
  BY DEF StartNode, AtWork
<1>2. n \in Nodes
  BY FirstIsMember DEF Inv, WaveOpen, WaveOpenAt, StartNode, Tasked
<1> HIDE DEF n
<1>3. CASE /\ Commit(c, Start(ck[c], n))
           /\ SetTask(c, n, "started")
           /\ Goto(c, IF Tasked(c, {"ready"}) = {n} THEN "exec" ELSE "start")
  <2>1. "started" \in Tasks /\ {"start", "exec"} \subseteq Onward
    BY DEF Tasks, Onward, PCs
  <2>2. WaveOpenAt("exec", [task[c] EXCEPT ![n] = "started"])
    BY <1>2, InHand DEF WaveOpenAt
  <2>3. Tasked(c, {"ready"}) # {n} => WaveOpenAt("start", [task[c] EXCEPT ![n] = "started"])
    <3>1. \E m \in Nodes : task[c][m] = "ready"
      BY DEF Inv, WaveOpen, WaveOpenAt, StartNode
    <3>2. Tasked(c, {"ready"}) # {n} => \E m \in Nodes \ {n} : task[c][m] = "ready"
      BY <1>2, <3>1 DEF Tasked
    <3> QED
      BY <3>2, InHand DEF WaveOpenAt
  <2>4. Moves(c)
    BY <1>2, <1>3, <2>1, <2>2, <2>3, SetTaskMoves
  <2> QED
    BY <1>1, <1>2, <1>3, <2>4, InHand, StartFollows, CommitKeeps DEF Advances, AtWork
<1>4. CASE Refused(c, "unwind")
  BY <1>1, <1>4, Labels, RefusedAdvances
<1> QED
  BY <1>3, <1>4 DEF StartNode, n

LEMMA DispatchAdvances ==
  ASSUME Inv, NEW c \in Callers, NEW n \in Nodes, Dispatch(c, n)
  PROVE  Advances(c)
<1> DEFINE x == IF LeaseBad(c) THEN "failed" ELSE "active"
<1>1. AtWork(c) /\ Loads(c) /\ pc[c] = "exec"
  BY DEF Loads, Dispatch, MayDispatch, AtWork
<1>2. Moves(c)
  <2>1. x \in Tasks /\ "exec" \in Onward
    BY DEF Tasks, Outcomes, Onward, PCs
  <2>2. WaveOpenAt("exec", [task[c] EXCEPT ![n] = x])
    BY InHand DEF WaveOpenAt, Outcomes
  <2>3. SetTask(c, n, x) /\ Goto(c, "exec")
    BY <1>1 DEF Dispatch, Goto, Inv, TypeOK
  <2> HIDE DEF x
  <2> QED
    BY <2>1, <2>2, <2>3, SetTaskMoves
<1>3. lost' \in [Callers -> BOOLEAN]
  <2>1. (lost[c] \/ LeaseBad(c)) \in BOOLEAN /\ lost' = [lost EXCEPT ![c] = lost[c] \/ LeaseBad(c)]
    BY Zenon DEF Dispatch
  <2> QED
    BY <2>1 DEF Inv, TypeOK
<1>4. ran' \in [Runs -> SUBSET (Nodes \X Nat \X Callers)]
  <2>1. ck[c].attempt[n] \in Nat
    BY InHand, Parts
  <2> QED
    BY <2>1 DEF Dispatch, Inv, TypeOK
<1> QED
  BY <1>1, <1>2, <1>3, <1>4, LocallyKeeps DEF Advances, AtWork, Dispatch

LEMMA ReturnAdvances ==
  ASSUME Inv, NEW c \in Callers, NEW n \in Nodes, Return(c, n)
  PROVE  Advances(c)
<1>1. AtWork(c) /\ Loads(c) /\ pc[c] = "exec"
  BY DEF Loads, Return, AtWork
<1>2. PICK o \in Results[n] : SetTask(c, n, o)
  BY DEF Return
<1>3. o \in Outcomes
  BY EngineAssumption
<1>4. o \in Tasks /\ "exec" \in Onward
  BY <1>3 DEF Tasks, Onward, PCs
<1>5. WaveOpenAt("exec", [task[c] EXCEPT ![n] = o])
  <2>1. [task[c] EXCEPT ![n] = o][n] = o
    BY InHand
  <2> QED
    BY <1>3, <2>1, Zenon DEF WaveOpenAt
<1>6. Goto(c, "exec")
  BY <1>1 DEF Return, Goto, Inv, TypeOK
<1>7. Moves(c)
  BY <1>2, <1>4, <1>5, <1>6, SetTaskMoves
<1> QED
  BY <1>1, <1>7, LocalAdvances DEF Loads, Return

LEMMA GatherAdvances ==
  ASSUME Inv, NEW c \in Callers, Gather(c)
  PROVE  Advances(c)
<1>1. AtWork(c) /\ Loads(c)
  BY DEF Loads, Gather, AtWork
<1>2. CASE Goto(c, "unwind")
  BY <1>1, <1>2, Labels, GotoMoves, LocalAdvances DEF Loads, Gather
<1>3. CASE Goto(c, "settle")
  <2>1. WaveOpenAt("settle", task[c])
    BY DEF Gather, Inv, WaveOpen, WaveOpenAt, Tasked
  <2>2. "settle" \in Onward /\ task' = [task EXCEPT ![c] = task[c]]
    BY DEF Gather, Onward, PCs, Inv, TypeOK
  <2>3. Moves(c)
    BY <1>3, <2>1, <2>2, InHand, WaveMoves, Zenon
  <2> QED
    BY <1>1, <2>3, LocalAdvances DEF Loads, Gather
<1> QED
  BY <1>2, <1>3 DEF Gather

\* Recording an outcome closes the wave with the last one.
LEMMA SettleMoves ==
  ASSUME Inv, NEW c \in Callers, pc[c] = "settle", NEW n \in Nodes,
         NEW x \in Tasks \ Outcomes, SetTask(c, n, x),
         Goto(c, IF Tasked(c, Outcomes) = {n} THEN "close" ELSE "settle")
  PROVE  Moves(c)
<1>1. {"close", "settle"} \subseteq Onward
  BY DEF Onward, PCs
<1>2. WaveOpenAt("close", [task[c] EXCEPT ![n] = x])
  BY DEF WaveOpenAt
<1>3. Tasked(c, Outcomes) # {n} => WaveOpenAt("settle", [task[c] EXCEPT ![n] = x])
  <2>1. \E m \in Nodes : task[c][m] \in Outcomes
    BY DEF Inv, WaveOpen, WaveOpenAt
  <2>2. Tasked(c, Outcomes) # {n} => \E m \in Nodes \ {n} : task[c][m] \in Outcomes
    BY <2>1 DEF Tasked
  <2> QED
    BY <2>2, InHand DEF WaveOpenAt
<1> QED
  BY <1>1, <1>2, <1>3, SetTaskMoves

LEMMA SettleAdvances ==
  ASSUME Inv, NEW c \in Callers, Settle(c)
  PROVE  Advances(c)
<1> DEFINE n == First(Tasked(c, Outcomes))
           next == IF Tasked(c, Outcomes) = {n} THEN "close" ELSE "settle"
<1>1. AtWork(c) /\ pc[c] = "settle"
  BY DEF Settle, AtWork
<1>2. n \in Nodes /\ task[c][n] \in Outcomes
  BY FirstIsMember DEF Inv, WaveOpen, WaveOpenAt, Settle, Tasked
<1>3. \/ Commit(c, Retry(ck[c], n)) /\ SetTask(c, n, "retried") /\ Goto(c, next)
      \/ /\ Commit(c, FinishNode(ck[c], n, RecordedStatus(task[c][n])))
         /\ SetTask(c, n, Fate(c, n)) /\ Goto(c, next)
      \/ Refused(c, "unwind")
  BY Zenon DEF Settle
<1> HIDE DEF n
<1>4. CASE Commit(c, Retry(ck[c], n)) /\ SetTask(c, n, "retried") /\ Goto(c, next)
  <2>1. "retried" \in Tasks \ Outcomes
    BY DEF Tasks, Outcomes
  <2>2. Moves(c)
    BY <1>1, <1>2, <1>4, <2>1, SettleMoves
  <2> QED
    BY <1>1, <1>2, <1>4, <2>2, InHand, RetryFollows, CommitKeeps DEF Advances, AtWork
<1>5. CASE /\ Commit(c, FinishNode(ck[c], n, RecordedStatus(task[c][n])))
           /\ SetTask(c, n, Fate(c, n)) /\ Goto(c, next)
  <2>1. RecordedStatus(task[c][n]) \in NodeStatus
    BY <1>2 DEF RecordedStatus, Outcomes, NodeStatus
  <2>2. Fate(c, n) \in Tasks \ Outcomes
    BY DEF Fate, Tasks, Outcomes
  <2>3. Moves(c)
    BY <1>1, <1>2, <1>5, <2>2, SettleMoves
  <2> QED
    BY <1>1, <1>2, <1>5, <2>1, <2>3, InHand, FinishNodeFollows, CommitKeeps DEF Advances, AtWork
<1>6. CASE Refused(c, "unwind")
  BY <1>1, <1>6, Labels, RefusedAdvances
<1> QED
  BY <1>3, <1>4, <1>5, <1>6

LEMMA CloseStopAdvances ==
  ASSUME Inv, NEW c \in Callers, CloseStop(c)
  PROVE  Advances(c)
<1>1. CloseStatus(c) \in RunStatus
  BY DEF CloseStatus, RunStatus
<1> QED
  BY <1>1, InHand, FinishRunFollows, CommitLastAdvances DEF CloseStop, AtWork

LEMMA CloseEdgesAdvances ==
  ASSUME Inv, NEW c \in Callers, CloseEdges(c)
  PROVE  Advances(c)
<1>1. First(Tasked(c, {"edges"})) \in Nodes
  BY FirstIsMember DEF CloseEdges, Tasked
<1> QED
  BY <1>1, RouteAdvances DEF CloseEdges

LEMMA AbortAdvances ==
  ASSUME Inv, NEW c \in Callers, Abort(c)
  PROVE  Advances(c)
<1>1. "failed" \in RunStatus
  BY DEF RunStatus
<1> QED
  BY <1>1, InHand, FinishRunFollows, CommitLastAdvances DEF Abort, AtWork

LEMMA CloseInterruptAdvances ==
  ASSUME Inv, NEW c \in Callers, CloseInterrupt(c)
  PROVE  Advances(c)
<1>1. First(Tasked(c, {"interrupt"})) \in Nodes /\ "after" \in Phases
  BY FirstIsMember DEF CloseInterrupt, Tasked, Phases
<1> QED
  BY <1>1, InHand, SuspendFollows, CommitLastAdvances DEF CloseInterrupt, AtWork

LEMMA CloseWaveAdvances ==
  ASSUME Inv, NEW c \in Callers, CloseWave(c)
  PROVE  Advances(c)
<1>1. AtWork(c) /\ Loads(c)
  BY DEF Loads, CloseWave, AtWork
<1>2. NoTasks \in [Nodes -> Tasks] /\ "loop" \in Onward /\ WaveOpenAt("loop", NoTasks)
  BY DEF NoTasks, Tasks, Onward, PCs, WaveOpenAt
<1>3. Moves(c)
  BY <1>2, WaveMoves, Zenon DEF CloseWave
<1> QED
  BY <1>1, <1>3, LocalAdvances DEF Loads, CloseWave

LEMMA CancelAppendAdvances ==
  ASSUME Inv, NEW c \in Callers, CancelAppend(c)
  PROVE  Advances(c)
BY InHand, CancelFollows, CommitLastAdvances DEF CancelAppend, AtWork

LEMMA ExecuteAdvances ==
  ASSUME Inv, NEW c \in Callers, Execute(c)
  PROVE  Advances(c)
BY LoopTopAdvances, SkipNodeAdvances, ReturnSuspendedAdvances, SuspendBeforeAdvances,
   ConcludeAdvances, BeginWaveAdvances, StartNodeAdvances, DispatchAdvances, ReturnAdvances,
   GatherAdvances, SettleAdvances, CloseStopAdvances, CloseEdgesAdvances, AbortAdvances,
   CloseInterruptAdvances, CloseWaveAdvances DEF Execute

-----------------------------------------------------------------------------
(* The other steps *)

\* A call that is to create a run: run(...) or fork_workflow(...).
LEMMA PreparePreserves ==
  ASSUME Inv, NEW c \in Callers, NEW r \in Runs, NEW k \in Keys \cup {NoKey}, NEW x \in Checkpoint,
         x.seq = 0, Begin(c), ~Exists(r), \A d \in Callers : pc[d] = "create" => run[d] # r,
         Goto(c, "create"), op' = [op EXCEPT ![c] = "execute"], run' = [run EXCEPT ![c] = r],
         idem' = [idem EXCEPT ![c] = k], ck' = [ck EXCEPT ![c] = x], UNCHANGED ack
  PROVE  Inv' /\ LogStep
<1> USE DEF Inv
<1>1. UNCHANGED <<history, key, fence, standing, task, guard, lost, ran, crashes, faults>>
  BY DEF Begin, store, lease
<1>2. "create" \in PCs /\ calls' \in Int
  BY DEF PCs, Begin, TypeOK
<1>3. TypeOK'
  BY <1>1, <1>2 DEF TypeOK, Goto
<1>4. pc'[c] = "create" /\ run'[c] = r /\ ck'[c] = x /\ op'[c] = "execute"
  BY DEF TypeOK, Goto
<1>5. \A d \in Callers \ {c} : pc'[d] = pc[d] /\ run'[d] = run[d] /\ ck'[d] = ck[d] /\ op'[d] = op[d]
  BY DEF TypeOK, Goto
<1>6. Numbered'
  BY <1>1 DEF Numbered, Newest, Exists
<1>7. Creating'
  <2> SUFFICES ASSUME NEW d \in Callers, pc'[d] = "create"
               PROVE  /\ ~Exists(run[d])' /\ ck'[d].seq = 0
                      /\ \A e \in Callers : pc'[e] = "create" /\ run'[e] = run'[d] => e = d
    BY DEF Creating
  <2>1. CASE d = c
    BY <1>1, <1>4, <1>5, <2>1 DEF Exists
  <2>2. CASE d # c
    BY <1>1, <1>4, <1>5, <2>2 DEF Creating, Exists
  <2> QED
    BY <2>1, <2>2
<1>8. Working'
  BY <1>1, <1>4, <1>5 DEF Working, Exists
<1>9. WaveOpen'
  BY <1>1, <1>4, <1>5 DEF WaveOpen, WaveOpenAt
<1>10. Claiming'
  BY <1>4, <1>5 DEF Claiming
<1>11. LogStep
  BY <1>1 DEF LogStep, Log!vars
<1> QED
  BY <1>3, <1>6, <1>7, <1>8, <1>9, <1>10, <1>11

\* A call on a stored run.
LEMMA EnterPreserves ==
  ASSUME Inv, NEW c \in Callers, NEW r \in Runs, Begin(c), Exists(r),
         NEW label \in {"claim", "cancel"}, Goto(c, label),
         NEW o \in {"none", "recover", "resume"}, op' = [op EXCEPT ![c] = o],
         label = "claim" => o # "none",
         run' = [run EXCEPT ![c] = r], UNCHANGED idem,
         ck' \in [Callers -> Checkpoint], \A d \in Callers \ {c} : ck'[d] = ck[d],
         ack' \in [Callers -> Interrupt \cup {Named(n) : n \in Nodes} \cup {NoAck}]
  PROVE  Inv' /\ LogStep
<1> USE DEF Inv
<1>1. UNCHANGED <<history, key, fence, standing, task, guard, lost, ran, crashes, faults>>
  BY DEF Begin, store, lease
<1>2. label \in PCs /\ calls' \in Int
  BY DEF PCs, Begin, TypeOK
<1>3. TypeOK'
  BY <1>1, <1>2 DEF TypeOK, Goto
<1>4. pc'[c] = label /\ run'[c] = r /\ op'[c] = o
  BY DEF TypeOK, Goto
<1>5. \A d \in Callers \ {c} : pc'[d] = pc[d] /\ run'[d] = run[d] /\ op'[d] = op[d]
  BY DEF TypeOK, Goto
<1>6. Numbered'
  BY <1>1 DEF Numbered, Newest, Exists
<1>7. Creating'
  BY <1>1, <1>4, <1>5 DEF Creating, Exists
<1>8. Working'
  BY <1>1, <1>4, <1>5 DEF Working, Exists
<1>9. WaveOpen'
  BY <1>1, <1>4, <1>5 DEF WaveOpen, WaveOpenAt
<1>10. Claiming'
  BY <1>4, <1>5 DEF Claiming
<1>11. LogStep
  BY <1>1 DEF LogStep, Log!vars
<1> QED
  BY <1>3, <1>6, <1>7, <1>8, <1>9, <1>10, <1>11

\* The stored checkpoints, and the interrupts they show, are typed.
LEMMA Stored ==
  ASSUME Inv, NEW r \in Runs
  PROVE  /\ \A i \in 1..Len(history[r]) : history[r][i] \in Checkpoint
         /\ Exists(r) => Newest(r) \in Checkpoint
<1>1. history[r] \in Seq(Checkpoint)
  BY DEF Inv, TypeOK
<1> QED
  BY <1>1 DEF Exists, Newest

LEMMA CallPreserves ==
  ASSUME Inv, NEW c \in Callers, Call(c)
  PROVE  Inv' /\ LogStep
<1>1. CASE \E k \in Keys \cup {NoKey}, r \in Runs : CallRun(c, k, r)
  BY <1>1, InitialType, PreparePreserves DEF CallRun
<1>2. CASE \E r \in Runs : CallRecover(c, r)
  <2>1. PICK r \in Runs : CallRecover(c, r)
    BY <1>2
  <2>2. /\ ck' \in [Callers -> Checkpoint] /\ \A d \in Callers \ {c} : ck'[d] = ck[d]
        /\ ack' \in [Callers -> Interrupt \cup {Named(n) : n \in Nodes} \cup {NoAck}]
    BY <2>1 DEF CallRecover, Inv, TypeOK
  <2> QED
    BY <2>1, <2>2, EnterPreserves DEF CallRecover
<1>3. CASE \E r \in Runs : CallCancel(c, r)
  <2>1. PICK r \in Runs : CallCancel(c, r)
    BY <1>3
  <2>2. Newest(r) \in Checkpoint
    BY <2>1, Stored DEF CallCancel
  <2>3. /\ ck' \in [Callers -> Checkpoint] /\ \A d \in Callers \ {c} : ck'[d] = ck[d]
        /\ ack' \in [Callers -> Interrupt \cup {Named(n) : n \in Nodes} \cup {NoAck}]
    BY <2>1, <2>2 DEF CallCancel, Inv, TypeOK
  <2> QED
    BY <2>1, <2>3, EnterPreserves DEF CallCancel
<1>4. CASE \E r \in Runs :
             \E a \in {Named(n) : n \in Nodes} \cup {history[r][i].interrupt : i \in 1..Len(history[r])} :
               CallResume(c, r, a)
  <2> PICK r \in Runs :
        \E a \in {Named(n) : n \in Nodes} \cup {history[r][i].interrupt : i \in 1..Len(history[r])} :
          CallResume(c, r, a)
    BY <1>4
  <2>1. PICK a \in {Named(n) : n \in Nodes} \cup {history[r][i].interrupt : i \in 1..Len(history[r])} :
          CallResume(c, r, a)
    OBVIOUS
  <2>2. a \in Interrupt \cup {Named(n) : n \in Nodes} \cup {NoAck}
    BY Stored, Parts DEF NoAck
  <2>3. /\ ck' \in [Callers -> Checkpoint] /\ \A d \in Callers \ {c} : ck'[d] = ck[d]
        /\ ack' \in [Callers -> Interrupt \cup {Named(n) : n \in Nodes} \cup {NoAck}]
    BY <2>1, <2>2 DEF CallResume, Inv, TypeOK
  <2> QED
    BY <2>1, <2>3, EnterPreserves DEF CallResume
<1>5. CASE \E s, r \in Runs, k \in Keys \cup {NoKey} :
             \E i \in 1..Len(history[s]) : CallFork(c, s, i, k, r)
  BY <1>5, Stored, ForkType, PreparePreserves DEF CallFork
<1> QED
  BY <1>1, <1>2, <1>3, <1>4, <1>5 DEF Call

LEMMA Singleton == \A x : Len(<<x>>) = 1 /\ <<x>>[1] = x
OBVIOUS

LEMMA CreatePreserves ==
  ASSUME Inv, NEW c \in Callers, Create(c)
  PROVE  Inv' /\ LogStep
<1> USE DEF Inv
<1> DEFINE r == run[c]
<1>1. /\ r \in Runs /\ ck[c] \in Checkpoint /\ ~Exists(r) /\ ck[c].seq = 0
      /\ idem[c] \in Keys \cup {NoKey}
  BY DEF Create, Creating, TypeOK
<1>2. UNCHANGED <<fence, standing, op, run, idem, ck, ack, task, guard, lost, ran, calls, crashes, faults>>
  BY DEF Create, lease, bounds
<1>3. PICK label \in {"unwind", "claim"} : Goto(c, label)
  BY DEF Create
<1>4. pc'[c] = label /\ (\A d \in Callers \ {c} : pc'[d] = pc[d]) /\ pc' \in [Callers -> PCs]
  BY <1>3 DEF Goto, TypeOK, PCs
<1>5. WaveOpen' /\ Claiming'
  BY <1>2, <1>4 DEF WaveOpen, WaveOpenAt, Claiming, Create
<1>6. CASE KeyTaken(c)
  <2>1. UNCHANGED <<history, key>> /\ pc'[c] = "unwind"
    BY <1>3, <1>4, <1>6 DEF Create, store, Goto, TypeOK
  <2>2. TypeOK' /\ Numbered'
    BY <1>2, <1>4, <2>1 DEF TypeOK, Numbered, Newest, Exists
  <2>3. Creating' /\ Working'
    BY <1>2, <1>4, <2>1 DEF Creating, Working, Exists
  <2>4. LogStep
    BY <2>1 DEF LogStep, Log!vars
  <2> QED
    BY <1>5, <2>2, <2>3, <2>4
<1>7. CASE ~KeyTaken(c)
  <2>1. /\ history' = [history EXCEPT ![r] = <<ck[c]>>]
        /\ key' = [key EXCEPT ![r] = idem[c]]
    BY <1>7 DEF Create
  <2>2. /\ history' \in [Runs -> Seq(Checkpoint)] /\ key' \in [Runs -> Keys \cup {NoKey}]
        /\ history'[r] = <<ck[c]>> /\ key'[r] = idem[c]
        /\ \A s \in Runs \ {r} : history'[s] = history[s]
    BY <1>1, <2>1 DEF TypeOK
  <2>3. TypeOK'
    BY <1>2, <1>4, <2>2 DEF TypeOK
  <2>4. Numbered'
    <3> SUFFICES ASSUME NEW s \in Runs, Exists(s)'
                 PROVE  Newest(s)'.seq = Len(history'[s]) - 1
      BY DEF Numbered
    <3>1. CASE s = r
      <4>1. Len(history'[s]) = 1 /\ history'[s][1] = ck[c]
        BY <1>1, <2>2, <3>1, Singleton, Zenon
      <4> QED
        BY <1>1, <4>1 DEF Newest
    <3>2. CASE s # r
      BY <2>2, <3>2 DEF Numbered, Newest, Exists
    <3> QED
      BY <3>1, <3>2
  <2>5. Creating'
    <3> SUFFICES ASSUME NEW d \in Callers, pc'[d] = "create"
                 PROVE  /\ ~Exists(run[d])' /\ ck'[d].seq = 0
                        /\ \A e \in Callers : pc'[e] = "create" /\ run'[e] = run'[d] => e = d
      BY DEF Creating
    <3>1. d # c /\ pc[d] = "create"
      BY <1>4
    <3>2. pc[c] = "create"
      BY DEF Create
    <3>3. run[d] \in Runs /\ run[d] # r /\ ~Exists(run[d]) /\ ck[d].seq = 0
      BY <3>1, <3>2 DEF Creating, TypeOK
    <3>4. \A e \in Callers : pc'[e] = "create" => pc[e] = "create"
      BY <1>4
    <3> QED
      BY <1>2, <2>2, <3>1, <3>3, <3>4 DEF Creating, Exists
  <2>6. Working'
    <3> SUFFICES ASSUME NEW d \in Callers, pc'[d] \notin {"idle", "create", "unwind"}
                 PROVE  history'[run[d]] # <<>>
      BY <1>2 DEF Working, Exists
    <3>1. run[d] \in Runs
      BY DEF TypeOK
    <3>2. history'[r] # <<>>
      BY <1>1, <2>2
    <3>3. CASE d = c
      BY <3>2, <3>3
    <3>4. CASE d # c
      BY <1>4, <2>2, <3>1, <3>2, <3>4 DEF Working, Exists
    <3> QED
      BY <3>3, <3>4
  <2>7. Log!Extends(r)
    <3>1. history[r] = <<>>
      BY <1>1 DEF Exists
    <3>2. Len(history[r]) = 0 /\ Append(history[r], ck[c]) = <<ck[c]>> /\ <<ck[c]>>[1] = ck[c] /\ Len(<<ck[c]>>) = 1
      BY <1>1, <3>1
    <3>3. 0 + 1 = 1
      OBVIOUS
    <3> QED
      BY <1>1, <2>1, <2>2, <3>2, <3>3, Zenon DEF Log!Extends
  <2>8. Log!Open(r)
    BY <1>1, <1>7, <2>1, <2>2, <2>7 DEF Log!Open, Exists, KeyTaken, RunsWithKey
  <2> QED
    BY <1>1, <1>5, <2>3, <2>4, <2>5, <2>6, <2>8 DEF LogStep, Log!Next
<1> QED
  BY <1>6, <1>7

LEMMA NowhereIsRun == Nowhere \in Runs
BY DefinitionAssumption, Zenon DEF Nowhere

\* A caller that leaves, by returning or by crashing.
LEMMA ForgetPreserves ==
  ASSUME Inv, NEW c \in Callers, Forget(c), UNCHANGED <<history, key, fence, ran, calls>>,
         standing' \in [Runs -> {"free", "held", "lapsed"}], crashes' \in Nat, faults' \in Nat
  PROVE  Inv' /\ LogStep
<1> USE DEF Inv
<1>1. /\ "idle" \in PCs /\ Initial \in Checkpoint /\ NoTasks \in [Nodes -> Tasks] /\ Nowhere \in Runs
  BY InitialType, NowhereIsRun DEF PCs, NoTasks, Tasks
<1>2. TypeOK'
  BY <1>1 DEF TypeOK, Forget
<1>3. pc'[c] = "idle"
  BY DEF TypeOK, Forget
<1>4. \A d \in Callers \ {c} :
        /\ pc'[d] = pc[d] /\ run'[d] = run[d] /\ ck'[d] = ck[d] /\ op'[d] = op[d] /\ task'[d] = task[d]
  BY DEF TypeOK, Forget
<1>5. Numbered'
  BY DEF Numbered, Newest, Exists
<1>6. Creating'
  BY <1>3, <1>4 DEF Creating, Exists
<1>7. Working'
  BY <1>3, <1>4 DEF Working, Exists
<1>8. WaveOpen'
  BY <1>3, <1>4 DEF WaveOpen, WaveOpenAt
<1>9. Claiming'
  BY <1>3, <1>4 DEF Claiming
<1>10. LogStep
  BY DEF LogStep, Log!vars
<1> QED
  BY <1>2, <1>5, <1>6, <1>7, <1>8, <1>9, <1>10

LEMMA LeavePreserves ==
  ASSUME Inv, NEW c \in Callers, Unwind(c) \/ Crash(c)
  PROVE  Inv' /\ LogStep
<1>1. /\ Forget(c) /\ UNCHANGED <<history, key, fence, ran, calls>>
  BY DEF Unwind, Crash, store, lease
<1>2. run[c] \in Runs /\ standing \in [Runs -> {"free", "held", "lapsed"}] /\ crashes \in Nat /\ faults \in Nat
  BY DEF Inv, TypeOK
<1>3. standing' \in [Runs -> {"free", "held", "lapsed"}] /\ crashes' \in Nat /\ faults' \in Nat
  BY <1>2 DEF Unwind, Crash, lease
<1> QED
  BY <1>1, <1>3, ForgetPreserves

\* Time, late renewals and heartbeats touch leases only.
LEMMA LeasePreserves ==
  ASSUME Inv, UNCHANGED <<history, key, fence, pc, op, run, idem, ck, ack, task, guard, ran, calls, crashes>>,
         standing' \in [Runs -> {"free", "held", "lapsed"}], lost' \in [Callers -> BOOLEAN], faults' \in Nat
  PROVE  Inv' /\ LogStep
<1> USE DEF Inv
<1>1. TypeOK'
  BY DEF TypeOK
<1>2. Numbered' /\ Working'
  BY DEF Numbered, Working, Newest, Exists
<1>3. Creating'
  BY DEF Creating, Exists
<1>4. WaveOpen' /\ Claiming'
  BY DEF WaveOpen, WaveOpenAt, Claiming
<1>5. LogStep
  BY DEF LogStep, Log!vars
<1> QED
  BY <1>1, <1>2, <1>3, <1>4, <1>5

LEMMA EnvironmentPreserves ==
  ASSUME Inv, (\E c \in Callers : Heartbeat(c)) \/ (\E r \in Runs : Lapse(r) \/ Revive(r))
  PROVE  Inv' /\ LogStep
<1>1. /\ standing \in [Runs -> {"free", "held", "lapsed"}] /\ lost \in [Callers -> BOOLEAN] /\ faults \in Nat
  BY DEF Inv, TypeOK
<1>2. CASE \E c \in Callers : Heartbeat(c)
  <2>1. PICK c \in Callers : Heartbeat(c)
    BY <1>2
  <2>2. standing' = standing /\ lost' \in [Callers -> BOOLEAN] /\ faults' \in Nat
    BY <1>1, <2>1 DEF Heartbeat, lease
  <2>3. UNCHANGED <<history, key, fence, pc, op, run, idem, ck, ack, task, guard, ran, calls, crashes>>
    BY <2>1 DEF Heartbeat, store, lease
  <2> QED
    BY <1>1, <2>2, <2>3, LeasePreserves
<1>3. CASE \E r \in Runs : Lapse(r) \/ Revive(r)
  <2>1. PICK r \in Runs : Lapse(r) \/ Revive(r)
    BY <1>3
  <2>2. lost' = lost /\ standing' \in [Runs -> {"free", "held", "lapsed"}] /\ faults' \in Nat
    BY <1>1, <2>1 DEF Lapse, Revive, local, bounds
  <2>3. UNCHANGED <<history, key, fence, pc, op, run, idem, ck, ack, task, guard, ran, calls, crashes>>
    BY <2>1 DEF Lapse, Revive, store, local, bounds
  <2> QED
    BY <1>1, <2>2, <2>3, LeasePreserves
<1> QED
  BY <1>2, <1>3

LEMMA StepPreserves ==
  ASSUME Inv, NEW c \in Callers, Step(c)
  PROVE  Inv' /\ LogStep
<1>1. CASE Create(c)
  BY <1>1, CreatePreserves
<1>2. CASE Unwind(c)
  BY <1>2, LeavePreserves
<1>3. CASE ~Create(c) /\ ~Unwind(c)
  <2>1. Advances(c)
    BY <1>3, ClaimAdvances, RecoverLoadAdvances, RecoverAppendAdvances, ResumeLoadAdvances,
       ResumeAppendAdvances, RerouteAdvances, ExecuteAdvances, CancelAppendAdvances DEF Step
  <2> QED
    BY <2>1, AdvancePreserves
<1> QED
  BY <1>1, <1>2, <1>3

-----------------------------------------------------------------------------
(* Theorems *)

LEMMA InitEstablishes ==
  ASSUME Init
  PROVE  Inv /\ Log!Init
<1>1. /\ "idle" \in PCs /\ Initial \in Checkpoint /\ NoTasks \in [Nodes -> Tasks] /\ Nowhere \in Runs
      /\ <<>> \in Seq(Checkpoint)
  BY InitialType, NowhereIsRun DEF PCs, NoTasks, Tasks
<1>2. TypeOK
  BY <1>1 DEF Init, TypeOK
<1>3. Numbered /\ Creating /\ Working /\ WaveOpen /\ Claiming
  BY DEF Init, Numbered, Creating, Working, WaveOpen, WaveOpenAt, Claiming, Exists
<1>4. Log!Init
  BY DEF Init, Log!Init
<1> QED
  BY <1>2, <1>3, <1>4 DEF Inv

LEMMA NextPreserves ==
  ASSUME Inv, [Next]_vars
  PROVE  Inv' /\ LogStep
<1>1. CASE UNCHANGED vars
  <2>1. UNCHANGED <<history, key, fence, standing, pc, op, run, idem, ck, ack, task, guard, lost, ran, calls,
                    crashes, faults>>
    BY <1>1 DEF vars, store, lease, local, bounds
  <2>2. standing' \in [Runs -> {"free", "held", "lapsed"}] /\ lost' \in [Callers -> BOOLEAN] /\ faults' \in Nat
    BY <2>1 DEF Inv, TypeOK
  <2> QED
    BY <2>1, <2>2, LeasePreserves
<1>2. CASE \E c \in Callers : Call(c) \/ Step(c) \/ Crash(c)
  BY <1>2, CallPreserves, StepPreserves, LeavePreserves
<1>3. CASE (\E c \in Callers : Heartbeat(c)) \/ (\E r \in Runs : Lapse(r) \/ Revive(r))
  BY <1>3, EnvironmentPreserves
<1> QED
  BY <1>1, <1>2, <1>3 DEF Next

\* The invariant holds in every state callers can reach.
THEOREM Invariant == Spec => []Inv
<1>1. Init => Inv
  BY InitEstablishes
<1>2. Inv /\ [Next]_vars => Inv'
  BY NextPreserves
<1> QED
  BY <1>1, <1>2, PTL DEF Spec

\* The engine's state stays well typed: in particular the lookups of the next
\* node to start and of the next outcome to settle always find one, and a
\* worker never reads the newest checkpoint of a run that has none.
THEOREM TypeCorrect == Spec => []TypeOK
<1>1. Inv => TypeOK
  BY DEF Inv
<1> QED
  BY <1>1, Invariant, PTL

\* However many callers race, crash and lose their leases, over any workflow
\* definition: histories are append-only, numbered without gaps, final once
\* terminal, and claimed by one run per idempotency key.
THEOREM HistoryIsLog == Spec => ImplementsRunLog
<1>1. Init => Log!Init
  BY InitEstablishes
<1>2. Inv /\ [Next]_vars => [Log!Next]_Log!vars
  BY NextPreserves DEF LogStep
<1> QED
  BY <1>1, <1>2, Invariant, PTL DEF Spec, ImplementsRunLog, Log!Spec

-----------------------------------------------------------------------------
(* Leases *)

\* Where a caller has no lease yet, or never asks for one.
Unclaimed == {"idle", "create", "claim", "cancel"}

\* Under a lease manager only a caller with a guard has a wave, and no two
\* callers hold the same grant of a run.
Guarded ==
  \A c \in Callers :
    /\ pc[c] \in Unclaimed => guard[c] = 0 /\ task[c] = NoTasks
    /\ Leased /\ guard[c] = 0 => pc[c] \in Unclaimed \cup {"unwind"} /\ task[c] = NoTasks
    /\ guard[c] <= fence[run[c]]
    /\ \A d \in Callers : guard[c] # 0 /\ guard[d] = guard[c] /\ run[d] = run[c] => d = c

\* A step of a caller that has passed its claim.
LEMMA AdvanceGuarded ==
  ASSUME Inv, Guarded, NEW c \in Callers, Advances(c), pc[c] \notin Unclaimed
  PROVE  Guarded'
<1>1. ~Claim(c)
  BY DEF Claim, Unclaimed
<1>2. UNCHANGED <<run, fence, guard>>
  BY <1>1 DEF Advances, Keeps
<1>3. PICK label \in Onward, t \in [Nodes -> Tasks] :
        pc' = [pc EXCEPT ![c] = label] /\ task' = [task EXCEPT ![c] = t]
  BY DEF Advances, Moves
<1>4. pc'[c] \notin Unclaimed /\ \A d \in Callers \ {c} : pc'[d] = pc[d] /\ task'[d] = task[d]
  BY <1>3 DEF Inv, TypeOK, Onward, Unclaimed
<1>5. ~Leased \/ guard[c] # 0
  BY DEF Guarded, Advances, Unclaimed
<1> QED
  BY <1>2, <1>4, <1>5 DEF Guarded

LEMMA ClaimGuarded ==
  ASSUME Inv, Guarded, NEW c \in Callers, Claim(c)
  PROVE  Guarded'
<1>1. /\ guard \in [Callers -> Nat] /\ fence \in [Runs -> Nat] /\ pc \in [Callers -> PCs]
      /\ run \in [Callers -> Runs] /\ pc[c] = "claim" /\ guard[c] = 0 /\ task[c] = NoTasks
  BY DEF Inv, TypeOK, Claim, Guarded, Unclaimed
<1>2. UNCHANGED <<run, task>>
  BY DEF Claim
<1>3. op[c] \in {"execute", "recover", "resume"}
  BY <1>1 DEF Inv, TypeOK, Claiming
<1>4. /\ \A d \in Callers \ {c} : pc'[d] = pc[d]
      /\ pc'[c] \notin Unclaimed
  BY <1>1, <1>3 DEF Claim, Goto, Unclaimed
<1>5. CASE ~Leased
  <2>1. UNCHANGED <<guard, fence>>
    BY <1>5 DEF Claim, lease
  <2> QED
    BY <1>2, <1>4, <1>5, <2>1 DEF Guarded
<1>6. CASE Leased /\ ~Available(run[c])
  <2>1. UNCHANGED <<guard, fence>> /\ pc'[c] = "unwind"
    BY <1>1, <1>6 DEF Claim, Goto, lease
  <2> QED
    BY <1>1, <1>2, <1>4, <2>1 DEF Guarded
<1>7. CASE Leased /\ Available(run[c])
  <2>1. /\ fence'[run[c]] = fence[run[c]] + 1 /\ guard'[c] = fence[run[c]] + 1
        /\ \A r \in Runs \ {run[c]} : fence'[r] = fence[r]
        /\ \A d \in Callers \ {c} : guard'[d] = guard[d]
    BY <1>1, <1>7 DEF Claim, NextToken
  <2>2. \A d \in Callers : run[d] = run[c] => guard[d] <= fence[run[c]]
    BY DEF Guarded
  <2> SUFFICES ASSUME NEW d \in Callers
               PROVE  /\ pc'[d] \in Unclaimed => guard'[d] = 0 /\ task'[d] = NoTasks
                      /\ Leased /\ guard'[d] = 0 => pc'[d] \in Unclaimed \cup {"unwind"} /\ task'[d] = NoTasks
                      /\ guard'[d] <= fence'[run'[d]]
                      /\ \A e \in Callers : guard'[d] # 0 /\ guard'[e] = guard'[d] /\ run'[e] = run'[d] => e = d
    BY DEF Guarded
  <2>3. CASE d = c
    <3>1. \A e \in Callers \ {c} : run[e] = run[c] => guard'[e] # guard'[c]
      BY <1>1, <2>1, <2>2
    <3> QED
      BY <1>1, <1>2, <1>4, <2>1, <2>3, <3>1
  <2>4. CASE d # c
    <3>1. run[d] = run[c] => guard'[d] # guard'[c] /\ guard'[d] <= fence'[run[d]]
      BY <1>1, <2>1, <2>2, <2>4
    <3>2. run[d] # run[c] => guard'[d] <= fence'[run[d]]
      BY <1>1, <2>1, <2>4 DEF Guarded
    <3>3. \A e \in Callers \ {c} : guard'[d] # 0 /\ guard'[e] = guard'[d] /\ run'[e] = run'[d] => e = d
      BY <1>2, <2>1, <2>4 DEF Guarded
    <3>4. /\ pc'[d] \in Unclaimed => guard'[d] = 0 /\ task'[d] = NoTasks
          /\ Leased /\ guard'[d] = 0 => pc'[d] \in Unclaimed \cup {"unwind"} /\ task'[d] = NoTasks
      BY <1>2, <1>4, <2>1, <2>4 DEF Guarded
    <3> QED
      BY <1>2, <3>1, <3>2, <3>3, <3>4
  <2> QED
    BY <2>3, <2>4
<1> QED
  BY <1>5, <1>6, <1>7

\* Steps of a caller that has no guard and gets none.
LEMMA UnguardedGuarded ==
  ASSUME Inv, Guarded, NEW c \in Callers, guard[c] = 0, task[c] = NoTasks, UNCHANGED <<fence, guard, task>>,
         NEW label \in Unclaimed \cup {"unwind"}, Goto(c, label),
         run' \in [Callers -> Runs], \A d \in Callers \ {c} : run'[d] = run[d]
  PROVE  Guarded'
<1>1. pc'[c] = label /\ \A d \in Callers \ {c} : pc'[d] = pc[d]
  BY DEF Goto, Inv, TypeOK
<1>2. fence[run'[c]] \in Nat
  BY DEF Inv, TypeOK
<1> QED
  BY <1>1, <1>2 DEF Guarded

LEMMA CallGuarded ==
  ASSUME Inv, Guarded, NEW c \in Callers, Call(c)
  PROVE  Guarded'
<1>1. PICK r \in Runs, label \in {"create", "claim", "cancel"} :
        Begin(c) /\ Goto(c, label) /\ run' = [run EXCEPT ![c] = r]
  BY DEF Call, CallRun, CallRecover, CallCancel, CallResume, CallFork
<1>2. guard[c] = 0 /\ task[c] = NoTasks /\ UNCHANGED <<fence, guard, task>>
  BY <1>1 DEF Begin, Guarded, Unclaimed, lease
<1>3. run' \in [Callers -> Runs] /\ \A d \in Callers \ {c} : run'[d] = run[d]
  BY <1>1 DEF Inv, TypeOK
<1>4. label \in Unclaimed
  BY DEF Unclaimed
<1> QED
  BY <1>1, <1>2, <1>3, <1>4, UnguardedGuarded

LEMMA CreateGuarded ==
  ASSUME Inv, Guarded, NEW c \in Callers, Create(c)
  PROVE  Guarded'
<1>1. guard[c] = 0 /\ task[c] = NoTasks /\ UNCHANGED <<fence, guard, task, run>>
  BY DEF Create, Guarded, Unclaimed, lease
<1>2. \E label \in Unclaimed \cup {"unwind"} : Goto(c, label)
  BY DEF Create, Unclaimed
<1>3. run \in [Callers -> Runs]
  BY DEF Inv, TypeOK
<1> QED
  BY <1>1, <1>2, <1>3, UnguardedGuarded

LEMMA CancelGuarded ==
  ASSUME Inv, Guarded, NEW c \in Callers, CancelAppend(c)
  PROVE  Guarded'
<1>1. guard[c] = 0 /\ task[c] = NoTasks
  BY DEF CancelAppend, Guarded, Unclaimed
<1>2. Goto(c, "unwind") /\ UNCHANGED <<fence, guard, task, run>>
  BY DEF CancelAppend, CommitLast, Commit, Refused, lease
<1>3. run \in [Callers -> Runs]
  BY DEF Inv, TypeOK
<1> QED
  BY <1>1, <1>2, <1>3, UnguardedGuarded

LEMMA ForgetGuarded ==
  ASSUME Inv, Guarded, NEW c \in Callers, Forget(c), UNCHANGED fence
  PROVE  Guarded'
<1>1. /\ pc'[c] = "idle" /\ guard'[c] = 0 /\ task'[c] = NoTasks /\ run'[c] \in Runs
      /\ \A d \in Callers \ {c} :
           pc'[d] = pc[d] /\ guard'[d] = guard[d] /\ task'[d] = task[d] /\ run'[d] = run[d]
  BY NowhereIsRun DEF Forget, Inv, TypeOK
<1>2. 0 <= fence[run'[c]]
  BY <1>1 DEF Inv, TypeOK
<1> QED
  BY <1>1, <1>2 DEF Guarded, Unclaimed

\* The environment takes nothing from a caller but its lease.
LEMMA EnvironmentGuarded ==
  ASSUME Guarded, UNCHANGED <<pc, guard, task, run, fence>>
  PROVE  Guarded'
BY DEF Guarded

LEMMA NextGuarded ==
  ASSUME Inv, Guarded, [Next]_vars
  PROVE  Guarded'
<1>1. CASE UNCHANGED vars
  BY <1>1, EnvironmentGuarded DEF vars, lease, local
<1>2. CASE \E c \in Callers : Call(c)
  BY <1>2, CallGuarded
<1>3. CASE \E c \in Callers : Step(c)
  <2> PICK c \in Callers : Step(c)
    BY <1>3
  <2>1. CASE Create(c) \/ Claim(c) \/ CancelAppend(c)
    BY <2>1, CreateGuarded, ClaimGuarded, CancelGuarded
  <2>2. CASE Unwind(c)
    BY <2>2, ForgetGuarded DEF Unwind
  <2>3. CASE ~Create(c) /\ ~Claim(c) /\ ~CancelAppend(c) /\ ~Unwind(c)
    <3>1. Advances(c)
      BY <2>3, RecoverLoadAdvances, RecoverAppendAdvances, ResumeLoadAdvances,
         ResumeAppendAdvances, RerouteAdvances, ExecuteAdvances DEF Step
    <3>2. pc[c] \notin Unclaimed
      BY <2>3 DEF Step, RecoverLoad, RecoverAppend, ResumeLoad, ResumeAppend, Reroute, Execute,
         LoopTop, SkipNode, ReturnSuspended, SuspendBefore, Conclude, BeginWave, StartNode,
         Dispatch, MayDispatch, Return, Gather, Settle, CloseStop, CloseEdges, Abort,
         CloseInterrupt, CloseWave, Planning, Unclaimed
    <3> QED
      BY <3>1, <3>2, AdvanceGuarded
  <2> QED
    BY <2>1, <2>2, <2>3
<1>4. CASE \E c \in Callers : Crash(c)
  BY <1>4, ForgetGuarded DEF Crash, lease
<1>5. CASE (\E c \in Callers : Heartbeat(c)) \/ (\E r \in Runs : Lapse(r) \/ Revive(r))
  BY <1>5, EnvironmentGuarded DEF Heartbeat, Lapse, Revive, lease, local
<1> QED
  BY <1>1, <1>2, <1>3, <1>4, <1>5 DEF Next

LEMMA InitGuarded == Init => Guarded
BY InitEstablishes DEF Init, Guarded, Unclaimed, Inv, TypeOK

\* Two callers execute nodes of one run at once only if the first of them has
\* lost the lease of the run: the lease excludes two executors, for every
\* definition and any number of callers that race, stall and crash.
THEOREM LeaseExcludes == Spec => []OneExecutorPerLease
<1>1. Inv /\ Guarded => OneExecutorPerLease
  BY DEF Guarded, OneExecutorPerLease, OwnsLease, Tasked, NoTasks
<1>2. Init => Guarded
  BY InitGuarded
<1>3. Inv /\ Guarded /\ [Next]_vars => Guarded'
  BY NextGuarded
<1> QED
  BY <1>1, <1>2, <1>3, Invariant, PTL DEF Spec

-----------------------------------------------------------------------------
(* The checkpoint in hand *)

\* Where a caller holds no checkpoint of its run, or none it will rely on.
Unloaded(c) ==
  pc[c] \in {"idle", "create", "recover", "resume", "unwind"} \/ (pc[c] = "claim" /\ op[c] # "execute")

InHistory(k, r) == k.seq < Len(history[r]) /\ history[r][k.seq + 1] = k

\* Anywhere else it holds a checkpoint that is in the history of its run: if
\* the sequence is the newest one, so is the checkpoint.
Loaded == \A c \in Callers : ~Unloaded(c) => InHistory(ck[c], run[c])

\* Histories only grow.
Grows ==
  \A r \in Runs : /\ Len(history[r]) <= Len(history'[r])
                 /\ \A i \in 1..Len(history[r]) : history'[r][i] = history[r][i]

\* The length of a history and the sequence of a checkpoint are numbers.
LEMMA Lengths ==
  ASSUME Inv
  PROVE  /\ \A r \in Runs : Len(history[r]) \in Nat
         /\ \A c \in Callers : ck[c].seq \in Nat /\ run[c] \in Runs
<1>1. \A r \in Runs : Len(history[r]) \in Nat
  BY DEF Inv, TypeOK
<1>2. \A c \in Callers : ck[c].seq \in Nat /\ run[c] \in Runs
  BY Parts DEF Inv, TypeOK
<1> QED
  BY <1>1, <1>2

\* A recorded checkpoint stays where it is.
LEMMA GrowsKeeps ==
  ASSUME Inv, Inv', Grows, NEW k, k.seq \in Nat, NEW r \in Runs, InHistory(k, r)
  PROVE  k.seq < Len(history'[r]) /\ history'[r][k.seq + 1] = k
<1>1. Len(history[r]) \in Nat /\ Len(history'[r]) \in Nat
  BY DEF Inv, TypeOK
<1>2. k.seq + 1 \in 1..Len(history[r])
  BY <1>1 DEF InHistory
<1> QED
  BY <1>1, <1>2 DEF Grows, InHistory

\* Every step of the log lets histories grow.
LEMMA LogGrows ==
  ASSUME Inv, LogStep
  PROVE  Grows
<1>1. CASE UNCHANGED Log!vars
  <2>1. history' = history
    BY <1>1 DEF Log!vars
  <2>2. \A r \in Runs : Len(history[r]) \in Nat
    BY Lengths
  <2> QED
    BY <2>1, <2>2 DEF Grows
<1>2. CASE \E r \in Runs : Log!Extends(r)
  <2> PICK r \in Runs : Log!Extends(r)
    BY <1>2
  <2> DEFINE k == history'[r][Len(history[r]) + 1]
  <2>1. history' = [history EXCEPT ![r] = Append(history[r], k)]
    BY DEF Log!Extends
  <2> HIDE DEF k
  <2>2. history \in [Runs -> Seq(Checkpoint)]
    BY DEF Inv, TypeOK
  <2>3. \A s \in Runs \ {r} : history'[s] = history[s]
    BY <2>1, <2>2
  <2>4. history'[r] = Append(history[r], k)
    BY <2>1, <2>2
  <2>5. /\ Len(history'[r]) = Len(history[r]) + 1
        /\ \A i \in 1..Len(history[r]) : history'[r][i] = history[r][i]
    BY <2>2, <2>4
  <2>6. \A s \in Runs : Len(history[s]) \in Nat
    BY Lengths
  <2> QED
    BY <2>3, <2>5, <2>6 DEF Grows
<1> QED
  BY <1>1, <1>2 DEF LogStep, Log!Next, Log!Open, Log!Extend

\* The newest checkpoint is the one its sequence names.
LEMMA NewestInHistory ==
  ASSUME Inv, NEW r \in Runs, Exists(r)
  PROVE  /\ Newest(r).seq \in Nat /\ InHistory(Newest(r), r)
         /\ \A k : InHistory(k, r) /\ k.seq = Newest(r).seq => k = Newest(r)
<1>1. history[r] \in Seq(Checkpoint) /\ history[r] # <<>>
  BY DEF Inv, TypeOK, Exists
<1>2. Len(history[r]) \in Nat \ {0}
  BY <1>1
<1>3. Newest(r).seq = Len(history[r]) - 1
  BY DEF Inv, Numbered
<1>4. Newest(r).seq + 1 = Len(history[r]) /\ Newest(r).seq < Len(history[r]) /\ Newest(r).seq \in Nat
  BY <1>2, <1>3
<1> QED
  BY <1>4 DEF InHistory, Newest

\* An accepted append leaves the caller with the newest checkpoint.
LEMMA CommitLoads ==
  ASSUME Inv, NEW c \in Callers, NEW cand, Follows(ck[c], cand), Commit(c, cand)
  PROVE  ck'[c].seq < Len(history'[run[c]]) /\ history'[run[c]][ck'[c].seq + 1] = ck'[c]
<1> DEFINE k == Stamp(cand, guard[c])
           r == run[c]
<1>1. r \in Runs /\ history \in [Runs -> Seq(Checkpoint)] /\ guard[c] \in Nat /\ ck \in [Callers -> Checkpoint]
  BY DEF Inv, TypeOK
<1>2. k \in Checkpoint /\ k.seq = ck[c].seq + 1
  BY <1>1, StampType DEF Follows
<1>3. history' = [history EXCEPT ![r] = Append(@, k)] /\ ck' = [ck EXCEPT ![c] = k]
  BY DEF Commit
<1>4. Exists(r) /\ ck[c].seq = Newest(r).seq
  BY DEF Commit, CanAppend
<1>5. ck[c].seq = Len(history[r]) - 1
  BY <1>1, <1>4 DEF Inv, Numbered
<1> HIDE DEF k
<1>6. Len(history[r]) \in Nat
  BY <1>1
<1>7. k.seq = Len(history[r])
  BY <1>2, <1>5, <1>6
<1>8. ck'[c] = k /\ history'[r] = Append(history[r], k)
  BY <1>1, <1>3
<1>9. Len(history'[r]) = Len(history[r]) + 1 /\ history'[r][Len(history[r]) + 1] = k
  BY <1>1, <1>2, <1>8
<1> QED
  BY <1>6, <1>7, <1>8, <1>9

\* The callers a step does not concern.
LEMMA OthersLoaded ==
  ASSUME Inv, Inv', Loaded, Grows, NEW d \in Callers,
         UNCHANGED <<pc[d], op[d], run[d], ck[d]>>, ~Unloaded(d)'
  PROVE  InHistory(ck[d], run[d])'
<1>1. ~Unloaded(d)
  BY DEF Unloaded
<1>2. InHistory(ck[d], run[d]) /\ ck[d].seq \in Nat /\ run[d] \in Runs
  BY <1>1, Lengths DEF Loaded
<1> QED
  BY <1>2, GrowsKeeps DEF InHistory

LEMMA AdvanceLoaded ==
  ASSUME Inv, Inv', Loaded, Grows, NEW c \in Callers, Advances(c),
         Unloaded(c) => (Exists(run[c]) /\ ck'[c] = Newest(run[c]) /\ UNCHANGED history) \/ Unloaded(c)'
  PROVE  Loaded'
<1> SUFFICES ASSUME NEW d \in Callers, ~Unloaded(d)'
             PROVE  InHistory(ck[d], run[d])'
  BY DEF Loaded
<1>1. UNCHANGED <<run, op>> /\ run[c] \in Runs /\ Exists(run[c])
  BY DEF Advances, Keeps, Inv, TypeOK, Working
<1>2. CASE d # c
  <2>1. pc'[d] = pc[d]
    BY <1>2 DEF Advances, Moves, Inv, TypeOK
  <2>2. ck'[d] = ck[d]
    BY <1>2 DEF Advances, Records, Commit, Inv, TypeOK
  <2> QED
    BY <1>1, <2>1, <2>2, OthersLoaded
<1>3. CASE d = c
  <2>1. CASE UNCHANGED history /\ ck'[c] = Newest(run[c])
    BY <1>1, <1>3, <2>1, NewestInHistory DEF InHistory
  <2>2. CASE UNCHANGED history /\ UNCHANGED ck /\ ~Unloaded(c)
    BY <1>1, <1>3, <2>2 DEF Loaded, InHistory
  <2>3. CASE \E cand : Follows(ck[c], cand) /\ Commit(c, cand)
    BY <1>1, <1>3, <2>3, CommitLoads DEF InHistory
  <2>4. CASE ck' = [ck EXCEPT ![c] = Newest(run[c])] /\ UNCHANGED history
    <3>1. ck'[c] = Newest(run[c])
      BY <2>4 DEF Inv, TypeOK
    <3> QED
      BY <2>1, <2>4, <3>1
  <2> QED
    BY <1>3, <2>1, <2>2, <2>3, <2>4 DEF Advances, Records
<1> QED
  BY <1>2, <1>3

\* Steps of a caller that loads nothing.
LEMMA UnloadedLoaded ==
  ASSUME Inv, Inv', Loaded, Grows, NEW c \in Callers, Unloaded(c)',
         \A d \in Callers \ {c} : UNCHANGED <<pc[d], op[d], run[d], ck[d]>>
  PROVE  Loaded'
BY OthersLoaded DEF Loaded

LEMMA StepLoaded ==
  ASSUME Inv, Inv', Loaded, Grows, NEW c \in Callers, Step(c)
  PROVE  Loaded'
<1>1. CASE Create(c)
  <2>1. /\ UNCHANGED <<run, op, ck>> /\ run[c] \in Runs
        /\ \A d \in Callers \ {c} : pc'[d] = pc[d]
    BY <1>1 DEF Create, Goto, Inv, TypeOK
  <2>2. CASE KeyTaken(c)
    <3>1. pc'[c] = "unwind"
      BY <1>1, <2>2 DEF Create, Goto, Inv, TypeOK
    <3> QED
      BY <2>1, <3>1, UnloadedLoaded DEF Unloaded
  <2>3. CASE ~KeyTaken(c)
    <3>1. history'[run[c]] = <<ck[c]>> /\ ck[c].seq = 0
      BY <1>1, <2>1, <2>3 DEF Create, Inv, TypeOK, Creating
    <3>2. Len(history'[run[c]]) = 1 /\ history'[run[c]][1] = ck[c]
      BY <3>1, Singleton
    <3>3. InHistory(ck[c], run[c])'
      BY <2>1, <3>1, <3>2 DEF InHistory
    <3> QED
      BY <2>1, <3>3, OthersLoaded DEF Loaded
  <2> QED
    BY <2>2, <2>3
<1>2. CASE Unwind(c)
  <2>1. Unloaded(c)' /\ \A d \in Callers \ {c} : UNCHANGED <<pc[d], op[d], run[d], ck[d]>>
    BY <1>2 DEF Unwind, Forget, Unloaded, Inv, TypeOK
  <2> QED
    BY <2>1, UnloadedLoaded
<1>3. CASE Claim(c)
  <2>1. Unloaded(c) => Unloaded(c)'
    BY <1>3 DEF Claim, Goto, Unloaded, Inv, TypeOK, Claiming
  <2> QED
    BY <1>3, <2>1, ClaimAdvances, AdvanceLoaded
<1>4. CASE RecoverLoad(c) \/ ResumeLoad(c)
  <2>1. Exists(run[c]) /\ ck'[c] = Newest(run[c]) /\ UNCHANGED history
    BY <1>4 DEF RecoverLoad, ResumeLoad, Locally, store, Inv, TypeOK, Working
  <2> QED
    BY <1>4, <2>1, RecoverLoadAdvances, ResumeLoadAdvances, AdvanceLoaded
<1>5. CASE RecoverAppend(c) \/ ResumeAppend(c) \/ Reroute(c) \/ Execute(c) \/ CancelAppend(c)
  <2>1. Advances(c)
    BY <1>5, RecoverAppendAdvances, ResumeAppendAdvances, RerouteAdvances, ExecuteAdvances,
       CancelAppendAdvances
  <2>2. ~Unloaded(c)
    BY <1>5 DEF RecoverAppend, ResumeAppend, Reroute, Execute, CancelAppend,
       LoopTop, SkipNode, ReturnSuspended, SuspendBefore, Conclude, BeginWave, StartNode,
       Dispatch, MayDispatch, Return, Gather, Settle, CloseStop, CloseEdges, Abort,
       CloseInterrupt, CloseWave, Planning, Unloaded
  <2> QED
    BY <2>1, <2>2, AdvanceLoaded
<1> QED
  BY <1>1, <1>2, <1>3, <1>4, <1>5 DEF Step

LEMMA CallLoaded ==
  ASSUME Inv, Inv', Loaded, Grows, NEW c \in Callers, Call(c)
  PROVE  Loaded'
<1>1. ASSUME NEW r \in Runs, CallCancel(c, r)
      PROVE  Loaded'
  <2>1. /\ UNCHANGED history /\ ck'[c] = Newest(r) /\ run'[c] = r /\ Exists(r)
        /\ \A d \in Callers \ {c} : UNCHANGED <<pc[d], op[d], run[d], ck[d]>>
    BY <1>1 DEF CallCancel, Begin, Goto, store, Inv, TypeOK
  <2>2. InHistory(ck[c], run[c])'
    BY <2>1, NewestInHistory DEF InHistory
  <2> QED
    BY <2>1, <2>2, OthersLoaded DEF Loaded
<1>2. ASSUME NEW r \in Runs, NEW k \in Keys \cup {NoKey}, CallRun(c, k, r)
      PROVE  Loaded'
  <2>1. Unloaded(c)' /\ \A d \in Callers \ {c} : UNCHANGED <<pc[d], op[d], run[d], ck[d]>>
    BY <1>2 DEF CallRun, Goto, Unloaded, Inv, TypeOK
  <2> QED
    BY <2>1, UnloadedLoaded
<1>3. ASSUME NEW r \in Runs, CallRecover(c, r)
      PROVE  Loaded'
  <2>1. Unloaded(c)' /\ \A d \in Callers \ {c} : UNCHANGED <<pc[d], op[d], run[d], ck[d]>>
    BY <1>3 DEF CallRecover, Goto, Unloaded, Inv, TypeOK
  <2> QED
    BY <2>1, UnloadedLoaded
<1>4. ASSUME NEW r \in Runs, NEW a, CallResume(c, r, a)
      PROVE  Loaded'
  <2>1. Unloaded(c)' /\ \A d \in Callers \ {c} : UNCHANGED <<pc[d], op[d], run[d], ck[d]>>
    BY <1>4 DEF CallResume, Goto, Unloaded, Inv, TypeOK
  <2> QED
    BY <2>1, UnloadedLoaded
<1>5. ASSUME NEW s \in Runs, NEW i, NEW k, NEW r \in Runs, CallFork(c, s, i, k, r)
      PROVE  Loaded'
  <2>1. Unloaded(c)' /\ \A d \in Callers \ {c} : UNCHANGED <<pc[d], op[d], run[d], ck[d]>>
    BY <1>5 DEF CallFork, Goto, Unloaded, Inv, TypeOK
  <2> QED
    BY <2>1, UnloadedLoaded
<1> QED
  BY <1>1, <1>2, <1>3, <1>4, <1>5 DEF Call

LEMMA NextLoaded ==
  ASSUME Inv, Inv', Loaded, LogStep, [Next]_vars
  PROVE  Loaded'
<1>1. Grows
  BY LogGrows
<1>2. CASE UNCHANGED <<pc, op, run, ck>>
  BY <1>1, <1>2, OthersLoaded DEF Loaded
<1>3. CASE \E c \in Callers : Crash(c)
  <2> PICK c \in Callers : Crash(c)
    BY <1>3
  <2>1. Unloaded(c)' /\ \A d \in Callers \ {c} : UNCHANGED <<pc[d], op[d], run[d], ck[d]>>
    BY DEF Crash, Forget, Unloaded, Inv, TypeOK
  <2> QED
    BY <1>1, <2>1, UnloadedLoaded
<1>4. CASE \E c \in Callers : Call(c) \/ Step(c)
  BY <1>1, <1>4, CallLoaded, StepLoaded
<1>5. CASE UNCHANGED vars \/ (\E c \in Callers : Heartbeat(c)) \/ (\E r \in Runs : Lapse(r) \/ Revive(r))
  BY <1>2, <1>5 DEF vars, local, Heartbeat, Lapse, Revive
<1> QED
  BY <1>3, <1>4, <1>5 DEF Next

LEMMA InitLoaded == Init => Loaded
BY DEF Init, Loaded, Unloaded

-----------------------------------------------------------------------------
(* Fencing tokens *)

\* A run that is started, not forked, starts with no token.
Starting == \A c \in Callers : pc[c] = "create" /\ ck[c].last = "workflow-start" => ck[c].fence = 0

\* Nothing in its history is newer than the newest grant of its lease.
Current == \A r \in Runs : Started(r) => Newest(r).fence <= fence[r]

\* Fencing tokens are numbers.
LEMMA FenceNumbers ==
  ASSUME Inv, NEW r \in Runs
  PROVE  \A i \in 1..Len(history[r]) : history[r][i].fence \in Nat
BY Stored, Parts

\* As long as the store is left alone, grants only make tokens newer.
LEMMA QuietOrdered ==
  ASSUME Inv, FencesMonotone, Current, UNCHANGED history,
         \A r \in Runs : fence[r] <= fence'[r] /\ fence'[r] \in Nat
  PROVE  FencesMonotone' /\ Current'
<1>1. FencesMonotone'
  BY DEF FencesMonotone, Started, Exists, RecordedAt
<1>2. Current'
  <2> SUFFICES ASSUME NEW r \in Runs, Exists(r), RecordedAt(r, 1).last = "workflow-start"
               PROVE  Newest(r).fence <= fence'[r]
    BY DEF Current, Started, Exists, RecordedAt, Newest
  <2>1. Newest(r).fence <= fence[r] /\ Newest(r).fence \in Nat /\ fence[r] \in Nat
    BY Stored, Parts DEF Current, Started, Inv, TypeOK
  <2> QED
    BY <2>1
<1> QED
  BY <1>1, <1>2

\* An accepted append carries the token of the checkpoint it follows, or the
\* newest grant.
LEMMA CommitOrdered ==
  ASSUME Inv, Inv', FencesMonotone, Current, NEW c \in Callers, InHistory(ck[c], run[c]),
         NEW cand, Follows(ck[c], cand), Commit(c, cand)
  PROVE  FencesMonotone' /\ Current'
<1> DEFINE k == Stamp(cand, guard[c])
           r == run[c]
           n == Len(history[r])
<1>1. /\ r \in Runs /\ history \in [Runs -> Seq(Checkpoint)] /\ guard[c] \in Nat
      /\ ck[c] \in Checkpoint /\ fence \in [Runs -> Nat] /\ UNCHANGED <<fence, run>>
  BY DEF Inv, TypeOK, Commit, lease
<1>2. cand \in Checkpoint /\ cand.fence = ck[c].fence
  BY DEF Follows
<1>3. k \in Checkpoint /\ k.fence = IF guard[c] = 0 THEN ck[c].fence ELSE guard[c]
  BY <1>1, <1>2, StampType
<1>4. history' = [history EXCEPT ![r] = Append(@, k)]
  BY DEF Commit
<1>5. Exists(r) /\ ck[c] = Newest(r) /\ (guard[c] # 0 => guard[c] = fence[r])
  BY <1>1, NewestInHistory DEF Commit, CanAppend, OwnsLease
<1> HIDE DEF k
<1>6. n \in Nat \ {0} /\ Newest(r) = history[r][n]
  BY <1>1, <1>5 DEF Exists, Newest
<1>7. /\ \A s \in Runs \ {r} : history'[s] = history[s]
      /\ history'[r] = Append(history[r], k)
  BY <1>1, <1>4
<1>8. /\ Len(history'[r]) = n + 1 /\ history'[r][n + 1] = k
      /\ \A i \in 1..n : history'[r][i] = history[r][i]
  BY <1>1, <1>3, <1>7
<1>9. Exists(r)' /\ history'[r][1] = history[r][1] /\ Newest(r)' = k
  <2>1. 1 \in 1..n
    BY <1>6
  <2>2. history'[r] # <<>>
    BY <1>6, <1>8
  <2>3. history'[r][1] = history[r][1]
    BY <1>8, <2>1
  <2>4. history'[r][Len(history'[r])] = k
    BY <1>8
  <2> QED
    BY <1>1, <2>2, <2>3, <2>4 DEF Exists, Newest
<1>10. \A i \in 1..n : history[r][i].fence \in Nat
  BY <1>1, FenceNumbers
<1>11. CASE history[r][1].last = "workflow-start"
  <2>1. history[r][n].fence <= fence[r] /\ history[r][n].fence \in Nat
    BY <1>1, <1>5, <1>6, <1>10, <1>11 DEF Current, Started, RecordedAt
  <2>2. history[r][n].fence <= k.fence /\ k.fence <= fence[r] /\ k.fence \in Nat
    BY <1>1, <1>3, <1>5, <1>6, <2>1
  <2>3. \A i \in 1..n : \A j \in i..n : history[r][i].fence <= history[r][j].fence
    BY <1>1, <1>5, <1>11 DEF FencesMonotone, Started, RecordedAt
  <2>4. \A i \in 1..n : history[r][i].fence <= k.fence
    BY <1>6, <1>10, <2>2, <2>3
  <2>5. \A i \in 1..(n + 1) : \A j \in i..(n + 1) : history'[r][i].fence <= history'[r][j].fence
    <3> SUFFICES ASSUME NEW i \in 1..(n + 1), NEW j \in i..(n + 1)
                 PROVE  history'[r][i].fence <= history'[r][j].fence
      OBVIOUS
    <3>1. CASE j \in 1..n
      <4>1. i \in 1..n /\ j \in i..n
        BY <1>6, <3>1
      <4> QED
        BY <1>8, <2>3, <3>1, <4>1
    <3>2. CASE j = n + 1 /\ i \in 1..n
      BY <1>8, <2>4, <3>2
    <3>3. CASE j = n + 1 /\ i = n + 1
      BY <1>8, <2>2, <3>3
    <3> QED
      BY <1>6, <3>1, <3>2, <3>3
  <2>6. FencesMonotone'
    BY <1>7, <1>8, <2>5 DEF FencesMonotone, Started, RecordedAt, Exists
  <2>7. Current'
    <3> SUFFICES ASSUME NEW s \in Runs, history'[s] # <<>>, history'[s][1].last = "workflow-start"
                 PROVE  Newest(s)'.fence <= fence'[s]
      BY DEF Current, Started, RecordedAt, Exists
    <3>1. CASE s = r
      BY <1>1, <1>9, <2>2, <3>1
    <3>2. CASE s # r
      <4>1. Newest(s)' = Newest(s) /\ history[s] = history'[s]
        BY <1>7, <3>2 DEF Newest
      <4> QED
        BY <1>1, <4>1 DEF Current, Started, RecordedAt, Exists
    <3> QED
      BY <3>1, <3>2
  <2> QED
    BY <2>6, <2>7
<1>12. CASE history[r][1].last # "workflow-start"
  <2>1. FencesMonotone'
    BY <1>7, <1>9, <1>12 DEF FencesMonotone, Started, RecordedAt, Exists
  <2>2. Current'
    <3> SUFFICES ASSUME NEW s \in Runs, history'[s] # <<>>, history'[s][1].last = "workflow-start"
                 PROVE  Newest(s)'.fence <= fence'[s]
      BY DEF Current, Started, RecordedAt, Exists
    <3>1. s # r
      BY <1>9, <1>12
    <3>2. Newest(s)' = Newest(s) /\ history[s] = history'[s]
      BY <1>7, <3>1 DEF Newest
    <3> QED
      BY <1>1, <3>2 DEF Current, Started, RecordedAt, Exists
  <2> QED
    BY <2>1, <2>2
<1> QED
  BY <1>11, <1>12

LEMMA CreateOrdered ==
  ASSUME Inv, FencesMonotone, Current, Starting, NEW c \in Callers, Create(c)
  PROVE  FencesMonotone' /\ Current'
<1> DEFINE r == run[c]
<1>1. /\ r \in Runs /\ history \in [Runs -> Seq(Checkpoint)] /\ fence \in [Runs -> Nat]
      /\ ck[c] \in Checkpoint /\ UNCHANGED fence
  BY DEF Inv, TypeOK, Create, lease
<1>2. CASE KeyTaken(c)
  BY <1>1, <1>2, QuietOrdered DEF Create, store
<1>3. CASE ~KeyTaken(c)
  <2>1. history' = [history EXCEPT ![r] = <<ck[c]>>]
    BY <1>3 DEF Create
  <2>2. history'[r] = <<ck[c]>> /\ \A s \in Runs \ {r} : history'[s] = history[s]
    BY <1>1, <2>1
  <2>3. Len(history'[r]) = 1 /\ history'[r][1] = ck[c]
    BY <2>2, Singleton
  <2>4. ck[c].fence \in Nat /\ fence[r] \in Nat
    BY <1>1, Parts
  <2>5. ck[c].last = "workflow-start" => ck[c].fence = 0
    BY DEF Starting, Create
  <2>6. \A i \in 1..1 : \A j \in i..1 : history'[r][i].fence <= history'[r][j].fence
    BY <2>3, <2>4
  <2>7. FencesMonotone'
    BY <2>2, <2>3, <2>6 DEF FencesMonotone, Started, RecordedAt, Exists
  <2>8. Current'
    <3> SUFFICES ASSUME NEW s \in Runs, history'[s] # <<>>, history'[s][1].last = "workflow-start"
                 PROVE  Newest(s)'.fence <= fence'[s]
      BY DEF Current, Started, RecordedAt, Exists
    <3>1. CASE s = r
      BY <1>1, <2>3, <2>4, <2>5, <3>1 DEF Newest
    <3>2. CASE s # r
      <4>1. Newest(s)' = Newest(s) /\ history[s] = history'[s]
        BY <2>2, <3>2 DEF Newest
      <4> QED
        BY <1>1, <4>1 DEF Current, Started, RecordedAt, Exists
    <3> QED
      BY <3>1, <3>2
  <2> QED
    BY <2>7, <2>8
<1> QED
  BY <1>2, <1>3

\* Grants only make the newest token newer.
LEMMA FenceGrows ==
  ASSUME Inv, [Next]_vars
  PROVE  \A r \in Runs : fence[r] <= fence'[r] /\ fence'[r] \in Nat
<1>1. \A r \in Runs : fence[r] \in Nat
  BY DEF Inv, TypeOK
<1>2. CASE UNCHANGED fence
  BY <1>1, <1>2
<1>3. CASE \E c \in Callers : Claim(c)
  <2>1. PICK c \in Callers : UNCHANGED fence \/ fence' = [fence EXCEPT ![run[c]] = fence[run[c]] + 1]
    BY <1>3 DEF Claim, NextToken, lease
  <2>2. CASE fence' = [fence EXCEPT ![run[c]] = fence[run[c]] + 1]
    <3>1. fence \in [Runs -> Nat] /\ run[c] \in Runs
      BY DEF Inv, TypeOK
    <3> QED
      BY <2>2, <3>1
  <2> QED
    BY <1>2, <2>1, <2>2
<1>4. CASE \E c \in Callers : Step(c) /\ ~Claim(c)
  <2> PICK c \in Callers : Step(c) /\ ~Claim(c)
    BY <1>4
  <2>1. CASE Create(c) \/ Unwind(c)
    BY <1>2, <2>1 DEF Create, Unwind, lease
  <2>2. CASE Advances(c)
    BY <1>2, <2>2 DEF Advances, Keeps
  <2> QED
    BY <2>1, <2>2, RecoverLoadAdvances, RecoverAppendAdvances, ResumeLoadAdvances,
       ResumeAppendAdvances, RerouteAdvances, ExecuteAdvances, CancelAppendAdvances DEF Step
<1>5. CASE \E c \in Callers : Call(c)
  BY <1>2, <1>5 DEF Call, CallRun, CallRecover, CallCancel, CallResume, CallFork, Begin, lease
<1>6. CASE UNCHANGED vars \/ (\E c \in Callers : Crash(c) \/ Heartbeat(c)) \/ (\E r \in Runs : Lapse(r) \/ Revive(r))
  BY <1>2, <1>6 DEF vars, lease, Crash, Heartbeat, Lapse, Revive
<1> QED
  BY <1>3, <1>4, <1>5, <1>6 DEF Next

LEMMA NextOrdered ==
  ASSUME Inv, Inv', Loaded, FencesMonotone, Current, Starting, [Next]_vars
  PROVE  FencesMonotone' /\ Current'
<1>1. CASE UNCHANGED history
  BY <1>1, QuietOrdered, FenceGrows
<1>2. CASE \E c \in Callers : Create(c)
  BY <1>2, CreateOrdered
<1>3. CASE \E c \in Callers : Step(c) /\ ~Create(c) /\ ~UNCHANGED history
  <2> PICK c \in Callers : Step(c) /\ ~Create(c) /\ ~UNCHANGED history
    BY <1>3
  <2>1. RecoverAppend(c) \/ ResumeAppend(c) \/ Reroute(c) \/ Execute(c) \/ CancelAppend(c)
    BY DEF Step, Claim, RecoverLoad, ResumeLoad, Unwind, Locally, store
  <2>2. Advances(c)
    BY <2>1, RecoverAppendAdvances, ResumeAppendAdvances, RerouteAdvances, ExecuteAdvances,
       CancelAppendAdvances
  <2>3. ~Unloaded(c)
    BY <2>1 DEF RecoverAppend, ResumeAppend, Reroute, Execute, CancelAppend,
       LoopTop, SkipNode, ReturnSuspended, SuspendBefore, Conclude, BeginWave, StartNode,
       Dispatch, MayDispatch, Return, Gather, Settle, CloseStop, CloseEdges, Abort,
       CloseInterrupt, CloseWave, Planning, Unloaded
  <2> QED
    BY <2>2, <2>3, CommitOrdered DEF Advances, Records, Loaded
<1>4. CASE \E c \in Callers : Call(c)
  BY <1>1, <1>4 DEF Call, CallRun, CallRecover, CallCancel, CallResume, CallFork, Begin, store
<1>5. CASE UNCHANGED vars \/ (\E c \in Callers : Crash(c) \/ Heartbeat(c)) \/ (\E r \in Runs : Lapse(r) \/ Revive(r))
  BY <1>1, <1>5 DEF vars, store, Crash, Heartbeat, Lapse, Revive
<1> QED
  BY <1>1, <1>2, <1>3, <1>4, <1>5 DEF Next

LEMMA NextStarting ==
  ASSUME Inv, Starting, [Next]_vars
  PROVE  Starting'
<1>1. ASSUME NEW c \in Callers, pc'[c] # "create",
             \A d \in Callers \ {c} : pc'[d] = pc[d] /\ ck'[d] = ck[d]
      PROVE  Starting'
  BY <1>1 DEF Starting
<1>2. CASE UNCHANGED <<pc, ck>>
  BY <1>2 DEF Starting
<1>3. CASE \E c \in Callers : Advances(c)
  <2> PICK c \in Callers : Advances(c)
    BY <1>3
  <2>1. pc'[c] # "create" /\ \A d \in Callers \ {c} : pc'[d] = pc[d]
    BY DEF Advances, Moves, Onward, Inv, TypeOK
  <2>2. \A d \in Callers \ {c} : ck'[d] = ck[d]
    BY DEF Advances, Records, Commit, Inv, TypeOK
  <2> QED
    BY <1>1, <2>1, <2>2
<1>4. CASE \E c \in Callers : Create(c)
  BY <1>1, <1>4 DEF Create, Goto, Inv, TypeOK
<1>5. CASE \E c \in Callers : Unwind(c) \/ Crash(c)
  BY <1>1, <1>5 DEF Unwind, Crash, Forget, Inv, TypeOK
<1>6. CASE \E c \in Callers : Step(c)
  BY <1>3, <1>4, <1>5, <1>6, ClaimAdvances, RecoverLoadAdvances, RecoverAppendAdvances,
     ResumeLoadAdvances, ResumeAppendAdvances, RerouteAdvances, ExecuteAdvances,
     CancelAppendAdvances DEF Step
<1>7. CASE \E c \in Callers : Call(c)
  <2> PICK c \in Callers : Call(c)
    BY <1>7
  <2>1. ASSUME NEW k \in Checkpoint, k.last = "workflow-start" => k.fence = 0,
               ck' = [ck EXCEPT ![c] = k], Goto(c, "create")
        PROVE  Starting'
    BY <2>1 DEF Starting, Goto, Inv, TypeOK
  <2>2. Initial \in Checkpoint /\ Initial.fence = 0
    BY InitialType DEF Initial
  <2>3. \A k \in Checkpoint : Fork(k) \in Checkpoint /\ Fork(k).last = "workflow-fork"
    <3> TAKE k \in Checkpoint
    <3>1. Fork(k).last = "workflow-fork"
      BY Zenon DEF Fork, Checkpoint
    <3> QED
      BY <3>1, ForkType
  <2>4. CASE \E k \in Keys \cup {NoKey}, r \in Runs : CallRun(c, k, r)
    BY <2>1, <2>2, <2>4 DEF CallRun
  <2>5. CASE \E s, r \in Runs, k \in Keys \cup {NoKey} :
               \E i \in 1..Len(history[s]) : CallFork(c, s, i, k, r)
    BY <2>1, <2>3, <2>5, Stored DEF CallFork
  <2>6. CASE \E r \in Runs : CallRecover(c, r) \/ CallCancel(c, r) \/ \E a : CallResume(c, r, a)
    <3>1. pc'[c] # "create" /\ \A d \in Callers \ {c} : pc'[d] = pc[d] /\ ck'[d] = ck[d]
      BY <2>6 DEF CallRecover, CallCancel, CallResume, Goto, Inv, TypeOK
    <3> QED
      BY <1>1, <3>1
  <2> QED
    BY <2>4, <2>5, <2>6 DEF Call
<1>8. CASE UNCHANGED vars \/ (\E c \in Callers : Heartbeat(c)) \/ (\E r \in Runs : Lapse(r) \/ Revive(r))
  BY <1>2, <1>8 DEF vars, local, Heartbeat, Lapse, Revive
<1> QED
  BY <1>5, <1>6, <1>7, <1>8 DEF Next

\* In the history of a run that was started, no checkpoint of a superseded
\* owner ever follows one of its successor: fencing tokens never decrease,
\* whoever stalls, loses its lease and wakes up again.
THEOREM FencesOrdered == Spec => []FencesMonotone
<1> DEFINE FInv == Loaded /\ FencesMonotone /\ Current /\ Starting
<1>1. Init => FInv
  <2>1. Init => Loaded
    BY InitLoaded
  <2>2. Init => FencesMonotone /\ Current /\ Starting
    BY DEF Init, FencesMonotone, Started, Current, Starting, Exists
  <2> QED
    BY <2>1, <2>2
<1>2. Inv /\ Inv' /\ FInv /\ [Next]_vars => FInv'
  BY NextPreserves, NextLoaded, NextOrdered, NextStarting
<1>3. FInv => FencesMonotone
  OBVIOUS
<1> HIDE DEF FInv
<1> QED
  BY <1>1, <1>2, <1>3, Invariant, PTL DEF Spec
=============================================================================
