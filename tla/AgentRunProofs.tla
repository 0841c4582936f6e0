---------------------------- MODULE AgentRunProofs ----------------------------
(***************************************************************************)
(* Theorems about runs of agents, for any number of runs, resumers and     *)
(* troubles: an approval is claimed once and its tool executed once, what  *)
(* callers are told is what is recorded, nothing is left running unowned,  *)
(* and the store keeps the promises of AgentRunLife.                       *)
(***************************************************************************)
EXTENDS AgentRunProperties, FiniteSetTheorems, TLAPS

Visits == [op : {"list", "cancel"}, run : Runs]

\* What cancel_agent_run_tree has still to do concerns stored runs.
Traversal ==
  /\ todo \in Seq(Visits)
  /\ \A i \in 1..Len(todo) : status[todo[i].run] # "none"

\* Before anyone else may touch a run it is running at its first revision,
\* and only a cancellation takes it from the task that executes it.
RunInv(r) ==
  /\ status[r] = "none" => pc[r] = "none" /\ revision[r] = 0
  /\ revision[r] = 0 => status[r] \in {"none", "running"}
  /\ Live(r) => status[r] = "cancelled" \/ (status[r] = "running" /\ revision[r] = 0)
  /\ outcome[r] \in Terminal => status[r] = outcome[r]
  /\ claim[r] # NoClaim => hand[claim[r]] > 0 /\ target[claim[r]] = r

\* Where a resumer is tells whether it has claimed a run.
Hands(x) ==
  /\ rpc[x] \in {"idle", "claiming"} => hand[x] = 0
  /\ rpc[x] \in Holding \cup {"reconciling"} => hand[x] > 0
  /\ rpc[x] \notin {"idle", "dead"} => target[x] \in Runs
  /\ answer[x] # "none" => rpc[x] \in {"over", "dead"} /\ target[x] \in Runs
  /\ target[x] \in Runs => status[target[x]] # "none"

\* A claim is the newest revision of its run as long as nobody updates it; it
\* is given back only together with the approval.
Claimed(x) ==
  hand[x] > 0 =>
    /\ target[x] \in Runs
    /\ revision[target[x]] >= hand[x]
    /\ revision[target[x]] = hand[x] => status[target[x]] = "running" /\ claim[target[x]] = x
    /\ claim[target[x]] = x \/ (claim[target[x]] = NoClaim /\ ~pending[target[x]])

\* A run is claimed by one resumer.
ClaimedOnce ==
  \A x, y \in Resumers : hand[x] > 0 /\ hand[y] > 0 /\ target[x] = target[y] => x = y

\* The continuation of x has returned a result.
Continued(x) ==
  /\ cont[x] \in Runs
  /\ Answered(x)

\* A save is in flight only of a resumer that was interrupted while it saved.
Saving(x) ==
  /\ rpc[x] = "continuing" => cont[x] \in Runs
  /\ rpc[x] = "settling" => Continued(x)
  /\ x \in inflight => rpc[x] \in {"reconciling", "over", "dead"} /\ hand[x] > 0 /\ Continued(x)
                       /\ answer[x] # "resumed"
  /\ answer[x] = "resumed" =>
       /\ hand[x] > 0 /\ Continued(x)
       /\ claim[target[x]] = NoClaim
       /\ status[target[x]] \in {Returned(x), "cancelled"}

\* The tool of a run is executed by the resumer that claimed it, before the
\* resumer goes on.
Execution(r) ==
  executed[r] # 0 =>
    /\ executed[r] = 1
    /\ \E x \in Resumers : hand[x] > 0 /\ target[x] = r /\ rpc[x] # "claimed"

IInv ==
  /\ TypeOK /\ Traversal
  /\ \A r \in Runs : RunInv(r) /\ Execution(r)
  /\ \A x \in Resumers : Hands(x) /\ Claimed(x) /\ Saving(x)
  /\ ClaimedOnce /\ ClaimGuarded /\ RunningIsOwned /\ ReportsHonest

-----------------------------------------------------------------------------
(* Types *)

LEMMA Initially == Init => IInv
<1> SUFFICES ASSUME Init PROVE IInv
  OBVIOUS
<1>1. TypeOK
  BY NoneAssumption DEF Init, TypeOK, Tasks, Status, PCs, ResumerPCs, Holding
<1>2. Traversal
  BY DEF Init, Traversal
<1>3. \A r \in Runs : RunInv(r) /\ Execution(r)
  BY NoneAssumption DEF Init, RunInv, Execution, Live, Terminal
<1>4. \A x \in Resumers : Hands(x) /\ Claimed(x) /\ Saving(x)
  BY NoneAssumption DEF Init, Hands, Claimed, Saving, Holding
<1>5. ClaimedOnce /\ ClaimGuarded /\ RunningIsOwned /\ ReportsHonest
  BY DEF Init, ClaimedOnce, ClaimGuarded, RunningIsOwned, ReportsHonest, Holding, Terminal
<1> QED
  BY <1>1, <1>2, <1>3, <1>4, <1>5 DEF IInv

LEMMA CancelledTypes ==
  ASSUME TypeOK, NEW r \in Runs, Cancelled(r)
  PROVE  /\ status' \in [Runs -> Status]
         /\ revision' \in [Runs -> Nat]
         /\ UNCHANGED <<key, parent>>
BY DEF TypeOK, Cancelled, Update, CanUpdate, Status, Terminal

LEMMA RecordTypes ==
  ASSUME TypeOK, NEW r \in Runs, NEW s \in {"completed", "failed", "suspended"}, Record(r, s)
  PROVE  /\ status' \in [Runs -> Status]
         /\ revision' \in [Runs -> Nat]
         /\ pending' \in [Runs -> BOOLEAN]
         /\ pc' \in [Runs -> PCs]
         /\ outcome' \in [Runs -> Status \cup {"raised"}]
         /\ UNCHANGED <<key, parent, claim, token, late, task, depth, steps>>
<1>1. pending' \in [Runs -> BOOLEAN]
  BY Zenon DEF TypeOK, Record
<1>2. status' \in [Runs -> Status] /\ revision' \in [Runs -> Nat]
  BY DEF TypeOK, Record, Update, Status, Terminal
<1> QED
  BY <1>1, <1>2 DEF TypeOK, Record, Update, Ends, PCs, Status, Terminal

LEMMA ExecuteTypes ==
  ASSUME TypeOK, NEW r \in Runs, Execute(r)
  PROVE  TypeOK'
<1>1. CASE CheckStart(r) \/ CheckEnd(r)
  BY <1>1 DEF TypeOK, CheckStart, CheckEnd, Check, Goto, PCs, Locally, resumption, operators, store
<1>2. CASE ToolCheck(r) \/ ToolReturns(r) \/ ChildReturns(r) \/ SegmentEnds(r)
  BY <1>2 DEF TypeOK, ToolCheck, ToolReturns, Rechecked, ChildReturns, SegmentEnds, Goto, PCs,
              Locally, resumption, operators, store
<1>3. CASE Finish(r) \/ Suspend(r)
  <2>1. ASSUME NEW s \in {"completed", "failed", "suspended"}, Record(r, s), Locally
        PROVE  TypeOK'
    BY <2>1, RecordTypes DEF TypeOK, Locally, resumption, operators
  <2>2. CASE ~(\E s \in {"completed", "failed", "suspended"} : Record(r, s))
    BY <1>3, <2>2 DEF TypeOK, Finish, Suspend, Persist, Conflict, Ends, Goto, PCs, Status, Terminal,
                      Locally, resumption, operators, store
  <2> QED
    BY <1>3, <2>1, <2>2 DEF Finish, Suspend
<1>4. CASE Fail(r)
  BY <1>4 DEF TypeOK, Fail, Update, Ends, PCs, Status, Terminal, Locally, resumption, operators, store
<1>5. CASE Cancel(r)
  BY <1>5, CancelledTypes DEF TypeOK, Cancel, Ends, PCs, Status, Terminal, Locally, resumption, operators
<1>6. ASSUME NEW c \in Runs, Spawn(r, c) PROVE TypeOK'
  BY <1>6 DEF TypeOK, Spawn, NewRun, PCs, Status, Locally, resumption, operators
<1> QED
  BY <1>1, <1>2, <1>3, <1>4, <1>5, <1>6 DEF Execute

LEMMA SettledTypes ==
  ASSUME TypeOK, NEW x \in Resumers, target[x] \in Runs, Continued(x), Settled(x)
  PROVE  /\ status' \in [Runs -> Status]
         /\ revision' \in [Runs -> Nat]
         /\ pending' \in [Runs -> BOOLEAN]
         /\ claim' \in [Runs -> Resumers \cup {NoClaim}]
         /\ UNCHANGED <<key, parent>>
BY DEF TypeOK, Continued, Answered, Returned, Settled, Update, Status, Terminal

LEMMA ResumptionTypes ==
  ASSUME IInv, NEW x \in Resumers, Resumption(x)
  PROVE  TypeOK'
<1>1. TypeOK /\ Hands(x) /\ Claimed(x) /\ Saving(x)
  BY DEF IInv
<1>2. CASE Claim(x)
  <2>1. target[x] \in Runs
    BY <1>1, <1>2 DEF Claim, Hands
  <2> QED
    BY <1>1, <1>2, <2>1 DEF TypeOK, Claim, Update, Move, Answers, ResumerPCs, Holding, Status,
                            execution, operators, store
<1>3. CASE ExecuteApproved(x)
  BY <1>1, <1>3 DEF TypeOK, ExecuteApproved, Move, ResumerPCs, Holding, execution, operators, store
<1>4. ASSUME NEW c \in Runs, Continue(x, c) PROVE TypeOK'
  <2>1. target[x] \in Runs
    BY <1>1, <1>4 DEF Continue, Hands
  <2> QED
    BY <1>1, <1>4, <2>1 DEF TypeOK, Continue, NewRun, Goto, Move, PCs, ResumerPCs, Holding, Status,
                            Tasks, operators
<1>5. CASE ContinuationEnds(x)
  BY <1>1, <1>5 DEF TypeOK, ContinuationEnds, Move, ResumerPCs, Holding, execution, operators, store
<1>6. CASE Settle(x)
  <2>1. target[x] \in Runs /\ Continued(x)
    BY <1>1, <1>6 DEF Settle, Hands, Saving
  <2> QED
    BY <1>1, <1>6, <2>1, SettledTypes DEF TypeOK, Settle, Move, Answers, ResumerPCs, Holding,
                                          execution, operators, store
<1>7. CASE Reconcile(x)
  <2>1. target[x] \in Runs
    BY <1>1, <1>7 DEF Reconcile, Hands
  <2>2. /\ status' \in [Runs -> Status]
        /\ revision' \in [Runs -> Nat]
        /\ UNCHANGED <<key, parent, pending, claim>>
    BY <1>1, <1>7, <2>1 DEF Reconcile, TypeOK, FailClaim, Update, Status, Terminal, store
  <2> QED
    BY <1>1, <1>7, <2>2 DEF TypeOK, Reconcile, Answers, ResumerPCs, Status, Terminal, execution, operators
<1>8. CASE LateSettle(x)
  <2>1. target[x] \in Runs /\ Continued(x)
    BY <1>1, <1>8 DEF LateSettle, Claimed, Saving
  <2> QED
    BY <1>1, <1>8, <2>1, SettledTypes DEF TypeOK, LateSettle, execution, operators, store
<1> QED
  BY <1>2, <1>3, <1>4, <1>5, <1>6, <1>7, <1>8 DEF Resumption

LEMMA KilledTypes ==
  ASSUME TypeOK, NEW t
  PROVE  Killed(t) \in [Runs -> PCs]
BY DEF TypeOK, Killed, PCs

LEMMA VisitsHead ==
  ASSUME Traversal, todo # <<>>
  PROVE  Head(todo) \in Visits /\ status[Head(todo).run] # "none"
<1>1. Head(todo) = todo[1] /\ 1 \in 1..Len(todo)
  BY DEF Traversal
<1> QED
  BY <1>1 DEF Traversal

LEMMA OperateTypes ==
  ASSUME IInv, Operate
  PROVE  TypeOK'
<1>1. TypeOK /\ Traversal /\ \A x \in Resumers : Claimed(x)
  BY DEF IInv
<1>t. ASSUME NEW r \in Runs, TokenFollows(r) PROVE token' \in SUBSET Tasks
  <2>1. Calls(r) \subseteq Tasks
    BY <1>1 DEF Calls, TypeOK, Tasks
  <2> QED
    BY <1>1, <1>t, <2>1 DEF TypeOK, TokenFollows
<1>2. ASSUME NEW r \in Runs, CancelRun(r) PROVE TypeOK'
  BY <1>1, <1>t, <1>2, CancelledTypes DEF TypeOK, CancelRun, Cancelling, execution, resumption
<1>3. ASSUME NEW r \in Runs, CancelTree(r) PROVE TypeOK'
  BY <1>1, <1>t, <1>3, CancelledTypes DEF TypeOK, CancelTree, Cancelling, execution, resumption
<1>4. ASSUME NEW t \in Tasks, CancelToken(t) PROVE TypeOK'
  BY <1>1, <1>4 DEF TypeOK, CancelToken, Cancelling, execution, resumption
<1>5. todo # <<>> => Head(todo).run \in Runs
  BY <1>1, VisitsHead DEF Visits
<1>6. CASE ListChildren
  BY <1>1, <1>5, <1>6 DEF TypeOK, ListChildren, store, execution, resumption
<1>7. CASE VisitChild
  BY <1>1, <1>5, <1>7, CancelledTypes DEF TypeOK, VisitChild, store, execution, resumption
<1>8. ASSUME NEW x \in Resumers, MonitorFails(x) PROVE TypeOK'
  <2>1. target[x] \in Runs
    BY <1>1, <1>8 DEF MonitorFails, Claimed
  <2>2. FailClaim(target[x], x)
        => /\ status' \in [Runs -> Status]
           /\ revision' \in [Runs -> Nat]
           /\ UNCHANGED <<key, parent, pending, claim>>
    BY <1>1, <2>1 DEF TypeOK, FailClaim, Update, Status, Terminal, store
  <2> QED
    BY <1>1, <1>8, <2>2 DEF TypeOK, MonitorFails, execution, resumption, operators
<1> QED
  BY <1>2, <1>3, <1>4, <1>6, <1>7, <1>8 DEF Operate

LEMMA Types ==
  ASSUME IInv, [Next]_vars
  PROVE  TypeOK'
<1>1. TypeOK
  BY DEF IInv
<1>2. ASSUME NEW r \in Runs, Start(r) PROVE TypeOK'
  BY <1>1, <1>2, StartAssumption DEF TypeOK, Start, NewRun, Goto, Tasks, PCs, Status, Locally, resumption, operators
<1>3. ASSUME NEW r \in Runs, SuspendHookFails(r) PROVE TypeOK'
  BY <1>1, <1>3 DEF TypeOK, SuspendHookFails, Goto, PCs, Locally, store, resumption, operators
<1>4. ASSUME NEW r \in Runs, ChildTimesOut(r) PROVE TypeOK'
  BY <1>1, <1>4 DEF TypeOK, ChildTimesOut, PCs, Trouble, store, resumption, operators
<1>5. ASSUME NEW x \in Resumers, Interrupt(x) PROVE TypeOK'
  BY <1>1, <1>5, KilledTypes DEF TypeOK, Interrupt, Move, ResumerPCs, Trouble, store, operators
<1>6. ASSUME NEW x \in Resumers, NEW r \in Runs, Resume(x, r) PROVE TypeOK'
  BY <1>1, <1>6 DEF TypeOK, Resume, Move, ResumerPCs, store, execution, operators
<1>7. ASSUME NEW t \in Tasks, Die(t) PROVE TypeOK'
  BY <1>1, <1>7, KilledTypes DEF TypeOK, Die, ResumerPCs, Trouble, store, operators
<1>8. CASE UNCHANGED vars
  BY <1>1, <1>8 DEF TypeOK, vars, store, execution, resumption, operators
<1> QED
  BY <1>1, <1>2, <1>3, <1>4, <1>5, <1>6, <1>7, <1>8, ExecuteTypes, ResumptionTypes, OperateTypes DEF Next

-----------------------------------------------------------------------------
(* What the tree's cancellation has still to visit *)

\* A run that is stored stays stored.
LEMMA Stays ==
  ASSUME IInv, [Next]_vars, NEW r \in Runs, status[r] # "none"
  PROVE  status'[r] # "none"
<1>1. TypeOK /\ Traversal /\ \A x \in Resumers : Hands(x) /\ Claimed(x) /\ Saving(x)
  BY DEF IInv
<1>2. ASSUME NEW q \in Runs, Execute(q) PROVE status'[r] # "none"
  BY <1>1, <1>2 DEF TypeOK, Execute, CheckStart, CheckEnd, Check, ToolCheck, ToolReturns, ChildReturns,
      SegmentEnds, Finish, Suspend, Persist, Record, Conflict, Fail, Cancel, Cancelled, Update, Spawn,
      NewRun, store
<1>3. ASSUME NEW x \in Resumers, Resumption(x) PROVE status'[r] # "none"
  BY <1>1, <1>3 DEF TypeOK, Resumption, Claim, ExecuteApproved, Continue, ContinuationEnds, Settle,
      Reconcile, LateSettle, Settled, FailClaim, Update, NewRun, store, Saving, Continued, Answered, Returned
<1>4. CASE Operate
  BY <1>1, <1>4 DEF TypeOK, Operate, CancelRun, CancelTree, CancelToken, ListChildren, VisitChild,
      MonitorFails, FailClaim, Cancelled, Update, store
<1>5. ASSUME NEW q \in Runs, Start(q) \/ SuspendHookFails(q) \/ ChildTimesOut(q) PROVE status'[r] # "none"
  BY <1>1, <1>5 DEF TypeOK, Start, SuspendHookFails, ChildTimesOut, NewRun, store
<1>6. ASSUME NEW x \in Resumers, Interrupt(x) \/ \E q \in Runs : Resume(x, q) PROVE status'[r] # "none"
  BY <1>6 DEF Interrupt, Resume, store
<1>7. ASSUME NEW t \in Tasks, Die(t) PROVE status'[r] # "none"
  BY <1>7 DEF Die, store
<1>8. CASE UNCHANGED vars
  BY <1>8 DEF vars, store
<1> QED
  BY <1>2, <1>3, <1>4, <1>5, <1>6, <1>7, <1>8 DEF Next

LEMMA Traverses ==
  ASSUME IInv, [Next]_vars
  PROVE  Traversal'
<1>1. TypeOK /\ Traversal
  BY DEF IInv
<1>2. CASE UNCHANGED todo
  <2>1. ASSUME NEW i \in 1..Len(todo) PROVE status'[todo[i].run] # "none"
    <3>1. todo[i] \in Visits /\ status[todo[i].run] # "none"
      BY <1>1 DEF Traversal
    <3> QED
      BY <3>1, Stays DEF Visits
  <2> QED
    BY <1>1, <1>2, <2>1 DEF Traversal
<1>3. ASSUME NEW new \in Seq(Visits), NEW rest \in Seq(Visits),
             todo' = new \o rest,
             \A i \in 1..Len(new) : status'[new[i].run] # "none",
             \A i \in 1..Len(rest) : status'[rest[i].run] # "none"
      PROVE  Traversal'
  <2>1. todo' \in Seq(Visits) /\ Len(todo') = Len(new) + Len(rest)
    BY <1>3
  <2>2. \A i \in 1..Len(todo') :
          \/ i \in 1..Len(new) /\ todo'[i] = new[i]
          \/ i - Len(new) \in 1..Len(rest) /\ todo'[i] = rest[i - Len(new)]
    BY <1>3, <2>1
  <2> QED
    BY <1>3, <2>1, <2>2, Zenon DEF Traversal
<1>4. todo # <<>> =>
        /\ Tail(todo) \in Seq(Visits)
        /\ \A i \in 1..Len(Tail(todo)) : status'[Tail(todo)[i].run] # "none"
  <2> SUFFICES ASSUME todo # <<>> PROVE <1>4!2
    OBVIOUS
  <2>1. Tail(todo) \in Seq(Visits)
    BY <1>1 DEF Traversal
  <2>2. ASSUME NEW i \in 1..Len(Tail(todo)) PROVE status'[Tail(todo)[i].run] # "none"
    <3>1. Tail(todo)[i] = todo[i + 1] /\ i + 1 \in 1..Len(todo)
      BY <1>1 DEF Traversal
    <3>2. todo[i + 1] \in Visits /\ status[todo[i + 1].run] # "none"
      BY <1>1, <3>1 DEF Traversal
    <3> QED
      BY <3>1, <3>2, Stays DEF Visits
  <2> QED
    BY <2>1, <2>2
<1>5. ASSUME NEW r \in Runs, CancelTree(r) PROVE Traversal'
  <2> DEFINE new == <<List(r)>>
  <2>1. todo' = new
    BY <1>5 DEF CancelTree
  <2>2. new \in Seq(Visits) /\ Len(new) = 1 /\ new[1].run = r
    BY DEF List, Visits
  <2>3. status'[r] # "none"
    BY <1>5, Stays DEF CancelTree, Next, Operate
  <2> QED
    BY <2>1, <2>2, <2>3 DEF Traversal
<1>6. CASE ListChildren
  <2>1. todo # <<>> /\ UNCHANGED status
    BY <1>6 DEF ListChildren, store
  <2> DEFINE below == Children(Head(todo).run)
  <2>2. PICK order \in [1..Cardinality(below) -> below] :
          todo' = [i \in DOMAIN order |-> Visit(order[i])] \o Tail(todo)
    BY <1>6 DEF ListChildren
  <2>3. below \subseteq Stored /\ Stored \subseteq Runs
    BY DEF Children, Stored
  <2>4. Cardinality(below) \in Nat
    BY <2>3, RunsAssumption, FS_Subset, FS_CardinalityType
  <2> DEFINE n == Cardinality(below)
             new == [i \in 1..n |-> Visit(order[i])]
  <2>5. new \in Seq(Visits) /\ Len(new) = n
    <3>1. \A i \in 1..n : Visit(order[i]) \in Visits
      BY <2>3 DEF Visit, Visits
    <3> HIDE DEF n
    <3> QED
      BY <2>4, <3>1 DEF n
  <2>6. \A i \in 1..Len(new) : status'[new[i].run] # "none"
    BY <2>1, <2>3, <2>5 DEF Visit, Stored
  <2>7. todo' = new \o Tail(todo)
    BY <2>2
  <2> HIDE DEF new
  <2> QED
    BY <1>3, <1>4, <2>1, <2>5, <2>6, <2>7
<1>7. CASE VisitChild
  <2>1. todo # <<>>
    BY <1>7 DEF VisitChild
  <2> DEFINE c == Head(todo).run
             new == <<List(c)>>
  <2>2. c \in Runs /\ status'[c] # "none"
    BY <1>1, <2>1, VisitsHead, Stays DEF Visits
  <2>3. new \in Seq(Visits) /\ Len(new) = 1 /\ \A i \in 1..Len(new) : status'[new[i].run] # "none"
    BY <2>2 DEF List, Visits
  <2>4. todo' = new \o Tail(todo) \/ todo' = Tail(todo)
    BY <1>7 DEF VisitChild, Visited
  <2> HIDE DEF new
  <2> QED
    BY <1>3, <1>4, <2>1, <2>3, <2>4 DEF Traversal
<1> QED
  <2>1. UNCHANGED todo \/ ListChildren \/ VisitChild \/ \E r \in Runs : CancelTree(r)
    BY DEF Next, vars, operators, Locally, Operate, Start, SuspendHookFails, ChildTimesOut, Execute,
           CheckStart, CheckEnd, Check, ToolCheck, ToolReturns, ChildReturns, SegmentEnds, Finish,
           Suspend, Fail, Cancel, Spawn, Resumption, Claim, ExecuteApproved, Continue,
           ContinuationEnds, Settle, Reconcile, LateSettle, Interrupt, Resume, Die, CancelRun,
           CancelToken, MonitorFails
  <2> QED
    BY <1>2, <1>5, <1>6, <1>7, <2>1

-----------------------------------------------------------------------------
(* What a step does to a run, and to a resumer *)

SameState(r) == status'[r] = status[r] /\ revision'[r] = revision[r]
SameApproval(r) == pending'[r] = pending[r] /\ claim'[r] = claim[r]
SameTask(r) == pc'[r] = pc[r] /\ outcome'[r] = outcome[r]
NextRevision(r, s) == status'[r] = s /\ revision'[r] = revision[r] + 1

\* Its task moves on, or is killed.
Advances(r) ==
  /\ Live(r) /\ pc'[r] \notin {"none", "over"} /\ outcome'[r] = outcome[r]
  /\ SameState(r) /\ SameApproval(r)

\* Its task ends without a word in the store.
Unrecorded(r) ==
  /\ Live(r) /\ SameState(r) /\ SameApproval(r)
  /\ pc'[r] = "unrecorded" /\ outcome'[r] = "raised"

\* Its task records the end of the run.
Recorded(r) ==
  /\ Live(r) /\ status[r] = "running" /\ revision[r] = 0
  /\ \E s \in Terminal \cup {"suspended"} : NextRevision(r, s) /\ outcome'[r] \in {s, "raised"}
  /\ pc'[r] = "over" /\ claim'[r] = claim[r]

\* Its task ends because the run is cancelled already.
Stopped(r) ==
  /\ Live(r) /\ status[r] = "cancelled" /\ SameState(r) /\ SameApproval(r)
  /\ pc'[r] = "over" /\ outcome'[r] = "cancelled"

Created(r) ==
  /\ status[r] = "none" /\ status'[r] = "running" /\ revision'[r] = revision[r]
  /\ SameApproval(r) /\ pc'[r] = "begin" /\ outcome'[r] = outcome[r]

\* Somebody cancels it.
Withdrawn(r) ==
  /\ status[r] \in {"running", "suspended"} /\ NextRevision(r, "cancelled")
  /\ SameApproval(r) /\ SameTask(r)

\* Its claim is failed.
ClaimFailed(r) ==
  /\ status[r] = "running" /\ claim[r] # NoClaim /\ NextRevision(r, "failed")
  /\ SameApproval(r) /\ SameTask(r)

ClaimedBy(r, x) ==
  /\ Claimable(r) /\ target[x] = r /\ rpc[x] = "claiming"
  /\ NextRevision(r, "running") /\ claim'[r] = x /\ pending'[r] = pending[r]
  /\ hand'[x] = revision'[r]
  /\ SameTask(r)

SettledBy(r, x) ==
  /\ target[x] = r /\ hand[x] > 0 /\ CanUpdate(r, hand[x])
  /\ rpc[x] = "settling" \/ x \in inflight
  /\ rpc'[x] \notin Holding
  /\ NextRevision(r, Returned(x)) /\ claim'[r] = NoClaim /\ ~pending'[r]
  /\ SameTask(r)

RunStep(r) ==
  \/ SameState(r) /\ SameApproval(r) /\ SameTask(r)
  \/ Advances(r) \/ Unrecorded(r) \/ Recorded(r) \/ Stopped(r) \/ Created(r) \/ Withdrawn(r)
  \/ ClaimFailed(r)
  \/ \E x \in Resumers : ClaimedBy(r, x) \/ SettledBy(r, x)

SameHand(x) == target'[x] = target[x] /\ hand'[x] = hand[x]
SameAnswer(x) == answer'[x] = answer[x]
SameCont(x) == cont'[x] = cont[x]
SameSave(x) == x \in inflight' => x \in inflight

Turns(x, from, to) == rpc[x] = from /\ rpc'[x] = to

ResumerStep(x) ==
  \/ rpc'[x] \in {rpc[x], "dead"} /\ SameHand(x) /\ SameAnswer(x) /\ SameCont(x) /\ SameSave(x)
  \/ /\ Turns(x, "idle", "claiming") /\ target'[x] \in Runs /\ status[target'[x]] = "suspended"
     /\ hand'[x] = hand[x] /\ SameAnswer(x) /\ SameCont(x) /\ SameSave(x)
  \/ /\ Turns(x, "claiming", "claimed") /\ target'[x] = target[x] /\ Claimable(target[x])
     /\ hand'[x] = revision[target[x]] + 1 /\ ClaimedBy(target[x], x)
     /\ SameAnswer(x) /\ SameCont(x) /\ SameSave(x)
  \/ Turns(x, "claiming", "over") /\ answer'[x] = "refused" /\ SameHand(x) /\ SameCont(x) /\ SameSave(x)
  \/ /\ rpc[x] = "claimed" /\ rpc'[x] \in {"resolved", "reconciling"}
     /\ SameHand(x) /\ SameAnswer(x) /\ SameCont(x) /\ SameSave(x)
  \/ Turns(x, "resolved", "continuing") /\ cont'[x] \in Runs /\ SameHand(x) /\ SameAnswer(x) /\ SameSave(x)
  \/ /\ Turns(x, "continuing", "settling") /\ Answered(x)
     /\ SameHand(x) /\ SameAnswer(x) /\ SameCont(x) /\ SameSave(x)
  \/ /\ Turns(x, "settling", "over") /\ answer'[x] = "resumed" /\ SettledBy(target[x], x)
     /\ SameHand(x) /\ SameCont(x) /\ SameSave(x)
  \/ /\ rpc[x] \in Holding /\ rpc'[x] = "reconciling"
     /\ x \in inflight' => x \in inflight \/ rpc[x] = "settling"
     /\ SameHand(x) /\ SameAnswer(x) /\ SameCont(x)
  \/ /\ Turns(x, "reconciling", "over")
     /\ \/ answer'[x] \in {"failed", "cancelled"} /\ status'[target[x]] = answer'[x]
        \/ /\ answer'[x] = "changed"
           /\ status'[target[x]] # "running" \/ claim'[target[x]] # x
     /\ SameHand(x) /\ SameCont(x) /\ SameSave(x)

ToolStep(r) ==
  \/ executed'[r] = executed[r]
  \/ /\ executed'[r] = executed[r] + 1
     /\ \E x \in Resumers : rpc[x] = "claimed" /\ rpc'[x] # "claimed" /\ target[x] = r /\ SameHand(x)

\* Every step is one of these for every run and every resumer.
Shape ==
  /\ \A r \in Runs : RunStep(r) /\ ToolStep(r)
  /\ \A x \in Resumers : ResumerStep(x)

LEMMA Untouched ==
  ASSUME UNCHANGED resumption
  PROVE  /\ \A x \in Resumers : ResumerStep(x)
         /\ \A r \in Runs : ToolStep(r)
BY DEF resumption, ResumerStep, ToolStep, SameHand, SameAnswer, SameCont, SameSave

LEMMA ExecuteShape ==
  ASSUME IInv, NEW q \in Runs, Execute(q)
  PROVE  Shape
<1>1. TypeOK /\ \A r \in Runs : RunInv(r)
  BY DEF IInv
<1> USE DEF SameState, SameApproval, SameTask, NextRevision
<1>2. UNCHANGED resumption
  BY DEF Execute, CheckStart, CheckEnd, Check, ToolCheck, ToolReturns, ChildReturns, SegmentEnds,
         Finish, Suspend, Fail, Cancel, Spawn, Locally
<1>3. CASE CheckStart(q) \/ CheckEnd(q) \/ ToolCheck(q) \/ ToolReturns(q) \/ ChildReturns(q) \/ SegmentEnds(q)
  <2>1. Live(q) /\ UNCHANGED <<store, outcome>>
    BY <1>3 DEF CheckStart, CheckEnd, Check, ToolCheck, ToolReturns, ChildReturns, SegmentEnds, Live, store
  <2>2. UNCHANGED pc \/ \E p \in PCs \ {"none", "over"} : Goto(q, p)
    BY <1>3 DEF CheckStart, CheckEnd, Check, ToolCheck, ToolReturns, ChildReturns, SegmentEnds, PCs
  <2>3. \A r \in Runs : RunStep(r)
    BY <1>1, <2>1, <2>2 DEF RunStep, Advances, TypeOK, Goto, store
  <2> QED
    BY <1>2, <2>3, Untouched DEF Shape
<1>4. ASSUME NEW s \in {"completed", "failed", "suspended"}, Record(q, s), Live(q)
      PROVE  \A r \in Runs : RunStep(r)
  <2>1. ASSUME NEW r \in Runs \ {q} PROVE RunStep(r)
    BY <1>1, <1>4, <2>1 DEF RunStep, Record, Update, Ends, TypeOK
  <2>2. RunStep(q)
    BY <1>1, <1>4 DEF RunStep, Recorded, Record, CanUpdate, Update, Ends, TypeOK, RunInv, Terminal
  <2> QED
    BY <2>1, <2>2
<1>5. CASE Finish(q) \/ Suspend(q)
  <2>1. Live(q)
    BY <1>5 DEF Finish, Suspend, Live
  <2>2. ~CanUpdate(q, 0) => status[q] = "cancelled"
    BY <1>1, <2>1 DEF RunInv, CanUpdate, Terminal
  <2>3. CASE ~(\E s \in {"completed", "failed", "suspended"} : Record(q, s))
    <3>1. status[q] = "cancelled" /\ UNCHANGED store
      BY <1>5, <2>2, <2>3 DEF Finish, Suspend, Persist, Conflict
    <3>2. \/ Goto(q, "cancelling") /\ UNCHANGED outcome
          \/ Ends(q, "cancelled")
      BY <1>5, <2>2, <2>3 DEF Finish, Suspend, Persist, Conflict
    <3> QED
      BY <1>1, <1>2, <2>1, <3>1, <3>2, Untouched
         DEF Shape, RunStep, Advances, Stopped, Goto, Ends, TypeOK, store
  <2> QED
    BY <1>2, <1>4, <2>1, <2>3, Untouched DEF Shape
<1>6. CASE Fail(q)
  <2>1. Live(q)
    BY <1>6 DEF Fail, Live
  <2>2. ASSUME NEW r \in Runs \ {q} PROVE RunStep(r)
    BY <1>1, <1>6 DEF RunStep, Fail, Update, Ends, TypeOK, store
  <2>3. RunStep(q)
    BY <1>1, <1>6, <2>1 DEF RunStep, Recorded, Stopped, Fail, CanUpdate, Update, Ends, TypeOK, RunInv,
                            Terminal, store
  <2> QED
    BY <1>2, <2>2, <2>3, Untouched DEF Shape
<1>7. CASE Cancel(q)
  <2>1. Live(q)
    BY <1>7 DEF Cancel, Live
  <2>2. ASSUME NEW r \in Runs \ {q} PROVE RunStep(r)
    BY <1>1, <1>7 DEF RunStep, Cancel, Cancelled, Update, Ends, TypeOK
  <2>3. RunStep(q)
    BY <1>1, <1>7, <2>1 DEF RunStep, Recorded, Stopped, Cancel, Cancelled, CanUpdate, Update, Ends,
                            TypeOK, RunInv, Terminal
  <2> QED
    BY <1>2, <2>2, <2>3, Untouched DEF Shape
<1>8. ASSUME NEW c \in Runs, Spawn(q, c) PROVE Shape
  <2>1. Live(q) /\ q # c
    BY <1>1, <1>8 DEF Spawn, NewRun, Live, RunInv
  <2> QED
    BY <1>1, <1>2, <1>8, <2>1, Untouched DEF Shape, RunStep, Advances, Created, Spawn, NewRun, TypeOK
<1> QED
  BY <1>3, <1>5, <1>6, <1>7, <1>8 DEF Execute

\* The runs and resumers that a step is not about.
LEMMA OthersRun ==
  ASSUME NEW r, SameState(r), SameApproval(r), SameTask(r)
  PROVE  RunStep(r)
BY DEF RunStep

LEMMA OthersResume ==
  ASSUME TypeOK, NEW x \in Resumers,
         UNCHANGED target, UNCHANGED cont, UNCHANGED executed,
         \A y \in Resumers \ {x} : rpc'[y] = rpc[y] /\ SameHand(y) /\ SameAnswer(y) /\ SameSave(y),
         ResumerStep(x)
  PROVE  /\ \A y \in Resumers : ResumerStep(y)
         /\ \A r \in Runs : ToolStep(r)
BY DEF ResumerStep, SameCont, ToolStep

LEMMA SettledShape ==
  ASSUME TypeOK, NEW x \in Resumers, target[x] \in Runs, hand[x] > 0, CanUpdate(target[x], hand[x]),
         rpc[x] = "settling" \/ x \in inflight,
         rpc'[x] \notin Holding, Settled(x), UNCHANGED execution
  PROVE  SettledBy(target[x], x) /\ \A r \in Runs : RunStep(r)
<1> USE DEF SameState, SameApproval, SameTask, NextRevision
<1>1. SettledBy(target[x], x)
  BY DEF SettledBy, Settled, Update, execution, TypeOK
<1>2. ASSUME NEW r \in Runs \ {target[x]} PROVE RunStep(r)
  BY DEF RunStep, Settled, Update, execution, TypeOK
<1> QED
  BY <1>1, <1>2 DEF RunStep

LEMMA FailClaimShape ==
  ASSUME TypeOK, NEW x \in Resumers, target[x] \in Runs, FailClaim(target[x], x), UNCHANGED execution
  PROVE  \A r \in Runs : RunStep(r)
<1> USE DEF SameState, SameApproval, SameTask, NextRevision
<1>1. ASSUME NEW r \in Runs \ {target[x]} PROVE RunStep(r)
  BY DEF RunStep, FailClaim, Update, execution, store, TypeOK
<1>2. RunStep(target[x])
  BY NoneAssumption DEF RunStep, ClaimFailed, FailClaim, ClaimStands, Update, execution, store, TypeOK
<1> QED
  BY <1>1, <1>2

LEMMA ResumptionShape ==
  ASSUME IInv, NEW x \in Resumers, Resumption(x)
  PROVE  Shape
<1>1. TypeOK /\ Hands(x) /\ Claimed(x) /\ Saving(x) /\ \A r \in Runs : RunInv(r)
  BY DEF IInv
<1> USE DEF SameState, SameApproval, SameTask, NextRevision, SameHand, SameAnswer, SameCont, SameSave, Turns
<1>2. CASE Claim(x)
  <2>1. target[x] \in Runs /\ rpc[x] = "claiming"
    BY <1>1, <1>2 DEF Claim, Hands
  <2>2. CASE Claimable(target[x])
    <3>1. ClaimedBy(target[x], x)
      BY <1>1, <1>2, <2>1, <2>2 DEF Claim, ClaimedBy, Update, Move, execution, TypeOK
    <3>2. ASSUME NEW r \in Runs \ {target[x]} PROVE RunStep(r)
      BY <1>1, <1>2, <2>1, <2>2 DEF RunStep, Claim, Update, execution, TypeOK
    <3>3. ResumerStep(x)
      BY <1>1, <1>2, <2>1, <2>2, <3>1 DEF ResumerStep, Claim, Move, TypeOK
    <3>4. (\A y \in Resumers : ResumerStep(y)) /\ (\A r \in Runs : ToolStep(r))
      BY <1>1, <1>2, <2>2, <3>3, OthersResume DEF Claim, Move, TypeOK
    <3> QED
      BY <3>1, <3>2, <3>4 DEF Shape, RunStep, ToolStep
  <2>3. CASE ~Claimable(target[x])
    <3>1. \A r \in Runs : RunStep(r)
      BY <1>2, <2>3, OthersRun DEF Claim, store, execution
    <3>2. ResumerStep(x)
      BY <1>1, <1>2, <2>1, <2>3 DEF ResumerStep, Claim, Answers, TypeOK
    <3> QED
      BY <1>1, <1>2, <2>3, <3>1, <3>2, OthersResume DEF Shape, Claim, Answers, TypeOK
  <2> QED
    BY <2>2, <2>3
<1>3. CASE ExecuteApproved(x)
  <2>1. \A r \in Runs : RunStep(r)
    BY <1>3, OthersRun DEF ExecuteApproved, store, execution
  <2>2. \A y \in Resumers : ResumerStep(y)
    BY <1>1, <1>3 DEF ExecuteApproved, Move, ResumerStep, Holding, TypeOK
  <2>3. ASSUME NEW r \in Runs PROVE ToolStep(r)
    BY <1>1, <1>3 DEF ExecuteApproved, Move, ToolStep, TypeOK
  <2> QED
    BY <2>1, <2>2, <2>3 DEF Shape
<1>4. ASSUME NEW c \in Runs, Continue(x, c) PROVE Shape
  <2>1. ASSUME NEW r \in Runs PROVE RunStep(r)
    BY <1>1, <1>4 DEF RunStep, Created, Continue, NewRun, Goto, TypeOK
  <2>2. \A y \in Resumers : ResumerStep(y)
    BY <1>1, <1>4 DEF ResumerStep, Continue, Move, TypeOK
  <2>3. \A r \in Runs : ToolStep(r)
    BY <1>4 DEF ToolStep, Continue
  <2> QED
    BY <2>1, <2>2, <2>3 DEF Shape
<1>5. CASE ContinuationEnds(x)
  <2>1. \A r \in Runs : RunStep(r)
    BY <1>5, OthersRun DEF ContinuationEnds, store, execution
  <2>2. ResumerStep(x)
    BY <1>1, <1>5 DEF ResumerStep, ContinuationEnds, Move, Holding, TypeOK
  <2> QED
    BY <1>1, <1>5, <2>1, <2>2, OthersResume DEF Shape, ContinuationEnds, Move, TypeOK
<1>6. CASE Settle(x)
  <2>1. target[x] \in Runs /\ rpc[x] = "settling" /\ hand[x] > 0 /\ UNCHANGED execution
    BY <1>1, <1>6 DEF Settle, Hands, Holding
  <2>2. CASE CanUpdate(target[x], hand[x])
    <3>0. rpc'[x] = "over"
      BY <1>1, <1>6, <2>2 DEF Settle, Answers, TypeOK
    <3>1. SettledBy(target[x], x) /\ \A r \in Runs : RunStep(r)
      BY <1>1, <1>6, <2>1, <2>2, <3>0, SettledShape DEF Settle, Holding
    <3>2. ResumerStep(x)
      BY <1>1, <1>6, <2>1, <2>2, <3>1 DEF ResumerStep, Settle, Answers, TypeOK
    <3> QED
      BY <1>1, <1>6, <2>2, <3>1, <3>2, OthersResume DEF Shape, Settle, Answers, TypeOK
  <2>3. CASE ~CanUpdate(target[x], hand[x])
    <3>1. \A r \in Runs : RunStep(r)
      BY <1>6, <2>3, OthersRun DEF Settle, store, execution
    <3>2. ResumerStep(x)
      BY <1>1, <1>6, <2>1, <2>3 DEF ResumerStep, Settle, Move, Holding, TypeOK
    <3> QED
      BY <1>1, <1>6, <2>3, <3>1, <3>2, OthersResume DEF Shape, Settle, Move, TypeOK
  <2> QED
    BY <2>2, <2>3
<1>7. CASE Reconcile(x)
  <2>1. target[x] \in Runs /\ rpc[x] = "reconciling" /\ UNCHANGED execution /\ FailClaim(target[x], x)
    BY <1>1, <1>7 DEF Reconcile, Hands
  <2>2. \A r \in Runs : RunStep(r)
    BY <1>1, <2>1, FailClaimShape
  <2>3. ResumerStep(x)
    <3>1. CASE ClaimStands(target[x], x)
      <4>1. rpc'[x] = "over" /\ answer'[x] = "failed" /\ SameHand(x) /\ SameCont(x) /\ SameSave(x)
        BY <1>1, <1>7, <3>1 DEF Reconcile, Answers, ClaimStands, TypeOK
      <4>2. status'[target[x]] = "failed"
        BY <1>1, <2>1, <3>1 DEF FailClaim, Update, TypeOK
      <4> QED
        BY <2>1, <4>1, <4>2 DEF ResumerStep
    <3>2. CASE ~ClaimStands(target[x], x)
      BY <1>1, <1>7, <2>1, <3>2 DEF ResumerStep, Reconcile, Answers, FailClaim, ClaimStands, store, TypeOK
    <3> QED
      BY <3>1, <3>2
  <2> QED
    BY <1>1, <1>7, <2>2, <2>3, OthersResume DEF Shape, Reconcile, Answers, TypeOK
<1>8. CASE LateSettle(x)
  <2>1. target[x] \in Runs /\ x \in inflight /\ hand[x] > 0 /\ rpc'[x] \notin Holding /\ UNCHANGED execution
    BY <1>1, <1>8 DEF LateSettle, Claimed, Saving, Holding
  <2>2. \A r \in Runs : RunStep(r)
    BY <1>1, <1>8, <2>1, SettledShape, OthersRun DEF LateSettle, store, execution
  <2>3. \A y \in Resumers : ResumerStep(y)
    BY <1>8 DEF LateSettle, ResumerStep
  <2>4. \A r \in Runs : ToolStep(r)
    BY <1>8 DEF LateSettle, ToolStep
  <2> QED
    BY <2>2, <2>3, <2>4 DEF Shape
<1> QED
  BY <1>2, <1>3, <1>4, <1>5, <1>6, <1>7, <1>8 DEF Resumption

LEMMA CancelledShape ==
  ASSUME TypeOK, NEW q \in Runs, status[q] # "none", Cancelled(q), UNCHANGED <<pending, claim, execution>>
  PROVE  \A r \in Runs : RunStep(r)
<1> USE DEF SameState, SameApproval, SameTask, NextRevision
<1>1. ASSUME NEW r \in Runs \ {q} PROVE RunStep(r)
  BY DEF RunStep, Cancelled, Update, execution, TypeOK
<1>2. RunStep(q)
  BY DEF RunStep, Withdrawn, Cancelled, CanUpdate, Update, execution, TypeOK, Status, Terminal
<1> QED
  BY <1>1, <1>2

LEMMA OperateShape ==
  ASSUME IInv, Operate
  PROVE  Shape
<1>1. TypeOK /\ Traversal /\ \A x \in Resumers : Claimed(x)
  BY DEF IInv
<1> USE DEF SameState, SameApproval, SameTask
<1>2. ASSUME UNCHANGED resumption, \A r \in Runs : RunStep(r) PROVE Shape
  BY <1>2, Untouched DEF Shape
<1>3. ASSUME NEW q \in Runs, CancelRun(q) \/ CancelTree(q) PROVE Shape
  BY <1>1, <1>2, <1>3, CancelledShape DEF CancelRun, CancelTree, Cancelling
<1>4. ASSUME NEW t \in Tasks, CancelToken(t) PROVE Shape
  BY <1>2, <1>4, OthersRun DEF CancelToken, Cancelling, execution
<1>5. CASE ListChildren
  BY <1>2, <1>5, OthersRun DEF ListChildren, store, execution
<1>6. CASE VisitChild
  <2>1. Head(todo).run \in Runs /\ status[Head(todo).run] # "none"
    BY <1>1, <1>6, VisitsHead DEF VisitChild, Visits
  <2> QED
    BY <1>1, <1>2, <1>6, <2>1, CancelledShape, OthersRun DEF VisitChild, store, execution
<1>7. ASSUME NEW x \in Resumers, MonitorFails(x) PROVE Shape
  BY <1>1, <1>2, <1>7, FailClaimShape DEF MonitorFails, Claimed
<1> QED
  BY <1>3, <1>4, <1>5, <1>6, <1>7 DEF Operate

LEMMA NextShape ==
  ASSUME IInv, [Next]_vars
  PROVE  Shape
<1>1. TypeOK /\ \A r \in Runs : RunInv(r)
  BY DEF IInv
<1> USE DEF SameState, SameApproval, SameTask, SameHand, SameAnswer, SameCont, SameSave, Turns
<1>2. ASSUME NEW q \in Runs, Start(q) PROVE Shape
  <2>1. ASSUME NEW r \in Runs PROVE RunStep(r)
    BY <1>1, <1>2 DEF RunStep, Created, Start, NewRun, Goto, TypeOK
  <2> QED
    BY <1>2, <2>1, Untouched DEF Shape, Start, Locally
<1>3. ASSUME NEW q \in Runs, SuspendHookFails(q) \/ ChildTimesOut(q) PROVE Shape
  <2>1. ASSUME NEW r \in Runs PROVE RunStep(r)
    BY <1>1, <1>3 DEF RunStep, Advances, Unrecorded, SuspendHookFails, ChildTimesOut, Under, Goto, Live,
                      TypeOK, store
  <2> QED
    BY <1>3, <2>1, Untouched DEF Shape, SuspendHookFails, ChildTimesOut, Locally
<1>4. ASSUME NEW t, pc' = Killed(t), UNCHANGED <<store, outcome>>, NEW r \in Runs PROVE RunStep(r)
  BY <1>1, <1>4 DEF RunStep, Advances, Killed, Live, TypeOK, store
<1>5. ASSUME NEW x \in Resumers, Interrupt(x) PROVE Shape
  <2>1. \A r \in Runs : RunStep(r)
    BY <1>4, <1>5 DEF Interrupt
  <2>2. ResumerStep(x)
    BY <1>1, <1>5 DEF ResumerStep, Interrupt, Move, TypeOK
  <2> QED
    BY <1>1, <1>5, <2>1, <2>2, OthersResume DEF Shape, Interrupt, Move, TypeOK
<1>6. ASSUME NEW x \in Resumers, NEW q \in Runs, Resume(x, q) PROVE Shape
  <2>1. \A r \in Runs : RunStep(r)
    BY <1>6, OthersRun DEF Resume, store, execution
  <2>2. \A y \in Resumers : ResumerStep(y)
    BY <1>1, <1>6 DEF Resume, Move, ResumerStep, TypeOK
  <2>3. \A r \in Runs : ToolStep(r)
    BY <1>6 DEF Resume, ToolStep
  <2> QED
    BY <2>1, <2>2, <2>3 DEF Shape
<1>7. ASSUME NEW t \in Tasks, Die(t) PROVE Shape
  <2>1. \A r \in Runs : RunStep(r)
    BY <1>4, <1>7 DEF Die
  <2>2. \A y \in Resumers : ResumerStep(y)
    BY <1>1, <1>7 DEF Die, ResumerStep, TypeOK
  <2>3. \A r \in Runs : ToolStep(r)
    BY <1>7 DEF Die, ToolStep
  <2> QED
    BY <2>1, <2>2, <2>3 DEF Shape
<1>8. CASE UNCHANGED vars
  BY <1>8, OthersRun, Untouched DEF Shape, vars, store, execution
<1> QED
  BY <1>2, <1>3, <1>5, <1>6, <1>7, <1>8, ExecuteShape, ResumptionShape, OperateShape DEF Next

-----------------------------------------------------------------------------
(* The invariant *)

\* What is known before a step, and what the step does.
LEMMA Known ==
  ASSUME IInv, Shape
  PROVE  /\ TypeOK
         /\ \A r \in Runs : RunInv(r) /\ Execution(r) /\ RunStep(r) /\ ToolStep(r)
         /\ \A x \in Resumers : Hands(x) /\ Claimed(x) /\ Saving(x) /\ ResumerStep(x)
         /\ ClaimedOnce /\ ClaimGuarded /\ RunningIsOwned /\ ReportsHonest
BY DEF IInv, Shape

\* A resumer that has claimed a run keeps its hand on it.
LEMMA HandKept ==
  ASSUME IInv, Shape, NEW x \in Resumers, hand[x] > 0
  PROVE  SameHand(x) /\ rpc[x] \notin {"idle", "claiming"}
         /\ (rpc'[x] = "claimed" => rpc[x] = "claimed")
BY Known DEF Hands, ResumerStep, Turns, SameHand

\* A run that a resumer has claimed is changed by that resumer only, or ended
\* by an operator.
LEMMA ClaimedStep ==
  ASSUME IInv, Shape, NEW x \in Resumers, hand[x] > 0
  PROVE  LET r == target[x] IN
         /\ r \in Runs
         /\ \/ SameState(r) /\ SameApproval(r)
            \/ Withdrawn(r) \/ ClaimFailed(r) \/ SettledBy(r, x)
<1>1. target[x] \in Runs /\ Claimed(x) /\ RunInv(target[x]) /\ RunStep(target[x]) /\ TypeOK /\ ClaimedOnce
  BY Known DEF Claimed
<1>2. revision[target[x]] > 0 /\ status[target[x]] # "none"
  BY <1>1 DEF Claimed, RunInv, TypeOK
<1>3. ~(claim[target[x]] = NoClaim /\ pending[target[x]])
  BY <1>1, NoneAssumption DEF Claimed
<1>4. ~Recorded(target[x]) /\ ~Created(target[x])
  BY <1>2 DEF Recorded, Created
<1>5. \A y \in Resumers : ~ClaimedBy(target[x], y)
  BY <1>3 DEF ClaimedBy, Claimable
<1>6. \A y \in Resumers : SettledBy(target[x], y) => y = x
  BY <1>1 DEF SettledBy, ClaimedOnce
<1> QED
  BY <1>1, <1>4, <1>5, <1>6 DEF RunStep, Advances, Unrecorded, Stopped

LEMMA RunKept ==
  ASSUME IInv, Shape, NEW r \in Runs
  PROVE  RunInv(r)'
<1>1. TypeOK /\ RunInv(r) /\ RunStep(r)
  BY Known
<1> USE DEF SameState, SameApproval, SameTask, NextRevision
<1>2. ASSUME NEW x \in Resumers, claim[r] = x
      PROVE  hand[x] > 0 /\ target[x] = r /\ revision[r] > 0 /\ hand'[x] > 0 /\ target'[x] = r
  <2>1. hand[x] > 0 /\ target[x] = r
    BY <1>1, <1>2, NoneAssumption DEF RunInv
  <2>2. revision[r] > 0
    BY <2>1, <1>1, Known DEF Claimed, TypeOK
  <2> QED
    BY <2>1, <2>2, HandKept DEF SameHand
<1>3. ASSUME NEW x \in Resumers, ClaimedBy(r, x) PROVE hand'[x] > 0 /\ target'[x] = r
  <2>1. ResumerStep(x) /\ revision[r] \in Nat
    BY <1>1, Known DEF TypeOK
  <2> QED
    BY <1>3, <2>1 DEF ClaimedBy, ResumerStep, Turns, SameHand, Holding
<1>4. claim[r] \in Resumers \cup {NoClaim}
  BY <1>1 DEF TypeOK
<1>5. (claim[r] # NoClaim => hand[claim[r]] > 0 /\ target[claim[r]] = r)'
  BY <1>1, <1>2, <1>3, <1>4, NoneAssumption
     DEF RunStep, Advances, Unrecorded, Recorded, Stopped, Created, Withdrawn, ClaimFailed, ClaimedBy,
         SettledBy
<1>6. (status[r] = "none" => pc[r] = "none" /\ revision[r] = 0)'
      /\ (revision[r] = 0 => status[r] \in {"none", "running"})'
  <2>1. \A x \in Resumers : SettledBy(r, x) => Returned(x) # "none"
    BY Known DEF SettledBy, Saving, Continued, Answered
  <2> QED
    BY <1>1, <2>1 DEF RunStep, RunInv, Advances, Unrecorded, Recorded, Stopped, Created, Withdrawn,
                      ClaimFailed, ClaimedBy, SettledBy, Live, Terminal, TypeOK
<1>7. (Live(r) => status[r] = "cancelled" \/ (status[r] = "running" /\ revision[r] = 0))'
  <2>1. Live(r) => ~ClaimFailed(r) /\ \A x \in Resumers : ~ClaimedBy(r, x) /\ ~SettledBy(r, x)
    BY <1>1, <1>2, <1>4 DEF RunInv, ClaimFailed, ClaimedBy, SettledBy, Claimable, CanUpdate, Terminal
  <2>2. Live(r)' => Live(r) \/ Created(r)
    BY <1>1 DEF RunStep, Advances, Unrecorded, Recorded, Stopped, Withdrawn, ClaimFailed, ClaimedBy,
                SettledBy, Live
  <2> QED
    BY <1>1, <2>1, <2>2 DEF RunStep, RunInv, Advances, Unrecorded, Recorded, Stopped, Created, Withdrawn,
                            Live
<1>8. (outcome[r] \in Terminal => status[r] = outcome[r])'
  BY <1>1 DEF RunStep, RunInv, Advances, Unrecorded, Recorded, Stopped, Created, Withdrawn, ClaimFailed,
              ClaimedBy, SettledBy, CanUpdate, Claimable, Terminal
<1> QED
  BY <1>5, <1>6, <1>7, <1>8 DEF RunInv

LEMMA ExecutionKept ==
  ASSUME IInv, Shape, NEW r \in Runs
  PROVE  Execution(r)'
<1>1. TypeOK /\ Execution(r) /\ ToolStep(r) /\ ClaimedOnce
  BY Known
<1>2. ASSUME NEW x \in Resumers, hand[x] > 0, target[x] = r, rpc[x] # "claimed" \/ rpc'[x] # "claimed"
      PROVE  hand'[x] > 0 /\ target'[x] = r /\ rpc'[x] # "claimed"
  BY <1>2, HandKept DEF SameHand
<1>3. CASE executed'[r] = executed[r]
  BY <1>1, <1>2, <1>3 DEF Execution
<1>4. ASSUME NEW x \in Resumers, rpc[x] = "claimed", rpc'[x] # "claimed", target[x] = r,
             executed'[r] = executed[r] + 1
      PROVE  Execution(r)'
  <2>1. hand[x] > 0
    BY <1>4, Known DEF Hands, Holding
  <2>2. executed[r] = 0
    BY <1>1, <1>4, <2>1 DEF Execution, ClaimedOnce
  <2> QED
    BY <1>2, <1>4, <2>1, <2>2 DEF Execution
<1> QED
  BY <1>1, <1>3, <1>4 DEF ToolStep

LEMMA HandsKept ==
  ASSUME IInv, Shape, NEW x \in Resumers
  PROVE  Hands(x)' /\ Claimed(x)'
<1>1. TypeOK /\ Hands(x) /\ Claimed(x) /\ Saving(x) /\ ResumerStep(x)
  BY Known
<1> USE DEF SameHand, SameAnswer, SameCont, SameState, SameApproval, NextRevision
<1>2. ASSUME NEW r \in Runs, status[r] # "none" PROVE status'[r] # "none"
  <2>1. RunStep(r) /\ \A y \in Resumers : SettledBy(r, y) => Returned(y) # "none"
    BY Known DEF SettledBy, Saving, Continued, Answered
  <2> QED
    BY <1>2, <2>1 DEF RunStep, Advances, Unrecorded, Recorded, Stopped, Created, Withdrawn, ClaimFailed,
                      ClaimedBy, SettledBy, Terminal
<1>3. (target[x] \in Runs => status[target[x]] # "none")'
  BY <1>1, <1>2 DEF Hands, ResumerStep, Turns
<1>4. Hands(x)'
  <2>1. Claimable(target[x]) /\ rpc[x] = "claiming" => revision[target[x]] + 1 > 0
    BY <1>1 DEF Hands, TypeOK
  <2> QED
    BY <1>1, <1>3, <2>1 DEF Hands, ResumerStep, Turns, Holding
<1>5. CASE hand[x] > 0
  <2>1. SameHand(x)
    BY <1>5, HandKept
  <2>2. target[x] \in Runs /\ revision[target[x]] \in Nat /\ hand[x] \in Nat
    BY <1>1, <1>5 DEF Claimed, TypeOK
  <2> DEFINE r == target[x]
  <2>3. \/ SameState(r) /\ SameApproval(r)
        \/ Withdrawn(r) \/ ClaimFailed(r) \/ SettledBy(r, x)
    BY <1>5, ClaimedStep
  <2>4. /\ revision[r] >= hand[x]
        /\ revision[r] = hand[x] => status[r] = "running" /\ claim[r] = x
        /\ claim[r] = x \/ (claim[r] = NoClaim /\ ~pending[r])
    BY <1>1, <1>5 DEF Claimed
  <2>5. CASE revision'[r] = revision[r] + 1
    <3>1. claim'[r] = x \/ (claim'[r] = NoClaim /\ ~pending'[r])
      BY <2>3, <2>4 DEF Withdrawn, ClaimFailed, SettledBy
    <3> QED
      BY <1>4, <2>1, <2>2, <2>4, <2>5, <3>1 DEF Claimed
  <2>6. CASE SameState(r) /\ SameApproval(r)
    BY <1>4, <2>1, <2>2, <2>4, <2>6 DEF Claimed
  <2> QED
    BY <2>3, <2>5, <2>6 DEF Withdrawn, ClaimFailed, SettledBy
<1>6. CASE hand[x] = 0
  <2>1. hand'[x] > 0 => Turns(x, "claiming", "claimed") /\ target'[x] = target[x]
                        /\ hand'[x] = revision[target[x]] + 1 /\ ClaimedBy(target[x], x)
    BY <1>1, <1>6 DEF ResumerStep
  <2>2. rpc[x] = "claiming" => target[x] \in Runs /\ revision[target[x]] \in Nat
    BY <1>1 DEF Hands, TypeOK
  <2>3. hand'[x] > 0 =>
          /\ target'[x] \in Runs
          /\ revision'[target'[x]] = hand'[x] /\ hand'[x] \in Nat
          /\ status'[target'[x]] = "running" /\ claim'[target'[x]] = x
    BY <2>1, <2>2 DEF Turns, ClaimedBy
  <2> QED
    BY <1>4, <2>3 DEF Claimed
<1>7. hand[x] \in Nat
  BY <1>1 DEF TypeOK
<1> QED
  BY <1>4, <1>5, <1>6, <1>7

LEMMA OnceKept ==
  ASSUME IInv, Shape
  PROVE  ClaimedOnce'
<1> SUFFICES ASSUME NEW x \in Resumers, NEW y \in Resumers, hand'[x] > 0, hand'[y] > 0,
                    target'[x] = target'[y], x # y
             PROVE  FALSE
  BY DEF ClaimedOnce
<1>1. TypeOK /\ ClaimedOnce
  BY Known
<1>2. ASSUME NEW z \in Resumers, hand'[z] > 0
      PROVE  \/ hand[z] > 0 /\ SameHand(z)
             \/ ClaimedBy(target[z], z) /\ target'[z] = target[z]
  <2>1. CASE hand[z] > 0
    BY <2>1, HandKept
  <2>2. CASE hand[z] = 0
    <3>1. ResumerStep(z) /\ hand'[z] # hand[z]
      BY <1>2, <2>2, Known
    <3> QED
      BY <3>1 DEF ResumerStep, SameHand
  <2>3. hand[z] \in Nat
    BY <1>1 DEF TypeOK
  <2> QED
    BY <2>1, <2>2, <2>3
<1>3. ASSUME NEW z \in Resumers, hand[z] > 0, NEW w \in Resumers, ClaimedBy(target[z], w)
      PROVE  FALSE
  BY <1>1, <1>3, Known, NoneAssumption DEF Claimed, ClaimedBy, Claimable
<1>4. ClaimedBy(target[x], x) /\ ClaimedBy(target[y], y) /\ target[x] = target[y] => FALSE
  BY DEF ClaimedBy
<1> QED
  BY <1>1, <1>2, <1>3, <1>4 DEF ClaimedOnce, SameHand

LEMMA SavingKept ==
  ASSUME IInv, Shape, NEW x \in Resumers
  PROVE  Saving(x)'
<1>1. TypeOK /\ Hands(x) /\ Claimed(x) /\ Saving(x) /\ ResumerStep(x)
  BY Known
<1> USE DEF SameHand, SameAnswer, SameCont, SameSave, SameTask
<1>2. ASSUME NEW c \in Runs, pc[c] = "over" PROVE SameTask(c)
  BY <1>2, Known DEF RunInv, RunStep, Advances, Unrecorded, Recorded, Stopped, Created, Withdrawn,
                     ClaimFailed, ClaimedBy, SettledBy, Live
<1>3. ASSUME cont'[x] = cont[x], cont[x] \in Runs, Answered(x) PROVE Continued(x)' /\ Returned(x)' = Returned(x)
  BY <1>2, <1>3 DEF Continued, Answered, Returned
<1>4. (rpc[x] = "continuing" => cont[x] \in Runs)'
  BY <1>1 DEF Saving, ResumerStep, Turns, Holding
<1>5. (rpc[x] = "settling" => Continued(x))'
  BY <1>1, <1>3 DEF Saving, ResumerStep, Turns, Continued, Holding
<1>6. (x \in inflight => rpc[x] \in {"reconciling", "over", "dead"} /\ hand[x] > 0 /\ Continued(x)
                       /\ answer[x] # "resumed")'
  BY <1>1, <1>3 DEF Saving, Hands, ResumerStep, Turns, Continued, Holding
<1>7. CASE answer[x] = "resumed"
  <2>1. hand[x] > 0 /\ Continued(x) /\ rpc[x] \in {"over", "dead"} /\ x \notin inflight
    BY <1>1, <1>7 DEF Saving, Hands
  <2>2. SameHand(x) /\ SameCont(x)
    BY <1>1, <2>1 DEF ResumerStep, Turns, Holding
  <2>3. ~SettledBy(target[x], x) /\ ~ClaimFailed(target[x])
    BY <1>1, <1>7, <2>1 DEF SettledBy, ClaimFailed, Saving
  <2> QED
    BY <1>1, <1>3, <1>4, <1>5, <1>6, <1>7, <2>1, <2>2, <2>3, ClaimedStep
       DEF Saving, Continued, SameState, SameApproval, Withdrawn, NextRevision
<1>8. CASE answer'[x] = "resumed" /\ answer[x] # "resumed"
  <2>1. rpc[x] = "settling" /\ SettledBy(target[x], x) /\ SameHand(x) /\ SameCont(x)
    BY <1>1, <1>8 DEF ResumerStep, Turns
  <2>2. Continued(x)
    BY <1>1, <2>1 DEF Saving
  <2> QED
    BY <1>3, <1>4, <1>5, <1>6, <2>1, <2>2 DEF Saving, SettledBy, NextRevision, Continued
<1> QED
  BY <1>4, <1>5, <1>6, <1>7, <1>8 DEF Saving

LEMMA GuardKept ==
  ASSUME IInv, Shape
  PROVE  ClaimGuarded'
<1> SUFFICES ASSUME NEW x \in Resumers, rpc'[x] \in Holding
             PROVE  (/\ claim[target[x]] = x
                     /\ \/ status[target[x]] = "running" /\ revision[target[x]] = hand[x]
                        \/ status[target[x]] \in {"cancelled", "failed"})'
  BY DEF ClaimGuarded
<1>1. TypeOK /\ Hands(x) /\ ResumerStep(x)
  BY Known
<1> USE DEF SameHand, SameState, SameApproval, NextRevision
<1>2. CASE rpc[x] \in Holding
  <2>1. hand[x] > 0
    BY <1>1, <1>2 DEF Hands
  <2>2. /\ claim[target[x]] = x
        /\ \/ status[target[x]] = "running" /\ revision[target[x]] = hand[x]
           \/ status[target[x]] \in {"cancelled", "failed"}
    BY <1>2, Known DEF ClaimGuarded
  <2>3. ~SettledBy(target[x], x)
    BY DEF SettledBy
  <2> QED
    BY <2>1, <2>2, <2>3, HandKept, ClaimedStep DEF Withdrawn, ClaimFailed
<1>3. CASE rpc[x] \notin Holding
  <2>1. Turns(x, "claiming", "claimed") /\ target'[x] = target[x] /\ hand'[x] = revision[target[x]] + 1
        /\ ClaimedBy(target[x], x)
    BY <1>1, <1>3 DEF ResumerStep, Turns, Holding
  <2> QED
    BY <2>1 DEF ClaimedBy
<1> QED
  BY <1>2, <1>3

LEMMA OwnedKept ==
  ASSUME IInv, Shape, TypeOK'
  PROVE  RunningIsOwned'
<1> SUFFICES ASSUME NEW r \in Runs, status'[r] = "running"
             PROVE  (\/ Live(r) \/ pc[r] \in {"unrecorded", "dead"}
                     \/ \E x \in Resumers : claim[r] = x /\ rpc[x] \in Holding \cup {"reconciling", "dead"})'
  BY DEF RunningIsOwned
<1>1. TypeOK /\ RunInv(r) /\ RunStep(r) /\ RunningIsOwned
  BY Known
<1> USE DEF SameState, SameApproval, SameTask, NextRevision
<1>2. CASE SameState(r) /\ SameApproval(r) /\ SameTask(r)
  <2>1. ASSUME NEW x \in Resumers, claim[r] = x, rpc[x] \in Holding \cup {"reconciling", "dead"}
        PROVE  rpc'[x] \in Holding \cup {"reconciling", "dead"}
    <3>1. ResumerStep(x) /\ hand[x] > 0 /\ target[x] = r
      BY <1>1, <2>1, Known, NoneAssumption DEF RunInv
    <3>2. ~SettledBy(r, x)
      BY <1>2, <3>1, ClaimedStep, <1>1 DEF SettledBy, TypeOK
    <3> QED
      BY <1>2, <2>1, <3>1, <3>2 DEF ResumerStep, Turns, Holding
  <2> QED
    BY <1>1, <1>2, <2>1 DEF RunningIsOwned, Live
<1>3. CASE Advances(r) \/ Unrecorded(r) \/ Created(r)
  BY <1>3 DEF Advances, Unrecorded, Created, Live
<1>4. ASSUME NEW x \in Resumers, ClaimedBy(r, x) PROVE rpc'[x] = "claimed" /\ claim'[r] = x
  <2>1. ResumerStep(x) /\ hand[x] = 0 /\ hand'[x] = revision[r] + 1 /\ revision[r] \in Nat
    BY <1>1, <1>4, Known DEF ClaimedBy, Hands, TypeOK
  <2> QED
    BY <1>4, <2>1 DEF ClaimedBy, ResumerStep, Turns, SameHand, Holding
<1>5. \A x \in Resumers : ~SettledBy(r, x)
  BY Known DEF SettledBy, Saving, Continued, Answered
<1> QED
  BY <1>1, <1>2, <1>3, <1>4, <1>5
     DEF RunStep, RunInv, Recorded, Stopped, Withdrawn, ClaimFailed, Terminal, Holding

LEMMA HonestKept ==
  ASSUME IInv, Shape
  PROVE  ReportsHonest'
<1>1. \A r \in Runs : (outcome[r] \in Terminal => status[r] = outcome[r])'
  BY RunKept DEF RunInv
<1> SUFFICES ASSUME NEW x \in Resumers
             PROVE  (/\ answer[x] \in {"failed", "cancelled"} => status[target[x]] = answer[x]
                     /\ answer[x] = "resumed" => status[target[x]] \in {Returned(x), "cancelled"}
                     /\ answer[x] # "none" => status[target[x]] # "running" \/ claim[target[x]] # x)'
  BY <1>1 DEF ReportsHonest
<1>2. TypeOK /\ Hands(x) /\ ResumerStep(x) /\ ReportsHonest
  BY Known
<1> USE DEF SameHand, SameAnswer, SameState, SameApproval, NextRevision
<1>3. (answer[x] = "resumed" => status[target[x]] \in {Returned(x), "cancelled"} /\ claim[target[x]] = NoClaim)'
  BY SavingKept DEF Saving
<1>4. CASE answer[x] # "none"
  <2>1. rpc[x] \in {"over", "dead"} /\ target[x] \in Runs /\ SameHand(x) /\ SameAnswer(x)
    BY <1>2, <1>4 DEF Hands, ResumerStep, Turns, Holding
  <2>2. RunStep(target[x]) /\ status[target[x]] # "none" /\ RunInv(target[x])
    BY <1>2, <2>1, Known DEF Hands
  <2>3. answer[x] \in {"failed", "cancelled"} => status'[target[x]] = status[target[x]]
    BY <1>2, <2>2 DEF ReportsHonest, RunStep, Advances, Unrecorded, Recorded, Stopped, Created, Withdrawn,
                      ClaimFailed, ClaimedBy, Claimable, SettledBy, CanUpdate, Terminal
  <2>4. status'[target[x]] # "running" \/ claim'[target[x]] # x
    <3>1. status[target[x]] # "running" \/ claim[target[x]] # x
      BY <1>2, <1>4 DEF ReportsHonest
    <3>2. ~ClaimedBy(target[x], x)
      BY <2>1 DEF ClaimedBy
    <3>3. \A y \in Resumers : SettledBy(target[x], y) => claim'[target[x]] # x
      BY NoneAssumption DEF SettledBy
    <3> QED
      BY <2>2, <3>1, <3>2, <3>3 DEF RunStep, Advances, Unrecorded, Recorded, Stopped, Created, Withdrawn,
                      ClaimFailed, ClaimedBy, Terminal
  <2> QED
    BY <1>2, <1>3, <1>4, <2>1, <2>3, <2>4 DEF ReportsHonest
<1>5. CASE answer'[x] # "none" /\ answer[x] = "none"
  <2>1. CASE answer'[x] = "resumed"
    BY <1>3, <2>1, NoneAssumption
  <2>2. CASE Turns(x, "claiming", "over") /\ answer'[x] = "refused" /\ SameHand(x)
    <3>1. target[x] \in Runs /\ hand[x] = 0
      BY <1>2, <2>2 DEF Hands, Turns
    <3>2. claim[target[x]] # x /\ RunStep(target[x])
      BY <3>1, Known, NoneAssumption DEF RunInv
    <3>3. ~ClaimedBy(target[x], x)
      BY <1>2, <2>2, <3>1 DEF ClaimedBy, TypeOK
    <3>4. claim'[target[x]] # x
      BY <3>2, <3>3, NoneAssumption DEF RunStep, Advances, Unrecorded, Recorded, Stopped, Created, Withdrawn,
                                        ClaimFailed, ClaimedBy, SettledBy
    <3> QED
      BY <2>2, <3>4
  <2>3. CASE /\ Turns(x, "reconciling", "over")
             /\ \/ answer'[x] \in {"failed", "cancelled"} /\ status'[target[x]] = answer'[x]
                \/ /\ answer'[x] = "changed"
                   /\ status'[target[x]] # "running" \/ claim'[target[x]] # x
             /\ SameHand(x)
    BY <2>3
  <2> QED
    BY <1>2, <1>5, <2>1, <2>2, <2>3 DEF ResumerStep
<1> QED
  BY <1>3, <1>4, <1>5

LEMMA Inductive == IInv /\ [Next]_vars => IInv'
<1> SUFFICES ASSUME IInv, [Next]_vars PROVE IInv'
  OBVIOUS
<1>1. Shape /\ TypeOK' /\ Traversal'
  BY NextShape, Types, Traverses
<1> QED
  BY <1>1, RunKept, ExecutionKept, HandsKept, OnceKept, SavingKept, GuardKept, OwnedKept, HonestKept
     DEF IInv

\* The inductive invariant of agent runs, under every step of runs, resumers
\* and operators (run_agent, resume_agent_run, cancel_agent_run).
THEOREM Invariance == Spec => []IInv
BY Initially, Inductive, PTL DEF Spec

-----------------------------------------------------------------------------
(* Theorems *)

\* The variables keep their types.
THEOREM TypeCorrect == Spec => []TypeOK
BY Invariance, PTL DEF IInv

\* claim_pending_approval and resume_agent_run: the tool that a human approved
\* is executed at most once, however many callers resume the run.
THEOREM ApprovalExecutesOnce == Spec => []ApprovedOnce
<1>1. IInv => ApprovedOnce
  BY DEF IInv, ApprovedOnce, Execution, TypeOK
<1> QED
  BY <1>1, Invariance, PTL

\* While a resumer works its claim stands, and only a cancellation or a failed
\* claim has moved the run on.
THEOREM ClaimsGuard == Spec => []ClaimGuarded
BY Invariance, PTL DEF IInv

\* Callers are told what the store holds.
THEOREM ReportsAreHonest == Spec => []ReportsHonest
BY Invariance, PTL DEF IInv

\* _run_impl and resume_agent_run leave no run running that nobody executes or
\* claims, unless its task was killed or cancelled by asyncio, or an
\* on_agent_end hook raised while it suspended (agent.py:1111-1118), the one
\* error path that forgets.
THEOREM RunningOwned == Spec => []RunningIsOwned
BY Invariance, PTL DEF IInv

-----------------------------------------------------------------------------
(* The store implements AgentRunLife *)

HasClaimed == [r \in Runs |-> \E x \in Resumers : target[x] = r /\ hand[x] > 0]

LifeVars == <<status, revision, key, claim, HasClaimed>>

LEMMA LifeInitially == Init => Life!Init
<1> SUFFICES ASSUME Init PROVE Life!Init
  OBVIOUS
<1>1. HasClaimed = [r \in Runs |-> FALSE]
  BY DEF Init, HasClaimed
<1> QED
  BY <1>1 DEF Init, Life!Init, HasClaimed

LEMMA LifeCreates ==
  ASSUME TypeOK, NEW r \in Runs, NEW k \in Keys \cup Runs \cup {NoKey}, NEW p, NEW t, NEW d,
         NewRun(r, k, p, t, d), UNCHANGED <<hand, target>>
  PROVE  Life!Next
<1>1. UNCHANGED HasClaimed
  BY DEF HasClaimed
<1>2. key'[r] = k /\ key' = [key EXCEPT ![r] = key'[r]]
  BY DEF NewRun, TypeOK
<1>3. key'[r] # NoKey => \A s \in Runs : status[s] # "none" => key[s] # key'[r]
  BY <1>2 DEF NewRun, KeyFree, Stored
<1>4. Life!Create(r)
  BY <1>1, <1>2, <1>3 DEF NewRun, Life!Create, HasClaimed
<1> QED
  BY <1>4 DEF Life!Next

\* The run ends or is suspended by whoever runs it.
LEMMA LifeSettles ==
  ASSUME TypeOK, NEW r \in Runs, status[r] = "running", NEW s \in Terminal \cup {"suspended"}, Update(r, s),
         UNCHANGED claim \/ claim' = [claim EXCEPT ![r] = NoClaim], UNCHANGED <<hand, target>>
  PROVE  Life!Next
<1>1. UNCHANGED HasClaimed
  BY DEF HasClaimed
<1>2. claim' = [claim EXCEPT ![r] = claim'[r]] /\ claim'[r] \in {claim[r], NoClaim}
  BY DEF TypeOK
<1>3. Life!Settle(r)
  BY <1>1, <1>2 DEF Update, Life!Settle, Life!Revise, Life!Terminal, Terminal, HasClaimed
<1> QED
  BY <1>3 DEF Life!Next

LEMMA LifeCancels ==
  ASSUME TypeOK, NEW r \in Runs, status[r] # "none", Cancelled(r), UNCHANGED <<claim, hand, target>>
  PROVE  Life!Next \/ UNCHANGED LifeVars
<1>1. UNCHANGED HasClaimed
  BY DEF HasClaimed
<1>2. CASE CanUpdate(r, revision[r])
  <2>1. Life!Cancel(r)
    BY <1>1, <1>2 DEF Cancelled, CanUpdate, Update, Life!Cancel, Life!Revise, TypeOK, Status, Terminal,
                      HasClaimed
  <2> QED
    BY <2>1 DEF Life!Next
<1>3. CASE ~CanUpdate(r, revision[r])
  BY <1>1, <1>3 DEF Cancelled, LifeVars
<1> QED
  BY <1>2, <1>3

LEMMA LifeFailsClaim ==
  ASSUME TypeOK, NEW x \in Resumers, target[x] \in Runs, FailClaim(target[x], x), UNCHANGED <<hand, target>>
  PROVE  Life!Next \/ UNCHANGED LifeVars
<1>1. UNCHANGED HasClaimed
  BY DEF HasClaimed
<1>2. CASE ClaimStands(target[x], x)
  BY <1>2, LifeSettles DEF FailClaim, ClaimStands, Terminal
<1>3. CASE ~ClaimStands(target[x], x)
  BY <1>1, <1>3 DEF FailClaim, store, LifeVars
<1> QED
  BY <1>2, <1>3

LEMMA LifeStutters ==
  ASSUME UNCHANGED <<status, revision, key, claim, hand, target>>
  PROVE  UNCHANGED LifeVars
BY DEF LifeVars, HasClaimed

LEMMA LifeExecutes ==
  ASSUME IInv, NEW q \in Runs, Execute(q)
  PROVE  Life!Next \/ UNCHANGED LifeVars
<1>1. TypeOK /\ RunInv(q)
  BY DEF IInv
<1>2. UNCHANGED <<hand, target>>
  BY DEF Execute, CheckStart, CheckEnd, Check, ToolCheck, ToolReturns, ChildReturns, SegmentEnds,
         Finish, Suspend, Fail, Cancel, Spawn, Locally, resumption
<1>3. CASE CheckStart(q) \/ CheckEnd(q) \/ ToolCheck(q) \/ ToolReturns(q) \/ ChildReturns(q) \/ SegmentEnds(q)
  BY <1>2, <1>3, LifeStutters DEF CheckStart, CheckEnd, Check, ToolCheck, ToolReturns, ChildReturns,
                                  SegmentEnds, store
<1>4. ASSUME NEW s \in {"completed", "failed", "suspended"}, Record(q, s), Live(q)
      PROVE  Life!Next
  BY <1>1, <1>2, <1>4, LifeSettles DEF Record, CanUpdate, RunInv, Terminal
<1>5. CASE Finish(q) \/ Suspend(q)
  <2>1. CASE \E s \in {"completed", "failed", "suspended"} : Record(q, s)
    BY <1>4, <1>5, <2>1 DEF Finish, Suspend, Live
  <2>2. CASE ~(\E s \in {"completed", "failed", "suspended"} : Record(q, s))
    BY <1>2, <1>5, <2>2, LifeStutters DEF Finish, Suspend, Persist, Conflict, store
  <2> QED
    BY <2>1, <2>2
<1>6. CASE Fail(q)
  <2>1. CASE CanUpdate(q, 0)
    BY <1>1, <1>2, <1>6, <2>1, LifeSettles DEF Fail, CanUpdate, RunInv, Live, Terminal
  <2>2. CASE ~CanUpdate(q, 0)
    BY <1>2, <1>6, <2>2, LifeStutters DEF Fail, store
  <2> QED
    BY <2>1, <2>2
<1>7. CASE Cancel(q)
  BY <1>1, <1>2, <1>7, LifeCancels DEF Cancel, RunInv
<1>8. ASSUME NEW c \in Runs, Spawn(q, c) PROVE Life!Next
  BY <1>1, <1>2, <1>8, LifeCreates DEF Spawn
<1> QED
  BY <1>3, <1>5, <1>6, <1>7, <1>8 DEF Execute

LEMMA LifeResumes ==
  ASSUME IInv, NEW x \in Resumers, Resumption(x)
  PROVE  Life!Next \/ UNCHANGED LifeVars
<1>1. /\ TypeOK /\ Hands(x) /\ Claimed(x) /\ Saving(x)
      /\ \A y \in Resumers : Claimed(y)
  BY DEF IInv
<1>2. CASE Claim(x)
  <2>1. PICK r \in Runs : r = target[x]
    BY <1>1, <1>2 DEF Claim, Hands
  <2>2. CASE Claimable(r)
    <3>1. /\ status[r] = "suspended" /\ Update(r, "running")
          /\ claim' = [claim EXCEPT ![r] = x]
          /\ hand' = [hand EXCEPT ![x] = revision[r] + 1]
          /\ UNCHANGED target
      BY <1>2, <2>1, <2>2 DEF Claim, Claimable
    <3>2. ~\E y \in Resumers : target[y] = r /\ hand[y] > 0
      BY <1>1, <2>2, NoneAssumption DEF Claimed, Claimable
    <3>3. revision[r] + 1 > 0
      BY <1>1, <2>1 DEF TypeOK
    <3>4. HasClaimed' = [HasClaimed EXCEPT ![r] = TRUE] /\ ~HasClaimed[r]
      <4>1. hand'[x] > 0 /\ target'[x] = r
        BY <1>1, <2>1, <3>1, <3>3 DEF TypeOK
      <4>2. \A y \in Resumers \ {x} : hand'[y] = hand[y] /\ target'[y] = target[y]
        BY <1>1, <3>1 DEF TypeOK
      <4>3. ASSUME NEW q \in Runs
            PROVE  (\E y \in Resumers : target'[y] = q /\ hand'[y] > 0) <=>
                     \/ q = r
                     \/ \E y \in Resumers : target[y] = q /\ hand[y] > 0
        <5>1. CASE q = r
          BY <4>1, <5>1
        <5>2. CASE q # r
          BY <4>1, <4>2, <3>1, <5>2
        <5> QED
          BY <5>1, <5>2
      <4> QED
        BY <2>1, <3>2, <4>3, ZenonT(60) DEF HasClaimed
    <3>5. claim' = [claim EXCEPT ![r] = claim'[r]] /\ claim'[r] # NoClaim
      BY <1>1, <2>1, <3>1, NoneAssumption DEF TypeOK
    <3>6. Life!Claim(r)
      BY <3>1, <3>4, <3>5 DEF Update, Life!Claim, Life!Revise, HasClaimed
    <3> QED
      BY <3>6 DEF Life!Next
  <2>3. CASE ~Claimable(r)
    BY <1>2, <2>1, <2>3, LifeStutters DEF Claim, store
  <2> QED
    BY <2>2, <2>3
<1>3. CASE ExecuteApproved(x) \/ ContinuationEnds(x)
  BY <1>3, LifeStutters DEF ExecuteApproved, ContinuationEnds, store
<1>4. ASSUME NEW c \in Runs, Continue(x, c) PROVE Life!Next
  <2>1. target[x] \in Runs
    BY <1>1, <1>4 DEF Continue, Hands
  <2> QED
    BY <1>1, <1>4, <2>1, LifeCreates DEF Continue
<1>5. ASSUME target[x] \in Runs, hand[x] > 0, CanUpdate(target[x], hand[x]), Settled(x), Continued(x),
             UNCHANGED <<hand, target>>
      PROVE  Life!Next
  <2>1. status[target[x]] = "running"
    BY <1>1, <1>5 DEF CanUpdate, Claimed
  <2>2. Returned(x) \in Terminal \cup {"suspended"}
    BY <1>5 DEF Continued, Answered, Terminal
  <2> QED
    BY <1>1, <1>5, <2>1, <2>2, LifeSettles DEF Settled
<1>6. CASE Settle(x)
  <2>1. target[x] \in Runs /\ hand[x] > 0 /\ Continued(x)
    BY <1>1, <1>6 DEF Settle, Hands, Holding, Saving
  <2> QED
    BY <1>5, <1>6, <2>1, LifeStutters DEF Settle, store
<1>7. CASE Reconcile(x)
  <2>1. target[x] \in Runs
    BY <1>1, <1>7 DEF Reconcile, Hands
  <2> QED
    BY <1>1, <1>7, <2>1, LifeFailsClaim DEF Reconcile
<1>8. CASE LateSettle(x)
  <2>1. target[x] \in Runs /\ hand[x] > 0 /\ Continued(x)
    BY <1>1, <1>8 DEF LateSettle, Claimed, Saving
  <2> QED
    BY <1>5, <1>8, <2>1, LifeStutters DEF LateSettle, store
<1> QED
  BY <1>2, <1>3, <1>4, <1>6, <1>7, <1>8 DEF Resumption

LEMMA LifeOperates ==
  ASSUME IInv, Operate
  PROVE  Life!Next \/ UNCHANGED LifeVars
<1>1. TypeOK /\ Traversal /\ \A x \in Resumers : Claimed(x)
  BY DEF IInv
<1>2. ASSUME NEW q \in Runs, CancelRun(q) \/ CancelTree(q) PROVE Life!Next \/ UNCHANGED LifeVars
  BY <1>1, <1>2, LifeCancels DEF CancelRun, CancelTree, Cancelling, resumption
<1>3. ASSUME NEW t \in Tasks, CancelToken(t) PROVE UNCHANGED LifeVars
  BY <1>3, LifeStutters DEF CancelToken, Cancelling, resumption
<1>4. CASE ListChildren
  BY <1>4, LifeStutters DEF ListChildren, store, resumption
<1>5. CASE VisitChild
  <2>1. Head(todo).run \in Runs /\ status[Head(todo).run] # "none"
    BY <1>1, <1>5, VisitsHead DEF VisitChild, Visits
  <2> QED
    BY <1>1, <1>5, <2>1, LifeCancels, LifeStutters DEF VisitChild, store, resumption
<1>6. ASSUME NEW x \in Resumers, MonitorFails(x) PROVE Life!Next \/ UNCHANGED LifeVars
  BY <1>1, <1>6, LifeFailsClaim DEF MonitorFails, Claimed, resumption
<1> QED
  BY <1>2, <1>3, <1>4, <1>5, <1>6 DEF Operate

LEMMA LifeSteps ==
  ASSUME IInv, [Next]_vars
  PROVE  Life!Next \/ UNCHANGED LifeVars
<1>1. TypeOK /\ \A x \in Resumers : Hands(x)
  BY DEF IInv
<1>2. ASSUME NEW q \in Runs, Start(q) PROVE Life!Next
  BY <1>1, <1>2, LifeCreates, StartAssumption DEF Start, Locally, resumption
<1>3. ASSUME NEW q \in Runs, SuspendHookFails(q) \/ ChildTimesOut(q) PROVE UNCHANGED LifeVars
  BY <1>3, LifeStutters DEF SuspendHookFails, ChildTimesOut, Locally, store, resumption
<1>4. ASSUME NEW x \in Resumers, Interrupt(x) PROVE UNCHANGED LifeVars
  BY <1>4, LifeStutters DEF Interrupt, store
<1>5. ASSUME NEW x \in Resumers, NEW q \in Runs, Resume(x, q) PROVE UNCHANGED LifeVars
  <2>1. hand[x] = 0 /\ hand' = hand /\ \A y \in Resumers \ {x} : target'[y] = target[y]
    BY <1>1, <1>5 DEF Resume, Hands, TypeOK
  <2>2. ASSUME NEW r \in Runs
        PROVE  (\E y \in Resumers : target'[y] = r /\ hand'[y] > 0) <=>
                 \E y \in Resumers : target[y] = r /\ hand[y] > 0
    BY <2>1
  <2>3. UNCHANGED HasClaimed
    BY <2>2, Zenon DEF HasClaimed
  <2> QED
    BY <1>5, <2>3 DEF Resume, store, LifeVars
<1>6. ASSUME NEW t \in Tasks, Die(t) PROVE UNCHANGED LifeVars
  BY <1>6, LifeStutters DEF Die, store
<1>7. CASE UNCHANGED vars
  BY <1>7, LifeStutters DEF vars, store, resumption
<1> QED
  BY <1>2, <1>3, <1>4, <1>5, <1>6, <1>7, LifeExecutes, LifeResumes, LifeOperates DEF Next

\* The stores and their callers keep what docs/agents/durable-state.md
\* promises: one run per key, revisions that count, terminal states that
\* nobody overwrites, one claim of an approval.
THEOREM Refinement == Spec => ImplementsAgentRunLife
<1>1. Init => Life!Init
  BY LifeInitially
<1>2. IInv /\ [Next]_vars => [Life!Next]_(Life!vars)
  BY LifeSteps DEF LifeVars, HasClaimed, Life!vars
<1> QED
  BY <1>1, <1>2, Invariance, PTL DEF Spec, ImplementsAgentRunLife, Life!Spec

-----------------------------------------------------------------------------
(* Nested calls *)

\* A run that executes below another one is one level below it in the same
\* call, or is the continuation that a resumer waits for.
Nested(r) ==
  Live(r) /\ parent[r] # NoRun =>
    \/ /\ pc[parent[r]] = "waiting" /\ task[parent[r]] = task[r]
       /\ depth[r] = depth[parent[r]] + 1
    \/ task[r] \in Resumers /\ rpc[task[r]] = "continuing" /\ cont[task[r]] = r

\* The position of r in its call is kept.
SamePlace(r) == parent'[r] = parent[r] /\ task'[r] = task[r] /\ depth'[r] = depth[r]

\* A new run below r.
LEMMA NestedBelow ==
  ASSUME IInv, \A r \in Runs : Nested(r), UNCHANGED <<rpc, cont>>,
         NEW q \in Runs, NEW c \in Runs, Spawn(q, c), NEW r \in Runs
  PROVE  Nested(r)'
<1>1. TypeOK /\ RunInv(q) /\ RunInv(c) /\ Nested(r)
  BY DEF IInv
<1>2. q # c /\ status[c] = "none" /\ pc[c] = "none" /\ pc[q] = "tool"
  BY <1>1 DEF Spawn, NewRun, RunInv
<1>3. \A s \in Runs \ {c} : SamePlace(s)
  BY <1>1 DEF Spawn, NewRun, SamePlace, TypeOK
<1>4. parent'[c] = q /\ task'[c] = task[q] /\ depth'[c] = depth[q] + 1 /\ pc'[q] = "waiting"
  BY <1>1, <1>2 DEF Spawn, NewRun, TypeOK
<1>5. \A s \in Runs \ {q, c} : pc'[s] = pc[s]
  BY <1>1 DEF Spawn, TypeOK
<1>6. CASE r = c
  BY <1>2, <1>3, <1>4, <1>6 DEF Nested, SamePlace
<1>7. CASE r # c
  <2>1. parent[r] \in Runs \cup {NoRun}
    BY <1>1 DEF TypeOK
  <2>2. Live(r)' => Live(r)
    BY <1>2, <1>5, <1>7 DEF Live
  <2>3. pc[parent[r]] = "waiting" => parent[r] # c /\ parent[r] # q
    BY <1>2
  <2> QED
    BY <1>1, <1>3, <1>5, <1>7, <2>1, <2>2, <2>3 DEF Nested, SamePlace
<1> QED
  BY <1>6, <1>7

\* Runs that move on or end, none of which waits for another one that is live.
LEMMA NestedKept ==
  ASSUME TypeOK, \A r \in Runs : Nested(r), \A r \in Runs : SamePlace(r),
         \A r \in Runs : Live(r)' => Live(r),
         \A r \in Runs : Live(r)' /\ parent[r] \in Runs /\ pc[parent[r]] = "waiting" /\ task[parent[r]] = task[r]
                           /\ depth[r] = depth[parent[r]] + 1
                         => pc'[parent[r]] = "waiting",
         \A r \in Runs : Live(r)' /\ task[r] \in Resumers /\ rpc[task[r]] = "continuing" /\ cont[task[r]] = r
                         => rpc'[task[r]] = "continuing" /\ cont'[task[r]] = r,
         NEW r \in Runs
  PROVE  Nested(r)'
<1>1. parent[r] \in Runs \cup {NoRun}
  BY DEF TypeOK
<1>2. CASE parent[r] \in Runs
  BY <1>2 DEF Nested, SamePlace
<1>3. CASE parent[r] = NoRun
  BY <1>3 DEF Nested, SamePlace
<1> QED
  BY <1>1, <1>2, <1>3

\* The runs that a timeout or a death kills.
LEMMA KilledKept ==
  ASSUME TypeOK, \A r \in Runs : Nested(r), NEW t, pc' = Killed(t),
         UNCHANGED <<parent, task, depth, cont>>,
         \A x \in Resumers \ {t} : rpc'[x] = rpc[x],
         NEW r \in Runs
  PROVE  Nested(r)'
<1> DEFINE Gone(s) == task[s] = t /\ Live(s)
<1>1. \A s \in Runs : pc'[s] = IF Gone(s) THEN "dead" ELSE pc[s]
  BY DEF Killed
<1>2. \A s \in Runs : Live(s)' => Live(s) /\ task[s] # t
  BY <1>1 DEF Live
<1>3. \A s \in Runs : task[s] # t => pc'[s] = pc[s]
  BY <1>1
<1>4. \A s \in Runs : SamePlace(s)
  BY DEF SamePlace
<1> QED
  BY <1>2, <1>3, <1>4, NestedKept

LEMMA NestedInvariant ==
  ASSUME IInv, \A r \in Runs : Nested(r), [Next]_vars, NEW r \in Runs
  PROVE  Nested(r)'
<1>1. /\ TypeOK /\ \A s \in Runs : RunInv(s) /\ Nested(s)
      /\ \A x \in Resumers : Hands(x) /\ Saving(x)
  BY DEF IInv
<1> DEFINE Kept == /\ \A s \in Runs : SamePlace(s)
                   /\ \A s \in Runs : Live(s)' => Live(s)
                   /\ \A s \in Runs : pc[s] = "waiting" => pc'[s] = "waiting"
                   /\ \A x \in Resumers : rpc[x] = "continuing" => rpc'[x] = "continuing" /\ cont'[x] = cont[x]
<1>2. ASSUME Kept PROVE Nested(r)'
  BY <1>1, <1>2, NestedKept
<1>3. ASSUME NEW q \in Runs, NEW c \in Runs, Spawn(q, c) PROVE Nested(r)'
  BY <1>1, <1>3, NestedBelow DEF Spawn, Locally, resumption
<1>4. ASSUME NEW q \in Runs, Live(q), pc[q] # "waiting", UNCHANGED <<parent, task, depth, rpc, cont>>,
             NEW p \in PCs, pc' = [pc EXCEPT ![q] = p]
      PROVE  Nested(r)'
  <2>1. Kept
    BY <1>1, <1>4 DEF SamePlace, Live, TypeOK
  <2> QED
    BY <1>2, <2>1
<1>5. ASSUME NEW q \in Runs, ChildReturns(q) PROVE Nested(r)'
  <2>1. PICK p \in {"segment", "failing"} : pc' = [pc EXCEPT ![q] = p]
    BY <1>5 DEF ChildReturns, Goto
  <2>2. Live(q) /\ Under(q) = {} /\ UNCHANGED <<parent, task, depth, rpc, cont>>
    BY <1>5 DEF ChildReturns, Live, Locally, resumption, store
  <2>3. ASSUME NEW s \in Runs, Live(s)', task[q] = task[s], depth[s] = depth[q] + 1 PROVE FALSE
    <3>1. Live(s)
      BY <1>1, <2>1, <2>2, <2>3 DEF Live, TypeOK
    <3>2. depth[s] > depth[q]
      BY <1>1, <2>3 DEF TypeOK
    <3> QED
      BY <2>2, <2>3, <3>1, <3>2 DEF Under
  <2>4. \A s \in Runs \ {q} : pc'[s] = pc[s]
    BY <1>1, <2>1 DEF TypeOK
  <2>5. /\ \A s \in Runs : SamePlace(s)
        /\ \A s \in Runs : Live(s)' => Live(s)
    BY <2>2, <2>4 DEF SamePlace, Live
  <2> QED
    BY <1>1, <2>2, <2>3, <2>4, <2>5, NestedKept
<1>6. ASSUME NEW q \in Runs, ChildTimesOut(q) PROVE Nested(r)'
  <2>1. Live(q) /\ pc[q] = "waiting" /\ UNCHANGED <<parent, task, depth, rpc, cont>>
    BY <1>6 DEF ChildTimesOut, Live, store, resumption
  <2>2. \A s \in Runs : pc'[s] = CASE s = q -> "failing" [] s \in Under(q) -> "dead" [] OTHER -> pc[s]
    BY <1>6 DEF ChildTimesOut
  <2>3. q \notin Under(q)
    BY <1>1 DEF Under, TypeOK
  <2>4. /\ \A s \in Under(q) : pc'[s] = "dead"
        /\ \A s \in Runs \ (Under(q) \cup {q}) : pc'[s] = pc[s]
    BY <2>2, <2>3 DEF Under
  <2>5. ASSUME NEW s \in Runs, Live(s)', parent[s] \in Runs, task[parent[s]] = task[s],
               depth[s] = depth[parent[s]] + 1, parent[s] \in Under(q) \cup {q}
        PROVE  FALSE
    <3>1. Live(s) /\ s \notin Under(q)
      BY <2>1, <2>4, <2>5 DEF Live
    <3>2. task[parent[s]] = task[q] /\ depth[parent[s]] >= depth[q]
      BY <1>1, <2>5 DEF Under, TypeOK
    <3>3. depth[s] > depth[q]
      BY <1>1, <2>5, <3>2 DEF TypeOK
    <3> QED
      BY <2>5, <3>1, <3>2, <3>3 DEF Under
  <2>6. /\ \A s \in Runs : SamePlace(s)
        /\ \A s \in Runs : Live(s)' => Live(s)
    BY <2>1, <2>4 DEF SamePlace, Live
  <2> QED
    BY <1>1, <2>1, <2>4, <2>5, <2>6, NestedKept
<1>7. ASSUME NEW q \in Runs, Execute(q) PROVE Nested(r)'
  <2>1. CASE \/ CheckStart(q) \/ CheckEnd(q) \/ ToolCheck(q) \/ ToolReturns(q) \/ SegmentEnds(q)
             \/ Finish(q) \/ Suspend(q) \/ Fail(q) \/ Cancel(q)
    <3>1. Live(q) /\ pc[q] # "waiting" /\ UNCHANGED <<rpc, cont>>
      BY <2>1 DEF CheckStart, CheckEnd, Check, ToolCheck, ToolReturns, SegmentEnds, Finish, Suspend, Fail,
                  Cancel, Live, Locally, resumption
    <3>2. UNCHANGED <<parent, task, depth>>
      BY <2>1 DEF CheckStart, CheckEnd, Check, ToolCheck, ToolReturns, SegmentEnds, Finish, Suspend, Fail,
                  Cancel, Persist, Record, Conflict, Cancelled, Update, Ends, store
    <3>3. UNCHANGED pc \/ \E p \in PCs : pc' = [pc EXCEPT ![q] = p]
      BY <2>1 DEF CheckStart, CheckEnd, Check, ToolCheck, ToolReturns, SegmentEnds, Finish, Suspend, Fail,
                  Cancel, Persist, Record, Conflict, Ends, Goto, PCs
    <3>4. CASE UNCHANGED pc
      BY <1>2, <3>1, <3>2, <3>4 DEF SamePlace, Live
    <3> QED
      BY <1>4, <3>1, <3>2, <3>3, <3>4
  <2> QED
    BY <1>3, <1>5, <1>7, <2>1 DEF Execute
<1>8. ASSUME NEW q \in Runs, Start(q) PROVE Nested(r)'
  <2>1. status[q] = "none" /\ pc[q] = "none" /\ UNCHANGED <<rpc, cont>>
    BY <1>1, <1>8 DEF Start, NewRun, RunInv, Locally, resumption
  <2>2. parent'[q] = NoRun /\ \A s \in Runs \ {q} : SamePlace(s) /\ pc'[s] = pc[s]
    BY <1>1, <1>8 DEF Start, NewRun, Goto, SamePlace, TypeOK
  <2>3. parent[r] \in Runs => (pc[parent[r]] = "waiting" => parent[r] # q)
    BY <2>1
  <2>4. parent[r] \in Runs \cup {NoRun}
    BY <1>1 DEF TypeOK
  <2> QED
    BY <1>1, <2>1, <2>2, <2>3, <2>4 DEF Nested, SamePlace, Live
<1>9. ASSUME NEW x \in Resumers, Resumption(x) PROVE Nested(r)'
  <2>1. CASE Claim(x) \/ ExecuteApproved(x) \/ Settle(x) \/ Reconcile(x) \/ LateSettle(x)
    <3>1. UNCHANGED <<pc, task, depth, cont>>
      BY <2>1 DEF Claim, ExecuteApproved, Settle, Reconcile, LateSettle, execution
    <3>2. UNCHANGED parent
      BY <2>1 DEF Claim, ExecuteApproved, Settle, Settled, Reconcile, LateSettle, FailClaim, Update, store
    <3>3. \A y \in Resumers : rpc[y] = "continuing" => rpc'[y] = "continuing"
      BY <1>1, <2>1 DEF Claim, ExecuteApproved, Settle, Reconcile, LateSettle, Move, Answers, TypeOK
    <3> QED
      BY <1>2, <3>1, <3>2, <3>3 DEF SamePlace, Live
  <2>2. CASE ContinuationEnds(x)
    <3>1. UNCHANGED <<pc, parent, task, depth, cont>> /\ ~Live(cont[x])
      BY <2>2 DEF ContinuationEnds, store, execution
    <3>2. \A y \in Resumers \ {x} : rpc'[y] = rpc[y]
      BY <1>1, <2>2 DEF ContinuationEnds, Move, TypeOK
    <3>3. \A s \in Runs : SamePlace(s) /\ (Live(s)' => Live(s))
      BY <3>1 DEF SamePlace, Live
    <3> QED
      BY <1>1, <3>1, <3>2, <3>3, NestedKept
  <2>3. ASSUME NEW c \in Runs, Continue(x, c) PROVE Nested(r)'
    <3>1. status[c] = "none" /\ pc[c] = "none" /\ rpc[x] = "resolved"
      BY <1>1, <2>3 DEF Continue, NewRun, RunInv
    <3>2. \A s \in Runs \ {c} : SamePlace(s) /\ pc'[s] = pc[s]
      BY <1>1, <2>3 DEF Continue, NewRun, Goto, SamePlace, TypeOK
    <3>3. task'[c] = x /\ rpc'[x] = "continuing" /\ cont'[x] = c
      BY <1>1, <2>3 DEF Continue, NewRun, Move, TypeOK
    <3>4. \A y \in Resumers \ {x} : rpc'[y] = rpc[y] /\ cont'[y] = cont[y]
      BY <1>1, <2>3 DEF Continue, Move, TypeOK
    <3>5. parent[r] \in Runs \cup {NoRun}
      BY <1>1 DEF TypeOK
    <3> QED
      BY <1>1, <3>1, <3>2, <3>3, <3>4, <3>5 DEF Nested, SamePlace, Live
  <2> QED
    BY <1>9, <2>1, <2>2, <2>3 DEF Resumption
<1>10. ASSUME NEW t, Die(t) PROVE Nested(r)'
  BY <1>1, <1>10, KilledKept DEF Die, store
<1>11. ASSUME NEW x \in Resumers, Interrupt(x) PROVE Nested(r)'
  <2>1. \A y \in Resumers \ {x} : rpc'[y] = rpc[y]
    BY <1>1, <1>11 DEF Interrupt, Move, TypeOK
  <2> QED
    BY <1>1, <1>11, <2>1, KilledKept DEF Interrupt, store
<1>12. ASSUME NEW q \in Runs, SuspendHookFails(q) PROVE Nested(r)'
  BY <1>4, <1>12 DEF SuspendHookFails, Goto, Live, Locally, PCs, store, resumption
<1>13. ASSUME NEW x \in Resumers, NEW q \in Runs, Resume(x, q) PROVE Nested(r)'
  <2>1. \A y \in Resumers : rpc[y] = "continuing" => rpc'[y] = "continuing"
    BY <1>1, <1>13 DEF Resume, Move, TypeOK
  <2> QED
    BY <1>2, <1>13, <2>1 DEF Resume, SamePlace, Live, store, execution
<1>14. CASE Operate \/ UNCHANGED vars
  <2>1. UNCHANGED <<execution, resumption>>
    BY <1>14 DEF Operate, CancelRun, CancelTree, CancelToken, Cancelling, ListChildren, VisitChild,
                 MonitorFails, vars
  <2>2. UNCHANGED parent
    BY <1>14 DEF Operate, CancelRun, CancelTree, CancelToken, Cancelled, ListChildren, VisitChild,
                 MonitorFails, FailClaim, Update, store, vars
  <2> QED
    BY <1>2, <2>1, <2>2 DEF SamePlace, Live, execution, resumption
<1> QED
  BY <1>6, <1>7, <1>8, <1>9, <1>10, <1>11, <1>12, <1>13, <1>14 DEF Next

\* _run_impl, the timeouts of subagent tools and resume_agent_run: nothing
\* goes on executing below a run that no longer waits for it.
THEOREM CallsNest == Spec => []NoOrphans
<1>1. Init => \A r \in Runs : Nested(r)
  BY DEF Init, Nested, Live
<1>2. IInv /\ (\A r \in Runs : Nested(r)) /\ [Next]_vars => (\A r \in Runs : Nested(r))'
  BY NestedInvariant
<1>3. (\A r \in Runs : Nested(r)) => NoOrphans
  BY DEF Nested, NoOrphans
<1> QED
  BY <1>1, <1>2, <1>3, Invariance, PTL DEF Spec

-----------------------------------------------------------------------------
(* Cancelling a tree *)

Awaits(v) == \E i \in 1..Len(todo) : todo[i] = v

\* Every visited run has ended and its children have been listed, or will be;
\* every listed child has been visited, or will be, or came later.
Covers ==
  /\ visited = {} => todo = <<>> /\ listed = {}
  /\ \A r \in visited : status[r] \in Terminal
  /\ \A r \in visited : r \in listed \/ Awaits(List(r))
  /\ \A c \in Stored : parent[c] \in listed => c \in visited \cup late \/ Awaits(Visit(c))

LEMMA EndedStays ==
  ASSUME IInv, Shape, NEW r \in Runs, status[r] \in Terminal
  PROVE  status'[r] = status[r]
BY Known DEF RunStep, SameState, Advances, Unrecorded, Recorded, Stopped, Created, Withdrawn, ClaimFailed,
             ClaimedBy, Claimable, SettledBy, CanUpdate, Terminal

\* A run that appears below a listed one is late; nobody else changes parents.
LEMMA LateKept ==
  ASSUME IInv, [Next]_vars
  PROVE  /\ late \subseteq late'
         /\ \A c \in Runs : status'[c] # "none" /\ parent'[c] \in listed =>
              (status[c] # "none" /\ parent'[c] = parent[c]) \/ c \in late'
<1>1. TypeOK
  BY DEF IInv
<1> DEFINE Goal == /\ late \subseteq late'
                   /\ \A c \in Runs : status'[c] # "none" /\ parent'[c] \in listed =>
                        (status[c] # "none" /\ parent'[c] = parent[c]) \/ c \in late'
<1>2. ASSUME NEW r \in Runs, NEW k, NEW p, NEW t, NEW d, NewRun(r, k, p, t, d) PROVE Goal
  BY <1>1, <1>2 DEF NewRun, TypeOK
<1>3. ASSUME UNCHANGED <<status, parent, late>> PROVE Goal
  BY <1>3
<1>4. ASSUME NEW r \in Runs, status[r] # "none", NEW s, Update(r, s), UNCHANGED late PROVE Goal
  BY <1>1, <1>4 DEF Update, TypeOK
<1>5. ASSUME NEW r \in Runs, status[r] # "none", Cancelled(r), UNCHANGED late PROVE Goal
  BY <1>3, <1>4, <1>5 DEF Cancelled
<1>6. ASSUME NEW x \in Resumers, target[x] \in Runs, FailClaim(target[x], x), UNCHANGED late PROVE Goal
  BY <1>3, <1>4, <1>6 DEF FailClaim, ClaimStands, store
<1>7. ASSUME NEW q \in Runs, Execute(q) PROVE Goal
  <2>1. RunInv(q)
    BY DEF IInv
  <2>2. CASE CheckStart(q) \/ CheckEnd(q) \/ ToolCheck(q) \/ ToolReturns(q) \/ ChildReturns(q) \/ SegmentEnds(q)
    BY <1>3, <2>2 DEF CheckStart, CheckEnd, Check, ToolCheck, ToolReturns, ChildReturns, SegmentEnds, store
  <2>3. CASE Finish(q) \/ Suspend(q) \/ Fail(q) \/ Cancel(q)
    <3>1. status[q] # "none" /\ UNCHANGED late
      BY <2>1, <2>3 DEF Finish, Suspend, Fail, Cancel, Persist, Record, Conflict, RunInv
    <3>2. UNCHANGED store \/ Cancelled(q) \/ \E s \in Status : Update(q, s)
      BY <2>3 DEF Finish, Suspend, Fail, Cancel, Persist, Record, Conflict, Status, Terminal
    <3> QED
      BY <1>3, <1>4, <1>5, <3>1, <3>2 DEF store
  <2>4. ASSUME NEW c \in Runs, Spawn(q, c) PROVE Goal
    BY <1>2, <2>4 DEF Spawn
  <2> QED
    BY <1>7, <2>2, <2>3, <2>4 DEF Execute
<1>8. ASSUME NEW x \in Resumers, Resumption(x) PROVE Goal
  <2>1. Hands(x) /\ Claimed(x) /\ Saving(x)
    BY DEF IInv
  <2>2. CASE Claim(x) \/ Settle(x) \/ LateSettle(x)
    <3>1. target[x] \in Runs /\ status[target[x]] # "none" /\ UNCHANGED late
      BY <2>1, <2>2 DEF Claim, Settle, LateSettle, Hands, Saving, Claimed
    <3>2. UNCHANGED store \/ \E s : Update(target[x], s)
      BY <2>2 DEF Claim, Settle, LateSettle, Settled
    <3> QED
      BY <1>3, <1>4, <3>1, <3>2 DEF store
  <2>3. CASE ExecuteApproved(x) \/ ContinuationEnds(x)
    BY <1>3, <2>3 DEF ExecuteApproved, ContinuationEnds, store
  <2>4. CASE Reconcile(x)
    BY <1>6, <2>1, <2>4 DEF Reconcile, Hands
  <2>5. ASSUME NEW c \in Runs, Continue(x, c) PROVE Goal
    BY <1>2, <2>5 DEF Continue
  <2> QED
    BY <1>8, <2>2, <2>3, <2>4, <2>5 DEF Resumption
<1>9. CASE Operate
  <2>1. ASSUME NEW q \in Runs, CancelRun(q) \/ CancelTree(q) PROVE Goal
    BY <1>5, <2>1 DEF CancelRun, CancelTree, Cancelling
  <2>2. CASE ListChildren \/ \E t \in Tasks : CancelToken(t)
    BY <1>3, <2>2 DEF ListChildren, CancelToken, Cancelling, store
  <2>3. CASE VisitChild
    <3>1. Head(todo).run \in Runs /\ status[Head(todo).run] # "none"
      BY <2>3, VisitsHead DEF VisitChild, Visits, IInv
    <3> QED
      BY <1>3, <1>5, <2>3, <3>1 DEF VisitChild, store
  <2>4. ASSUME NEW x \in Resumers, MonitorFails(x) PROVE Goal
    BY <1>6, <2>4 DEF MonitorFails, Claimed, IInv
  <2> QED
    BY <1>9, <2>1, <2>2, <2>3, <2>4 DEF Operate
<1>10. ASSUME NEW q \in Runs, Start(q) PROVE Goal
  BY <1>2, <1>10 DEF Start
<1> QED
  BY <1>3, <1>7, <1>8, <1>9, <1>10
     DEF Next, SuspendHookFails, ChildTimesOut, Interrupt, Resume, Die, vars, store

\* What the traversal has still to do stays, but for the step it takes, and new
\* steps are added.
LEMMA AwaitsKept ==
  ASSUME Traversal, todo # <<>>, NEW new \in Seq(Visits), todo' = new \o Tail(todo)
  PROVE  /\ \A v : Awaits(v) /\ v # Head(todo) => Awaits(v)'
         /\ \A i \in 1..Len(new) : Awaits(new[i])'
<1>1. todo \in Seq(Visits) /\ Len(todo) > 0 /\ Len(new) \in Nat
  BY DEF Traversal
<1>2. /\ Len(todo') = Len(new) + Len(todo) - 1
      /\ \A i \in 1..Len(new) : todo'[i] = new[i]
      /\ \A i \in 2..Len(todo) : todo'[Len(new) + i - 1] = todo[i]
  BY <1>1
<1>3. Head(todo) = todo[1] /\ Len(todo) \in Nat
  BY <1>1
<1>4. ASSUME NEW v, Awaits(v), v # Head(todo) PROVE Awaits(v)'
  <2>1. PICK i \in 2..Len(todo) : todo[i] = v
    BY <1>3, <1>4 DEF Awaits
  <2>2. Len(new) + i - 1 \in 1..Len(todo') /\ todo'[Len(new) + i - 1] = v
    BY <1>1, <1>2, <1>3, <2>1
  <2> QED
    BY <2>2 DEF Awaits
<1>5. ASSUME NEW i \in 1..Len(new) PROVE Awaits(new[i])'
  <2>1. i \in 1..Len(todo') /\ todo'[i] = new[i]
    BY <1>1, <1>2, <1>3
  <2> QED
    BY <2>1 DEF Awaits
<1> QED
  BY <1>4, <1>5

LEMMA CoversKept ==
  ASSUME IInv, Covers, [Next]_vars
  PROVE  Covers'
<1>1. TypeOK /\ Traversal /\ Shape
  BY NextShape DEF IInv
<1>2. \A r \in visited : status'[r] \in Terminal
  BY <1>1, EndedStays DEF Covers, TypeOK
<1>3. /\ late \subseteq late'
      /\ \A c \in Runs : status'[c] # "none" /\ parent'[c] \in listed =>
           (status[c] # "none" /\ parent'[c] = parent[c]) \/ c \in late'
  BY LateKept
<1>4. CASE UNCHANGED operators
  BY <1>2, <1>3, <1>4 DEF Covers, Stored, Awaits, operators
<1>5. ASSUME NEW r \in Runs, CancelTree(r) PROVE Covers'
  <2>1. visited = {} /\ visited' = {r} /\ todo' = <<List(r)>> /\ UNCHANGED <<listed, parent>>
    BY <1>5 DEF CancelTree, Cancelled, Update
  <2>2. status'[r] \in Terminal
    BY <1>1, <1>5 DEF CancelTree, Cancelled, CanUpdate, Update, TypeOK, Terminal
  <2>3. Awaits(List(r))'
    BY <2>1 DEF Awaits
  <2> QED
    BY <2>1, <2>2, <2>3 DEF Covers
<1>6. CASE ListChildren
  <2>1. PICK r \in Runs : r = Head(todo).run
    BY <1>1, <1>6, VisitsHead DEF ListChildren, Visits
  <2> DEFINE below == Children(r)
             n == Cardinality(below)
  <2>2. /\ todo # <<>> /\ Head(todo).op = "list"
        /\ listed' = listed \cup {r} /\ UNCHANGED <<visited, late, status, parent>>
    BY <1>6, <2>1 DEF ListChildren, store
  <2>3. PICK order \in [1..n -> below] :
          /\ \A i, j \in 1..n : order[i] = order[j] => i = j
          /\ todo' = [i \in 1..n |-> Visit(order[i])] \o Tail(todo)
    BY <1>6, <2>1 DEF ListChildren
  <2>4. below \subseteq Runs /\ IsFiniteSet(below) /\ n \in Nat
    BY RunsAssumption, FS_Subset, FS_CardinalityType DEF Children, Stored
  <2>5. \A c \in below : \E i \in 1..n : order[i] = c
    <3>1. order \in Injection(1..n, below)
      BY <2>3 DEF Injection, IsInjective
    <3>2. IsFiniteSet(1..n) /\ Cardinality(1..n) = n
      BY <2>4, FS_Interval
    <3>3. order \in Surjection(1..n, below)
      BY <2>4, <3>1, <3>2, FS_Injection
    <3> QED
      BY <3>3 DEF Surjection
  <2>6. PICK new \in Seq(Visits) : new = [i \in 1..n |-> Visit(order[i])] /\ Len(new) = n
    <3>1. \A i \in 1..n : Visit(order[i]) \in Visits
      BY <2>3, <2>4 DEF Visit, Visits
    <3> HIDE DEF n
    <3>2. [i \in 1..n |-> Visit(order[i])] \in Seq(Visits)
      BY <2>4, <3>1
    <3>3. Len([i \in 1..n |-> Visit(order[i])]) = n
      BY <2>4
    <3> QED
      BY <3>2, <3>3
  <2>7. \A c \in below : \E i \in 1..Len(new) : new[i] = Visit(c)
    BY <2>5, <2>6
  <2>8. todo' = new \o Tail(todo)
    BY <2>3, <2>6
  <2> HIDE DEF below, n
  <2>9. /\ \A v : Awaits(v) /\ v # Head(todo) => Awaits(v)'
        /\ \A i \in 1..Len(new) : Awaits(new[i])'
    BY <1>1, <2>2, <2>6, <2>8, AwaitsKept
  <2>10. \A q \in visited : q \in listed' \/ Awaits(List(q))'
    <3>1. \A q : List(q) = Head(todo) => q = r
      BY <2>1 DEF List
    <3> QED
      BY <2>2, <2>9, <3>1 DEF Covers
  <2>11. ASSUME NEW c \in Stored, parent[c] \in listed'
         PROVE  c \in visited \cup late \/ Awaits(Visit(c))'
    <3>1. CASE parent[c] = r
      <4>1. c \in below
        BY <2>11, <3>1 DEF below, Children
      <4>2. PICK i \in 1..Len(new) : new[i] = Visit(c)
        BY <2>7, <4>1
      <4> QED
        BY <2>9, <4>2
    <3>2. CASE parent[c] \in listed
      <4>1. Visit(c) # Head(todo)
        BY <2>2 DEF Visit
      <4> QED
        BY <2>9, <2>11, <3>2, <4>1 DEF Covers
    <3> QED
      BY <2>2, <2>11, <3>1, <3>2
  <2>12. visited # {}
    BY <2>2 DEF Covers
  <2>13. Stored' = Stored
    BY <2>2 DEF Stored
  <2> QED
    BY <1>2, <2>2, <2>10, <2>11, <2>12, <2>13 DEF Covers
<1>7. CASE VisitChild
  <2>1. PICK c \in Runs : c = Head(todo).run
    BY <1>1, <1>7, VisitsHead DEF VisitChild, Visits
  <2>2. /\ todo # <<>> /\ Head(todo).op = "cancel" /\ UNCHANGED <<listed, late, parent>>
        /\ status[c] # "none"
    BY <1>1, <1>7, <2>1, VisitsHead DEF VisitChild, Cancelled, Update, store
  <2>3. List(c) \in Visits
    BY DEF List, Visits
  <2>4. PICK new \in Seq(Visits) : new = IF c \in visited THEN <<>> ELSE <<List(c)>>
    <3>1. <<>> \in Seq(Visits) /\ <<List(c)>> \in Seq(Visits)
      BY <2>3
    <3> QED
      BY <3>1
  <2>5. visited' = visited \cup {c} /\ todo' = new \o Tail(todo)
    <3>1. <<>> \o Tail(todo) = Tail(todo)
      BY <1>1, <2>2 DEF Traversal
    <3> QED
      BY <1>7, <2>1, <2>4, <3>1 DEF VisitChild, Visited
  <2>6. c \notin visited => 1 \in 1..Len(new) /\ new[1] = List(c)
    BY <2>4
  <2>7. /\ \A v : Awaits(v) /\ v # Head(todo) => Awaits(v)'
        /\ \A i \in 1..Len(new) : Awaits(new[i])'
    BY <1>1, <2>2, <2>5, <2>4, AwaitsKept
  <2>8. status'[c] \in Terminal
    <3>1. CASE c \in visited
      BY <1>2, <3>1
    <3>2. CASE c \notin visited
      <4>1. Cancelled(c)
        BY <1>7, <2>1, <3>2 DEF VisitChild
      <4> QED
        BY <1>1, <4>1 DEF Cancelled, CanUpdate, Update, TypeOK, Terminal
    <3> QED
      BY <3>1, <3>2
  <2>9. \A q \in visited' : q \in listed' \/ Awaits(List(q))'
    <3>1. \A q : List(q) # Head(todo)
      BY <2>2 DEF List
    <3>2. c \notin visited => Awaits(List(c))'
      BY <2>6, <2>7
    <3> QED
      BY <2>2, <2>5, <2>7, <3>1, <3>2 DEF Covers
  <2>10. ASSUME NEW q \in Stored', parent'[q] \in listed'
        PROVE  q \in visited' \cup late' \/ Awaits(Visit(q))'
    <3>1. q \in Runs /\ parent[q] \in listed /\ (q \in Stored \/ q \in late')
      BY <1>3, <2>2, <2>10 DEF Stored
    <3>2. Visit(q) = Head(todo) => q = c
      BY <2>1 DEF Visit
    <3> QED
      BY <2>2, <2>5, <2>7, <3>1, <3>2 DEF Covers
  <2> QED
    BY <1>2, <2>5, <2>8, <2>9, <2>10 DEF Covers
<1> QED
  <2>1. UNCHANGED operators \/ ListChildren \/ VisitChild \/ \E r \in Runs : CancelTree(r)
    BY DEF Next, vars, operators, Locally, Operate, Start, SuspendHookFails, ChildTimesOut, Execute,
           CheckStart, CheckEnd, Check, ToolCheck, ToolReturns, ChildReturns, SegmentEnds, Finish,
           Suspend, Fail, Cancel, Spawn, Resumption, Claim, ExecuteApproved, Continue,
           ContinuationEnds, Settle, Reconcile, LateSettle, Interrupt, Resume, Die, CancelRun,
           CancelToken, MonitorFails
  <2> QED
    BY <1>4, <1>5, <1>6, <1>7, <2>1

\* cancel_agent_run_tree: when it has returned every visited run has ended,
\* and only children that were created after the lookup were missed.
THEOREM TreesCovered == Spec => []TreeCovered
<1>1. Init => Covers
  BY DEF Init, Covers, Stored
<1>2. IInv /\ Covers /\ [Next]_vars => Covers'
  BY CoversKept
<1>3. IInv /\ Covers => TreeCovered
  <2> SUFFICES ASSUME IInv, Covers, todo = <<>> PROVE TreeCovered
    BY DEF TreeCovered
  <2>1. \A v : ~Awaits(v)
    BY DEF Awaits
  <2> QED
    BY <2>1 DEF Covers, TreeCovered
<1> QED
  BY <1>1, <1>2, <1>3, Invariance, PTL DEF Spec
=============================================================================
