------------------------------- MODULE ToolLoop -------------------------------
(***************************************************************************)
(* The loops of generate_text (generate_text.py) inside agent runs that    *)
(* share a budget ledger (_agent_budget.py): a parent's guard covers its   *)
(* child runs, which may run at the same time.  Each step dispatches one   *)
(* call of the model and executes the batch of tools that it asks for.     *)
(***************************************************************************)
EXTENDS ModelCalls, Sequences

CONSTANTS
  Loops,           \* the loops that charge the ledger
  LoopModel,       \* the model they call
  StepLimit,       \* max_steps of one loop
  Parallel,        \* parallel tool execution
  MaxConcurrency,  \* workers of a parallel batch
  StopOnError,     \* stop_on_error
  MaxSteps, MaxToolCalls, MaxToolErrors, MaxTokens, \* the guard's ceilings
  MaxBatch,        \* bound: tools of a response
  MaxUsage         \* bound: tokens of a response

ASSUME LoopAssumption ==
  /\ Loops \subseteq Callers /\ IsFiniteSet(Loops)
  /\ LoopModel \in Models
  /\ StepLimit \in Nat \ {0} /\ MaxConcurrency \in Nat \ {0}
  /\ Parallel \in BOOLEAN /\ StopOnError \in BOOLEAN
  /\ MaxSteps \in Nat /\ MaxToolCalls \in Nat /\ MaxToolErrors \in Nat /\ MaxTokens \in Nat
  /\ MaxBatch \in Nat /\ MaxUsage \in Nat

VARIABLES
  at,     \* where each loop is
  steps,  \* model calls that each loop has dispatched
  batch,  \* the tools of its current batch and what has become of them
  gated,  \* the tools of the batch that may suspend for an approval
  why,    \* how each loop ends, known before its workers are joined
  ledger, \* the counters that the loops share
  asked,  \* model calls that were dispatched, of all loops
  starts  \* tools that were executed, of all loops

loops == <<at, steps, batch, gated, why, ledger, asked, starts>>

Tool == {"todo", "running", "ok", "error", "stopped"}
Ends == {"none", "text", "tripped", "failed", "suspended", "cut"}

LoopTypeOK ==
  /\ at \in [Loops -> {"idle", "step", "waiting", "tools", "joining", "over"}]
  /\ steps \in [Loops -> 0..StepLimit]
  /\ batch \in [Loops -> Seq(Tool)]
  /\ gated \in [Loops -> SUBSET (1..MaxBatch)]
  /\ why \in [Loops -> Ends]
  /\ ledger \in [steps : Nat, calls : Nat, errors : Nat, tokens : Nat]
  /\ asked \in Nat /\ starts \in Nat

LoopInit ==
  /\ at = [l \in Loops |-> "idle"]
  /\ steps = [l \in Loops |-> 0]
  /\ batch = [l \in Loops |-> <<>>]
  /\ gated = [l \in Loops |-> {}]
  /\ why = [l \in Loops |-> "none"]
  /\ ledger = [steps |-> 0, calls |-> 0, errors |-> 0, tokens |-> 0]
  /\ asked = 0 /\ starts = 0

-----------------------------------------------------------------------------
(* The ledger *)

\* BudgetGuard._evaluate_counts: tokens may reach their ceiling, but nothing
\* is dispatched once they have.
Exceeds(g) ==
  \/ g.steps > MaxSteps \/ g.calls > MaxToolCalls \/ g.errors > MaxToolErrors
  \/ g.tokens > MaxTokens

\* Mutants: a dispatch is allowed at the ceiling; only tokens are looked at.
Refuses_Beyond(g) == Exceeds(g)
Refuses_Tokens(g) == g.tokens >= MaxTokens

Refuses(g) == Exceeds(g) \/ g.tokens >= MaxTokens

-----------------------------------------------------------------------------
(* Steps *)

End(l, end) ==
  /\ at' = [at EXCEPT ![l] = "over"]
  /\ why' = [why EXCEPT ![l] = end]

Begin(l) ==
  /\ at[l] = "idle"
  /\ at' = [at EXCEPT ![l] = "step"]
  /\ UNCHANGED <<calls, steps, asked, batch, gated, why, ledger, starts>>

\* before_model, and model.generate.
Step(l) ==
  /\ at[l] = "step"
  /\ IF Refuses(ledger)
     THEN End(l, "tripped") /\ UNCHANGED <<calls, steps, ledger, asked>>
     ELSE /\ ledger' = [ledger EXCEPT !.steps = @ + 1]
          /\ IF Exceeds(ledger')
             THEN End(l, "tripped") /\ UNCHANGED <<calls, steps, asked>>
             ELSE /\ \E i \in Inputs : Call(l, <<LoopModel, i>>)
                  /\ at' = [at EXCEPT ![l] = "waiting"]
                  /\ steps' = [steps EXCEPT ![l] = @ + 1]
                  /\ asked' = asked + 1
                  /\ UNCHANGED <<troubles, why>>
  /\ UNCHANGED <<batch, gated, starts>>

\* The model has answered: after_model, and the tools that it asks for.
Response(l) ==
  /\ at[l] = "waiting" /\ Answered(l)
  /\ answer[l] \in Answers
  /\ \E used \in 0..MaxUsage, n \in 0..MaxBatch :
       /\ ledger' = [ledger EXCEPT !.tokens = @ + used, !.calls = @ + n]
       /\ IF Exceeds(ledger') \/ n = 0
          THEN /\ End(l, IF Exceeds(ledger') THEN "tripped" ELSE "text")
               /\ UNCHANGED <<batch, gated>>
          ELSE /\ at' = [at EXCEPT ![l] = "tools"]
               /\ batch' = [batch EXCEPT ![l] = [i \in 1..n |-> "todo"]]
               /\ \E g \in SUBSET (1..n) : gated' = [gated EXCEPT ![l] = g]
               /\ UNCHANGED why
  /\ UNCHANGED <<calls, steps, asked, starts>>

CallFailed(l) ==
  /\ at[l] = "waiting" /\ Answered(l)
  /\ answer[l] \in Errors
  /\ End(l, "failed")
  /\ UNCHANGED <<calls, steps, asked, batch, gated, ledger, starts>>

-----------------------------------------------------------------------------
(* Tools *)

Running(l) == {i \in DOMAIN batch[l] : batch[l][i] = "running"}

Todo(l) == {i \in DOMAIN batch[l] : batch[l][i] = "todo"}

\* Mutant: a batch is executed in order only when it is asked to be.
Sequential_Asked(l) == ~Parallel \/ Len(batch[l]) <= 1

\* An approval may suspend the run: the batch is executed in order.
Sequential(l) == ~Parallel \/ gated[l] # {} \/ Len(batch[l]) <= 1

\* Workers that have a tool or have raised; the others are free.
Busy(l) == {i \in DOMAIN batch[l] : batch[l][i] \in {"running", "stopped"}}

Free(l) ==
  IF Sequential(l) THEN Running(l) = {} /\ why[l] = "none"
  ELSE Cardinality(Busy(l)) < MaxConcurrency

\* A worker raises.  The loop learns of it when it runs again.
Raise(l, end) ==
  why' = [why EXCEPT ![l] = IF @ = "none" THEN end ELSE @]

\* A worker takes the next tool: before_tool, and the execution starts.
StartTool(l) ==
  /\ at[l] = "tools" /\ Free(l)
  /\ \E i \in Todo(l) :
       /\ \A j \in Todo(l) : i <= j
       /\ IF Refuses(ledger)
          THEN /\ Raise(l, "tripped")
               /\ batch' = [batch EXCEPT ![l][i] = "stopped"]
               /\ UNCHANGED starts
          ELSE /\ batch' = [batch EXCEPT ![l][i] = "running"]
               /\ starts' = starts + 1
               /\ UNCHANGED why
  /\ UNCHANGED <<calls, at, steps, asked, gated, ledger>>

\* A tool returns, with an error or without: after_tool.
ToolReturns(l, i) ==
  /\ at[l] = "tools" /\ i \in Running(l)
  /\ \E r \in {"ok", "error"} :
       /\ ledger' = [ledger EXCEPT !.errors = @ + (IF r = "error" THEN 1 ELSE 0)]
       /\ IF Exceeds(ledger')
          THEN batch' = [batch EXCEPT ![l][i] = "stopped"] /\ Raise(l, "tripped")
          ELSE /\ batch' = [batch EXCEPT ![l][i] = r]
               /\ IF r = "error" /\ StopOnError /\ Sequential(l)
                  THEN Raise(l, "failed") ELSE UNCHANGED why
  /\ UNCHANGED <<calls, at, steps, asked, gated, starts>>

\* The execution raises: invalid input, a guardrail, an unknown outcome.
ToolRaises(l, i) ==
  /\ at[l] = "tools" /\ i \in Running(l)
  /\ Trouble
  /\ batch' = [batch EXCEPT ![l][i] = "stopped"]
  /\ Raise(l, "failed")
  /\ UNCHANGED <<caches, awaiting, answer, expired, at, steps, asked, gated, ledger, starts>>

\* The tool waits for a human: ToolExecutionSuspended.
ToolSuspends(l, i) ==
  /\ at[l] = "tools" /\ i \in Running(l) \cap gated[l]
  /\ batch' = [batch EXCEPT ![l][i] = "stopped"]
  /\ Raise(l, "suspended")
  /\ UNCHANGED <<calls, at, steps, asked, gated, ledger, starts>>

\* The loop learns that a worker has raised, and cancels the others.
Cancel(l) ==
  /\ at[l] = "tools" /\ why[l] # "none"
  /\ at' = [at EXCEPT ![l] = "joining"]
  /\ UNCHANGED <<calls, steps, asked, batch, gated, why, ledger, starts>>

\* A cancelled tool comes to its end; its result is lost.
ToolStops(l, i) ==
  /\ at[l] = "joining" /\ i \in Running(l)
  /\ batch' = [batch EXCEPT ![l][i] = "stopped"]
  /\ UNCHANGED <<calls, at, steps, asked, gated, why, ledger, starts>>

Joined(l) == Running(l) = {}

Join(l) ==
  /\ at[l] = "joining" /\ Joined(l)
  /\ at' = [at EXCEPT ![l] = "over"]
  /\ UNCHANGED <<calls, steps, asked, batch, gated, why, ledger, starts>>

\* Every tool of the batch has returned.
EndBatch(l) ==
  /\ at[l] = "tools" /\ why[l] = "none"
  /\ Todo(l) = {} /\ Running(l) = {}
  /\ IF StopOnError /\ \E i \in DOMAIN batch[l] : batch[l][i] = "error"
     THEN End(l, "failed")
     ELSE IF steps[l] = StepLimit THEN End(l, "text")
     ELSE at' = [at EXCEPT ![l] = "step"] /\ UNCHANGED why
  /\ UNCHANGED <<calls, steps, asked, batch, gated, ledger, starts>>

\* The total deadline of the loop, or its cancellation.
Interrupt(l) ==
  /\ l \in expired
  /\ \/ /\ at[l] = "waiting"
        /\ Abandon(l)
        /\ End(l, "cut")
     \/ /\ at[l] = "tools" /\ (why[l] = "none" \/ ~Sequential(l))
        /\ at' = [at EXCEPT ![l] = "joining"]
        /\ why' = [why EXCEPT ![l] = "cut"]
        /\ UNCHANGED <<caches, awaiting, answer, expired>>
  /\ UNCHANGED <<troubles, steps, asked, batch, gated, ledger, starts>>

ToolStep(l) ==
  \E i \in 1..MaxBatch :
    \/ ToolReturns(l, i) \/ ToolRaises(l, i) \/ ToolSuspends(l, i) \/ ToolStops(l, i)

LoopStep(l) ==
  \/ Step(l) \/ Response(l) \/ CallFailed(l) \/ StartTool(l) \/ ToolStep(l)
  \/ Cancel(l) \/ Join(l) \/ EndBatch(l) \/ Interrupt(l)

-----------------------------------------------------------------------------
InFlight == {l \in Loops : at[l] = "waiting"}

\* docs/OPERATIONS.md: a call that has already started can overshoot a
\* ceiling, and nothing else can.  Whatever the loops do at the same time, no
\* more calls are dispatched and tools executed than the guard allows, and
\* the tokens stay below their ceiling and one response of every loop, those
\* of the calls in flight included.
BudgetHeld ==
  /\ ledger.tokens > 0 \/ InFlight # {} =>
       ledger.tokens + Cardinality(InFlight) * MaxUsage
         < MaxTokens + Cardinality(Loops) * MaxUsage
  /\ asked <= MaxSteps
  /\ starts <= MaxToolCalls

\* Once the budget of one loop has tripped, no loop on the same ledger
\* dispatches a model call or starts a tool any more.
TrippedStops ==
  [][(\E l \in Loops : why[l] = "tripped") =>
       asked' = asked /\ starts' = starts]_<<calls, loops>>

\* generate_text.py: an approval is a transactional boundary.  When a tool of
\* a batch has suspended its run, those before it have returned and those
\* after it have not started.
SuspensionIsBoundary ==
  \A l \in Loops : why[l] = "suspended" =>
    \E i \in gated[l] \cap DOMAIN batch[l] :
      /\ batch[l][i] = "stopped"
      /\ \A j \in 1..i - 1 : batch[l][j] \in {"ok", "error"}
      /\ \A j \in i + 1..Len(batch[l]) : batch[l][j] = "todo"

\* A loop that is over has no tool left running behind it.
NothingLeftRunning == \A l \in Loops : at[l] = "over" => Running(l) = {}
=============================================================================
