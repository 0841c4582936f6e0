------------------------------- MODULE RunLog -------------------------------
(***************************************************************************)
(* What the checkpoint stores promise about the history of workflow runs:  *)
(* docs/WORKFLOWS.md, "Canonical Checkpoints" -- append-only, immutable,   *)
(* numbered without gaps, final once terminal, and one run per idempotency *)
(* key.  What a checkpoint says beyond its number and status is left open. *)
(***************************************************************************)
EXTENDS Naturals, Sequences

CONSTANTS
  Runs,      \* run ids
  NoKey,     \* "no idempotency key"
  Terminal   \* statuses that end a run

VARIABLES
  log,       \* checkpoints of each run, oldest first
  key        \* idempotency key of each run

vars == <<log, key>>

Newest(r) == log[r][Len(log[r])]

Init ==
  /\ log = [r \in Runs |-> <<>>]
  /\ key = [r \in Runs |-> NoKey]

\* log' is log with one more checkpoint of r, numbered next.
Extends(r) ==
  /\ Len(log'[r]) = Len(log[r]) + 1
  /\ log' = [log EXCEPT ![r] = Append(@, log'[r][Len(log[r]) + 1])]
  /\ log'[r][Len(log[r]) + 1].seq = Len(log[r])

\* The first checkpoint of a run claims its key.
Open(r) ==
  /\ log[r] = <<>>
  /\ Extends(r)
  /\ key' = [key EXCEPT ![r] = key'[r]]
  /\ key'[r] # NoKey => \A s \in Runs : log[s] # <<>> => key[s] # key'[r]

Extend(r) ==
  /\ log[r] # <<>>
  /\ Newest(r).status \notin Terminal
  /\ Extends(r)
  /\ UNCHANGED key

Next == \E r \in Runs : Open(r) \/ Extend(r)

Spec == Init /\ [][Next]_vars
=============================================================================
