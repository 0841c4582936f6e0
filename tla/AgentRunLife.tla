---------------------------- MODULE AgentRunLife ----------------------------
(***************************************************************************)
(* What an agent run store promises about the life of runs:                *)
(* docs/agents/durable-state.md -- one run per idempotency key, a revision *)
(* that counts the updates of a run, terminal states that nobody           *)
(* overwrites, and at most one claim of a run's pending approval.  Who     *)
(* updates a run and why is left open.                                     *)
(***************************************************************************)
EXTENDS Naturals

CONSTANTS
  Runs,      \* run ids
  NoKey,     \* "no idempotency key"
  NoClaim    \* "no resume_claim"

VARIABLES
  status,    \* status of each stored run, "none" before it is stored
  revision,  \* its optimistic revision
  key,       \* its idempotency key
  claim,     \* its resume_claim
  claimed    \* has its pending approval ever been claimed

vars == <<status, revision, key, claim, claimed>>

Terminal == {"completed", "failed", "cancelled"}

Init ==
  /\ status = [r \in Runs |-> "none"]
  /\ revision = [r \in Runs |-> 0]
  /\ key = [r \in Runs |-> NoKey]
  /\ claim = [r \in Runs |-> NoClaim]
  /\ claimed = [r \in Runs |-> FALSE]

\* A run is stored running, under a key that no stored run has.
Create(r) ==
  /\ status[r] = "none"
  /\ status' = [status EXCEPT ![r] = "running"]
  /\ key' = [key EXCEPT ![r] = key'[r]]
  /\ key'[r] # NoKey => \A s \in Runs : status[s] # "none" => key[s] # key'[r]
  /\ UNCHANGED <<revision, claim, claimed>>

\* One more revision of a run that has not ended.
Revise(r, s) ==
  /\ status[r] \in {"running", "suspended"}
  /\ status' = [status EXCEPT ![r] = s]
  /\ revision' = [revision EXCEPT ![r] = @ + 1]
  /\ UNCHANGED key

\* The approval that a suspended run waits for is claimed, once.
Claim(r) ==
  /\ status[r] = "suspended"
  /\ ~claimed[r]
  /\ Revise(r, "running")
  /\ claim' = [claim EXCEPT ![r] = claim'[r]]
  /\ claim'[r] # NoClaim
  /\ claimed' = [claimed EXCEPT ![r] = TRUE]

\* Whoever runs it suspends or ends it.
Settle(r) ==
  /\ status[r] = "running"
  /\ \E s \in Terminal \cup {"suspended"} : Revise(r, s)
  /\ claim' = [claim EXCEPT ![r] = claim'[r]]
  /\ claim'[r] \in {claim[r], NoClaim}
  /\ UNCHANGED claimed

\* An operator cancels it.
Cancel(r) ==
  /\ Revise(r, "cancelled")
  /\ UNCHANGED <<claim, claimed>>

Next == \E r \in Runs : Create(r) \/ Claim(r) \/ Settle(r) \/ Cancel(r)

Spec == Init /\ [][Next]_vars
=============================================================================
