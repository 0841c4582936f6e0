---------------------------- MODULE FencedLease ----------------------------
(***************************************************************************)
(* What a WorkflowLeaseManager promises about the lease of one run, with   *)
(* clocks, rows, tokens and callers abstracted away.                       *)
(*                                                                         *)
(* docs/WORKFLOWS.md, "Execution Leases And Fencing": a takeover is        *)
(* allowed only after expiry and increments a monotonic fencing token.     *)
(*                                                                         *)
(* The lease is a grant number (the fencing token, 0 before the first      *)
(* grant) and its standing: free (never granted, or released), held (an    *)
(* append fenced by it is accepted now) or lapsed (expired, not yet taken  *)
(* over).  A lapsed grant may come back, because a renewal that was sent   *)
(* in time may be applied late; a released or superseded grant never does. *)
(***************************************************************************)
EXTENDS Naturals

VARIABLES fence, standing

vars == <<fence, standing>>

Standings == {"free", "held", "lapsed"}

TypeOK == fence \in Nat /\ standing \in Standings

Init == fence = 0 /\ standing = "free"

\* The clock of the grant may be so old that it has lapsed on arrival.
Grant ==
  /\ standing # "held"
  /\ fence' = fence + 1
  /\ standing' \in {"held", "lapsed"}

Lapse ==
  /\ standing = "held"
  /\ standing' = "lapsed"
  /\ UNCHANGED fence

Revive ==
  /\ standing = "lapsed"
  /\ standing' = "held"
  /\ UNCHANGED fence

Release ==
  /\ standing \in {"held", "lapsed"}
  /\ standing' = "free"
  /\ UNCHANGED fence

Next == Grant \/ Lapse \/ Revive \/ Release

Spec == Init /\ [][Next]_vars
=============================================================================
