----------------------------- MODULE MCLiveRun -----------------------------
(* LiveRun for TLC. *)
EXTENDS LiveRun

CONSTANTS k1, k2, x, y

\* The second call is always the same; the first may be repeated, or its id
\* reused.
SomeEvents == {e \in SessionEvents : e.call = k2 => e.args # y}
=============================================================================
