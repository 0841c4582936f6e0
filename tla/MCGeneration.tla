----------------------------- MODULE MCGeneration -----------------------------
(* Instances of Generation. *)
EXTENDS Generation, TLC

CONSTANTS m1, m2, b1, g1, g2, l1, l2

Requests12 == {g1, g2}
Loops12 == {l1, l2}
AllCallers == Requests12 \cup Loops12
Shared == [m \in Models |-> b1]
MCSymmetry == Permutations(Requests12) \cup Permutations(Loops12)

Route12 == <<m1, m2>>

ASSUME m1 # m2
=============================================================================
