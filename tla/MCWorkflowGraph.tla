--------------------------- MODULE MCWorkflowGraph ---------------------------
(* Small definitions of workflows for WorkflowGraph. *)
EXTENDS WorkflowGraphProperties, TLC

CONSTANTS c1, c2, k1

OneCaller == {c1}
TwoCallers == {c1, c2}
OneKey == {k1}
MCSymmetry == Permutations(TwoCallers)

OneRun == 1..1
TwoRuns == 1..2
None == {}

\* 1 -> 2
LineEdges == {<<1, 2>>}

\* 1 -> 2, 1 -> 3, 2 -> 4, 3 -> 4
DiamondEdges == {<<1, 2>>, <<1, 3>>, <<2, 4>>, <<3, 4>>}

First1 == {1}
First2 == {1, 2}
First23 == {2, 3}
AllBut1 == Nodes \ {1}
Once == [n \in Nodes |-> 1]
FlakyOnce == [n \in Nodes |-> IF n = 1 THEN 2 ELSE 1]

AlwaysCompletes == [n \in Nodes |-> {"completed"}]
MayFlake == [n \in Nodes |-> IF n = 1 THEN {"completed", "flaky"} ELSE {"completed"}]
MaySuspend == [n \in Nodes |-> IF n = 2 THEN {"completed", "suspended"} ELSE {"completed"}]
\* Node 1 may fail for good and is captured, node 2 may suspend, the others
\* may fail and end the run.
Assorted ==
  [n \in Nodes |-> CASE n = 1 -> {"completed", "flaky"}
                     [] n = 2 -> {"completed", "suspended"}
                     [] OTHER -> {"completed", "failed"}]
=============================================================================
