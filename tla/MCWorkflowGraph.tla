---------------------------- MODULE MCWorkflowGraph ----------------------------
(* TLC instances of WorkflowGraph.                                         *)
EXTENDS WorkflowGraph, TLC

CONSTANTS w1, w2, n1, n2, n3, n4, a, b, t1, t2, t3

\* Workflows, rows and names are interchangeable.
Symmetric ==
  Permutations(Workflows) \cup Permutations(Nodes) \cup Permutations(Names)
    \cup Permutations(Transitions)

=============================================================================
