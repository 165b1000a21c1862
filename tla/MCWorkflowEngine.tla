-------------------------- MODULE MCWorkflowEngine --------------------------
(* TLC instances of WorkflowEngine: small workflows.                       *)
EXTENDS WorkflowEngine

\* What the wrapper of a Task sends.
Outcomes == { "SUCCEEDED", "FAILED" }

\* extract, then two nodes side by side, then join.
DiamondNodes == { "extract", "left", "right", "join" }
DiamondTransitions ==
  { <<"extract", "left">>, <<"extract", "right">>, <<"left", "join">>, <<"right", "join">> }

\* extract, then load; on a failure of extract, repair, and load after that by a
\* rule that is not implemented.
BrokenNodes == { "extract", "load", "repair" }
BrokenTransitions == { <<"extract", "load">>, <<"extract", "repair">>, <<"repair", "load">> }

From == [t \in Transitions |-> t[1]]
To == [t \in Transitions |-> t[2]]

SuccessRules == [t \in Transitions |-> "success"]
BrokenRules ==
  [t \in Transitions |->
     CASE t[1] = "repair" -> "unsupported" [] t[2] = "repair" -> "failure" [] OTHER -> "success"]

ForAll(x) == [n \in Nodes |-> x]
AnyOf == ForAll("any")
AllOf == ForAll("all")
FailIfUnhandled == ForAll("fail_if_unhandled")
Unset == ForAll(None)
One == ForAll(1)

NoSelections == {}
Singles == { {n} : n \in Nodes }

=============================================================================
