--------------------------- MODULE ExecutionLife ---------------------------
(***************************************************************************)
(* What the server promises about the executions of a Task to whoever      *)
(* looks at them, or waits for news, through its API: an execution is      *)
(* asked for, runs and is over, in this order, possibly skipping what comes*)
(* before; and when it is over, then and never again, users may be told of *)
(* one outcome.  An execution that is stopping is over in this sense.      *)
(*                                                                         *)
(* TaskExecution implements this specification.                            *)
(***************************************************************************)
CONSTANTS
  Executions,   \* identities of executions
  Outcomes      \* what users may be told of the end of an execution

VARIABLES
  phase,        \* where each execution is in its life
  told          \* the outcomes that users were told of each execution

vars == <<phase, told>>

Phase == { "absent", "asked", "running", "over" }

\* Users are told of one outcome, or of none that they want to hear about.
News == {{}} \cup { {outcome} : outcome \in Outcomes }

Init ==
  /\ phase = [e \in Executions |-> "absent"]
  /\ told = [e \in Executions |-> {}]

\* The user asks for an execution.
Ask(e) ==
  /\ phase[e] = "absent"
  /\ phase' = [phase EXCEPT ![e] = "asked"]
  /\ UNCHANGED told

\* It runs, whether it was asked for or started elsewhere.
Run(e) ==
  /\ phase[e] \in { "absent", "asked" }
  /\ phase' = [phase EXCEPT ![e] = "running"]
  /\ UNCHANGED told

\* It is over, or known only from now on and over already.
End(e) ==
  /\ phase[e] # "over"
  /\ phase' = [phase EXCEPT ![e] = "over"]
  /\ \E news \in News : told' = [told EXCEPT ![e] = news]

Next == \E e \in Executions : Ask(e) \/ Run(e) \/ End(e)

Spec == Init /\ [][Next]_vars

=============================================================================
