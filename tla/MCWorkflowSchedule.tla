-------------------------- MODULE MCWorkflowSchedule --------------------------
(* TLC instances of WorkflowSchedule, of WorkflowStart for how executions   *)
(* of a Workflow are admitted, and of ApiCredits for the other limits that *)
(* subscriptions set.                                                      *)
EXTENDS WorkflowRules, TLC

CONSTANTS east, west, daily, x1, x2, x3, e1, free, paid, r1, r2

VARIABLE instance   \* which of the three is explored

\* Run Environments are interchangeable, and so are starts by users.
Symmetric == Permutations(Envs) \cup Permutations({x1, x2})

\* One plan with a limit, one without.  The months are 10 to 12, over the turn of the
\* year: November is month 10.
PlanLimits == free :> 1 @@ paid :> None

MCInit ==
  /\ Credits!Init /\ Init /\ Admission!Init /\ workflow.maxConcurrency = 1
  /\ \/ instance = "schedule" /\ active = {}
     \/ instance = "starts" /\ active \in { {}, {free} } /\ able = {}
     \/ instance = "credits" /\ active = {} /\ able = {}

Done == Admission!UnderWay = {} /\ UNCHANGED startvars

MCNext ==
  /\ \/ instance = "schedule" /\ Next /\ UNCHANGED <<startvars, creditvars>>
     \/ instance = "starts" /\ (Admission!Next \/ Done) /\ UNCHANGED <<vars, creditvars>>
     \/ instance = "credits" /\ Credits!Next /\ UNCHANGED <<vars, startvars>>
  /\ UNCHANGED instance

MCSpec == MCInit /\ [][MCNext]_<<vars, startvars, creditvars, instance>>

=============================================================================
