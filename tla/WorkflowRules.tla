---------------------------- MODULE WorkflowRules ----------------------------
(***************************************************************************)
(* What the rules of AWS, of a Workflow and of a group's subscriptions let *)
(* start: the schedule of a Workflow (WorkflowSchedule), the admission of  *)
(* its executions (WorkflowStart), the requests of API keys (ApiCredits).  *)
(***************************************************************************)
EXTENDS WorkflowSchedule, Integers

CONSTANTS
  Starts, ScheduledStarts, Edits, Concurrencies, SometimesRuns, Plans, PlanLimit, DefaultLimit,
  MaxRenewals, MaxCrashes,      \* of WorkflowStart
  CreditRequests, MaxCredits, DefaultCredits, FirstMonth, LastMonth, MaxPerMonth
                                \* of ApiCredits

VARIABLES
  rows, workflow, request, active, clock, renewals, crashes, last, edited, met, muddled,
  widest,
  month, subscribed, groupInfo, asked, together, allowed, blurred, inForce

startvars ==
  <<rows, workflow, request, active, clock, renewals, crashes, last, edited, met, muddled,
    widest>>

creditvars == <<month, subscribed, groupInfo, asked, together, allowed, blurred, inForce>>

Admission == INSTANCE WorkflowStart WITH Scheduled <- ScheduledStarts

Credits == INSTANCE ApiCredits WITH
  Requests <- CreditRequests, active <- subscribed, request <- asked

\* Limits are positive, where there are any, and so are concurrencies.
AdmissionConstants ==
  /\ None \notin Int /\ None \notin Starts
  /\ IsFiniteSet(Starts) /\ IsFiniteSet(Plans)
  /\ Starts \cap Edits = {} /\ ScheduledStarts \subseteq Starts
  /\ Concurrencies \subseteq Nat \ {0}
  /\ DefaultLimit \in (Nat \ {0}) \cup {None}
  /\ PlanLimit \in [Plans -> (Nat \ {0}) \cup {None}]

ASSUME AdmissionAssumption == AdmissionConstants

CreditRow == [ current : Nat, previous : Nat, lastUsed : Int \cup {None} ]

CreditRequest == [ limit : Nat \cup {None}, row : CreditRow \cup {None}, since : Int ]

\* NULL is like no number, row or request, and months follow each other.
CreditConstants ==
  /\ None \notin Int /\ None \notin CreditRow /\ None \notin CreditRequest
  /\ IsFiniteSet(Plans) /\ \A p \in Plans : MaxCredits[p] \in Nat \cup {None}
  /\ DefaultCredits \in Nat \cup {None}
  /\ FirstMonth \in Nat /\ LastMonth \in Nat /\ FirstMonth <= LastMonth

ASSUME CreditAssumption == CreditConstants

-----------------------------------------------------------------------------
\* The Workflow names the execution that was committed last, and is as the last
\* edit left it (WorkflowExecutionViewSet.create).
WorkflowRowIsCurrent == Admission!WorkflowRowIsCurrent

\* Only starts that overlapped exceed the limits of a Workflow and its group
\* (Workflow.can_start_execution, Workflow.purge_history), and only requests that
\* overlapped the credits of a month or their count
\* (SubscriptionRateThrottle.allow_request).
LimitsHold == Admission!LimitsHold /\ Credits!CreditsAreExact

=============================================================================
