------------------------------- MODULE Alerting -------------------------------
(***************************************************************************)
(* How users are told of what has happened: of the ends of executions of a *)
(* Task (Notifications), of the attempts of a Workflow Execution           *)
(* (WorkflowAlerts), and to whom and how an event goes (Delivery).         *)
(***************************************************************************)
EXTENDS Notifications

CONSTANTS
  MaxAttempts, MaxSwitches,     \* of WorkflowAlerts
  Silences, Misses, Profiles, OfTask, MethodsOf, Kind, MaxEvents, MaxRows, MaxTroubles
                                \* of Delivery

VARIABLES
  status, attempt, alerts, watched, hands, informed, mixed, silent, switches,
  rows, added, met, active, told, heard, incidents, troubles, changes, unsent, excused

attemptvars ==
  <<status, attempt, alerts, watched, hands, informed, mixed, silent, switches>>

deliveryvars ==
  <<rows, added, met, active, told, heard, incidents, troubles, changes, unsent, excused>>

Attempts == INSTANCE WorkflowAlerts WITH
  enabled <- watched, work <- hands, told <- informed, contended <- mixed

ASSUME AttemptsAssumption == MaxAttempts \in Nat \ {0}

Deliveries == INSTANCE Delivery WITH
  events <- rows, enabled <- active, edits <- changes

DeliveryConstants ==
  /\ MaxRows \in Nat
  /\ IsFiniteSet(Profiles) /\ IsFiniteSet(Deliveries!Methods)
  /\ OfTask \subseteq Profiles
  /\ Kind \in [Deliveries!Methods -> { "email", "apprise", "pagerduty" }]

ASSUME DeliveryAssumption == DeliveryConstants

-----------------------------------------------------------------------------
\* An alert about a Task is resolved when enough executions have succeeded, and
\* only then; one about a Workflow Execution when that is started again, and each
\* kind of its ends is told once (ExecutionStatusChangeEvent.update_after_postponed,
\* WorkflowExecution.resolve_status_change_events,
\* Execution.should_create_status_change_event).
AlertsFollowExecutions ==
  /\ ResolvedWhenRecovered
  /\ Attempts!RestartResolves
  /\ Attempts!KindsAreToldOnce

\* Unless something has gone wrong with it, an incident is open at PagerDuty for
\* as long as the alert is (NotificationDeliveryMethod.send, Event.save).
IncidentsFollowAlerts == Deliveries!IncidentsFollowAlerts

\* No Event is left without a Notification, and what it says is what happened
\* (NotificationProfile.send).
NotificationsAccount == Deliveries!NotificationsAccount

=============================================================================
