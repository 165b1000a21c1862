---------------------------- MODULE MCNotifications ----------------------------
(* TLC instances of Notifications, of WorkflowAlerts for executions that    *)
(* end several times, and of Delivery for what becomes of an event sent.   *)
EXTENDS Alerting, TLC

CONSTANTS silence, missed, ofTask, ofEnv, pager, chat, mail

VARIABLE instance   \* which of the three is explored

\* Failures are postponed and limited; timeouts are neither; a success is
\* nothing to tell.
Severities ==
  [ SUCCEEDED |-> None, FAILED |-> 400, TERMINATED_AFTER_TIME_OUT |-> 600 ]
Delays ==
  [ SUCCEEDED |-> None, FAILED |-> 1, TERMINATED_AFTER_TIME_OUT |-> None ]
PostponedCounts ==
  [ SUCCEEDED |-> 0, FAILED |-> 1, TERMINATED_AFTER_TIME_OUT |-> 0 ]

\* Each profile sends to a method of its own and to one that both send to.
ProfileMethods == ofTask :> {pager, chat} @@ ofEnv :> {pager, mail}
Kinds == pager :> "pagerduty" @@ chat :> "apprise" @@ mail :> "email"

MCInit ==
  /\ Init /\ Deliveries!Init /\ Attempts!Init
  /\ \/ instance = "events" /\ ofTask \notin active /\ ofEnv \notin active
     \/ instance \in { "delivery", "attempts" }

MCNext ==
  /\ \/ instance = "events" /\ Next /\ UNCHANGED <<deliveryvars, attemptvars>>
     \/ instance = "delivery" /\ Deliveries!Next /\ UNCHANGED <<vars, attemptvars>>
     \/ instance = "attempts" /\ Attempts!Next /\ UNCHANGED <<vars, deliveryvars>>
  /\ UNCHANGED instance

MCSpec ==
  /\ MCInit /\ [][MCNext]_<<vars, deliveryvars, attemptvars, instance>>
  /\ instance = "events" => Fairness

=============================================================================
