---------------------------- MODULE TaskExecution ----------------------------
(***************************************************************************)
(* The life of the executions of one Task, each request and each pass of   *)
(* the checker taken as one atomic step: creation through the API by a     *)
(* wrapper that already runs, a manual start through an execution method,  *)
(* the updates that wrappers and users send, the checks the server makes   *)
(* every few minutes, and the events these saves raise and resolve.        *)
(*                                                                         *)
(* Requests may come at any time and any number of times, so a wrapper     *)
(* that dies, retries, or is overtaken by its own earlier messages is      *)
(* among the behaviours.                                                   *)
(***************************************************************************)
EXTENDS TaskExecutionRow, FiniteSets

CONSTANTS
  Executions,             \* identities of the executions of the Task
  MaxConcurrency,         \* task.max_concurrency
  CreateStatuses          \* statuses clients create executions with

ASSUME ExecutionsAssumption == IsFiniteSet(Executions) /\ None \notin Executions
ASSUME MaxConcurrencyAssumption == MaxConcurrency \in Limit
ASSUME TaskHeartbeatIntervalAssumption == TaskHeartbeatInterval \in Limit
ASSUME StatusesAssumption ==
  /\ CreateStatuses \subseteq Status
  /\ UpdateStatuses \subseteq Status \cup {None}
  /\ SilentStatuses \subseteq { "SUCCEEDED", "FAILED", "TERMINATED_AFTER_TIME_OUT" }

VARIABLES
  te,              \* the table: one row for every execution created so far
  latest,          \* task.latest_task_execution
  startAlert,      \* the DelayedTaskExecutionStartEvent of each execution
  heartbeatAlert,  \* the last MissingHeartbeatDetectionEvent of each execution
  announced        \* statuses each execution has a status change event for

vars == <<te, latest, startAlert, heartbeatAlert, announced>>

Created == DOMAIN te

AlertState == { "none", "open", "resolved" }

TypeOK ==
  /\ Created \subseteq Executions
  /\ te \in [Created -> Row]
  /\ latest \in Executions \cup {None}
  /\ startAlert \in [Executions -> AlertState]
  /\ heartbeatAlert \in [Executions -> AlertState]
  /\ announced \in [Executions -> SUBSET Status]

Init ==
  /\ te = [e \in {} |-> None]
  /\ latest = None
  /\ startAlert = [e \in Executions |-> "none"]
  /\ heartbeatAlert = [e \in Executions |-> "none"]
  /\ announced = [e \in Executions |-> {}]

-----------------------------------------------------------------------------
(* What every save of a row does besides storing it.                       *)

\* Executions in this state occupy the Task's concurrency.
Running == { e \in Created : te[e].status = "RUNNING" }

\* A variant with the comparison off by one.
CanStart_OneMore ==
  \/ MaxConcurrency \in {None, 0}
  \/ Cardinality(Running) <= MaxConcurrency

\* Task.can_start_execution
CanStart ==
  \/ MaxConcurrency \in {None, 0}
  \/ Cardinality(Running) < MaxConcurrency

\* pre_save_task_execution looks for a started_at that was NULL in the row as
\* loaded, to resolve the delayed start event.
BecomesStarted(old, row) == old.started = None /\ row.started # None

\* A variant that does not consider that the execution may have ended.
ContactRestored_OnlyByHeartbeat(row) ==
  /\ TaskHeartbeatInterval \notin {None, 0}
  /\ HeartbeatAlertLateness # None
  /\ row.heartbeat # None
  /\ row.heartbeat < TaskHeartbeatInterval + HeartbeatAlertLateness

\* post_save_task_execution: contact was found again, or no longer matters.
\* The interval here is the Task's, not the execution's.
ContactRestored(row) ==
  /\ TaskHeartbeatInterval \notin {None, 0}
  /\ HeartbeatAlertLateness # None
  /\ row.heartbeat # None
  /\ \/ ~InProgress(row.status)
     \/ row.heartbeat < TaskHeartbeatInterval + HeartbeatAlertLateness

\* A variant that announces what has ended, whatever it was before.
Announces_Again(wasInProgress, row) ==
  ~InProgress(row.status) /\ row.status \notin SilentStatuses

\* maybe_create_and_send_status_change_event, once for each status.
Announces(wasInProgress, row) ==
  /\ wasInProgress
  /\ ~InProgress(row.status)
  /\ row.status \notin SilentStatuses

Store(e, row) ==
  te' = [x \in Created \cup {e} |-> IF x = e THEN row ELSE te[x]]

SaveSideEffects(e, wasInProgress, row) ==
  /\ latest' = IF InProgress(row.status) THEN e ELSE latest
  /\ announced' = IF Announces(wasInProgress, row)
                  THEN [announced EXCEPT ![e] = @ \cup {row.status}]
                  ELSE announced

\* heartbeatAlert of e after the save of row, if it was `alert` before.
HeartbeatAlertAfter(alert, row) ==
  IF alert = "open" /\ ContactRestored(row) THEN "resolved" ELSE alert

\* resolve_existing_for_task_execution, by the save of row over old.
StartAlertAfter(alert, old, row) ==
  IF BecomesStarted(old, row) /\ alert = "open" THEN "resolved" ELSE alert

SaveNew(e, row) ==
  /\ Store(e, row)
  /\ SaveSideEffects(e, TRUE, row)
  /\ UNCHANGED <<startAlert, heartbeatAlert>>

-----------------------------------------------------------------------------
(* Requests.                                                               *)

\* POST by a wrapper whose process already runs, or has ended.
Create(e, status) ==
  /\ e \notin Created
  /\ CanStart
  /\ status # "MANUALLY_STARTED"
  /\ SaveNew(e, CreatedRow(status))

\* POST with status MANUALLY_STARTED: the row is saved, then the execution
\* method asks the platform to run the Task and saves the row again.
ManualStart(e) ==
  /\ e \notin Created
  /\ CanStart
  /\ "MANUALLY_STARTED" \in CreateStatuses
  /\ SaveNew(e, CreatedRow("MANUALLY_STARTED"))

\* ... and the platform refuses.
ManualStartFails(e) ==
  LET row == FailedToStartRow(CreatedRow("MANUALLY_STARTED"))
  IN /\ e \notin Created
     /\ CanStart
     /\ "MANUALLY_STARTED" \in CreateStatuses
     /\ Store(e, row)
     /\ latest' = e
     /\ announced' = IF Announces(TRUE, row)
                     THEN [announced EXCEPT ![e] = @ \cup {row.status}]
                     ELSE announced
     /\ UNCHANGED <<startAlert, heartbeatAlert>>

\* PATCH of an existing execution.  A conflicting request changes nothing.
Update(e, request) ==
  LET row == UpdatedRow(te[e], request)
  IN /\ e \in Created
     /\ ~UpdateConflicts(te[e].status, request)
     /\ Store(e, row)
     /\ SaveSideEffects(e, InProgress(te[e].status), row)
     /\ startAlert' = [startAlert EXCEPT ![e] = StartAlertAfter(@, te[e], row)]
     /\ heartbeatAlert' = [heartbeatAlert EXCEPT ![e] = HeartbeatAlertAfter(@, row)]

-----------------------------------------------------------------------------
(* The periodic checker.                                                   *)

\* check_missing_heartbeat raises an alert unless the last one is still open.
RaisedHeartbeatAlert(alert, row) == IF HeartbeatAlertDue(row) THEN "open" ELSE alert

\* check_started_on_time raises one alert about a delayed start, ever.
RaisedStartAlert(alert, row) ==
  IF StartAlertDue(row) /\ alert = "none" THEN "open" ELSE alert

Check(e) ==
  LET row == CheckedRow(te[e])
  IN /\ e \in Created
     /\ Selected(te[e])
     /\ startAlert' = [startAlert EXCEPT ![e] = RaisedStartAlert(@, te[e])]
     /\ IF row = te[e]
        THEN /\ UNCHANGED <<te, latest, announced>>
             /\ heartbeatAlert' = [heartbeatAlert EXCEPT ![e] = RaisedHeartbeatAlert(@, row)]
        ELSE /\ Store(e, row)
             /\ SaveSideEffects(e, InProgress(te[e].status), row)
             /\ heartbeatAlert' = [heartbeatAlert EXCEPT ![e] = HeartbeatAlertAfter(@, row)]

Tick ==
  /\ te' = [e \in Created |-> AgeRow(te[e])]
  /\ UNCHANGED <<latest, startAlert, heartbeatAlert, announced>>

-----------------------------------------------------------------------------
Request ==
  \E e \in Executions :
    \/ \E status \in CreateStatuses : Create(e, status)
    \/ \E status \in UpdateStatuses : Update(e, status)
    \/ ManualStart(e)
    \/ ManualStartFails(e)

Next ==
  \/ Request
  \/ \E e \in Executions : Check(e)
  \/ Tick

Spec == Init /\ [][Next]_vars

\* Time passes and the checker, run by a scheduler every five minutes, goes on
\* looking at every execution.  Nothing obliges a client to send anything.
Fairness == WF_vars(Tick) /\ \A e \in Executions : WF_vars(Check(e))

FairSpec == Spec /\ Fairness

-----------------------------------------------------------------------------
(* Properties.                                                             *)

\* No more executions run at once than the Task allows: checked by
\* can_start_execution when an execution is created, and by nothing later.
ConcurrencyLimit ==
  MaxConcurrency \in {None, 0} \/ Cardinality(Running) <= MaxConcurrency

\* Task.concurrency_at counts the rows with neither a finishing time nor a
\* mark; a row it counts is one the server still awaits news about.
CountedAsRunningIsAwaited ==
  \A e \in Created :
    ~te[e].finished /\ ~te[e].markedDone => te[e].status \in AwaitingUpdateStatuses

\* An alert about a missing heartbeat is open only while the execution runs
\* and is in fact late; the save that ends either condition resolves it.
OpenAlertMeansLate ==
  \A e \in Executions :
    heartbeatAlert[e] = "open" =>
      /\ e \in Created
      /\ te[e].status = "RUNNING"
      /\ OverdueBy(te[e], HeartbeatAlertLateness)

\* What has ended, as reported by its wrapper or decided by the checker, and
\* what was told to stop, is never taken for running again.
EndedNeverRunsAgain ==
  [][ \A e \in Created :
        ~InProgress(te[e].status) => ~InProgress(te'[e].status) ]_vars

\* The rows and the status change events of the executions, seen from outside.
PhaseOf(e) ==
  IF e \notin Created THEN "absent"
  ELSE IF te[e].status = "MANUALLY_STARTED" THEN "asked"
  ELSE IF te[e].status = "RUNNING" THEN "running"
  ELSE "over"

Life == INSTANCE ExecutionLife WITH
  Outcomes <- Status \ InProgressStatuses,
  phase    <- [e \in Executions |-> PhaseOf(e)],
  told     <- announced

\* Whatever requests and checks come in whatever order, an execution goes through
\* its life in one direction, and users are told of its end when it ends, and of
\* one outcome only: the handlers implement ExecutionLife.
ImplementsExecutionLife == Life!Spec

\* Whatever becomes of its process, an execution does not stay in progress or
\* stopping for ever: it reports, or the checker gives up on it.
EveryExecutionEnds ==
  \A e \in Executions :
    (e \in Created /\ Selected(te[e])) ~> (e \in Created /\ ~Selected(te[e]))

=============================================================================
