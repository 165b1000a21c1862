-------------------------- MODULE TaskExecutionRow --------------------------
(***************************************************************************)
(* What the request handlers and the periodic checker do to ONE row of the *)
(* Task Execution table, as functions from the row they have loaded to the *)
(* row they save.  TaskExecution applies them to the row as it is;         *)
(* TaskExecutionRace applies them to a copy loaded earlier.                *)
(*                                                                         *)
(* Time is kept as ages: a timestamp T is the number of time units since   *)
(* T, None when the column is NULL.  Ages stop growing at Horizon, which   *)
(* lies beyond every limit, so each comparison made by the code has the    *)
(* same outcome for the capped age as for the real one.                    *)
(***************************************************************************)
EXTENDS Integers, ExecutionStatus

CONSTANTS
  Horizon,                    \* where ages stop growing
  MaxAge,                     \* task.max_age_seconds
  MaxStoppingDuration,        \* TaskExecutionChecker.MAX_STOPPING_DURATION_SECONDS
  ManualStartAlertDelay,      \* task.max_manual_start_delay_before_alert_seconds
  ManualStartAbandonDelay,    \* task.max_manual_start_delay_before_abandonment_seconds
  HeartbeatInterval,          \* heartbeat_interval_seconds of the execution
  HeartbeatAlertLateness,     \* task.max_heartbeat_lateness_before_alert_seconds
  HeartbeatAbandonLateness,   \* task.max_heartbeat_lateness_before_abandonment_seconds
  TaskHeartbeatInterval,      \* task.heartbeat_interval_seconds
  SilentStatuses,             \* statuses whose notification severity is not set
  UpdateStatuses              \* statuses clients update executions to (None: no such field)

Limit == Nat \cup {None}

ASSUME NoneAssumption == None \notin Nat
ASSUME HorizonAssumption == Horizon \in Nat
ASSUME LimitAssumption ==
  /\ MaxAge \in Limit
  /\ MaxStoppingDuration \in Nat
  /\ ManualStartAlertDelay \in Limit
  /\ ManualStartAbandonDelay \in Limit
  /\ HeartbeatInterval \in Limit
  /\ HeartbeatAlertLateness \in Limit
  /\ HeartbeatAbandonLateness \in Limit

-----------------------------------------------------------------------------
Age == 0 .. Horizon

StopReason ==
  { None, "MAX_EXECUTION_TIME_EXCEEDED", "MISSING_HEARTBEAT",
    "FAILED_TO_START" }

Row ==
  [ status       : Status,
    stopReason   : StopReason,
    started      : Age,                   \* started_at, never NULL
    heartbeat    : Age \cup {None},       \* last_heartbeat_at
    killStarted  : Age \cup {None},       \* kill_started_at
    killFinished : BOOLEAN,               \* kill_finished_at is set
    markedDone   : BOOLEAN,               \* marked_done_at is set
    finished     : BOOLEAN ]              \* finished_at is set

Older(age) == IF age = None \/ age = Horizon THEN age ELSE age + 1

AgeRow(row) ==
  [row EXCEPT !.started = Older(@), !.heartbeat = Older(@),
              !.killStarted = Older(@)]

Exceeds(age, limit) == limit # None /\ age > limit

\* How long after its last heartbeat an execution is late by `lateness`.
OverdueBy(row, lateness) ==
  /\ HeartbeatInterval # None
  /\ lateness # None
  /\ (IF row.heartbeat = None THEN row.started ELSE row.heartbeat)
        > HeartbeatInterval + lateness

-----------------------------------------------------------------------------
\* pre_save_task_execution: a row saved as STOPPING or STOPPED records since
\* when, unless it already does.
PreSave(row) ==
  CASE row.status = "STOPPING" /\ row.killStarted = None ->
         [row EXCEPT !.killStarted = 0]
    [] row.status = "STOPPED" -> [row EXCEPT !.killFinished = TRUE]
    [] OTHER -> row

\* TaskExecutionSerializer.create: a status reported as already final gets a
\* finishing time, a RUNNING one its first heartbeat.
CreatedRow(status) ==
  PreSave(
    [ status       |-> status,
      stopReason   |-> None,
      started      |-> 0,
      heartbeat    |-> IF status = "RUNNING" THEN 0 ELSE None,
      killStarted  |-> None,
      killFinished |-> FALSE,
      markedDone   |-> FALSE,
      finished     |-> status \in GuardedFinalStatuses
                                    \cup { "EXITED_AFTER_MARKED_DONE" } ])

\* A variant that stores the status of a request which names none.
UpdatedRow_StoresMissingStatus(row, request) ==
  PreSave([row EXCEPT !.status = request,
                      !.finished = @ \/ request \in GuardedFinalStatuses])

\* TaskExecutionSerializer.update, for a request that is not refused.
UpdatedRow(row, request) ==
  PreSave([row EXCEPT
    !.status    = UpdatedStatus(row.status, request),
    !.heartbeat = IF AsHeartbeat(request) THEN 0 ELSE @,
    !.finished  = @ \/ SetsFinished(row.status, request)])

\* The start of the external process failed in one of the execution methods.
FailedToStartRow(row) ==
  [row EXCEPT !.status = "FAILED", !.stopReason = "FAILED_TO_START",
              !.finished = TRUE]

-----------------------------------------------------------------------------
(* TaskExecutionChecker: the query of check_all, then the checks that       *)
(* check_task_execution makes, in their order, on the row it loads again.  *)

\* What check_all selects.
Selected(row) == row.status \in AwaitingUpdateStatuses /\ ~row.finished

\* check_started_on_time: an execution late to start is not checked further.
NeverStarted(row) ==
  row.status = "MANUALLY_STARTED" /\ Exceeds(row.started, ManualStartAbandonDelay)

StartAlertDue(row) ==
  row.status = "MANUALLY_STARTED" /\ Exceeds(row.started, ManualStartAlertDelay)

\* check_timeout.  The time spent STOPPING is measured from started_at, and
\* every other status is held against the maximum age.
StoppedTooSlowly(row) ==
  row.status = "STOPPING" /\ row.started >= MaxStoppingDuration

RanTooLong(row) == row.status # "STOPPING" /\ Exceeds(row.started, MaxAge)

\* check_missing_heartbeat
LostContact(row) ==
  row.status = "RUNNING" /\ OverdueBy(row, HeartbeatAbandonLateness)

HeartbeatAlertDue(row) ==
  /\ row.status = "RUNNING"
  /\ OverdueBy(row, HeartbeatAlertLateness)
  /\ ~RanTooLong(row) /\ ~LostContact(row)

\* A variant that holds only running executions against their limits.
CheckedRow_IgnoresStopping(row) ==
  IF NeverStarted(row) THEN [row EXCEPT !.status = "ABANDONED", !.markedDone = TRUE]
  ELSE IF RanTooLong(row)
  THEN PreSave([row EXCEPT !.status = "STOPPING", !.markedDone = TRUE])
  ELSE row

CheckedRow(row) ==
  IF row.finished THEN row
  ELSE IF NeverStarted(row) THEN
    [row EXCEPT !.status = "ABANDONED", !.stopReason = "FAILED_TO_START",
                !.markedDone = TRUE]
  ELSE IF StartAlertDue(row) THEN row
  ELSE IF StoppedTooSlowly(row) THEN
    [row EXCEPT !.status = "ABANDONED", !.markedDone = TRUE, !.finished = TRUE]
  ELSE IF RanTooLong(row) THEN
    PreSave([row EXCEPT !.status = "STOPPING", !.markedDone = TRUE,
                        !.stopReason = "MAX_EXECUTION_TIME_EXCEEDED"])
  ELSE IF LostContact(row) THEN
    [row EXCEPT !.status = "ABANDONED", !.stopReason = "MISSING_HEARTBEAT",
                !.markedDone = TRUE, !.finished = TRUE]
  ELSE row

=============================================================================
