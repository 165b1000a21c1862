-------------------------- MODULE ExecutionStatus --------------------------
(***************************************************************************)
(* The statuses an execution (of a Task or of a Workflow) can have, and    *)
(* the groups of statuses the server's decisions are made on; and what the *)
(* update of a Task Execution does to its status.                          *)
(***************************************************************************)
CONSTANT None   \* NULL, and a field that a request does not have

Status ==
  { "RUNNING", "SUCCEEDED", "FAILED", "TERMINATED_AFTER_TIME_OUT",
    "MARKED_DONE", "EXITED_AFTER_MARKED_DONE", "STOPPING", "STOPPED",
    "ABANDONED", "MANUALLY_STARTED", "ABORTED" }

\* Started, or asked to start, and not known to have ended.
InProgressStatuses == { "MANUALLY_STARTED", "RUNNING" }

\* What the periodic checker still expects news about.
AwaitingUpdateStatuses == InProgressStatuses \cup { "STOPPING" }

\* How a Task Execution fails, as seen by the workflow that contains it.
UnsuccessfulStatuses ==
  { "FAILED", "TERMINATED_AFTER_TIME_OUT", "MARKED_DONE",
    "EXITED_AFTER_MARKED_DONE", "STOPPING", "STOPPED", "ABANDONED", "ABORTED" }

\* Final reports of a wrapper that the update handler guards and for which
\* it records the finishing time.
GuardedFinalStatuses ==
  { "SUCCEEDED", "FAILED", "TERMINATED_AFTER_TIME_OUT", "ABORTED" }

InProgress(status) == status \in InProgressStatuses

-----------------------------------------------------------------------------
\* An update that names no status counts as a heartbeat of a running
\* execution: None stands for the missing field.
AsHeartbeat(request) == request \in { None, "RUNNING" }

\* A variant that lets an ended execution report that it runs.
UpdateConflicts_FinalOnly(status, request) ==
  /\ request \in GuardedFinalStatuses
  /\ status \notin AwaitingUpdateStatuses \cup { request }

\* TaskExecutionSerializer.update answers 409 and saves nothing.
UpdateConflicts(status, request) ==
  \/ AsHeartbeat(request) /\ status \notin AwaitingUpdateStatuses
  \/ /\ request \in GuardedFinalStatuses
     /\ status \notin AwaitingUpdateStatuses \cup { request }

\* Whoever was told to stop, and reports to be running or to have failed, has
\* stopped.
UpdatedStatus(status, request) ==
  IF status = "STOPPING" /\ (AsHeartbeat(request) \/ request \in { "FAILED", "ABORTED" })
  THEN "STOPPED"
  ELSE IF request = None THEN status
  ELSE request

\* The update records a finishing time.
SetsFinished(status, request) ==
  request \in GuardedFinalStatuses \/ (AsHeartbeat(request) /\ status = "STOPPING")

=============================================================================
