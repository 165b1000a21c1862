-------------------------- MODULE MCTaskExecution --------------------------
(* TLC instances of TaskExecution: one execution in full detail, or        *)
(* several under fewer limits.                                             *)
EXTENDS TaskExecution

VARIABLE instance   \* which of the two is explored

\* What wrappers report of themselves.
WrapperStatuses == { "RUNNING" } \cup GuardedFinalStatuses

\* Everything the repository's own clients send: also the start and the stop
\* button of the user interface, and a heartbeat that names no status.
ClientCreates == WrapperStatuses \cup { "MANUALLY_STARTED" }
ClientUpdates == WrapperStatuses \cup { None, "STOPPING" }

\* Fewer, for several executions: the handlers treat every final status
\* of a wrapper as they treat FAILED, but for what users are told.
Reports == { "RUNNING", "FAILED" }
Updates == Reports \cup { None }

Crowd == INSTANCE TaskExecution WITH
  Horizon <- 3, MaxAge <- 2, MaxStoppingDuration <- 2,
  ManualStartAlertDelay <- None, ManualStartAbandonDelay <- None,
  HeartbeatAbandonLateness <- None,
  CreateStatuses <- Reports, UpdateStatuses <- Updates

Alone(e) == Created' \subseteq {e}

MCInit == Init /\ instance \in { "one", "several" }

One == instance = "one" /\ Next /\ \E e \in Executions : Alone(e)
Several == instance = "several" /\ Crowd!Next

MCNext == (One \/ Several) /\ UNCHANGED instance

mcvars == <<vars, instance>>

MCSpec ==
  /\ MCInit /\ [][MCNext]_mcvars
  /\ WF_mcvars(instance = "one" /\ Tick /\ UNCHANGED instance)
  /\ WF_mcvars(instance = "several" /\ Crowd!Tick /\ UNCHANGED instance)
  /\ \A e \in Executions :
       /\ WF_mcvars(instance = "one" /\ Check(e) /\ UNCHANGED instance)
       /\ WF_mcvars(instance = "several" /\ Crowd!Check(e) /\ UNCHANGED instance)

=============================================================================
