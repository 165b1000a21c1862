----------------------------- MODULE MCTaskSync -----------------------------
(* TLC instances of TaskSync, of TaskSettings for a Task whose settings     *)
(* come from several rows, and of TaskReports for one that is described by  *)
(* its processes.                                                           *)
EXTENDS TaskDefinitions, TLC

CONSTANTS c1, c2, s1, s2, t1, t2, x1, x2, r1, r2

VARIABLE instance   \* which of the three is explored

\* Edits that a deployment or a user sends, each naming the fields it changes.
Edits ==
  { [enabled |-> FALSE], [enabled |-> TRUE], [passive |-> TRUE], [passive |-> FALSE],
    [count |-> 1], [count |-> 2], [isService |-> FALSE],
    [schedule |-> "daily"],
    [serviceManaged |-> TRUE], [serviceManaged |-> FALSE],
    [scheduleManaged |-> TRUE], [scheduleManaged |-> FALSE],
    [cluster |-> c1], [cluster |-> c2],
    [config |-> "v1"], [config |-> "v2"] }

\* Edits of the settings, whole or in part.
SomeSettingsEdits ==
  { [method |-> "AWS ECS"], [method |-> "AWS CodeBuild"],
    [scheduled |-> TRUE], [scheduled |-> FALSE], [infra |-> None] }
  \cup { [infra |-> [network |-> n]] :
           n \in { None } \cup [ { "subnets" } -> { s1, s2, None } ] }
  \cup { [config |-> c] :
           c \in { None } \cup [ { "option" } -> { "FARGATE", None } ]
                 \cup [ option : { "FARGATE", None }, cluster : { "name" } ] }

\* Of the reports: one Task, or none, with the UUID that wrappers send or with
\* another; two processes at a time, of two versions or without one; users rename
\* the Task.
MCInit ==
  /\ Init /\ Settings!Init /\ Reports!Init
  /\ instance \in { "sync", "settings", "reports" }

MCNext ==
  /\ \/ instance = "sync" /\ Next /\ UNCHANGED <<settingsvars, reportvars>>
     \/ instance = "settings" /\ Settings!Next /\ UNCHANGED <<vars, reportvars>>
     \/ instance = "reports" /\ Reports!Next /\ UNCHANGED <<vars, settingsvars>>
  /\ UNCHANGED instance

MCSpec == MCInit /\ [][MCNext]_<<vars, settingsvars, reportvars, instance>>

-----------------------------------------------------------------------------
\* The subnets of a Task that are edited get to the rule that starts executions
\* (TaskSettings).
ChangedSubnetsReachRule == Settings!ChangedSubnetsReachRule

=============================================================================
