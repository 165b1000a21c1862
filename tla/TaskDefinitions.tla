--------------------------- MODULE TaskDefinitions ---------------------------
(***************************************************************************)
(* What a Task is set to, and who sets it: its schedule and its service in *)
(* AWS (TaskSync), the settings it has from several rows (TaskSettings),   *)
(* and its description by its own processes (TaskReports).                 *)
(***************************************************************************)
EXTENDS TaskSync

CONSTANTS
  Subnets, Options, SettingsEdits,   \* of TaskSettings
  Tasks, Uuids, Names, Reported, Executions, Reporters, MaxVersion   \* of TaskReports

VARIABLES
  env, settings, started, execution, starting,
  tasks, executions, pending, top, lapsed

settingsvars == <<env, settings, started, execution, starting>>
reportvars == <<tasks, executions, pending, top, lapsed>>

Settings == INSTANCE TaskSettings WITH
  task <- settings, rule <- started, Requests <- SettingsEdits

\* The dictionaries that are merged in TaskSettings.
SettingsNetwork == [ subnets : Subnets \cup {None}, urls : Subnets \cup {None} ]
SettingsConfig == [ option : Options \cup {None}, cluster : { None, "name", "arn" } ]

\* NULL is no dictionary, and requests send attributes of them.
SettingsConstants ==
  /\ None \notin SettingsNetwork \cup SettingsConfig \cup { "name", "arn" }
  /\ \A edit \in SettingsEdits :
       /\ "infra" \in DOMAIN edit /\ edit.infra # None /\ edit.infra.network # None =>
            \A a \in DOMAIN edit.infra.network : edit.infra.network[a] \in Subnets \cup {None}
       /\ "config" \in DOMAIN edit /\ edit.config # None =>
            \A a \in DOMAIN edit.config :
              edit.config[a] \in {None} \cup (IF a = "option" THEN Options ELSE { "name", "arn" })

ASSUME SettingsAssumption == SettingsConstants

Reports == INSTANCE TaskReports WITH Requests <- Reporters

\* The rows of Tasks and of Task Executions in TaskReports.
DescribedTask == [ name : Names, details : 0 .. MaxVersion, latest : Executions \cup {None} ]
ReportingExecution == [ task : Tasks, version : 0 .. MaxVersion, live : BOOLEAN ]

\* NULL is none of the things there are, and wrappers send names that Tasks may have.
ReportConstants ==
  /\ MaxVersion \in Nat /\ Reported \subseteq Names
  /\ None \notin Tasks \cup Executions \cup Names
  /\ None \notin DescribedTask \cup ReportingExecution

ASSUME ReportAssumption == ReportConstants

-----------------------------------------------------------------------------
\* Starting an execution leaves the settings of its Task alone (TaskSettings).
StartLeavesTask == Settings!StartLeavesTask

\* An attribute of an execution method that is edited gets to the rule that starts
\* executions (TaskSettings).
ChangedOptionReachesRule == Settings!ChangedOptionReachesRule

\* A process of an older version does not take back how a newer one has described
\* its Task (TaskReports).
DescriptionIsNewest == Reports!DescriptionIsNewest

=============================================================================
