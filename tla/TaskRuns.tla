------------------------------- MODULE TaskRuns -------------------------------
(***************************************************************************)
(* How executions of a Task come to run: which are started (TaskStart),    *)
(* what the process of one is told (ProcessStart), and whether a service   *)
(* has as many as it must (ServiceConcurrency).                            *)
(***************************************************************************)
EXTENDS TaskStart

CONSTANTS
  Configurations, Bodies,       \* of ProcessStart
  Executions, Lookback, Startup, MaxRequired, MaxGap, MaxEvents, Horizon
                                \* of ServiceConcurrency

VARIABLES
  task, starting, started, told, origin,
  now, service, execution, events, checked

toldvars == <<task, starting, started, told, origin>>
servicevars == <<now, service, execution, events, checked>>

Telling == INSTANCE ProcessStart WITH row <- started, process <- told

Service == INSTANCE ServiceConcurrency

Configuration ==
  [ method : Telling!Methods, interval : Telling!Setting, concurrency : Telling!Setting,
    cpu : Telling!Units, main : Telling!Units, overrides : Telling!Overrides,
    monitored : BOOLEAN ]

Body ==
  [ interval : Telling!Setting, concurrency : Telling!Setting,
    overrides : Telling!Overrides, cpu : Telling!Units, main : Telling!Units ]

\* NULL is no number and no environment, and users fill in the fields there are.
TellingConstants ==
  /\ None \notin Int /\ None \notin Telling!Environments
  /\ Configurations \subseteq Configuration
  /\ Bodies \subseteq Body

ASSUME TellingAssumption == TellingConstants

\* The checker looks back at least as far as to when it has last passed.
ServiceConstants ==
  /\ IsFiniteSet(Executions)
  /\ Lookback \in Nat /\ Startup \in Nat /\ MaxRequired \in Nat /\ MaxGap \in Nat
  /\ MaxGap <= Lookback

ASSUME ServiceAssumption == ServiceConstants

-----------------------------------------------------------------------------
\* Every instant at which fewer executions of a service ran than required leaves
\* an event open, and none is raised for anything else
\* (ServiceConcurrencyChecker.check_service).
ReportsAreRight == Service!ReportsAreRight

\* A process is told what its row says, by which the checkers judge it, however the
\* Task is edited before, during and after its start (ProcessStart).
ProcessIsAsRowSays == Telling!ProcessIsAsRowSays

=============================================================================
