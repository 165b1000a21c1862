---------------------------- MODULE ProcessStart ----------------------------
(***************************************************************************)
(* What a process that is started by hand is told.  The request names some *)
(* settings, the Task has others, and each execution method combines them  *)
(* in its own way: into the row of the Task Execution, by which the        *)
(* checkers judge the process, and into the environment and the resources  *)
(* of its containers.  Environment variables that a Task or a request      *)
(* overrides come last, and may be those of the wrapper.                   *)
(*                                                                         *)
(* Two settings stand for the others: the heartbeat interval, which falls  *)
(* back to the Task's wherever it is read, and the concurrency, which does *)
(* not.  One resource, CPU units, stands for both.                         *)
(***************************************************************************)
EXTENDS Integers, FiniteSets

CONSTANTS
  None,           \* NULL
  Configurations, \* what users make of the Task
  Bodies          \* requests to start it; both are records as below

VARIABLES
  task,       \* the Task
  starting,   \* the request under way: the Task as it has read it, and the body
  row,        \* the Task Execution, and whether it was edited since
  process,    \* what its containers were given
  origin      \* the request that it was started by

vars == <<task, starting, row, process, origin>>

\* Variables that the wrapper reads, and one of the application.
WrapperVars == { "interval", "concurrency" }
Vars == WrapperVars \cup { "app" }

\* Values of variables and settings; 0 is one that the code takes for none in places.
Values == 0 .. 2

Methods == { "AWS ECS", "AWS CodeBuild", "AWS Lambda" }

\* environment_variables_overrides: NULL removes a variable.
Overrides == UNION { [S -> Values \cup {None}] : S \in SUBSET Vars }
Environments == UNION { [S -> Values] : S \in SUBSET Vars }

Setting == Values \cup {None}
Units == Int \cup {None}

Init ==
  /\ task = None
  /\ starting = None /\ row = None /\ process = None /\ origin = None

-----------------------------------------------------------------------------
(* TaskExecution.make_environment.                                         *)

\* Python's x or y.
Or(x, y) == IF x \in {None, 0} THEN y ELSE x

\* What the row says to the wrapper.
WrapperEnvironment(t, x) ==
  LET interval == Or(x.interval, t.interval)
      told == { v \in WrapperVars :
                  \/ v = "interval" /\ interval # None
                  \/ v = "concurrency" /\ x.concurrency \notin {None, 0} }
  IN [v \in told |-> IF v = "interval" THEN interval ELSE x.concurrency]

Overridden(environment, overrides) ==
  LET removed == { v \in DOMAIN overrides : overrides[v] = None }
  IN [v \in (DOMAIN environment \cup DOMAIN overrides) \ removed |->
        IF v \in DOMAIN overrides THEN overrides[v] ELSE environment[v]]

\* The Task's overrides, then the execution's, for a container that runs the
\* application.
MadeEnvironment(t, x, wrapper, app) ==
  LET env == IF wrapper THEN WrapperEnvironment(t, x) ELSE [v \in {} |-> 0]
  IN IF app THEN Overridden(Overridden(env, t.overrides), x.overrides) ELSE env

-----------------------------------------------------------------------------
(* The execution methods.                                                  *)

DefaultUnits == 4   \* DEFAULT_CPU_UNITS; here a small number of units

\* A variant in which the interval stays with the Task, from which the environment has
\* it anyway, as for builds.
Frozen_NotInterval(t, x) ==
  [x EXCEPT !.concurrency = Or(@, t.concurrency), !.cpu = Or(Or(@, t.cpu), DefaultUnits)]

\* Before it asks AWS, ECS gives the row whatever the request left to the Task.
Frozen(t, x) ==
  [x EXCEPT !.interval = Or(@, t.interval), !.concurrency = Or(@, t.concurrency),
            !.cpu = Or(Or(@, t.cpu), DefaultUnits)]

\* The main container gets what is left of the whole by the others, which get what
\* the Task has left them.
MainUnits(t, x) ==
  IF x.main = None /\ Or(t.cpu, 0) # 0 /\ Or(t.main, 0) # 0
  THEN (x.cpu - t.cpu) + t.main ELSE x.main

\* run_task: the main container and, if another one monitors it, that.
EcsProcess(t, x) ==
  [ environment |-> MadeEnvironment(t, x, ~t.monitored, TRUE),
    monitor     |-> IF t.monitored THEN MadeEnvironment(t, x, TRUE, FALSE) ELSE None,
    main        |-> Or(x.main, None) ]

\* start_build, and invoke, which has no environment.
OtherProcess(environment) ==
  [ environment |-> environment, monitor |-> None, main |-> None ]

ProcessOf(t, x) ==
  CASE t.method = "AWS ECS"       -> EcsProcess(t, x)
    [] t.method = "AWS CodeBuild" -> OtherProcess(MadeEnvironment(t, x, TRUE, TRUE))
    [] t.method = "AWS Lambda"    -> OtherProcess([v \in {} |-> 0])

\* The row as the method saves it.
Completed(t, x) ==
  IF t.method = "AWS ECS"
  THEN LET frozen == Frozen(t, x) IN [frozen EXCEPT !.main = MainUnits(t, frozen)]
  ELSE x

\* AWS refuses a share that is not positive.
MayRun(x) == Or(x.main, 0) >= 0

-----------------------------------------------------------------------------
\* The Task is created, or edited.
EditTask(configuration) ==
  /\ task' = configuration
  /\ UNCHANGED <<starting, row, process, origin>>

\* protect_attributes: what only developers may set.  Support may choose the
\* interval, but not as a variable of the wrapper.
NeedsDeveloper(body) ==
  body.concurrency # None \/ DOMAIN body.overrides \cap WrapperVars # {}

\* TaskExecutionViewSet.create, with the status MANUALLY_STARTED.
Begin(body, developer) ==
  /\ task # None /\ starting = None /\ row = None
  /\ NeedsDeveloper(body) => developer
  /\ starting' = [ task |-> task, body |-> body ]
  /\ UNCHANGED <<task, row, process, origin>>

\* The row as the request makes it.
NewRow(t, body) ==
  [ method |-> t.method, status |-> "MANUALLY_STARTED", edited |-> FALSE,
    interval |-> body.interval, concurrency |-> body.concurrency,
    overrides |-> body.overrides, cpu |-> body.cpu, main |-> body.main ]

\* manually_start.  ECS saves the whole Task, as the request had read it.
Finish(accepted) ==
  /\ starting # None
  /\ LET t == starting.task
         x == Completed(t, NewRow(t, starting.body))
     IN /\ accepted => MayRun(x)
        /\ row' = [x EXCEPT !.status = IF accepted THEN @ ELSE "FAILED"]
        /\ process' = IF accepted THEN ProcessOf(t, x) ELSE None
        /\ task' = IF t.method = "AWS ECS" THEN t ELSE task
  /\ origin' = starting /\ starting' = None

\* The environment of whatever runs the wrapper.
OfWrapper(p) == IF p.monitor # None THEN p.monitor ELSE p.environment

\* The wrapper reports, with the interval it was told, or none.
Report(status) ==
  /\ row # None /\ process # None /\ row.status \in { "MANUALLY_STARTED", "RUNNING" }
  /\ \E tells \in BOOLEAN :
       row' = [row EXCEPT !.status = status,
         !.interval = IF tells /\ "interval" \in DOMAIN OfWrapper(process)
                      THEN OfWrapper(process)["interval"] ELSE @]
  /\ UNCHANGED <<task, starting, process, origin>>

\* A user edits the execution, which its process does not hear of.
EditExecution(body, developer) ==
  /\ row # None
  /\ (row.status = "MANUALLY_STARTED" /\ body.concurrency # row.concurrency) => developer
  /\ row' = [row EXCEPT !.interval = body.interval, !.concurrency = body.concurrency,
                        !.edited = TRUE]
  /\ UNCHANGED <<task, starting, process, origin>>

\* The execution is over and its row deleted.
Forget ==
  /\ row # None /\ row.status \in { "SUCCEEDED", "FAILED" }
  /\ row' = None /\ process' = None /\ origin' = None
  /\ UNCHANGED <<task, starting>>

Next ==
  \/ \E configuration \in Configurations : EditTask(configuration)
  \/ \E body \in Bodies, developer \in BOOLEAN :
       Begin(body, developer) \/ EditExecution(body, developer)
  \/ \E accepted \in BOOLEAN : Finish(accepted)
  \/ \E status \in { "RUNNING", "SUCCEEDED" } : Report(status)
  \/ Forget

Spec == Init /\ [][Next]_vars

-----------------------------------------------------------------------------
(* Properties.                                                             *)

TypeOK ==
  /\ task # None =>
       task \in [ method : Methods, interval : Setting, concurrency : Setting, cpu : Units,
                  main : Units, overrides : Overrides, monitored : BOOLEAN ]
  /\ row # None =>
       row \in [ method : Methods,
                  status : { "MANUALLY_STARTED", "RUNNING", "SUCCEEDED", "FAILED" },
                 edited : BOOLEAN, interval : Setting, concurrency : Setting,
                 overrides : Overrides, cpu : Units, main : Units ]
  /\ process # None =>
       /\ process.environment \in Environments
       /\ process.monitor \in Environments \cup {None}

Told(name) ==
  IF name \in DOMAIN OfWrapper(process) THEN OfWrapper(process)[name] ELSE None

\* The wrapper reads a variable that somebody has overridden.
Misled(name) ==
  /\ process.monitor = None
  /\ name \in DOMAIN origin.task.overrides \cup DOMAIN origin.body.overrides

ToldAsRowSays ==
  \A name \in WrapperVars :
    LET said == IF name = "interval" THEN row.interval ELSE row.concurrency
    IN \/ Misled(name) \/ row.edited \/ row.method = "AWS Lambda"
       \/ row.method = "AWS CodeBuild" /\ name = "interval" /\ said \in {None, 0}
       \/ Told(name) = said
       \/ Told(name) = None /\ said = 0

\* What the main container leaves of the whole is what the Task leaves the others.
OthersKeepTheirShare ==
  ( process.main # None /\ origin.body.main = None )
  => row.cpu - process.main = origin.task.cpu - origin.task.main

\* A process is told what its row says, by which the checkers judge it: heartbeats
\* as often and as many at a time (TaskExecution.make_environment against the columns
\* that TaskExecutionChecker and Task read), however the Task and its overrides are
\* edited before, during and after the start; and more or fewer units for one
\* execution are at the cost of its main container only.  Not if a variable of the
\* wrapper was overridden, which reaches it unless a container of its own monitors the
\* process; if the row was edited; or for Lambda functions, which are told nothing.
\* Builds get an interval from the Task that their row does not, so that nothing is
\* expected of them until they report; an interval or a concurrency of 0 is none.
ProcessIsAsRowSays ==
  /\ TypeOK
  /\ ( process # None /\ row # None ) => ToldAsRowSays /\ OthersKeepTheirShare

=============================================================================
