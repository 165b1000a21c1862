------------------------------ MODULE TaskSync ------------------------------
(***************************************************************************)
(* What becomes, in AWS, of the schedule and the service of one Task while *)
(* users create, edit and delete the Task.  A request validates its fields,*)
(* saves the row, compares it with the row as it was, tears down and sets  *)
(* up what differs, and saves again, all in one database transaction.      *)
(*                                                                         *)
(* Every call to AWS may raise.  The exception ends the request and rolls  *)
(* the row back, but nothing takes back the calls that AWS has carried out *)
(* by then.  A request is therefore a set of outcomes, one for each call   *)
(* that may be the one to raise.                                           *)
(***************************************************************************)
EXTENDS Integers, FiniteSets

CONSTANTS
  None,           \* NULL
  Deleted,        \* the Task when it is gone
  Schedules,      \* cron and rate expressions
  Clusters,       \* ECS clusters: another one requires another service
  Configs,        \* task definitions: another one requires an update
  MaxInstances,   \* bound on service_instance_count
  MaxSuffix,      \* bound on the number at the end of the names of services
  Requests,       \* the edits users make: functions from fields to values
  CallsFail,      \* calls that change something in AWS may raise
  DescribeFails,  \* describe_services may raise
  RemovedByHand   \* users remove rules and services in the AWS console

ASSUME BoundsAssumption ==
  MaxInstances \in Nat \ {0} /\ MaxSuffix \in Nat /\ None \notin Nat
ASSUME NoneAssumption ==
  None \notin Schedules /\ None \notin BOOLEAN /\ None \notin Clusters \X (0 .. MaxSuffix)
ASSUME ChoicesAssumption == Clusters # {} /\ Configs # {}
ASSUME SwitchesAssumption == {CallsFail, DescribeFails, RemovedByHand} \subseteq BOOLEAN

ServiceKey == Clusters \X (0 .. MaxSuffix)   \* an ARN: cluster, suffix of the name

Flag == BOOLEAN \cup {None}

Method == { "AWS ECS", "AWS Lambda" }

TaskRow ==
  [ enabled  : BOOLEAN,
    passive  : BOOLEAN,
    method   : Method,                         \* execution_method_type
    cluster  : Clusters,
    config   : Configs,
    schedule : Schedules \cup {None},          \* None: the empty string
    scheduleManaged : Flag,                    \* is_scheduling_managed
    rule     : BOOLEAN,                        \* scheduling_settings name a rule
    target   : BOOLEAN,                        \* ... and a target
    count    : (0 .. MaxInstances) \cup {None},\* service_instance_count
    serviceManaged  : Flag,                    \* is_service_managed
    arn      : ServiceKey \cup {None} ]        \* service_settings.service_arn

ASSUME RowsAssumption == None \notin TaskRow /\ Deleted \notin TaskRow \cup {None}

\* What the field of a request may be.
Sent ==
  [ enabled |-> BOOLEAN, passive |-> BOOLEAN, method |-> Method,
    cluster |-> Clusters, config |-> Configs, schedule |-> Schedules \cup {None},
    count |-> (0 .. MaxInstances) \cup {None},
    isService |-> Flag, scheduleManaged |-> Flag, serviceManaged |-> Flag ]

ASSUME RequestsAssumption ==
  \A r \in Requests : DOMAIN r \subseteq DOMAIN Sent /\ \A f \in DOMAIN r : r[f] \in Sent[f]

\* A service that does not run: what it would run does not matter any more.
Idle(status) == [status |-> status, config |-> None, count |-> None]

Absent == Idle("absent")

VARIABLES
  row,       \* the Task: None before its creation, Deleted at the end
  rule,      \* the EventBridge rule: its schedule, None if there is none
  target,    \* what it starts: cluster and configuration, or None
  services,  \* the ECS services named after the Task
  fault      \* AWS was changed behind the back of the row

vars == <<row, rule, target, services, fault>>

Exists == row \notin {None, Deleted}

Target == [cluster : Clusters, config : Configs]

Service ==
  [ status : { "ACTIVE" }, config : Configs, count : 0 .. MaxInstances ]
    \cup { Idle(status) : status \in { "absent", "DRAINING", "INACTIVE" } }

TypeOK ==
  /\ row \in TaskRow \cup {None, Deleted}
  /\ rule \in Schedules \cup {None}
  /\ target \in Target \cup {None}
  /\ services \in [ServiceKey -> Service]
  /\ fault \in BOOLEAN

-----------------------------------------------------------------------------
(* A request at work: the row as it was (changed by what its execution     *)
(* method tears down), the row to be saved, and AWS.                       *)

World ==
  [ old |-> row, task |-> row, rule |-> rule, target |-> target,
    services |-> services,
    info |-> None,          \* the service that a teardown has found
    misled |-> FALSE,       \* describe_services has raised
    raised |-> FALSE ]

Raise(w) == [w EXCEPT !.raised = TRUE]

\* A call to AWS that takes w to done.
Attempt(w, done) == {done} \cup (IF CallsFail THEN {Raise(w)} ELSE {})

\* One piece of code after another.
Then(W, Op(_)) == UNION { IF w.raised THEN {w} ELSE Op(w) : w \in W }

\* Task.has_active_managed_scheduled_execution(current)
ActiveSchedule(task, current) ==
  /\ task.enabled /\ ~task.passive
  /\ task.schedule # None
  /\ IF task.scheduleManaged = None THEN ~current ELSE task.scheduleManaged

\* Task.is_active_managed_service(current)
ActiveService(task, current) ==
  /\ task.enabled /\ ~task.passive
  /\ task.count # None
  /\ IF task.serviceManaged = None THEN ~current ELSE task.serviceManaged

\* supports_capability of SCHEDULING and SETUP_SERVICE, given subnets and a role.
Supports(task) == task.method = "AWS ECS" /\ ~task.passive

-----------------------------------------------------------------------------
(* The schedule: an EventBridge rule and its target.                       *)

\* should_maybe_update_scheduled_execution: what is the same for every execution
\* method; None if that does not decide.
MayReschedule(old, task) ==
  LET will == ActiveSchedule(task, FALSE)
      was  == ActiveSchedule(old, TRUE)
  IN IF old = None THEN will
     ELSE IF will # was THEN TRUE
     ELSE IF ~will THEN FALSE
     ELSE IF task.schedule # old.schedule THEN TRUE ELSE None

\* should_update_or_force_recreate_scheduled_execution.  Where ECS updates, it
\* also recreates; other methods reach a setup only to be refused it.
ScheduleChanges(old, task) ==
  LET decided == MayReschedule(old, task)
  IN IF decided # None THEN decided
     ELSE \/ task.method # "AWS ECS" \/ old.method # "AWS ECS"
          \/ task.cluster # old.cluster \/ task.config # old.config

RemoveTarget(w) ==
  IF ~w.old.target THEN {w}
  ELSE Attempt(w, [w EXCEPT !.target = None, !.old.target = FALSE])

DeleteRule(w) ==
  IF ~w.old.rule THEN {w}
  ELSE Attempt(w, [w EXCEPT !.rule = None, !.old.rule = FALSE,
                            !.old.scheduleManaged = None])

\* A variant that does not remove the rule with its target.
TeardownSchedule_TargetOnly(w) ==
  IF w.old.method # "AWS ECS" \/ w.old.scheduleManaged = FALSE
  THEN {[w EXCEPT !.old.rule = FALSE, !.old.target = FALSE]}
  ELSE RemoveTarget(w)

\* teardown_scheduled_execution of the old execution method.  What is not found
\* counts as removed.  A method that does not schedule returns no settings.
TeardownSchedule(w) ==
  IF w.old.method # "AWS ECS" \/ w.old.scheduleManaged = FALSE
  THEN {[w EXCEPT !.old.rule = FALSE, !.old.target = FALSE]}
  ELSE Then(RemoveTarget(w), DeleteRule)

\* put_rule, put_targets of setup_scheduled_execution.
PutRule(w) ==
  Attempt(w, [w EXCEPT !.rule = w.task.schedule, !.task.rule = TRUE])

PutTarget(w) ==
  Attempt(w, [w EXCEPT !.target = [cluster |-> w.task.cluster,
                                   config  |-> w.task.config],
                       !.task.target = TRUE, !.task.scheduleManaged = TRUE])

SetupSchedule(w) == Then(PutRule(w), PutTarget)

\* The first half of synchronize_with_run_environment.
SyncSchedule(w) ==
  LET was == w.old # None /\ ActiveSchedule(w.old, TRUE)
      Keep(v) == {[v EXCEPT
                    !.task.rule = v.old.rule, !.task.target = v.old.target,
                    !.task.scheduleManaged = IF @ = FALSE THEN @ ELSE None]}
  IN IF ~ScheduleChanges(w.old, w.task) THEN {w}
     ELSE IF ~ActiveSchedule(w.task, FALSE)
     THEN Then(Then(IF was THEN TeardownSchedule(w) ELSE {w}, TeardownSchedule), Keep)
     ELSE IF ~Supports(w.task) THEN {Raise(w)}
     ELSE Then(IF was THEN TeardownSchedule(w) ELSE {w}, SetupSchedule)

-----------------------------------------------------------------------------
(* The service, and ECS as the code uses it.  A deleted service drains,    *)
(* then becomes inactive, then is forgotten; until it is inactive its name *)
(* is taken.  Names end in a number for that reason.                       *)

\* find_aws_ecs_service: by the ARN given or else the one in the settings or
\* else the first name.  A failure to ask is taken for not finding.
Find(w, task, arn) ==
  LET key == IF arn # None THEN arn ELSE IF task.arn # None THEN task.arn
             ELSE <<task.cluster, 0>>
      hit == key[1] = task.cluster /\ w.services[key] # Absent
      seen == [w EXCEPT !.info = IF hit THEN key ELSE None]
  IN {seen} \cup IF DescribeFails /\ hit
                 THEN {[w EXCEPT !.info = None, !.misled = TRUE]} ELSE {}

StatusOf(w, key) == w.services[key].status

\* delete_service: a service without tasks is inactive at once.
DeleteService(w, key) ==
  IF w.services[key] = Absent THEN {Raise(w)}
  ELSE UNION { Attempt(w, [w EXCEPT !.services[key] = Idle(status)]) :
                 status \in IF StatusOf(w, key) = "ACTIVE"
                            THEN { "DRAINING", "INACTIVE" } ELSE { StatusOf(w, key) } }

\* A variant that looks with the new settings of the Task.
TeardownService_NewSettings(w) ==
  LET Delete(v) ==
        IF v.info = None THEN {[v EXCEPT !.old.arn = None]}
        ELSE LET key == v.info
                 Note(u) == {[u EXCEPT !.old.arn = key]}
             IN Then(DeleteService(v, key), Note)
  IN Then(Find(w, w.task, None), Delete)

\* teardown_service of the old execution method.
TeardownService(w) ==
  LET Delete(v) ==
        IF v.info = None THEN {[v EXCEPT !.old.arn = None]}
        ELSE LET key == v.info
                 Note(u) == {[u EXCEPT !.old.arn =
                               IF StatusOf(u, key) = "INACTIVE" THEN None ELSE key]}
             IN Then(DeleteService(v, key), Note)
  IN IF w.old.method # "AWS ECS" THEN {[w EXCEPT !.old.arn = None]}
     ELSE Then(Find(w, w.old, None), Delete)

WasManagedService(old) ==
  /\ old # None /\ old.method = "AWS ECS"
  /\ ActiveService(old, TRUE) /\ old.arn # None

\* should_update_or_force_recreate_service: whether to update, and to recreate.
\* Execution methods other than ECS never do.
ServiceChanges(old, task) ==
  /\ task.method = "AWS ECS"
  /\ IF ~ActiveService(task, FALSE) THEN WasManagedService(old)
     ELSE \/ ~WasManagedService(old)
          \/ task.cluster # old.cluster \/ task.arn # old.arn
          \/ task.count # old.count \/ task.config # old.config

ServiceRecreated(old, task) ==
  /\ ActiveService(task, FALSE)
  /\ ~WasManagedService(old) \/ task.cluster # old.cluster \/ task.arn # old.arn

\* setup_service looks in the result of the teardown, then with the settings of
\* the old Task, then with its own.
FindExisting(w) ==
  LET Own(v) == IF v.info # None THEN {v} ELSE Find(v, v.task, v.task.arn)
  IN IF w.info # None THEN {w}
     ELSE IF w.old # None /\ w.old.method = "AWS ECS"
     THEN Then(Find(w, w.old, w.old.arn), Own)
     ELSE Own(w)

\* A service that is to be recreated but is still there is deleted, if the Task
\* had one before.
DeleteExisting(w) ==
  IF /\ w.info # None /\ w.old # None
     /\ StatusOf(w, w.info) = "ACTIVE" /\ w.old.method = "AWS ECS"
     /\ ServiceRecreated(w.old, w.task)
  THEN DeleteService(w, <<w.old.cluster, w.info[2]>>)
  ELSE {w}

\* next_service_name_suffix
NextSuffix(w) ==
  IF w.info = None THEN 0
  ELSE IF StatusOf(w, w.info) = "INACTIVE" THEN w.info[2] ELSE w.info[2] + 1

Running(w, key) ==
  [w EXCEPT !.services[key] = [status |-> "ACTIVE", config |-> w.task.config,
                               count  |-> w.task.count],
            !.task.arn = key, !.task.serviceManaged = TRUE]

CreateService(w) ==
  LET key == <<w.task.cluster, NextSuffix(w)>>
  IN IF NextSuffix(w) > MaxSuffix THEN {}
     ELSE IF w.services[key] # Absent /\ StatusOf(w, key) # "INACTIVE" THEN {Raise(w)}
     ELSE Attempt(w, Running(w, key))

UpdateOrCreate(w) ==
  IF /\ w.info # None /\ StatusOf(w, w.info) = "ACTIVE"
     /\ ~ServiceRecreated(w.old, w.task)
  THEN Attempt(w, Running(w, w.info))
  ELSE CreateService(w)

SetupService(w) == Then(Then(FindExisting(w), DeleteExisting), UpdateOrCreate)

\* A variant that keeps the service of a Task that is no longer a service.
SyncService_KeepsOld(w) ==
  IF ~ServiceChanges(w.old, w.task) \/ ~ActiveService(w.task, FALSE) THEN {w}
  ELSE SetupService([w EXCEPT !.info = None])

\* The second half of synchronize_with_run_environment.
SyncService(w) ==
  LET was == w.old # None /\ ActiveService(w.old, TRUE)
      Keep(u) == {[u EXCEPT
                    !.task.arn = u.old.arn,
                    !.task.serviceManaged = IF @ = TRUE THEN None ELSE @]}
  IN IF ~ServiceChanges(w.old, w.task) THEN {w}
     ELSE IF ~ActiveService(w.task, FALSE)
     THEN Then(Then(IF was THEN TeardownService(w) ELSE {w}, TeardownService), Keep)
     ELSE IF ~Supports(w.task) THEN {Raise(w)}
     ELSE Then(IF was /\ ServiceRecreated(w.old, w.task)
               THEN TeardownService(w) ELSE {w}, SetupService)

Synchronize(w) ==
  IF w.task.passive /\ (w.old = None \/ w.old.passive) THEN {w}
  ELSE Then(SyncSchedule(w), SyncService)

-----------------------------------------------------------------------------
(* Requests.                                                               *)

Field(r, field, default) == IF field \in DOMAIN r THEN r[field] ELSE default

NewTask ==
  [ enabled |-> TRUE, passive |-> FALSE, method |-> "AWS ECS",
    cluster |-> CHOOSE c \in Clusters : TRUE, config |-> CHOOSE c \in Configs : TRUE,
    schedule |-> None, scheduleManaged |-> None, rule |-> FALSE, target |-> FALSE,
    count |-> None, serviceManaged |-> None, arn |-> None ]

\* What a request says about being a service, by naming it or what only
\* services have; None if it says nothing.
SaysService(r) ==
  IF Field(r, "count", None) \notin {None, 0} \/ Field(r, "serviceManaged", None) = TRUE
  THEN TRUE
  ELSE IF Field(r, "isService", None) = None /\ Field(r, "scheduleManaged", None) = TRUE
  THEN FALSE
  ELSE Field(r, "isService", None)

\* TaskSerializer.to_internal_value: the fields of `task` that r leaves open are
\* inferred, and what does not fit together is refused.
Inferred(task, r) ==
  LET open == SaysService(r) = None /\ Field(r, "schedule", None) = None
      isService == IF open THEN task.count # None ELSE SaysService(r) = TRUE
      schedule  == IF open /\ ~isService THEN task.schedule ELSE Field(r, "schedule", None)
      managed(field, applies) ==
        IF ~applies THEN None
        ELSE IF Field(r, field, None) # None THEN r[field] ELSE task[field]
  IN [ task EXCEPT
         !.enabled = Field(r, "enabled", @), !.passive = Field(r, "passive", @),
         !.method = Field(r, "method", @), !.cluster = Field(r, "cluster", @),
         !.config = Field(r, "config", @),
         !.schedule = schedule,
         !.scheduleManaged = managed("scheduleManaged", schedule # None),
         !.count = IF ~isService THEN None
                   ELSE IF Field(r, "count", None) # None THEN r["count"]
                   ELSE IF @ \in {None, 0} THEN 1 ELSE @,
         !.serviceManaged = managed("serviceManaged", isService) ]

Refused(task, r) ==
  \/ Field(r, "isService", None) = FALSE
       /\ (Field(r, "count", None) \notin {None, 0} \/ Field(r, "serviceManaged", None) = TRUE)
  \/ SaysService(r) = TRUE
       /\ (Field(r, "scheduleManaged", None) = TRUE \/ Field(r, "schedule", None) # None)
  \/ Inferred(task, r).count = None /\ Field(r, "serviceManaged", None) = TRUE
  \/ Inferred(task, r).schedule = None /\ Field(r, "scheduleManaged", None) = TRUE

\* A request ends with one of the outcomes W, its row saved or deleted unless
\* it has raised.  (When a setup fails after a teardown, the code disables the
\* Task and saves it before it raises, and the rollback takes that back too.)
Finish(W, deletes) ==
  \E w \in W :
    /\ row' = IF w.raised THEN row ELSE IF deletes THEN Deleted ELSE w.task
    /\ rule' = w.rule /\ target' = w.target /\ services' = w.services
    /\ fault' = \/ fault \/ w.misled
                \/ w.raised /\ <<rule, target, services>> # <<w.rule, w.target, w.services>>
                \/ Exists /\ w.task.method # row.method

Reject == UNCHANGED vars

Create(r) ==
  /\ row = None
  /\ IF Refused(NewTask, r) THEN Reject
     ELSE Finish(Synchronize([World EXCEPT !.task = Inferred(NewTask, r)]), FALSE)

Edit(r) ==
  /\ Exists
  /\ IF Refused(row, r) THEN Reject
     ELSE Finish(Synchronize([World EXCEPT !.task = Inferred(row, r)]), FALSE)

\* pre_delete_task
Delete ==
  LET Schedule(w) == IF ActiveSchedule(row, TRUE) THEN TeardownSchedule(w) ELSE {w}
      Services(w) == IF ActiveService(row, TRUE) THEN TeardownService(w) ELSE {w}
  IN Exists /\ Finish(Then(Schedule(World), Services), TRUE)

-----------------------------------------------------------------------------
(* AWS and its other users.                                                *)

Drains(key) ==
  /\ services[key].status = "DRAINING"
  /\ services' = [services EXCEPT ![key] = Idle("INACTIVE")]
  /\ UNCHANGED <<row, rule, target, fault>>

IsForgotten(key) ==
  /\ services[key].status = "INACTIVE"
  /\ services' = [services EXCEPT ![key] = Absent]
  /\ UNCHANGED <<row, rule, target, fault>>

RemoveRuleByHand ==
  /\ RemovedByHand /\ rule # None
  /\ rule' = None /\ target' = None /\ fault' = TRUE
  /\ UNCHANGED <<row, services>>

RemoveServiceByHand(key) ==
  /\ RemovedByHand /\ services[key].status = "ACTIVE"
  /\ services' = [services EXCEPT ![key] = Idle("DRAINING")]
  /\ fault' = TRUE
  /\ UNCHANGED <<row, rule, target>>

Init ==
  /\ row = None
  /\ rule = None /\ target = None
  /\ services = [key \in ServiceKey |-> Absent]
  /\ fault = FALSE

Next ==
  \/ \E r \in Requests : Create(r) \/ Edit(r)
  \/ Delete
  \/ \E key \in ServiceKey : Drains(key) \/ IsForgotten(key) \/ RemoveServiceByHand(key)
  \/ RemoveRuleByHand

Spec == Init /\ [][Next]_vars

-----------------------------------------------------------------------------
(* Properties.                                                             *)

Active == { key \in ServiceKey : services[key].status = "ACTIVE" }

Scheduled == Exists /\ ActiveSchedule(row, TRUE)
Serves    == Exists /\ ActiveService(row, TRUE)

ScheduleIsAsTheRowSays ==
  /\ rule = IF Scheduled THEN row.schedule ELSE None
  /\ target = IF Scheduled THEN [cluster |-> row.cluster, config |-> row.config] ELSE None

ServiceIsAsTheRowSays ==
  /\ Active = IF Serves THEN {row.arn} ELSE {}
  /\ Serves => /\ services[row.arn].count = row.count
               /\ services[row.arn].config = row.config

\* As long as no request has failed halfway and nobody has interfered, the rule
\* starts what the Task is now, and the service is the one that the row names,
\* as large and as new as the row: nothing is left over from earlier settings.
AwsIsAsTheRowSays == ~fault => ScheduleIsAsTheRowSays /\ ServiceIsAsTheRowSays

\* Whatever call has failed before, a Task never has two services that run.
OneServiceRuns == Cardinality(Active) <= 1

Differ(fields) == \E f \in fields : row[f] # row'[f]

\* A request that succeeds in changing what the Task runs, or in deleting it,
\* makes good what earlier failures and interference have left behind.
SuccessRepairs ==
  [][ /\ Exists /\ row' # row
      => /\ /\ Scheduled \/ Scheduled'
            /\ row' = Deleted \/ Differ({ "enabled", "passive", "schedule",
                                          "scheduleManaged", "cluster", "config" })
            => ScheduleIsAsTheRowSays'
         /\ /\ Serves \/ Serves'
            /\ row' = Deleted \/ Differ({ "enabled", "passive", "count",
                                          "serviceManaged", "cluster", "config" })
            => ServiceIsAsTheRowSays' ]_vars

=============================================================================
