---------------------------- MODULE WorkflowSchedule ----------------------------
(***************************************************************************)
(* The schedule of one Workflow: the columns of its row, and the rules and *)
(* targets in AWS EventBridge that start it, one per Run Environment where *)
(* there may be some (all have the name CR_WF_ and the Workflow's uuid).   *)
(*                                                                         *)
(* A request that saves or deletes the Workflow calls AWS before the row   *)
(* is written and before the rest of the request, the nodes and            *)
(* transitions, is looked at.  The request is one database transaction;    *)
(* when a call or what follows fails, the row is rolled back and AWS is    *)
(* not.  Requests about the Workflow come one at a time.                   *)
(***************************************************************************)
EXTENDS Sequences, FiniteSets

CONSTANTS
  None,       \* no row, no schedule, no Run Environment, no rule
  Envs,       \* the Run Environments of the group
  Schedules   \* cron and rate expressions

ASSUME NoneAssumption == None \notin Envs \cup Schedules
ASSUME EnvsAssumption == IsFiniteSet(Envs)

VARIABLES
  row,    \* the committed row
  tasks,  \* the Run Environments of the Tasks of its nodes
  able,   \* the Run Environments that can schedule Workflows
  rules,  \* the Workflow's rule in each Run Environment
  work,   \* the request under way
  astray, \* some rule may be one that no committed request has made
  marred  \* the Workflow's own rule may be other than its last setup has made it

vars == <<row, tasks, able, rules, work, astray, marred>>

Row == [schedule : Schedules \cup {None}, enabled : BOOLEAN,
        run_environment : Envs \cup {None}, scheduling_run_environment : Envs \cup {None},
        ruleNamed : BOOLEAN,    \* aws_scheduled_execution_rule_name is set
        targetNamed : BOOLEAN]  \* aws_event_target_rule_name and _id are

Rule == [schedule : Schedules, enabled : BOOLEAN, target : BOOLEAN]

Call == { "remove_targets", "delete_rule", "put_rule", "put_targets" } \X Envs

\* A request: the row to be saved, the Tasks of its nodes, whether it deletes the
\* Workflow, the calls that it is going to make, and whether it has made any.
Work == [row : Row, tasks : SUBSET Envs, deletes : BOOLEAN, calls : Seq(Call), called : BOOLEAN]

ASSUME RowsAssumption == None \notin Row \cup Rule /\ None \notin Work

TypeOK ==
  /\ row \in Row \cup {None}
  /\ tasks \subseteq Envs
  /\ able \subseteq Envs
  /\ rules \in [Envs -> Rule \cup {None}]
  /\ work \in Work \cup {None}
  /\ astray \in BOOLEAN
  /\ marred \in BOOLEAN

Scheduled == row # None /\ row.schedule # None

Init ==
  /\ row = None
  /\ tasks = {}
  /\ able \in SUBSET Envs
  /\ rules = [e \in Envs |-> None]
  /\ work = None
  /\ astray = FALSE
  /\ marred = FALSE

-----------------------------------------------------------------------------
(* What a request does to AWS.                                             *)

\* run_environment_for_scheduling, without the Tasks to fall back to.
OwnEnvironment(r) ==
  IF r.scheduling_run_environment \in able THEN r.scheduling_run_environment
  ELSE IF r.run_environment \in able THEN r.run_environment ELSE None

\* The same with them, once the Workflow is saved: that of the first that can.
Environments(r) ==
  IF OwnEnvironment(r) = None /\ row # None /\ tasks \cap able # {}
  THEN tasks \cap able ELSE { OwnEnvironment(r) }

\* teardown_scheduled_execution
TeardownCalls(r, env) ==
  (IF r.targetNamed THEN << <<"remove_targets", env>> >> ELSE <<>>)
    \o (IF r.ruleNamed THEN << <<"delete_rule", env>> >> ELSE <<>>)

\* setup_scheduled_execution
SetupCalls(env) == << <<"put_rule", env>>, <<"put_targets", env>> >>

\* A variant that overlooks that the Workflow was enabled or disabled.
ScheduleChanges_NotEnabled(new, env) ==
  IF Scheduled
  THEN new.schedule # row.schedule \/ env # OwnEnvironment(row)
  ELSE new.schedule # None

\* should_update_schedule of pre_save_workflow.
ScheduleChanges(new, env) ==
  IF Scheduled
  THEN \/ new.schedule # row.schedule \/ new.enabled # row.enabled
       \/ env # OwnEnvironment(row)
  ELSE new.schedule # None

\* A variant that tears the rule down only where the schedule moves.
Leaves_ToMove(new, env) ==
  /\ Scheduled
  /\ OwnEnvironment(row) # None
  /\ env # OwnEnvironment(row) /\ new.schedule # None

\* pre_save_workflow tears the rule down where it was.
Leaves(new, env) ==
  /\ Scheduled
  /\ OwnEnvironment(row) # None
  /\ env # OwnEnvironment(row) \/ new.schedule = None

\* The calls made by pre_save_workflow.
SaveCalls(new, env) ==
  IF ScheduleChanges(new, env)
  THEN (IF Leaves(new, env) THEN TeardownCalls(row, OwnEnvironment(row)) ELSE <<>>)
         \o (IF new.schedule # None THEN SetupCalls(env) ELSE <<>>)
  ELSE <<>>

-----------------------------------------------------------------------------
(* Requests.                                                               *)

\* The columns a request sets.  A request that does not name the schedule
\* clears it, as to_internal_value puts '' in its place; the other columns keep
\* their value when they are not named.
Edited(schedule, enabled, env) ==
  IF row = None
  THEN [schedule |-> schedule, enabled |-> enabled, run_environment |-> env,
        scheduling_run_environment |-> None, ruleNamed |-> FALSE, targetNamed |-> FALSE]
  ELSE [row EXCEPT !.schedule = schedule, !.enabled = enabled, !.run_environment = env]

Begin(new, after, deletes, calls) ==
  /\ work' = [row |-> new, tasks |-> after, deletes |-> deletes, calls |-> calls,
              called |-> FALSE]
  /\ UNCHANGED <<row, tasks, able, rules, astray, marred>>

\* A Workflow is created or edited: pre_save_workflow, which wants a Run
\* Environment to schedule it in.  A new schedule that has none is refused.
Save(schedule, enabled, env, after) ==
  /\ work = None
  /\ LET new == Edited(schedule, enabled, env)
     IN \E where \in IF schedule # None THEN Environments(new) ELSE {None} :
          /\ schedule # None /\ ScheduleChanges(new, where) => where # None
          /\ Begin(new, after, FALSE, SaveCalls(new, where))

\* A Workflow is deleted: pre_delete_workflow.
Delete ==
  /\ work = None
  /\ row # None
  /\ Scheduled => OwnEnvironment(row) # None
  /\ Begin(row, {}, TRUE,
           IF Scheduled THEN TeardownCalls(row, OwnEnvironment(row)) ELSE <<>>)

\* The next call, and what it makes of the rule and of the row to be saved.
Calls(name, env, rule, saved) ==
  /\ work # None
  /\ work.calls # <<>>
  /\ Head(work.calls) = <<name, env>>
  /\ rules' = [rules EXCEPT ![env] = rule]
  /\ work' = [work EXCEPT !.calls = Tail(@), !.called = TRUE, !.row = saved]
  /\ marred' = IF name = "put_targets" THEN FALSE ELSE marred
  /\ UNCHANGED <<row, tasks, able, astray>>

\* A rule that is not found is not an error, and the target keeps its name.
RemoveTargets(env) ==
  IF rules[env] = None
  THEN Calls("remove_targets", env, None, work.row)
  ELSE Calls("remove_targets", env, [rules[env] EXCEPT !.target = FALSE],
             [work.row EXCEPT !.targetNamed = FALSE])

\* Neither is it here; the rule keeps its name in the row in any case.
DeleteRule(env) == Calls("delete_rule", env, None, work.row)

\* put_rule, then enable_rule or disable_rule.
PutRule(env) ==
  Calls("put_rule", env,
        [schedule |-> work.row.schedule, enabled |-> work.row.enabled,
         target |-> rules[env] # None /\ rules[env].target],
        [work.row EXCEPT !.ruleNamed = TRUE])

\* A variant that does not note where the schedule is.
PutTargets_Elsewhere(env) ==
  /\ rules[env] # None
  /\ Calls("put_targets", env, [rules[env] EXCEPT !.target = TRUE],
           [work.row EXCEPT !.targetNamed = TRUE])

PutTargets(env) ==
  /\ rules[env] # None
  /\ Calls("put_targets", env, [rules[env] EXCEPT !.target = TRUE],
           [work.row EXCEPT !.targetNamed = TRUE, !.scheduling_run_environment = env])

\* Everything else has gone well: the request is answered and committed.
Commit ==
  /\ work # None
  /\ work.calls = <<>>
  /\ row' = IF work.deletes THEN None ELSE work.row
  /\ tasks' = work.tasks
  /\ work' = None
  /\ UNCHANGED <<able, rules, astray, marred>>

\* A call fails, the nodes or transitions are refused (ValidationError,
\* UnprocessableEntity), or the server dies: the database forgets the request.
Fail ==
  /\ work # None
  /\ work' = None
  /\ astray' = (astray \/ work.called)
  /\ marred' = (marred \/ work.called)
  /\ UNCHANGED <<row, tasks, able, rules>>

-----------------------------------------------------------------------------
\* The settings of a Run Environment are edited.  A rule is not looked for any
\* more where no Workflow can be scheduled.
EditEnvironment(env) ==
  /\ able' = IF env \in able THEN able \ {env} ELSE able \cup {env}
  /\ astray' = (astray \/ (env \in able /\ (rules[env] # None \/ work # None)))
  /\ UNCHANGED <<row, tasks, rules, work, marred>>

\* Somebody removes a rule in AWS.
RemovedByHand(env) ==
  /\ rules[env] # None
  /\ rules' = [rules EXCEPT ![env] = None]
  /\ marred' = TRUE
  /\ UNCHANGED <<row, tasks, able, work, astray>>

Next ==
  \/ \E schedule \in Schedules \cup {None}, enabled \in BOOLEAN,
        env \in Envs \cup {None}, after \in SUBSET Envs : Save(schedule, enabled, env, after)
  \/ Delete
  \/ \E env \in Envs :
       RemoveTargets(env) \/ DeleteRule(env) \/ PutRule(env) \/ PutTargets(env)
  \/ Commit \/ Fail
  \/ \E env \in Envs : EditEnvironment(env) \/ RemovedByHand(env)

Spec == Init /\ [][Next]_vars

-----------------------------------------------------------------------------
(* Properties.                                                             *)

\* The rule that the row asks for.
Fires(rule) ==
  /\ rule # None
  /\ rule.schedule = row.schedule /\ rule.enabled = row.enabled /\ rule.target

\* Between requests, a scheduled Workflow has its rule where the row says that
\* it is, and as it was last edited: a request that sets it up repairs what
\* failed requests and people in AWS have done before (pre_save_workflow).
ScheduledFires ==
  (work = None /\ Scheduled /\ ~marred) =>
    \E env \in Envs : row.scheduling_run_environment = env /\ Fires(rules[env])

\* Between requests, no other rule starts the Workflow, and none after it was
\* unscheduled or deleted, unless a request failed between its calls to AWS or
\* a Run Environment lost its settings while it held the rule.
NothingElseFires ==
  (work = None /\ ~astray) =>
    \A env \in Envs :
      rules[env] # None => Scheduled /\ env = row.scheduling_run_environment

=============================================================================
