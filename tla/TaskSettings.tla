----------------------------- MODULE TaskSettings -----------------------------
(***************************************************************************)
(* The settings with which AWS runs a Task.  A Run Environment, its Tasks  *)
(* and their Task Executions each have some; what is set in a later one    *)
(* overrides an earlier one.  They are merged whenever an execution method *)
(* is made, to start an execution, to set up the rule of a schedule and to *)
(* find out whether that rule must be set up again.                        *)
(*                                                                         *)
(* deepmerge works in place, and the dictionaries nested in the ones it    *)
(* merges are shared: the first layer that has a network receives, in      *)
(* memory, what the others override.  What is saved after that, or         *)
(* compared with it, is what this module is about.                         *)
(***************************************************************************)
EXTENDS Naturals

CONSTANTS
  None,      \* NULL, or an attribute that is not set
  Subnets,   \* values of network.subnets
  Options,   \* values of one attribute of an execution method (launch_type)
  Requests   \* edits of the Task: functions from the fields they send

Method == { "AWS ECS", "AWS CodeBuild" }

\* A nested dictionary, with the attribute derived from the other one.
Network == [ subnets : Subnets \cup {None}, urls : Subnets \cup {None} ]

\* A flat one.  A cluster may be sent by its name.
Config == [ option : Options \cup {None}, cluster : { None, "name", "arn" } ]

VARIABLES
  env,        \* the Run Environment: aws_settings, default_aws_ecs_configuration
  task,       \* the Task: infrastructure_settings, execution_method_capability_details
  rule,       \* what the rule of its schedule starts
  execution,  \* the Task Execution started last: infrastructure_settings,
              \* execution_method_details, and what AWS was asked to run
  starting    \* what a request to start one has read

vars == <<env, task, rule, execution, starting>>

TypeOK ==
  /\ env \in [ network : Network \cup {None}, config : Config \cup {None} ]
  /\ task \in [ method : Method, scheduled : BOOLEAN, config : Config \cup {None},
                infra : [ network : Network \cup {None} ] \cup {None} ]
  /\ rule = None \/ rule \in [ subnets : Subnets, option : Options \cup {None} ]

Init ==
  /\ env = [ network |-> None, config |-> None ]
  /\ task = [ method |-> "AWS ECS", scheduled |-> FALSE, config |-> None, infra |-> None ]
  /\ rule = None /\ execution = None /\ starting = None

-----------------------------------------------------------------------------
(* Merging.                                                                *)

\* deepmerge of two dictionaries, or of none: NULL overrides nothing.
Over(lower, upper) ==
  IF upper = None THEN lower
  ELSE IF lower = None THEN upper
  ELSE [a \in DOMAIN lower |-> IF upper[a] # None THEN upper[a] ELSE lower[a]]

\* ... and the form in which what a request sends is merged: NULL clears.
Sent(old, sent, attributes) ==
  IF sent = None THEN None
  ELSE [a \in attributes |-> IF a \in DOMAIN sent THEN sent[a]
                             ELSE IF old = None THEN None ELSE old[a]]

NetworkOf(t) == IF t.infra = None THEN None ELSE t.infra.network

\* merge_aws_settings
EffectiveNetwork(e, t, overriding) == Over(Over(e.network, NetworkOf(t)), overriding)

\* A variant in which the Task's dictionary is the first of them.
TaskNetworkAfter_First(e, t, overriding) ==
  IF NetworkOf(t) = None THEN None ELSE Over(Over(e.network, NetworkOf(t)), overriding)

\* The Task's own network after that, in memory.
TaskNetworkAfter(e, t, overriding) ==
  IF NetworkOf(t) # None /\ e.network = None
  THEN EffectiveNetwork(e, t, overriding) ELSE NetworkOf(t)

\* The Run Environment's.
EnvNetworkAfter(e, t) ==
  IF e.network # None THEN EffectiveNetwork(e, t, None) ELSE None

DefaultConfig(e, method) == IF method = "AWS ECS" THEN e.config ELSE None

\* merge_aws_ecs_settings_dict; the settings of CodeBuild have no defaults.
EffectiveConfig(e, t, overriding) ==
  Over(Over(DefaultConfig(e, t.method), t.config), overriding)

EnvConfigAfter(e, t) ==
  IF DefaultConfig(e, t.method) # None THEN EffectiveConfig(e, t, None) ELSE e.config

Attribute(dictionary, a) == IF dictionary = None THEN None ELSE dictionary[a]

-----------------------------------------------------------------------------
(* Attributes derived from others.                                         *)

\* AwsNetworkSettings.update_derived_attrs
Derived(network) == [network EXCEPT !.urls = network.subnets]

\* enrich_task_settings and enrich_task_execution_settings merge them into the
\* dictionary that has them: a NULL changes nothing.
Enriched(network) == IF network = None THEN None ELSE Over(network, Derived(network))

\* RunEnvironment.enrich_settings replaces the dictionary.
EnrichedEnv(network) == IF network = None THEN None ELSE Derived(network)

\* sanitize_task_settings: a cluster with a name is given its ARN, and the Task
\* the settings that it was found in, those of the Run Environment included.
Sanitized(e, t) ==
  IF t.method = "AWS ECS" /\ Attribute(EffectiveConfig(e, t, None), "cluster") = "name"
  THEN [EffectiveConfig(e, t, None) EXCEPT !.cluster = "arn"]
  ELSE t.config

-----------------------------------------------------------------------------
(* Edits.                                                                  *)

\* RunEnvironmentSerializer: what is sent replaces what there is, defaults that
\* are empty nothing.  Tasks and their rules are not looked at.
EditEnv(network, config) ==
  /\ env' = [ network |-> EnrichedEnv(network),
              config  |-> IF config = None THEN env.config ELSE config ]
  /\ UNCHANGED <<task, rule, execution, starting>>

\* AwsEcsExecutionMethod.capabilities, AwsCodeBuildExecutionMethod.capabilities
MaySchedule(e, t) ==
  /\ t.method = "AWS ECS"
  /\ Attribute(EffectiveNetwork(e, t, None), "subnets") # None

\* TaskSerializer.to_internal_value: the row with what was sent.
Edited(request) ==
  LET method == IF "method" \in DOMAIN request THEN request.method ELSE task.method
      config == IF method = task.method THEN task.config ELSE None
  IN [ method    |-> method,
       scheduled |-> IF "scheduled" \in DOMAIN request THEN request.scheduled
                     ELSE task.scheduled,
       config    |->
         IF "config" \in DOMAIN request THEN Sent(config, request.config, { "option", "cluster" })
         ELSE IF task.config = None \/ method = task.method THEN task.config
         ELSE [ option |-> None, cluster |-> None ],
       infra     |->
         IF "infra" \notin DOMAIN request THEN task.infra
         ELSE IF request.infra = None THEN None
         ELSE [ network |-> Sent(NetworkOf(task), request.infra.network,
                                 { "subnets", "urls" }) ] ]

\* ... and as it is saved.
Saved(e, t) ==
  [t EXCEPT !.config = Sanitized(e, t),
            !.infra = IF @ = None THEN None ELSE [ network |-> Enriched(@.network) ]]

\* The old row as it is compared with the new one: its network is the new one's,
\* if what was sent was merged into it.
OldInMemory(new) ==
  IF NetworkOf(task) # None /\ NetworkOf(new) # None
  THEN [task EXCEPT !.infra.network = NetworkOf(new)] ELSE task

\* EXECUTION_METHOD_ATTRIBUTES_REQUIRING_SCHEDULING_UPDATE
MethodAttributes == { "option", "cluster" }

\* NETWORK_ATTRIBUTES_REQUIRING_SCHEDULING_UPDATE
NetworkAttributes == { "subnets" }

\* A variant that does not compare the attributes of the execution method.
RuleChanges_NetworkOnly(e, old, new) ==
  \/ old.scheduled # new.scheduled
  \/ new.scheduled
     /\ \/ old.method # new.method \/ old.config = None \/ old.infra = None
        \/ NetworkOf(old) = None /\ e.network = None

\* should_update_or_force_recreate_scheduled_execution.  The old execution method
\* is made after the new one, which has changed the Run Environment in memory.
RuleChanges(e, old, new) ==
  LET after == [ network |-> EnvNetworkAfter(e, new), config |-> EnvConfigAfter(e, new) ]
      oldConfig == EffectiveConfig(after, old, None)
      newConfig == EffectiveConfig(e, new, None)
      oldNetwork == EffectiveNetwork(after, old, None)
      newNetwork == EffectiveNetwork(e, new, None)
  IN \/ old.scheduled # new.scheduled
     \/ /\ new.scheduled
        /\ \/ old.method # new.method \/ old.config = None \/ old.infra = None
           \/ \E a \in MethodAttributes : Attribute(oldConfig, a) # Attribute(newConfig, a)
           \/ newNetwork = None \/ oldNetwork = None
           \/ \E a \in NetworkAttributes : Attribute(oldNetwork, a) # Attribute(newNetwork, a)

\* What setup_scheduled_execution makes the rule start.
RuleFor(e, t) ==
  [ subnets |-> Attribute(EffectiveNetwork(e, t, None), "subnets"),
    option  |-> Attribute(EffectiveConfig(e, t, None), "option") ]

\* TaskSerializer.create_or_update
EditTask(request) ==
  LET new == Saved(env, Edited(request))
      changes == RuleChanges(env, OldInMemory(new), new)
  IN /\ changes /\ new.scheduled => MaySchedule(env, new)
     /\ task' = new
     /\ rule' = IF ~changes THEN rule
                ELSE IF new.scheduled THEN RuleFor(env, new) ELSE None
     /\ UNCHANGED <<env, execution, starting>>

-----------------------------------------------------------------------------
(* Executions.                                                             *)

MayStart(e, t, network) ==
  t.method = "AWS ECS" => Attribute(EffectiveNetwork(e, t, network), "subnets") # None

\* A request to start an execution, with settings of its own, reads the rows.
\* It is the one that is followed from here.
BeginStart(network) ==
  /\ starting = None
  /\ MayStart(env, task, network)
  /\ starting' = [ network |-> env.network, task |-> task, overriding |-> network ]
  /\ execution' = None
  /\ UNCHANGED <<env, task, rule>>

\* A start by ECS saves the subnets with the execution, and then every column of
\* the Task as it is in memory.
EcsExecution(effective) ==
  [ network |-> Enriched([ subnets |-> Attribute(effective, "subnets"), urls |-> None ]) ]

EcsTask(t, network) ==
  IF t.infra = None THEN t ELSE [t EXCEPT !.infra.network = Enriched(network)]

\* One by CodeBuild saves all merged settings with the execution, and no Task.
CodeBuildExecution(effective) == [ network |-> Enriched(effective) ]

FinishStart ==
  /\ starting # None
  /\ LET e == [env EXCEPT !.network = starting.network]
         t == starting.task
         effective == EffectiveNetwork(e, t, starting.overriding)
     IN IF t.method = "AWS ECS"
        THEN /\ execution' = EcsExecution(effective)
             /\ task' = EcsTask(t, TaskNetworkAfter(e, t, starting.overriding))
        ELSE execution' = CodeBuildExecution(effective) /\ UNCHANGED task
  /\ starting' = None
  /\ UNCHANGED <<env, rule>>

\* A wrapper reports where it runs: the row's settings are merged with it.
Report(network) ==
  /\ execution # None
  /\ execution' = [execution EXCEPT !.network = Enriched(Sent(@, network, { "subnets", "urls" }))]
  /\ UNCHANGED <<env, task, rule, starting>>

-----------------------------------------------------------------------------
Networks == { None } \cup { [ subnets |-> s, urls |-> None ] : s \in Subnets \cup {None} }
NetworkConfigs == { None } \cup { [ option |-> o, cluster |-> "arn" ] : o \in Options \cup {None} }

\* Bounds: while a start is in progress the Task is edited once and the Run
\* Environment, which the start does not read again, is not.
EditsOfOneStart == starting # None => starting.task = task

Next ==
  \/ \E network \in Networks, config \in NetworkConfigs :
       starting = None /\ EditEnv(network, config)
  \/ \E request \in Requests : EditsOfOneStart /\ EditTask(request)
  \/ \E network \in Networks : BeginStart(network)
  \/ FinishStart
  \/ \E network \in Networks \ {None} : Report(network)

Spec == Init /\ [][Next]_vars

-----------------------------------------------------------------------------
(* Properties.                                                             *)

\* Starting an execution leaves the Task's settings as they are, whatever the
\* execution overrides: the settings of one run must not become those of the
\* next (AwsEcsExecutionMethod.manually_start).  They do where the Task has a
\* network and its Run Environment has none, and what was edited in the meantime
\* is taken back.
StartLeavesTask ==
  [][ starting # None /\ starting' = None
        => \/ task' = task
           \/ starting.task # task
           \/ starting.network = None /\ starting.overriding # None ]_vars

\* An edit of the Task that changes an attribute with which the rule of its
\* schedule starts executions gets to the rule, unless it is the first to set
\* what the Run Environment has defaults for
\* (should_update_or_force_recreate_scheduled_execution).
ChangedOptionReachesRule ==
  [][ /\ env' = env /\ starting' = starting /\ task' # task
      /\ task.scheduled /\ task'.scheduled /\ rule # None
      /\ RuleFor(env, task).option # RuleFor(env, task').option
      => \/ rule'.option = RuleFor(env, task').option
         \/ env.config # None /\ Attribute(task.config, "option") = None ]_vars

\* An edit of the Task that changes the subnets in which the rule of its schedule
\* starts executions gets to the rule: subnets are among the
\* NETWORK_ATTRIBUTES_REQUIRING_SCHEDULING_UPDATE.
ChangedSubnetsReachRule ==
  [][ /\ env' = env /\ starting' = starting /\ task' # task
      /\ task.scheduled /\ task'.scheduled /\ rule # None
      /\ RuleFor(env, task').subnets \notin { None, RuleFor(env, task).subnets }
      => rule'.subnets = RuleFor(env, task').subnets ]_vars

=============================================================================
