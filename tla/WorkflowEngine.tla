---------------------------- MODULE WorkflowEngine ----------------------------
(***************************************************************************)
(* One execution of a Workflow: a graph of nodes (WorkflowTaskInstances),  *)
(* each holding a Task, and of transitions between them.  When the Task    *)
(* Execution started for a node ends, the signal handler of its save       *)
(* evaluates the transitions that leave the node, recomputes the status of *)
(* the workflow execution and starts what the transitions activate.        *)
(*                                                                         *)
(* A request, or a pass of a checker, is one database transaction and runs *)
(* here without interleaving, but not in one step: the code calls itself   *)
(* recursively, through the save of a Task Execution whose start is        *)
(* refused and through the retry of nodes that had succeeded, and the      *)
(* calls share or copy the workflow execution they have in memory.  "todo" *)
(* is the stack of what remains to be done in the transaction, "obj" the   *)
(* instance of the workflow execution in the hands of the running code,    *)
(* "we" the row.                                                           *)
(***************************************************************************)
EXTENDS Integers, Sequences, FiniteSets, ExecutionStatus

CONSTANTS
  Nodes,            \* workflow task instances
  Transitions,      \* workflow transitions
  Source, Target,   \* from_ and to_workflow_task_instance of a transition
  Rule,             \* rule_type of a transition
  StartCondition,   \* start_transition_condition of a node
  Threshold,        \* for "at_least": evaluations needed, None when not set
  FailureBehavior,  \* failure_behavior of a node
  TimeoutBehavior,  \* timeout_behavior of a node
  AllowAfterFailure,  \* nodes with allow_workflow_execution_after_failure
  ReEvaluated,      \* nodes with should_eval_transitions_after_first_execution
  MaxComplete,      \* max_complete_executions of a node
  Refusable,        \* nodes whose platform may refuse to start the Task
  Unstartable,      \* nodes whose Task cannot be started manually
  TimeLimited,      \* workflow.max_age_seconds is set
  MaxRetries,       \* workflow.default_max_retries
  UpdateStatuses,   \* what wrappers and users set Task Executions to
  Selections,       \* sets of nodes that users ask to start
  MaxRestarts,      \* bound on the requests to retry or to start nodes
  MaxCount          \* where the evaluations of a transition stop counting

Rules == { "always", "success", "failure", "timeout", "exit_code", "unsupported" }

ASSUME GraphAssumption ==
  /\ Source \in [Transitions -> Nodes]
  /\ Target \in [Transitions -> Nodes]
  /\ Rule \in [Transitions -> Rules]
  /\ IsFiniteSet(Nodes) /\ IsFiniteSet(Transitions)
ASSUME NodesAssumption ==
  /\ StartCondition \in [Nodes -> { "all", "any", "at_least" }]
  /\ Threshold \in [Nodes -> Nat \cup {None}]
  /\ FailureBehavior \in [Nodes -> { "fail", "fail_if_unhandled", "ignore" }]
  /\ TimeoutBehavior \in
       [Nodes -> { "fail", "fail_if_unhandled", "time_out",
                   "time_out_if_unhandled", "ignore" }]
  /\ MaxComplete \in [Nodes -> Nat \cup {None}]
  /\ AllowAfterFailure \subseteq Nodes /\ ReEvaluated \subseteq Nodes
  /\ Refusable \subseteq Nodes /\ Unstartable \subseteq Nodes
  /\ Selections \subseteq SUBSET Nodes
ASSUME LimitsAssumption ==
  /\ TimeLimited \in BOOLEAN
  /\ UpdateStatuses \subseteq Status \cup {None}
  /\ MaxRetries \in Nat /\ MaxRestarts \in Nat /\ MaxCount \in Nat \ {0}
  /\ \A n \in Nodes : Threshold[n] # None => Threshold[n] <= MaxCount

VARIABLES
  we,           \* the row of the workflow execution
  runs,         \* the Task Executions started for nodes, in order of creation
  evaluations,  \* evaluations of transitions that had the result TRUE
  obj,          \* the workflow execution in memory, None between transactions
  todo,         \* what remains of the transaction, innermost call first
  restarts      \* requests to retry or to start nodes so far

vars == <<we, runs, evaluations, obj, todo, restarts>>

-----------------------------------------------------------------------------
WorkflowExecution ==
  [ status   : Status,
    finished : BOOLEAN,          \* finished_at is set
    attempts : 0 .. MaxRetries ] \* failed_attempts + timed_out_attempts

ASSUME NoneAssumption == None \notin WorkflowExecution

Run ==
  [ node     : Nodes,
    latest   : BOOLEAN,    \* is_latest of the node's execution
    status   : Status,
    detached : BOOLEAN,    \* stop_reason WORKFLOW_EXECUTION_STOPPED or _RETRIED
    finished : BOOLEAN ]

Evaluation == [run : Nat, transition : Transitions, nth : 1 .. MaxCount]

\* The calls: loops that start or retry nodes; the handler of an ended run, and
\* its loop over activated transitions; check_if_complete; an exception handler
\* that fails the workflow; save; the return to a caller that has an instance of
\* its own; refresh_from_db; and the end of the transaction.
Call ==
  [op : {"start", "retry"}, nodes : SUBSET Nodes]
    \cup [op : {"finished"}, run : Nat, retrying : BOOLEAN]
    \cup [op : {"activate"}, transitions : SUBSET Transitions,
          retrying : BOOLEAN, failed : BOOLEAN]
    \cup [op : {"resume"}, obj : WorkflowExecution]
    \cup [op : {"complete", "fail", "save", "refresh", "commit"}]

Do(op) == [op |-> op]

Idle == todo = <<>>

TypeOK ==
  /\ we \in WorkflowExecution
  /\ runs \in Seq(Run)
  /\ evaluations \subseteq Evaluation
  /\ obj \in WorkflowExecution \cup {None}
  /\ todo \in Seq(Call)
  /\ restarts \in 0 .. MaxRestarts
  /\ (obj = None) = Idle
  /\ \A e \in evaluations : e.run \in DOMAIN runs
  /\ \A k \in DOMAIN todo : todo[k].op = "finished" => todo[k].run \in DOMAIN runs

Roots == Nodes \ { Target[t] : t \in Transitions }
Outbound(n) == { t \in Transitions : Source[t] = n }
Inbound(n) == { t \in Transitions : Target[t] = n }

\* The nodes of S and those their transitions lead to.
Reachable(S) ==
  { n \in Nodes :
      \A C \in SUBSET Nodes :
        (S \subseteq C /\ \A t \in Transitions : Source[t] \in C => Target[t] \in C)
          => n \in C }

LatestRuns(n) == { i \in DOMAIN runs : runs[i].node = n /\ runs[i].latest }

\* create has saved the row as RUNNING and is about to start the roots.
Init ==
  /\ we = [status |-> "RUNNING", finished |-> FALSE, attempts |-> 0]
  /\ runs = <<>>
  /\ evaluations = {}
  /\ obj = we
  /\ todo = << [op |-> "start", nodes |-> Roots], Do("complete"), Do("commit") >>
  /\ restarts = 0

-----------------------------------------------------------------------------
(* The status of the workflow execution.                                   *)

\* A variant that goes on after the workflow was stopped.
ContinuationAllowed_Always(w) == TRUE

\* WorkflowExecution.is_execution_continuation_allowed
ContinuationAllowed(w) ==
  w.status \in { "MANUALLY_STARTED", "RUNNING", "SUCCEEDED", "FAILED" }

\* WorkflowTransition.should_activate.  The exit codes of a rule are stored as
\* strings and the exit code of an execution is a number, so that none is ever
\* found among them.
Activates(t, status) ==
  CASE Rule[t] = "always"  -> TRUE
    [] Rule[t] = "success" -> status = "SUCCEEDED"
    [] Rule[t] = "failure" -> status = "FAILED"
    [] Rule[t] = "timeout" -> status = "TERMINATED_AFTER_TIME_OUT"
    [] OTHER               -> FALSE

Handled(i, evals) == \E e \in evals : e.run = i

\* An ended run that fails the workflow.  A timeout that is to time the workflow
\* out has no effect: the code does so only if it has computed RUNNING before,
\* which it never has.
FailsByTimeout(i, evals) ==
  LET behavior == TimeoutBehavior[runs[i].node]
  IN /\ runs[i].status = "TERMINATED_AFTER_TIME_OUT"
     /\ \/ behavior = "fail"
        \/ behavior = "fail_if_unhandled" /\ ~Handled(i, evals)

FailsByFailure(i, evals) ==
  LET behavior == FailureBehavior[runs[i].node]
  IN /\ runs[i].status \in UnsuccessfulStatuses \ { "TERMINATED_AFTER_TIME_OUT" }
     /\ \/ behavior = "fail"
        \/ behavior = "fail_if_unhandled" /\ ~Handled(i, evals)

\* A variant that looks only at executions that have ended.
ComputedStatus_Ended(w, evals, pending) ==
  IF w.status # "RUNNING" \/ pending THEN w.status
  ELSE IF \E i \in DOMAIN runs :
            runs[i].latest /\ (FailsByFailure(i, evals) \/ FailsByTimeout(i, evals))
  THEN "FAILED" ELSE "SUCCEEDED"

\* WorkflowExecution.compute_updated_status, for the instance w
ComputedStatus(w, evals, pending) ==
  LET current == { i \in DOMAIN runs : runs[i].latest }
      failing == { i \in current : FailsByFailure(i, evals) }
  IN IF w.status # "RUNNING" THEN w.status
     ELSE IF \E i \in failing : runs[i].node \notin AllowAfterFailure THEN "FAILED"
     ELSE IF pending \/ \E i \in current : InProgress(runs[i].status) THEN "RUNNING"
     ELSE IF failing # {} \/ \E i \in current : FailsByTimeout(i, evals) THEN "FAILED"
     ELSE "SUCCEEDED"

OneMore(attempts) == IF attempts < MaxRetries THEN attempts + 1 ELSE attempts

\* WorkflowExecution.check_if_complete saves the instance if its status changes.
CheckIfComplete(evals, pending) ==
  LET status == ComputedStatus(obj, evals, pending)
      done == [obj EXCEPT !.status = status, !.finished = TRUE,
                          !.attempts = IF status = "FAILED" THEN OneMore(@) ELSE @]
  IN IF status = obj.status
     THEN UNCHANGED <<obj, we>>
     ELSE obj' = done /\ we' = done

-----------------------------------------------------------------------------
(* Starting a node.  Each operator says how the transaction goes on from   *)
(* the stack "rest", or from "raised" if the start raises an exception.    *)

NewRun(n, status) ==
  [ node |-> n, latest |-> TRUE, status |-> status, detached |-> FALSE,
    finished |-> status = "FAILED" ]

\* The new execution replaces the others of its node as the latest.
WithRun(run) ==
  Append([ i \in DOMAIN runs |->
             [runs[i] EXCEPT !.latest = @ /\ runs[i].node # run.node] ], run)

\* A variant that knows only the ends that wrappers report.
HandlesEnd_Reported(run) ==
  /\ run.status \in GuardedFinalStatuses
  /\ ~run.detached /\ ContinuationAllowed(we)

\* post_save_task_execution, for a run of a workflow, calls the handler of ended
\* runs with the row as it is now in the database.
HandlesEnd(run) ==
  ~InProgress(run.status) /\ ~run.detached /\ ContinuationAllowed(we)

Finished(i, retrying) == [op |-> "finished", run |-> i, retrying |-> retrying]

\* The platform accepts; the Task Execution will report itself.
StartAccepted(n, rest) ==
  /\ n \notin Unstartable
  /\ runs' = WithRun(NewRun(n, "MANUALLY_STARTED"))
  /\ todo' = rest
  /\ UNCHANGED obj

\* A variant that hands the previous execution to the handler.
StartRefused_Previous(n, rest) ==
  LET run == NewRun(n, "FAILED")
  IN /\ n \in Refusable \ Unstartable
     /\ runs' = WithRun(run)
     /\ obj' = we
     /\ todo' = << Finished(Len(runs), FALSE), [op |-> "resume", obj |-> obj] >> \o rest

\* The platform refuses: the Task Execution is saved as FAILED, inside the call
\* that starts it, and the end of this run is handled at once.
StartRefused(n, rest) ==
  LET run == NewRun(n, "FAILED")
  IN /\ n \in Refusable \ Unstartable
     /\ runs' = WithRun(run)
     /\ IF HandlesEnd(run)
        THEN /\ obj' = we
             /\ todo' = << Finished(Len(runs) + 1, FALSE),
                           [op |-> "resume", obj |-> obj] >> \o rest
        ELSE todo' = rest /\ UNCHANGED obj

\* A variant in which the caller does not learn of the exception.
StartRaises_Swallowed(n, raised) ==
  /\ n \in Unstartable
  /\ runs' = WithRun(NewRun(n, "MANUALLY_STARTED"))
  /\ todo' = Tail(todo)
  /\ UNCHANGED obj

\* The Task is passive, or its execution method does not support manual starts:
\* the Task Execution stays behind as it was created.
StartRaises(n, raised) ==
  /\ n \in Unstartable
  /\ runs' = WithRun(NewRun(n, "MANUALLY_STARTED"))
  /\ todo' = raised
  /\ UNCHANGED obj

\* WorkflowTaskInstance.start
StartNode(n, rest, raised) ==
  /\ StartAccepted(n, rest) \/ StartRefused(n, rest) \/ StartRaises(n, raised)
  /\ UNCHANGED <<we, evaluations, restarts>>

Proceed(rest) ==
  todo' = rest /\ UNCHANGED <<we, runs, evaluations, obj, restarts>>

Youngest(S) == CHOOSE i \in S : \A j \in S : j <= i

\* WorkflowTaskInstance.retry_if_unsuccessful
RetryNode(n, rest, raised) ==
  LET i == Youngest(LatestRuns(n))
      exists == LatestRuns(n) # {}
  IN \/ /\ exists => ~InProgress(runs[i].status) /\ runs[i].status # "SUCCEEDED"
        /\ StartNode(n, rest, raised)
     \/ /\ exists /\ InProgress(runs[i].status)
        /\ Proceed(rest)
     \/ /\ exists /\ runs[i].status = "SUCCEEDED"
        /\ Proceed(<<Finished(i, TRUE)>> \o rest)

-----------------------------------------------------------------------------
(* The steps of a transaction.                                             *)

Top == Head(todo)
Rest == Tail(todo)

Running(op) == todo # <<>> /\ Top.op = op

\* The loops of manually_start and start_task_instance_executions.  In the former
\* an exception fails the workflow; the latter starts no node that raises one.
StartStep ==
  /\ Running("start")
  /\ \/ Top.nodes = {} /\ Proceed(Rest)
     \/ \E n \in Top.nodes :
          StartNode(n, <<[Top EXCEPT !.nodes = @ \ {n}]>> \o Rest,
                    <<Do("fail"), Do("save"), Do("commit")>>)

\* The loop of retry, which an exception ends.
RetryStep ==
  /\ Running("retry")
  /\ \/ Top.nodes = {} /\ Proceed(Rest)
     \/ \E n \in Top.nodes :
          RetryNode(n, <<[Top EXCEPT !.nodes = @ \ {n}]>> \o Rest, <<Do("fail")>> \o Rest)

\* One more evaluation with the result TRUE of each transition in T, for run i.
Evaluated(i, T) ==
  LET before(t) == Cardinality({ e \in evaluations : e.run = i /\ e.transition = t })
  IN evaluations \cup
       { [run |-> i, transition |-> t, nth |-> before(t) + 1] :
           t \in { t \in T : before(t) < MaxCount } }

\* handle_workflow_task_instance_execution_finished, up to its loop
FinishedStep ==
  LET i == Top.run
      outbound == Outbound(runs[i].node)
      activated == { t \in outbound : Activates(t, runs[i].status) }
      raises == \E t \in outbound : Rule[t] = "unsupported"
  IN /\ Running("finished")
     /\ IF obj.status \in { "STOPPING", "STOPPED" } THEN Proceed(Rest)
        ELSE \/ /\ ~raises
                /\ evaluations' = Evaluated(i, activated)
                /\ CheckIfComplete(evaluations', activated # {})
                /\ todo' = IF obj'.status # "RUNNING" THEN Rest
                           ELSE <<[op |-> "activate", transitions |-> activated,
                                   retrying |-> Top.retrying, failed |-> FALSE]>> \o Rest
                /\ UNCHANGED <<runs, restarts>>
             \/ \* The evaluation of a rule that is not implemented fails.
                /\ raises
                /\ \E done \in SUBSET activated : evaluations' = Evaluated(i, done)
                /\ todo' = <<Do("fail"), Do("save")>> \o Rest
                /\ UNCHANGED <<we, runs, obj, restarts>>

\* A variant that counts the activations by superseded runs as well.
ActivatedInbound_ByAnyRun(n) == { e \in evaluations : e.transition \in Inbound(n) }

\* find_activated_inbound_transition_evaluations
ActivatedInbound(n) ==
  { e \in evaluations : e.transition \in Inbound(n) /\ runs[e.run].latest }

\* The start condition of a node one of whose inbound transitions was activated.
\* "at_least" stands for the conditions on a count and on a ratio.
Triggered(n) ==
  LET active == ActivatedInbound(n)
  IN CASE StartCondition[n] = "any" -> TRUE
       [] StartCondition[n] = "all" -> { e.transition : e \in active } = Inbound(n)
       [] OTHER -> Threshold[n] # None /\ Cardinality(active) >= Threshold[n]

\* A variant without the limits on how often a node is started.
MayStart_Always(n, retrying) == TRUE

\* The conditions of handle_inbound_transition_activated on earlier executions.
MayStart(n, retrying) ==
  LET count == Cardinality(LatestRuns(n))
  IN \/ retrying
     \/ /\ n \in ReEvaluated \/ count = 0
        /\ MaxComplete[n] = None \/ count < MaxComplete[n]

\* ... its loop over the activated transitions, each an inbound one of its target
ActivateStep ==
  /\ Running("activate")
  /\ \/ /\ Top.transitions = {}
        /\ Proceed(IF Top.failed THEN <<Do("fail"), Do("save")>> \o Rest ELSE Rest)
     \/ \E t \in Top.transitions :
          LET n == Target[t]
              next == [Top EXCEPT !.transitions = @ \ {t}]
              rest == <<next>> \o Rest
              raised == <<[next EXCEPT !.failed = TRUE]>> \o Rest
          IN IF ~(Triggered(n) /\ MayStart(n, Top.retrying)) THEN Proceed(rest)
             ELSE IF Top.retrying THEN RetryNode(n, rest, raised)
             ELSE StartNode(n, rest, raised)

\* check_if_complete, at the end of a start or a retry
CompleteStep ==
  /\ Running("complete")
  /\ CheckIfComplete(evaluations, FALSE)
  /\ todo' = Rest
  /\ UNCHANGED <<runs, evaluations, restarts>>

\* What the exception handlers set.
FailStep ==
  /\ Running("fail")
  /\ obj' = [obj EXCEPT !.status = "FAILED", !.finished = TRUE]
  /\ todo' = Rest
  /\ UNCHANGED <<we, runs, evaluations, restarts>>

SaveStep ==
  /\ Running("save")
  /\ we' = obj
  /\ todo' = Rest
  /\ UNCHANGED <<runs, evaluations, obj, restarts>>

\* Back in the caller whose Task Execution could not be started: its instance is
\* older than what the handler may have saved.
ResumeStep ==
  /\ Running("resume")
  /\ obj' = Top.obj
  /\ todo' = Rest
  /\ UNCHANGED <<we, runs, evaluations, restarts>>

RefreshStep ==
  /\ Running("refresh")
  /\ obj' = we
  /\ todo' = Rest
  /\ UNCHANGED <<we, runs, evaluations, restarts>>

CommitStep ==
  /\ Running("commit")
  /\ obj' = None
  /\ todo' = Rest
  /\ UNCHANGED <<we, runs, evaluations, restarts>>

Step ==
  \/ StartStep \/ RetryStep \/ FinishedStep \/ ActivateStep \/ CompleteStep
  \/ FailStep \/ SaveStep \/ ResumeStep \/ RefreshStep \/ CommitStep

-----------------------------------------------------------------------------
(* The transactions.                                                       *)

\* A Task Execution of the workflow is saved by another request or checker.
SaveRun(i, run) ==
  /\ runs' = [runs EXCEPT ![i] = run]
  /\ IF HandlesEnd(run)
     THEN obj' = we /\ todo' = <<Finished(i, FALSE), Do("commit")>>
     ELSE UNCHANGED <<obj, todo>>
  /\ UNCHANGED <<we, evaluations, restarts>>

\* PATCH of a Task Execution.
Report(i, request) ==
  LET run == runs[i]
  IN /\ Idle
     /\ ~UpdateConflicts(run.status, request)
     /\ SaveRun(i, [run EXCEPT !.status = UpdatedStatus(run.status, request),
                               !.finished = @ \/ SetsFinished(run.status, request)])

\* The verdict of TaskExecutionChecker, whenever its limits have passed.
CheckRun(i) ==
  LET run == runs[i]
  IN /\ Idle
     /\ run.status \in AwaitingUpdateStatuses /\ ~run.finished
     /\ \/ SaveRun(i, [run EXCEPT !.status = "ABANDONED",
                                  !.finished = run.status # "MANUALLY_STARTED"])
        \/ /\ InProgress(run.status)
           /\ SaveRun(i, [run EXCEPT !.status = "STOPPING"])

\* stop_running_task_executions
WithRunningStopped(detached) ==
  [ i \in DOMAIN runs |->
      IF runs[i].latest /\ InProgress(runs[i].status)
      THEN [runs[i] EXCEPT !.status = "STOPPING", !.detached = detached]
      ELSE runs[i] ]

\* A variant of the request to stop that forgets the Task Executions.
StopExecution_Alone ==
  /\ Idle
  /\ we' = IF we.status = "RUNNING"
           THEN [we EXCEPT !.status = "STOPPED", !.finished = TRUE]
           ELSE [we EXCEPT !.status = "STOPPING"]
  /\ UNCHANGED <<runs, evaluations, obj, todo, restarts>>

\* handle_stop_requested, and the save that it is a part of.
HandleStopRequested ==
  /\ we' = [we EXCEPT !.status = "STOPPED", !.finished = TRUE]
  /\ runs' = WithRunningStopped(TRUE)

\* PATCH of the workflow execution with status STOPPING, which is accepted after
\* every status and carried out after RUNNING.
StopExecution ==
  /\ Idle
  /\ IF we.status = "RUNNING"
     THEN HandleStopRequested
     ELSE /\ we' = [we EXCEPT !.status = "STOPPING"]
          /\ UNCHANGED runs
  /\ UNCHANGED <<evaluations, obj, todo, restarts>>

\* A variant that does not follow the transitions.
Invalidated_NotBeyond(rs, S) ==
  [ i \in DOMAIN rs |-> [rs[i] EXCEPT !.latest = @ /\ rs[i].node \notin S] ]

\* invalidate_reachable_task_instance_executions, on executions rs
Invalidated(rs, S) ==
  [ i \in DOMAIN rs |-> [rs[i] EXCEPT !.latest = @ /\ rs[i].node \notin Reachable(S)] ]

\* WorkflowExecution.retry, up to its loop.  The status is set in memory only.
BeginRetry(attempts) ==
  LET stopped == WithRunningStopped(TRUE)
      unsuccessful == { stopped[i].node :
        i \in { i \in DOMAIN stopped :
                  stopped[i].latest /\ stopped[i].status # "SUCCEEDED" } }
  IN /\ runs' = Invalidated(stopped, unsuccessful)
     /\ obj' = [status |-> "RUNNING", finished |-> FALSE, attempts |-> attempts]
     /\ todo' = << [op |-> "retry", nodes |-> Roots],
                   Do("complete"), Do("save"), Do("commit") >>
     /\ UNCHANGED <<we, evaluations>>

RetryExecution ==
  /\ Idle
  /\ restarts < MaxRestarts
  /\ restarts' = restarts + 1
  /\ BeginRetry(we.attempts)

\* WorkflowExecutionChecker.check_timeout, when the maximum age has passed, and
\* WorkflowExecution.handle_timeout.
Expire ==
  LET attempts == OneMore(we.attempts)
  IN /\ Idle
     /\ TimeLimited
     /\ InProgress(we.status) /\ ~we.finished
     /\ \/ /\ attempts < MaxRetries
           /\ BeginRetry(attempts)
        \/ /\ attempts >= MaxRetries
           /\ we' = [status |-> "TERMINATED_AFTER_TIME_OUT", finished |-> TRUE,
                     attempts |-> attempts]
           /\ runs' = WithRunningStopped(FALSE)
           /\ UNCHANGED <<evaluations, obj, todo>>
     /\ UNCHANGED restarts

\* WorkflowExecution.start_task_instance_executions.  If one of the nodes raises
\* an exception, the request fails and the transaction leaves no trace.
StartNodes(S) ==
  /\ Idle
  /\ restarts < MaxRestarts
  /\ restarts' = restarts + 1
  /\ S \cap Unstartable = {}
  /\ we' = [we EXCEPT !.status = "RUNNING"]
  /\ obj' = we'
  /\ runs' = Invalidated(runs, S)
  /\ todo' = << [op |-> "start", nodes |-> S], Do("refresh"), Do("complete"),
                Do("commit") >>
  /\ UNCHANGED evaluations

-----------------------------------------------------------------------------
Next ==
  \/ Step
  \/ \E i \in DOMAIN runs :
       (\E request \in UpdateStatuses : Report(i, request)) \/ CheckRun(i)
  \/ StopExecution
  \/ RetryExecution
  \/ Expire
  \/ \E S \in Selections : StartNodes(S)

Spec == Init /\ [][Next]_vars

\* A transaction goes on, and the checker ends what does not end by itself.  The
\* transactions of requests do not shut out those of the checker for ever.
Fairness == WF_vars(Step) /\ SF_vars(\E i \in DOMAIN runs : CheckRun(i))

FairSpec == Spec /\ Fairness

-----------------------------------------------------------------------------
(* Properties, of the rows that other transactions can see: those at the   *)
(* end of a transaction.                                                   *)

LatestInProgress == { i \in DOMAIN runs : runs[i].latest /\ InProgress(runs[i].status) }

\* What a node did before the nodes that lead to it were executed again counts
\* for nothing: its latest execution is younger than theirs.  (Nodes that users
\* start ahead of their predecessors are exempt: none is among the Selections
\* unless its predecessors are roots.)
FollowersAreYounger ==
  \A t \in Transitions :
    \A i \in LatestRuns(Source[t]), j \in LatestRuns(Target[t]) : i < j

\* A workflow execution that was stopped, or terminated after its time, has no
\* Task Execution in progress, whatever is reported and retried before.
StoppedIsQuiet ==
  Idle /\ we.status \in { "STOPPED", "TERMINATED_AFTER_TIME_OUT" } => LatestInProgress = {}

\* compute_updated_status keeps the status RUNNING while a Task Execution of the
\* workflow is running: success is declared when all is over.
SucceededIsOver == Idle /\ we.status = "SUCCEEDED" => LatestInProgress = {}

\* Unless the workflow is retried or nodes are started by hand, no node runs
\* twice, although ends are reported repeatedly and several transitions may
\* activate a node.
NodesRunOnce ==
  Idle => \A n \in Nodes :
            Cardinality({ i \in DOMAIN runs : runs[i].node = n })
              <= 1 + restarts + we.attempts

\* What waits for all inbound transitions has been activated by all of them, in
\* executions none of which has been superseded.
JoinsAreSupported ==
  \A i \in DOMAIN runs :
    LET n == runs[i].node
    IN Idle /\ runs[i].latest /\ StartCondition[n] = "all" =>
         \A t \in Inbound(n) :
           \E e \in evaluations : e.transition = t /\ runs[e.run].latest

\* A run of a node is the one that its transitions ask for
\* (WorkflowTaskInstance.handle_inbound_transition_activated).
RunsAreDue == JoinsAreSupported /\ NodesRunOnce

\* A workflow that was stopped starts nothing: only a request to retry it or to
\* start nodes does, and those take it out of that state.
StoppedStartsNothing ==
  [][ we.status \in { "STOPPED", "TERMINATED_AFTER_TIME_OUT" } /\ restarts' = restarts
        /\ Idle => todo' = <<>> ]_vars

\* A node that could not be started at all does not pass for one that is about to
\* run: the exception, wherever in the transaction it is raised, fails the
\* workflow.
StartFailureShows ==
  \A i \in DOMAIN runs :
    Idle /\ runs[i].latest /\ runs[i].node \in Unstartable /\ InProgress(runs[i].status)
      => we.status \notin { "RUNNING", "SUCCEEDED" }

\* The workflow does not run for ever, as its Task Executions do not.
WorkflowEnds == (we.status = "RUNNING") ~> (we.status # "RUNNING")

=============================================================================
