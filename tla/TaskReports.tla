----------------------------- MODULE TaskReports -----------------------------
(***************************************************************************)
(* Tasks that their own processes describe.  A wrapper that starts sends,  *)
(* with the Task Execution it creates, the properties of its Task: the     *)
(* Task is created if there is none, and updated if the latest execution   *)
(* is not of a newer version.  The latest execution is the one in progress *)
(* that was saved last, so that processes of several versions, users and   *)
(* the history limit all decide whose description a Task has.              *)
(*                                                                         *)
(* Requests read the Task when they begin and save it when they finish.    *)
(***************************************************************************)
EXTENDS Naturals, FiniteSets

CONSTANTS
  None,        \* NULL
  Tasks,       \* UUIDs that Tasks get
  Uuids,       \* UUIDs that wrappers send, those of deleted Tasks among them
  Names,       \* names of Tasks in one group
  Reported,    \* those that wrappers send; users may rename
  Executions,  \* Task Executions, and the processes they stand for
  Requests,    \* requests that may overlap
  MaxVersion   \* task_version_number goes to it; 0 stands for none sent

Versions == 0 .. MaxVersion

VARIABLES
  tasks,       \* the rows: name, latest_task_execution, and whose description they have
  executions,  \* the rows: task, task_version_number, whether in progress
  pending,     \* what each request has read and is going to do
  top,         \* the newest version that has described each Task
  lapsed       \* Tasks whose description may be older, for a reason named below

vars == <<tasks, executions, pending, top, lapsed>>

Known == { t \in Tasks : tasks[t] # None }

TypeOK ==
  /\ tasks \in [ Tasks -> { None } \cup
       [ name : Names, details : Versions, latest : Executions \cup {None} ] ]
  /\ executions \in [ Executions -> { None } \cup
       [ task : Tasks, version : Versions, live : BOOLEAN ] ]
  /\ top \in [ Tasks -> Versions ] /\ lapsed \subseteq Tasks

Init ==
  /\ tasks = [t \in Tasks |-> None]
  /\ executions = [x \in Executions |-> None]
  /\ pending = [r \in Requests |-> None]
  /\ top = [t \in Tasks |-> 0]
  /\ lapsed = {}

-----------------------------------------------------------------------------
(* Finding the Task.                                                       *)

Named(name) == { t \in Known : tasks[t].name = name }

\* find_by_uuid_or_name: a UUID, if one is sent, decides.
Found(uuid, name) == IF uuid = None THEN Named(name) ELSE Known \cap { uuid }

\* ... and the name must then be right.
Contradicts(uuid, name) == \E t \in Found(uuid, name) : tasks[t].name # name

\* A variant in which only a newer version updates what an older one said.
ShouldUpdate_Reversed(t, version) ==
  LET latest == tasks[t].latest
      last == IF latest = None THEN 0 ELSE executions[latest].version
  IN (version # 0 /\ last # 0) => version <= last

\* Whether the Task is to have the description that was sent.
ShouldUpdate(t, version) ==
  LET latest == tasks[t].latest
      last == IF latest = None THEN 0 ELSE executions[latest].version
  IN (version # 0 /\ last # 0) => last <= version

-----------------------------------------------------------------------------
(* Requests.                                                               *)

Underway == { pending[r] : r \in Requests } \ {None}

\* Bound: a process has one request at a time.
Busy == { q.execution : q \in Underway }

\* UUIDs are not used twice: not while a request remembers a row that is gone.
Unused == { x \in Executions \ Busy : /\ executions[x] = None
                                      /\ \A q \in Underway : q.read # None => q.read.latest # x }

\* TaskExecutionSerializer.to_internal_value.  A Task that is not found under its
\* UUID is looked for under its name by the TaskSerializer, whatever its version.
\* Bound: no more Tasks are created than there are UUIDs for.
Begin(r, kind, x, version, uuid, name, auto) ==
  LET found == Found(uuid, name)
      target == IF found # {} THEN found ELSE Named(name)
      saves == auto /\ \A t \in found : ShouldUpdate(t, version)
  IN /\ pending[r] = None /\ x \notin Busy
     /\ ~Contradicts(uuid, name)
     /\ found = {} => auto
     /\ target = {} => Known # Tasks
     /\ pending' = [pending EXCEPT ![r] =
          [ kind |-> kind, execution |-> x, version |-> version, saves |-> saves,
            task  |-> IF target = {} THEN None ELSE CHOOSE t \in target : TRUE,
            name  |-> IF saves THEN name ELSE None,
            read  |-> IF target = {} \/ ~saves THEN None ELSE tasks[CHOOSE t \in target : TRUE],
            asked |-> found # {} \/ target = {} ] ]

\* A wrapper starts and reports, with its version or without.
BeginPost(r) ==
  /\ \E x \in Unused, version \in Versions, uuid \in Uuids \cup {None},
        name \in Reported, auto \in BOOLEAN :
       Begin(r, "post", x, version, uuid, name, auto)
  /\ UNCHANGED <<tasks, executions, top, lapsed>>

\* ... and describes its Task again while it runs, or as it ends.
BeginPatch(r) ==
  /\ \E x \in Executions, name \in Reported :
       /\ executions[x] # None /\ executions[x].live
       /\ Begin(r, "patch", x, executions[x].version, None, name, TRUE)
  /\ UNCHANGED <<tasks, executions, top, lapsed>>

\* A user edits the Task, here its name.
BeginEdit(r) ==
  /\ pending[r] = None
  /\ \E t \in Known, name \in Names :
       pending' = [pending EXCEPT ![r] =
         [ kind |-> "edit", execution |-> None, version |-> tasks[t].details, name |-> name,
           task |-> t, read |-> tasks[t], asked |-> TRUE, saves |-> TRUE ]]
  /\ UNCHANGED <<tasks, executions, top, lapsed>>

\* TaskSerializer.create_or_update saves every column, the latest execution as it
\* was read.
SavedTask(q) ==
  [ name |-> q.name, details |-> q.version,
    latest |-> IF q.read = None THEN None ELSE q.read.latest ]

\* What the database refuses: a name that is taken, an execution that is gone; and
\* TaskExecutionSerializer.update: an execution that is another Task's.
Refused(q, t) ==
  \/ q.saves /\ \E u \in Named(q.name) : u # t
  \/ q.saves /\ SavedTask(q).latest # None /\ executions[SavedTask(q).latest] = None
  \/ q.kind = "patch" /\ executions[q.execution].task # t

\* post_save_task_execution: an execution in progress becomes the latest.
WithLatest(row, x, live) == IF live THEN [row EXCEPT !.latest = x] ELSE row

-----------------------------------------------------------------------------
(* What the property below takes for a reason.                             *)

VersionOfLatest(t) ==
  LET latest == tasks[t].latest IN IF latest = None THEN 0 ELSE executions[latest].version

\* The latest execution is not of the newest version.
Adrift(t) == tasks[t] # None /\ VersionOfLatest(t) # top[t]

\* ... or the request had read a row that has changed, had no version, or found the
\* Task by its name only, after its UUID.
Kept(q, t) == q.version # 0 /\ q.read = tasks[t] /\ q.asked

Account(q, t) ==
  /\ top' = [top EXCEPT ![t] = IF q # None /\ q.saves /\ q.version > @ THEN q.version ELSE @]
  /\ lapsed' = { u \in Tasks :
       /\ tasks'[u] # None
       /\ \/ Adrift(u)'
          \/ u = t /\ q # None /\ q.saves /\ ~Kept(q, t)
          \/ u \in lapsed /\ tasks'[u].details # top'[u] }

-----------------------------------------------------------------------------
Done(r) == pending' = [pending EXCEPT ![r] = None]

\* The rest of the request.  When can_start_execution refuses, the answer is 409
\* and the transaction, which has saved the Task, is committed all the same.
Finish(r) ==
  /\ pending[r] # None
  /\ \E t \in Tasks, live, admitted \in BOOLEAN :
       LET q == pending[r]
           row == IF q.saves THEN SavedTask(q) ELSE tasks[t]
       IN /\ IF q.task = None THEN tasks[t] = None ELSE t = q.task
          /\ ~Refused(q, t)
          /\ CASE q.kind = "edit" ->
                    /\ tasks' = [tasks EXCEPT ![t] = row]
                    /\ UNCHANGED executions
               [] q.kind # "edit" /\ ~admitted ->
                    /\ q.kind = "post"
                    /\ tasks' = [tasks EXCEPT ![t] = row]
                    /\ UNCHANGED executions
               [] OTHER ->
                    /\ tasks' = [tasks EXCEPT ![t] = WithLatest(row, q.execution, live)]
                    /\ executions' = [executions EXCEPT ![q.execution] =
                         [ task |-> t, version |-> q.version, live |-> live ]]
          /\ Account(q, t)
  /\ Done(r)

Refuse(r) ==
  /\ pending[r] # None
  /\ pending[r].task # None => Refused(pending[r], pending[r].task)
  /\ pending[r].task = None => Named(pending[r].name) # {} \/ pending[r].kind = "patch"
  /\ Done(r)
  /\ UNCHANGED <<tasks, executions, top, lapsed>>

\* A heartbeat, or an end, that does not describe the Task.
Heartbeat(x) ==
  /\ executions[x] # None /\ executions[x].live /\ x \notin Busy
  /\ \E live \in BOOLEAN :
       LET t == executions[x].task
       IN /\ executions' = [executions EXCEPT ![x].live = live]
          /\ tasks' = [tasks EXCEPT ![t] = WithLatest(@, x, live)]
          /\ Account(None, t)
  /\ UNCHANGED pending

\* An execution is deleted, by the history limit or by a user, and with it what
\* names it: latest_task_execution is SET_NULL.
DeleteExecution(x) ==
  /\ executions[x] # None /\ x \notin Busy
  /\ LET t == executions[x].task
     IN /\ executions' = [executions EXCEPT ![x] = None]
        /\ tasks' = [tasks EXCEPT ![t].latest = IF @ = x THEN None ELSE @]
        /\ Account(None, t)
  /\ UNCHANGED pending

\* A Task is deleted with its executions.  Bound: by nobody while requests go on.
DeleteTask(t) ==
  /\ tasks[t] # None /\ Underway = {}
  /\ tasks' = [tasks EXCEPT ![t] = None]
  /\ executions' = [x \in Executions |->
       IF executions[x] # None /\ executions[x].task = t THEN None ELSE executions[x]]
  /\ top' = [top EXCEPT ![t] = 0] /\ lapsed' = lapsed \ {t}
  /\ UNCHANGED pending

Next ==
  \/ \E r \in Requests :
       BeginPost(r) \/ BeginPatch(r) \/ BeginEdit(r) \/ Finish(r) \/ Refuse(r)
  \/ \E x \in Executions : Heartbeat(x) \/ DeleteExecution(x)
  \/ \E t \in Tasks : DeleteTask(t)

Spec == Init /\ [][Next]_vars

-----------------------------------------------------------------------------
(* Properties.                                                             *)

\* A Task is described by the newest version that has described it, as long as its
\* latest execution is of that version: a process of an older one does not take
\* the description back (TaskExecutionSerializer.to_internal_value).  It does when
\* an execution of an older version has been saved last, which its heartbeat is
\* enough for; when the latest was deleted, or refused for the concurrency of the
\* Task after it had described it; and when requests overlap.
DescriptionIsNewest ==
  /\ TypeOK
  /\ \A t \in Known \ lapsed : tasks[t].details = top[t]

=============================================================================
