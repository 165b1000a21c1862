------------------------------ MODULE TaskStart ------------------------------
(***************************************************************************)
(* How the executions of one Task come to be, one step of a request at a   *)
(* time.  A request loads the Task, counts what runs, chooses what to      *)
(* purge of the history, inserts its row, asks the platform to start a     *)
(* process, and commits.  All of this is one database transaction: other   *)
(* requests see none of it before the commit, while the platform acts at   *)
(* once.  The row of the Task is locked from the insertion, which sets     *)
(* task.latest_task_execution, to the end of the transaction.              *)
(*                                                                         *)
(* The server may die in the middle, the platform may refuse, and its      *)
(* answer may be lost although it has started the process.                 *)
(***************************************************************************)
EXTENDS Integers, FiniteSets

CONSTANTS
  None,            \* no row
  Starts,          \* requests to start an execution, and the executions
  ByWrapper,       \* those sent by wrappers, whose process runs already
  MaxConcurrency,  \* task.max_concurrency; None or 0: no limit
  MaxHistory,      \* max_task_execution_history_items of the subscription
  Crashes,         \* requests may die with the server
  AnswersLost      \* the platform may start a process and yet seem to fail

ASSUME StartsAssumption == IsFiniteSet(Starts) /\ None \notin Starts
ASSUME KindsAssumption == ByWrapper \subseteq Starts
ASSUME NumbersAssumption ==
  MaxConcurrency \in Nat \cup {None} /\ MaxHistory \in Nat \cup {None}
ASSUME FaultsAssumption == {Crashes, AnswersLost} \subseteq BOOLEAN

Status == { "MANUALLY_STARTED", "RUNNING", "SUCCEEDED", "FAILED" }

InProgress == { "MANUALLY_STARTED", "RUNNING" }

ASSUME NoneAssumption == None \notin Status

VARIABLES
  row,      \* committed rows: their status, None where there is none
  holder,   \* whose transaction has the row of the Task locked
  request,  \* how far each request is
  draft,    \* the status in the row that each request is about to commit
  purge,    \* the rows that each request is about to delete
  process,  \* what the platform does for each execution
  together, \* requests that were under way at the same time as another
  purged    \* rows that were deleted

vars == <<row, holder, request, draft, purge, process, together, purged>>

TypeOK ==
  /\ row \in [Starts -> Status \cup {None}]
  /\ holder \in Starts \cup {None}
  /\ request \in [Starts -> { "unsent", "loaded", "admitted", "inserted", "asked",
                              "created", "refused", "died" }]
  /\ draft \in [Starts -> { "MANUALLY_STARTED", "RUNNING", "FAILED" }]
  /\ purge \in [Starts -> SUBSET Starts]
  /\ process \in [Starts -> { "none", "runs", "reported", "over" }]
  /\ together \subseteq Starts
  /\ purged \subseteq Starts

Rows == { s \in Starts : row[s] # None }
Running == { s \in Starts : row[s] = "RUNNING" }
UnderWay == { s \in Starts : request[s] \in { "loaded", "admitted", "inserted", "asked" } }

Init ==
  /\ row = [s \in Starts |-> None]
  /\ holder = None
  /\ request = [s \in Starts |-> "unsent"]
  /\ draft = [s \in Starts |-> IF s \in ByWrapper THEN "RUNNING" ELSE "MANUALLY_STARTED"]
  /\ purge = [s \in Starts |-> {}]
  /\ process = [s \in Starts |-> IF s \in ByWrapper THEN "runs" ELSE "none"]
  /\ together = {}
  /\ purged = {}

-----------------------------------------------------------------------------
\* A variant with the comparison off by one.
CanStart_OneMore ==
  MaxConcurrency \in {None, 0} \/ Cardinality(Running) <= MaxConcurrency

\* Task.can_start_execution
CanStart ==
  MaxConcurrency \in {None, 0} \/ Cardinality(Running) < MaxConcurrency

\* Task.purge_history(reservation_count): how many rows must go.
Excess(reserved) == Cardinality(Rows) - (MaxHistory - reserved)

\* A variant that takes whatever comes first.
PurgeChoices_Any(reserved) ==
  IF MaxHistory = None \/ Excess(reserved) <= 0 THEN {{}}
  ELSE { victims \in SUBSET Rows : Cardinality(victims) = Excess(reserved) }

\* Which ones: those that are over, and only then those in progress.
PurgeChoices(reserved) ==
  LET over == { s \in Rows : row[s] \notin InProgress }
  IN IF MaxHistory = None \/ Excess(reserved) <= 0 THEN {{}}
     ELSE { victims \in SUBSET Rows :
              /\ Cardinality(victims) = Excess(reserved)
              /\ victims \subseteq over \/ over \subseteq victims }

\* A request is over, one way or another.
Ends(s, outcome) ==
  /\ request' = [request EXCEPT ![s] = outcome]
  /\ holder' = IF holder = s THEN None ELSE holder
  /\ purge' = [purge EXCEPT ![s] = {}]

Load(s) ==
  /\ request[s] = "unsent"
  /\ request' = [request EXCEPT ![s] = "loaded"]
  /\ together' = IF UnderWay = {} THEN together ELSE together \cup UnderWay \cup {s}
  /\ UNCHANGED <<row, holder, draft, purge, process, purged>>

\* The count, answered with 409, then pre_save_task_execution.
Admit(s) ==
  /\ request[s] = "loaded"
  /\ IF CanStart
     THEN /\ request' = [request EXCEPT ![s] = "admitted"]
          /\ \E victims \in PurgeChoices(1) : purge' = [purge EXCEPT ![s] = victims]
          /\ UNCHANGED <<holder>>
     ELSE Ends(s, "refused")
  /\ UNCHANGED <<row, draft, process, together, purged>>

\* The insertion and post_save_task_execution, which updates one column of the
\* Task and so waits for the end of any other transaction that has done so.
Insert(s) ==
  /\ request[s] = "admitted"
  /\ holder = None
  /\ request' = [request EXCEPT ![s] = IF s \in ByWrapper THEN "asked" ELSE "inserted"]
  /\ holder' = s
  /\ UNCHANGED <<row, draft, purge, process, together, purged>>

-----------------------------------------------------------------------------
(* manually_start of the execution methods.                                *)

\* The execution method cannot start the Task: the exception rolls back.
Unsupported(s) ==
  /\ request[s] = "inserted"
  /\ Ends(s, "refused")
  /\ UNCHANGED <<row, draft, process, together, purged>>

Starting(s, launches, status) ==
  /\ request[s] = "inserted"
  /\ request' = [request EXCEPT ![s] = "asked"]
  /\ process' = IF launches THEN [process EXCEPT ![s] = "runs"] ELSE process
  /\ draft' = [draft EXCEPT ![s] = status]
  /\ UNCHANGED <<row, holder, purge, together, purged>>

\* The platform starts a process and says so.
Started(s) == Starting(s, TRUE, "MANUALLY_STARTED")

\* A variant that takes any answer for a success.
NotStarted_Ignored(s) == Starting(s, FALSE, "MANUALLY_STARTED")

\* It answers with an error, or with a list of failures and no process.
NotStarted(s) == Starting(s, FALSE, "FAILED")

\* A variant that lets the exception end the request.
SeemsNotStarted_Raises(s) ==
  /\ AnswersLost
  /\ request[s] = "inserted"
  /\ process' = [process EXCEPT ![s] = "runs"]
  /\ Ends(s, "refused")
  /\ UNCHANGED <<row, draft, together, purged>>

\* It starts one, but the call raises.
SeemsNotStarted(s) == AnswersLost /\ Starting(s, TRUE, "FAILED")

-----------------------------------------------------------------------------
Commit(s) ==
  /\ request[s] = "asked"
  /\ Ends(s, "created")
  /\ row' = [x \in Starts |->
               IF x = s THEN draft[s] ELSE IF x \in purge[s] THEN None ELSE row[x]]
  /\ purged' = purged \cup { x \in purge[s] : row[x] # None }
  /\ UNCHANGED <<draft, process, together>>

\* The server dies, or the commit fails: the database rolls back.
Crash(s) ==
  /\ Crashes
  /\ s \in UnderWay
  /\ Ends(s, "died")
  /\ UNCHANGED <<row, draft, process, together, purged>>

\* enforce_task_execution_limits, run from time to time.
Enforce ==
  \E victims \in PurgeChoices(0) :
    /\ victims # {}
    /\ row' = [s \in Starts |-> IF s \in victims THEN None ELSE row[s]]
    /\ purged' = purged \cup victims
    /\ UNCHANGED <<holder, request, draft, purge, process, together>>

-----------------------------------------------------------------------------
(* The processes.  One that was started by hand reports that it runs; the  *)
(* answer is 404 before the commit and 409 after a failure.                *)

Report(s) ==
  /\ process[s] = "runs"
  /\ row[s] = "MANUALLY_STARTED"
  /\ row' = [row EXCEPT ![s] = "RUNNING"]
  /\ process' = [process EXCEPT ![s] = "reported"]
  /\ UNCHANGED <<holder, request, draft, purge, together, purged>>

\* A process ends, and its wrapper says so where there is a row in progress.
End(s) ==
  /\ process[s] \in { "runs", "reported" }
  /\ process' = [process EXCEPT ![s] = "over"]
  /\ row' = IF row[s] \in InProgress THEN [row EXCEPT ![s] = "SUCCEEDED"] ELSE row
  /\ UNCHANGED <<holder, request, draft, purge, together, purged>>

Step(s) ==
  \/ Load(s) \/ Admit(s) \/ Insert(s)
  \/ Unsupported(s) \/ Started(s) \/ NotStarted(s) \/ SeemsNotStarted(s)
  \/ Commit(s)

Next ==
  \/ \E s \in Starts : Step(s) \/ Crash(s) \/ Report(s) \/ End(s)
  \/ Enforce

Spec == Init /\ [][Next]_vars

-----------------------------------------------------------------------------
(* Properties.                                                             *)

\* Unless the server has died, what the platform runs has a row, of an
\* execution that the history has not dropped.
NoProcessWithoutRow ==
  \A s \in Starts \ (ByWrapper \cup purged) :
    process[s] # "none" /\ s \notin UnderWay /\ request[s] # "died" => row[s] # None

\* A row that says that its execution was started by hand is one that the
\* platform has a process for: whatever is not started is FAILED.
StartedHasProcess ==
  \A s \in Starts : row[s] = "MANUALLY_STARTED" => process[s] # "none"

\* The counts of requests that are under way together do not see each other's
\* rows.  Only so, or by starts by hand, are there more executions than allowed.
LimitExceededOnlyTogether ==
  \/ MaxConcurrency \in {None, 0}
  \/ Cardinality(Running) <= MaxConcurrency
  \/ \E s \in Running : s \in together \/ s \notin ByWrapper

\* As long as the history holds executions that have failed to start, nobody
\* who is alone in inserting drops one that is in progress.
PurgeSparesTheLiving ==
  [][ \A s, x \in Starts :
        row[s] \in InProgress /\ row'[s] = None /\ holder \notin together
          => "FAILED" \notin {row[x]} \cap {row'[x]} ]_vars

=============================================================================
