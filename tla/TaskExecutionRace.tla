-------------------------- MODULE TaskExecutionRace --------------------------
(***************************************************************************)
(* The requests and checks of TaskExecution, on one execution, when they   *)
(* overlap.  A server process reads the row, decides on what it has read,  *)
(* and writes every column of the row back: Django's save() names all of   *)
(* them, and nothing reads the row FOR UPDATE.  The database (PostgreSQL,  *)
(* READ COMMITTED) makes a second writer of the row wait until the first   *)
(* has committed, and then lets it overwrite what the first has written.   *)
(*                                                                         *)
(* The execution was created RUNNING; as there is only one, it stays the   *)
(* latest of its Task.                                                     *)
(***************************************************************************)
EXTENDS TaskExecutionRow

CONSTANTS
  Workers,                \* server processes that answer update requests
  Checker,                \* the process of the periodic checker
  MaxRequests             \* bound on the number of requests

Sessions == Workers \cup {Checker}

VARIABLES
  row,             \* the row, as committed
  session,         \* what each process has in memory
  lock,            \* the process whose transaction has written the row
  announced,       \* how many status change events there are for each status
  heartbeatAlert,  \* the last MissingHeartbeatDetectionEvent
  requests         \* requests accepted so far

vars == <<row, session, lock, announced, heartbeatAlert, requests>>

\* An idle process.  "old" is _loaded_copy, taken when the instance was read
\* from a query; "copy" is the instance itself.
Idle ==
  [ pc |-> "idle", request |-> None, old |-> None, copy |-> None,
    announces |-> FALSE, resolves |-> FALSE ]

TypeOK ==
  /\ row \in Row
  /\ session \in
       [Sessions ->
          [ pc : {"idle", "selected", "loaded", "saved"},
            request : Status \cup {None}, old : Row \cup {None},
            copy : Row \cup {None}, announces : BOOLEAN, resolves : BOOLEAN ]]
  /\ lock \in Sessions \cup {None}
  /\ announced \in [Status -> Nat]
  /\ heartbeatAlert \in { "none", "open", "resolved" }
  /\ requests \in 0 .. MaxRequests
  /\ \A s \in Sessions :
       /\ lock = s <=> session[s].pc = "saved"
       /\ session[s].pc \in { "idle", "selected" } => session[s].copy = None
       /\ session[s].pc \in { "loaded", "saved" } => session[s].copy \in Row

Init ==
  /\ row = CreatedRow("RUNNING")
  /\ session = [s \in Sessions |-> Idle]
  /\ lock = None
  /\ announced = [status \in Status |-> 0]
  /\ heartbeatAlert = "none"
  /\ requests = 0

-----------------------------------------------------------------------------
(* A save inside a transaction, and its commit.                            *)

\* post_save_task_execution, as in TaskExecution, by a process that read
\* `old` from a query: what it finds among the committed events.
Announces(old, new) ==
  /\ InProgress(old.status) /\ ~InProgress(new.status)
  /\ new.status \notin SilentStatuses
  /\ announced[new.status] = 0

ResolvesAlert(new) ==
  /\ heartbeatAlert = "open"
  /\ TaskHeartbeatInterval \notin {None, 0}
  /\ HeartbeatAlertLateness # None
  /\ new.heartbeat # None
  /\ \/ ~InProgress(new.status)
     \/ new.heartbeat < TaskHeartbeatInterval + HeartbeatAlertLateness

\* A variant in which writers of the row do not wait for each other.
Save_Unlocked(s, new) ==
  /\ session' = [session EXCEPT ![s].pc = "saved", ![s].copy = new,
                                ![s].announces = Announces(session[s].old, new),
                                ![s].resolves = ResolvesAlert(new)]
  /\ UNCHANGED <<row, lock, announced, heartbeatAlert, requests>>

\* The UPDATE of the row, which waits for its lock, and the signal handlers.
Save(s, new) ==
  /\ lock = None
  /\ lock' = s
  /\ session' = [session EXCEPT ![s].pc = "saved", ![s].copy = new,
                                ![s].announces = Announces(session[s].old, new),
                                ![s].resolves = ResolvesAlert(new)]
  /\ UNCHANGED <<row, announced, heartbeatAlert, requests>>

Commit(s) ==
  LET new == session[s].copy
  IN /\ session[s].pc = "saved"
     /\ row' = new
     /\ lock' = None
     /\ announced' = IF session[s].announces
                     THEN [announced EXCEPT ![new.status] = @ + 1] ELSE announced
     /\ heartbeatAlert' = IF session[s].resolves THEN "resolved" ELSE heartbeatAlert
     /\ session' = [session EXCEPT ![s] = Idle]
     /\ UNCHANGED requests

-----------------------------------------------------------------------------
(* A request.                                                              *)

\* The view reads the row; a conflict with it is answered at once.
Load(w, request) ==
  /\ session[w].pc = "idle"
  /\ requests < MaxRequests
  /\ ~UpdateConflicts(row.status, request)
  /\ session' = [session EXCEPT ![w] =
                   [Idle EXCEPT !.pc = "loaded", !.request = request,
                                !.old = row, !.copy = row]]
  /\ requests' = requests + 1
  /\ UNCHANGED <<row, lock, announced, heartbeatAlert>>

SaveUpdate(w) ==
  /\ session[w].pc = "loaded"
  /\ Save(w, UpdatedRow(session[w].copy, session[w].request))

-----------------------------------------------------------------------------
(* The checker.                                                            *)

\* check_all iterates over the rows it has selected ...
Select ==
  /\ session[Checker].pc = "idle"
  /\ Selected(row)
  /\ session' = [session EXCEPT ![Checker].pc = "selected", ![Checker].old = row]
  /\ UNCHANGED <<row, lock, announced, heartbeatAlert, requests>>

\* ... and check_task_execution reads each of them again, which leaves
\* _loaded_copy as it was.  A row that has a finishing time by now is left
\* alone; one whose status is no longer awaited is only logged.
Refresh ==
  /\ session[Checker].pc = "selected"
  /\ session' = [session EXCEPT ![Checker] =
                   IF row.finished THEN Idle
                   ELSE [@ EXCEPT !.pc = "loaded", !.copy = row]]
  /\ UNCHANGED <<row, lock, announced, heartbeatAlert, requests>>

SaveCheck ==
  LET copy == session[Checker].copy
  IN /\ session[Checker].pc = "loaded"
     /\ CheckedRow(copy) # copy
     /\ Save(Checker, CheckedRow(copy))

\* Nothing to save; at most an alert is raised.
FinishCheck ==
  LET copy == session[Checker].copy
  IN /\ session[Checker].pc = "loaded"
     /\ CheckedRow(copy) = copy
     /\ heartbeatAlert' = IF HeartbeatAlertDue(copy) THEN "open" ELSE heartbeatAlert
     /\ session' = [session EXCEPT ![Checker] = Idle]
     /\ UNCHANGED <<row, lock, announced, requests>>

\* Time passes for the timestamps in memory as for those in the database.
AgeCopy(copy) == IF copy = None THEN None ELSE AgeRow(copy)

Tick ==
  /\ row' = AgeRow(row)
  /\ session' = [s \in Sessions |->
                   [session[s] EXCEPT !.old = AgeCopy(@), !.copy = AgeCopy(@)]]
  /\ UNCHANGED <<lock, announced, heartbeatAlert, requests>>

-----------------------------------------------------------------------------
Work(w) ==
  \/ \E request \in UpdateStatuses : Load(w, request)
  \/ SaveUpdate(w)
  \/ Commit(w)

CheckStep == Select \/ Refresh \/ SaveCheck \/ FinishCheck \/ Commit(Checker)

Next == (\E w \in Workers : Work(w)) \/ CheckStep \/ Tick

Spec == Init /\ [][Next]_vars

\* Clients need not send anything, but a transaction that has begun goes on
\* and the checker is run every five minutes.
Fairness ==
  /\ WF_vars(Tick)
  /\ WF_vars(CheckStep)
  /\ \A w \in Workers : WF_vars(SaveUpdate(w) \/ Commit(w))

FairSpec == Spec /\ Fairness

-----------------------------------------------------------------------------
(* Properties.                                                             *)

\* Whatever overlaps, users are told of a status at most once: the search for
\* an earlier event is made while the row is locked.
AnnouncedOnce == \A status \in Status : announced[status] <= 1

\* The update handler refuses to set RUNNING after a status that ends the
\* execution or asks it to stop, and so no commit should have that effect.
EndedNeverRunsAgain == [][ ~InProgress(row.status) => ~InProgress(row'.status) ]_vars

\* Once clients have fallen silent, no overlap leaves the execution awaited.
EveryExecutionEnds == Selected(row) ~> ~Selected(row)

=============================================================================
