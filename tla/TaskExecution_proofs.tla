------------------------ MODULE TaskExecution_proofs ------------------------
(***************************************************************************)
(* Theorems about TaskExecution, for every set of executions and every     *)
(* configuration of the Task; then about requests that overlap, on the row *)
(* of one Task Execution (TaskExecutionRace) and on the members of groups  *)
(* (Membership), for any number of them.                                   *)
(***************************************************************************)
EXTENDS TaskExecution, Overlaps, FiniteSetTheorems, TLAPS

-----------------------------------------------------------------------------
(* The row transformers return rows.                                       *)

\* Ages stay ages, whether or not the column is set.
LEMMA OlderType ==
  ASSUME NEW age \in Age \cup {None}
  PROVE  /\ Older(age) \in Age \cup {None}
         /\ age \in Age => Older(age) \in Age
BY NoneAssumption, HorizonAssumption DEF Older, Age

LEMMA AgeRowType ==
  ASSUME NEW row \in Row
  PROVE  AgeRow(row) \in Row
<1>1. row.started \in Age /\ row.heartbeat \in Age \cup {None}
        /\ row.killStarted \in Age \cup {None}
  BY DEF Row
<1>2. Older(row.started) \in Age
  BY <1>1, OlderType
<1>3. Older(row.heartbeat) \in Age \cup {None}
  BY <1>1, OlderType
<1>4. Older(row.killStarted) \in Age \cup {None}
  BY <1>1, OlderType
<1> QED
  BY <1>2, <1>3, <1>4 DEF Row, AgeRow

LEMMA PreSaveType ==
  ASSUME NEW row \in Row
  PROVE  /\ PreSave(row) \in Row
         /\ PreSave(row).status = row.status
         /\ PreSave(row).finished = row.finished
         /\ PreSave(row).markedDone = row.markedDone
         /\ PreSave(row).heartbeat = row.heartbeat
<1> DEFINE killing == [row EXCEPT !.killStarted = 0]
           killed == [row EXCEPT !.killFinished = TRUE]
<1>1. /\ killing \in Row
      /\ killing.status = row.status
      /\ killing.finished = row.finished
      /\ killing.markedDone = row.markedDone
      /\ killing.heartbeat = row.heartbeat
  BY HorizonAssumption DEF Row, Age
<1>2. /\ killed \in Row
      /\ killed.status = row.status
      /\ killed.finished = row.finished
      /\ killed.markedDone = row.markedDone
      /\ killed.heartbeat = row.heartbeat
  BY DEF Row
<1>3. PreSave(row) \in {killing, killed, row}
  BY DEF PreSave
<1> QED
  BY <1>1, <1>2, <1>3

LEMMA CreatedRowType ==
  ASSUME NEW status \in Status
  PROVE  CreatedRow(status) \in Row /\ CreatedRow(status).status = status
<1> DEFINE row == [ status       |-> status,
                    stopReason   |-> None,
                    started      |-> 0,
                    heartbeat    |-> IF status = "RUNNING" THEN 0 ELSE None,
                    killStarted  |-> None,
                    killFinished |-> FALSE,
                    markedDone   |-> FALSE,
                    finished     |-> status \in GuardedFinalStatuses
                                                  \cup { "EXITED_AFTER_MARKED_DONE" } ]
<1>1. row \in Row
  BY HorizonAssumption DEF Row, Age, StopReason
<1> QED
  BY <1>1, PreSaveType DEF CreatedRow

LEMMA UpdatedStatusType ==
  ASSUME NEW row \in Row, NEW request \in Status \cup {None}
  PROVE  UpdatedStatus(row.status, request) \in Status
BY DEF UpdatedStatus, Row, Status

LEMMA UpdatedRowType ==
  ASSUME NEW row \in Row, NEW request \in Status \cup {None}
  PROVE  /\ UpdatedRow(row, request) \in Row
         /\ UpdatedRow(row, request).status = UpdatedStatus(row.status, request)
         /\ UpdatedRow(row, request).markedDone = row.markedDone
         /\ UpdatedRow(row, request).finished =
              (row.finished \/ SetsFinished(row.status, request))
         /\ UpdatedRow(row, request).heartbeat =
              (IF AsHeartbeat(request) THEN 0 ELSE row.heartbeat)
<1> DEFINE status == UpdatedStatus(row.status, request)
           heartbeat == IF AsHeartbeat(request) THEN 0 ELSE row.heartbeat
           finished == row.finished \/ SetsFinished(row.status, request)
           r == [row EXCEPT !.status = status, !.heartbeat = heartbeat,
                            !.finished = finished]
<1>1. status \in Status
  BY UpdatedStatusType
<1>2. heartbeat \in Age \cup {None}
  BY HorizonAssumption DEF Row, Age
<1>3. finished \in BOOLEAN
  BY DEF Row, SetsFinished
<1> HIDE DEF status, heartbeat, finished
<1>4. /\ r \in Row /\ r.status = status /\ r.finished = finished
      /\ r.markedDone = row.markedDone /\ r.heartbeat = heartbeat
  BY <1>1, <1>2, <1>3 DEF Row
<1>5. UpdatedRow(row, request) = PreSave(r)
  BY DEF UpdatedRow, status, heartbeat, finished
<1>6. /\ PreSave(r) \in Row
      /\ PreSave(r).status = status
      /\ PreSave(r).finished = finished
      /\ PreSave(r).markedDone = row.markedDone
      /\ PreSave(r).heartbeat = heartbeat
  BY <1>4, PreSaveType
<1> QED
  BY <1>5, <1>6 DEF status, finished, heartbeat

LEMMA FailedToStartRowType ==
  ASSUME NEW row \in Row
  PROVE  FailedToStartRow(row) \in Row
BY DEF FailedToStartRow, Row, Status, StopReason

LEMMA CheckedRowType ==
  ASSUME NEW row \in Row
  PROVE  CheckedRow(row) \in Row
<1>1. [row EXCEPT !.status = "ABANDONED", !.stopReason = "FAILED_TO_START",
                  !.markedDone = TRUE] \in Row
  BY DEF Row, Status, StopReason
<1>2. [row EXCEPT !.status = "ABANDONED", !.markedDone = TRUE, !.finished = TRUE] \in Row
  BY DEF Row, Status
<1>3. [row EXCEPT !.status = "STOPPING", !.markedDone = TRUE,
                  !.stopReason = "MAX_EXECUTION_TIME_EXCEEDED"] \in Row
  BY DEF Row, Status, StopReason
<1>4. [row EXCEPT !.status = "ABANDONED", !.stopReason = "MISSING_HEARTBEAT",
                  !.markedDone = TRUE, !.finished = TRUE] \in Row
  BY DEF Row, Status, StopReason
<1> QED
  BY <1>1, <1>2, <1>3, <1>4, PreSaveType DEF CheckedRow

-----------------------------------------------------------------------------
(* Type correctness.                                                       *)

\* A save stores a row and touches no other.
LEMMA StoreType ==
  ASSUME TypeOK, NEW e \in Executions, NEW row \in Row, Store(e, row)
  PROVE  /\ Created' = Created \cup {e}
         /\ Created' \subseteq Executions
         /\ te' \in [Created' -> Row]
         /\ te'[e] = row
         /\ \A x \in Created \ {e} : te'[x] = te[x]
BY DEF Store, TypeOK, Created

LEMMA SideEffectsType ==
  ASSUME TypeOK, NEW e \in Executions, NEW row \in Row, NEW was,
         SaveSideEffects(e, was, row)
  PROVE  latest' \in Executions \cup {None} /\ announced' \in [Executions -> SUBSET Status]
BY DEF SaveSideEffects, TypeOK, Row

\* Each action keeps the state well typed.
LEMMA TypeStep ==
  ASSUME TypeOK, [Next]_vars
  PROVE  TypeOK'
<1>1. ASSUME NEW e \in Executions, NEW status \in CreateStatuses, Create(e, status)
      PROVE  TypeOK'
  <2>1. CreatedRow(status) \in Row
    BY CreatedRowType, StatusesAssumption
  <2>2. SaveNew(e, CreatedRow(status))
    BY <1>1 DEF Create
  <2> QED
    BY <2>1, <2>2, StoreType, SideEffectsType DEF SaveNew, TypeOK
<1>2. ASSUME NEW e \in Executions, NEW request \in UpdateStatuses, Update(e, request)
      PROVE  TypeOK'
  <2> DEFINE row == UpdatedRow(te[e], request)
  <2>1. row \in Row
    BY <1>2, UpdatedRowType, StatusesAssumption DEF Update, TypeOK, Created
  <2>2. Store(e, row) /\ SaveSideEffects(e, InProgress(te[e].status), row)
    BY <1>2 DEF Update
  <2>3. startAlert' \in [Executions -> AlertState]
    BY <1>2 DEF Update, StartAlertAfter, TypeOK, AlertState
  <2>4. heartbeatAlert' \in [Executions -> AlertState]
    <3>1. heartbeatAlert' =
            [heartbeatAlert EXCEPT ![e] = HeartbeatAlertAfter(heartbeatAlert[e], row)]
      BY <1>2 DEF Update
    <3> QED
      BY <3>1 DEF HeartbeatAlertAfter, TypeOK, AlertState
  <2> HIDE DEF row
  <2> QED
    BY <2>1, <2>2, <2>3, <2>4, StoreType, SideEffectsType DEF TypeOK
<1>3. ASSUME NEW e \in Executions, ManualStart(e)
      PROVE  TypeOK'
  <2>1. CreatedRow("MANUALLY_STARTED") \in Row
    BY CreatedRowType DEF Status
  <2>2. SaveNew(e, CreatedRow("MANUALLY_STARTED"))
    BY <1>3 DEF ManualStart
  <2> QED
    BY <2>1, <2>2, StoreType, SideEffectsType DEF SaveNew, TypeOK
<1>4. ASSUME NEW e \in Executions, ManualStartFails(e)
      PROVE  TypeOK'
  <2> DEFINE row == FailedToStartRow(CreatedRow("MANUALLY_STARTED"))
  <2>1. row \in Row
    BY CreatedRowType, FailedToStartRowType DEF Status
  <2>2. Store(e, row) /\ latest' = e /\ UNCHANGED <<startAlert, heartbeatAlert>>
    BY <1>4 DEF ManualStartFails
  <2>3. announced' = IF Announces(TRUE, row)
                     THEN [announced EXCEPT ![e] = announced[e] \cup {row.status}]
                     ELSE announced
    BY <1>4 DEF ManualStartFails
  <2> HIDE DEF row
  <2>4. announced' \in [Executions -> SUBSET Status]
    BY <2>1, <2>3 DEF TypeOK, Row
  <2> QED
    BY <2>1, <2>2, <2>4, StoreType DEF TypeOK
<1>5. ASSUME NEW e \in Executions, Check(e)
      PROVE  TypeOK'
  <2> DEFINE row == CheckedRow(te[e])
  <2>1. row \in Row
    BY <1>5, CheckedRowType DEF Check, TypeOK, Created
  <2>2. startAlert' \in [Executions -> AlertState]
    BY <1>5 DEF Check, RaisedStartAlert, TypeOK, AlertState
  <2>3. heartbeatAlert' \in [Executions -> AlertState]
    <3>1. \E alert \in AlertState : heartbeatAlert' = [heartbeatAlert EXCEPT ![e] = alert]
      BY <1>5 DEF Check, RaisedHeartbeatAlert, HeartbeatAlertAfter, TypeOK, AlertState
    <3> QED
      BY <3>1 DEF TypeOK
  <2>4. CASE row = te[e]
    BY <1>5, <2>2, <2>3, <2>4 DEF Check, TypeOK, Created
  <2>5. CASE row # te[e]
    <3>1. Store(e, row) /\ SaveSideEffects(e, InProgress(te[e].status), row)
      BY <1>5, <2>5 DEF Check
    <3> HIDE DEF row
    <3> QED
      BY <2>1, <2>2, <2>3, <3>1, StoreType, SideEffectsType DEF TypeOK
  <2> QED
    BY <2>4, <2>5
<1>6. CASE Tick
  BY <1>6, AgeRowType DEF Tick, TypeOK, Created
<1>7. CASE UNCHANGED vars
  BY <1>7 DEF vars, TypeOK, Created
<1> QED
  BY <1>1, <1>2, <1>3, <1>4, <1>5, <1>6, <1>7 DEF Next, Request

\* The tables, alerts and announcements always hold what their columns can.
THEOREM TypeCorrect == Spec => []TypeOK
<1>1. Init => TypeOK
  BY DEF Init, TypeOK, Created, AlertState
<1>2. TypeOK /\ [Next]_vars => TypeOK'
  BY TypeStep
<1> QED
  BY <1>1, <1>2, PTL DEF Spec

-----------------------------------------------------------------------------
(* What requests and checks do to the status of a row.                     *)

\* An update takes an execution to RUNNING only if it was in progress, and
\* back into progress never, unless clients send MANUALLY_STARTED.
LEMMA UpdateNeverRevives ==
  ASSUME NEW row \in Row, NEW request \in Status \cup {None},
         request # "MANUALLY_STARTED", ~UpdateConflicts(row.status, request),
         InProgress(UpdatedRow(row, request).status)
  PROVE  InProgress(row.status)
<1>1. UpdatedStatus(row.status, request) \in InProgressStatuses
  BY UpdatedRowType DEF InProgress
<1>2. row.status # "STOPPING" \/ ~AsHeartbeat(request)
  BY <1>1 DEF UpdatedStatus, InProgressStatuses
<1>3. CASE AsHeartbeat(request)
  BY <1>2, <1>3 DEF UpdateConflicts, AwaitingUpdateStatuses, InProgress
<1>4. CASE ~AsHeartbeat(request)
  BY <1>1, <1>4 DEF AsHeartbeat, UpdatedStatus, InProgressStatuses
<1> QED
  BY <1>3, <1>4

\* The checker either leaves the status as it is or ends or stops the execution.
LEMMA CheckedStatus ==
  ASSUME NEW row \in Row
  PROVE  CheckedRow(row).status \in {row.status, "ABANDONED", "STOPPING"}
<1> DEFINE stopping == [row EXCEPT !.status = "STOPPING", !.markedDone = TRUE,
                                   !.stopReason = "MAX_EXECUTION_TIME_EXCEEDED"]
<1>1. stopping \in Row /\ stopping.status = "STOPPING"
  BY DEF Row, Status, StopReason
<1>2. PreSave(stopping).status = "STOPPING"
  BY <1>1, PreSaveType
<1> QED
  BY <1>2 DEF CheckedRow, Row

\* What a step does to one row of the table.
LEMMA RowStep ==
  ASSUME TypeOK, [Next]_vars, NEW e \in Created
  PROVE  /\ e \in Created'
         /\ \/ te'[e].status = te[e].status
            \/ /\ Selected(te[e])
               /\ te'[e].status \in {"ABANDONED", "STOPPING"}
            \/ \E request \in UpdateStatuses :
                 /\ ~UpdateConflicts(te[e].status, request)
                 /\ te'[e] = UpdatedRow(te[e], request)
<1> USE DEF TypeOK, Created
<1>1. ASSUME NEW x \in Executions, NEW row, Store(x, row), x \notin Created
      PROVE  e \in Created' /\ te'[e] = te[e]
  BY <1>1 DEF Store
<1>2. ASSUME NEW x \in Executions, NEW status \in CreateStatuses, Create(x, status)
      PROVE  e \in Created' /\ te'[e] = te[e]
  BY <1>1, <1>2 DEF Create, SaveNew
<1>3. ASSUME NEW x \in Executions, ManualStart(x) \/ ManualStartFails(x)
      PROVE  e \in Created' /\ te'[e] = te[e]
  BY <1>1, <1>3 DEF ManualStart, ManualStartFails, SaveNew
<1>4. ASSUME NEW x \in Executions, NEW request \in UpdateStatuses, Update(x, request)
      PROVE  /\ e \in Created'
             /\ \/ te'[e] = te[e]
                \/ ~UpdateConflicts(te[e].status, request) /\ te'[e] = UpdatedRow(te[e], request)
  BY <1>4 DEF Update, Store
<1>5. ASSUME NEW x \in Executions, Check(x)
      PROVE  /\ e \in Created'
             /\ \/ te'[e].status = te[e].status
                \/ Selected(te[e]) /\ te'[e].status \in {"ABANDONED", "STOPPING"}
  <2>1. /\ e \in Created'
        /\ \/ te'[e] = te[e]
           \/ Selected(te[e]) /\ te'[e] = CheckedRow(te[e])
    BY <1>5 DEF Check, Store
  <2> QED
    BY <2>1, CheckedStatus
<1>6. CASE Tick
  BY <1>6 DEF Tick, AgeRow, Row
<1>7. CASE UNCHANGED vars
  BY <1>7 DEF vars
<1> QED
  BY <1>2, <1>3, <1>4, <1>5, <1>6, <1>7 DEF Next, Request

-----------------------------------------------------------------------------
(* No execution that has ended, or was told to stop, runs again.           *)

\* With requests and checks one after the other, what the update handler
\* refuses in one request cannot be had by any sequence of others either.
THEOREM EndedStaysEnded ==
  ASSUME "MANUALLY_STARTED" \notin UpdateStatuses
  PROVE  Spec => EndedNeverRunsAgain
<1>1. ASSUME TypeOK, [Next]_vars, NEW e \in Created, ~InProgress(te[e].status)
      PROVE  ~InProgress(te'[e].status)
  <2>1. te[e] \in Row
    BY <1>1 DEF TypeOK
  <2>2. CASE te'[e].status = te[e].status
    BY <1>1, <2>2
  <2>3. CASE te'[e].status \in {"ABANDONED", "STOPPING"}
    BY <2>3 DEF InProgress, InProgressStatuses
  <2>4. ASSUME NEW request \in UpdateStatuses, ~UpdateConflicts(te[e].status, request),
               te'[e] = UpdatedRow(te[e], request)
        PROVE  ~InProgress(te'[e].status)
    BY <1>1, <2>1, <2>4, UpdateNeverRevives, StatusesAssumption
  <2> QED
    BY <1>1, <2>2, <2>3, <2>4, RowStep
<1>2. TypeOK /\ [Next]_vars =>
        [\A e \in Created : ~InProgress(te[e].status) => ~InProgress(te'[e].status)]_vars
  BY <1>1
<1> QED
  BY <1>2, TypeCorrect, PTL DEF Spec, EndedNeverRunsAgain

-----------------------------------------------------------------------------
(* The Task's concurrency.                                                 *)

\* can_start_execution counts RUNNING rows only: what is added to the limit
\* for the induction is that no other row can become RUNNING.
NoneManuallyStarted == \A e \in Created : te[e].status # "MANUALLY_STARTED"

ConcurrencyInv == TypeOK /\ NoneManuallyStarted /\ ConcurrencyLimit

\* When the running executions are those of before and at most one more, for
\* which there was room, the limit is kept.
LEMMA RoomForOneMore ==
  ASSUME TypeOK, ConcurrencyLimit, NEW e,
         \/ Running' \subseteq Running
         \/ CanStart /\ Running' \subseteq Running \cup {e}
  PROVE  ConcurrencyLimit'
<1>1. IsFiniteSet(Running)
  BY ExecutionsAssumption, FS_Subset DEF Running, TypeOK
<1>2. Cardinality(Running) \in Nat
  BY <1>1, FS_CardinalityType
<1>3. CASE Running' \subseteq Running
  <2>1. Cardinality(Running') <= Cardinality(Running) /\ Cardinality(Running') \in Nat
    BY <1>1, <1>3, FS_Subset, FS_CardinalityType
  <2> QED
    BY <1>2, <2>1, MaxConcurrencyAssumption DEF ConcurrencyLimit, Limit
<1>4. CASE CanStart /\ Running' \subseteq Running \cup {e}
  <2>1. /\ IsFiniteSet(Running \cup {e})
        /\ Cardinality(Running \cup {e}) <= Cardinality(Running) + 1
        /\ Cardinality(Running \cup {e}) \in Nat
    BY <1>1, <1>2, FS_AddElement, FS_CardinalityType
  <2>2. /\ Cardinality(Running') <= Cardinality(Running \cup {e})
        /\ Cardinality(Running') \in Nat
    BY <1>4, <2>1, FS_Subset, FS_CardinalityType
  <2> QED
    BY <1>2, <1>4, <2>1, <2>2, MaxConcurrencyAssumption DEF ConcurrencyLimit, CanStart, Limit
<1> QED
  BY <1>3, <1>4

\* A wrapper may only create what there is room for; nothing else adds a
\* running execution.
LEMMA ConcurrencyStep ==
  ASSUME "MANUALLY_STARTED" \notin CreateStatuses \cup UpdateStatuses,
         ConcurrencyInv, [Next]_vars
  PROVE  ConcurrencyInv'
<1> USE DEF ConcurrencyInv
<1>1. TypeOK'
  BY TypeStep
<1>2. ASSUME NEW e \in Created
      PROVE  /\ e \in Created'
             /\ te'[e].status # "MANUALLY_STARTED"
             /\ te'[e].status = "RUNNING" => te[e].status = "RUNNING"
  <2>1. te[e] \in Row /\ te[e].status # "MANUALLY_STARTED"
    BY <1>2 DEF TypeOK, NoneManuallyStarted
  <2>2. ASSUME NEW request \in UpdateStatuses, ~UpdateConflicts(te[e].status, request),
               te'[e] = UpdatedRow(te[e], request)
        PROVE  /\ te'[e].status # "MANUALLY_STARTED"
               /\ te'[e].status = "RUNNING" => te[e].status = "RUNNING"
    <3>1. InProgress(te'[e].status) => te[e].status = "RUNNING"
      BY <2>1, <2>2, UpdateNeverRevives, StatusesAssumption DEF InProgress, InProgressStatuses
    <3>2. te'[e].status = UpdatedStatus(te[e].status, request)
      BY <2>1, <2>2, UpdatedRowType, StatusesAssumption
    <3>3. te'[e].status # "MANUALLY_STARTED"
      BY <2>1, <2>2, <3>2 DEF UpdatedStatus
    <3> QED
      BY <3>1, <3>3 DEF InProgress, InProgressStatuses
  <2> QED
    BY <1>2, <2>1, <2>2, RowStep
<1>3. ASSUME NEW e \in Executions, NEW status \in CreateStatuses, Create(e, status)
      PROVE  NoneManuallyStarted' /\ ConcurrencyLimit'
  <2>1. Store(e, CreatedRow(status)) /\ CanStart /\ status # "MANUALLY_STARTED"
    BY <1>3 DEF Create, SaveNew
  <2>2. CreatedRow(status) \in Row /\ CreatedRow(status).status = status
    BY CreatedRowType, StatusesAssumption
  <2>3. Created' = Created \cup {e} /\ te'[e] = CreatedRow(status)
    BY <2>1, <2>2, StoreType
  <2>4. NoneManuallyStarted'
    BY <1>2, <2>1, <2>2, <2>3 DEF NoneManuallyStarted
  <2>5. Running' \subseteq Running \cup {e}
    BY <1>2, <2>3 DEF Running
  <2> QED
    BY <2>1, <2>4, <2>5, RoomForOneMore
<1>4. CASE Created' = Created
  <2>1. NoneManuallyStarted'
    BY <1>2, <1>4 DEF NoneManuallyStarted
  <2>2. Running' \subseteq Running
    BY <1>2, <1>4 DEF Running
  <2> QED
    BY <1>1, <2>1, <2>2, RoomForOneMore
<1>5. ASSUME NEW e \in Executions, ManualStart(e) \/ ManualStartFails(e)
      PROVE  FALSE
  BY <1>5 DEF ManualStart, ManualStartFails
<1>6. ASSUME NEW e \in Executions, NEW request \in UpdateStatuses, Update(e, request)
      PROVE  Created' = Created
  BY <1>6 DEF Update, Store, Created
<1>7. ASSUME NEW e \in Executions, Check(e)
      PROVE  Created' = Created
  BY <1>7 DEF Check, Store, Created
<1>8. Tick \/ UNCHANGED vars => Created' = Created
  BY DEF Tick, vars, Created
<1> QED
  BY <1>1, <1>3, <1>4, <1>5, <1>6, <1>7, <1>8 DEF Next, Request

\* If Tasks are not started through the server, but report their own starts,
\* never more of a Task's executions run than the Task allows.
THEOREM ConcurrencyIsLimited ==
  ASSUME "MANUALLY_STARTED" \notin CreateStatuses \cup UpdateStatuses
  PROVE  Spec => []ConcurrencyLimit
<1>1. Init => ConcurrencyInv
  <2>1. Init => TypeOK
    BY DEF Init, TypeOK, Created, AlertState
  <2>2. Init => Created = {} /\ Running = {}
    BY DEF Init, Created, Running
  <2> QED
    BY <2>1, <2>2, FS_EmptySet, MaxConcurrencyAssumption
    DEF ConcurrencyInv, NoneManuallyStarted, ConcurrencyLimit, Limit
<1>2. ConcurrencyInv /\ [Next]_vars => ConcurrencyInv'
  BY ConcurrencyStep
<1>3. ConcurrencyInv => ConcurrencyLimit
  BY DEF ConcurrencyInv
<1> QED
  BY <1>1, <1>2, <1>3, PTL DEF Spec

-----------------------------------------------------------------------------
(* What is counted as running, in the past or now, is what is awaited.     *)

\* The statuses with which the handlers either expect more news or record a
\* finishing time.
AccountedStatuses == AwaitingUpdateStatuses \cup GuardedFinalStatuses

\* A row that counts as running is awaited.
Accounted(row) ==
  ~row.finished /\ ~row.markedDone => row.status \in AwaitingUpdateStatuses

LEMMA CreatedAccounted ==
  ASSUME NEW status \in AccountedStatuses \cup {"EXITED_AFTER_MARKED_DONE"}
  PROVE  Accounted(CreatedRow(status))
<1> DEFINE row == [ status       |-> status,
                    stopReason   |-> None,
                    started      |-> 0,
                    heartbeat    |-> IF status = "RUNNING" THEN 0 ELSE None,
                    killStarted  |-> None,
                    killFinished |-> FALSE,
                    markedDone   |-> FALSE,
                    finished     |-> status \in GuardedFinalStatuses
                                                  \cup { "EXITED_AFTER_MARKED_DONE" } ]
<1>1. row \in Row
  BY HorizonAssumption
  DEF Row, Age, StopReason, AccountedStatuses, AwaitingUpdateStatuses,
      InProgressStatuses, GuardedFinalStatuses, Status
<1>2. /\ CreatedRow(status).status = status
      /\ CreatedRow(status).finished =
           (status \in GuardedFinalStatuses \cup {"EXITED_AFTER_MARKED_DONE"})
  BY <1>1, PreSaveType DEF CreatedRow
<1> QED
  BY <1>2 DEF Accounted, AccountedStatuses

LEMMA UpdatedAccounted ==
  ASSUME NEW row \in Row, NEW request \in AccountedStatuses \cup {None},
         ~UpdateConflicts(row.status, request), Accounted(row)
  PROVE  Accounted(UpdatedRow(row, request))
<1> DEFINE new == UpdatedRow(row, request)
<1>1. request \in Status \cup {None}
  BY DEF AccountedStatuses, AwaitingUpdateStatuses, InProgressStatuses,
         GuardedFinalStatuses, Status
<1>2. /\ new.status = UpdatedStatus(row.status, request)
      /\ row.finished => new.finished
      /\ new.markedDone = row.markedDone
      /\ request \in GuardedFinalStatuses => new.finished
      /\ AsHeartbeat(request) /\ row.status = "STOPPING" => new.finished
  BY <1>1, UpdatedRowType DEF Row, SetsFinished
<1> HIDE DEF new
<1>3. CASE request \in GuardedFinalStatuses
  BY <1>2, <1>3 DEF Accounted, new
<1>4. CASE AsHeartbeat(request)
  <2>1. row.status \in AwaitingUpdateStatuses
    BY <1>4 DEF UpdateConflicts
  <2>2. CASE row.status = "STOPPING"
    BY <1>2, <1>4, <2>2 DEF Accounted, new
  <2>3. CASE row.status # "STOPPING"
    BY <1>2, <1>4, <2>1, <2>3
    DEF Accounted, new, UpdatedStatus, AsHeartbeat, AwaitingUpdateStatuses, InProgressStatuses
  <2> QED
    BY <2>2, <2>3
<1>5. CASE request \notin GuardedFinalStatuses /\ ~AsHeartbeat(request)
  <2>1. request \in AwaitingUpdateStatuses /\ request # None
    BY <1>5 DEF AccountedStatuses, AsHeartbeat
  <2>2. new.status = request
    BY <1>2, <1>5, <2>1 DEF UpdatedStatus, GuardedFinalStatuses
  <2> QED
    BY <2>1, <2>2 DEF Accounted, new
<1> QED
  BY <1>3, <1>4, <1>5

LEMMA CheckedAccounted ==
  ASSUME NEW row \in Row, Accounted(row)
  PROVE  Accounted(CheckedRow(row))
<1> DEFINE stopping == [row EXCEPT !.status = "STOPPING", !.markedDone = TRUE,
                                   !.stopReason = "MAX_EXECUTION_TIME_EXCEEDED"]
<1>1. stopping \in Row /\ stopping.markedDone
  BY DEF Row, Status, StopReason
<1>2. PreSave(stopping).markedDone
  BY <1>1, PreSaveType
<1>3. \/ CheckedRow(row) = row
      \/ CheckedRow(row).markedDone
  BY <1>2 DEF CheckedRow, Row
<1> QED
  BY <1>3 DEF Accounted

LEMMA AgedAccounted ==
  ASSUME NEW row \in Row, Accounted(row)
  PROVE  Accounted(AgeRow(row))
BY DEF Accounted, AgeRow, Row

LEMMA StartAccounted ==
  Accounted(CreatedRow("MANUALLY_STARTED"))
    /\ Accounted(FailedToStartRow(CreatedRow("MANUALLY_STARTED")))
<1>1. /\ CreatedRow("MANUALLY_STARTED") \in Row
      /\ CreatedRow("MANUALLY_STARTED").status = "MANUALLY_STARTED"
  BY CreatedRowType DEF Status
<1>2. FailedToStartRow(CreatedRow("MANUALLY_STARTED")).finished
  BY <1>1 DEF FailedToStartRow, Row
<1> QED
  BY <1>1, <1>2 DEF Accounted, AwaitingUpdateStatuses, InProgressStatuses

\* If clients report only statuses the handlers account for, what
\* concurrency_at counts as running is what the checker still awaits.
THEOREM CountedIsAwaited ==
  ASSUME CreateStatuses \subseteq AccountedStatuses \cup {"EXITED_AFTER_MARKED_DONE"},
         UpdateStatuses \subseteq AccountedStatuses \cup {None}
  PROVE  Spec => []CountedAsRunningIsAwaited
<1> DEFINE Inv == TypeOK /\ CountedAsRunningIsAwaited
<1>1. CountedAsRunningIsAwaited <=> \A e \in Created : Accounted(te[e])
  BY DEF CountedAsRunningIsAwaited, Accounted
<1>2. ASSUME Inv, NEW x \in Executions, NEW row \in Row, Store(x, row), Accounted(row)
      PROVE  CountedAsRunningIsAwaited'
  <2>1. \A e \in Created' : te'[e] = IF e = x THEN row ELSE te[e]
    BY <1>2, StoreType
  <2>2. Created' = Created \cup {x}
    BY <1>2, StoreType
  <2> QED
    BY <1>2, <2>1, <2>2 DEF CountedAsRunningIsAwaited, Accounted
<1>3. ASSUME Inv, [Next]_vars
      PROVE  Inv'
  <2>1. TypeOK'
    BY <1>3, TypeStep
  <2>2. ASSUME NEW e \in Executions, NEW status \in CreateStatuses, Create(e, status)
        PROVE  CountedAsRunningIsAwaited'
    <3>1. Store(e, CreatedRow(status)) /\ CreatedRow(status) \in Row
      BY <2>2, CreatedRowType, StatusesAssumption DEF Create, SaveNew
    <3>2. Accounted(CreatedRow(status))
      BY CreatedAccounted
    <3> QED
      BY <1>2, <1>3, <3>1, <3>2
  <2>3. ASSUME NEW e \in Executions, NEW request \in UpdateStatuses, Update(e, request)
        PROVE  CountedAsRunningIsAwaited'
    <3>1. /\ Store(e, UpdatedRow(te[e], request))
          /\ ~UpdateConflicts(te[e].status, request)
          /\ te[e] \in Row /\ e \in Created
      BY <1>3, <2>3 DEF Update, TypeOK
    <3>2. Accounted(te[e])
      BY <1>1, <1>3, <3>1
    <3>3. UpdatedRow(te[e], request) \in Row /\ Accounted(UpdatedRow(te[e], request))
      BY <3>1, <3>2, UpdatedRowType, UpdatedAccounted, StatusesAssumption
    <3> QED
      BY <1>2, <1>3, <3>1, <3>3
  <2>4. ASSUME NEW e \in Executions, ManualStart(e) \/ ManualStartFails(e)
        PROVE  CountedAsRunningIsAwaited'
    <3>1. \/ Store(e, CreatedRow("MANUALLY_STARTED"))
          \/ Store(e, FailedToStartRow(CreatedRow("MANUALLY_STARTED")))
      BY <2>4 DEF ManualStart, ManualStartFails, SaveNew
    <3>2. /\ CreatedRow("MANUALLY_STARTED") \in Row
          /\ FailedToStartRow(CreatedRow("MANUALLY_STARTED")) \in Row
      BY CreatedRowType, FailedToStartRowType DEF Status
    <3> QED
      BY <1>2, <1>3, <3>1, <3>2, StartAccounted
  <2>5. ASSUME NEW e \in Executions, Check(e)
        PROVE  CountedAsRunningIsAwaited'
    <3>1. te[e] \in Row /\ Accounted(te[e])
      BY <1>1, <1>3, <2>5 DEF Check, TypeOK
    <3>2. CheckedRow(te[e]) \in Row /\ Accounted(CheckedRow(te[e]))
      BY <3>1, CheckedRowType, CheckedAccounted
    <3>3. Store(e, CheckedRow(te[e])) \/ te' = te
      BY <2>5 DEF Check
    <3>4. CASE te' = te
      BY <1>3, <3>4 DEF CountedAsRunningIsAwaited, Created
    <3> QED
      BY <1>2, <1>3, <3>2, <3>3, <3>4
  <2>6. ASSUME Tick
        PROVE  CountedAsRunningIsAwaited'
    <3>1. \A e \in Created : te[e] \in Row /\ Accounted(te[e])
      BY <1>1, <1>3 DEF TypeOK
    <3>2. Created' = Created /\ \A e \in Created : te'[e] = AgeRow(te[e])
      BY <2>6 DEF Tick, Created
    <3>3. \A e \in Created' : Accounted(te'[e])
      BY <3>1, <3>2, AgedAccounted
    <3> QED
      BY <3>3 DEF CountedAsRunningIsAwaited, Accounted
  <2>7. ASSUME UNCHANGED vars
        PROVE  CountedAsRunningIsAwaited'
    <3>1. te' = te
      BY <2>7 DEF vars
    <3> QED
      BY <1>3, <3>1 DEF CountedAsRunningIsAwaited, Created
  <2>8. CountedAsRunningIsAwaited'
    BY <1>3, <2>2, <2>3, <2>4, <2>5, <2>6, <2>7 DEF Next, Request
  <2> QED
    BY <2>1, <2>8
<1>4. Init => Inv
  BY DEF Init, TypeOK, Created, AlertState, CountedAsRunningIsAwaited
<1> QED
  BY <1>3, <1>4, PTL DEF Spec

-----------------------------------------------------------------------------
(* The handlers implement ExecutionLife.                                   *)

\* An execution that users may still be told of: one that is not over.
Lives(e) == PhaseOf(e) # "over"

\* Nobody is told of the end of an execution before it is over.
NothingToldEarly == \A e \in Executions : Lives(e) => announced[e] = {}

LEMMA PhaseOfCreated ==
  ASSUME NEW e \in Created
  PROVE  /\ PhaseOf(e) = "asked" <=> te[e].status = "MANUALLY_STARTED"
         /\ PhaseOf(e) = "running" <=> te[e].status = "RUNNING"
         /\ Lives(e) <=> InProgress(te[e].status)
         /\ PhaseOf(e) \in { "asked", "running", "over" }
BY DEF PhaseOf, Lives, InProgress, InProgressStatuses

\* What a save may do, whatever handler makes it: it takes an execution that
\* lives on or to its end, and announces the end only then.
SavedInLife(e, row) ==
  /\ row \in Row
  /\ Store(e, row)
  /\ InProgress(row.status) => Lives(e)
  /\ row.status = "MANUALLY_STARTED" => PhaseOf(e) \in { "absent", "asked" }
  /\ announced' = IF Announces(Lives(e), row)
                  THEN [announced EXCEPT ![e] = @ \cup {row.status}]
                  ELSE announced

\* Such a save is a step of ExecutionLife, or none.
LEMMA SaveImplements ==
  ASSUME TypeOK, NothingToldEarly, NEW e \in Executions, NEW row, SavedInLife(e, row)
  PROVE  NothingToldEarly' /\ [Life!Next]_(Life!vars)
<1> DEFINE Phases == { "absent", "asked", "running", "over" }
           phase == [x \in Executions |-> PhaseOf(x)]
           ended == PhaseOf(e)'
<1>1. /\ Created' = Created \cup {e} /\ te'[e] = row
      /\ \A x \in Created \ {e} : te'[x] = te[x]
  BY StoreType DEF SavedInLife
<1>2. \A x \in Executions \ {e} : PhaseOf(x)' = PhaseOf(x)
  BY <1>1 DEF PhaseOf
<1>3. /\ ended = "asked" <=> row.status = "MANUALLY_STARTED"
      /\ ended = "running" <=> row.status = "RUNNING"
      /\ ended = "over" <=> ~InProgress(row.status)
      /\ ended \in { "asked", "running", "over" }
  BY <1>1 DEF PhaseOf, InProgress, InProgressStatuses
<1> HIDE DEF ended
<1>4. phase' = [phase EXCEPT ![e] = ended]
  BY <1>2 DEF ended
<1>5. PhaseOf(e) \in Phases
  BY DEF PhaseOf, Phases
<1>6. Lives(e) => announced[e] = {}
  BY DEF NothingToldEarly
<1>7. announced \in [Executions -> SUBSET Status]
  BY DEF TypeOK
<1>8. \A x \in Executions \ {e} : announced'[x] = announced[x]
  BY <1>7 DEF SavedInLife
<1>9. Lives(e)' <=> ended # "over"
  BY DEF Lives, ended
<1>10. ended # "over" => announced' = announced /\ Lives(e)
  BY <1>3 DEF SavedInLife, Announces
<1>11. NothingToldEarly'
  <2>1. ASSUME NEW x \in Executions, Lives(x)'
        PROVE  announced'[x] = {}
    <3>1. CASE x = e
      BY <1>6, <1>9, <1>10, <2>1, <3>1
    <3>2. CASE x # e
      BY <1>2, <1>8, <2>1, <3>2 DEF NothingToldEarly, Lives
    <3> QED
      BY <3>1, <3>2
  <2> QED
    BY <2>1 DEF NothingToldEarly
<1>12. CASE ended = PhaseOf(e)
  <2>1. announced' = announced
    BY <1>3, <1>10, <1>12 DEF SavedInLife, Announces, Lives
  <2>2. phase' = phase
    BY <1>4, <1>12
  <2> QED
    BY <1>11, <2>1, <2>2 DEF Life!vars
<1>13. CASE ended = "over" /\ PhaseOf(e) # "over"
  <2>1. announced[e] = {} /\ Lives(e)
    BY <1>6, <1>13 DEF Lives
  <2>2. row.status \in Status \ InProgressStatuses
    BY <1>3, <1>13 DEF SavedInLife, Row, InProgress
  <2>3. \E news \in Life!News : announced' = [announced EXCEPT ![e] = news]
    <3>1. CASE Announces(Lives(e), row)
      BY <1>7, <2>1, <2>2, <3>1 DEF SavedInLife, Life!News
    <3>2. CASE ~Announces(Lives(e), row)
      BY <1>7, <2>1, <3>2 DEF SavedInLife, Life!News
    <3> QED
      BY <3>1, <3>2
  <2>4. phase[e] # "over" /\ phase' = [phase EXCEPT ![e] = "over"]
    BY <1>4, <1>13
  <2> QED
    BY <1>11, <2>3, <2>4 DEF Life!Next, Life!End
<1>14. CASE ended # "over" /\ ended # PhaseOf(e)
  <2>1. announced' = announced /\ PhaseOf(e) # "over"
    BY <1>10, <1>14 DEF Lives
  <2>2. CASE ended = "asked"
    <3>1. phase[e] = "absent" /\ phase' = [phase EXCEPT ![e] = "asked"]
      BY <1>3, <1>4, <1>14, <2>2 DEF SavedInLife
    <3> QED
      BY <1>11, <2>1, <3>1 DEF Life!Next, Life!Ask
  <2>3. CASE ended = "running"
    <3>1. phase[e] \in { "absent", "asked" } /\ phase' = [phase EXCEPT ![e] = "running"]
      BY <1>4, <1>5, <1>14, <2>1, <2>3 DEF Phases
    <3> QED
      BY <1>11, <2>1, <3>1 DEF Life!Next, Life!Run
  <2> QED
    BY <1>3, <1>14, <2>2, <2>3
<1> QED
  BY <1>12, <1>13, <1>14

\* What no handler changes.
LEMMA StutterImplements ==
  ASSUME NothingToldEarly, Created' = Created, announced' = announced,
         \A e \in Created : te'[e].status = te[e].status
  PROVE  NothingToldEarly' /\ [Life!Next]_(Life!vars)
<1>1. \A e \in Executions : PhaseOf(e)' = PhaseOf(e)
  BY DEF PhaseOf
<1>2. [e \in Executions |-> PhaseOf(e)]' = [e \in Executions |-> PhaseOf(e)]
  BY <1>1
<1>3. NothingToldEarly'
  BY <1>1 DEF NothingToldEarly, Lives
<1> QED
  BY <1>2, <1>3 DEF Life!vars

\* An update does not take an execution back, unless clients send
\* MANUALLY_STARTED.
LEMMA UpdateInLife ==
  ASSUME TypeOK, "MANUALLY_STARTED" \notin UpdateStatuses,
         NEW e \in Executions, NEW request \in UpdateStatuses, Update(e, request)
  PROVE  SavedInLife(e, UpdatedRow(te[e], request))
<1> DEFINE row == UpdatedRow(te[e], request)
<1>1. e \in Created /\ te[e] \in Row /\ request \in Status \cup {None}
  BY StatusesAssumption DEF Update, TypeOK
<1>2. row \in Row /\ row.status = UpdatedStatus(te[e].status, request)
  BY <1>1, UpdatedRowType
<1>3. Store(e, row) /\ SaveSideEffects(e, InProgress(te[e].status), row)
        /\ ~UpdateConflicts(te[e].status, request)
  BY DEF Update
<1>4. InProgress(row.status) => InProgress(te[e].status)
  BY <1>1, <1>3, UpdateNeverRevives
<1>5. row.status = "MANUALLY_STARTED" => te[e].status = "MANUALLY_STARTED"
  BY <1>1, <1>2 DEF UpdatedStatus
<1> HIDE DEF row
<1>6. /\ Lives(e) = InProgress(te[e].status)
      /\ te[e].status = "MANUALLY_STARTED" => PhaseOf(e) = "asked"
  BY <1>1, PhaseOfCreated DEF Lives, InProgress
<1>7. SavedInLife(e, row)
  BY <1>2, <1>3, <1>4, <1>5, <1>6 DEF SavedInLife, SaveSideEffects
<1> QED
  BY <1>7 DEF row

\* A check does not take it back either.
LEMMA CheckInLife ==
  ASSUME TypeOK, NEW e \in Executions, Check(e), CheckedRow(te[e]) # te[e]
  PROVE  SavedInLife(e, CheckedRow(te[e]))
<1> DEFINE row == CheckedRow(te[e])
<1>1. e \in Created /\ te[e] \in Row
  BY DEF Check, TypeOK
<1>2. row \in Row /\ row.status \in {te[e].status, "ABANDONED", "STOPPING"}
  BY <1>1, CheckedRowType, CheckedStatus
<1>3. Store(e, row) /\ SaveSideEffects(e, InProgress(te[e].status), row)
  BY DEF Check
<1> HIDE DEF row
<1>4. InProgress(row.status) => row.status = te[e].status
  BY <1>2 DEF InProgress, InProgressStatuses
<1>5. /\ Lives(e) = InProgress(te[e].status)
      /\ te[e].status = "MANUALLY_STARTED" => PhaseOf(e) = "asked"
  BY <1>1, PhaseOfCreated DEF Lives, InProgress
<1>6. row.status = "MANUALLY_STARTED" => PhaseOf(e) = "asked"
  BY <1>4, <1>5 DEF InProgress, InProgressStatuses
<1>7. SavedInLife(e, row)
  BY <1>2, <1>3, <1>4, <1>5, <1>6 DEF SavedInLife, SaveSideEffects
<1> QED
  BY <1>7 DEF row

\* Every step of TaskExecution is a step of ExecutionLife, or none.
LEMMA ImplementsStep ==
  ASSUME "MANUALLY_STARTED" \notin UpdateStatuses, TypeOK, NothingToldEarly, [Next]_vars
  PROVE  NothingToldEarly' /\ [Life!Next]_(Life!vars)
<1>1. ASSUME NEW e \in Executions, NEW row \in Row, e \notin Created, SaveNew(e, row)
      PROVE  SavedInLife(e, row)
  <2>1. PhaseOf(e) = "absent" /\ Lives(e) = TRUE
    BY <1>1 DEF PhaseOf, Lives
  <2> QED
    BY <1>1, <2>1 DEF SavedInLife, SaveNew, SaveSideEffects
<1>2. ASSUME NEW e \in Executions, NEW status \in CreateStatuses, Create(e, status)
      PROVE  SavedInLife(e, CreatedRow(status))
  <2>1. CreatedRow(status) \in Row
    BY CreatedRowType, StatusesAssumption
  <2> QED
    BY <1>1, <1>2, <2>1 DEF Create
<1>3. ASSUME NEW e \in Executions, ManualStart(e)
      PROVE  SavedInLife(e, CreatedRow("MANUALLY_STARTED"))
  <2>1. CreatedRow("MANUALLY_STARTED") \in Row
    BY CreatedRowType DEF Status
  <2> QED
    BY <1>1, <1>3, <2>1 DEF ManualStart
<1>4. ASSUME NEW e \in Executions, ManualStartFails(e)
      PROVE  SavedInLife(e, FailedToStartRow(CreatedRow("MANUALLY_STARTED")))
  <2> DEFINE row == FailedToStartRow(CreatedRow("MANUALLY_STARTED"))
  <2>1. row \in Row /\ row.status = "FAILED"
    <3>1. CreatedRow("MANUALLY_STARTED") \in Row
      BY CreatedRowType DEF Status
    <3> HIDE DEF row
    <3>2. row \in Row
      BY <3>1, FailedToStartRowType DEF row
    <3>3. row.status = "FAILED"
      BY <3>1 DEF row, FailedToStartRow, Row
    <3> QED
      BY <3>2, <3>3
  <2>2. /\ e \notin Created /\ Store(e, row)
        /\ announced' = IF Announces(TRUE, row)
                        THEN [announced EXCEPT ![e] = @ \cup {row.status}]
                        ELSE announced
    BY <1>4 DEF ManualStartFails
  <2> HIDE DEF row
  <2>3. PhaseOf(e) = "absent" /\ Lives(e) = TRUE
    BY <2>2 DEF PhaseOf, Lives
  <2>4. SavedInLife(e, row)
    BY <2>1, <2>2, <2>3 DEF SavedInLife, InProgress, InProgressStatuses
  <2> QED
    BY <2>4 DEF row
<1>5. ASSUME NEW e \in Executions, NEW row, SavedInLife(e, row)
      PROVE  NothingToldEarly' /\ [Life!Next]_(Life!vars)
  BY <1>5, SaveImplements
<1>6. ASSUME NEW e \in Executions, NEW request \in UpdateStatuses, Update(e, request)
      PROVE  NothingToldEarly' /\ [Life!Next]_(Life!vars)
  BY <1>5, <1>6, UpdateInLife
<1>7. ASSUME NEW e \in Executions, Check(e)
      PROVE  NothingToldEarly' /\ [Life!Next]_(Life!vars)
  <2>1. CASE CheckedRow(te[e]) # te[e]
    BY <1>5, <1>7, <2>1, CheckInLife
  <2>2. CASE CheckedRow(te[e]) = te[e]
    <3>1. Created' = Created /\ te' = te /\ announced' = announced
      BY <1>7, <2>2 DEF Check, Created
    <3> QED
      BY <3>1, StutterImplements
  <2> QED
    BY <2>1, <2>2
<1>8. CASE Tick
  <2>1. /\ Created' = Created /\ announced' = announced
        /\ \A e \in Created : te'[e] = AgeRow(te[e]) /\ te[e] \in Row
    BY <1>8 DEF Tick, Created, TypeOK
  <2>2. \A e \in Created : te'[e].status = te[e].status
    BY <2>1 DEF AgeRow, Row
  <2> QED
    BY <2>1, <2>2, StutterImplements
<1>9. CASE UNCHANGED vars
  <2>1. Created' = Created /\ te' = te /\ announced' = announced
    BY <1>9 DEF vars, Created
  <2> QED
    BY <2>1, StutterImplements
<1> QED
  BY <1>2, <1>3, <1>4, <1>5, <1>6, <1>7, <1>8, <1>9 DEF Next, Request

\* With requests and checks one after the other, an execution goes through its
\* life in one direction and users are told of its end once: the handlers
\* implement ExecutionLife.
THEOREM LifeIsImplemented ==
  ASSUME "MANUALLY_STARTED" \notin UpdateStatuses
  PROVE  Spec => ImplementsExecutionLife
<1>1. Init => Life!Init /\ NothingToldEarly
  BY DEF Init, Life!Init, NothingToldEarly, PhaseOf, Created
<1>2. TypeOK /\ NothingToldEarly /\ [Next]_vars
        => NothingToldEarly' /\ [Life!Next]_(Life!vars)
  BY ImplementsStep
<1> QED
  BY <1>1, <1>2, TypeCorrect, PTL DEF Spec, ImplementsExecutionLife, Life!Spec

-----------------------------------------------------------------------------
(* An alert about a missing heartbeat is open only while it is missing.    *)

\* The rule that raises an alert takes the start for the first heartbeat, the
\* rule that resolves it does not: they agree because what runs has sent one.
RunningHasBeaten ==
  \A e \in Created : te[e].status = "RUNNING" => te[e].heartbeat # None

AlertInv == TypeOK /\ RunningHasBeaten /\ OpenAlertMeansLate

\* What runs after an update has just sent a heartbeat.
LEMMA UpdatedBeats ==
  ASSUME NEW row \in Row, NEW request \in Status \cup {None},
         request # "MANUALLY_STARTED",
         InProgress(UpdatedRow(row, request).status)
  PROVE  UpdatedRow(row, request).heartbeat = 0
<1>1. UpdatedStatus(row.status, request) \in InProgressStatuses
  BY UpdatedRowType DEF InProgress
<1>2. AsHeartbeat(request)
  BY <1>1 DEF UpdatedStatus, InProgressStatuses, AsHeartbeat
<1> QED
  BY <1>2, UpdatedRowType

\* What a check saves has the heartbeat it had, and has ended or is stopping.
LEMMA CheckedBeats ==
  ASSUME NEW row \in Row, CheckedRow(row) # row
  PROVE  CheckedRow(row).heartbeat = row.heartbeat /\ ~InProgress(CheckedRow(row).status)
<1> DEFINE stopping == [row EXCEPT !.status = "STOPPING", !.markedDone = TRUE,
                                   !.stopReason = "MAX_EXECUTION_TIME_EXCEEDED"]
<1>1. stopping \in Row /\ stopping.status = "STOPPING" /\ stopping.heartbeat = row.heartbeat
  BY DEF Row, Status, StopReason
<1>2. PreSave(stopping).status = "STOPPING" /\ PreSave(stopping).heartbeat = row.heartbeat
  BY <1>1, PreSaveType
<1> QED
  BY <1>2 DEF CheckedRow, Row, InProgress, InProgressStatuses

\* A save that leaves an alert open leaves the execution running and late.
LEMMA AlertAfterSave ==
  ASSUME HeartbeatInterval = TaskHeartbeatInterval, HeartbeatInterval # 0,
         HeartbeatInterval # None, HeartbeatAlertLateness # None,
         NEW row \in Row, row.heartbeat # None,
         InProgress(row.status) => row.heartbeat = 0
  PROVE  ContactRestored(row)
BY TaskHeartbeatIntervalAssumption, LimitAssumption, NoneAssumption
   DEF ContactRestored, Limit, Row

\* Time does not make good for lateness.
LEMMA LaterIsLate ==
  ASSUME NEW row \in Row, NEW lateness \in Limit, OverdueBy(row, lateness)
  PROVE  OverdueBy(AgeRow(row), lateness)
<1>1. ASSUME NEW age \in Age \cup {None}
      PROVE  /\ Older(age) = None <=> age = None
             /\ age # None => Older(age) \in Nat /\ Older(age) >= age
  BY NoneAssumption, HorizonAssumption DEF Older, Age
<1>2. /\ AgeRow(row).heartbeat = Older(row.heartbeat)
      /\ AgeRow(row).started = Older(row.started)
      /\ row.heartbeat \in Age \cup {None} /\ row.started \in Age
  BY DEF AgeRow, Row
<1>3. /\ Older(row.heartbeat) = None <=> row.heartbeat = None
      /\ row.heartbeat # None =>
           Older(row.heartbeat) \in Nat /\ Older(row.heartbeat) >= row.heartbeat
  BY <1>1, <1>2
<1>4. row.started \in Nat /\ row.started # None
        /\ (row.heartbeat # None => row.heartbeat \in Nat)
  BY <1>2, NoneAssumption, HorizonAssumption DEF Age
<1>5. Older(row.started) \in Nat /\ Older(row.started) >= row.started
  BY <1>1, <1>2, <1>4
<1> QED
  BY <1>2, <1>3, <1>4, <1>5, LimitAssumption DEF OverdueBy, Limit

\* The save of an execution that has had a heartbeat resolves its alert, unless
\* it goes on running without one.
LEMMA SaveKeepsAlerts ==
  ASSUME HeartbeatInterval = TaskHeartbeatInterval, HeartbeatInterval # 0,
         AlertInv, NEW e \in Executions, NEW row \in Row, Store(e, row),
         row.status = "RUNNING" => row.heartbeat = 0,
         e \in Created /\ te[e].status = "RUNNING"
           => row.heartbeat # None /\ (InProgress(row.status) => row.heartbeat = 0),
         heartbeatAlert' = [heartbeatAlert EXCEPT ![e] = HeartbeatAlertAfter(@, row)]
  PROVE  OpenAlertMeansLate' /\ RunningHasBeaten'
<1> USE DEF AlertInv
<1>1. /\ Created' = Created \cup {e} /\ te'[e] = row
      /\ \A x \in Created \ {e} : te'[x] = te[x]
  BY StoreType
<1>2. heartbeatAlert \in [Executions -> AlertState]
  BY DEF TypeOK
<1>3. RunningHasBeaten'
  BY <1>1, NoneAssumption DEF RunningHasBeaten
<1>4. heartbeatAlert'[e] # "open"
  <2>1. heartbeatAlert'[e] = HeartbeatAlertAfter(heartbeatAlert[e], row)
    BY <1>2
  <2>2. CASE heartbeatAlert[e] # "open"
    BY <2>1, <2>2 DEF HeartbeatAlertAfter
  <2>3. CASE heartbeatAlert[e] = "open"
    <3>1. /\ e \in Created /\ te[e].status = "RUNNING"
          /\ HeartbeatInterval # None /\ HeartbeatAlertLateness # None
      BY <2>3 DEF OpenAlertMeansLate, OverdueBy
    <3>2. row.heartbeat # None /\ (InProgress(row.status) => row.heartbeat = 0)
      BY <3>1
    <3>3. ContactRestored(row)
      BY <3>1, <3>2, AlertAfterSave
    <3> QED
      BY <2>1, <3>3 DEF HeartbeatAlertAfter
  <2> QED
    BY <2>2, <2>3
<1>5. OpenAlertMeansLate'
  <2>1. ASSUME NEW x \in Executions, heartbeatAlert'[x] = "open"
        PROVE  x \in Created' /\ te'[x].status = "RUNNING"
                 /\ OverdueBy(te'[x], HeartbeatAlertLateness)
    <3>1. x # e /\ heartbeatAlert[x] = "open"
      BY <1>2, <1>4, <2>1
    <3> QED
      BY <1>1, <3>1 DEF OpenAlertMeansLate
  <2> QED
    BY <2>1 DEF OpenAlertMeansLate, OverdueBy
<1> QED
  BY <1>3, <1>5

\* A save that creates an execution leaves the alerts as they are.
LEMMA CreationKeepsAlerts ==
  ASSUME AlertInv, NEW e \in Executions, NEW row \in Row, Store(e, row), e \notin Created,
         row.status = "RUNNING" => row.heartbeat = 0,
         heartbeatAlert' = heartbeatAlert
  PROVE  OpenAlertMeansLate' /\ RunningHasBeaten'
<1> USE DEF AlertInv
<1>1. /\ Created' = Created \cup {e} /\ te'[e] = row
      /\ \A x \in Created : te'[x] = te[x]
  BY StoreType
<1>2. RunningHasBeaten'
  BY <1>1, NoneAssumption DEF RunningHasBeaten
<1>3. ASSUME NEW x \in Executions, heartbeatAlert'[x] = "open"
      PROVE  x \in Created' /\ te'[x].status = "RUNNING"
               /\ OverdueBy(te'[x], HeartbeatAlertLateness)
  BY <1>1, <1>3 DEF OpenAlertMeansLate
<1> QED
  BY <1>2, <1>3 DEF OpenAlertMeansLate, OverdueBy

LEMMA CreatedBeats ==
  ASSUME NEW status \in Status
  PROVE  CreatedRow(status).status = "RUNNING" => CreatedRow(status).heartbeat = 0
<1> DEFINE row == [ status       |-> status,
                    stopReason   |-> None,
                    started      |-> 0,
                    heartbeat    |-> IF status = "RUNNING" THEN 0 ELSE None,
                    killStarted  |-> None,
                    killFinished |-> FALSE,
                    markedDone   |-> FALSE,
                    finished     |-> status \in GuardedFinalStatuses
                                                  \cup { "EXITED_AFTER_MARKED_DONE" } ]
<1>1. row \in Row
  BY HorizonAssumption DEF Row, Age, StopReason
<1>2. row.heartbeat = IF status = "RUNNING" THEN 0 ELSE None
  OBVIOUS
<1>3. CreatedRow(status) = PreSave(row)
  BY DEF CreatedRow
<1> HIDE DEF row
<1>4. CreatedRow(status).heartbeat = row.heartbeat
  BY <1>1, <1>3, PreSaveType
<1>5. CreatedRow(status).status = status
  BY CreatedRowType
<1> QED
  BY <1>2, <1>4, <1>5

\* A check opens an alert only about an execution that runs and is late, and
\* leaves one open only if it saves nothing.
LEMMA CheckKeepsAlerts ==
  ASSUME HeartbeatInterval = TaskHeartbeatInterval, HeartbeatInterval # 0,
         AlertInv, NEW e \in Executions, Check(e)
  PROVE  OpenAlertMeansLate' /\ RunningHasBeaten'
<1> USE DEF AlertInv
<1>1. e \in Created /\ te[e] \in Row
  BY DEF Check, TypeOK
<1>2. CASE CheckedRow(te[e]) # te[e]
  <2> DEFINE row == CheckedRow(te[e])
  <2>1. row \in Row /\ row.heartbeat = te[e].heartbeat /\ ~InProgress(row.status)
    BY <1>1, <1>2, CheckedRowType, CheckedBeats
  <2>2. Store(e, row)
          /\ heartbeatAlert' = [heartbeatAlert EXCEPT ![e] = HeartbeatAlertAfter(@, row)]
    BY <1>2 DEF Check
  <2> HIDE DEF row
  <2>3. te[e].status = "RUNNING" => row.heartbeat # None
    BY <1>1, <2>1 DEF RunningHasBeaten
  <2>4. row.status # "RUNNING"
    BY <2>1 DEF InProgress, InProgressStatuses
  <2> QED
    BY <2>1, <2>2, <2>3, <2>4, SaveKeepsAlerts
<1>3. CASE CheckedRow(te[e]) = te[e]
  <2>1. /\ te' = te
        /\ heartbeatAlert' = [heartbeatAlert EXCEPT ![e] = RaisedHeartbeatAlert(@, te[e])]
    BY <1>3 DEF Check
  <2>2. RunningHasBeaten'
    BY <2>1 DEF RunningHasBeaten, Created
  <2>3. ASSUME NEW x \in Executions, heartbeatAlert'[x] = "open"
        PROVE  x \in Created /\ te[x].status = "RUNNING" /\ OverdueBy(te[x], HeartbeatAlertLateness)
    <3>1. CASE heartbeatAlert[x] = "open"
      BY <3>1 DEF OpenAlertMeansLate
    <3>2. CASE heartbeatAlert[x] # "open"
      <4>1. x = e /\ HeartbeatAlertDue(te[e])
        BY <2>1, <2>3, <3>2 DEF TypeOK, RaisedHeartbeatAlert
      <4> QED
        BY <1>1, <4>1 DEF HeartbeatAlertDue
    <3> QED
      BY <3>1, <3>2
  <2>4. OpenAlertMeansLate'
    BY <2>1, <2>3 DEF OpenAlertMeansLate, Created, OverdueBy
  <2> QED
    BY <2>2, <2>4
<1> QED
  BY <1>2, <1>3

LEMMA AlertStep ==
  ASSUME HeartbeatInterval = TaskHeartbeatInterval, HeartbeatInterval # 0,
         "MANUALLY_STARTED" \notin UpdateStatuses, AlertInv, [Next]_vars
  PROVE  AlertInv'
<1> USE DEF AlertInv
<1>1. TypeOK'
  BY TypeStep
<1>2. ASSUME NEW e \in Executions, NEW status \in CreateStatuses, Create(e, status)
      PROVE  OpenAlertMeansLate' /\ RunningHasBeaten'
  <2>1. CreatedRow(status) \in Row
          /\ (CreatedRow(status).status = "RUNNING" => CreatedRow(status).heartbeat = 0)
    BY CreatedRowType, CreatedBeats, StatusesAssumption
  <2>2. e \notin Created /\ Store(e, CreatedRow(status)) /\ heartbeatAlert' = heartbeatAlert
    BY <1>2 DEF Create, SaveNew
  <2> QED
    BY <2>1, <2>2, CreationKeepsAlerts
<1>3. ASSUME NEW e \in Executions, ManualStart(e)
      PROVE  OpenAlertMeansLate' /\ RunningHasBeaten'
  <2>1. CreatedRow("MANUALLY_STARTED") \in Row
          /\ CreatedRow("MANUALLY_STARTED").status # "RUNNING"
    BY CreatedRowType DEF Status
  <2>2. e \notin Created /\ Store(e, CreatedRow("MANUALLY_STARTED"))
          /\ heartbeatAlert' = heartbeatAlert
    BY <1>3 DEF ManualStart, SaveNew
  <2> QED
    BY <2>1, <2>2, CreationKeepsAlerts
<1>4. ASSUME NEW e \in Executions, ManualStartFails(e)
      PROVE  OpenAlertMeansLate' /\ RunningHasBeaten'
  <2> DEFINE row == FailedToStartRow(CreatedRow("MANUALLY_STARTED"))
  <2>1. row \in Row /\ row.status = "FAILED"
    <3>1. CreatedRow("MANUALLY_STARTED") \in Row
      BY CreatedRowType DEF Status
    <3> HIDE DEF row
    <3>2. row \in Row
      BY <3>1, FailedToStartRowType DEF row
    <3>3. row.status = "FAILED"
      BY <3>1 DEF row, FailedToStartRow, Row
    <3> QED
      BY <3>2, <3>3
  <2>2. e \notin Created /\ Store(e, row) /\ heartbeatAlert' = heartbeatAlert
    BY <1>4 DEF ManualStartFails
  <2> HIDE DEF row
  <2>3. row.status # "RUNNING"
    BY <2>1
  <2> QED
    BY <2>1, <2>2, <2>3, CreationKeepsAlerts
<1>5. ASSUME NEW e \in Executions, NEW request \in UpdateStatuses, Update(e, request)
      PROVE  OpenAlertMeansLate' /\ RunningHasBeaten'
  <2> DEFINE row == UpdatedRow(te[e], request)
  <2>1. e \in Created /\ te[e] \in Row /\ request \in Status \cup {None}
          /\ request # "MANUALLY_STARTED"
    BY <1>5, StatusesAssumption DEF Update, TypeOK
  <2>2. row \in Row /\ row.heartbeat \in {0, te[e].heartbeat}
    BY <2>1, UpdatedRowType
  <2>3. InProgress(row.status) => row.heartbeat = 0
    BY <2>1, UpdatedBeats
  <2>4. Store(e, row)
          /\ heartbeatAlert' = [heartbeatAlert EXCEPT ![e] = HeartbeatAlertAfter(@, row)]
    BY <1>5 DEF Update
  <2> HIDE DEF row
  <2>5. te[e].status = "RUNNING" => row.heartbeat # None
    BY <2>1, <2>2, NoneAssumption DEF RunningHasBeaten
  <2>6. row.status = "RUNNING" => row.heartbeat = 0
    BY <2>3 DEF InProgress, InProgressStatuses
  <2> QED
    BY <2>2, <2>3, <2>4, <2>5, <2>6, SaveKeepsAlerts
<1>6. ASSUME NEW e \in Executions, Check(e)
      PROVE  OpenAlertMeansLate' /\ RunningHasBeaten'
  BY <1>6, CheckKeepsAlerts
<1>7. CASE Tick
  <2>1. /\ Created' = Created /\ heartbeatAlert' = heartbeatAlert
        /\ \A e \in Created : te'[e] = AgeRow(te[e]) /\ te[e] \in Row
    BY <1>7 DEF Tick, Created, TypeOK
  <2>2. ASSUME NEW e \in Created
        PROVE  /\ te'[e].status = te[e].status
               /\ te'[e].heartbeat = Older(te[e].heartbeat)
               /\ OverdueBy(te[e], HeartbeatAlertLateness)
                    => OverdueBy(te'[e], HeartbeatAlertLateness)
    <3>1. te'[e] = AgeRow(te[e]) /\ te[e] \in Row
      BY <2>1
    <3>2. AgeRow(te[e]).status = te[e].status /\ AgeRow(te[e]).heartbeat = Older(te[e].heartbeat)
      BY <3>1 DEF AgeRow, Row
    <3> QED
      BY <3>1, <3>2, LaterIsLate, LimitAssumption
  <2>3. RunningHasBeaten'
    <3>1. ASSUME NEW e \in Created, te[e].heartbeat # None
          PROVE  te'[e].heartbeat # None
      BY <2>1, <2>2, <3>1, NoneAssumption, HorizonAssumption DEF Older, Row, Age
    <3> QED
      BY <2>1, <2>2, <3>1 DEF RunningHasBeaten
  <2>4. OpenAlertMeansLate'
    BY <2>1, <2>2 DEF OpenAlertMeansLate, OverdueBy
  <2> QED
    BY <1>1, <2>3, <2>4
<1>8. CASE UNCHANGED vars
  <2>1. te' = te /\ heartbeatAlert' = heartbeatAlert
    BY <1>8 DEF vars
  <2> QED
    BY <1>1, <2>1 DEF RunningHasBeaten, OpenAlertMeansLate, OverdueBy, Created
<1> QED
  BY <1>1, <1>2, <1>3, <1>4, <1>5, <1>6, <1>7, <1>8 DEF Next, Request

\* As long as the execution and its Task have the same interval, an alert about
\* a missing heartbeat is open only while the execution runs and is late.
THEOREM OpenAlertIsDue ==
  ASSUME HeartbeatInterval = TaskHeartbeatInterval, HeartbeatInterval # 0,
         "MANUALLY_STARTED" \notin UpdateStatuses
  PROVE  Spec => []OpenAlertMeansLate
<1>1. Init => AlertInv
  BY DEF Init, AlertInv, TypeOK, Created, AlertState, RunningHasBeaten, OpenAlertMeansLate
<1>2. AlertInv /\ [Next]_vars => AlertInv'
  BY AlertStep
<1>3. AlertInv => OpenAlertMeansLate
  BY DEF AlertInv
<1> QED
  BY <1>1, <1>2, <1>3, PTL DEF Spec
-----------------------------------------------------------------------------
(* TaskExecutionRace: requests and checks that overlap, for any number of  *)
(* server processes.                                                       *)
(*                                                                         *)
(* The argument: a process that is to announce a status has looked for an  *)
(* earlier announcement while it held the lock of the row, holds it still, *)
(* and only the holder of the lock announces anything.                     *)

\* It has the same rows, and what is done to a row leaves a row.
LEMMA RaceRows ==
  /\ Race!CreatedRow("RUNNING") \in Race!Row
  /\ \A r \in Race!Row :
       /\ Race!AgeRow(r) \in Race!Row /\ Race!AgeRow(r).status = r.status
       /\ Race!CheckedRow(r) \in Race!Row
       /\ \A request \in Race!Status \cup {None} : Race!UpdatedRow(r, request) \in Race!Row
<1>1. Race!Row = Row /\ Race!Status = Status
  BY DEF Race!Row, Row, Race!Status, Status, Race!Age, Age, Race!StopReason, StopReason
<1>2. Race!CreatedRow("RUNNING") = CreatedRow("RUNNING")
  BY DEF Race!CreatedRow, CreatedRow, Race!PreSave, PreSave,
         Race!GuardedFinalStatuses, GuardedFinalStatuses
<1>3. ASSUME NEW r PROVE Race!AgeRow(r) = AgeRow(r)
  BY DEF Race!AgeRow, AgeRow, Race!Older, Older
<1>4. ASSUME NEW r PROVE Race!CheckedRow(r) = CheckedRow(r)
  BY DEF Race!CheckedRow, CheckedRow, Race!PreSave, PreSave, Race!NeverStarted, NeverStarted,
         Race!StartAlertDue, StartAlertDue, Race!StoppedTooSlowly, StoppedTooSlowly,
         Race!RanTooLong, RanTooLong, Race!LostContact, LostContact, Race!OverdueBy,
         OverdueBy, Race!Exceeds, Exceeds
<1>5. ASSUME NEW r, NEW request PROVE Race!UpdatedRow(r, request) = UpdatedRow(r, request)
  BY DEF Race!UpdatedRow, UpdatedRow, Race!PreSave, PreSave, Race!UpdatedStatus,
         UpdatedStatus, Race!AsHeartbeat, AsHeartbeat, Race!SetsFinished, SetsFinished,
         Race!GuardedFinalStatuses, GuardedFinalStatuses
<1>6. "RUNNING" \in Status
  BY DEF Status
<1>7. \A r \in Row : AgeRow(r).status = r.status
  BY DEF AgeRow, Row
<1> QED  BY <1>1, <1>2, <1>3, <1>4, <1>5, <1>6, <1>7, CreatedRowType, AgeRowType,
            CheckedRowType, UpdatedRowType

-----------------------------------------------------------------------------
(* The invariant.                                                          *)

\* Whoever is to announce a status holds the lock, and nobody has announced it.
ToAnnounceIsNew ==
  \A s \in Race!Sessions :
    session[s].pc = "saved" /\ session[s].announces => announcements[session[s].copy.status] = 0

RaceInv == Race!TypeOK /\ ToAnnounceIsNew /\ Race!AnnouncedOnce

\* The sessions, as TypeOK has them.
RaceSession ==
  [ pc : {"idle", "selected", "loaded", "saved"},
    request : Race!Status \cup {None}, old : Race!Row \cup {None},
    copy : Race!Row \cup {None}, announces : BOOLEAN, resolves : BOOLEAN ]

LEMMA RaceSessionFacts ==
  ASSUME RaceConstants, RaceInv, NEW s \in Race!Sessions
  PROVE  /\ session[s] \in RaceSession /\ session \in [Race!Sessions -> RaceSession]
         /\ lock = s <=> session[s].pc = "saved"
         /\ session[s].pc \in { "loaded", "saved" } => session[s].copy \in Race!Row
  BY DEF RaceInv, Race!TypeOK, RaceSession

LEMMA RaceSaveKeepsInv ==
  ASSUME RaceConstants, RaceInv, NEW s \in Race!Sessions, NEW new \in Race!Row,
         session[s].pc = "loaded", Race!Save(s, new)
  PROVE  RaceInv'
<1> DEFINE told == Race!Announces(session[s].old, new)
           ended == Race!ResolvesAlert(new)
           after == [session[s] EXCEPT !.pc = "saved", !.copy = new,
                                       !.announces = told, !.resolves = ended]
<1>1. /\ lock = None /\ lock' = s /\ session' = [session EXCEPT ![s] = after]
      /\ UNCHANGED <<stored, announcements, missed, requests>>
  BY RaceSessionFacts DEF Race!Save
<1>2. told \in BOOLEAN /\ ended \in BOOLEAN /\ (told => announcements[new.status] = 0)
  BY DEF Race!Announces, Race!ResolvesAlert, Race!InProgress
<1> HIDE DEF told, ended
<1>3. after \in RaceSession /\ after.pc = "saved" /\ after.copy = new /\ after.announces = told
  BY <1>2, RaceSessionFacts DEF RaceSession
<1> HIDE DEF after
<1>4. session' \in [Race!Sessions -> RaceSession] /\ session'[s] = after
      /\ \A o \in Race!Sessions : o # s => session'[o] = session[o]
  BY <1>1, <1>3, RaceSessionFacts
<1>5. None \notin Race!Sessions
  BY DEF RaceConstants, Race!Sessions
<1>6. \A o \in Race!Sessions : o # s => session[o].pc # "saved"
  BY <1>1, <1>5, RaceSessionFacts
<1>7. Race!TypeOK'
  <2>1. \A o \in Race!Sessions :
          /\ lock' = o <=> session'[o].pc = "saved"
          /\ session'[o].pc \in { "idle", "selected" } => session'[o].copy = None
          /\ session'[o].pc \in { "loaded", "saved" } => session'[o].copy \in Race!Row
    BY <1>1, <1>3, <1>4, <1>6 DEF RaceInv, Race!TypeOK
  <2> QED  BY <1>1, <1>4, <2>1 DEF RaceInv, Race!TypeOK, RaceSession
<1>8. ToAnnounceIsNew'
  BY <1>1, <1>2, <1>3, <1>4, <1>6 DEF ToAnnounceIsNew
<1> QED  BY <1>1, <1>7, <1>8 DEF RaceInv, Race!AnnouncedOnce

LEMMA RaceCommitKeepsInv ==
  ASSUME RaceConstants, RaceInv, NEW s \in Race!Sessions, Race!Commit(s)
  PROVE  RaceInv'
<1> DEFINE new == session[s].copy
           told == session[s].announces
<1>1. /\ session[s].pc = "saved" /\ stored' = new /\ lock' = None
      /\ announcements' = IF told THEN [announcements EXCEPT ![new.status] = @ + 1]
                          ELSE announcements
      /\ missed' \in { "resolved", missed }
      /\ session' = [session EXCEPT ![s] = Race!Idle]
      /\ UNCHANGED requests
  BY DEF Race!Commit
<1>2. /\ new \in Race!Row /\ new.status \in Race!Status
      /\ session \in [Race!Sessions -> RaceSession]
      /\ (told => announcements[new.status] = 0) /\ announcements \in [Race!Status -> Nat]
  BY <1>1, RaceSessionFacts DEF RaceInv, Race!TypeOK, ToAnnounceIsNew, Race!Row
<1> HIDE DEF new, told
<1>3. Race!Idle \in RaceSession /\ Race!Idle.pc = "idle" /\ Race!Idle.copy = None
  BY DEF Race!Idle, RaceSession
<1>4. session' \in [Race!Sessions -> RaceSession] /\ session'[s] = Race!Idle
      /\ \A o \in Race!Sessions : o # s => session'[o] = session[o]
  BY <1>1, <1>2, <1>3
<1>5. \A o \in Race!Sessions : session'[o].pc # "saved"
  BY <1>1, <1>3, <1>4, RaceSessionFacts
<1>6. announcements' \in [Race!Status -> Nat] /\ Race!AnnouncedOnce'
  BY <1>1, <1>2 DEF RaceInv, Race!AnnouncedOnce
<1>7. Race!TypeOK'
  <2>1. None \notin Race!Sessions
    BY DEF RaceConstants, Race!Sessions
  <2>2. \A o \in Race!Sessions :
          /\ lock' = o <=> session'[o].pc = "saved"
          /\ session'[o].pc \in { "idle", "selected" } => session'[o].copy = None
          /\ session'[o].pc \in { "loaded", "saved" } => session'[o].copy \in Race!Row
    BY <1>1, <1>3, <1>4, <1>5, <2>1 DEF RaceInv, Race!TypeOK
  <2> QED  BY <1>1, <1>2, <1>4, <1>6, <2>2 DEF RaceInv, Race!TypeOK, RaceSession
<1> QED  BY <1>5, <1>6, <1>7 DEF RaceInv, ToAnnounceIsNew

\* A step of one process that neither takes the lock nor gives it back.
LEMMA RaceStepKeepsOthers ==
  ASSUME RaceConstants, RaceInv, NEW s \in Race!Sessions, NEW after \in RaceSession,
         session[s].pc # "saved", after.pc # "saved",
         after.pc \in { "idle", "selected" } => after.copy = None,
         after.pc = "loaded" => after.copy \in Race!Row,
         session' = [session EXCEPT ![s] = after],
         UNCHANGED <<stored, lock, announcements>>,
         missed' \in { "open", missed }, requests' \in 0 .. MaxRequests
  PROVE  RaceInv'
<1>1. session' \in [Race!Sessions -> RaceSession] /\ session'[s] = after
      /\ \A o \in Race!Sessions : o # s => session'[o] = session[o]
  BY RaceSessionFacts
<1>2. Race!TypeOK'
  <2>1. \A o \in Race!Sessions :
          /\ lock' = o <=> session'[o].pc = "saved"
          /\ session'[o].pc \in { "idle", "selected" } => session'[o].copy = None
          /\ session'[o].pc \in { "loaded", "saved" } => session'[o].copy \in Race!Row
    <3> SUFFICES ASSUME NEW o \in Race!Sessions
                 PROVE  /\ lock = o <=> session'[o].pc = "saved"
                        /\ session'[o].pc \in { "idle", "selected" } => session'[o].copy = None
                        /\ session'[o].pc \in { "loaded", "saved" } => session'[o].copy \in Race!Row
      OBVIOUS
    <3>1. CASE o = s
      BY <1>1, <3>1, RaceSessionFacts
    <3>2. CASE o # s
      BY <1>1, <3>2 DEF RaceInv, Race!TypeOK
    <3> QED  BY <3>1, <3>2
  <2> QED  BY <1>1, <2>1 DEF RaceInv, Race!TypeOK, RaceSession
<1>3. ToAnnounceIsNew'
  BY <1>1 DEF RaceInv, ToAnnounceIsNew
<1> QED  BY <1>2, <1>3 DEF RaceInv, Race!AnnouncedOnce

LEMMA RaceTickKeepsInv ==
  ASSUME RaceConstants, RaceInv, Race!Tick
  PROVE  RaceInv'
<1> DEFINE aged(s) == [session[s] EXCEPT !.old = Race!AgeCopy(@), !.copy = Race!AgeCopy(@)]
<1>1. /\ stored' = Race!AgeRow(stored) /\ session' = [s \in Race!Sessions |-> aged(s)]
      /\ UNCHANGED <<lock, announcements, missed, requests>>
  BY DEF Race!Tick
<1>2. \A c \in Race!Row \cup {None} : Race!AgeCopy(c) \in Race!Row \cup {None}
  BY RaceRows DEF Race!AgeCopy
<1>3. \A c \in Race!Row : Race!AgeCopy(c) \in Race!Row /\ Race!AgeCopy(c).status = c.status
  BY RaceRows DEF Race!AgeCopy
<1>4. Race!AgeCopy(None) = None
  BY DEF Race!AgeCopy
<1>5. ASSUME NEW s \in Race!Sessions
      PROVE  /\ aged(s) \in RaceSession
             /\ aged(s).pc = session[s].pc /\ aged(s).announces = session[s].announces
             /\ aged(s).copy = Race!AgeCopy(session[s].copy)
  <2>1. session[s] \in RaceSession
    BY RaceSessionFacts
  <2>2. /\ Race!AgeCopy(session[s].old) \in Race!Row \cup {None}
        /\ Race!AgeCopy(session[s].copy) \in Race!Row \cup {None}
    BY <1>2, <2>1 DEF RaceSession
  <2> QED  BY <2>1, <2>2 DEF RaceSession
<1>6. \A s \in Race!Sessions : session'[s] = aged(s)
  BY <1>1
<1>7. session' \in [Race!Sessions -> RaceSession]
  BY <1>1, <1>5
<1> HIDE DEF aged
<1>8. Race!TypeOK'
  <2>1. stored' \in Race!Row
    BY <1>1, RaceRows DEF RaceInv, Race!TypeOK
  <2>2. \A s \in Race!Sessions :
          /\ lock' = s <=> session'[s].pc = "saved"
          /\ session'[s].pc \in { "idle", "selected" } => session'[s].copy = None
          /\ session'[s].pc \in { "loaded", "saved" } => session'[s].copy \in Race!Row
    BY <1>1, <1>3, <1>4, <1>5, <1>6 DEF RaceInv, Race!TypeOK
  <2> QED  BY <1>1, <1>7, <2>1, <2>2 DEF RaceInv, Race!TypeOK, RaceSession
<1>9. ToAnnounceIsNew'
  BY <1>1, <1>3, <1>5, <1>6, RaceSessionFacts DEF RaceInv, ToAnnounceIsNew
<1> QED  BY <1>1, <1>8, <1>9 DEF RaceInv, Race!AnnouncedOnce

-----------------------------------------------------------------------------
LEMMA RaceInitHasInv ==
  ASSUME RaceConstants
  PROVE  Race!Init => RaceInv
<1> SUFFICES ASSUME Race!Init PROVE RaceInv
  OBVIOUS
<1>1. /\ stored \in Race!Row /\ lock = None /\ missed = "none"
      /\ session = [s \in Race!Sessions |-> Race!Idle]
      /\ announcements = [status \in Race!Status |-> 0] /\ requests \in 0 .. MaxRequests
  BY RaceRows DEF RaceConstants, Race!Init
<1>2. Race!Idle \in RaceSession /\ Race!Idle.pc = "idle" /\ Race!Idle.copy = None
  BY DEF Race!Idle, RaceSession
<1>3. /\ session \in [Race!Sessions -> RaceSession]
      /\ \A s \in Race!Sessions : session[s].pc = "idle" /\ session[s].copy = None
  BY <1>1, <1>2
<1>4. None \notin Race!Sessions
  BY DEF RaceConstants, Race!Sessions
<1>5. Race!TypeOK
  BY <1>1, <1>3, <1>4 DEF Race!TypeOK, RaceSession
<1> QED  BY <1>1, <1>3, <1>5 DEF RaceInv, ToAnnounceIsNew, Race!AnnouncedOnce

LEMMA RaceStepKeepsInv ==
  ASSUME RaceConstants
  PROVE  RaceInv /\ [Race!Next]_Race!vars => RaceInv'
<1> SUFFICES ASSUME RaceInv, [Race!Next]_Race!vars PROVE RaceInv'
  OBVIOUS
<1>1. ASSUME NEW w \in Workers, NEW request \in UpdateStatuses, Race!Load(w, request)
      PROVE  RaceInv'
  <2> DEFINE after == [Race!Idle EXCEPT !.pc = "loaded", !.request = request,
                                   !.old = stored, !.copy = stored]
  <2>1. after \in RaceSession /\ after.pc = "loaded" /\ after.copy = stored /\ stored \in Race!Row
    <3>1. request \in Race!Status \cup {None}
      BY DEF RaceConstants, Race!Status, Status
    <3> QED BY <3>1 DEF Race!Idle, RaceSession, RaceInv, Race!TypeOK
  <2>2. /\ session[w].pc = "idle" /\ session' = [session EXCEPT ![w] = after]
        /\ UNCHANGED <<stored, lock, announcements, missed>>
    BY <1>1 DEF Race!Load
  <2>3. requests' \in 0 .. MaxRequests
    BY <1>1 DEF RaceConstants, Race!Load, RaceInv, Race!TypeOK
  <2>4. w \in Race!Sessions
    BY DEF Race!Sessions
  <2> HIDE DEF after
  <2> QED  BY <2>1, <2>2, <2>3, <2>4, RaceStepKeepsOthers
<1>2. ASSUME NEW w \in Workers, Race!SaveUpdate(w)
      PROVE  RaceInv'
  <2>1. w \in Race!Sessions /\ session[w].pc = "loaded"
        /\ Race!Save(w, Race!UpdatedRow(session[w].copy, session[w].request))
    BY <1>2 DEF Race!SaveUpdate, Race!Sessions
  <2>2. session[w].copy \in Race!Row /\ session[w].request \in Race!Status \cup {None}
    BY <2>1, RaceSessionFacts DEF RaceSession
  <2>3. Race!UpdatedRow(session[w].copy, session[w].request) \in Race!Row
    BY <2>2, RaceRows
  <2> QED  BY <2>1, <2>3, RaceSaveKeepsInv
<1>3. ASSUME NEW s \in Race!Sessions, Race!Commit(s)
      PROVE  RaceInv'
  BY <1>3, RaceCommitKeepsInv
<1> DEFINE k == Checker
<1>4. k \in Race!Sessions /\ session[k] \in RaceSession /\ requests \in 0 .. MaxRequests
  BY RaceSessionFacts DEF Race!Sessions, RaceInv, Race!TypeOK
<1>5. Race!Idle \in RaceSession /\ Race!Idle.pc = "idle" /\ Race!Idle.copy = None
  BY DEF Race!Idle, RaceSession
<1>6. CASE Race!Select
  <2> DEFINE after == [session[k] EXCEPT !.pc = "selected", !.old = stored]
  <2>1. after \in RaceSession /\ after.pc = "selected" /\ after.copy = session[k].copy
    BY <1>4 DEF RaceSession, RaceInv, Race!TypeOK
  <2>2. session[k].pc = "idle" /\ session' = [session EXCEPT ![k] = after]
        /\ UNCHANGED <<stored, lock, announcements, missed, requests>>
    BY <1>4, <1>6, RaceSessionFacts DEF Race!Select
  <2>3. session[k].copy = None
    BY <1>4, <2>2 DEF RaceInv, Race!TypeOK
  <2> HIDE DEF after
  <2> QED  BY <1>4, <2>1, <2>2, <2>3, RaceStepKeepsOthers
<1>7. CASE Race!Refresh
  <2> DEFINE read == [session[k] EXCEPT !.pc = "loaded", !.copy = stored]
  <2>1. read \in RaceSession /\ read.pc = "loaded" /\ read.copy = stored /\ stored \in Race!Row
    BY <1>4 DEF RaceSession, RaceInv, Race!TypeOK
  <2>2. session[k].pc = "selected"
        /\ session' \in { [session EXCEPT ![k] = Race!Idle], [session EXCEPT ![k] = read] }
        /\ UNCHANGED <<stored, lock, announcements, missed, requests>>
    BY <1>4, <1>7, RaceSessionFacts DEF Race!Refresh
  <2> HIDE DEF read
  <2>3. CASE session' = [session EXCEPT ![k] = Race!Idle]
    BY <1>4, <1>5, <2>2, <2>3, RaceStepKeepsOthers
  <2>4. CASE session' = [session EXCEPT ![k] = read]
    BY <1>4, <2>1, <2>2, <2>4, RaceStepKeepsOthers
  <2> QED  BY <2>2, <2>3, <2>4
<1>8. CASE Race!SaveCheck
  <2>1. session[k].pc = "loaded" /\ Race!Save(k, Race!CheckedRow(session[k].copy))
    BY <1>8 DEF Race!SaveCheck
  <2>2. session[k].copy \in Race!Row
    BY <1>4, <2>1, RaceSessionFacts
  <2> QED  BY <1>4, <2>1, <2>2, RaceRows, RaceSaveKeepsInv
<1>9. CASE Race!FinishCheck
  <2>1. /\ session[k].pc = "loaded" /\ session' = [session EXCEPT ![k] = Race!Idle]
        /\ missed' \in { "open", missed }
        /\ UNCHANGED <<stored, lock, announcements, requests>>
    BY <1>9 DEF Race!FinishCheck
  <2> QED  BY <1>4, <1>5, <2>1, RaceStepKeepsOthers
<1>10. CASE Race!Tick
  BY <1>10, RaceTickKeepsInv
<1>11. CASE UNCHANGED Race!vars
  BY <1>11 DEF Race!vars, RaceInv, Race!TypeOK, ToAnnounceIsNew, Race!AnnouncedOnce
<1>12. Workers \subseteq Race!Sessions
  BY DEF Race!Sessions
<1> QED  BY <1>1, <1>2, <1>3, <1>4, <1>6, <1>7, <1>8, <1>9, <1>10, <1>11, <1>12
         DEF Race!Next, Race!Work, Race!CheckStep

\* However requests and checks overlap: a transaction that has written the row
\* holds its lock, and every copy in memory is a row that the table might have.
THEOREM RaceTypeCorrect == Race!Spec => []Race!TypeOK
<1> USE RaceAssumption
<1>1. RaceInv => Race!TypeOK
  BY DEF RaceInv
<1> QED  BY <1>1, RaceInitHasInv, RaceStepKeepsInv, PTL DEF Race!Spec

\* However many requests end an execution at once, and whatever the checker does
\* meanwhile, users are told of each status at most once: each looks for an
\* earlier event after its UPDATE has taken the lock of the row
\* (post_save_task_execution, Execution.should_create_status_change_event).
THEOREM StatusIsAnnouncedOnce == Race!Spec => []AnnouncedOnce
<1> USE RaceAssumption
<1>1. RaceInv => Race!AnnouncedOnce
  BY DEF RaceInv
<1> QED  BY <1>1, RaceInitHasInv, RaceStepKeepsInv, PTL DEF Race!Spec, AnnouncedOnce

-----------------------------------------------------------------------------
(* Requests about the members of groups (Membership): what a request that  *)
(* overlaps with none has read is still so when it writes.                 *)

AccessLevels == Nat \cup {None}

InvitationRow ==
  [ by : Users, user : Users, group : Groups, level : Levels, accepted : BOOLEAN ]

\* What a request under way asks for.
AsksWell(q) ==
  /\ q.kind \in { "remove", "level", "invite" } => q.user \in Users /\ q.group \in Groups
  /\ q.kind = "level" => q.new \in Levels \cup {None} /\ q.read \in AccessLevels
  /\ q.kind = "invite" => q.by \in Users /\ q.new \in Levels /\ q.read \in AccessLevels
  /\ q.kind = "accept" => q.row \in InvitationRow /\ q.read \in AccessLevels

\* There is an admin beside the user.
OtherAdmin(u, g) == \E v \in Users : v # u /\ v \in People!Admins(g)

\* What it has read is so.
StillTrue(q) ==
  /\ q.kind = "remove" => OtherAdmin(q.user, q.group)
  /\ q.kind = "level" /\ (q.new = None \/ q.new < People!ADMIN) => OtherAdmin(q.user, q.group)
  /\ q.kind = "invite" => q.read = level[q.user, q.group]
  /\ q.kind = "accept" => q.read = level[q.row.user, q.row.group]

LevelsAreTyped ==
  /\ level \in [ Users \X Groups -> AccessLevels ]
  /\ groups \subseteq Groups
  /\ invitation \in [ Invitations -> {None} \cup InvitationRow ]

RequestsAreTrue ==
  /\ DOMAIN asked = GroupRequests
  /\ \A r \in GroupRequests : asked[r] # None => AsksWell(asked[r])
  /\ \A r \in GroupRequests : asked[r] # None /\ r \notin together =>
       /\ StillTrue(asked[r])
       /\ \A s \in GroupRequests : asked[s] # None => s = r

MemberInv == LevelsAreTyped /\ RequestsAreTrue

LEMMA MemberCardinality == \A S : People!Cardinality(S) = Cardinality(S)
  BY DEF People!Cardinality, Cardinality

\* What LastAdminStays says of a step.
AdminsStay ==
  \A g \in groups \cap groups' :
    People!Admins(g) # {} /\ People!Admins(g)' = {}
      => People!OverlappingFinishes \/ \E u \in People!Admins(g) : account'[u] = "none"

LEMMA AdminIs ==
  ASSUME MemberConstants, LevelsAreTyped, NEW by \in Users, NEW g \in Groups,
         People!IsAdmin(by, g)
  PROVE  by \in People!Admins(g)
  <1>1. People!AccessLevel(by, g) # None /\ People!AccessLevel(by, g) >= People!ADMIN
    BY DEF People!IsAdmin, People!HasAccess, People!EffectiveLevel
  <1>2. level[by, g] # None
    <2>1. SUFFICES ASSUME level[by, g] = None
                   PROVE  FALSE
      OBVIOUS
    <2>2. People!AccessLevel(by, g) = People!OBSERVER
      BY <1>1, <2>1 DEF People!AccessLevel
    <2> QED BY <1>1, <2>2 DEF People!OBSERVER, People!ADMIN
  <1> QED BY <1>1, <1>2 DEF People!AccessLevel, People!Admins

LEMMA OtherRemains ==
  ASSUME NEW by \in Users, NEW u \in Users, NEW g \in Groups, by \in People!Admins(g),
         People!MayLower(u, by, g)
  PROVE  OtherAdmin(u, g)
  <1>1. CASE u # by
    BY <1>1 DEF OtherAdmin
  <1>2. CASE u = by
    <2>1. Cardinality(People!Admins(g)) > 1
      BY <1>2, MemberCardinality DEF People!MayLower
    <2>2. People!Admins(g) # {u}
      <3>1. Cardinality({u}) = 1
        BY FS_Singleton
      <3> HIDE DEF People!Admins
      <3> QED BY <2>1, <3>1
    <2>3. People!Admins(g) \subseteq Users
      BY DEF People!Admins
    <2> QED BY <1>2, <2>2, <2>3 DEF OtherAdmin
  <1> QED BY <1>1, <1>2

LEMMA SameLevelsStay ==
  ASSUME level' = level
  PROVE  AdminsStay
  BY DEF AdminsStay, People!Admins

LEMMA OverlappedStays ==
  ASSUME NEW r \in GroupRequests, r \in together, DOMAIN asked = GroupRequests,
         asked[r] # None, People!Finish(r)
  PROVE  AdminsStay
  BY DEF AdminsStay, People!OverlappingFinishes, People!Finish

\* One user's access changes, and there is an admin before and after.
LEMMA OneLevelStays ==
  ASSUME LevelsAreTyped, NEW u \in Users, NEW g \in Groups, NEW new \in AccessLevels,
         level' = [level EXCEPT ![<<u, g>>] = new],
         OtherAdmin(u, g) \/ u \notin People!Admins(g) \/ (new # None /\ new >= People!ADMIN)
  PROVE  AdminsStay
  <1>1. /\ level'[u, g] = new
        /\ \A v \in Users, h \in Groups : <<v, h>> # <<u, g>> => level'[v, h] = level[v, h]
    BY DEF LevelsAreTyped
  <1>2. SUFFICES ASSUME NEW h \in groups \cap groups', People!Admins(h) # {}
                 PROVE  People!Admins(h)' # {}
    BY DEF AdminsStay
  <1>3. CASE h # g
    <2>1. \A v \in Users : level'[v, h] = level[v, h]
      BY <1>1, <1>2, <1>3 DEF LevelsAreTyped
    <2> QED BY <1>2, <2>1 DEF People!Admins
  <1>4. CASE h = g
    <2>1. CASE new # None /\ new >= People!ADMIN
      <3>1. level'[u, h] # None /\ level'[u, h] >= People!ADMIN
        BY <1>1, <1>4, <2>1
      <3>2. People!Admins(h)' =
              { v \in Users : level'[v, h] # None /\ level'[v, h] >= People!ADMIN }
        BY DEF People!Admins, People!ADMIN
      <3> QED BY <3>1, <3>2
    <2>2. CASE OtherAdmin(u, g) \/ u \notin People!Admins(g)
      <3>1. PICK v \in People!Admins(g) : v # u
        BY <1>2, <1>4, <2>2 DEF OtherAdmin
      <3>2. v \in Users /\ level'[v, g] = level[v, g]
        BY <1>1, <3>1 DEF People!Admins
      <3>3. level[v, g] # None /\ level[v, g] >= People!ADMIN
        BY <3>1 DEF People!Admins
      <3>4. level'[v, h] # None /\ level'[v, h] >= People!ADMIN
        BY <1>4, <3>2, <3>3
      <3>5. People!Admins(h)' =
              { x \in Users : level'[x, h] # None /\ level'[x, h] >= People!ADMIN }
        BY DEF People!Admins, People!ADMIN
      <3> QED BY <3>2, <3>4, <3>5
    <2> QED BY <2>1, <2>2
  <1> QED BY <1>3, <1>4

LEMMA MemberBegins ==
  ASSUME MemberInv, NEW r \in GroupRequests, NEW q, People!Begin(r, q),
         AsksWell(q), StillTrue(q)
  PROVE  MemberInv' /\ AdminsStay
  <1>1. /\ asked[r] = None /\ asked' = [asked EXCEPT ![r] = q]
        /\ together' = IF People!UnderWay = {} THEN together
                       ELSE together \cup People!UnderWay \cup {r}
        /\ level' = level /\ invitation' = invitation
    BY DEF People!Begin, People!rows
  <1>2. LevelsAreTyped'
    BY <1>1 DEF MemberInv, LevelsAreTyped, People!Begin, People!rows
  <1>3. /\ DOMAIN asked' = GroupRequests /\ asked'[r] = q
        /\ \A s \in GroupRequests \ {r} : asked'[s] = asked[s]
    BY <1>1 DEF MemberInv, RequestsAreTrue
  <1>4. \A s \in GroupRequests : asked'[s] # None => AsksWell(asked'[s])
    BY <1>3 DEF MemberInv, RequestsAreTrue
  <1>5. ASSUME NEW s \in GroupRequests, asked'[s] # None, s \notin together'
        PROVE  StillTrue(asked[s])' /\ \A p \in GroupRequests : asked'[p] # None => p = s
    <2>1. People!UnderWay = {}
      BY <1>1, <1>3, <1>5 DEF People!UnderWay
    <2>2. \A p \in GroupRequests : asked[p] = None
      BY <2>1 DEF People!UnderWay
    <2>3. s = r /\ \A p \in GroupRequests : asked'[p] # None => p = r
      BY <1>3, <1>5, <2>2
    <2>4. asked'[s] = q
      BY <1>3, <2>3
    <2>5. StillTrue(asked[s])'
      BY <1>1, <2>4 DEF StillTrue, OtherAdmin, People!Admins
    <2> QED BY <2>3, <2>5
  <1> QED BY <1>1, <1>2, <1>3, <1>4, <1>5, SameLevelsStay
          DEF MemberInv, RequestsAreTrue, AsksWell

\* No request is left alone by one that finishes.
LEMMA MemberFinishes ==
  ASSUME MemberInv, NEW r \in GroupRequests, asked[r] # None, People!Finish(r)
  PROVE  RequestsAreTrue'
  <1>1. asked' = [asked EXCEPT ![r] = None] /\ together' = together \ {r}
    BY DEF People!Finish
  <1>2. /\ DOMAIN asked' = GroupRequests /\ asked'[r] = None
        /\ \A s \in GroupRequests \ {r} : asked'[s] = asked[s]
    BY <1>1 DEF MemberInv, RequestsAreTrue
  <1>3. \A s \in GroupRequests : asked'[s] # None => s \in together'
    BY <1>1, <1>2 DEF MemberInv, RequestsAreTrue
  <1>4. \A s \in GroupRequests : asked'[s] # None => AsksWell(asked'[s])
    BY <1>2 DEF MemberInv, RequestsAreTrue
  <1> QED BY <1>2, <1>3, <1>4 DEF RequestsAreTrue, AsksWell

LEMMA MemberInterferes ==
  ASSUME MemberInv, People!Interferes
  PROVE  RequestsAreTrue'
  <1>1. asked' = asked /\ together' = together \cup People!UnderWay
    BY DEF People!Interferes
  <1>2. \A s \in GroupRequests : asked'[s] # None => s \in together'
    BY <1>1 DEF People!UnderWay
  <1> QED BY <1>1, <1>2 DEF MemberInv, RequestsAreTrue, AsksWell

LEMMA SignUpKeeps ==
  ASSUME MemberConstants, MemberInv, NEW u \in Users, NEW g \in Groups, NEW made \in SUBSET Keys,
         People!SignUp(u, g, made)
  PROVE  MemberInv' /\ AdminsStay
  <1>1. /\ level' = [level EXCEPT ![<<u, g>>] = People!ADMIN] /\ groups' = groups \cup {g}
        /\ invitation' = invitation /\ People!Interferes
    BY DEF People!SignUp
  <1>2. People!ADMIN \in AccessLevels /\ People!ADMIN # None /\ People!ADMIN >= People!ADMIN
    BY DEF People!ADMIN, AccessLevels, MemberConstants
  <1>3. LevelsAreTyped'
    BY <1>1, <1>2 DEF MemberInv, LevelsAreTyped
  <1>4. AdminsStay
    BY <1>1, <1>2, OneLevelStays DEF MemberInv
  <1> QED BY <1>1, <1>3, <1>4, MemberInterferes DEF MemberInv

LEMMA DeleteGroupKeeps ==
  ASSUME MemberInv, NEW u \in Users, NEW g \in Groups, People!DeleteGroup(u, g)
  PROVE  MemberInv' /\ AdminsStay
  <1>1. /\ groups' = groups \ {g} /\ People!Interferes
        /\ level' = [ug \in Users \X Groups |-> IF ug[2] = g THEN None ELSE level[ug]]
    BY DEF People!DeleteGroup
  <1>2. invitation' = [i \in DOMAIN invitation |->
          IF invitation[i] # None /\ invitation[i].group = g THEN None ELSE invitation[i]]
    BY DEF People!DeleteGroup, People!Without
  <1>3. LevelsAreTyped'
    BY <1>1, <1>2 DEF MemberInv, LevelsAreTyped, AccessLevels
  <1>4. AdminsStay
    <2>1. SUFFICES ASSUME NEW h \in groups \cap groups'
                   PROVE  People!Admins(h)' = People!Admins(h)
      BY DEF AdminsStay
    <2>2. \A v \in Users : level'[v, h] = level[v, h]
      BY <1>1 DEF MemberInv, LevelsAreTyped
    <2> QED BY <2>2 DEF People!Admins
  <1> QED BY <1>1, <1>3, <1>4, MemberInterferes DEF MemberInv

\* The last admin may go with the account.
LEMMA DeleteUserKeeps ==
  ASSUME MemberInv, NEW u \in Users, DOMAIN account = Users, People!DeleteUser(u)
  PROVE  MemberInv' /\ AdminsStay
  <1>1. /\ groups' = groups /\ People!Interferes /\ account' = [account EXCEPT ![u] = "none"]
        /\ level' = [ug \in Users \X Groups |-> IF ug[1] = u THEN None ELSE level[ug]]
    BY DEF People!DeleteUser
  <1>2. invitation' = [i \in DOMAIN invitation |->
          IF invitation[i] # None /\ u \in { invitation[i].user, invitation[i].by }
          THEN None ELSE invitation[i]]
    BY DEF People!DeleteUser, People!Without
  <1>3. LevelsAreTyped'
    BY <1>1, <1>2 DEF MemberInv, LevelsAreTyped, AccessLevels
  <1>4. AdminsStay
    <2>1. SUFFICES ASSUME NEW h \in groups, NEW v \in People!Admins(h), v # u
                   PROVE  v \in People!Admins(h)'
      BY <1>1 DEF AdminsStay
    <2>2. v \in Users /\ level'[v, h] = level[v, h]
      BY <1>1, <2>1 DEF MemberInv, LevelsAreTyped, People!Admins
    <2>3. level[v, h] # None /\ level[v, h] >= People!ADMIN
      BY <2>1 DEF People!Admins
    <2>4. People!Admins(h)' =
            { x \in Users : level'[x, h] # None /\ level'[x, h] >= People!ADMIN }
      BY DEF People!Admins, People!ADMIN
    <2> QED BY <2>2, <2>3, <2>4
  <1> QED BY <1>1, <1>3, <1>4, MemberInterferes DEF MemberInv

LEMMA BeginRemoveKeeps ==
  ASSUME MemberConstants, MemberInv, NEW r \in GroupRequests, NEW by \in Users, NEW u \in Users,
         NEW g \in Groups, People!BeginRemove(r, by, u, g)
  PROVE  MemberInv' /\ AdminsStay
  <1> DEFINE q == [ kind |-> "remove", user |-> u, group |-> g ]
  <1>1. People!IsAdmin(by, g) /\ People!MayLower(u, by, g) /\ People!Begin(r, q)
    BY DEF People!BeginRemove
  <1>2. OtherAdmin(u, g)
    BY <1>1, AdminIs, OtherRemains DEF MemberInv
  <1>3. AsksWell(q) /\ StillTrue(q)
    BY <1>2 DEF AsksWell, StillTrue
  <1> HIDE DEF q
  <1> QED BY <1>1, <1>3, MemberBegins

LEMMA BeginSetLevelKeeps ==
  ASSUME MemberConstants, MemberInv, NEW r \in GroupRequests, NEW by \in Users, NEW u \in Users,
         NEW g \in Groups, NEW new \in Levels \cup {None},
         People!BeginSetLevel(r, by, u, g, new)
  PROVE  MemberInv' /\ AdminsStay
  <1> DEFINE q == [ kind |-> "level", user |-> u, group |-> g, new |-> new,
                    read |-> level[u, g] ]
  <1>1. /\ People!IsAdmin(by, g) /\ People!Begin(r, q)
        /\ new = None \/ new < People!ADMIN => People!MayLower(u, by, g)
    BY DEF People!BeginSetLevel
  <1>2. new = None \/ new < People!ADMIN => OtherAdmin(u, g)
    BY <1>1, AdminIs, OtherRemains DEF MemberInv
  <1>3. level[u, g] \in AccessLevels
    BY DEF MemberInv, LevelsAreTyped
  <1>4. AsksWell(q) /\ StillTrue(q)
    BY <1>2, <1>3 DEF AsksWell, StillTrue
  <1> HIDE DEF q
  <1> QED BY <1>1, <1>4, MemberBegins

LEMMA BeginInviteKeeps ==
  ASSUME MemberConstants, MemberInv, NEW r \in GroupRequests, NEW by \in Users, NEW u \in Users,
         NEW g \in Groups, NEW new \in Levels, People!BeginInvite(r, by, u, g, new)
  PROVE  MemberInv' /\ AdminsStay
  <1> DEFINE q == [ kind |-> "invite", by |-> by, user |-> u, group |-> g, new |-> new,
                    account |-> account[u], read |-> level[u, g] ]
  <1>1. People!Begin(r, q)
    BY DEF People!BeginInvite
  <1>2. level[u, g] \in AccessLevels
    BY DEF MemberInv, LevelsAreTyped
  <1>3. AsksWell(q) /\ StillTrue(q)
    BY <1>2 DEF AsksWell, StillTrue
  <1> HIDE DEF q
  <1> QED BY <1>1, <1>3, MemberBegins

LEMMA BeginAcceptKeeps ==
  ASSUME MemberInv, NEW r \in GroupRequests, NEW i \in Invitations, People!BeginAccept(r, i)
  PROVE  MemberInv' /\ AdminsStay
  <1> DEFINE row == invitation[i]
             q == [ kind |-> "accept", id |-> i, row |-> row,
                    read |-> level[row.user, row.group] ]
  <1>1. People!Begin(r, q) /\ row \in InvitationRow
    BY DEF People!BeginAccept, MemberInv, LevelsAreTyped
  <1>2. level[row.user, row.group] \in AccessLevels
    BY <1>1 DEF MemberInv, LevelsAreTyped, InvitationRow
  <1> HIDE DEF row
  <1>3. AsksWell(q) /\ StillTrue(q)
    BY <1>1, <1>2 DEF AsksWell, StillTrue
  <1> HIDE DEF q
  <1> QED BY <1>1, <1>3, MemberBegins

LEMMA FinishRemoveKeeps ==
  ASSUME MemberConstants, MemberInv, NEW r \in GroupRequests, People!FinishRemove(r)
  PROVE  MemberInv' /\ AdminsStay
  <1> DEFINE u == asked[r].user
             g == asked[r].group
  <1>1. /\ asked[r] # None /\ asked[r].kind = "remove" /\ People!Finish(r)
        /\ level' = [level EXCEPT ![<<u, g>>] = None]
        /\ groups' = groups /\ invitation' = invitation
    BY DEF People!FinishRemove, People!Asks
  <1>2. u \in Users /\ g \in Groups /\ None \in AccessLevels
    BY <1>1 DEF MemberInv, RequestsAreTrue, AsksWell, AccessLevels
  <1>3. LevelsAreTyped'
    BY <1>1, <1>2 DEF MemberInv, LevelsAreTyped
  <1>4. CASE r \in together
    BY <1>1, <1>3, <1>4, MemberFinishes, OverlappedStays DEF MemberInv, RequestsAreTrue
  <1>5. CASE r \notin together
    <2>1. OtherAdmin(u, g)
      BY <1>1, <1>5 DEF MemberInv, RequestsAreTrue, StillTrue
    <2> HIDE DEF u, g
    <2>2. AdminsStay
      BY <1>1, <1>2, <2>1, OneLevelStays DEF MemberInv
    <2> QED BY <1>1, <1>3, <2>2, MemberFinishes DEF MemberInv
  <1> QED BY <1>4, <1>5

\* A save of a level that a request has computed.
LEMMA SavesKeep ==
  ASSUME MemberConstants, MemberInv, NEW r \in GroupRequests, asked[r] # None,
         People!Finish(r), LevelsAreTyped',
         NEW u \in Users, NEW g \in Groups, NEW new \in AccessLevels,
         level' \in { level, [level EXCEPT ![<<u, g>>] = new] },
         r \notin together /\ level' # level =>
           OtherAdmin(u, g) \/ u \notin People!Admins(g) \/ (new # None /\ new >= People!ADMIN)
  PROVE  MemberInv' /\ AdminsStay
  <1>1. RequestsAreTrue'
    BY MemberFinishes
  <1>2. AdminsStay
    <2>1. CASE r \in together
      BY <2>1, OverlappedStays DEF MemberInv, RequestsAreTrue
    <2>2. CASE level' = level
      BY <2>2, SameLevelsStay
    <2>3. CASE r \notin together /\ level' # level
      BY <2>3, OneLevelStays DEF MemberInv
    <2> QED BY <2>1, <2>2, <2>3
  <1> QED BY <1>1, <1>2 DEF MemberInv

LEMMA FinishSetLevelKeeps ==
  ASSUME MemberConstants, MemberInv, NEW r \in GroupRequests, People!FinishSetLevel(r)
  PROVE  MemberInv' /\ AdminsStay
  <1> DEFINE u == asked[r].user
             g == asked[r].group
             new == asked[r].new
  <1>1. /\ asked[r] # None /\ asked[r].kind = "level" /\ People!Finish(r)
        /\ groups' = groups /\ invitation' = invitation
        /\ level' \in { level, [level EXCEPT ![<<u, g>>] = new] }
    BY DEF People!FinishSetLevel, People!Asks, People!SaveLevel
  <1>2. u \in Users /\ g \in Groups /\ new \in Levels \cup {None}
    BY <1>1 DEF MemberInv, RequestsAreTrue, AsksWell
  <1>3. r \notin together /\ (new = None \/ new < People!ADMIN) => OtherAdmin(u, g)
    BY <1>1 DEF MemberInv, RequestsAreTrue, StillTrue
  <1> HIDE DEF u, g, new
  <1>4. new \in AccessLevels
    BY <1>2 DEF AccessLevels, MemberConstants
  <1>5. LevelsAreTyped'
    BY <1>1, <1>2, <1>4 DEF MemberInv, LevelsAreTyped
  <1>6. new # None /\ ~(new < People!ADMIN) => new >= People!ADMIN
    BY <1>2 DEF MemberConstants, People!ADMIN
  <1> QED BY <1>1, <1>2, <1>3, <1>4, <1>5, <1>6, SavesKeep

\* An invitation does not lower a level.
LEMMA RaisedIs ==
  ASSUME MemberConstants, LevelsAreTyped, NEW u \in Users, NEW g \in Groups, NEW new \in Levels,
         NEW read \in AccessLevels
  PROVE  LET raised == People!Raised(read, new)
         IN /\ raised \in AccessLevels
            /\ read = level[u, g] =>
                 u \notin People!Admins(g) \/ (raised # None /\ raised >= People!ADMIN)
  <1>1. new \in Nat /\ new # None /\ (read # None => read \in Nat)
    BY DEF MemberConstants, AccessLevels
  <1>2. /\ People!Raised(read, new) \in { read, new }
        /\ read # None => People!Raised(read, new) >= read
    BY <1>1 DEF People!Raised
  <1>3. CASE read = None
    <2>1. People!Raised(read, new) = new
      BY <1>3 DEF People!Raised
    <2>2. read = level[u, g] => u \notin People!Admins(g)
      BY <1>3 DEF People!Admins
    <2> HIDE DEF People!Raised, People!Admins
    <2> QED BY <1>1, <2>1, <2>2 DEF AccessLevels
  <1>4. CASE read # None
    <2>1. People!Raised(read, new) \in Nat /\ People!Raised(read, new) # None
      BY <1>1, <1>2, <1>4
    <2>2. read = level[u, g] /\ u \in People!Admins(g) => read >= People!ADMIN
      BY DEF People!Admins
    <2>3. People!ADMIN \in Nat
      BY DEF People!ADMIN
    <2> HIDE DEF People!Raised, People!Admins, People!ADMIN
    <2>4. ASSUME read = level[u, g], u \in People!Admins(g)
          PROVE  People!Raised(read, new) >= People!ADMIN
      <3>1. People!Raised(read, new) >= read
        BY <1>2, <1>4
      <3>2. read >= People!ADMIN
        BY <2>2, <2>4
      <3>3. read \in Int /\ People!Raised(read, new) \in Int /\ People!ADMIN \in Int
        BY <1>1, <1>4, <2>1, <2>3
      <3> QED BY <3>1, <3>2, <3>3
    <2> QED BY <2>1, <2>4 DEF AccessLevels
  <1> QED BY <1>3, <1>4

LEMMA FinishInviteKeeps ==
  ASSUME MemberConstants, MemberInv, NEW r \in GroupRequests, NEW i \in Invitations,
         People!FinishInvite(r, i)
  PROVE  MemberInv' /\ AdminsStay
  <1>1. /\ asked[r] # None /\ asked[r].kind = "invite" /\ People!Finish(r)
        /\ groups' = groups /\ level' = level
        /\ invitation' = [invitation EXCEPT ![i] = People!NewInvitation(asked[r])]
    BY DEF People!FinishInvite, People!Asks
  <1>2. People!NewInvitation(asked[r]) \in InvitationRow
    BY <1>1 DEF MemberInv, RequestsAreTrue, AsksWell, People!NewInvitation, InvitationRow
  <1>3. LevelsAreTyped'
    BY <1>1, <1>2 DEF MemberInv, LevelsAreTyped
  <1> QED BY <1>1, <1>3, MemberFinishes, SameLevelsStay DEF MemberInv

LEMMA FinishAddKeeps ==
  ASSUME MemberConstants, MemberInv, NEW r \in GroupRequests, People!FinishAdd(r)
  PROVE  MemberInv' /\ AdminsStay
  <1> DEFINE u == asked[r].user
             g == asked[r].group
             new == asked[r].new
             read == IF asked[r].read = None THEN level[u, g] ELSE asked[r].read
             raised == People!Raised(read, new)
  <1>1. /\ asked[r] # None /\ asked[r].kind = "invite" /\ People!Finish(r)
        /\ groups' = groups /\ invitation' = invitation
        /\ level' \in { level, [level EXCEPT ![<<u, g>>] = raised] }
    BY DEF People!FinishAdd, People!Asks, People!SaveLevel
  <1>2. u \in Users /\ g \in Groups /\ new \in Levels /\ asked[r].read \in AccessLevels
    BY <1>1 DEF MemberInv, RequestsAreTrue, AsksWell
  <1>3. r \notin together => asked[r].read = level[u, g]
    BY <1>1 DEF MemberInv, RequestsAreTrue, StillTrue
  <1>4. read \in AccessLevels /\ (r \notin together => read = level[u, g])
    BY <1>2, <1>3 DEF MemberInv, LevelsAreTyped
  <1> HIDE DEF u, g, new, read
  <1>5. /\ raised \in AccessLevels
        /\ r \notin together =>
             u \notin People!Admins(g) \/ (raised # None /\ raised >= People!ADMIN)
    BY <1>2, <1>4, RaisedIs DEF MemberInv
  <1> HIDE DEF raised
  <1>6. LevelsAreTyped'
    BY <1>1, <1>2, <1>5 DEF MemberInv, LevelsAreTyped
  <1> QED BY <1>1, <1>2, <1>5, <1>6, SavesKeep

LEMMA FinishAcceptKeeps ==
  ASSUME MemberConstants, MemberInv, NEW r \in GroupRequests, People!FinishAccept(r)
  PROVE  MemberInv' /\ AdminsStay
  <1> DEFINE row == asked[r].row
             u == row.user
             g == row.group
             read == asked[r].read
             raised == People!Raised(read, row.level)
  <1>1. /\ asked[r] # None /\ asked[r].kind = "accept" /\ People!Finish(r)
        /\ groups' = groups
        /\ invitation' = [invitation EXCEPT ![asked[r].id] = [row EXCEPT !.accepted = TRUE]]
        /\ level' \in { level, [level EXCEPT ![<<u, g>>] = raised] }
    BY DEF People!FinishAccept, People!Asks
  <1>2. row \in InvitationRow /\ read \in AccessLevels
    BY <1>1 DEF MemberInv, RequestsAreTrue, AsksWell
  <1>3. u \in Users /\ g \in Groups /\ row.level \in Levels
        /\ [row EXCEPT !.accepted = TRUE] \in InvitationRow
    BY <1>2 DEF InvitationRow
  <1>4. r \notin together => read = level[u, g]
    BY <1>1 DEF MemberInv, RequestsAreTrue, StillTrue
  <1> HIDE DEF u, g, read
  <1>5. /\ raised \in AccessLevels
        /\ r \notin together =>
             u \notin People!Admins(g) \/ (raised # None /\ raised >= People!ADMIN)
    BY <1>2, <1>3, <1>4, RaisedIs DEF MemberInv
  <1> HIDE DEF raised, row
  <1>6. LevelsAreTyped'
    BY <1>1, <1>3, <1>5 DEF MemberInv, LevelsAreTyped
  <1> QED BY <1>1, <1>3, <1>5, <1>6, SavesKeep

MembersKeep == MemberInv /\ DOMAIN account = Users

LEMMA AccountsKeepDomain ==
  ASSUME DOMAIN account = Users, People!Next
  PROVE  DOMAIN account' = Users
  <1>1. CASE People!Accounts
    <2>1. ASSUME NEW u \in Users, NEW g \in Groups, NEW made \in SUBSET Keys,
                 People!SignUp(u, g, made)
          PROVE  DOMAIN account' = Users
      BY <2>1 DEF People!SignUp
    <2>2. ASSUME NEW u \in Users, NEW g \in Groups,
                 People!CreateGroup(u, g) \/ People!DeleteGroup(u, g)
          PROVE  DOMAIN account' = Users
      BY <2>2 DEF People!CreateGroup, People!DeleteGroup
    <2>3. ASSUME NEW u \in Users, People!DeleteUser(u)
          PROVE  DOMAIN account' = Users
      BY <2>3 DEF People!DeleteUser
    <2> QED BY <1>1, <2>1, <2>2, <2>3 DEF People!Accounts
  <1>2. CASE People!Memberships
    <2>1. ASSUME NEW r \in GroupRequests, NEW by \in Users, NEW u \in Users, NEW g \in Groups,
                 \/ People!BeginRemove(r, by, u, g)
                 \/ \E new \in Levels \cup {None} : People!BeginSetLevel(r, by, u, g, new)
          PROVE  account' = account
      BY <2>1 DEF People!BeginRemove, People!BeginSetLevel, People!Begin, People!rows
    <2>2. ASSUME NEW r \in GroupRequests,
                 People!FinishRemove(r) \/ People!FinishSetLevel(r) \/ People!Fail(r)
          PROVE  account' = account
      BY <2>2 DEF People!FinishRemove, People!FinishSetLevel, People!Fail, People!rows
    <2> QED BY <1>2, <2>1, <2>2 DEF People!Memberships
  <1>3. CASE People!Invites
    <2>1. ASSUME NEW r \in GroupRequests, NEW by \in Users, NEW u \in Users, NEW g \in Groups,
                 NEW new \in Levels, People!BeginInvite(r, by, u, g, new)
          PROVE  account' = account
      BY <2>1 DEF People!BeginInvite, People!Begin, People!rows
    <2>2. ASSUME NEW r \in GroupRequests, NEW i \in Invitations,
                 People!FinishInvite(r, i) \/ People!BeginAccept(r, i)
          PROVE  DOMAIN account' = Users
      BY <2>2 DEF People!FinishInvite, People!BeginAccept, People!Begin, People!rows
    <2>3. ASSUME NEW r \in GroupRequests, People!FinishAdd(r) \/ People!FinishAccept(r)
          PROVE  DOMAIN account' = Users
      BY <2>3 DEF People!FinishAdd, People!FinishAccept
    <2>4. ASSUME NEW by \in Users, NEW i \in Invitations, People!Revoke(by, i)
          PROVE  account' = account
      BY <2>4 DEF People!Revoke
    <2> QED BY <1>3, <2>1, <2>2, <2>3, <2>4 DEF People!Invites
  <1>4. CASE People!KeyRequests
    BY <1>4 DEF People!KeyRequests, People!BeginCreateKey, People!Begin, People!FinishCreateKey,
                People!EditKey, People!DeleteKey, People!rows
  <1> QED BY <1>1, <1>2, <1>3, <1>4 DEF People!Next

\* Steps that change no access.
LEMMA OthersKeep ==
  ASSUME MemberInv, level' = level, groups' \subseteq groups \cup Groups,
         invitation' \in [ Invitations -> {None} \cup InvitationRow ],
         People!Interferes \/ \E r \in GroupRequests : asked[r] # None /\ People!Finish(r)
  PROVE  MemberInv' /\ AdminsStay
  <1>1. RequestsAreTrue'
    BY MemberFinishes, MemberInterferes
  <1>2. LevelsAreTyped'
    BY DEF MemberInv, LevelsAreTyped
  <1> QED BY <1>1, <1>2, SameLevelsStay DEF MemberInv

LEMMA AccountsKeep ==
  ASSUME MemberConstants, MembersKeep, People!Accounts
  PROVE  MemberInv' /\ AdminsStay
  <1>1. ASSUME NEW u \in Users, NEW g \in Groups, People!CreateGroup(u, g)
        PROVE  MemberInv' /\ AdminsStay
    BY <1>1, OthersKeep DEF MembersKeep, MemberInv, LevelsAreTyped, People!CreateGroup
  <1> QED BY <1>1, SignUpKeeps, DeleteGroupKeeps, DeleteUserKeeps
          DEF MembersKeep, People!Accounts

LEMMA FailKeeps ==
  ASSUME MemberInv, NEW r \in GroupRequests, People!Fail(r)
  PROVE  MemberInv' /\ AdminsStay
  BY OthersKeep DEF MemberInv, LevelsAreTyped, People!Fail, People!rows

LEMMA MembershipsKeep ==
  ASSUME MemberConstants, MemberInv, People!Memberships
  PROVE  MemberInv' /\ AdminsStay
  BY BeginRemoveKeeps, BeginSetLevelKeeps, FinishRemoveKeeps, FinishSetLevelKeeps, FailKeeps
     DEF People!Memberships

LEMMA InvitesKeep ==
  ASSUME MemberConstants, MemberInv, People!Invites
  PROVE  MemberInv' /\ AdminsStay
  <1>1. ASSUME NEW by \in Users, NEW i \in Invitations, People!Revoke(by, i)
        PROVE  MemberInv' /\ AdminsStay
    <2>1. /\ level' = level /\ groups' = groups /\ People!Interferes
          /\ invitation' = [invitation EXCEPT ![i] = None]
      BY <1>1 DEF People!Revoke
    <2>2. invitation' \in [ Invitations -> {None} \cup InvitationRow ]
      BY <2>1 DEF MemberInv, LevelsAreTyped
    <2> QED BY <2>1, <2>2, OthersKeep
  <1> QED BY <1>1, BeginInviteKeeps, BeginAcceptKeeps, FinishInviteKeeps, FinishAddKeeps,
             FinishAcceptKeeps DEF People!Invites

LEMMA KeyRequestsKeep ==
  ASSUME MemberConstants, MemberInv, People!KeyRequests
  PROVE  MemberInv' /\ AdminsStay
  <1>1. ASSUME NEW r \in GroupRequests, NEW by \in Users, NEW k \in Keys \cup {None},
               NEW g \in Groups, NEW new \in Levels, People!BeginCreateKey(r, by, k, g, new)
        PROVE  MemberInv' /\ AdminsStay
    <2> DEFINE q == [ kind |-> "key", user |-> by, group |-> g, new |-> new ]
    <2>1. People!Begin(r, q)
      BY <1>1 DEF People!BeginCreateKey
    <2>2. AsksWell(q) /\ StillTrue(q)
      BY DEF AsksWell, StillTrue
    <2> HIDE DEF q
    <2> QED BY <2>1, <2>2, MemberBegins
  <1>2. ASSUME NEW r \in GroupRequests, NEW k \in Keys, People!FinishCreateKey(r, k)
        PROVE  MemberInv' /\ AdminsStay
    BY <1>2, OthersKeep DEF MemberInv, LevelsAreTyped, People!FinishCreateKey, People!Asks
  <1>3. ASSUME NEW by \in Users, NEW k \in Keys \cup {None}, NEW edited \in Keys,
               \/ People!DeleteKey(by, k, edited)
               \/ \E g \in Groups, new \in Levels, enabled \in BOOLEAN :
                    People!EditKey(by, k, edited, g, new, enabled)
        PROVE  MemberInv' /\ AdminsStay
    BY <1>3, OthersKeep DEF MemberInv, LevelsAreTyped, People!EditKey, People!DeleteKey
  <1> QED BY <1>1, <1>2, <1>3 DEF People!KeyRequests

LEMMA MembersBegin ==
  ASSUME People!Init
  PROVE  MembersKeep
  BY DEF People!Init, MembersKeep, MemberInv, LevelsAreTyped, AccessLevels, RequestsAreTrue

LEMMA MembersGoOn ==
  ASSUME MemberConstants, MembersKeep, [People!Next]_(People!vars)
  PROVE  MembersKeep' /\ (People!Next => AdminsStay)
  <1>1. CASE People!Next
    <2>1. MemberInv' /\ AdminsStay
      BY <1>1, AccountsKeep, MembershipsKeep, InvitesKeep, KeyRequestsKeep
         DEF People!Next, MembersKeep
    <2> QED BY <1>1, <2>1, AccountsKeepDomain DEF MembersKeep
  <1>2. CASE UNCHANGED People!vars /\ ~People!Next
    <2>1. /\ account' = account /\ groups' = groups /\ level' = level
          /\ invitation' = invitation /\ asked' = asked /\ together' = together
      BY <1>2 DEF People!vars, People!rows
    <2>2. LevelsAreTyped'
      BY <2>1 DEF MembersKeep, MemberInv, LevelsAreTyped
    <2>3. \A q : StillTrue(q)' <=> StillTrue(q)
      BY <2>1 DEF StillTrue, OtherAdmin, People!Admins
    <2>4. RequestsAreTrue'
      BY <2>1, <2>3 DEF MembersKeep, MemberInv, RequestsAreTrue, AsksWell
    <2> QED BY <1>2, <2>1, <2>2, <2>4 DEF MembersKeep, MemberInv
  <1> QED BY <1>1, <1>2

\* However many users, groups and requests there are: a group with an admin keeps
\* one, unless requests overlap or the last one deletes the account
\* (GroupMembershipViewSet).
THEOREM AdminsRemain == People!Spec => LastAdminStays
  <1> USE MemberAssumption
  <1>1. People!Init => MembersKeep
    BY MembersBegin
  <1>2. MembersKeep /\ [People!Next]_(People!vars) => MembersKeep'
    BY MembersGoOn
  <1>3. MembersKeep /\ [People!Next]_(People!vars) => [AdminsStay]_(People!vars)
    BY MembersGoOn
  <1>4. People!Spec => [][AdminsStay]_(People!vars)
    BY <1>1, <1>2, <1>3, PTL DEF People!Spec
  <1> QED BY <1>4 DEF LastAdminStays, People!LastAdminStays, AdminsStay

=============================================================================
