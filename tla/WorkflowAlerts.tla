---------------------------- MODULE WorkflowAlerts ----------------------------
(***************************************************************************)
(* Telling users how one execution of a Workflow has ended, when it may    *)
(* end several times: users, and the handler of a timeout, retry it, or    *)
(* start some of its nodes again.  What was told of an earlier attempt is  *)
(* resolved then.  Events are looked up by the execution they are about,   *)
(* those of other executions of the Workflow play no role.                 *)
(*                                                                         *)
(* The save that ends the execution holds the lock on its row when it      *)
(* looks at the events; a restart has read the events before it saves the  *)
(* row, and the checker of postponed events does not touch that row at     *)
(* all.  Both write whole rows of events as they have read and changed     *)
(* them.                                                                   *)
(***************************************************************************)
EXTENDS Integers, FiniteSets, Sequences, SequencesExt

CONSTANTS
  None,             \* NULL
  Processes,        \* threads of the server, and its checker
  Severity,         \* status -> notification_event_severity_on_..., or None
  PostponeSeconds,  \* status -> postponed_..._before_success_seconds, or None
  PostponeCount,    \* status -> max_postponed_..._count
  RequiredSuccesses,  \* required_success_count_to_clear_failure, or None
  MaxAttempts,      \* bound on the attempts
  MaxSwitches       \* bound on how often the Workflow is disabled or enabled

VARIABLES
  status,     \* of the workflow execution
  attempt,    \* how often it was started, or started again
  alerts,     \* WorkflowExecutionStatusChangeEvents, in order of creation
  enabled,    \* the Workflow is enabled
  work,       \* what each process has read and is to save
  told,       \* how often each alert was sent
  contended,  \* alerts one process wrote after another had looked for them
  silent,     \* a restart failed before the row said that it runs
  switches

vars == <<status, attempt, alerts, enabled, work, told, contended, silent, switches>>

Ended == { "SUCCEEDED", "FAILED", "TERMINATED_AFTER_TIME_OUT", "STOPPED" }

Alert ==
  [ status    : Ended \cup {"RUNNING"},
    attempt   : 1 .. MaxAttempts,
    left      : Nat \cup {None},  \* until postponed_until
    same      : Nat,              \* count_with_same_status_after_postponement
    successes : Nat,              \* count_with_success_status_after_postponement
    triggered : BOOLEAN,
    resolved  : BOOLEAN,
    resolving : BOOLEAN ]         \* it says that another one is resolved

Busy(p) == work[p] # None

TypeOK ==
  /\ status \in Ended \cup {"RUNNING"} /\ attempt \in 1 .. MaxAttempts
  /\ alerts \in Seq(Alert) /\ DOMAIN told = DOMAIN alerts
  /\ \A p \in Processes : Busy(p) => /\ work[p].job \in { "end", "restart", "check" }
                                     /\ DOMAIN work[p].read \subseteq DOMAIN alerts
  /\ contended \subseteq DOMAIN alerts /\ silent \in BOOLEAN /\ enabled \in BOOLEAN

Init ==
  /\ status = "RUNNING" /\ attempt = 1
  /\ alerts = <<>> /\ told = <<>>
  /\ enabled = TRUE /\ switches = 0
  /\ work = [p \in Processes |-> None]
  /\ contended = {} /\ silent = FALSE

-----------------------------------------------------------------------------
\* Ends of a kind that has no setting are errors.
SeverityOf(s) == IF s = "STOPPED" THEN 500 ELSE Severity[s]

Postpones(s) == s # "STOPPED" /\ PostponeCount[s] > 0 /\ PostponeSeconds[s] # None

NewAlert(s, n) ==
  [ status |-> s, attempt |-> n, same |-> 0, successes |-> 0, resolving |-> FALSE,
    left |-> IF Postpones(s) THEN PostponeSeconds[s] ELSE None,
    triggered |-> ~Postpones(s), resolved |-> FALSE ]

\* The event that tells of the resolution of another has the status that the
\* execution has at that time.
Resolving(s) ==
  [ status |-> s, attempt |-> attempt, same |-> 0, successes |-> 0, resolving |-> TRUE,
    left |-> None, triggered |-> FALSE, resolved |-> TRUE ]

\* A variant that only regards alerts that are open.
IsTold_Open(s) == \E a \in DOMAIN alerts : alerts[a].status = s /\ ~alerts[a].resolved

\* should_create_status_change_event: any event about that execution and
\* status, be it resolved, or about a resolution.
IsTold(s) == \E a \in DOMAIN alerts : alerts[a].status = s

Creates(s) == enabled /\ ~IsTold(s) /\ SeverityOf(s) # None

\* update_after_postponed
After(alert, s) ==
  IF s = "SUCCEEDED"
  THEN [alert EXCEPT !.successes = @ + 1,
          !.resolved = RequiredSuccesses # None /\ alert.successes + 1 >= RequiredSuccesses]
  ELSE IF s = alert.status
  THEN [alert EXCEPT !.same = @ + 1, !.triggered = alert.same + 1 >= PostponeCount[s]]
  ELSE alert

Open(a) == ~alerts[a].resolved /\ ~alerts[a].triggered

Postponed == { a \in DOMAIN alerts : Open(a) /\ alerts[a].left # None /\ alerts[a].left > 0 }

-----------------------------------------------------------------------------
(* Reading.                                                                *)

Load(p, job, to, read) ==
  /\ ~Busy(p)
  /\ work' = [work EXCEPT ![p] =
                [job |-> job, loaded |-> status, to |-> to, read |-> [a \in read |-> alerts[a]]]]
  /\ UNCHANGED <<status, attempt, alerts, enabled, told, contended, silent, switches>>

\* A node has ended, a user stops the execution or its time is over.
EndBegins(p, s) ==
  status = "RUNNING" /\ Load(p, "end", s, {})

\* A variant that leaves alone what is postponed still.
Unresolved_Told == { a \in DOMAIN alerts : ~alerts[a].resolved /\ alerts[a].triggered }

\* What resolve_status_change_events looks for.
Unresolved == { a \in DOMAIN alerts : ~alerts[a].resolved }

\* retry, or start_task_instance_executions.  It may raise, and fail.
RestartBegins(p, to) ==
  /\ attempt < MaxAttempts
  /\ Load(p, "restart", to, Unresolved)

CheckBegins(p, a) ==
  /\ \A q \in Processes : Busy(q) => work[q].job # "check"
  /\ Open(a) /\ alerts[a].left = 0
  /\ Load(p, "check", None, {a})

-----------------------------------------------------------------------------
(* Committing.                                                             *)

\* Alerts are appended, written as `saved` has them, and those in `sent` sent.
Save(p, saved, new, sent) ==
  LET others == Processes \ {p}
  IN /\ alerts' =
          [a \in DOMAIN alerts |-> IF a \in DOMAIN saved THEN saved[a] ELSE alerts[a]] \o new
     /\ told' = [a \in DOMAIN alerts' |->
                   (IF a \in DOMAIN told THEN told[a] ELSE 0) + IF a \in sent THEN 1 ELSE 0]
     /\ contended' = contended
          \cup { a \in DOMAIN saved : \E q \in others : Busy(q) /\ a \in DOMAIN work[q].read }
          \cup { a \in DOMAIN alerts' \ DOMAIN alerts :
                   \E q \in others : Busy(q) /\ work[q].job = "restart" }
     /\ work' = [work EXCEPT ![p] = None]

\* post_save_workflow_execution, when the execution was in progress and ends.
CommitEnd(p) ==
  LET s == work[p].to
      saved == [a \in IF enabled THEN Postponed ELSE {} |-> After(alerts[a], s)]
      new == IF Creates(s) THEN << NewAlert(s, attempt) >> ELSE <<>>
  IN /\ Busy(p) /\ work[p].job = "end"
     /\ Save(p, saved, new,
             { a \in DOMAIN saved : saved[a].triggered }
               \cup { Len(alerts) + i : i \in { j \in DOMAIN new : new[j].triggered } })
     /\ status' = s
     /\ UNCHANGED <<attempt, enabled, silent, switches>>

\* Each event found is resolved, and that is told.  A retry that raises has
\* never saved that the execution runs: unless it did before, that is no end.
CommitRestart(p) ==
  LET w == work[p]
      saved == [a \in DOMAIN w.read |-> [w.read[a] EXCEPT !.resolved = TRUE]]
      n == Cardinality(DOMAIN saved)
      ends == w.to = "FAILED" /\ w.loaded = "RUNNING"
      new == [i \in 1 .. n |-> Resolving(w.loaded)]
               \o IF ends /\ Creates("FAILED") THEN << NewAlert("FAILED", attempt + 1) >> ELSE <<>>
  IN /\ Busy(p) /\ w.job = "restart"
     /\ attempt < MaxAttempts
     /\ attempt' = attempt + 1
     /\ Save(p, saved, new, { Len(alerts) + i : i \in
                 { j \in DOMAIN new : new[j].resolving \/ new[j].triggered } })
     /\ status' = w.to
     /\ silent' = (silent \/ (w.to = "FAILED" /\ ~ends))
     /\ UNCHANGED <<enabled, switches>>

\* check_event
CommitCheck(p) ==
  LET w == work[p]
      saved == [a \in DOMAIN w.read |->
                  IF enabled THEN [w.read[a] EXCEPT !.triggered = TRUE]
                  ELSE [w.read[a] EXCEPT !.resolved = TRUE]]
  IN /\ Busy(p) /\ w.job = "check"
     /\ Save(p, saved, <<>>, IF enabled THEN DOMAIN saved ELSE {})
     /\ UNCHANGED <<status, attempt, enabled, silent, switches>>

Tick ==
  /\ \E a \in DOMAIN alerts : alerts[a].left \notin {None, 0}
  /\ alerts' = [a \in DOMAIN alerts |->
                  [alerts[a] EXCEPT !.left = IF @ \in {None, 0} THEN @ ELSE @ - 1]]
  /\ work' = [p \in Processes |->
       IF ~Busy(p) THEN None
       ELSE [work[p] EXCEPT !.read =
               [a \in DOMAIN @ |-> [@[a] EXCEPT !.left = alerts'[a].left]]]]
  /\ UNCHANGED <<status, attempt, enabled, told, contended, silent, switches>>

Toggle ==
  /\ switches < MaxSwitches
  /\ switches' = switches + 1
  /\ enabled' = ~enabled
  /\ UNCHANGED <<status, attempt, alerts, work, told, contended, silent>>

Next ==
  \/ \E p \in Processes :
       \/ \E s \in Ended : EndBegins(p, s)
       \/ \E to \in { "RUNNING", "FAILED" } : RestartBegins(p, to)
       \/ \E a \in DOMAIN alerts : CheckBegins(p, a)
       \/ CommitEnd(p) \/ CommitRestart(p) \/ CommitCheck(p)
  \/ Tick
  \/ Toggle

Spec == Init /\ [][Next]_vars

-----------------------------------------------------------------------------
\* Once an execution is started again, no alert about an earlier attempt is
\* open, unless another process was writing it, or creating it, at that time.
RestartResolves ==
  \A a \in DOMAIN alerts \ contended :
    alerts[a].attempt < attempt => alerts[a].resolved

\* However often an execution fails, users hear of it once: no second event is
\* created, and none is sent twice, unless two processes had read it.
EachEndOnce ==
  /\ \A s \in Ended :
       Cardinality({ a \in DOMAIN alerts : alerts[a].status = s /\ ~alerts[a].resolving }) <= 1
  /\ \A a \in DOMAIN alerts \ contended : told[a] <= 1

\* An end that users want to hear of has left an event, or one about an earlier
\* end of that kind was there, unless it was a restart that failed.
EndIsTold ==
  (status \in Ended /\ SeverityOf(status) # None /\ switches = 0 /\ ~silent) => IsTold(status)

\* Users hear of each kind of end of an execution, and hear of it once
\* (Execution.should_create_status_change_event).
KindsAreToldOnce == EachEndOnce /\ EndIsTold

=============================================================================
