------------------------- MODULE ServiceConcurrency -------------------------
(***************************************************************************)
(* Noticing that a service has fewer Task Executions running than it must. *)
(* The checker looks back over a window of time: it counts, at every       *)
(* instant of it, the executions whose rows say that they ran then, and    *)
(* raises an event if there ever were too few.  Meanwhile executions       *)
(* start, are told to stop and end, the service is set up again or is no   *)
(* longer watched, and users resolve, reopen and delete events.            *)
(*                                                                         *)
(* Executions start and end at instants, so that a count that is right at  *)
(* every instant of the model's time is right in between.                  *)
(***************************************************************************)
EXTENDS Integers, Sequences, SequencesExt, FiniteSets

CONSTANTS
  None,          \* NULL
  Executions,
  Lookback,      \* LOOKBACK_DURATION_SECONDS
  Startup,       \* time granted before executions are expected
  MaxRequired,   \* bound on min_service_instance_count
  MaxGap,        \* time within which the checker passes again
  MaxEvents,     \* bound on the events that exist
  Horizon        \* bound on time

VARIABLES
  now,
  service,     \* what it requires, whether it is watched, when it was set up
  execution,   \* the rows of its Task Executions
  events,      \* InsufficientServiceTaskExecutionsEvents in the order of
               \* detection: is resolved_at set
  checked      \* when the checker has last passed

vars == <<now, service, execution, events, checked>>

Init ==
  /\ now = 0 /\ checked = 0
  /\ service \in [ required : 1 .. MaxRequired, watched : {TRUE}, since : {0} ]
  /\ execution = [e \in Executions |-> None]
  /\ events = <<>>

-----------------------------------------------------------------------------
(* The checker.                                                            *)

FirstExpected == service.since + Startup

WindowStart ==
  IF now - Lookback > FirstExpected THEN now - Lookback ELSE FirstExpected

Window == WindowStart .. now

\* The query: neither finished nor given up nor told to stop before the window.
Selected(e) ==
  /\ execution[e] # None
  /\ \A time \in { execution[e].finished, execution[e].stopped } :
       time = None \/ time >= WindowStart

DoneAt(e) ==
  IF execution[e].finished # None THEN execution[e].finished ELSE execution[e].stopped

\* A variant with the interval closed at its end.
CountsAt_Closed(e, instant) ==
  /\ execution[e].started <= instant
  /\ DoneAt(e) # None => instant <= DoneAt(e)

\* The interval of an execution contains its start, and not its end.
CountsAt(e, instant) ==
  /\ execution[e].started <= instant
  /\ DoneAt(e) # None => instant < DoneAt(e)

Concurrency(instant) ==
  Cardinality({ e \in Executions : Selected(e) /\ CountsAt(e, instant) })

FoundShort == \E instant \in Window : Concurrency(instant) < service.required

\* One event until it is resolved.
Raised ==
  IF events = <<>> \/ Last(events) THEN Append(events, FALSE) ELSE events

\* Each event still open is resolved by another one, which is closed at once.
Resolved ==
  [i \in 1 .. Len(events) |-> TRUE]
    \o [i \in 1 .. Cardinality({ k \in 1 .. Len(events) : ~events[k] }) |-> TRUE]

Check ==
  /\ service.watched
  /\ checked' = now
  /\ IF WindowStart >= now THEN UNCHANGED events
     ELSE /\ events' = IF FoundShort THEN Raised ELSE Resolved
          /\ Len(events') <= MaxEvents
  /\ UNCHANGED <<now, service, execution>>

-----------------------------------------------------------------------------
(* The executions of the service, and its users.                           *)

Start(e) ==
  /\ execution[e] = None
  /\ execution' = [execution EXCEPT
       ![e] = [ started |-> now, stopped |-> None, finished |-> None ]]
  /\ UNCHANGED <<now, service, events, checked>>

\* marked_done_at or kill_started_at, whichever is set first.
Stop(e) ==
  /\ execution[e] # None /\ execution[e].stopped = None /\ execution[e].finished = None
  /\ execution' = [execution EXCEPT ![e].stopped = now]
  /\ UNCHANGED <<now, service, events, checked>>

Finish(e) ==
  /\ execution[e] # None /\ execution[e].finished = None
  /\ execution' = [execution EXCEPT ![e].finished = now]
  /\ UNCHANGED <<now, service, events, checked>>

\* The service is set up, changed, enabled or disabled.
EditService ==
  /\ \E required \in 1 .. MaxRequired, watched \in BOOLEAN, since \in { service.since, now } :
       service' = [ required |-> required, watched |-> watched, since |-> since ]
  /\ checked' = IF service.watched THEN checked ELSE now
  /\ UNCHANGED <<now, execution, events>>

\* EventViewSet: users may report an event themselves.
CreateEvent ==
  /\ Len(events) < MaxEvents
  /\ \E resolved \in BOOLEAN : events' = Append(events, resolved)
  /\ UNCHANGED <<now, service, execution, checked>>

EditEvent(i) ==
  /\ \/ events' = [events EXCEPT ![i] = ~@]
     \/ events' = RemoveAt(events, i)
  /\ UNCHANGED <<now, service, execution, checked>>

\* The checker passes again before its window has moved past what it has seen.
Tick ==
  /\ now < Horizon
  /\ service.watched => now < checked + MaxGap
  /\ now' = now + 1
  /\ UNCHANGED <<service, execution, events, checked>>

Next ==
  \/ Check \/ EditService \/ CreateEvent \/ Tick
  \/ \E e \in Executions : Start(e) \/ Stop(e) \/ Finish(e)
  \/ \E i \in 1 .. Len(events) : EditEvent(i)

Spec == Init /\ [][Next]_vars

-----------------------------------------------------------------------------
(* Properties.                                                             *)

\* Running, by what the platform did: from the start to the end, or to when it
\* was told to stop.
RunningAt(e, instant, untilStopped) ==
  /\ execution[e] # None /\ execution[e].started <= instant
  /\ execution[e].finished = None \/ instant < execution[e].finished
  /\ untilStopped /\ execution[e].stopped # None => instant < execution[e].stopped

ShortAt(instant, untilStopped) ==
  Cardinality({ e \in Executions : RunningAt(e, instant, untilStopped) }) < service.required

\* Every instant since the last pass at which executions were expected and fewer
\* ran than required leaves an event open: the window reaches back far enough,
\* and no execution counts at an instant at which it did not run.  And an event is
\* raised only if fewer than required ran, not told to stop, at some instant of the
\* window: neither an execution that takes over from another without a gap, nor one
\* that ends as it is looked at, is a reason (ServiceConcurrencyChecker.check_service).
ReportsAreRight ==
  [][ Check =>
        /\ (\E instant \in checked .. now - 1 :
              instant >= FirstExpected /\ ShortAt(instant, FALSE))
             => events' # <<>> /\ ~Last(events')
        /\ Len(events') > Len(events) /\ ~Last(events')
             => \E instant \in now - Lookback .. now :
                  instant >= FirstExpected /\ ShortAt(instant, TRUE) ]_vars

=============================================================================
