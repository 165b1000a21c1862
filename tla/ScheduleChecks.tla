--------------------------- MODULE ScheduleChecks ---------------------------
(***************************************************************************)
(* Noticing that a scheduled Task or Workflow was not executed on time,    *)
(* and that it was after all.  The periodic checker compares the           *)
(* executions in the window around the last expected time with the number  *)
(* that the schedule requires; an execution that is created looks for      *)
(* events that it may resolve.  The checker is not in a transaction: rows  *)
(* that it has read may be changed before it saves them.  The creation of  *)
(* an execution is one, and what it sends to users it sends before it      *)
(* commits.                                                                *)
(*                                                                         *)
(* Time is counted in units of the five minutes that the checker grants.   *)
(***************************************************************************)
EXTENDS Integers, Sequences, FiniteSets

CONSTANTS
  None,           \* NULL
  Schedules,      \* pairs of a kind, cron or rate, and a period
  Required,       \* scheduled_instance_count, at least 1
  Early,          \* DEFAULT_MAX_EARLY_STARTUP_SECONDS
  Late,           \* DEFAULT_MAX_SCHEDULED_LATENESS_SECONDS
  Grace,          \* MIN_DELAY_BETWEEN_EXPECTED_AND_ACTUAL_SECONDS
  Busy,           \* times at which max_concurrency is reached
  Horizon,        \* bound on time
  MaxStarts,      \* bound on the executions that start at one time
  MaxEvents,      \* bound on the events
  MaxUpdates      \* bound on the changes of the schedule

ASSUME SchedulesAssumption == Schedules \subseteq { "cron", "rate" } \X (Nat \ {0})
ASSUME NumbersAssumption ==
  /\ None \notin Nat
  /\ Required \in Nat \ {0}
  /\ {Early, Late, Grace, Horizon, MaxStarts, MaxEvents, MaxUpdates} \subseteq Nat
  /\ Busy \subseteq Nat

Time == 0 .. Horizon

VARIABLES
  now,
  plan,       \* schedule and schedule_updated_at of the Task or Workflow
  updates,    \* how often the schedule was changed
  starts,     \* how many executions started at each time
  events,     \* MissingScheduledExecutionEvents, in the order of creation
  told,       \* what users heard last about each event: missing, found
  check,      \* what the checker has read and not yet acted on
  creation,   \* a transaction that creates an execution and has read events
  failed      \* some creation of an execution has failed

vars == <<now, plan, updates, starts, events, told, check, creation, failed>>

Event ==
  [ schedule : Schedules,
    expected : Time,                         \* expected_execution_at
    missing  : 0 .. Required,    \* missing_execution_count
    resolved : BOOLEAN,                      \* resolved_at is set
    answered : BOOLEAN ]                     \* another event has it as resolved_event

Plan == [ schedule : Schedules, updated : Time ]

Window == [ expected : Time, from : Int, to : Int ]

Check ==
  [ plan : Plan, window : Window, missing : Int,
    event : Nat \cup {None}, row : Event \cup {None} ]

Events == 1 .. Len(events)

TypeOK ==
  /\ now \in Time
  /\ plan \in Plan
  /\ updates \in 0 .. MaxUpdates
  /\ starts \in [Time -> 0 .. MaxStarts]
  /\ events \in Seq(Event) /\ Len(events) <= MaxEvents
  /\ told \in Seq({ "missing", "found" }) /\ Len(told) = Len(events)
  /\ check \in Check \cup {None}
  /\ check # None /\ check.event # None => check.event \in Events /\ check.row \in Event
  /\ creation # None =>
       /\ creation.plan \in Plan /\ creation.start \in 0 .. now
       /\ DOMAIN creation.read \subseteq Events
       /\ creation.read \in [DOMAIN creation.read -> Event]
       /\ starts[creation.start] < MaxStarts
  /\ failed \in BOOLEAN

Init ==
  /\ now = 0 /\ updates = 0
  /\ plan \in [ schedule : Schedules, updated : {0} ]
  /\ starts = [t \in Time |-> 0]
  /\ events = <<>> /\ told = <<>>
  /\ check = None /\ creation = None
  /\ failed = FALSE

-----------------------------------------------------------------------------
\* The last time in the past that the cron expression matches.
Previous(period) == ((now - 1) \div period) * period

\* execution_time_range: the window of the execution expected last, None if it
\* is too early to tell.
TimeRange(p) ==
  LET kind == p.schedule[1]
      period == p.schedule[2]
      expected == IF kind = "cron" THEN Previous(period) ELSE now
      tooEarly == IF kind = "cron" THEN now - expected < Grace ELSE p.updated + period > now
  IN IF tooEarly \/ expected < p.updated THEN None
     ELSE IF kind = "cron"
     THEN [expected |-> expected, from |-> expected - Early, to |-> expected + Late]
     ELSE [expected |-> now, from |-> now - period - Early, to |-> now]

\* The executions that started in a window, numbered at each time.
StartedIn(window, rows) ==
  { x \in Time \X (1 .. MaxStarts) :
      window.from <= x[1] /\ x[1] <= window.to /\ x[2] <= rows[x[1]] }

CountIn(window, rows) == Cardinality(StartedIn(window, rows))

Missing(window, rows) == Required - CountIn(window, rows)

\* lookup_missing_scheduled_execution_events
Open(p) == { i \in Events : ~events[i].resolved /\ events[i].schedule = p.schedule }

\* A variant that takes up events of later times only.
Existing_Later(p, window) == { i \in Open(p) : events[i].expected > window.from }

\* The events that check_executions takes to be about this window.
Existing(p, window) ==
  { i \in Open(p) : IF p.schedule[1] = "cron" THEN events[i].expected = window.expected
                 ELSE events[i].expected >= window.from }

\* The latest of them, if there is one.
Latest(found) ==
  IF found = {} THEN {None}
  ELSE { i \in found : \A j \in found :
           events[i].expected > events[j].expected
             \/ (events[i].expected = events[j].expected /\ i >= j) }

Idle == check = None

-----------------------------------------------------------------------------
(* The checker.                                                            *)

\* check_executions reads: the executions in the window, the event about it.
CheckReads ==
  LET window == TimeRange(plan)
      found == Existing(plan, window)
  IN /\ Idle
     /\ window # None
     /\ found # {} \/ Len(events) < MaxEvents
     /\ \E i \in Latest(found) :
          check' = [ plan |-> plan,
                     window |-> window,
                     missing |-> Missing(window, starts),
                     event |-> i,
                     row |-> IF i = None THEN None ELSE events[i] ]
     /\ UNCHANGED <<now, plan, updates, starts, events, told, creation, failed>>

\* Whether as many executions as are allowed ran at that time (concurrency_at).
\* How long executions run is not modelled: those times are a constant.
AtLimit(time) == time \in Busy

\* Nothing is saved: the event says so already, nothing is missing, or as many
\* executions were running as are allowed.  The count of an event is a
\* PositiveIntegerField: the database refuses a negative one, which is logged.
NothingToDo ==
  IF check.event # None THEN check.missing = check.row.missing \/ check.missing < 0
  ELSE check.missing <= 0 \/ AtLimit(check.window.expected)

CheckPasses ==
  /\ check # None /\ NothingToDo
  /\ check' = None
  /\ UNCHANGED <<now, plan, updates, starts, events, told, creation, failed>>

\* The event of an expected time, which the summary that users read is made of.
NewEvent(schedule, expected, missing) ==
  [ schedule |-> schedule, expected |-> expected, missing |-> missing,
    resolved |-> FALSE, answered |-> FALSE ]

\* An event is created and sent.
CheckRaises ==
  /\ check # None /\ ~NothingToDo
  /\ check.event = None
  /\ events' = Append(events,
       NewEvent(check.plan.schedule, check.window.expected, check.missing))
  /\ told' = Append(told, "missing")
  /\ check' = None
  /\ UNCHANGED <<now, plan, updates, starts, creation, failed>>

\* A variant that saves the event and leaves it unresolved.
SavedByCheck_Open(row, missing) == [row EXCEPT !.missing = missing]

\* The event as read, with a new count: what others have saved since is lost.
SavedByCheck(row, missing) ==
  [row EXCEPT !.missing = missing, !.resolved = @ \/ missing = 0]

\* A variant that sends nothing when the count of an event changes.
Sent_OnlyNew == "nothing"

\* What check_execution_on_time sends last: the event itself, resolved or not.
Sent == "missing"

\* An event is updated, and answered by a resolving event unless it is already:
\* the database refuses the second answer, and the checker logs it.
CheckUpdates ==
  LET i == check.event
      saved == SavedByCheck(check.row, check.missing)
      refused == saved.resolved /\ events[i].answered
  IN /\ check # None /\ ~NothingToDo
     /\ i # None
     /\ events' = [events EXCEPT ![i] =
                     [saved EXCEPT !.answered = events[i].answered \/ saved.resolved]]
     /\ told' = IF refused \/ Sent = "nothing" THEN told ELSE [told EXCEPT ![i] = Sent]
     /\ check' = None
     /\ UNCHANGED <<now, plan, updates, starts, creation, failed>>

-----------------------------------------------------------------------------
(* The creation of an execution, which says when it has started.           *)

\* resolve_missing_scheduled_execution_events reads the open events.
CreationReads(start) ==
  /\ creation = None
  /\ start <= now /\ starts[start] < MaxStarts
  /\ creation' = [plan |-> plan, start |-> start, read |-> [i \in Open(plan) |-> events[i]]]
  /\ UNCHANGED <<now, plan, updates, starts, events, told, check, failed>>

Rows == [starts EXCEPT ![creation.start] = @ + 1]

\* A variant that takes the creation to be what was missing.
SavedByCreation_Own(row) ==
  IF creation.start - row.expected >= Late \/ row.missing > 1 THEN row
  ELSE [row EXCEPT !.missing = 0, !.resolved = TRUE, !.answered = TRUE]

\* The event after the creation: its count is that of the window expected last,
\* whatever time the event itself is about.
SavedByCreation(row) ==
  LET window == TimeRange(creation.plan)
      missing == Missing(window, Rows)
  IN IF creation.start - row.expected >= Late \/ window = None THEN row
     ELSE [row EXCEPT !.missing = missing,
                      !.resolved = missing = 0, !.answered = missing = 0]

Changed ==
  { i \in DOMAIN creation.read :
      SavedByCreation(creation.read[i]).missing # creation.read[i].missing }

Answered == { i \in Changed : SavedByCreation(creation.read[i]).resolved }

\* The database refuses another answer to the same event, and a negative count.
Refused ==
  { i \in Answered : events[i].answered }
    \cup { i \in Changed : SavedByCreation(creation.read[i]).missing < 0 }

CreationCommits ==
  /\ creation # None
  /\ Refused = {}
  /\ starts' = Rows
  /\ events' = [i \in Events |->
                  IF i \in Changed
                  THEN [SavedByCreation(creation.read[i]) EXCEPT
                          !.answered = @ \/ events[i].answered]
                  ELSE events[i]]
  /\ told' = [i \in Events |-> IF i \in Answered THEN "found" ELSE told[i]]
  /\ creation' = None
  /\ UNCHANGED <<now, plan, updates, check, failed>>

\* The request fails and is rolled back, with the execution it creates.  The
\* events taken up before the one that is refused have been sent by then.
CreationFails ==
  /\ creation # None
  /\ Refused # {}
  /\ \E sent \in SUBSET (Answered \ Refused) :
       told' = [i \in Events |-> IF i \in sent THEN "found" ELSE told[i]]
  /\ creation' = None
  /\ failed' = TRUE
  /\ UNCHANGED <<now, plan, updates, starts, events, check>>

-----------------------------------------------------------------------------
\* A user changes the schedule (synchronize_with_run_environment notes when).
Reschedule(s) ==
  /\ s # plan.schedule
  /\ updates < MaxUpdates
  /\ plan' = [schedule |-> s, updated |-> now]
  /\ updates' = updates + 1
  /\ UNCHANGED <<now, starts, events, told, check, creation, failed>>

Tick ==
  /\ now < Horizon
  /\ now' = now + 1
  /\ UNCHANGED <<plan, updates, starts, events, told, check, creation, failed>>

CheckStep == CheckReads \/ CheckPasses \/ CheckRaises \/ CheckUpdates

Next ==
  \/ CheckStep
  \/ \E start \in Time : CreationReads(start)
  \/ CreationCommits \/ CreationFails
  \/ \E s \in Schedules : Reschedule(s)
  \/ Tick

Spec == Init /\ [][Next]_vars

\* The checker goes on, and requests end; nobody has to start anything.
FairSpec == Spec /\ WF_vars(CheckStep) /\ WF_vars(CreationCommits \/ CreationFails)

-----------------------------------------------------------------------------
(* Properties.                                                             *)

\* Two open events are never about the same time of the same schedule.
OneEventPerTime ==
  \A i, j \in Open(plan) : events[i].expected = events[j].expected => i = j

\* Whoever has an open event was told so, and last of all, unless a creation has
\* sent what it has then rolled back.
OpenIsTold == failed \/ \A i \in Events : ~events[i].resolved => told[i] = "missing"

\* Whatever resolved an event, as many executions as required have started since
\* the time from which they count.
ResolvedMeansStarted ==
  \A i \in Events :
    LET e == events[i]
        from == e.expected - Early - (IF e.schedule[1] = "rate" THEN e.schedule[2] ELSE 0)
    IN e.resolved => CountIn([from |-> from, to |-> now], starts) >= Required

\* What users were told of an event is so: it is open, or enough have started
\* (ScheduleChecker.check_executions, post_save_task_execution).
EventsAreTrue == OpenIsTold /\ ResolvedMeansStarted

\* The event about the time expected last, and the number still missing is n.
LastLacks(i, n) ==
  LET window == TimeRange(plan)
  IN i \in Events /\ window # None
     /\ i \in Existing(plan, window) /\ Missing(window, starts) = n

\* When just enough executions have started, it does not stay open, unless
\* another time is expected or the schedule changes.
EnoughResolves == \A i \in 1 .. MaxEvents : LastLacks(i, 0) ~> ~LastLacks(i, 0)

=============================================================================
