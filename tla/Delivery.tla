-------------------------------- MODULE Delivery --------------------------------
(***************************************************************************)
(* What becomes of the alerts about one Task at those who are to hear of   *)
(* them.  An alert is an Event; when its cause is gone, the row is marked  *)
(* resolved and a second Event is added that resolves it.  Each of the two *)
(* is sent by the methods of the profiles in effect at that moment, once   *)
(* and without a retry; PagerDuty keeps an incident open from one to the   *)
(* other.  The number of Events of a group is limited: whatever is added   *)
(* drops the oldest ones.                                                  *)
(*                                                                         *)
(* An alert is about a subject: an execution whose heartbeats are missing, *)
(* over and over, or a time of the schedule that was missed, once.  What   *)
(* is sent inside a transaction stays sent when that is rolled back.       *)
(***************************************************************************)
EXTENDS Integers, FiniteSets, Functions, FiniteSetsExt

CONSTANTS
  None,         \* NULL
  Silences,     \* subjects that are raised and resolved by transactions
  Misses,       \* subjects that the schedule checker raises, without one
  Profiles,     \* Notification Profiles
  OfTask,       \* those of the Task; the others are its Run Environment's
  MethodsOf,    \* profile -> its Notification Delivery Methods
  Kind,         \* method -> "email", "apprise" or "pagerduty"
  MaxEvents,    \* max_events of the subscription
  MaxRows,      \* bound on the Events that are ever added
  MaxTroubles,  \* bound on calls, transactions and processes that fail
  MaxEdits      \* bound on the changes of the configuration

Subjects == Silences \cup Misses
Methods == UNION { MethodsOf[p] : p \in Profiles }
PagerDuty == { m \in Methods : Kind[m] = "pagerduty" }

VARIABLES
  events,     \* the rows, by the order in which they were added
  added,      \* how many were ever added, or would have been
  met,        \* missed times of the schedule that were made up for
  enabled,    \* profiles and methods that are enabled
  told,       \* Notifications: what was recorded of each attempt to send
  heard,      \* which Events the receivers at each method were told of
  incidents,  \* what is open at PagerDuty, for each method and grouping_key
  troubles, edits,
  unsent,     \* rows whose process died before it sent them
  excused     \* subjects that something has gone wrong with

vars ==
  <<events, added, met, enabled, told, heard, incidents, troubles, edits, unsent, excused>>

Row == 1 .. MaxRows

Event ==
  [ subject  : Subjects,
    at       : Row,                \* event_at
    resolves : Row \cup {None},    \* resolved_event
    resolved : BOOLEAN ]           \* resolved_at is set

SendStatus == { "SUCCEEDED", "FAILED", "RATE_LIMITED", "SKIPPED" }

Existing == DOMAIN events

TypeOK ==
  /\ Existing \subseteq Row /\ events \in [Existing -> Event]
  /\ added \in 0 .. MaxRows
  /\ met \subseteq Misses
  /\ enabled \subseteq Profiles \cup Methods
  /\ told \subseteq [event : Existing, profile : Profiles, method : Methods, status : SendStatus]
  /\ heard \subseteq Row \X Methods
  /\ incidents \subseteq PagerDuty \X Subjects
  /\ unsent \subseteq Row /\ excused \subseteq Subjects

Init ==
  /\ events = <<>> /\ added = 0 /\ met = {}
  /\ enabled \in { some \cup Methods : some \in SUBSET Profiles }
  /\ told = {} /\ heard = {} /\ incidents = {}
  /\ troubles = 0 /\ edits = 0 /\ unsent = {} /\ excused = {}

IsOpen(i) == events[i].resolves = None /\ ~events[i].resolved

\* The latest open alert about s, or None.
OpenAlert(s) ==
  LET open == { i \in Existing : events[i].subject = s /\ IsOpen(i) }
  IN IF open = {} THEN None ELSE Max(open)

-----------------------------------------------------------------------------
(* Sending.                                                                *)

\* A variant that falls back only if the Task has no profiles at all.
Effective_NoneAtAll ==
  LET own == { p \in OfTask : p \in enabled }
  IN IF OfTask # {} THEN own ELSE { p \in Profiles \ OfTask : p \in enabled }

\* Schedulable.send_event_notifications
Effective ==
  LET own == { p \in OfTask : p \in enabled }
  IN IF own # {} THEN own ELSE { p \in Profiles \ OfTask : p \in enabled }

\* A call that raises may have reached the service all the same.
Raises == [ status : {"FAILED"}, heard : BOOLEAN ]
Sent == [ status : {"SUCCEEDED"}, heard : {TRUE} ]

EmailSend == Sent \cup Raises
PagerDutySend == Sent \cup Raises

\* Apprise tells by its result, not by an exception, that it did not succeed.
AppriseSend == Sent \cup Raises \cup [ status : {"SUCCEEDED"}, heard : {FALSE} ]

\* send_if_not_rate_limited, and what is recorded of it.
Results(m) ==
  IF m \notin enabled THEN [ status : {"SKIPPED"}, heard : {FALSE} ]
  ELSE [ status : {"RATE_LIMITED"}, heard : {FALSE} ]
         \cup CASE Kind[m] = "email" -> EmailSend
                [] Kind[m] = "apprise" -> AppriseSend
                [] Kind[m] = "pagerduty" -> PagerDutySend

IsTrouble(result) ==
  result.status # "SKIPPED" /\ ~(result.status = "SUCCEEDED" /\ result.heard)

\* A profile in effect and a method of its own.
Attempts == { a \in Profiles \X Methods : a[1] \in Effective /\ a[2] \in MethodsOf[a[1]] }

\* All that may come of the attempts to send an Event.
Outcomes ==
  { results \in [Attempts -> UNION { Results(m) : m \in Methods }] :
      \A a \in Attempts : results[a] \in Results(a[2]) }

Troubles(results) == Cardinality({ a \in Attempts : IsTrouble(results[a]) })

ReachedBy(results) == { a[2] : a \in { x \in Attempts : results[x].heard } }

\* A variant in which the key of an alert is that of its Task.
GroupingKey_OfTask(s) == CHOOSE x \in Subjects : TRUE

\* grouping_key, the dedup_key of the incident.
GroupingKey(s) == s

\* An alert triggers an incident, a resolution resolves it.
IncidentsAfter(s, resolving, reached) ==
  LET these == (reached \cap PagerDuty) \X {GroupingKey(s)}
  IN IF resolving THEN incidents \ these ELSE incidents \cup these

-----------------------------------------------------------------------------
(* Event.save of a row that is new, which first drops the oldest.          *)

Excess(rows) ==
  IF Cardinality(DOMAIN rows) >= MaxEvents
  THEN Cardinality(DOMAIN rows) - MaxEvents + 1 ELSE 0

\* The ones with the earliest event_at, in any order where that is the same.
Oldest(rows) ==
  { victims \in SUBSET DOMAIN rows :
      /\ Cardinality(victims) = Excess(rows)
      /\ \A v \in victims, u \in DOMAIN rows \ victims : rows[v].at <= rows[u].at }

ResolversOf(rows, v) == { r \in DOMAIN rows : rows[r].resolves = v }

\* What of them really goes when each deletion is committed at once: a row that
\* another one resolves cannot go before that.
Deletable(rows, victims) ==
  { gone \in SUBSET victims :
      \A v \in victims :
        IF ResolversOf(rows, v) = {} THEN v \in gone
        ELSE v \in gone => \A r \in ResolversOf(rows, v) :
                              r \in gone /\ rows[r].at <= rows[v].at }

\* Inside a transaction the database looks only at the commit.
Gone(rows, deferred) ==
  UNION { IF deferred THEN {victims} ELSE Deletable(rows, victims) : victims \in Oldest(rows) }

\* The database refuses the commit if a row resolves one that is not there.
Commits(rows) == \A i \in DOMAIN rows : rows[i].resolves \in DOMAIN rows \cup {None}

\* Open alerts that are dropped can never be resolved.
Dropped(gone) == { events[i].subject : i \in { x \in gone \cap Existing : IsOpen(x) } }

-----------------------------------------------------------------------------
\* The row `event` is added to `rows` as number added + 1 and sent; `lasts`
\* tells whether the changes of the database do.
AddAndSend(rows, event, gone, results, lasts) ==
  LET i == added + 1
      reached == ReachedBy(results)
      after == [x \in (DOMAIN rows \ gone) \cup {i} |-> IF x = i THEN event ELSE rows[x]]
  IN /\ added' = i
     /\ lasts => Commits(after)
     /\ events' = IF lasts THEN after ELSE events
     /\ told' = IF ~lasts THEN told
                ELSE { n \in told : n.event \notin gone }
                       \cup { [ event |-> i, profile |-> a[1], method |-> a[2],
                                status |-> results[a].status ] : a \in Attempts }
     /\ heard' = heard \cup ({i} \X reached)
     /\ incidents' = IncidentsAfter(event.subject, event.resolves # None, reached)
     /\ troubles' = troubles + Troubles(results)
                      + IF ~lasts /\ Commits(after) THEN 1 ELSE 0
     /\ troubles' <= MaxTroubles
     /\ excused' = excused
          \cup (IF ~lasts \/ Troubles(results) > 0 THEN {event.subject} ELSE {})
          \cup (IF lasts THEN Dropped(gone) ELSE {})

AlertAbout(s) ==
  [ subject |-> s, at |-> added + 1, resolves |-> None, resolved |-> FALSE ]

\* The checker finds that heartbeats are missing.
RaiseSilence(s) ==
  /\ added < MaxRows
  /\ OpenAlert(s) = None
  /\ \E gone \in Gone(events, TRUE), results \in Outcomes, lasts \in BOOLEAN :
       AddAndSend(events, AlertAbout(s), gone, results, lasts)
  /\ UNCHANGED <<met, enabled, edits, unsent>>

\* The schedule checker finds that a time was missed.
RaiseMiss(s) ==
  /\ added < MaxRows
  /\ s \notin met /\ OpenAlert(s) = None
  /\ \E gone \in Gone(events, FALSE), results \in Outcomes :
       AddAndSend(events, AlertAbout(s), gone, results, TRUE)
  /\ UNCHANGED <<met, enabled, edits, unsent>>

\* The checker dies between the two: the alert is there, but was not sent.
DieRaisingMiss(s) ==
  /\ added < MaxRows /\ troubles < MaxTroubles
  /\ s \notin met /\ OpenAlert(s) = None
  /\ added' = added + 1 /\ troubles' = troubles + 1
  /\ unsent' = unsent \cup {added'}
  /\ \E gone \in Gone(events, FALSE) :
       /\ events' = [x \in (Existing \ gone) \cup {added'} |->
                       IF x = added' THEN AlertAbout(s) ELSE events[x]]
       /\ told' = { n \in told : n.event \notin gone }
       /\ excused' = excused \cup {s} \cup Dropped(gone)
  /\ UNCHANGED <<met, enabled, heard, incidents, edits>>

\* The rows with alert i marked as resolved.
Resolved(i) == [events EXCEPT ![i].resolved = TRUE]

\* An execution is heard of, or one begins that makes up for the missed time.
Recover(s) ==
  LET alert == OpenAlert(s)
      at == IF s \in Misses THEN events[alert].at ELSE added + 1
  IN /\ added < MaxRows
     /\ alert # None
     /\ \E gone \in Gone(Resolved(alert), TRUE), results \in Outcomes, lasts \in BOOLEAN :
          /\ AddAndSend(Resolved(alert),
               [ subject |-> s, at |-> at, resolves |-> alert, resolved |-> FALSE ],
               gone, results, lasts)
          /\ met' = IF lasts /\ s \in Misses THEN met \cup {s} ELSE met
     /\ UNCHANGED <<enabled, edits, unsent>>

\* The schedule checker finds it first, and works without a transaction.  Its
\* insertion fails at once if the alert was among the oldest rows.
RecoverByChecker(s) ==
  LET alert == OpenAlert(s)
      rows == Resolved(alert)
      resolution ==
        [ subject |-> s, at |-> events[alert].at, resolves |-> alert, resolved |-> FALSE ]
  IN /\ added < MaxRows
     /\ alert # None
     /\ met' = met \cup {s}
     /\ \E gone \in Gone(rows, FALSE) :
          IF alert \notin gone
          THEN /\ \E results \in Outcomes : AddAndSend(rows, resolution, gone, results, TRUE)
               /\ UNCHANGED <<enabled, edits, unsent>>
          ELSE /\ events' = [x \in Existing \ gone |-> rows[x]]
               /\ told' = { n \in told : n.event \notin gone }
               /\ excused' = excused \cup Dropped(gone)
               /\ UNCHANGED <<added, enabled, heard, incidents, troubles, edits, unsent>>

\* Nothing is to be resolved: the alert was dropped, or there never was one.
RecoverQuietly(s) ==
  /\ s \in Misses \ met
  /\ OpenAlert(s) = None
  /\ met' = met \cup {s}
  /\ UNCHANGED <<events, added, enabled, told, heard, incidents, troubles, edits,
                 unsent, excused>>

\* A user enables or disables a profile or a method.
Edit(x) ==
  /\ edits < MaxEdits
  /\ edits' = edits + 1
  /\ enabled' = IF x \in enabled THEN enabled \ {x} ELSE enabled \cup {x}
  /\ excused' = excused \cup { s \in Subjects : OpenAlert(s) # None
                                 \/ \E m \in PagerDuty : <<m, GroupingKey(s)>> \in incidents }
  /\ UNCHANGED <<events, added, met, told, heard, incidents, troubles, unsent>>

Next ==
  \/ \E s \in Silences : RaiseSilence(s)
  \/ \E s \in Misses : RaiseMiss(s) \/ DieRaisingMiss(s) \/ RecoverByChecker(s) \/ RecoverQuietly(s)
  \/ \E s \in Subjects : Recover(s)
  \/ \E x \in Profiles \cup Methods : Edit(x)

Spec == Init /\ [][Next]_vars

-----------------------------------------------------------------------------
(* Properties.                                                             *)

InEffect == { m \in PagerDuty : m \in enabled /\ \E p \in Effective : m \in MethodsOf[p] }

\* Unless something has gone wrong with it, an incident is open at PagerDuty for
\* as long as the alert is: no other alert closes it, and none outlives its own.
IncidentsFollowAlerts ==
  \A s \in Subjects \ excused :
    IF OpenAlert(s) = None
    THEN \A m \in PagerDuty : <<m, s>> \notin incidents
    ELSE \A m \in InEffect : <<m, s>> \in incidents

\* As long as some profile is enabled, of the Task or of its Run Environment, no
\* Event is left without a Notification unless the process has died; and one that
\* says that it was sent was heard, if it was not Apprise that answered.
NotificationsAccount ==
  edits = 0 =>
    \A i \in Existing \ unsent :
      /\ enabled \cap Profiles # {} => \E n \in told : n.event = i
      /\ \A n \in told :
           n.event = i /\ n.status = "SUCCEEDED" /\ Kind[n.method] # "apprise"
             => <<i, n.method>> \in heard

=============================================================================
