---------------------------- MODULE Notifications ----------------------------
(***************************************************************************)
(* Telling users how executions of one Task (or Workflow) have ended:      *)
(* events that are postponed, in the hope that the next execution          *)
(* succeeds, that later ends resolve or bring forward and the periodic     *)
(* checker triggers when their time has come; and a delivery method that   *)
(* limits how many notifications it sends in a period.                     *)
(*                                                                         *)
(* Several processes work at once: requests that end an execution, the     *)
(* checker, and users who edit an event.  Each reads rows, later reads the *)
(* counters of the delivery method and sends, and later still commits,     *)
(* writing whole rows as it has read and changed them.  What is sent       *)
(* cannot be taken back; what is not committed is lost.                    *)
(*                                                                         *)
(* Timestamps that lie ahead are kept as the time that is left, those that *)
(* lie behind as ages, so that time itself has no bound.                   *)
(***************************************************************************)
EXTENDS Integers, FiniteSets, Sequences

CONSTANTS
  None,             \* NULL
  Processes,        \* threads of the server, and its checker
  Severity,         \* status -> notification_event_severity_on_..., or None
  PostponeSeconds,  \* status -> postponed_..._before_success_seconds, or None
  PostponeCount,    \* status -> max_postponed_..._count
  RequiredSuccesses,  \* required_success_count_to_clear_failure, or None
  SameExecution,    \* events are looked up by the execution, not its Task
  MaxSeverity,      \* max_severity of the tier of the rate limit
  MaxRequests,      \* max_requests_per_period
  Period,           \* request_period_seconds
  MaxEnds,          \* bound on the executions that end
  MaxEdits,         \* bound on the edits users make
  MaxCrashes        \* bound on the processes that die

Outcome == { "SUCCEEDED", "FAILED", "TERMINATED_AFTER_TIME_OUT" }

ASSUME ProcessesAssumption == IsFiniteSet(Processes)
ASSUME SettingsAssumption ==
  /\ None \notin Nat
  /\ Severity \in [Outcome -> Nat \cup {None}]
  /\ PostponeSeconds \in [Outcome -> (Nat \ {0}) \cup {None}]
  /\ PostponeCount \in [Outcome -> Nat]
  /\ RequiredSuccesses \in Nat \cup {None}
  /\ SameExecution \in BOOLEAN
  /\ {MaxSeverity, MaxRequests, Period, MaxEnds, MaxEdits, MaxCrashes} \subseteq Nat

VARIABLES
  events,     \* ExecutionStatusChangeEvents by the execution they are about
  left,       \* time until postponed_until of each, None if not postponed
  enabled,    \* the Task is enabled
  counter,    \* request_count_in_period, and the age of request_period_started_at
  work,       \* what each process has read and is doing
  ends,       \* executions in the order in which they ended, with their status
  issued,     \* how many executions have begun to end
  edits, crashes,  \* how often users have edited, processes have died
  attempts,   \* how often it was tried to send each event
  sent,       \* how many limited notifications are of at most some age
  contended,  \* events that two processes had read at once
  overlapped, \* two processes had read the counter at once, or one died
  settled     \* events that a user, or a disabled Task, has resolved

vars == <<events, left, enabled, counter, work, ends, issued, edits, crashes,
          attempts, sent, contended, overlapped, settled>>
ghosts == <<attempts, sent, contended, overlapped, settled>>

Execution == 1 .. MaxEnds

Event ==
  [ status    : Outcome,
    same      : Nat,       \* count_with_same_status_after_postponement
    successes : Nat,       \* count_with_success_status_after_postponement
    triggered : BOOLEAN,        \* triggered_at is set
    resolved  : BOOLEAN ]       \* resolved_at is set

Existing == DOMAIN events

\* An execution that has ended, and how many had when its request began.
End == [ event : Execution, status : Outcome, saw : 0 .. MaxEnds ]

\* An age past the period: the period has expired, or never began.
Expired == Period + 1

\* What a process is to save of the counters, and whether it held anything back.
Counted == [ count : Nat, new : Nat, reset : BOOLEAN, age : 0 .. Expired, held : BOOLEAN ]

\* What a process has read, and is doing with the event about one execution.
Work ==
  [ job      : { "end", "check", "edit" },
    event    : Execution,
    status   : Outcome \cup {None},
    enabled  : BOOLEAN,
    resolves : BOOLEAN,
    saw      : 0 .. MaxEnds,
    read     : UNION { [some -> Event] : some \in SUBSET Execution },
    counted  : Counted \cup {None} ]

ASSUME NoneAssumption == None \notin Counted \cup Work

TypeOK ==
  /\ Existing \subseteq Execution
  /\ events \in [Existing -> Event]
  /\ left \in [Existing -> Nat \cup {None}]
  /\ enabled \in BOOLEAN
  /\ counter \in [count : Nat, age : 0 .. Expired]
  /\ work \in [Processes -> Work \cup {None}]
  /\ \A p \in Processes : work[p] # None => DOMAIN work[p].read \subseteq Existing
  /\ ends \in Seq(End) /\ issued \in 0 .. MaxEnds
  /\ attempts \in [Execution -> Nat]
  /\ sent \in [0 .. Period -> Nat]
  /\ contended \subseteq Execution /\ settled \subseteq Execution
  /\ overlapped \in BOOLEAN

Init ==
  /\ events = <<>> /\ left = <<>>
  /\ enabled = TRUE
  /\ counter = [count |-> 0, age |-> Expired]
  /\ work = [p \in Processes |-> None]
  /\ ends = <<>> /\ issued = 0 /\ edits = 0 /\ crashes = 0
  /\ attempts = [e \in Execution |-> 0]
  /\ sent = [a \in 0 .. Period |-> 0]
  /\ contended = {} /\ overlapped = FALSE /\ settled = {}

-----------------------------------------------------------------------------
(* Events.                                                                 *)

Open(event) == ~event.triggered /\ ~event.resolved

\* maybe_postpone
Postpones(status) == PostponeCount[status] > 0 /\ PostponeSeconds[status] # None

\* A variant that counts every other end as a success.
UpdatedAfter_AnyEnd(event, status) ==
  IF status # event.status
  THEN [event EXCEPT !.successes = @ + 1,
          !.resolved = RequiredSuccesses # None /\ event.successes + 1 >= RequiredSuccesses]
  ELSE [event EXCEPT !.same = @ + 1, !.triggered = event.same + 1 >= PostponeCount[status]]

\* A variant that forgets to test the successes.
UpdatedAfter_NoSuccess(event, status) ==
  IF status = event.status
  THEN [event EXCEPT !.same = @ + 1, !.triggered = event.same + 1 >= PostponeCount[status]]
  ELSE event

\* update_after_postponed.  The successes that clear a timeout are those that
\* clear a failure: required_success_count_to_clear_timeout is not read.
UpdatedAfter(event, status) ==
  IF status = "SUCCEEDED"
  THEN [event EXCEPT !.successes = @ + 1,
          !.resolved = RequiredSuccesses # None /\ event.successes + 1 >= RequiredSuccesses]
  ELSE IF status = event.status
  THEN [event EXCEPT !.same = @ + 1, !.triggered = event.same + 1 >= PostponeCount[status]]
  ELSE event

NewEvent(status) ==
  [ status |-> status, same |-> 0, successes |-> 0,
    triggered |-> ~Postpones(status), resolved |-> FALSE ]

\* The rows that a process is to save.
Saves(w) ==
  CASE w.job = "end"   -> [e \in DOMAIN w.read |-> UpdatedAfter(w.read[e], w.status)]
    [] w.job = "check" -> [e \in {w.event} |->
                             IF w.enabled THEN [w.read[e] EXCEPT !.triggered = TRUE]
                             ELSE [w.read[e] EXCEPT !.resolved = TRUE]]
    [] w.job = "edit"  -> [e \in {w.event} |-> [w.read[e] EXCEPT !.resolved = @ \/ w.resolves]]

\* maybe_create_and_send_status_change_event
Creates(w) == w.job = "end" /\ w.enabled /\ Severity[w.status] # None

\* The events that it is to send.
Sends(w) ==
  CASE w.job = "end"   -> { e \in DOMAIN w.read : UpdatedAfter(w.read[e], w.status).triggered }
                            \cup IF Creates(w) /\ ~Postpones(w.status) THEN {w.event} ELSE {}
    [] w.job = "check" -> IF w.enabled THEN {w.event} ELSE {}
    [] w.job = "edit"  -> {}

Busy(p) == work[p] # None

ReadBy(p) == IF Busy(p) THEN DOMAIN work[p].read ELSE {}

\* A process begins, having read some rows.
Begin(p, w) ==
  /\ work' = [work EXCEPT ![p] = w]
  /\ contended' = contended \cup (DOMAIN w.read \cap UNION { ReadBy(q) : q \in Processes })

-----------------------------------------------------------------------------
(* An execution ends.                                                      *)

\* update_postponed_status_change_events: the events of the Task that are
\* postponed still.
Found ==
  { e \in Existing : left[e] # None /\ left[e] > 0 /\ Open(events[e]) /\ ~SameExecution }

EndBegins(p, status) ==
  LET found == IF enabled THEN Found ELSE {}
  IN /\ ~Busy(p)
     /\ issued < MaxEnds
     /\ issued' = issued + 1
     /\ Begin(p, [ job |-> "end", event |-> issued + 1, status |-> status,
                   enabled |-> enabled, resolves |-> FALSE, saw |-> Len(ends),
                   read |-> [e \in found |-> events[e]], counted |-> None ])
     /\ UNCHANGED <<events, left, enabled, counter, ends, edits, crashes,
                    attempts, sent, overlapped, settled>>

-----------------------------------------------------------------------------
(* The checker.                                                            *)

\* A variant that takes up events that are triggered already.
Due_Triggered == { e \in Existing : left[e] = 0 /\ ~events[e].resolved }

\* A variant with the comparison the other way round.
Due_Later == { e \in Existing : left[e] # None /\ left[e] > 0 /\ Open(events[e]) }

\* The query of PostponedEventChecker.check_all.
Due == { e \in Existing : left[e] = 0 /\ Open(events[e]) }

Checking == \E q \in Processes : Busy(q) /\ work[q].job = "check"

CheckBegins(p) ==
  /\ ~Busy(p) /\ ~Checking
  /\ Due # {}
  /\ \E first \in Due :
       Begin(p, [ job |-> "check", event |-> first, status |-> None,
                  enabled |-> enabled, resolves |-> FALSE, saw |-> Len(ends),
                  read |-> [e \in Due |-> events[e]], counted |-> None ])
  /\ UNCHANGED <<events, left, enabled, counter, ends, issued, edits, crashes,
                 attempts, sent, overlapped, settled>>

-----------------------------------------------------------------------------
(* Users.                                                                  *)

\* PATCH of an event: acknowledged, or resolved.
EditBegins(p, e) ==
  /\ ~Busy(p)
  /\ edits < MaxEdits
  /\ edits' = edits + 1
  /\ \E resolves \in BOOLEAN :
       /\ Begin(p, [ job |-> "edit", event |-> e, status |-> None,
                     enabled |-> enabled, resolves |-> resolves, saw |-> 0,
                     read |-> [x \in {e} |-> events[x]], counted |-> None ])
       /\ settled' = IF resolves THEN settled \cup {e} ELSE settled
  /\ UNCHANGED <<events, left, enabled, counter, ends, issued, crashes,
                 attempts, sent, overlapped>>

\* The Task is disabled, or enabled again.
Toggle ==
  /\ edits < MaxEdits
  /\ edits' = edits + 1
  /\ enabled' = ~enabled
  /\ UNCHANGED <<events, left, counter, work, ends, issued, crashes, ghosts>>

-----------------------------------------------------------------------------
(* Sending, and committing.                                                *)

\* The tier of the rate limit does not apply to severer events.
Limited(w, e) ==
  LET status == IF e \in DOMAIN w.read THEN w.read[e].status ELSE w.status
  IN Severity[status] # None /\ Severity[status] <= MaxSeverity

\* A variant that allows one more.
WithinLimit_OneMore(count, before) == count + before <= MaxRequests

\* rate_limited_tier_index, after `before` more were sent.
WithinLimit(count, before) == count + before < MaxRequests

\* The events in the order of their executions; those the service fails to
\* deliver are not counted.
Within(w, count, failing) ==
  { e \in Sends(w) :
      ~Limited(w, e)
        \/ WithinLimit(count,
              Cardinality({ x \in Sends(w) \ failing : Limited(w, x) /\ x < e })) }

PeriodIsOver == counter.age = Expired

\* send_if_not_rate_limited, for each event, with the counters as read now.
Send(p) ==
  LET w == work[p]
      reset == PeriodIsOver
      count == IF reset THEN 0 ELSE counter.count
  IN /\ Busy(p) /\ w.counted = None
     /\ Sends(w) # {}
     /\ \E failing \in SUBSET Sends(w) :
          LET within == Within(w, count, failing)
              n == Cardinality({ e \in within \ failing : Limited(w, e) })
          IN /\ work' = [work EXCEPT ![p].counted =
                           [ count |-> count, new |-> n, reset |-> reset, age |-> 0,
                             held  |-> within # Sends(w) ]]
             /\ sent' = [a \in 0 .. Period |-> sent[a] + n]
     /\ attempts' = [e \in Execution |-> attempts[e] + IF e \in Sends(w) THEN 1 ELSE 0]
     /\ overlapped' = (overlapped \/ \E q \in Processes \ {p} : Busy(q) /\ work[q].counted # None)
     /\ UNCHANGED <<events, left, enabled, counter, ends, issued, edits, crashes,
                    contended, settled>>

\* The counter is saved if anything was counted, the beginning of the period
\* only if it is a new one.
CounterAfter(counted) ==
  IF counted = None \/ counted.new = 0 THEN counter
  ELSE [ count |-> counted.count + counted.new,
         age   |-> IF counted.reset THEN counted.age ELSE counter.age ]

\* The other rows of the batch of the checker; None when there is none.
WorkAfter(w) ==
  LET rest == DOMAIN w.read \ {w.event}
  IN IF w.job # "check" \/ rest = {} THEN {None}
     ELSE { [w EXCEPT !.event = next, !.enabled = enabled, !.counted = None,
                      !.read = [e \in rest |-> w.read[e]]] : next \in rest }

Commit(p) ==
  LET w == work[p]
      saved == Saves(w)
      new == IF Creates(w) THEN {w.event} ELSE {}
  IN /\ Busy(p)
     /\ Sends(w) = {} \/ w.counted # None
     /\ events' = [e \in Existing \cup new |->
                     IF e \in new THEN NewEvent(w.status)
                     ELSE IF e \in DOMAIN saved THEN saved[e] ELSE events[e]]
     /\ left' = [e \in Existing \cup new |->
                   IF e \notin new THEN left[e]
                   ELSE IF Postpones(w.status) THEN PostponeSeconds[w.status] ELSE None]
     /\ counter' = CounterAfter(w.counted)
     /\ ends' = IF w.job = "end"
                 THEN Append(ends, [event |-> w.event, status |-> w.status, saw |-> w.saw])
                 ELSE ends
     /\ settled' = IF w.job = "check" /\ ~w.enabled THEN settled \cup {w.event} ELSE settled
     /\ \E next \in WorkAfter(w) : work' = [work EXCEPT ![p] = next]
     /\ UNCHANGED <<enabled, issued, edits, crashes, attempts, sent, contended, overlapped>>

\* A process dies, and its transaction with it.  The checker is run again.
Crash(p) ==
  /\ Busy(p)
  /\ crashes < MaxCrashes
  /\ crashes' = crashes + 1
  /\ work' = [work EXCEPT ![p] = None]
  /\ overlapped' = (overlapped \/ work[p].counted # None)
  /\ contended' = contended \cup Sends(work[p])
  /\ UNCHANGED <<events, left, enabled, counter, ends, issued, edits,
                 attempts, sent, settled>>

Older(age) == IF age = Expired THEN age ELSE age + 1

Tick ==
  /\ left' = [e \in Existing |-> IF left[e] \in {None, 0} THEN left[e] ELSE left[e] - 1]
  /\ counter' = [counter EXCEPT !.age = Older(@)]
  /\ work' = [p \in Processes |->
                IF Busy(p) /\ work[p].counted # None
                THEN [work[p] EXCEPT !.counted.age = Older(@)] ELSE work[p]]
  /\ sent' = [a \in 0 .. Period |-> IF a = 0 THEN 0 ELSE sent[a - 1]]
  /\ UNCHANGED <<events, enabled, ends, issued, edits, crashes,
                 attempts, contended, overlapped, settled>>

-----------------------------------------------------------------------------
Progress(p) == Send(p) \/ Commit(p)

Next ==
  \/ \E p \in Processes :
       \/ \E status \in Outcome : EndBegins(p, status)
       \/ CheckBegins(p)
       \/ \E e \in Existing : EditBegins(p, e)
       \/ Send(p) \/ Commit(p) \/ Crash(p)
  \/ Toggle
  \/ Tick

Spec == Init /\ [][Next]_vars

\* Time passes, processes go on, and the checker is run again and again.
Fairness ==
  /\ WF_vars(Tick)
  /\ \A p \in Processes : WF_vars(Progress(p))
  /\ WF_vars(\E p \in Processes : CheckBegins(p))

-----------------------------------------------------------------------------
(* Properties.                                                             *)

\* The ends with one of these statuses that came after the event about e.
EndsAfter(e, statuses) ==
  { i \in DOMAIN ends :
      ends[i].status \in statuses /\ \E j \in 1 .. i - 1 : ends[j].event = e }

\* An event that nobody resolved by hand, and no disabled Task, is resolved by
\* as many successes after it as are required, whoever else wrote the row.
ResolvedMeansRecovered ==
  \A e \in Existing \ settled :
    events[e].resolved =>
      /\ RequiredSuccesses # None
      /\ Cardinality(EndsAfter(e, {"SUCCEEDED"})) >= RequiredSuccesses

\* Users hear of an event once, unless two processes had read it at once or the
\* one that sends it dies.
HeardOnce == \A e \in Execution : e \notin contended => attempts[e] <= 1

\* The successes whose requests began when the event about e was there.
SuccessesSeeing(e) ==
  { i \in EndsAfter(e, {"SUCCEEDED"}) : \E j \in 1 .. ends[i].saw : ends[j].event = e }

\* Enough successes while an event is postponed leave it resolved, unless two
\* processes had read it at once: none is overlooked.
SuccessClears ==
  edits = 0 =>
    \A e \in Existing \ contended :
      (left[e] # None /\ left[e] > 0 /\ Open(events[e]) /\ RequiredSuccesses # None) =>
        Cardinality(SuccessesSeeing(e)) < RequiredSuccesses

\* A postponed event is resolved when enough executions have succeeded, and only
\* then (ExecutionStatusChangeEvent.update_after_postponed).
ResolvedWhenRecovered == ResolvedMeansRecovered /\ SuccessClears

AtRest == \A p \in Processes : Busy(p) => work[p].counted = None

\* One process at a time never sends more than the limit in one period.
LimitHolds ==
  (AtRest /\ ~overlapped /\ counter.age # Expired) => sent[counter.age] <= MaxRequests

\* Every postponed event is settled: sent or resolved in the end.
PostponedIsSettled ==
  \A e \in Execution :
    (e \in Existing /\ Open(events[e])) ~> (e \in Existing /\ ~Open(events[e]))

=============================================================================
