------------------------ MODULE ScheduleChecks_proofs ------------------------
(***************************************************************************)
(* Theorems about ScheduleChecks: its types, that two events are never     *)
(* about the same time of one schedule, and that events tell the truth.    *)
(*                                                                         *)
(* The argument: an event may be opened again by whoever had read it open, *)
(* but one that was ever resolved is either about a time that is no longer *)
(* the last one expected, or enough executions have started in its window. *)
(* So the checker, which finds no open event and something missing, has    *)
(* found a time that no event is about.                                    *)
(***************************************************************************)
EXTENDS ScheduleChecks, FiniteSetTheorems, SequenceTheorems, TLAPS

USE DEF Time

-----------------------------------------------------------------------------
(* Times and windows.                                                      *)

\* The last time that is expected of a schedule, at time t.
LastTime(schedule, t) ==
  IF schedule[1] = "cron" THEN ((t - 1) \div schedule[2]) * schedule[2] ELSE t

\* How long before the expected time a window begins.
Lead(schedule) == Early + (IF schedule[1] = "rate" THEN schedule[2] ELSE 0)

\* The window about one time of a schedule.
WindowAbout(schedule, expected) ==
  [ expected |-> expected, from |-> expected - Lead(schedule),
    to |-> expected + (IF schedule[1] = "cron" THEN Late ELSE 0) ]

LEMMA ScheduleFacts ==
  ASSUME NEW s \in Schedules
  PROVE  /\ s[1] \in { "cron", "rate" } /\ s[2] \in Nat \ {0}
         /\ Early \in Nat /\ Late \in Nat /\ Grace \in Nat /\ Required \in Nat \ {0}
         /\ Horizon \in Nat /\ MaxStarts \in Nat /\ MaxEvents \in Nat /\ MaxUpdates \in Nat
  BY SchedulesAssumption, NumbersAssumption

LEMMA LeadIsNatural ==
  ASSUME NEW s \in Schedules
  PROVE  Lead(s) \in Nat
<1>1. s[2] \in Nat /\ Early \in Nat
  BY ScheduleFacts
<1> QED  BY <1>1 DEF Lead

\* A window begins no later than the time that it is about.
LEMMA WindowBegins ==
  ASSUME NEW s \in Schedules, NEW expected \in Int
  PROVE  WindowAbout(s, expected).from <= expected
<1>1. PICK lead \in Nat : lead = Lead(s)
  BY LeadIsNatural
<1>2. WindowAbout(s, expected).from = expected - lead
  BY <1>1 DEF WindowAbout
<1>3. expected - lead <= expected
  OBVIOUS
<1> QED  BY <1>2, <1>3

LEMMA NumberFacts ==
  /\ Early \in Nat /\ Late \in Nat /\ Grace \in Nat /\ Required \in Nat \ {0}
  /\ Horizon \in Nat /\ MaxStarts \in Nat /\ MaxEvents \in Nat /\ MaxUpdates \in Nat
  /\ None \notin Nat
  BY NumbersAssumption

\* Multiples of a period follow time.
LEMMA DivisionIsMonotone ==
  ASSUME NEW a \in Int, NEW b \in Int, NEW p \in Nat \ {0}, a <= b
  PROVE  /\ (a \div p) * p \in Int
         /\ (a \div p) * p <= (b \div p) * p
         /\ (a \div p) * p <= a
  OBVIOUS

\* The time expected last is never ahead, and never goes back.
LEMMA LastTimeIsPast ==
  ASSUME NEW s \in Schedules, NEW t \in Nat
  PROVE  LastTime(s, t) \in Int /\ LastTime(s, t) <= t
<1> DEFINE p == s[2]
<1>1. t - 1 \in Int /\ p \in Nat \ {0}
  BY ScheduleFacts
<1> HIDE DEF p
<1>2. ((t - 1) \div p) * p \in Int /\ ((t - 1) \div p) * p <= t - 1
  BY <1>1, DivisionIsMonotone
<1>3. LastTime(s, t) = IF s[1] = "cron" THEN ((t - 1) \div p) * p ELSE t
  BY DEF LastTime, p
<1> QED  BY <1>2, <1>3

LEMMA LastTimeAdvances ==
  ASSUME NEW s \in Schedules, NEW t \in Nat
  PROVE  LastTime(s, t) <= LastTime(s, t + 1)
<1> DEFINE p == s[2]
<1>1. t - 1 \in Int /\ (t + 1) - 1 \in Int /\ t - 1 <= (t + 1) - 1 /\ p \in Nat \ {0}
  BY ScheduleFacts
<1> HIDE DEF p
<1>2. ((t - 1) \div p) * p <= (((t + 1) - 1) \div p) * p
  BY <1>1, DivisionIsMonotone
<1>3. /\ LastTime(s, t) = IF s[1] = "cron" THEN ((t - 1) \div p) * p ELSE t
      /\ LastTime(s, t + 1) = IF s[1] = "cron" THEN (((t + 1) - 1) \div p) * p ELSE t + 1
  BY DEF LastTime, p
<1> QED  BY <1>2, <1>3

\* A window is always about the time expected last.
LEMMA WindowIsAboutLastTime ==
  ASSUME NEW p \in Plan, now \in Time, TimeRange(p) # None
  PROVE  /\ TimeRange(p) = WindowAbout(p.schedule, LastTime(p.schedule, now))
         /\ TimeRange(p).expected = LastTime(p.schedule, now)
         /\ LastTime(p.schedule, now) \in Time
<1>1. p.schedule \in Schedules /\ p.updated \in Time
  BY DEF Plan
<1>2. CASE p.schedule[1] = "cron"
  BY <1>1, <1>2, LastTimeIsPast, ScheduleFacts, NumberFacts
  DEF TimeRange, WindowAbout, LastTime, Lead, Previous
<1>3. CASE p.schedule[1] = "rate"
  BY <1>1, <1>3, LastTimeIsPast, ScheduleFacts, NumberFacts
  DEF TimeRange, WindowAbout, LastTime, Lead
<1> QED  BY <1>1, <1>2, <1>3, ScheduleFacts

LEMMA WindowType ==
  ASSUME NEW s \in Schedules, NEW e \in Time
  PROVE  WindowAbout(s, e) \in Window
  BY ScheduleFacts DEF WindowAbout, Window, Lead

-----------------------------------------------------------------------------
(* Counting.                                                               *)

LEMMA CountType ==
  ASSUME NEW w, NEW rows \in [Time -> Nat]
  PROVE  /\ IsFiniteSet(StartedIn(w, rows))
         /\ CountIn(w, rows) \in Nat
         /\ Missing(w, rows) \in Int
         /\ Missing(w, rows) <= Required
<1>1. IsFiniteSet(Time \X (1 .. MaxStarts))
  <2>1. IsFiniteSet(0 .. Horizon) /\ IsFiniteSet(1 .. MaxStarts)
    BY NumberFacts, FS_Interval
  <2> QED  BY <2>1, FS_Product
<1>2. StartedIn(w, rows) \subseteq Time \X (1 .. MaxStarts)
  BY DEF StartedIn
<1>3. IsFiniteSet(StartedIn(w, rows))
  BY <1>1, <1>2, FS_Subset
<1>4. CountIn(w, rows) \in Nat
  BY <1>3, FS_CardinalityType DEF CountIn
<1> QED  BY <1>3, <1>4, NumberFacts DEF Missing

\* More executions in a wider window are counted as more, if what lies beyond
\* the end of the wider one has not started.
LEMMA CountIsMonotone ==
  ASSUME NEW v, NEW w, v.from \in Int, v.to \in Int, w.from \in Int, w.to \in Int,
         NEW fewer \in [Time -> Nat], NEW more \in [Time -> Nat],
         w.from <= v.from,
         \A t \in Time : fewer[t] <= more[t],
         \A t \in Time : fewer[t] > 0 /\ t <= v.to => t <= w.to
  PROVE  /\ CountIn(v, fewer) <= CountIn(w, more)
         /\ Missing(w, more) <= Missing(v, fewer)
<1>1. StartedIn(v, fewer) \subseteq StartedIn(w, more)
  <2> SUFFICES ASSUME NEW x \in StartedIn(v, fewer)
               PROVE  x \in StartedIn(w, more)
    OBVIOUS
  <2>1. PICK t \in Time, k \in 1 .. MaxStarts :
          x = <<t, k>> /\ v.from <= t /\ t <= v.to /\ k <= fewer[t]
    BY DEF StartedIn
  <2>2. fewer[t] \in Nat /\ more[t] \in Nat /\ t \in Int /\ k \in Int /\ k > 0
    BY NumberFacts
  <2>3. fewer[t] > 0 /\ fewer[t] <= more[t]
    BY <2>1, <2>2
  <2>4. w.from <= t /\ t <= w.to /\ k <= more[t]
    BY <2>1, <2>2, <2>3
  <2> QED  BY <2>1, <2>4 DEF StartedIn
<1>2. IsFiniteSet(StartedIn(w, more)) /\ CountIn(v, fewer) \in Nat /\ CountIn(w, more) \in Nat
  BY CountType
<1>3. CountIn(v, fewer) <= CountIn(w, more)
  BY <1>1, <1>2, FS_Subset DEF CountIn
<1> QED  BY <1>2, <1>3, NumberFacts DEF Missing

-----------------------------------------------------------------------------
(* Types.                                                                  *)

\* The checker only creates an event if there is room for one (the bound of the
\* model), and no more executions are missing than are required.
TypeInv ==
  /\ TypeOK
  /\ check # None =>
       /\ check.missing <= Required
       /\ check.event = None => Len(events) < MaxEvents

LEMMA FunctionIsSequence ==
  ASSUME NEW S, NEW n \in Nat, NEW f \in [1 .. n -> S]
  PROVE  f \in Seq(S) /\ Len(f) = n
  OBVIOUS

\* What the types say of time, of the rows and of a creation.
LEMMA TimeTypes ==
  ASSUME TypeInv
  PROVE  /\ now \in Time /\ now \in Nat
         /\ starts \in [Time -> 0 .. MaxStarts] /\ starts \in [Time -> Nat]
         /\ creation # None => creation.start \in Time /\ creation.start <= now
<1>1. /\ now \in Time /\ starts \in [Time -> 0 .. MaxStarts]
      /\ creation # None => creation.start \in 0 .. now
  BY DEF TypeInv, TypeOK
<1>2. Horizon \in Nat /\ MaxStarts \in Nat
  BY NumberFacts
<1>3. now \in Nat
  BY <1>1, <1>2 DEF Time
<1>4. starts \in [Time -> Nat]
  <2>1. 0 .. MaxStarts \subseteq Nat
    BY <1>2
  <2> QED  BY <1>1, <2>1
<1>5. creation # None => creation.start \in Time /\ creation.start <= now
  BY <1>1, <1>2, <1>3 DEF Time
<1> QED  BY <1>1, <1>3, <1>4, <1>5

\* The rows with the one that a creation adds.
LEMMA RowsType ==
  ASSUME TypeInv, creation # None
  PROVE  Rows \in [Time -> 0 .. MaxStarts]
<1>1. PICK k : k = starts[creation.start]
  OBVIOUS
<1>2. starts \in [Time -> 0 .. MaxStarts] /\ creation.start \in Time
  BY TimeTypes
<1>3. k \in 0 .. MaxStarts /\ k < MaxStarts
  BY <1>1, <1>2 DEF TypeInv, TypeOK
<1>4. k + 1 \in 0 .. MaxStarts
  BY <1>3, NumberFacts
<1>5. Rows = [starts EXCEPT ![creation.start] = k + 1]
  BY <1>1 DEF Rows
<1> QED  BY <1>2, <1>4, <1>5

LEMMA SequenceIsFunction ==
  ASSUME NEW S, NEW f \in Seq(S)
  PROVE  Len(f) \in Nat /\ f \in [1 .. Len(f) -> S]
  OBVIOUS

LEMMA CheckReadsKeepsTypes ==
  ASSUME TypeInv, CheckReads
  PROVE  TypeInv'
<1> DEFINE window == TimeRange(plan)
           found == Existing(plan, window)
<1>1. PICK i \in Latest(found) :
        check' = [ plan |-> plan, window |-> window, missing |-> Missing(window, starts),
                   event |-> i, row |-> IF i = None THEN None ELSE events[i] ]
  BY DEF CheckReads
<1>2. /\ plan \in Plan /\ now \in Time /\ window # None
      /\ events \in Seq(Event) /\ starts \in [Time -> Nat]
  BY NumberFacts DEF CheckReads, TypeInv, TypeOK
<1>3. window \in Window
  <2>1. plan.schedule \in Schedules
    BY <1>2 DEF Plan
  <2> QED  BY <1>2, <2>1, WindowIsAboutLastTime, WindowType
<1>4. Missing(window, starts) \in Int /\ Missing(window, starts) <= Required
  BY <1>2, <1>3, CountType
<1>5. found \subseteq Events
  BY DEF Existing, Open
<1>6. \/ i = None /\ found = {}
      \/ i \in Events /\ i # None /\ events[i] \in Event
  <2>1. Events \subseteq Nat
    BY <1>2 DEF Events
  <2>2. \A j \in Events : events[j] \in Event
    BY <1>2 DEF Events
  <2>3. (i = None /\ found = {}) \/ i \in found
    BY <1>1 DEF Latest
  <2> QED  BY <1>5, <2>1, <2>2, <2>3, NumberFacts
<1>7. check' \in Check
  <2>1. Events \subseteq Nat
    BY <1>2 DEF Events
  <2> QED  BY <1>1, <1>2, <1>3, <1>4, <1>6, <2>1 DEF Check
<1>8. UNCHANGED <<now, plan, updates, starts, events, told, creation, failed>>
  BY DEF CheckReads
<1>9. check'.event = i /\ check'.row = (IF i = None THEN None ELSE events[i])
      /\ check'.missing = Missing(window, starts)
  BY <1>1
<1>10. found # {} \/ Len(events) < MaxEvents
  BY DEF CheckReads
<1>11. i = None => Len(events) < MaxEvents
  BY <1>6, <1>10
<1> HIDE DEF window, found
<1> QED  BY <1>4, <1>6, <1>7, <1>8, <1>9, <1>11 DEF TypeInv, TypeOK, Events

LEMMA CheckRaisesKeepsTypes ==
  ASSUME TypeInv, CheckRaises
  PROVE  TypeInv'
<1> DEFINE e == NewEvent(check.plan.schedule, check.window.expected, check.missing)
<1>1. check \in Check /\ check.event = None /\ check.missing <= Required /\ check.missing > 0
  BY DEF TypeInv, TypeOK, CheckRaises, NothingToDo, Check
<1>2. e \in Event
  BY <1>1, NumberFacts DEF NewEvent, Event, Check, Plan, Window
<1>3. events \in Seq(Event) /\ told \in Seq({ "missing", "found" })
      /\ Len(told) = Len(events) /\ Len(events) < MaxEvents
  BY <1>1 DEF TypeInv, TypeOK, CheckRaises
<1>4. events' = Append(events, e) /\ told' = Append(told, "missing")
      /\ check' = None /\ UNCHANGED <<now, plan, updates, starts, creation, failed>>
  BY DEF CheckRaises
<1> HIDE DEF e
<1>5. /\ events' \in Seq(Event) /\ Len(events') = Len(events) + 1
      /\ told' \in Seq({ "missing", "found" }) /\ Len(told') = Len(events')
  BY <1>2, <1>3, <1>4
<1>6. Events \subseteq Events' /\ Len(events') <= MaxEvents
  BY <1>3, <1>5, NumberFacts DEF Events
<1> QED  BY <1>4, <1>5, <1>6 DEF TypeInv, TypeOK

LEMMA CheckUpdatesKeepsTypes ==
  ASSUME TypeInv, CheckUpdates
  PROVE  TypeInv'
<1> DEFINE i == check.event
           saved == SavedByCheck(check.row, check.missing)
           kept == [saved EXCEPT !.answered = events[i].answered \/ saved.resolved]
<1>1. /\ check \in Check /\ i # None /\ i \in Events /\ check.row \in Event
      /\ check.missing \in 0 .. Required
  <2>1. check \in Check /\ i # None /\ i \in Events /\ check.row \in Event
        /\ check.missing <= Required
    BY DEF TypeInv, TypeOK, CheckUpdates
  <2>2. check.missing \in Int /\ ~(check.missing < 0)
    BY <2>1 DEF CheckUpdates, NothingToDo, Check
  <2> QED  BY <2>1, <2>2, NumberFacts
<1>2. events \in Seq(Event) /\ told \in Seq({ "missing", "found" })
      /\ Len(told) = Len(events)
  BY DEF TypeInv, TypeOK
<1>3. events[i].answered \in BOOLEAN
  <2>1. events[i] \in Event
    BY <1>1, <1>2 DEF Events
  <2> QED  BY <2>1 DEF Event
<1>4. saved \in Event
  BY <1>1 DEF SavedByCheck, Event
<1>5. kept \in Event
  BY <1>3, <1>4 DEF Event
<1>6. events' = [events EXCEPT ![i] = kept]
  BY DEF CheckUpdates
<1>7. told' = told \/ told' = [told EXCEPT ![i] = "missing"]
  BY DEF CheckUpdates, Sent
<1>8. check' = None /\ UNCHANGED <<now, plan, updates, starts, creation, failed>>
  BY DEF CheckUpdates
<1> HIDE DEF kept, saved, i
<1>9. events' \in Seq(Event) /\ Len(events') = Len(events)
  BY <1>1, <1>2, <1>5, <1>6, ExceptSeq DEF Events
<1>10. told' \in Seq({ "missing", "found" }) /\ Len(told') = Len(events')
  BY <1>1, <1>2, <1>7, <1>9, ExceptSeq DEF Events
<1>11. Events' = Events
  BY <1>9 DEF Events
<1> QED  BY <1>8, <1>9, <1>10, <1>11 DEF TypeInv, TypeOK

LEMMA CreationReadsKeepsTypes ==
  ASSUME TypeInv, NEW start \in Time, CreationReads(start)
  PROVE  TypeInv'
<1> DEFINE read == [i \in Open(plan) |-> events[i]]
<1>1. creation' = [plan |-> plan, start |-> start, read |-> read]
      /\ start <= now /\ starts[start] < MaxStarts
  BY DEF CreationReads
<1>2. UNCHANGED <<now, plan, updates, starts, events, told, check, failed>>
  BY DEF CreationReads
<1>3. Open(plan) \subseteq Events /\ \A i \in Events : events[i] \in Event
  BY DEF Open, Events, TypeInv, TypeOK
<1>4. DOMAIN read \subseteq Events /\ read \in [DOMAIN read -> Event]
  BY <1>3
<1> HIDE DEF read
<1>5. /\ creation'.plan = plan /\ creation'.start = start /\ creation'.read = read
  BY <1>1
<1>6. plan \in Plan /\ start \in 0 .. now
  BY <1>1, NumberFacts DEF TypeInv, TypeOK
<1> QED  BY <1>1, <1>2, <1>4, <1>5, <1>6 DEF TypeInv, TypeOK, Events

\* The row of an event after a creation that is not refused.
LEMMA SavedByCreationType ==
  ASSUME TypeInv, creation # None, NEW i \in Changed, i \notin Refused
  PROVE  /\ i \in DOMAIN creation.read /\ creation.read[i] \in Event
         /\ TimeRange(creation.plan) \in Window
         /\ SavedByCreation(creation.read[i]) \in Event
         /\ Rows \in [Time -> 0 .. MaxStarts]
<1> DEFINE row == creation.read[i]
           window == TimeRange(creation.plan)
           n == Missing(window, Rows)
<1>1. i \in DOMAIN creation.read /\ row \in Event /\ creation.plan \in Plan /\ now \in Time
  BY DEF TypeInv, TypeOK, Changed
<1>2. Rows \in [Time -> 0 .. MaxStarts]
  BY RowsType
<1>3. window # None /\ SavedByCreation(row) =
        [row EXCEPT !.missing = n, !.resolved = n = 0, !.answered = n = 0]
  BY DEF Changed, SavedByCreation
<1>4. window \in Window
  <2>1. creation.plan.schedule \in Schedules
    BY <1>1 DEF Plan
  <2> QED  BY <1>1, <1>3, <2>1, WindowIsAboutLastTime, WindowType
<1>5. n \in Int /\ n <= Required
  <2>1. Rows \in [Time -> Nat]
    BY <1>2, NumberFacts
  <2> QED  BY <1>4, <2>1, CountType
<1>6. SavedByCreation(row).missing = n
  BY <1>1, <1>3 DEF Event
<1>7. ~(n < 0)
  BY <1>6 DEF Refused
<1> HIDE DEF n, window, row
<1>8. SavedByCreation(row) \in Event
  <2> DEFINE none == n = 0
  <2>1. none \in BOOLEAN /\ n \in 0 .. Required
    BY <1>5, <1>7, NumberFacts
  <2>2. SavedByCreation(row) = [row EXCEPT !.missing = n, !.resolved = none, !.answered = none]
    BY <1>3
  <2> HIDE DEF none
  <2> QED  BY <1>1, <2>1, <2>2 DEF Event
<1> QED  BY <1>1, <1>2, <1>4, <1>8 DEF row, window

LEMMA CreationCommitsKeepsTypes ==
  ASSUME TypeInv, CreationCommits
  PROVE  TypeInv'
<1> DEFINE after(i) == [SavedByCreation(creation.read[i]) EXCEPT
                          !.answered = @ \/ events[i].answered]
<1>1. /\ creation # None /\ Refused = {}
      /\ starts' = Rows /\ creation' = None
      /\ UNCHANGED <<now, plan, updates, check, failed>>
      /\ events' = [i \in Events |-> IF i \in Changed THEN after(i) ELSE events[i]]
      /\ told' = [i \in Events |-> IF i \in Answered THEN "found" ELSE told[i]]
  BY DEF CreationCommits
<1>2. /\ events \in [Events -> Event] /\ told \in [Events -> { "missing", "found" }]
      /\ Len(events) \in Nat
  BY DEF TypeInv, TypeOK, Events
<1>3. Rows \in [Time -> 0 .. MaxStarts]
  BY <1>1, RowsType
<1>4. \A i \in Changed : i \in Events => after(i) \in Event
  <2> TAKE i \in Changed
  <2> HAVE i \in Events
  <2>1. SavedByCreation(creation.read[i]) \in Event
    BY <1>1, SavedByCreationType
  <2>2. events[i].answered \in BOOLEAN
    BY <1>2 DEF Event
  <2> QED  BY <2>1, <2>2 DEF Event
<1>5. events' \in [Events -> Event] /\ told' \in [Events -> { "missing", "found" }]
  BY <1>1, <1>2, <1>4
<1>6. /\ events' \in Seq(Event) /\ Len(events') = Len(events)
      /\ told' \in Seq({ "missing", "found" }) /\ Len(told') = Len(events')
  BY <1>2, <1>5, FunctionIsSequence DEF Events
<1>7. Events' = Events
  BY <1>6 DEF Events
<1> HIDE DEF after
<1> QED  BY <1>1, <1>3, <1>6, <1>7 DEF TypeInv, TypeOK

LEMMA CreationFailsKeepsTypes ==
  ASSUME TypeInv, CreationFails
  PROVE  TypeInv'
<1>1. PICK s : told' = [i \in Events |-> IF i \in s THEN "found" ELSE told[i]]
  BY DEF CreationFails
<1>2. told \in [Events -> { "missing", "found" }] /\ Len(events) \in Nat
  BY DEF TypeInv, TypeOK, Events
<1>3. told' \in [Events -> { "missing", "found" }]
  BY <1>1, <1>2
<1>4. told' \in Seq({ "missing", "found" }) /\ Len(told') = Len(events)
  BY <1>2, <1>3, FunctionIsSequence DEF Events
<1>5. creation' = None /\ failed' = TRUE
      /\ UNCHANGED <<now, plan, updates, starts, events, check>>
  BY DEF CreationFails
<1> QED  BY <1>4, <1>5 DEF TypeInv, TypeOK, Events

LEMMA InitHasTypes == Init => TypeInv
<1> SUFFICES ASSUME Init PROVE TypeInv
  OBVIOUS
<1>1. plan \in Plan
  BY NumberFacts DEF Init, Plan
<1>2. starts \in [Time -> 0 .. MaxStarts] /\ now \in Time /\ updates \in 0 .. MaxUpdates
  BY NumberFacts DEF Init
<1>3. events \in Seq(Event) /\ told \in Seq({ "missing", "found" }) /\ Len(events) = 0
      /\ Len(told) = 0
  BY DEF Init
<1>4. check = None /\ creation = None /\ failed = FALSE
  BY DEF Init
<1>5. Len(events) <= MaxEvents /\ Len(told) = Len(events)
  BY <1>3, NumberFacts
<1>6. check \in Check \cup {None}
  BY <1>4
<1>7. TypeOK
  BY <1>1, <1>2, <1>3, <1>4, <1>5, <1>6 DEF TypeOK
<1> QED  BY <1>4, <1>7 DEF TypeInv

LEMMA StepKeepsTypes == TypeInv /\ [Next]_vars => TypeInv'
<1> SUFFICES ASSUME TypeInv, [Next]_vars PROVE TypeInv'
  OBVIOUS
<1>1. CASE CheckReads
  BY <1>1, CheckReadsKeepsTypes
<1>2. CASE CheckPasses
  BY <1>2 DEF CheckPasses, TypeInv, TypeOK, Events
<1>3. CASE CheckRaises
  BY <1>3, CheckRaisesKeepsTypes
<1>4. CASE CheckUpdates
  BY <1>4, CheckUpdatesKeepsTypes
<1>5. CASE \E start \in Time : CreationReads(start)
  BY <1>5, CreationReadsKeepsTypes
<1>6. CASE CreationCommits
  BY <1>6, CreationCommitsKeepsTypes
<1>7. CASE CreationFails
  BY <1>7, CreationFailsKeepsTypes
<1>8. CASE \E s \in Schedules : Reschedule(s)
  <2>1. PICK s \in Schedules : Reschedule(s)
    BY <1>8
  <2>2. plan' \in Plan /\ updates' \in 0 .. MaxUpdates
    BY <2>1, NumberFacts DEF Reschedule, Plan, TypeInv, TypeOK
  <2>3. UNCHANGED <<now, starts, events, told, check, creation, failed>>
    BY <2>1 DEF Reschedule
  <2> QED  BY <2>2, <2>3 DEF TypeInv, TypeOK, Events
<1>9. CASE Tick
  <2>1. now' \in Time /\ now' = now + 1
    BY <1>9, NumberFacts DEF Tick, TypeInv, TypeOK
  <2>2. UNCHANGED <<plan, updates, starts, events, told, check, creation, failed>>
    BY <1>9 DEF Tick
  <2>3. creation # None => creation.start \in 0 .. now'
    BY <2>1, NumberFacts DEF TypeInv, TypeOK
  <2> QED  BY <2>1, <2>2, <2>3 DEF TypeInv, TypeOK, Events
<1>10. CASE UNCHANGED vars
  BY <1>10 DEF vars, TypeInv, TypeOK, Events
<1> QED  BY <1>1, <1>2, <1>3, <1>4, <1>5, <1>6, <1>7, <1>8, <1>9, <1>10 DEF Next, CheckStep

\* Every reachable state is well-typed, whatever overlaps: an event never lacks a
\* negative number of executions, nor more than are required
\* (MissingScheduledExecutionEvent.missing_execution_count).
THEOREM TypeCorrect == Spec => []TypeOK
<1>1. Spec => []TypeInv
  BY InitHasTypes, StepKeepsTypes, PTL DEF Spec
<1>2. TypeInv => TypeOK
  BY DEF TypeInv
<1> QED  BY <1>1, <1>2, PTL

-----------------------------------------------------------------------------
(* The inductive invariant.                                                *)

\* No event is about the same time of the same schedule as another, open or not.
TimesDiffer ==
  \A i, j \in Events :
    events[i].schedule = events[j].schedule /\ events[i].expected = events[j].expected => i = j

StartsArePast == \A t \in Time : starts[t] > 0 => t <= now

EventsArePast == \A i \in Events : events[i].expected <= LastTime(events[i].schedule, now)

\* Enough executions have started in the window about one time.
EnoughFor(schedule, expected, rows) == Missing(WindowAbout(schedule, expected), rows) <= 0

\* Once an event is resolved, its time is not expected any more, or nothing is
\* missing.
ResolvedIsOver ==
  \A i \in Events :
    events[i].resolved =>
      \/ events[i].expected < LastTime(events[i].schedule, now)
      \/ EnoughFor(events[i].schedule, events[i].expected, starts)

\* What the checker has read was so, and what it has counted is no less by now.
WindowIsTrue ==
  check # None =>
    /\ check.window = WindowAbout(check.plan.schedule, check.window.expected)
    /\ check.window.expected <= LastTime(check.plan.schedule, now)
    /\ Missing(check.window, starts) <= check.missing

\* If it is to create an event, there is none about that time.
NoEventYet ==
  (check # None /\ check.event = None /\ check.missing > 0) =>
    \A i \in Events :
      events[i].schedule = check.plan.schedule => events[i].expected # check.window.expected

\* The event that it has read was open, and about this time or an earlier one.
RowIsTrue ==
  (check # None /\ check.event # None) =>
    /\ ~check.row.resolved
    /\ check.row.schedule = check.plan.schedule
    /\ check.row.schedule = events[check.event].schedule
    /\ check.row.expected = events[check.event].expected
    /\ check.row.expected <= check.window.expected

\* So were those that a creation has read, and users knew of them.
CreationIsTrue ==
  creation # None =>
    \A i \in DOMAIN creation.read :
      /\ ~creation.read[i].resolved
      /\ creation.read[i].schedule = creation.plan.schedule
      /\ creation.read[i].schedule = events[i].schedule
      /\ creation.read[i].expected = events[i].expected
      /\ failed \/ told[i] = "missing"

Inv ==
  /\ TimesDiffer /\ StartsArePast /\ EventsArePast /\ ResolvedIsOver
  /\ WindowIsTrue /\ NoEventYet /\ RowIsTrue /\ CreationIsTrue
  /\ EventsAreTrue

\* The executions that started since a window about one time begins.
StartedSince(schedule, expected, t, rows) ==
  CountIn([from |-> expected - Lead(schedule), to |-> t], rows)

LEMMA LeadMeans ==
  ASSUME NEW e \in Event
  PROVE  e.expected - Early - (IF e.schedule[1] = "rate" THEN e.schedule[2] ELSE 0)
           = e.expected - Lead(e.schedule)
<1>1. e.schedule \in Schedules /\ e.expected \in Int
  BY NumberFacts DEF Event
<1> QED  BY <1>1, ScheduleFacts DEF Lead

LEMMA ResolvedMeansStartedMeans ==
  ASSUME TypeInv
  PROVE  ResolvedMeansStarted <=>
           \A i \in Events : events[i].resolved =>
             StartedSince(events[i].schedule, events[i].expected, now, starts) >= Required
<1>1. \A i \in Events : events[i] \in Event
  BY DEF TypeInv, TypeOK, Events
<1> QED  BY <1>1, LeadMeans DEF ResolvedMeansStarted, StartedSince

LEMMA ResolvedMeansStartedNext ==
  ASSUME TypeInv',
         \A i \in Events' : events'[i].resolved =>
           StartedSince(events'[i].schedule, events'[i].expected, now', starts') >= Required
  PROVE  ResolvedMeansStarted'
<1>1. \A i \in Events' : events'[i] \in Event
  BY DEF TypeInv, TypeOK, Events
<1> QED  BY <1>1, LeadMeans DEF ResolvedMeansStarted, StartedSince

\* What the types say of an event and of the window about it.
LEMMA EventFacts ==
  ASSUME TypeInv, NEW i \in Events
  PROVE  /\ events[i] \in Event
         /\ events[i].schedule \in Schedules /\ events[i].expected \in Time
         /\ WindowAbout(events[i].schedule, events[i].expected) \in Window
         /\ LastTime(events[i].schedule, now) \in Int
         /\ Lead(events[i].schedule) \in Int
         /\ starts \in [Time -> Nat] /\ now \in Nat /\ now \in Time
<1>1. events[i] \in Event /\ now \in Time /\ starts \in [Time -> 0 .. MaxStarts]
  BY DEF TypeInv, TypeOK, Events
<1>2. events[i].schedule \in Schedules /\ events[i].expected \in Time
  BY <1>1 DEF Event
<1>3. now \in Nat /\ starts \in [Time -> Nat]
  BY <1>1, NumberFacts
<1>4. Lead(events[i].schedule) \in Int
  BY <1>2, ScheduleFacts DEF Lead
<1>5. WindowAbout(events[i].schedule, events[i].expected) \in Window
  BY <1>2, WindowType
<1>6. LastTime(events[i].schedule, now) \in Int
  BY <1>2, <1>3, LastTimeIsPast
<1> QED  BY <1>1, <1>2, <1>3, <1>4, <1>5, <1>6

\* Nothing missing in a window means that enough have started since an earlier one.
LEMMA NothingMissing ==
  ASSUME NEW s \in Schedules, NEW e \in Time, NEW v \in Window,
         NEW rows \in [Time -> Nat], NEW t0 \in Nat,
         \A t \in Time : rows[t] > 0 => t <= t0,
         e - Lead(s) <= v.from, Missing(v, rows) <= 0
  PROVE  StartedSince(s, e, t0, rows) >= Required
<1> DEFINE w == [from |-> e - Lead(s), to |-> t0]
<1>1. Lead(s) \in Int /\ e \in Int /\ v.from \in Int /\ v.to \in Int
  BY ScheduleFacts, NumberFacts DEF Lead, Window
<1>2. w.from \in Int /\ w.to \in Int /\ w.from <= v.from /\ w.to = t0
  BY <1>1
<1> HIDE DEF w
<1>3. CountIn(v, rows) <= CountIn(w, rows)
  <2>1. \A t \in Time : rows[t] <= rows[t]
    BY NumberFacts
  <2>2. \A t \in Time : rows[t] > 0 /\ t <= v.to => t <= w.to
    BY <1>2
  <2> QED  BY <1>1, <1>2, <2>1, <2>2, CountIsMonotone
<1>4. CountIn(v, rows) \in Nat /\ CountIn(w, rows) \in Nat
  BY CountType
<1>5. CountIn(w, rows) >= Required
  BY <1>3, <1>4, NumberFacts DEF Missing
<1> QED  BY <1>5 DEF StartedSince, w

-----------------------------------------------------------------------------
(* Each step keeps it.                                                     *)

LEMMA CheckReadsKeepsInv ==
  ASSUME TypeInv, Inv, CheckReads
  PROVE  Inv'
<1> DEFINE window == TimeRange(plan)
           found == Existing(plan, window)
<1>1. PICK n \in Latest(found) :
        check' = [ plan |-> plan, window |-> window, missing |-> Missing(window, starts),
                   event |-> n, row |-> IF n = None THEN None ELSE events[n] ]
  BY DEF CheckReads
<1>2. /\ window # None
      /\ UNCHANGED <<now, plan, updates, starts, events, told, creation, failed>>
  BY DEF CheckReads
<1>3. /\ plan \in Plan /\ plan.schedule \in Schedules /\ now \in Time /\ now \in Nat
      /\ starts \in [Time -> Nat]
  <2>1. plan \in Plan /\ plan.schedule \in Schedules
    BY DEF TypeInv, TypeOK, Plan
  <2> QED  BY <2>1, TimeTypes
<1>4. /\ window = WindowAbout(plan.schedule, LastTime(plan.schedule, now))
      /\ window.expected = LastTime(plan.schedule, now)
      /\ LastTime(plan.schedule, now) \in Time
  BY <1>2, <1>3, WindowIsAboutLastTime
<1>5. Missing(window, starts) \in Int
  BY <1>3, CountType
<1>6. /\ check'.plan = plan /\ check'.window = window /\ check'.event = n
      /\ check'.missing = Missing(window, starts)
      /\ check'.row = (IF n = None THEN None ELSE events[n])
  BY <1>1
<1> HIDE DEF window
<1>7. WindowIsTrue'
  <2>2. LastTime(plan.schedule, now') = window.expected /\ window.expected \in Int
    BY <1>2, <1>4, NumberFacts
  <2>3. Missing(window, starts') <= Missing(window, starts)
    BY <1>2, <1>5
  <2> QED  BY <1>4, <1>6, <2>2, <2>3 DEF WindowIsTrue
<1>8. NoEventYet'
  <2> SUFFICES ASSUME n = None, Missing(window, starts) > 0, NEW i \in Events,
                      events[i].schedule = plan.schedule, events[i].expected = window.expected
               PROVE  FALSE
    BY <1>2, <1>6 DEF NoEventYet, Events
  <2>1. found = {}
    <3>1. None \notin Events
      <4>1. Len(events) \in Nat
        BY DEF TypeInv, TypeOK
      <4> QED  BY <4>1, NumberFacts DEF Events
    <3>2. found \subseteq Events
      BY DEF Existing, Open
    <3> QED  BY <1>1, <3>1, <3>2 DEF Latest
  <2>2. events[i].resolved
    <3>1. CASE plan.schedule[1] = "cron"
      <4>1. events[i] \in Event /\ i \notin found
        BY <2>1, EventFacts
      <4> QED  BY <3>1, <4>1 DEF Existing, Open, Event
    <3>2. CASE plan.schedule[1] # "cron"
      <4>1. window.expected >= window.from
        <5>1. LastTime(plan.schedule, now) \in Int
          BY <1>4, NumberFacts DEF Time
        <5> QED  BY <1>3, <1>4, <5>1, WindowBegins
      <4>2. events[i] \in Event /\ i \notin found
        BY <2>1, EventFacts
      <4> QED  BY <3>2, <4>1, <4>2 DEF Existing, Open, Event
    <3> QED  BY <3>1, <3>2
  <2>3. EnoughFor(plan.schedule, window.expected, starts)
    <3>1. ~(events[i].expected < LastTime(events[i].schedule, now))
      BY <1>4, NumberFacts
    <3> QED  BY <2>2, <3>1 DEF Inv, ResolvedIsOver
  <2> QED  BY <1>4, <1>5, <2>3 DEF EnoughFor
<1>9. RowIsTrue'
  <2> SUFFICES ASSUME n # None
               PROVE  /\ ~events[n].resolved /\ events[n].schedule = plan.schedule
                      /\ events[n].expected <= window.expected
    BY <1>2, <1>6 DEF RowIsTrue
  <2>1. n \in Open(plan)
    BY <1>1 DEF Latest, Existing
  <2>2. n \in Events /\ ~events[n].resolved /\ events[n].schedule = plan.schedule
    BY <2>1 DEF Open
  <2> QED  BY <1>4, <2>2 DEF Inv, EventsArePast
<1>10. CreationIsTrue' /\ TimesDiffer' /\ StartsArePast' /\ EventsArePast' /\ ResolvedIsOver'
  BY <1>2 DEF Inv, CreationIsTrue, TimesDiffer, StartsArePast, EventsArePast, ResolvedIsOver,
     EnoughFor, Events, Missing, CountIn, StartedIn
<1>11. EventsAreTrue'
  BY <1>2 DEF Inv, EventsAreTrue, OpenIsTold, ResolvedMeansStarted, Events, CountIn, StartedIn
<1> QED  BY <1>7, <1>8, <1>9, <1>10, <1>11 DEF Inv

LEMMA CheckRaisesKeepsInv ==
  ASSUME TypeInv, TypeInv', Inv, CheckRaises
  PROVE  Inv'
<1> DEFINE e == NewEvent(check.plan.schedule, check.window.expected, check.missing)
           n == Len(events) + 1
<1>1. /\ check # None /\ check.event = None /\ check.missing > 0 /\ check \in Check
  BY DEF CheckRaises, NothingToDo, TypeInv, TypeOK, Check
<1>2. /\ events' = Append(events, e) /\ told' = Append(told, "missing") /\ check' = None
      /\ UNCHANGED <<now, plan, updates, starts, creation, failed>>
  BY DEF CheckRaises
<1>3. events \in Seq(Event) /\ told \in Seq({ "missing", "found" }) /\ Len(told) = Len(events)
  BY DEF TypeInv, TypeOK
<1>4. e.schedule = check.plan.schedule /\ e.expected = check.window.expected /\ ~e.resolved
  BY DEF NewEvent
<1> HIDE DEF e
<1>5. /\ Events' = Events \cup {n} /\ n \notin Events
      /\ events'[n] = e /\ \A i \in Events : events'[i] = events[i]
      /\ told'[n] = "missing" /\ \A i \in Events : told'[i] = told[i]
  <2>1. Len(events) \in Nat /\ Len(events') = Len(events) + 1
    BY <1>2, <1>3
  <2>2. Events' = Events \cup {n} /\ n \notin Events
    BY <2>1 DEF Events
  <2>3. events'[n] = e /\ \A i \in Events : events'[i] = events[i]
    BY <1>2, <1>3 DEF Events
  <2>4. told'[n] = "missing" /\ \A i \in Events : told'[i] = told[i]
    BY <1>2, <1>3 DEF Events
  <2> QED  BY <2>2, <2>3, <2>4
<1> HIDE DEF n
<1>6. TimesDiffer'
  <2>1. \A i \in Events :
          ~(events[i].schedule = e.schedule /\ events[i].expected = e.expected)
    BY <1>1, <1>4 DEF Inv, NoEventYet
  <2> QED  BY <1>5, <2>1 DEF Inv, TimesDiffer
<1>7. EventsArePast'
  <2>1. e.expected <= LastTime(e.schedule, now)
    BY <1>1, <1>4 DEF Inv, WindowIsTrue
  <2> QED  BY <1>2, <1>5, <2>1 DEF Inv, EventsArePast
<1>8. ResolvedIsOver'
  <2> SUFFICES ASSUME NEW i \in Events', events'[i].resolved
               PROVE  \/ events'[i].expected < LastTime(events'[i].schedule, now')
                      \/ EnoughFor(events'[i].schedule, events'[i].expected, starts')
    BY DEF ResolvedIsOver
  <2>1. i \in Events /\ events'[i] = events[i]
    BY <1>4, <1>5
  <2> QED  BY <1>2, <2>1 DEF Inv, ResolvedIsOver, EnoughFor
<1>9. CreationIsTrue'
  <2>1. creation # None => DOMAIN creation.read \subseteq Events
    BY DEF TypeInv, TypeOK
  <2> QED  BY <1>2, <1>5, <2>1 DEF Inv, CreationIsTrue
<1>10. OpenIsTold'
  BY <1>2, <1>5 DEF Inv, EventsAreTrue, OpenIsTold
<1>11. ResolvedMeansStarted'
  <2> SUFFICES ASSUME NEW i \in Events', events'[i].resolved
               PROVE  CountIn([from |-> events'[i].expected - Early
                                  - (IF events'[i].schedule[1] = "rate"
                                     THEN events'[i].schedule[2] ELSE 0),
                               to |-> now'], starts') >= Required
    BY DEF ResolvedMeansStarted
  <2>1. i \in Events /\ events'[i] = events[i]
    BY <1>4, <1>5
  <2> QED  BY <1>2, <2>1 DEF Inv, EventsAreTrue, ResolvedMeansStarted
<1>12. WindowIsTrue' /\ NoEventYet' /\ RowIsTrue' /\ StartsArePast'
  BY <1>2 DEF Inv, WindowIsTrue, NoEventYet, RowIsTrue, StartsArePast
<1> QED  BY <1>6, <1>7, <1>8, <1>9, <1>10, <1>11, <1>12 DEF Inv, EventsAreTrue

LEMMA CheckUpdatesKeepsInv ==
  ASSUME TypeInv, TypeInv', Inv, CheckUpdates
  PROVE  Inv'
<1> DEFINE n == check.event
           saved == SavedByCheck(check.row, check.missing)
           kept == [saved EXCEPT !.answered = events[n].answered \/ saved.resolved]
<1>1. /\ check # None /\ check \in Check /\ n # None /\ n \in Events /\ check.row \in Event
      /\ check.missing \in Int /\ check.window \in Window /\ check.plan.schedule \in Schedules
  BY DEF CheckUpdates, TypeInv, TypeOK, Check, Plan
<1>2. /\ events' = [events EXCEPT ![n] = kept] /\ check' = None
      /\ UNCHANGED <<now, plan, updates, starts, creation, failed>>
      /\ (saved.resolved /\ events[n].answered /\ told' = told)
           \/ told' = [told EXCEPT ![n] = "missing"]
  BY DEF CheckUpdates, Sent
<1>3. /\ ~check.row.resolved /\ check.row.schedule = check.plan.schedule
      /\ check.row.schedule = events[n].schedule /\ check.row.expected = events[n].expected
      /\ check.row.expected <= check.window.expected
  BY <1>1 DEF Inv, RowIsTrue
<1>4. /\ kept.schedule = events[n].schedule /\ kept.expected = events[n].expected
      /\ kept.resolved = saved.resolved /\ (saved.resolved => check.missing = 0)
  BY <1>1, <1>3 DEF SavedByCheck, Event
<1>5. /\ events \in [Events -> Event] /\ told \in [Events -> { "missing", "found" }]
      /\ starts \in [Time -> Nat] /\ now \in Nat /\ now \in Time
  <2>1. /\ events \in [Events -> Event] /\ told \in [Events -> { "missing", "found" }]
    BY DEF TypeInv, TypeOK, Events
  <2> QED  BY <2>1, TimeTypes
<1>6. /\ check.window = WindowAbout(check.plan.schedule, check.window.expected)
      /\ check.window.expected <= LastTime(check.plan.schedule, now)
      /\ Missing(check.window, starts) <= check.missing
      /\ Missing(check.window, starts) \in Int
  BY <1>1, <1>5, CountType DEF Inv, WindowIsTrue
<1> HIDE DEF kept, saved, n
<1>7. Events' = Events
  BY <1>1, <1>2, ExceptSeq DEF Events, TypeInv, TypeOK
<1>8. \A i \in Events : events'[i] = IF i = n THEN kept ELSE events[i]
  BY <1>1, <1>2, <1>5
<1>9. \A i \in Events :
        events'[i].schedule = events[i].schedule /\ events'[i].expected = events[i].expected
  BY <1>4, <1>8
<1>10. \A i \in Events : told'[i] = told[i] \/ told'[i] = "missing"
  BY <1>1, <1>2, <1>5
<1>11. TimesDiffer' /\ EventsArePast' /\ StartsArePast'
  BY <1>2, <1>7, <1>9 DEF Inv, TimesDiffer, EventsArePast, StartsArePast
<1>12. saved.resolved => Missing(check.window, starts) <= 0
  BY <1>1, <1>4, <1>6
<1>13. /\ events[n].schedule \in Schedules /\ events[n].expected \in Time
       /\ LastTime(events[n].schedule, now) \in Int
  BY <1>1, EventFacts
<1>14. ResolvedIsOver'
  <2> SUFFICES ASSUME NEW i \in Events, events'[i].resolved
               PROVE  \/ events[i].expected < LastTime(events[i].schedule, now)
                      \/ EnoughFor(events[i].schedule, events[i].expected, starts)
    BY <1>2, <1>7, <1>9 DEF ResolvedIsOver
  <2>1. CASE i # n
    BY <1>8, <2>1 DEF Inv, ResolvedIsOver
  <2>2. CASE i = n
    <3>1. saved.resolved
      BY <1>4, <1>8, <2>2
    <3>2. CASE events[n].expected = check.window.expected
      BY <1>3, <1>6, <1>12, <2>2, <3>1, <3>2 DEF EnoughFor
    <3>3. CASE events[n].expected # check.window.expected
      <4>1. check.window.expected \in Int /\ events[n].expected \in Int
        BY <1>1, <1>13, NumberFacts DEF Window
      <4> QED  BY <1>3, <1>6, <1>13, <2>2, <3>3, <4>1
    <3> QED  BY <3>2, <3>3
  <2> QED  BY <2>1, <2>2
<1>15. CreationIsTrue'
  <2>1. creation # None => DOMAIN creation.read \subseteq Events
    BY DEF TypeInv, TypeOK
  <2> QED  BY <1>2, <1>9, <1>10, <2>1 DEF Inv, CreationIsTrue
<1>16. OpenIsTold'
  <2>1. \A i \in Events : i # n => (events'[i] = events[i] /\ told'[i] = told[i])
    BY <1>1, <1>2, <1>5
  <2>2. ~events'[n].resolved => told'[n] = "missing"
    <3>1. ~saved.resolved => told' = [told EXCEPT ![n] = "missing"]
      BY <1>2
    <3> QED  BY <1>1, <1>4, <1>5, <1>8, <3>1
  <2> QED  BY <1>2, <1>7, <2>1, <2>2 DEF Inv, EventsAreTrue, OpenIsTold
<1>17. ResolvedMeansStarted'
  <2>1. \A i \in Events : events'[i].resolved =>
          StartedSince(events[i].schedule, events[i].expected, now, starts) >= Required
    <3> SUFFICES ASSUME NEW i \in Events, events'[i].resolved
                 PROVE  StartedSince(events[i].schedule, events[i].expected, now, starts)
                          >= Required
      OBVIOUS
    <3>1. CASE i # n
      BY <1>8, <3>1, ResolvedMeansStartedMeans DEF Inv, EventsAreTrue
    <3>2. CASE i = n
      <4>1. saved.resolved
        BY <1>4, <1>8, <3>2
      <4>2. events[n].expected - Lead(events[n].schedule) <= check.window.from
        <5>1. check.window.from = check.window.expected - Lead(events[n].schedule)
          BY <1>3, <1>6 DEF WindowAbout
        <5>2. Lead(events[n].schedule) \in Int
          BY <1>1, EventFacts
        <5>3. check.window.expected \in Int /\ events[n].expected \in Int
          BY <1>1, <1>13, NumberFacts DEF Window
        <5> QED  BY <1>3, <5>1, <5>2, <5>3
      <4>3. \A t \in Time : starts[t] > 0 => t <= now
        BY DEF Inv, StartsArePast
      <4> QED  BY <1>1, <1>5, <1>12, <1>13, <3>2, <4>1, <4>2, <4>3, NothingMissing
    <3> QED  BY <3>1, <3>2
  <2> QED  BY <1>2, <1>7, <1>9, <2>1, ResolvedMeansStartedNext
<1>18. WindowIsTrue' /\ NoEventYet' /\ RowIsTrue'
  BY <1>2 DEF WindowIsTrue, NoEventYet, RowIsTrue
<1> QED  BY <1>11, <1>14, <1>15, <1>16, <1>17, <1>18 DEF Inv, EventsAreTrue

\* One more execution has started, and not in the future.
LEMMA RowsFacts ==
  ASSUME TypeInv, Inv, creation # None
  PROVE  /\ Rows \in [Time -> Nat] /\ starts \in [Time -> Nat]
         /\ \A t \in Time : starts[t] <= Rows[t]
         /\ \A t \in Time : Rows[t] > 0 => t <= now
<1>1. /\ starts \in [Time -> Nat] /\ creation.start \in Time /\ creation.start <= now
      /\ now \in Nat
  BY TimeTypes
<1>2. Rows \in [Time -> Nat]
  BY <1>1 DEF Rows
<1>3. \A t \in Time : IF t = creation.start THEN Rows[t] = starts[t] + 1 ELSE Rows[t] = starts[t]
  BY <1>1 DEF Rows
<1>4. \A t \in Time : starts[t] <= Rows[t]
  BY <1>1, <1>3
<1>5. \A t \in Time : Rows[t] > 0 => t <= now
  BY <1>1, <1>3 DEF Inv, StartsArePast
<1> QED  BY <1>1, <1>2, <1>4, <1>5

\* More executions leave fewer missing in the same window.
LEMMA MoreIsLessMissing ==
  ASSUME NEW w, w.from \in Int, w.to \in Int,
         NEW fewer \in [Time -> Nat], NEW more \in [Time -> Nat],
         \A t \in Time : fewer[t] <= more[t]
  PROVE  CountIn(w, fewer) <= CountIn(w, more) /\ Missing(w, more) <= Missing(w, fewer)
<1>1. w.from <= w.from
  OBVIOUS
<1>2. \A t \in Time : fewer[t] > 0 /\ t <= w.to => t <= w.to
  OBVIOUS
<1> QED  BY <1>1, <1>2, CountIsMonotone

LEMMA CreationReadsKeepsInv ==
  ASSUME TypeInv, Inv, NEW start \in Time, CreationReads(start)
  PROVE  Inv'
<1> DEFINE read == [i \in Open(plan) |-> events[i]]
<1>1. creation' = [plan |-> plan, start |-> start, read |-> read]
  BY DEF CreationReads
<1>2. UNCHANGED <<now, plan, updates, starts, events, told, check, failed>>
  BY DEF CreationReads
<1>3. creation'.plan = plan /\ creation'.read = read
  BY <1>1
<1>4. \A i \in DOMAIN read :
        /\ read[i] = events[i] /\ ~events[i].resolved /\ events[i].schedule = plan.schedule
        /\ failed \/ told[i] = "missing"
  <2>1. \A i \in DOMAIN read :
          i \in Events /\ read[i] = events[i] /\ ~events[i].resolved
          /\ events[i].schedule = plan.schedule
    BY DEF Open
  <2> QED  BY <2>1 DEF Inv, EventsAreTrue, OpenIsTold
<1> HIDE DEF read
<1>5. CreationIsTrue'
  BY <1>2, <1>3, <1>4 DEF CreationIsTrue
<1>6. /\ TimesDiffer' /\ StartsArePast' /\ EventsArePast' /\ ResolvedIsOver'
      /\ WindowIsTrue' /\ NoEventYet' /\ RowIsTrue'
  BY <1>2 DEF Inv, WindowIsTrue, NoEventYet, RowIsTrue, TimesDiffer, StartsArePast,
     EventsArePast, ResolvedIsOver, EnoughFor, Events, Missing, CountIn, StartedIn
<1>7. EventsAreTrue'
  BY <1>2 DEF Inv, EventsAreTrue, OpenIsTold, ResolvedMeansStarted, Events, CountIn, StartedIn
<1> QED  BY <1>5, <1>6, <1>7 DEF Inv

LEMMA CreationCommitsKeepsInv ==
  ASSUME TypeInv, TypeInv', Inv, CreationCommits
  PROVE  Inv'
<1> DEFINE after(i) == [SavedByCreation(creation.read[i]) EXCEPT
                          !.answered = @ \/ events[i].answered]
           window == TimeRange(creation.plan)
           n == Missing(window, Rows)
           last(i) == LastTime(events[i].schedule, now)
<1>1. /\ creation # None /\ Refused = {}
      /\ starts' = Rows /\ creation' = None
      /\ UNCHANGED <<now, plan, updates, check, failed>>
      /\ events' = [i \in Events |-> IF i \in Changed THEN after(i) ELSE events[i]]
      /\ told' = [i \in Events |-> IF i \in Answered THEN "found" ELSE told[i]]
  BY DEF CreationCommits
<1>2. Events' = Events
  <2>1. Len(events) \in Nat /\ DOMAIN events' = 1 .. Len(events)
    BY <1>1 DEF TypeInv, TypeOK, Events
  <2>2. Len(events') \in Nat /\ DOMAIN events' = 1 .. Len(events')
    BY DEF TypeInv, TypeOK
  <2> QED  BY <2>1, <2>2 DEF Events
<1>3. /\ Rows \in [Time -> Nat] /\ starts \in [Time -> Nat] /\ now \in Nat /\ now \in Time
      /\ \A t \in Time : starts[t] <= Rows[t]
      /\ \A t \in Time : Rows[t] > 0 => t <= now
  <2>1. now \in Time /\ now \in Nat
    BY NumberFacts DEF TypeInv, TypeOK, Time
  <2> QED  BY <1>1, <2>1, RowsFacts
\* What a creation makes of an event that it changes.
<1>4. ASSUME NEW i \in Changed
      PROVE  /\ i \in Events
             /\ window # None /\ window \in Window
             /\ window = WindowAbout(events[i].schedule, last(i)) /\ last(i) \in Time
             /\ after(i).schedule = events[i].schedule /\ after(i).expected = events[i].expected
             /\ after(i).resolved <=> n = 0
             /\ i \in Answered <=> after(i).resolved
             /\ failed \/ told[i] = "missing"
  <2>1. /\ i \in DOMAIN creation.read /\ creation.read[i] \in Event /\ i \in Events
        /\ window \in Window /\ SavedByCreation(creation.read[i]) \in Event
        /\ creation.plan \in Plan
    <3>1. i \notin Refused
      BY <1>1
    <3>2. i \in DOMAIN creation.read /\ i \in Events /\ creation.plan \in Plan
      BY <1>1 DEF TypeInv, TypeOK, Changed
    <3> QED  BY <1>1, <3>1, <3>2, SavedByCreationType
  <2>2. window # None /\ SavedByCreation(creation.read[i]) =
          [creation.read[i] EXCEPT !.missing = n, !.resolved = n = 0, !.answered = n = 0]
    BY DEF Changed, SavedByCreation
  <2>3. /\ creation.read[i].schedule = creation.plan.schedule
        /\ creation.read[i].schedule = events[i].schedule
        /\ creation.read[i].expected = events[i].expected
        /\ failed \/ told[i] = "missing"
    BY <1>1, <2>1 DEF Inv, CreationIsTrue
  <2>4. window = WindowAbout(events[i].schedule, last(i)) /\ last(i) \in Time
    BY <1>3, <2>1, <2>2, <2>3, WindowIsAboutLastTime
  <2>5. /\ SavedByCreation(creation.read[i]).schedule = events[i].schedule
        /\ SavedByCreation(creation.read[i]).expected = events[i].expected
        /\ SavedByCreation(creation.read[i]).resolved <=> n = 0
    <3> DEFINE none == n = 0
    <3>1. SavedByCreation(creation.read[i]) =
            [creation.read[i] EXCEPT !.missing = n, !.resolved = none, !.answered = none]
      BY <2>2
    <3> HIDE DEF none, n
    <3>2. /\ SavedByCreation(creation.read[i]).schedule = creation.read[i].schedule
          /\ SavedByCreation(creation.read[i]).expected = creation.read[i].expected
          /\ SavedByCreation(creation.read[i]).resolved = none
      BY <2>1, <3>1 DEF Event
    <3> QED  BY <2>3, <3>2 DEF none
  <2>6. /\ after(i).schedule = SavedByCreation(creation.read[i]).schedule
        /\ after(i).expected = SavedByCreation(creation.read[i]).expected
        /\ after(i).resolved = SavedByCreation(creation.read[i]).resolved
    BY <2>1 DEF Event
  <2>7. i \in Answered <=> after(i).resolved
    BY <2>6 DEF Answered
  <2> QED  BY <2>1, <2>2, <2>3, <2>4, <2>5, <2>6, <2>7
<1>5. \A i \in Events : events'[i] = IF i \in Changed THEN after(i) ELSE events[i]
  BY <1>1
<1>6. \A i \in Events : told'[i] = IF i \in Answered THEN "found" ELSE told[i]
  BY <1>1
<1> HIDE DEF after, window, n
<1>7. \A i \in Events :
        events'[i].schedule = events[i].schedule /\ events'[i].expected = events[i].expected
  BY <1>4, <1>5
<1>8. TimesDiffer' /\ EventsArePast' /\ CreationIsTrue'
  BY <1>1, <1>2, <1>7 DEF Inv, TimesDiffer, EventsArePast, CreationIsTrue
<1>9. StartsArePast'
  BY <1>1, <1>3 DEF StartsArePast
<1>10. ResolvedIsOver'
  <2> SUFFICES ASSUME NEW i \in Events, events'[i].resolved
               PROVE  \/ events[i].expected < last(i)
                      \/ EnoughFor(events[i].schedule, events[i].expected, Rows)
    BY <1>1, <1>2, <1>7 DEF ResolvedIsOver
  <2>1. CASE i \in Changed
    <3>1. n = 0 /\ window = WindowAbout(events[i].schedule, last(i))
      BY <1>4, <1>5, <2>1
    <3>2. last(i) \in Int /\ events[i].expected \in Int /\ events[i].expected <= last(i)
      BY NumberFacts, EventFacts DEF Inv, EventsArePast
    <3>3. CASE events[i].expected = last(i)
      BY <3>1, <3>3 DEF EnoughFor, n
    <3>4. CASE events[i].expected # last(i)
      BY <3>2, <3>4
    <3> QED  BY <3>3, <3>4
  <2>2. CASE i \notin Changed
    <3> DEFINE v == WindowAbout(events[i].schedule, events[i].expected)
    <3>1. events[i].expected < last(i) \/ Missing(v, starts) <= 0
      BY <1>5, <2>2 DEF Inv, ResolvedIsOver, EnoughFor
    <3>2. v.from \in Int /\ v.to \in Int
      BY EventFacts DEF Window
    <3> HIDE DEF v
    <3>3. Missing(v, Rows) <= Missing(v, starts)
      BY <1>3, <3>2, MoreIsLessMissing
    <3>4. Missing(v, Rows) \in Int /\ Missing(v, starts) \in Int
      BY <1>3, CountType
    <3>5. events[i].expected < last(i) \/ Missing(v, Rows) <= 0
      BY <3>1, <3>3, <3>4
    <3> QED  BY <3>5 DEF EnoughFor, v
  <2> QED  BY <2>1, <2>2
<1>11. WindowIsTrue'
  <2> SUFFICES ASSUME check # None
               PROVE  Missing(check.window, Rows) <= check.missing
    BY <1>1 DEF Inv, WindowIsTrue
  <2>1. check.window \in Window /\ check.missing \in Int
    BY DEF TypeInv, TypeOK, Check
  <2>2. check.window.from \in Int /\ check.window.to \in Int
    BY <2>1 DEF Window
  <2>3. Missing(check.window, Rows) <= Missing(check.window, starts)
    BY <1>3, <2>2, MoreIsLessMissing
  <2>4. Missing(check.window, starts) <= check.missing
    BY DEF Inv, WindowIsTrue
  <2>5. Missing(check.window, Rows) \in Int /\ Missing(check.window, starts) \in Int
    BY <1>3, CountType
  <2> QED  BY <2>1, <2>3, <2>4, <2>5
<1>12. NoEventYet'
  BY <1>1, <1>2, <1>7 DEF Inv, NoEventYet
<1>13. RowIsTrue'
  <2>1. (check # None /\ check.event # None) => check.event \in Events
    BY DEF TypeInv, TypeOK
  <2> QED  BY <1>1, <1>7, <2>1 DEF Inv, RowIsTrue
<1>14. OpenIsTold'
  <2> SUFFICES ASSUME ~failed, NEW i \in Events, ~events'[i].resolved
               PROVE  told'[i] = "missing"
    BY <1>1, <1>2 DEF OpenIsTold
  <2>1. CASE i \in Changed
    BY <1>4, <1>5, <1>6, <2>1
  <2>2. CASE i \notin Changed
    <3>1. i \notin Answered
      BY <2>2 DEF Answered
    <3> QED  BY <1>5, <1>6, <2>2, <3>1 DEF Inv, EventsAreTrue, OpenIsTold
  <2> QED  BY <2>1, <2>2
<1>15. ResolvedMeansStarted'
  <2>1. ASSUME NEW i \in Events, events'[i].resolved
        PROVE  StartedSince(events[i].schedule, events[i].expected, now, Rows) >= Required
    <3>1. CASE i \in Changed
      <4>1. /\ n = 0 /\ window \in Window
            /\ window = WindowAbout(events[i].schedule, last(i)) /\ last(i) \in Int
        BY <1>4, <1>5, <2>1, <3>1, NumberFacts
      <4>2. /\ events[i].schedule \in Schedules /\ events[i].expected \in Time
            /\ Lead(events[i].schedule) \in Int /\ events[i].expected <= last(i)
        BY EventFacts DEF Inv, EventsArePast
      <4>3. events[i].expected - Lead(events[i].schedule) <= window.from
        BY <4>1, <4>2, NumberFacts DEF WindowAbout
      <4>4. Missing(window, Rows) <= 0
        BY <4>1 DEF n
      <4> QED  BY <1>3, <4>1, <4>2, <4>3, <4>4, NothingMissing
    <3>2. CASE i \notin Changed
      <4> DEFINE w == [from |-> events[i].expected - Lead(events[i].schedule), to |-> now]
      <4>1. CountIn(w, starts) >= Required
        BY <1>5, <2>1, <3>2, ResolvedMeansStartedMeans DEF Inv, EventsAreTrue, StartedSince
      <4>2. w.from \in Int /\ w.to \in Int
        BY <1>3, EventFacts, NumberFacts
      <4> HIDE DEF w
      <4>3. CountIn(w, starts) <= CountIn(w, Rows)
        BY <1>3, <4>2, MoreIsLessMissing
      <4>4. CountIn(w, starts) \in Nat /\ CountIn(w, Rows) \in Nat
        BY <1>3, CountType
      <4>5. CountIn(w, Rows) >= Required
        BY <4>1, <4>3, <4>4, NumberFacts
      <4> QED  BY <4>5 DEF w, StartedSince
    <3> QED  BY <3>1, <3>2
  <2> QED  BY <1>1, <1>2, <1>7, <2>1, ResolvedMeansStartedNext
<1> QED  BY <1>8, <1>9, <1>10, <1>11, <1>12, <1>13, <1>14, <1>15 DEF Inv, EventsAreTrue

\* What a creation that fails has sent does not count: it has failed.
LEMMA CreationFailsKeepsInv ==
  ASSUME TypeInv, Inv, CreationFails
  PROVE  Inv'
<1>1. creation' = None /\ failed' = TRUE
      /\ UNCHANGED <<now, plan, updates, starts, events, check>>
  BY DEF CreationFails
<1>2. CreationIsTrue' /\ OpenIsTold'
  BY <1>1 DEF CreationIsTrue, OpenIsTold
<1>3. /\ TimesDiffer' /\ StartsArePast' /\ EventsArePast' /\ ResolvedIsOver'
      /\ WindowIsTrue' /\ NoEventYet' /\ RowIsTrue'
  BY <1>1 DEF Inv, WindowIsTrue, NoEventYet, RowIsTrue, TimesDiffer, StartsArePast,
     EventsArePast, ResolvedIsOver, EnoughFor, Events, Missing, CountIn, StartedIn
<1>4. ResolvedMeansStarted'
  BY <1>1 DEF Inv, EventsAreTrue, ResolvedMeansStarted, Events, CountIn, StartedIn
<1> QED  BY <1>2, <1>3, <1>4 DEF Inv, EventsAreTrue

\* Time makes more of what is over, and of what is past.
LEMMA TickKeepsInv ==
  ASSUME TypeInv, TypeInv', Inv, Tick
  PROVE  Inv'
<1>1. /\ now' = now + 1 /\ now \in Nat
      /\ UNCHANGED <<plan, updates, starts, events, told, check, creation, failed>>
  BY NumberFacts DEF Tick, TypeInv, TypeOK
<1>2. Events' = Events /\ starts \in [Time -> Nat] /\ now + 1 \in Nat
  BY <1>1, NumberFacts DEF Events, TypeInv, TypeOK
<1>3. \A s \in Schedules :
        /\ LastTime(s, now) \in Int /\ LastTime(s, now + 1) \in Int
        /\ LastTime(s, now) <= LastTime(s, now + 1)
  BY <1>1, <1>2, LastTimeIsPast, LastTimeAdvances
<1>4. \A i \in Events : events[i].schedule \in Schedules /\ events[i].expected \in Int
  BY EventFacts, NumberFacts
<1>5. StartsArePast'
  BY <1>1, NumberFacts DEF Inv, StartsArePast
<1>6. EventsArePast'
  BY <1>1, <1>2, <1>3, <1>4 DEF Inv, EventsArePast
<1>7. ResolvedIsOver'
  BY <1>1, <1>2, <1>3, <1>4 DEF Inv, ResolvedIsOver
<1>8. WindowIsTrue'
  <2> SUFFICES ASSUME check # None
               PROVE  check.window.expected <= LastTime(check.plan.schedule, now + 1)
    BY <1>1 DEF Inv, WindowIsTrue
  <2>1. check \in Check
    BY DEF TypeInv, TypeOK
  <2>2. check.window \in Window /\ check.plan \in Plan
    BY <2>1 DEF Check
  <2>3. check.window.expected \in Int /\ check.plan.schedule \in Schedules
    BY <2>2, NumberFacts DEF Window, Plan
  <2> QED  BY <1>3, <2>3 DEF Inv, WindowIsTrue
<1>9. TimesDiffer' /\ NoEventYet' /\ RowIsTrue' /\ CreationIsTrue'
  BY <1>1, <1>2 DEF Inv, TimesDiffer, NoEventYet, RowIsTrue, CreationIsTrue
<1>10. OpenIsTold'
  BY <1>1, <1>2 DEF Inv, EventsAreTrue, OpenIsTold
<1>11. ResolvedMeansStarted'
  <2>1. ASSUME NEW i \in Events, events[i].resolved
        PROVE  StartedSince(events[i].schedule, events[i].expected, now + 1, starts) >= Required
    <3> DEFINE v == [from |-> events[i].expected - Lead(events[i].schedule), to |-> now]
               w == [from |-> events[i].expected - Lead(events[i].schedule), to |-> now + 1]
    <3>1. CountIn(v, starts) >= Required
      BY <2>1, ResolvedMeansStartedMeans DEF Inv, EventsAreTrue, StartedSince
    <3>2. /\ v.from \in Int /\ v.to \in Int /\ w.from \in Int /\ w.to \in Int
          /\ w.from <= v.from /\ v.to <= w.to
      BY <1>1, <1>4, EventFacts
    <3> HIDE DEF v, w
    <3>3. \A t \in Time : starts[t] <= starts[t]
      BY <1>2, NumberFacts
    <3>4. \A t \in Time : starts[t] > 0 /\ t <= v.to => t <= w.to
      BY <3>2, NumberFacts
    <3>5. CountIn(v, starts) <= CountIn(w, starts)
      BY <1>2, <3>2, <3>3, <3>4, CountIsMonotone
    <3>6. CountIn(v, starts) \in Nat /\ CountIn(w, starts) \in Nat
      BY <1>2, CountType
    <3>7. CountIn(w, starts) >= Required
      BY <3>1, <3>5, <3>6, NumberFacts
    <3> QED  BY <3>7 DEF w, StartedSince
  <2> QED  BY <1>1, <1>2, <2>1, ResolvedMeansStartedNext
<1> QED  BY <1>5, <1>6, <1>7, <1>8, <1>9, <1>10, <1>11 DEF Inv, EventsAreTrue

-----------------------------------------------------------------------------
LEMMA InitHasInv == Init => Inv
<1> SUFFICES ASSUME Init PROVE Inv
  OBVIOUS
<1>1. Events = {} /\ check = None /\ creation = None /\ \A t \in Time : ~(starts[t] > 0)
  BY DEF Init, Events
<1> QED  BY <1>1 DEF Inv, TimesDiffer, StartsArePast, EventsArePast, ResolvedIsOver,
         WindowIsTrue, NoEventYet, RowIsTrue, CreationIsTrue, EventsAreTrue, OpenIsTold,
         ResolvedMeansStarted

LEMMA StepKeepsInv == TypeInv /\ TypeInv' /\ Inv /\ [Next]_vars => Inv'
<1> SUFFICES ASSUME TypeInv, TypeInv', Inv, [Next]_vars PROVE Inv'
  OBVIOUS
<1>1. CASE CheckReads
  BY <1>1, CheckReadsKeepsInv
<1>2. CASE UNCHANGED <<now, starts, events, told, creation, failed>> /\ check' \in {check, None}
  <2>1. UNCHANGED <<now, starts, events, told, creation, failed>> /\ check' \in {check, None}
    BY <1>2
  <2>2. TimesDiffer' /\ StartsArePast' /\ EventsArePast' /\ CreationIsTrue'
    BY <2>1 DEF Inv, TimesDiffer, StartsArePast, EventsArePast, CreationIsTrue, Events
  <2>3. ResolvedIsOver'
    BY <2>1 DEF Inv, ResolvedIsOver, EnoughFor, Events, Missing, CountIn, StartedIn
  <2>4. WindowIsTrue'
    BY <2>1 DEF Inv, WindowIsTrue, Missing, CountIn, StartedIn
  <2>5. NoEventYet' /\ RowIsTrue'
    BY <2>1 DEF Inv, NoEventYet, RowIsTrue, Events
  <2>6. EventsAreTrue'
    BY <2>1 DEF Inv, EventsAreTrue, OpenIsTold, ResolvedMeansStarted, Events, CountIn, StartedIn
  <2> QED  BY <2>2, <2>3, <2>4, <2>5, <2>6 DEF Inv
<1>3. CASE CheckPasses
  BY <1>2, <1>3 DEF CheckPasses
<1>4. CASE CheckRaises
  BY <1>4, CheckRaisesKeepsInv
<1>5. CASE CheckUpdates
  BY <1>5, CheckUpdatesKeepsInv
<1>6. CASE \E start \in Time : CreationReads(start)
  BY <1>6, CreationReadsKeepsInv
<1>7. CASE CreationCommits
  BY <1>7, CreationCommitsKeepsInv
<1>8. CASE CreationFails
  BY <1>8, CreationFailsKeepsInv
<1>9. CASE \E s \in Schedules : Reschedule(s)
  BY <1>2, <1>9 DEF Reschedule
<1>10. CASE Tick
  BY <1>10, TickKeepsInv
<1>11. CASE UNCHANGED vars
  BY <1>2, <1>11 DEF vars
<1> QED  BY <1>1, <1>3, <1>4, <1>5, <1>6, <1>7, <1>8, <1>9, <1>10, <1>11 DEF Next, CheckStep

LEMMA InvIsInvariant == Spec => [](TypeInv /\ Inv)
  BY InitHasTypes, StepKeepsTypes, InitHasInv, StepKeepsInv, PTL DEF Spec

\* Whatever the checker, the creation of executions and edits of the schedule do
\* in whatever order, users never have two open events about one expected time:
\* the checker's search for an open event before it creates one is enough, though
\* it is not in a transaction with it, and though saves that cross may open an
\* event again (ScheduleChecker.check_executions).
THEOREM OneEventForEachTime == Spec => []OneEventPerTime
<1>1. TypeInv /\ Inv => OneEventPerTime
  BY DEF Inv, TimesDiffer, OneEventPerTime, Open
<1> QED  BY <1>1, InvIsInvariant, PTL

\* An event is only resolved after as many executions as required have started
\* since its window began, whatever counts the checker and the creation had read
\* before; and while no creation has failed, the last that users heard of an open
\* event is that executions are missing (ScheduleChecker.check_executions,
\* Execution.resolve_missing_scheduled_execution_events).
THEOREM EventsTellTheTruth == Spec => []EventsAreTrue
<1>1. TypeInv /\ Inv => EventsAreTrue
  BY DEF Inv
<1> QED  BY <1>1, InvIsInvariant, PTL

=============================================================================
