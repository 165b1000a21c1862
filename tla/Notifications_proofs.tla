------------------------ MODULE Notifications_proofs ------------------------
(***************************************************************************)
(* Theorems about Notifications, for every number of processes, every      *)
(* severity and postponement, every limit and every number of ends, edits  *)
(* and crashes; then about WorkflowAlerts, for any number of attempts, and *)
(* about Delivery, for any profiles and methods.                           *)
(***************************************************************************)
EXTENDS Alerting, FiniteSetTheorems, TLAPS

-----------------------------------------------------------------------------
(* What processes have read.                                               *)

\* The fields of what a process does.
LEMMA WorkFields ==
  ASSUME NEW w \in Work
  PROVE  /\ w.job \in { "end", "check", "edit" }
         /\ w.event \in Execution
         /\ w.status \in Outcome \cup {None}
         /\ w.enabled \in BOOLEAN /\ w.resolves \in BOOLEAN
         /\ w.saw \in 0 .. MaxEnds
         /\ DOMAIN w.read \subseteq Execution
         /\ w.read \in [DOMAIN w.read -> Event]
         /\ w.counted \in Counted \cup {None}
BY DEF Work

\* Rows that are read have their types.
LEMMA ReadType ==
  ASSUME NEW some \in SUBSET Execution, NEW f \in [some -> Event]
  PROVE  f \in UNION { [any -> Event] : any \in SUBSET Execution }
OBVIOUS

\* What a process does when it begins.
LEMMA BegunType ==
  ASSUME NEW job \in { "end", "check", "edit" }, NEW e \in Execution,
         NEW outcome \in Outcome \cup {None}, NEW on \in BOOLEAN,
         NEW resolves \in BOOLEAN, NEW saw \in 0 .. MaxEnds,
         NEW some \in SUBSET Execution, NEW f \in [some -> Event]
  PROVE  [ job |-> job, event |-> e, status |-> outcome, enabled |-> on,
           resolves |-> resolves, saw |-> saw, read |-> f, counted |-> None ] \in Work
<1>1. f \in UNION { [any -> Event] : any \in SUBSET Execution }
  BY ReadType
<1> QED
  BY <1>1 DEF Work

\* All that a process does but the counters that it is to save.
Alike(v, w) ==
  /\ v.job = w.job /\ v.event = w.event /\ v.status = w.status
  /\ v.enabled = w.enabled /\ v.resolves = w.resolves
  /\ v.saw = w.saw /\ v.read = w.read

\* A process that has counted does what it did.
LEMMA CountedType ==
  ASSUME NEW w \in Work, NEW c \in Counted \cup {None}
  PROVE  LET v == [w EXCEPT !.counted = c] IN
         v \in Work /\ Alike(v, w) /\ v.counted = c
BY DEF Work, Alike

\* A row to which a success, or an end of the same kind, is added.
LEMMA AddedType ==
  ASSUME NEW event \in Event, NEW n \in Nat, NEW b \in BOOLEAN
  PROVE  /\ [event EXCEPT !.successes = n, !.resolved = b] \in Event
         /\ [event EXCEPT !.same = n, !.triggered = b] \in Event
BY DEF Event

\* A row that another end has updated.
LEMMA UpdatedType ==
  ASSUME NEW event \in Event, NEW outcome \in Outcome
  PROVE  /\ UpdatedAfter(event, outcome) \in Event
         /\ UpdatedAfter(event, outcome).successes =
              event.successes + IF outcome = "SUCCEEDED" THEN 1 ELSE 0
         /\ UpdatedAfter(event, outcome).resolved =
              IF outcome = "SUCCEEDED"
              THEN RequiredSuccesses # None /\ event.successes + 1 >= RequiredSuccesses
              ELSE event.resolved
<1>1. event.successes + 1 \in Nat /\ event.same + 1 \in Nat
  BY DEF Event
<1>2. UpdatedAfter(event, outcome) \in Event
  <2> DEFINE cleared == RequiredSuccesses # None /\ event.successes + 1 >= RequiredSuccesses
             due == event.same + 1 >= PostponeCount[outcome]
  <2>1. cleared \in BOOLEAN /\ due \in BOOLEAN
    OBVIOUS
  <2>2. [event EXCEPT !.successes = event.successes + 1, !.resolved = cleared] \in Event
    BY <1>1, <2>1, AddedType
  <2>3. [event EXCEPT !.same = event.same + 1, !.triggered = due] \in Event
    BY <1>1, <2>1, AddedType
  <2> QED
    BY <2>2, <2>3, Zenon DEF UpdatedAfter
<1>3. UpdatedAfter(event, outcome).successes =
        event.successes + IF outcome = "SUCCEEDED" THEN 1 ELSE 0
  BY DEF UpdatedAfter, Event
<1>4. UpdatedAfter(event, outcome).resolved =
        IF outcome = "SUCCEEDED"
        THEN RequiredSuccesses # None /\ event.successes + 1 >= RequiredSuccesses
        ELSE event.resolved
  BY DEF UpdatedAfter, Event
<1> QED
  BY <1>2, <1>3, <1>4

\* A success that leaves a row open is not yet enough.
LEMMA OpenAfterSuccess ==
  ASSUME NEW event \in Event, NEW after, after = UpdatedAfter(event, "SUCCEEDED"),
         ~after.resolved, RequiredSuccesses # None
  PROVE  after.successes < RequiredSuccesses
<1>1. after.successes = event.successes + 1 /\ event.successes \in Nat
  BY UpdatedType DEF Outcome, Event
<1>2. ~(event.successes + 1 >= RequiredSuccesses)
  BY UpdatedType DEF Outcome
<1> QED
  BY <1>1, <1>2, SettingsAssumption

\* What a process is to save, and the events that it is to send.
LEMMA SavesType ==
  ASSUME NEW w \in Work,
         w.job = "end" => w.status \in Outcome,
         w.job # "end" => w.event \in DOMAIN w.read
  PROVE  /\ DOMAIN Saves(w) \subseteq DOMAIN w.read
         /\ \A e \in DOMAIN Saves(w) : Saves(w)[e] \in Event
         /\ w.job = "end" => DOMAIN Saves(w) = DOMAIN w.read
         /\ w.job # "end" => DOMAIN Saves(w) = {w.event}
<1> USE WorkFields
<1>1. CASE w.job = "end"
  <2>1. Saves(w) = [e \in DOMAIN w.read |-> UpdatedAfter(w.read[e], w.status)]
    BY <1>1 DEF Saves
  <2>2. \A e \in DOMAIN w.read : w.read[e] \in Event /\ w.status \in Outcome
    BY <1>1
  <2> QED
    BY <1>1, <2>1, <2>2, UpdatedType
<1>2. CASE w.job = "check"
  <2>1. Saves(w) = [e \in {w.event} |->
                      IF w.enabled THEN [w.read[e] EXCEPT !.triggered = TRUE]
                      ELSE [w.read[e] EXCEPT !.resolved = TRUE]]
    BY <1>2 DEF Saves
  <2>2. w.read[w.event] \in Event
    BY <1>2
  <2>3. [w.read[w.event] EXCEPT !.triggered = TRUE] \in Event
    BY <2>2 DEF Event
  <2>4. [w.read[w.event] EXCEPT !.resolved = TRUE] \in Event
    BY <2>2 DEF Event
  <2>5. \A e \in {w.event} :
          (IF w.enabled THEN [w.read[e] EXCEPT !.triggered = TRUE]
           ELSE [w.read[e] EXCEPT !.resolved = TRUE]) \in Event
    BY <2>3, <2>4
  <2>6. \A e \in DOMAIN Saves(w) : Saves(w)[e] \in Event
    BY <2>1, <2>5
  <2>7. DOMAIN Saves(w) = {w.event} /\ w.event \in DOMAIN w.read
    BY <1>2, <2>1
  <2> QED
    BY <1>2, <2>6, <2>7
<1>3. CASE w.job = "edit"
  <2>1. Saves(w) = [e \in {w.event} |-> [w.read[e] EXCEPT !.resolved = @ \/ w.resolves]]
    BY <1>3 DEF Saves
  <2>2. w.read[w.event] \in Event
    BY <1>3
  <2> QED
    BY <1>3, <2>1, <2>2 DEF Event
<1> QED
  BY <1>1, <1>2, <1>3

LEMMA SendsType ==
  ASSUME NEW w \in Work,
         w.job # "end" => w.event \in DOMAIN w.read
  PROVE  /\ Sends(w) \subseteq Execution
         /\ Sends(w) \subseteq DOMAIN w.read
              \cup IF Creates(w) /\ ~Postpones(w.status) THEN {w.event} ELSE {}
BY WorkFields DEF Sends, Creates

\* What is sent, saved and created does not depend on what was counted.
LEMMA AlikeSends ==
  ASSUME NEW v, NEW w, Alike(v, w)
  PROVE  Sends(v) = Sends(w) /\ Saves(v) = Saves(w) /\ Creates(v) = Creates(w)
BY DEF Alike, Sends, Saves, Creates

-----------------------------------------------------------------------------
(* Types, and what the processes that are at work know.                    *)

Ended(e) == \E j \in DOMAIN ends : ends[j].event = e

\* An execution that is ending has no event yet.
EndFine(w) ==
  w.job = "end" =>
    /\ w.status \in Outcome /\ w.saw <= Len(ends)
    /\ w.event <= issued /\ w.event \notin Existing /\ ~Ended(w.event)

\* The checker, and an end, take up open events only; a user has one row.
RowFine(w) ==
  /\ w.job # "end" => w.event \in DOMAIN w.read
  /\ w.job # "edit" => \A e \in DOMAIN w.read : Open(w.read[e])
  /\ w.job = "edit" => DOMAIN w.read = {w.event} /\ (w.resolves => w.event \in settled)

WorkInv ==
  /\ \A i \in DOMAIN ends : ends[i].saw < i /\ ends[i].event <= issued
  /\ \A i, j \in DOMAIN ends : ends[i].event = ends[j].event => i = j
  /\ \A e \in Existing : Ended(e)
  /\ \A p \in Processes : Busy(p) => EndFine(work[p]) /\ RowFine(work[p])
  /\ \A p, q \in Processes :
       Busy(p) /\ Busy(q) /\ p # q /\ work[p].job = "end" /\ work[q].job = "end"
         => work[p].event # work[q].event

Inv == TypeOK /\ WorkInv

\* What a busy process does is typed.
LEMMA BusyType ==
  ASSUME TypeOK, NEW p \in Processes, Busy(p)
  PROVE  work[p] \in Work /\ DOMAIN work[p].read \subseteq Existing
BY DEF TypeOK, Busy

\* No more executions have ended than may.
LEMMA EndsBounded ==
  ASSUME Inv
  PROVE  ends \in Seq(End) /\ Len(ends) \in 0 .. MaxEnds
<1> DEFINE S == 1 .. Len(ends)
           f == [i \in S |-> ends[i].event]
<1>1. ends \in Seq(End) /\ Len(ends) \in Nat /\ DOMAIN ends = S
  BY DEF Inv, TypeOK
<1>2. \A i \in S : ends[i].event \in Execution
  <2>1. \A i \in S : ends[i] \in End
    BY <1>1
  <2> QED
    BY <2>1 DEF End
<1>3. f \in Injection(S, Execution)
  BY <1>1, <1>2 DEF Inv, WorkInv, Injection, IsInjective
<1>4. MaxEnds \in Nat /\ 1 \in Int /\ 0 <= MaxEnds
  BY SettingsAssumption
<1>5. IsFiniteSet(Execution) /\ Cardinality(Execution) = MaxEnds
  BY <1>4, FS_Interval DEF Execution
<1>6. Cardinality(S) = Len(ends)
  <2>1. PICK n \in Nat : n = Len(ends)
    BY <1>1
  <2>2. 1 \in Int /\ n \in Int /\ 0 <= n
    OBVIOUS
  <2>3. Cardinality(1 .. n) = n
    BY <2>2, FS_Interval
  <2> QED
    BY <2>1, <2>3
<1>7. Cardinality(S) <= Cardinality(Execution)
  BY <1>3, <1>5, FS_Injection
<1> QED
  BY <1>1, <1>4, <1>5, <1>6, <1>7

LEMMA InvInit == Init => Inv
<1> SUFFICES ASSUME Init PROVE Inv
  OBVIOUS
<1> USE SettingsAssumption DEF Init
<1>1. DOMAIN events = {} /\ DOMAIN left = {} /\ DOMAIN ends = {}
  OBVIOUS
<1>2. events \in [Existing -> Event] /\ left \in [Existing -> Nat \cup {None}]
  BY <1>1 DEF Existing
<1>3. ends \in Seq(End) /\ counter \in [count : Nat, age : 0 .. Expired]
  BY DEF Expired
<1>4. TypeOK
  <2>1. work \in [Processes -> Work \cup {None}]
          /\ \A p \in Processes : work[p] # None => DOMAIN work[p].read \subseteq Existing
    OBVIOUS
  <2>2. attempts \in [Execution -> Nat] /\ sent \in [0 .. Period -> Nat]
    OBVIOUS
  <2>3. issued \in 0 .. MaxEnds /\ Existing \subseteq Execution
    BY <1>1 DEF Existing
  <2>4. enabled \in BOOLEAN /\ overlapped \in BOOLEAN
          /\ contended \subseteq Execution /\ settled \subseteq Execution
    OBVIOUS
  <2> QED
    BY <1>2, <1>3, <2>1, <2>2, <2>3, <2>4 DEF TypeOK
<1>5. WorkInv
  BY <1>1 DEF WorkInv, Existing, Busy
<1> QED
  BY <1>4, <1>5 DEF Inv

\* A process that begins keeps the others as they are.
LEMMA BeginKeeps ==
  ASSUME Inv, NEW p \in Processes, ~Busy(p), NEW w \in Work, Begin(p, w),
         DOMAIN w.read \subseteq Existing,
         UNCHANGED <<events, left, enabled, counter, ends, attempts, sent, overlapped>>,
         issued' \in issued .. MaxEnds,
         settled \subseteq settled', settled' \subseteq Execution,
         EndFine(w)', RowFine(w)',
         w.job = "end" =>
           \A q \in Processes : Busy(q) /\ work[q].job = "end" => work[q].event # w.event
  PROVE  Inv'
<1> USE DEF Inv
<1>1. work' = [work EXCEPT ![p] = w] /\ w # None /\ None \notin Work
  BY NoneAssumption DEF Begin
<1>2. work' \in [Processes -> Work \cup {None}] /\ contended' \subseteq Execution
  <2>1. DOMAIN w.read \subseteq Execution
    BY WorkFields
  <2> QED
    BY <1>1, <2>1 DEF TypeOK, Begin
<1>3. \A q \in Processes : DOMAIN work'[q].read \subseteq Existing \/ work'[q] = None
  BY <1>1 DEF TypeOK
<1>4. TypeOK'
  BY <1>2, <1>3, SettingsAssumption DEF TypeOK, Existing
<1>5. work'[p] = w /\ \A q \in Processes \ {p} : work'[q] = work[q]
  BY <1>1 DEF TypeOK
<1>6. \A i \in DOMAIN ends' : ends'[i].saw < i /\ ends'[i].event <= issued'
  <2>1. issued \in Int /\ issued' \in Int /\ issued <= issued'
    BY SettingsAssumption DEF TypeOK
  <2>2. \A i \in DOMAIN ends : ends[i] \in End
    BY DEF TypeOK
  <2>3. \A i \in DOMAIN ends : ends[i].event \in Int
    BY <2>2 DEF End, Execution
  <2> QED
    BY <2>1, <2>3 DEF WorkInv
<1>7. \A e \in Existing' : Ended(e)'
  BY DEF WorkInv, Existing, Ended
<1>8. ASSUME NEW q \in Processes, Busy(q)'
      PROVE  EndFine(work[q])' /\ RowFine(work[q])'
  <2>1. CASE q = p
    BY <2>1, <1>5
  <2>2. CASE q # p
    <3>1. Busy(q) /\ work'[q] = work[q] /\ work[q] \in Work
      BY <1>5, <2>2, <1>8 DEF Busy, TypeOK
    <3>2. EndFine(work[q]) /\ RowFine(work[q])
      BY <3>1 DEF WorkInv
    <3>3. work[q].event \in Int /\ issued \in Int /\ issued' \in Int /\ issued <= issued'
      BY <3>1, WorkFields, SettingsAssumption DEF TypeOK, Execution
    <3>4. EndFine(work[q])'
      BY <3>1, <3>2, <3>3 DEF EndFine, Existing, Ended
    <3>5. RowFine(work[q])'
      BY <3>1, <3>2 DEF RowFine, Open
    <3> QED
      BY <3>4, <3>5
  <2> QED
    BY <2>1, <2>2
<1>9. ASSUME NEW a \in Processes, NEW b \in Processes,
             Busy(a)', Busy(b)', a # b, work'[a].job = "end", work'[b].job = "end"
      PROVE  work'[a].event # work'[b].event
  <2>1. CASE a # p /\ b # p
    <3>1. Busy(a) /\ Busy(b) /\ work'[a] = work[a] /\ work'[b] = work[b]
      BY <1>5, <1>9, <2>1 DEF Busy
    <3> QED
      BY <1>9, <3>1 DEF WorkInv
  <2>2. CASE a = p
    BY <2>2, <1>9, <1>5 DEF Busy
  <2>3. CASE b = p
    BY <2>3, <1>9, <1>5 DEF Busy
  <2> QED
    BY <2>1, <2>2, <2>3
<1>10. WorkInv'
  BY <1>6, <1>7, <1>8, <1>9 DEF WorkInv
<1> QED
  BY <1>4, <1>10

\* What a process that begins reads is as the rows are.
Starts(p, w) ==
  /\ ~Busy(p) /\ Begin(p, w) /\ w.counted = None
  /\ DOMAIN w.read \subseteq Existing
  /\ \A e \in DOMAIN w.read : w.read[e] = events[e]
  /\ w.job # "edit" => w.enabled = enabled /\ UNCHANGED <<edits, settled>>
  /\ w.job = "end" => DOMAIN w.read = IF enabled THEN Found ELSE {}
  /\ w.job = "edit" => edits < MaxEdits /\ edits' = edits + 1
  /\ settled \subseteq settled'
  /\ UNCHANGED <<events, left, enabled, counter, ends, attempts, sent, overlapped>>

LEMMA EndBeginsKeeps ==
  ASSUME Inv, NEW p \in Processes, NEW outcome \in Outcome, EndBegins(p, outcome)
  PROVE  Inv' /\ \E w \in Work : Starts(p, w)
<1> DEFINE found == IF enabled THEN Found ELSE {}
           begun == [ job |-> "end", event |-> issued + 1, status |-> outcome,
                      enabled |-> enabled, resolves |-> FALSE, saw |-> Len(ends),
                      read |-> [e \in found |-> events[e]], counted |-> None ]
<1>1. found \subseteq Existing /\ \A e \in found : Open(events[e])
  BY DEF Found
<1>2. issued \in Nat /\ MaxEnds \in Nat /\ issued < MaxEnds /\ issued' = issued + 1
  BY SettingsAssumption DEF EndBegins, Inv, TypeOK
<1>3. ends \in Seq(End) /\ Len(ends) \in 0 .. MaxEnds
  BY EndsBounded DEF Inv, TypeOK
<1>4. begun \in Work
  <2>1. found \in SUBSET Execution /\ [e \in found |-> events[e]] \in [found -> Event]
    BY <1>1 DEF Inv, TypeOK
  <2>2. issued + 1 \in Execution
    BY <1>2 DEF Execution
  <2>3. enabled \in BOOLEAN
    BY DEF Inv, TypeOK
  <2> HIDE DEF found
  <2> QED
    BY <1>3, <2>1, <2>2, <2>3, BegunType
<1>5. PICK w \in Work : w = begun
  BY <1>4
<1>6. w.job = "end" /\ w.event = issued + 1 /\ w.status = outcome /\ w.saw = Len(ends)
        /\ DOMAIN w.read = found /\ w.enabled = enabled /\ w.counted = None
        /\ (\A e \in found : w.read[e] = events[e])
        /\ ~Busy(p) /\ Begin(p, w)
  BY <1>5 DEF EndBegins
<1> HIDE DEF begun, found
<1>7. UNCHANGED <<events, left, enabled, counter, ends, attempts, sent, overlapped, settled>>
  BY DEF EndBegins
<1>8. EndFine(w)'
  <2>1. ~Ended(issued + 1)
    <3>1. \A j \in DOMAIN ends : ends[j].event <= issued /\ ends[j] \in End
      BY <1>3 DEF Inv, WorkInv
    <3> QED
      BY <1>2, <3>1 DEF Ended, End, Execution
  <2>2. issued + 1 \notin Existing
    BY <2>1 DEF Inv, WorkInv
  <2> QED
    BY <1>2, <1>3, <1>6, <1>7, <2>1, <2>2 DEF EndFine, Existing, Ended
<1>9. RowFine(w)'
  BY <1>1, <1>6 DEF RowFine, Open
<1>10. \A q \in Processes : Busy(q) /\ work[q].job = "end" => work[q].event # w.event
  <2> SUFFICES ASSUME NEW q \in Processes, Busy(q), work[q].job = "end"
               PROVE  work[q].event # issued + 1
    BY <1>6
  <2>1. work[q].event <= issued /\ work[q].event \in Int
    BY BusyType, WorkFields DEF Inv, WorkInv, EndFine, Execution
  <2> QED
    BY <1>2, <2>1
<1>11. issued' \in issued .. MaxEnds
  BY <1>2
<1>12. settled \subseteq settled' /\ settled' \subseteq Execution
  BY <1>7 DEF Inv, TypeOK
<1>13. Inv'
  BY <1>1, <1>6, <1>7, <1>8, <1>9, <1>10, <1>11, <1>12, BeginKeeps
<1>14. Starts(p, w)
  BY <1>1, <1>6, <1>7 DEF Starts, EndBegins, found
<1> QED
  BY <1>13, <1>14

LEMMA CheckBeginsKeeps ==
  ASSUME Inv, NEW p \in Processes, CheckBegins(p)
  PROVE  Inv' /\ \E w \in Work : Starts(p, w)
<1>1. PICK first \in Due :
        Begin(p, [ job |-> "check", event |-> first, status |-> None,
                   enabled |-> enabled, resolves |-> FALSE, saw |-> Len(ends),
                   read |-> [e \in Due |-> events[e]], counted |-> None ])
  BY DEF CheckBegins
<1> DEFINE begun == [ job |-> "check", event |-> first, status |-> None,
                      enabled |-> enabled, resolves |-> FALSE, saw |-> Len(ends),
                      read |-> [e \in Due |-> events[e]], counted |-> None ]
<1>2. Due \subseteq Existing /\ \A e \in Due : Open(events[e])
  BY DEF Due
<1>3. begun \in Work
  <2>1. Due \in SUBSET Execution /\ [e \in Due |-> events[e]] \in [Due -> Event]
    BY <1>2 DEF Inv, TypeOK
  <2>2. enabled \in BOOLEAN /\ Len(ends) \in 0 .. MaxEnds
    BY EndsBounded DEF Inv, TypeOK
  <2> QED
    BY <2>1, <2>2, BegunType
<1>4. PICK w \in Work : w = begun
  BY <1>3
<1>5. w.job = "check" /\ w.event \in DOMAIN w.read /\ DOMAIN w.read = Due
        /\ w.enabled = enabled /\ w.counted = None
        /\ (\A e \in Due : w.read[e] = events[e])
        /\ ~Busy(p) /\ Begin(p, w)
  BY <1>1, <1>4 DEF CheckBegins
<1> HIDE DEF begun
<1>6. UNCHANGED <<events, left, enabled, counter, ends, issued, attempts, sent,
                  overlapped, settled>>
  BY DEF CheckBegins
<1>7. EndFine(w)' /\ RowFine(w)'
  BY <1>2, <1>5 DEF EndFine, RowFine, Open
<1>8. issued' \in issued .. MaxEnds /\ settled \subseteq settled' /\ settled' \subseteq Execution
  BY <1>6, SettingsAssumption DEF Inv, TypeOK
<1>9. Inv'
  BY <1>2, <1>5, <1>6, <1>7, <1>8, BeginKeeps
<1>10. Starts(p, w)
  BY <1>2, <1>5, <1>6 DEF Starts, CheckBegins
<1> QED
  BY <1>9, <1>10

LEMMA EditBeginsKeeps ==
  ASSUME Inv, NEW p \in Processes, NEW e \in Existing, EditBegins(p, e)
  PROVE  Inv' /\ \E w \in Work : Starts(p, w)
<1>1. PICK resolves \in BOOLEAN :
        /\ Begin(p, [ job |-> "edit", event |-> e, status |-> None,
                      enabled |-> enabled, resolves |-> resolves, saw |-> 0,
                      read |-> [x \in {e} |-> events[x]], counted |-> None ])
        /\ settled' = IF resolves THEN settled \cup {e} ELSE settled
  BY DEF EditBegins
<1> DEFINE begun == [ job |-> "edit", event |-> e, status |-> None,
                      enabled |-> enabled, resolves |-> resolves, saw |-> 0,
                      read |-> [x \in {e} |-> events[x]], counted |-> None ]
<1>2. e \in Execution /\ events[e] \in Event
  BY DEF Inv, TypeOK
<1>3. begun \in Work
  <2>1. {e} \in SUBSET Execution /\ [x \in {e} |-> events[x]] \in [{e} -> Event]
    BY <1>2
  <2>2. enabled \in BOOLEAN /\ 0 \in 0 .. MaxEnds
    BY SettingsAssumption DEF Inv, TypeOK
  <2> QED
    BY <1>2, <2>1, <2>2, BegunType
<1>4. PICK w \in Work : w = begun
  BY <1>3
<1>5. w.job = "edit" /\ w.event = e /\ DOMAIN w.read = {e} /\ w.resolves = resolves
        /\ w.read[e] = events[e] /\ w.counted = None
        /\ ~Busy(p) /\ Begin(p, w)
  BY <1>1, <1>4 DEF EditBegins
<1> HIDE DEF begun
<1>6. UNCHANGED <<events, left, enabled, counter, ends, issued, attempts, sent, overlapped>>
  BY DEF EditBegins
<1>7. EndFine(w)' /\ RowFine(w)'
  BY <1>1, <1>5 DEF EndFine, RowFine
<1>8. issued' \in issued .. MaxEnds /\ settled \subseteq settled' /\ settled' \subseteq Execution
  BY <1>1, <1>2, <1>6, SettingsAssumption DEF Inv, TypeOK
<1>9. DOMAIN w.read \subseteq Existing
  BY <1>5
<1>10. Inv'
  BY <1>5, <1>6, <1>7, <1>8, <1>9, BeginKeeps
<1>11. Starts(p, w)
  BY <1>5, <1>6, <1>8, <1>9 DEF Starts, EditBegins
<1> QED
  BY <1>10, <1>11

LEMMA ToggleKeeps ==
  ASSUME Inv, Toggle
  PROVE  Inv'
<1> USE DEF Inv, Toggle, ghosts
<1>1. TypeOK'
  BY DEF TypeOK, Existing
<1>2. WorkInv'
  BY DEF WorkInv, Existing, Ended, Busy, EndFine, RowFine, Open
<1> QED
  BY <1>1, <1>2

LEMMA StutterKeeps ==
  ASSUME Inv, UNCHANGED vars
  PROVE  Inv'
<1> USE DEF Inv, vars
<1>1. TypeOK'
  BY DEF TypeOK, Existing
<1>2. WorkInv'
  BY DEF WorkInv, Existing, Ended, Busy, EndFine, RowFine, Open
<1> QED
  BY <1>1, <1>2

LEMMA CrashKeeps ==
  ASSUME Inv, NEW p \in Processes, Crash(p)
  PROVE  Inv'
<1> USE DEF Inv
<1>1. work[p] \in Work /\ (work[p].job # "end" => work[p].event \in DOMAIN work[p].read)
  BY BusyType DEF Crash, WorkInv, RowFine
<1>2. Sends(work[p]) \subseteq Execution
  BY <1>1, SendsType
<1>3. /\ work' = [work EXCEPT ![p] = None]
      /\ contended' = contended \cup Sends(work[p])
      /\ overlapped' = (overlapped \/ work[p].counted # None)
      /\ UNCHANGED <<events, left, enabled, counter, ends, issued, attempts, sent, settled>>
  BY DEF Crash
<1>4. TypeOK'
  <2>1. work' \in [Processes -> Work \cup {None}] /\ overlapped' \in BOOLEAN
          /\ contended' \subseteq Execution
    BY <1>2, <1>3 DEF TypeOK
  <2>2. \A q \in Processes : work'[q] # None => DOMAIN work'[q].read \subseteq Existing
    BY <1>3 DEF TypeOK
  <2> QED
    BY <1>3, <2>1, <2>2 DEF TypeOK, Existing
<1>5. \A q \in Processes : Busy(q)' => Busy(q) /\ work'[q] = work[q]
  BY <1>3 DEF TypeOK, Busy
<1>6. ASSUME NEW q \in Processes, Busy(q)'
      PROVE  EndFine(work[q])' /\ RowFine(work[q])'
  <2>1. Busy(q) /\ work'[q] = work[q] /\ EndFine(work[q]) /\ RowFine(work[q])
    BY <1>5, <1>6 DEF WorkInv
  <2> QED
    BY <1>3, <2>1 DEF EndFine, RowFine, Open, Existing, Ended
<1>7. WorkInv'
  BY <1>3, <1>5, <1>6 DEF WorkInv, Existing, Ended
<1> QED
  BY <1>4, <1>7

\* Sending, and the passage of time, change nothing of what processes have read.
SameReading ==
  \A q \in Processes :
    /\ Busy(q)' <=> Busy(q)
    /\ Busy(q) => Alike(work'[q], work[q])

LEMMA SameKeeps ==
  ASSUME Inv, SameReading, work' \in [Processes -> Work \cup {None}],
         UNCHANGED <<events, enabled, ends, issued, contended, settled>>,
         left' \in [Existing -> Nat \cup {None}],
         counter' \in [count : Nat, age : 0 .. Expired],
         attempts' \in [Execution -> Nat], sent' \in [0 .. Period -> Nat],
         overlapped' \in BOOLEAN
  PROVE  Inv'
<1> USE DEF Inv
<1>1. \A q \in Processes : Busy(q)' => Busy(q) /\ Alike(work'[q], work[q])
  BY DEF SameReading
<1>2. \A q \in Processes : work'[q] # None => DOMAIN work'[q].read \subseteq Existing
  BY <1>1 DEF TypeOK, Alike, Busy
<1>3. TypeOK'
  BY <1>2 DEF TypeOK, Existing
<1>4. ASSUME NEW q \in Processes, Busy(q)'
      PROVE  EndFine(work[q])' /\ RowFine(work[q])'
  <2>1. Busy(q) /\ Alike(work'[q], work[q]) /\ EndFine(work[q]) /\ RowFine(work[q])
    BY <1>1, <1>4 DEF WorkInv
  <2> QED
    BY <2>1 DEF EndFine, RowFine, Open, Existing, Ended, Alike
<1>5. WorkInv'
  BY <1>1, <1>4 DEF WorkInv, Existing, Ended, Alike
<1> QED
  BY <1>3, <1>5

\* The notifications that are counted.
Passing(w, count, failing) == { e \in Within(w, count, failing) \ failing : Limited(w, e) }

LEMMA PassingType ==
  ASSUME NEW w \in Work, w.job # "end" => w.event \in DOMAIN w.read,
         NEW count, NEW failing
  PROVE  /\ Passing(w, count, failing) \subseteq Execution
         /\ IsFiniteSet(Passing(w, count, failing))
         /\ Cardinality(Passing(w, count, failing)) \in Nat
<1>1. Sends(w) \subseteq Execution
  BY SendsType
<1>2. Passing(w, count, failing) \subseteq Execution
  BY <1>1 DEF Passing, Within
<1>3. IsFiniteSet(Execution)
  <2>1. 1 \in Int /\ MaxEnds \in Int
    BY SettingsAssumption
  <2> QED
    BY <2>1, FS_Interval DEF Execution
<1> QED
  BY <1>2, <1>3, FS_Subset, FS_CardinalityType

\* What sending changes.
SendsWith(p, c, failing) ==
  /\ Busy(p) /\ work[p].counted = None
  /\ work' = [work EXCEPT ![p].counted = c]
  /\ failing \subseteq Sends(work[p])
  /\ c.count = (IF PeriodIsOver THEN 0 ELSE counter.count)
  /\ c.new = Cardinality(Passing(work[p], c.count, failing))
  /\ c.reset = PeriodIsOver /\ c.age = 0
  /\ sent' = [a \in 0 .. Period |-> sent[a] + c.new]
  /\ attempts' = [e \in Execution |-> attempts[e] + IF e \in Sends(work[p]) THEN 1 ELSE 0]
  /\ overlapped' = (overlapped \/ \E q \in Processes \ {p} : Busy(q) /\ work[q].counted # None)
  /\ UNCHANGED <<events, left, enabled, counter, ends, issued, edits, contended, settled>>

LEMMA SendStep ==
  ASSUME Inv, NEW p \in Processes, Send(p)
  PROVE  \E c \in Counted, failing \in SUBSET Execution : SendsWith(p, c, failing)
<1> DEFINE w == work[p]
           count == IF PeriodIsOver THEN 0 ELSE counter.count
<1>1. PICK failing \in SUBSET Sends(w) :
        LET within == Within(w, count, failing)
            n == Cardinality({ e \in within \ failing : Limited(w, e) })
        IN /\ work' = [work EXCEPT ![p].counted =
                         [ count |-> count, new |-> n, reset |-> PeriodIsOver, age |-> 0,
                           held  |-> within # Sends(w) ]]
           /\ sent' = [a \in 0 .. Period |-> sent[a] + n]
  BY DEF Send
<1> DEFINE n == Cardinality(Passing(w, count, failing))
           made == [ count |-> count, new |-> n, reset |-> PeriodIsOver, age |-> 0,
                     held  |-> Within(w, count, failing) # Sends(w) ]
<1>2. work' = [work EXCEPT ![p].counted = made] /\ sent' = [a \in 0 .. Period |-> sent[a] + n]
  BY <1>1 DEF Passing
<1>3. Busy(p) /\ w \in Work /\ (w.job # "end" => w.event \in DOMAIN w.read)
  BY BusyType DEF Send, Inv, WorkInv, RowFine
<1>4. n \in Nat
  BY <1>3, PassingType
<1>5. count \in Nat /\ 0 \in 0 .. Expired
  BY SettingsAssumption DEF Inv, TypeOK, Expired
<1>6. PeriodIsOver \in BOOLEAN /\ (Within(w, count, failing) # Sends(w)) \in BOOLEAN
  BY DEF PeriodIsOver
<1>7. made \in Counted
  <2> HIDE DEF n, count
  <2> QED
    BY <1>4, <1>5, <1>6 DEF Counted
<1>8. made.count = count /\ made.new = n /\ made.reset = PeriodIsOver /\ made.age = 0
  OBVIOUS
<1>9. SendsWith(p, made, failing)
  <2>1. /\ attempts' = [e \in Execution |-> attempts[e] + IF e \in Sends(w) THEN 1 ELSE 0]
        /\ overlapped' = (overlapped \/ \E q \in Processes \ {p} :
                                          Busy(q) /\ work[q].counted # None)
        /\ w.counted = None
        /\ UNCHANGED <<events, left, enabled, counter, ends, issued, edits, contended, settled>>
    BY DEF Send
  <2>2. failing \subseteq Sends(w)
    BY <1>1
  <2>3. made.new = Cardinality(Passing(w, made.count, failing))
    BY <1>8
  <2>4. sent' = [a \in 0 .. Period |-> sent[a] + made.new]
    BY <1>2, <1>8
  <2> HIDE DEF made, n
  <2> QED
    BY <1>2, <1>3, <1>8, <2>1, <2>2, <2>3, <2>4 DEF SendsWith
<1>10. failing \in SUBSET Execution
  BY <1>3, SendsType
<1> QED
  BY <1>7, <1>9, <1>10

LEMMA SendKeeps ==
  ASSUME Inv, NEW p \in Processes, NEW c \in Counted, NEW failing, SendsWith(p, c, failing)
  PROVE  Inv' /\ SameReading
<1> USE DEF Inv, SendsWith
<1>1. work[p] \in Work /\ (work[p].job # "end" => work[p].event \in DOMAIN work[p].read)
  BY BusyType DEF WorkInv, RowFine
<1> DEFINE v == [work[p] EXCEPT !.counted = c]
<1>2. v \in Work /\ Alike(v, work[p]) /\ v # None
  BY <1>1, CountedType, NoneAssumption
<1>3. work' = [work EXCEPT ![p] = v] /\ work \in [Processes -> Work \cup {None}]
  BY DEF TypeOK
<1> HIDE DEF v
<1>4. work' \in [Processes -> Work \cup {None}]
  BY <1>2, <1>3
<1>5. SameReading
  BY <1>2, <1>3 DEF SameReading, Busy, Alike
<1>6. c.new \in Nat
  BY DEF Counted
<1>7. sent' \in [0 .. Period -> Nat]
  BY <1>6 DEF TypeOK
<1>8. attempts' \in [Execution -> Nat]
  BY DEF TypeOK
<1>9. overlapped' \in BOOLEAN
  BY DEF TypeOK
<1>10. left' \in [Existing -> Nat \cup {None}] /\ counter' \in [count : Nat, age : 0 .. Expired]
  BY DEF TypeOK
<1>11. UNCHANGED <<events, enabled, ends, issued, contended, settled>>
  OBVIOUS
<1>12. Inv'
  BY <1>4, <1>5, <1>7, <1>8, <1>9, <1>10, <1>11, SameKeeps
<1> QED
  BY <1>5, <1>12

\* The ages of the period, and of what is to be saved of it.
LEMMA OlderType ==
  ASSUME NEW age \in 0 .. Expired
  PROVE  Older(age) \in 0 .. Expired
BY SettingsAssumption DEF Older, Expired

\* What the passage of time makes of a process.
Aged(w) == [w EXCEPT !.counted = [w.counted EXCEPT !.age = Older(w.counted.age)]]

LEMMA AgedType ==
  ASSUME NEW w \in Work, w.counted # None
  PROVE  /\ Aged(w) \in Work /\ Alike(Aged(w), w)
         /\ Aged(w).counted \in Counted
         /\ Aged(w).counted = [w.counted EXCEPT !.age = Older(w.counted.age)]
<1>1. w.counted \in Counted
  BY WorkFields
<1>2. Older(w.counted.age) \in 0 .. Expired
  BY <1>1, OlderType DEF Counted
<1>3. [w.counted EXCEPT !.age = Older(w.counted.age)] \in Counted
  BY <1>1, <1>2 DEF Counted
<1> QED
  BY <1>3, CountedType DEF Aged

LEMMA TickStep ==
  ASSUME Inv, Tick
  PROVE  \A q \in Processes :
           work'[q] = IF Busy(q) /\ work[q].counted # None THEN Aged(work[q]) ELSE work[q]
BY DEF Tick, Aged

LEMMA TickKeeps ==
  ASSUME Inv, Tick
  PROVE  Inv' /\ SameReading
<1> USE DEF Inv
<1>1. ASSUME NEW q \in Processes
      PROVE  /\ work'[q] \in Work \cup {None} /\ (Busy(q)' <=> Busy(q))
             /\ Busy(q) => Alike(work'[q], work[q])
  <2>1. CASE Busy(q) /\ work[q].counted # None
    <3>1. work[q] \in Work /\ work'[q] = Aged(work[q])
      BY <2>1, TickStep, BusyType
    <3> QED
      BY <2>1, <3>1, AgedType, NoneAssumption DEF Busy
  <2>2. CASE ~(Busy(q) /\ work[q].counted # None)
    BY <2>2, TickStep DEF TypeOK, Busy, Alike
  <2> QED
    BY <2>1, <2>2
<1>2. DOMAIN work' = Processes /\ work' = [q \in Processes |-> work'[q]]
  BY DEF Tick
<1>3. work' \in [Processes -> Work \cup {None}]
  BY <1>1, <1>2
<1>4. SameReading
  BY <1>1 DEF SameReading
<1>5. left' \in [Existing -> Nat \cup {None}]
  BY SettingsAssumption DEF Tick, TypeOK
<1>6. counter' \in [count : Nat, age : 0 .. Expired]
  <2>1. counter.age \in 0 .. Expired /\ counter \in [count : Nat, age : 0 .. Expired]
    BY DEF TypeOK
  <2>2. Older(counter.age) \in 0 .. Expired
    BY <2>1, OlderType
  <2> QED
    BY <2>1, <2>2 DEF Tick
<1>7. sent' \in [0 .. Period -> Nat]
  <2>1. Period \in Nat
    BY SettingsAssumption
  <2>2. \A a \in 0 .. Period : a # 0 => a - 1 \in 0 .. Period
    BY <2>1
  <2>3. sent \in [0 .. Period -> Nat]
    BY DEF TypeOK
  <2> QED
    BY <2>2, <2>3 DEF Tick
<1>8. attempts' \in [Execution -> Nat] /\ overlapped' \in BOOLEAN
  BY DEF Tick, TypeOK
<1>9. UNCHANGED <<events, enabled, ends, issued, contended, settled>>
  BY DEF Tick
<1>10. Inv'
  BY <1>3, <1>4, <1>5, <1>6, <1>7, <1>8, <1>9, SameKeeps
<1> QED
  BY <1>4, <1>10

-----------------------------------------------------------------------------
(* Committing.                                                             *)

LEMMA NewEventType ==
  ASSUME NEW outcome \in Outcome
  PROVE  /\ NewEvent(outcome) \in Event
         /\ NewEvent(outcome).successes = 0 /\ NewEvent(outcome).resolved = FALSE
         /\ NewEvent(outcome).triggered = ~Postpones(outcome)
<1>1. (~Postpones(outcome)) \in BOOLEAN
  OBVIOUS
<1> QED
  BY <1>1 DEF NewEvent, Event

\* The checker goes on with the other rows that it has read.
GoesOn(w, next) ==
  /\ next \in Work /\ w.job = "check" /\ next.job = "check"
  /\ next.event \in DOMAIN next.read /\ next.counted = None /\ next.enabled = enabled
  /\ DOMAIN next.read = DOMAIN w.read \ {w.event}
  /\ \A e \in DOMAIN next.read : next.read[e] = w.read[e]

LEMMA WorkAfterType ==
  ASSUME NEW w \in Work, enabled \in BOOLEAN, NEW next \in WorkAfter(w)
  PROVE  next = None \/ GoesOn(w, next)
<1> DEFINE rest == DOMAIN w.read \ {w.event}
           f == [e \in rest |-> w.read[e]]
<1>1. CASE w.job # "check" \/ rest = {}
  BY <1>1 DEF WorkAfter
<1>2. CASE w.job = "check" /\ rest # {}
  <2>1. PICK first \in rest :
          next = [w EXCEPT !.event = first, !.enabled = enabled, !.counted = None, !.read = f]
    BY <1>2 DEF WorkAfter
  <2>2. rest \in SUBSET Execution /\ f \in [rest -> Event] /\ first \in Execution
    BY WorkFields
  <2>3. f \in UNION { [any -> Event] : any \in SUBSET Execution }
    BY <2>2, ReadType
  <2>4. DOMAIN f = rest /\ \A e \in rest : f[e] = w.read[e]
    OBVIOUS
  <2> HIDE DEF f
  <2>5. next \in Work
    BY <2>1, <2>2, <2>3 DEF Work
  <2>6. next.job = "check" /\ next.event = first /\ next.counted = None
          /\ next.enabled = enabled /\ next.read = f
    BY <1>2, <2>1 DEF Work
  <2> QED
    BY <1>2, <2>1, <2>4, <2>5, <2>6 DEF GoesOn
<1> QED
  BY <1>1, <1>2

\* What a process creates.
New(w) == IF Creates(w) THEN {w.event} ELSE {}

\* What committing changes, row by row.
Commits(p, next) ==
  /\ Busy(p)
  /\ Sends(work[p]) = {} \/ work[p].counted # None
  /\ work' = [work EXCEPT ![p] = next]
  /\ next = None \/ GoesOn(work[p], next)
  /\ Existing' = Existing \cup New(work[p])
  /\ events' = [e \in Existing' |-> events'[e]]
  /\ \A e \in Existing' :
       events'[e] = IF e \in New(work[p]) THEN NewEvent(work[p].status)
                    ELSE IF e \in DOMAIN Saves(work[p]) THEN Saves(work[p])[e] ELSE events[e]
  /\ left' \in [Existing' -> Nat \cup {None}]
  /\ \A e \in Existing \ New(work[p]) : left'[e] = left[e]
  /\ counter' = CounterAfter(work[p].counted)
  /\ ends' = IF work[p].job = "end"
             THEN Append(ends, [ event |-> work[p].event, status |-> work[p].status,
                                 saw |-> work[p].saw ])
             ELSE ends
  /\ settled' = IF work[p].job = "check" /\ ~work[p].enabled
                THEN settled \cup {work[p].event} ELSE settled
  /\ UNCHANGED <<enabled, issued, edits, attempts, sent, contended, overlapped>>

LEMMA CommitStep ==
  ASSUME Inv, NEW p \in Processes, Commit(p)
  PROVE  \E next \in Work \cup {None} : Commits(p, next)
<1> DEFINE w == work[p]
<1>1. PICK next \in WorkAfter(w) : work' = [work EXCEPT ![p] = next]
  BY DEF Commit
<1>2. Busy(p) /\ w \in Work /\ enabled \in BOOLEAN
  BY BusyType DEF Commit, Inv, TypeOK
<1>3. next = None \/ GoesOn(w, next)
  BY <1>2, WorkAfterType
<1>4. events' = [e \in Existing \cup New(w) |->
                   IF e \in New(w) THEN NewEvent(w.status)
                   ELSE IF e \in DOMAIN Saves(w) THEN Saves(w)[e] ELSE events[e]]
  BY DEF Commit, New
<1>5. left' = [e \in Existing \cup New(w) |->
                 IF e \notin New(w) THEN left[e]
                 ELSE IF Postpones(w.status) THEN PostponeSeconds[w.status] ELSE None]
  BY DEF Commit, New
<1>6. Existing' = Existing \cup New(w) /\ events' = [e \in Existing' |-> events'[e]]
  BY <1>4 DEF Existing
<1>7. \A e \in Existing' :
        events'[e] = IF e \in New(w) THEN NewEvent(w.status)
                     ELSE IF e \in DOMAIN Saves(w) THEN Saves(w)[e] ELSE events[e]
  BY <1>4, <1>6
<1>8. \A e \in Existing \ New(w) : left'[e] = left[e]
  BY <1>5
<1>9. left' \in [Existing' -> Nat \cup {None}]
  <2>1. Creates(w) => w.status \in Outcome
    BY <1>2 DEF Creates, Inv, WorkInv, EndFine
  <2>2. Creates(w) /\ Postpones(w.status) => PostponeSeconds[w.status] \in Nat
    BY <2>1, SettingsAssumption DEF Postpones
  <2>3. left \in [Existing -> Nat \cup {None}]
    BY DEF Inv, TypeOK
  <2> QED
    BY <1>5, <1>6, <2>2, <2>3 DEF New
<1>10. /\ Sends(w) = {} \/ w.counted # None
       /\ counter' = CounterAfter(w.counted)
       /\ ends' = IF w.job = "end"
                  THEN Append(ends, [ event |-> w.event, status |-> w.status, saw |-> w.saw ])
                  ELSE ends
       /\ settled' = IF w.job = "check" /\ ~w.enabled THEN settled \cup {w.event} ELSE settled
       /\ UNCHANGED <<enabled, issued, edits, attempts, sent, contended, overlapped>>
  <2>1. Sends(w) = {} \/ w.counted # None
    BY DEF Commit
  <2>2. /\ counter' = CounterAfter(w.counted)
        /\ UNCHANGED <<enabled, issued, edits, attempts, sent, contended, overlapped>>
    BY DEF Commit
  <2>3. settled' = IF w.job = "check" /\ ~w.enabled THEN settled \cup {w.event} ELSE settled
    BY DEF Commit
  <2>4. ends' = IF w.job = "end"
                THEN Append(ends, [ event |-> w.event, status |-> w.status, saw |-> w.saw ])
                ELSE ends
    BY DEF Commit
  <2> QED
    BY <2>1, <2>2, <2>3, <2>4
<1>11. next \in Work \cup {None}
  BY <1>3 DEF GoesOn
<1> QED
  BY <1>1, <1>2, <1>3, <1>6, <1>7, <1>8, <1>9, <1>10, <1>11 DEF Commits

\* An execution that has ended stays among those that have.
LEMMA EndedStays ==
  ASSUME Inv, NEW p \in Processes, NEW next, Commits(p, next)
  PROVE  /\ ends' \in Seq(End)
         /\ Len(ends') \in {Len(ends), Len(ends) + 1}
         /\ \A i \in DOMAIN ends : i \in DOMAIN ends' /\ ends'[i] = ends[i]
         /\ \A i \in DOMAIN ends' \ DOMAIN ends :
              /\ i = Len(ends) + 1 /\ work[p].job = "end"
              /\ ends'[i] = [ event |-> work[p].event, status |-> work[p].status,
                              saw |-> work[p].saw ]
         /\ work[p].job = "end" => Len(ends') = Len(ends) + 1
         /\ work[p].job # "end" => ends' = ends
<1> DEFINE r == [ event |-> work[p].event, status |-> work[p].status, saw |-> work[p].saw ]
<1>1. Busy(p) /\ work[p] \in Work /\ EndFine(work[p])
  BY BusyType DEF Commits, Inv, WorkInv
<1>2. ends \in Seq(End) /\ Len(ends) \in Nat
  BY DEF Inv, TypeOK
<1>3. CASE work[p].job = "end"
  <2>1. work[p].event \in Execution /\ work[p].status \in Outcome /\ work[p].saw \in 0 .. MaxEnds
    BY <1>1, <1>3, WorkFields DEF EndFine
  <2>2. r \in End
    BY <2>1 DEF End
  <2>3. ends' = Append(ends, r)
    BY <1>3 DEF Commits
  <2> HIDE DEF r
  <2>4. ends' \in Seq(End) /\ Len(ends') = Len(ends) + 1
          /\ (\A i \in 1 .. Len(ends) : ends'[i] = ends[i]) /\ ends'[Len(ends) + 1] = r
    BY <1>2, <2>2, <2>3
  <2>5. DOMAIN ends = 1 .. Len(ends) /\ DOMAIN ends' = 1 .. Len(ends) + 1
    BY <1>2, <2>4
  <2>6. \A i \in DOMAIN ends' \ DOMAIN ends : i = Len(ends) + 1
    BY <1>2, <2>5
  <2> QED
    BY <1>2, <1>3, <2>4, <2>5, <2>6 DEF r
<1>4. CASE work[p].job # "end"
  BY <1>2, <1>4 DEF Commits
<1> QED
  BY <1>3, <1>4

LEMMA CommitKeeps ==
  ASSUME Inv, NEW p \in Processes, NEW next, Commits(p, next)
  PROVE  Inv'
<1> DEFINE w == work[p]
<1> USE DEF Inv
<1>1. Busy(p) /\ w \in Work /\ EndFine(w) /\ RowFine(w)
  BY BusyType DEF Commits, WorkInv
<1>2. New(w) \subseteq Execution /\ (New(w) # {} => w.job = "end" /\ New(w) = {w.event})
  BY <1>1, WorkFields DEF New, Creates
<1>3. Existing' = Existing \cup New(w)
  BY DEF Commits
<1>4. \A e \in Existing' : events'[e] \in Event
  <2>1. Creates(w) => NewEvent(w.status) \in Event
    BY <1>1, NewEventType DEF Creates, EndFine
  <2>2. \A e \in DOMAIN Saves(w) : Saves(w)[e] \in Event
    BY <1>1, SavesType DEF EndFine, RowFine
  <2>3. \A e \in Existing : events[e] \in Event
    BY DEF TypeOK
  <2> QED
    BY <1>3, <2>1, <2>2, <2>3 DEF Commits, New
<1>5. events' \in [Existing' -> Event]
  <2>1. events' = [e \in Existing' |-> events'[e]]
    BY DEF Commits, Existing
  <2> QED
    BY <1>4, <2>1
<1>6. work' \in [Processes -> Work \cup {None}] /\ work'[p] = next
        /\ \A q \in Processes \ {p} : work'[q] = work[q]
  BY DEF Commits, GoesOn, TypeOK
<1>7. \A q \in Processes : work'[q] # None => DOMAIN work'[q].read \subseteq Existing'
  <2>1. \A q \in Processes : work[q] # None => DOMAIN work[q].read \subseteq Existing
    BY DEF TypeOK
  <2>2. next # None => DOMAIN next.read \subseteq DOMAIN w.read
    BY DEF Commits, GoesOn
  <2> QED
    BY <1>1, <1>3, <1>6, <2>1, <2>2 DEF Busy
<1>8. counter' \in [count : Nat, age : 0 .. Expired]
  <2>1. counter \in [count : Nat, age : 0 .. Expired] /\ w.counted \in Counted \cup {None}
    BY <1>1, WorkFields DEF TypeOK
  <2>2. CASE w.counted = None \/ w.counted.new = 0
    BY <2>1, <2>2 DEF Commits, CounterAfter
  <2>3. CASE w.counted \in Counted /\ w.counted.new # 0
    <3>1. w.counted.count + w.counted.new \in Nat
            /\ (IF w.counted.reset THEN w.counted.age ELSE counter.age) \in 0 .. Expired
      BY <2>1, <2>3 DEF Counted
    <3>2. w.counted # None
      BY <2>3, NoneAssumption
    <3>3. counter' = [ count |-> w.counted.count + w.counted.new,
                       age   |-> IF w.counted.reset THEN w.counted.age ELSE counter.age ]
      BY <2>3, <3>2 DEF Commits, CounterAfter
    <3> QED
      BY <3>1, <3>3
  <2> QED
    BY <2>1, <2>2, <2>3
<1>9. ends' \in Seq(End)
  BY EndedStays
<1>10. settled' \subseteq Execution
  BY <1>1, WorkFields DEF Commits, TypeOK
<1>11. TypeOK'
  <2>1. Existing' \subseteq Execution
    BY <1>2, <1>3 DEF TypeOK
  <2>2. UNCHANGED <<enabled, issued, attempts, sent, contended, overlapped>>
          /\ left' \in [Existing' -> Nat \cup {None}]
    BY DEF Commits
  <2> QED
    BY <1>5, <1>6, <1>7, <1>8, <1>9, <1>10, <2>1, <2>2 DEF TypeOK
<1>12. \A e : Ended(e) => Ended(e)'
  BY EndedStays DEF Ended
<1>13. \A e : Ended(e)' => Ended(e) \/ (w.job = "end" /\ e = w.event)
  BY EndedStays DEF Ended
<1>14. w.job = "end" => \E j \in DOMAIN ends' : ends'[j].event = w.event
  <2> SUFFICES ASSUME w.job = "end"
               PROVE  \E j \in DOMAIN ends' : ends'[j].event = w.event
    OBVIOUS
  <2>1. Len(ends') = Len(ends) + 1 /\ Len(ends) \in Nat
    BY EndedStays, EndsBounded
  <2>2. Len(ends) + 1 \in DOMAIN ends' /\ Len(ends) + 1 \notin DOMAIN ends
    BY <1>9, <2>1, EndsBounded
  <2>3. ends'[Len(ends) + 1].event = w.event
    BY <2>2, EndedStays
  <2> QED
    BY <2>2, <2>3
<1>15. \A e \in Existing' : Ended(e)'
  <2>1. \A e \in Existing : Ended(e)'
    BY <1>12 DEF WorkInv
  <2>2. \A e \in New(w) : e = w.event /\ w.job = "end"
    BY <1>2
  <2> QED
    BY <1>3, <1>14, <2>1, <2>2 DEF Ended
<1>16. \A i \in DOMAIN ends' : ends'[i].saw < i /\ ends'[i].event <= issued'
  <2>1. ASSUME NEW i \in DOMAIN ends' \ DOMAIN ends
        PROVE  ends'[i].saw < i /\ ends'[i].event <= issued'
    <3>1. i = Len(ends) + 1 /\ w.job = "end" /\ ends'[i].event = w.event /\ ends'[i].saw = w.saw
      BY <2>1, EndedStays
    <3>2. w.saw <= Len(ends) /\ w.event <= issued /\ w.saw \in Int /\ Len(ends) \in Int
      BY <1>1, <3>1, WorkFields, EndsBounded DEF EndFine
    <3> QED
      BY <3>1, <3>2 DEF Commits
  <2>2. \A i \in DOMAIN ends : ends'[i].saw < i /\ ends'[i].event <= issued'
    BY EndedStays DEF WorkInv, Commits
  <2> QED
    BY <2>1, <2>2
<1>17. \A i, j \in DOMAIN ends' : ends'[i].event = ends'[j].event => i = j
  <2>1. \A i \in DOMAIN ends' \ DOMAIN ends :
          i = Len(ends) + 1 /\ ends'[i].event = w.event /\ w.job = "end"
    BY EndedStays
  <2>2. \A i \in DOMAIN ends : ends'[i] = ends[i]
    BY EndedStays
  <2>3. w.job = "end" => \A i \in DOMAIN ends : ends[i].event # w.event
    BY <1>1 DEF EndFine, Ended
  <2> QED
    BY <2>1, <2>2, <2>3 DEF WorkInv
<1>18. ASSUME NEW q \in Processes \ {p}, Busy(q)'
       PROVE  EndFine(work[q])' /\ RowFine(work[q])'
  <2>1. Busy(q) /\ work'[q] = work[q] /\ EndFine(work[q]) /\ RowFine(work[q])
          /\ work[q] \in Work
    BY <1>6, <1>18, BusyType DEF WorkInv, Busy
  <2>2. w.job = "end" /\ work[q].job = "end" => work[q].event # w.event
    BY <1>1, <1>18, <2>1 DEF WorkInv
  <2>3. work[q].job = "end" => work[q].saw <= Len(ends')
    <3>1. work[q].saw \in Int /\ Len(ends) \in Int
      BY <2>1, WorkFields, EndsBounded
    <3> QED
      BY <2>1, <3>1, EndedStays DEF EndFine
  <2>4. EndFine(work[q])'
    BY <1>2, <1>3, <1>13, <2>1, <2>2, <2>3 DEF EndFine, Commits
  <2>5. settled \subseteq settled'
    BY DEF Commits
  <2>6. RowFine(work[q])'
    BY <2>1, <2>5 DEF RowFine, Open
  <2> QED
    BY <2>4, <2>6
<1>19. ASSUME Busy(p)'
       PROVE  EndFine(work[p])' /\ RowFine(work[p])'
  <2>1. GoesOn(w, next) /\ work'[p] = next
    BY <1>6, <1>19 DEF Commits, Busy
  <2> QED
    BY <1>1, <2>1 DEF GoesOn, EndFine, RowFine, Open
<1>20. ASSUME NEW a \in Processes, NEW b \in Processes,
              Busy(a)', Busy(b)', a # b, work'[a].job = "end", work'[b].job = "end"
       PROVE  work'[a].event # work'[b].event
  <2>1. a # p /\ b # p
    BY <1>6, <1>20 DEF Commits, Busy, GoesOn
  <2>2. Busy(a) /\ Busy(b) /\ work'[a] = work[a] /\ work'[b] = work[b]
    BY <1>6, <1>20, <2>1 DEF Busy
  <2> QED
    BY <1>20, <2>2 DEF WorkInv
<1>21. WorkInv'
  BY <1>15, <1>16, <1>17, <1>18, <1>19, <1>20 DEF WorkInv
<1> QED
  BY <1>11, <1>21

\* Every step, by what it changes.
Step ==
  \/ \E p \in Processes, w \in Work : Starts(p, w)
  \/ \E p \in Processes, c \in Counted, failing \in SUBSET Execution :
       SendsWith(p, c, failing) /\ SameReading
  \/ \E p \in Processes, next \in Work \cup {None} : Commits(p, next)
  \/ \E p \in Processes : Crash(p)
  \/ Tick /\ SameReading
  \/ Toggle
  \/ UNCHANGED vars

LEMMA InvStep ==
  ASSUME Inv, [Next]_vars
  PROVE  Inv' /\ Step
<1>1. CASE Next
  <2>1. ASSUME NEW p \in Processes,
               \/ \E outcome \in Outcome : EndBegins(p, outcome)
               \/ CheckBegins(p)
               \/ \E e \in Existing : EditBegins(p, e)
        PROVE  Inv' /\ \E w \in Work : Starts(p, w)
    BY <2>1, EndBeginsKeeps, CheckBeginsKeeps, EditBeginsKeeps
  <2>2. ASSUME NEW p \in Processes, Send(p)
        PROVE  Inv' /\ \E c \in Counted, failing \in SUBSET Execution :
                          SendsWith(p, c, failing) /\ SameReading
    <3>1. PICK c \in Counted, failing \in SUBSET Execution : SendsWith(p, c, failing)
      BY <2>2, SendStep
    <3> QED
      BY <3>1, SendKeeps
  <2>3. ASSUME NEW p \in Processes, Commit(p)
        PROVE  Inv' /\ \E next \in Work \cup {None} : Commits(p, next)
    <3>1. PICK next \in Work \cup {None} : Commits(p, next)
      BY <2>3, CommitStep
    <3> QED
      BY <3>1, CommitKeeps
  <2>4. ASSUME NEW p \in Processes, Crash(p)
        PROVE  Inv'
    BY <2>4, CrashKeeps
  <2>5. CASE \E p \in Processes :
               \/ \E outcome \in Outcome : EndBegins(p, outcome)
               \/ CheckBegins(p)
               \/ \E e \in Existing : EditBegins(p, e)
    BY <2>1, <2>5 DEF Step
  <2>6. CASE \E p \in Processes : Send(p)
    BY <2>2, <2>6 DEF Step
  <2>7. CASE \E p \in Processes : Commit(p)
    BY <2>3, <2>7 DEF Step
  <2>8. CASE \E p \in Processes : Crash(p)
    BY <2>4, <2>8 DEF Step
  <2>9. CASE Toggle
    BY <2>9, ToggleKeeps DEF Step
  <2>10. CASE Tick
    BY <2>10, TickKeeps DEF Step
  <2> QED
    BY <1>1, <2>5, <2>6, <2>7, <2>8, <2>9, <2>10 DEF Next
<1>2. CASE UNCHANGED vars
  BY <1>2, StutterKeeps DEF Step
<1> QED
  BY <1>1, <1>2

\* Every state of Notifications is typed.
THEOREM TypeCorrect == Spec => []TypeOK
<1>1. Inv /\ [Next]_vars => Inv'
  BY InvStep
<1>2. Inv => TypeOK
  BY DEF Inv
<1> QED
  BY InvInit, <1>1, <1>2, PTL DEF Spec

-----------------------------------------------------------------------------
(* An event that is not contended has one reader, which knows its row.     *)

ReadersAlone ==
  \A e \in Existing \ contended : \A p \in Processes :
    e \in ReadBy(p) =>
      /\ work[p].read[e] = events[e]
      /\ \A q \in Processes : e \in ReadBy(q) => p = q

LEMMA ReadersInit == Init => ReadersAlone
BY DEF Init, ReadersAlone, Existing

LEMMA ReadersStep ==
  ASSUME Inv, Inv', Step, ReadersAlone
  PROVE  ReadersAlone'
<1>1. ASSUME NEW p \in Processes, NEW w \in Work, Starts(p, w)
      PROVE  ReadersAlone'
  <2>1. work'[p] = w /\ \A q \in Processes \ {p} : work'[q] = work[q]
    BY <1>1 DEF Starts, Begin, Inv, TypeOK
  <2>2. ReadBy(p)' = DOMAIN w.read /\ \A q \in Processes \ {p} : ReadBy(q)' = ReadBy(q)
    BY <2>1, NoneAssumption DEF ReadBy, Busy
  <2>3. contended' = contended \cup (DOMAIN w.read \cap UNION { ReadBy(q) : q \in Processes })
          /\ UNCHANGED events
    BY <1>1 DEF Starts, Begin
  <2> SUFFICES ASSUME NEW e \in Existing \ contended', NEW a \in Processes, e \in ReadBy(a)'
               PROVE  /\ work'[a].read[e] = events[e]
                      /\ \A b \in Processes : e \in ReadBy(b)' => a = b
    BY <2>3 DEF ReadersAlone, Existing
  <2>4. e \notin contended /\ (e \in DOMAIN w.read => \A q \in Processes : e \notin ReadBy(q))
    BY <2>3
  <2>5. CASE a = p
    BY <1>1, <2>1, <2>2, <2>4, <2>5 DEF Starts
  <2>6. CASE a # p
    <3>1. e \in ReadBy(a) /\ work'[a] = work[a]
      BY <2>1, <2>2, <2>6
    <3>2. e \notin DOMAIN w.read
      BY <2>4, <3>1
    <3> QED
      BY <2>2, <2>4, <3>1, <3>2 DEF ReadersAlone
  <2> QED
    BY <2>5, <2>6
<1>2. ASSUME SameReading, UNCHANGED <<events, contended>>
      PROVE  ReadersAlone'
  <2>1. \A q \in Processes : ReadBy(q)' = ReadBy(q)
          /\ (Busy(q) => work'[q].read = work[q].read)
    BY <1>2 DEF SameReading, ReadBy, Alike
  <2> QED
    BY <1>2, <2>1 DEF ReadersAlone, Existing, ReadBy
<1>3. ASSUME NEW p \in Processes, NEW next, Commits(p, next)
      PROVE  ReadersAlone'
  <2>1. work'[p] = next /\ \A q \in Processes \ {p} : work'[q] = work[q]
    BY <1>3 DEF Commits, Inv, TypeOK
  <2>2. Busy(p) /\ work[p] \in Work /\ EndFine(work[p]) /\ RowFine(work[p])
    BY <1>3, BusyType DEF Commits, Inv, WorkInv
  <2>3. ReadBy(p) = DOMAIN work[p].read /\ DOMAIN Saves(work[p]) \subseteq DOMAIN work[p].read
    BY <2>2, SavesType DEF ReadBy, EndFine, RowFine
  <2>4. \A q \in Processes : ReadBy(q) \subseteq Existing
    BY BusyType DEF ReadBy, Inv
  <2>5. New(work[p]) \cap Existing = {}
    BY <2>2 DEF New, Creates, EndFine
  <2>6. next # None => GoesOn(work[p], next)
    BY <1>3 DEF Commits
  <2>7. \A q \in Processes : ReadBy(q)' \subseteq ReadBy(q)
    BY <2>1, <2>3, <2>6 DEF ReadBy, Busy, GoesOn
  <2> SUFFICES ASSUME NEW e \in Existing' \ contended', NEW a \in Processes, e \in ReadBy(a)'
               PROVE  /\ work'[a].read[e] = events'[e]
                      /\ \A b \in Processes : e \in ReadBy(b)' => a = b
    BY DEF ReadersAlone
  <2>8. e \in ReadBy(a) /\ e \in Existing \ contended /\ e \notin New(work[p])
    BY <1>3, <2>4, <2>5, <2>7 DEF Commits
  <2>9. work[a].read[e] = events[e] /\ \A b \in Processes : e \in ReadBy(b) => a = b
    BY <2>8 DEF ReadersAlone
  <2>10. e \notin DOMAIN Saves(work[p])
    <3>1. CASE a # p
      BY <2>3, <2>9, <3>1
    <3>2. CASE a = p
      <4>1. GoesOn(work[p], next) /\ e \in DOMAIN next.read
        BY <2>1, <2>6, <3>2 DEF ReadBy, Busy
      <4>2. DOMAIN Saves(work[p]) = {work[p].event}
        BY <2>2, <4>1, SavesType DEF GoesOn, RowFine
      <4> QED
        BY <4>1, <4>2 DEF GoesOn
    <3> QED
      BY <3>1, <3>2
  <2>11. events'[e] = events[e]
    BY <1>3, <2>8, <2>10 DEF Commits
  <2>12. work'[a].read[e] = work[a].read[e]
    BY <2>1, <2>6 DEF ReadBy, Busy, GoesOn
  <2> QED
    BY <2>7, <2>9, <2>11, <2>12
<1>4. ASSUME NEW p \in Processes, Crash(p)
      PROVE  ReadersAlone'
  <2>1. \A q \in Processes : ReadBy(q)' \subseteq ReadBy(q)
          /\ (Busy(q)' => work'[q] = work[q])
    BY <1>4 DEF Crash, ReadBy, Busy, Inv, TypeOK
  <2>2. contended \subseteq contended' /\ UNCHANGED events
    BY <1>4 DEF Crash
  <2> QED
    BY <2>1, <2>2 DEF ReadersAlone, Existing, ReadBy
<1>5. ASSUME UNCHANGED <<work, events, contended>>
      PROVE  ReadersAlone'
  BY <1>5 DEF ReadersAlone, Existing, ReadBy, Busy
<1> QED
  BY <1>1, <1>2, <1>3, <1>4, <1>5 DEF Step, SendsWith, Tick, Toggle, ghosts, vars

-----------------------------------------------------------------------------
(* Users hear of an event once.                                            *)

SendingIt(p, e) == Busy(p) /\ work[p].counted # None /\ e \in Sends(work[p])

\* What was sent is triggered, or about to be.
Heard(e) ==
  \/ attempts[e] = 0
  \/ /\ attempts[e] = 1
     /\ (e \in Existing /\ events[e].triggered) \/ \E p \in Processes : SendingIt(p, e)

HeardInv == \A e \in Execution \ contended : Heard(e)

\* An event that a process is to send is not triggered, and no other sends it.
LEMMA SendsAlone ==
  ASSUME Inv, ReadersAlone, NEW p \in Processes, Busy(p),
         NEW e \in Sends(work[p]), e \notin contended
  PROVE  /\ ~(e \in Existing /\ events[e].triggered)
         /\ \A q \in Processes : Busy(q) /\ e \in Sends(work[q]) => p = q
<1>1. \A q \in Processes : Busy(q) =>
        work[q] \in Work /\ EndFine(work[q]) /\ RowFine(work[q])
          /\ DOMAIN work[q].read \subseteq Existing
  BY BusyType DEF Inv, WorkInv
<1>2. ASSUME NEW q \in Processes, Busy(q), e \in Sends(work[q])
      PROVE  \/ e \in ReadBy(q) /\ Open(work[q].read[e])
             \/ work[q].job = "end" /\ e = work[q].event /\ e \notin Existing
  <2>1. e \in DOMAIN work[q].read \/ (Creates(work[q]) /\ e = work[q].event)
    BY <1>1, <1>2, SendsType DEF RowFine
  <2>2. work[q].job # "edit"
    BY <1>2 DEF Sends
  <2> QED
    BY <1>1, <1>2, <2>1, <2>2 DEF ReadBy, RowFine, EndFine, Creates
<1>3. ~(e \in Existing /\ events[e].triggered)
  BY <1>2 DEF ReadersAlone, Open
<1>4. \A q \in Processes : ReadBy(q) \subseteq Existing
  BY <1>1 DEF ReadBy
<1>5. ASSUME NEW q \in Processes, Busy(q), e \in Sends(work[q]) PROVE p = q
  <2>1. CASE e \in Existing
    <3>1. e \in ReadBy(p) /\ e \in ReadBy(q)
      BY <1>2, <1>5, <2>1
    <3> QED
      BY <2>1, <3>1 DEF ReadersAlone
  <2>2. CASE e \notin Existing
    <3>1. work[p].job = "end" /\ work[q].job = "end"
            /\ e = work[p].event /\ e = work[q].event
      BY <1>2, <1>4, <1>5, <2>2
    <3> QED
      BY <1>5, <3>1 DEF Inv, WorkInv
  <2> QED
    BY <2>1, <2>2
<1> QED
  BY <1>3, <1>5

LEMMA HeardInit == Init => HeardInv
BY DEF Init, HeardInv, Heard

\* A row that nobody sends keeps being triggered.
LEMMA TriggeredStays ==
  ASSUME Inv, ReadersAlone, NEW p \in Processes, NEW next, Commits(p, next),
         NEW e \in Existing \ contended, events[e].triggered
  PROVE  e \in Existing' /\ events'[e].triggered
<1>1. Busy(p) /\ work[p] \in Work /\ EndFine(work[p]) /\ RowFine(work[p])
  BY BusyType DEF Commits, Inv, WorkInv
<1>2. e \in Existing' /\ e \notin New(work[p])
  BY <1>1 DEF Commits, New, Creates, EndFine
<1>3. CASE e \notin DOMAIN Saves(work[p])
  BY <1>2, <1>3 DEF Commits
<1>4. CASE e \in DOMAIN Saves(work[p])
  <2>1. e \in DOMAIN work[p].read /\ work[p].read[e] = events[e]
    <3>1. e \in DOMAIN work[p].read
      BY <1>1, <1>4, SavesType DEF EndFine, RowFine
    <3> QED
      BY <1>1, <3>1 DEF ReadersAlone, ReadBy
  <2>2. work[p].job = "edit" /\ e = work[p].event
    BY <1>1, <2>1, WorkFields DEF RowFine, Open
  <2>3. events'[e] = [work[p].read[e] EXCEPT !.resolved = @ \/ work[p].resolves]
    BY <1>2, <1>4, <2>2 DEF Commits, Saves
  <2>4. work[p].read[e] \in Event
    BY <1>1, <2>1, WorkFields
  <2> QED
    BY <1>2, <2>1, <2>3, <2>4 DEF Event
<1> QED
  BY <1>3, <1>4

\* What a process has sent is triggered once it commits.
LEMMA SentIsTriggered ==
  ASSUME Inv, NEW p \in Processes, NEW next, Commits(p, next), NEW e \in Sends(work[p])
  PROVE  e \in Existing' /\ events'[e].triggered
<1> DEFINE w == work[p]
<1>1. Busy(p) /\ w \in Work /\ EndFine(w) /\ RowFine(w) /\ DOMAIN w.read \subseteq Existing
  BY BusyType DEF Commits, Inv, WorkInv
<1>2. CASE e \in New(w)
  <2>1. w.job = "end" /\ e = w.event /\ w.status \in Outcome
    BY <1>1, <1>2 DEF New, Creates, EndFine
  <2>2. e \notin DOMAIN w.read
    BY <1>1, <2>1 DEF EndFine
  <2>3. ~Postpones(w.status)
    BY <1>1, <2>1, <2>2, SendsType
  <2> QED
    BY <1>2, <2>1, <2>3, NewEventType DEF Commits
<1>3. CASE e \notin New(w)
  <2>1. e \in DOMAIN w.read
    BY <1>1, <1>3, SendsType DEF RowFine, New
  <2>2. w.read[e] \in Event
    BY <1>1, <2>1, WorkFields
  <2>3. CASE w.job = "end"
    <3>1. UpdatedAfter(w.read[e], w.status).triggered
      <4>1. Sends(w) = { x \in DOMAIN w.read : UpdatedAfter(w.read[x], w.status).triggered }
              \cup IF Creates(w) /\ ~Postpones(w.status) THEN {w.event} ELSE {}
        BY <2>3 DEF Sends
      <4> QED
        BY <1>3, <4>1 DEF New
    <3>2. Saves(w)[e] = UpdatedAfter(w.read[e], w.status) /\ e \in DOMAIN Saves(w)
      BY <2>1, <2>3 DEF Saves
    <3> QED
      BY <1>1, <1>3, <2>1, <3>1, <3>2 DEF Commits
  <2>4. CASE w.job = "check"
    <3>1. w.enabled /\ e = w.event
      BY <2>4 DEF Sends
    <3>2. Saves(w)[e] = [w.read[e] EXCEPT !.triggered = TRUE] /\ e \in DOMAIN Saves(w)
      BY <2>4, <3>1 DEF Saves
    <3>3. Saves(w)[e].triggered
      BY <2>2, <3>2 DEF Event
    <3> QED
      BY <1>1, <1>3, <2>1, <3>2, <3>3 DEF Commits
  <2>5. w.job # "edit"
    BY DEF Sends
  <2> QED
    BY <1>1, <2>3, <2>4, <2>5, WorkFields
<1> QED
  BY <1>2, <1>3

LEMMA HeardStep ==
  ASSUME Inv, Inv', Step, ReadersAlone, HeardInv
  PROVE  HeardInv'
<1>1. ASSUME NEW p \in Processes, NEW w \in Work, Starts(p, w)
      PROVE  HeardInv'
  <2>1. ~Busy(p) /\ (\A q \in Processes \ {p} : work'[q] = work[q])
          /\ UNCHANGED <<events, attempts>> /\ contended \subseteq contended'
    BY <1>1 DEF Starts, Begin, Inv, TypeOK
  <2>2. \A q \in Processes, e \in Execution : SendingIt(q, e) => SendingIt(q, e)'
    BY <2>1 DEF SendingIt, Busy, Sends, Creates
  <2> QED
    BY <2>1, <2>2 DEF HeardInv, Heard, Existing
<1>2. ASSUME NEW p \in Processes, NEW c \in Counted, NEW failing, SendsWith(p, c, failing),
             SameReading
      PROVE  HeardInv'
  <2>1. work[p] \in Work /\ Busy(p) /\ work[p].counted = None
    BY <1>2, BusyType DEF SendsWith, Inv
  <2>2. \A q \in Processes : Busy(q) => Busy(q)' /\ Sends(work'[q]) = Sends(work[q])
    BY <1>2, AlikeSends DEF SameReading
  <2>3. work'[p].counted # None /\ \A q \in Processes \ {p} : work'[q] = work[q]
    BY <1>2, <2>1, CountedType, NoneAssumption DEF SendsWith, Inv, TypeOK
  <2> SUFFICES ASSUME NEW e \in Execution \ contended'
               PROVE  Heard(e)'
    BY DEF HeardInv
  <2>4. Heard(e) /\ attempts[e] \in Nat /\ e \notin contended
    BY <1>2 DEF HeardInv, SendsWith, Inv, TypeOK
  <2>5. CASE e \in Sends(work[p])
    <3>1. attempts[e] = 0
      <4>1. ~(e \in Existing /\ events[e].triggered)
        BY <2>1, <2>4, <2>5, SendsAlone
      <4>2. \A q \in Processes : ~SendingIt(q, e)
        BY <2>1, <2>4, <2>5, SendsAlone DEF SendingIt
      <4> QED
        BY <2>4, <4>1, <4>2 DEF Heard
    <3>2. attempts'[e] = 1
      BY <1>2, <2>5, <3>1 DEF SendsWith
    <3>3. SendingIt(p, e)'
      BY <2>1, <2>2, <2>3, <2>5 DEF SendingIt, Sends, Creates
    <3> QED
      BY <3>2, <3>3 DEF Heard
  <2>6. CASE e \notin Sends(work[p])
    <3>1. attempts'[e] = attempts[e]
      BY <1>2, <2>4, <2>6 DEF SendsWith
    <3>2. \A q \in Processes : SendingIt(q, e) => SendingIt(q, e)'
      BY <2>2, <2>3, <2>6 DEF SendingIt, Sends, Creates
    <3> QED
      BY <1>2, <2>4, <3>1, <3>2 DEF Heard, SendsWith, Existing
  <2> QED
    BY <2>5, <2>6
<1>3. ASSUME NEW p \in Processes, NEW next, Commits(p, next)
      PROVE  HeardInv'
  <2>1. UNCHANGED <<attempts, contended>> /\ (\A q \in Processes \ {p} : work'[q] = work[q])
    BY <1>3 DEF Commits, Inv, TypeOK
  <2>2. \A e \in Existing \ contended :
          events[e].triggered => e \in Existing' /\ events'[e].triggered
    BY <1>3, TriggeredStays
  <2>3. \A e : SendingIt(p, e) => e \in Existing' /\ events'[e].triggered
    BY <1>3, SentIsTriggered DEF SendingIt
  <2>4. \A q \in Processes \ {p}, e \in Execution : SendingIt(q, e) => SendingIt(q, e)'
    BY <2>1 DEF SendingIt, Busy, Sends, Creates
  <2> QED
    BY <2>1, <2>2, <2>3, <2>4 DEF HeardInv, Heard
<1>4. ASSUME NEW p \in Processes, Crash(p)
      PROVE  HeardInv'
  <2>1. UNCHANGED <<attempts, events>> /\ (\A q \in Processes \ {p} : work'[q] = work[q])
          /\ contended' = contended \cup Sends(work[p])
    BY <1>4 DEF Crash, Inv, TypeOK
  <2>2. \A q \in Processes \ {p}, e \in Execution : SendingIt(q, e) => SendingIt(q, e)'
    BY <2>1 DEF SendingIt, Busy, Sends, Creates
  <2>3. \A e : SendingIt(p, e) => e \in contended'
    BY <2>1 DEF SendingIt
  <2> QED
    BY <2>1, <2>2, <2>3 DEF HeardInv, Heard, Existing
<1>5. ASSUME Tick, SameReading
      PROVE  HeardInv'
  <2>1. \A q \in Processes : Busy(q) => Busy(q)' /\ Sends(work'[q]) = Sends(work[q])
    BY <1>5, AlikeSends DEF SameReading
  <2>2. \A q \in Processes : Busy(q) /\ work[q].counted # None => work'[q].counted # None
    <3> SUFFICES ASSUME NEW q \in Processes, Busy(q), work[q].counted # None
                 PROVE  work'[q].counted # None
      OBVIOUS
    <3>1. work[q] \in Work /\ work'[q] = Aged(work[q])
      BY <1>5, TickStep, BusyType DEF Inv
    <3> QED
      BY <3>1, AgedType, NoneAssumption
  <2>3. \A q \in Processes, e \in Execution : SendingIt(q, e) => SendingIt(q, e)'
    BY <2>1, <2>2 DEF SendingIt, Sends, Creates
  <2>4. UNCHANGED <<attempts, events, contended>>
    BY <1>5 DEF Tick
  <2> QED
    BY <2>3, <2>4 DEF HeardInv, Heard, Existing
<1>6. ASSUME UNCHANGED <<work, events, contended, attempts>>
      PROVE  HeardInv'
  <2>1. \A q \in Processes, e \in Execution : SendingIt(q, e) => SendingIt(q, e)'
    BY <1>6 DEF SendingIt, Busy, Sends, Creates
  <2> QED
    BY <1>6, <2>1 DEF HeardInv, Heard, Existing
<1> QED
  BY <1>1, <1>2, <1>3, <1>4, <1>5, <1>6 DEF Step, Toggle, ghosts, vars

\* Users hear of an event once, unless two processes had read it at once or one
\* that sent it died (maybe_create_and_send_status_change_event, PostponedEventChecker).
THEOREM UsersHearOnce == Spec => []HeardOnce
<1>1. (Inv /\ ReadersAlone /\ HeardInv) /\ [Next]_vars => (Inv /\ ReadersAlone /\ HeardInv)'
  BY InvStep, ReadersStep, HeardStep
<1>2. Init => Inv /\ ReadersAlone /\ HeardInv
  BY InvInit, ReadersInit, HeardInit
<1>3. Inv /\ ReadersAlone /\ HeardInv => HeardOnce
  BY DEF HeardInv, Heard, HeardOnce
<1> QED
  BY <1>1, <1>2, <1>3, PTL DEF Spec

-----------------------------------------------------------------------------
(* What is resolved has recovered.                                         *)

Count(e) == Cardinality(EndsAfter(e, {"SUCCEEDED"}))

\* Sets of ends are finite.
LEMMA EndsFinite ==
  ASSUME Inv, NEW S, S \subseteq DOMAIN ends
  PROVE  IsFiniteSet(S) /\ Cardinality(S) \in Nat
<1>1. DOMAIN ends = 1 .. Len(ends) /\ Len(ends) \in Nat
  BY EndsBounded
<1>2. IsFiniteSet(DOMAIN ends)
  BY <1>1, FS_Interval
<1> QED
  BY <1>2, FS_Subset, FS_CardinalityType

\* What came after an event still did.
LEMMA EndsAfterStays ==
  ASSUME Inv, Inv', NEW p \in Processes, NEW next, Commits(p, next),
         NEW e, Ended(e), NEW statuses
  PROVE  EndsAfter(e, statuses)' =
           EndsAfter(e, statuses) \cup
             IF work[p].job = "end" /\ work[p].status \in statuses THEN {Len(ends) + 1} ELSE {}
<1>1. ends \in Seq(End) /\ Len(ends) \in Nat /\ DOMAIN ends = 1 .. Len(ends)
  BY EndsBounded
<1>2. \A i \in DOMAIN ends : i \in DOMAIN ends' /\ ends'[i] = ends[i]
  BY EndedStays
<1>3. \A i \in DOMAIN ends' \ DOMAIN ends :
        /\ i = Len(ends) + 1 /\ work[p].job = "end" /\ ends'[i].status = work[p].status
  BY EndedStays
<1>4. \A i \in DOMAIN ends :
        (\E j \in 1 .. i - 1 : ends'[j].event = e) <=> (\E j \in 1 .. i - 1 : ends[j].event = e)
  BY <1>1, <1>2
<1>5. \E j \in 1 .. Len(ends) + 1 - 1 : ends'[j].event = e
  BY <1>1, <1>2 DEF Ended
<1>6. work[p].job = "end" => Len(ends) + 1 \in DOMAIN ends' /\ Len(ends) + 1 \notin DOMAIN ends
  <2>1. work[p].job = "end" => Len(ends') = Len(ends) + 1 /\ DOMAIN ends' = 1 .. Len(ends')
    BY EndedStays
  <2> QED
    BY <1>1, <2>1
<1>7. \A i : i \in EndsAfter(e, statuses)' <=>
               i \in DOMAIN ends' /\ ends'[i].status \in statuses
                 /\ \E j \in 1 .. i - 1 : ends'[j].event = e
  BY DEF EndsAfter
<1>8. \A i : i \in EndsAfter(e, statuses) <=>
               i \in DOMAIN ends /\ ends[i].status \in statuses
                 /\ \E j \in 1 .. i - 1 : ends[j].event = e
  BY DEF EndsAfter
<1>9. \A i \in DOMAIN ends : i \in EndsAfter(e, statuses)' <=> i \in EndsAfter(e, statuses)
  BY <1>2, <1>4, <1>7, <1>8
<1>10. \A i \in EndsAfter(e, statuses)' : i \in DOMAIN ends
         \/ (i = Len(ends) + 1 /\ work[p].job = "end" /\ work[p].status \in statuses)
  BY <1>3, <1>7
<1>11. work[p].job = "end" /\ work[p].status \in statuses
         => Len(ends) + 1 \in EndsAfter(e, statuses)'
  BY <1>3, <1>5, <1>6, <1>7
<1> QED
  BY <1>8, <1>9, <1>10, <1>11

\* Successes are counted.
LEMMA CountGrows ==
  ASSUME Inv, Inv', NEW p \in Processes, NEW next, Commits(p, next), NEW e, Ended(e)
  PROVE  /\ Count(e) \in Nat
         /\ Count(e)' = Count(e) + IF work[p].job = "end" /\ work[p].status = "SUCCEEDED"
                                   THEN 1 ELSE 0
<1> DEFINE S == EndsAfter(e, {"SUCCEEDED"})
<1>1. S \subseteq DOMAIN ends
  BY DEF EndsAfter
<1>2. IsFiniteSet(S) /\ Cardinality(S) \in Nat
  BY <1>1, EndsFinite
<1>3. Len(ends) + 1 \notin S
  BY <1>1, EndsBounded
<1>4. Cardinality(S \cup {Len(ends) + 1}) = Cardinality(S) + 1
  BY <1>2, <1>3, FS_AddElement
<1>5. S' = S \cup IF work[p].job = "end" /\ work[p].status = "SUCCEEDED"
                  THEN {Len(ends) + 1} ELSE {}
  BY EndsAfterStays
<1>6. Count(e) = Cardinality(S) /\ Count(e)' = Cardinality(S')
  BY DEF Count
<1>7. CASE work[p].job = "end" /\ work[p].status = "SUCCEEDED"
  <2>1. S' = S \cup {Len(ends) + 1}
    BY <1>5, <1>7
  <2> QED
    BY <1>2, <1>4, <1>6, <1>7, <2>1
<1>8. CASE ~(work[p].job = "end" /\ work[p].status = "SUCCEEDED")
  <2>1. S' = S
    BY <1>5, <1>8
  <2> QED
    BY <1>2, <1>6, <1>8, <2>1
<1> QED
  BY <1>7, <1>8

\* No row claims more successes than there were.
Counts(e, event) ==
  /\ event.successes <= Count(e)
  /\ event.resolved /\ e \notin settled =>
       RequiredSuccesses # None /\ RequiredSuccesses <= Count(e)

RecoverInv ==
  /\ \A e \in Existing : Counts(e, events[e])
  /\ \A p \in Processes : Busy(p) => \A e \in DOMAIN work[p].read : Counts(e, work[p].read[e])

LEMMA RecoverInit == Init => RecoverInv
BY DEF Init, RecoverInv, Existing, Busy

\* Rows that were true stay so as executions end and users settle events.
LEMMA CountsStay ==
  ASSUME Inv, Inv', NEW e, Ended(e), NEW event \in Event, Counts(e, event),
         settled \subseteq settled',
         UNCHANGED ends \/ \E p \in Processes, next \in Work \cup {None} : Commits(p, next)
  PROVE  Counts(e, event)'
<1>1. EndsAfter(e, {"SUCCEEDED"}) \subseteq DOMAIN ends
  BY DEF EndsAfter
<1>2. Count(e) \in Nat
  BY <1>1, EndsFinite DEF Count
<1>3. Count(e)' \in Nat /\ Count(e) <= Count(e)'
  <2>1. CASE UNCHANGED ends
    BY <1>2, <2>1 DEF Count, EndsAfter
  <2>2. CASE \E p \in Processes, next \in Work \cup {None} : Commits(p, next)
    BY <1>2, <2>2, CountGrows
  <2> QED
    BY <2>1, <2>2
<1>4. event.successes \in Nat
  BY DEF Event
<1> QED
  BY <1>2, <1>3, <1>4, SettingsAssumption DEF Counts

LEMMA RecoverStep ==
  ASSUME Inv, Inv', Step, RecoverInv
  PROVE  RecoverInv'
<1>1. ASSUME UNCHANGED <<events, ends>>, settled \subseteq settled',
             \A q \in Processes : Busy(q)' =>
               \A e \in DOMAIN work'[q].read :
                 \/ Busy(q) /\ e \in DOMAIN work[q].read /\ work'[q].read[e] = work[q].read[e]
                 \/ e \in Existing /\ work'[q].read[e] = events[e]
      PROVE  RecoverInv'
  <2>1. \A e \in Existing : Ended(e) /\ events[e] \in Event
    BY DEF Inv, TypeOK, WorkInv
  <2>2. \A e \in Existing' : Counts(e, events[e])'
    <3> SUFFICES ASSUME NEW e \in Existing PROVE Counts(e, events[e])'
      BY <1>1 DEF Existing
    <3>1. PICK event \in Event : event = events[e]
      BY <2>1
    <3>2. Counts(e, event)'
      BY <1>1, <2>1, <3>1, CountsStay DEF RecoverInv
    <3> QED
      BY <1>1, <3>1, <3>2 DEF Counts
  <2>3. ASSUME NEW q \in Processes, Busy(q)', NEW e \in DOMAIN work'[q].read
        PROVE  Counts(e, work[q].read[e])'
    <3>1. PICK event : event = work'[q].read[e]
      OBVIOUS
    <3>2. event \in Event /\ Ended(e) /\ Counts(e, event)
      <4>1. CASE Busy(q) /\ e \in DOMAIN work[q].read /\ work'[q].read[e] = work[q].read[e]
        <5>1. work[q] \in Work /\ DOMAIN work[q].read \subseteq Existing
          BY <4>1, BusyType DEF Inv
        <5> QED
          BY <2>1, <3>1, <4>1, <5>1, WorkFields DEF RecoverInv
      <4>2. CASE e \in Existing /\ work'[q].read[e] = events[e]
        BY <2>1, <3>1, <4>2 DEF RecoverInv
      <4> QED
        BY <1>1, <2>3, <4>1, <4>2
    <3>3. Counts(e, event)'
      BY <1>1, <3>2, CountsStay
    <3> QED
      BY <3>1, <3>3 DEF Counts
  <2> QED
    BY <2>2, <2>3 DEF RecoverInv
<1>2. ASSUME NEW p \in Processes, NEW w \in Work, Starts(p, w)
      PROVE  RecoverInv'
  <2>1. work'[p] = w /\ (\A q \in Processes \ {p} : work'[q] = work[q])
    BY <1>2 DEF Starts, Begin, Inv, TypeOK
  <2>2. \A q \in Processes : Busy(q)' =>
          \A e \in DOMAIN work'[q].read :
            \/ Busy(q) /\ e \in DOMAIN work[q].read /\ work'[q].read[e] = work[q].read[e]
            \/ e \in Existing /\ work'[q].read[e] = events[e]
    BY <1>2, <2>1 DEF Starts, Busy
  <2> QED
    BY <1>1, <1>2, <2>2 DEF Starts
<1>3. ASSUME SameReading, UNCHANGED <<events, ends, settled>>
      PROVE  RecoverInv'
  BY <1>1, <1>3 DEF SameReading, Alike
<1>4. ASSUME NEW p \in Processes, Crash(p)
      PROVE  RecoverInv'
  <2>1. \A q \in Processes : Busy(q)' => Busy(q) /\ work'[q] = work[q]
    BY <1>4 DEF Crash, Busy, Inv, TypeOK
  <2> QED
    BY <1>1, <1>4, <2>1 DEF Crash
<1>5. ASSUME UNCHANGED <<work, events, ends, settled>>
      PROVE  RecoverInv'
  BY <1>1, <1>5 DEF Busy
<1>6. ASSUME NEW p \in Processes, NEW next \in Work \cup {None}, Commits(p, next)
      PROVE  RecoverInv'
  <2> DEFINE w == work[p]
  <2>1. Busy(p) /\ w \in Work /\ EndFine(w) /\ RowFine(w) /\ DOMAIN w.read \subseteq Existing
    BY <1>6, BusyType DEF Commits, Inv, WorkInv
  <2>2. work'[p] = next /\ (\A q \in Processes \ {p} : work'[q] = work[q])
    BY <1>6 DEF Commits, Inv, TypeOK
  <2>3. settled \subseteq settled'
    BY <1>6 DEF Commits
  <2>4. \A e \in Existing : Ended(e) /\ events[e] \in Event
    BY DEF Inv, TypeOK, WorkInv
  <2>5. \A e, event : Ended(e) /\ event \in Event /\ Counts(e, event) => Counts(e, event)'
    BY <1>6, <2>3, CountsStay
  <2>6. ASSUME NEW e \in Existing', NEW event, event = events'[e]
        PROVE  Counts(e, event)'
    <3>1. CASE e \in New(w)
      <4>1. w.status \in Outcome /\ event = NewEvent(w.status)
        BY <1>6, <2>1, <2>6, <3>1 DEF Commits, New, Creates, EndFine
      <4>2. EndsAfter(e, {"SUCCEEDED"})' \subseteq 1 .. Len(ends') /\ Len(ends') \in Nat
        BY <1>6, EndedStays DEF EndsAfter
      <4>3. Count(e)' \in Nat
        <5>1. IsFiniteSet(1 .. Len(ends'))
          BY <4>2, FS_Interval
        <5>2. IsFiniteSet(EndsAfter(e, {"SUCCEEDED"})')
          BY <4>2, <5>1, FS_Subset
        <5> QED
          BY <5>2, FS_CardinalityType DEF Count
      <4>4. event.successes = 0 /\ ~event.resolved
        BY <4>1, NewEventType
      <4> QED
        BY <4>3, <4>4 DEF Counts
    <3>2. CASE e \notin New(w) /\ e \notin DOMAIN Saves(w)
      <4>1. e \in Existing /\ event = events[e]
        BY <1>6, <2>6, <3>2 DEF Commits
      <4> QED
        BY <2>4, <2>5, <4>1 DEF RecoverInv
    <3>3. CASE e \notin New(w) /\ e \in DOMAIN Saves(w)
      <4>1. e \in DOMAIN w.read /\ event = Saves(w)[e]
        BY <1>6, <2>1, <2>6, <3>3, SavesType DEF Commits, EndFine, RowFine
      <4>2. PICK old : old = w.read[e]
        OBVIOUS
      <4>3. old \in Event /\ Ended(e) /\ Counts(e, old)
        BY <2>1, <2>4, <4>1, <4>2, WorkFields DEF RecoverInv
      <4>4. Counts(e, old)'
        BY <2>5, <4>3
      <4>5. CASE w.job = "end"
        <5>1. Saves(w)[e] = UpdatedAfter(old, w.status) /\ w.status \in Outcome
          BY <2>1, <4>1, <4>2, <4>5 DEF Saves, EndFine
        <5>2. Count(e) \in Nat
                /\ Count(e)' = Count(e) + IF w.status = "SUCCEEDED" THEN 1 ELSE 0
          BY <1>6, <4>3, <4>5, CountGrows
        <5>3. old.successes \in Nat /\ old.successes <= Count(e)
          BY <4>3 DEF Event, Counts
        <5>4. CASE w.status = "SUCCEEDED"
          <6>1. /\ event.successes = old.successes + 1
                /\ event.resolved => RequiredSuccesses # None
                                            /\ old.successes + 1 >= RequiredSuccesses
            <7>1. event = UpdatedAfter(old, w.status) /\ w.status = "SUCCEEDED"
              BY <4>1, <5>1, <5>4
            <7>2. event.successes = old.successes + 1
              BY <4>3, <5>1, <7>1, UpdatedType
            <7>3. event.resolved = (RequiredSuccesses # None
                                      /\ old.successes + 1 >= RequiredSuccesses)
              BY <4>3, <5>1, <7>1, UpdatedType, Zenon
            <7> QED
              BY <7>2, <7>3
          <6>2. Count(e)' = Count(e) + 1
            BY <5>2, <5>4
          <6>3. event.successes <= Count(e)'
            BY <5>2, <5>3, <6>1, <6>2
          <6>4. event.resolved => RequiredSuccesses # None /\ RequiredSuccesses <= Count(e)'
            BY <5>2, <5>3, <6>1, <6>2, SettingsAssumption
          <6> QED
            BY <6>3, <6>4 DEF Counts
        <5>5. CASE w.status # "SUCCEEDED"
          <6>1. event.successes = old.successes /\ event.resolved = old.resolved
            BY <4>1, <4>3, <5>1, <5>3, <5>5, UpdatedType
          <6> QED
            BY <4>4, <6>1 DEF Counts
        <5> QED
          BY <5>4, <5>5
      <4>6. CASE w.job = "check"
        <5>1. e = w.event
          BY <2>1, <3>3, <4>6, SavesType DEF RowFine
        <5>2. Saves(w)[e] = IF w.enabled THEN [old EXCEPT !.triggered = TRUE]
                            ELSE [old EXCEPT !.resolved = TRUE]
          BY <4>2, <4>6, <5>1 DEF Saves
        <5>3. event.successes = old.successes
          BY <4>1, <4>3, <5>2 DEF Event
        <5>4. CASE w.enabled
          <6>1. event.resolved = old.resolved
            BY <4>1, <4>3, <5>2, <5>4 DEF Event
          <6> QED
            BY <4>4, <5>3, <6>1 DEF Counts
        <5>5. CASE ~w.enabled
          <6>1. e \in settled'
            BY <1>6, <4>6, <5>1, <5>5 DEF Commits
          <6> QED
            BY <4>4, <5>3, <6>1 DEF Counts
        <5> QED
          BY <5>4, <5>5
      <4>7. CASE w.job = "edit"
        <5>1. e = w.event
          BY <2>1, <3>3, <4>7, SavesType DEF RowFine
        <5>2. Saves(w)[e] = [old EXCEPT !.resolved = old.resolved \/ w.resolves]
          BY <4>2, <4>7, <5>1 DEF Saves
        <5>3. event.successes = old.successes
          BY <4>1, <4>3, <5>2 DEF Event
        <5>4. CASE w.resolves
          <6>1. e \in settled'
            BY <2>1, <2>3, <4>7, <5>1, <5>4 DEF RowFine
          <6> QED
            BY <4>4, <5>3, <6>1 DEF Counts
        <5>5. CASE ~w.resolves
          <6>1. event.resolved => old.resolved
            BY <4>1, <4>3, <5>2, <5>5 DEF Event
          <6> QED
            BY <4>4, <5>3, <6>1 DEF Counts
        <5> QED
          BY <5>4, <5>5
      <4> QED
        BY <2>1, <4>5, <4>6, <4>7, WorkFields
    <3> QED
      BY <3>1, <3>2, <3>3
  <2>7. ASSUME NEW q \in Processes, Busy(q)', NEW e \in DOMAIN work'[q].read
        PROVE  Counts(e, work[q].read[e])'
    <3>1. Busy(q) /\ e \in DOMAIN work[q].read /\ work'[q].read[e] = work[q].read[e]
      BY <1>6, <2>1, <2>2, <2>7 DEF Commits, GoesOn, Busy
    <3>2. PICK event : event = work[q].read[e]
      OBVIOUS
    <3>3. event \in Event /\ Ended(e) /\ Counts(e, event)
      BY <2>4, <3>1, <3>2, BusyType, WorkFields DEF RecoverInv, Inv
    <3>4. Counts(e, event)'
      BY <2>5, <3>3
    <3> QED
      BY <3>1, <3>2, <3>4 DEF Counts
  <2> QED
    BY <2>6, <2>7 DEF RecoverInv, Counts
<1> QED
  BY <1>2, <1>3, <1>4, <1>5, <1>6 DEF Step, SendsWith, Tick, Toggle, ghosts, vars

LEMMA RecoveredNow ==
  ASSUME Inv, RecoverInv
  PROVE  ResolvedMeansRecovered
<1> SUFFICES ASSUME NEW e \in Existing \ settled, events[e].resolved
             PROVE  RequiredSuccesses # None /\ Count(e) >= RequiredSuccesses
  BY DEF ResolvedMeansRecovered, Count
<1>1. Count(e) \in Nat
  BY EndsFinite DEF Count, EndsAfter
<1> QED
  BY <1>1, SettingsAssumption DEF RecoverInv, Counts

\* An event that nobody resolved by hand, and no disabled Task, is resolved by as
\* many successes as are required, whoever else wrote its row, and by no fewer
\* (ExecutionStatusChangeEvent.update_after_postponed).
THEOREM ResolvedHasRecovered == Spec => []ResolvedMeansRecovered
<1>1. (Inv /\ RecoverInv) /\ [Next]_vars => (Inv /\ RecoverInv)'
  BY InvStep, RecoverStep
<1>2. Init => Inv /\ RecoverInv
  BY InvInit, RecoverInit
<1> QED
  BY <1>1, <1>2, RecoveredNow, PTL DEF Spec

-----------------------------------------------------------------------------
(* No success is overlooked.                                               *)

\* Ends look for the events of their Task, and no count clears at once.
ClearedByCount == ~SameExecution /\ RequiredSuccesses # 0

Waits(e) == e \in Existing /\ left[e] # None /\ left[e] > 0 /\ Open(events[e])

SawIt(n, e) == \E j \in 1 .. n : ends[j].event = e

\* The row counts every success that could have seen it; a process that saw it
\* and is ending has read it.
Unresolved(e) ==
  /\ events[e].successes < RequiredSuccesses
  /\ Cardinality(SuccessesSeeing(e)) <= events[e].successes
  /\ \A p \in Processes :
       Busy(p) /\ work[p].job = "end" /\ SawIt(work[p].saw, e) => e \in DOMAIN work[p].read

Unedited ==
  /\ enabled
  /\ \A p \in Processes : Busy(p) => work[p].job # "edit" /\ work[p].enabled

ClearInv ==
  /\ edits \in Nat
  /\ edits = 0 =>
       /\ Unedited
       /\ RequiredSuccesses # None =>
            \A e \in Existing \ contended : Waits(e) => Unresolved(e)

LEMMA ClearInit == Init => ClearInv
BY DEF Init, ClearInv, Unedited, Existing, Busy

\* A success sees the event once it has ended, and only if it had been there.
LEMMA SeeingStays ==
  ASSUME Inv, Inv', NEW p \in Processes, NEW next, Commits(p, next), NEW e, Ended(e)
  PROVE  SuccessesSeeing(e)' \subseteq
           SuccessesSeeing(e) \cup
             IF work[p].job = "end" /\ work[p].status = "SUCCEEDED" /\ SawIt(work[p].saw, e)
             THEN {Len(ends) + 1} ELSE {}
<1>1. ends \in Seq(End) /\ Len(ends) \in Nat /\ DOMAIN ends = 1 .. Len(ends)
  BY EndsBounded
<1>2. Busy(p) /\ work[p] \in Work /\ EndFine(work[p])
  BY BusyType DEF Commits, Inv, WorkInv
<1> SUFFICES ASSUME NEW i \in SuccessesSeeing(e)'
             PROVE  \/ i \in SuccessesSeeing(e)
                    \/ /\ i = Len(ends) + 1 /\ work[p].job = "end"
                       /\ work[p].status = "SUCCEEDED" /\ SawIt(work[p].saw, e)
  OBVIOUS
<1>3. i \in EndsAfter(e, {"SUCCEEDED"})' /\ i \in DOMAIN ends' /\ ends'[i].status = "SUCCEEDED"
  BY DEF SuccessesSeeing, EndsAfter
<1>4. PICK j \in 1 .. ends'[i].saw : ends'[j].event = e
  BY DEF SuccessesSeeing
<1>5. CASE i \in DOMAIN ends
  <2>1. i \in EndsAfter(e, {"SUCCEEDED"})
    BY <1>1, <1>3, <1>5, EndsAfterStays
  <2>2. ends'[i] = ends[i] /\ ends[i].saw < i
    BY <1>5, EndedStays DEF Inv, WorkInv
  <2>3. ends[i] \in End
    BY <1>1, <1>5
  <2>4. ends[i].saw \in Int
    BY <2>3 DEF End
  <2>5. j \in DOMAIN ends /\ ends'[j] = ends[j] /\ j \in 1 .. ends[i].saw
    <3>1. j \in 1 .. ends[i].saw
      BY <1>4, <2>2
    <3>2. i \in Int /\ i <= Len(ends)
      BY <1>1, <1>5
    <3>3. j \in DOMAIN ends
      BY <1>1, <2>2, <2>4, <3>1, <3>2
    <3> QED
      BY <3>1, <3>3, EndedStays
  <2> QED
    BY <1>4, <2>1, <2>5 DEF SuccessesSeeing
<1>6. CASE i \notin DOMAIN ends
  <2>1. i = Len(ends) + 1 /\ work[p].job = "end"
          /\ ends'[i].status = work[p].status /\ ends'[i].saw = work[p].saw
    BY <1>3, <1>6, EndedStays
  <2>2. work[p].saw \in Int /\ work[p].saw <= Len(ends)
    BY <1>2, <2>1, WorkFields DEF EndFine
  <2>3. j \in DOMAIN ends /\ ends'[j] = ends[j]
    BY <1>1, <1>4, <2>1, <2>2, EndedStays
  <2> QED
    BY <1>3, <1>4, <2>1, <2>3 DEF SawIt
<1> QED
  BY <1>5, <1>6

\* Nothing has come after an event that is created.
LEMMA NewIsUnseen ==
  ASSUME Inv, Inv', NEW p \in Processes, NEW next, Commits(p, next), NEW e \in New(work[p])
  PROVE  SuccessesSeeing(e)' = {} /\ \A n \in 0 .. Len(ends) : ~SawIt(n, e)'
<1>1. ends \in Seq(End) /\ Len(ends) \in Nat /\ DOMAIN ends = 1 .. Len(ends)
  BY EndsBounded
<1>2. Busy(p) /\ work[p].job = "end" /\ e = work[p].event /\ ~Ended(e)
  <2>1. Busy(p) /\ work[p].job = "end" /\ e = work[p].event
    BY DEF Commits, New, Creates
  <2>2. EndFine(work[p])
    BY <2>1 DEF Inv, WorkInv
  <2> QED
    BY <2>1, <2>2 DEF EndFine
<1>3. DOMAIN ends' = 1 .. Len(ends) + 1
  BY <1>1, <1>2, EndedStays
<1>4. \A j \in 1 .. Len(ends) : ends'[j].event # e
  BY <1>1, <1>2, EndedStays DEF Ended
<1>5. EndsAfter(e, {"SUCCEEDED"})' = {}
  <2> SUFFICES ASSUME NEW i \in DOMAIN ends', NEW j \in 1 .. i - 1, ends'[j].event = e
               PROVE  FALSE
    BY DEF EndsAfter
  <2>1. j \in 1 .. Len(ends)
    BY <1>1, <1>3
  <2> QED
    BY <1>4, <2>1
<1>6. \A n \in 0 .. Len(ends) : ~SawIt(n, e)'
  BY <1>1, <1>4 DEF SawIt
<1> QED
  BY <1>5, <1>6 DEF SuccessesSeeing

\* Whatever leaves the rows and the ends alone keeps what waits unresolved.
LEMMA UnresolvedStays ==
  ASSUME UNCHANGED <<events, ends>>, NEW e \in Existing, Unresolved(e),
         \A q \in Processes : Busy(q)' /\ work'[q].job = "end" =>
           \/ e \in DOMAIN work'[q].read
           \/ /\ Busy(q) /\ work[q].job = "end"
              /\ work'[q].saw = work[q].saw /\ work'[q].read = work[q].read
  PROVE  Unresolved(e)'
BY DEF Unresolved, SuccessesSeeing, EndsAfter, SawIt

LEMMA ClearStep ==
  ASSUME ClearedByCount, Inv, Inv', Step, ReadersAlone, ClearInv
  PROVE  ClearInv'
<1>1. ASSUME NEW p \in Processes, NEW w \in Work, Starts(p, w)
      PROVE  ClearInv'
  <2>1. work'[p] = w /\ \A q \in Processes \ {p} : work'[q] = work[q]
    BY <1>1 DEF Starts, Begin, Inv, TypeOK
  <2>2. edits' \in Nat /\ (edits' = 0 => edits = 0 /\ w.job # "edit")
    BY <1>1 DEF Starts, ClearInv
  <2>3. edits' = 0 => Unedited'
    BY <1>1, <2>1, <2>2 DEF ClearInv, Unedited, Starts, Busy
  <2>4. ASSUME edits' = 0, RequiredSuccesses # None, NEW e \in Existing \ contended', Waits(e)'
        PROVE  Unresolved(e)'
    <3>1. e \in Existing \ contended /\ Waits(e)
      BY <1>1, <2>4 DEF Starts, Begin, Waits, Existing
    <3>2. Unresolved(e) /\ enabled
      BY <2>2, <2>4, <3>1 DEF ClearInv, Unedited
    <3>3. e \in Found
      BY <3>1 DEF Waits, Found, ClearedByCount
    <3>4. \A q \in Processes : Busy(q)' /\ work'[q].job = "end" =>
            \/ e \in DOMAIN work'[q].read
            \/ /\ Busy(q) /\ work[q].job = "end"
               /\ work'[q].saw = work[q].saw /\ work'[q].read = work[q].read
      BY <1>1, <2>1, <3>2, <3>3 DEF Starts, Busy
    <3> QED
      BY <1>1, <3>1, <3>2, <3>4, UnresolvedStays DEF Starts
  <2>5. UNCHANGED events
    BY <1>1 DEF Starts
  <2> QED
    BY <2>2, <2>3, <2>4, <2>5 DEF ClearInv, Existing
<1>2. ASSUME SameReading, UNCHANGED <<events, ends, enabled, contended, edits>>,
             \A e \in Existing : Waits(e)' => Waits(e)
      PROVE  ClearInv'
  <2>1. \A q \in Processes : Busy(q)' => Busy(q) /\ work'[q].job = work[q].job
          /\ work'[q].saw = work[q].saw /\ work'[q].read = work[q].read
          /\ work'[q].enabled = work[q].enabled
    BY <1>2 DEF SameReading, Alike
  <2>2. edits = 0 => Unedited'
    BY <1>2, <2>1 DEF ClearInv, Unedited
  <2>3. \A e \in Existing : Unresolved(e) => Unresolved(e)'
    BY <1>2, <2>1, UnresolvedStays
  <2> QED
    BY <1>2, <2>2, <2>3 DEF ClearInv, Existing
<1>3. ASSUME NEW p \in Processes, NEW next, Commits(p, next)
      PROVE  ClearInv'
  <2> DEFINE w == work[p]
  <2>1. Busy(p) /\ w \in Work /\ EndFine(w) /\ RowFine(w) /\ DOMAIN w.read \subseteq Existing
    BY <1>3, BusyType DEF Commits, Inv, WorkInv
  <2>2. work'[p] = next /\ (\A q \in Processes \ {p} : work'[q] = work[q])
          /\ UNCHANGED <<edits, enabled, contended>>
    BY <1>3 DEF Commits, Inv, TypeOK
  <2>3. edits' \in Nat
    BY <2>2 DEF ClearInv
  <2> SUFFICES ASSUME edits' = 0
               PROVE  /\ Unedited'
                      /\ RequiredSuccesses # None =>
                           \A e \in Existing' \ contended : Waits(e)' => Unresolved(e)'
    BY <2>2, <2>3 DEF ClearInv
  <2>4. Unedited /\ w.job # "edit" /\ w.enabled
    BY <2>1, <2>2 DEF ClearInv, Unedited
  <2>5. Unedited'
    <3>1. Busy(p)' => next.job # "edit" /\ next.enabled
      BY <1>3, <2>2, <2>4 DEF Unedited, Commits, GoesOn, Busy
    <3>2. \A q \in Processes \ {p} : Busy(q)' => work'[q].job # "edit" /\ work'[q].enabled
      BY <2>2, <2>4 DEF Unedited, Busy
    <3> QED
      BY <2>2, <2>4, <3>1, <3>2 DEF Unedited
  <2>6. ASSUME RequiredSuccesses # None, NEW e \in Existing' \ contended, Waits(e)'
        PROVE  Unresolved(e)'
    <3>1. \A q \in Processes : Busy(q)' /\ work'[q].job = "end" =>
            q # p /\ Busy(q) /\ work'[q] = work[q] /\ work[q].saw \in 0 .. Len(ends)
      <4> SUFFICES ASSUME NEW q \in Processes, Busy(q)', work'[q].job = "end"
                   PROVE  q # p /\ Busy(q) /\ work'[q] = work[q] /\ work[q].saw \in 0 .. Len(ends)
        OBVIOUS
      <4>1. q # p /\ Busy(q) /\ work'[q] = work[q]
        BY <1>3, <2>2 DEF Commits, GoesOn, Busy
      <4>2. work[q] \in Work /\ work[q].saw <= Len(ends)
        BY <4>1, BusyType DEF Inv, WorkInv, EndFine
      <4> QED
        BY <4>1, <4>2, WorkFields
    <3>2. RequiredSuccesses \in Nat \ {0}
      BY <2>6, SettingsAssumption DEF ClearedByCount
    <3>3. CASE e \in New(w)
      <4>1. w.status \in Outcome /\ events'[e] = NewEvent(w.status)
        BY <1>3, <2>1, <3>3 DEF Commits, New, Creates, EndFine
      <4>2. events'[e].successes = 0
        BY <4>1, NewEventType
      <4>3. SuccessesSeeing(e)' = {} /\ \A n \in 0 .. Len(ends) : ~SawIt(n, e)'
        BY <1>3, <3>3, NewIsUnseen
      <4>4. Cardinality(SuccessesSeeing(e)') = 0
        BY <4>3, FS_EmptySet
      <4>5. \A q \in Processes : ~(Busy(q)' /\ work'[q].job = "end" /\ SawIt(work[q].saw, e)')
        <5> SUFFICES ASSUME NEW q \in Processes, Busy(q)', work'[q].job = "end",
                            SawIt(work[q].saw, e)'
                     PROVE  FALSE
          OBVIOUS
        <5>1. work'[q].saw \in 0 .. Len(ends)
          BY <3>1
        <5> QED
          BY <4>3, <5>1 DEF SawIt
      <4> QED
        BY <3>2, <4>2, <4>4, <4>5 DEF Unresolved
    <3>4. CASE e \notin New(w)
      <4>1. e \in Existing /\ left'[e] = left[e] /\ Ended(e)
        BY <1>3, <2>6, <3>4 DEF Commits, Inv, WorkInv
      <4>2. e \in DOMAIN w.read => w.read[e] = events[e] /\ events[e] \in Event
        BY <2>1, <2>6, <4>1 DEF ReadersAlone, ReadBy, Inv, TypeOK
      <4>3. Open(events'[e])
        BY <2>6 DEF Waits
      <4>4. e \in DOMAIN Saves(w) => e \in DOMAIN w.read /\ w.job = "end"
              /\ events'[e] = UpdatedAfter(events[e], w.status) /\ w.status \in Outcome
        <5> SUFFICES ASSUME e \in DOMAIN Saves(w)
                     PROVE  e \in DOMAIN w.read /\ w.job = "end"
                              /\ events'[e] = UpdatedAfter(events[e], w.status)
                              /\ w.status \in Outcome
          OBVIOUS
        <5>1. e \in DOMAIN w.read /\ events'[e] = Saves(w)[e]
          BY <1>3, <2>1, <2>6, <3>4, SavesType DEF Commits, EndFine, RowFine
        <5>2. w.job # "check"
          <6> SUFFICES ASSUME w.job = "check" PROVE FALSE
            OBVIOUS
          <6>1. e = w.event
            BY <2>1, SavesType DEF RowFine
          <6>2. events'[e] = [events[e] EXCEPT !.triggered = TRUE]
            BY <2>4, <4>2, <5>1, <6>1 DEF Saves
          <6> QED
            BY <4>2, <4>3, <5>1, <6>2 DEF Open, Event
        <5>3. w.job = "end"
          BY <2>1, <2>4, <5>2, WorkFields
        <5> QED
          BY <2>1, <4>2, <5>1, <5>3 DEF Saves, EndFine
      <4>5. Open(events[e])
        BY <1>3, <2>1, <2>6, <3>4, <4>2, <4>3, <4>4 DEF Commits, RowFine
      <4>6. Waits(e) /\ Unresolved(e)
        BY <2>2, <2>6, <4>1, <4>5 DEF Waits, ClearInv
      <4>7. \A q \in Processes :
              Busy(q)' /\ work'[q].job = "end" /\ SawIt(work[q].saw, e)'
                => e \in DOMAIN work'[q].read
        <5> SUFFICES ASSUME NEW q \in Processes, Busy(q)', work'[q].job = "end",
                            SawIt(work[q].saw, e)'
                     PROVE  e \in DOMAIN work'[q].read
          OBVIOUS
        <5>1. Busy(q) /\ work'[q] = work[q] /\ work[q].saw \in 0 .. Len(ends)
          BY <3>1
        <5>2. SawIt(work[q].saw, e)
          <6>1. \A j \in 1 .. work[q].saw : j \in DOMAIN ends /\ ends'[j] = ends[j]
            BY <1>3, <5>1, EndedStays, EndsBounded
          <6> QED
            BY <5>1, <6>1 DEF SawIt
        <5> QED
          BY <4>6, <5>1, <5>2 DEF Unresolved
      <4>8. SuccessesSeeing(e) \subseteq DOMAIN ends
        BY DEF SuccessesSeeing, EndsAfter
      <4>9. IsFiniteSet(SuccessesSeeing(e)) /\ Cardinality(SuccessesSeeing(e)) \in Nat
              /\ Len(ends) + 1 \notin SuccessesSeeing(e)
        BY <4>8, EndsFinite, EndsBounded
      <4>10. CASE w.job = "end" /\ w.status = "SUCCEEDED" /\ SawIt(w.saw, e)
        <5>1. e \in DOMAIN Saves(w)
          BY <2>1, <4>6, <4>10, SavesType DEF Unresolved, EndFine, RowFine
        <5>2. events[e] \in Event
          BY <4>2, <4>4, <5>1
        <5>3. events'[e].successes = events[e].successes + 1
          BY <4>4, <4>10, <5>1, <5>2, UpdatedType
        <5>4. events'[e].successes < RequiredSuccesses
          <6>1. events'[e] = UpdatedAfter(events[e], "SUCCEEDED") /\ ~events'[e].resolved
            BY <4>3, <4>4, <4>10, <5>1 DEF Open
          <6> QED
            BY <2>6, <5>2, <6>1, OpenAfterSuccess
        <5>5. SuccessesSeeing(e)' \subseteq SuccessesSeeing(e) \cup {Len(ends) + 1}
          BY <1>3, <4>1, <4>10, SeeingStays
        <5>6. IsFiniteSet(SuccessesSeeing(e) \cup {Len(ends) + 1})
                /\ Cardinality(SuccessesSeeing(e) \cup {Len(ends) + 1}) =
                     Cardinality(SuccessesSeeing(e)) + 1
          BY <4>9, FS_AddElement
        <5>7. Cardinality(SuccessesSeeing(e)') <= Cardinality(SuccessesSeeing(e)) + 1
                /\ Cardinality(SuccessesSeeing(e)') \in Nat
          BY <5>5, <5>6, FS_Subset, FS_CardinalityType
        <5>8. events[e].successes \in Nat /\ Cardinality(SuccessesSeeing(e)) <= events[e].successes
          BY <4>6, <5>2 DEF Unresolved, Event
        <5>9. Cardinality(SuccessesSeeing(e)') <= events'[e].successes
          BY <4>9, <5>3, <5>7, <5>8
        <5> QED
          BY <4>7, <5>4, <5>9 DEF Unresolved
      <4>11. CASE ~(w.job = "end" /\ w.status = "SUCCEEDED" /\ SawIt(w.saw, e))
        <5>1. SuccessesSeeing(e)' \subseteq SuccessesSeeing(e)
          BY <1>3, <4>1, <4>11, SeeingStays
        <5>2. Cardinality(SuccessesSeeing(e)') <= Cardinality(SuccessesSeeing(e))
                /\ Cardinality(SuccessesSeeing(e)') \in Nat
          BY <4>9, <5>1, FS_Subset, FS_CardinalityType
        <5>3. CASE e \in DOMAIN Saves(w) /\ w.status = "SUCCEEDED"
          <6>1. events[e] \in Event
            BY <4>2, <4>4, <5>3
          <6>2. events'[e].successes = events[e].successes + 1 /\ events[e].successes \in Nat
            BY <4>4, <5>3, <6>1, UpdatedType DEF Event
          <6>3. events'[e] = UpdatedAfter(events[e], "SUCCEEDED") /\ ~events'[e].resolved
            BY <4>3, <4>4, <5>3 DEF Open
          <6>4. events'[e].successes < RequiredSuccesses
            BY <2>6, <6>1, <6>3, OpenAfterSuccess
          <6>5. Cardinality(SuccessesSeeing(e)') <= events'[e].successes
            BY <4>6, <4>9, <5>2, <6>2 DEF Unresolved
          <6> QED
            BY <4>7, <6>4, <6>5 DEF Unresolved
        <5>4. CASE e \in DOMAIN Saves(w) /\ w.status # "SUCCEEDED"
          <6>1. events[e] \in Event
            BY <4>2, <4>4, <5>4
          <6>2. events'[e].successes = events[e].successes /\ events[e].successes \in Nat
            <7>1. events[e].successes \in Nat
              BY <6>1 DEF Event
            <7> QED
              BY <4>4, <5>4, <6>1, <7>1, UpdatedType
          <6> QED
            BY <4>6, <4>7, <4>9, <5>2, <6>2 DEF Unresolved
        <5>5. CASE e \notin DOMAIN Saves(w)
          <6>1. events'[e] = events[e] /\ events[e] \in Event
            BY <1>3, <2>6, <3>4, <4>1, <5>5 DEF Commits, Inv, TypeOK
          <6>2. events[e].successes \in Nat
            BY <6>1 DEF Event
          <6> QED
            BY <4>6, <4>7, <4>9, <5>2, <6>1, <6>2 DEF Unresolved
        <5> QED
          BY <5>3, <5>4, <5>5
      <4> QED
        BY <4>10, <4>11
    <3> QED
      BY <3>3, <3>4
  <2> QED
    BY <2>5, <2>6
<1>4. ASSUME NEW p \in Processes, Crash(p)
      PROVE  ClearInv'
  <2>1. \A q \in Processes : Busy(q)' => Busy(q) /\ work'[q] = work[q]
    BY <1>4 DEF Crash, Busy, Inv, TypeOK
  <2>2. UNCHANGED <<events, left, ends, enabled, edits>> /\ contended \subseteq contended'
    BY <1>4 DEF Crash
  <2>3. \A e \in Existing : Unresolved(e) => Unresolved(e)'
    BY <2>1, <2>2, UnresolvedStays
  <2>4. \A e \in Existing : Waits(e)' => Waits(e)
    BY <2>2 DEF Waits, Existing
  <2> QED
    BY <2>1, <2>2, <2>3, <2>4 DEF ClearInv, Unedited, Existing
<1>5. ASSUME Toggle
      PROVE  ClearInv'
  BY <1>5 DEF Toggle, ClearInv
<1>6. ASSUME UNCHANGED vars
      PROVE  ClearInv'
  <2>1. \A e \in Existing : Unresolved(e) => Unresolved(e)'
    BY <1>6, UnresolvedStays DEF vars, Busy
  <2> QED
    BY <1>6, <2>1 DEF vars, ClearInv, Unedited, Existing, Waits, Busy
<1>7. ASSUME Tick, NEW e \in Existing, Waits(e)'
      PROVE  Waits(e)
  <2>1. /\ events' = events
        /\ left'[e] = IF left[e] \in {None, 0} THEN left[e] ELSE left[e] - 1
    BY <1>7 DEF Tick
  <2>2. left[e] \in Nat \cup {None}
    BY DEF Inv, TypeOK
  <2> QED
    BY <1>7, <2>1, <2>2 DEF Waits, Existing
<1>8. CASE \E p \in Processes, c \in Counted, failing \in SUBSET Execution :
             SendsWith(p, c, failing) /\ SameReading
  BY <1>2, <1>8 DEF SendsWith, Waits, Existing
<1>9. CASE Tick /\ SameReading
  BY <1>2, <1>7, <1>9 DEF Tick
<1> QED
  BY <1>1, <1>3, <1>4, <1>5, <1>6, <1>8, <1>9 DEF Step

\* A postponed event is resolved when enough executions of the Task have
\* succeeded, and only then (ExecutionStatusChangeEvent.update_after_postponed).
THEOREM RecoveryResolves ==
  ASSUME ClearedByCount
  PROVE  Spec => []ResolvedWhenRecovered
<1> DEFINE All == Inv /\ ReadersAlone /\ RecoverInv /\ ClearInv
<1>1. All /\ [Next]_vars => All'
  BY InvStep, ReadersStep, RecoverStep, ClearStep
<1>2. Init => All
  BY InvInit, ReadersInit, RecoverInit, ClearInit
<1>3. All => ResolvedWhenRecovered
  <2> SUFFICES ASSUME All PROVE ResolvedWhenRecovered
    OBVIOUS
  <2>1. ResolvedMeansRecovered
    BY RecoveredNow
  <2>2. SuccessClears
    <3> SUFFICES ASSUME edits = 0, NEW e \in Existing \ contended, Waits(e),
                        RequiredSuccesses # None
                 PROVE  Cardinality(SuccessesSeeing(e)) < RequiredSuccesses
      BY DEF SuccessClears, Waits
    <3>1. Unresolved(e)
      BY DEF ClearInv
    <3>2. events[e].successes \in Nat
      BY DEF Inv, TypeOK, Event
    <3>3. Cardinality(SuccessesSeeing(e)) \in Nat
      BY EndsFinite DEF SuccessesSeeing, EndsAfter
    <3> QED
      BY <3>1, <3>2, <3>3, SettingsAssumption DEF Unresolved
  <2> QED
    BY <2>1, <2>2 DEF ResolvedWhenRecovered
<1> QED
  BY <1>1, <1>2, <1>3, PTL DEF Spec

-----------------------------------------------------------------------------
(* The limit holds.                                                        *)

\* The rank of each notification that passes is a different one that is left.
LEMMA PassingFits ==
  ASSUME NEW w \in Work, w.job # "end" => w.event \in DOMAIN w.read,
         NEW count \in Nat, count <= MaxRequests, NEW failing
  PROVE  count + Cardinality(Passing(w, count, failing)) <= MaxRequests
<1> DEFINE A == { x \in Sends(w) \ failing : Limited(w, x) }
           before(e) == { x \in Sends(w) \ failing : Limited(w, x) /\ x < e }
           B == Passing(w, count, failing)
           T == 0 .. MaxRequests - count - 1
           rank == [e \in B |-> Cardinality(before(e))]
<1>1. Sends(w) \subseteq Execution /\ Execution \subseteq Int /\ IsFiniteSet(Execution)
  <2>1. Sends(w) \subseteq Execution
    BY SendsType
  <2>2. 1 \in Int /\ MaxEnds \in Int
    BY SettingsAssumption
  <2>3. IsFiniteSet(Execution) /\ Execution \subseteq Int
    BY <2>2, FS_Interval DEF Execution
  <2> QED
    BY <2>1, <2>3
<1>2. \A e : IsFiniteSet(before(e)) /\ Cardinality(before(e)) \in Nat
  BY <1>1, FS_Subset, FS_CardinalityType
<1>3. B \subseteq A
  BY DEF Passing, Within
<1>4. MaxRequests \in Nat
  BY SettingsAssumption
<1>5. \A e \in B : Cardinality(before(e)) \in T
  <2> SUFFICES ASSUME NEW e \in B PROVE Cardinality(before(e)) \in T
    OBVIOUS
  <2>1. WithinLimit(count, Cardinality(before(e)))
    BY DEF Passing, Within
  <2> HIDE DEF before
  <2> QED
    BY <1>2, <1>4, <2>1 DEF WithinLimit
<1>6. \A d, e \in B : d < e => Cardinality(before(d)) < Cardinality(before(e))
  <2> SUFFICES ASSUME NEW d \in B, NEW e \in B, d < e
               PROVE  Cardinality(before(d)) < Cardinality(before(e))
    OBVIOUS
  <2>1. d \in Int /\ e \in Int /\ d \in A
    BY <1>1, <1>3
  <2>2. d \notin before(d) /\ before(d) \cup {d} \subseteq before(e)
    <3>1. A \subseteq Int
      BY <1>1
    <3>2. \A x : x \in before(d) <=> x \in A /\ x < d
      OBVIOUS
    <3>3. \A x : x \in before(e) <=> x \in A /\ x < e
      OBVIOUS
    <3> HIDE DEF A, before
    <3>4. \A x \in Int : x < d => x < e
      BY <2>1
    <3>5. ~(d < d)
      BY <2>1
    <3> QED
      BY <2>1, <3>1, <3>2, <3>3, <3>4, <3>5
  <2> HIDE DEF before
  <2>3. Cardinality(before(d) \cup {d}) = Cardinality(before(d)) + 1
    BY <1>2, <2>2, FS_AddElement
  <2>4. Cardinality(before(d) \cup {d}) <= Cardinality(before(e))
    BY <1>2, <2>2, FS_Subset
  <2> QED
    BY <1>2, <2>3, <2>4
<1>7. rank \in Injection(B, T)
  <2>1. rank \in [B -> T]
    BY <1>5
  <2>2. \A d, e \in B : Cardinality(before(d)) = Cardinality(before(e)) => d = e
    <3>1. \A d, e \in B : d \in Int /\ e \in Int
      BY <1>1, <1>3
    <3> HIDE DEF before
    <3> QED
      BY <1>2, <1>6, <3>1
  <2> HIDE DEF before, B, T
  <2> QED
    BY <2>1, <2>2 DEF Injection, IsInjective
<1>8. IsFiniteSet(T) /\ Cardinality(T) = MaxRequests - count
  <2>1. MaxRequests - count - 1 \in Int /\ 0 \in Int
    BY <1>4
  <2>2. IsFiniteSet(T) /\ Cardinality(T) =
          IF 0 > MaxRequests - count - 1 THEN 0 ELSE MaxRequests - count - 1 - 0 + 1
    BY <2>1, FS_Interval
  <2> QED
    BY <1>4, <2>2
<1>9. Cardinality(B) <= Cardinality(T) /\ Cardinality(B) \in Nat
  BY <1>7, <1>8, FS_Injection, PassingType
<1> QED
  BY <1>4, <1>8, <1>9

\* Processes that have sent, and not committed.
Flying == { p \in Processes : Busy(p) /\ work[p].counted # None }

\* What was sent since the period began is at most n; nothing, if it is over.
Fits(age, n) == IF age = Expired THEN sent[0] = 0 ELSE sent[age] <= n

\* What a process is to save counts what it has sent.
CountsAll(c) ==
  IF c.new = 0 THEN Fits(counter.age, counter.count)
  ELSE /\ c.count + c.new <= MaxRequests
       /\ c.reset => Fits(c.age, c.count + c.new)
       /\ ~c.reset => c.count = counter.count /\ Fits(counter.age, c.count + c.new)

LimitInv ==
  ~overlapped =>
    /\ counter.count <= MaxRequests
    /\ \A p, q \in Flying : p = q
    /\ Flying = {} => Fits(counter.age, counter.count)
    /\ \A p \in Flying : CountsAll(work[p].counted)

LEMMA LimitInit == Init => LimitInv
<1> SUFFICES ASSUME Init PROVE LimitInv
  OBVIOUS
<1>1. Flying = {}
  BY DEF Init, Flying, Busy
<1>2. counter.count = 0 /\ counter.age = Expired /\ sent[0] = 0
  BY SettingsAssumption DEF Init
<1> QED
  BY <1>1, <1>2, SettingsAssumption DEF LimitInv, Fits

\* What the passage of time makes of an age and of what was sent since.
LEMMA FitsStays ==
  ASSUME Inv, Tick, NEW age \in 0 .. Expired, NEW n \in Nat, Fits(age, n)
  PROVE  Fits(Older(age), n)'
<1>1. sent' = [a \in 0 .. Period |-> IF a = 0 THEN 0 ELSE sent[a - 1]] /\ Period \in Nat
  BY SettingsAssumption DEF Tick
<1>2. sent'[0] = 0
  BY <1>1
<1>3. CASE Older(age) = Expired
  BY <1>2, <1>3 DEF Fits
<1>4. CASE Older(age) # Expired
  <2>1. age # Expired /\ Older(age) = age + 1 /\ age + 1 \in 0 .. Period
    BY <1>1, <1>4 DEF Older, Expired
  <2>2. sent'[age + 1] = sent[age]
    BY <1>1, <2>1
  <2> QED
    BY <1>4, <2>1, <2>2 DEF Fits
<1> QED
  BY <1>3, <1>4

LEMMA LimitStep ==
  ASSUME Inv, Inv', Step, LimitInv
  PROVE  LimitInv'
<1>1. ASSUME UNCHANGED <<counter, sent, overlapped>>, Flying' = Flying,
             \A q \in Flying : work'[q].counted = work[q].counted
      PROVE  LimitInv'
  BY <1>1 DEF LimitInv, Fits, CountsAll
<1>2. ASSUME NEW p \in Processes, NEW w \in Work, Starts(p, w)
      PROVE  LimitInv'
  <2>1. work'[p] = w /\ (\A q \in Processes \ {p} : work'[q] = work[q])
          /\ ~Busy(p) /\ w.counted = None
    BY <1>2 DEF Starts, Begin, Inv, TypeOK
  <2>2. Flying' = Flying /\ \A q \in Flying : work'[q].counted = work[q].counted
    BY <2>1 DEF Flying, Busy
  <2> QED
    BY <1>1, <1>2, <2>2 DEF Starts
<1>3. ASSUME NEW p \in Processes, NEW c \in Counted, NEW failing, SendsWith(p, c, failing)
      PROVE  LimitInv'
  <2> SUFFICES ASSUME ~overlapped'
               PROVE  /\ counter'.count <= MaxRequests
                      /\ \A a, b \in Flying' : a = b
                      /\ Flying' = {} => Fits(counter.age, counter.count)'
                      /\ \A a \in Flying' : CountsAll(work[a].counted)'
    BY DEF LimitInv
  <2>1. /\ ~overlapped /\ Busy(p) /\ work[p] \in Work
        /\ (work[p].job # "end" => work[p].event \in DOMAIN work[p].read)
        /\ \A q \in Processes \ {p} : ~(Busy(q) /\ work[q].counted # None)
    BY <1>3, BusyType DEF SendsWith, Inv, WorkInv, RowFine
  <2>2. Flying = {}
    BY <1>3, <2>1 DEF SendsWith, Flying
  <2>3. work'[p].counted = c /\ (\A q \in Processes \ {p} : work'[q] = work[q])
          /\ UNCHANGED counter
    BY <1>3, <2>1, CountedType DEF SendsWith, Inv, TypeOK
  <2>4. Flying' \subseteq {p}
    BY <2>1, <2>3 DEF Flying, Busy
  <2>5. p \in Flying'
    <3>1. work'[p] # None
      BY <1>3, <2>1, CountedType, NoneAssumption DEF SendsWith, Inv, TypeOK
    <3> QED
      BY <2>3, <3>1, NoneAssumption DEF Flying, Busy
  <2>6. counter.count <= MaxRequests /\ Fits(counter.age, counter.count)
    BY <2>1, <2>2 DEF LimitInv
  <2>7. /\ counter.count \in Nat /\ counter.age \in 0 .. Expired
        /\ c.count \in Nat /\ c.new \in Nat /\ MaxRequests \in Nat /\ Period \in Nat
        /\ c.age = 0 /\ c.reset = PeriodIsOver
        /\ c.count = (IF PeriodIsOver THEN 0 ELSE counter.count)
        /\ c.new = Cardinality(Passing(work[p], c.count, failing))
        /\ sent' = [a \in 0 .. Period |-> sent[a] + c.new]
        /\ sent \in [0 .. Period -> Nat]
    BY <1>3, SettingsAssumption DEF Inv, TypeOK, Counted, SendsWith
  <2>8. c.count <= MaxRequests
    BY <2>6, <2>7
  <2>9. c.count + c.new <= MaxRequests
    BY <2>1, <2>7, <2>8, PassingFits
  <2>10. CountsAll(c)'
    <3>1. CASE c.new = 0
      <4>1. sent' = sent
        BY <2>7, <3>1
      <4> QED
        BY <2>3, <2>6, <3>1, <4>1 DEF CountsAll, Fits
    <3>2. CASE c.new # 0 /\ PeriodIsOver
      <4>1. sent[0] = 0 /\ c.count = 0 /\ sent'[0] = c.new /\ Expired # 0
        BY <2>6, <2>7, <3>2 DEF Fits, PeriodIsOver, Expired
      <4> QED
        BY <2>7, <2>9, <3>2, <4>1 DEF CountsAll, Fits
    <3>3. CASE c.new # 0 /\ ~PeriodIsOver
      <4>1. counter.age # Expired /\ counter.age \in 0 .. Period
        BY <2>7, <3>3 DEF PeriodIsOver, Expired
      <4>2. sent'[counter.age] = sent[counter.age] + c.new /\ sent[counter.age] <= counter.count
        BY <2>6, <2>7, <4>1 DEF Fits
      <4>3. sent[counter.age] \in Nat /\ c.count = counter.count
        BY <2>7, <3>3, <4>1
      <4>4. sent'[counter.age] <= c.count + c.new
        BY <2>7, <4>2, <4>3
      <4> QED
        BY <2>3, <2>7, <2>9, <3>3, <4>1, <4>3, <4>4 DEF CountsAll, Fits
    <3> QED
      BY <3>1, <3>2, <3>3
  <2>11. \A a \in Flying' : CountsAll(work[a].counted)'
    BY <2>3, <2>4, <2>10 DEF CountsAll
  <2> QED
    BY <2>3, <2>4, <2>5, <2>6, <2>11
<1>4. ASSUME NEW p \in Processes, NEW next, Commits(p, next)
      PROVE  LimitInv'
  <2> DEFINE c == work[p].counted
  <2>1. work'[p] = next /\ (\A q \in Processes \ {p} : work'[q] = work[q])
          /\ counter' = CounterAfter(c) /\ UNCHANGED <<sent, overlapped>>
          /\ (next # None => next.counted = None)
    BY <1>4 DEF Commits, GoesOn, Inv, TypeOK
  <2>2. Busy(p) /\ work[p] \in Work /\ c \in Counted \cup {None}
    BY <1>4, BusyType, WorkFields DEF Commits, Inv
  <2>3. Flying' = Flying \ {p} /\ \A q \in Flying' : work'[q].counted = work[q].counted
    BY <2>1 DEF Flying, Busy
  <2>4. CASE c = None
    <3>1. p \notin Flying /\ counter' = counter
      BY <2>1, <2>4 DEF Flying, CounterAfter
    <3> QED
      BY <1>1, <2>1, <2>3, <3>1
  <2>5. CASE c # None
    <3> SUFFICES ASSUME ~overlapped
                 PROVE  /\ counter'.count <= MaxRequests /\ Flying' = {}
                        /\ Fits(counter.age, counter.count)'
      BY <2>1 DEF LimitInv
    <3>1. p \in Flying
      BY <2>2, <2>5 DEF Flying
    <3>2. Flying' = {}
      BY <2>3, <3>1 DEF LimitInv
    <3>3. counter.count <= MaxRequests /\ CountsAll(c)
      BY <3>1 DEF LimitInv
    <3>4. CASE c.new = 0
      BY <2>1, <3>2, <3>3, <3>4 DEF CounterAfter, CountsAll, Fits
    <3>5. CASE c.new # 0
      <4>1. counter' = [ count |-> c.count + c.new,
                         age   |-> IF c.reset THEN c.age ELSE counter.age ]
        BY <2>1, <2>5, <3>5 DEF CounterAfter
      <4>2. counter'.count = c.count + c.new
              /\ counter'.age = IF c.reset THEN c.age ELSE counter.age
        BY <4>1
      <4> QED
        BY <2>1, <3>2, <3>3, <3>5, <4>2 DEF CountsAll, Fits
    <3> QED
      BY <3>4, <3>5
  <2> QED
    BY <2>4, <2>5
<1>5. ASSUME NEW p \in Processes, Crash(p)
      PROVE  LimitInv'
  <2>1. Busy(p) /\ work'[p] = None /\ (\A q \in Processes \ {p} : work'[q] = work[q])
          /\ UNCHANGED <<counter, sent>>
          /\ overlapped' = (overlapped \/ work[p].counted # None)
    BY <1>5 DEF Crash, Inv, TypeOK
  <2>2. CASE overlapped'
    BY <2>2 DEF LimitInv
  <2>3. CASE ~overlapped'
    <3>1. work[p].counted = None /\ ~overlapped
      BY <2>1, <2>3
    <3>2. Flying' = Flying /\ \A q \in Flying : work'[q].counted = work[q].counted
      BY <2>1, <3>1 DEF Flying, Busy
    <3> QED
      BY <1>1, <2>1, <2>3, <3>1, <3>2 DEF LimitInv, Fits, CountsAll
  <2> QED
    BY <2>2, <2>3
<1>6. ASSUME Tick, SameReading
      PROVE  LimitInv'
  <2>1. ASSUME NEW q \in Flying
        PROVE  /\ q \in Flying' /\ work[q].counted \in Counted
               /\ work'[q].counted = [work[q].counted EXCEPT !.age = Older(work[q].counted.age)]
    <3>1. Busy(q) /\ work[q].counted # None /\ work[q] \in Work /\ work'[q] = Aged(work[q])
      BY <1>6, TickStep, BusyType DEF Flying, Inv
    <3>2. Busy(q)'
      BY <1>6, <3>1 DEF SameReading, Flying
    <3> QED
      BY <3>1, <3>2, AgedType, WorkFields, NoneAssumption DEF Flying
  <2>2. ASSUME NEW q \in Flying' PROVE q \in Flying
    <3>1. q \in Processes /\ Busy(q) /\ work'[q].counted # None
      BY <1>6 DEF SameReading, Flying
    <3> QED
      BY <1>6, <3>1, TickStep DEF Flying
  <2>3. Flying' = Flying
    BY <2>1, <2>2
  <2>4. counter \in [count : Nat, age : 0 .. Expired]
          /\ counter' = [counter EXCEPT !.age = Older(counter.age)]
    BY <1>6 DEF Tick, Inv, TypeOK
  <2>5. /\ counter.count \in Nat /\ counter.age \in 0 .. Expired
        /\ counter'.count = counter.count /\ counter'.age = Older(counter.age)
    BY <2>4
  <2> SUFFICES ASSUME ~overlapped
               PROVE  /\ counter'.count <= MaxRequests
                      /\ Flying = {} => Fits(counter.age, counter.count)'
                      /\ \A q \in Flying : CountsAll(work[q].counted)'
    BY <1>6, <2>3 DEF LimitInv, Tick
  <2>6. \A n \in Nat : Fits(counter.age, n) => Fits(counter.age, n)'
    <3> SUFFICES ASSUME NEW n \in Nat, Fits(counter.age, n) PROVE Fits(counter.age, n)'
      OBVIOUS
    <3>1. PICK age \in 0 .. Expired : age = counter.age
      BY <2>5
    <3>2. PICK older : older = Older(age)
      OBVIOUS
    <3>3. Fits(older, n)'
      BY <1>6, <3>1, <3>2, FitsStays DEF Fits
    <3> QED
      BY <2>5, <3>1, <3>2, <3>3 DEF Fits
  <2>7. ASSUME NEW q \in Flying
        PROVE  CountsAll(work[q].counted)'
    <3>1. PICK c \in Counted : c = work[q].counted
      BY <2>1
    <3>2. PICK d : d = work'[q].counted
      OBVIOUS
    <3>3. d.count = c.count /\ d.new = c.new /\ d.reset = c.reset /\ d.age = Older(c.age)
            /\ c.count + c.new \in Nat /\ c.age \in 0 .. Expired
      <4>1. d = [c EXCEPT !.age = Older(c.age)]
        BY <2>1, <3>1, <3>2
      <4>2. d.count = c.count /\ d.new = c.new /\ d.reset = c.reset /\ d.age = Older(c.age)
        BY <4>1 DEF Counted
      <4>3. c.count + c.new \in Nat /\ c.age \in 0 .. Expired
        BY DEF Counted
      <4> QED
        BY <4>2, <4>3
    <3>4. CountsAll(c)
      BY <3>1 DEF LimitInv
    <3>5. Fits(c.age, c.count + c.new) => Fits(d.age, c.count + c.new)'
      <4>1. PICK older : older = Older(c.age)
        OBVIOUS
      <4>2. Fits(c.age, c.count + c.new) => Fits(older, c.count + c.new)'
        BY <1>6, <3>3, <4>1, FitsStays DEF Fits
      <4> QED
        BY <3>3, <4>1, <4>2 DEF Fits
    <3>6. CASE c.new = 0
      BY <2>5, <2>6, <3>2, <3>3, <3>4, <3>6 DEF CountsAll, Fits
    <3>7. CASE c.new # 0 /\ c.reset
      BY <2>5, <3>2, <3>3, <3>4, <3>5, <3>7 DEF CountsAll, Fits
    <3>8. CASE c.new # 0 /\ ~c.reset
      BY <2>5, <2>6, <3>2, <3>3, <3>4, <3>8 DEF CountsAll, Fits
    <3> QED
      BY <3>6, <3>7, <3>8
  <2>8. counter'.count <= MaxRequests
    BY <2>5 DEF LimitInv
  <2>9. Flying = {} => Fits(counter.age, counter.count)'
    BY <2>5, <2>6 DEF LimitInv, Fits
  <2> QED
    BY <2>7, <2>8, <2>9
<1>7. ASSUME UNCHANGED <<work, counter, sent, overlapped>>
      PROVE  LimitInv'
  <2>1. Flying' = Flying
    BY <1>7 DEF Flying, Busy
  <2> QED
    BY <1>1, <1>7, <2>1
<1> QED
  BY <1>2, <1>3, <1>4, <1>5, <1>6, <1>7 DEF Step, Toggle, ghosts, vars

\* A process at a time never sends more than the limit in one period
\* (NotificationDeliveryMethod.send_if_not_rate_limited).
THEOREM RateIsLimited == Spec => []LimitHolds
<1>1. (Inv /\ LimitInv) /\ [Next]_vars => (Inv /\ LimitInv)'
  BY InvStep, LimitStep
<1>2. Init => Inv /\ LimitInv
  BY InvInit, LimitInit
<1>3. Inv /\ LimitInv => LimitHolds
  <2> SUFFICES ASSUME Inv, LimitInv, AtRest, ~overlapped, counter.age # Expired
               PROVE  sent[counter.age] <= MaxRequests
    BY DEF LimitHolds
  <2>1. Flying = {}
    BY DEF AtRest, Flying
  <2>2. sent[counter.age] <= counter.count /\ counter.count <= MaxRequests
    BY <2>1 DEF LimitInv, Fits
  <2>3. counter.age \in 0 .. Period /\ counter.count \in Nat /\ MaxRequests \in Nat
    BY SettingsAssumption DEF Inv, TypeOK, Expired
  <2>4. sent[counter.age] \in Nat
    BY <2>3 DEF Inv, TypeOK
  <2> QED
    BY <2>2, <2>3, <2>4
<1> QED
  BY <1>1, <1>2, <1>3, PTL DEF Spec

-----------------------------------------------------------------------------
(* Alerts about one execution of a Workflow (WorkflowAlerts), which may be *)
(* started again.                                                          *)

\* What a process has read of the alerts.
AlertsRead == UNION { [some -> Attempts!Alert] : some \in SUBSET Nat }

\* What a process is about to save.
Hand ==
  [ job : { "end", "restart", "check" }, loaded : Attempts!Ended \cup {"RUNNING"},
    to : Attempts!Ended \cup { "RUNNING", None }, read : AlertsRead ]

AttemptsTyped ==
  /\ status \in Attempts!Ended \cup {"RUNNING"} /\ attempt \in 1 .. MaxAttempts
  /\ alerts \in Seq(Attempts!Alert)
  /\ informed \in [DOMAIN alerts -> Nat]
  /\ watched \in BOOLEAN /\ silent \in BOOLEAN /\ switches \in Nat
  /\ hands \in [Processes -> Hand \cup {None}]

\* What a process has read is as it was; the rest of the row is as it still is, unless
\* another process has written it.
ReadsAreFresh ==
  \A p \in Processes : Attempts!Busy(p) =>
    /\ hands[p] \in Hand
    /\ DOMAIN hands[p].read \subseteq DOMAIN alerts
    /\ hands[p].job = "end" => DOMAIN hands[p].read = {} /\ hands[p].to \in Attempts!Ended
    /\ hands[p].job = "restart" => hands[p].to \in { "RUNNING", "FAILED" }
    /\ \A a \in DOMAIN hands[p].read :
         /\ hands[p].read[a].status = alerts[a].status
         /\ hands[p].read[a].attempt = alerts[a].attempt
         /\ hands[p].read[a].resolving = alerts[a].resolving
         /\ ~hands[p].read[a].resolved
         /\ hands[p].job = "check" => ~hands[p].read[a].triggered
         /\ a \notin mixed => hands[p].read[a] = alerts[a]

\* A restart has read all that it is to resolve.
RestartsReadAll ==
  \A p \in Processes : Attempts!Busy(p) /\ hands[p].job = "restart" =>
    \A a \in DOMAIN alerts \ mixed : a \in DOMAIN hands[p].read \/ alerts[a].resolved

\* No two alerts are about ends of the same kind.
KindsDiffer ==
  \A a, b \in DOMAIN alerts :
    /\ alerts[a].status = alerts[b].status /\ alerts[a].status \in Attempts!Ended
    /\ ~alerts[a].resolving /\ ~alerts[b].resolving
    => a = b

\* What was sent is closed.
SentIsClosed ==
  \A a \in DOMAIN alerts \ mixed :
    \/ informed[a] = 0
    \/ informed[a] = 1 /\ (alerts[a].triggered \/ alerts[a].resolved)

AlertsInv == AttemptsTyped /\ ReadsAreFresh /\ RestartsReadAll /\ KindsDiffer /\ SentIsClosed

WatchedInv == switches = 0 => watched

\* The same count as here.
LEMMA AlertsCardinality == \A S : Attempts!Cardinality(S) = Cardinality(S)
BY DEF Attempts!Cardinality, Cardinality

\* What a process has in hand when it begins.
LEMMA HandType ==
  ASSUME NEW job \in { "end", "restart", "check" },
         NEW loaded \in Attempts!Ended \cup {"RUNNING"},
         NEW to \in Attempts!Ended \cup { "RUNNING", None },
         NEW some \in SUBSET Nat, NEW f \in [some -> Attempts!Alert]
  PROVE  [ job |-> job, loaded |-> loaded, to |-> to, read |-> f ] \in Hand
<1>1. f \in AlertsRead
  BY DEF AlertsRead
<1> QED
  BY <1>1 DEF Hand

\* And its fields.
LEMMA HandFields ==
  ASSUME NEW w \in Hand
  PROVE  /\ w.job \in { "end", "restart", "check" }
         /\ w.loaded \in Attempts!Ended \cup {"RUNNING"}
         /\ w.to \in Attempts!Ended \cup { "RUNNING", None }
         /\ DOMAIN w.read \in SUBSET Nat
         /\ w.read \in [DOMAIN w.read -> Attempts!Alert]
<1>1. w.read \in AlertsRead
  BY DEF Hand
<1>2. DOMAIN w.read \in SUBSET Nat /\ w.read \in [DOMAIN w.read -> Attempts!Alert]
  BY <1>1 DEF AlertsRead
<1> QED
  BY <1>2 DEF Hand

\* Rows that are written, and rows that are added.
LEMMA Written ==
  ASSUME NEW S, NEW s \in Seq(S), NEW f \in [DOMAIN s -> S], NEW t \in Seq(S)
  PROVE  /\ f \o t \in Seq(S)
         /\ DOMAIN (f \o t) = 1 .. Len(s) + Len(t)
         /\ DOMAIN s = 1 .. Len(s) /\ DOMAIN t = 1 .. Len(t)
         /\ Len(s) \in Nat /\ Len(t) \in Nat
         /\ \A a \in DOMAIN s : (f \o t)[a] = f[a]
         /\ \A i \in DOMAIN t : (f \o t)[Len(s) + i] = t[i]
<1>1. Len(s) \in Nat /\ DOMAIN s = 1 .. Len(s)
  OBVIOUS
<1>2. f \in Seq(S) /\ Len(f) = Len(s)
  BY <1>1
<1> QED
  BY <1>1, <1>2

LEMMA AlertsInit == MaxAttempts \in Nat \ {0} /\ Attempts!Init
                    => AlertsInv /\ Attempts!RestartResolves /\ WatchedInv
<1> SUFFICES ASSUME MaxAttempts \in Nat \ {0}, Attempts!Init
             PROVE  AlertsInv /\ Attempts!RestartResolves /\ WatchedInv
  OBVIOUS
<1>1. /\ status = "RUNNING" /\ attempt = 1 /\ alerts = <<>> /\ informed = <<>>
      /\ watched = TRUE /\ switches = 0 /\ hands = [p \in Processes |-> None] /\ silent = FALSE
  BY DEF Attempts!Init
<1>2. AttemptsTyped
  <2>1. informed \in [DOMAIN alerts -> Nat] /\ alerts \in Seq(Attempts!Alert)
    BY <1>1
  <2>2. status \in Attempts!Ended \cup {"RUNNING"} /\ attempt \in 1 .. MaxAttempts
    BY <1>1
  <2>3. hands \in [Processes -> Hand \cup {None}]
    BY <1>1
  <2>4. watched \in BOOLEAN /\ silent \in BOOLEAN /\ switches \in Nat
    BY <1>1
  <2> QED
    BY <2>1, <2>2, <2>3, <2>4 DEF AttemptsTyped
<1>3. \A p \in Processes : ~Attempts!Busy(p)
  BY <1>1 DEF Attempts!Busy
<1>4. DOMAIN alerts = {}
  BY <1>1
<1> QED
  BY <1>1, <1>2, <1>3, <1>4
  DEF AlertsInv, ReadsAreFresh, RestartsReadAll, KindsDiffer, SentIsClosed, WatchedInv,
      Attempts!RestartResolves

-----------------------------------------------------------------------------
(* Saving.                                                                 *)

\* What a process saves of the rows that it has read: of one that nobody else wrote
\* meanwhile, it is the first to send or to resolve it.
SavesWell(saved, posted) ==
  /\ DOMAIN saved \subseteq DOMAIN alerts
  /\ saved \in [DOMAIN saved -> Attempts!Alert]
  /\ \A a \in DOMAIN saved :
       /\ saved[a].status = alerts[a].status
       /\ saved[a].attempt = alerts[a].attempt
       /\ saved[a].resolving = alerts[a].resolving
  /\ \A a \in DOMAIN saved \ mixed :
       /\ ~alerts[a].resolved
       /\ a \in posted => ~alerts[a].triggered /\ saved[a].triggered
       /\ alerts[a].triggered => saved[a].triggered \/ saved[a].resolved
  /\ \A a \in DOMAIN alerts \ DOMAIN saved : a \notin posted

\* What it adds is one alert about an end that none was about, or resolutions.
AddsWell(new, posted) ==
  /\ new \in Seq(Attempts!Alert)
  /\ \A i \in DOMAIN new : Len(alerts) + i \in posted => new[i].triggered \/ new[i].resolved
  /\ \A i \in DOMAIN new : ~new[i].resolving => ~Attempts!IsTold(new[i].status)
  /\ \A i, j \in DOMAIN new : ~new[i].resolving /\ ~new[j].resolving => i = j

\* What is in the rows then.
LEMMA SaveRows ==
  ASSUME AlertsInv, NEW p \in Processes, NEW saved, NEW new, NEW posted,
         SavesWell(saved, posted), AddsWell(new, posted), Attempts!Save(p, saved, new, posted)
  PROVE  /\ alerts' \in Seq(Attempts!Alert)
         /\ informed' \in [DOMAIN alerts' -> Nat]
         /\ DOMAIN alerts' = 1 .. Len(alerts) + Len(new)
         /\ DOMAIN alerts = 1 .. Len(alerts) /\ DOMAIN new = 1 .. Len(new)
         /\ Len(alerts) \in Nat /\ Len(new) \in Nat
         /\ \A a \in DOMAIN alerts :
              /\ alerts'[a] = IF a \in DOMAIN saved THEN saved[a] ELSE alerts[a]
              /\ informed'[a] = informed[a] + IF a \in posted THEN 1 ELSE 0
         /\ \A i \in DOMAIN new :
              /\ alerts'[Len(alerts) + i] = new[i]
              /\ informed'[Len(alerts) + i] = IF Len(alerts) + i \in posted THEN 1 ELSE 0
         /\ mixed \subseteq mixed'
         /\ \A q \in Processes : q # p /\ Attempts!Busy(q) =>
              /\ hands'[q] = hands[q]
              /\ \A a \in DOMAIN saved : a \in DOMAIN hands[q].read => a \in mixed'
              /\ hands[q].job = "restart" =>
                   \A a \in DOMAIN alerts' \ DOMAIN alerts : a \in mixed'
         /\ \A q \in Processes : Attempts!Busy(q)' => q # p /\ Attempts!Busy(q)
         /\ hands' \in [Processes -> Hand \cup {None}]
<1>0. PICK f : f = [a \in DOMAIN alerts |-> IF a \in DOMAIN saved THEN saved[a] ELSE alerts[a]]
  OBVIOUS
<1>1. alerts \in Seq(Attempts!Alert) /\ informed \in [DOMAIN alerts -> Nat]
  BY DEF AlertsInv, AttemptsTyped
<1>2. f \in [DOMAIN alerts -> Attempts!Alert]
  <2>1. \A a \in DOMAIN alerts : alerts[a] \in Attempts!Alert
    BY <1>1
  <2> QED
    BY <1>0, <2>1 DEF SavesWell
<1>3. new \in Seq(Attempts!Alert)
  BY DEF AddsWell
<1>4. alerts' = f \o new
  BY <1>0 DEF Attempts!Save
<1>5. /\ f \o new \in Seq(Attempts!Alert)
      /\ DOMAIN (f \o new) = 1 .. Len(alerts) + Len(new)
      /\ DOMAIN alerts = 1 .. Len(alerts) /\ DOMAIN new = 1 .. Len(new)
      /\ Len(alerts) \in Nat /\ Len(new) \in Nat
      /\ \A a \in DOMAIN alerts : (f \o new)[a] = f[a]
      /\ \A i \in DOMAIN new : (f \o new)[Len(alerts) + i] = new[i]
  <2>1. ASSUME NEW S, alerts \in Seq(S), f \in [DOMAIN alerts -> S], new \in Seq(S)
        PROVE  /\ f \o new \in Seq(S)
               /\ DOMAIN (f \o new) = 1 .. Len(alerts) + Len(new)
               /\ DOMAIN alerts = 1 .. Len(alerts) /\ DOMAIN new = 1 .. Len(new)
               /\ Len(alerts) \in Nat /\ Len(new) \in Nat
               /\ \A a \in DOMAIN alerts : (f \o new)[a] = f[a]
               /\ \A i \in DOMAIN new : (f \o new)[Len(alerts) + i] = new[i]
    BY <2>1, Written
  <2> QED
    BY <1>1, <1>2, <1>3, <2>1
<1>6. \A a \in DOMAIN alerts :
        alerts'[a] = IF a \in DOMAIN saved THEN saved[a] ELSE alerts[a]
  BY <1>0, <1>4, <1>5
<1>7. \A a \in DOMAIN alerts : a \in DOMAIN alerts'
  BY <1>4, <1>5
<1>8. \A i \in DOMAIN new :
        Len(alerts) + i \in DOMAIN alerts' /\ Len(alerts) + i \notin DOMAIN alerts
  BY <1>4, <1>5
<1>9. informed' = [a \in DOMAIN alerts' |->
        (IF a \in DOMAIN informed THEN informed[a] ELSE 0) + IF a \in posted THEN 1 ELSE 0]
  BY DEF Attempts!Save
<1>10. DOMAIN informed = DOMAIN alerts
  BY <1>1
<1>11. \A a \in DOMAIN alerts : informed'[a] = informed[a] + IF a \in posted THEN 1 ELSE 0
  BY <1>7, <1>9, <1>10
<1>12. \A i \in DOMAIN new :
         informed'[Len(alerts) + i] = IF Len(alerts) + i \in posted THEN 1 ELSE 0
  BY <1>8, <1>9, <1>10
<1>13. informed' \in [DOMAIN alerts' -> Nat]
  BY <1>1, <1>9, <1>10
<1>14. /\ mixed' = mixed
             \cup { a \in DOMAIN saved : \E q \in Processes \ {p} :
                      Attempts!Busy(q) /\ a \in DOMAIN hands[q].read }
             \cup { a \in DOMAIN alerts' \ DOMAIN alerts :
                      \E q \in Processes \ {p} : Attempts!Busy(q) /\ hands[q].job = "restart" }
       /\ hands' = [hands EXCEPT ![p] = None]
  BY DEF Attempts!Save
<1>15. hands \in [Processes -> Hand \cup {None}]
  BY DEF AlertsInv, AttemptsTyped
<1>16. hands' \in [Processes -> Hand \cup {None}]
  BY <1>14, <1>15
<1>17. \A q \in Processes : Attempts!Busy(q)' => q # p /\ Attempts!Busy(q)
  BY <1>14, <1>15 DEF Attempts!Busy
<1>18. \A q \in Processes : q # p => hands'[q] = hands[q]
  BY <1>14, <1>15
<1> QED
  BY <1>4, <1>5, <1>6, <1>11, <1>12, <1>13, <1>14, <1>16, <1>17, <1>18

\* What has been known of alerts stays known.
LEMMA SaveKeeps ==
  ASSUME AlertsInv, NEW p \in Processes, NEW saved, NEW new, NEW posted,
         SavesWell(saved, posted), AddsWell(new, posted), Attempts!Save(p, saved, new, posted)
  PROVE  ReadsAreFresh' /\ RestartsReadAll' /\ KindsDiffer' /\ SentIsClosed'
<1>1. /\ DOMAIN alerts' = 1 .. Len(alerts) + Len(new)
      /\ DOMAIN alerts = 1 .. Len(alerts) /\ DOMAIN new = 1 .. Len(new)
      /\ Len(alerts) \in Nat /\ Len(new) \in Nat
  BY SaveRows
<1>2. \A a \in DOMAIN alerts :
        /\ alerts'[a] = IF a \in DOMAIN saved THEN saved[a] ELSE alerts[a]
        /\ informed'[a] = informed[a] + IF a \in posted THEN 1 ELSE 0
  BY SaveRows
<1>3. \A i \in DOMAIN new :
        /\ alerts'[Len(alerts) + i] = new[i]
        /\ informed'[Len(alerts) + i] = IF Len(alerts) + i \in posted THEN 1 ELSE 0
  BY SaveRows
<1>4. mixed \subseteq mixed'
  BY SaveRows
<1>5. \A q \in Processes : q # p /\ Attempts!Busy(q) =>
        /\ hands'[q] = hands[q]
        /\ \A a \in DOMAIN saved : a \in DOMAIN hands[q].read => a \in mixed'
        /\ hands[q].job = "restart" => \A a \in DOMAIN alerts' \ DOMAIN alerts : a \in mixed'
  BY SaveRows
<1>6. \A q \in Processes : Attempts!Busy(q)' => q # p /\ Attempts!Busy(q)
  BY SaveRows
<1>7. ASSUME NEW a \in DOMAIN alerts'
      PROVE  \/ a \in DOMAIN alerts
             \/ \E i \in DOMAIN new : a = Len(alerts) + i /\ a \notin DOMAIN alerts
  <2>1. CASE a <= Len(alerts)
    BY <1>1, <2>1
  <2>2. CASE a > Len(alerts)
    <3>1. a - Len(alerts) \in DOMAIN new /\ a = Len(alerts) + (a - Len(alerts))
      BY <1>1, <2>2
    <3> QED
      BY <1>1, <2>2, <3>1
  <2> QED
    BY <1>1, <2>1, <2>2
<1>8. \A a \in DOMAIN alerts :
        /\ alerts'[a].status = alerts[a].status
        /\ alerts'[a].attempt = alerts[a].attempt
        /\ alerts'[a].resolving = alerts[a].resolving
  BY <1>2 DEF SavesWell
<1>9. ReadsAreFresh'
  <2> SUFFICES ASSUME NEW q \in Processes, Attempts!Busy(q)'
               PROVE  /\ hands'[q] \in Hand
                      /\ DOMAIN hands'[q].read \subseteq DOMAIN alerts'
                      /\ hands'[q].job = "end" =>
                           DOMAIN hands'[q].read = {} /\ hands'[q].to \in Attempts!Ended
                      /\ hands'[q].job = "restart" => hands'[q].to \in { "RUNNING", "FAILED" }
                      /\ \A a \in DOMAIN hands'[q].read :
                           /\ hands'[q].read[a].status = alerts'[a].status
                           /\ hands'[q].read[a].attempt = alerts'[a].attempt
                           /\ hands'[q].read[a].resolving = alerts'[a].resolving
                           /\ ~hands'[q].read[a].resolved
                           /\ hands'[q].job = "check" => ~hands'[q].read[a].triggered
                           /\ a \notin mixed' => hands'[q].read[a] = alerts'[a]
    BY DEF ReadsAreFresh, Attempts!Ended
  <2>1. q # p /\ Attempts!Busy(q) /\ hands'[q] = hands[q]
    BY <1>5, <1>6
  <2>2. /\ hands[q] \in Hand
        /\ DOMAIN hands[q].read \subseteq DOMAIN alerts
        /\ hands[q].job = "end" => DOMAIN hands[q].read = {} /\ hands[q].to \in Attempts!Ended
        /\ hands[q].job = "restart" => hands[q].to \in { "RUNNING", "FAILED" }
        /\ \A a \in DOMAIN hands[q].read :
             /\ hands[q].read[a].status = alerts[a].status
             /\ hands[q].read[a].attempt = alerts[a].attempt
             /\ hands[q].read[a].resolving = alerts[a].resolving
             /\ ~hands[q].read[a].resolved
             /\ hands[q].job = "check" => ~hands[q].read[a].triggered
             /\ a \notin mixed => hands[q].read[a] = alerts[a]
    BY <2>1 DEF AlertsInv, ReadsAreFresh
  <2>3. DOMAIN alerts \subseteq DOMAIN alerts'
    BY <1>1
  <2>4. ASSUME NEW a \in DOMAIN hands[q].read, a \notin mixed'
        PROVE  alerts'[a] = alerts[a]
    BY <1>2, <1>5, <2>1, <2>2, <2>4
  <2> QED
    BY <1>4, <1>8, <2>1, <2>2, <2>3, <2>4
<1>10. RestartsReadAll'
  <2> SUFFICES ASSUME NEW q \in Processes, Attempts!Busy(q)', hands'[q].job = "restart",
                      NEW a \in DOMAIN alerts', a \notin mixed', a \notin DOMAIN hands'[q].read
               PROVE  alerts'[a].resolved
    BY DEF RestartsReadAll
  <2>1. q # p /\ Attempts!Busy(q) /\ hands'[q] = hands[q]
    BY <1>5, <1>6
  <2>2. a \in DOMAIN alerts
    BY <1>5, <2>1
  <2>3. alerts[a].resolved
    BY <1>4, <2>1, <2>2 DEF AlertsInv, RestartsReadAll
  <2>4. a \notin DOMAIN saved
    BY <1>4, <2>3 DEF SavesWell
  <2> QED
    BY <1>2, <2>2, <2>3, <2>4
<1>11. KindsDiffer'
  <2> SUFFICES ASSUME NEW a \in DOMAIN alerts', NEW b \in DOMAIN alerts',
                      alerts'[a].status = alerts'[b].status,
                      alerts'[a].status \in Attempts!Ended,
                      ~alerts'[a].resolving, ~alerts'[b].resolving
               PROVE  a = b
    BY DEF KindsDiffer, Attempts!Ended
  <2>1. ASSUME NEW c \in DOMAIN alerts, NEW i \in DOMAIN new, ~new[i].resolving
        PROVE  alerts'[c].status # new[i].status
    BY <1>8, <2>1 DEF AddsWell, Attempts!IsTold
  <2>2. CASE a \in DOMAIN alerts /\ b \in DOMAIN alerts
    BY <1>8, <2>2 DEF AlertsInv, KindsDiffer
  <2>3. CASE a \in DOMAIN alerts /\ b \notin DOMAIN alerts
    BY <1>3, <1>7, <2>1, <2>3
  <2>4. CASE a \notin DOMAIN alerts /\ b \in DOMAIN alerts
    BY <1>3, <1>7, <2>1, <2>4
  <2>5. CASE a \notin DOMAIN alerts /\ b \notin DOMAIN alerts
    BY <1>3, <1>7, <2>5 DEF AddsWell
  <2> QED
    BY <2>2, <2>3, <2>4, <2>5
<1>12. SentIsClosed'
  <2> SUFFICES ASSUME NEW a \in DOMAIN alerts', a \notin mixed'
               PROVE  \/ informed'[a] = 0
                      \/ informed'[a] = 1 /\ (alerts'[a].triggered \/ alerts'[a].resolved)
    BY DEF SentIsClosed
  <2>1. CASE a \in DOMAIN alerts
    <3>1. /\ a \notin mixed
          /\ \/ informed[a] = 0
             \/ informed[a] = 1 /\ (alerts[a].triggered \/ alerts[a].resolved)
      BY <1>4, <2>1 DEF AlertsInv, SentIsClosed
    <3>2. informed'[a] = informed[a] + IF a \in posted THEN 1 ELSE 0
      BY <1>2, <2>1
    <3>3. CASE a \in DOMAIN saved
      <4>1. /\ ~alerts[a].resolved
            /\ a \in posted => ~alerts[a].triggered /\ saved[a].triggered
            /\ alerts[a].triggered => saved[a].triggered \/ saved[a].resolved
        BY <3>1, <3>3 DEF SavesWell
      <4>2. alerts'[a] = saved[a]
        BY <1>2, <2>1, <3>3
      <4>3. CASE a \in posted
        BY <3>1, <3>2, <4>1, <4>2, <4>3
      <4>4. CASE a \notin posted
        BY <3>1, <3>2, <4>1, <4>2, <4>4
      <4> QED
        BY <4>3, <4>4
    <3>4. CASE a \notin DOMAIN saved
      <4>1. alerts'[a] = alerts[a] /\ a \notin posted
        BY <1>2, <2>1, <3>4 DEF SavesWell
      <4> QED
        BY <3>1, <3>2, <4>1
    <3> QED
      BY <3>3, <3>4
  <2>2. CASE a \notin DOMAIN alerts
    <3>1. PICK i \in DOMAIN new : a = Len(alerts) + i
      BY <1>7, <2>2
    <3> QED
      BY <1>3, <3>1 DEF AddsWell
  <2> QED
    BY <2>1, <2>2
<1> QED
  BY <1>9, <1>10, <1>11, <1>12

-----------------------------------------------------------------------------
(* The steps.                                                              *)

\* A process reads.
LEMMA LoadStep ==
  ASSUME AlertsInv, NEW p \in Processes,
         NEW job \in { "end", "restart", "check" },
         NEW to \in Attempts!Ended \cup { "RUNNING", None }, NEW read,
         Attempts!Load(p, job, to, read),
         read \subseteq DOMAIN alerts,
         job = "end" => read = {} /\ to \in Attempts!Ended,
         job = "restart" => to \in { "RUNNING", "FAILED" } /\ read = Attempts!Unresolved,
         \A a \in read : ~alerts[a].resolved /\ (job = "check" => ~alerts[a].triggered)
  PROVE  AlertsInv'
<1>1. /\ alerts \in Seq(Attempts!Alert) /\ hands \in [Processes -> Hand \cup {None}]
      /\ status \in Attempts!Ended \cup {"RUNNING"}
  BY DEF AlertsInv, AttemptsTyped
<1>2. PICK f : f = [a \in read |-> alerts[a]]
  OBVIOUS
<1>3. PICK w : w = [job |-> job, loaded |-> status, to |-> to, read |-> f]
  OBVIOUS
<1>4. w \in Hand
  <2>1. read \in SUBSET Nat /\ f \in [read -> Attempts!Alert]
    BY <1>1, <1>2
  <2> QED
    BY <1>1, <1>3, <2>1, HandType
<1>5. w.job = job /\ w.to = to /\ DOMAIN w.read = read /\ \A a \in read : w.read[a] = alerts[a]
  BY <1>2, <1>3
<1>6. hands' = [hands EXCEPT ![p] = w]
  BY <1>2, <1>3 DEF Attempts!Load
<1>7. UNCHANGED <<status, attempt, alerts, watched, informed, mixed, silent, switches>>
  BY DEF Attempts!Load
<1>8. hands'[p] = w /\ \A q \in Processes : q # p => hands'[q] = hands[q]
  BY <1>1, <1>6
<1>9. hands' \in [Processes -> Hand \cup {None}]
  BY <1>1, <1>4, <1>6
<1>10. AttemptsTyped'
  BY <1>7, <1>9 DEF AlertsInv, AttemptsTyped, Attempts!Ended
<1>11. ReadsAreFresh'
  BY <1>4, <1>5, <1>7, <1>8 DEF AlertsInv, ReadsAreFresh, Attempts!Busy, Attempts!Ended
<1>12. RestartsReadAll'
  BY <1>5, <1>7, <1>8 DEF AlertsInv, RestartsReadAll, Attempts!Busy, Attempts!Unresolved
<1>13. KindsDiffer' /\ SentIsClosed'
  BY <1>7 DEF AlertsInv, KindsDiffer, SentIsClosed, Attempts!Ended
<1> QED
  BY <1>10, <1>11, <1>12, <1>13 DEF AlertsInv

\* What a postponed alert becomes when another execution ends.
LEMMA AfterType ==
  ASSUME NEW alert \in Attempts!Alert, NEW s \in Attempts!Ended,
         ~alert.resolved, ~alert.triggered
  PROVE  LET after == Attempts!After(alert, s) IN
         /\ after \in Attempts!Alert
         /\ after.status = alert.status /\ after.attempt = alert.attempt
         /\ after.resolving = alert.resolving
<1>1. alert.successes + 1 \in Nat /\ alert.same + 1 \in Nat
  BY DEF Attempts!Alert
<1>2. (RequiredSuccesses # None /\ alert.successes + 1 >= RequiredSuccesses) \in BOOLEAN
  OBVIOUS
<1>3. (alert.same + 1 >= PostponeCount[s]) \in BOOLEAN
  OBVIOUS
<1>4. CASE s = "SUCCEEDED"
  BY <1>1, <1>2, <1>4 DEF Attempts!After, Attempts!Alert
<1>5. CASE s # "SUCCEEDED" /\ s = alert.status
  BY <1>1, <1>3, <1>5 DEF Attempts!After, Attempts!Alert
<1>6. CASE s # "SUCCEEDED" /\ s # alert.status
  BY <1>6 DEF Attempts!After, Attempts!Alert
<1> QED
  BY <1>4, <1>5, <1>6

\* An alert about an end.
LEMMA NewAlertType ==
  ASSUME NEW s \in Attempts!Ended, NEW n \in 1 .. MaxAttempts
  PROVE  LET alert == Attempts!NewAlert(s, n) IN
         /\ alert \in Attempts!Alert
         /\ alert.status = s /\ alert.attempt = n /\ ~alert.resolving
<1>1. Attempts!Postpones(s) => PostponeSeconds[s] \in Nat
  BY SettingsAssumption DEF Attempts!Postpones, Attempts!Ended, Outcome
<1>2. Attempts!Postpones(s) \in BOOLEAN
  BY DEF Attempts!Postpones
<1> QED
  BY <1>1, <1>2 DEF Attempts!NewAlert, Attempts!Alert

\* One that tells of a resolution.
LEMMA ResolvingType ==
  ASSUME AttemptsTyped, NEW s \in Attempts!Ended \cup {"RUNNING"}
  PROVE  LET alert == Attempts!Resolving(s) IN
         alert \in Attempts!Alert /\ alert.resolving /\ alert.resolved /\ alert.attempt = attempt
BY DEF Attempts!Resolving, Attempts!Alert, AttemptsTyped

\* One alert that is added, or none.
LEMMA OneOrNone ==
  ASSUME NEW S, NEW x \in S, NEW b \in BOOLEAN
  PROVE  LET s == IF b THEN <<x>> ELSE <<>> IN
         /\ s \in Seq(S)
         /\ \A i \in DOMAIN s : i = 1 /\ b /\ s[i] = x
         /\ b => 1 \in DOMAIN s
OBVIOUS

\* The execution ends.
LEMMA EndStep ==
  ASSUME AlertsInv, Attempts!RestartResolves, NEW p \in Processes, Attempts!CommitEnd(p)
  PROVE  /\ AlertsInv' /\ Attempts!RestartResolves'
         /\ \A s \in Attempts!Ended : Attempts!IsTold(s) => Attempts!IsTold(s)'
         /\ \A s : status' = s /\ watched /\ Attempts!SeverityOf(s) # None
                   => Attempts!IsTold(s)'
<1>1. PICK s : s = hands[p].to
  OBVIOUS
<1>2. PICK saved : saved = [a \in IF watched THEN Attempts!Postponed ELSE {} |->
                              Attempts!After(alerts[a], s)]
  OBVIOUS
<1>3. PICK new : new = IF Attempts!Creates(s) THEN << Attempts!NewAlert(s, attempt) >> ELSE <<>>
  OBVIOUS
<1>4. PICK posted : posted = { a \in DOMAIN saved : saved[a].triggered }
               \cup { Len(alerts) + i : i \in { j \in DOMAIN new : new[j].triggered } }
  OBVIOUS
<1>5. /\ Attempts!Busy(p) /\ hands[p].job = "end" /\ Attempts!Save(p, saved, new, posted)
      /\ status' = s /\ UNCHANGED <<attempt, watched, silent, switches>>
  BY <1>1, <1>2, <1>3, <1>4 DEF Attempts!CommitEnd
<1>6. s \in Attempts!Ended
  BY <1>1, <1>5 DEF AlertsInv, ReadsAreFresh
<1>7. /\ alerts \in Seq(Attempts!Alert) /\ Len(alerts) \in Nat /\ DOMAIN alerts = 1 .. Len(alerts)
      /\ attempt \in 1 .. MaxAttempts /\ watched \in BOOLEAN
      /\ \A a \in DOMAIN alerts : alerts[a] \in Attempts!Alert
  BY DEF AlertsInv, AttemptsTyped
<1>8. ASSUME NEW a \in DOMAIN saved
      PROVE  /\ a \in DOMAIN alerts /\ watched
             /\ ~alerts[a].resolved /\ ~alerts[a].triggered
             /\ saved[a] = Attempts!After(alerts[a], s)
  BY <1>2, <1>8 DEF Attempts!Postponed, Attempts!Open
<1>9. ASSUME NEW a \in DOMAIN saved
      PROVE  /\ saved[a] \in Attempts!Alert
             /\ saved[a].status = alerts[a].status /\ saved[a].attempt = alerts[a].attempt
             /\ saved[a].resolving = alerts[a].resolving
  BY <1>6, <1>7, <1>8, <1>9, AfterType
<1>10. /\ new \in Seq(Attempts!Alert)
       /\ \A i \in DOMAIN new :
            i = 1 /\ Attempts!Creates(s) /\ new[i] = Attempts!NewAlert(s, attempt)
       /\ Attempts!Creates(s) => 1 \in DOMAIN new
  <2>1. Attempts!NewAlert(s, attempt) \in Attempts!Alert
    BY <1>6, <1>7, NewAlertType
  <2>2. Attempts!Creates(s) \in BOOLEAN
    BY <1>7 DEF Attempts!Creates
  <2> QED
    BY <1>3, <2>1, <2>2, OneOrNone
<1>11. \A i \in DOMAIN new : new[i].status = s /\ new[i].attempt = attempt
  BY <1>6, <1>7, <1>10, NewAlertType
<1>12. \A a \in DOMAIN alerts : a \in posted => a \in DOMAIN saved /\ saved[a].triggered
  <2>1. \A i \in DOMAIN new : Len(alerts) + i \notin DOMAIN alerts
    BY <1>7, <1>10
  <2> QED
    BY <1>4, <2>1
<1>13. SavesWell(saved, posted)
  <2>1. saved \in [DOMAIN saved -> Attempts!Alert]
    BY <1>2, <1>9
  <2> QED
    BY <1>8, <1>9, <1>12, <2>1 DEF SavesWell
<1>14. AddsWell(new, posted)
  <2>1. \A i \in DOMAIN new : Len(alerts) + i \in posted => new[i].triggered
    BY <1>4, <1>7, <1>8, <1>10
  <2> QED
    BY <1>10, <1>11, <2>1 DEF AddsWell, Attempts!Creates
<1>15. ReadsAreFresh' /\ RestartsReadAll' /\ KindsDiffer' /\ SentIsClosed'
  BY <1>5, <1>13, <1>14, SaveKeeps
<1>16. /\ alerts' \in Seq(Attempts!Alert)
       /\ informed' \in [DOMAIN alerts' -> Nat]
       /\ hands' \in [Processes -> Hand \cup {None}]
       /\ DOMAIN alerts' = 1 .. Len(alerts) + Len(new)
       /\ DOMAIN new = 1 .. Len(new) /\ Len(new) \in Nat
       /\ \A a \in DOMAIN alerts :
            alerts'[a] = IF a \in DOMAIN saved THEN saved[a] ELSE alerts[a]
       /\ \A i \in DOMAIN new : alerts'[Len(alerts) + i] = new[i]
       /\ mixed \subseteq mixed'
  BY <1>5, <1>13, <1>14, SaveRows
<1>17. AttemptsTyped'
  BY <1>5, <1>6, <1>16 DEF AlertsInv, AttemptsTyped, Attempts!Ended
<1>18. \A a \in DOMAIN alerts' \ DOMAIN alerts : a = Len(alerts) + 1 /\ 1 \in DOMAIN new
  <2> SUFFICES ASSUME NEW a \in DOMAIN alerts', a \notin DOMAIN alerts
               PROVE  a = Len(alerts) + 1 /\ 1 \in DOMAIN new
    OBVIOUS
  <2>1. a - Len(alerts) \in DOMAIN new
    BY <1>7, <1>16
  <2> QED
    BY <1>7, <1>10, <1>16, <2>1
<1>19. Attempts!RestartResolves'
  <2> SUFFICES ASSUME NEW a \in DOMAIN alerts', a \notin mixed', alerts'[a].attempt < attempt'
               PROVE  alerts'[a].resolved
    BY DEF Attempts!RestartResolves
  <2>1. CASE a \in DOMAIN alerts
    <3>1. alerts[a].attempt < attempt /\ a \notin mixed
      BY <1>5, <1>9, <1>16, <2>1
    <3>2. alerts[a].resolved
      BY <2>1, <3>1 DEF Attempts!RestartResolves
    <3> QED
      BY <1>8, <1>16, <2>1, <3>2
  <2>2. CASE a \notin DOMAIN alerts
    <3>1. alerts'[a].attempt = attempt
      BY <1>11, <1>16, <1>18, <2>2
    <3> QED
      BY <1>5, <1>7, <3>1
  <2> QED
    BY <2>1, <2>2
<1>20. \A k \in Attempts!Ended : Attempts!IsTold(k) => Attempts!IsTold(k)'
  <2>1. \A a \in DOMAIN alerts : a \in DOMAIN alerts' /\ alerts'[a].status = alerts[a].status
    BY <1>7, <1>9, <1>16
  <2> QED
    BY <2>1 DEF Attempts!IsTold
<1>21. watched /\ Attempts!SeverityOf(s) # None => Attempts!IsTold(s)'
  <2> SUFFICES ASSUME watched, Attempts!SeverityOf(s) # None
               PROVE  Attempts!IsTold(s)'
    OBVIOUS
  <2>1. CASE Attempts!IsTold(s)
    BY <1>6, <1>20, <2>1
  <2>2. CASE ~Attempts!IsTold(s)
    <3>1. 1 \in DOMAIN new
      BY <1>10, <2>2 DEF Attempts!Creates
    <3>2. alerts'[Len(alerts) + 1].status = s /\ Len(alerts) + 1 \in DOMAIN alerts'
      BY <1>7, <1>11, <1>16, <3>1
    <3> QED
      BY <3>2 DEF Attempts!IsTold
  <2> QED
    BY <2>1, <2>2
<1> QED
  BY <1>5, <1>15, <1>17, <1>19, <1>20, <1>21 DEF AlertsInv

\* The execution is started again.
LEMMA RestartStep ==
  ASSUME AlertsInv, NEW p \in Processes, Attempts!CommitRestart(p), MaxAttempts \in Nat
  PROVE  /\ AlertsInv' /\ Attempts!RestartResolves'
         /\ \A s \in Attempts!Ended : Attempts!IsTold(s) => Attempts!IsTold(s)'
         /\ status' \in { "RUNNING", "FAILED" }
         /\ status' = "FAILED" /\ ~silent' /\ watched /\ Attempts!SeverityOf("FAILED") # None
              => Attempts!IsTold("FAILED")'
<1> DEFINE Saved == [a \in DOMAIN hands[p].read |-> [hands[p].read[a] EXCEPT !.resolved = TRUE]]
           HowMany == Attempts!Cardinality(DOMAIN Saved)
           Over == hands[p].to = "FAILED" /\ hands[p].loaded = "RUNNING"
           Resolutions == [i \in 1 .. HowMany |-> Attempts!Resolving(hands[p].loaded)]
           Final == IF Over /\ Attempts!Creates("FAILED")
                    THEN << Attempts!NewAlert("FAILED", attempt + 1) >> ELSE <<>>
           Additions == Resolutions \o Final
           Posted == { Len(alerts) + i : i \in
                         { j \in DOMAIN Additions :
                             Additions[j].resolving \/ Additions[j].triggered } }
<1>1. /\ Attempts!Busy(p) /\ hands[p].job = "restart" /\ attempt < MaxAttempts
      /\ attempt' = attempt + 1 /\ Attempts!Save(p, Saved, Additions, Posted)
      /\ status' = hands[p].to /\ silent' = (silent \/ (hands[p].to = "FAILED" /\ ~Over))
      /\ UNCHANGED <<watched, switches>>
  BY DEF Attempts!CommitRestart
<1>2. PICK w : w = hands[p]
  OBVIOUS
<1>3. PICK saved : saved = Saved
  OBVIOUS
<1>4. saved = [a \in DOMAIN w.read |-> [w.read[a] EXCEPT !.resolved = TRUE]]
  BY <1>2, <1>3
<1> HIDE DEF Saved
<1>5. PICK n : n = HowMany
  OBVIOUS
<1>6. PICK over : over = Over
  OBVIOUS
<1>7. PICK resolutions : resolutions = Resolutions
  OBVIOUS
<1>8. PICK last : last = Final
  OBVIOUS
<1>9. PICK new : new = Additions
  OBVIOUS
<1>10. PICK posted : posted = Posted
  OBVIOUS
<1>11. n = Cardinality(DOMAIN saved)
  BY <1>3, <1>5, AlertsCardinality
<1>12. over = (w.to = "FAILED" /\ w.loaded = "RUNNING")
  BY <1>2, <1>6
<1> HIDE DEF HowMany, Over
<1>13. resolutions = [i \in 1 .. n |-> Attempts!Resolving(w.loaded)]
  BY <1>2, <1>5, <1>7
<1>14. last = IF over /\ Attempts!Creates("FAILED")
              THEN << Attempts!NewAlert("FAILED", attempt + 1) >> ELSE <<>>
  BY <1>6, <1>8
<1> HIDE DEF Resolutions, Final
<1>15. new = resolutions \o last
  BY <1>7, <1>8, <1>9
<1> HIDE DEF Additions
<1>16. posted = { Len(alerts) + i : i \in
                    { j \in DOMAIN new : new[j].resolving \/ new[j].triggered } }
  BY <1>9, <1>10
<1> HIDE DEF Posted
<1>17. /\ Attempts!Busy(p) /\ hands[p].job = "restart" /\ attempt < MaxAttempts
       /\ attempt' = attempt + 1 /\ Attempts!Save(p, saved, new, posted)
       /\ status' = w.to /\ silent' = (silent \/ (w.to = "FAILED" /\ ~over))
       /\ UNCHANGED <<watched, switches>>
  BY <1>1, <1>2, <1>3, <1>6, <1>9, <1>10
<1>18. /\ alerts \in Seq(Attempts!Alert) /\ Len(alerts) \in Nat /\ DOMAIN alerts = 1 .. Len(alerts)
       /\ attempt \in 1 .. MaxAttempts /\ watched \in BOOLEAN /\ silent \in BOOLEAN
       /\ \A a \in DOMAIN alerts : alerts[a] \in Attempts!Alert
  BY DEF AlertsInv, AttemptsTyped
<1>19. /\ w \in Hand /\ DOMAIN w.read \subseteq DOMAIN alerts /\ w.to \in { "RUNNING", "FAILED" }
       /\ \A a \in DOMAIN w.read :
            /\ w.read[a].status = alerts[a].status
            /\ w.read[a].attempt = alerts[a].attempt
            /\ w.read[a].resolving = alerts[a].resolving
            /\ ~w.read[a].resolved
            /\ a \notin mixed => w.read[a] = alerts[a]
  BY <1>2, <1>17 DEF AlertsInv, ReadsAreFresh
<1>20. w.loaded \in Attempts!Ended \cup {"RUNNING"} /\ w.read \in [DOMAIN w.read -> Attempts!Alert]
  BY <1>19, HandFields
<1>21. ASSUME NEW a \in DOMAIN saved
       PROVE  /\ a \in DOMAIN alerts /\ a \in DOMAIN w.read
              /\ saved[a] \in Attempts!Alert /\ saved[a].resolved
              /\ saved[a].status = alerts[a].status /\ saved[a].attempt = alerts[a].attempt
              /\ saved[a].resolving = alerts[a].resolving
  <2>1. a \in DOMAIN w.read /\ w.read[a] \in Attempts!Alert
    BY <1>4, <1>20
  <2>2. saved[a] = [w.read[a] EXCEPT !.resolved = TRUE]
    BY <1>4, <2>1
  <2> QED
    BY <1>19, <2>1, <2>2 DEF Attempts!Alert
<1>22. n \in Nat
  <2>1. IsFiniteSet(DOMAIN alerts) /\ DOMAIN saved \subseteq DOMAIN alerts
    BY <1>18, <1>21, FS_Interval
  <2> QED
    BY <1>11, <2>1, FS_Subset, FS_CardinalityType
<1>23. /\ Attempts!Resolving(w.loaded) \in Attempts!Alert
       /\ Attempts!Resolving(w.loaded).resolving /\ Attempts!Resolving(w.loaded).resolved
  BY <1>20, ResolvingType DEF AlertsInv
<1>24. /\ Attempts!NewAlert("FAILED", attempt + 1) \in Attempts!Alert
       /\ Attempts!NewAlert("FAILED", attempt + 1).status = "FAILED"
       /\ Attempts!NewAlert("FAILED", attempt + 1).attempt = attempt + 1
  <2>1. attempt + 1 \in 1 .. MaxAttempts /\ "FAILED" \in Attempts!Ended
    BY <1>17, <1>18, MaxAttempts \in Nat DEF Attempts!Ended
  <2> QED
    BY <2>1, NewAlertType
<1>25. /\ new \in Seq(Attempts!Alert) /\ Len(new) \in Nat /\ DOMAIN new = 1 .. Len(new)
       /\ \A i \in DOMAIN new :
            \/ new[i] = Attempts!Resolving(w.loaded)
            \/ /\ i = n + 1 /\ over /\ Attempts!Creates("FAILED")
               /\ new[i] = Attempts!NewAlert("FAILED", attempt + 1)
       /\ over /\ Attempts!Creates("FAILED") =>
            n + 1 \in DOMAIN new /\ new[n + 1] = Attempts!NewAlert("FAILED", attempt + 1)
  <2>1. resolutions \in Seq(Attempts!Alert) /\ Len(resolutions) = n
    BY <1>13, <1>22, <1>23
  <2>2. \A i \in DOMAIN resolutions : resolutions[i] = Attempts!Resolving(w.loaded)
    BY <1>13
  <2>3. /\ last \in Seq(Attempts!Alert)
        /\ \A i \in DOMAIN last : i = 1 /\ (over /\ Attempts!Creates("FAILED"))
                                  /\ last[i] = Attempts!NewAlert("FAILED", attempt + 1)
        /\ (over /\ Attempts!Creates("FAILED")) => 1 \in DOMAIN last
    <3>1. (over /\ Attempts!Creates("FAILED")) \in BOOLEAN
      OBVIOUS
    <3> QED
      BY <1>14, <1>24, <3>1, OneOrNone
  <2>4. /\ new \in Seq(Attempts!Alert) /\ Len(new) = n + Len(last) /\ Len(last) \in Nat
        /\ DOMAIN last = 1 .. Len(last)
        /\ \A i \in DOMAIN new : i <= n => new[i] = resolutions[i] /\ i \in DOMAIN resolutions
        /\ \A i \in DOMAIN new : i > n => new[i] = last[i - n] /\ i - n \in DOMAIN last
    BY <1>15, <1>22, <2>1, <2>3
  <2>5. Len(new) \in Nat /\ DOMAIN new = 1 .. Len(new)
    BY <2>4
  <2>6. ASSUME NEW i \in DOMAIN new
        PROVE  \/ new[i] = Attempts!Resolving(w.loaded)
               \/ /\ i = n + 1 /\ over /\ Attempts!Creates("FAILED")
                  /\ new[i] = Attempts!NewAlert("FAILED", attempt + 1)
    <3>1. CASE i <= n
      BY <2>2, <2>4, <3>1
    <3>2. CASE i > n
      <4>1. i - n \in DOMAIN last /\ new[i] = last[i - n]
        BY <2>4, <3>2
      <4>2. i - n = 1
        BY <2>3, <4>1
      <4>3. i = n + 1
        BY <1>22, <2>5, <4>2
      <4> QED
        BY <2>3, <4>1, <4>3
    <3> QED
      BY <1>22, <2>5, <3>1, <3>2
  <2>7. ASSUME over, Attempts!Creates("FAILED")
        PROVE  n + 1 \in DOMAIN new /\ new[n + 1] = Attempts!NewAlert("FAILED", attempt + 1)
    <3>1. 1 \in DOMAIN last
      BY <2>3, <2>7
    <3>2. n + 1 \in DOMAIN new
      BY <1>22, <2>4, <2>5, <3>1
    <3>3. new[n + 1] = last[1]
      BY <1>22, <2>4, <3>2
    <3> QED
      BY <2>3, <3>1, <3>2, <3>3
  <2> QED
    BY <2>4, <2>5, <2>6, <2>7
<1>26. \A a \in DOMAIN alerts : a \notin posted
  BY <1>16, <1>18, <1>25
<1>27. SavesWell(saved, posted)
  <2>1. saved \in [DOMAIN saved -> Attempts!Alert]
    BY <1>4, <1>21
  <2>2. \A a \in DOMAIN saved \ mixed : ~alerts[a].resolved
    BY <1>19, <1>21
  <2> QED
    BY <1>21, <1>26, <2>1, <2>2 DEF SavesWell
<1>28. AddsWell(new, posted)
  <2>1. ASSUME NEW i \in DOMAIN new, Len(alerts) + i \in posted
        PROVE  new[i].triggered \/ new[i].resolved
    <3>1. new[i].resolving \/ new[i].triggered
      BY <1>16, <1>18, <1>25, <2>1
    <3>2. new[i].resolving => new[i].resolved
      BY <1>23, <1>24, <1>25 DEF Attempts!NewAlert
    <3> QED
      BY <3>1, <3>2
  <2>2. ASSUME NEW i \in DOMAIN new, ~new[i].resolving
        PROVE  i = n + 1 /\ ~Attempts!IsTold(new[i].status)
    BY <1>23, <1>24, <1>25, <2>2 DEF Attempts!Creates
  <2> QED
    BY <1>25, <2>1, <2>2 DEF AddsWell
<1>29. ReadsAreFresh' /\ RestartsReadAll' /\ KindsDiffer' /\ SentIsClosed'
  BY <1>17, <1>27, <1>28, SaveKeeps
<1>30. /\ alerts' \in Seq(Attempts!Alert)
       /\ informed' \in [DOMAIN alerts' -> Nat]
       /\ hands' \in [Processes -> Hand \cup {None}]
       /\ DOMAIN alerts' = 1 .. Len(alerts) + Len(new)
       /\ \A a \in DOMAIN alerts :
            alerts'[a] = IF a \in DOMAIN saved THEN saved[a] ELSE alerts[a]
       /\ \A i \in DOMAIN new : alerts'[Len(alerts) + i] = new[i]
       /\ mixed \subseteq mixed'
  BY <1>17, <1>27, <1>28, SaveRows
<1>31. AttemptsTyped'
  BY <1>17, <1>18, <1>19, <1>30 DEF AlertsInv, AttemptsTyped, Attempts!Ended
<1>32. Attempts!RestartResolves'
  <2> SUFFICES ASSUME NEW a \in DOMAIN alerts', a \notin mixed', alerts'[a].attempt < attempt'
               PROVE  alerts'[a].resolved
    BY DEF Attempts!RestartResolves
  <2>1. CASE a \in DOMAIN alerts
    <3>1. a \in DOMAIN w.read \/ alerts[a].resolved
      BY <1>2, <1>17, <1>30, <2>1 DEF AlertsInv, RestartsReadAll
    <3>2. CASE a \in DOMAIN saved
      BY <1>21, <1>30, <2>1, <3>2
    <3>3. CASE a \notin DOMAIN saved
      BY <1>4, <1>30, <2>1, <3>1, <3>3
    <3> QED
      BY <3>2, <3>3
  <2>2. CASE a \notin DOMAIN alerts
    <3>1. PICK i \in DOMAIN new : a = Len(alerts) + i
      <4>1. a - Len(alerts) \in DOMAIN new /\ a = Len(alerts) + (a - Len(alerts))
        BY <1>18, <1>25, <1>30, <2>2
      <4> QED
        BY <4>1
    <3>2. alerts'[a] = new[i]
      BY <1>30, <3>1
    <3>3. new[i] # Attempts!NewAlert("FAILED", attempt + 1)
      BY <1>17, <1>18, <1>24, <3>2
    <3>4. new[i] = Attempts!Resolving(w.loaded)
      BY <1>25, <3>3
    <3> QED
      BY <1>23, <3>2, <3>4
  <2> QED
    BY <2>1, <2>2
<1>33. \A s \in Attempts!Ended : Attempts!IsTold(s) => Attempts!IsTold(s)'
  <2>1. \A a \in DOMAIN alerts : a \in DOMAIN alerts'
    BY <1>18, <1>25, <1>30
  <2>2. \A a \in DOMAIN alerts : alerts'[a].status = alerts[a].status
    BY <1>21, <1>30
  <2> QED
    BY <2>1, <2>2 DEF Attempts!IsTold
<1>34. ASSUME status' = "FAILED", ~silent', watched, Attempts!SeverityOf("FAILED") # None
       PROVE  Attempts!IsTold("FAILED")'
  <2>1. over
    BY <1>17, <1>34
  <2>2. CASE Attempts!IsTold("FAILED")
    BY <1>33, <2>2 DEF Attempts!Ended
  <2>3. CASE ~Attempts!IsTold("FAILED")
    <3>1. Attempts!Creates("FAILED")
      BY <1>34, <2>3 DEF Attempts!Creates
    <3>2. n + 1 \in DOMAIN new /\ new[n + 1].status = "FAILED"
      BY <1>24, <1>25, <2>1, <3>1
    <3>3. alerts'[Len(alerts) + (n + 1)].status = "FAILED"
          /\ Len(alerts) + (n + 1) \in DOMAIN alerts'
      BY <1>18, <1>25, <1>30, <3>2
    <3> QED
      BY <3>3 DEF Attempts!IsTold
  <2> QED
    BY <2>2, <2>3
<1> QED
  BY <1>17, <1>19, <1>29, <1>31, <1>32, <1>33, <1>34 DEF AlertsInv

\* The checker triggers a postponed alert, or resolves it if nobody is to hear of it.
LEMMA CheckStep ==
  ASSUME AlertsInv, Attempts!RestartResolves, NEW p \in Processes, Attempts!CommitCheck(p)
  PROVE  /\ AlertsInv' /\ Attempts!RestartResolves'
         /\ \A s \in Attempts!Ended : Attempts!IsTold(s) => Attempts!IsTold(s)'
<1>1. PICK w : w = hands[p]
  OBVIOUS
<1>2. PICK saved : saved = [a \in DOMAIN w.read |->
                  IF watched THEN [w.read[a] EXCEPT !.triggered = TRUE]
                  ELSE [w.read[a] EXCEPT !.resolved = TRUE]]
  OBVIOUS
<1>3. PICK posted : posted = IF watched THEN DOMAIN saved ELSE {}
  OBVIOUS
<1>4. /\ Attempts!Busy(p) /\ hands[p].job = "check" /\ Attempts!Save(p, saved, <<>>, posted)
      /\ UNCHANGED <<status, attempt, watched, silent, switches>>
  BY <1>1, <1>2, <1>3 DEF Attempts!CommitCheck
<1>5. /\ w \in Hand /\ DOMAIN w.read \subseteq DOMAIN alerts
      /\ \A a \in DOMAIN w.read :
           /\ w.read[a].status = alerts[a].status
           /\ w.read[a].attempt = alerts[a].attempt
           /\ w.read[a].resolving = alerts[a].resolving
           /\ ~w.read[a].resolved /\ ~w.read[a].triggered
           /\ a \notin mixed => w.read[a] = alerts[a]
  BY <1>1, <1>4 DEF AlertsInv, ReadsAreFresh
<1>6. ASSUME NEW a \in DOMAIN saved
      PROVE  /\ a \in DOMAIN alerts /\ a \in DOMAIN w.read
             /\ saved[a] \in Attempts!Alert
             /\ saved[a].status = alerts[a].status /\ saved[a].attempt = alerts[a].attempt
             /\ saved[a].resolving = alerts[a].resolving
             /\ watched => saved[a].triggered
  <2>1. a \in DOMAIN w.read /\ w.read[a] \in Attempts!Alert
    BY <1>2, <1>5, HandFields
  <2>2. saved[a] = IF watched THEN [w.read[a] EXCEPT !.triggered = TRUE]
                   ELSE [w.read[a] EXCEPT !.resolved = TRUE]
    BY <1>2, <2>1
  <2>3. PICK row : row = w.read[a]
    OBVIOUS
  <2>4. row \in Attempts!Alert
    BY <2>1, <2>3
  <2>5. /\ saved[a] \in Attempts!Alert
        /\ saved[a].status = row.status /\ saved[a].attempt = row.attempt
        /\ saved[a].resolving = row.resolving
        /\ watched => saved[a].triggered
    <3>1. CASE watched
      <4>1. saved[a] = [row EXCEPT !.triggered = TRUE]
        BY <2>2, <2>3, <3>1
      <4> QED
        BY <2>4, <4>1 DEF Attempts!Alert
    <3>2. CASE ~watched
      <4>1. saved[a] = [row EXCEPT !.resolved = TRUE]
        BY <2>2, <2>3, <3>2
      <4> QED
        BY <2>4, <3>2, <4>1 DEF Attempts!Alert
    <3> QED
      BY <3>1, <3>2
  <2> QED
    BY <1>5, <2>1, <2>3, <2>5
<1>7. SavesWell(saved, posted)
  <2>1. saved \in [DOMAIN saved -> Attempts!Alert]
    BY <1>2, <1>6
  <2>2. \A a \in DOMAIN saved \ mixed : ~alerts[a].resolved /\ ~alerts[a].triggered
    BY <1>5, <1>6
  <2>3. \A a \in posted : a \in DOMAIN saved /\ saved[a].triggered
    BY <1>3, <1>6
  <2> QED
    BY <1>6, <2>1, <2>2, <2>3 DEF SavesWell
<1>8. AddsWell(<<>>, posted)
  BY DEF AddsWell
<1>9. ReadsAreFresh' /\ RestartsReadAll' /\ KindsDiffer' /\ SentIsClosed'
  BY <1>4, <1>7, <1>8, SaveKeeps
<1>10. /\ alerts' \in Seq(Attempts!Alert)
       /\ informed' \in [DOMAIN alerts' -> Nat]
       /\ hands' \in [Processes -> Hand \cup {None}]
       /\ DOMAIN alerts' = 1 .. Len(alerts) + Len(<<>>)
       /\ DOMAIN alerts = 1 .. Len(alerts) /\ Len(alerts) \in Nat
       /\ \A a \in DOMAIN alerts :
            alerts'[a] = IF a \in DOMAIN saved THEN saved[a] ELSE alerts[a]
       /\ mixed \subseteq mixed'
  BY <1>4, <1>7, <1>8, SaveRows
<1>11. DOMAIN alerts' = DOMAIN alerts
  BY <1>10
<1>12. AttemptsTyped'
  BY <1>4, <1>10 DEF AlertsInv, AttemptsTyped, Attempts!Ended
<1>13. Attempts!RestartResolves'
  <2> SUFFICES ASSUME NEW a \in DOMAIN alerts, a \notin mixed', alerts'[a].attempt < attempt'
               PROVE  alerts'[a].resolved
    BY <1>11 DEF Attempts!RestartResolves
  <2>1. alerts[a].attempt < attempt /\ a \notin mixed
    BY <1>4, <1>6, <1>10
  <2>2. alerts[a].resolved
    BY <2>1 DEF Attempts!RestartResolves
  <2>3. a \notin DOMAIN saved
    BY <1>5, <1>6, <2>1, <2>2
  <2> QED
    BY <1>10, <2>2, <2>3
<1>14. \A s \in Attempts!Ended : Attempts!IsTold(s) => Attempts!IsTold(s)'
  <2>1. \A a \in DOMAIN alerts : a \in DOMAIN alerts' /\ alerts'[a].status = alerts[a].status
    BY <1>6, <1>10, <1>11
  <2> QED
    BY <2>1 DEF Attempts!IsTold
<1> QED
  BY <1>9, <1>12, <1>13, <1>14 DEF AlertsInv

\* Time passes, for what has been read as for what is there.
LEMMA AlertsTick ==
  ASSUME AlertsInv, Attempts!RestartResolves, Attempts!Tick
  PROVE  /\ AlertsInv' /\ Attempts!RestartResolves'
         /\ \A s \in Attempts!Ended : Attempts!IsTold(s) => Attempts!IsTold(s)'
<1>1. /\ alerts \in Seq(Attempts!Alert) /\ Len(alerts) \in Nat /\ DOMAIN alerts = 1 .. Len(alerts)
      /\ hands \in [Processes -> Hand \cup {None}]
      /\ \A a \in DOMAIN alerts : alerts[a] \in Attempts!Alert
  BY DEF AlertsInv, AttemptsTyped
<1>2. UNCHANGED <<status, attempt, watched, informed, mixed, silent, switches>>
  BY DEF Attempts!Tick
<1>3. DOMAIN alerts' = DOMAIN alerts
  BY DEF Attempts!Tick
<1>4. ASSUME NEW a \in DOMAIN alerts
      PROVE  /\ alerts'[a] \in Attempts!Alert
             /\ alerts'[a] = [alerts[a] EXCEPT !.left = alerts'[a].left]
             /\ alerts'[a].left \in Nat \cup {None}
  <2>1. PICK t : t = IF alerts[a].left \in {None, 0} THEN alerts[a].left ELSE alerts[a].left - 1
    OBVIOUS
  <2>2. alerts[a].left \in Nat \cup {None}
    BY <1>1 DEF Attempts!Alert
  <2>3. t \in Nat \cup {None}
    BY <2>1, <2>2
  <2>4. alerts'[a] = [alerts[a] EXCEPT !.left = t]
    BY <2>1 DEF Attempts!Tick
  <2>5. alerts[a] \in Attempts!Alert
    BY <1>1
  <2>6. alerts'[a].left = t
    BY <2>4, <2>5 DEF Attempts!Alert
  <2> QED
    BY <2>3, <2>4, <2>5, <2>6 DEF Attempts!Alert
<1>5. ASSUME NEW a \in DOMAIN alerts
      PROVE  /\ alerts'[a].status = alerts[a].status /\ alerts'[a].attempt = alerts[a].attempt
             /\ alerts'[a].resolving = alerts[a].resolving
             /\ alerts'[a].triggered = alerts[a].triggered
             /\ alerts'[a].resolved = alerts[a].resolved
  <2>1. PICK row : row = alerts[a]
    OBVIOUS
  <2>2. row \in Attempts!Alert
    BY <1>1, <2>1
  <2>3. alerts'[a] = [row EXCEPT !.left = alerts'[a].left]
    BY <1>4, <2>1
  <2> QED
    BY <2>1, <2>2, <2>3 DEF Attempts!Alert
<1>6. alerts' \in Seq(Attempts!Alert)
  <2>1. alerts' = [a \in 1 .. Len(alerts) |-> alerts'[a]]
    BY <1>1 DEF Attempts!Tick
  <2> QED
    BY <1>1, <1>4, <2>1
<1>7. ASSUME NEW q \in Processes, Attempts!Busy(q)'
      PROVE  /\ Attempts!Busy(q)
             /\ hands'[q] = [hands[q] EXCEPT !.read =
                  [a \in DOMAIN hands[q].read |->
                     [hands[q].read[a] EXCEPT !.left = alerts'[a].left]]]
  BY <1>7 DEF Attempts!Tick, Attempts!Busy
<1>8. ASSUME NEW q \in Processes, Attempts!Busy(q)
      PROVE  /\ hands[q] \in Hand
             /\ DOMAIN hands[q].read \subseteq DOMAIN alerts
             /\ hands[q].job = "end" => DOMAIN hands[q].read = {} /\ hands[q].to \in Attempts!Ended
             /\ hands[q].job = "restart" => hands[q].to \in { "RUNNING", "FAILED" }
             /\ \A a \in DOMAIN hands[q].read :
                  /\ hands[q].read[a].status = alerts[a].status
                  /\ hands[q].read[a].attempt = alerts[a].attempt
                  /\ hands[q].read[a].resolving = alerts[a].resolving
                  /\ ~hands[q].read[a].resolved
                  /\ hands[q].job = "check" => ~hands[q].read[a].triggered
                  /\ a \notin mixed => hands[q].read[a] = alerts[a]
  BY <1>8 DEF AlertsInv, ReadsAreFresh
<1>9. ASSUME NEW q \in Processes, Attempts!Busy(q)'
      PROVE  /\ hands'[q] \in Hand
             /\ hands'[q].job = hands[q].job /\ hands'[q].to = hands[q].to
             /\ DOMAIN hands'[q].read = DOMAIN hands[q].read
             /\ \A a \in DOMAIN hands[q].read :
                  /\ hands'[q].read[a].status = hands[q].read[a].status
                  /\ hands'[q].read[a].attempt = hands[q].read[a].attempt
                  /\ hands'[q].read[a].resolving = hands[q].read[a].resolving
                  /\ hands'[q].read[a].triggered = hands[q].read[a].triggered
                  /\ hands'[q].read[a].resolved = hands[q].read[a].resolved
                  /\ hands'[q].read[a] = [hands[q].read[a] EXCEPT !.left = alerts'[a].left]
  <2>1. PICK g : g = [a \in DOMAIN hands[q].read |->
                        [hands[q].read[a] EXCEPT !.left = alerts'[a].left]]
    OBVIOUS
  <2>2. hands'[q] = [hands[q] EXCEPT !.read = g]
    BY <1>7, <1>9, <2>1
  <2>3. hands[q] \in Hand /\ DOMAIN hands[q].read \subseteq DOMAIN alerts
    BY <1>7, <1>8, <1>9
  <2>4. hands[q].read \in [DOMAIN hands[q].read -> Attempts!Alert]
        /\ DOMAIN hands[q].read \in SUBSET Nat
    BY <2>3, HandFields
  <2>5. ASSUME NEW a \in DOMAIN hands[q].read
        PROVE  /\ g[a] \in Attempts!Alert
               /\ g[a].status = hands[q].read[a].status
               /\ g[a].attempt = hands[q].read[a].attempt
               /\ g[a].resolving = hands[q].read[a].resolving
               /\ g[a].triggered = hands[q].read[a].triggered
               /\ g[a].resolved = hands[q].read[a].resolved
               /\ g[a] = [hands[q].read[a] EXCEPT !.left = alerts'[a].left]
    <3>1. hands[q].read[a] \in Attempts!Alert /\ alerts'[a].left \in Nat \cup {None}
      BY <1>4, <2>3, <2>4
    <3> QED
      BY <2>1, <3>1 DEF Attempts!Alert
  <2>6. g \in [DOMAIN hands[q].read -> Attempts!Alert]
    BY <2>1, <2>5
  <2>7. g \in AlertsRead
    BY <2>4, <2>6 DEF AlertsRead
  <2>8. hands'[q] \in Hand /\ hands'[q].read = g
        /\ hands'[q].job = hands[q].job /\ hands'[q].to = hands[q].to
    BY <2>2, <2>3, <2>7 DEF Hand
  <2> QED
    BY <2>1, <2>5, <2>8
<1>10. hands' \in [Processes -> Hand \cup {None}]
  <2>1. hands' = [q \in Processes |-> hands'[q]]
    BY DEF Attempts!Tick
  <2>2. \A q \in Processes : hands'[q] \in Hand \cup {None}
    BY <1>9 DEF Attempts!Busy
  <2> QED
    BY <2>1, <2>2
<1>11. AttemptsTyped'
  BY <1>2, <1>3, <1>6, <1>10 DEF AlertsInv, AttemptsTyped, Attempts!Ended
<1>12. ReadsAreFresh'
  <2> SUFFICES ASSUME NEW q \in Processes, Attempts!Busy(q)'
               PROVE  /\ hands'[q] \in Hand
                      /\ DOMAIN hands'[q].read \subseteq DOMAIN alerts'
                      /\ hands'[q].job = "end" =>
                           DOMAIN hands'[q].read = {} /\ hands'[q].to \in Attempts!Ended
                      /\ hands'[q].job = "restart" => hands'[q].to \in { "RUNNING", "FAILED" }
                      /\ \A a \in DOMAIN hands'[q].read :
                           /\ hands'[q].read[a].status = alerts'[a].status
                           /\ hands'[q].read[a].attempt = alerts'[a].attempt
                           /\ hands'[q].read[a].resolving = alerts'[a].resolving
                           /\ ~hands'[q].read[a].resolved
                           /\ hands'[q].job = "check" => ~hands'[q].read[a].triggered
                           /\ a \notin mixed' => hands'[q].read[a] = alerts'[a]
    BY DEF ReadsAreFresh, Attempts!Ended
  <2>1. Attempts!Busy(q)
    BY <1>7
  <2>2. \A a \in DOMAIN hands[q].read :
          a \notin mixed => hands'[q].read[a] = alerts'[a]
    <3> SUFFICES ASSUME NEW a \in DOMAIN hands[q].read, a \notin mixed
                 PROVE  hands'[q].read[a] = alerts'[a]
      OBVIOUS
    <3>1. hands[q].read[a] = alerts[a] /\ a \in DOMAIN alerts
      BY <1>8, <2>1
    <3>2. hands'[q].read[a] = [hands[q].read[a] EXCEPT !.left = alerts'[a].left]
      BY <1>9
    <3>3. alerts'[a] = [alerts[a] EXCEPT !.left = alerts'[a].left]
      BY <1>4, <3>1
    <3> QED
      BY <3>1, <3>2, <3>3
  <2>3. ASSUME NEW a \in DOMAIN hands'[q].read
        PROVE  /\ hands'[q].read[a].status = alerts'[a].status
               /\ hands'[q].read[a].attempt = alerts'[a].attempt
               /\ hands'[q].read[a].resolving = alerts'[a].resolving
               /\ ~hands'[q].read[a].resolved
               /\ hands'[q].job = "check" => ~hands'[q].read[a].triggered
    <3>1. a \in DOMAIN hands[q].read /\ hands'[q].job = hands[q].job
      BY <1>9
    <3>2. /\ a \in DOMAIN alerts
          /\ hands[q].read[a].status = alerts[a].status
          /\ hands[q].read[a].attempt = alerts[a].attempt
          /\ hands[q].read[a].resolving = alerts[a].resolving
          /\ ~hands[q].read[a].resolved
          /\ hands[q].job = "check" => ~hands[q].read[a].triggered
      BY <1>8, <2>1, <3>1
    <3>3. /\ hands'[q].read[a].status = hands[q].read[a].status
          /\ hands'[q].read[a].attempt = hands[q].read[a].attempt
          /\ hands'[q].read[a].resolving = hands[q].read[a].resolving
          /\ hands'[q].read[a].triggered = hands[q].read[a].triggered
          /\ hands'[q].read[a].resolved = hands[q].read[a].resolved
      BY <1>9, <3>1
    <3> QED
      BY <1>5, <3>1, <3>2, <3>3
  <2>4. /\ hands'[q] \in Hand
        /\ hands'[q].job = hands[q].job /\ hands'[q].to = hands[q].to
        /\ DOMAIN hands'[q].read = DOMAIN hands[q].read
    BY <1>9
  <2>5. /\ DOMAIN hands[q].read \subseteq DOMAIN alerts
        /\ hands[q].job = "end" => DOMAIN hands[q].read = {} /\ hands[q].to \in Attempts!Ended
        /\ hands[q].job = "restart" => hands[q].to \in { "RUNNING", "FAILED" }
    BY <1>8, <2>1
  <2> QED
    BY <1>2, <1>3, <2>2, <2>3, <2>4, <2>5
<1>13. RestartsReadAll'
  <2> SUFFICES ASSUME NEW q \in Processes, Attempts!Busy(q)', hands'[q].job = "restart",
                      NEW a \in DOMAIN alerts \ mixed
               PROVE  a \in DOMAIN hands'[q].read \/ alerts'[a].resolved
    BY <1>2, <1>3 DEF RestartsReadAll
  <2>1. Attempts!Busy(q)
    BY <1>7
  <2>2. hands[q].job = "restart" /\ DOMAIN hands'[q].read = DOMAIN hands[q].read
    BY <1>9, <2>1
  <2>3. a \in DOMAIN hands[q].read \/ alerts[a].resolved
    BY <2>1, <2>2 DEF AlertsInv, RestartsReadAll
  <2> QED
    BY <1>5, <2>2, <2>3
<1>14. KindsDiffer'
  BY <1>3, <1>5 DEF AlertsInv, KindsDiffer, Attempts!Ended
<1>15. SentIsClosed'
  BY <1>2, <1>3, <1>5 DEF AlertsInv, SentIsClosed
<1>16. Attempts!RestartResolves'
  BY <1>2, <1>3, <1>5 DEF Attempts!RestartResolves
<1>17. \A s \in Attempts!Ended : Attempts!IsTold(s) => Attempts!IsTold(s)'
  BY <1>3, <1>5 DEF Attempts!IsTold
<1> QED
  BY <1>11, <1>12, <1>13, <1>14, <1>15, <1>16, <1>17 DEF AlertsInv

\* As long as nobody disables the Workflow, an end is told if it is to be.
EndsAreTold ==
  WatchedInv /\ Attempts!EndIsTold

\* Every step keeps all this.
LEMMA AlertsStep ==
  ASSUME MaxAttempts \in Nat, AlertsInv, Attempts!RestartResolves, EndsAreTold,
         [Attempts!Next]_Attempts!vars
  PROVE  AlertsInv' /\ Attempts!RestartResolves' /\ EndsAreTold'
<1>1. /\ alerts \in Seq(Attempts!Alert) /\ switches \in Nat
      /\ status \in Attempts!Ended \cup {"RUNNING"}
  BY DEF AlertsInv, AttemptsTyped
<1>2. ASSUME NEW p \in Processes, NEW job, NEW to, NEW read, Attempts!Load(p, job, to, read)
      PROVE  Attempts!RestartResolves' /\ EndsAreTold'
  BY <1>2 DEF Attempts!Load, Attempts!RestartResolves, EndsAreTold, WatchedInv,
              Attempts!EndIsTold, Attempts!IsTold, Attempts!Ended, Attempts!SeverityOf
<1>3. ASSUME NEW p \in Processes, NEW s \in Attempts!Ended, Attempts!EndBegins(p, s)
      PROVE  AlertsInv' /\ Attempts!RestartResolves' /\ EndsAreTold'
  <2>1. Attempts!Load(p, "end", s, {})
    BY <1>3 DEF Attempts!EndBegins
  <2> QED
    BY <1>2, <2>1, LoadStep
<1>4. ASSUME NEW p \in Processes, NEW to \in { "RUNNING", "FAILED" }, Attempts!RestartBegins(p, to)
      PROVE  AlertsInv' /\ Attempts!RestartResolves' /\ EndsAreTold'
  <2>1. Attempts!Load(p, "restart", to, Attempts!Unresolved)
    BY <1>4 DEF Attempts!RestartBegins
  <2>2. to \in Attempts!Ended \cup { "RUNNING", None }
    BY DEF Attempts!Ended
  <2>3. /\ Attempts!Unresolved \subseteq DOMAIN alerts
        /\ \A a \in Attempts!Unresolved : ~alerts[a].resolved
    BY DEF Attempts!Unresolved
  <2>4. AlertsInv'
    BY <2>1, <2>2, <2>3, LoadStep
  <2> QED
    BY <1>2, <2>1, <2>4
<1>5. ASSUME NEW p \in Processes, NEW a \in DOMAIN alerts, Attempts!CheckBegins(p, a)
      PROVE  AlertsInv' /\ Attempts!RestartResolves' /\ EndsAreTold'
  <2>1. Attempts!Load(p, "check", None, {a}) /\ ~alerts[a].resolved /\ ~alerts[a].triggered
    BY <1>5 DEF Attempts!CheckBegins, Attempts!Open
  <2>2. AlertsInv'
    BY <2>1, LoadStep
  <2> QED
    BY <1>2, <2>1, <2>2
<1>6. ASSUME NEW p \in Processes, Attempts!CommitEnd(p)
      PROVE  AlertsInv' /\ Attempts!RestartResolves' /\ EndsAreTold'
  <2>1. UNCHANGED <<watched, silent, switches>>
    BY <1>6 DEF Attempts!CommitEnd
  <2>2. \A s : status' = s /\ watched /\ Attempts!SeverityOf(s) # None => Attempts!IsTold(s)'
    BY <1>6, EndStep
  <2>3. WatchedInv'
    BY <2>1 DEF EndsAreTold, WatchedInv
  <2>4. ASSUME switches' = 0, NEW s, s = status', Attempts!SeverityOf(s) # None
        PROVE  Attempts!IsTold(s)'
    BY <2>1, <2>2, <2>4 DEF EndsAreTold, WatchedInv
  <2>5. Attempts!EndIsTold'
    <3> SUFFICES ASSUME switches' = 0, Attempts!SeverityOf(status)' # None
                 PROVE  \E a \in DOMAIN alerts' : alerts'[a].status = status'
      BY DEF Attempts!EndIsTold, Attempts!IsTold
    <3>1. PICK s : s = status'
      OBVIOUS
    <3>2. Attempts!SeverityOf(s) # None
      BY <3>1 DEF Attempts!SeverityOf
    <3> QED
      BY <2>4, <3>1, <3>2 DEF Attempts!IsTold
  <2> QED
    BY <1>6, <2>3, <2>5, EndStep DEF EndsAreTold
<1>7. ASSUME NEW p \in Processes, Attempts!CommitRestart(p)
      PROVE  AlertsInv' /\ Attempts!RestartResolves' /\ EndsAreTold'
  <2>1. UNCHANGED <<watched, switches>>
    BY <1>7 DEF Attempts!CommitRestart
  <2>2. /\ status' \in { "RUNNING", "FAILED" }
        /\ status' = "FAILED" /\ ~silent' /\ watched /\ Attempts!SeverityOf("FAILED") # None
             => Attempts!IsTold("FAILED")'
    BY <1>7, RestartStep
  <2>3. WatchedInv'
    BY <2>1 DEF EndsAreTold, WatchedInv
  <2>4. Attempts!EndIsTold'
    <3> SUFFICES ASSUME status' \in Attempts!Ended, switches' = 0, ~silent',
                        Attempts!SeverityOf(status)' # None
                 PROVE  \E a \in DOMAIN alerts' : alerts'[a].status = status'
      BY DEF Attempts!EndIsTold, Attempts!IsTold, Attempts!Ended
    <3>1. status' = "FAILED"
      BY <2>2 DEF Attempts!Ended
    <3>2. Attempts!SeverityOf("FAILED") # None
      BY <3>1 DEF Attempts!SeverityOf
    <3>3. watched
      BY <2>1 DEF EndsAreTold, WatchedInv
    <3> QED
      BY <2>2, <3>1, <3>2, <3>3 DEF Attempts!IsTold
  <2> QED
    BY <1>7, <2>3, <2>4, RestartStep DEF EndsAreTold
<1>8. ASSUME UNCHANGED <<status, watched, silent, switches>>,
             \A s \in Attempts!Ended : Attempts!IsTold(s) => Attempts!IsTold(s)'
      PROVE  EndsAreTold'
  <2>1. WatchedInv'
    BY <1>8 DEF EndsAreTold, WatchedInv
  <2>2. Attempts!EndIsTold'
    <3> SUFFICES ASSUME status' \in Attempts!Ended, switches' = 0, ~silent',
                        Attempts!SeverityOf(status)' # None
                 PROVE  \E a \in DOMAIN alerts' : alerts'[a].status = status'
      BY DEF Attempts!EndIsTold, Attempts!IsTold, Attempts!Ended
    <3>1. Attempts!IsTold(status) /\ status \in Attempts!Ended
      BY <1>8 DEF EndsAreTold, Attempts!EndIsTold, Attempts!SeverityOf
    <3>2. \E a \in DOMAIN alerts' : alerts'[a].status = status
      BY <1>8, <3>1 DEF Attempts!IsTold
    <3> QED
      BY <1>8, <3>2
  <2> QED
    BY <2>1, <2>2 DEF EndsAreTold
<1>9. ASSUME NEW p \in Processes, Attempts!CommitCheck(p)
      PROVE  AlertsInv' /\ Attempts!RestartResolves' /\ EndsAreTold'
  <2>1. UNCHANGED <<status, watched, silent, switches>>
    BY <1>9 DEF Attempts!CommitCheck
  <2> QED
    BY <1>8, <1>9, <2>1, CheckStep
<1>10. CASE Attempts!Tick
  <2>1. UNCHANGED <<status, watched, silent, switches>>
    BY <1>10 DEF Attempts!Tick
  <2> QED
    BY <1>8, <1>10, <2>1, AlertsTick
<1>11. ASSUME UNCHANGED <<status, attempt, alerts, hands, informed, mixed, silent>>,
              watched' \in BOOLEAN, switches' \in Nat
       PROVE  AlertsInv' /\ Attempts!RestartResolves'
  <2>1. AttemptsTyped'
    BY <1>11 DEF AlertsInv, AttemptsTyped, Attempts!Ended
  <2>2. ReadsAreFresh' /\ RestartsReadAll' /\ KindsDiffer' /\ SentIsClosed'
    BY <1>11 DEF AlertsInv, ReadsAreFresh, RestartsReadAll, KindsDiffer, SentIsClosed,
                 Attempts!Busy, Attempts!Ended
  <2> QED
    BY <1>11, <2>1, <2>2 DEF AlertsInv, Attempts!RestartResolves
<1>12. CASE Attempts!Toggle
  <2>1. /\ UNCHANGED <<status, attempt, alerts, hands, informed, mixed, silent>>
        /\ switches' = switches + 1 /\ watched' = ~watched
    BY <1>12 DEF Attempts!Toggle
  <2>2. switches' # 0 /\ switches' \in Nat
    BY <1>1, <2>1
  <2> QED
    BY <1>11, <2>1, <2>2 DEF EndsAreTold, WatchedInv, Attempts!EndIsTold
<1>13. CASE UNCHANGED Attempts!vars
  <2>1. UNCHANGED <<status, attempt, alerts, hands, informed, mixed, silent, watched, switches>>
    BY <1>13 DEF Attempts!vars
  <2>2. watched' \in BOOLEAN /\ switches' \in Nat
    BY <2>1 DEF AlertsInv, AttemptsTyped
  <2>3. EndsAreTold'
    BY <1>8, <2>1 DEF Attempts!IsTold
  <2> QED
    BY <1>11, <2>1, <2>2, <2>3
<1> QED
  BY <1>3, <1>4, <1>5, <1>6, <1>7, <1>9, <1>10, <1>12, <1>13 DEF Attempts!Next

\* Once a Workflow Execution is started again, no alert about an earlier attempt
\* stays open, unless another process was writing it at that time
\* (WorkflowExecution.resolve_status_change_events).
THEOREM RestartsResolve == Attempts!Spec => []Attempts!RestartResolves
<1> USE AttemptsAssumption
<1>1. /\ AlertsInv /\ Attempts!RestartResolves /\ EndsAreTold
      /\ [Attempts!Next]_Attempts!vars
      => AlertsInv' /\ Attempts!RestartResolves' /\ EndsAreTold'
  BY AlertsStep
<1>2. Attempts!Init => AlertsInv /\ Attempts!RestartResolves /\ EndsAreTold
  <2>1. Attempts!Init => Attempts!EndIsTold
    BY DEF Attempts!Init, Attempts!EndIsTold, Attempts!Ended
  <2> QED
    BY <2>1, AlertsInit DEF EndsAreTold
<1> QED
  BY <1>1, <1>2, PTL DEF Attempts!Spec

\* Users hear of each kind of end of a Workflow Execution, and hear of it once,
\* however often it is started again (Execution.should_create_status_change_event).
THEOREM KindsAreTold == Attempts!Spec => []Attempts!KindsAreToldOnce
<1> USE AttemptsAssumption
<1>1. /\ AlertsInv /\ Attempts!RestartResolves /\ EndsAreTold
      /\ [Attempts!Next]_Attempts!vars
      => AlertsInv' /\ Attempts!RestartResolves' /\ EndsAreTold'
  BY AlertsStep
<1>2. Attempts!Init => AlertsInv /\ Attempts!RestartResolves /\ EndsAreTold
  <2>1. Attempts!Init => Attempts!EndIsTold
    BY DEF Attempts!Init, Attempts!EndIsTold, Attempts!Ended
  <2> QED
    BY <2>1, AlertsInit DEF EndsAreTold
<1>3. AlertsInv /\ EndsAreTold => Attempts!KindsAreToldOnce
  <2> SUFFICES ASSUME AlertsInv, EndsAreTold
               PROVE  Attempts!EachEndOnce
    BY DEF Attempts!KindsAreToldOnce, EndsAreTold
  <2>1. ASSUME NEW s \in Attempts!Ended
        PROVE  Attempts!Cardinality({ a \in DOMAIN alerts :
                 alerts[a].status = s /\ ~alerts[a].resolving }) <= 1
    <3>1. PICK these : these = { a \in DOMAIN alerts :
                                   alerts[a].status = s /\ ~alerts[a].resolving }
      OBVIOUS
    <3>2. \A a, b \in these : a = b
      BY <3>1 DEF AlertsInv, KindsDiffer
    <3>3. Cardinality(these) <= 1
      <4>1. CASE these = {}
        BY <4>1, FS_EmptySet
      <4>2. CASE these # {}
        <5>1. PICK a \in these : TRUE
          BY <4>2
        <5>2. these = {a}
          BY <3>2, <5>1
        <5>3. Cardinality(these) = 1
          BY <5>2, FS_Singleton, Zenon
        <5> QED
          BY <5>3
      <4> QED
        BY <4>1, <4>2
    <3> QED
      BY <3>1, <3>3, AlertsCardinality
  <2>2. \A a \in DOMAIN alerts \ mixed : informed[a] <= 1
    BY DEF AlertsInv, SentIsClosed
  <2> QED
    BY <2>1, <2>2 DEF Attempts!EachEndOnce
<1> QED
  BY <1>1, <1>2, <1>3, PTL DEF Attempts!Spec

-----------------------------------------------------------------------------
(* What becomes of alerts at those who are to hear of them (Delivery).     *)

\* The open alerts about s.
Opens(s) == { i \in DOMAIN rows : rows[i].subject = s /\ Deliveries!IsOpen(i) }

RowsTyped ==
  /\ added \in 0 .. MaxRows /\ changes \in Nat
  /\ DOMAIN rows \subseteq 1 .. added
  /\ rows \in [DOMAIN rows -> Deliveries!Event]
  /\ \A n \in told : n.event \in 1 .. added

OneIsOpen ==
  \A i, j \in DOMAIN rows :
    /\ rows[i].subject = rows[j].subject
    /\ Deliveries!IsOpen(i) /\ Deliveries!IsOpen(j)
    => i = j

\* An incident is open at each method in effect, and at no other.
IncidentsMatch ==
  \A s \in Deliveries!Subjects \ excused :
    IF Opens(s) = {}
    THEN \A m \in Deliveries!PagerDuty : <<m, s>> \notin incidents
    ELSE \A m \in Deliveries!PagerDuty : <<m, s>> \in incidents <=> m \in Deliveries!InEffect

DeliveryInv == RowsTyped /\ OneIsOpen /\ IncidentsMatch

-----------------------------------------------------------------------------
\* The same count, and the same sets, as here.
LEMMA DeliveryCardinality == \A S : Deliveries!Cardinality(S) = Cardinality(S)
BY DEF Deliveries!Cardinality, Cardinality

\* The latest of one.
LEMMA LatestOfOne ==
  ASSUME NEW S \in SUBSET Nat, \A a, b \in S : a = b
  PROVE  LET x == IF S = {} THEN None ELSE Deliveries!Max(S) IN
         /\ x = None <=> S = {}
         /\ \A i \in S : x = i
<1>1. ASSUME NEW i \in S
      PROVE  Deliveries!Max(S) = i
  <2>1. \A x \in S : x = i
    OBVIOUS
  <2>2. \E x \in S : \A y \in S : x >= y
    BY <2>1
  <2> QED
    BY <2>1, <2>2 DEF Deliveries!Max
<1> QED
  BY <1>1, SettingsAssumption

\* The open alert about s, as the code looks for it.
LEMMA OpenAlertIs ==
  ASSUME RowsTyped, OneIsOpen, NEW s
  PROVE  /\ Deliveries!OpenAlert(s) = None <=> Opens(s) = {}
         /\ \A i \in Opens(s) : Deliveries!OpenAlert(s) = i
         /\ Deliveries!OpenAlert(s) # None => Deliveries!OpenAlert(s) \in Opens(s)
<1>1. Opens(s) \in SUBSET Nat /\ \A a, b \in Opens(s) : a = b
  BY DEF RowsTyped, OneIsOpen, Opens
<1>2. Deliveries!OpenAlert(s) = IF Opens(s) = {} THEN None ELSE Deliveries!Max(Opens(s))
  BY DEF Deliveries!OpenAlert, Deliveries!Existing, Opens
<1> QED
  BY <1>1, <1>2, LatestOfOne

\* Only methods in effect are reached, and all of them if nothing goes wrong.
LEMMA ReachedInEffect ==
  ASSUME DeliveryConstants, NEW results \in Deliveries!Outcomes
  PROVE  /\ Deliveries!ReachedBy(results) \cap Deliveries!PagerDuty \subseteq Deliveries!InEffect
         /\ ~(Deliveries!Troubles(results) > 0)
              => Deliveries!InEffect \subseteq Deliveries!ReachedBy(results)
<1>1. ASSUME NEW a \in Deliveries!Attempts
      PROVE  /\ results[a] \in Deliveries!Results(a[2])
             /\ a = <<a[1], a[2]>> /\ a[1] \in Deliveries!Effective /\ a[2] \in MethodsOf[a[1]]
             /\ a[2] \in Deliveries!Methods
  BY DEF Deliveries!Outcomes, Deliveries!Attempts
<1>2. ASSUME NEW m, NEW r \in Deliveries!Results(m), r.heard
      PROVE  m \in active
  BY <1>2 DEF Deliveries!Results
<1>3. ASSUME NEW m \in Deliveries!Methods, NEW r \in Deliveries!Results(m),
             m \in active, ~Deliveries!IsTrouble(r)
      PROVE  r.heard = TRUE
  <2>1. Kind[m] \in { "email", "apprise", "pagerduty" }
    BY DEF DeliveryConstants
  <2> QED
    BY <1>3, <2>1
    DEF Deliveries!Results, Deliveries!IsTrouble, Deliveries!EmailSend, Deliveries!PagerDutySend,
        Deliveries!AppriseSend, Deliveries!Sent, Deliveries!Raises
<1>4. ASSUME NEW m \in Deliveries!ReachedBy(results), m \in Deliveries!PagerDuty
      PROVE  m \in Deliveries!InEffect
  <2>1. PICK a \in Deliveries!Attempts : results[a].heard /\ m = a[2]
    BY <1>4 DEF Deliveries!ReachedBy
  <2>2. results[a] \in Deliveries!Results(m)
    BY <1>1, <2>1
  <2> QED
    BY <1>1, <1>2, <1>4, <2>1, <2>2 DEF Deliveries!InEffect
<1>5. ASSUME ~(Deliveries!Troubles(results) > 0), NEW m \in Deliveries!InEffect
      PROVE  m \in Deliveries!ReachedBy(results)
  <2>1. PICK p \in Deliveries!Effective : m \in MethodsOf[p]
    BY DEF Deliveries!InEffect
  <2>2. p \in Profiles /\ m \in Deliveries!Methods /\ m \in active
    BY <2>1 DEF Deliveries!InEffect, Deliveries!Effective, Deliveries!PagerDuty, DeliveryConstants
  <2>3. <<p, m>> \in Deliveries!Attempts
    BY <2>1, <2>2 DEF Deliveries!Attempts
  <2>4. PICK these : these = { a \in Deliveries!Attempts : Deliveries!IsTrouble(results[a]) }
    OBVIOUS
  <2>5. IsFiniteSet(these)
    <3>1. IsFiniteSet(Profiles \X Deliveries!Methods)
      BY FS_Product DEF DeliveryConstants
    <3>2. these \subseteq Profiles \X Deliveries!Methods
      BY <2>4 DEF Deliveries!Attempts
    <3> QED
      BY <3>1, <3>2, FS_Subset
  <2>6. Deliveries!Troubles(results) = Cardinality(these)
    BY <2>4, DeliveryCardinality DEF Deliveries!Troubles
  <2>7. Cardinality(these) \in Nat
    BY <2>5, FS_CardinalityType
  <2>8. these = {}
    BY <1>5, <2>5, <2>6, <2>7, FS_EmptySet
  <2>9. ~Deliveries!IsTrouble(results[<<p, m>>])
    BY <2>3, <2>4, <2>8
  <2>10. results[<<p, m>>].heard = TRUE
    BY <1>1, <1>3, <2>2, <2>3, <2>9
  <2> QED
    BY <2>3, <2>10 DEF Deliveries!ReachedBy
<1> QED
  BY <1>4, <1>5

-----------------------------------------------------------------------------
(* Rows that are added and dropped.                                        *)

\* The rows before the new one is added: they differ from those that are there in
\* that the open alert about s may be resolved.
Based(base, s) ==
  /\ base \in [DOMAIN rows -> Deliveries!Event]
  /\ \A x \in DOMAIN rows :
       /\ base[x].subject = rows[x].subject
       /\ base[x].resolves = None /\ ~base[x].resolved => Deliveries!IsOpen(x)
       /\ rows[x].subject # s => base[x] = rows[x]

\* What is there afterwards: rows that were not dropped, and the new one.
Becomes(base, i, event, gone) ==
  rows' = [x \in (DOMAIN base \ gone) \cup {i} |-> IF x = i THEN event ELSE base[x]]

\* Adding a row about s changes nothing for subjects of which no alert is dropped.
LEMMA AddKeeps ==
  ASSUME RowsTyped, OneIsOpen,
         NEW s \in Deliveries!Subjects, NEW base, Based(base, s),
         NEW i, i = added + 1, NEW gone, NEW event \in Deliveries!Event,
         event.subject = s, Becomes(base, i, event, gone)
  PROVE  /\ DOMAIN rows' \subseteq 1 .. i
         /\ rows' \in [DOMAIN rows' -> Deliveries!Event]
         /\ i \in DOMAIN rows' /\ rows'[i] = event
         /\ \A t \in Deliveries!Subjects :
              t # s /\ t \notin Deliveries!Dropped(gone) => Opens(t)' = Opens(t)
         /\ \A x \in DOMAIN rows' : x # i =>
              /\ x \in DOMAIN rows /\ x \notin gone
              /\ rows'[x] = base[x] /\ base[x].subject = rows[x].subject
              /\ Deliveries!IsOpen(x)' => Deliveries!IsOpen(x)
<1>1. /\ added \in Nat /\ DOMAIN rows \subseteq 1 .. added /\ DOMAIN base = DOMAIN rows
      /\ rows \in [DOMAIN rows -> Deliveries!Event]
  BY DEF RowsTyped, Based
<1>2. DOMAIN rows' = (DOMAIN rows \ gone) \cup {i} /\ i \notin DOMAIN rows
  BY <1>1 DEF Becomes
<1>3. rows'[i] = event /\ \A x \in DOMAIN rows \ gone : rows'[x] = base[x]
  BY <1>1, <1>2 DEF Becomes
<1>4. rows' \in [DOMAIN rows' -> Deliveries!Event]
  <2>1. \A x \in DOMAIN rows' : rows'[x] \in Deliveries!Event
    BY <1>2, <1>3 DEF Based
  <2>2. rows' = [x \in DOMAIN rows' |-> rows'[x]]
    BY DEF Becomes
  <2> QED
    BY <2>1, <2>2
<1>5. \A x \in DOMAIN rows' : x # i =>
        /\ x \in DOMAIN rows /\ x \notin gone
        /\ rows'[x] = base[x] /\ base[x].subject = rows[x].subject
        /\ Deliveries!IsOpen(x)' => Deliveries!IsOpen(x)
  BY <1>2, <1>3 DEF Based, Deliveries!IsOpen
<1>6. ASSUME NEW t \in Deliveries!Subjects, t # s, t \notin Deliveries!Dropped(gone)
      PROVE  Opens(t)' = Opens(t)
  <2>1. ASSUME NEW x \in Opens(t)
        PROVE  x \in Opens(t)'
    <3>1. x \in DOMAIN rows /\ rows[x].subject = t /\ Deliveries!IsOpen(x)
      BY DEF Opens
    <3>2. x \notin gone
      BY <1>6, <3>1 DEF Deliveries!Dropped, Deliveries!Existing
    <3>3. rows'[x] = rows[x] /\ x \in DOMAIN rows'
      BY <1>2, <1>3, <1>6, <3>1, <3>2 DEF Based
    <3> QED
      BY <3>1, <3>3 DEF Opens, Deliveries!IsOpen
  <2>2. ASSUME NEW x \in Opens(t)'
        PROVE  x \in Opens(t)
    <3>1. x \in DOMAIN rows' /\ rows'[x].subject = t /\ Deliveries!IsOpen(x)'
      BY DEF Opens
    <3>2. x # i
      BY <1>3, <1>6, <3>1
    <3> QED
      BY <1>5, <3>1, <3>2 DEF Opens
  <2> QED
    BY <2>1, <2>2
<1> QED
  BY <1>1, <1>2, <1>3, <1>4, <1>5, <1>6

\* A new alert about s is the one that is open.
LEMMA RaiseKeeps ==
  ASSUME DeliveryConstants, RowsTyped, OneIsOpen, added < MaxRows,
         NEW s \in Deliveries!Subjects, NEW i, i = added + 1, NEW gone,
         Becomes(rows, i, Deliveries!AlertAbout(s), gone), Opens(s) = {}
  PROVE  /\ DOMAIN rows' \subseteq 1 .. i
         /\ rows' \in [DOMAIN rows' -> Deliveries!Event]
         /\ OneIsOpen'
         /\ \A t \in Deliveries!Subjects :
              t # s /\ t \notin Deliveries!Dropped(gone) => Opens(t)' = Opens(t)
         /\ Opens(s)' = {i}
         /\ i \in DOMAIN rows'
         /\ \A x \in DOMAIN rows' : x # i => x \in DOMAIN rows /\ x \notin gone
<1>1. Based(rows, s)
  BY DEF Based, RowsTyped, Deliveries!IsOpen
<1>2. PICK event : event = Deliveries!AlertAbout(s)
  OBVIOUS
<1>3. event \in Deliveries!Event /\ event.subject = s /\ event.resolves = None /\ ~event.resolved
  <2>1. i \in Deliveries!Row
    BY DEF Deliveries!Row, RowsTyped, DeliveryConstants
  <2> QED
    BY <1>2, <2>1 DEF Deliveries!AlertAbout, Deliveries!Event
<1>4. /\ DOMAIN rows' \subseteq 1 .. i
      /\ rows' \in [DOMAIN rows' -> Deliveries!Event]
      /\ i \in DOMAIN rows' /\ rows'[i] = event
      /\ \A t \in Deliveries!Subjects :
           t # s /\ t \notin Deliveries!Dropped(gone) => Opens(t)' = Opens(t)
      /\ \A x \in DOMAIN rows' : x # i =>
           /\ x \in DOMAIN rows /\ x \notin gone
           /\ rows'[x] = rows[x]
           /\ Deliveries!IsOpen(x)' => Deliveries!IsOpen(x)
  BY <1>1, <1>2, <1>3, AddKeeps
<1>5. Opens(s)' = {i}
  <2>1. i \in Opens(s)'
    BY <1>3, <1>4 DEF Opens, Deliveries!IsOpen
  <2>2. ASSUME NEW x \in Opens(s)'
        PROVE  x = i
    BY <1>4 DEF Opens
  <2> QED
    BY <2>1, <2>2
<1>6. OneIsOpen'
  <2> SUFFICES ASSUME NEW x \in DOMAIN rows', NEW y \in DOMAIN rows',
                      rows'[x].subject = rows'[y].subject,
                      Deliveries!IsOpen(x)', Deliveries!IsOpen(y)'
               PROVE  x = y
    BY DEF OneIsOpen
  <2>1. CASE rows'[x].subject = s
    <3>1. x \in Opens(s)' /\ y \in Opens(s)'
      BY <2>1 DEF Opens
    <3> QED
      BY <1>5, <3>1
  <2>2. CASE rows'[x].subject # s
    <3>1. x # i /\ y # i
      BY <1>3, <1>4, <2>2
    <3>2. /\ x \in DOMAIN rows /\ rows'[x] = rows[x] /\ Deliveries!IsOpen(x)
          /\ y \in DOMAIN rows /\ rows'[y] = rows[y] /\ Deliveries!IsOpen(y)
      BY <1>4, <3>1
    <3> QED
      BY <3>2 DEF OneIsOpen
  <2> QED
    BY <2>1, <2>2
<1> QED
  BY <1>4, <1>5, <1>6

\* The rows with the open alert about s resolved.
LEMMA ResolvedBased ==
  ASSUME RowsTyped, OneIsOpen, NEW s, NEW alert \in Opens(s)
  PROVE  /\ Based(Deliveries!Resolved(alert), s)
         /\ Deliveries!Resolved(alert)[alert].resolved
<1>1. alert \in DOMAIN rows /\ rows[alert].subject = s
  BY DEF Opens
<1>2. rows \in [DOMAIN rows -> Deliveries!Event]
  BY DEF RowsTyped
<1>3. PICK base : base = Deliveries!Resolved(alert)
  OBVIOUS
<1>4. base = [rows EXCEPT ![alert].resolved = TRUE]
  BY <1>3 DEF Deliveries!Resolved
<1>5. ASSUME NEW x \in DOMAIN rows
      PROVE  /\ x # alert => base[x] = rows[x]
             /\ x = alert => base[x] = [rows[alert] EXCEPT !.resolved = TRUE]
  BY <1>2, <1>4
<1>6. [rows[alert] EXCEPT !.resolved = TRUE] \in Deliveries!Event
  BY <1>1, <1>2 DEF Deliveries!Event
<1>7. base \in [DOMAIN rows -> Deliveries!Event]
  BY <1>1, <1>2, <1>4, <1>6
<1>8. base[alert].resolved /\ base[alert].subject = s
  BY <1>1, <1>2, <1>5 DEF Deliveries!Event
<1> QED
  BY <1>1, <1>3, <1>5, <1>7, <1>8 DEF Based, Deliveries!IsOpen

\* The resolution of the open alert about s leaves none open.
LEMMA RecoverKeeps ==
  ASSUME DeliveryConstants, RowsTyped, OneIsOpen, added < MaxRows,
         NEW s \in Deliveries!Subjects, NEW i, i = added + 1, NEW gone,
         NEW alert \in Opens(s), NEW at \in Deliveries!Row,
         NEW base, base = Deliveries!Resolved(alert),
         NEW event,
         event = [ subject |-> s, at |-> at, resolves |-> alert, resolved |-> FALSE ],
         Becomes(base, i, event, gone)
  PROVE  /\ DOMAIN rows' \subseteq 1 .. i
         /\ rows' \in [DOMAIN rows' -> Deliveries!Event]
         /\ OneIsOpen'
         /\ \A t \in Deliveries!Subjects :
              t # s /\ t \notin Deliveries!Dropped(gone) => Opens(t)' = Opens(t)
         /\ Opens(s)' = {}
         /\ i \in DOMAIN rows'
         /\ \A x \in DOMAIN rows' : x # i => x \in DOMAIN rows /\ x \notin gone
<1>1. Based(base, s) /\ base[alert].resolved
  BY ResolvedBased
<1>2. alert \in Deliveries!Row /\ alert # None
  BY SettingsAssumption DEF Opens, RowsTyped, Deliveries!Row, DeliveryConstants
<1>3. event \in Deliveries!Event /\ event.subject = s /\ event.resolves # None
  BY <1>2 DEF Deliveries!Event
<1>4. /\ DOMAIN rows' \subseteq 1 .. i
      /\ rows' \in [DOMAIN rows' -> Deliveries!Event]
      /\ i \in DOMAIN rows' /\ rows'[i] = event
      /\ \A t \in Deliveries!Subjects :
           t # s /\ t \notin Deliveries!Dropped(gone) => Opens(t)' = Opens(t)
      /\ \A x \in DOMAIN rows' : x # i =>
           /\ x \in DOMAIN rows /\ x \notin gone
           /\ rows'[x] = base[x] /\ base[x].subject = rows[x].subject
           /\ Deliveries!IsOpen(x)' => Deliveries!IsOpen(x)
  BY <1>1, <1>3, AddKeeps
<1>5. ~Deliveries!IsOpen(i)'
  BY <1>3, <1>4 DEF Deliveries!IsOpen
<1>6. ASSUME NEW x \in DOMAIN rows', x # i, rows'[x].subject = s
      PROVE  ~Deliveries!IsOpen(x)'
  <2>1. CASE x = alert
    BY <1>1, <1>4, <1>6, <2>1 DEF Deliveries!IsOpen
  <2>2. CASE x # alert
    BY <1>4, <1>6, <2>2 DEF OneIsOpen, Opens
  <2> QED
    BY <2>1, <2>2
<1>7. Opens(s)' = {}
  BY <1>5, <1>6 DEF Opens
<1>8. OneIsOpen'
  <2> SUFFICES ASSUME NEW x \in DOMAIN rows', NEW y \in DOMAIN rows',
                      rows'[x].subject = rows'[y].subject,
                      Deliveries!IsOpen(x)', Deliveries!IsOpen(y)'
               PROVE  x = y
    BY DEF OneIsOpen
  <2>1. x # i /\ y # i
    BY <1>5
  <2> QED
    BY <1>4, <2>1 DEF OneIsOpen
<1> QED
  BY <1>4, <1>7, <1>8

-----------------------------------------------------------------------------
(* The steps.                                                              *)

\* An alert, or its resolution, that is added and sent.  `base` are the rows it is
\* added to.
LEMMA AddAndSendStep ==
  ASSUME DeliveryConstants, DeliveryInv, added < MaxRows,
         NEW s \in Deliveries!Subjects, NEW base, NEW event, NEW gone,
         NEW results \in Deliveries!Outcomes, NEW lasts \in BOOLEAN,
         Deliveries!AddAndSend(base, event, gone, results, lasts),
         UNCHANGED <<active, changes>>,
         event.subject = s,
         \/ /\ base = rows /\ event = Deliveries!AlertAbout(s) /\ Opens(s) = {}
         \/ \E alert \in Opens(s), at \in Deliveries!Row :
              /\ base = Deliveries!Resolved(alert)
              /\ event = [ subject |-> s, at |-> at, resolves |-> alert, resolved |-> FALSE ]
  PROVE  DeliveryInv'
<1>1. PICK i : i = added + 1
  OBVIOUS
<1>2. /\ added' = i
      /\ rows' = IF lasts
                 THEN [x \in (DOMAIN base \ gone) \cup {i} |-> IF x = i THEN event ELSE base[x]]
                 ELSE rows
      /\ told' = IF ~lasts THEN told
                 ELSE { n \in told : n.event \notin gone }
                        \cup { [ event |-> i, profile |-> a[1], method |-> a[2],
                                 status |-> results[a].status ] : a \in Deliveries!Attempts }
      /\ incidents' = Deliveries!IncidentsAfter(s, event.resolves # None,
                                                Deliveries!ReachedBy(results))
      /\ excused' = excused
           \cup (IF ~lasts \/ Deliveries!Troubles(results) > 0 THEN {s} ELSE {})
           \cup (IF lasts THEN Deliveries!Dropped(gone) ELSE {})
  BY <1>1 DEF Deliveries!AddAndSend
<1>3. /\ added \in 0 .. MaxRows /\ changes \in Nat /\ MaxRows \in Nat
      /\ DOMAIN rows \subseteq 1 .. added
      /\ \A n \in told : n.event \in 1 .. added
      /\ rows \in [DOMAIN rows -> Deliveries!Event]
  BY DEF DeliveryInv, RowsTyped, DeliveryConstants
<1>4. i \in 1 .. MaxRows
  BY <1>1, <1>3
<1>5. \A n \in told' : n.event \in 1 .. i
  <2> SUFFICES ASSUME NEW n \in told'
               PROVE  n.event \in 1 .. i
    OBVIOUS
  <2>1. CASE n \in told
    BY <1>1, <1>3, <2>1
  <2>2. CASE n \notin told
    <3>1. n.event = i
      BY <1>2, <2>2
    <3> QED
      BY <1>4, <3>1
  <2> QED
    BY <2>1, <2>2
<1>6. /\ DOMAIN rows' \subseteq 1 .. i
      /\ rows' \in [DOMAIN rows' -> Deliveries!Event]
      /\ OneIsOpen'
      /\ \A t \in Deliveries!Subjects :
           t # s /\ (lasts => t \notin Deliveries!Dropped(gone)) => Opens(t)' = Opens(t)
      /\ lasts => IF event.resolves = None THEN Opens(s)' # {} ELSE Opens(s)' = {}
  <2>1. CASE ~lasts
    <3>1. rows' = rows
      BY <1>2, <2>1
    <3>2. \A t \in Deliveries!Subjects : Opens(t)' = Opens(t)
      BY <3>1 DEF Opens, Deliveries!IsOpen
    <3>3. OneIsOpen'
      BY <3>1 DEF DeliveryInv, OneIsOpen, Deliveries!IsOpen
    <3> QED
      BY <1>1, <1>3, <2>1, <3>1, <3>2, <3>3
  <2>2. CASE lasts /\ base = rows /\ event = Deliveries!AlertAbout(s) /\ Opens(s) = {}
    <3>1. Becomes(rows, i, Deliveries!AlertAbout(s), gone)
      BY <1>2, <2>2 DEF Becomes
    <3>2. event.resolves = None
      BY <2>2 DEF Deliveries!AlertAbout
    <3> QED
      BY <1>1, <2>2, <3>1, <3>2, RaiseKeeps DEF DeliveryInv
  <2>3. ASSUME lasts, NEW alert \in Opens(s), NEW at \in Deliveries!Row,
               base = Deliveries!Resolved(alert),
               event = [ subject |-> s, at |-> at, resolves |-> alert, resolved |-> FALSE ]
        PROVE  /\ DOMAIN rows' \subseteq 1 .. i
               /\ rows' \in [DOMAIN rows' -> Deliveries!Event]
               /\ OneIsOpen'
               /\ \A t \in Deliveries!Subjects :
                    t # s /\ t \notin Deliveries!Dropped(gone) => Opens(t)' = Opens(t)
               /\ Opens(s)' = {} /\ event.resolves # None
    <3>1. Becomes(base, i, event, gone)
      BY <1>2, <2>3 DEF Becomes
    <3>2. event.resolves # None
      BY <1>3, <2>3, SettingsAssumption DEF Opens
    <3>3. RowsTyped /\ OneIsOpen
      BY DEF DeliveryInv
    <3>4. /\ DOMAIN rows' \subseteq 1 .. i
          /\ rows' \in [DOMAIN rows' -> Deliveries!Event]
          /\ OneIsOpen'
          /\ \A t \in Deliveries!Subjects :
               t # s /\ t \notin Deliveries!Dropped(gone) => Opens(t)' = Opens(t)
          /\ Opens(s)' = {}
      BY <1>1, <2>3, <3>1, <3>3, RecoverKeeps
    <3> QED
      BY <3>2, <3>4
  <2> QED
    BY <2>1, <2>2, <2>3
<1>7. RowsTyped'
  BY <1>2, <1>3, <1>4, <1>5, <1>6 DEF RowsTyped
<1>8. Deliveries!InEffect' = Deliveries!InEffect
  BY DEF Deliveries!InEffect, Deliveries!Effective
<1>9. IncidentsMatch'
  <2> SUFFICES ASSUME NEW t \in Deliveries!Subjects, t \notin excused'
               PROVE  IF Opens(t)' = {}
                      THEN \A m \in Deliveries!PagerDuty : <<m, t>> \notin incidents'
                      ELSE \A m \in Deliveries!PagerDuty :
                             <<m, t>> \in incidents' <=> m \in Deliveries!InEffect
    BY <1>8 DEF IncidentsMatch
  <2>1. IF Opens(t) = {}
        THEN \A m \in Deliveries!PagerDuty : <<m, t>> \notin incidents
        ELSE \A m \in Deliveries!PagerDuty :
               <<m, t>> \in incidents <=> m \in Deliveries!InEffect
    BY <1>2 DEF DeliveryInv, IncidentsMatch
  <2>2. PICK reached : reached = Deliveries!ReachedBy(results) \cap Deliveries!PagerDuty
    OBVIOUS
  <2>3. incidents' = IF event.resolves # None THEN incidents \ (reached \X {s})
                     ELSE incidents \cup (reached \X {s})
    BY <1>2, <2>2 DEF Deliveries!IncidentsAfter, Deliveries!GroupingKey
  <2>4. CASE t # s
    <3>1. Opens(t)' = Opens(t)
      BY <1>2, <1>6, <2>4
    <3>2. \A m : <<m, t>> \in incidents' <=> <<m, t>> \in incidents
      BY <2>3, <2>4
    <3> QED
      BY <2>1, <3>1, <3>2
  <2>5. CASE t = s
    <3>1. lasts /\ ~(Deliveries!Troubles(results) > 0)
      BY <1>2, <2>5
    <3>2. reached = Deliveries!InEffect
      <4>1. Deliveries!InEffect \subseteq Deliveries!PagerDuty
        BY DEF Deliveries!InEffect
      <4> QED
        BY <2>2, <3>1, <4>1, ReachedInEffect
    <3>3. CASE event.resolves = None
      <4>1. Opens(s)' # {} /\ Opens(s) = {}
        BY <1>3, <1>6, <3>1, <3>3, SettingsAssumption DEF Opens
      <4> QED
        BY <2>1, <2>3, <2>5, <3>2, <3>3, <4>1
    <3>4. CASE event.resolves # None
      <4>1. Opens(s)' = {} /\ Opens(s) # {}
        BY <1>6, <3>1, <3>4 DEF Deliveries!AlertAbout
      <4> QED
        BY <2>1, <2>3, <2>5, <3>2, <3>4, <4>1
    <3> QED
      BY <3>3, <3>4
  <2> QED
    BY <2>4, <2>5
<1> QED
  BY <1>6, <1>7, <1>9 DEF DeliveryInv

\* No Event but those of processes that died is without a Notification, and what that
\* says is true, if every profile has a method.
ProfilesReach == \A p \in Profiles : MethodsOf[p] # {}

LEMMA AccountStep ==
  ASSUME DeliveryConstants, ProfilesReach, RowsTyped, Deliveries!NotificationsAccount,
         NEW base, DOMAIN base = DOMAIN rows, NEW event, NEW gone,
         NEW results \in Deliveries!Outcomes, NEW lasts \in BOOLEAN,
         Deliveries!AddAndSend(base, event, gone, results, lasts),
         UNCHANGED <<active, changes, unsent>>
  PROVE  Deliveries!NotificationsAccount'
<1> SUFFICES ASSUME changes = 0, NEW x \in DOMAIN rows', x \notin unsent
             PROVE  /\ active \cap Profiles # {} => \E n \in told' : n.event = x
                    /\ \A n \in told' :
                         n.event = x /\ n.status = "SUCCEEDED" /\ Kind[n.method] # "apprise"
                           => <<x, n.method>> \in heard'
  BY DEF Deliveries!NotificationsAccount, Deliveries!Existing
<1>1. PICK i : i = added + 1
  OBVIOUS
<1>2. /\ added' = i
      /\ rows' = IF lasts
                 THEN [y \in (DOMAIN base \ gone) \cup {i} |-> IF y = i THEN event ELSE base[y]]
                 ELSE rows
      /\ told' = IF ~lasts THEN told
                 ELSE { n \in told : n.event \notin gone }
                        \cup { [ event |-> i, profile |-> a[1], method |-> a[2],
                                 status |-> results[a].status ] : a \in Deliveries!Attempts }
      /\ heard' = heard \cup ({i} \X Deliveries!ReachedBy(results))
  BY <1>1 DEF Deliveries!AddAndSend
<1>3. /\ added \in Nat /\ DOMAIN rows \subseteq 1 .. added
      /\ \A n \in told : n.event \in 1 .. added
  BY DEF RowsTyped
<1>4. ASSUME NEW y \in DOMAIN rows, y \notin unsent
      PROVE  /\ active \cap Profiles # {} => \E n \in told : n.event = y
             /\ \A n \in told :
                  n.event = y /\ n.status = "SUCCEEDED" /\ Kind[n.method] # "apprise"
                    => <<y, n.method>> \in heard
  BY <1>4 DEF Deliveries!NotificationsAccount, Deliveries!Existing
<1>5. CASE ~lasts
  BY <1>2, <1>4, <1>5
<1>6. CASE lasts /\ x # i
  <2>1. x \in DOMAIN rows /\ x \notin gone
    BY <1>2, <1>6
  <2>2. \A n \in told' : n.event = x => n \in told
    BY <1>2, <1>6
  <2>3. \A n \in told : n.event = x => n \in told'
    BY <1>2, <1>6, <2>1
  <2> QED
    BY <1>2, <1>4, <2>1, <2>2, <2>3
<1>7. CASE lasts /\ x = i
  <2>1. ASSUME active \cap Profiles # {}
        PROVE  \E n \in told' : n.event = i
    <3>1. PICK p \in Deliveries!Effective : p \in Profiles
      BY <2>1 DEF Deliveries!Effective, DeliveryConstants
    <3>2. PICK m : m \in MethodsOf[p] /\ m \in Deliveries!Methods
      BY <3>1 DEF ProfilesReach, Deliveries!Methods
    <3>3. <<p, m>> \in Deliveries!Attempts
      BY <3>1, <3>2 DEF Deliveries!Attempts
    <3>4. PICK n : n = [ event |-> i, profile |-> p, method |-> m,
                         status |-> results[<<p, m>>].status ]
      OBVIOUS
    <3>5. n \in told'
      BY <1>2, <1>7, <3>3, <3>4
    <3> QED
      BY <3>4, <3>5
  <2>2. ASSUME NEW n \in told', n.event = i, n.status = "SUCCEEDED", Kind[n.method] # "apprise"
        PROVE  <<i, n.method>> \in heard'
    <3>1. n \notin told
      BY <1>1, <1>3, <2>2
    <3>2. PICK a \in Deliveries!Attempts :
            n = [ event |-> i, profile |-> a[1], method |-> a[2], status |-> results[a].status ]
      BY <1>2, <1>7, <3>1
    <3>3. PICK m : m = a[2]
      OBVIOUS
    <3>4. n.method = m /\ results[a].status = "SUCCEEDED" /\ results[a] \in Deliveries!Results(m)
      BY <2>2, <3>2, <3>3 DEF Deliveries!Outcomes
    <3>5. m \in Deliveries!Methods
      BY <3>3 DEF Deliveries!Attempts
    <3>6. Kind[m] = "email" \/ Kind[m] = "pagerduty"
      BY <2>2, <3>4, <3>5 DEF DeliveryConstants
    <3>7. results[a].heard
      BY <3>4, <3>6
      DEF Deliveries!Results, Deliveries!EmailSend, Deliveries!PagerDutySend,
          Deliveries!Sent, Deliveries!Raises
    <3>8. m \in Deliveries!ReachedBy(results)
      BY <3>3, <3>7 DEF Deliveries!ReachedBy
    <3> QED
      BY <1>2, <3>4, <3>8
  <2> QED
    BY <1>7, <2>1, <2>2
<1> QED
  BY <1>5, <1>6, <1>7

\* Rows that are dropped, and one that is added without a word: subjects to which that
\* happens are excused.
LEMMA QuietStep ==
  ASSUME DeliveryConstants, DeliveryInv, NEW gone,
         UNCHANGED <<active, incidents, changes>>,
         told' = { n \in told : n.event \notin gone },
         NEW s \in Deliveries!Subjects,
         excused' = excused \cup {s} \cup Deliveries!Dropped(gone),
         added' \in { added, added + 1 }, added' \in 0 .. MaxRows,
         DOMAIN rows' \subseteq 1 .. added', rows' \in [DOMAIN rows' -> Deliveries!Event],
         OneIsOpen',
         \A t \in Deliveries!Subjects :
           t # s /\ t \notin Deliveries!Dropped(gone) => Opens(t)' = Opens(t)
  PROVE  DeliveryInv'
<1>1. /\ added \in 0 .. MaxRows /\ changes \in Nat /\ MaxRows \in Nat
      /\ \A n \in told : n.event \in 1 .. added
  BY DEF DeliveryInv, RowsTyped, DeliveryConstants
<1>2. RowsTyped'
  BY <1>1 DEF RowsTyped
<1>3. Deliveries!InEffect' = Deliveries!InEffect
  BY DEF Deliveries!InEffect, Deliveries!Effective
<1>4. IncidentsMatch'
  BY <1>3 DEF DeliveryInv, IncidentsMatch
<1> QED
  BY <1>2, <1>4 DEF DeliveryInv

\* The same for what Notifications say.
LEMMA QuietAccount ==
  ASSUME Deliveries!NotificationsAccount, NEW gone,
         UNCHANGED <<active, changes, heard>>, unsent \subseteq unsent',
         told' = { n \in told : n.event \notin gone },
         \A x \in DOMAIN rows' : x \notin unsent' => x \in DOMAIN rows /\ x \notin gone
  PROVE  Deliveries!NotificationsAccount'
<1> SUFFICES ASSUME changes = 0, NEW x \in DOMAIN rows', x \notin unsent'
             PROVE  /\ active \cap Profiles # {} => \E n \in told' : n.event = x
                    /\ \A n \in told' :
                         n.event = x /\ n.status = "SUCCEEDED" /\ Kind[n.method] # "apprise"
                           => <<x, n.method>> \in heard'
  BY DEF Deliveries!NotificationsAccount, Deliveries!Existing
<1>1. x \in DOMAIN rows /\ x \notin gone /\ x \notin unsent
  OBVIOUS
<1>2. /\ active \cap Profiles # {} => \E n \in told : n.event = x
      /\ \A n \in told :
           n.event = x /\ n.status = "SUCCEEDED" /\ Kind[n.method] # "apprise"
             => <<x, n.method>> \in heard
  BY <1>1 DEF Deliveries!NotificationsAccount, Deliveries!Existing
<1> QED
  BY <1>1, <1>2

\* The schedule checker finds that the alert it is to resolve was dropped.
LEMMA DroppedStep ==
  ASSUME DeliveryInv, NEW s, NEW alert \in Opens(s), NEW gone, alert \in gone,
         rows' = [x \in DOMAIN rows \ gone |-> Deliveries!Resolved(alert)[x]]
  PROVE  /\ DOMAIN rows' \subseteq 1 .. added
         /\ rows' \in [DOMAIN rows' -> Deliveries!Event]
         /\ OneIsOpen'
         /\ s \in Deliveries!Dropped(gone)
         /\ \A t \in Deliveries!Subjects :
              t # s /\ t \notin Deliveries!Dropped(gone) => Opens(t)' = Opens(t)
<1>1. RowsTyped /\ OneIsOpen
  BY DEF DeliveryInv
<1>2. PICK base : base = Deliveries!Resolved(alert)
  OBVIOUS
<1>3. Based(base, s)
  BY <1>1, <1>2, ResolvedBased
<1>4. DOMAIN rows' = DOMAIN rows \ gone /\ \A x \in DOMAIN rows \ gone : rows'[x] = base[x]
  BY <1>2
<1>5. \A x \in DOMAIN rows' :
        /\ x \in DOMAIN rows /\ x \notin gone
        /\ rows'[x] \in Deliveries!Event
        /\ rows'[x].subject = rows[x].subject
        /\ Deliveries!IsOpen(x)' => Deliveries!IsOpen(x)
        /\ rows[x].subject # s => rows'[x] = rows[x]
  BY <1>3, <1>4 DEF Based, Deliveries!IsOpen
<1>6. rows' \in [DOMAIN rows' -> Deliveries!Event]
  <2>1. rows' = [x \in DOMAIN rows' |-> rows'[x]]
    OBVIOUS
  <2> QED
    BY <1>5, <2>1
<1>7. OneIsOpen'
  <2> SUFFICES ASSUME NEW x \in DOMAIN rows', NEW y \in DOMAIN rows',
                      rows'[x].subject = rows'[y].subject,
                      Deliveries!IsOpen(x)', Deliveries!IsOpen(y)'
               PROVE  x = y
    BY DEF OneIsOpen
  <2> QED
    BY <1>1, <1>5 DEF OneIsOpen
<1>8. s \in Deliveries!Dropped(gone)
  <2>1. alert \in DOMAIN rows /\ rows[alert].subject = s /\ Deliveries!IsOpen(alert)
    BY DEF Opens
  <2> QED
    BY <2>1 DEF Deliveries!Dropped, Deliveries!Existing
<1>9. ASSUME NEW t \in Deliveries!Subjects, t # s, t \notin Deliveries!Dropped(gone)
      PROVE  Opens(t)' = Opens(t)
  <2>1. ASSUME NEW x \in Opens(t)
        PROVE  x \in Opens(t)'
    <3>1. x \in DOMAIN rows /\ rows[x].subject = t /\ Deliveries!IsOpen(x)
      BY DEF Opens
    <3>2. x \notin gone
      BY <1>9, <3>1 DEF Deliveries!Dropped, Deliveries!Existing
    <3>3. rows'[x] = rows[x] /\ x \in DOMAIN rows'
      BY <1>4, <1>5, <1>9, <3>1, <3>2
    <3> QED
      BY <3>1, <3>3 DEF Opens, Deliveries!IsOpen
  <2>2. ASSUME NEW x \in Opens(t)'
        PROVE  x \in Opens(t)
    <3>1. x \in DOMAIN rows' /\ rows'[x].subject = t /\ Deliveries!IsOpen(x)'
      BY DEF Opens
    <3> QED
      BY <1>5, <3>1 DEF Opens
  <2> QED
    BY <2>1, <2>2
<1> QED
  BY <1>1, <1>4, <1>6, <1>7, <1>8, <1>9 DEF RowsTyped

\* Every step keeps this.
LEMMA DeliveryStep ==
  ASSUME DeliveryConstants, DeliveryInv, [Deliveries!Next]_Deliveries!vars
  PROVE  /\ DeliveryInv'
         /\ ProfilesReach /\ Deliveries!NotificationsAccount => Deliveries!NotificationsAccount'
<1>1. /\ added \in 0 .. MaxRows /\ changes \in Nat /\ MaxRows \in Nat
      /\ DOMAIN rows \subseteq 1 .. added
      /\ rows \in [DOMAIN rows -> Deliveries!Event]
      /\ RowsTyped /\ OneIsOpen
  BY DEF DeliveryInv, RowsTyped, DeliveryConstants
<1>2. ASSUME added < MaxRows, NEW s \in Deliveries!Subjects, Deliveries!OpenAlert(s) = None,
             NEW gone, NEW results \in Deliveries!Outcomes, NEW lasts \in BOOLEAN,
             Deliveries!AddAndSend(rows, Deliveries!AlertAbout(s), gone, results, lasts),
             UNCHANGED <<active, changes, unsent>>
      PROVE  /\ DeliveryInv'
             /\ ProfilesReach /\ Deliveries!NotificationsAccount
                  => Deliveries!NotificationsAccount'
  <2>1. Opens(s) = {}
    BY <1>1, <1>2, OpenAlertIs
  <2>2. PICK event : event = Deliveries!AlertAbout(s)
    OBVIOUS
  <2>3. event.subject = s
    BY <2>2 DEF Deliveries!AlertAbout
  <2>4. DeliveryInv'
    BY <1>2, <2>1, <2>2, <2>3, AddAndSendStep
  <2>5. ProfilesReach /\ Deliveries!NotificationsAccount => Deliveries!NotificationsAccount'
    BY <1>1, <1>2, <2>2, AccountStep
  <2> QED
    BY <2>4, <2>5
<1>3. ASSUME added < MaxRows, NEW s \in Deliveries!Subjects, NEW alert \in Opens(s),
             NEW at \in Deliveries!Row, NEW event,
             event = [ subject |-> s, at |-> at, resolves |-> alert, resolved |-> FALSE ],
             NEW gone, NEW results \in Deliveries!Outcomes, NEW lasts \in BOOLEAN,
             Deliveries!AddAndSend(Deliveries!Resolved(alert), event, gone, results, lasts),
             UNCHANGED <<active, changes, unsent>>
      PROVE  /\ DeliveryInv'
             /\ ProfilesReach /\ Deliveries!NotificationsAccount
                  => Deliveries!NotificationsAccount'
  <2>1. PICK base : base = Deliveries!Resolved(alert)
    OBVIOUS
  <2>2. event.subject = s
    BY <1>3
  <2>3. DOMAIN base = DOMAIN rows
    BY <2>1 DEF Deliveries!Resolved
  <2>4. Deliveries!AddAndSend(base, event, gone, results, lasts)
    BY <1>3, <2>1
  <2>5. DeliveryInv'
    BY <1>3, <2>1, <2>2, <2>4, AddAndSendStep
  <2>6. ProfilesReach /\ Deliveries!NotificationsAccount => Deliveries!NotificationsAccount'
    BY <1>1, <1>3, <2>3, <2>4, AccountStep
  <2> QED
    BY <2>5, <2>6
<1>4. ASSUME NEW s \in Silences, Deliveries!RaiseSilence(s)
      PROVE  /\ DeliveryInv'
             /\ ProfilesReach /\ Deliveries!NotificationsAccount
                  => Deliveries!NotificationsAccount'
  <2>1. s \in Deliveries!Subjects
    BY DEF Deliveries!Subjects
  <2>2. PICK gone \in Deliveries!Gone(rows, TRUE), results \in Deliveries!Outcomes,
             lasts \in BOOLEAN :
               Deliveries!AddAndSend(rows, Deliveries!AlertAbout(s), gone, results, lasts)
    BY <1>4 DEF Deliveries!RaiseSilence
  <2>3. /\ added < MaxRows /\ Deliveries!OpenAlert(s) = None
        /\ UNCHANGED <<active, changes, unsent>>
    BY <1>4 DEF Deliveries!RaiseSilence
  <2> QED
    BY <1>2, <2>1, <2>2, <2>3
<1>5. ASSUME NEW s \in Misses, Deliveries!RaiseMiss(s)
      PROVE  /\ DeliveryInv'
             /\ ProfilesReach /\ Deliveries!NotificationsAccount
                  => Deliveries!NotificationsAccount'
  <2>1. s \in Deliveries!Subjects
    BY DEF Deliveries!Subjects
  <2>2. PICK gone \in Deliveries!Gone(rows, FALSE), results \in Deliveries!Outcomes :
               Deliveries!AddAndSend(rows, Deliveries!AlertAbout(s), gone, results, TRUE)
    BY <1>5 DEF Deliveries!RaiseMiss
  <2>3. /\ added < MaxRows /\ Deliveries!OpenAlert(s) = None
        /\ UNCHANGED <<active, changes, unsent>>
    BY <1>5 DEF Deliveries!RaiseMiss
  <2> QED
    BY <1>2, <2>1, <2>2, <2>3
<1>6. ASSUME NEW s \in Misses, Deliveries!DieRaisingMiss(s)
      PROVE  /\ DeliveryInv'
             /\ ProfilesReach /\ Deliveries!NotificationsAccount
                  => Deliveries!NotificationsAccount'
  <2>1. s \in Deliveries!Subjects
    BY DEF Deliveries!Subjects
  <2>2. PICK gone \in Deliveries!Gone(rows, FALSE) :
          /\ rows' = [x \in (DOMAIN rows \ gone) \cup {added'} |->
                        IF x = added' THEN Deliveries!AlertAbout(s) ELSE rows[x]]
          /\ told' = { n \in told : n.event \notin gone }
          /\ excused' = excused \cup {s} \cup Deliveries!Dropped(gone)
    BY <1>6 DEF Deliveries!DieRaisingMiss, Deliveries!Existing
  <2>3. /\ added < MaxRows /\ Deliveries!OpenAlert(s) = None
        /\ added' = added + 1 /\ unsent' = unsent \cup {added'}
        /\ UNCHANGED <<active, changes, heard, incidents>>
    BY <1>6 DEF Deliveries!DieRaisingMiss
  <2>4. Opens(s) = {}
    BY <1>1, <2>3, OpenAlertIs
  <2>5. PICK i : i = added + 1
    OBVIOUS
  <2>6. Becomes(rows, i, Deliveries!AlertAbout(s), gone)
    BY <2>2, <2>3, <2>5 DEF Becomes
  <2>7. /\ DOMAIN rows' \subseteq 1 .. i
        /\ rows' \in [DOMAIN rows' -> Deliveries!Event]
        /\ OneIsOpen'
        /\ \A t \in Deliveries!Subjects :
             t # s /\ t \notin Deliveries!Dropped(gone) => Opens(t)' = Opens(t)
        /\ \A x \in DOMAIN rows' : x # i => x \in DOMAIN rows /\ x \notin gone
    BY <1>1, <2>1, <2>3, <2>4, <2>5, <2>6, RaiseKeeps
  <2>8. added' = i /\ added' \in 0 .. MaxRows
    BY <1>1, <2>3, <2>5
  <2>9. DeliveryInv'
    BY <2>1, <2>2, <2>3, <2>7, <2>8, QuietStep
  <2>10. \A x \in DOMAIN rows' : x \notin unsent' => x \in DOMAIN rows /\ x \notin gone
    BY <2>3, <2>7, <2>8
  <2>11. Deliveries!NotificationsAccount => Deliveries!NotificationsAccount'
    BY <2>2, <2>3, <2>10, QuietAccount
  <2> QED
    BY <2>9, <2>11
<1>7. ASSUME NEW s \in Deliveries!Subjects, Deliveries!Recover(s)
      PROVE  /\ DeliveryInv'
             /\ ProfilesReach /\ Deliveries!NotificationsAccount
                  => Deliveries!NotificationsAccount'
  <2>1. PICK alert : alert = Deliveries!OpenAlert(s)
    OBVIOUS
  <2>2. PICK at : at = IF s \in Misses THEN rows[alert].at ELSE added + 1
    OBVIOUS
  <2>3. PICK event : event =
          [ subject |-> s, at |-> at, resolves |-> alert, resolved |-> FALSE ]
    OBVIOUS
  <2>4. /\ added < MaxRows /\ alert # None /\ UNCHANGED <<active, changes, unsent>>
        /\ \E gone \in Deliveries!Gone(Deliveries!Resolved(alert), TRUE),
              results \in Deliveries!Outcomes, lasts \in BOOLEAN :
             Deliveries!AddAndSend(Deliveries!Resolved(alert), event, gone, results, lasts)
    BY <1>7, <2>1, <2>2, <2>3 DEF Deliveries!Recover
  <2>5. alert \in Opens(s)
    BY <1>1, <2>1, <2>4, OpenAlertIs
  <2>6. at \in Deliveries!Row
    BY <1>1, <2>2, <2>4, <2>5 DEF Opens, Deliveries!Event, Deliveries!Row
  <2>7. PICK gone \in Deliveries!Gone(Deliveries!Resolved(alert), TRUE),
             results \in Deliveries!Outcomes, lasts \in BOOLEAN :
               Deliveries!AddAndSend(Deliveries!Resolved(alert), event, gone, results, lasts)
    BY <2>4
  <2> QED
    BY <1>3, <2>3, <2>4, <2>5, <2>6, <2>7
<1>8. ASSUME NEW s \in Misses, Deliveries!RecoverByChecker(s)
      PROVE  /\ DeliveryInv'
             /\ ProfilesReach /\ Deliveries!NotificationsAccount
                  => Deliveries!NotificationsAccount'
  <2>1. PICK alert : alert = Deliveries!OpenAlert(s)
    OBVIOUS
  <2>2. PICK event : event =
          [ subject |-> s, at |-> rows[alert].at, resolves |-> alert, resolved |-> FALSE ]
    OBVIOUS
  <2>3. s \in Deliveries!Subjects
    BY DEF Deliveries!Subjects
  <2>4. /\ added < MaxRows /\ alert # None
        /\ \E gone \in Deliveries!Gone(Deliveries!Resolved(alert), FALSE) :
             IF alert \notin gone
             THEN /\ \E results \in Deliveries!Outcomes :
                       Deliveries!AddAndSend(Deliveries!Resolved(alert), event, gone, results, TRUE)
                  /\ UNCHANGED <<active, changes, unsent>>
             ELSE /\ rows' = [x \in DOMAIN rows \ gone |-> Deliveries!Resolved(alert)[x]]
                  /\ told' = { n \in told : n.event \notin gone }
                  /\ excused' = excused \cup Deliveries!Dropped(gone)
                  /\ UNCHANGED <<added, active, heard, incidents, troubles, changes, unsent>>
    BY <1>8, <2>1, <2>2 DEF Deliveries!RecoverByChecker, Deliveries!Existing
  <2>5. alert \in Opens(s)
    BY <1>1, <2>1, <2>4, OpenAlertIs
  <2>6. rows[alert].at \in Deliveries!Row
    BY <1>1, <2>5 DEF Opens, Deliveries!Event
  <2>7. PICK gone \in Deliveries!Gone(Deliveries!Resolved(alert), FALSE) :
          IF alert \notin gone
          THEN /\ \E results \in Deliveries!Outcomes :
                    Deliveries!AddAndSend(Deliveries!Resolved(alert), event, gone, results, TRUE)
               /\ UNCHANGED <<active, changes, unsent>>
          ELSE /\ rows' = [x \in DOMAIN rows \ gone |-> Deliveries!Resolved(alert)[x]]
               /\ told' = { n \in told : n.event \notin gone }
               /\ excused' = excused \cup Deliveries!Dropped(gone)
               /\ UNCHANGED <<added, active, heard, incidents, troubles, changes, unsent>>
    BY <2>4
  <2>8. CASE alert \notin gone
    <3>1. PICK results \in Deliveries!Outcomes :
            Deliveries!AddAndSend(Deliveries!Resolved(alert), event, gone, results, TRUE)
      BY <2>7, <2>8
    <3>2. UNCHANGED <<active, changes, unsent>>
      BY <2>7, <2>8
    <3> QED
      BY <1>3, <2>2, <2>3, <2>4, <2>5, <2>6, <3>1, <3>2
  <2>9. CASE alert \in gone
    <3>1. /\ rows' = [x \in DOMAIN rows \ gone |-> Deliveries!Resolved(alert)[x]]
          /\ told' = { n \in told : n.event \notin gone }
          /\ excused' = excused \cup Deliveries!Dropped(gone)
          /\ UNCHANGED <<added, active, heard, incidents, troubles, changes, unsent>>
      BY <2>7, <2>9
    <3>2. /\ DOMAIN rows' \subseteq 1 .. added
          /\ rows' \in [DOMAIN rows' -> Deliveries!Event]
          /\ OneIsOpen'
          /\ s \in Deliveries!Dropped(gone)
          /\ \A t \in Deliveries!Subjects :
               t # s /\ t \notin Deliveries!Dropped(gone) => Opens(t)' = Opens(t)
      BY <2>5, <2>9, <3>1, DroppedStep
    <3>3. excused' = excused \cup {s} \cup Deliveries!Dropped(gone)
      BY <3>1, <3>2
    <3>4. DeliveryInv'
      BY <1>1, <2>3, <3>1, <3>2, <3>3, QuietStep
    <3>5. \A x \in DOMAIN rows' : x \in DOMAIN rows /\ x \notin gone
      BY <3>1
    <3>6. Deliveries!NotificationsAccount => Deliveries!NotificationsAccount'
      BY <3>1, <3>5, QuietAccount
    <3> QED
      BY <3>4, <3>6
  <2> QED
    BY <2>8, <2>9
<1>9. ASSUME UNCHANGED <<rows, added, active, told, heard, incidents, changes, unsent, excused>>
      PROVE  /\ DeliveryInv'
             /\ ProfilesReach /\ Deliveries!NotificationsAccount
                  => Deliveries!NotificationsAccount'
  <2>1. RowsTyped'
    BY <1>1, <1>9 DEF RowsTyped
  <2>2. OneIsOpen'
    BY <1>1, <1>9 DEF OneIsOpen, Deliveries!IsOpen
  <2>3. IncidentsMatch'
    BY <1>9 DEF DeliveryInv, IncidentsMatch, Opens, Deliveries!IsOpen, Deliveries!InEffect,
                Deliveries!Effective
  <2>4. Deliveries!NotificationsAccount => Deliveries!NotificationsAccount'
    BY <1>9 DEF Deliveries!NotificationsAccount, Deliveries!Existing
  <2> QED
    BY <2>1, <2>2, <2>3, <2>4 DEF DeliveryInv
<1>10. ASSUME NEW s \in Misses, Deliveries!RecoverQuietly(s)
       PROVE  /\ DeliveryInv'
              /\ ProfilesReach /\ Deliveries!NotificationsAccount
                   => Deliveries!NotificationsAccount'
  BY <1>9, <1>10 DEF Deliveries!RecoverQuietly
<1>11. ASSUME NEW x, Deliveries!Edit(x)
       PROVE  /\ DeliveryInv'
              /\ ProfilesReach /\ Deliveries!NotificationsAccount
                   => Deliveries!NotificationsAccount'
  <2>1. /\ UNCHANGED <<rows, added, told, incidents>> /\ changes' = changes + 1
        /\ excused' = excused \cup { s \in Deliveries!Subjects :
                         \/ Deliveries!OpenAlert(s) # None
                         \/ \E m \in Deliveries!PagerDuty : <<m, s>> \in incidents }
    BY <1>11 DEF Deliveries!Edit, Deliveries!GroupingKey
  <2>2. RowsTyped'
    BY <1>1, <2>1 DEF RowsTyped
  <2>3. OneIsOpen'
    BY <1>1, <2>1 DEF OneIsOpen, Deliveries!IsOpen
  <2>4. ASSUME NEW s \in Deliveries!Subjects, s \notin excused'
        PROVE  Opens(s)' = {} /\ \A m \in Deliveries!PagerDuty : <<m, s>> \notin incidents'
    <3>1. Deliveries!OpenAlert(s) = None
          /\ \A m \in Deliveries!PagerDuty : <<m, s>> \notin incidents
      BY <2>1, <2>4
    <3>2. Opens(s) = {}
      BY <1>1, <3>1, OpenAlertIs
    <3> QED
      BY <2>1, <3>1, <3>2 DEF Opens, Deliveries!IsOpen
  <2>5. IncidentsMatch'
    BY <2>4 DEF IncidentsMatch
  <2>6. Deliveries!NotificationsAccount'
    BY <1>1, <2>1 DEF Deliveries!NotificationsAccount
  <2> QED
    BY <2>2, <2>3, <2>5, <2>6 DEF DeliveryInv
<1>12. CASE UNCHANGED Deliveries!vars
  BY <1>9, <1>12 DEF Deliveries!vars
<1> QED
  BY <1>4, <1>5, <1>6, <1>7, <1>8, <1>10, <1>11, <1>12 DEF Deliveries!Next

LEMMA DeliveryInit == DeliveryConstants /\ Deliveries!Init
                        => DeliveryInv /\ Deliveries!NotificationsAccount
<1> SUFFICES ASSUME DeliveryConstants, Deliveries!Init
             PROVE  DeliveryInv /\ Deliveries!NotificationsAccount
  OBVIOUS
<1>1. rows = <<>> /\ added = 0 /\ changes = 0 /\ told = {} /\ incidents = {}
  BY DEF Deliveries!Init
<1>2. DOMAIN rows = {} /\ rows \in [DOMAIN rows -> Deliveries!Event]
  BY <1>1
<1>3. RowsTyped
  BY <1>1, <1>2 DEF RowsTyped, DeliveryConstants
<1>4. OneIsOpen /\ \A s : Opens(s) = {}
  BY <1>2 DEF OneIsOpen, Opens
<1>5. IncidentsMatch
  BY <1>1, <1>4 DEF IncidentsMatch
<1> QED
  BY <1>2, <1>3, <1>4, <1>5 DEF DeliveryInv, Deliveries!NotificationsAccount, Deliveries!Existing

\* Unless something has gone wrong with it, an incident is open at PagerDuty for as
\* long as the alert is (NotificationDeliveryMethod.send, Event.save).
THEOREM IncidentsFollow == Deliveries!Spec => []IncidentsFollowAlerts
<1> USE DeliveryAssumption
<1>1. DeliveryInv /\ [Deliveries!Next]_Deliveries!vars => DeliveryInv'
  BY DeliveryStep
<1>2. Deliveries!Init => DeliveryInv
  BY DeliveryInit
<1>3. DeliveryInv => Deliveries!IncidentsFollowAlerts
  <2> SUFFICES ASSUME DeliveryInv, NEW s \in Deliveries!Subjects \ excused
               PROVE  IF Deliveries!OpenAlert(s) = None
                      THEN \A m \in Deliveries!PagerDuty : <<m, s>> \notin incidents
                      ELSE \A m \in Deliveries!InEffect : <<m, s>> \in incidents
    BY DEF Deliveries!IncidentsFollowAlerts
  <2>1. Deliveries!OpenAlert(s) = None <=> Opens(s) = {}
    BY OpenAlertIs DEF DeliveryInv
  <2>2. Deliveries!InEffect \subseteq Deliveries!PagerDuty
    BY DEF Deliveries!InEffect
  <2> QED
    BY <2>1, <2>2 DEF DeliveryInv, IncidentsMatch
<1> QED
  BY <1>1, <1>2, <1>3, PTL DEF Deliveries!Spec, IncidentsFollowAlerts

\* As long as some profile is enabled, and none is without a method, no Event is left
\* without a Notification unless its process died; and one that says that it was sent
\* was heard, if it was not Apprise that answered (NotificationProfile.send).
THEOREM NotificationsAreKept ==
  ASSUME ProfilesReach
  PROVE  Deliveries!Spec => []NotificationsAccount
<1> USE DeliveryAssumption
<1>1. /\ DeliveryInv /\ Deliveries!NotificationsAccount
      /\ [Deliveries!Next]_Deliveries!vars
      => DeliveryInv' /\ Deliveries!NotificationsAccount'
  BY DeliveryStep
<1>2. Deliveries!Init => DeliveryInv /\ Deliveries!NotificationsAccount
  BY DeliveryInit
<1> QED
  BY <1>1, <1>2, PTL DEF Deliveries!Spec, NotificationsAccount

\* Where ends look for the events of their Task and some success is required, alerts
\* are resolved when what they are about has recovered, and only then, and each kind
\* of end is told once (ExecutionStatusChangeEvent.update_after_postponed,
\* WorkflowExecution.resolve_status_change_events).
THEOREM AlertsFollow ==
  ASSUME ClearedByCount
  PROVE  Spec /\ Attempts!Spec => []AlertsFollowExecutions
BY RecoveryResolves, RestartsResolve, KindsAreTold, PTL DEF AlertsFollowExecutions

=============================================================================
