------------------------ MODULE WorkflowSchedule_proofs ------------------------
(***************************************************************************)
(* Theorems about WorkflowSchedule, for any Run Environments and           *)
(* schedules; then about WorkflowStart, for any requests, plans and        *)
(* limits, and about ApiCredits, for any requests, plans and months.       *)
(***************************************************************************)
EXTENDS WorkflowRules, SequenceTheorems, FiniteSetTheorems, WellFoundedInduction,
  TLAPS

-----------------------------------------------------------------------------
(* The calls of a request, written out.                                    *)

LEMMA TwoElements ==
  ASSUME NEW S, NEW a \in S, NEW b \in S, NEW s \in Seq(S), Len(s) = 2, s[1] = a, s[2] = b
  PROVE  s = <<a, b>>
<1> DEFINE t == <<a, b>>
<1>1. t \in Seq(S) /\ Len(t) = 2 /\ t[1] = a /\ t[2] = b
  OBVIOUS
<1> HIDE DEF t
<1>2. \A i \in 1 .. 2 : s[i] = t[i]
  <2>1. \A i \in 1 .. 2 : i = 1 \/ i = 2
    OBVIOUS
  <2> QED
    BY <1>1, <2>1
<1>3. s = t
  BY <1>1, <1>2, SeqEqual
<1> QED
  BY <1>3 DEF t

LEMMA ThreeElements ==
  ASSUME NEW S, NEW a \in S, NEW b \in S, NEW c \in S,
         NEW s \in Seq(S), Len(s) = 3, s[1] = a, s[2] = b, s[3] = c
  PROVE  s = <<a, b, c>>
<1> DEFINE t == <<a, b, c>>
<1>1. t \in Seq(S) /\ Len(t) = 3 /\ t[1] = a /\ t[2] = b /\ t[3] = c
  OBVIOUS
<1> HIDE DEF t
<1>2. \A i \in 1 .. 3 : s[i] = t[i]
  <2>1. \A i \in 1 .. 3 : i = 1 \/ i = 2 \/ i = 3
    OBVIOUS
  <2> QED
    BY <1>1, <2>1
<1>3. s = t
  BY <1>1, <1>2, SeqEqual
<1> QED
  BY <1>3 DEF t

LEMMA FourElements ==
  ASSUME NEW S, NEW a \in S, NEW b \in S, NEW c \in S, NEW d \in S,
         NEW s \in Seq(S), Len(s) = 4, s[1] = a, s[2] = b, s[3] = c, s[4] = d
  PROVE  s = <<a, b, c, d>>
<1> DEFINE t == <<a, b, c, d>>
<1>1. t \in Seq(S) /\ Len(t) = 4 /\ t[1] = a /\ t[2] = b /\ t[3] = c /\ t[4] = d
  OBVIOUS
<1> HIDE DEF t
<1>2. \A i \in 1 .. 4 : s[i] = t[i]
  <2>1. \A i \in 1 .. 4 : i = 1 \/ i = 2 \/ i = 3 \/ i = 4
    OBVIOUS
  <2> QED
    BY <1>1, <2>1
<1>3. s = t
  BY <1>1, <1>2, SeqEqual
<1> QED
  BY <1>3 DEF t

LEMMA OneAndOne == \A a, b : <<a>> \o <<b>> = <<a, b>>
<1> SUFFICES ASSUME NEW a, NEW b PROVE <<a>> \o <<b>> = <<a, b>>
  OBVIOUS
<1> DEFINE s == <<a>> \o <<b>>
           S == {a, b}
<1>1. <<a>> \in Seq(S) /\ <<b>> \in Seq(S)
  OBVIOUS
<1>2. s \in Seq(S) /\ Len(s) = 2 /\ s[1] = a /\ s[2] = b
  BY <1>1
<1> HIDE DEF s
<1>3. s = <<a, b>>
  BY <1>2, TwoElements
<1> QED
  BY <1>3 DEF s

LEMMA OneAndTwo == \A a, b, c : <<a>> \o <<b, c>> = <<a, b, c>>
<1> SUFFICES ASSUME NEW a, NEW b, NEW c PROVE <<a>> \o <<b, c>> = <<a, b, c>>
  OBVIOUS
<1> DEFINE s == <<a>> \o <<b, c>>
           S == {a, b, c}
<1>1. <<a>> \in Seq(S) /\ <<b, c>> \in Seq(S)
  OBVIOUS
<1>2. s \in Seq(S) /\ Len(s) = 3 /\ s[1] = a /\ s[2] = b /\ s[3] = c
  BY <1>1
<1> HIDE DEF s
<1>3. s = <<a, b, c>>
  BY <1>2, ThreeElements
<1> QED
  BY <1>3 DEF s

LEMMA TwoAndTwo == \A a, b, c, d : <<a, b>> \o <<c, d>> = <<a, b, c, d>>
<1> SUFFICES ASSUME NEW a, NEW b, NEW c, NEW d PROVE <<a, b>> \o <<c, d>> = <<a, b, c, d>>
  OBVIOUS
<1> DEFINE s == <<a, b>> \o <<c, d>>
           S == {a, b, c, d}
<1>1. <<a, b>> \in Seq(S) /\ <<c, d>> \in Seq(S)
  OBVIOUS
<1>2. s \in Seq(S) /\ Len(s) = 4 /\ s[1] = a /\ s[2] = b /\ s[3] = c /\ s[4] = d
  BY <1>1
<1> HIDE DEF s
<1>3. s = <<a, b, c, d>>
  BY <1>2, FourElements
<1> QED
  BY <1>3 DEF s

LEMMA LengthsDiffer ==
  /\ \A a : <<a>> # <<>>
  /\ \A a, b, c : <<a>> # <<b, c>>
  /\ \A a, b, c, d : <<a>> # <<b, c, d>>
<1>1. \A a : Len(<<a>>) = 1
  OBVIOUS
<1>2. \A b, c : Len(<<b, c>>) = 2
  OBVIOUS
<1>3. \A b, c, d : Len(<<b, c, d>>) = 3
  OBVIOUS
<1>4. Len(<<>>) = 0
  OBVIOUS
<1> QED
  BY <1>1, <1>2, <1>3, <1>4

\* What is left to do: a rule is put, or removed, or removed and put elsewhere.
Setups(e) == { << <<"put_rule", e>>, <<"put_targets", e>> >>, << <<"put_targets", e>> >> }

Teardowns(o) == { << <<"remove_targets", o>>, <<"delete_rule", o>> >>, << <<"delete_rule", o>> >> }

Moves(o, e) ==
  { << <<"remove_targets", o>>, <<"delete_rule", o>>, <<"put_rule", e>>, <<"put_targets", e>> >>,
    << <<"delete_rule", o>>, <<"put_rule", e>>, <<"put_targets", e>> >> }

Named(r) == r.targetNamed => r.ruleNamed

LEMMA TeardownCallsAre ==
  ASSUME NEW r, Named(r), NEW o
  PROVE  /\ r.ruleNamed => TeardownCalls(r, o) \in Teardowns(o)
         /\ ~r.ruleNamed => TeardownCalls(r, o) = <<>>
<1> DEFINE rt == <<"remove_targets", o>>
           dr == <<"delete_rule", o>>
<1>1. <<rt>> \o <<dr>> = <<rt, dr>>
  BY OneAndOne
<1>2. <<>> \o <<dr>> = <<dr>> /\ <<>> \o <<>> = <<>>
  OBVIOUS
<1> QED
  BY <1>1, <1>2 DEF TeardownCalls, Teardowns, Named

LEMMA MovingCallsAre ==
  ASSUME NEW r, Named(r), NEW o, NEW e
  PROVE  /\ r.ruleNamed => TeardownCalls(r, o) \o SetupCalls(e) \in Moves(o, e)
         /\ ~r.ruleNamed => TeardownCalls(r, o) \o SetupCalls(e) = SetupCalls(e)
<1> DEFINE rt == <<"remove_targets", o>>
           dr == <<"delete_rule", o>>
           pr == <<"put_rule", e>>
           pt == <<"put_targets", e>>
<1>1. <<rt, dr>> \o <<pr, pt>> = <<rt, dr, pr, pt>>
  BY TwoAndTwo
<1>2. <<dr>> \o <<pr, pt>> = <<dr, pr, pt>>
  BY OneAndTwo
<1>3. <<>> \o <<pr, pt>> = <<pr, pt>>
  OBVIOUS
<1> QED
  BY <1>1, <1>2, <1>3, TeardownCallsAre DEF SetupCalls, Teardowns, Moves

-----------------------------------------------------------------------------
(* Requests begin.                                                         *)

RowsNamed == (row # None => Named(row)) /\ (work # None => Named(work.row))

\* What is true of a request that has just begun, by what it is going to do.
Nothing(w) ==
  /\ w.calls = <<>>
  /\ \/ ~w.deletes /\ Scheduled /\ w.row.schedule = row.schedule /\ w.row.enabled = row.enabled
     \/ /\ w.deletes \/ w.row.schedule = None
        /\ ~Scheduled \/ OwnEnvironment(row) = None \/ ~row.ruleNamed

Sets(w) ==
  /\ ~w.deletes /\ w.row.schedule # None
  /\ \E e \in able :
       /\ w.calls = << <<"put_rule", e>>, <<"put_targets", e>> >>
       /\ ~Scheduled \/ OwnEnvironment(row) \in {None, e} \/ ~row.ruleNamed

Unsets(w) ==
  /\ w.deletes \/ w.row.schedule = None
  /\ Scheduled /\ OwnEnvironment(row) \in Envs
  /\ w.calls \in Teardowns(OwnEnvironment(row))

Transfers(w) ==
  /\ ~w.deletes /\ w.row.schedule # None
  /\ Scheduled /\ OwnEnvironment(row) \in Envs
  /\ \E e \in able : w.calls \in Moves(OwnEnvironment(row), e)

Begun ==
  /\ UNCHANGED <<row, tasks, able, rules, astray, marred>>
  /\ work = None /\ work' # None /\ ~work'.called
  /\ work' \in Work /\ Named(work'.row)
  /\ row # None => /\ work'.row.ruleNamed = row.ruleNamed
                   /\ work'.row.scheduling_run_environment = row.scheduling_run_environment
  /\ Nothing(work') \/ Sets(work') \/ Unsets(work') \/ Transfers(work')

LEMMA OwnEnvironmentType ==
  ASSUME TypeOK, NEW r \in Row
  PROVE  OwnEnvironment(r) \in able \cup {None}
BY DEF OwnEnvironment

\* A sequence of calls is one.
LEMMA CallsType ==
  ASSUME NEW e \in Envs, NEW o \in Envs
  PROVE  /\ <<>> \in Seq(Call)
         /\ Setups(e) \subseteq Seq(Call)
         /\ Teardowns(o) \subseteq Seq(Call)
         /\ Moves(o, e) \subseteq Seq(Call)
<1>1. /\ <<"remove_targets", o>> \in Call /\ <<"delete_rule", o>> \in Call
      /\ <<"put_rule", e>> \in Call /\ <<"put_targets", e>> \in Call
  BY DEF Call
<1> QED
  BY <1>1 DEF Setups, Teardowns, Moves

LEMMA BeginBegins ==
  ASSUME TypeOK, RowsNamed, work = None,
         NEW new \in Row, NEW after \in SUBSET Envs, NEW deletes \in BOOLEAN,
         NEW calls \in Seq(Call), Named(new),
         row # None => /\ new.ruleNamed = row.ruleNamed
                       /\ new.scheduling_run_environment = row.scheduling_run_environment,
         Begin(new, after, deletes, calls),
         LET w == [row |-> new, tasks |-> after, deletes |-> deletes, calls |-> calls,
                   called |-> FALSE]
         IN Nothing(w) \/ Sets(w) \/ Unsets(w) \/ Transfers(w)
  PROVE  Begun
<1> DEFINE w == [row |-> new, tasks |-> after, deletes |-> deletes, calls |-> calls,
                 called |-> FALSE]
<1>1. w \in Work
  BY DEF Work
<1>2. w.row = new /\ w.tasks = after /\ w.deletes = deletes /\ w.called = FALSE
  OBVIOUS
<1>3. work' = w /\ UNCHANGED <<row, tasks, able, rules, astray, marred>>
  BY DEF Begin
<1>4. Nothing(w) \/ Sets(w) \/ Unsets(w) \/ Transfers(w)
  OBVIOUS
<1> HIDE DEF w
<1>5. work' # None
  BY <1>1, <1>3, RowsAssumption
<1> QED
  BY <1>1, <1>2, <1>3, <1>4, <1>5 DEF Begun

LEMMA SaveBegins ==
  ASSUME TypeOK, RowsNamed, NEW schedule \in Schedules \cup {None}, NEW enabled \in BOOLEAN,
         NEW env \in Envs \cup {None}, NEW after \in SUBSET Envs,
         Save(schedule, enabled, env, after)
  PROVE  Begun
<1> DEFINE new == Edited(schedule, enabled, env)
<1>0. work = None
  BY DEF Save
<1>1. PICK where \in IF schedule # None THEN Environments(new) ELSE {None} :
        /\ schedule # None /\ ScheduleChanges(new, where) => where # None
        /\ Begin(new, after, FALSE, SaveCalls(new, where))
  BY DEF Save
<1>2. /\ new \in Row /\ Named(new) /\ new.schedule = schedule
      /\ row # None => /\ new.ruleNamed = row.ruleNamed
                       /\ new.scheduling_run_environment = row.scheduling_run_environment
  BY DEF Edited, TypeOK, Row, RowsNamed, Named
<1> DEFINE calls == SaveCalls(new, where)
           w == [row |-> new, tasks |-> after, deletes |-> FALSE, calls |-> calls,
                 called |-> FALSE]
<1>3. w.calls = calls /\ ~w.deletes /\ w.row = new
  OBVIOUS
<1> HIDE DEF new
<1>4. where \in able \cup {None} /\ (schedule = None => where = None)
  BY <1>1, <1>2, OwnEnvironmentType DEF Environments
<1>5. row # None => OwnEnvironment(row) \in able \cup {None}
  BY OwnEnvironmentType DEF TypeOK
<1>6. able \subseteq Envs
  BY DEF TypeOK
<1>7. SetupCalls(where) \in Setups(where)
        /\ SetupCalls(where) = << <<"put_rule", where>>, <<"put_targets", where>> >>
  BY DEF SetupCalls, Setups
<1> SUFFICES calls \in Seq(Call) /\ (Nothing(w) \/ Sets(w) \/ Unsets(w) \/ Transfers(w))
  BY <1>0, <1>1, <1>2, BeginBegins
<1>8. CASE ~ScheduleChanges(new, where)
  <2>1. calls = <<>>
    BY <1>8 DEF SaveCalls
  <2>2. Nothing(w)
    BY <1>3, <1>8, <2>1 DEF Nothing, ScheduleChanges
  <2> QED
    BY <2>1, <2>2
<1>9. CASE ScheduleChanges(new, where) /\ ~Leaves(new, where)
  <2>1. CASE schedule = None
    <3>1. calls = <<>>
      BY <1>2, <1>9, <2>1 DEF SaveCalls
    <3>2. Nothing(w)
      BY <1>2, <1>3, <1>9, <2>1, <3>1 DEF Nothing, Leaves
    <3> QED
      BY <3>1, <3>2
  <2>2. CASE schedule # None
    <3>1. where \in able
      BY <1>1, <1>4, <1>9, <2>2
    <3>2. calls = SetupCalls(where)
      BY <1>2, <1>7, <1>9, <2>2 DEF SaveCalls
    <3>3. Sets(w)
      BY <1>2, <1>3, <1>7, <1>9, <2>2, <3>1, <3>2 DEF Sets, Leaves
    <3> QED
      BY <1>6, <1>7, <3>1, <3>2, <3>3, CallsType
  <2> QED
    BY <2>1, <2>2
<1>10. CASE ScheduleChanges(new, where) /\ Leaves(new, where)
  <2> DEFINE own == OwnEnvironment(row)
  <2>1. Scheduled /\ row # None /\ own \in able /\ own \in Envs /\ Named(row)
    BY <1>5, <1>6, <1>10 DEF Leaves, Scheduled, RowsNamed
  <2> HIDE DEF own
  <2>2. calls = TeardownCalls(row, own)
                  \o (IF schedule # None THEN SetupCalls(where) ELSE <<>>)
    BY <1>2, <1>10 DEF SaveCalls, own
  <2>3. CASE schedule = None
    <3>1. TeardownCalls(row, own) \in Seq(Call)
      BY <2>1, TeardownCallsAre, CallsType
    <3>2. calls = TeardownCalls(row, own)
      BY <2>2, <2>3, <3>1
    <3>3. CASE row.ruleNamed
      BY <1>2, <1>3, <2>1, <2>3, <3>1, <3>2, <3>3, TeardownCallsAre DEF Unsets, own
    <3>4. CASE ~row.ruleNamed
      BY <1>2, <1>3, <2>1, <2>3, <3>1, <3>2, <3>4, TeardownCallsAre DEF Nothing
    <3> QED
      BY <3>3, <3>4
  <2>4. CASE schedule # None
    <3>1. where \in able /\ where \in Envs
      BY <1>1, <1>4, <1>6, <1>10, <2>4
    <3>2. calls = TeardownCalls(row, own) \o SetupCalls(where)
      BY <2>2, <2>4
    <3>3. CASE row.ruleNamed
      <4>1. calls \in Moves(own, where)
        BY <2>1, <3>2, <3>3, MovingCallsAre
      <4> QED
        BY <1>2, <1>3, <2>1, <2>4, <3>1, <4>1, CallsType DEF Transfers, own
    <3>4. CASE ~row.ruleNamed
      <4>1. calls = SetupCalls(where)
        BY <2>1, <3>2, <3>4, MovingCallsAre
      <4> QED
        BY <1>2, <1>3, <1>7, <2>1, <2>4, <3>1, <3>4, <4>1, CallsType DEF Sets
    <3> QED
      BY <3>3, <3>4
  <2> QED
    BY <2>3, <2>4
<1> QED
  BY <1>8, <1>9, <1>10

LEMMA DeleteBegins ==
  ASSUME TypeOK, RowsNamed, Delete
  PROVE  Begun
<1> DEFINE own == OwnEnvironment(row)
           calls == IF Scheduled THEN TeardownCalls(row, own) ELSE <<>>
           w == [row |-> row, tasks |-> {}, deletes |-> TRUE, calls |-> calls,
                 called |-> FALSE]
<1>1. /\ work = None /\ row # None /\ row \in Row /\ Named(row)
      /\ Scheduled => own \in Envs
      /\ Begin(row, {}, TRUE, calls)
  BY OwnEnvironmentType DEF Delete, RowsNamed, TypeOK
<1>2. w.calls = calls /\ w.deletes
  OBVIOUS
<1>3. calls \in Seq(Call) /\ (Nothing(w) \/ Unsets(w))
  <2> HIDE DEF w
  <2>1. CASE ~Scheduled
    BY <1>2, <2>1 DEF Nothing
  <2>2. CASE Scheduled /\ row.ruleNamed
    <3>1. calls \in Teardowns(own)
      BY <1>1, <2>2, TeardownCallsAre
    <3> QED
      BY <1>1, <1>2, <2>2, <3>1, CallsType DEF Unsets
  <2>3. CASE Scheduled /\ ~row.ruleNamed
    <3>1. calls = <<>>
      BY <1>1, <2>3, TeardownCallsAre
    <3> QED
      BY <1>2, <2>3, <3>1 DEF Nothing
  <2> QED
    BY <2>1, <2>2, <2>3
<1> QED
  BY <1>1, <1>3, BeginBegins

-----------------------------------------------------------------------------
(* Requests go on.                                                         *)

Removes == work.deletes \/ work.row.schedule = None

\* What is left of a request fits what it is for.
Planned ==
  work # None =>
    \/ work.calls = <<>>
    \/ Removes /\ \E o \in Envs : work.calls \in Teardowns(o)
    \/ ~Removes /\ \E e \in Envs : \/ work.calls \in Setups(e)
                                 \/ \E o \in Envs : work.calls \in Moves(o, e)

\* A target is put where a rule was put, under its name.
PutIsNamed ==
  \A e \in Envs : work # None /\ work.calls = << <<"put_targets", e>> >> => work.row.ruleNamed

PlanInv == TypeOK /\ RowsNamed /\ Planned /\ PutIsNamed

\* The next call and those after it.
LEMMA WhatIsLeft ==
  ASSUME PlanInv, work # None, work.calls # <<>>
  PROVE  \E o \in Envs, e \in Envs :
           \/ /\ Removes /\ Head(work.calls) = <<"remove_targets", o>>
              /\ Tail(work.calls) = << <<"delete_rule", o>> >>
              /\ work.calls \in Teardowns(o)
           \/ /\ ~Removes /\ Head(work.calls) = <<"remove_targets", o>>
              /\ Tail(work.calls) = << <<"delete_rule", o>>, <<"put_rule", e>>,
                                       <<"put_targets", e>> >>
              /\ work.calls \in Moves(o, e)
           \/ /\ Removes /\ Head(work.calls) = <<"delete_rule", o>>
              /\ Tail(work.calls) = <<>> /\ work.calls \in Teardowns(o)
           \/ /\ ~Removes /\ Head(work.calls) = <<"delete_rule", o>>
              /\ Tail(work.calls) = << <<"put_rule", e>>, <<"put_targets", e>> >>
              /\ work.calls \in Moves(o, e)
           \/ /\ ~Removes /\ Head(work.calls) = <<"put_rule", e>>
              /\ Tail(work.calls) = << <<"put_targets", e>> >>
              /\ work.calls \in Setups(e)
           \/ /\ ~Removes /\ Head(work.calls) = <<"put_targets", e>>
              /\ Tail(work.calls) = <<>>
              /\ work.calls = << <<"put_targets", e>> >>
<1>1. CASE Removes /\ \E o \in Envs : work.calls \in Teardowns(o)
  <2>1. PICK o \in Envs : work.calls \in Teardowns(o)
    BY <1>1
  <2>2. CASE work.calls = << <<"remove_targets", o>>, <<"delete_rule", o>> >>
    <3>1. Head(work.calls) = <<"remove_targets", o>>
            /\ Tail(work.calls) = << <<"delete_rule", o>> >>
      BY <2>2
    <3> QED
      BY <1>1, <2>1, <3>1
  <2>3. CASE work.calls = << <<"delete_rule", o>> >>
    <3>1. Head(work.calls) = <<"delete_rule", o>> /\ Tail(work.calls) = <<>>
      BY <2>3
    <3> QED
      BY <1>1, <2>1, <3>1
  <2> QED
    BY <2>1, <2>2, <2>3 DEF Teardowns
<1>2. CASE ~Removes /\ \E e \in Envs : work.calls \in Setups(e)
  <2>1. PICK e \in Envs : work.calls \in Setups(e)
    BY <1>2
  <2>2. CASE work.calls = << <<"put_rule", e>>, <<"put_targets", e>> >>
    <3>1. Head(work.calls) = <<"put_rule", e>>
            /\ Tail(work.calls) = << <<"put_targets", e>> >>
      BY <2>2
    <3> QED
      BY <1>2, <2>1, <3>1
  <2>3. CASE work.calls = << <<"put_targets", e>> >>
    <3>1. Head(work.calls) = <<"put_targets", e>> /\ Tail(work.calls) = <<>>
      BY <2>3
    <3> QED
      BY <1>2, <2>1, <2>3, <3>1
  <2> QED
    BY <2>1, <2>2, <2>3 DEF Setups
<1>3. CASE ~Removes /\ \E o \in Envs, e \in Envs : work.calls \in Moves(o, e)
  <2>1. PICK o \in Envs, e \in Envs : work.calls \in Moves(o, e)
    BY <1>3
  <2>2. CASE work.calls = << <<"remove_targets", o>>, <<"delete_rule", o>>,
                             <<"put_rule", e>>, <<"put_targets", e>> >>
    <3>1. Head(work.calls) = <<"remove_targets", o>>
            /\ Tail(work.calls) = << <<"delete_rule", o>>, <<"put_rule", e>>,
                                     <<"put_targets", e>> >>
      BY <2>2
    <3> QED
      BY <1>3, <2>1, <3>1
  <2>3. CASE work.calls = << <<"delete_rule", o>>, <<"put_rule", e>>, <<"put_targets", e>> >>
    <3>1. Head(work.calls) = <<"delete_rule", o>>
            /\ Tail(work.calls) = << <<"put_rule", e>>, <<"put_targets", e>> >>
      BY <2>3
    <3> QED
      BY <1>3, <2>1, <3>1
  <2> QED
    BY <2>1, <2>2, <2>3 DEF Moves
<1> QED
  BY <1>1, <1>2, <1>3 DEF PlanInv, Planned

LEMMA HeadIsRemoveTargets ==
  ASSUME PlanInv, NEW env \in Envs, work # None, work.calls # <<>>,
         Head(work.calls) = <<"remove_targets", env>>
  PROVE  \/ /\ Removes /\ work.calls \in Teardowns(env)
            /\ Tail(work.calls) = << <<"delete_rule", env>> >>
         \/ ~Removes /\ \E e \in Envs :
              /\ work.calls \in Moves(env, e)
              /\ Tail(work.calls) = << <<"delete_rule", env>>, <<"put_rule", e>>,
                                       <<"put_targets", e>> >>
BY WhatIsLeft

LEMMA HeadIsDeleteRule ==
  ASSUME PlanInv, NEW env \in Envs, work # None, work.calls # <<>>,
         Head(work.calls) = <<"delete_rule", env>>
  PROVE  \/ Removes /\ work.calls \in Teardowns(env) /\ Tail(work.calls) = <<>>
         \/ ~Removes /\ \E e \in Envs :
              /\ work.calls \in Moves(env, e)
              /\ Tail(work.calls) = << <<"put_rule", e>>, <<"put_targets", e>> >>
BY WhatIsLeft

LEMMA HeadIsPutRule ==
  ASSUME PlanInv, NEW env \in Envs, work # None, work.calls # <<>>,
         Head(work.calls) = <<"put_rule", env>>
  PROVE  /\ ~Removes /\ work.calls \in Setups(env)
         /\ Tail(work.calls) = << <<"put_targets", env>> >>
BY WhatIsLeft

LEMMA HeadIsPutTargets ==
  ASSUME PlanInv, NEW env \in Envs, work # None, work.calls # <<>>,
         Head(work.calls) = <<"put_targets", env>>
  PROVE  /\ ~Removes /\ work.calls = << <<"put_targets", env>> >>
         /\ Tail(work.calls) = <<>>
BY WhatIsLeft

\* What a call does, whichever it is.
LEMMA CallsAre ==
  ASSUME TypeOK, NEW name, NEW env \in Envs, NEW rule \in Rule \cup {None}, NEW saved \in Row,
         Calls(name, env, rule, saved)
  PROVE  /\ work # None /\ work.calls # <<>> /\ Head(work.calls) = <<name, env>>
         /\ \A e \in Envs : rules'[e] = IF e = env THEN rule ELSE rules[e]
         /\ rules' \in [Envs -> Rule \cup {None}]
         /\ work' \in Work /\ work' # None
         /\ work'.row = saved /\ work'.calls = Tail(work.calls) /\ work'.called
         /\ work'.deletes = work.deletes
         /\ marred' = IF name = "put_targets" THEN FALSE ELSE marred
         /\ UNCHANGED <<row, tasks, able, astray>>
<1>1. work # None /\ work.calls # <<>> /\ work \in Work
  BY DEF Calls, TypeOK
<1>2. Tail(work.calls) \in Seq(Call)
  BY <1>1, HeadTailProperties DEF Work
<1>3. work' = [work EXCEPT !.calls = Tail(@), !.called = TRUE, !.row = saved]
  BY DEF Calls
<1>4. work' \in Work /\ work'.row = saved /\ work'.calls = Tail(work.calls) /\ work'.called
        /\ work'.deletes = work.deletes
  BY <1>1, <1>2, <1>3 DEF Work
<1>5. work' # None
  BY <1>4, RowsAssumption
<1>6. rules' = [rules EXCEPT ![env] = rule]
  BY DEF Calls
<1> QED
  BY <1>1, <1>4, <1>5, <1>6 DEF Calls, TypeOK

LEMMA RemoveTargetsCalls ==
  ASSUME TypeOK, RowsNamed, NEW env \in Envs, RemoveTargets(env)
  PROVE  \E rule \in Rule \cup {None}, saved \in Row :
           /\ Calls("remove_targets", env, rule, saved) /\ Named(saved)
           /\ (rule # None => rules[env] # None)
           /\ saved.schedule = work.row.schedule /\ saved.ruleNamed = work.row.ruleNamed
<1>0. work # None
  BY DEF RemoveTargets, Calls
<1>1. work.row \in Row /\ Named(work.row)
  BY <1>0 DEF TypeOK, Work, RowsNamed
<1>2. CASE rules[env] = None
  BY <1>1, <1>2 DEF RemoveTargets
<1>3. CASE rules[env] # None
  <2> DEFINE rule == [rules[env] EXCEPT !.target = FALSE]
             saved == [work.row EXCEPT !.targetNamed = FALSE]
  <2>1. rule \in Rule
    BY <1>3 DEF TypeOK, Rule
  <2>2. saved \in Row /\ Named(saved) /\ saved.schedule = work.row.schedule
          /\ saved.ruleNamed = work.row.ruleNamed
    BY <1>1 DEF Row, Named
  <2>3. Calls("remove_targets", env, rule, saved)
    BY <1>3 DEF RemoveTargets
  <2> QED
    BY <1>3, <2>1, <2>2, <2>3
<1> QED
  BY <1>2, <1>3

LEMMA DeleteRuleCalls ==
  ASSUME TypeOK, NEW env \in Envs, DeleteRule(env)
  PROVE  work.row \in Row /\ Calls("delete_rule", env, None, work.row)
BY DEF DeleteRule, Calls, TypeOK, Work

LEMMA PutRuleCalls ==
  ASSUME PlanInv, NEW env \in Envs, PutRule(env)
  PROVE  \E rule \in Rule, saved \in Row :
           /\ Calls("put_rule", env, rule, saved)
           /\ rule.schedule = work.row.schedule /\ rule.enabled = work.row.enabled
           /\ saved = [work.row EXCEPT !.ruleNamed = TRUE]
           /\ Named(saved) /\ saved.ruleNamed
           /\ saved.schedule = work.row.schedule /\ saved.enabled = work.row.enabled
<1> DEFINE rule == [schedule |-> work.row.schedule, enabled |-> work.row.enabled,
                    target |-> rules[env] # None /\ rules[env].target]
           saved == [work.row EXCEPT !.ruleNamed = TRUE]
<1>1. Calls("put_rule", env, rule, saved)
  BY DEF PutRule
<1>2. work # None /\ work.calls # <<>> /\ Head(work.calls) = <<"put_rule", env>>
  BY <1>1 DEF Calls
<1>3. work.row \in Row
  BY <1>2 DEF PlanInv, TypeOK, Work
<1>4. work.row.schedule \in Schedules
  BY <1>2, <1>3, HeadIsPutRule DEF Removes, Row
<1>5. (rules[env] # None /\ rules[env].target) \in BOOLEAN
  OBVIOUS
<1>6. rule \in Rule /\ rule.schedule = work.row.schedule /\ rule.enabled = work.row.enabled
  BY <1>3, <1>4, <1>5 DEF Rule, Row
<1>7. saved \in Row /\ saved.ruleNamed /\ Named(saved)
        /\ saved.schedule = work.row.schedule /\ saved.enabled = work.row.enabled
  BY <1>3 DEF Row, Named
<1> HIDE DEF rule
<1> QED
  BY <1>1, <1>6, <1>7

LEMMA PutTargetsCalls ==
  ASSUME PlanInv, NEW env \in Envs, PutTargets(env)
  PROVE  \E rule \in Rule, saved \in Row :
           /\ Calls("put_targets", env, rule, saved) /\ rules[env] # None
           /\ rule.schedule = rules[env].schedule /\ rule.enabled = rules[env].enabled
           /\ rule.target /\ Named(saved) /\ saved.ruleNamed = work.row.ruleNamed
           /\ saved.scheduling_run_environment = env
           /\ saved.schedule = work.row.schedule /\ saved.enabled = work.row.enabled
<1> DEFINE rule == [rules[env] EXCEPT !.target = TRUE]
           saved == [work.row EXCEPT !.targetNamed = TRUE, !.scheduling_run_environment = env]
<1>1. Calls("put_targets", env, rule, saved) /\ rules[env] # None
  BY DEF PutTargets
<1>2. work # None /\ work.calls # <<>> /\ Head(work.calls) = <<"put_targets", env>>
  BY <1>1 DEF Calls
<1>3. work.row \in Row /\ rules[env] \in Rule
  BY <1>1, <1>2 DEF PlanInv, TypeOK, Work
<1>4. work.row.ruleNamed
  BY <1>2, HeadIsPutTargets DEF PlanInv, PutIsNamed
<1>5. rule \in Rule /\ rule.schedule = rules[env].schedule /\ rule.enabled = rules[env].enabled
        /\ rule.target
  BY <1>3 DEF Rule
<1>6. /\ saved \in Row /\ saved.ruleNamed = work.row.ruleNamed /\ Named(saved)
      /\ saved.scheduling_run_environment = env
      /\ saved.schedule = work.row.schedule /\ saved.enabled = work.row.enabled
  BY <1>3, <1>4 DEF Row, Named
<1> HIDE DEF rule, saved
<1> QED
  BY <1>1, <1>5, <1>6

\* No request begins with a target.
LEMMA BegunPutsNothing ==
  ASSUME Begun
  PROVE  \A e \in Envs : work'.calls # << <<"put_targets", e>> >>
<1> SUFFICES ASSUME NEW e \in Envs, work'.calls = << <<"put_targets", e>> >> PROVE FALSE
  OBVIOUS
<1>1. work'.calls # <<>>
  OBVIOUS
<1>2. Len(work'.calls) = 1 /\ work'.calls[1] = <<"put_targets", e>>
  OBVIOUS
<1>3. CASE Sets(work')
  BY <1>2, <1>3 DEF Sets
<1>4. CASE Unsets(work')
  BY <1>2, <1>4 DEF Unsets, Teardowns
<1>5. CASE Transfers(work')
  BY <1>2, <1>5 DEF Transfers, Moves
<1> QED
  BY <1>1, <1>3, <1>4, <1>5 DEF Begun, Nothing

LEMMA BegunPlan ==
  ASSUME PlanInv, Begun
  PROVE  PlanInv'
<1>1. TypeOK'
  BY DEF Begun, PlanInv, TypeOK
<1>2. RowsNamed'
  BY DEF Begun, PlanInv, RowsNamed
<1>3. Planned'
  <2>1. CASE Nothing(work')
    BY <2>1 DEF Nothing, Planned
  <2>2. CASE Sets(work')
    BY <2>2 DEF Sets, Planned, Removes, Setups, PlanInv, TypeOK
  <2>3. CASE Unsets(work')
    BY <2>3 DEF Unsets, Planned, Removes
  <2>4. CASE Transfers(work')
    BY <2>4 DEF Transfers, Planned, Removes, PlanInv, TypeOK
  <2> QED
    BY <2>1, <2>2, <2>3, <2>4 DEF Begun
<1>4. PutIsNamed'
  BY BegunPutsNothing DEF PutIsNamed
<1> QED
  BY <1>1, <1>2, <1>3, <1>4 DEF PlanInv

\* A call made leaves what is planned.
LEMMA CallPlan ==
  ASSUME PlanInv, NEW name, NEW env \in Envs, NEW rule \in Rule \cup {None}, NEW saved \in Row,
         Calls(name, env, rule, saved), Named(saved), saved.schedule = work.row.schedule,
         \/ Tail(work.calls) = <<>>
         \/ Removes /\ \E o \in Envs : Tail(work.calls) = << <<"delete_rule", o>> >>
         \/ ~Removes /\ \E e \in Envs :
              \/ Tail(work.calls) = << <<"put_rule", e>>, <<"put_targets", e>> >>
              \/ saved.ruleNamed /\ Tail(work.calls) = << <<"put_targets", e>> >>
              \/ \E o \in Envs :
                   Tail(work.calls) = << <<"delete_rule", o>>, <<"put_rule", e>>,
                                         <<"put_targets", e>> >>
  PROVE  PlanInv'
<1> USE DEF PlanInv
<1>1. /\ work # None /\ work' # None /\ work'.row = saved /\ work'.calls = Tail(work.calls)
      /\ work'.deletes = work.deletes /\ UNCHANGED row
  <2>1. work # None /\ work' # None
    <3>1. work # None
      BY DEF Calls
    <3>2. work' \in Work
      BY CallsAre
    <3> QED
      BY <3>1, <3>2, RowsAssumption
  <2>2. work'.row = saved
    <3>1. work \in Work /\ work' = [work EXCEPT !.calls = Tail(@), !.called = TRUE, !.row = saved]
      BY <2>1 DEF Calls, TypeOK
    <3> QED
      BY <3>1 DEF Work
  <2>3. work'.calls = Tail(work.calls) /\ work'.deletes = work.deletes
    BY CallsAre
  <2>4. row' = row
    BY CallsAre
  <2> QED
    BY <2>1, <2>2, <2>3, <2>4
<1>2. TypeOK'
  <2>1. marred' \in BOOLEAN
    BY CallsAre DEF TypeOK
  <2> QED
    BY <2>1, CallsAre DEF TypeOK
<1>3. RowsNamed'
  BY <1>1 DEF RowsNamed
<1>4. Planned'
  BY <1>1 DEF Planned, Removes, Setups, Teardowns, Moves
<1>5. PutIsNamed'
  <2> SUFFICES ASSUME NEW x \in Envs, work'.calls = << <<"put_targets", x>> >>
               PROVE  saved.ruleNamed
    BY <1>1 DEF PutIsNamed
  <2>1. Tail(work.calls) = << <<"put_targets", x>> >>
    BY <1>1
  <2>2. \A o : << <<"put_targets", x>> >> # << <<"delete_rule", o>> >>
    OBVIOUS
  <2> QED
    BY <2>1, <2>2, LengthsDiffer
<1> QED
  BY <1>2, <1>3, <1>4, <1>5

LEMMA PlanStep ==
  ASSUME PlanInv, [Next]_vars
  PROVE  PlanInv'
<1>1. ASSUME NEW schedule \in Schedules \cup {None}, NEW enabled \in BOOLEAN,
             NEW env \in Envs \cup {None}, NEW after \in SUBSET Envs,
             Save(schedule, enabled, env, after)
      PROVE  PlanInv'
  BY <1>1, SaveBegins, BegunPlan DEF PlanInv
<1>2. ASSUME Delete PROVE PlanInv'
  BY <1>2, DeleteBegins, BegunPlan DEF PlanInv
<1>3. ASSUME NEW env \in Envs, RemoveTargets(env) PROVE PlanInv'
  <2>1. PICK rule \in Rule \cup {None}, saved \in Row :
          /\ Calls("remove_targets", env, rule, saved) /\ Named(saved)
          /\ saved.schedule = work.row.schedule
    BY <1>3, RemoveTargetsCalls DEF PlanInv
  <2>2. work # None /\ work.calls # <<>> /\ Head(work.calls) = <<"remove_targets", env>>
    BY <2>1 DEF Calls
  <2> QED
    BY <2>1, <2>2, HeadIsRemoveTargets, CallPlan
<1>4. ASSUME NEW env \in Envs, DeleteRule(env) PROVE PlanInv'
  <2>1. work.row \in Row /\ Calls("delete_rule", env, None, work.row)
    BY <1>4, DeleteRuleCalls DEF PlanInv
  <2>2. /\ work # None /\ work.calls # <<>> /\ Head(work.calls) = <<"delete_rule", env>>
        /\ Named(work.row)
    BY <2>1 DEF Calls, PlanInv, RowsNamed
  <2> QED
    BY <2>1, <2>2, HeadIsDeleteRule, CallPlan
<1>5. ASSUME NEW env \in Envs, PutRule(env) PROVE PlanInv'
  <2>1. PICK rule \in Rule, saved \in Row :
          /\ Calls("put_rule", env, rule, saved) /\ Named(saved) /\ saved.ruleNamed
          /\ saved.schedule = work.row.schedule
    BY <1>5, PutRuleCalls
  <2>2. work # None /\ work.calls # <<>> /\ Head(work.calls) = <<"put_rule", env>>
    BY <2>1 DEF Calls
  <2> QED
    BY <2>1, <2>2, HeadIsPutRule, CallPlan
<1>6. ASSUME NEW env \in Envs, PutTargets(env) PROVE PlanInv'
  <2>1. PICK rule \in Rule, saved \in Row :
          /\ Calls("put_targets", env, rule, saved) /\ Named(saved)
          /\ saved.schedule = work.row.schedule
    BY <1>6, PutTargetsCalls
  <2>2. work # None /\ work.calls # <<>> /\ Head(work.calls) = <<"put_targets", env>>
    BY <2>1 DEF Calls
  <2> QED
    BY <2>1, <2>2, HeadIsPutTargets, CallPlan
<1>7. ASSUME Commit PROVE PlanInv'
  BY <1>7 DEF Commit, PlanInv, TypeOK, Work, RowsNamed, Planned, PutIsNamed
<1>8. ASSUME Fail PROVE PlanInv'
  <2>1. astray' \in BOOLEAN /\ marred' \in BOOLEAN
    BY <1>8 DEF Fail
  <2> QED
    BY <1>8, <2>1 DEF Fail, PlanInv, TypeOK, RowsNamed, Planned, PutIsNamed
<1>9. ASSUME NEW env \in Envs, EditEnvironment(env) PROVE PlanInv'
  <2>1. astray' \in BOOLEAN
    BY <1>9 DEF EditEnvironment
  <2> QED
    BY <1>9, <2>1
    DEF EditEnvironment, PlanInv, TypeOK, RowsNamed, Planned, PutIsNamed, Removes
<1>10. ASSUME NEW env \in Envs, RemovedByHand(env) PROVE PlanInv'
  BY <1>10 DEF RemovedByHand, PlanInv, TypeOK, RowsNamed, Planned, PutIsNamed, Removes
<1>11. CASE UNCHANGED vars
  BY <1>11 DEF vars, PlanInv, TypeOK, RowsNamed, Planned, PutIsNamed, Removes
<1> QED
  BY <1>1, <1>2, <1>3, <1>4, <1>5, <1>6, <1>7, <1>8, <1>9, <1>10, <1>11 DEF Next

LEMMA PlanInit == Init => PlanInv
BY DEF Init, PlanInv, TypeOK, RowsNamed, Planned, PutIsNamed

\* Every reachable state is well-typed, for any Run Environments and schedules:
\* no rule is put without a schedule, and no target before its rule has a name.
THEOREM TypeCorrect == Spec => []TypeOK
<1>1. PlanInv => TypeOK
  BY DEF PlanInv
<1> QED
  BY <1>1, PlanInit, PlanStep, PTL DEF Spec

-----------------------------------------------------------------------------
(* The rule fires as the row says.                                         *)

FiresFor(r, rule) ==
  rule # None /\ rule.schedule = r.schedule /\ rule.enabled = r.enabled /\ rule.target

RowFires ==
  (work = None \/ ~work.called) /\ Scheduled /\ ~marred =>
    \E e \in Envs : row.scheduling_run_environment = e /\ FiresFor(row, rules[e])

\* A request that has done what it had to do has done so.
WorkFires ==
  work # None /\ work.calls = <<>> /\ ~Removes /\ ~marred =>
    \E e \in Envs : work.row.scheduling_run_environment = e /\ FiresFor(work.row, rules[e])

PutFires ==
  \A e \in Envs :
    work # None /\ work.calls = << <<"put_targets", e>> >> /\ rules[e] # None =>
      rules[e].schedule = work.row.schedule /\ rules[e].enabled = work.row.enabled

FireInv == PlanInv /\ RowFires /\ WorkFires /\ PutFires

LEMMA BegunFires ==
  ASSUME FireInv, Begun
  PROVE  RowFires' /\ WorkFires' /\ PutFires'
<1>1. RowFires'
  BY DEF FireInv, Begun, RowFires, Scheduled, FiresFor
<1>2. WorkFires'
  <2> SUFFICES ASSUME work'.calls = <<>>, ~Removes', ~marred'
               PROVE  \E e \in Envs : /\ work'.row.scheduling_run_environment = e
                                      /\ FiresFor(work'.row, rules'[e])
    BY DEF WorkFires
  <2>1. Len(work'.calls) = 0
    OBVIOUS
  <2>2. ~Sets(work') /\ ~Unsets(work') /\ ~Transfers(work')
    BY <2>1 DEF Sets, Unsets, Transfers, Teardowns, Moves
  <2>3. Scheduled /\ work'.row.schedule = row.schedule /\ work'.row.enabled = row.enabled
    BY <2>2 DEF Begun, Nothing, Removes
  <2>4. /\ work'.row.scheduling_run_environment = row.scheduling_run_environment
        /\ rules' = rules /\ marred' = marred /\ work = None
    BY <2>3 DEF Begun, Scheduled
  <2>5. PICK e \in Envs : row.scheduling_run_environment = e /\ FiresFor(row, rules[e])
    BY <2>3, <2>4 DEF FireInv, RowFires
  <2> QED
    BY <2>3, <2>4, <2>5 DEF FiresFor
<1>3. PutFires'
  BY BegunPutsNothing DEF PutFires
<1> QED
  BY <1>1, <1>2, <1>3

\* A call that is not the last to put anything.
LEMMA OtherCallFires ==
  ASSUME FireInv, NEW name, NEW env \in Envs, NEW rule \in Rule \cup {None}, NEW saved \in Row,
         Calls(name, env, rule, saved), saved.schedule = work.row.schedule,
         Tail(work.calls) = <<>> => Removes,
         \A e \in Envs : Tail(work.calls) = << <<"put_targets", e>> >> =>
           /\ e = env /\ rule # None
           /\ rule.schedule = saved.schedule /\ rule.enabled = saved.enabled
  PROVE  RowFires' /\ WorkFires' /\ PutFires'
<1>1. work \in Work /\ work # None
  BY DEF Calls, FireInv, PlanInv, TypeOK
<1>2. work' = [work EXCEPT !.calls = Tail(@), !.called = TRUE, !.row = saved]
  BY DEF Calls
<1>3. /\ work'.calls = Tail(work.calls) /\ work'.called = TRUE /\ work'.row = saved
      /\ work'.deletes = work.deletes /\ work' \in Work
  <2>1. Tail(work.calls) \in Seq(Call)
    BY <1>1, HeadTailProperties DEF Work, Calls
  <2> QED
    BY <1>1, <1>2, <2>1 DEF Work
<1>4. work' # None
  BY <1>3, RowsAssumption
<1>5. \A e \in Envs : rules'[e] = IF e = env THEN rule ELSE rules[e]
  BY DEF Calls, FireInv, PlanInv, TypeOK
<1>6. RowFires'
  BY <1>3, <1>4 DEF RowFires
<1>7. WorkFires'
  BY <1>3 DEF WorkFires, Removes
<1>8. PutFires'
  BY <1>3, <1>5 DEF PutFires
<1> QED
  BY <1>6, <1>7, <1>8

LEMMA NotThePut ==
  \A x :
    /\ <<>> # << <<"put_targets", x>> >>
    /\ \A o : << <<"delete_rule", o>> >> # << <<"put_targets", x>> >>
    /\ \A a, b : <<a, b>> # << <<"put_targets", x>> >> /\ <<a, b>> # <<>>
    /\ \A a, b, c : <<a, b, c>> # << <<"put_targets", x>> >> /\ <<a, b, c>> # <<>>
    /\ \A o : << <<"delete_rule", o>> >> # <<>> /\ << <<"put_targets", o>> >> # <<>>
<1>1. \A x, o : << <<"delete_rule", o>> >> # << <<"put_targets", x>> >>
  OBVIOUS
<1>2. \A a, b, c : <<a, b, c>> # <<>> /\ <<a, b>> # <<>>
  OBVIOUS
<1> QED
  BY <1>1, <1>2, LengthsDiffer

LEMMA FireStep ==
  ASSUME FireInv, [Next]_vars
  PROVE  RowFires' /\ WorkFires' /\ PutFires'
<1> DEFINE Goal == (RowFires /\ WorkFires /\ PutFires)'
<1> SUFFICES Goal
  OBVIOUS
<1> USE DEF FireInv
<1>1. ASSUME NEW schedule \in Schedules \cup {None}, NEW enabled \in BOOLEAN,
             NEW env \in Envs \cup {None}, NEW after \in SUBSET Envs,
             Save(schedule, enabled, env, after)
      PROVE  Goal
  BY <1>1, SaveBegins, BegunFires DEF PlanInv
<1>2. ASSUME Delete PROVE Goal
  BY <1>2, DeleteBegins, BegunFires DEF PlanInv
<1>3. ASSUME NEW env \in Envs, RemoveTargets(env) PROVE Goal
  <2>1. PICK rule \in Rule \cup {None}, saved \in Row :
          /\ Calls("remove_targets", env, rule, saved)
          /\ saved.schedule = work.row.schedule
    BY <1>3, RemoveTargetsCalls DEF PlanInv
  <2>2. work # None /\ work.calls # <<>> /\ Head(work.calls) = <<"remove_targets", env>>
    BY <2>1 DEF Calls
  <2>3. Tail(work.calls) # <<>> /\ \A x : Tail(work.calls) # << <<"put_targets", x>> >>
    BY <2>2, HeadIsRemoveTargets, NotThePut
  <2> QED
    BY <2>1, <2>3, OtherCallFires
<1>4. ASSUME NEW env \in Envs, DeleteRule(env) PROVE Goal
  <2>1. work.row \in Row /\ Calls("delete_rule", env, None, work.row)
    BY <1>4, DeleteRuleCalls DEF PlanInv
  <2>2. work # None /\ work.calls # <<>> /\ Head(work.calls) = <<"delete_rule", env>>
    BY <2>1 DEF Calls
  <2>3. /\ Tail(work.calls) = <<>> => Removes
        /\ \A x : Tail(work.calls) # << <<"put_targets", x>> >>
    BY <2>2, HeadIsDeleteRule, NotThePut
  <2> QED
    BY <2>1, <2>3, OtherCallFires
<1>5. ASSUME NEW env \in Envs, PutRule(env) PROVE Goal
  <2>1. PICK rule \in Rule, saved \in Row :
          /\ Calls("put_rule", env, rule, saved)
          /\ rule.schedule = work.row.schedule /\ rule.enabled = work.row.enabled
          /\ saved.schedule = work.row.schedule /\ saved.enabled = work.row.enabled
    BY <1>5, PutRuleCalls
  <2>2. work # None /\ work.calls # <<>> /\ Head(work.calls) = <<"put_rule", env>>
    BY <2>1 DEF Calls
  <2>3. Tail(work.calls) = << <<"put_targets", env>> >>
    BY <2>2, HeadIsPutRule
  <2>4. Tail(work.calls) # <<>>
    BY <2>3, NotThePut
  <2>5. \A e \in Envs : Tail(work.calls) = << <<"put_targets", e>> >> => e = env
    BY <2>3
  <2>6. rule # None /\ rule \in Rule \cup {None}
    BY RowsAssumption
  <2>7. rule.schedule = saved.schedule /\ rule.enabled = saved.enabled
    BY <2>1
  <2>8. \A e \in Envs : Tail(work.calls) = << <<"put_targets", e>> >> =>
          /\ e = env /\ rule # None
          /\ rule.schedule = saved.schedule /\ rule.enabled = saved.enabled
    BY <2>5, <2>6, <2>7
  <2>9. Calls("put_rule", env, rule, saved) /\ saved.schedule = work.row.schedule
    BY <2>1
  <2> HIDE DEF FireInv
  <2> QED
    BY <2>4, <2>6, <2>8, <2>9, OtherCallFires
<1>6. ASSUME NEW env \in Envs, PutTargets(env) PROVE Goal
  <2>1. PICK rule \in Rule, saved \in Row :
          /\ Calls("put_targets", env, rule, saved) /\ rules[env] # None
          /\ rule.schedule = rules[env].schedule /\ rule.enabled = rules[env].enabled
          /\ rule.target
          /\ saved.scheduling_run_environment = env
          /\ saved.schedule = work.row.schedule /\ saved.enabled = work.row.enabled
    BY <1>6, PutTargetsCalls
  <2>2. work # None /\ work.calls # <<>> /\ Head(work.calls) = <<"put_targets", env>>
    BY <2>1 DEF Calls
  <2>3. work.calls = << <<"put_targets", env>> >> /\ Tail(work.calls) = <<>>
    BY <2>2, HeadIsPutTargets
  <2>4. /\ work' = [work EXCEPT !.calls = Tail(@), !.called = TRUE, !.row = saved]
        /\ rules' = [rules EXCEPT ![env] = rule] /\ work \in Work
    BY <2>1, <2>2 DEF Calls, PlanInv, TypeOK
  <2>5. work'.calls = <<>> /\ work'.called = TRUE /\ work'.row = saved
    BY <2>3, <2>4 DEF Work
  <2>6. work' # None
    BY <2>1, CallsAre DEF PlanInv
  <2>7. rules'[env] = rule
    BY <2>4 DEF PlanInv, TypeOK
  <2>8. FiresFor(saved, rule)
    <3>1. rules[env].schedule = work.row.schedule /\ rules[env].enabled = work.row.enabled
      BY <2>1, <2>2, <2>3 DEF PutFires
    <3>2. rule # None
      BY RowsAssumption
    <3> QED
      BY <2>1, <3>1, <3>2 DEF FiresFor
  <2>9. RowFires'
    BY <2>5, <2>6 DEF RowFires
  <2>10. WorkFires'
    BY <2>1, <2>5, <2>7, <2>8 DEF WorkFires
  <2>11. PutFires'
    BY <2>5, NotThePut DEF PutFires
  <2> QED
    BY <2>9, <2>10, <2>11
<1>7. ASSUME Commit PROVE Goal
  <2>1. RowFires'
    BY <1>7 DEF Commit, RowFires, WorkFires, Scheduled, Removes, FiresFor
  <2> QED
    BY <1>7, <2>1 DEF Commit, WorkFires, PutFires
<1>8. ASSUME Fail PROVE Goal
  BY <1>8 DEF Fail, RowFires, WorkFires, PutFires, Scheduled, FiresFor
<1>9. ASSUME NEW env \in Envs, EditEnvironment(env) PROVE Goal
  BY <1>9 DEF EditEnvironment, RowFires, WorkFires, PutFires, Scheduled, FiresFor, Removes
<1>10. ASSUME NEW env \in Envs, RemovedByHand(env) PROVE Goal
  BY <1>10 DEF RemovedByHand, RowFires, WorkFires, PutFires, PlanInv, TypeOK
<1>11. CASE UNCHANGED vars
  BY <1>11 DEF vars, RowFires, WorkFires, PutFires, Scheduled, FiresFor, Removes
<1> QED
  BY <1>1, <1>2, <1>3, <1>4, <1>5, <1>6, <1>7, <1>8, <1>9, <1>10, <1>11 DEF Next

\* A scheduled Workflow has its rule, as it was last edited: every request that
\* sets it up makes good what failed requests and people in AWS have done, and no
\* request that changes what the rule should be leaves it (pre_save_workflow).
THEOREM ScheduledWorkflowFires == Spec => []ScheduledFires
<1>1. Init => FireInv
  BY PlanInit DEF Init, FireInv, RowFires, WorkFires, PutFires, Scheduled
<1>2. FireInv /\ [Next]_vars => FireInv'
  BY PlanStep, FireStep DEF FireInv
<1>3. FireInv => ScheduledFires
  BY DEF FireInv, RowFires, ScheduledFires, Fires, FiresFor
<1> QED
  BY <1>1, <1>2, <1>3, PTL DEF Spec


-----------------------------------------------------------------------------
(* Nothing but the rule that the row names fires.                          *)

OnlyAt(R, x) == \A e \in Envs : R[e] # None => e = x

NoRules == \A e \in Envs : rules[e] = None

IsHeld(r) ==
  \A e \in Envs :
    rules[e] # None =>
      r.schedule # None /\ r.scheduling_run_environment = e /\ r.ruleNamed /\ e \in able

\* Where a rule may be when the calls c are still to be made.
Held(R, A, c) ==
  \A o \in Envs :
    /\ c \in Teardowns(o) => OnlyAt(R, o)
    /\ c \in Setups(o) => OnlyAt(R, o) /\ o \in A
    /\ \A e \in Envs : c \in Moves(o, e) => OnlyAt(R, o) /\ e \in A

RowHolds ==
  (work = None \/ ~work.called) /\ ~astray => IF row = None THEN NoRules ELSE IsHeld(row)

WorkHolds ==
  work # None /\ ~astray =>
    /\ work.calls = <<>> => IF Removes THEN NoRules ELSE IsHeld(work.row)
    /\ Held(rules, able, work.calls)

HoldInv == PlanInv /\ RowHolds /\ WorkHolds

\* The calls tell where they are made.
LEMMA TeardownsHold ==
  ASSUME NEW R, NEW A, NEW a \in Envs, OnlyAt(R, a), NEW c \in Teardowns(a)
  PROVE  c # <<>> /\ Held(R, A, c)
<1>1. CASE c = << <<"delete_rule", a>> >>
  <2>1. Len(c) = 1 /\ c[1] = <<"delete_rule", a>>
    BY <1>1
  <2>2. \A o : c \in Teardowns(o) => o = a
    BY <2>1 DEF Teardowns
  <2>3. \A o, e : c \notin Setups(o) /\ c \notin Moves(o, e)
    BY <2>1 DEF Setups, Moves
  <2> QED
    BY <2>1, <2>2, <2>3 DEF Held
<1>2. CASE c = << <<"remove_targets", a>>, <<"delete_rule", a>> >>
  <2>1. Len(c) = 2 /\ c[1] = <<"remove_targets", a>>
    BY <1>2
  <2>2. \A o : c \in Teardowns(o) => o = a
    BY <2>1 DEF Teardowns
  <2>3. \A o, e : c \notin Setups(o) /\ c \notin Moves(o, e)
    BY <2>1 DEF Setups, Moves
  <2> QED
    BY <2>1, <2>2, <2>3 DEF Held
<1> QED
  BY <1>1, <1>2 DEF Teardowns

LEMMA SetupsHold ==
  ASSUME NEW R, NEW A, NEW a \in Envs, OnlyAt(R, a), a \in A, NEW c \in Setups(a)
  PROVE  c # <<>> /\ Held(R, A, c)
<1>1. CASE c = << <<"put_targets", a>> >>
  <2>1. Len(c) = 1 /\ c[1] = <<"put_targets", a>>
    BY <1>1
  <2>2. \A o : c \in Setups(o) => o = a
    BY <2>1 DEF Setups
  <2>3. \A o, e : c \notin Teardowns(o) /\ c \notin Moves(o, e)
    BY <2>1 DEF Teardowns, Moves
  <2> QED
    BY <2>1, <2>2, <2>3 DEF Held
<1>2. CASE c = << <<"put_rule", a>>, <<"put_targets", a>> >>
  <2>1. Len(c) = 2 /\ c[1] = <<"put_rule", a>>
    BY <1>2
  <2>2. \A o : c \in Setups(o) => o = a
    BY <2>1 DEF Setups
  <2>3. \A o, e : c \notin Teardowns(o) /\ c \notin Moves(o, e)
    BY <2>1 DEF Teardowns, Moves
  <2> QED
    BY <2>1, <2>2, <2>3 DEF Held
<1> QED
  BY <1>1, <1>2 DEF Setups

LEMMA MovesHold ==
  ASSUME NEW R, NEW A, NEW a \in Envs, NEW b \in Envs, OnlyAt(R, a), b \in A,
         NEW c \in Moves(a, b)
  PROVE  c # <<>> /\ Held(R, A, c)
<1>1. CASE c = << <<"delete_rule", a>>, <<"put_rule", b>>, <<"put_targets", b>> >>
  <2>1. Len(c) = 3 /\ c[1] = <<"delete_rule", a>> /\ c[2] = <<"put_rule", b>>
    BY <1>1
  <2>2. \A o, e : c \in Moves(o, e) => o = a /\ e = b
    BY <2>1 DEF Moves
  <2>3. \A o : c \notin Teardowns(o) /\ c \notin Setups(o)
    BY <2>1 DEF Teardowns, Setups
  <2> QED
    BY <2>1, <2>2, <2>3 DEF Held
<1>2. CASE c = << <<"remove_targets", a>>, <<"delete_rule", a>>,
                  <<"put_rule", b>>, <<"put_targets", b>> >>
  <2>1. Len(c) = 4 /\ c[1] = <<"remove_targets", a>> /\ c[3] = <<"put_rule", b>>
    BY <1>2
  <2>2. \A o, e : c \in Moves(o, e) => o = a /\ e = b
    BY <2>1 DEF Moves
  <2>3. \A o : c \notin Teardowns(o) /\ c \notin Setups(o)
    BY <2>1 DEF Teardowns, Setups
  <2> QED
    BY <2>1, <2>2, <2>3 DEF Held
<1> QED
  BY <1>1, <1>2 DEF Moves

LEMMA NoCallsHold ==
  ASSUME NEW R, NEW A
  PROVE  Held(R, A, <<>>)
<1>1. \A o, e : <<>> \notin Teardowns(o) /\ <<>> \notin Setups(o) /\ <<>> \notin Moves(o, e)
  BY DEF Teardowns, Setups, Moves
<1> QED
  BY <1>1 DEF Held

LEMMA BegunHolds ==
  ASSUME HoldInv, Begun
  PROVE  RowHolds' /\ WorkHolds'
<1>1. RowHolds'
  BY DEF HoldInv, Begun, RowHolds, NoRules, IsHeld
<1>2. WorkHolds'
  <2> SUFFICES ASSUME ~astray'
               PROVE  /\ work'.calls = <<>> => IF Removes' THEN NoRules' ELSE IsHeld(work.row)'
                      /\ Held(rules, able, work'.calls)
    BY DEF WorkHolds, Begun
  <2>1. IF row = None THEN NoRules ELSE IsHeld(row)
    BY DEF HoldInv, RowHolds, Begun
  <2>2. /\ rules' = rules /\ able' = able /\ row' = row
        /\ row # None => /\ work'.row.ruleNamed = row.ruleNamed
                         /\ work'.row.scheduling_run_environment = row.scheduling_run_environment
    BY DEF Begun
  <2>3. \A e \in Envs : rules[e] # None =>
          /\ Scheduled /\ row.scheduling_run_environment = e /\ row.ruleNamed
          /\ e \in able /\ OwnEnvironment(row) = e
    BY <2>1 DEF NoRules, IsHeld, Scheduled, OwnEnvironment
  <2>4. OwnEnvironment(row) # None => OnlyAt(rules, OwnEnvironment(row))
    BY <2>3 DEF OnlyAt
  <2>5. CASE Nothing(work')
    <3>1. CASE ~work'.deletes /\ Scheduled /\ work'.row.schedule = row.schedule
      BY <2>2, <2>3, <2>5, <3>1, NoCallsHold DEF Nothing, Removes, IsHeld, Scheduled
    <3>2. CASE /\ work'.deletes \/ work'.row.schedule = None
               /\ ~Scheduled \/ OwnEnvironment(row) = None \/ ~row.ruleNamed
      <4>1. \A e \in Envs : rules[e] = None
        BY <2>3, <3>2, NoneAssumption
      <4> QED
        BY <2>2, <2>5, <3>2, <4>1, NoCallsHold DEF Nothing, Removes, NoRules
    <3> QED
      BY <2>5, <3>1, <3>2 DEF Nothing
  <2>6. CASE Sets(work')
    <3>1. PICK e \in able :
            /\ work'.calls = << <<"put_rule", e>>, <<"put_targets", e>> >>
            /\ ~Scheduled \/ OwnEnvironment(row) \in {None, e} \/ ~row.ruleNamed
      BY <2>6 DEF Sets
    <3>2. e \in Envs /\ OnlyAt(rules, e)
      BY <2>3, <3>1, NoneAssumption DEF OnlyAt, HoldInv, PlanInv, TypeOK
    <3>3. work'.calls \in Setups(e)
      BY <3>1 DEF Setups
    <3> QED
      BY <3>2, <3>3, SetupsHold
  <2>7. CASE Unsets(work')
    BY <2>4, <2>7, TeardownsHold, NoneAssumption DEF Unsets
  <2>8. CASE Transfers(work')
    <3>1. PICK e \in able : work'.calls \in Moves(OwnEnvironment(row), e)
      BY <2>8 DEF Transfers
    <3>2. e \in Envs /\ OwnEnvironment(row) \in Envs /\ OnlyAt(rules, OwnEnvironment(row))
      BY <2>4, <2>8, NoneAssumption DEF Transfers, HoldInv, PlanInv, TypeOK
    <3> QED
      BY <3>1, <3>2, MovesHold
  <2> QED
    BY <2>5, <2>6, <2>7, <2>8 DEF Begun
<1> QED
  BY <1>1, <1>2

\* What a call is to leave.
LEMMA CallHolds ==
  ASSUME HoldInv, NEW name, NEW env \in Envs, NEW rule \in Rule \cup {None}, NEW saved \in Row,
         Calls(name, env, rule, saved), saved.schedule = work.row.schedule,
         ~astray => Held(rules', able, Tail(work.calls)),
         ~astray /\ Tail(work.calls) = <<>> =>
           IF Removes THEN NoRules'
           ELSE \A e \in Envs : rules'[e] # None =>
                  saved.schedule # None /\ saved.scheduling_run_environment = e
                  /\ saved.ruleNamed /\ e \in able
  PROVE  RowHolds' /\ WorkHolds'
<1>0. /\ work \in Work /\ work # None /\ UNCHANGED <<row, able, astray>>
      /\ work' = [work EXCEPT !.calls = Tail(@), !.called = TRUE, !.row = saved]
      /\ Tail(work.calls) \in Seq(Call)
  <2>1. work \in Work /\ work # None /\ work.calls # <<>>
    BY DEF Calls, HoldInv, PlanInv, TypeOK
  <2>2. Tail(work.calls) \in Seq(Call)
    BY <2>1, HeadTailProperties DEF Work
  <2> QED
    BY <2>1, <2>2 DEF Calls
<1>1. /\ work' # None /\ work'.called /\ work'.calls = Tail(work.calls) /\ work'.row = saved
      /\ work'.deletes = work.deletes
      /\ UNCHANGED <<row, able, astray>>
  <2>1. /\ work'.called = TRUE /\ work'.calls = Tail(work.calls) /\ work'.row = saved
        /\ work'.deletes = work.deletes /\ work' \in Work
    BY <1>0 DEF Work
  <2> QED
    BY <1>0, <2>1, RowsAssumption
<1>2. RowHolds'
  BY <1>1 DEF RowHolds
<1>3. Removes' <=> Removes
  BY <1>1 DEF Removes, Work, HoldInv, PlanInv, TypeOK
<1>4. ~astray' /\ work'.calls = <<>> => IF Removes' THEN NoRules' ELSE IsHeld(work.row)'
  BY <1>1, <1>3 DEF IsHeld
<1>5. ~astray' => Held(rules', able', work'.calls)
  BY <1>1
<1>6. WorkHolds'
  BY <1>4, <1>5 DEF WorkHolds
<1> QED
  BY <1>2, <1>6

LEMMA HoldStep ==
  ASSUME HoldInv, [Next]_vars
  PROVE  RowHolds' /\ WorkHolds'
<1> DEFINE Goal == (RowHolds /\ WorkHolds)'
<1> SUFFICES Goal
  OBVIOUS
<1> USE DEF HoldInv
<1>1. ASSUME NEW schedule \in Schedules \cup {None}, NEW enabled \in BOOLEAN,
             NEW env \in Envs \cup {None}, NEW after \in SUBSET Envs,
             Save(schedule, enabled, env, after)
      PROVE  Goal
  BY <1>1, SaveBegins, BegunHolds DEF PlanInv
<1>2. ASSUME Delete PROVE Goal
  BY <1>2, DeleteBegins, BegunHolds DEF PlanInv
<1>3. ASSUME NEW env \in Envs, RemoveTargets(env) PROVE Goal
  <2>1. PICK rule \in Rule \cup {None}, saved \in Row :
          /\ Calls("remove_targets", env, rule, saved)
          /\ saved.schedule = work.row.schedule /\ (rule # None => rules[env] # None)
    BY <1>3, RemoveTargetsCalls DEF PlanInv
  <2>2. /\ work # None /\ work.calls # <<>> /\ Head(work.calls) = <<"remove_targets", env>>
        /\ \A e \in Envs : rules'[e] = IF e = env THEN rule ELSE rules[e]
    BY <2>1 DEF Calls, PlanInv, TypeOK
  <2>3. \A x : OnlyAt(rules, x) => OnlyAt(rules', x)
    BY <2>1, <2>2 DEF OnlyAt
  <2>4. ASSUME ~astray
        PROVE  Tail(work.calls) # <<>> /\ Held(rules', able, Tail(work.calls))
    <3>1. Held(rules, able, work.calls)
      BY <2>2, <2>4 DEF WorkHolds
    <3>2. CASE /\ work.calls \in Teardowns(env)
               /\ Tail(work.calls) = << <<"delete_rule", env>> >>
      <4>1. OnlyAt(rules', env)
        BY <2>3, <3>1, <3>2 DEF Held
      <4>2. Tail(work.calls) \in Teardowns(env)
        BY <3>2 DEF Teardowns
      <4> QED
        BY <4>1, <4>2, TeardownsHold
    <3>3. ASSUME NEW e \in Envs, work.calls \in Moves(env, e),
                 Tail(work.calls) = << <<"delete_rule", env>>, <<"put_rule", e>>,
                                       <<"put_targets", e>> >>
          PROVE  Tail(work.calls) # <<>> /\ Held(rules', able, Tail(work.calls))
      <4>1. OnlyAt(rules', env) /\ e \in able
        BY <2>3, <3>1, <3>3 DEF Held
      <4>2. Tail(work.calls) \in Moves(env, e)
        BY <3>3 DEF Moves
      <4> QED
        BY <4>1, <4>2, MovesHold
    <3> QED
      BY <2>2, <3>2, <3>3, HeadIsRemoveTargets
  <2> HIDE DEF HoldInv
  <2> QED
    BY <2>1, <2>4, CallHolds
<1>4. ASSUME NEW env \in Envs, DeleteRule(env) PROVE Goal
  <2>1. work.row \in Row /\ Calls("delete_rule", env, None, work.row)
    BY <1>4, DeleteRuleCalls DEF PlanInv
  <2>2. /\ work # None /\ work.calls # <<>> /\ Head(work.calls) = <<"delete_rule", env>>
        /\ \A e \in Envs : rules'[e] = IF e = env THEN None ELSE rules[e]
    BY <2>1 DEF Calls, PlanInv, TypeOK
  <2>3. OnlyAt(rules, env) => NoRules' /\ \A x : OnlyAt(rules', x)
    BY <2>2 DEF OnlyAt, NoRules
  <2>4. ASSUME ~astray
        PROVE  /\ Held(rules', able, Tail(work.calls))
               /\ Tail(work.calls) = <<>> => Removes /\ NoRules'
    <3>1. Held(rules, able, work.calls)
      BY <2>2, <2>4 DEF WorkHolds
    <3>2. CASE Removes /\ work.calls \in Teardowns(env) /\ Tail(work.calls) = <<>>
      BY <2>3, <3>1, <3>2, NoCallsHold DEF Held
    <3>3. ASSUME NEW e \in Envs, work.calls \in Moves(env, e),
                 Tail(work.calls) = << <<"put_rule", e>>, <<"put_targets", e>> >>
          PROVE  Tail(work.calls) # <<>> /\ Held(rules', able, Tail(work.calls))
      <4>1. OnlyAt(rules', e) /\ e \in able
        BY <2>3, <3>1, <3>3 DEF Held
      <4>2. Tail(work.calls) \in Setups(e)
        BY <3>3 DEF Setups
      <4> QED
        BY <4>1, <4>2, SetupsHold
    <3> QED
      BY <2>2, <3>2, <3>3, HeadIsDeleteRule
  <2> HIDE DEF HoldInv
  <2> QED
    BY <2>1, <2>4, CallHolds
<1>5. ASSUME NEW env \in Envs, PutRule(env) PROVE Goal
  <2>1. PICK rule \in Rule, saved \in Row :
          /\ Calls("put_rule", env, rule, saved) /\ saved.schedule = work.row.schedule
    BY <1>5, PutRuleCalls
  <2>2. /\ work # None /\ work.calls # <<>> /\ Head(work.calls) = <<"put_rule", env>>
        /\ \A e \in Envs : rules'[e] = IF e = env THEN rule ELSE rules[e]
    BY <2>1 DEF Calls, PlanInv, TypeOK
  <2>3. /\ work.calls \in Setups(env)
        /\ Tail(work.calls) = << <<"put_targets", env>> >>
    BY <2>2, HeadIsPutRule
  <2>4. ASSUME ~astray
        PROVE  Tail(work.calls) # <<>> /\ Held(rules', able, Tail(work.calls))
    <3>1. OnlyAt(rules, env) /\ env \in able
      BY <2>2, <2>3, <2>4 DEF WorkHolds, Held
    <3>2. OnlyAt(rules', env)
      BY <2>2, <3>1 DEF OnlyAt
    <3>3. Tail(work.calls) \in Setups(env)
      BY <2>3 DEF Setups
    <3> QED
      BY <3>1, <3>2, <3>3, SetupsHold
  <2> HIDE DEF HoldInv
  <2> QED
    BY <2>1, <2>4, CallHolds
<1>6. ASSUME NEW env \in Envs, PutTargets(env) PROVE Goal
  <2>1. PICK rule \in Rule, saved \in Row :
          /\ Calls("put_targets", env, rule, saved) /\ rules[env] # None
          /\ saved.ruleNamed = work.row.ruleNamed
          /\ saved.scheduling_run_environment = env
          /\ saved.schedule = work.row.schedule
    BY <1>6, PutTargetsCalls
  <2>2. /\ work # None /\ work.calls # <<>> /\ Head(work.calls) = <<"put_targets", env>>
        /\ \A e \in Envs : rules'[e] = IF e = env THEN rule ELSE rules[e]
    BY <2>1 DEF Calls, PlanInv, TypeOK
  <2>3. /\ ~Removes /\ work.calls = << <<"put_targets", env>> >> /\ Tail(work.calls) = <<>>
    BY <2>2, HeadIsPutTargets
  <2>4. Held(rules', able, Tail(work.calls))
    BY <2>3, NoCallsHold
  <2>5. ASSUME ~astray
        PROVE  \A e \in Envs : rules'[e] # None =>
                 saved.schedule # None /\ saved.scheduling_run_environment = e
                 /\ saved.ruleNamed /\ e \in able
    <3>1. work.calls \in Setups(env)
      BY <2>3 DEF Setups
    <3>2. OnlyAt(rules, env) /\ env \in able
      BY <2>2, <2>5, <3>1 DEF WorkHolds, Held
    <3>3. saved.schedule # None /\ saved.ruleNamed
      BY <2>1, <2>2, <2>3 DEF Removes, PlanInv, PutIsNamed
    <3> QED
      BY <2>1, <2>2, <3>2, <3>3 DEF OnlyAt
  <2> HIDE DEF HoldInv
  <2> QED
    BY <2>1, <2>3, <2>4, <2>5, CallHolds
<1>7. ASSUME Commit PROVE Goal
  <2>1. ~astray => IF Removes THEN NoRules ELSE IsHeld(work.row)
    BY <1>7 DEF Commit, WorkHolds
  <2>2. work.row # None
    BY <1>7, RowsAssumption DEF Commit, PlanInv, TypeOK, Work
  <2>3. /\ rules' = rules /\ able' = able /\ astray' = astray
        /\ row' = IF work.deletes THEN None ELSE work.row
    BY <1>7 DEF Commit
  <2>4. ASSUME ~astray PROVE IF row' = None THEN NoRules' ELSE IsHeld(row)'
    BY <2>1, <2>2, <2>3, <2>4 DEF NoRules, IsHeld, Removes
  <2>5. RowHolds'
    BY <2>3, <2>4 DEF RowHolds, NoRules, IsHeld
  <2> QED
    BY <1>7, <2>5 DEF Commit, WorkHolds
<1>8. ASSUME Fail PROVE Goal
  BY <1>8 DEF Fail, RowHolds, WorkHolds, NoRules, IsHeld
<1>9. ASSUME NEW env \in Envs, EditEnvironment(env) PROVE Goal
  BY <1>9 DEF EditEnvironment, RowHolds, WorkHolds, NoRules, IsHeld, Removes, Held
<1>10. ASSUME NEW env \in Envs, RemovedByHand(env) PROVE Goal
  <2>1. \A e \in Envs : rules'[e] # None => rules[e] # None
    BY <1>10 DEF RemovedByHand, PlanInv, TypeOK
  <2>2. RowHolds'
    BY <1>10, <2>1 DEF RemovedByHand, RowHolds, NoRules, IsHeld
  <2>3. WorkHolds'
    BY <1>10, <2>1 DEF RemovedByHand, WorkHolds, NoRules, IsHeld, Removes, Held, OnlyAt
  <2> QED
    BY <2>2, <2>3
<1>11. CASE UNCHANGED vars
  BY <1>11 DEF vars, RowHolds, WorkHolds, NoRules, IsHeld, Removes, Held
<1> QED
  BY <1>1, <1>2, <1>3, <1>4, <1>5, <1>6, <1>7, <1>8, <1>9, <1>10, <1>11 DEF Next

\* As long as no request fails between its calls, no rule starts the Workflow
\* but the one its row names, and none does once it is unscheduled or deleted
\* (pre_save_workflow, pre_delete_workflow).
THEOREM NothingElseStarts == Spec => []NothingElseFires
<1>1. Init => HoldInv
  BY PlanInit DEF Init, HoldInv, RowHolds, WorkHolds, NoRules
<1>2. HoldInv /\ [Next]_vars => HoldInv'
  BY PlanStep, HoldStep DEF HoldInv
<1>3. HoldInv => NothingElseFires
  BY DEF HoldInv, RowHolds, NothingElseFires, NoRules, IsHeld, Scheduled
<1> QED
  BY <1>1, <1>2, <1>3, PTL DEF Spec

-----------------------------------------------------------------------------
(* How executions of a Workflow are admitted (WorkflowStart).  First, the  *)
(* numbers: induction over them, for what is computed step by step.        *)

LEMMA NatMin ==
  ASSUME NEW T \in SUBSET Nat, T # {}
  PROVE  \E m \in T : \A k \in T : m <= k
<1>1. PICK R : R = { p \in Nat \X Nat : p[1] < p[2] }
  OBVIOUS
<1>2. R = OpToRel(<, Nat)
  BY <1>1 DEF OpToRel
<1>3. IsWellFoundedOn(R, Nat)
  BY <1>2, NatLessThanWellFounded
<1>4. PICK m \in T : \A k \in T : <<k, m>> \notin R
  BY <1>3, WFMin
<1>5. ASSUME NEW k \in T
      PROVE  m <= k
  <2>1. k \in Nat /\ m \in Nat
    OBVIOUS
  <2>2. k < m => <<k, m>> \in R
    BY <1>1, <2>1
  <2> QED
    BY <1>4, <2>1, <2>2
<1> QED
  BY <1>5

\* A set that 0 is in and, with each number, the next one, has all of them.
LEMMA NatInduct ==
  ASSUME NEW T, 0 \in T, \A n \in Nat : n \in T => n + 1 \in T
  PROVE  Nat \subseteq T
<1> SUFFICES ASSUME ~(Nat \subseteq T) PROVE FALSE
  OBVIOUS
<1>1. PICK U : U = Nat \ T
  OBVIOUS
<1>2. U \in SUBSET Nat /\ U # {}
  BY <1>1
<1>3. PICK m \in U : \A k \in U : m <= k
  BY <1>2, NatMin
<1>4. m \in Nat /\ m # 0 /\ m \notin T
  BY <1>1, <1>3
<1>5. m - 1 \in Nat /\ ~(m <= m - 1) /\ (m - 1) + 1 = m
  BY <1>4
<1>6. m - 1 \in T
  BY <1>1, <1>3, <1>5
<1> QED
  BY <1>4, <1>5, <1>6

\* Of a finite set whose members have times of their own there are first ones.
LEMMA FirstOnesExist ==
  ASSUME NEW S, IsFiniteSet(S), NEW t, \A a \in S : t[a] \in Nat,
         \A a, b \in S : a # b => t[a] # t[b]
  PROVE  \A n \in 0 .. Cardinality(S) : \E first \in SUBSET S :
           /\ Cardinality(first) = n
           /\ \A a \in first, b \in S \ first : t[a] < t[b]
<1> DEFINE Firsts(n, first) ==
             /\ Cardinality(first) = n
             /\ \A a \in first, b \in S \ first : t[a] < t[b]
<1>1. PICK N : N = { n \in Nat : n <= Cardinality(S) => \E first \in SUBSET S : Firsts(n, first) }
  OBVIOUS
<1>2. Cardinality(S) \in Nat
  BY FS_CardinalityType
<1>3. 0 \in N
  <2>1. {} \in SUBSET S /\ Firsts(0, {})
    BY FS_EmptySet
  <2> QED
    BY <1>1, <2>1
<1>4. ASSUME NEW n \in Nat, n \in N
      PROVE  n + 1 \in N
  <2> SUFFICES ASSUME n + 1 <= Cardinality(S)
               PROVE  \E first \in SUBSET S : Firsts(n + 1, first)
    BY <1>1
  <2>1. PICK first \in SUBSET S : Firsts(n, first)
    BY <1>1, <1>2, <1>4
  <2>2. PICK rest : rest = S \ first
    OBVIOUS
  <2>3. IsFiniteSet(first)
    BY FS_Subset
  <2>4. first # S
    BY <1>2, <2>1
  <2>5. rest # {}
    BY <2>2, <2>4
  <2>6. PICK T : T = { t[a] : a \in rest }
    OBVIOUS
  <2>7. T \in SUBSET Nat /\ T # {}
    BY <2>2, <2>5, <2>6
  <2>8. PICK m \in T : \A k \in T : m <= k
    BY <2>7, NatMin
  <2>9. PICK c \in rest : m = t[c]
    BY <2>6
  <2>10. PICK more : more = first \cup {c}
    OBVIOUS
  <2>11. more \in SUBSET S /\ c \notin first
    BY <2>2, <2>9, <2>10
  <2>12. Cardinality(more) = n + 1
    BY <2>1, <2>3, <2>10, <2>11, FS_AddElement
  <2>13. ASSUME NEW a \in more, NEW b \in S \ more
         PROVE  t[a] < t[b]
    <3>1. b \in rest /\ b \in S \ first /\ b # c
      BY <2>2, <2>10
    <3>2. CASE a \in first
      BY <2>1, <3>1, <3>2
    <3>3. CASE a = c
      <4>1. t[b] \in T /\ t[c] \in Nat /\ t[b] \in Nat /\ t[c] # t[b]
        BY <2>2, <2>6, <2>9, <3>1
      <4> QED
        BY <2>8, <2>9, <3>3, <4>1
    <3> QED
      BY <2>10, <3>2, <3>3
  <2> QED
    BY <2>11, <2>12, <2>13
<1>5. Nat \subseteq N
  BY <1>3, <1>4, NatInduct
<1>6. ASSUME NEW n \in 0 .. Cardinality(S)
      PROVE  \E first \in SUBSET S : Firsts(n, first)
  BY <1>1, <1>2, <1>5
<1> QED
  BY <1>6

Picked(s) == CHOOSE p \in s : TRUE

\* One step of adding up the limits of plans.
SumStep(limits, g, s) ==
  IF s = {} THEN 0 ELSE Admission!AddLimits(limits[Picked(s)], g[s \ {Picked(s)}])

LEMMA PickedIsIn == \A s : s # {} => Picked(s) \in s
BY DEF Picked

\* The sum is defined, for finitely many plans.
LEMMA SumExists ==
  ASSUME NEW S, IsFiniteSet(S), NEW limits
  PROVE  \E g : g = [s \in SUBSET S |-> SumStep(limits, g, s)]
<1> DEFINE Small(n) == { s \in SUBSET S : Cardinality(s) <= n }
           Sums(n, g) == g = [s \in Small(n) |-> SumStep(limits, g, s)]
<1>1. PICK N : N = { n \in Nat : \E g : Sums(n, g) }
  OBVIOUS
<1>2. \A s \in SUBSET S : IsFiniteSet(s) /\ Cardinality(s) \in Nat
  BY FS_Subset, FS_CardinalityType
<1>3. ASSUME NEW n \in Nat, NEW s \in Small(n), s # {}
      PROVE  s \ {Picked(s)} \in Small(n) /\ Cardinality(s \ {Picked(s)}) = Cardinality(s) - 1
  <2>1. s \in SUBSET S /\ Cardinality(s) <= n /\ Picked(s) \in s
    BY <1>3, PickedIsIn
  <2>2. IsFiniteSet(s) /\ Cardinality(s) \in Nat
    BY <1>2, <2>1
  <2>3. Cardinality(s \ {Picked(s)}) = Cardinality(s) - 1
    BY <2>1, <2>2, FS_RemoveElement
  <2> QED
    BY <2>1, <2>2, <2>3
<1>4. 0 \in N
  <2>1. PICK g : g = [s \in Small(0) |-> 0]
    OBVIOUS
  <2>2. \A s \in Small(0) : s = {}
    BY <1>2, FS_EmptySet
  <2>3. \A s \in Small(0) : SumStep(limits, g, s) = 0
    BY <2>2 DEF SumStep
  <2>4. [s \in Small(0) |-> SumStep(limits, g, s)] = [s \in Small(0) |-> 0]
    BY <2>3
  <2>5. Sums(0, g)
    BY <2>1, <2>4
  <2> QED
    BY <1>1, <2>5
<1>5. ASSUME NEW n \in Nat, n \in N
      PROVE  n + 1 \in N
  <2>1. PICK g : Sums(n, g)
    BY <1>1, <1>5
  <2>2. PICK h : h = [s \in Small(n + 1) |-> SumStep(limits, g, s)]
    OBVIOUS
  <2>3. \A s \in Small(n) : h[s] = g[s]
    <3>1. Small(n) \subseteq Small(n + 1)
      BY <1>2
    <3> QED
      BY <2>1, <2>2, <3>1
  <2>4. ASSUME NEW s \in Small(n + 1)
        PROVE  SumStep(limits, h, s) = SumStep(limits, g, s)
    <3>1. CASE s = {}
      BY <3>1 DEF SumStep
    <3>2. CASE s # {}
      <4>1. s \ {Picked(s)} \in Small(n + 1) /\ Cardinality(s \ {Picked(s)}) = Cardinality(s) - 1
        BY <1>3, <3>2
      <4>2. Cardinality(s) \in Nat /\ Cardinality(s) <= n + 1
        BY <1>2
      <4>3. s \ {Picked(s)} \in Small(n)
        BY <4>1, <4>2
      <4> QED
        BY <2>3, <3>2, <4>3 DEF SumStep
    <3> QED
      BY <3>1, <3>2
  <2>5. [s \in Small(n + 1) |-> SumStep(limits, h, s)]
          = [s \in Small(n + 1) |-> SumStep(limits, g, s)]
    BY <2>4
  <2>6. Sums(n + 1, h)
    BY <2>2, <2>5
  <2>7. n + 1 \in Nat /\ \E g2 : Sums(n + 1, g2)
    <3>1. n + 1 \in Nat
      OBVIOUS
    <3> HIDE DEF Sums
    <3> QED
      BY <2>6, <3>1, Zenon
  <2> QED
    BY <1>1, <2>7, Zenon
<1>6. Cardinality(S) \in N
  BY <1>2, <1>4, <1>5, NatInduct
<1>7. Small(Cardinality(S)) = SUBSET S
  BY FS_Subset
<1>8. PICK g : Sums(Cardinality(S), g)
  BY <1>1, <1>6
<1> QED
  BY <1>7, <1>8

\* It is a limit.
LEMMA SumType ==
  ASSUME None \notin Int, NEW S, IsFiniteSet(S),
         NEW limits, \A p \in S : limits[p] \in Nat \cup {None},
         NEW g, g = [s \in SUBSET S |-> SumStep(limits, g, s)]
  PROVE  /\ \A s \in SUBSET S : g[s] \in Nat \cup {None}
         /\ (\A p \in S : limits[p] # 0) => \A s \in SUBSET S : s # {} => g[s] # 0
<1> DEFINE Right(s) ==
             g[s] \in Nat \cup {None} /\ (s # {} /\ (\A p \in S : limits[p] # 0) => g[s] # 0)
<1>1. PICK N : N = { n \in Nat : \A s \in SUBSET S : Cardinality(s) = n => Right(s) }
  OBVIOUS
<1>2. \A s \in SUBSET S : IsFiniteSet(s) /\ Cardinality(s) \in Nat
  BY FS_Subset, FS_CardinalityType
<1>3. \A s \in SUBSET S : g[s] = SumStep(limits, g, s)
  OBVIOUS
<1>4. 0 \in N
  <2>1. ASSUME NEW s \in SUBSET S, Cardinality(s) = 0
        PROVE  Right(s)
    <3>1. s = {}
      BY <1>2, <2>1, FS_EmptySet
    <3>2. g[s] = 0
      BY <1>3, <3>1 DEF SumStep
    <3> QED
      BY <3>1, <3>2
  <2> QED
    BY <1>1, <2>1
<1>5. ASSUME NEW n \in Nat, n \in N
      PROVE  n + 1 \in N
  <2>1. ASSUME NEW s \in SUBSET S, Cardinality(s) = n + 1
        PROVE  Right(s)
    <3>1. s # {}
      BY <2>1, FS_EmptySet
    <3>2. PICK p : p = Picked(s)
      OBVIOUS
    <3>3. p \in s
      BY <3>1, <3>2, PickedIsIn
    <3>4. PICK r : r = s \ {p}
      OBVIOUS
    <3>5. r \in SUBSET S /\ Cardinality(r) = n
      <4>1. IsFiniteSet(s) /\ r \in SUBSET S
        BY <1>2, <3>4
      <4>2. Cardinality(r) = Cardinality(s) - 1
        BY <3>3, <3>4, <4>1, FS_RemoveElement
      <4> QED
        BY <2>1, <4>1, <4>2
    <3>6. g[r] \in Nat \cup {None}
      BY <1>1, <1>5, <3>5
    <3>7. g[s] = Admission!AddLimits(limits[p], g[r])
      BY <1>3, <3>1, <3>2, <3>4 DEF SumStep
    <3>8. limits[p] \in Nat \cup {None} /\ ((\A x \in S : limits[x] # 0) => limits[p] # 0)
      BY <3>3
    <3> QED
      BY <3>6, <3>7, <3>8 DEF Admission!AddLimits
  <2>2. n + 1 \in Nat
    OBVIOUS
  <2>3. \A s \in SUBSET S : Cardinality(s) = n + 1 => Right(s)
    BY <2>1
  <2> QED
    BY <1>1, <2>2, <2>3, Zenon
<1>6. Nat \subseteq N
  BY <1>4, <1>5, NatInduct
<1>7. \A s \in SUBSET S : Right(s)
  BY <1>1, <1>2, <1>6
<1> QED
  BY <1>7

\* The limit of a group that has these subscriptions.
LimitOf(S, limits, default) ==
  IF S = {} THEN default
  ELSE (CHOOSE h : h = [s \in SUBSET S |-> SumStep(limits, h, s)])[S]

LEMMA LimitOfType ==
  ASSUME None \notin Int, NEW S, IsFiniteSet(S), NEW default, default \in Nat \cup {None},
         NEW limits, \A p \in S : limits[p] \in Nat \cup {None}
  PROVE  /\ LimitOf(S, limits, default) \in Nat \cup {None}
         /\ default # 0 /\ (\A p \in S : limits[p] # 0) => LimitOf(S, limits, default) # 0
<1>1. CASE S = {}
  BY <1>1 DEF LimitOf
<1>2. CASE S # {}
  <2>1. PICK g : g = CHOOSE h : h = [s \in SUBSET S |-> SumStep(limits, h, s)]
    OBVIOUS
  <2>2. g = [s \in SUBSET S |-> SumStep(limits, g, s)]
    BY <2>1, SumExists
  <2>3. LimitOf(S, limits, default) = g[S]
    BY <1>2, <2>1 DEF LimitOf
  <2>4. S \in SUBSET S
    OBVIOUS
  <2>5. g[S] \in Nat \cup {None} /\ ((\A p \in S : limits[p] # 0) => g[S] # 0)
    BY <1>2, <2>2, <2>4, SumType
  <2> QED
    BY <2>3, <2>5
<1> QED
  BY <1>1, <1>2

\* The limit of the history of a group that has these subscriptions.
HistoryLimit(S) == LimitOf(S, PlanLimit, DefaultLimit)

LEMMA LimitIs ==
  Admission!Limit = HistoryLimit(active) /\ (Admission!Limit)' = HistoryLimit(active')
BY DEF Admission!Limit, Admission!MapThenFoldSet, SumStep, Picked, LimitOf, HistoryLimit

LEMMA HistoryLimitType ==
  ASSUME AdmissionConstants, NEW S \in SUBSET Plans
  PROVE  HistoryLimit(S) \in (Nat \ {0}) \cup {None}
<1>1. IsFiniteSet(S) /\ \A p \in S : PlanLimit[p] \in Nat \cup {None} /\ PlanLimit[p] # 0
  BY FS_Subset DEF AdmissionConstants
<1>2. None \notin Int /\ DefaultLimit \in Nat \cup {None} /\ DefaultLimit # 0
  BY DEF AdmissionConstants
<1> QED
  BY <1>1, <1>2, LimitOfType DEF HistoryLimit

AdmittedRow == [ started : Nat, finished : Nat \cup {None} ]

AdmittedRequest ==
  [ stage : Admission!Stage, copy : Admission!Workflow \cup {None}, victims : SUBSET Starts,
    waits : SUBSET Admission!Requests, row : AdmittedRow \cup {None} ]

\* Requests are made once, and overlaps are noticed.
AdmissionTypes ==
  /\ DOMAIN rows \subseteq Starts /\ rows \in [DOMAIN rows -> AdmittedRow]
  /\ workflow \in Admission!Workflow
  /\ request \in [Admission!Requests -> AdmittedRequest]
  /\ active \subseteq Plans /\ clock \in Nat
  /\ met \in [Admission!Requests -> SUBSET {"start", "edit"}]
  /\ widest \in [history : Nat \cup {None}, concurrency : Nat]
  /\ \A q \in Admission!UnderWay : request[q].copy \in Admission!Workflow
  /\ \A q \in Admission!Requests : request[q].stage = "inserted" =>
       q \in Starts /\ request[q].row \in AdmittedRow
  /\ \A q \in DOMAIN rows : request[q].stage = "done"
  /\ \A p, q \in Admission!UnderWay : p # q => Admission!Kind(q) \in met[p]

Inserted(q) == q \in Starts /\ request[q].stage = "inserted"

\* What is happening has times of its own.
AdmissionTimes ==
  /\ \A e \in DOMAIN rows : rows[e].started < clock /\
       (rows[e].finished # None => rows[e].finished < clock)
  /\ \A q \in Starts : Inserted(q) => request[q].row.started < clock /\
       (request[q].row.finished # None => request[q].row.finished < clock)
  /\ \A d, e \in DOMAIN rows : d # e =>
       /\ rows[d].started # rows[e].started
       /\ rows[d].finished # None => rows[d].finished # rows[e].finished
  /\ \A e \in DOMAIN rows, q \in Starts : Inserted(q) =>
       /\ rows[e].started # request[q].row.started
       /\ rows[e].finished # None => rows[e].finished # request[q].row.finished
  /\ \A p, q \in Starts : p # q /\ Inserted(p) /\ Inserted(q) =>
       /\ request[p].row.started # request[q].row.started
       /\ request[p].row.finished # None =>
            request[p].row.finished # request[q].row.finished

\* What a request has read is what it may save, unless it overlaps with one of the
\* other kind; and executions that are gone do not come back.
AdmissionCurrent ==
  /\ Admission!WorkflowRowIsCurrent
  /\ \A q \in Edits : q \in Admission!UnderWay /\ "start" \notin met[q] =>
       \/ "latest" \in muddled \/ request[q].copy.latest = last
       \/ request[q].copy.latest \notin DOMAIN rows \cup {None}
  /\ \A q \in Starts : q \in Admission!UnderWay /\ "edit" \notin met[q] =>
       "maxConcurrency" \in muddled \/ request[q].copy.maxConcurrency = edited

\* A start that overlaps with no other has counted all that there is, and its purge
\* has made room.
AdmissionLimits ==
  /\ widest.history # None => Cardinality(DOMAIN rows \ Admission!Together) <= widest.history
  /\ Cardinality(Admission!Running \ Admission!Together) <= widest.concurrency
  /\ widest.history # None => Admission!Limit # None /\ Admission!Limit <= widest.history
  /\ workflow.maxConcurrency <= widest.concurrency
  /\ \A q \in Admission!UnderWay : request[q].copy.maxConcurrency <= widest.concurrency
  /\ \A q \in Starts : q \in Admission!UnderWay /\ "start" \notin met[q] =>
       /\ request[q].stage \in {"admitted", "inserted"} =>
            Cardinality(Admission!Running) < widest.concurrency
       /\ request[q].stage = "inserted" /\ widest.history # None =>
            Cardinality(DOMAIN rows \ request[q].victims) < widest.history

AdmissionInv ==
  AdmissionTypes /\ AdmissionTimes /\ AdmissionCurrent /\ AdmissionLimits

LEMMA AdmissionCardinality == \A S : Admission!Cardinality(S) = Cardinality(S)
BY DEF Admission!Cardinality, Cardinality

LEMMA RowsAreFinite ==
  ASSUME AdmissionConstants, AdmissionTypes
  PROVE  \A S \in SUBSET DOMAIN rows : IsFiniteSet(S) /\ Cardinality(S) \in Nat
BY FS_Subset, FS_CardinalityType DEF AdmissionConstants, AdmissionTypes

\* A purge deletes as many rows as are too many, all of them if need be.
LEMMA PurgedRows ==
  ASSUME AdmissionConstants, AdmissionTypes, AdmissionTimes, NEW reservation \in {0, 1},
         NEW gone, gone = Admission!Purged(reservation)
  PROVE  /\ gone \in SUBSET DOMAIN rows
         /\ Admission!Limit # None =>
              Cardinality(DOMAIN rows \ gone) <= Admission!Limit - reservation
<1>1. PICK E : E = DOMAIN rows
  OBVIOUS
<1>2. PICK R : R = Admission!Running
  OBVIOUS
<1>3. PICK L : L = Admission!Limit
  OBVIOUS
<1>4. L \in (Nat \ {0}) \cup {None}
  BY <1>3, LimitIs, HistoryLimitType DEF AdmissionTypes
<1>5. /\ R \in SUBSET E /\ E \ R \in SUBSET E
      /\ \A e \in E : e \in R <=> rows[e].finished = None
  BY <1>1, <1>2 DEF Admission!Running, Admission!Existing
<1>6. \A S \in SUBSET E : IsFiniteSet(S) /\ Cardinality(S) \in Nat
  BY <1>1, RowsAreFinite
<1>7. PICK n : n = IF L = None THEN 0 ELSE Cardinality(E) - (L - reservation)
  OBVIOUS
<1>8. n \in Int
  BY <1>4, <1>6, <1>7
<1>9. CASE n <= 0
  <2>1. gone = {}
    BY <1>1, <1>3, <1>7, <1>9, AdmissionCardinality
    DEF Admission!Purged, Admission!TooMany, Admission!Existing
  <2>2. E \ gone = E
    BY <2>1
  <2> QED
    BY <1>1, <1>3, <1>4, <1>6, <1>7, <1>9, <2>1, <2>2
<1>10. CASE n > 0
  <2>1. PICK k : k = IF n < Cardinality(E \ R) THEN n ELSE Cardinality(E \ R)
    OBVIOUS
  <2>2. k \in 0 .. Cardinality(E \ R) /\ k <= n
    BY <1>5, <1>6, <1>8, <1>10, <2>1
  <2>3. PICK ended : ended = Admission!FirstEnded(n)
    OBVIOUS
  <2>4. ended \in SUBSET (E \ R) /\ Cardinality(ended) = k
    <3>1. PICK t : t = [e \in E |-> rows[e].finished]
      OBVIOUS
    <3>2. /\ \A a \in E \ R : t[a] \in Nat
          /\ \A a, b \in E \ R : a # b => t[a] # t[b]
      BY <1>1, <1>5, <3>1 DEF AdmissionTypes, AdmissionTimes, AdmittedRow
    <3>3. \E first \in SUBSET (E \ R) :
            Cardinality(first) = k /\ \A a \in first, b \in (E \ R) \ first : t[a] < t[b]
      <4>1. IsFiniteSet(E \ R)
        BY <1>5, <1>6
      <4> QED
        BY <2>2, <3>2, <4>1, FirstOnesExist
    <3>4. \A a \in E : t[a] = rows[a].finished
      BY <3>1
    <3>5. \E first \in SUBSET (E \ R) :
            /\ Cardinality(first) = k
            /\ \A a \in first, b \in (E \ R) \ first : rows[a].finished < rows[b].finished
      BY <3>3, <3>4
    <3>6. ended = CHOOSE first \in SUBSET (E \ R) :
            /\ Admission!Cardinality(first) = IF n < Admission!Cardinality(E \ R) THEN n
                                              ELSE Admission!Cardinality(E \ R)
            /\ \A a \in first, b \in (E \ R) \ first : rows[a].finished < rows[b].finished
      BY <1>1, <1>2, <2>3 DEF Admission!FirstEnded, Admission!FirstOf, Admission!Existing
    <3>7. \E first \in SUBSET (E \ R) :
            /\ Admission!Cardinality(first) = IF n < Admission!Cardinality(E \ R) THEN n
                                              ELSE Admission!Cardinality(E \ R)
            /\ \A a \in first, b \in (E \ R) \ first : rows[a].finished < rows[b].finished
      BY <2>1, <3>5, AdmissionCardinality
    <3>8. ended \in SUBSET (E \ R) /\ Admission!Cardinality(ended)
            = IF n < Admission!Cardinality(E \ R) THEN n ELSE Admission!Cardinality(E \ R)
      BY <3>6, <3>7
    <3> QED
      BY <2>1, <3>8, AdmissionCardinality
  <2>5. PICK m : m = IF n - k < Cardinality(R) THEN n - k ELSE Cardinality(R)
    OBVIOUS
  <2>6. m \in 0 .. Cardinality(R)
    BY <1>5, <1>6, <1>8, <2>2, <2>5
  <2>7. PICK running : running = Admission!FirstStarted(n - k)
    OBVIOUS
  <2>8. running \in SUBSET R /\ Cardinality(running) = m
    <3>1. PICK t : t = [e \in E |-> rows[e].started]
      OBVIOUS
    <3>2. /\ \A a \in R : t[a] \in Nat
          /\ \A a, b \in R : a # b => t[a] # t[b]
      BY <1>1, <1>5, <3>1 DEF AdmissionTypes, AdmissionTimes, AdmittedRow
    <3>3. \E first \in SUBSET R :
            Cardinality(first) = m /\ \A a \in first, b \in R \ first : t[a] < t[b]
      <4>1. IsFiniteSet(R)
        BY <1>5, <1>6
      <4> QED
        BY <2>6, <3>2, <4>1, FirstOnesExist
    <3>4. \A a \in E : t[a] = rows[a].started
      BY <3>1
    <3>5. \E first \in SUBSET R :
            /\ Cardinality(first) = m
            /\ \A a \in first, b \in R \ first : rows[a].started < rows[b].started
      BY <1>5, <3>3, <3>4
    <3>6. running = CHOOSE first \in SUBSET R :
            /\ Admission!Cardinality(first) = IF n - k < Admission!Cardinality(R) THEN n - k
                                              ELSE Admission!Cardinality(R)
            /\ \A a \in first, b \in R \ first : rows[a].started < rows[b].started
      BY <1>2, <2>7 DEF Admission!FirstStarted, Admission!FirstOf
    <3>7. \E first \in SUBSET R :
            /\ Admission!Cardinality(first) = IF n - k < Admission!Cardinality(R) THEN n - k
                                              ELSE Admission!Cardinality(R)
            /\ \A a \in first, b \in R \ first : rows[a].started < rows[b].started
      BY <2>5, <3>5, AdmissionCardinality
    <3>8. running \in SUBSET R /\ Admission!Cardinality(running)
            = IF n - k < Admission!Cardinality(R) THEN n - k ELSE Admission!Cardinality(R)
      BY <3>6, <3>7
    <3> QED
      BY <2>5, <3>8, AdmissionCardinality
  <2>9. gone = ended \cup running
    <3>1. n = Admission!TooMany(reservation)
      BY <1>1, <1>3, <1>7, AdmissionCardinality DEF Admission!TooMany, Admission!Existing
    <3>2. ~(n <= 0) /\ Admission!Cardinality(ended) = k
      BY <1>8, <1>10, <2>4, AdmissionCardinality
    <3> QED
      BY <2>3, <2>7, <3>1, <3>2 DEF Admission!Purged
  <2>10. gone \in SUBSET E /\ ended \cap running = {}
    BY <1>5, <2>4, <2>8, <2>9
  <2>11. Cardinality(gone) = k + m
    <3>1. Cardinality(ended \cap running) = 0
      BY <2>10, FS_EmptySet
    <3>2. IsFiniteSet(ended) /\ IsFiniteSet(running) /\ k \in Int /\ m \in Int
      BY <1>5, <1>6, <2>2, <2>4, <2>6, <2>8
    <3>3. Cardinality(ended \cup running)
            = Cardinality(ended) + Cardinality(running) - Cardinality(ended \cap running)
      BY <3>2, FS_Union
    <3> QED
      BY <2>4, <2>8, <2>9, <3>1, <3>2, <3>3
  <2>12. Cardinality(E \ R) + Cardinality(R) = Cardinality(E)
    <3>1. E \cap R = R /\ R \in SUBSET E
      BY <1>5
    <3>2. Cardinality(E \ R) = Cardinality(E) - Cardinality(E \cap R)
      BY <1>6, FS_Difference
    <3>3. Cardinality(E) \in Nat /\ Cardinality(R) \in Nat
      BY <1>5, <1>6
    <3>4. Cardinality(E \ R) = Cardinality(E) - Cardinality(R)
      BY <3>1, <3>2
    <3> HIDE <3>1, <3>2
    <3> QED
      BY <3>3, <3>4
  <2>13. Cardinality(E \ gone) = Cardinality(E) - (k + m)
    <3>1. E \cap gone = gone
      BY <2>10
    <3>2. Cardinality(E \ gone) = Cardinality(E) - Cardinality(E \cap gone)
      BY <1>6, FS_Difference
    <3> QED
      BY <2>11, <3>1, <3>2
  <2>14. L # None /\ n = Cardinality(E) - (L - reservation) /\ L - reservation >= 0
    BY <1>4, <1>7, <1>10
  <2>15. k + m = n \/ k + m = Cardinality(E)
    BY <1>5, <1>6, <1>8, <2>1, <2>2, <2>5, <2>6, <2>12
  <2>16. Cardinality(E \ gone) <= L - reservation
    BY <1>4, <1>6, <1>8, <2>2, <2>6, <2>13, <2>14, <2>15
  <2> QED
    BY <1>1, <1>3, <2>10, <2>16
<1> QED
  BY <1>8, <1>9, <1>10

LEMMA FewerStarts ==
  ASSUME AdmissionConstants, NEW T \in SUBSET Starts, NEW S \in SUBSET T
  PROVE  /\ IsFiniteSet(S) /\ Cardinality(S) \in Nat
         /\ IsFiniteSet(T) /\ Cardinality(T) \in Nat
         /\ Cardinality(S) <= Cardinality(T)
BY FS_Subset, FS_CardinalityType DEF AdmissionConstants

\* What a request that is over looks like.
Over == [ stage |-> "done", copy |-> None, victims |-> {}, waits |-> {}, row |-> None ]

LEMMA OverType == Over \in AdmittedRequest /\ Over.stage = "done"
BY DEF Over, AdmittedRequest, Admission!Stage

\* A step of one request.
LEMMA RequestChanges ==
  ASSUME AdmissionTypes, NEW q \in Admission!Requests, NEW r \in AdmittedRequest,
         request' = [request EXCEPT ![q] = r]
  PROVE  /\ request' \in [Admission!Requests -> AdmittedRequest]
         /\ request'[q] = r
         /\ \A x \in Admission!Requests : x # q => request'[x] = request[x]
         /\ q \in Admission!UnderWay' <=> r.stage \notin {"new", "done"}
         /\ \A x : x # q => (x \in Admission!UnderWay' <=> x \in Admission!UnderWay)
<1>1. /\ request' \in [Admission!Requests -> AdmittedRequest]
      /\ request'[q] = r
      /\ \A x \in Admission!Requests : x # q => request'[x] = request[x]
  BY DEF AdmissionTypes
<1>2. q \in Admission!UnderWay' <=> r.stage \notin {"new", "done"}
  BY <1>1 DEF Admission!UnderWay, Admission!Requests
<1>3. ASSUME NEW x, x # q
      PROVE  x \in Admission!UnderWay' <=> x \in Admission!UnderWay
  BY <1>1, <1>3 DEF Admission!UnderWay, Admission!Requests
<1> QED
  BY <1>1, <1>2, <1>3

\* A request ends and leaves nothing behind: skipped, refused or aborted.
LEMMA LeaveStep ==
  ASSUME AdmissionConstants, AdmissionInv,
         NEW q \in Admission!UnderWay, Admission!Leave(q),
         UNCHANGED <<rows, workflow, active, clock, last, edited, muddled, widest>>
  PROVE  AdmissionInv'
<1>1. AdmissionTypes /\ AdmissionTimes /\ AdmissionCurrent /\ AdmissionLimits
  BY DEF AdmissionInv
<1>2. /\ q \in Admission!Requests /\ request[q].stage # "done"
      /\ request' = [request EXCEPT ![q] = Over] /\ met' = [met EXCEPT ![q] = {}]
  BY DEF Admission!UnderWay, Admission!Leave, Admission!Finished, Over
<1>3. /\ request' \in [Admission!Requests -> AdmittedRequest]
      /\ request'[q] = Over /\ request'[q].stage = "done"
      /\ \A x \in Admission!Requests : x # q => request'[x] = request[x]
      /\ \A x \in Admission!UnderWay' : x \in Admission!UnderWay /\ x # q
  BY <1>1, <1>2, OverType, RequestChanges
<1>4. /\ met' \in [Admission!Requests -> SUBSET {"start", "edit"}]
      /\ \A x \in Admission!Requests : x # q => met'[x] = met[x]
  BY <1>1, <1>2 DEF AdmissionTypes
<1>5. q \notin DOMAIN rows /\ DOMAIN rows \subseteq Starts
  BY <1>1, <1>2 DEF AdmissionTypes
<1>6. \A x \in Admission!UnderWay : x \in Admission!Requests
  BY DEF Admission!UnderWay
<1>7. Starts \subseteq Admission!Requests /\ Edits \subseteq Admission!Requests
  BY DEF Admission!Requests
<1>8. AdmissionTypes'
  <2>1. \A x \in Admission!UnderWay' : request'[x].copy \in Admission!Workflow
    BY <1>1, <1>3, <1>6 DEF AdmissionTypes
  <2>2. \A x \in Admission!Requests : request'[x].stage = "inserted" =>
          x \in Starts /\ request'[x].row \in AdmittedRow
    BY <1>1, <1>3 DEF AdmissionTypes
  <2>3. \A x \in DOMAIN rows : request'[x].stage = "done"
    BY <1>1, <1>3, <1>5, <1>7 DEF AdmissionTypes
  <2>4. \A x, y \in Admission!UnderWay' : x # y => Admission!Kind(y) \in met'[x]
    BY <1>1, <1>3, <1>4, <1>6 DEF AdmissionTypes
  <2> QED
    BY <1>1, <1>3, <1>4, <2>1, <2>2, <2>3, <2>4 DEF AdmissionTypes, Admission!Kind
<1>9. AdmissionTimes'
  <2>1. \A x \in Starts : Inserted(x)' => Inserted(x) /\ request'[x] = request[x]
    BY <1>3, <1>7 DEF Inserted
  <2> QED
    BY <1>1, <2>1 DEF AdmissionTimes
<1>10. AdmissionCurrent'
  <2>1. Admission!WorkflowRowIsCurrent'
    BY <1>1 DEF AdmissionCurrent, Admission!WorkflowRowIsCurrent, Admission!Existing
  <2>2. \A x \in Edits : x \in Admission!UnderWay' /\ "start" \notin met'[x] =>
          \/ "latest" \in muddled \/ request'[x].copy.latest = last
          \/ request'[x].copy.latest \notin DOMAIN rows \cup {None}
    BY <1>1, <1>3, <1>4, <1>7 DEF AdmissionCurrent
  <2>3. \A x \in Starts : x \in Admission!UnderWay' /\ "edit" \notin met'[x] =>
          "maxConcurrency" \in muddled \/ request'[x].copy.maxConcurrency = edited
    BY <1>1, <1>3, <1>4, <1>7 DEF AdmissionCurrent
  <2> QED
    BY <2>1, <2>2, <2>3 DEF AdmissionCurrent
<1>11. AdmissionLimits'
  <2>1. DOMAIN rows' \ Admission!Together' = DOMAIN rows \ Admission!Together
    BY <1>4, <1>5, <1>7 DEF Admission!Together
  <2>2. /\ Admission!Running' = Admission!Running
        /\ Admission!Running \ Admission!Together' = Admission!Running \ Admission!Together
    BY <2>1 DEF Admission!Running, Admission!Existing
  <2>3. Admission!Limit' = Admission!Limit
    BY LimitIs
  <2>4. \A x \in Admission!UnderWay' : request'[x].copy.maxConcurrency <= widest.concurrency
    BY <1>1, <1>3, <1>6 DEF AdmissionLimits
  <2>5. \A x \in Starts : x \in Admission!UnderWay' /\ "start" \notin met'[x] =>
          /\ request'[x].stage \in {"admitted", "inserted"} =>
               Cardinality(Admission!Running) < widest.concurrency
          /\ request'[x].stage = "inserted" /\ widest.history # None =>
               Cardinality(DOMAIN rows \ request'[x].victims) < widest.history
    BY <1>1, <1>3, <1>4, <1>7 DEF AdmissionLimits
  <2> QED
    BY <1>1, <2>1, <2>2, <2>3, <2>4, <2>5 DEF AdmissionLimits
<1> QED
  BY <1>8, <1>9, <1>10, <1>11 DEF AdmissionInv

\* A request reads the Workflow.
LEMMA LoadStep ==
  ASSUME AdmissionConstants, AdmissionInv, NEW q \in Admission!Requests, Admission!Load(q)
  PROVE  AdmissionInv'
<1>1. AdmissionTypes /\ AdmissionTimes /\ AdmissionCurrent /\ AdmissionLimits
  BY DEF AdmissionInv
<1>2. PICK r : r = [request[q] EXCEPT !.stage = "loaded", !.copy = workflow]
  OBVIOUS
<1>3. /\ r \in AdmittedRequest /\ r.stage = "loaded" /\ r.copy = workflow
      /\ request[q].stage = "new"
      /\ request' = [request EXCEPT ![q] = r]
      /\ UNCHANGED <<rows, workflow, active, clock, last, edited, muddled, widest>>
  <2>1. request[q] \in AdmittedRequest /\ workflow \in Admission!Workflow
    BY <1>1 DEF AdmissionTypes
  <2>2. r \in AdmittedRequest /\ r.stage = "loaded" /\ r.copy = workflow
    BY <1>2, <2>1 DEF AdmittedRequest, Admission!Stage
  <2>3. request[q].stage = "new"
    BY DEF Admission!Load
  <2>4. request' = [request EXCEPT ![q] = r]
    BY <1>1, <1>2, <2>1 DEF Admission!Load, AdmissionTypes, AdmittedRequest
  <2> QED
    BY <2>2, <2>3, <2>4 DEF Admission!Load
<1>4. /\ request' \in [Admission!Requests -> AdmittedRequest]
      /\ request'[q] = r
      /\ \A x \in Admission!Requests : x # q => request'[x] = request[x]
      /\ \A x : x # q => (x \in Admission!UnderWay' <=> x \in Admission!UnderWay)
      /\ q \notin Admission!UnderWay
  BY <1>1, <1>3, RequestChanges DEF Admission!UnderWay
<1>5. /\ met' = [ x \in Admission!Requests |->
                    IF x = q THEN { Admission!Kind(y) : y \in Admission!UnderWay }
                    ELSE IF x \in Admission!UnderWay THEN met[x] \cup {Admission!Kind(q)}
                    ELSE met[x] ]
      /\ \A x : Admission!Kind(x) \in {"start", "edit"}
  BY DEF Admission!Load, Admission!Kind
<1>6. /\ met' \in [Admission!Requests -> SUBSET {"start", "edit"}]
      /\ \A x \in Admission!UnderWay :
           Admission!Kind(x) \in met'[q] /\ Admission!Kind(q) \in met'[x]
      /\ \A x \in Admission!Requests : x # q => met[x] \subseteq met'[x]
      /\ \A x \in Admission!Requests \ Admission!UnderWay : x # q => met'[x] = met[x]
  BY <1>1, <1>4, <1>5 DEF AdmissionTypes, Admission!UnderWay
<1>7. q \notin DOMAIN rows /\ DOMAIN rows \subseteq Starts
  BY <1>1, <1>3 DEF AdmissionTypes
<1>8. /\ Starts \subseteq Admission!Requests /\ Edits \subseteq Admission!Requests
      /\ \A x \in Admission!UnderWay : x \in Admission!Requests
  BY DEF Admission!Requests, Admission!UnderWay
<1>9. AdmissionTypes'
  <2>1. \A x \in Admission!UnderWay' : request'[x].copy \in Admission!Workflow
    BY <1>1, <1>3, <1>4, <1>8 DEF AdmissionTypes
  <2>2. \A x \in Admission!Requests : request'[x].stage = "inserted" =>
          x \in Starts /\ request'[x].row \in AdmittedRow
    BY <1>1, <1>3, <1>4 DEF AdmissionTypes
  <2>3. \A x \in DOMAIN rows : request'[x].stage = "done"
    BY <1>1, <1>4, <1>7, <1>8 DEF AdmissionTypes
  <2>4. \A x, y \in Admission!UnderWay' : x # y => Admission!Kind(y) \in met'[x]
    BY <1>1, <1>4, <1>6, <1>8 DEF AdmissionTypes
  <2> QED
    BY <1>1, <1>3, <1>4, <1>6, <2>1, <2>2, <2>3, <2>4 DEF AdmissionTypes, Admission!Kind
<1>10. AdmissionTimes'
  <2>1. \A x \in Starts : Inserted(x)' => Inserted(x) /\ request'[x] = request[x]
    BY <1>3, <1>4, <1>8 DEF Inserted
  <2> QED
    BY <1>1, <1>3, <2>1 DEF AdmissionTimes
<1>11. AdmissionCurrent'
  <2>1. Admission!WorkflowRowIsCurrent'
    BY <1>1, <1>3 DEF AdmissionCurrent, Admission!WorkflowRowIsCurrent, Admission!Existing
  <2>2. \A x \in Edits : x \in Admission!UnderWay' /\ "start" \notin met'[x] =>
          \/ "latest" \in muddled \/ request'[x].copy.latest = last
          \/ request'[x].copy.latest \notin DOMAIN rows \cup {None}
    BY <1>1, <1>3, <1>4, <1>6, <1>8 DEF AdmissionCurrent, Admission!WorkflowRowIsCurrent
  <2>3. \A x \in Starts : x \in Admission!UnderWay' /\ "edit" \notin met'[x] =>
          "maxConcurrency" \in muddled \/ request'[x].copy.maxConcurrency = edited
    BY <1>1, <1>3, <1>4, <1>6, <1>8 DEF AdmissionCurrent, Admission!WorkflowRowIsCurrent
  <2> QED
    BY <1>3, <2>1, <2>2, <2>3 DEF AdmissionCurrent
<1>12. AdmissionLimits'
  <2>1. DOMAIN rows \ Admission!Together' = DOMAIN rows \ Admission!Together
    <3>1. ASSUME NEW x \in DOMAIN rows
          PROVE  met'[x] = met[x]
      <4>1. x \in Admission!Requests /\ x \notin Admission!UnderWay /\ x # q
        BY <1>1, <1>7, <1>8 DEF AdmissionTypes, Admission!UnderWay
      <4> QED
        BY <1>6, <4>1
    <3> QED
      BY <1>7, <3>1 DEF Admission!Together
  <2>2. /\ Admission!Running' = Admission!Running
        /\ Admission!Running \ Admission!Together' = Admission!Running \ Admission!Together
    BY <1>3, <2>1 DEF Admission!Running, Admission!Existing
  <2>3. Admission!Limit' = Admission!Limit
    BY <1>3, LimitIs
  <2>4. \A x \in Admission!UnderWay' : request'[x].copy.maxConcurrency <= widest.concurrency
    BY <1>1, <1>3, <1>4, <1>8 DEF AdmissionLimits
  <2>5. \A x \in Starts : x \in Admission!UnderWay' /\ "start" \notin met'[x] =>
          /\ request'[x].stage \in {"admitted", "inserted"} =>
               Cardinality(Admission!Running) < widest.concurrency
          /\ request'[x].stage = "inserted" /\ widest.history # None =>
               Cardinality(DOMAIN rows \ request'[x].victims) < widest.history
    BY <1>1, <1>3, <1>4, <1>6, <1>8 DEF AdmissionLimits
  <2> QED
    BY <1>1, <1>3, <2>1, <2>2, <2>3, <2>4, <2>5 DEF AdmissionLimits
<1> QED
  BY <1>9, <1>10, <1>11, <1>12 DEF AdmissionInv

\* A start is let through, or refused.
LEMMA AdmitStep ==
  ASSUME AdmissionConstants, AdmissionInv, NEW q \in Starts, Admission!Admit(q)
  PROVE  AdmissionInv'
<1>1. AdmissionTypes /\ AdmissionTimes /\ AdmissionCurrent /\ AdmissionLimits
  BY DEF AdmissionInv
<1>2. /\ q \in Admission!Requests /\ request[q].stage = "loaded" /\ q \in Admission!UnderWay
      /\ UNCHANGED <<rows, workflow, active, clock, last, edited, muddled, widest>>
  BY DEF Admission!Admit, Admission!Requests, Admission!UnderWay
<1>3. CASE ~Admission!CanStartExecution(request[q].copy)
  BY <1>2, <1>3, LeaveStep DEF Admission!Admit
<1>4. CASE Admission!CanStartExecution(request[q].copy)
  <2>1. PICK r : r = [request[q] EXCEPT !.stage = "admitted"]
    OBVIOUS
  <2>2. /\ r \in AdmittedRequest /\ r.stage = "admitted" /\ r.copy = request[q].copy
        /\ request' = [request EXCEPT ![q] = r] /\ met' = met
    BY <1>1, <1>2, <1>4, <2>1
    DEF Admission!Admit, AdmissionTypes, AdmittedRequest, Admission!Stage
  <2>3. /\ request' \in [Admission!Requests -> AdmittedRequest]
        /\ request'[q] = r
        /\ \A x \in Admission!Requests : x # q => request'[x] = request[x]
        /\ \A x : x \in Admission!UnderWay' <=> x \in Admission!UnderWay
    BY <1>1, <1>2, <2>2, RequestChanges
  <2>4. /\ Starts \subseteq Admission!Requests /\ Edits \subseteq Admission!Requests
        /\ \A x \in Admission!UnderWay : x \in Admission!Requests
        /\ \A x \in Admission!UnderWay : request'[x].copy = request[x].copy
    BY <2>2, <2>3 DEF Admission!Requests, Admission!UnderWay
  <2>5. q \notin DOMAIN rows /\ DOMAIN rows \subseteq Starts
    BY <1>1, <1>2 DEF AdmissionTypes
  <2>6. AdmissionTypes'
    <3>1. \A x \in Admission!UnderWay' : request'[x].copy \in Admission!Workflow
      BY <1>1, <2>3, <2>4 DEF AdmissionTypes
    <3>2. \A x \in Admission!Requests : request'[x].stage = "inserted" =>
            x \in Starts /\ request'[x].row \in AdmittedRow
      BY <1>1, <2>2, <2>3 DEF AdmissionTypes
    <3>3. \A x \in DOMAIN rows : request'[x].stage = "done"
      BY <1>1, <2>3, <2>4, <2>5 DEF AdmissionTypes
    <3>4. \A x, y \in Admission!UnderWay' : x # y => Admission!Kind(y) \in met[x]
      BY <1>1, <2>3 DEF AdmissionTypes
    <3> QED
      BY <1>1, <1>2, <2>2, <2>3, <3>1, <3>2, <3>3, <3>4 DEF AdmissionTypes, Admission!Kind
  <2>7. AdmissionTimes'
    <3>1. \A x \in Starts : Inserted(x)' => Inserted(x) /\ request'[x] = request[x]
      BY <2>2, <2>3, <2>4 DEF Inserted
    <3> QED
      BY <1>1, <1>2, <3>1 DEF AdmissionTimes
  <2>8. AdmissionCurrent'
    <3>1. Admission!WorkflowRowIsCurrent'
      BY <1>1, <1>2 DEF AdmissionCurrent, Admission!WorkflowRowIsCurrent, Admission!Existing
    <3> QED
      BY <1>1, <1>2, <2>2, <2>3, <2>4, <3>1 DEF AdmissionCurrent
  <2>9. AdmissionLimits'
    <3>1. /\ Admission!Together' = Admission!Together /\ Admission!Running' = Admission!Running
          /\ Admission!Limit' = Admission!Limit
      BY <1>2, <2>2, LimitIs DEF Admission!Together, Admission!Running, Admission!Existing
    <3>2. request[q].copy \in Admission!Workflow /\ widest.concurrency \in Nat
      BY <1>1, <1>2 DEF AdmissionTypes
    <3>3. Cardinality(Admission!Running) < request[q].copy.maxConcurrency
      <4>1. request[q].copy.maxConcurrency \in Nat \ {0}
        BY <3>2 DEF Admission!Workflow, AdmissionConstants
      <4>2. Admission!Cardinality(Admission!Running) < request[q].copy.maxConcurrency
        BY <1>4, <4>1 DEF Admission!CanStartExecution
      <4> QED
        BY <4>2, AdmissionCardinality
    <3>4. Cardinality(Admission!Running) \in Nat
      BY <1>1, RowsAreFinite DEF Admission!Running, Admission!Existing
    <3>5. request[q].copy.maxConcurrency <= widest.concurrency
          /\ request[q].copy.maxConcurrency \in Nat
      BY <1>1, <1>2, <3>2 DEF AdmissionLimits, Admission!Workflow, AdmissionConstants
    <3>6. Cardinality(Admission!Running) < widest.concurrency
      BY <3>2, <3>3, <3>4, <3>5
    <3>7. \A x \in Admission!UnderWay' : request'[x].copy.maxConcurrency <= widest.concurrency
      BY <1>1, <2>3, <2>4 DEF AdmissionLimits
    <3>8. \A x \in Starts : x \in Admission!UnderWay' /\ "start" \notin met[x] =>
            /\ request'[x].stage \in {"admitted", "inserted"} =>
                 Cardinality(Admission!Running) < widest.concurrency
            /\ request'[x].stage = "inserted" /\ widest.history # None =>
                 Cardinality(DOMAIN rows \ request'[x].victims) < widest.history
      BY <1>1, <2>2, <2>3, <2>4, <3>6 DEF AdmissionLimits
    <3> QED
      BY <1>1, <1>2, <2>2, <3>1, <3>7, <3>8 DEF AdmissionLimits
  <2> QED
    BY <2>6, <2>7, <2>8, <2>9 DEF AdmissionInv
<1> QED
  BY <1>3, <1>4

\* A start purges and inserts its execution.
LEMMA InsertStep ==
  ASSUME AdmissionConstants, AdmissionInv, NEW q \in Starts, Admission!Insert(q)
  PROVE  AdmissionInv'
<1>1. AdmissionTypes /\ AdmissionTimes /\ AdmissionCurrent /\ AdmissionLimits
  BY DEF AdmissionInv
<1>2. PICK gone : gone = Admission!Purged(1)
  OBVIOUS
<1>3. /\ gone \in SUBSET DOMAIN rows
      /\ Admission!Limit # None => Cardinality(DOMAIN rows \ gone) <= Admission!Limit - 1
  BY <1>1, <1>2, PurgedRows
<1>4. PICK waits : waits = { x \in Admission!UnderWay \ {q} : request[x].victims \cap gone # {} }
  OBVIOUS
<1>5. /\ q \in Admission!Requests /\ request[q].stage = "admitted" /\ q \in Admission!UnderWay
      /\ clock' = clock + 1 /\ clock \in Nat
      /\ UNCHANGED <<rows, workflow, active, last, edited, met, muddled, widest>>
  BY <1>1 DEF Admission!Insert, Admission!Requests, Admission!UnderWay, AdmissionTypes
<1>6. PICK finished \in {None, clock} :
        request' = [request EXCEPT
          ![q] = [ stage |-> "inserted", copy |-> @.copy, victims |-> gone, waits |-> waits,
                   row |-> [started |-> clock, finished |-> finished] ]]
  BY <1>2, <1>4 DEF Admission!Insert
<1>7. PICK r : r = [ stage |-> "inserted", copy |-> request[q].copy, victims |-> gone,
                     waits |-> waits, row |-> [started |-> clock, finished |-> finished] ]
  OBVIOUS
<1>8. /\ r \in AdmittedRequest /\ r.stage = "inserted" /\ r.copy = request[q].copy
      /\ r.victims = gone /\ r.row \in AdmittedRow
      /\ r.row.started = clock /\ r.row.finished \in {None, clock}
      /\ request' = [request EXCEPT ![q] = r]
  <2>1. request[q].copy \in Admission!Workflow /\ gone \in SUBSET Starts
    BY <1>1, <1>3, <1>5 DEF AdmissionTypes
  <2>2. waits \in SUBSET Admission!Requests
    BY <1>4 DEF Admission!UnderWay
  <2>3. r.row \in AdmittedRow
    BY <1>5, <1>7 DEF AdmittedRow
  <2> QED
    BY <1>5, <1>6, <1>7, <2>1, <2>2, <2>3 DEF AdmittedRequest, Admission!Stage
<1>9. /\ request' \in [Admission!Requests -> AdmittedRequest]
      /\ request'[q] = r
      /\ \A x \in Admission!Requests : x # q => request'[x] = request[x]
      /\ \A x : x \in Admission!UnderWay' <=> x \in Admission!UnderWay
  BY <1>1, <1>5, <1>8, RequestChanges
<1>10. /\ Starts \subseteq Admission!Requests /\ Edits \subseteq Admission!Requests
       /\ \A x \in Admission!UnderWay : x \in Admission!Requests
       /\ \A x \in Admission!UnderWay : request'[x].copy = request[x].copy
  BY <1>8, <1>9 DEF Admission!Requests, Admission!UnderWay
<1>11. q \notin DOMAIN rows /\ DOMAIN rows \subseteq Starts /\ q \notin Edits
  BY <1>1, <1>5 DEF AdmissionTypes, AdmissionConstants
<1>12. AdmissionTypes'
  <2>1. \A x \in Admission!UnderWay' : request'[x].copy \in Admission!Workflow
    BY <1>1, <1>9, <1>10 DEF AdmissionTypes
  <2>2. \A x \in Admission!Requests : request'[x].stage = "inserted" =>
          x \in Starts /\ request'[x].row \in AdmittedRow
    BY <1>1, <1>8, <1>9 DEF AdmissionTypes
  <2>3. \A x \in DOMAIN rows : request'[x].stage = "done"
    BY <1>1, <1>9, <1>10, <1>11 DEF AdmissionTypes
  <2>4. \A x, y \in Admission!UnderWay' : x # y => Admission!Kind(y) \in met[x]
    BY <1>1, <1>9 DEF AdmissionTypes
  <2>5. clock' \in Nat
    BY <1>5
  <2> QED
    BY <1>1, <1>5, <1>9, <2>1, <2>2, <2>3, <2>4, <2>5 DEF AdmissionTypes, Admission!Kind
<1>13. AdmissionTimes'
  <2>1. \A x \in Starts : Inserted(x)' => x = q \/ (Inserted(x) /\ request'[x] = request[x])
    BY <1>9, <1>10 DEF Inserted
  <2>2. None # clock /\ None # clock + 1
    BY <1>5 DEF AdmissionConstants
  <2>3. /\ \A e \in DOMAIN rows : rows[e] \in AdmittedRow
        /\ \A x \in Starts : Inserted(x) => request[x].row \in AdmittedRow
    BY <1>1, <1>10 DEF AdmissionTypes, Inserted
  <2>4. \A e \in DOMAIN rows : rows[e].started < clock' /\
          (rows[e].finished # None => rows[e].finished < clock')
    BY <1>1, <1>5, <2>3 DEF AdmissionTimes, AdmittedRow
  <2>5. \A x \in Starts : Inserted(x)' => request'[x].row.started < clock' /\
          (request'[x].row.finished # None => request'[x].row.finished < clock')
    BY <1>1, <1>5, <1>8, <1>9, <2>1, <2>3 DEF AdmissionTimes, AdmittedRow
  <2>6. \A e \in DOMAIN rows, x \in Starts : Inserted(x)' =>
          /\ rows[e].started # request'[x].row.started
          /\ rows[e].finished # None => rows[e].finished # request'[x].row.finished
    BY <1>1, <1>5, <1>8, <1>9, <2>1, <2>3 DEF AdmissionTimes, AdmittedRow
  <2>7. ASSUME NEW x \in Starts, NEW y \in Starts, x # y, Inserted(x)', Inserted(y)'
        PROVE  /\ request'[x].row.started # request'[y].row.started
               /\ request'[x].row.finished # None =>
                    request'[x].row.finished # request'[y].row.finished
    <3>1. CASE x = q
      <4>1. Inserted(y) /\ request'[y] = request[y] /\ request'[x] = r
        BY <1>9, <2>1, <2>7, <3>1
      <4>2. request[y].row \in AdmittedRow /\ request[y].row.started < clock
            /\ (request[y].row.finished # None => request[y].row.finished < clock)
        BY <1>1, <2>3, <4>1 DEF AdmissionTimes
      <4> QED
        BY <1>5, <1>8, <4>1, <4>2 DEF AdmittedRow
    <3>2. CASE y = q
      <4>1. Inserted(x) /\ request'[x] = request[x] /\ request'[y] = r
        BY <1>9, <2>1, <2>7, <3>2
      <4>2. request[x].row \in AdmittedRow /\ request[x].row.started < clock
            /\ (request[x].row.finished # None => request[x].row.finished < clock)
        BY <1>1, <2>3, <4>1 DEF AdmissionTimes
      <4> QED
        BY <1>5, <1>8, <4>1, <4>2 DEF AdmittedRow
    <3>3. CASE x # q /\ y # q
      BY <1>1, <2>1, <2>7, <3>3 DEF AdmissionTimes
    <3> QED
      BY <3>1, <3>2, <3>3
  <2> QED
    BY <1>1, <1>5, <2>4, <2>5, <2>6, <2>7 DEF AdmissionTimes
<1>14. AdmissionCurrent'
  <2>1. Admission!WorkflowRowIsCurrent'
    BY <1>1, <1>5 DEF AdmissionCurrent, Admission!WorkflowRowIsCurrent, Admission!Existing
  <2> QED
    BY <1>1, <1>5, <1>9, <1>10, <2>1 DEF AdmissionCurrent
<1>15. AdmissionLimits'
  <2>1. /\ Admission!Together' = Admission!Together /\ Admission!Running' = Admission!Running
        /\ Admission!Limit' = Admission!Limit
    BY <1>5, LimitIs DEF Admission!Together, Admission!Running, Admission!Existing
  <2>2. \A x \in Admission!UnderWay' : request'[x].copy.maxConcurrency <= widest.concurrency
    BY <1>1, <1>9, <1>10 DEF AdmissionLimits
  <2>3. "start" \notin met[q] => Cardinality(Admission!Running) < widest.concurrency
    BY <1>1, <1>5 DEF AdmissionLimits
  <2>4. widest.history # None => Cardinality(DOMAIN rows \ gone) < widest.history
    <3>1. SUFFICES ASSUME widest.history # None
                   PROVE  Cardinality(DOMAIN rows \ gone) < widest.history
      OBVIOUS
    <3>2. Admission!Limit # None /\ Admission!Limit <= widest.history /\ widest.history \in Nat
      BY <1>1, <3>1 DEF AdmissionLimits, AdmissionTypes
    <3>3. Admission!Limit \in Nat
      BY <1>1, <3>2, LimitIs, HistoryLimitType DEF AdmissionTypes
    <3>4. Cardinality(DOMAIN rows \ gone) \in Nat
      BY <1>1, RowsAreFinite
    <3> QED
      BY <1>3, <3>2, <3>3, <3>4
  <2>5. \A x \in Starts : x \in Admission!UnderWay' /\ "start" \notin met[x] =>
          /\ request'[x].stage \in {"admitted", "inserted"} =>
               Cardinality(Admission!Running) < widest.concurrency
          /\ request'[x].stage = "inserted" /\ widest.history # None =>
               Cardinality(DOMAIN rows \ request'[x].victims) < widest.history
    BY <1>1, <1>8, <1>9, <1>10, <2>3, <2>4 DEF AdmissionLimits
  <2> QED
    BY <1>1, <1>5, <2>1, <2>2, <2>5 DEF AdmissionLimits
<1> QED
  BY <1>12, <1>13, <1>14, <1>15 DEF AdmissionInv

LEMMA OneMoreStart ==
  ASSUME AdmissionConstants, NEW T \in SUBSET Starts, NEW q \in Starts,
         NEW S \in SUBSET (T \cup {q})
  PROVE  Cardinality(S) <= Cardinality(T) + 1
<1>1. PICK U : U = T \cup {q}
  OBVIOUS
<1>2. U \in SUBSET Starts /\ S \in SUBSET U
  BY <1>1
<1>3. Cardinality(S) <= Cardinality(U) /\ Cardinality(S) \in Nat /\ Cardinality(U) \in Nat
  BY <1>2, FewerStarts
<1>4. IsFiniteSet(T) /\ Cardinality(T) \in Nat
  BY FewerStarts
<1>5. Cardinality(U) <= Cardinality(T) + 1
  <2>1. CASE q \in T
    <3>1. U = T
      BY <1>1, <2>1
    <3> QED
      BY <1>4, <3>1
  <2>2. CASE q \notin T
    <3>1. Cardinality(T \cup {q}) = Cardinality(T) + 1
      BY <1>4, <2>2, FS_AddElement
    <3> QED
      BY <1>1, <1>4, <3>1
  <2> QED
    BY <2>1, <2>2
<1> QED
  BY <1>3, <1>4, <1>5

\* A start is committed.
LEMMA FinishStartStep ==
  ASSUME AdmissionConstants, AdmissionInv, NEW q \in Starts, Admission!FinishStart(q)
  PROVE  AdmissionInv'
<1>1. AdmissionTypes /\ AdmissionTimes /\ AdmissionCurrent /\ AdmissionLimits
  BY DEF AdmissionInv
<1>2. PICK r : r = request[q]
  OBVIOUS
<1>3. /\ q \in Admission!Requests /\ r.stage = "inserted" /\ q \in Admission!UnderWay
      /\ Inserted(q)
      /\ rows' = [e \in (DOMAIN rows \ r.victims) \cup {q} |-> IF e = q THEN r.row ELSE rows[e]]
      /\ workflow' = [r.copy EXCEPT !.latest = q] /\ last' = q
      /\ request' = [request EXCEPT ![q] = Over]
      /\ muddled' = (muddled \ {"latest"})
                      \cup (IF "edit" \in met[q] THEN {"maxConcurrency"} ELSE {})
      /\ UNCHANGED <<active, clock, edited, met, widest>>
  BY <1>2 DEF Admission!FinishStart, Admission!Finished, Admission!Existing, Over,
    Admission!Requests, Admission!UnderWay, Inserted
<1>4. r.row \in AdmittedRow /\ r.copy \in Admission!Workflow /\ q \notin DOMAIN rows
  BY <1>1, <1>2, <1>3 DEF AdmissionTypes
<1>5. /\ request' \in [Admission!Requests -> AdmittedRequest]
      /\ request'[q] = Over /\ request'[q].stage = "done"
      /\ \A x \in Admission!Requests : x # q => request'[x] = request[x]
      /\ \A x \in Admission!UnderWay' : x \in Admission!UnderWay /\ x # q
  BY <1>1, <1>3, OverType, RequestChanges
<1>6. /\ Starts \subseteq Admission!Requests /\ Edits \subseteq Admission!Requests
      /\ \A x \in Admission!UnderWay : x \in Admission!Requests
  BY DEF Admission!Requests, Admission!UnderWay
<1>7. /\ DOMAIN rows' = (DOMAIN rows \ r.victims) \cup {q}
      /\ rows'[q] = r.row
      /\ \A e \in DOMAIN rows' : e # q => e \in DOMAIN rows /\ rows'[e] = rows[e]
  BY <1>3
<1>8. /\ workflow' \in Admission!Workflow /\ workflow'.latest = q
      /\ workflow'.maxConcurrency = r.copy.maxConcurrency
  BY <1>3, <1>4 DEF Admission!Workflow
\* Who is under way has noticed this start.
<1>9. \A x \in Admission!UnderWay' : "start" \in met[x]
  <2>1. Admission!Kind(q) = "start"
    BY DEF Admission!Kind
  <2> QED
    BY <1>1, <1>3, <1>5, <2>1 DEF AdmissionTypes
<1>10. AdmissionTypes'
  <2>1. \A x \in Admission!UnderWay' : request'[x].copy \in Admission!Workflow
    BY <1>1, <1>5, <1>6 DEF AdmissionTypes
  <2>2. \A x \in Admission!Requests : request'[x].stage = "inserted" =>
          x \in Starts /\ request'[x].row \in AdmittedRow
    BY <1>1, <1>5 DEF AdmissionTypes
  <2>3. \A x \in DOMAIN rows' : request'[x].stage = "done"
    BY <1>1, <1>5, <1>6, <1>7 DEF AdmissionTypes
  <2>4. \A x, y \in Admission!UnderWay' : x # y => Admission!Kind(y) \in met[x]
    BY <1>1, <1>5 DEF AdmissionTypes
  <2>5. DOMAIN rows' \subseteq Starts /\ rows' \in [DOMAIN rows' -> AdmittedRow]
    BY <1>1, <1>3, <1>4, <1>7 DEF AdmissionTypes
  <2> QED
    BY <1>1, <1>3, <1>5, <1>8, <2>1, <2>2, <2>3, <2>4, <2>5 DEF AdmissionTypes, Admission!Kind
<1>11. AdmissionTimes'
  <2>1. \A x \in Starts : Inserted(x)' => Inserted(x) /\ request'[x] = request[x] /\ x # q
    BY <1>5, <1>6 DEF Inserted
  <2>2. \A e \in DOMAIN rows' : rows'[e].started < clock /\
          (rows'[e].finished # None => rows'[e].finished < clock)
    BY <1>1, <1>2, <1>3, <1>7 DEF AdmissionTimes
  <2>3. \A d, e \in DOMAIN rows' : d # e =>
          /\ rows'[d].started # rows'[e].started
          /\ rows'[d].finished # None => rows'[d].finished # rows'[e].finished
    <3>1. ASSUME NEW d \in DOMAIN rows', NEW e \in DOMAIN rows', d # e
          PROVE  /\ rows'[d].started # rows'[e].started
                 /\ rows'[d].finished # None => rows'[d].finished # rows'[e].finished
      <4>1. CASE d = q
        BY <1>1, <1>2, <1>3, <1>7, <3>1, <4>1 DEF AdmissionTimes
      <4>2. CASE e = q
        BY <1>1, <1>2, <1>3, <1>7, <3>1, <4>2 DEF AdmissionTimes
      <4>3. CASE d # q /\ e # q
        BY <1>1, <1>7, <3>1, <4>3 DEF AdmissionTimes
      <4> QED
        BY <4>1, <4>2, <4>3
    <3> QED
      BY <3>1
  <2>4. \A e \in DOMAIN rows', x \in Starts : Inserted(x)' =>
          /\ rows'[e].started # request'[x].row.started
          /\ rows'[e].finished # None => rows'[e].finished # request'[x].row.finished
    <3>1. ASSUME NEW e \in DOMAIN rows', NEW x \in Starts, Inserted(x)'
          PROVE  /\ rows'[e].started # request'[x].row.started
                 /\ rows'[e].finished # None => rows'[e].finished # request'[x].row.finished
      <4>1. CASE e = q
        BY <1>1, <1>2, <1>3, <1>7, <2>1, <3>1, <4>1 DEF AdmissionTimes
      <4>2. CASE e # q
        BY <1>1, <1>7, <2>1, <3>1, <4>2 DEF AdmissionTimes
      <4> QED
        BY <4>1, <4>2
    <3> QED
      BY <3>1
  <2>5. \A x \in Starts : Inserted(x)' => request'[x].row.started < clock /\
          (request'[x].row.finished # None => request'[x].row.finished < clock)
    BY <1>1, <2>1 DEF AdmissionTimes
  <2>6. \A x, y \in Starts : x # y /\ Inserted(x)' /\ Inserted(y)' =>
          /\ request'[x].row.started # request'[y].row.started
          /\ request'[x].row.finished # None =>
               request'[x].row.finished # request'[y].row.finished
    BY <1>1, <2>1 DEF AdmissionTimes
  <2> QED
    BY <1>3, <2>2, <2>3, <2>4, <2>5, <2>6 DEF AdmissionTimes
<1>12. AdmissionCurrent'
  <2>1. Admission!WorkflowRowIsCurrent'
    <3>1. "maxConcurrency" \in muddled' \/ workflow'.maxConcurrency = edited
      <4>1. CASE "edit" \in met[q]
        BY <1>3, <4>1
      <4>2. CASE "edit" \notin met[q]
        BY <1>1, <1>2, <1>3, <1>8, <4>2 DEF AdmissionCurrent
      <4> QED
        BY <4>1, <4>2
    <3> QED
      BY <1>3, <1>7, <1>8, <3>1 DEF Admission!WorkflowRowIsCurrent, Admission!Existing
  <2>2. \A x \in Starts : x \in Admission!UnderWay' /\ "edit" \notin met[x] =>
          "maxConcurrency" \in muddled' \/ request'[x].copy.maxConcurrency = edited
    BY <1>1, <1>3, <1>5, <1>6 DEF AdmissionCurrent
  <2> QED
    BY <1>3, <1>9, <2>1, <2>2 DEF AdmissionCurrent
<1>13. AdmissionLimits'
  <2>1. /\ Admission!Together' = Admission!Together /\ Admission!Limit' = Admission!Limit
        /\ Admission!Running' \in SUBSET (Admission!Running \cup {q})
        /\ Admission!Running \in SUBSET DOMAIN rows
    BY <1>3, <1>7, LimitIs DEF Admission!Together, Admission!Running, Admission!Existing
  <2>2. DOMAIN rows \in SUBSET Starts /\ Admission!Running \in SUBSET Starts
    BY <1>1, <2>1 DEF AdmissionTypes
  <2>3. widest.concurrency \in Nat /\ (widest.history # None => widest.history \in Nat)
    BY <1>1 DEF AdmissionTypes
  <2>4. /\ widest.history # None =>
             Cardinality(DOMAIN rows' \ Admission!Together) <= widest.history
        /\ Cardinality(Admission!Running' \ Admission!Together) <= widest.concurrency
    <3>1. CASE q \in Admission!Together
      <4>1. /\ DOMAIN rows' \ Admission!Together \in SUBSET (DOMAIN rows \ Admission!Together)
            /\ Admission!Running' \ Admission!Together
                 \in SUBSET (Admission!Running \ Admission!Together)
            /\ DOMAIN rows \ Admission!Together \in SUBSET Starts
            /\ Admission!Running \ Admission!Together \in SUBSET Starts
        BY <1>7, <2>1, <2>2, <3>1
      <4>2. /\ Cardinality(DOMAIN rows' \ Admission!Together)
                 <= Cardinality(DOMAIN rows \ Admission!Together)
            /\ Cardinality(Admission!Running' \ Admission!Together)
                 <= Cardinality(Admission!Running \ Admission!Together)
            /\ Cardinality(DOMAIN rows' \ Admission!Together) \in Nat
            /\ Cardinality(Admission!Running' \ Admission!Together) \in Nat
            /\ Cardinality(DOMAIN rows \ Admission!Together) \in Nat
            /\ Cardinality(Admission!Running \ Admission!Together) \in Nat
        BY <4>1, FewerStarts
      <4> QED
        BY <1>1, <2>3, <4>2 DEF AdmissionLimits
    <3>2. CASE q \notin Admission!Together
      <4>1. "start" \notin met[q]
        BY <3>2 DEF Admission!Together
      <4>2. /\ Cardinality(Admission!Running) < widest.concurrency
            /\ widest.history # None => Cardinality(DOMAIN rows \ r.victims) < widest.history
        BY <1>1, <1>2, <1>3, <4>1 DEF AdmissionLimits
      <4>3. /\ DOMAIN rows' \ Admission!Together \in SUBSET ((DOMAIN rows \ r.victims) \cup {q})
            /\ Admission!Running' \ Admission!Together \in SUBSET (Admission!Running \cup {q})
            /\ DOMAIN rows \ r.victims \in SUBSET Starts
            /\ DOMAIN rows' \ Admission!Together \in SUBSET Starts
            /\ Admission!Running' \ Admission!Together \in SUBSET Starts
        BY <1>7, <2>1, <2>2
      <4>4. /\ Cardinality(DOMAIN rows' \ Admission!Together)
                 <= Cardinality(DOMAIN rows \ r.victims) + 1
            /\ Cardinality(Admission!Running' \ Admission!Together)
                 <= Cardinality(Admission!Running) + 1
        BY <2>2, <4>3, OneMoreStart
      <4>5. /\ Cardinality(DOMAIN rows' \ Admission!Together) \in Nat
            /\ Cardinality(Admission!Running' \ Admission!Together) \in Nat
            /\ Cardinality(DOMAIN rows \ r.victims) \in Nat
            /\ Cardinality(Admission!Running) \in Nat
        BY <2>2, <4>3, FewerStarts
      <4> QED
        BY <2>3, <4>2, <4>4, <4>5
    <3> QED
      BY <3>1, <3>2
  <2>5. \A x \in Admission!UnderWay' : request'[x].copy.maxConcurrency <= widest.concurrency
    BY <1>1, <1>5, <1>6 DEF AdmissionLimits
  <2>6. workflow'.maxConcurrency <= widest.concurrency
    BY <1>1, <1>2, <1>3, <1>8 DEF AdmissionLimits
  <2> QED
    BY <1>1, <1>3, <1>9, <2>1, <2>4, <2>5, <2>6 DEF AdmissionLimits
<1> QED
  BY <1>10, <1>11, <1>12, <1>13 DEF AdmissionInv

LEMMA MaxOfTwo ==
  ASSUME NEW m \in Nat, NEW n \in Nat
  PROVE  Admission!Max({m, n}) \in Nat /\ m <= Admission!Max({m, n}) /\ n <= Admission!Max({m, n})
<1>1. \E x \in {m, n} : \A y \in {m, n} : x >= y
  OBVIOUS
<1>2. Admission!Max({m, n}) \in {m, n} /\ \A y \in {m, n} : Admission!Max({m, n}) >= y
  BY <1>1 DEF Admission!Max
<1> QED
  BY <1>2

\* An edit is committed, unless the database refuses it.
LEMMA FinishEditStep ==
  ASSUME AdmissionConstants, AdmissionInv, NEW q \in Edits, Admission!FinishEdit(q)
  PROVE  AdmissionInv'
<1>1. AdmissionTypes /\ AdmissionTimes /\ AdmissionCurrent /\ AdmissionLimits
  BY DEF AdmissionInv
<1>2. PICK copy : copy = request[q].copy
  OBVIOUS
<1>3. /\ q \in Admission!Requests /\ q \in Admission!UnderWay /\ request[q].stage = "loaded"
      /\ Admission!Leave(q)
      /\ UNCHANGED <<rows, active, clock, last>>
  BY DEF Admission!FinishEdit, Admission!Requests, Admission!UnderWay
<1>4. CASE copy.latest \notin DOMAIN rows \cup {None}
  BY <1>2, <1>3, <1>4, LeaveStep DEF Admission!FinishEdit, Admission!Existing
<1>5. CASE copy.latest \in DOMAIN rows \cup {None}
  <2>1. PICK value \in Concurrencies :
          /\ workflow' = [copy EXCEPT !.maxConcurrency = value]
          /\ edited' = value
          /\ widest' = [widest EXCEPT !.concurrency = Admission!Max({@, value})]
    BY <1>2, <1>5 DEF Admission!FinishEdit, Admission!Existing
  <2>2. muddled' = (muddled \ {"maxConcurrency"})
                     \cup (IF "start" \in met[q] THEN {"latest"} ELSE {})
    BY <1>2, <1>5 DEF Admission!FinishEdit, Admission!Existing
  <2>3. copy \in Admission!Workflow /\ value \in Nat /\ widest.concurrency \in Nat
        /\ widest \in [history : Nat \cup {None}, concurrency : Nat]
    BY <1>1, <1>2, <1>3 DEF AdmissionTypes, AdmissionConstants
  <2>4. /\ workflow' \in Admission!Workflow /\ workflow'.latest = copy.latest
        /\ workflow'.maxConcurrency = value
    BY <2>1, <2>3 DEF Admission!Workflow
  <2>5. PICK m : m = Admission!Max({widest.concurrency, value})
    OBVIOUS
  <2>6. m \in Nat /\ widest.concurrency <= m /\ value <= m
    BY <2>3, <2>5, MaxOfTwo
  <2>7. /\ widest' \in [history : Nat \cup {None}, concurrency : Nat]
        /\ widest'.history = widest.history /\ widest'.concurrency = m
    BY <2>1, <2>3, <2>5, <2>6
  <2>8. request' = [request EXCEPT ![q] = Over] /\ met' = [met EXCEPT ![q] = {}]
    BY <1>3 DEF Admission!Leave, Admission!Finished, Over
  <2>9. /\ request' \in [Admission!Requests -> AdmittedRequest]
        /\ request'[q] = Over /\ request'[q].stage = "done"
        /\ \A x \in Admission!Requests : x # q => request'[x] = request[x]
        /\ \A x \in Admission!UnderWay' : x \in Admission!UnderWay /\ x # q
    BY <1>1, <1>3, <2>8, OverType, RequestChanges
  <2>10. /\ met' \in [Admission!Requests -> SUBSET {"start", "edit"}]
         /\ \A x \in Admission!Requests : x # q => met'[x] = met[x]
    BY <1>1, <2>8 DEF AdmissionTypes
  <2>11. /\ Starts \subseteq Admission!Requests /\ Edits \subseteq Admission!Requests
         /\ \A x \in Admission!UnderWay : x \in Admission!Requests
         /\ q \notin Starts /\ q \notin DOMAIN rows /\ DOMAIN rows \subseteq Starts
    BY <1>1, <1>3 DEF Admission!Requests, Admission!UnderWay, AdmissionConstants, AdmissionTypes
  <2>12. \A x \in Admission!UnderWay' : "edit" \in met'[x]
    <3>1. Admission!Kind(q) = "edit"
      BY <2>11 DEF Admission!Kind
    <3> QED
      BY <1>1, <1>3, <2>9, <2>10, <2>11, <3>1 DEF AdmissionTypes
  <2>13. AdmissionTypes'
    <3>1. \A x \in Admission!UnderWay' : request'[x].copy \in Admission!Workflow
      BY <1>1, <2>9, <2>11 DEF AdmissionTypes
    <3>2. \A x \in Admission!Requests : request'[x].stage = "inserted" =>
            x \in Starts /\ request'[x].row \in AdmittedRow
      BY <1>1, <2>9 DEF AdmissionTypes
    <3>3. \A x \in DOMAIN rows : request'[x].stage = "done"
      BY <1>1, <2>9, <2>11 DEF AdmissionTypes
    <3>4. \A x, y \in Admission!UnderWay' : x # y => Admission!Kind(y) \in met'[x]
      BY <1>1, <2>9, <2>10, <2>11 DEF AdmissionTypes
    <3> QED
      BY <1>1, <1>3, <2>4, <2>7, <2>9, <2>10, <3>1, <3>2, <3>3, <3>4
      DEF AdmissionTypes, Admission!Kind
  <2>14. AdmissionTimes'
    <3>1. \A x \in Starts : Inserted(x)' => Inserted(x) /\ request'[x] = request[x]
      BY <2>9, <2>11 DEF Inserted
    <3> QED
      BY <1>1, <1>3, <3>1 DEF AdmissionTimes
  <2>15. AdmissionCurrent'
    <3>1. Admission!WorkflowRowIsCurrent'
      <4>1. "latest" \in muddled' \/ copy.latest = last
        <5>1. CASE "start" \in met[q]
          BY <2>2, <5>1
        <5>2. CASE "start" \notin met[q]
          BY <1>1, <1>2, <1>3, <1>5, <2>2, <5>2 DEF AdmissionCurrent
        <5> QED
          BY <5>1, <5>2
      <4> QED
        BY <1>3, <1>5, <2>1, <2>4, <4>1
        DEF Admission!WorkflowRowIsCurrent, Admission!Existing
    <3>2. \A x \in Edits : x \in Admission!UnderWay' /\ "start" \notin met'[x] =>
            \/ "latest" \in muddled' \/ request'[x].copy.latest = last
            \/ request'[x].copy.latest \notin DOMAIN rows \cup {None}
      BY <1>1, <2>2, <2>9, <2>10, <2>11 DEF AdmissionCurrent
    <3> QED
      BY <1>3, <2>12, <3>1, <3>2 DEF AdmissionCurrent
  <2>16. AdmissionLimits'
    <3>1. DOMAIN rows \ Admission!Together' = DOMAIN rows \ Admission!Together
      BY <2>10, <2>11 DEF Admission!Together
    <3>2. /\ Admission!Running' = Admission!Running
          /\ Admission!Running \ Admission!Together' = Admission!Running \ Admission!Together
      BY <1>3, <3>1 DEF Admission!Running, Admission!Existing
    <3>3. Admission!Limit' = Admission!Limit
      BY <1>3, LimitIs
    <3>4. /\ Cardinality(Admission!Running) \in Nat
          /\ Cardinality(Admission!Running \ Admission!Together) \in Nat
      <4>1. Admission!Running \in SUBSET DOMAIN rows
        BY DEF Admission!Running, Admission!Existing
      <4> QED
        BY <1>1, <4>1, RowsAreFinite
    <3>5. Cardinality(Admission!Running \ Admission!Together) <= m
      BY <1>1, <2>3, <2>6, <3>4 DEF AdmissionLimits
    <3>6. ASSUME NEW x \in Admission!UnderWay'
          PROVE  request'[x].copy.maxConcurrency <= m
      <4>1. /\ request'[x].copy = request[x].copy /\ request[x].copy \in Admission!Workflow
            /\ request[x].copy.maxConcurrency <= widest.concurrency
        BY <1>1, <2>9, <2>11 DEF AdmissionLimits, AdmissionTypes
      <4>2. request[x].copy.maxConcurrency \in Nat
        BY <4>1 DEF Admission!Workflow, AdmissionConstants
      <4> QED
        BY <2>3, <2>6, <4>1, <4>2
    <3>7. \A x \in Starts : x \in Admission!UnderWay' /\ "start" \notin met'[x] =>
            /\ request'[x].stage \in {"admitted", "inserted"} =>
                 Cardinality(Admission!Running) < m
            /\ request'[x].stage = "inserted" /\ widest.history # None =>
                 Cardinality(DOMAIN rows \ request'[x].victims) < widest.history
      <4> SUFFICES ASSUME NEW x \in Starts, x \in Admission!UnderWay', "start" \notin met'[x]
                   PROVE  /\ request'[x].stage \in {"admitted", "inserted"} =>
                               Cardinality(Admission!Running) < m
                          /\ request'[x].stage = "inserted" /\ widest.history # None =>
                               Cardinality(DOMAIN rows \ request'[x].victims) < widest.history
        OBVIOUS
      <4>1. /\ x \in Admission!UnderWay /\ "start" \notin met[x]
            /\ request'[x] = request[x]
        BY <2>9, <2>10, <2>11
      <4>2. /\ request[x].stage \in {"admitted", "inserted"} =>
                 Cardinality(Admission!Running) < widest.concurrency
            /\ request[x].stage = "inserted" /\ widest.history # None =>
                 Cardinality(DOMAIN rows \ request[x].victims) < widest.history
        BY <1>1, <4>1 DEF AdmissionLimits
      <4>3. Cardinality(Admission!Running) < widest.concurrency =>
              Cardinality(Admission!Running) < m
        BY <2>3, <2>6, <3>4
      <4> QED
        BY <4>1, <4>2, <4>3
    <3> QED
      BY <1>1, <1>3, <2>4, <2>6, <2>7, <3>1, <3>2, <3>3, <3>5, <3>6, <3>7 DEF AdmissionLimits
  <2> QED
    BY <2>13, <2>14, <2>15, <2>16 DEF AdmissionInv
<1> QED
  BY <1>4, <1>5

\* An execution ends.
LEMMA EndStep ==
  ASSUME AdmissionConstants, AdmissionInv, NEW e \in Starts, Admission!End(e)
  PROVE  AdmissionInv'
<1>1. AdmissionTypes /\ AdmissionTimes /\ AdmissionCurrent /\ AdmissionLimits
  BY DEF AdmissionInv
<1>2. /\ e \in DOMAIN rows /\ rows[e].finished = None
      /\ rows' = [rows EXCEPT ![e].finished = clock] /\ clock' = clock + 1 /\ clock \in Nat
      /\ UNCHANGED <<workflow, request, active, last, edited, met, muddled, widest>>
  BY <1>1 DEF Admission!End, Admission!Running, Admission!Existing, AdmissionTypes
<1>3. rows \in [DOMAIN rows -> AdmittedRow] /\ DOMAIN rows \subseteq Starts
  BY <1>1 DEF AdmissionTypes
<1>4. /\ DOMAIN rows' = DOMAIN rows /\ rows' \in [DOMAIN rows -> AdmittedRow]
      /\ \A d \in DOMAIN rows : rows'[d].started = rows[d].started
      /\ rows'[e].finished = clock
      /\ \A d \in DOMAIN rows : d # e => rows'[d] = rows[d]
  BY <1>2, <1>3 DEF AdmittedRow
<1>5. clock # None
  BY <1>2 DEF AdmissionConstants
<1>6. Admission!UnderWay' = Admission!UnderWay
  BY <1>2 DEF Admission!UnderWay
<1>7. AdmissionTypes'
  <2>1. clock' \in Nat
    BY <1>2
  <2>2. \A x, y \in Admission!UnderWay : x # y => Admission!Kind(y) \in met[x]
    BY <1>1 DEF AdmissionTypes
  <2> QED
    BY <1>1, <1>2, <1>3, <1>4, <1>6, <2>1, <2>2 DEF AdmissionTypes, Admission!Kind
<1>8. AdmissionTimes'
  <2>1. \A x \in Starts : Inserted(x)' <=> Inserted(x)
    BY <1>2 DEF Inserted
  <2>2. \A x \in Starts : Inserted(x) => request[x].row \in AdmittedRow
    BY <1>1 DEF AdmissionTypes, Inserted, Admission!Requests
  <2>3. \A d \in DOMAIN rows : rows'[d].started < clock' /\
          (rows'[d].finished # None => rows'[d].finished < clock')
    BY <1>1, <1>2, <1>3, <1>4, <1>5 DEF AdmissionTimes, AdmittedRow
  <2>4. \A x \in Starts : Inserted(x) => request[x].row.started < clock' /\
          (request[x].row.finished # None => request[x].row.finished < clock')
    BY <1>1, <1>2, <2>2 DEF AdmissionTimes, AdmittedRow
  <2>5. \A c, d \in DOMAIN rows : c # d =>
          /\ rows'[c].started # rows'[d].started
          /\ rows'[c].finished # None => rows'[c].finished # rows'[d].finished
    <3>1. ASSUME NEW c \in DOMAIN rows, NEW d \in DOMAIN rows, c # d
          PROVE  /\ rows'[c].started # rows'[d].started
                 /\ rows'[c].finished # None => rows'[c].finished # rows'[d].finished
      <4>1. /\ rows[c].started # rows[d].started
            /\ rows[c].finished # None => rows[c].finished # rows[d].finished
            /\ rows[c].finished # None => rows[c].finished < clock
            /\ rows[d].finished # None => rows[d].finished < clock
            /\ rows[c] \in AdmittedRow /\ rows[d] \in AdmittedRow
        BY <1>1, <1>3, <3>1 DEF AdmissionTimes
      <4>2. CASE c = e
        BY <1>2, <1>4, <1>5, <3>1, <4>1, <4>2 DEF AdmittedRow
      <4>3. CASE d = e
        BY <1>2, <1>4, <1>5, <3>1, <4>1, <4>3 DEF AdmittedRow
      <4>4. CASE c # e /\ d # e
        BY <1>4, <4>1, <4>4
      <4> QED
        BY <4>2, <4>3, <4>4
    <3> QED
      BY <3>1
  <2>6. \A d \in DOMAIN rows, x \in Starts : Inserted(x) =>
          /\ rows'[d].started # request[x].row.started
          /\ rows'[d].finished # None => rows'[d].finished # request[x].row.finished
    <3>1. ASSUME NEW d \in DOMAIN rows, NEW x \in Starts, Inserted(x)
          PROVE  /\ rows'[d].started # request[x].row.started
                 /\ rows'[d].finished # None => rows'[d].finished # request[x].row.finished
      <4>1. /\ rows[d].started # request[x].row.started
            /\ rows[d].finished # None => rows[d].finished # request[x].row.finished
            /\ request[x].row.finished # None => request[x].row.finished < clock
            /\ request[x].row \in AdmittedRow
        BY <1>1, <2>2, <3>1 DEF AdmissionTimes
      <4>2. CASE d = e
        BY <1>2, <1>4, <1>5, <4>1, <4>2 DEF AdmittedRow
      <4>3. CASE d # e
        BY <1>4, <4>1, <4>3
      <4> QED
        BY <4>2, <4>3
    <3> QED
      BY <3>1
  <2>7. \A x, y \in Starts : x # y /\ Inserted(x) /\ Inserted(y) =>
          /\ request[x].row.started # request[y].row.started
          /\ request[x].row.finished # None =>
               request[x].row.finished # request[y].row.finished
    BY <1>1 DEF AdmissionTimes
  <2> QED
    BY <1>2, <1>4, <2>1, <2>3, <2>4, <2>5, <2>6, <2>7 DEF AdmissionTimes
<1>9. AdmissionCurrent'
  <2>1. Admission!WorkflowRowIsCurrent'
    BY <1>1, <1>2, <1>4 DEF AdmissionCurrent, Admission!WorkflowRowIsCurrent, Admission!Existing
  <2> QED
    BY <1>1, <1>2, <1>4, <1>6, <2>1 DEF AdmissionCurrent
<1>10. AdmissionLimits'
  <2>1. /\ Admission!Together' = Admission!Together /\ Admission!Limit' = Admission!Limit
        /\ Admission!Running' \in SUBSET Admission!Running
        /\ Admission!Running \in SUBSET Starts
    BY <1>2, <1>3, <1>4, LimitIs DEF Admission!Together, Admission!Running, Admission!Existing
  <2>2. /\ Cardinality(Admission!Running') <= Cardinality(Admission!Running)
        /\ Cardinality(Admission!Running') \in Nat /\ Cardinality(Admission!Running) \in Nat
    BY <2>1, FewerStarts
  <2>3. /\ Cardinality(Admission!Running' \ Admission!Together)
             <= Cardinality(Admission!Running \ Admission!Together)
        /\ Cardinality(Admission!Running' \ Admission!Together) \in Nat
        /\ Cardinality(Admission!Running \ Admission!Together) \in Nat
    <3>1. /\ Admission!Running' \ Admission!Together
               \in SUBSET (Admission!Running \ Admission!Together)
          /\ Admission!Running \ Admission!Together \in SUBSET Starts
      BY <2>1
    <3> QED
      BY <3>1, FewerStarts
  <2>4. widest.concurrency \in Nat
    BY <1>1 DEF AdmissionTypes
  <2>5. Cardinality(Admission!Running' \ Admission!Together) <= widest.concurrency
    BY <1>1, <2>3, <2>4 DEF AdmissionLimits
  <2>6. \A x \in Starts : x \in Admission!UnderWay /\ "start" \notin met[x] =>
          /\ request[x].stage \in {"admitted", "inserted"} =>
               Cardinality(Admission!Running') < widest.concurrency
          /\ request[x].stage = "inserted" /\ widest.history # None =>
               Cardinality(DOMAIN rows \ request[x].victims) < widest.history
    BY <1>1, <2>2, <2>4 DEF AdmissionLimits
  <2> QED
    BY <1>1, <1>2, <1>4, <1>6, <2>1, <2>5, <2>6 DEF AdmissionLimits
<1> QED
  BY <1>7, <1>8, <1>9, <1>10 DEF AdmissionInv

\* The daily purge.
LEMMA EnforceStep ==
  ASSUME AdmissionConstants, AdmissionInv, Admission!Enforce
  PROVE  AdmissionInv'
<1>1. AdmissionTypes /\ AdmissionTimes /\ AdmissionCurrent /\ AdmissionLimits
  BY DEF AdmissionInv
<1>2. PICK gone : gone = Admission!Purged(0)
  OBVIOUS
<1>3. /\ rows' = [e \in DOMAIN rows \ gone |-> rows[e]]
      /\ workflow' = [workflow EXCEPT !.latest = IF @ \in gone THEN None ELSE @]
      /\ last' = IF last \in gone THEN None ELSE last
      /\ UNCHANGED <<request, active, clock, edited, met, muddled, widest>>
  BY <1>2 DEF Admission!Enforce, Admission!Existing, Admission!LatestAfter
<1>4. gone \in SUBSET DOMAIN rows /\ workflow \in Admission!Workflow /\ DOMAIN rows \subseteq Starts
  BY <1>1, <1>2, PurgedRows DEF AdmissionTypes
<1>5. /\ workflow' \in Admission!Workflow /\ workflow'.maxConcurrency = workflow.maxConcurrency
      /\ workflow'.latest = IF workflow.latest \in gone THEN None ELSE workflow.latest
  BY <1>3, <1>4 DEF Admission!Workflow
<1>6. /\ DOMAIN rows' = DOMAIN rows \ gone
      /\ \A e \in DOMAIN rows' : e \in DOMAIN rows /\ rows'[e] = rows[e]
  BY <1>3
<1>7. Admission!UnderWay' = Admission!UnderWay
  BY <1>3 DEF Admission!UnderWay
<1>8. AdmissionTypes'
  <2>1. DOMAIN rows' \subseteq Starts /\ rows' \in [DOMAIN rows' -> AdmittedRow]
    BY <1>1, <1>3, <1>6 DEF AdmissionTypes
  <2>2. \A x, y \in Admission!UnderWay : x # y => Admission!Kind(y) \in met[x]
    BY <1>1 DEF AdmissionTypes
  <2>3. \A x \in DOMAIN rows' : request[x].stage = "done"
    BY <1>1, <1>6 DEF AdmissionTypes
  <2> QED
    BY <1>1, <1>3, <1>5, <1>7, <2>1, <2>2, <2>3 DEF AdmissionTypes, Admission!Kind
<1>9. AdmissionTimes'
  <2>1. \A x \in Starts : Inserted(x)' <=> Inserted(x)
    BY <1>3 DEF Inserted
  <2> QED
    BY <1>1, <1>3, <1>6, <2>1 DEF AdmissionTimes
<1>10. AdmissionCurrent'
  <2>1. Admission!WorkflowRowIsCurrent'
    BY <1>1, <1>3, <1>5, <1>6
    DEF AdmissionCurrent, Admission!WorkflowRowIsCurrent, Admission!Existing
  <2>2. None \notin gone
    BY <1>4 DEF AdmissionConstants
  <2>3. \A x \in Edits : x \in Admission!UnderWay /\ "start" \notin met[x] =>
          \/ "latest" \in muddled \/ request[x].copy.latest = last'
          \/ request[x].copy.latest \notin DOMAIN rows' \cup {None}
    BY <1>1, <1>3, <1>6, <2>2 DEF AdmissionCurrent
  <2> QED
    BY <1>1, <1>3, <1>7, <2>1, <2>3 DEF AdmissionCurrent
<1>11. AdmissionLimits'
  <2>1. /\ Admission!Together' = Admission!Together /\ Admission!Limit' = Admission!Limit
        /\ Admission!Running' \in SUBSET Admission!Running
        /\ Admission!Running \in SUBSET Starts
        /\ DOMAIN rows' \in SUBSET DOMAIN rows
    BY <1>3, <1>4, <1>6, LimitIs DEF Admission!Together, Admission!Running, Admission!Existing
  <2>2. /\ Cardinality(Admission!Running') <= Cardinality(Admission!Running)
        /\ Cardinality(Admission!Running') \in Nat /\ Cardinality(Admission!Running) \in Nat
    BY <2>1, FewerStarts
  <2>3. /\ Cardinality(Admission!Running' \ Admission!Together)
             <= Cardinality(Admission!Running \ Admission!Together)
        /\ Cardinality(Admission!Running' \ Admission!Together) \in Nat
        /\ Cardinality(Admission!Running \ Admission!Together) \in Nat
    <3>1. /\ Admission!Running' \ Admission!Together
               \in SUBSET (Admission!Running \ Admission!Together)
          /\ Admission!Running \ Admission!Together \in SUBSET Starts
      BY <2>1
    <3> QED
      BY <3>1, FewerStarts
  <2>4. /\ Cardinality(DOMAIN rows' \ Admission!Together)
             <= Cardinality(DOMAIN rows \ Admission!Together)
        /\ Cardinality(DOMAIN rows' \ Admission!Together) \in Nat
        /\ Cardinality(DOMAIN rows \ Admission!Together) \in Nat
    <3>1. /\ DOMAIN rows' \ Admission!Together \in SUBSET (DOMAIN rows \ Admission!Together)
          /\ DOMAIN rows \ Admission!Together \in SUBSET Starts
      BY <1>4, <2>1
    <3> QED
      BY <3>1, FewerStarts
  <2>5. widest.concurrency \in Nat /\ (widest.history # None => widest.history \in Nat)
    BY <1>1 DEF AdmissionTypes
  <2>6. /\ Cardinality(Admission!Running' \ Admission!Together) <= widest.concurrency
        /\ widest.history # None =>
             Cardinality(DOMAIN rows' \ Admission!Together) <= widest.history
    BY <1>1, <2>3, <2>4, <2>5 DEF AdmissionLimits
  <2>7. ASSUME NEW x \in Starts, x \in Admission!UnderWay, "start" \notin met[x]
        PROVE  /\ request[x].stage \in {"admitted", "inserted"} =>
                    Cardinality(Admission!Running') < widest.concurrency
               /\ request[x].stage = "inserted" /\ widest.history # None =>
                    Cardinality(DOMAIN rows' \ request[x].victims) < widest.history
    <3>1. /\ DOMAIN rows' \ request[x].victims \in SUBSET (DOMAIN rows \ request[x].victims)
          /\ DOMAIN rows \ request[x].victims \in SUBSET Starts
      BY <1>4, <2>1
    <3>2. /\ Cardinality(DOMAIN rows' \ request[x].victims)
               <= Cardinality(DOMAIN rows \ request[x].victims)
          /\ Cardinality(DOMAIN rows' \ request[x].victims) \in Nat
          /\ Cardinality(DOMAIN rows \ request[x].victims) \in Nat
      BY <3>1, FewerStarts
    <3> QED
      BY <1>1, <2>2, <2>5, <2>7, <3>2 DEF AdmissionLimits
  <2> QED
    BY <1>1, <1>3, <1>5, <1>7, <2>1, <2>6, <2>7 DEF AdmissionLimits
<1> QED
  BY <1>8, <1>9, <1>10, <1>11 DEF AdmissionInv

\* A subscription begins or ends.
LEMMA RenewStep ==
  ASSUME AdmissionConstants, AdmissionInv, NEW p \in Plans, Admission!Renew(p)
  PROVE  AdmissionInv'
<1>1. AdmissionTypes /\ AdmissionTimes /\ AdmissionCurrent /\ AdmissionLimits
  BY DEF AdmissionInv
<1>2. PICK limit : limit = Admission!Limit'
  OBVIOUS
<1>3. /\ active' \subseteq Plans
      /\ widest' = [widest EXCEPT !.history = Admission!Wider(@, limit)]
      /\ UNCHANGED <<rows, workflow, request, clock, last, edited, met, muddled>>
  BY <1>1, <1>2 DEF Admission!Renew, AdmissionTypes
<1>4. limit \in (Nat \ {0}) \cup {None}
  BY <1>2, <1>3, LimitIs, HistoryLimitType
<1>5. widest \in [history : Nat \cup {None}, concurrency : Nat]
  BY <1>1 DEF AdmissionTypes
<1>6. PICK h : h = Admission!Wider(widest.history, limit)
  OBVIOUS
<1>7. /\ h \in Nat \cup {None}
      /\ h # None => /\ limit # None /\ limit <= h
                     /\ widest.history # None /\ widest.history <= h
  <2>1. CASE None \in {widest.history, limit}
    BY <1>6, <2>1 DEF Admission!Wider
  <2>2. CASE None \notin {widest.history, limit}
    <3>1. widest.history \in Nat /\ limit \in Nat
      BY <1>4, <1>5, <2>2
    <3>2. h = Admission!Max({widest.history, limit})
      BY <1>6, <2>2 DEF Admission!Wider
    <3> QED
      BY <2>2, <3>1, <3>2, MaxOfTwo
  <2> QED
    BY <2>1, <2>2
<1>8. /\ widest' \in [history : Nat \cup {None}, concurrency : Nat]
      /\ widest'.history = h /\ widest'.concurrency = widest.concurrency
  BY <1>3, <1>5, <1>6, <1>7
<1>9. Admission!UnderWay' = Admission!UnderWay
  BY <1>3 DEF Admission!UnderWay
<1>10. AdmissionTypes'
  <2>1. \A x, y \in Admission!UnderWay : x # y => Admission!Kind(y) \in met[x]
    BY <1>1 DEF AdmissionTypes
  <2> QED
    BY <1>1, <1>3, <1>8, <1>9, <2>1 DEF AdmissionTypes, Admission!Kind
<1>11. AdmissionTimes'
  <2>1. \A x \in Starts : Inserted(x)' <=> Inserted(x)
    BY <1>3 DEF Inserted
  <2> QED
    BY <1>1, <1>3, <2>1 DEF AdmissionTimes
<1>12. AdmissionCurrent'
  <2>1. Admission!WorkflowRowIsCurrent'
    BY <1>1, <1>3 DEF AdmissionCurrent, Admission!WorkflowRowIsCurrent, Admission!Existing
  <2> QED
    BY <1>1, <1>3, <1>9, <2>1 DEF AdmissionCurrent
<1>13. AdmissionLimits'
  <2>1. /\ Admission!Together' = Admission!Together /\ Admission!Running' = Admission!Running
    BY <1>3 DEF Admission!Together, Admission!Running, Admission!Existing
  <2>2. /\ Cardinality(DOMAIN rows \ Admission!Together) \in Nat
        /\ \A x : Cardinality(DOMAIN rows \ request[x].victims) \in Nat
    BY <1>1, RowsAreFinite
  <2>3. h # None => Cardinality(DOMAIN rows \ Admission!Together) <= h
    BY <1>1, <1>5, <1>7, <2>2 DEF AdmissionLimits
  <2>4. ASSUME NEW x \in Starts, x \in Admission!UnderWay, "start" \notin met[x],
               request[x].stage = "inserted", h # None
        PROVE  Cardinality(DOMAIN rows \ request[x].victims) < h
    <3>1. Cardinality(DOMAIN rows \ request[x].victims) < widest.history
      BY <1>1, <1>7, <2>4 DEF AdmissionLimits
    <3>2. widest.history \in Nat /\ h \in Nat /\ widest.history <= h
      BY <1>5, <1>7, <2>4
    <3> QED
      BY <2>2, <3>1, <3>2
  <2>5. h # None => limit # None /\ limit <= h
    BY <1>7
  <2>6. \A x \in Starts : x \in Admission!UnderWay /\ "start" \notin met[x] =>
          /\ request[x].stage \in {"admitted", "inserted"} =>
               Cardinality(Admission!Running) < widest.concurrency
          /\ request[x].stage = "inserted" /\ h # None =>
               Cardinality(DOMAIN rows \ request[x].victims) < h
    BY <1>1, <2>4 DEF AdmissionLimits
  <2> QED
    BY <1>1, <1>2, <1>3, <1>8, <1>9, <2>1, <2>3, <2>5, <2>6 DEF AdmissionLimits
<1> QED
  BY <1>10, <1>11, <1>12, <1>13 DEF AdmissionInv

LEMMA AdmissionInit ==
  ASSUME AdmissionConstants, Admission!Init
  PROVE  AdmissionInv
<1>1. /\ rows = <<>> /\ active \subseteq Plans /\ clock = 0 /\ last = None
      /\ workflow \in [maxConcurrency : Concurrencies, latest : {None}]
      /\ request = [ q \in Admission!Requests |->
                       [ stage |-> "new", copy |-> None, victims |-> {}, waits |-> {},
                         row |-> None ] ]
      /\ edited = workflow.maxConcurrency
      /\ met = [q \in Admission!Requests |-> {}] /\ muddled = {}
      /\ widest = [history |-> Admission!Limit, concurrency |-> edited]
  BY DEF Admission!Init
<1>2. DOMAIN rows = {} /\ \A S : rows \in [DOMAIN rows -> S]
  BY <1>1
<1>3. \A q \in Admission!Requests : request[q].stage = "new"
  BY <1>1
<1>4. Admission!UnderWay = {}
  BY <1>3 DEF Admission!UnderWay
<1>5. Admission!Limit \in (Nat \ {0}) \cup {None}
  BY <1>1, LimitIs, HistoryLimitType
<1>6. /\ workflow \in Admission!Workflow /\ workflow.maxConcurrency \in Nat
      /\ workflow.latest = None /\ widest.concurrency = workflow.maxConcurrency
      /\ widest.history = Admission!Limit
      /\ widest \in [history : Nat \cup {None}, concurrency : Nat]
  BY <1>1, <1>5 DEF Admission!Workflow, AdmissionConstants
<1>7. request \in [Admission!Requests -> AdmittedRequest]
  <2>1. [ stage |-> "new", copy |-> None, victims |-> {}, waits |-> {}, row |-> None ]
          \in AdmittedRequest
    BY DEF AdmittedRequest, Admission!Stage
  <2> QED
    BY <1>1, <2>1
<1>8. AdmissionTypes
  BY <1>1, <1>2, <1>3, <1>4, <1>6, <1>7 DEF AdmissionTypes
<1>9. AdmissionTimes
  <2>1. \A x \in Starts : ~Inserted(x)
    BY <1>3 DEF Inserted, Admission!Requests
  <2> QED
    BY <1>2, <2>1 DEF AdmissionTimes
<1>10. AdmissionCurrent
  BY <1>1, <1>4, <1>6 DEF AdmissionCurrent, Admission!WorkflowRowIsCurrent
<1>11. AdmissionLimits
  <2>1. /\ DOMAIN rows \ Admission!Together = {}
        /\ Admission!Running \ Admission!Together = {}
    BY <1>2 DEF Admission!Running, Admission!Existing
  <2>2. Cardinality({}) = 0
    BY FS_EmptySet
  <2> QED
    BY <1>4, <1>5, <1>6, <2>1, <2>2 DEF AdmissionLimits
<1> QED
  BY <1>8, <1>9, <1>10, <1>11 DEF AdmissionInv

LEMMA AdmissionNext ==
  ASSUME AdmissionConstants, AdmissionInv, [Admission!Next]_(Admission!vars)
  PROVE  AdmissionInv'
<1>1. CASE UNCHANGED Admission!vars
  <2>1. UNCHANGED <<rows, workflow, request, active, clock, last, edited, met, muddled, widest>>
    BY <1>1 DEF Admission!vars
  <2>2. Admission!UnderWay' = Admission!UnderWay
    BY <2>1 DEF Admission!UnderWay
  <2>3. AdmissionTypes'
    BY <2>1, <2>2 DEF AdmissionInv, AdmissionTypes, Admission!Kind
  <2>4. AdmissionTimes'
    BY <2>1 DEF AdmissionInv, AdmissionTimes, Inserted
  <2>5. AdmissionCurrent'
    <3>1. Admission!WorkflowRowIsCurrent'
      BY <2>1 DEF AdmissionInv, AdmissionCurrent, Admission!WorkflowRowIsCurrent,
        Admission!Existing
    <3> QED
      BY <2>1, <2>2, <3>1 DEF AdmissionInv, AdmissionCurrent
  <2>6. AdmissionLimits'
    <3>1. /\ Admission!Together' = Admission!Together /\ Admission!Running' = Admission!Running
          /\ Admission!Limit' = Admission!Limit
      BY <2>1, LimitIs DEF Admission!Together, Admission!Running, Admission!Existing
    <3> QED
      BY <2>1, <2>2, <3>1 DEF AdmissionInv, AdmissionLimits
  <2> QED
    BY <2>3, <2>4, <2>5, <2>6 DEF AdmissionInv
<1>2. CASE Admission!Next
  <2>1. ASSUME NEW q \in Admission!Requests, Admission!Load(q)
        PROVE  AdmissionInv'
    BY <2>1, LoadStep
  <2>2. ASSUME NEW q \in Admission!Requests, Admission!Crash(q)
        PROVE  AdmissionInv'
    BY <2>2, LeaveStep DEF Admission!Crash
  <2>3. ASSUME NEW q \in Starts, Admission!Skip(q)
        PROVE  AdmissionInv'
    <3>1. q \in Admission!UnderWay
      BY <2>3 DEF Admission!Skip, Admission!UnderWay, Admission!Requests
    <3> QED
      BY <2>3, <3>1, LeaveStep DEF Admission!Skip
  <2>4. ASSUME NEW q \in Starts,
               Admission!Admit(q) \/ Admission!Insert(q) \/ Admission!FinishStart(q)
        PROVE  AdmissionInv'
    BY <2>4, AdmitStep, InsertStep, FinishStartStep
  <2>5. ASSUME NEW q \in Edits, Admission!FinishEdit(q)
        PROVE  AdmissionInv'
    BY <2>5, FinishEditStep
  <2>6. ASSUME NEW e \in Starts, Admission!End(e)
        PROVE  AdmissionInv'
    BY <2>6, EndStep
  <2>7. ASSUME Admission!Enforce
        PROVE  AdmissionInv'
    BY <2>7, EnforceStep
  <2>8. ASSUME NEW p \in Plans, Admission!Renew(p)
        PROVE  AdmissionInv'
    BY <2>8, RenewStep
  <2> QED
    BY <1>2, <2>1, <2>2, <2>3, <2>4, <2>5, <2>6, <2>7, <2>8 DEF Admission!Next
<1> QED
  BY <1>1, <1>2

\* Whatever starts and edits overlap, however often a transaction is aborted and
\* the history purged: the Workflow never names an execution that is gone, it names
\* the last one, and it is as the last edit left it, unless a start and an edit
\* overlapped (WorkflowExecutionViewSet.create, WorkflowViewSet).
THEOREM WorkflowRowStaysCurrent == Admission!Spec => []WorkflowRowIsCurrent
<1> USE AdmissionAssumption
<1>1. Admission!Init => AdmissionInv
  BY AdmissionInit
<1>2. AdmissionInv /\ [Admission!Next]_(Admission!vars) => AdmissionInv'
  BY AdmissionNext
<1>3. AdmissionInv => Admission!WorkflowRowIsCurrent
  BY DEF AdmissionInv, AdmissionCurrent
<1> QED
  BY <1>1, <1>2, <1>3, PTL DEF Admission!Spec, WorkflowRowIsCurrent

\* Executions whose starts overlapped with no other start never exceed what the
\* subscriptions and the Workflow have allowed (Workflow.can_start_execution,
\* Workflow.purge_history, UsageLimits).
THEOREM AdmissionKeepsLimits == Admission!Spec => []Admission!LimitsHold
<1> USE AdmissionAssumption
<1>1. Admission!Init => AdmissionInv
  BY AdmissionInit
<1>2. AdmissionInv /\ [Admission!Next]_(Admission!vars) => AdmissionInv'
  BY AdmissionNext
<1>3. AdmissionInv => Admission!LimitsHold
  BY AdmissionCardinality
  DEF AdmissionInv, AdmissionLimits, Admission!LimitsHold, Admission!Existing
<1> QED
  BY <1>1, <1>2, <1>3, PTL DEF Admission!Spec

-----------------------------------------------------------------------------
(* What the API keys of a group are charged (ApiCredits).                  *)

\* What a row says, or what one says that does not exist yet.
Recorded(saved) == IF saved = None THEN Credits!Unused ELSE saved

\* A row that was last used by a month, or never.
UsedBy(saved, m) ==
  /\ saved \in CreditRow \cup {None}
  /\ Recorded(saved).lastUsed = None => Recorded(saved).current = 0
  /\ Recorded(saved).lastUsed # None => Recorded(saved).lastUsed <= m

\* It counts the n requests of month k, unless it was used after that.
Counts(saved, k, n) ==
  \/ Recorded(saved).lastUsed # None /\ Recorded(saved).lastUsed > k
  \/ n = IF Recorded(saved).lastUsed = k THEN Recorded(saved).current ELSE 0

\* No request has overlapped with another in month k, as far as is known.
CleanMonth(k) == k \notin blurred /\ \A r \in together : k < asked[r].since

CreditTypes ==
  /\ month \in Credits!Months /\ subscribed \subseteq Plans
  /\ UsedBy(groupInfo, month)
  /\ asked \in [CreditRequests -> CreditRequest \cup {None}]
  /\ together \subseteq Credits!UnderWay
  /\ \A r \in Credits!UnderWay :
       /\ UsedBy(asked[r].row, asked[r].since)
       /\ asked[r].since \in Credits!Months /\ asked[r].since <= month
       /\ asked[r].limit \in inForce
  /\ allowed \in [Credits!Months -> Nat]
  /\ \A k \in Credits!Months : k > month => allowed[k] = 0
  /\ \A k \in blurred : k \in Credits!Months /\ k <= month
  /\ Credits!UsageLimit(subscribed) \in inForce

\* A request that overlaps with no other has read the row as it still is.
CreditAlone ==
  \A r \in Credits!UnderWay \ together :
    Credits!UnderWay = {r} /\ asked[r].row = groupInfo

CreditCounts ==
  /\ \A k \in Credits!Months :
       k <= month /\ CleanMonth(k) => Counts(groupInfo, k, allowed[k])
  /\ \A r \in Credits!UnderWay, k \in Credits!Months :
       k < asked[r].since /\ CleanMonth(k) => Counts(asked[r].row, k, allowed[k])

CreditCharge ==
  CleanMonth(month) =>
    /\ \E limit \in inForce : limit = None \/ allowed[month] <= limit
    /\ groupInfo # None /\ groupInfo.lastUsed = month /\ month - 1 \in Credits!Months
         /\ CleanMonth(month - 1) /\ allowed[month - 1] > 0
       => groupInfo.previous = allowed[month - 1]

CreditInv == CreditTypes /\ CreditAlone /\ CreditCounts /\ CreditCharge

LEMMA CreditLimitType ==
  ASSUME CreditConstants, NEW S \in SUBSET Plans
  PROVE  Credits!UsageLimit(S) \in Nat \cup {None}
<1>1. Credits!UsageLimit(S) = LimitOf(S, MaxCredits, DefaultCredits)
  <2>1. \A x, y : Credits!AddLimits(x, y) = Admission!AddLimits(x, y)
    BY DEF Credits!AddLimits, Admission!AddLimits
  <2> QED
    BY <2>1 DEF Credits!UsageLimit, Credits!Combined, Credits!MapThenFoldSet,
      Credits!AddLimits, Admission!AddLimits, SumStep, Picked, LimitOf
<1>2. IsFiniteSet(S) /\ \A p \in S : MaxCredits[p] \in Nat \cup {None}
  BY FS_Subset DEF CreditConstants
<1>3. None \notin Int /\ DefaultCredits \in Nat \cup {None}
  BY DEF CreditConstants
<1> QED
  BY <1>1, <1>2, <1>3, LimitOfType

LEMMA RecordedIs ==
  ASSUME CreditConstants, NEW saved \in CreditRow \cup {None}
  PROVE  /\ Recorded(saved) \in CreditRow
         /\ saved # None => Recorded(saved) = saved
         /\ saved = None => Recorded(saved).current = 0 /\ Recorded(saved).lastUsed = None
BY DEF Recorded, CreditRow, Credits!Unused

LEMMA MonthsAre ==
  ASSUME CreditConstants
  PROVE  /\ Credits!Months \subseteq Int
         /\ \A k \in Int : k \in Credits!Months <=> FirstMonth <= k /\ k <= LastMonth
BY DEF CreditConstants, Credits!Months

\* The month before, also over the turn of a year.
LEMMA MonthPrecedes ==
  ASSUME NEW now \in Nat
  PROVE  ~Credits!Precedes(now, now) /\ (now > 0 => Credits!Precedes(now - 1, now))
<1>1. ~Credits!Precedes(now, now)
  BY DEF Credits!Precedes, Credits!Year, Credits!MonthOfYear
<1>2. ASSUME now > 0
      PROVE  Credits!Precedes(now - 1, now)
  BY <1>2 DEF Credits!Precedes, Credits!Year, Credits!MonthOfYear
<1> QED
  BY <1>1, <1>2

\* A request reads the limit and the row.
LEMMA CreditBegins ==
  ASSUME CreditConstants, CreditInv, NEW r \in CreditRequests, Credits!Begin(r)
  PROVE  CreditInv'
<1>1. CreditTypes /\ CreditAlone /\ CreditCounts /\ CreditCharge
  BY DEF CreditInv
<1>2. /\ asked[r] = None /\ r \notin Credits!UnderWay
      /\ together' = IF Credits!UnderWay = {} THEN together
                     ELSE together \cup Credits!UnderWay \cup {r}
      /\ UNCHANGED <<month, subscribed, groupInfo, allowed, blurred, inForce>>
  BY DEF Credits!Begin, Credits!UnderWay
<1>3. PICK q : q = [limit |-> Credits!UsageLimit(subscribed), row |-> groupInfo, since |-> month]
  OBVIOUS
<1>4. asked' = [asked EXCEPT ![r] = q]
  BY <1>3 DEF Credits!Begin
<1>5. /\ groupInfo \in CreditRow \cup {None} /\ month \in Credits!Months /\ month \in Int
      /\ Credits!UsageLimit(subscribed) \in Nat \cup {None}
  BY <1>1, CreditLimitType, MonthsAre DEF CreditTypes, UsedBy
<1>6. /\ q \in CreditRequest /\ q # None /\ q.row = groupInfo /\ q.since = month
      /\ q.limit = Credits!UsageLimit(subscribed)
  BY <1>3, <1>5 DEF CreditRequest, CreditConstants
<1>7. /\ asked' \in [CreditRequests -> CreditRequest \cup {None}] /\ asked'[r] = q
      /\ \A x \in CreditRequests : x # r => asked'[x] = asked[x]
  BY <1>1, <1>4, <1>6 DEF CreditTypes
<1>8. Credits!UnderWay' = Credits!UnderWay \cup {r} /\ Credits!UnderWay \subseteq CreditRequests
  BY <1>6, <1>7 DEF Credits!UnderWay
<1>9. \A x \in Credits!UnderWay : x # r /\ asked'[x] = asked[x]
  BY <1>2, <1>7, <1>8
<1>10. together \subseteq together' /\ together \subseteq Credits!UnderWay
  BY <1>1, <1>2 DEF CreditTypes
<1>11. ASSUME NEW k, CleanMonth(k)'
       PROVE  CleanMonth(k)
  BY <1>2, <1>9, <1>10, <1>11 DEF CleanMonth
<1>12. CreditTypes'
  <2>1. together' \subseteq Credits!UnderWay'
    BY <1>2, <1>8, <1>10
  <2>2. \A x \in Credits!UnderWay' :
          /\ UsedBy(asked'[x].row, asked'[x].since)
          /\ asked'[x].since \in Credits!Months /\ asked'[x].since <= month
          /\ asked'[x].limit \in inForce
    BY <1>1, <1>5, <1>6, <1>7, <1>8, <1>9 DEF CreditTypes
  <2> QED
    BY <1>1, <1>2, <1>7, <2>1, <2>2 DEF CreditTypes
<1>13. CreditAlone'
  <2>1. CASE Credits!UnderWay = {}
    BY <1>2, <1>6, <1>7, <1>8, <2>1 DEF CreditAlone
  <2>2. CASE Credits!UnderWay # {}
    <3>1. Credits!UnderWay' \ together' = {}
      BY <1>2, <1>8, <2>2
    <3> QED
      BY <3>1 DEF CreditAlone
  <2> QED
    BY <2>1, <2>2
<1>14. CreditCounts'
  <2>1. ASSUME NEW k \in Credits!Months, k <= month, CleanMonth(k)'
        PROVE  Counts(groupInfo, k, allowed[k])
    BY <1>1, <1>11, <2>1 DEF CreditCounts
  <2>2. ASSUME NEW x \in Credits!UnderWay', NEW k \in Credits!Months, k < asked'[x].since,
               CleanMonth(k)'
        PROVE  Counts(asked'[x].row, k, allowed[k])
    <3>1. CleanMonth(k)
      BY <1>11, <2>2
    <3>2. CASE x = r
      <4>1. k < month /\ k \in Int
        BY <1>6, <1>7, <2>2, <3>2, MonthsAre
      <4>2. k <= month
        BY <1>5, <4>1
      <4> QED
        BY <1>1, <1>6, <1>7, <3>1, <3>2, <4>2 DEF CreditCounts
    <3>3. CASE x # r
      BY <1>1, <1>8, <1>9, <2>2, <3>1, <3>3 DEF CreditCounts
    <3> QED
      BY <3>2, <3>3
  <2> QED
    BY <1>2, <2>1, <2>2 DEF CreditCounts
<1>15. CreditCharge'
  <2>1. CleanMonth(month)' => CleanMonth(month)
    BY <1>11, <1>2 DEF CleanMonth
  <2>2. CleanMonth(month - 1)' => CleanMonth(month - 1)
    BY <1>11, <1>2 DEF CleanMonth
  <2> QED
    BY <1>1, <1>2, <2>1, <2>2 DEF CreditCharge
<1> QED
  BY <1>12, <1>13, <1>14, <1>15 DEF CreditInv

\* The subscriptions change.
LEMMA CreditSubscribes ==
  ASSUME CreditConstants, CreditInv, NEW plans \in SUBSET Plans, Credits!Subscribe(plans)
  PROVE  CreditInv'
<1>1. CreditTypes /\ CreditAlone /\ CreditCounts /\ CreditCharge
  BY DEF CreditInv
<1>2. /\ subscribed' = plans /\ inForce' = inForce \cup {Credits!UsageLimit(plans)}
      /\ UNCHANGED <<month, groupInfo, asked, together, allowed, blurred>>
  BY DEF Credits!Subscribe
<1>3. Credits!UnderWay' = Credits!UnderWay
  BY <1>2 DEF Credits!UnderWay
<1>4. \A k : CleanMonth(k)' <=> CleanMonth(k)
  BY <1>2 DEF CleanMonth
<1>5. (Credits!UsageLimit(subscribed))' \in inForce'
  BY <1>2 DEF Credits!UsageLimit, Credits!Combined, Credits!MapThenFoldSet, Credits!AddLimits
<1>6. CreditTypes'
  BY <1>1, <1>2, <1>3, <1>5 DEF CreditTypes
<1>7. CreditAlone' /\ CreditCounts'
  BY <1>1, <1>2, <1>3, <1>4 DEF CreditAlone, CreditCounts
<1>8. CreditCharge'
  <2>1. (CleanMonth(month)' <=> CleanMonth(month))
        /\ (CleanMonth(month - 1)' <=> CleanMonth(month - 1))
    BY <1>2, <1>4 DEF CleanMonth
  <2> QED
    BY <1>1, <1>2, <2>1 DEF CreditCharge
<1> QED
  BY <1>6, <1>7, <1>8 DEF CreditInv

\* A month begins.
LEMMA CreditMonthBegins ==
  ASSUME CreditConstants, CreditInv, Credits!NextMonth
  PROVE  CreditInv'
<1>1. CreditTypes /\ CreditAlone /\ CreditCounts /\ CreditCharge
  BY DEF CreditInv
<1>2. /\ month < LastMonth /\ month' = month + 1
      /\ inForce' = {Credits!UsageLimit(subscribed)}
                      \cup { asked[r].limit : r \in Credits!UnderWay }
      /\ UNCHANGED <<subscribed, groupInfo, asked, together, allowed, blurred>>
  BY DEF Credits!NextMonth
<1>3. /\ month \in Credits!Months /\ month \in Int /\ month' \in Credits!Months
      /\ month' > month /\ month' - 1 = month
  BY <1>1, <1>2, MonthsAre DEF CreditTypes, CreditConstants
<1>4. /\ groupInfo \in CreditRow \cup {None} /\ Recorded(groupInfo) \in CreditRow
      /\ Recorded(groupInfo).lastUsed # None =>
           Recorded(groupInfo).lastUsed \in Int /\ Recorded(groupInfo).lastUsed <= month
  BY <1>1, RecordedIs DEF CreditTypes, UsedBy, CreditRow
<1>5. Credits!UnderWay' = Credits!UnderWay
  BY <1>2 DEF Credits!UnderWay
<1>6. \A k : CleanMonth(k)' <=> CleanMonth(k)
  BY <1>2 DEF CleanMonth
<1>7. CreditTypes'
  <2>1. UsedBy(groupInfo, month')
    BY <1>1, <1>3, <1>4 DEF CreditTypes, UsedBy
  <2>2. \A r \in Credits!UnderWay :
          /\ UsedBy(asked[r].row, asked[r].since)
          /\ asked[r].since \in Credits!Months /\ asked[r].since <= month'
          /\ asked[r].limit \in inForce'
    <3>1. ASSUME NEW r \in Credits!UnderWay
          PROVE  /\ UsedBy(asked[r].row, asked[r].since)
                 /\ asked[r].since \in Credits!Months /\ asked[r].since <= month'
                 /\ asked[r].limit \in inForce'
      <4>1. /\ UsedBy(asked[r].row, asked[r].since)
            /\ asked[r].since \in Credits!Months /\ asked[r].since <= month
        BY <1>1 DEF CreditTypes
      <4>2. asked[r].since \in Int
        BY <4>1, MonthsAre
      <4>3. asked[r].limit \in inForce'
        BY <1>2
      <4> QED
        BY <1>2, <1>3, <4>1, <4>2, <4>3
    <3> QED
      BY <3>1
  <2>3. \A k \in Credits!Months : k > month' => allowed[k] = 0
    BY <1>1, <1>3, MonthsAre DEF CreditTypes
  <2>4. \A k \in blurred : k \in Credits!Months /\ k <= month'
    <3>1. ASSUME NEW k \in blurred
          PROVE  k \in Credits!Months /\ k <= month'
      <4>1. k \in Credits!Months /\ k <= month /\ k \in Int
        BY <1>1, MonthsAre DEF CreditTypes
      <4> QED
        BY <1>2, <1>3, <4>1
    <3> QED
      BY <3>1
  <2>5. (Credits!UsageLimit(subscribed))' = Credits!UsageLimit(subscribed)
    BY <1>2 DEF Credits!UsageLimit, Credits!Combined, Credits!MapThenFoldSet, Credits!AddLimits
  <2> QED
    BY <1>1, <1>2, <1>3, <1>5, <2>1, <2>2, <2>3, <2>4, <2>5 DEF CreditTypes
<1>8. CreditAlone'
  BY <1>1, <1>2, <1>5 DEF CreditAlone
<1>9. CreditCounts'
  <2>1. ASSUME NEW k \in Credits!Months, k <= month', CleanMonth(k)
        PROVE  Counts(groupInfo, k, allowed[k])
    <3>1. k \in Int
      BY MonthsAre
    <3>2. CASE k <= month
      BY <1>1, <2>1, <3>2 DEF CreditCounts
    <3>3. CASE k > month
      <4>1. allowed[k] = 0
        BY <1>1, <3>3 DEF CreditTypes
      <4>2. Recorded(groupInfo).lastUsed # k
        BY <1>3, <1>4, <3>1, <3>3 DEF CreditConstants
      <4> QED
        BY <4>1, <4>2 DEF Counts
    <3> QED
      BY <1>3, <3>1, <3>2, <3>3
  <2> QED
    BY <1>1, <1>2, <1>5, <1>6, <2>1 DEF CreditCounts
<1>10. CreditCharge'
  <2>1. allowed[month'] = 0
    BY <1>1, <1>3 DEF CreditTypes
  <2>2. \E limit \in inForce' : limit = None \/ 0 <= limit
    <3>1. Credits!UsageLimit(subscribed) \in Nat \cup {None}
      BY <1>1, CreditLimitType DEF CreditTypes
    <3> QED
      BY <1>2, <3>1
  <2>3. groupInfo # None => groupInfo.lastUsed # month'
    BY <1>3, <1>4, RecordedIs DEF CreditConstants
  <2> QED
    BY <1>2, <2>1, <2>2, <2>3 DEF CreditCharge
<1> QED
  BY <1>7, <1>8, <1>9, <1>10 DEF CreditInv

\* What a request that ends has counted, before itself.
Spent(r, now) ==
  IF Recorded(asked[r].row).lastUsed \in {None, now} THEN Recorded(asked[r].row).current ELSE 0

Refused(r, now) == asked[r].limit # None /\ Spent(r, now) >= asked[r].limit

\* Another request has inserted the row in the meantime.
Conflicts(r) == asked[r].row = None /\ groupInfo # None

LastUse(r, now) ==
  IF Recorded(asked[r].row).lastUsed = None THEN now ELSE Recorded(asked[r].row).lastUsed

PreviousAfter(r, now) ==
  IF Credits!Precedes(LastUse(r, now), now) THEN Recorded(asked[r].row).current
  ELSE Recorded(asked[r].row).previous

LEMMA CreditFinishes ==
  ASSUME CreditConstants, CreditTypes, NEW r \in CreditRequests, NEW now \in Credits!Months,
         Credits!Finish(r, now)
  PROVE  /\ r \in Credits!UnderWay /\ Credits!UnderWay' = Credits!UnderWay \ {r}
         /\ \A x \in Credits!UnderWay' : asked'[x] = asked[x]
         /\ asked[r].since <= now /\ now <= month /\ now \in Nat
         /\ Spent(r, now) \in Nat
         /\ together' = together \ {r}
         /\ blurred' = IF r \in together THEN blurred \cup (asked[r].since .. month) ELSE blurred
         /\ UNCHANGED <<month, subscribed, inForce>>
         /\ Conflicts(r) => UNCHANGED <<groupInfo, allowed>>
         /\ ~Conflicts(r) =>
              /\ groupInfo' \in CreditRow /\ groupInfo' # None
              /\ groupInfo'.previous = PreviousAfter(r, now)
              /\ Refused(r, now) =>
                   /\ groupInfo'.current = Recorded(asked[r].row).current
                   /\ groupInfo'.lastUsed = Recorded(asked[r].row).lastUsed
                   /\ allowed' = allowed
              /\ ~Refused(r, now) =>
                   /\ groupInfo'.current = Spent(r, now) + 1 /\ groupInfo'.lastUsed = now
                   /\ allowed' = [allowed EXCEPT ![now] = @ + 1]
         /\ CreditTypes'
<1>1. PICK read : read = Recorded(asked[r].row)
  OBVIOUS
<1>2. PICK since : since = asked[r].since
  OBVIOUS
<1>3. /\ asked[r] # None /\ now \in since .. month
      /\ together' = together \ {r} /\ asked' = [asked EXCEPT ![r] = None]
      /\ blurred' = IF r \in together THEN blurred \cup (since .. month) ELSE blurred
      /\ UNCHANGED <<month, subscribed, inForce>>
  BY <1>2 DEF Credits!Finish
<1>4. r \in Credits!UnderWay
  BY <1>3 DEF Credits!UnderWay
<1>5. /\ UsedBy(asked[r].row, since) /\ asked[r] \in CreditRequest
      /\ since \in Credits!Months /\ since <= month /\ month \in Credits!Months
  BY <1>2, <1>3, <1>4 DEF CreditTypes
<1>6. /\ read \in CreditRow
      /\ read.lastUsed = None => read.current = 0
      /\ read.lastUsed # None => read.lastUsed \in Int /\ read.lastUsed <= since
  <2>1. read \in CreditRow
    BY <1>1, <1>5, RecordedIs DEF UsedBy
  <2> QED
    BY <1>1, <1>5, <2>1 DEF UsedBy, CreditRow
<1>7. since \in Int /\ now \in Nat /\ month \in Int /\ since <= now /\ now <= month
  <2>1. since \in Int /\ now \in Int /\ month \in Int /\ now >= FirstMonth
    BY <1>5, MonthsAre
  <2> QED
    BY <1>3, <2>1 DEF CreditConstants
<1>8. Spent(r, now) = IF read.lastUsed \in {None, now} THEN read.current ELSE 0
  BY <1>1 DEF Spent
<1>9. Spent(r, now) \in Nat
  BY <1>6, <1>8 DEF CreditRow
<1>10. PreviousAfter(r, now) = IF Credits!Precedes(LastUse(r, now), now) THEN read.current
                               ELSE read.previous
  BY <1>1 DEF PreviousAfter
<1>11. PreviousAfter(r, now) \in Nat
  BY <1>6, <1>10 DEF CreditRow
<1>12. Conflicts(r) => UNCHANGED <<groupInfo, allowed>>
  BY DEF Credits!Finish, Conflicts
<1>13. ~Conflicts(r) =>
         /\ groupInfo' = [ current |-> IF Refused(r, now) THEN read.current ELSE Spent(r, now) + 1,
                           previous |-> PreviousAfter(r, now),
                           lastUsed |-> IF Refused(r, now) THEN read.lastUsed ELSE now ]
         /\ allowed' = IF Refused(r, now) THEN allowed ELSE [allowed EXCEPT ![now] = @ + 1]
  <2>1. read = IF asked[r].row = None THEN Credits!Unused ELSE asked[r].row
    BY <1>1 DEF Recorded
  <2>2. LastUse(r, now) = IF read.lastUsed = None THEN now ELSE read.lastUsed
    BY <1>1 DEF LastUse
  <2>3. Spent(r, now) = IF LastUse(r, now) = now THEN read.current ELSE 0
    BY <1>8, <2>2
  <2>4. Refused(r, now) <=> asked[r].limit # None /\ Spent(r, now) >= asked[r].limit
    BY DEF Refused
  <2> HIDE <1>1, <1>8
  <2> QED
    BY <1>10, <2>1, <2>2, <2>3, <2>4 DEF Credits!Finish, Conflicts
<1>14. ASSUME ~Conflicts(r)
       PROVE  /\ groupInfo' \in CreditRow /\ groupInfo' # None
              /\ groupInfo'.previous = PreviousAfter(r, now)
              /\ Refused(r, now) =>
                   groupInfo'.current = read.current /\ groupInfo'.lastUsed = read.lastUsed
              /\ ~Refused(r, now) =>
                   groupInfo'.current = Spent(r, now) + 1 /\ groupInfo'.lastUsed = now
  <2>1. PICK c : c = IF Refused(r, now) THEN read.current ELSE Spent(r, now) + 1
    OBVIOUS
  <2>2. PICK l : l = IF Refused(r, now) THEN read.lastUsed ELSE now
    OBVIOUS
  <2>3. PICK p : p = PreviousAfter(r, now)
    OBVIOUS
  <2>4. c \in Nat /\ l \in Int \cup {None} /\ p \in Nat
    BY <1>6, <1>7, <1>9, <1>11, <2>1, <2>2, <2>3 DEF CreditRow
  <2>5. groupInfo' = [current |-> c, previous |-> p, lastUsed |-> l]
    BY <1>13, <1>14, <2>1, <2>2, <2>3
  <2>6. groupInfo' \in CreditRow
    BY <2>4, <2>5 DEF CreditRow
  <2> QED
    BY <2>1, <2>2, <2>3, <2>5, <2>6 DEF CreditConstants
<1>15. /\ asked' \in [CreditRequests -> CreditRequest \cup {None}] /\ asked'[r] = None
       /\ \A x \in CreditRequests : x # r => asked'[x] = asked[x]
  BY <1>3 DEF CreditTypes
<1>16. Credits!UnderWay' = Credits!UnderWay \ {r}
  BY <1>15 DEF Credits!UnderWay
<1>17. \A x \in Credits!UnderWay' : x \in Credits!UnderWay /\ asked'[x] = asked[x]
  BY <1>15, <1>16 DEF Credits!UnderWay
<1>18. CreditTypes'
  <2>1. UsedBy(groupInfo', month)
    <3>1. CASE Conflicts(r)
      BY <1>12, <3>1 DEF CreditTypes
    <3>2. CASE ~Conflicts(r)
      <4>1. groupInfo' \in CreditRow /\ Recorded(groupInfo') = groupInfo'
        BY <1>14, <3>2 DEF Recorded
      <4>2. /\ groupInfo'.lastUsed = None => groupInfo'.current = 0
            /\ groupInfo'.lastUsed # None => groupInfo'.lastUsed <= month
        <5>1. CASE Refused(r, now)
          BY <1>6, <1>7, <1>14, <3>2, <5>1
        <5>2. CASE ~Refused(r, now)
          BY <1>7, <1>14, <3>2, <5>2 DEF CreditConstants
        <5> QED
          BY <5>1, <5>2
      <4> QED
        BY <4>1, <4>2 DEF UsedBy
    <3> QED
      BY <3>1, <3>2
  <2>2. /\ allowed' \in [Credits!Months -> Nat]
        /\ \A k \in Credits!Months : k > month => allowed'[k] = 0
    <3>1. /\ allowed \in [Credits!Months -> Nat]
          /\ \A k \in Credits!Months : k > month => allowed[k] = 0
      BY DEF CreditTypes
    <3>2. allowed' = allowed \/ allowed' = [allowed EXCEPT ![now] = @ + 1]
      BY <1>12, <1>13
    <3>3. ~(now > month)
      BY <1>7
    <3> QED
      BY <3>1, <3>2, <3>3
  <2>3. \A k \in blurred' : k \in Credits!Months /\ k <= month
    <3>1. \A k \in blurred : k \in Credits!Months /\ k <= month
      BY DEF CreditTypes
    <3>2. \A k \in since .. month : k \in Credits!Months /\ k <= month
      BY <1>5, <1>7, MonthsAre DEF Credits!Months, CreditConstants
    <3> QED
      BY <1>3, <3>1, <3>2
  <2>4. \A x \in Credits!UnderWay' :
          /\ UsedBy(asked'[x].row, asked'[x].since)
          /\ asked'[x].since \in Credits!Months /\ asked'[x].since <= month
          /\ asked'[x].limit \in inForce
    BY <1>17 DEF CreditTypes
  <2>5. together' \subseteq Credits!UnderWay'
    BY <1>3, <1>16 DEF CreditTypes
  <2>6. (Credits!UsageLimit(subscribed))' = Credits!UsageLimit(subscribed)
    BY <1>3 DEF Credits!UsageLimit, Credits!Combined, Credits!MapThenFoldSet, Credits!AddLimits
  <2>7. month' = month /\ subscribed' = subscribed /\ inForce' = inForce
    BY <1>3
  <2>8. /\ month \in Credits!Months /\ subscribed \subseteq Plans
        /\ Credits!UsageLimit(subscribed) \in inForce
    BY DEF CreditTypes
  <2> HIDE <1>3, <1>13
  <2> QED
    BY <1>15, <2>1, <2>2, <2>3, <2>4, <2>5, <2>6, <2>7, <2>8 DEF CreditTypes
<1> QED
  BY <1>1, <1>2, <1>3, <1>4, <1>7, <1>9, <1>12, <1>13, <1>14, <1>16, <1>17, <1>18

\* A request ends that overlapped with no other.
LEMMA CreditFinishesAlone ==
  ASSUME CreditConstants, CreditInv, NEW r \in CreditRequests, NEW now \in Credits!Months,
         Credits!Finish(r, now), r \notin together
  PROVE  CreditInv'
<1>1. CreditTypes /\ CreditAlone /\ CreditCounts /\ CreditCharge
  BY DEF CreditInv
<1>2. /\ r \in Credits!UnderWay /\ Credits!UnderWay' = Credits!UnderWay \ {r}
      /\ asked[r].since <= now /\ now <= month /\ now \in Nat
      /\ Spent(r, now) \in Nat
      /\ together' = together \ {r} /\ blurred' = blurred
      /\ UNCHANGED <<month, subscribed, inForce>>
      /\ CreditTypes'
  BY <1>1, CreditFinishes
<1>3. Credits!UnderWay = {r} /\ asked[r].row = groupInfo
  BY <1>1, <1>2 DEF CreditAlone
<1>4. Credits!UnderWay' = {} /\ together = {} /\ together' = {}
  BY <1>1, <1>2, <1>3 DEF CreditTypes
<1>5. PICK read : read = Recorded(groupInfo)
  OBVIOUS
<1>6. /\ read \in CreditRow /\ (read.lastUsed = None => read.current = 0)
      /\ read.lastUsed # None => read.lastUsed \in Int /\ read.lastUsed <= now
      /\ month \in Int /\ asked[r].limit \in inForce
      /\ (groupInfo # None => read = groupInfo)
      /\ (groupInfo = None => read.lastUsed = None)
  <2>1. /\ UsedBy(groupInfo, asked[r].since) /\ asked[r].since \in Int /\ month \in Int
        /\ asked[r].limit \in inForce
    BY <1>1, <1>2, <1>3, MonthsAre DEF CreditTypes
  <2>2. read \in CreditRow
    BY <1>5, <2>1, RecordedIs DEF UsedBy
  <2>3. /\ read.lastUsed = None => read.current = 0
        /\ read.lastUsed # None => read.lastUsed \in Int /\ read.lastUsed <= asked[r].since
    BY <1>5, <2>1, <2>2 DEF UsedBy, CreditRow
  <2> QED
    BY <1>2, <1>5, <2>1, <2>2, <2>3, RecordedIs DEF UsedBy
<1>7. /\ Spent(r, now) = IF read.lastUsed \in {None, now} THEN read.current ELSE 0
      /\ PreviousAfter(r, now) = IF Credits!Precedes(LastUse(r, now), now) THEN read.current
                                 ELSE read.previous
      /\ LastUse(r, now) = IF read.lastUsed = None THEN now ELSE read.lastUsed
  BY <1>3, <1>5 DEF Spent, PreviousAfter, LastUse
<1>8. /\ groupInfo' \in CreditRow /\ groupInfo' # None /\ Recorded(groupInfo') = groupInfo'
      /\ groupInfo'.previous = PreviousAfter(r, now)
      /\ Refused(r, now) => /\ groupInfo'.current = read.current
                            /\ groupInfo'.lastUsed = read.lastUsed
                            /\ allowed' = allowed
      /\ ~Refused(r, now) => /\ groupInfo'.current = Spent(r, now) + 1
                             /\ groupInfo'.lastUsed = now
                             /\ allowed' = [allowed EXCEPT ![now] = @ + 1]
  <2>1. ~Conflicts(r)
    BY <1>3 DEF Conflicts
  <2> QED
    BY <1>1, <1>3, <1>5, <2>1, CreditFinishes DEF Recorded
<1>9. \A k : (CleanMonth(k) <=> k \notin blurred) /\ (CleanMonth(k)' <=> k \notin blurred)
  BY <1>2, <1>4 DEF CleanMonth
<1>10. \A k \in Credits!Months : k <= month /\ k \notin blurred =>
         \/ read.lastUsed # None /\ read.lastUsed > k
         \/ allowed[k] = IF read.lastUsed = k THEN read.current ELSE 0
  BY <1>1, <1>5, <1>9 DEF CreditCounts, Counts
\* What has been counted this far.
<1>11. now \notin blurred => allowed[now] = Spent(r, now)
  <2>1. SUFFICES ASSUME now \notin blurred PROVE allowed[now] = Spent(r, now)
    OBVIOUS
  <2>2. ~(read.lastUsed # None /\ read.lastUsed > now)
    BY <1>2, <1>6
  <2>3. allowed[now] = IF read.lastUsed = now THEN read.current ELSE 0
    BY <1>2, <1>10, <2>1, <2>2
  <2> QED
    BY <1>6, <1>7, <2>3
<1>12. allowed \in [Credits!Months -> Nat] /\ Credits!Months \subseteq Int /\ None \notin Int
  BY <1>1, MonthsAre DEF CreditTypes, CreditConstants
<1>13. CreditAlone'
  BY <1>4 DEF CreditAlone
<1>14. CreditCounts'
  <2>1. ASSUME NEW k \in Credits!Months, k <= month, k \notin blurred
        PROVE  \/ groupInfo'.lastUsed # None /\ groupInfo'.lastUsed > k
               \/ allowed'[k] = IF groupInfo'.lastUsed = k THEN groupInfo'.current ELSE 0
    <3>1. CASE Refused(r, now)
      BY <1>8, <1>10, <2>1, <3>1
    <3>2. CASE ~Refused(r, now)
      <4>1. /\ groupInfo'.current = Spent(r, now) + 1 /\ groupInfo'.lastUsed = now
            /\ allowed' = [allowed EXCEPT ![now] = @ + 1]
        BY <1>8, <3>2
      <4>2. CASE k < now
        <5>1. k \in Int /\ now \in Int /\ now # None
          BY <1>2, <1>12
        <5>2. now > k
          BY <4>2, <5>1
        <5> QED
          BY <4>1, <5>1, <5>2
      <4>3. CASE k = now
        BY <1>11, <1>12, <2>1, <4>1, <4>3
      <4>4. CASE k > now
        <5>1. allowed[k] = 0
          BY <1>2, <1>6, <1>10, <1>12, <2>1, <4>4
        <5>2. allowed'[k] = allowed[k] /\ k # now
          BY <1>2, <1>12, <4>1, <4>4
        <5> QED
          BY <4>1, <5>1, <5>2
      <4>5. k < now \/ k = now \/ k > now
        <5>1. k \in Int /\ now \in Int
          BY <1>2, <1>12
        <5> QED
          BY <5>1
      <4> QED
        BY <4>2, <4>3, <4>4, <4>5
    <3> QED
      BY <3>1, <3>2
  <2> QED
    BY <1>2, <1>4, <1>8, <1>9, <2>1 DEF CreditCounts, Counts
<1>15. CreditCharge'
  <2>1. SUFFICES ASSUME month \notin blurred
                 PROVE  /\ \E limit \in inForce : limit = None \/ allowed'[month] <= limit
                        /\ groupInfo'.lastUsed = month /\ month - 1 \in Credits!Months
                             /\ month - 1 \notin blurred /\ allowed'[month - 1] > 0
                           => groupInfo'.previous = allowed'[month - 1]
    BY <1>2, <1>8, <1>9 DEF CreditCharge
  <2>2. /\ \E limit \in inForce : limit = None \/ allowed[month] <= limit
        /\ groupInfo # None /\ groupInfo.lastUsed = month /\ month - 1 \in Credits!Months
             /\ month - 1 \notin blurred /\ allowed[month - 1] > 0
           => groupInfo.previous = allowed[month - 1]
    BY <1>1, <1>9, <2>1 DEF CreditCharge
  <2>3. month \in Credits!Months
    BY <1>1 DEF CreditTypes
  <2>4. \E limit \in inForce : limit = None \/ allowed'[month] <= limit
    <3>1. CASE Refused(r, now) \/ now # month
      <4>1. allowed'[month] = allowed[month]
        BY <1>8, <1>12, <2>3, <3>1
      <4> QED
        BY <2>2, <4>1
    <3>2. CASE ~Refused(r, now) /\ now = month
      <4>1. allowed'[month] = Spent(r, now) + 1
        BY <1>8, <1>11, <1>12, <2>1, <2>3, <3>2
      <4>2. asked[r].limit = None \/ ~(Spent(r, now) >= asked[r].limit)
        BY <3>2 DEF Refused
      <4>3. asked[r].limit \in Nat \cup {None}
        BY <1>1, <1>2 DEF CreditTypes, CreditRequest, Credits!UnderWay
      <4> QED
        BY <1>2, <1>6, <4>1, <4>2, <4>3
    <3> QED
      BY <3>1, <3>2
  <2>5. ASSUME groupInfo'.lastUsed = month, month - 1 \in Credits!Months,
               month - 1 \notin blurred, allowed'[month - 1] > 0
        PROVE  groupInfo'.previous = allowed'[month - 1]
    <3>1. now = month
      <4>1. CASE Refused(r, now)
        BY <1>2, <1>6, <1>8, <1>12, <2>5, <4>1
      <4>2. CASE ~Refused(r, now)
        BY <1>8, <2>5, <4>2
      <4> QED
        BY <4>1, <4>2
    <3>2. allowed'[month - 1] = allowed[month - 1] /\ allowed[month - 1] > 0
      <4>1. month - 1 # now
        BY <1>6, <3>1
      <4>2. allowed'[month - 1] = allowed[month - 1]
        BY <1>8, <1>12, <2>5, <4>1
      <4> QED
        BY <2>5, <4>2
    <3>3. CASE read.lastUsed = month
      <4>1. groupInfo # None /\ read = groupInfo
        BY <1>6, <1>12, <3>3
      <4>2. ~Credits!Precedes(LastUse(r, now), now)
        BY <1>2, <1>6, <1>7, <1>12, <3>1, <3>3, MonthPrecedes
      <4> QED
        BY <1>7, <1>8, <2>2, <2>5, <3>2, <3>3, <4>1, <4>2
    <3>4. CASE read.lastUsed # month
      <4>1. read.lastUsed = month - 1
        <5>1. ~(read.lastUsed # None /\ read.lastUsed > month - 1)
          BY <1>2, <1>6, <3>1, <3>4
        <5>2. month - 1 <= month
          BY <1>6
        <5>3. allowed[month - 1] # 0
          BY <3>2
        <5> QED
          BY <1>10, <2>5, <5>1, <5>2, <5>3
      <4>2. allowed[month - 1] = read.current
        BY <1>6, <1>10, <2>5, <4>1
      <4>3. LastUse(r, now) = now - 1
        BY <1>6, <1>7, <1>12, <3>1, <4>1
      <4>4. now > 0
        <5>1. month - 1 >= FirstMonth
          BY <1>6, <2>5, MonthsAre
        <5> QED
          BY <1>2, <3>1, <5>1 DEF CreditConstants
      <4>5. Credits!Precedes(LastUse(r, now), now)
        BY <1>2, <4>3, <4>4, MonthPrecedes
      <4> QED
        BY <1>7, <1>8, <3>2, <4>2, <4>5
    <3> QED
      BY <3>3, <3>4
  <2> QED
    BY <2>4, <2>5
<1> QED
  BY <1>2, <1>13, <1>14, <1>15 DEF CreditInv

\* A request ends that overlapped with another.
LEMMA CreditFinishesTogether ==
  ASSUME CreditConstants, CreditInv, NEW r \in CreditRequests, NEW now \in Credits!Months,
         Credits!Finish(r, now), r \in together
  PROVE  CreditInv'
<1>1. CreditTypes /\ CreditAlone /\ CreditCounts /\ CreditCharge
  BY DEF CreditInv
<1>2. PICK since : since = asked[r].since
  OBVIOUS
<1>3. /\ r \in Credits!UnderWay /\ Credits!UnderWay' = Credits!UnderWay \ {r}
      /\ \A x \in Credits!UnderWay' : asked'[x] = asked[x]
      /\ since <= now /\ now <= month /\ now \in Nat
      /\ together' = together \ {r} /\ blurred' = blurred \cup (since .. month)
      /\ UNCHANGED <<month, subscribed, inForce>>
      /\ Conflicts(r) => UNCHANGED <<groupInfo, allowed>>
      /\ ~Conflicts(r) =>
           /\ groupInfo' \in CreditRow /\ groupInfo' # None
           /\ Refused(r, now) => /\ groupInfo'.current = Recorded(asked[r].row).current
                                 /\ groupInfo'.lastUsed = Recorded(asked[r].row).lastUsed
                                 /\ allowed' = allowed
           /\ ~Refused(r, now) => /\ groupInfo'.lastUsed = now
                                  /\ allowed' = [allowed EXCEPT ![now] = @ + 1]
      /\ CreditTypes'
  BY <1>1, <1>2, CreditFinishes
<1>4. since \in Int /\ since <= month /\ month \in Int /\ month \in Credits!Months
  BY <1>1, <1>2, <1>3, MonthsAre DEF CreditTypes
<1>5. allowed \in [Credits!Months -> Nat] /\ Credits!Months \subseteq Int /\ None \notin Int
  BY <1>1, MonthsAre DEF CreditTypes, CreditConstants
<1>6. together \subseteq Credits!UnderWay
  BY <1>1 DEF CreditTypes
\* The months since it began are blurred.
<1>7. ASSUME NEW k \in Credits!Months, k <= month, CleanMonth(k)'
      PROVE  CleanMonth(k) /\ k < since
  <2>1. k \notin blurred /\ k \notin since .. month
    BY <1>3, <1>7 DEF CleanMonth
  <2>2. k < since
    BY <1>4, <1>5, <1>7, <2>1
  <2>3. \A x \in together : k < asked[x].since
    BY <1>2, <1>3, <1>6, <1>7, <2>2 DEF CleanMonth
  <2> QED
    BY <2>1, <2>2, <2>3 DEF CleanMonth
<1>8. ASSUME NEW k \in Credits!Months, k < since
      PROVE  allowed'[k] = allowed[k]
  <2>1. k # now
    BY <1>3, <1>4, <1>5, <1>8
  <2> QED
    BY <1>3, <1>5, <2>1
<1>9. CreditAlone'
  <2>1. ASSUME NEW x \in Credits!UnderWay', x \notin together'
        PROVE  FALSE
    <3>1. x \in Credits!UnderWay /\ x # r /\ x \notin together
      BY <1>3, <2>1
    <3>2. Credits!UnderWay = {x}
      BY <1>1, <3>1 DEF CreditAlone
    <3> QED
      BY <1>3, <3>1, <3>2
  <2> QED
    BY <2>1 DEF CreditAlone
<1>10. CreditCounts'
  <2>1. ASSUME NEW k \in Credits!Months, k <= month, CleanMonth(k)'
        PROVE  Counts(groupInfo', k, allowed'[k])
    <3>1. CleanMonth(k) /\ k < since /\ allowed'[k] = allowed[k]
      BY <1>7, <1>8, <2>1
    <3>2. CASE Conflicts(r)
      BY <1>1, <1>3, <2>1, <3>1, <3>2 DEF CreditCounts
    <3>3. CASE ~Conflicts(r) /\ Refused(r, now)
      <4>1. Counts(asked[r].row, k, allowed[k])
        BY <1>1, <1>2, <1>3, <3>1 DEF CreditCounts
      <4>2. Recorded(groupInfo') = groupInfo'
        BY <1>3, <3>3 DEF Recorded
      <4> QED
        BY <1>3, <3>1, <3>3, <4>1, <4>2 DEF Counts
    <3>4. CASE ~Conflicts(r) /\ ~Refused(r, now)
      <4>1. Recorded(groupInfo') = groupInfo' /\ groupInfo'.lastUsed = now
        BY <1>3, <3>4 DEF Recorded
      <4>2. now > k /\ now # None
        <5>1. k \in Int /\ now \in Int /\ since \in Int /\ since <= now /\ k < since
          BY <1>3, <1>4, <1>5, <3>1
        <5>2. now # None
          BY <1>5, <5>1
        <5> HIDE <1>3
        <5> QED
          BY <5>1, <5>2
      <4> QED
        BY <4>1, <4>2 DEF Counts
    <3> QED
      BY <3>2, <3>3, <3>4
  <2>2. ASSUME NEW x \in Credits!UnderWay', NEW k \in Credits!Months, k < asked'[x].since,
               CleanMonth(k)'
        PROVE  Counts(asked'[x].row, k, allowed'[k])
    <3>1. x \in Credits!UnderWay /\ asked'[x] = asked[x]
      BY <1>3, <2>2
    <3>2. asked[x].since \in Int /\ asked[x].since <= month
      BY <1>1, <3>1, MonthsAre DEF CreditTypes
    <3>3. k <= month
      BY <1>4, <1>5, <2>2, <3>1, <3>2
    <3>4. CleanMonth(k) /\ allowed'[k] = allowed[k]
      BY <1>7, <1>8, <2>2, <3>3
    <3> QED
      BY <1>1, <2>2, <3>1, <3>4 DEF CreditCounts
  <2> QED
    BY <1>3, <2>1, <2>2 DEF CreditCounts
<1>11. CreditCharge'
  <2>1. ~CleanMonth(month)'
    BY <1>3, <1>4 DEF CleanMonth
  <2> QED
    BY <1>3, <2>1 DEF CreditCharge, CleanMonth
<1> QED
  BY <1>3, <1>9, <1>10, <1>11 DEF CreditInv

LEMMA CreditInit ==
  ASSUME CreditConstants, Credits!Init
  PROVE  CreditInv
<1>1. /\ month = FirstMonth /\ subscribed = {} /\ groupInfo = None
      /\ asked = [r \in CreditRequests |-> None] /\ together = {}
      /\ allowed = [m \in Credits!Months |-> 0] /\ blurred = {}
      /\ inForce = {Credits!UsageLimit({})}
  BY DEF Credits!Init
<1>2. Credits!UnderWay = {}
  BY <1>1 DEF Credits!UnderWay
<1>3. month \in Credits!Months /\ month \in Int
  BY <1>1, MonthsAre DEF CreditConstants
<1>4. Recorded(groupInfo).current = 0 /\ Recorded(groupInfo).lastUsed = None
  BY <1>1, RecordedIs
<1>5. CreditTypes
  BY <1>1, <1>2, <1>3, <1>4 DEF CreditTypes, UsedBy
<1>6. \A k \in Credits!Months : allowed[k] = 0 /\ k # None
  BY <1>1, MonthsAre DEF CreditConstants
<1>7. CreditAlone /\ CreditCounts
  BY <1>2, <1>4, <1>6 DEF CreditAlone, CreditCounts, Counts
<1>8. CreditCharge
  <2>1. Credits!UsageLimit({}) \in Nat \cup {None}
    BY CreditLimitType
  <2>2. \E limit \in inForce : limit = None \/ 0 <= limit
    BY <1>1, <2>1
  <2>3. allowed[month] = 0
    BY <1>3, <1>6
  <2> QED
    BY <1>1, <2>2, <2>3 DEF CreditCharge
<1> QED
  BY <1>5, <1>7, <1>8 DEF CreditInv

LEMMA CreditNext ==
  ASSUME CreditConstants, CreditInv, [Credits!Next]_(Credits!vars)
  PROVE  CreditInv'
<1>1. CASE UNCHANGED Credits!vars
  <2>1. UNCHANGED <<month, subscribed, groupInfo, asked, together, allowed, blurred, inForce>>
    BY <1>1 DEF Credits!vars
  <2>2. Credits!UnderWay' = Credits!UnderWay
    BY <2>1 DEF Credits!UnderWay
  <2>3. \A k : CleanMonth(k)' <=> CleanMonth(k)
    BY <2>1 DEF CleanMonth
  <2>4. (Credits!UsageLimit(subscribed))' = Credits!UsageLimit(subscribed)
    BY <2>1 DEF Credits!UsageLimit, Credits!Combined, Credits!MapThenFoldSet, Credits!AddLimits
  <2>5. CreditTypes'
    BY <2>1, <2>2, <2>4 DEF CreditInv, CreditTypes
  <2>6. CreditAlone' /\ CreditCounts'
    BY <2>1, <2>2, <2>3 DEF CreditInv, CreditAlone, CreditCounts
  <2>7. CreditCharge'
    <3>1. (CleanMonth(month)' <=> CleanMonth(month))
          /\ (CleanMonth(month - 1)' <=> CleanMonth(month - 1))
      BY <2>1, <2>3 DEF CleanMonth
    <3> QED
      BY <2>1, <3>1 DEF CreditInv, CreditCharge
  <2> QED
    BY <2>5, <2>6, <2>7 DEF CreditInv
<1>2. CASE Credits!Next
  <2>1. ASSUME NEW r \in CreditRequests, Credits!Begin(r)
        PROVE  CreditInv'
    BY <2>1, CreditBegins
  <2>2. ASSUME NEW r \in CreditRequests, NEW now \in Credits!Months, Credits!Finish(r, now)
        PROVE  CreditInv'
    BY <2>2, CreditFinishesAlone, CreditFinishesTogether
  <2>3. ASSUME NEW plans \in SUBSET Plans, Credits!Subscribe(plans)
        PROVE  CreditInv'
    BY <2>3, CreditSubscribes
  <2>4. ASSUME Credits!NextMonth
        PROVE  CreditInv'
    BY <2>4, CreditMonthBegins
  <2> QED
    BY <1>2, <2>1, <2>2, <2>3, <2>4 DEF Credits!Next
<1> QED
  BY <1>1, <1>2

\* However many requests there are, whatever is subscribed to and however late a
\* request is saved: a month in which none overlap is charged exactly, within a limit
\* in force, and what the month before it was charged is remembered
\* (SubscriptionRateThrottle.allow_request).
THEOREM CreditsStayExact == Credits!Spec => []Credits!CreditsAreExact
<1> USE CreditAssumption
<1>1. Credits!Init => CreditInv
  BY CreditInit
<1>2. CreditInv /\ [Credits!Next]_(Credits!vars) => CreditInv'
  BY CreditNext
<1>3. CreditInv => Credits!CreditsAreExact
  <2> SUFFICES ASSUME CreditInv, month \notin blurred, together = {}
               PROVE  LET used == groupInfo # None /\ groupInfo.lastUsed = month
                      IN /\ allowed[month] = IF used THEN groupInfo.current ELSE 0
                         /\ \E limit \in inForce : limit = None \/ allowed[month] <= limit
                         /\ used /\ month - 1 \in Credits!Months \ blurred
                              /\ allowed[month - 1] > 0
                              => groupInfo.previous = allowed[month - 1]
    BY DEF Credits!CreditsAreExact
  <2>1. CreditTypes /\ CreditCounts /\ CreditCharge
    BY DEF CreditInv
  <2>2. \A k : k \notin blurred => CleanMonth(k)
    BY DEF CleanMonth
  <2>3. month \in Credits!Months /\ month \in Int /\ None \notin Int
    BY <2>1, MonthsAre DEF CreditTypes, CreditConstants
  <2>4. Counts(groupInfo, month, allowed[month])
    BY <2>1, <2>2, <2>3 DEF CreditCounts
  <2>5. UsedBy(groupInfo, month)
    BY <2>1 DEF CreditTypes
  <2>6. /\ Recorded(groupInfo) \in CreditRow
        /\ groupInfo # None => Recorded(groupInfo) = groupInfo
        /\ groupInfo = None => Recorded(groupInfo).lastUsed = None
    BY <2>5, RecordedIs DEF UsedBy
  <2>7. ~(Recorded(groupInfo).lastUsed # None /\ Recorded(groupInfo).lastUsed > month)
    BY <2>3, <2>5, <2>6 DEF UsedBy, CreditRow
  <2>8. allowed[month] = IF groupInfo # None /\ groupInfo.lastUsed = month
                         THEN groupInfo.current ELSE 0
    BY <2>3, <2>4, <2>6, <2>7 DEF Counts
  <2> QED
    BY <2>1, <2>2, <2>8 DEF CreditCharge
<1> QED
  BY <1>1, <1>2, <1>3, PTL DEF Credits!Spec

\* Whatever the subscriptions of a group allow, of executions, of their history and
\* of requests, only starts and requests that overlap exceed, if both components run
\* as they do (Workflow.can_start_execution, Workflow.purge_history,
\* SubscriptionRateThrottle.allow_request).
THEOREM LimitsAreKept == Admission!Spec /\ Credits!Spec => []LimitsHold
BY AdmissionKeepsLimits, CreditsStayExact, PTL DEF LimitsHold

=============================================================================
