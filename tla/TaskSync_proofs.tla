--------------------------- MODULE TaskSync_proofs ---------------------------
(***************************************************************************)
(* Theorems about TaskSync, for all clusters, configurations and edits,    *)
(* and whatever calls to AWS fail.                                         *)
(*                                                                         *)
(* A request is a sequence of calls, of which any may be the last.  Each   *)
(* operator of the model that takes a world to its outcomes has a lemma on *)
(* what holds of such an outcome, and the lemmas are composed as the       *)
(* operators are.  The schedule half of a request leaves alone what the    *)
(* service half depends on, and the other way round, so that each is       *)
(* followed by itself.                                                     *)
(*                                                                         *)
(* Then theorems about Tasks described by their processes (TaskReports),   *)
(* for any number of requests that overlap, and about the settings of      *)
(* Tasks (TaskSettings), for any that are merged.                          *)
(***************************************************************************)
EXTENDS TaskDefinitions, FiniteSetTheorems, TLAPS

\* The worlds that a request goes through.
Worlds ==
  [ old : TaskRow \cup {None}, task : TaskRow, rule : Schedules \cup {None},
    target : Target \cup {None}, services : [ServiceKey -> Service],
    info : ServiceKey \cup {None}, misled : BOOLEAN, raised : BOOLEAN ]

\* NULL and the Task that is gone are like nothing else.
LEMMA NoneIsApart ==
  /\ None \notin TaskRow /\ None # Deleted /\ Deleted \notin TaskRow
  /\ None \notin ServiceKey /\ None \notin Schedules
  /\ None # TRUE /\ None # FALSE /\ None \notin 0 .. MaxInstances
  <1>1. None \notin TaskRow /\ None # Deleted /\ Deleted \notin TaskRow
    BY RowsAssumption
  <1>2. None \notin ServiceKey
    BY NoneAssumption DEF ServiceKey
  <1>3. None \notin 0 .. MaxInstances
    BY BoundsAssumption
  <1>4. None # TRUE /\ None # FALSE
    BY NoneAssumption, Zenon
  <1> QED BY <1>1, <1>2, <1>3, <1>4, NoneAssumption

LEMMA ActiveScheduleIs ==
  ASSUME NEW t \in TaskRow
  PROVE  /\ ActiveSchedule(t, TRUE) <=>
              /\ t.enabled = TRUE /\ t.passive = FALSE
              /\ t.schedule # None /\ t.scheduleManaged = TRUE
         /\ ActiveSchedule(t, FALSE) <=>
              /\ t.enabled = TRUE /\ t.passive = FALSE
              /\ t.schedule # None /\ t.scheduleManaged # FALSE
  BY NoneIsApart DEF ActiveSchedule, TaskRow, Flag

LEMMA ActiveServiceIs ==
  ASSUME NEW t \in TaskRow
  PROVE  /\ ActiveService(t, TRUE) <=>
              /\ t.enabled = TRUE /\ t.passive = FALSE
              /\ t.count # None /\ t.serviceManaged = TRUE
         /\ ActiveService(t, FALSE) <=>
              /\ t.enabled = TRUE /\ t.passive = FALSE
              /\ t.count # None /\ t.serviceManaged # FALSE
  BY NoneIsApart DEF ActiveService, TaskRow, Flag

-----------------------------------------------------------------------------
(* The schedule half of a request.  It leaves alone what the service half  *)
(* looks at.                                                               *)

SameForService(s, t) ==
  /\ s.enabled = t.enabled /\ s.passive = t.passive /\ s.method = t.method
  /\ s.cluster = t.cluster /\ s.config = t.config /\ s.count = t.count
  /\ s.serviceManaged = t.serviceManaged /\ s.arn = t.arn

ScheduleHalf(w, x) ==
  /\ x.old = None <=> w.old = None
  /\ w.old # None => SameForService(x.old, w.old) /\ x.old.schedule = w.old.schedule
  /\ SameForService(x.task, w.task) /\ x.task.schedule = w.task.schedule
  /\ x.services = w.services /\ x.info = w.info /\ x.misled = w.misled

LEMMA RemoveTargetDoes ==
  ASSUME NEW w \in Worlds, w.old # None, ~w.raised, NEW x \in RemoveTarget(w)
  PROVE  /\ x \in Worlds /\ ScheduleHalf(w, x) /\ x.old # None /\ x.task = w.task
         /\ x.old.rule = w.old.rule /\ x.old.scheduleManaged = w.old.scheduleManaged
         /\ x.rule = w.rule
         /\ ~x.raised => /\ x.old.target = FALSE
                         /\ x.target = IF w.old.target THEN None ELSE w.target
  <1> DEFINE done == [w EXCEPT !.target = None, !.old.target = FALSE]
  <1>1. w.old \in TaskRow
    BY DEF Worlds
  <1>2. \/ ~w.old.target /\ x = w
        \/ w.old.target /\ x = done
        \/ x = Raise(w)
    BY DEF RemoveTarget, Attempt
  <1>3. CASE ~w.old.target /\ x = w
    BY <1>1, <1>3 DEF ScheduleHalf, SameForService, Worlds, TaskRow
  <1>4. CASE w.old.target /\ x = done
    <2>1. x.old = [w.old EXCEPT !.target = FALSE]
      BY <1>1, <1>4 DEF Worlds, TaskRow
    <2>2. x.old \in TaskRow
      BY <1>1, <2>1 DEF TaskRow
    <2>3. x.old # None
      BY <2>2, NoneIsApart
    <2>4. x \in Worlds
      BY <1>4, <2>2 DEF Worlds
    <2>5. /\ x.task = w.task /\ x.services = w.services /\ x.info = w.info
          /\ x.misled = w.misled /\ x.rule = w.rule /\ x.target = None
      BY <1>4 DEF Worlds
    <2>6. /\ SameForService(x.old, w.old) /\ x.old.schedule = w.old.schedule
          /\ x.old.target = FALSE /\ x.old.rule = w.old.rule
          /\ x.old.scheduleManaged = w.old.scheduleManaged
      BY <1>1, <2>1 DEF SameForService, TaskRow
    <2> QED
      BY <1>4, <2>3, <2>4, <2>5, <2>6 DEF ScheduleHalf, SameForService
  <1>5. CASE x = Raise(w)
    <2>1. x \in Worlds
      BY <1>5 DEF Worlds, Raise
    <2> QED
      BY <1>5, <2>1 DEF ScheduleHalf, SameForService, Worlds, Raise
  <1> QED BY <1>2, <1>3, <1>4, <1>5

LEMMA DeleteRuleDoes ==
  ASSUME NEW w \in Worlds, w.old # None, ~w.raised, NEW x \in DeleteRule(w)
  PROVE  /\ x \in Worlds /\ ScheduleHalf(w, x) /\ x.old # None /\ x.task = w.task
         /\ x.old.target = w.old.target /\ x.target = w.target
         /\ ~x.raised => /\ x.old.rule = FALSE
                         /\ x.rule = IF w.old.rule THEN None ELSE w.rule
                         /\ x.old.scheduleManaged =
                              IF w.old.rule THEN None ELSE w.old.scheduleManaged
  <1> DEFINE done == [w EXCEPT !.rule = None, !.old.rule = FALSE, !.old.scheduleManaged = None]
  <1>1. w.old \in TaskRow
    BY DEF Worlds
  <1>2. \/ ~w.old.rule /\ x = w
        \/ w.old.rule /\ x = done
        \/ x = Raise(w)
    BY DEF DeleteRule, Attempt
  <1>3. CASE ~w.old.rule /\ x = w
    BY <1>1, <1>3 DEF ScheduleHalf, SameForService, Worlds, TaskRow
  <1>4. CASE w.old.rule /\ x = done
    <2>1. x.old = [w.old EXCEPT !.rule = FALSE, !.scheduleManaged = None]
      BY <1>1, <1>4 DEF Worlds, TaskRow
    <2>2. x.old \in TaskRow
      BY <1>1, <2>1 DEF TaskRow, Flag
    <2>3. x.old # None
      BY <2>2, NoneIsApart
    <2>4. x \in Worlds
      BY <1>4, <2>2 DEF Worlds
    <2>5. /\ x.task = w.task /\ x.services = w.services /\ x.info = w.info
          /\ x.misled = w.misled /\ x.rule = None /\ x.target = w.target
      BY <1>4 DEF Worlds
    <2>6. /\ SameForService(x.old, w.old) /\ x.old.schedule = w.old.schedule
          /\ x.old.rule = FALSE /\ x.old.target = w.old.target
          /\ x.old.scheduleManaged = None
      BY <1>1, <2>1 DEF SameForService, TaskRow
    <2> QED
      BY <1>4, <2>3, <2>4, <2>5, <2>6 DEF ScheduleHalf, SameForService
  <1>5. CASE x = Raise(w)
    <2>1. x \in Worlds
      BY <1>5 DEF Worlds, Raise
    <2> QED
      BY <1>5, <2>1 DEF ScheduleHalf, SameForService, Worlds, Raise
  <1> QED BY <1>2, <1>3, <1>4, <1>5

LEMMA PutRuleDoes ==
  ASSUME NEW w \in Worlds, w.task.schedule # None, ~w.raised, NEW x \in PutRule(w)
  PROVE  /\ x \in Worlds /\ ScheduleHalf(w, x) /\ x.old = w.old
         /\ x.task.scheduleManaged = w.task.scheduleManaged
         /\ ~x.raised => x.rule = w.task.schedule /\ x.task.rule = TRUE
  <1> DEFINE done == [w EXCEPT !.rule = w.task.schedule, !.task.rule = TRUE]
  <1>1. w.task \in TaskRow
    BY DEF Worlds
  <1>2. x = done \/ x = Raise(w)
    BY DEF PutRule, Attempt
  <1>3. CASE x = done
    <2>1. x.task = [w.task EXCEPT !.rule = TRUE]
      BY <1>1, <1>3 DEF Worlds, TaskRow
    <2>2. x.task \in TaskRow
      BY <1>1, <2>1 DEF TaskRow
    <2>3. w.task.schedule \in Schedules
      BY <1>1 DEF TaskRow
    <2>4. x \in Worlds
      BY <1>3, <2>2, <2>3 DEF Worlds
    <2>5. /\ x.old = w.old /\ x.services = w.services /\ x.info = w.info
          /\ x.misled = w.misled /\ x.rule = w.task.schedule
      BY <1>3 DEF Worlds
    <2>6. /\ SameForService(x.task, w.task) /\ x.task.schedule = w.task.schedule
          /\ x.task.rule = TRUE /\ x.task.scheduleManaged = w.task.scheduleManaged
      BY <1>1, <2>1 DEF SameForService, TaskRow
    <2> QED
      BY <2>4, <2>5, <2>6 DEF ScheduleHalf, SameForService
  <1>4. CASE x = Raise(w)
    <2>1. x \in Worlds
      BY <1>4 DEF Worlds, Raise
    <2> QED
      BY <1>4, <2>1 DEF ScheduleHalf, SameForService, Worlds, Raise
  <1> QED BY <1>2, <1>3, <1>4

LEMMA PutTargetDoes ==
  ASSUME NEW w \in Worlds, ~w.raised, NEW x \in PutTarget(w)
  PROVE  /\ x \in Worlds /\ ScheduleHalf(w, x) /\ x.old = w.old
         /\ x.rule = w.rule /\ x.task.rule = w.task.rule
         /\ ~x.raised => /\ x.target = [cluster |-> w.task.cluster, config |-> w.task.config]
                         /\ x.task.target = TRUE /\ x.task.scheduleManaged = TRUE
  <1> DEFINE done == [w EXCEPT !.target = [cluster |-> w.task.cluster,
                                           config  |-> w.task.config],
                               !.task.target = TRUE, !.task.scheduleManaged = TRUE]
  <1>1. w.task \in TaskRow
    BY DEF Worlds
  <1>2. x = done \/ x = Raise(w)
    BY DEF PutTarget, Attempt
  <1>3. CASE x = done
    <2>1. x.task = [w.task EXCEPT !.target = TRUE, !.scheduleManaged = TRUE]
      BY <1>1, <1>3 DEF Worlds, TaskRow
    <2>2. x.task \in TaskRow
      BY <1>1, <2>1 DEF TaskRow, Flag
    <2>3. [cluster |-> w.task.cluster, config |-> w.task.config] \in Target
      BY <1>1 DEF TaskRow, Target
    <2>4. x \in Worlds
      BY <1>3, <2>2, <2>3 DEF Worlds
    <2>5. /\ x.old = w.old /\ x.services = w.services /\ x.info = w.info
          /\ x.misled = w.misled /\ x.rule = w.rule
          /\ x.target = [cluster |-> w.task.cluster, config |-> w.task.config]
      BY <1>3 DEF Worlds
    <2>6. /\ SameForService(x.task, w.task) /\ x.task.schedule = w.task.schedule
          /\ x.task.rule = w.task.rule
          /\ x.task.target = TRUE /\ x.task.scheduleManaged = TRUE
      BY <1>1, <2>1 DEF SameForService, TaskRow
    <2> QED
      BY <2>4, <2>5, <2>6 DEF ScheduleHalf, SameForService
  <1>4. CASE x = Raise(w)
    <2>1. x \in Worlds
      BY <1>4 DEF Worlds, Raise
    <2> QED
      BY <1>4, <2>1 DEF ScheduleHalf, SameForService, Worlds, Raise
  <1> QED BY <1>2, <1>3, <1>4

LEMMA HalvesCompose ==
  ASSUME NEW w, NEW v, NEW x, ScheduleHalf(w, v), ScheduleHalf(v, x)
  PROVE  ScheduleHalf(w, x)
  BY DEF ScheduleHalf, SameForService

LEMMA TeardownScheduleDoes ==
  ASSUME NEW w \in Worlds, w.old # None, ~w.raised, NEW x \in TeardownSchedule(w)
  PROVE  /\ x \in Worlds /\ ScheduleHalf(w, x) /\ x.old # None /\ x.task = w.task
         /\ w.old.method = "AWS ECS" /\ w.old.scheduleManaged # FALSE /\ ~x.raised
            => /\ x.old.rule = FALSE /\ x.old.target = FALSE
               /\ x.target = IF w.old.target THEN None ELSE w.target
               /\ x.rule = IF w.old.rule THEN None ELSE w.rule
               /\ x.old.scheduleManaged = IF w.old.rule THEN None ELSE w.old.scheduleManaged
  <1>1. CASE w.old.method # "AWS ECS" \/ w.old.scheduleManaged = FALSE
    <2>1. w.old \in TaskRow
      BY DEF Worlds
    <2>2. x = [w EXCEPT !.old.rule = FALSE, !.old.target = FALSE]
      BY <1>1 DEF TeardownSchedule
    <2>3. x.old = [w.old EXCEPT !.rule = FALSE, !.target = FALSE]
      BY <2>1, <2>2 DEF Worlds, TaskRow
    <2>4. x.old \in TaskRow
      BY <2>1, <2>3 DEF TaskRow
    <2>5. x \in Worlds
      BY <2>2, <2>4 DEF Worlds
    <2>6. /\ x.task = w.task /\ x.services = w.services /\ x.info = w.info
          /\ x.misled = w.misled
      BY <2>2 DEF Worlds
    <2>7. SameForService(x.old, w.old) /\ x.old.schedule = w.old.schedule
      BY <2>1, <2>3 DEF SameForService, TaskRow
    <2>8. x.old # None
      BY <2>4, NoneIsApart
    <2> QED
      BY <1>1, <2>5, <2>6, <2>7, <2>8 DEF ScheduleHalf, SameForService
  <1>2. CASE ~(w.old.method # "AWS ECS" \/ w.old.scheduleManaged = FALSE)
    <2>1. PICK v \in RemoveTarget(w) : IF v.raised THEN x = v ELSE x \in DeleteRule(v)
      BY <1>2 DEF TeardownSchedule, Then
    <2>2. /\ v \in Worlds /\ ScheduleHalf(w, v) /\ v.old # None /\ v.task = w.task
          /\ v.old.rule = w.old.rule /\ v.old.scheduleManaged = w.old.scheduleManaged
          /\ v.rule = w.rule
          /\ ~v.raised => /\ v.old.target = FALSE
                          /\ v.target = IF w.old.target THEN None ELSE w.target
      BY RemoveTargetDoes
    <2>3. CASE v.raised
      BY <2>1, <2>2, <2>3
    <2>4. CASE ~v.raised
      <3>1. x \in DeleteRule(v)
        BY <2>1, <2>4
      <3>2. /\ x \in Worlds /\ ScheduleHalf(v, x) /\ x.old # None /\ x.task = v.task
            /\ x.old.target = v.old.target /\ x.target = v.target
            /\ ~x.raised => /\ x.old.rule = FALSE
                            /\ x.rule = IF v.old.rule THEN None ELSE v.rule
                            /\ x.old.scheduleManaged =
                                 IF v.old.rule THEN None ELSE v.old.scheduleManaged
        BY <2>2, <2>4, <3>1, DeleteRuleDoes
      <3>3. ScheduleHalf(w, x)
        BY <2>2, <3>2, HalvesCompose
      <3> QED
        BY <2>2, <2>4, <3>2, <3>3
    <2> QED BY <2>3, <2>4
  <1> QED BY <1>1, <1>2

LEMMA SetupScheduleDoes ==
  ASSUME NEW w \in Worlds, w.task.schedule # None, ~w.raised, NEW x \in SetupSchedule(w)
  PROVE  /\ x \in Worlds /\ ScheduleHalf(w, x)
         /\ ~x.raised => /\ x.rule = w.task.schedule
                         /\ x.target = [cluster |-> w.task.cluster, config |-> w.task.config]
                         /\ x.task.rule = TRUE /\ x.task.target = TRUE
                         /\ x.task.scheduleManaged = TRUE
  <1>1. PICK v \in PutRule(w) : IF v.raised THEN x = v ELSE x \in PutTarget(v)
    BY DEF SetupSchedule, Then
  <1>2. /\ v \in Worlds /\ ScheduleHalf(w, v)
        /\ (~v.raised => v.rule = w.task.schedule /\ v.task.rule = TRUE)
    BY PutRuleDoes
  <1>3. CASE v.raised
    BY <1>1, <1>2, <1>3
  <1>4. CASE ~v.raised
    <2>1. x \in PutTarget(v)
      BY <1>1, <1>4
    <2>2. /\ x \in Worlds /\ ScheduleHalf(v, x) /\ x.rule = v.rule /\ x.task.rule = v.task.rule
          /\ ~x.raised => /\ x.target = [cluster |-> v.task.cluster, config |-> v.task.config]
                          /\ x.task.target = TRUE /\ x.task.scheduleManaged = TRUE
      BY <1>2, <1>4, <2>1, PutTargetDoes
    <2>3. ScheduleHalf(w, x)
      BY <1>2, <2>2, HalvesCompose
    <2>4. v.task.cluster = w.task.cluster /\ v.task.config = w.task.config
      BY <1>2 DEF ScheduleHalf, SameForService
    <2> QED BY <1>2, <1>4, <2>2, <2>3, <2>4
  <1> QED BY <1>3, <1>4

\* When a request touches the schedule of a Task that it creates, and of one that
\* it edits.
LEMMA ScheduleChangesIs ==
  ASSUME NEW task \in TaskRow
  PROVE  /\ ScheduleChanges(None, task) <=> ActiveSchedule(task, FALSE)
         /\ \A old \in TaskRow :
              ScheduleChanges(old, task)
                <=> \/ ~(ActiveSchedule(task, FALSE) <=> ActiveSchedule(old, TRUE))
                    \/ /\ ActiveSchedule(task, FALSE)
                       /\ \/ task.schedule # old.schedule
                          \/ task.method # "AWS ECS" \/ old.method # "AWS ECS"
                          \/ task.cluster # old.cluster \/ task.config # old.config
  <1>1. ActiveSchedule(task, FALSE) \in BOOLEAN
    BY DEF ActiveSchedule
  <1>2. ScheduleChanges(None, task) <=> ActiveSchedule(task, FALSE)
    <2>1. MayReschedule(None, task) = ActiveSchedule(task, FALSE)
      BY DEF MayReschedule
    <2>2. MayReschedule(None, task) # None
      BY <1>1, <2>1, NoneIsApart
    <2> QED BY <2>1, <2>2 DEF ScheduleChanges
  <1>3. ASSUME NEW old \in TaskRow
        PROVE  ScheduleChanges(old, task)
                <=> \/ ~(ActiveSchedule(task, FALSE) <=> ActiveSchedule(old, TRUE))
                    \/ /\ ActiveSchedule(task, FALSE)
                       /\ \/ task.schedule # old.schedule
                          \/ task.method # "AWS ECS" \/ old.method # "AWS ECS"
                          \/ task.cluster # old.cluster \/ task.config # old.config
    <2>1. old # None
      BY NoneIsApart
    <2>2. ActiveSchedule(old, TRUE) \in BOOLEAN
      BY DEF ActiveSchedule
    <2>3. CASE ~(ActiveSchedule(task, FALSE) <=> ActiveSchedule(old, TRUE))
      <3>1. MayReschedule(old, task) = TRUE
        BY <1>1, <2>1, <2>2, <2>3 DEF MayReschedule
      <3> QED BY <2>3, <3>1, NoneIsApart DEF ScheduleChanges
    <2>4. CASE ~ActiveSchedule(task, FALSE) /\ ~ActiveSchedule(old, TRUE)
      <3>1. MayReschedule(old, task) = FALSE
        BY <1>1, <2>1, <2>2, <2>4 DEF MayReschedule
      <3> QED BY <2>4, <3>1, NoneIsApart DEF ScheduleChanges
    <2>5. CASE ActiveSchedule(task, FALSE) /\ ActiveSchedule(old, TRUE)
      <3>1. MayReschedule(old, task) = IF task.schedule # old.schedule THEN TRUE ELSE None
        BY <1>1, <2>1, <2>2, <2>5 DEF MayReschedule
      <3> QED BY <2>5, <3>1, NoneIsApart DEF ScheduleChanges
    <2> QED BY <1>1, <2>2, <2>3, <2>4, <2>5
  <1> QED BY <1>2, <1>3

\* What the row keeps of a schedule that was removed.
KeepSchedule(v) ==
  [v EXCEPT !.task.rule = v.old.rule, !.task.target = v.old.target,
            !.task.scheduleManaged = IF @ = FALSE THEN @ ELSE None]

LEMMA KeepScheduleDoes ==
  ASSUME NEW v \in Worlds, v.old # None, NEW x, x = KeepSchedule(v)
  PROVE  /\ x \in Worlds /\ ScheduleHalf(v, x) /\ x.raised = v.raised
         /\ x.rule = v.rule /\ x.target = v.target
         /\ x.task.scheduleManaged # TRUE
  <1>1. v.old \in TaskRow /\ v.task \in TaskRow
    BY DEF Worlds
  <1> DEFINE flag == IF v.task.scheduleManaged = FALSE THEN FALSE ELSE None
  <1>2. x.task = [v.task EXCEPT !.rule = v.old.rule, !.target = v.old.target,
                                !.scheduleManaged = flag]
    BY <1>1 DEF KeepSchedule, Worlds, TaskRow
  <1>3. /\ x.old = v.old /\ x.rule = v.rule /\ x.target = v.target /\ x.services = v.services
        /\ x.info = v.info /\ x.misled = v.misled /\ x.raised = v.raised
    BY DEF KeepSchedule, Worlds
  <1>4. x.task.scheduleManaged = flag
    BY <1>1, <1>2 DEF TaskRow
  <1>5. flag \in Flag /\ flag # TRUE
    BY NoneIsApart DEF Flag
  <1> HIDE DEF flag
  <1>6. v.old.rule \in BOOLEAN /\ v.old.target \in BOOLEAN
    BY <1>1 DEF TaskRow
  <1>7. x.task \in TaskRow
    BY <1>1, <1>2, <1>5, <1>6 DEF TaskRow
  <1>8. x \in Worlds
    BY <1>7 DEF Worlds, KeepSchedule
  <1>9. SameForService(x.task, v.task) /\ x.task.schedule = v.task.schedule
    BY <1>1, <1>2 DEF SameForService, TaskRow
  <1> QED
    BY <1>3, <1>4, <1>5, <1>8, <1>9 DEF ScheduleHalf, SameForService

\* x is what a teardown, or a setup, makes of w.
ScheduleTornDown(w, x) ==
  /\ w.old # None /\ ActiveSchedule(w.old, TRUE) /\ ~ActiveSchedule(w.task, FALSE)
  /\ \E v \in TeardownSchedule(w) :
       IF v.raised THEN x = v
       ELSE \E u \in TeardownSchedule(v) :
              IF u.raised THEN x = u ELSE x = KeepSchedule(u)

ScheduleSetUp(w, x) ==
  /\ ActiveSchedule(w.task, FALSE)
  /\ \E v \in IF w.old # None /\ ActiveSchedule(w.old, TRUE)
              THEN TeardownSchedule(w) ELSE {w} :
       IF v.raised THEN x = v ELSE x \in SetupSchedule(v)

LEMMA SyncScheduleSteps ==
  ASSUME NEW w \in Worlds, NEW x \in SyncSchedule(w)
  PROVE  \/ ~ScheduleChanges(w.old, w.task) /\ x = w
         \/ x = Raise(w) /\ ~Supports(w.task)
         \/ ScheduleTornDown(w, x)
         \/ ScheduleSetUp(w, x)
  <1>1. CASE ~ScheduleChanges(w.old, w.task)
    BY <1>1 DEF SyncSchedule
  <1>2. CASE ScheduleChanges(w.old, w.task) /\ ~ActiveSchedule(w.task, FALSE)
    <2>1. w.old # None /\ ActiveSchedule(w.old, TRUE)
      BY <1>2, ScheduleChangesIs DEF Worlds
    <2>2. x \in Then(Then(TeardownSchedule(w), TeardownSchedule), LAMBDA u : {KeepSchedule(u)})
      BY <1>2, <2>1 DEF SyncSchedule, KeepSchedule
    <2> QED BY <1>2, <2>1, <2>2 DEF Then, ScheduleTornDown
  <1>3. CASE ScheduleChanges(w.old, w.task) /\ ActiveSchedule(w.task, FALSE)
    BY <1>3 DEF SyncSchedule, Then, ScheduleSetUp
  <1> QED BY <1>1, <1>2, <1>3

\* The schedule half of a request keeps types and leaves the service half alone.
LEMMA SyncScheduleKeeps ==
  ASSUME NEW w \in Worlds, ~w.raised, NEW x \in SyncSchedule(w)
  PROVE  x \in Worlds /\ ScheduleHalf(w, x)
  <1>1. ScheduleHalf(w, w)
    BY DEF ScheduleHalf, SameForService
  <1>2. CASE x = w
    BY <1>1, <1>2
  <1>3. CASE x = Raise(w)
    BY <1>3 DEF Raise, Worlds, ScheduleHalf, SameForService
  <1>4. CASE ScheduleTornDown(w, x)
    <2>1. PICK v \in TeardownSchedule(w) :
                  IF v.raised THEN x = v
                  ELSE \E u \in TeardownSchedule(v) :
                         IF u.raised THEN x = u ELSE x = KeepSchedule(u)
      BY <1>4 DEF ScheduleTornDown
    <2>2. v \in Worlds /\ ScheduleHalf(w, v) /\ v.old # None
      BY <1>4, TeardownScheduleDoes DEF ScheduleTornDown
    <2>3. CASE ~v.raised
      <3>1. PICK u \in TeardownSchedule(v) : IF u.raised THEN x = u ELSE x = KeepSchedule(u)
        BY <2>1, <2>3
      <3>2. u \in Worlds /\ ScheduleHalf(v, u) /\ u.old # None
        BY <2>2, <2>3, TeardownScheduleDoes
      <3>3. x \in Worlds /\ (x = u \/ ScheduleHalf(u, x))
        BY <3>1, <3>2, KeepScheduleDoes
      <3> QED BY <2>2, <3>2, <3>3, HalvesCompose
    <2> QED BY <2>1, <2>2, <2>3
  <1>5. CASE ScheduleSetUp(w, x)
    <2>1. PICK v \in IF w.old # None /\ ActiveSchedule(w.old, TRUE)
                     THEN TeardownSchedule(w) ELSE {w} :
                  IF v.raised THEN x = v ELSE x \in SetupSchedule(v)
      BY <1>5 DEF ScheduleSetUp
    <2>2. v \in Worlds /\ ScheduleHalf(w, v) /\ v.task = w.task
      BY <1>1, <2>1, TeardownScheduleDoes
    <2>3. v.task.schedule # None
      BY <1>5, <2>2, ActiveScheduleIs DEF Worlds, ScheduleSetUp
    <2>4. CASE ~v.raised
      <3>1. x \in SetupSchedule(v)
        BY <2>1, <2>4
      <3>2. x \in Worlds /\ ScheduleHalf(v, x)
        BY <2>2, <2>3, <2>4, <3>1, SetupScheduleDoes
      <3> QED BY <2>2, <3>2, HalvesCompose
    <2> QED BY <2>1, <2>2, <2>4
  <1>6. x = w \/ x = Raise(w) \/ ScheduleTornDown(w, x) \/ ScheduleSetUp(w, x)
    BY SyncScheduleSteps
  <1> QED BY <1>2, <1>3, <1>4, <1>5, <1>6

-----------------------------------------------------------------------------
(* What it makes of the rule.                                              *)

\* The rule and its target are as a row says; nothing differs between two rows that a
\* setup of the schedule would change.
ScheduleMatches(task, r, t) ==
  /\ r = IF ActiveSchedule(task, TRUE) THEN task.schedule ELSE None
  /\ t = IF ActiveSchedule(task, TRUE)
         THEN [cluster |-> task.cluster, config |-> task.config] ELSE None

RuleIsNamed(task) == ActiveSchedule(task, TRUE) => task.rule = TRUE /\ task.target = TRUE

SameSchedule(old, task) ==
  IF old = None THEN ~ActiveSchedule(task, TRUE)
  ELSE \/ ~ActiveSchedule(old, TRUE) /\ ~ActiveSchedule(task, TRUE)
       \/ /\ ActiveSchedule(old, TRUE) /\ ActiveSchedule(task, TRUE)
          /\ old.schedule = task.schedule
          /\ old.cluster = task.cluster /\ old.config = task.config

\* A world that a request starts with, as far as the schedule goes.
ScheduleReady(w) ==
  /\ w \in Worlds /\ ~w.raised /\ w.task.method = "AWS ECS"
  /\ w.old # None =>
       /\ w.old.method = "AWS ECS" /\ RuleIsNamed(w.old)
       /\ w.task.rule = w.old.rule /\ w.task.target = w.old.target
       /\ ActiveSchedule(w.old, TRUE) /\ ActiveSchedule(w.task, FALSE)
          => w.task.scheduleManaged = TRUE

\* When the schedule half succeeds, the rule is as the row to be saved says, or it
\* was not touched because nothing about it differs.
LEMMA SyncScheduleDoes ==
  ASSUME NEW w, ScheduleReady(w), NEW x \in SyncSchedule(w), ~x.raised
  PROVE  /\ RuleIsNamed(x.task)
         /\ \/ ScheduleMatches(x.task, x.rule, x.target)
            \/ x = w /\ SameSchedule(w.old, w.task)
  <1>1. w \in Worlds /\ w.task \in TaskRow /\ ~w.raised
    BY DEF ScheduleReady, Worlds
  <1>2. x \in Worlds /\ ScheduleHalf(w, x) /\ x.task \in TaskRow
    BY <1>1, SyncScheduleKeeps DEF Worlds
  <1>3. CASE ~ScheduleChanges(w.old, w.task) /\ x = w
    <2>1. CASE w.old = None
      BY <1>1, <1>3, <2>1, ScheduleChangesIs, ActiveScheduleIs DEF SameSchedule, RuleIsNamed
    <2>2. CASE w.old # None
      <3>1. w.old \in TaskRow
        BY <1>1, <2>2 DEF Worlds
      <3>2. CASE ~ActiveSchedule(w.task, FALSE) /\ ~ActiveSchedule(w.old, TRUE)
        BY <1>1, <1>3, <2>2, <3>2, ActiveScheduleIs DEF SameSchedule, RuleIsNamed
      <3>3. CASE ActiveSchedule(w.task, FALSE) /\ ActiveSchedule(w.old, TRUE)
        <4>1. w.task.scheduleManaged = TRUE
          BY <2>2, <3>3 DEF ScheduleReady
        <4>2. ActiveSchedule(w.task, TRUE)
          BY <1>1, <3>3, <4>1, NoneIsApart, ActiveScheduleIs
        <4>3. /\ w.task.schedule = w.old.schedule
              /\ w.task.cluster = w.old.cluster /\ w.task.config = w.old.config
          BY <1>1, <1>3, <3>1, <3>3, ScheduleChangesIs
        <4>4. w.task.rule = TRUE /\ w.task.target = TRUE
          BY <2>2, <3>3 DEF ScheduleReady, RuleIsNamed
        <4> QED BY <1>3, <2>2, <3>3, <4>2, <4>3, <4>4 DEF SameSchedule, RuleIsNamed
      <3> QED BY <1>1, <1>3, <3>1, <3>2, <3>3, ScheduleChangesIs
    <2> QED BY <2>1, <2>2
  <1>4. CASE x = Raise(w)
    BY <1>1, <1>4 DEF Raise, Worlds
  <1>5. CASE ScheduleTornDown(w, x)
    <2>1. PICK v \in TeardownSchedule(w) :
                  IF v.raised THEN x = v
                  ELSE \E u \in TeardownSchedule(v) :
                         IF u.raised THEN x = u ELSE x = KeepSchedule(u)
      BY <1>5 DEF ScheduleTornDown
    <2>2. ~v.raised
      BY <2>1
    <2>3. w.old \in TaskRow /\ w.old.method = "AWS ECS" /\ w.old.rule = TRUE /\ w.old.target = TRUE
      BY <1>1, <1>5 DEF Worlds, ScheduleReady, RuleIsNamed, ScheduleTornDown
    <2>4. w.old # None /\ w.old.scheduleManaged # FALSE
      BY <1>5, <2>3, ActiveScheduleIs DEF ScheduleTornDown
    <2>5. /\ v \in Worlds /\ ScheduleHalf(w, v) /\ v.old # None
          /\ v.old.rule = FALSE /\ v.old.target = FALSE
          /\ v.target = None /\ v.rule = None /\ v.old.scheduleManaged = None
      <3>1. /\ v \in Worlds /\ ScheduleHalf(w, v) /\ v.old # None
            /\ v.old.rule = FALSE /\ v.old.target = FALSE
            /\ v.target = IF w.old.target THEN None ELSE w.target
            /\ v.rule = IF w.old.rule THEN None ELSE w.rule
            /\ v.old.scheduleManaged = IF w.old.rule THEN None ELSE w.old.scheduleManaged
        <4>1. w \in Worlds /\ ~w.raised /\ w.old # None
          BY <1>1, <2>4
        <4>2. v \in TeardownSchedule(w)
          BY <2>1
        <4>3. /\ v \in Worlds /\ ScheduleHalf(w, v) /\ v.old # None
              /\ w.old.method = "AWS ECS" /\ w.old.scheduleManaged # FALSE /\ ~v.raised
                   => /\ v.old.rule = FALSE /\ v.old.target = FALSE
                      /\ v.target = IF w.old.target THEN None ELSE w.target
                      /\ v.rule = IF w.old.rule THEN None ELSE w.rule
                      /\ v.old.scheduleManaged =
                           IF w.old.rule THEN None ELSE w.old.scheduleManaged
          BY <4>1, <4>2, TeardownScheduleDoes
        <4> QED BY <2>2, <2>3, <2>4, <4>3
      <3> QED BY <2>3, <3>1
    <2>6. PICK u \in TeardownSchedule(v) : IF u.raised THEN x = u ELSE x = KeepSchedule(u)
      BY <2>1, <2>2
    <2>7. ~u.raised
      BY <2>6
    <2>8. v.old.method = "AWS ECS"
      BY <1>5, <2>3, <2>5 DEF ScheduleHalf, SameForService, ScheduleTornDown
    <2>9. u \in Worlds /\ u.old # None /\ u.target = None /\ u.rule = None
      BY <2>2, <2>5, <2>7, <2>8, NoneIsApart, TeardownScheduleDoes
    <2>10. x.target = None /\ x.rule = None /\ x.task.scheduleManaged # TRUE
      BY <2>6, <2>7, <2>9, KeepScheduleDoes
    <2>11. ~ActiveSchedule(x.task, TRUE)
      BY <1>2, <2>10, ActiveScheduleIs
    <2> QED BY <2>10, <2>11 DEF ScheduleMatches, RuleIsNamed
  <1>6. CASE ScheduleSetUp(w, x)
    <2>1. PICK v \in IF w.old # None /\ ActiveSchedule(w.old, TRUE)
                     THEN TeardownSchedule(w) ELSE {w} :
                  IF v.raised THEN x = v ELSE x \in SetupSchedule(v)
      BY <1>6 DEF ScheduleSetUp
    <2>2. v \in Worlds /\ v.task = w.task
      BY <1>1, <2>1, TeardownScheduleDoes
    <2>3. v.task.schedule # None /\ ~v.raised /\ x \in SetupSchedule(v)
      BY <1>1, <1>6, <2>1, <2>2, ActiveScheduleIs DEF ScheduleSetUp
    <2>4. /\ x.rule = w.task.schedule
          /\ x.target = [cluster |-> w.task.cluster, config |-> w.task.config]
          /\ x.task.rule = TRUE /\ x.task.target = TRUE /\ x.task.scheduleManaged = TRUE
      <3>1. ~x.raised =>
              /\ x.rule = v.task.schedule
              /\ x.target = [cluster |-> v.task.cluster, config |-> v.task.config]
              /\ x.task.rule = TRUE /\ x.task.target = TRUE /\ x.task.scheduleManaged = TRUE
        BY <2>2, <2>3, SetupScheduleDoes
      <3> QED BY <2>2, <3>1
    <2>5. /\ x.task.schedule = w.task.schedule /\ x.task.cluster = w.task.cluster
          /\ x.task.config = w.task.config /\ x.task.enabled = w.task.enabled
          /\ x.task.passive = w.task.passive
      BY <1>2 DEF ScheduleHalf, SameForService
    <2>6. ActiveSchedule(x.task, TRUE)
      BY <1>1, <1>2, <1>6, <2>4, <2>5, ActiveScheduleIs DEF ScheduleSetUp
    <2> QED BY <2>4, <2>5, <2>6 DEF ScheduleMatches, RuleIsNamed
  <1> QED BY <1>1, <1>3, <1>4, <1>5, <1>6, SyncScheduleSteps

-----------------------------------------------------------------------------
(* The service half of a request.  It leaves alone what the schedule half  *)
(* has settled, and starts a service only at its end.                      *)

ActiveIn(s) == { key \in ServiceKey : s[key].status = "ACTIVE" }

SameButArn(s, t) ==
  /\ s.enabled = t.enabled /\ s.passive = t.passive /\ s.method = t.method
  /\ s.cluster = t.cluster /\ s.config = t.config /\ s.count = t.count
  /\ s.serviceManaged = t.serviceManaged

\* What every step does but the one that starts a service.
ServiceStep(w, x) ==
  /\ x.old = None <=> w.old = None
  /\ w.old # None => SameButArn(x.old, w.old)
  /\ x.task = w.task /\ x.rule = w.rule /\ x.target = w.target
  /\ x.misled => w.misled \/ DescribeFails
  /\ w.misled => x.misled
  /\ ActiveIn(x.services) \subseteq ActiveIn(w.services)

LEMMA StepsCompose ==
  ASSUME NEW w, NEW v, NEW x, ServiceStep(w, v), ServiceStep(v, x)
  PROVE  ServiceStep(w, x)
  BY DEF ServiceStep, SameButArn

LEMMA RaiseIsAStep ==
  ASSUME NEW w \in Worlds
  PROVE  Raise(w) \in Worlds /\ ServiceStep(w, Raise(w)) /\ Raise(w).raised
  BY DEF Raise, Worlds, ServiceStep, SameButArn

\* The ARN that is asked for, and whether a service answers to it.
FindKey(task, arn) ==
  IF arn # None THEN arn ELSE IF task.arn # None THEN task.arn ELSE <<task.cluster, 0>>

Hit(w, task, key) == key[1] = task.cluster /\ w.services[key] # Absent

LEMMA FindDoes ==
  ASSUME NEW w \in Worlds, NEW task \in TaskRow, NEW arn \in ServiceKey \cup {None},
         NEW x \in Find(w, task, arn)
  PROVE  /\ x \in Worlds /\ ServiceStep(w, x) /\ x.raised = w.raised
         /\ x.old = w.old /\ x.services = w.services
         /\ FindKey(task, arn) \in ServiceKey
         /\ ~x.misled => x.info = IF Hit(w, task, FindKey(task, arn))
                                  THEN FindKey(task, arn) ELSE None
  <1> DEFINE key == FindKey(task, arn)
             hit == Hit(w, task, key)
             found == IF hit THEN key ELSE None
  <1>1. key \in ServiceKey
    <2>1. <<task.cluster, 0>> \in ServiceKey /\ task.arn \in ServiceKey \cup {None}
      BY BoundsAssumption DEF TaskRow, ServiceKey
    <2> QED BY <2>1 DEF FindKey
  <1>2. found \in ServiceKey \cup {None}
    BY <1>1
  <1>3. \/ x = [w EXCEPT !.info = found]
        \/ DescribeFails /\ x = [w EXCEPT !.info = None, !.misled = TRUE]
    BY DEF Find, FindKey, Hit
  <1> HIDE DEF found
  <1>4. CASE x = [w EXCEPT !.info = found]
    <2>1. x \in Worlds
      BY <1>2, <1>4 DEF Worlds
    <2>2. x.info = found /\ x.old = w.old /\ x.services = w.services /\ x.raised = w.raised
      BY <1>4 DEF Worlds
    <2>3. ServiceStep(w, x)
      BY <1>4 DEF Worlds, ServiceStep, SameButArn
    <2> QED BY <1>1, <2>1, <2>2, <2>3 DEF found
  <1>5. CASE DescribeFails /\ x = [w EXCEPT !.info = None, !.misled = TRUE]
    <2>1. x \in Worlds
      BY <1>5 DEF Worlds
    <2>2. x.misled /\ x.old = w.old /\ x.services = w.services /\ x.raised = w.raised
      BY <1>5 DEF Worlds
    <2>3. ServiceStep(w, x)
      BY <1>5 DEF Worlds, ServiceStep, SameButArn
    <2> QED BY <1>1, <2>1, <2>2, <2>3
  <1> QED BY <1>3, <1>4, <1>5

LEMMA IdleIsAService ==
  ASSUME NEW s \in [ServiceKey -> Service], NEW key \in ServiceKey,
         NEW status \in { "absent", "DRAINING", "INACTIVE" }
  PROVE  /\ [s EXCEPT ![key] = Idle(status)] \in [ServiceKey -> Service]
         /\ ActiveIn([s EXCEPT ![key] = Idle(status)]) = ActiveIn(s) \ {key}
  <1>1. Idle(status) \in Service
    BY DEF Service
  <1>2. Idle(status).status = status
    BY DEF Idle
  <1> QED BY <1>1, <1>2 DEF ActiveIn

LEMMA DeleteServiceDoes ==
  ASSUME NEW w \in Worlds, ~w.raised, NEW key \in ServiceKey, NEW x \in DeleteService(w, key)
  PROVE  /\ x \in Worlds /\ ServiceStep(w, x) /\ x.old = w.old /\ x.info = w.info
         /\ x.misled = w.misled
         /\ ~x.raised => key \notin ActiveIn(x.services)
  <1>1. CASE x = Raise(w)
    BY <1>1, RaiseIsAStep DEF Raise, Worlds
  <1>2. CASE x # Raise(w)
    <2>1. PICK status \in IF StatusOf(w, key) = "ACTIVE"
                          THEN { "DRAINING", "INACTIVE" } ELSE { StatusOf(w, key) } :
            x = [w EXCEPT !.services[key] = Idle(status)]
      BY <1>2 DEF DeleteService, Attempt
    <2>2. w.services \in [ServiceKey -> Service]
      BY DEF Worlds
    <2>3. StatusOf(w, key) \in { "ACTIVE", "absent", "DRAINING", "INACTIVE" }
      BY <2>2 DEF StatusOf, Service, Idle
    <2>4. status \in { "absent", "DRAINING", "INACTIVE" }
      BY <2>1, <2>3
    <2>5. x.services = [w.services EXCEPT ![key] = Idle(status)]
      BY <2>1 DEF Worlds
    <2>6. /\ x.services \in [ServiceKey -> Service]
          /\ ActiveIn(x.services) = ActiveIn(w.services) \ {key}
      <3> DEFINE s == w.services
      <3>1. s \in [ServiceKey -> Service]
        BY <2>2
      <3> HIDE DEF s
      <3>2. /\ [s EXCEPT ![key] = Idle(status)] \in [ServiceKey -> Service]
            /\ ActiveIn([s EXCEPT ![key] = Idle(status)]) = ActiveIn(s) \ {key}
        BY <2>4, <3>1, IdleIsAService
      <3> QED BY <2>5, <3>2 DEF s
    <2>7. x \in Worlds
      BY <2>1, <2>6 DEF Worlds
    <2>8. /\ x.old = w.old /\ x.info = w.info /\ x.misled = w.misled /\ x.task = w.task
          /\ x.rule = w.rule /\ x.target = w.target
      BY <2>1 DEF Worlds
    <2> QED BY <2>6, <2>7, <2>8 DEF ServiceStep, SameButArn
  <1> QED BY <1>1, <1>2

\* What the teardown notes of a service that it has deleted.
NoteArn(u, arn) == [u EXCEPT !.old.arn = arn]

LEMMA NoteArnDoes ==
  ASSUME NEW u \in Worlds, u.old # None, NEW arn \in ServiceKey \cup {None}
  PROVE  /\ NoteArn(u, arn) \in Worlds /\ ServiceStep(u, NoteArn(u, arn))
         /\ NoteArn(u, arn).old # None /\ NoteArn(u, arn).services = u.services
         /\ NoteArn(u, arn).raised = u.raised /\ NoteArn(u, arn).misled = u.misled
         /\ NoteArn(u, arn).info = u.info /\ NoteArn(u, arn).old.arn = arn
  <1> DEFINE x == NoteArn(u, arn)
  <1>1. u.old \in TaskRow
    BY DEF Worlds
  <1>2. x.old = [u.old EXCEPT !.arn = arn]
    BY DEF NoteArn, Worlds
  <1>3. x.old \in TaskRow
    BY <1>1, <1>2 DEF TaskRow
  <1>4. SameButArn(x.old, u.old) /\ x.old.arn = arn
    BY <1>1, <1>2 DEF TaskRow, SameButArn
  <1>5. x \in Worlds
    BY <1>3 DEF NoteArn, Worlds
  <1>6. /\ x.services = u.services /\ x.info = u.info /\ x.misled = u.misled /\ x.task = u.task
        /\ x.rule = u.rule /\ x.target = u.target /\ x.raised = u.raised
    BY DEF NoteArn, Worlds
  <1>7. x.old # None
    BY <1>3, NoneIsApart
  <1> HIDE DEF x
  <1>8. ServiceStep(u, x)
    BY <1>4, <1>6, <1>7 DEF ServiceStep
  <1> QED BY <1>4, <1>5, <1>6, <1>7, <1>8 DEF x

LEMMA TeardownServiceSteps ==
  ASSUME NEW w, w.old.method = "AWS ECS", NEW x \in TeardownService(w)
  PROVE  \E v \in Find(w, w.old, None) :
           IF v.raised THEN x = v
           ELSE IF v.info = None THEN x = NoteArn(v, None)
           ELSE \E u \in DeleteService(v, v.info) :
                  IF u.raised THEN x = u
                  ELSE x = NoteArn(u, IF StatusOf(u, v.info) = "INACTIVE" THEN None ELSE v.info)
  <1> DEFINE Remove(v) ==
               IF v.info = None THEN {NoteArn(v, None)}
               ELSE Then(DeleteService(v, v.info),
                         LAMBDA u : {NoteArn(u, IF StatusOf(u, v.info) = "INACTIVE"
                                                THEN None ELSE v.info)})
  <1>1. x \in Then(Find(w, w.old, None), Remove)
    BY DEF TeardownService, NoteArn
  <1>2. PICK v \in Find(w, w.old, None) : x \in IF v.raised THEN {v} ELSE Remove(v)
    BY <1>1 DEF Then
  <1>3. CASE v.raised \/ v.info = None
    BY <1>2, <1>3
  <1>4. CASE ~v.raised /\ v.info # None
    <2>1. x \in Then(DeleteService(v, v.info),
                     LAMBDA u : {NoteArn(u, IF StatusOf(u, v.info) = "INACTIVE"
                                            THEN None ELSE v.info)})
      BY <1>2, <1>4
    <2>2. PICK u \in DeleteService(v, v.info) :
            x \in IF u.raised THEN {u}
                  ELSE {NoteArn(u, IF StatusOf(u, v.info) = "INACTIVE" THEN None ELSE v.info)}
      BY <2>1 DEF Then
    <2> QED BY <1>4, <2>2
  <1> QED BY <1>3, <1>4

\* The only services that run are the one of a Task, where the Task looks for it.
OwnOnly(old, s) ==
  ActiveIn(s) # {} => ActiveIn(s) = {old.arn} /\ old.arn \in ServiceKey /\ old.arn[1] = old.cluster

LEMMA TeardownServiceDoes ==
  ASSUME NEW w \in Worlds, w.old # None, ~w.raised, NEW x \in TeardownService(w)
  PROVE  /\ x \in Worlds /\ ServiceStep(w, x) /\ x.old # None
         /\ /\ w.old.method = "AWS ECS" /\ OwnOnly(w.old, w.services)
            /\ ~x.raised /\ ~x.misled
            => ActiveIn(x.services) = {}
  <1>1. w.old \in TaskRow
    BY DEF Worlds
  <1>2. CASE w.old.method # "AWS ECS"
    <2>1. x = NoteArn(w, None)
      BY <1>2 DEF TeardownService, NoteArn
    <2> QED BY <1>2, <2>1, NoteArnDoes
  <1>3. CASE w.old.method = "AWS ECS"
    <2>1. PICK v \in Find(w, w.old, None) :
           IF v.raised THEN x = v
           ELSE IF v.info = None THEN x = NoteArn(v, None)
           ELSE \E u \in DeleteService(v, v.info) :
                  IF u.raised THEN x = u
                  ELSE x = NoteArn(u, IF StatusOf(u, v.info) = "INACTIVE" THEN None ELSE v.info)
      BY <1>3, TeardownServiceSteps
    <2> DEFINE key == FindKey(w.old, None)
    <2>2. /\ v \in Worlds /\ ServiceStep(w, v) /\ v.raised = w.raised
          /\ v.old = w.old /\ v.services = w.services /\ key \in ServiceKey
          /\ ~v.misled => v.info = IF Hit(w, w.old, key) THEN key ELSE None
      BY <1>1, FindDoes
    <2>3. v.info \in ServiceKey \cup {None}
      BY <2>2 DEF Worlds
    <2>4. ASSUME OwnOnly(w.old, w.services), ActiveIn(w.services) # {}
          PROVE  Hit(w, w.old, key) /\ ActiveIn(w.services) = {key}
      <3>1. key = w.old.arn
        BY <2>4, NoneIsApart DEF OwnOnly, FindKey
      <3>2. w.services[key].status = "ACTIVE"
        BY <2>4, <3>1 DEF OwnOnly, ActiveIn
      <3>3. Absent.status # "ACTIVE"
        BY DEF Absent, Idle
      <3> QED BY <2>4, <3>1, <3>2, <3>3 DEF OwnOnly, Hit
    <2>5. CASE v.info = None
      <3>1. x = NoteArn(v, None)
        BY <2>1, <2>2, <2>5
      <3>2. /\ x \in Worlds /\ ServiceStep(v, x) /\ x.old # None
            /\ x.services = v.services /\ x.misled = v.misled
        BY <2>2, <3>1, NoteArnDoes
      <3>3. ServiceStep(w, x)
        BY <2>2, <3>2, StepsCompose
      <3> QED BY <2>2, <2>4, <2>5, <3>2, <3>3, NoneIsApart
    <2>6. CASE v.info # None
      <3>1. PICK u \in DeleteService(v, v.info) :
              IF u.raised THEN x = u
              ELSE x = NoteArn(u, IF StatusOf(u, v.info) = "INACTIVE" THEN None ELSE v.info)
        BY <2>1, <2>2, <2>6
      <3>2. /\ u \in Worlds /\ ServiceStep(v, u) /\ u.old = v.old /\ u.misled = v.misled
            /\ ~u.raised => v.info \notin ActiveIn(u.services)
        BY <2>2, <2>3, <2>6, DeleteServiceDoes
      <3>3. ServiceStep(w, u)
        BY <2>2, <3>2, StepsCompose
      <3>4. CASE u.raised
        BY <2>2, <3>1, <3>2, <3>3, <3>4
      <3>5. CASE ~u.raised
        <4> DEFINE arn == IF StatusOf(u, v.info) = "INACTIVE" THEN None ELSE v.info
        <4>1. x = NoteArn(u, arn) /\ arn \in ServiceKey \cup {None}
          BY <2>3, <3>1, <3>5
        <4> HIDE DEF arn
        <4>2. /\ x \in Worlds /\ ServiceStep(u, x) /\ x.old # None
              /\ x.services = u.services /\ x.misled = u.misled
          BY <2>2, <3>2, <4>1, NoteArnDoes
        <4>3. ServiceStep(w, x)
          BY <3>3, <4>2, StepsCompose
        <4>4. ASSUME OwnOnly(w.old, w.services), ~x.misled
              PROVE  ActiveIn(x.services) = {}
          <5>1. ActiveIn(u.services) \subseteq ActiveIn(w.services)
            BY <3>3 DEF ServiceStep
          <5>2. CASE ActiveIn(w.services) = {}
            BY <4>2, <5>1, <5>2
          <5>3. CASE ActiveIn(w.services) # {}
            <6>1. v.info = key
              BY <2>2, <2>4, <3>2, <4>2, <4>4, <5>3
            <6> QED BY <2>4, <3>2, <3>5, <4>2, <4>4, <5>1, <5>3, <6>1
          <5> QED BY <5>2, <5>3
        <4> QED BY <4>2, <4>3, <4>4
      <3> QED BY <3>4, <3>5
    <2> QED BY <2>5, <2>6
  <1> QED BY <1>2, <1>3

\* A Task that is to keep the service it has.
KeepsService(w) ==
  /\ w.old # None /\ w.old.method = "AWS ECS" /\ w.old.arn # None
  /\ OwnOnly(w.old, w.services) /\ ~ServiceRecreated(w.old, w.task)

LEMMA FindExistingDoes ==
  ASSUME NEW w \in Worlds, ~w.raised, NEW x \in FindExisting(w)
  PROVE  /\ x \in Worlds /\ ServiceStep(w, x) /\ ~x.raised
         /\ x.old = w.old /\ x.services = w.services
         /\ KeepsService(w) /\ w.info = None /\ ~x.misled /\ ActiveIn(w.services) # {}
            => x.info = w.old.arn
  <1> DEFINE Own(v) == IF v.info # None THEN {v} ELSE Find(v, v.task, v.task.arn)
  <1>1. ServiceStep(w, w)
    BY DEF ServiceStep, SameButArn
  <1>2. ASSUME NEW v \in Worlds, NEW y \in Own(v)
        PROVE  /\ y \in Worlds /\ ServiceStep(v, y) /\ y.raised = v.raised
               /\ y.old = v.old /\ y.services = v.services
               /\ v.info # None => y = v
    <2>1. CASE v.info # None
      BY <1>2, <2>1 DEF ServiceStep, SameButArn
    <2>2. CASE v.info = None
      <3>1. v.task \in TaskRow /\ v.task.arn \in ServiceKey \cup {None}
        BY DEF Worlds, TaskRow
      <3>2. y \in Find(v, v.task, v.task.arn)
        BY <1>2, <2>2
      <3> QED BY <2>2, <3>1, <3>2, FindDoes
    <2> QED BY <2>1, <2>2
  <1>3. CASE w.info # None
    BY <1>1, <1>3 DEF FindExisting
  <1>4. CASE w.info = None /\ ~(w.old # None /\ w.old.method = "AWS ECS")
    <2>1. x \in Own(w)
      BY <1>4 DEF FindExisting
    <2> HIDE DEF Own
    <2> QED BY <1>2, <1>4, <2>1 DEF KeepsService
  <1>5. CASE w.info = None /\ w.old # None /\ w.old.method = "AWS ECS"
    <2>1. PICK v \in Find(w, w.old, w.old.arn) : IF v.raised THEN x = v ELSE x \in Own(v)
      BY <1>5 DEF FindExisting, Then
    <2>2. w.old \in TaskRow /\ w.old.arn \in ServiceKey \cup {None}
      BY <1>5 DEF Worlds, TaskRow
    <2> DEFINE key == FindKey(w.old, w.old.arn)
    <2>3. /\ v \in Worlds /\ ServiceStep(w, v) /\ v.raised = w.raised
          /\ v.old = w.old /\ v.services = w.services /\ key \in ServiceKey
          /\ ~v.misled => v.info = IF Hit(w, w.old, key) THEN key ELSE None
      BY <2>2, FindDoes
    <2>4. x \in Own(v)
      BY <2>1, <2>3
    <2> HIDE DEF Own
    <2>5. /\ x \in Worlds /\ ServiceStep(v, x) /\ x.raised = v.raised
          /\ x.old = v.old /\ x.services = v.services /\ (v.info # None => x = v)
      BY <1>2, <2>3, <2>4
    <2>6. ServiceStep(w, x)
      BY <2>3, <2>5, StepsCompose
    <2>7. ASSUME KeepsService(w), ~x.misled, ActiveIn(w.services) # {}
          PROVE  x.info = w.old.arn
      <3>1. key = w.old.arn
        BY <2>7 DEF KeepsService, FindKey
      <3>2. w.services[key].status = "ACTIVE" /\ key[1] = w.old.cluster
        BY <2>7, <3>1 DEF KeepsService, OwnOnly, ActiveIn
      <3>3. Absent.status # "ACTIVE"
        BY DEF Absent, Idle
      <3>4. Hit(w, w.old, key)
        BY <3>2, <3>3 DEF Hit
      <3>5. ~v.misled
        BY <2>5, <2>7 DEF ServiceStep
      <3>6. v.info = key
        BY <2>3, <3>4, <3>5
      <3> QED BY <2>3, <2>5, <3>1, <3>6, NoneIsApart
    <2> QED BY <2>3, <2>5, <2>6, <2>7
  <1> QED BY <1>3, <1>4, <1>5

LEMMA DeleteExistingDoes ==
  ASSUME NEW w \in Worlds, ~w.raised, NEW x \in DeleteExisting(w)
  PROVE  /\ x \in Worlds /\ ServiceStep(w, x) /\ x.old = w.old /\ x.info = w.info
         /\ x.misled = w.misled
         /\ KeepsService(w) => x = w
  <1>1. CASE /\ w.info # None /\ w.old # None
             /\ StatusOf(w, w.info) = "ACTIVE" /\ w.old.method = "AWS ECS"
             /\ ServiceRecreated(w.old, w.task)
    <2>1. <<w.old.cluster, w.info[2]>> \in ServiceKey
      BY <1>1 DEF Worlds, TaskRow, ServiceKey
    <2>2. x \in DeleteService(w, <<w.old.cluster, w.info[2]>>)
      BY <1>1 DEF DeleteExisting
    <2> DEFINE key == <<w.old.cluster, w.info[2]>>
    <2> HIDE DEF key
    <2>3. key \in ServiceKey /\ x \in DeleteService(w, key)
      BY <2>1, <2>2 DEF key
    <2> QED BY <1>1, <2>3, DeleteServiceDoes DEF KeepsService
  <1>2. CASE x = w
    BY <1>2 DEF ServiceStep, SameButArn
  <1> QED BY <1>1, <1>2 DEF DeleteExisting

\* What starting a service makes of a world.
Started(w, key, x) ==
  /\ x \in Worlds /\ x.old = w.old /\ x.rule = w.rule /\ x.target = w.target
  /\ x.misled = w.misled /\ x.raised = w.raised
  /\ x.task = [w.task EXCEPT !.arn = key, !.serviceManaged = TRUE]
  /\ x.task.arn = key /\ x.task.serviceManaged = TRUE
  /\ ActiveIn(x.services) = ActiveIn(w.services) \cup {key}
  /\ x.services[key].count = w.task.count /\ x.services[key].config = w.task.config

LEMMA RunningDoes ==
  ASSUME NEW w \in Worlds, NEW key \in ServiceKey, w.task.count # None,
         NEW x, x = Running(w, key)
  PROVE  Started(w, key, x)
  <1> DEFINE s == [status |-> "ACTIVE", config |-> w.task.config, count |-> w.task.count]
  <1>1. w.task \in TaskRow /\ w.services \in [ServiceKey -> Service]
    BY DEF Worlds
  <1>2. s \in Service
    <2>1. w.task.config \in Configs /\ w.task.count \in 0 .. MaxInstances
      BY <1>1 DEF TaskRow
    <2> QED BY <2>1 DEF Service
  <1>3. s.status = "ACTIVE" /\ s.config = w.task.config /\ s.count = w.task.count
    OBVIOUS
  <1>4. x.services = [w.services EXCEPT ![key] = s]
    BY DEF Running, Worlds
  <1> HIDE DEF s
  <1>5. x.services \in [ServiceKey -> Service] /\ x.services[key] = s
    BY <1>1, <1>2, <1>4
  <1>6. ActiveIn(x.services) = ActiveIn(w.services) \cup {key}
    BY <1>1, <1>3, <1>4 DEF ActiveIn
  <1>7. x.task = [w.task EXCEPT !.arn = key, !.serviceManaged = TRUE]
    BY <1>1 DEF Running, Worlds, TaskRow
  <1>8. x.task \in TaskRow /\ x.task.arn = key /\ x.task.serviceManaged = TRUE
    BY <1>1, <1>7 DEF TaskRow, Flag
  <1>9. x \in Worlds
    BY <1>5, <1>8 DEF Running, Worlds
  <1>10. /\ x.old = w.old /\ x.rule = w.rule /\ x.target = w.target
         /\ x.misled = w.misled /\ x.raised = w.raised
    BY DEF Running, Worlds
  <1> QED BY <1>3, <1>5, <1>6, <1>7, <1>8, <1>9, <1>10 DEF Started

LEMMA UpdateOrCreateSteps ==
  ASSUME NEW w \in Worlds, NEW x \in UpdateOrCreate(w)
  PROVE  \/ x = Raise(w)
         \/ /\ w.info # None /\ StatusOf(w, w.info) = "ACTIVE" /\ ~ServiceRecreated(w.old, w.task)
            /\ w.info \in ServiceKey /\ x = Running(w, w.info)
         \/ /\ ~(/\ w.info # None /\ StatusOf(w, w.info) = "ACTIVE"
                 /\ ~ServiceRecreated(w.old, w.task))
            /\ \E key \in ServiceKey : key[1] = w.task.cluster /\ x = Running(w, key)
  <1>1. CASE /\ w.info # None /\ StatusOf(w, w.info) = "ACTIVE"
             /\ ~ServiceRecreated(w.old, w.task)
    BY <1>1 DEF UpdateOrCreate, Attempt, Worlds
  <1>2. CASE ~(/\ w.info # None /\ StatusOf(w, w.info) = "ACTIVE"
               /\ ~ServiceRecreated(w.old, w.task))
    <2> DEFINE key == <<w.task.cluster, NextSuffix(w)>>
    <2>1. x \in CreateService(w)
      BY <1>2 DEF UpdateOrCreate
    <2>2. x = Raise(w) \/ (~(NextSuffix(w) > MaxSuffix) /\ x = Running(w, key))
      BY <2>1 DEF CreateService, Attempt
    <2>3. NextSuffix(w) \in Nat
      <3>1. w.info # None => w.info[2] \in 0 .. MaxSuffix
        BY DEF Worlds, ServiceKey
      <3> QED BY <3>1, BoundsAssumption DEF NextSuffix
    <2>4. w.task.cluster \in Clusters
      BY DEF Worlds, TaskRow
    <2>5. ~(NextSuffix(w) > MaxSuffix) => key \in ServiceKey /\ key[1] = w.task.cluster
      BY <2>3, <2>4, BoundsAssumption DEF ServiceKey
    <2> QED BY <1>2, <2>2, <2>5
  <1> QED BY <1>1, <1>2

\* What a half of a request that sets up or removes a service leaves alone.
SameForSchedule(s, t) ==
  /\ s.enabled = t.enabled /\ s.passive = t.passive /\ s.method = t.method
  /\ s.cluster = t.cluster /\ s.config = t.config
  /\ s.schedule = t.schedule /\ s.scheduleManaged = t.scheduleManaged
  /\ s.rule = t.rule /\ s.target = t.target

ServiceHalf(w, x) ==
  /\ SameForSchedule(x.task, w.task) /\ x.task.count = w.task.count
  /\ x.rule = w.rule /\ x.target = w.target
  /\ x.misled => w.misled \/ DescribeFails
  /\ w.misled => x.misled
  /\ x.raised => x.task = w.task /\ ActiveIn(x.services) \subseteq ActiveIn(w.services)

LEMMA StepsInHalf ==
  ASSUME NEW w, NEW v, NEW x, ServiceStep(w, v), ServiceHalf(v, x)
  PROVE  ServiceHalf(w, x)
  BY DEF ServiceStep, ServiceHalf, SameForSchedule

LEMMA StepIsHalf ==
  ASSUME NEW w, NEW x, ServiceStep(w, x)
  PROVE  ServiceHalf(w, x)
  BY DEF ServiceStep, ServiceHalf, SameForSchedule

\* The services are as a row says.
ServiceMatches(task, s) ==
  /\ ActiveIn(s) = IF ActiveService(task, TRUE) THEN {task.arn} ELSE {}
  /\ ActiveService(task, TRUE) => /\ s[task.arn].count = task.count
                                  /\ s[task.arn].config = task.config

\* A service that is started is the one of the Task, as the Task says, unless it
\* joins others.
LEMMA SetupServiceDoes ==
  ASSUME NEW w \in Worlds, ~w.raised, ActiveService(w.task, FALSE),
         NEW x \in SetupService(w)
  PROVE  /\ x \in Worlds /\ ServiceHalf(w, x)
         /\ ~x.raised => /\ x.task.serviceManaged = TRUE /\ x.task.arn \in ServiceKey
                         /\ ActiveService(x.task, TRUE)
         /\ /\ ActiveIn(w.services) = {} \/ (KeepsService(w) /\ w.info = None)
            /\ ~x.raised /\ ~x.misled
            => ServiceMatches(x.task, x.services) /\ x.task.arn[1] = x.task.cluster
  <1>1. w.task \in TaskRow /\ w.task.count # None
    BY ActiveServiceIs DEF Worlds
  <1>2. PICK v \in FindExisting(w) :
           IF v.raised THEN x = v
           ELSE \E u \in DeleteExisting(v) : IF u.raised THEN x = u ELSE x \in UpdateOrCreate(u)
    BY DEF SetupService, Then
  <1>3. /\ v \in Worlds /\ ServiceStep(w, v) /\ ~v.raised
        /\ v.old = w.old /\ v.services = w.services
        /\ KeepsService(w) /\ w.info = None /\ ~v.misled /\ ActiveIn(w.services) # {}
           => v.info = w.old.arn
    BY FindExistingDoes
  <1>4. PICK u \in DeleteExisting(v) : IF u.raised THEN x = u ELSE x \in UpdateOrCreate(u)
    BY <1>2, <1>3
  <1>5. /\ u \in Worlds /\ ServiceStep(v, u) /\ u.old = v.old /\ u.info = v.info
        /\ u.misled = v.misled /\ (KeepsService(v) => u = v)
    BY <1>3, <1>4, DeleteExistingDoes
  <1>6. ServiceStep(w, u)
    BY <1>3, <1>5, StepsCompose
  <1>7. u.task = w.task
    BY <1>6 DEF ServiceStep
  <1>8. CASE u.raised
    BY <1>4, <1>5, <1>6, <1>8, StepIsHalf
  <1>9. CASE ~u.raised /\ x = Raise(u)
    <2>1. x \in Worlds /\ ServiceStep(u, x) /\ x.raised
      BY <1>5, <1>9, RaiseIsAStep
    <2> QED BY <1>6, <2>1, StepsCompose, StepIsHalf
  <1>10. CASE ~u.raised /\ \E key \in ServiceKey :
                /\ x = Running(u, key)
                /\ \/ key[1] = u.task.cluster
                      /\ ~(/\ u.info # None /\ StatusOf(u, u.info) = "ACTIVE"
                           /\ ~ServiceRecreated(u.old, u.task))
                   \/ key = u.info /\ StatusOf(u, u.info) = "ACTIVE" /\ u.info # None
    <2>1. PICK key \in ServiceKey :
                /\ x = Running(u, key)
                /\ \/ key[1] = u.task.cluster
                      /\ ~(/\ u.info # None /\ StatusOf(u, u.info) = "ACTIVE"
                           /\ ~ServiceRecreated(u.old, u.task))
                   \/ key = u.info /\ StatusOf(u, u.info) = "ACTIVE" /\ u.info # None
      BY <1>10
    <2>2. /\ x \in Worlds /\ x.old = u.old /\ x.rule = u.rule /\ x.target = u.target
          /\ x.misled = u.misled /\ x.raised = u.raised
          /\ x.task = [w.task EXCEPT !.arn = key, !.serviceManaged = TRUE]
          /\ x.task.arn = key /\ x.task.serviceManaged = TRUE
          /\ ActiveIn(x.services) = ActiveIn(u.services) \cup {key}
          /\ x.services[key].count = w.task.count /\ x.services[key].config = w.task.config
      <3>1. u.task.count # None /\ x = Running(u, key)
        BY <1>1, <1>7, <2>1
      <3>2. Started(u, key, x)
        BY <1>5, <3>1, RunningDoes
      <3> QED BY <1>7, <3>2 DEF Started
    <2>3. SameForSchedule(x.task, w.task) /\ x.task.count = w.task.count
      BY <1>1, <2>2 DEF SameForSchedule, TaskRow
    <2>4. ServiceHalf(w, x)
      BY <1>6, <1>10, <2>2, <2>3 DEF ServiceHalf, ServiceStep
    <2>5. ActiveService(x.task, TRUE)
      <3>1. x.task \in TaskRow
        BY <2>2 DEF Worlds
      <3> QED BY <1>1, <2>2, <2>3, <3>1, ActiveServiceIs DEF SameForSchedule
    <2>6. ASSUME ActiveIn(w.services) = {} \/ (KeepsService(w) /\ w.info = None),
                 ~x.misled
          PROVE  ActiveIn(x.services) = {key} /\ key[1] = w.task.cluster
      <3>1. ActiveIn(u.services) \subseteq ActiveIn(w.services)
        BY <1>6 DEF ServiceStep
      <3>2. CASE ActiveIn(u.services) = {}
        <4>1. u.info # None => StatusOf(u, u.info) # "ACTIVE"
          BY <1>5, <3>2 DEF StatusOf, ActiveIn, Worlds
        <4>2. key[1] = w.task.cluster
          BY <1>7, <2>1, <4>1
        <4> QED BY <2>2, <3>2, <4>2
      <3>3. CASE ActiveIn(u.services) # {}
        <4>1. KeepsService(w) /\ w.info = None /\ ActiveIn(w.services) # {}
          BY <2>6, <3>1, <3>3
        <4>2. v.info = w.old.arn
          BY <1>3, <1>5, <2>2, <2>6, <4>1
        <4>3. /\ ActiveIn(w.services) = {w.old.arn} /\ w.old.arn \in ServiceKey
              /\ w.old.arn[1] = w.old.cluster
          BY <4>1 DEF KeepsService, OwnOnly
        <4>4. ActiveIn(u.services) = {w.old.arn}
          BY <3>1, <3>3, <4>3
        <4>5. StatusOf(u, u.info) = "ACTIVE" /\ u.info # None /\ u.info = w.old.arn
          BY <1>5, <4>2, <4>3, <4>4, NoneIsApart DEF StatusOf, ActiveIn
        <4>6. ~ServiceRecreated(u.old, u.task)
          BY <1>3, <1>5, <1>7, <4>1 DEF KeepsService
        <4>7. key = w.old.arn
          BY <2>1, <4>5, <4>6
        <4>8. w.old.cluster = w.task.cluster
          BY <1>3, <1>5, <1>7, <4>6 DEF ServiceRecreated
        <4> QED BY <2>2, <4>3, <4>4, <4>7, <4>8
      <3> QED BY <3>2, <3>3
    <2>7. x.task.cluster = w.task.cluster /\ x.task.config = w.task.config
      BY <2>3 DEF SameForSchedule
    <2> QED BY <2>2, <2>3, <2>4, <2>5, <2>6, <2>7 DEF ServiceMatches
  <1> QED BY <1>4, <1>5, <1>8, <1>9, <1>10, UpdateOrCreateSteps

\* What the row keeps of a service that was removed.
KeepService(u) ==
  [u EXCEPT !.task.arn = u.old.arn, !.task.serviceManaged = IF @ = TRUE THEN None ELSE @]

LEMMA KeepServiceDoes ==
  ASSUME NEW u \in Worlds, u.old # None, ~u.raised, NEW x, x = KeepService(u)
  PROVE  /\ x \in Worlds /\ ServiceHalf(u, x) /\ x.services = u.services
         /\ x.misled = u.misled /\ ~x.raised
         /\ x.task.serviceManaged # TRUE
  <1>1. u.old \in TaskRow /\ u.task \in TaskRow
    BY DEF Worlds
  <1> DEFINE flag == IF u.task.serviceManaged = TRUE THEN None ELSE u.task.serviceManaged
  <1>2. x.task = [u.task EXCEPT !.arn = u.old.arn, !.serviceManaged = flag]
    BY <1>1 DEF KeepService, Worlds, TaskRow
  <1>3. flag \in Flag /\ flag # TRUE
    BY <1>1, NoneIsApart DEF Flag, TaskRow
  <1> HIDE DEF flag
  <1>4. u.old.arn \in ServiceKey \cup {None}
    BY <1>1 DEF TaskRow
  <1>5. x.task \in TaskRow /\ x.task.serviceManaged = flag
    BY <1>1, <1>2, <1>3, <1>4 DEF TaskRow
  <1>6. SameForSchedule(x.task, u.task) /\ x.task.count = u.task.count
    BY <1>1, <1>2 DEF TaskRow, SameForSchedule
  <1>7. x \in Worlds
    BY <1>5 DEF KeepService, Worlds
  <1>8. /\ x.services = u.services /\ x.misled = u.misled /\ x.rule = u.rule
        /\ x.target = u.target /\ x.raised = u.raised
    BY DEF KeepService, Worlds
  <1> QED BY <1>3, <1>5, <1>6, <1>7, <1>8 DEF ServiceHalf

ServiceTornDown(w, x) ==
  /\ WasManagedService(w.old) /\ ~ActiveService(w.task, FALSE)
  /\ \E v \in TeardownService(w) :
       IF v.raised THEN x = v
       ELSE \E u \in TeardownService(v) : IF u.raised THEN x = u ELSE x = KeepService(u)

ServiceSetUp(w, x) ==
  /\ ActiveService(w.task, FALSE)
  /\ \E v \in IF w.old # None /\ ActiveService(w.old, TRUE) /\ ServiceRecreated(w.old, w.task)
              THEN TeardownService(w) ELSE {w} :
       IF v.raised THEN x = v ELSE x \in SetupService(v)

LEMMA SyncServiceSteps ==
  ASSUME NEW w \in Worlds, NEW x \in SyncService(w)
  PROVE  \/ ~ServiceChanges(w.old, w.task) /\ x = w
         \/ x = Raise(w)
         \/ ServiceTornDown(w, x)
         \/ ServiceSetUp(w, x)
  <1>1. CASE ~ServiceChanges(w.old, w.task)
    BY <1>1 DEF SyncService
  <1>2. CASE ServiceChanges(w.old, w.task) /\ ~ActiveService(w.task, FALSE)
    <2>1. WasManagedService(w.old)
      BY <1>2 DEF ServiceChanges
    <2>2. x \in Then(Then(TeardownService(w), TeardownService), LAMBDA u : {KeepService(u)})
      BY <1>2, <2>1 DEF SyncService, KeepService, WasManagedService
    <2> QED BY <1>2, <2>1, <2>2 DEF Then, ServiceTornDown
  <1>3. CASE ServiceChanges(w.old, w.task) /\ ActiveService(w.task, FALSE)
    BY <1>3 DEF SyncService, Then, ServiceSetUp
  <1> QED BY <1>1, <1>2, <1>3

LEMMA SyncServiceKeeps ==
  ASSUME NEW w \in Worlds, ~w.raised, NEW x \in SyncService(w)
  PROVE  x \in Worlds /\ ServiceHalf(w, x)
  <1>1. ServiceStep(w, w)
    BY DEF ServiceStep, SameButArn
  <1>2. CASE x = w
    BY <1>1, <1>2, StepIsHalf
  <1>3. CASE x = Raise(w)
    BY <1>3, RaiseIsAStep, StepIsHalf
  <1>4. CASE ServiceTornDown(w, x)
    <2>1. PICK v \in TeardownService(w) :
            IF v.raised THEN x = v
            ELSE \E u \in TeardownService(v) : IF u.raised THEN x = u ELSE x = KeepService(u)
      BY <1>4 DEF ServiceTornDown
    <2>2. v \in Worlds /\ ServiceStep(w, v) /\ v.old # None
      BY <1>4, TeardownServiceDoes DEF ServiceTornDown, WasManagedService
    <2>3. CASE v.raised
      BY <2>1, <2>2, <2>3, StepIsHalf
    <2>4. CASE ~v.raised
      <3>1. PICK u \in TeardownService(v) : IF u.raised THEN x = u ELSE x = KeepService(u)
        BY <2>1, <2>4
      <3>2. u \in Worlds /\ ServiceStep(v, u) /\ u.old # None
        BY <2>2, <2>4, TeardownServiceDoes
      <3>3. ServiceStep(w, u)
        BY <2>2, <3>2, StepsCompose
      <3>4. CASE u.raised
        BY <3>1, <3>2, <3>3, <3>4, StepIsHalf
      <3>5. CASE ~u.raised
        <4>1. x \in Worlds /\ ServiceHalf(u, x)
          BY <3>1, <3>2, <3>5, KeepServiceDoes
        <4> QED BY <3>3, <4>1, StepsInHalf
      <3> QED BY <3>4, <3>5
    <2> QED BY <2>3, <2>4
  <1>5. CASE ServiceSetUp(w, x)
    <2>1. PICK v \in IF w.old # None /\ ActiveService(w.old, TRUE)
                        /\ ServiceRecreated(w.old, w.task)
                     THEN TeardownService(w) ELSE {w} :
            IF v.raised THEN x = v ELSE x \in SetupService(v)
      BY <1>5 DEF ServiceSetUp
    <2>2. v \in Worlds /\ ServiceStep(w, v)
      BY <1>1, <2>1, TeardownServiceDoes
    <2>3. CASE v.raised
      BY <2>1, <2>2, <2>3, StepIsHalf
    <2>4. CASE ~v.raised
      <3>1. x \in SetupService(v) /\ ActiveService(v.task, FALSE)
        BY <1>5, <2>1, <2>2, <2>4 DEF ServiceStep, ServiceSetUp
      <3>2. x \in Worlds /\ ServiceHalf(v, x)
        BY <2>2, <2>4, <3>1, SetupServiceDoes
      <3> QED BY <2>2, <3>2, StepsInHalf
    <2> QED BY <2>3, <2>4
  <1>6. x = w \/ x = Raise(w) \/ ServiceTornDown(w, x) \/ ServiceSetUp(w, x)
    BY SyncServiceSteps
  <1> QED BY <1>2, <1>3, <1>4, <1>5, <1>6

-----------------------------------------------------------------------------
(* What it makes of the service.                                           *)

ServiceIsNamed(task) == ActiveService(task, TRUE) => task.arn # None

\* Nothing runs but the service that a Task, if there is one, names.
OnlyOf(old, s) ==
  ActiveIn(s) # {} => old # None /\ ActiveService(old, TRUE) /\ OwnOnly(old, s)

SameService(old, task) ==
  IF old = None THEN ~ActiveService(task, TRUE)
  ELSE \/ ~ActiveService(old, TRUE) /\ ~ActiveService(task, TRUE)
       \/ /\ ActiveService(old, TRUE) /\ ActiveService(task, TRUE)
          /\ old.count = task.count /\ old.arn = task.arn
          /\ old.cluster = task.cluster /\ old.config = task.config

\* A world that the service half starts with.
ServiceReady(w) ==
  /\ w \in Worlds /\ ~w.raised /\ w.info = None /\ w.task.method = "AWS ECS"
  /\ w.old # None =>
       /\ w.old.method = "AWS ECS" /\ ServiceIsNamed(w.old) /\ w.task.arn = w.old.arn
       /\ ActiveService(w.old, TRUE) /\ ActiveService(w.task, FALSE)
          => w.task.serviceManaged = TRUE

\* When the service half succeeds, the row names the service.  If nothing ran but
\* the service of the old row, and AWS has always answered, then nothing runs but
\* the service of the new row, and it is as the row says, or nothing was touched
\* because nothing about it differs.
LEMMA SyncServiceDoes ==
  ASSUME NEW w, ServiceReady(w), NEW x \in SyncService(w), ~x.raised
  PROVE  /\ ServiceIsNamed(x.task)
         /\ OnlyOf(w.old, w.services) /\ ~x.misled
            => \/ /\ ServiceMatches(x.task, x.services)
                  /\ ActiveService(x.task, TRUE)
                     => x.task.arn \in ServiceKey /\ x.task.arn[1] = x.task.cluster
               \/ x = w /\ SameService(w.old, w.task)
  <1>1. w \in Worlds /\ w.task \in TaskRow /\ ~w.raised
    BY DEF ServiceReady, Worlds
  <1>2. x \in Worlds /\ ServiceHalf(w, x) /\ x.task \in TaskRow
    BY <1>1, SyncServiceKeeps DEF Worlds
  <1>3. CASE ~ServiceChanges(w.old, w.task) /\ x = w
    <2>1. CASE ~ActiveService(w.task, FALSE)
      <3>1. ~WasManagedService(w.old) /\ ~ActiveService(w.task, TRUE)
        BY <1>1, <1>3, <2>1, ActiveServiceIs DEF ServiceChanges, ServiceReady
      <3>2. w.old # None => ~ActiveService(w.old, TRUE)
        BY <3>1 DEF WasManagedService, ServiceReady, ServiceIsNamed
      <3> QED BY <1>3, <3>1, <3>2 DEF SameService, ServiceIsNamed
    <2>2. CASE ActiveService(w.task, FALSE)
      <3>1. /\ w.old # None /\ ActiveService(w.old, TRUE) /\ w.old.arn # None
            /\ w.task.cluster = w.old.cluster /\ w.task.arn = w.old.arn
            /\ w.task.count = w.old.count /\ w.task.config = w.old.config
        BY <1>3, <2>2 DEF ServiceChanges, WasManagedService, ServiceReady
      <3>2. w.task.serviceManaged = TRUE
        BY <2>2, <3>1 DEF ServiceReady
      <3>3. ActiveService(w.task, TRUE)
        BY <1>1, <2>2, <3>2, ActiveServiceIs
      <3> QED BY <1>3, <3>1, <3>3 DEF SameService, ServiceIsNamed
    <2> QED BY <2>1, <2>2
  <1>4. CASE x = Raise(w)
    BY <1>1, <1>4 DEF Raise, Worlds
  <1>5. CASE ServiceTornDown(w, x)
    <2>1. PICK v \in TeardownService(w) :
            IF v.raised THEN x = v
            ELSE \E u \in TeardownService(v) : IF u.raised THEN x = u ELSE x = KeepService(u)
      BY <1>5 DEF ServiceTornDown
    <2>2. ~v.raised
      BY <2>1
    <2>3. w.old # None /\ w.old.method = "AWS ECS"
      BY <1>5 DEF ServiceTornDown, WasManagedService
    <2>4. /\ v \in Worlds /\ ServiceStep(w, v) /\ v.old # None
          /\ OwnOnly(w.old, w.services) /\ ~v.misled => ActiveIn(v.services) = {}
      BY <1>1, <2>2, <2>3, TeardownServiceDoes
    <2>5. PICK u \in TeardownService(v) : IF u.raised THEN x = u ELSE x = KeepService(u)
      BY <2>1, <2>2
    <2>6. ~u.raised
      BY <2>5
    <2>7. u \in Worlds /\ ServiceStep(v, u) /\ u.old # None
      BY <2>2, <2>4, TeardownServiceDoes
    <2>8. /\ x.task.serviceManaged # TRUE /\ x.services = u.services /\ x.misled = u.misled
      BY <2>5, <2>6, <2>7, KeepServiceDoes
    <2>9. ~ActiveService(x.task, TRUE)
      BY <1>2, <2>8, ActiveServiceIs
    <2>10. ASSUME OnlyOf(w.old, w.services), ~x.misled
           PROVE  ActiveIn(x.services) = {}
      <3>1. OwnOnly(w.old, w.services)
        BY <2>10 DEF OnlyOf, OwnOnly
      <3>2. ~v.misled
        BY <2>7, <2>8, <2>10 DEF ServiceStep
      <3> QED BY <2>4, <2>7, <2>8, <3>1, <3>2 DEF ServiceStep
    <2> QED BY <2>9, <2>10 DEF ServiceMatches, ServiceIsNamed
  <1>6. CASE ServiceSetUp(w, x)
    <2> DEFINE again ==
                 w.old # None /\ ActiveService(w.old, TRUE) /\ ServiceRecreated(w.old, w.task)
    <2>1. PICK v \in IF again THEN TeardownService(w) ELSE {w} :
            IF v.raised THEN x = v ELSE x \in SetupService(v)
      BY <1>6 DEF ServiceSetUp
    <2>2. v \in Worlds /\ ServiceStep(w, v)
      BY <1>1, <2>1, TeardownServiceDoes DEF ServiceStep, SameButArn
    <2>3. ~v.raised /\ x \in SetupService(v)
      BY <2>1
    <2>4. ActiveService(v.task, FALSE)
      BY <1>6, <2>2 DEF ServiceStep, ServiceSetUp
    <2>5. /\ x.task.arn \in ServiceKey /\ ActiveService(x.task, TRUE) /\ ServiceHalf(v, x)
          /\ /\ ActiveIn(v.services) = {} \/ (KeepsService(v) /\ v.info = None)
             /\ ~x.misled
             => ServiceMatches(x.task, x.services) /\ x.task.arn[1] = x.task.cluster
      BY <2>2, <2>3, <2>4, SetupServiceDoes
    <2>6. ServiceIsNamed(x.task)
      BY <2>5, NoneIsApart DEF ServiceIsNamed
    <2>7. ASSUME OnlyOf(w.old, w.services), ~x.misled
          PROVE  ActiveIn(v.services) = {} \/ (KeepsService(v) /\ v.info = None)
      <3>1. CASE ActiveIn(w.services) = {}
        BY <2>2, <3>1 DEF ServiceStep
      <3>2. CASE ActiveIn(w.services) # {}
        <4>1. w.old # None /\ ActiveService(w.old, TRUE) /\ OwnOnly(w.old, w.services)
          BY <2>7, <3>2 DEF OnlyOf
        <4>2. w.old.method = "AWS ECS" /\ w.old.arn # None /\ w.info = None
          BY <4>1 DEF ServiceReady, ServiceIsNamed
        <4>3. CASE again
          <5>1. v \in TeardownService(w) /\ ~v.misled
            BY <2>1, <2>5, <2>7, <4>3 DEF ServiceHalf
          <5> QED BY <1>1, <2>3, <4>1, <4>2, <5>1, TeardownServiceDoes
        <4>4. CASE ~again
          <5>1. v = w /\ ~ServiceRecreated(w.old, w.task)
            BY <2>1, <4>1, <4>4
          <5> QED BY <4>1, <4>2, <5>1 DEF KeepsService
        <4> QED BY <4>3, <4>4
      <3> QED BY <3>1, <3>2
    <2> QED BY <2>5, <2>6, <2>7
  <1> QED BY <1>1, <1>3, <1>4, <1>5, <1>6, SyncServiceSteps

-----------------------------------------------------------------------------
(* What a request asks for.                                                *)

LEMMA FieldTypes ==
  ASSUME NEW r \in Requests, NEW f \in DOMAIN Sent, NEW default \in Sent[f]
  PROVE  Field(r, f, default) \in Sent[f]
  BY RequestsAssumption DEF Field

LEMMA SaysServiceType ==
  ASSUME NEW r \in Requests
  PROVE  SaysService(r) \in Flag
  <1>1. "isService" \in DOMAIN Sent /\ Sent["isService"] = Flag /\ None \in Flag
    BY DEF Sent, Flag
  <1>2. Field(r, "isService", None) \in Flag
    BY <1>1, FieldTypes
  <1> QED BY <1>2 DEF SaysService, Flag

LEMMA InferredFields ==
  ASSUME NEW task \in TaskRow, NEW r \in Requests
  PROVE  /\ Inferred(task, r) \in TaskRow
         /\ Inferred(task, r).rule = task.rule /\ Inferred(task, r).target = task.target
         /\ Inferred(task, r).arn = task.arn
         /\ Inferred(task, r).method = Field(r, "method", task.method)
         /\ /\ ActiveSchedule(task, TRUE) /\ ActiveSchedule(Inferred(task, r), FALSE)
            => Inferred(task, r).scheduleManaged = TRUE
         /\ /\ ActiveService(task, TRUE) /\ ActiveService(Inferred(task, r), FALSE)
            => Inferred(task, r).serviceManaged = TRUE
  <1> DEFINE open == SaysService(r) = None /\ Field(r, "schedule", None) = None
             isService == IF open THEN task.count # None ELSE SaysService(r) = TRUE
             schedule == IF open /\ ~isService THEN task.schedule ELSE Field(r, "schedule", None)
             managed(field, applies) ==
               IF ~applies THEN None
               ELSE IF Field(r, field, None) # None THEN r[field] ELSE task[field]
             count == IF ~isService THEN None
                      ELSE IF Field(r, "count", None) # None THEN r["count"]
                      ELSE IF task.count \in {None, 0} THEN 1 ELSE task.count
             scheduleManaged == managed("scheduleManaged", schedule # None)
             serviceManaged == managed("serviceManaged", isService)
             enabled == Field(r, "enabled", task.enabled)
             passive == Field(r, "passive", task.passive)
             method  == Field(r, "method", task.method)
             cluster == Field(r, "cluster", task.cluster)
             config  == Field(r, "config", task.config)
             row2 == [ task EXCEPT
                         !.enabled = enabled, !.passive = passive, !.method = method,
                         !.cluster = cluster, !.config = config, !.schedule = schedule,
                         !.scheduleManaged = scheduleManaged, !.count = count,
                         !.serviceManaged = serviceManaged ]
  <1>1. DOMAIN Sent = { "enabled", "passive", "method", "cluster", "config", "schedule",
                        "count", "isService", "scheduleManaged", "serviceManaged" }
    BY DEF Sent
  <1>2. /\ Sent["enabled"] = BOOLEAN /\ Sent["passive"] = BOOLEAN /\ Sent["method"] = Method
        /\ Sent["cluster"] = Clusters /\ Sent["config"] = Configs
        /\ Sent["schedule"] = Schedules \cup {None}
        /\ Sent["count"] = (0 .. MaxInstances) \cup {None}
        /\ Sent["scheduleManaged"] = Flag /\ Sent["serviceManaged"] = Flag
    BY DEF Sent
  <1>3. /\ task.enabled \in BOOLEAN /\ task.passive \in BOOLEAN /\ task.method \in Method
        /\ task.cluster \in Clusters /\ task.config \in Configs
        /\ task.schedule \in Schedules \cup {None}
        /\ task.count \in (0 .. MaxInstances) \cup {None}
        /\ task.scheduleManaged \in Flag /\ task.serviceManaged \in Flag
    BY DEF TaskRow
  <1>4. enabled \in BOOLEAN
    BY <1>1, <1>2, <1>3, FieldTypes
  <1>5. passive \in BOOLEAN
    BY <1>1, <1>2, <1>3, FieldTypes
  <1>6. method \in Method
    BY <1>1, <1>2, <1>3, FieldTypes
  <1>7. cluster \in Clusters
    BY <1>1, <1>2, <1>3, FieldTypes
  <1>8. config \in Configs
    BY <1>1, <1>2, <1>3, FieldTypes
  <1>9. schedule \in Schedules \cup {None}
    <2>1. Field(r, "schedule", None) \in Schedules \cup {None}
      BY <1>1, <1>2, FieldTypes
    <2> QED BY <1>3, <2>1
  <1>10. count \in (0 .. MaxInstances) \cup {None}
    <2>1. Field(r, "count", None) \in (0 .. MaxInstances) \cup {None}
      BY <1>1, <1>2, FieldTypes
    <2>2. Field(r, "count", None) # None => r["count"] = Field(r, "count", None)
      BY DEF Field
    <2>3. 1 \in 0 .. MaxInstances
      BY BoundsAssumption
    <2> QED BY <1>3, <2>1, <2>2, <2>3
  <1>11. ASSUME NEW f \in { "scheduleManaged", "serviceManaged" }, NEW applies \in BOOLEAN
         PROVE  /\ managed(f, applies) \in Flag
                /\ applies /\ managed(f, applies) # FALSE /\ task[f] = TRUE
                   => managed(f, applies) = TRUE
    <2>1. Field(r, f, None) \in Flag
      <3>1. f \in DOMAIN Sent /\ Sent[f] = Flag /\ None \in Flag
        BY <1>1, <1>2 DEF Flag
      <3> QED BY <3>1, FieldTypes
    <2>2. Field(r, f, None) # None => r[f] = Field(r, f, None)
      BY DEF Field
    <2>3. task[f] \in Flag
      BY <1>3
    <2>4. None \in Flag
      BY DEF Flag
    <2>5. managed(f, applies) \in Flag
      BY <2>1, <2>2, <2>3, <2>4
    <2>6. CASE Field(r, f, None) # None
      <3>1. applies => managed(f, applies) # None
        BY <2>2, <2>6
      <3> QED BY <2>5, <3>1 DEF Flag
    <2>7. CASE Field(r, f, None) = None
      BY <2>5, <2>7
    <2> QED BY <2>5, <2>6, <2>7
  <1>12. isService \in BOOLEAN
    OBVIOUS
  <1>13. /\ scheduleManaged \in Flag
         /\ schedule # None /\ scheduleManaged # FALSE /\ task.scheduleManaged = TRUE
            => scheduleManaged = TRUE
    BY <1>11
  <1>14. /\ serviceManaged \in Flag
         /\ isService /\ serviceManaged # FALSE /\ task.serviceManaged = TRUE
            => serviceManaged = TRUE
    BY <1>11, <1>12
  <1>15. count # None => isService
    OBVIOUS
  <1>16. Inferred(task, r) = row2
    BY DEF Inferred
  <1> HIDE DEF count, schedule, scheduleManaged, serviceManaged, enabled, passive, method,
               cluster, config, isService
  <1>17. row2 \in TaskRow
    BY <1>4, <1>5, <1>6, <1>7, <1>8, <1>9, <1>10, <1>13, <1>14 DEF TaskRow
  <1>18. /\ row2.rule = task.rule /\ row2.target = task.target /\ row2.arn = task.arn
         /\ row2.method = method /\ row2.schedule = schedule /\ row2.count = count
         /\ row2.scheduleManaged = scheduleManaged /\ row2.serviceManaged = serviceManaged
    BY DEF TaskRow
  <1> HIDE DEF row2
  <1>19. ActiveSchedule(task, TRUE) /\ ActiveSchedule(row2, FALSE)
         => row2.scheduleManaged = TRUE
    BY <1>13, <1>17, <1>18, ActiveScheduleIs
  <1>20. ActiveService(task, TRUE) /\ ActiveService(row2, FALSE)
         => row2.serviceManaged = TRUE
    BY <1>14, <1>15, <1>17, <1>18, ActiveServiceIs
  <1> QED BY <1>16, <1>17, <1>18, <1>19, <1>20 DEF method

-----------------------------------------------------------------------------
(* A request as a whole.                                                   *)

LEMMA SynchronizeSteps ==
  ASSUME NEW w, NEW x \in Synchronize(w)
  PROVE  \/ w.task.passive /\ (w.old = None \/ w.old.passive) /\ x = w
         \/ \E v \in SyncSchedule(w) : IF v.raised THEN x = v ELSE x \in SyncService(v)
  BY DEF Synchronize, Then

LEMMA SynchronizeKeeps ==
  ASSUME NEW w \in Worlds, ~w.raised, NEW x \in Synchronize(w)
  PROVE  /\ x \in Worlds
         /\ x.misled => w.misled \/ DescribeFails
         /\ x.raised => ActiveIn(x.services) \subseteq ActiveIn(w.services)
         /\ x.task.method = w.task.method
  <1>1. CASE x = w
    BY <1>1
  <1>2. CASE \E v \in SyncSchedule(w) : IF v.raised THEN x = v ELSE x \in SyncService(v)
    <2>1. PICK v \in SyncSchedule(w) : IF v.raised THEN x = v ELSE x \in SyncService(v)
      BY <1>2
    <2>2. v \in Worlds /\ ScheduleHalf(w, v)
      BY SyncScheduleKeeps
    <2>3. v.services = w.services /\ v.misled = w.misled /\ v.task.method = w.task.method
      BY <2>2 DEF ScheduleHalf, SameForService
    <2>4. CASE v.raised
      BY <2>1, <2>2, <2>3, <2>4
    <2>5. CASE ~v.raised
      <3>1. x \in Worlds /\ ServiceHalf(v, x)
        BY <2>1, <2>2, <2>5, SyncServiceKeeps
      <3> QED BY <2>3, <3>1 DEF ServiceHalf, SameForSchedule
    <2> QED BY <2>4, <2>5
  <1> QED BY <1>1, <1>2, SynchronizeSteps

\* What holds of a row in the database: of every Task that ECS runs.
RowIsNamed(task) == task.method = "AWS ECS" /\ RuleIsNamed(task) /\ ServiceIsNamed(task)

ServiceSettled(task, s) ==
  /\ ServiceMatches(task, s)
  /\ ActiveService(task, TRUE) => task.arn \in ServiceKey /\ task.arn[1] = task.cluster

\* A request that succeeds leaves the rule as the row says, unless nothing about it
\* differs, and so with the service.
Synchronized(w, x) ==
  /\ RowIsNamed(x.task)
  /\ \/ ScheduleMatches(x.task, x.rule, x.target)
     \/ x.rule = w.rule /\ x.target = w.target /\ SameSchedule(w.old, x.task)
  /\ OnlyOf(w.old, w.services) /\ ~x.misled
     => \/ ServiceSettled(x.task, x.services)
        \/ x.services = w.services /\ SameService(w.old, x.task)

LEMMA SynchronizeDoes ==
  ASSUME NEW w, ScheduleReady(w), ServiceReady(w), NEW x \in Synchronize(w), ~x.raised
  PROVE  Synchronized(w, x)
  <1>1. /\ w \in Worlds /\ w.task \in TaskRow /\ (w.old # None => w.old \in TaskRow) /\ ~w.raised
        /\ w.task.method = "AWS ECS"
    BY DEF ScheduleReady, Worlds
  <1>2. CASE w.task.passive /\ (w.old = None \/ w.old.passive) /\ x = w
    <2>1. ~ActiveSchedule(w.task, TRUE) /\ ~ActiveService(w.task, TRUE)
      BY <1>2 DEF ActiveSchedule, ActiveService
    <2>2. w.old # None => ~ActiveSchedule(w.old, TRUE) /\ ~ActiveService(w.old, TRUE)
      BY <1>2 DEF ActiveSchedule, ActiveService
    <2>3. SameSchedule(w.old, w.task) /\ SameService(w.old, w.task)
      BY <2>1, <2>2 DEF SameSchedule, SameService
    <2>4. RowIsNamed(w.task)
      BY <1>1, <2>1 DEF RowIsNamed, RuleIsNamed, ServiceIsNamed
    <2> QED BY <1>2, <2>3, <2>4 DEF Synchronized
  <1>3. CASE \E v \in SyncSchedule(w) : IF v.raised THEN x = v ELSE x \in SyncService(v)
    <2>1. PICK v \in SyncSchedule(w) : IF v.raised THEN x = v ELSE x \in SyncService(v)
      BY <1>3
    <2>2. v \in Worlds /\ ScheduleHalf(w, v)
      BY <1>1, SyncScheduleKeeps
    <2>3. ~v.raised /\ x \in SyncService(v)
      BY <2>1
    <2>4. /\ RuleIsNamed(v.task)
          /\ \/ ScheduleMatches(v.task, v.rule, v.target)
             \/ v = w /\ SameSchedule(w.old, w.task)
      BY <2>3, SyncScheduleDoes
    <2>5. x \in Worlds /\ ServiceHalf(v, x)
      BY <2>2, <2>3, SyncServiceKeeps
    <2>6. /\ SameForSchedule(x.task, v.task) /\ x.rule = v.rule /\ x.target = v.target
          /\ v.services = w.services
      BY <2>2, <2>5 DEF ServiceHalf, ScheduleHalf
    <2>7. ActiveSchedule(x.task, TRUE) <=> ActiveSchedule(v.task, TRUE)
      BY <2>6 DEF ActiveSchedule, SameForSchedule
    <2>8. RuleIsNamed(x.task)
      BY <2>4, <2>6, <2>7 DEF RuleIsNamed, SameForSchedule
    <2>9. x.task.method = "AWS ECS" /\ v.task.method = "AWS ECS"
      BY <1>1, <2>2, <2>6 DEF ScheduleHalf, SameForService, SameForSchedule
    <2>10. \/ ScheduleMatches(x.task, x.rule, x.target)
           \/ x.rule = w.rule /\ x.target = w.target /\ SameSchedule(w.old, x.task)
      <3>1. CASE ScheduleMatches(v.task, v.rule, v.target)
        BY <2>6, <2>7, <3>1 DEF ScheduleMatches, SameForSchedule
      <3>2. CASE v = w /\ SameSchedule(w.old, w.task)
        BY <2>6, <2>7, <3>2 DEF SameSchedule, SameForSchedule
      <3> QED BY <2>4, <3>1, <3>2
    <2>11. /\ v.old = None <=> w.old = None
           /\ w.old # None => /\ SameForService(v.old, w.old)
                              /\ ActiveService(v.old, TRUE) <=> ActiveService(w.old, TRUE)
           /\ SameForService(v.task, w.task) /\ v.info = None
           /\ ActiveService(v.task, FALSE) <=> ActiveService(w.task, FALSE)
      BY <2>2 DEF ScheduleHalf, SameForService, ActiveService, ServiceReady
    <2>12. ServiceReady(v)
      <3>1. w.old # None =>
              /\ v.old.method = "AWS ECS" /\ ServiceIsNamed(v.old) /\ v.task.arn = v.old.arn
        BY <2>11 DEF ServiceReady, ServiceIsNamed, SameForService
      <3>2. w.old # None /\ ActiveService(w.old, TRUE) /\ ActiveService(w.task, FALSE)
            => v.task.serviceManaged = TRUE
        BY <2>11 DEF ServiceReady, SameForService
      <3> QED BY <2>2, <2>3, <2>9, <2>11, <3>1, <3>2 DEF ServiceReady
    <2>13. /\ ServiceIsNamed(x.task)
           /\ OnlyOf(v.old, v.services) /\ ~x.misled
              => \/ /\ ServiceMatches(x.task, x.services)
                    /\ ActiveService(x.task, TRUE)
                       => x.task.arn \in ServiceKey /\ x.task.arn[1] = x.task.cluster
                 \/ x = v /\ SameService(v.old, v.task)
      BY <2>3, <2>12, SyncServiceDoes
    <2>14. OnlyOf(w.old, w.services) => OnlyOf(v.old, v.services)
      BY <2>6, <2>11 DEF OnlyOf, OwnOnly, SameForService
    <2>15. SameService(v.old, v.task) => SameService(w.old, v.task)
      BY <2>11 DEF SameService, SameForService
    <2>16. OnlyOf(w.old, w.services) /\ ~x.misled
           => \/ ServiceSettled(x.task, x.services)
              \/ x.services = w.services /\ SameService(w.old, x.task)
      BY <2>6, <2>13, <2>14, <2>15 DEF ServiceSettled
    <2> QED BY <2>8, <2>9, <2>10, <2>13, <2>16 DEF Synchronized, RowIsNamed
  <1> QED BY <1>2, <1>3, SynchronizeSteps

-----------------------------------------------------------------------------
(* The steps of the specification in terms of the outcomes of requests.    *)

StartWorld(task) == [World EXCEPT !.task = task]

Before == IF row = None THEN NewTask ELSE row

\* The end of a request with the outcome x; task is what its row becomes.
Ends(x, task) ==
  /\ row' = IF x.raised THEN row ELSE task
  /\ rule' = x.rule /\ target' = x.target /\ services' = x.services
  /\ fault' = \/ fault \/ x.misled
              \/ x.raised /\ <<rule, target, services>> # <<x.rule, x.target, x.services>>
              \/ Exists /\ x.task.method # row.method

Requested(r, x) ==
  /\ row # Deleted
  /\ x \in Synchronize(StartWorld(Inferred(Before, r)))
  /\ Ends(x, x.task)

DeleteSchedule(w) == IF ActiveSchedule(row, TRUE) THEN TeardownSchedule(w) ELSE {w}
DeleteServices(w) == IF ActiveService(row, TRUE) THEN TeardownService(w) ELSE {w}

Deletion(x) ==
  /\ Exists
  /\ x \in Then(DeleteSchedule(World), DeleteServices)
  /\ Ends(x, Deleted)

AwsStep ==
  \/ \E key \in ServiceKey : Drains(key) \/ IsForgotten(key) \/ RemoveServiceByHand(key)
  \/ RemoveRuleByHand

LEMMA NextSteps ==
  ASSUME Next
  PROVE  \/ UNCHANGED vars
         \/ \E r \in Requests : \E x : Requested(r, x)
         \/ \E x : Deletion(x)
         \/ AwsStep
  <1>1. ASSUME NEW r \in Requests, Create(r)
        PROVE  UNCHANGED vars \/ \E x : Requested(r, x)
    <2>1. CASE Refused(NewTask, r)
      BY <1>1, <2>1 DEF Create, Reject
    <2>2. CASE ~Refused(NewTask, r)
      <3>1. row = None /\ Finish(Synchronize(StartWorld(Inferred(NewTask, r))), FALSE)
        BY <1>1, <2>2 DEF Create, StartWorld
      <3>2. PICK x \in Synchronize(StartWorld(Inferred(NewTask, r))) : Ends(x, x.task)
        BY <3>1 DEF Finish, Ends
      <3> QED BY <3>1, <3>2, NoneIsApart DEF Requested, Before
    <2> QED BY <2>1, <2>2
  <1>2. ASSUME NEW r \in Requests, Edit(r)
        PROVE  UNCHANGED vars \/ \E x : Requested(r, x)
    <2>1. CASE Refused(row, r)
      BY <1>2, <2>1 DEF Edit, Reject
    <2>2. CASE ~Refused(row, r)
      <3>1. Exists /\ Finish(Synchronize(StartWorld(Inferred(row, r))), FALSE)
        BY <1>2, <2>2 DEF Edit, StartWorld
      <3>2. PICK x \in Synchronize(StartWorld(Inferred(row, r))) : Ends(x, x.task)
        BY <3>1 DEF Finish, Ends
      <3> QED BY <3>1, <3>2 DEF Requested, Before, Exists
    <2> QED BY <2>1, <2>2
  <1>3. ASSUME Delete
        PROVE  \E x : Deletion(x)
    <2>1. Exists /\ Finish(Then(DeleteSchedule(World), DeleteServices), TRUE)
      BY <1>3 DEF Delete, DeleteSchedule, DeleteServices
    <2>2. PICK x \in Then(DeleteSchedule(World), DeleteServices) : Ends(x, Deleted)
      BY <2>1 DEF Finish, Ends
    <2> QED BY <2>1, <2>2 DEF Deletion
  <1> QED BY <1>1, <1>2, <1>3 DEF Next, AwsStep

LEMMA StartWorldIs ==
  ASSUME TypeOK, row # Deleted, NEW task \in TaskRow, NEW w, w = StartWorld(task)
  PROVE  /\ w \in Worlds /\ w.old = row /\ w.task = task /\ w.rule = rule
         /\ w.target = target /\ w.services = services /\ w.info = None
         /\ ~w.misled /\ ~w.raised
  BY DEF StartWorld, World, Worlds, TypeOK

LEMMA WorldIs ==
  ASSUME TypeOK, Exists
  PROVE  /\ World \in Worlds /\ World.old = row /\ World.task = row /\ World.rule = rule
         /\ World.target = target /\ World.services = services /\ World.info = None
         /\ ~World.misled /\ ~World.raised
  BY DEF World, Worlds, TypeOK, Exists

LEMMA NewTaskType == NewTask \in TaskRow /\ NewTask.method = "AWS ECS"
  BY ChoicesAssumption DEF NewTask, TaskRow, Flag, Method

LEMMA RequestTypes ==
  ASSUME TypeOK, NEW r \in Requests, NEW x, Requested(r, x)
  PROVE  /\ x \in Worlds /\ x.task \in TaskRow /\ (x.misled => DescribeFails)
         /\ x.raised => ActiveIn(x.services) \subseteq Active
         /\ x.task.method = Field(r, "method", Before.method)
         /\ Inferred(Before, r) \in TaskRow
  <1>1. Before \in TaskRow
    BY NewTaskType DEF Before, TypeOK, Requested
  <1> DEFINE task == Inferred(Before, r)
             w == StartWorld(task)
  <1>2. task \in TaskRow /\ task.method = Field(r, "method", Before.method)
    BY <1>1, InferredFields
  <1> HIDE DEF task
  <1>3. /\ w \in Worlds /\ w.task = task /\ w.services = services /\ ~w.misled /\ ~w.raised
    BY <1>2, StartWorldIs DEF Requested
  <1>4. x \in Synchronize(w)
    BY DEF Requested, task
  <1> HIDE DEF w
  <1>5. /\ x \in Worlds
        /\ x.misled => w.misled \/ DescribeFails
        /\ x.raised => ActiveIn(x.services) \subseteq ActiveIn(w.services)
        /\ x.task.method = w.task.method
    BY <1>3, <1>4, SynchronizeKeeps
  <1>6. Active = ActiveIn(services)
    BY DEF Active, ActiveIn
  <1> QED BY <1>2, <1>3, <1>5, <1>6 DEF Worlds, task

LEMMA DeletionDoes ==
  ASSUME TypeOK, NEW x, Deletion(x)
  PROVE  /\ x \in Worlds /\ (x.misled => DescribeFails)
         /\ ActiveIn(x.services) \subseteq Active
         /\ x.task.method = row.method
         /\ RowIsNamed(row) /\ ~x.raised
            => /\ ActiveSchedule(row, TRUE) => x.rule = None /\ x.target = None
               /\ ~ActiveSchedule(row, TRUE) => x.rule = rule /\ x.target = target
               /\ ActiveService(row, TRUE) /\ OwnOnly(row, services) /\ ~x.misled
                  => ActiveIn(x.services) = {}
  <1>1. /\ World \in Worlds /\ World.old = row /\ World.task = row /\ World.rule = rule
        /\ World.target = target /\ World.services = services
        /\ ~World.misled /\ ~World.raised /\ row \in TaskRow /\ row # None
    BY WorldIs DEF Deletion, Exists, TypeOK
  <1>2. PICK v \in DeleteSchedule(World) : IF v.raised THEN x = v ELSE x \in DeleteServices(v)
    BY DEF Deletion, Then
  <1>3. /\ v \in Worlds /\ v.services = services /\ ~v.misled /\ v.task.method = row.method
        /\ v.old # None /\ SameForService(v.old, row)
        /\ RowIsNamed(row) /\ ~v.raised
           => /\ ActiveSchedule(row, TRUE) => v.rule = None /\ v.target = None
              /\ ~ActiveSchedule(row, TRUE) => v.rule = rule /\ v.target = target
    <2> DEFINE w == World
    <2>1. w \in Worlds /\ w.old # None /\ ~w.raised
      BY <1>1
    <2>2. CASE ActiveSchedule(row, TRUE)
      <3>1. v \in TeardownSchedule(w)
        BY <1>2, <2>2 DEF DeleteSchedule
      <3> HIDE DEF w
      <3>2. /\ v \in Worlds /\ ScheduleHalf(w, v) /\ v.old # None /\ v.task = w.task
            /\ w.old.method = "AWS ECS" /\ w.old.scheduleManaged # FALSE /\ ~v.raised
               => /\ v.target = IF w.old.target THEN None ELSE w.target
                  /\ v.rule = IF w.old.rule THEN None ELSE w.rule
        BY <2>1, <3>1, TeardownScheduleDoes
      <3>3. row.scheduleManaged # FALSE
        BY <1>1, <2>2, ActiveScheduleIs
      <3>4. /\ v.services = services /\ ~v.misled /\ v.task.method = row.method
            /\ SameForService(v.old, row)
        BY <1>1, <2>1, <3>2 DEF ScheduleHalf, w
      <3>5. RowIsNamed(row) /\ ~v.raised => v.rule = None /\ v.target = None
        BY <1>1, <2>2, <3>2, <3>3 DEF RowIsNamed, RuleIsNamed, w
      <3> QED BY <2>2, <3>2, <3>4, <3>5
    <2>3. CASE ~ActiveSchedule(row, TRUE)
      <3>1. v = World
        BY <1>2, <2>3 DEF DeleteSchedule
      <3> QED BY <1>1, <2>3, <3>1 DEF SameForService
    <2> QED BY <2>2, <2>3
  <1>4. ActiveIn(services) = Active
    BY DEF Active, ActiveIn
  <1>5. CASE v.raised \/ ~ActiveService(row, TRUE)
    <2>1. x = v
      BY <1>2, <1>5 DEF DeleteServices
    <2> QED BY <1>3, <1>4, <1>5, <2>1
  <1>6. CASE ~v.raised /\ ActiveService(row, TRUE)
    <2>1. x \in TeardownService(v)
      BY <1>2, <1>6 DEF DeleteServices
    <2>2. /\ x \in Worlds /\ ServiceStep(v, x)
          /\ /\ v.old.method = "AWS ECS" /\ OwnOnly(v.old, v.services)
             /\ ~x.raised /\ ~x.misled
             => ActiveIn(x.services) = {}
      BY <1>3, <1>6, <2>1, TeardownServiceDoes
    <2>3. /\ x.task = v.task /\ x.rule = v.rule /\ x.target = v.target
          /\ x.misled => DescribeFails
          /\ ActiveIn(x.services) \subseteq Active
      BY <1>3, <1>4, <2>2 DEF ServiceStep
    <2>4. OwnOnly(row, services) => OwnOnly(v.old, v.services)
      BY <1>3 DEF OwnOnly, SameForService
    <2>5. RowIsNamed(row) => v.old.method = "AWS ECS"
      BY <1>3 DEF RowIsNamed, SameForService
    <2> QED BY <1>3, <1>6, <2>2, <2>3, <2>4, <2>5
  <1> QED BY <1>5, <1>6

-----------------------------------------------------------------------------
(* Type correctness.                                                       *)

LEMMA EndsTypes ==
  ASSUME TypeOK, NEW x \in Worlds, NEW task \in TaskRow \cup {Deleted}, Ends(x, task)
  PROVE  TypeOK'
  <1>1. row' \in TaskRow \cup {None, Deleted}
    BY DEF Ends, TypeOK
  <1>2. /\ rule' \in Schedules \cup {None} /\ target' \in Target \cup {None}
        /\ services' \in [ServiceKey -> Service]
    BY DEF Ends, Worlds
  <1>3. fault' \in BOOLEAN
    BY DEF Ends, TypeOK, Worlds
  <1> QED BY <1>1, <1>2, <1>3 DEF TypeOK

LEMMA ServiceTypes ==
  ASSUME TypeOK, NEW key \in ServiceKey, NEW status \in { "absent", "DRAINING", "INACTIVE" },
         services' = [services EXCEPT ![key] = Idle(status)]
  PROVE  services' \in [ServiceKey -> Service] /\ ActiveIn(services') = Active \ {key}
  <1>1. services \in [ServiceKey -> Service]
    BY DEF TypeOK
  <1> DEFINE s == services
  <1> HIDE DEF s
  <1>2. s \in [ServiceKey -> Service]
    BY <1>1 DEF s
  <1>3. /\ [s EXCEPT ![key] = Idle(status)] \in [ServiceKey -> Service]
        /\ ActiveIn([s EXCEPT ![key] = Idle(status)]) = ActiveIn(s) \ {key}
    BY <1>2, IdleIsAService
  <1>4. ActiveIn(s) = Active
    BY DEF ActiveIn, Active, s
  <1> QED BY <1>3, <1>4 DEF s

\* What AWS and its other users do to a service only ever ends it; unless it is
\* known, it touches neither the rule nor a service that runs.
LEMMA AwsStepDoes ==
  ASSUME TypeOK, AwsStep
  PROVE  /\ TypeOK' /\ row' = row
         /\ ActiveIn(services') \subseteq Active
         /\ \/ fault' = TRUE
            \/ /\ rule' = rule /\ target' = target /\ fault' = fault
               /\ ActiveIn(services') = Active
               /\ \A key \in Active : services'[key] = services[key]
  <1>1. ASSUME NEW key \in ServiceKey, Drains(key) \/ IsForgotten(key)
        PROVE  /\ TypeOK' /\ row' = row /\ rule' = rule /\ target' = target /\ fault' = fault
               /\ ActiveIn(services') = Active
               /\ \A other \in Active : services'[other] = services[other]
    <2>1. PICK status \in { "absent", "DRAINING", "INACTIVE" } :
            services' = [services EXCEPT ![key] = Idle(status)]
      BY <1>1 DEF Drains, IsForgotten, Absent
    <2>2. services' \in [ServiceKey -> Service] /\ ActiveIn(services') = Active \ {key}
      BY <2>1, ServiceTypes
    <2>3. key \notin Active
      BY <1>1 DEF Drains, IsForgotten, Active
    <2>4. \A other \in Active : services'[other] = services[other]
      BY <2>1, <2>3 DEF Active, TypeOK
    <2>5. row' = row /\ rule' = rule /\ target' = target /\ fault' = fault
      BY <1>1 DEF Drains, IsForgotten
    <2>6. TypeOK'
      BY <2>2, <2>5 DEF TypeOK
    <2> QED BY <2>2, <2>3, <2>4, <2>5, <2>6
  <1>2. ASSUME NEW key \in ServiceKey, RemoveServiceByHand(key)
        PROVE  TypeOK' /\ row' = row /\ fault' = TRUE /\ ActiveIn(services') \subseteq Active
    <2>1. services' \in [ServiceKey -> Service] /\ ActiveIn(services') = Active \ {key}
      BY <1>2, ServiceTypes DEF RemoveServiceByHand
    <2> QED BY <1>2, <2>1 DEF RemoveServiceByHand, TypeOK
  <1>3. ASSUME RemoveRuleByHand
        PROVE  TypeOK' /\ row' = row /\ fault' = TRUE /\ ActiveIn(services') \subseteq Active
    BY <1>3 DEF RemoveRuleByHand, TypeOK, Active, ActiveIn
  <1> QED BY <1>1, <1>2, <1>3 DEF AwsStep

\* The row, the rule and the services are of their types: none is ever a value that
\* no request and no answer of AWS can have put there.
THEOREM TypeCorrect == Spec => []TypeOK
  <1>1. Init => TypeOK
    BY DEF Init, TypeOK, Absent, Service
  <1>2. TypeOK /\ [Next]_vars => TypeOK'
    <2> SUFFICES ASSUME TypeOK, [Next]_vars PROVE TypeOK'
      OBVIOUS
    <2>1. CASE UNCHANGED vars
      BY <2>1 DEF vars, TypeOK
    <2>2. ASSUME NEW r \in Requests, NEW x, Requested(r, x)
          PROVE  TypeOK'
      BY <2>2, RequestTypes, EndsTypes DEF Requested
    <2>3. ASSUME NEW x, Deletion(x)
          PROVE  TypeOK'
      BY <2>3, DeletionDoes, EndsTypes DEF Deletion
    <2>4. CASE AwsStep
      BY <2>4, AwsStepDoes
    <2> QED BY <2>1, <2>2, <2>3, <2>4, NextSteps
  <1> QED BY <1>1, <1>2, PTL DEF Spec

-----------------------------------------------------------------------------
(* The inductive invariant, for Tasks that ECS runs.  Other methods set up *)
(* no service, so that the row of such a Task may say more than AWS runs.  *)

EcsOnly == \A r \in Requests : Field(r, "method", "AWS ECS") = "AWS ECS"

\* The Task of which a rule and services may be left.
Owner == IF Exists THEN row ELSE None

RowNamed == Exists => RowIsNamed(row)

\* Unless AWS has failed to say that a service is there, nothing runs but the
\* service of the Task, in its cluster.
NothingElseRuns == (fault => ~DescribeFails) => OnlyOf(Owner, services)

IInv == TypeOK /\ RowNamed /\ NothingElseRuns /\ AwsIsAsTheRowSays

Matches(old, r, t, s) ==
  IF old = None THEN r = None /\ t = None /\ ActiveIn(s) = {}
  ELSE ScheduleMatches(old, r, t) /\ ServiceMatches(old, s)

LEMMA MatchesIs ==
  ASSUME TypeOK
  PROVE  (ScheduleIsAsTheRowSays /\ ServiceIsAsTheRowSays)
           <=> Matches(Owner, rule, target, services)
  <1>1. Active = ActiveIn(services)
    BY DEF Active, ActiveIn
  <1>2. CASE Exists
    BY <1>1, <1>2, NoneIsApart
    DEF ScheduleIsAsTheRowSays, ServiceIsAsTheRowSays, Scheduled, Serves, Matches, Owner,
        ScheduleMatches, ServiceMatches, Exists
  <1>3. CASE ~Exists
    BY <1>1, <1>3
    DEF ScheduleIsAsTheRowSays, ServiceIsAsTheRowSays, Scheduled, Serves, Matches, Owner
  <1> QED BY <1>2, <1>3

LEMMA MatchesIsPrimed ==
  ASSUME TypeOK'
  PROVE  /\ Exists' /\ ScheduleMatches(row', rule', target') => ScheduleIsAsTheRowSays'
         /\ Exists' /\ ServiceMatches(row', services') => ServiceIsAsTheRowSays'
         /\ ~Exists' /\ rule' = None /\ target' = None => ScheduleIsAsTheRowSays'
         /\ ~Exists' /\ ActiveIn(services') = {} => ServiceIsAsTheRowSays'
  <1>1. Active' = ActiveIn(services')
    BY DEF Active, ActiveIn
  <1>2. CASE Exists'
    <2>1. Scheduled' <=> ActiveSchedule(row', TRUE)
      BY <1>2 DEF Scheduled
    <2>2. Serves' <=> ActiveService(row', TRUE)
      BY <1>2 DEF Serves
    <2> QED BY <1>1, <1>2, <2>1, <2>2
      DEF ScheduleIsAsTheRowSays, ServiceIsAsTheRowSays, ScheduleMatches, ServiceMatches
  <1>3. CASE ~Exists'
    BY <1>1, <1>3
    DEF ScheduleIsAsTheRowSays, ServiceIsAsTheRowSays, Scheduled, Serves
  <1> QED BY <1>2, <1>3

\* What matches a row matches another that differs in nothing that matters.
LEMMA SameMatches ==
  ASSUME NEW old, NEW task, NEW r, NEW t, NEW s
  PROVE  /\ old # None /\ ScheduleMatches(old, r, t) /\ SameSchedule(old, task)
            => ScheduleMatches(task, r, t)
         /\ r = None /\ t = None /\ SameSchedule(None, task) => ScheduleMatches(task, r, t)
         /\ old # None /\ ServiceMatches(old, s) /\ SameService(old, task)
            => ServiceMatches(task, s)
         /\ ActiveIn(s) = {} /\ SameService(None, task) => ServiceMatches(task, s)
  BY DEF ScheduleMatches, ServiceMatches, SameSchedule, SameService

LEMMA OnlyOfLess ==
  ASSUME NEW old, NEW task, NEW s, NEW fewer, OnlyOf(old, s)
  PROVE  /\ ActiveIn(fewer) \subseteq ActiveIn(s) => OnlyOf(old, fewer)
         /\ task # None /\ SameService(old, task) => OnlyOf(task, s)
  BY DEF OnlyOf, OwnOnly, SameService

LEMMA SettledIsOnly ==
  ASSUME NEW task, NEW s, task # None, ServiceSettled(task, s)
  PROVE  OnlyOf(task, s)
  BY DEF ServiceSettled, ServiceMatches, OnlyOf, OwnOnly

-----------------------------------------------------------------------------
(* What a request makes of it.                                             *)

LEMMA RequestReady ==
  ASSUME TypeOK, RowNamed, EcsOnly, row # Deleted, NEW r \in Requests,
         NEW w, w = StartWorld(Inferred(Before, r))
  PROVE  /\ ScheduleReady(w) /\ ServiceReady(w) /\ w.old = Owner
         /\ w.rule = rule /\ w.target = target /\ w.services = services
         /\ Field(r, "method", Before.method) = "AWS ECS"
         /\ Exists => row.method = "AWS ECS"
  <1>1. Before \in TaskRow
    BY NewTaskType DEF Before, TypeOK
  <1> DEFINE task == Inferred(Before, r)
  <1>2. /\ task \in TaskRow /\ task.method = Field(r, "method", Before.method)
        /\ task.rule = Before.rule /\ task.target = Before.target
        /\ task.arn = Before.arn
        /\ ActiveSchedule(Before, TRUE) /\ ActiveSchedule(task, FALSE)
           => task.scheduleManaged = TRUE
        /\ ActiveService(Before, TRUE) /\ ActiveService(task, FALSE)
           => task.serviceManaged = TRUE
    BY <1>1, InferredFields
  <1>3. Before.method = "AWS ECS"
    BY NewTaskType DEF Before, TypeOK, RowNamed, RowIsNamed, Exists
  <1>4. Field(r, "method", Before.method) = "AWS ECS"
    BY <1>3 DEF EcsOnly
  <1>5. w = StartWorld(task)
    OBVIOUS
  <1> HIDE DEF task
  <1>6. /\ w \in Worlds /\ w.old = row /\ w.task = task /\ w.rule = rule
        /\ w.target = target /\ w.services = services /\ w.info = None
        /\ ~w.misled /\ ~w.raised
    BY <1>2, <1>5, StartWorldIs
  <1>7. row # None => Exists /\ Before = row /\ RowIsNamed(row)
    BY DEF Exists, Before, RowNamed
  <1>8. w.old = Owner
    BY <1>6 DEF Owner, Exists
  <1>9. ScheduleReady(w)
    BY <1>2, <1>4, <1>6, <1>7 DEF ScheduleReady, RowIsNamed
  <1>10. ServiceReady(w)
    BY <1>2, <1>4, <1>6, <1>7 DEF ServiceReady, RowIsNamed
  <1> QED BY <1>4, <1>6, <1>8, <1>9, <1>10 DEF RowNamed, RowIsNamed

\* The outcomes of a request: where it raises, the row and what it names stay; else
\* the rule and the service are settled, or as they were because nothing differs.
LEMMA RequestDoes ==
  ASSUME TypeOK, RowNamed, EcsOnly, NEW r \in Requests, NEW x, Requested(r, x)
  PROVE  /\ TypeOK'
         /\ fault' <=> \/ fault \/ x.misled
                       \/ x.raised /\ <<rule, target, services>> # <<x.rule, x.target, x.services>>
         /\ x.misled => DescribeFails
         /\ x.raised => row' = row /\ ActiveIn(services') \subseteq ActiveIn(services)
         /\ ~x.raised
            => /\ row' \in TaskRow /\ Exists' /\ RowIsNamed(row')
               /\ \/ ScheduleMatches(row', rule', target')
                  \/ rule' = rule /\ target' = target /\ SameSchedule(Owner, row')
               /\ OnlyOf(Owner, services) /\ ~x.misled
                  => \/ ServiceSettled(row', services')
                     \/ services' = services /\ SameService(Owner, row')
  <1>1. /\ x \in Worlds /\ x.task \in TaskRow /\ (x.misled => DescribeFails)
        /\ x.raised => ActiveIn(x.services) \subseteq Active
        /\ x.task.method = Field(r, "method", Before.method)
    BY RequestTypes
  <1> DEFINE w == StartWorld(Inferred(Before, r))
  <1>2. x \in Synchronize(w) /\ Ends(x, x.task) /\ row # Deleted
    BY DEF Requested
  <1>3. w = StartWorld(Inferred(Before, r))
    OBVIOUS
  <1> HIDE DEF w
  <1>4. /\ ScheduleReady(w) /\ ServiceReady(w) /\ w.old = Owner
        /\ w.rule = rule /\ w.target = target /\ w.services = services
        /\ Field(r, "method", Before.method) = "AWS ECS"
        /\ Exists => row.method = "AWS ECS"
    BY <1>2, <1>3, RequestReady
  <1>5. TypeOK'
    BY <1>1, <1>2, EndsTypes
  <1>6. fault' <=> \/ fault \/ x.misled
                   \/ x.raised /\ <<rule, target, services>> # <<x.rule, x.target, x.services>>
    BY <1>1, <1>2, <1>4 DEF Ends
  <1>7. ActiveIn(services) = Active /\ services' = x.services
    BY <1>2 DEF Active, ActiveIn, Ends
  <1>8. CASE x.raised
    BY <1>1, <1>2, <1>5, <1>6, <1>7, <1>8 DEF Ends
  <1>9. CASE ~x.raised
    <2>1. /\ row' = x.task /\ rule' = x.rule /\ target' = x.target
      BY <1>2, <1>9 DEF Ends
    <2>2. Exists'
      BY <1>1, <2>1, NoneIsApart DEF Exists
    <2>3. Synchronized(w, x)
      BY <1>2, <1>4, <1>9, SynchronizeDoes
    <2> QED BY <1>1, <1>4, <1>5, <1>6, <1>7, <1>9, <2>1, <2>2, <2>3 DEF Synchronized
  <1> QED BY <1>8, <1>9

LEMMA RequestKeepsInv ==
  ASSUME IInv, EcsOnly, NEW r \in Requests, NEW x, Requested(r, x)
  PROVE  IInv'
  <1>1. TypeOK /\ RowNamed /\ NothingElseRuns /\ AwsIsAsTheRowSays
    BY DEF IInv
  <1>2. /\ TypeOK'
        /\ fault' <=> \/ fault \/ x.misled
                      \/ x.raised /\ <<rule, target, services>> # <<x.rule, x.target, x.services>>
        /\ x.misled => DescribeFails
        /\ x.raised => row' = row /\ ActiveIn(services') \subseteq ActiveIn(services)
    BY <1>1, RequestDoes
  <1>3. ~x.raised
        => /\ row' \in TaskRow /\ Exists' /\ RowIsNamed(row')
           /\ \/ ScheduleMatches(row', rule', target')
              \/ rule' = rule /\ target' = target /\ SameSchedule(Owner, row')
           /\ OnlyOf(Owner, services) /\ ~x.misled
              => \/ ServiceSettled(row', services')
                 \/ services' = services /\ SameService(Owner, row')
    BY <1>1, RequestDoes
  <1>4. RowNamed'
    BY <1>1, <1>2, <1>3 DEF RowNamed, Exists
  <1>5. row' = row => Owner' = Owner
    BY DEF Owner, Exists
  <1>6. ~x.raised => Owner' = row' /\ row' # None
    BY <1>3 DEF Owner, Exists
  <1>7. NothingElseRuns'
    <2> SUFFICES ASSUME fault' => ~DescribeFails
                 PROVE  OnlyOf(Owner', services')
      BY DEF NothingElseRuns
    <2>1. OnlyOf(Owner, services) /\ ~x.misled
      BY <1>1, <1>2 DEF NothingElseRuns
    <2>2. CASE x.raised
      BY <1>2, <1>5, <2>1, <2>2, OnlyOfLess
    <2>3. CASE ~x.raised /\ ServiceSettled(row', services')
      BY <1>6, <2>3, SettledIsOnly
    <2>4. CASE ~x.raised /\ services' = services /\ SameService(Owner, row')
      BY <1>6, <2>1, <2>4, OnlyOfLess
    <2> QED BY <1>3, <2>1, <2>2, <2>3, <2>4
  <1>8. AwsIsAsTheRowSays'
    <2> SUFFICES ASSUME ~fault' PROVE ScheduleIsAsTheRowSays' /\ ServiceIsAsTheRowSays'
      BY DEF AwsIsAsTheRowSays
    <2>1. ~fault /\ ~x.misled /\ Matches(Owner, rule, target, services)
      BY <1>1, <1>2, MatchesIs DEF AwsIsAsTheRowSays
    <2>2. OnlyOf(Owner, services)
      BY <1>1, <2>1 DEF NothingElseRuns
    <2>3. CASE x.raised
      <3>1. <<row, rule, target, services>>' = <<row, rule, target, services>>
        BY <1>2, <2>3 DEF Requested, Ends
      <3>2. ScheduleIsAsTheRowSays /\ ServiceIsAsTheRowSays
        BY <1>1, <2>1 DEF AwsIsAsTheRowSays
      <3> QED BY <3>1, <3>2
          DEF ScheduleIsAsTheRowSays, ServiceIsAsTheRowSays, Scheduled, Serves, Exists, Active
    <2>4. CASE ~x.raised
      <3>1. ScheduleMatches(row', rule', target')
        BY <1>3, <2>1, <2>4, SameMatches DEF Matches
      <3>2. ServiceMatches(row', services')
        BY <1>3, <2>1, <2>2, <2>4, SameMatches DEF Matches, ServiceSettled
      <3> QED BY <1>2, <1>3, <2>4, <3>1, <3>2, MatchesIsPrimed
    <2> QED BY <2>3, <2>4
  <1> QED BY <1>2, <1>4, <1>7, <1>8 DEF IInv

LEMMA DeletionKeepsInv ==
  ASSUME IInv, NEW x, Deletion(x)
  PROVE  IInv'
  <1>1. /\ TypeOK /\ RowNamed /\ NothingElseRuns /\ AwsIsAsTheRowSays
        /\ Exists /\ RowIsNamed(row) /\ Ends(x, Deleted)
    BY DEF IInv, RowNamed, Deletion
  <1>2. /\ x \in Worlds /\ (x.misled => DescribeFails)
        /\ ActiveIn(x.services) \subseteq Active
        /\ x.task.method = row.method
        /\ ~x.raised
           => /\ ActiveSchedule(row, TRUE) => x.rule = None /\ x.target = None
              /\ ~ActiveSchedule(row, TRUE) => x.rule = rule /\ x.target = target
              /\ ActiveService(row, TRUE) /\ OwnOnly(row, services) /\ ~x.misled
                 => ActiveIn(x.services) = {}
    BY <1>1, DeletionDoes
  <1>3. TypeOK'
    BY <1>1, <1>2, EndsTypes
  <1>4. /\ rule' = x.rule /\ target' = x.target /\ services' = x.services
        /\ row' = IF x.raised THEN row ELSE Deleted
        /\ fault' <=> \/ fault \/ x.misled
                      \/ x.raised /\ <<rule, target, services>> # <<x.rule, x.target, x.services>>
    BY <1>1, <1>2 DEF Ends
  <1>5. Owner = row /\ Active = ActiveIn(services)
    BY <1>1 DEF Owner, Active, ActiveIn
  <1>6. /\ x.raised => Owner' = row /\ (Exists' <=> Exists)
        /\ ~x.raised => Owner' = None /\ ~Exists'
    BY <1>1, <1>4 DEF Owner, Exists
  <1>7. RowNamed'
    BY <1>1, <1>4, <1>6 DEF RowNamed
  <1>8. ASSUME fault' => ~DescribeFails
        PROVE  OnlyOf(row, services) /\ ~x.misled /\ (~x.raised => ActiveIn(services') = {})
    <2>1. OnlyOf(row, services) /\ ~x.misled
      BY <1>1, <1>2, <1>4, <1>5, <1>8 DEF NothingElseRuns
    <2>2. ASSUME ~x.raised PROVE ActiveIn(services') = {}
      <3>1. CASE ActiveIn(services) = {}
        BY <1>2, <1>4, <1>5, <3>1
      <3>2. CASE ActiveIn(services) # {}
        BY <1>2, <1>4, <2>1, <2>2, <3>2 DEF OnlyOf
      <3> QED BY <3>1, <3>2
    <2> QED BY <2>1, <2>2
  <1>9. NothingElseRuns'
    <2> SUFFICES ASSUME fault' => ~DescribeFails
                 PROVE  OnlyOf(Owner', services')
      BY DEF NothingElseRuns
    <2>1. CASE x.raised
      BY <1>2, <1>4, <1>5, <1>6, <1>8, <2>1, OnlyOfLess
    <2>2. CASE ~x.raised
      BY <1>8, <2>2 DEF OnlyOf
    <2> QED BY <2>1, <2>2
  <1>10. AwsIsAsTheRowSays'
    <2> SUFFICES ASSUME ~fault' PROVE ScheduleIsAsTheRowSays' /\ ServiceIsAsTheRowSays'
      BY DEF AwsIsAsTheRowSays
    <2>1. ScheduleIsAsTheRowSays /\ ServiceIsAsTheRowSays
      BY <1>1, <1>4 DEF AwsIsAsTheRowSays
    <2>2. CASE x.raised
      <3>1. <<row, rule, target, services>>' = <<row, rule, target, services>>
        BY <1>4, <2>2
      <3> QED BY <2>1, <3>1
          DEF ScheduleIsAsTheRowSays, ServiceIsAsTheRowSays, Scheduled, Serves, Exists, Active
    <2>3. CASE ~x.raised
      <3>1. ActiveIn(services') = {}
        BY <1>8, <2>3
      <3>2. rule' = None /\ target' = None
        BY <1>1, <1>2, <1>4, <2>1, <2>3 DEF ScheduleIsAsTheRowSays, Scheduled
      <3> QED BY <1>3, <1>6, <2>3, <3>1, <3>2, MatchesIsPrimed
    <2> QED BY <2>2, <2>3
  <1> QED BY <1>3, <1>7, <1>9, <1>10 DEF IInv

LEMMA AwsStepKeepsInv ==
  ASSUME IInv, AwsStep
  PROVE  IInv'
  <1>1. TypeOK /\ RowNamed /\ NothingElseRuns /\ AwsIsAsTheRowSays
    BY DEF IInv
  <1>2. /\ TypeOK' /\ row' = row
        /\ ActiveIn(services') \subseteq Active
        /\ \/ fault' = TRUE
           \/ /\ rule' = rule /\ target' = target /\ fault' = fault
              /\ ActiveIn(services') = Active
              /\ \A key \in Active : services'[key] = services[key]
    BY <1>1, AwsStepDoes
  <1>3. Active = ActiveIn(services) /\ Active' = ActiveIn(services')
    BY DEF Active, ActiveIn
  <1>4. RowNamed'
    BY <1>1, <1>2 DEF RowNamed, Exists
  <1>5. Owner' = Owner
    BY <1>2 DEF Owner, Exists
  <1>6. NothingElseRuns'
    <2>1. (fault' => ~DescribeFails) => OnlyOf(Owner, services)
      BY <1>1, <1>2 DEF NothingElseRuns
    <2> QED BY <1>2, <1>3, <1>5, <2>1, OnlyOfLess DEF NothingElseRuns
  <1>7. AwsIsAsTheRowSays'
    <2> SUFFICES ASSUME ~fault' PROVE ScheduleIsAsTheRowSays' /\ ServiceIsAsTheRowSays'
      BY DEF AwsIsAsTheRowSays
    <2>1. /\ rule' = rule /\ target' = target /\ Active' = Active
          /\ \A key \in Active : services'[key] = services[key]
          /\ ScheduleIsAsTheRowSays /\ ServiceIsAsTheRowSays
      BY <1>1, <1>2, <1>3 DEF AwsIsAsTheRowSays
    <2>2. (Scheduled' <=> Scheduled) /\ (Serves' <=> Serves)
      BY <1>2 DEF Scheduled, Serves, Exists
    <2>3. ScheduleIsAsTheRowSays'
      BY <1>2, <2>1, <2>2 DEF ScheduleIsAsTheRowSays
    <2>4. ServiceIsAsTheRowSays'
      BY <1>2, <2>1, <2>2 DEF ServiceIsAsTheRowSays
    <2> QED BY <2>3, <2>4
  <1> QED BY <1>2, <1>4, <1>6, <1>7 DEF IInv

\* Every state satisfies the inductive invariant, whatever calls to AWS fail.
THEOREM Invariant ==
  ASSUME EcsOnly PROVE Spec => []IInv
  <1>1. Init => IInv
    <2> SUFFICES ASSUME Init PROVE IInv
      OBVIOUS
    <2>1. TypeOK
      BY DEF Init, TypeOK, Absent, Service
    <2>2. ActiveIn(services) = {}
      BY DEF Init, ActiveIn, Absent, Idle
    <2>3. ~Exists /\ rule = None /\ target = None
      BY DEF Init, Exists
    <2>4. Matches(Owner, rule, target, services)
      BY <2>2, <2>3 DEF Matches, Owner
    <2>5. AwsIsAsTheRowSays
      BY <2>1, <2>4, MatchesIs DEF AwsIsAsTheRowSays
    <2> QED BY <2>1, <2>2, <2>3, <2>5 DEF IInv, RowNamed, NothingElseRuns, OnlyOf
  <1>2. IInv /\ [Next]_vars => IInv'
    <2> SUFFICES ASSUME IInv, [Next]_vars PROVE IInv'
      OBVIOUS
    <2>1. CASE UNCHANGED vars
      BY <2>1
      DEF IInv, vars, TypeOK, RowNamed, Exists, NothingElseRuns, Owner, AwsIsAsTheRowSays,
          ScheduleIsAsTheRowSays, ServiceIsAsTheRowSays, Scheduled, Serves, Active
    <2>2. ASSUME NEW r \in Requests, NEW x, Requested(r, x)
          PROVE  IInv'
      BY <2>2, RequestKeepsInv
    <2>3. ASSUME NEW x, Deletion(x)
          PROVE  IInv'
      BY <2>3, DeletionKeepsInv
    <2>4. CASE AwsStep
      BY <2>4, AwsStepKeepsInv
    <2> QED BY <2>1, <2>2, <2>3, <2>4, NextSteps
  <1> QED BY <1>1, <1>2, PTL DEF Spec

\* Whatever its requests have changed, as long as none of them has failed halfway and
\* nobody has interfered, the rule and the service in AWS are those of the row.
THEOREM NothingIsLeftOver ==
  ASSUME EcsOnly PROVE Spec => []AwsIsAsTheRowSays
  <1>1. IInv => AwsIsAsTheRowSays
    BY DEF IInv
  <1> QED BY <1>1, Invariant, PTL

\* Where AWS tells which services there are, a Task never has two that run, whatever
\* other calls to AWS fail and whoever else removes what it has.
THEOREM NeverTwoServices ==
  ASSUME EcsOnly, DescribeFails = FALSE PROVE Spec => []OneServiceRuns
  <1>1. IInv => OneServiceRuns
    <2> SUFFICES ASSUME IInv PROVE OneServiceRuns
      OBVIOUS
    <2>1. OnlyOf(Owner, services) /\ Active = ActiveIn(services)
      BY DEF IInv, NothingElseRuns, Active, ActiveIn
    <2>2. CASE Active = {}
      BY <2>2, FS_EmptySet DEF OneServiceRuns
    <2>3. CASE Active # {}
      <3>1. Active = {Owner.arn}
        BY <2>1, <2>3 DEF OnlyOf, OwnOnly
      <3>2. Cardinality({Owner.arn}) = 1
        BY FS_Singleton
      <3> QED BY <3>1, <3>2 DEF OneServiceRuns
    <2> QED BY <2>2, <2>3
  <1> QED BY <1>1, Invariant, PTL

LEMMA RequestRepairs ==
  ASSUME IInv, EcsOnly, ~DescribeFails, NEW r \in Requests, NEW x, Requested(r, x),
         Exists, row' # row
  PROVE  /\ /\ Scheduled \/ Scheduled'
            /\ Differ({ "enabled", "passive", "schedule", "scheduleManaged", "cluster", "config" })
            => ScheduleIsAsTheRowSays'
         /\ /\ Serves \/ Serves'
            /\ Differ({ "enabled", "passive", "count", "serviceManaged", "cluster", "config" })
            => ServiceIsAsTheRowSays'
  <1>1. TypeOK /\ RowNamed /\ NothingElseRuns /\ row \in TaskRow /\ row # None
    BY DEF IInv, TypeOK, Exists
  <1>2. TypeOK' /\ (x.misled => DescribeFails) /\ (x.raised => row' = row)
    BY <1>1, RequestDoes
  <1>3. ~x.raised /\ ~x.misled
    BY <1>2
  <1>4. /\ row' \in TaskRow /\ Exists'
        /\ \/ ScheduleMatches(row', rule', target')
           \/ rule' = rule /\ target' = target /\ SameSchedule(Owner, row')
        /\ OnlyOf(Owner, services)
           => \/ ServiceSettled(row', services')
              \/ services' = services /\ SameService(Owner, row')
    BY <1>1, <1>3, RequestDoes
  <1>5. OnlyOf(Owner, services) /\ Owner = row
    BY <1>1 DEF NothingElseRuns, Owner
  <1>6. /\ Scheduled <=> ActiveSchedule(row, TRUE)
        /\ Scheduled' <=> ActiveSchedule(row', TRUE)
        /\ Serves <=> ActiveService(row, TRUE)
        /\ Serves' <=> ActiveService(row', TRUE)
    BY <1>4 DEF Scheduled, Serves
  <1>7. ASSUME SameSchedule(row, row'), Scheduled \/ Scheduled'
        PROVE  ~Differ({ "enabled", "passive", "schedule", "scheduleManaged", "cluster", "config" })
    <2>1. /\ ActiveSchedule(row, TRUE) /\ ActiveSchedule(row', TRUE)
          /\ row.schedule = row'.schedule
          /\ row.cluster = row'.cluster /\ row.config = row'.config
      BY <1>1, <1>6, <1>7 DEF SameSchedule
    <2>2. /\ row.enabled = row'.enabled /\ row.passive = row'.passive
          /\ row.scheduleManaged = row'.scheduleManaged
      BY <1>1, <1>4, <2>1, ActiveScheduleIs
    <2> QED BY <2>1, <2>2 DEF Differ
  <1>8. ASSUME SameService(row, row'), Serves \/ Serves'
        PROVE  ~Differ({ "enabled", "passive", "count", "serviceManaged", "cluster", "config" })
    <2>1. /\ ActiveService(row, TRUE) /\ ActiveService(row', TRUE)
          /\ row.count = row'.count
          /\ row.cluster = row'.cluster /\ row.config = row'.config
      BY <1>1, <1>6, <1>8 DEF SameService
    <2>2. /\ row.enabled = row'.enabled /\ row.passive = row'.passive
          /\ row.serviceManaged = row'.serviceManaged
      BY <1>1, <1>4, <2>1, ActiveServiceIs
    <2> QED BY <2>1, <2>2 DEF Differ
  <1>9. ASSUME ScheduleMatches(row', rule', target') PROVE ScheduleIsAsTheRowSays'
    BY <1>2, <1>4, <1>9, MatchesIsPrimed
  <1>10. ASSUME ServiceSettled(row', services') PROVE ServiceIsAsTheRowSays'
    BY <1>2, <1>4, <1>10, MatchesIsPrimed DEF ServiceSettled
  <1>11. /\ Scheduled \/ Scheduled'
         /\ Differ({ "enabled", "passive", "schedule", "scheduleManaged", "cluster", "config" })
         => ScheduleIsAsTheRowSays'
    BY <1>4, <1>5, <1>7, <1>9
  <1>12. /\ Serves \/ Serves'
         /\ Differ({ "enabled", "passive", "count", "serviceManaged", "cluster", "config" })
         => ServiceIsAsTheRowSays'
    BY <1>4, <1>5, <1>8, <1>10
  <1> QED BY <1>11, <1>12

LEMMA DeletionRepairs ==
  ASSUME IInv, ~DescribeFails, NEW x, Deletion(x), row' # row
  PROVE  /\ row' = Deleted /\ ~Scheduled' /\ ~Serves'
         /\ Scheduled => ScheduleIsAsTheRowSays'
         /\ Serves => ServiceIsAsTheRowSays'
  <1>1. /\ TypeOK /\ NothingElseRuns /\ Exists /\ RowIsNamed(row) /\ Ends(x, Deleted)
    BY DEF IInv, RowNamed, Deletion
  <1>2. /\ x \in Worlds /\ (x.misled => DescribeFails)
        /\ ActiveIn(x.services) \subseteq Active
        /\ ~x.raised
           => /\ ActiveSchedule(row, TRUE) => x.rule = None /\ x.target = None
              /\ ActiveService(row, TRUE) /\ OwnOnly(row, services) /\ ~x.misled
                 => ActiveIn(x.services) = {}
    BY <1>1, DeletionDoes
  <1>3. TypeOK'
    BY <1>1, <1>2, EndsTypes
  <1>4. /\ ~x.raised /\ row' = Deleted
        /\ rule' = x.rule /\ target' = x.target /\ services' = x.services
    BY <1>1 DEF Ends
  <1>5. ~Exists' /\ ~Scheduled' /\ ~Serves'
    BY <1>4 DEF Exists, Scheduled, Serves
  <1>6. ASSUME Scheduled PROVE ScheduleIsAsTheRowSays'
    BY <1>2, <1>3, <1>4, <1>5, <1>6, MatchesIsPrimed DEF Scheduled
  <1>7. OwnOnly(row, services)
    BY <1>1 DEF NothingElseRuns, OnlyOf, OwnOnly, Owner
  <1>8. ASSUME Serves PROVE ServiceIsAsTheRowSays'
    BY <1>2, <1>3, <1>4, <1>5, <1>7, <1>8, MatchesIsPrimed DEF Serves
  <1> QED BY <1>4, <1>5, <1>6, <1>8

\* Where AWS tells which services there are, a request that succeeds in changing what
\* a Task runs, or in deleting the Task, leaves the rule and the service as the new
\* row says, whatever has failed before.
THEOREM RequestsRepair ==
  ASSUME EcsOnly, DescribeFails = FALSE PROVE Spec => SuccessRepairs
  <1> DEFINE Repairs ==
        Exists /\ row' # row
        => /\ /\ Scheduled \/ Scheduled'
              /\ row' = Deleted \/ Differ({ "enabled", "passive", "schedule",
                                            "scheduleManaged", "cluster", "config" })
              => ScheduleIsAsTheRowSays'
           /\ /\ Serves \/ Serves'
              /\ row' = Deleted \/ Differ({ "enabled", "passive", "count",
                                            "serviceManaged", "cluster", "config" })
              => ServiceIsAsTheRowSays'
  <1>1. IInv /\ [Next]_vars => [Repairs]_vars
    <2> SUFFICES ASSUME IInv, Next, Exists, row' # row PROVE Repairs
      BY DEF vars
    <2>1. ASSUME NEW r \in Requests, NEW x, Requested(r, x)
          PROVE  Repairs
      <3>1. row' # Deleted
        <4>1. TypeOK /\ RowNamed
          BY DEF IInv
        <4>2. row' \in TaskRow
          BY <2>1, <4>1, RequestDoes
        <4> QED BY <4>2, NoneIsApart
      <3> QED BY <2>1, <3>1, RequestRepairs
    <2>2. ASSUME NEW x, Deletion(x)
          PROVE  Repairs
      BY <2>2, DeletionRepairs
    <2>3. CASE AwsStep
      BY <2>3, AwsStepDoes DEF IInv
    <2> QED BY <2>1, <2>2, <2>3, NextSteps DEF vars
  <1> QED BY <1>1, Invariant, PTL DEF Spec, SuccessRepairs

-----------------------------------------------------------------------------
(* Tasks described by their processes (TaskReports): the inductive         *)
(* invariant.  What a request remembers is still true enough when it saves.*)

\* What a request has read and is going to do.
ReportQueries ==
  [ kind : { "post", "patch", "edit" }, execution : Executions \cup {None},
    version : 0 .. MaxVersion, saves : BOOLEAN, task : Tasks \cup {None},
    name : Names \cup {None}, read : DescribedTask \cup {None}, asked : BOOLEAN ]

\* The latest execution of a Task exists and is the Task's.
LatestExists(t) ==
  tasks[t].latest # None =>
    executions[tasks[t].latest] # None /\ executions[tasks[t].latest].task = t

\* Foreign keys: latest_task_execution and task.
RowsAreTied ==
  /\ \A t \in Tasks : tasks[t] = None => top[t] = 0
  /\ \A t \in Tasks : tasks[t] # None => LatestExists(t)
  /\ \A x \in Executions : executions[x] # None => tasks[executions[x].task] # None

\* The property, and that the latest execution is of that version.
NewestIsLatest(t) ==
  tasks[t] # None /\ t \notin lapsed =>
    tasks[t].details = top[t] /\ Reports!VersionOfLatest(t) = top[t]

\* A request remembers a Task that exists, and an execution that does or does not.
QueryIsTrue(q) ==
  /\ q.task = None => q.saves /\ q.read = None /\ q.kind # "edit"
  /\ q.task # None => tasks[q.task] # None
  /\ q.saves => q.name # None
  /\ q.kind = "post" => q.execution # None /\ executions[q.execution] = None
  /\ q.kind = "patch" =>
       /\ q.execution # None /\ executions[q.execution] # None
       /\ executions[q.execution].version = q.version
  /\ q.kind = "edit" => q.saves /\ q.read # None /\ q.version = q.read.details

\* The execution that was the latest when the request read the Task is, as long as
\* it exists, the Task's, and of no newer version than that of the request.
ReadIsTrue(q) ==
  q.read # None /\ q.read.latest # None /\ executions[q.read.latest] # None =>
    /\ executions[q.read.latest].task = q.task
    /\ q.kind # "edit" /\ q.asked /\ q.version # 0 =>
         executions[q.read.latest].version <= q.version

\* No two requests are about one execution, and what one creates no other has read.
Apart(q, p) ==
  /\ q.execution # None => q.execution # p.execution

Unread(q, p) ==
  q.kind = "post" /\ p.read # None => p.read.latest # q.execution

QueriesAreTrue ==
  /\ pending \in [ Reporters -> {None} \cup ReportQueries ]
  /\ \A r \in Reporters : pending[r] # None => QueryIsTrue(pending[r]) /\ ReadIsTrue(pending[r])
  /\ \A r, s \in Reporters : pending[r] # None /\ pending[s] # None /\ r # s =>
       Apart(pending[r], pending[s])
  /\ \A r, s \in Reporters : pending[r] # None /\ pending[s] # None =>
       Unread(pending[r], pending[s])

ReportInv ==
  /\ Reports!TypeOK
  /\ RowsAreTied
  /\ \A t \in Tasks : NewestIsLatest(t)
  /\ QueriesAreTrue

LEMMA QueriesStay ==
  ASSUME QueriesAreTrue, pending' \in [ Reporters -> {None} \cup ReportQueries ],
         \A s \in Reporters : pending'[s] # None => pending'[s] = pending[s],
         \A t \in Tasks : tasks[t] # None => tasks'[t] # None,
         \A s \in Reporters : pending'[s] # None /\ pending[s].execution # None =>
           executions'[pending[s].execution] = executions[pending[s].execution],
         \A s \in Reporters : \A x \in Executions :
           /\ pending'[s] # None /\ pending[s].read # None
           /\ pending[s].read.latest = x /\ executions'[x] # None
           => /\ executions[x] # None /\ executions'[x].task = executions[x].task
              /\ executions'[x].version = executions[x].version
  PROVE  QueriesAreTrue'
  <1>1. ASSUME NEW s \in Reporters, pending'[s] # None
        PROVE  QueryIsTrue(pending[s])'
    <2>1. pending'[s] = pending[s] /\ pending[s] \in ReportQueries /\ QueryIsTrue(pending[s])
      BY <1>1 DEF QueriesAreTrue
    <2>2. pending[s].task # None => pending[s].task \in Tasks
      BY <2>1 DEF ReportQueries
    <2>3. pending[s].execution # None =>
            executions'[pending[s].execution] = executions[pending[s].execution]
      BY <1>1
    <2> QED BY <2>1, <2>2, <2>3 DEF QueryIsTrue
  <1>2. ASSUME NEW s \in Reporters, pending'[s] # None
        PROVE  ReadIsTrue(pending[s])'
    <2>1. pending'[s] = pending[s] /\ pending[s] \in ReportQueries /\ ReadIsTrue(pending[s])
      BY <1>2 DEF QueriesAreTrue
    <2>2. SUFFICES ASSUME pending[s].read # None, pending[s].read.latest # None,
                          executions'[pending[s].read.latest] # None
                   PROVE  /\ executions'[pending[s].read.latest].task = pending[s].task
                          /\ pending[s].kind # "edit" /\ pending[s].asked /\ pending[s].version # 0
                               => executions'[pending[s].read.latest].version
                                    <= pending[s].version
      BY <2>1 DEF ReadIsTrue
    <2> DEFINE x == pending[s].read.latest
    <2>3. x \in Executions
      BY <2>1, <2>2 DEF ReportQueries, DescribedTask
    <2>4. /\ executions[x] # None /\ executions'[x].task = executions[x].task
          /\ executions'[x].version = executions[x].version
      BY <1>2, <2>2, <2>3
    <2> QED BY <2>1, <2>2, <2>4 DEF ReadIsTrue
  <1>3. ASSUME NEW s \in Reporters, NEW r \in Reporters, pending'[s] # None, pending'[r] # None
        PROVE  /\ s # r => Apart(pending'[s], pending'[r])
               /\ Unread(pending'[s], pending'[r])
    BY <1>3 DEF QueriesAreTrue
  <1> QED BY <1>1, <1>2, <1>3 DEF QueriesAreTrue, Apart, Unread

LEMMA QueryBegins ==
  ASSUME QueriesAreTrue, UNCHANGED <<tasks, executions>>,
         NEW r \in Reporters, NEW q \in ReportQueries, pending' = [pending EXCEPT ![r] = q],
         QueryIsTrue(q), ReadIsTrue(q),
         \A s \in Reporters : pending[s] # None /\ s # r =>
           /\ Apart(q, pending[s]) /\ Apart(pending[s], q)
           /\ Unread(q, pending[s]) /\ Unread(pending[s], q),
         Unread(q, q)
  PROVE  QueriesAreTrue'
  <1>1. pending' \in [ Reporters -> {None} \cup ReportQueries ]
    BY DEF QueriesAreTrue
  <1>2. pending'[r] = q /\ \A s \in Reporters : s # r => pending'[s] = pending[s]
    BY DEF QueriesAreTrue
  <1>3. ASSUME NEW s \in Reporters, pending'[s] # None
        PROVE  QueryIsTrue(pending[s])' /\ ReadIsTrue(pending[s])'
    <2>1. QueryIsTrue(pending'[s]) /\ ReadIsTrue(pending'[s])
      BY <1>2, <1>3 DEF QueriesAreTrue
    <2> QED BY <2>1 DEF QueryIsTrue, ReadIsTrue
  <1>4. ASSUME NEW s \in Reporters, NEW p \in Reporters, pending'[s] # None, pending'[p] # None
        PROVE  /\ s # p => Apart(pending'[s], pending'[p])
               /\ Unread(pending'[s], pending'[p])
    BY <1>2, <1>4 DEF QueriesAreTrue
  <1> QED BY <1>1, <1>3, <1>4 DEF QueriesAreTrue, Apart, Unread

\* A request that saves may describe its Task, if what it has read is still so.
LEMMA AccountKeeps ==
  ASSUME ReportConstants, Reports!TypeOK, RowsAreTied, \A u \in Tasks : NewestIsLatest(u),
         NEW t \in Tasks, NEW q \in {None} \cup ReportQueries, Reports!Account(q, t),
         tasks' \in [ Tasks -> {None} \cup DescribedTask ],
         executions' \in [ Executions -> {None} \cup ReportingExecution ],
         tasks'[t] # None, \A u \in Tasks \ {t} : tasks'[u] = tasks[u],
         q # None /\ q.saves =>
           /\ tasks'[t].details = q.version
           /\ Reports!Kept(q, t) /\ t \notin lapsed => top[t] <= q.version,
         q = None \/ ~q.saves =>
           tasks[t] # None /\ tasks'[t].details = tasks[t].details
  PROVE  /\ Reports!TypeOK'
         /\ \A u \in Tasks : NewestIsLatest(u)'
         /\ \A u \in Tasks : tasks'[u] = None => top'[u] = 0
  <1> DEFINE raises == q # None /\ q.saves /\ q.version > top[t]
  <1>1. top \in [ Tasks -> 0 .. MaxVersion ] /\ (q # None => q.version \in 0 .. MaxVersion)
    BY DEF Reports!TypeOK, Reports!Versions, ReportQueries
  <1>2. /\ top'[t] = IF raises THEN q.version ELSE top[t]
        /\ \A u \in Tasks : u # t => top'[u] = top[u]
        /\ top' \in [ Tasks -> 0 .. MaxVersion ]
    BY <1>1 DEF Reports!Account
  <1>3. lapsed' = { u \in Tasks :
          /\ tasks'[u] # None
          /\ \/ Reports!Adrift(u)'
             \/ u = t /\ q # None /\ q.saves /\ ~Reports!Kept(q, t)
             \/ u \in lapsed /\ tasks'[u].details # top'[u] }
    BY DEF Reports!Account
  <1>4. Reports!TypeOK'
    BY <1>2, <1>3 DEF Reports!TypeOK, Reports!Versions, DescribedTask, ReportingExecution
  <1>5. ASSUME NEW u \in Tasks, tasks'[u] # None, u \notin lapsed'
        PROVE  tasks'[u].details = top'[u] /\ Reports!VersionOfLatest(u)' = top'[u]
    <2>1. /\ ~Reports!Adrift(u)'
          /\ ~(u = t /\ q # None /\ q.saves /\ ~Reports!Kept(q, t))
          /\ ~(u \in lapsed /\ tasks'[u].details # top'[u])
      BY <1>3, <1>5
    <2>2. Reports!VersionOfLatest(u)' = top'[u]
      BY <1>5, <2>1 DEF Reports!Adrift
    <2>3. tasks'[u].details = top'[u]
      <3>1. CASE u \in lapsed
        BY <2>1, <3>1
      <3>2. CASE u \notin lapsed /\ u # t
        BY <1>2, <1>5, <3>2 DEF NewestIsLatest
      <3>3. CASE u \notin lapsed /\ u = t /\ (q = None \/ ~q.saves)
        BY <1>2, <3>3 DEF NewestIsLatest
      <3>4. CASE u \notin lapsed /\ u = t /\ q # None /\ q.saves
        <4>1. top[t] <= q.version /\ tasks'[t].details = q.version
          BY <2>1, <3>4
        <4>2. top[t] \in Int /\ q.version \in Int
          BY <1>1, <3>4
        <4> QED BY <1>2, <3>4, <4>1, <4>2
      <3> QED BY <3>1, <3>2, <3>3, <3>4
    <2> QED BY <2>2, <2>3
  <1>6. \A u \in Tasks : tasks'[u] = None => top'[u] = 0
    BY <1>2 DEF RowsAreTied
  <1> QED BY <1>4, <1>5, <1>6 DEF NewestIsLatest

\* What may update a Task is not older than its latest execution.
LEMMA UpdateIsNotOlder ==
  ASSUME NEW t \in Tasks, NEW version \in 0 .. MaxVersion, version # 0,
         Reports!ShouldUpdate(t, version), tasks[t].latest # None,
         executions[tasks[t].latest].version \in 0 .. MaxVersion
  PROVE  executions[tasks[t].latest].version <= version
  <1>1. PICK last : last = executions[tasks[t].latest].version
    OBVIOUS
  <1>2. last # 0 => last <= version
    BY <1>1 DEF Reports!ShouldUpdate
  <1>3. last \in Int /\ version \in Int /\ 0 <= version
    BY <1>1
  <1> QED BY <1>1, <1>2, <1>3

LEMMA BeginKeeps ==
  ASSUME ReportConstants, ReportInv, NEW r \in Reporters, NEW kind \in { "post", "patch" },
         NEW x \in Executions, NEW version \in 0 .. MaxVersion, NEW uuid, NEW name \in Reported,
         NEW auto \in BOOLEAN, Reports!Begin(r, kind, x, version, uuid, name, auto),
         UNCHANGED <<tasks, executions>>,
         kind = "post" => x \in Reports!Unused,
         kind = "patch" => executions[x] # None /\ executions[x].version = version
  PROVE  QueriesAreTrue'
  <1> DEFINE found == Reports!Found(uuid, name)
             sought == IF found # {} THEN found ELSE Reports!Named(name)
             saves == auto /\ \A t \in found : Reports!ShouldUpdate(t, version)
             chosen == CHOOSE t \in sought : TRUE
             q == [ kind |-> kind, execution |-> x, version |-> version, saves |-> saves,
                    task |-> IF sought = {} THEN None ELSE chosen,
                    name |-> IF saves THEN name ELSE None,
                    read |-> IF sought = {} \/ ~saves THEN None ELSE tasks[chosen],
                    asked |-> found # {} \/ sought = {} ]
  <1>1. /\ pending[r] = None /\ x \notin Reports!Busy /\ (found = {} => auto)
        /\ pending' = [pending EXCEPT ![r] = q]
    BY DEF Reports!Begin
  <1>2. sought # {} => chosen \in sought /\ chosen \in Tasks /\ tasks[chosen] # None
    BY DEF Reports!Found, Reports!Named, Reports!Known
  <1>3. tasks \in [ Tasks -> {None} \cup DescribedTask ]
    BY DEF ReportInv, Reports!TypeOK, Reports!Versions, DescribedTask
  <1>4. saves \in BOOLEAN /\ (found # {} \/ sought = {}) \in BOOLEAN
    OBVIOUS
  <1>5. q.task \in Tasks \cup {None} /\ q.read \in DescribedTask \cup {None}
    BY <1>2, <1>3
  <1>6. q.name \in Names \cup {None} /\ (q.saves => q.name # None)
    BY DEF ReportConstants
  <1>7. q \in ReportQueries
    BY <1>4, <1>5, <1>6 DEF ReportQueries
  <1>8. \A s \in Reporters : pending[s] # None =>
          /\ pending[s].execution # x
          /\ kind = "post" /\ pending[s].read # None => pending[s].read.latest # x
    BY <1>1 DEF Reports!Busy, Reports!Underway, Reports!Unused
  <1>9. kind = "post" => executions[x] = None
    BY DEF Reports!Unused
  <1>10. sought = {} => q.saves
    BY <1>1
  <1>11. QueryIsTrue(q)
    <2>1. q.task = None => q.saves /\ q.read = None /\ q.kind # "edit"
      <3>1. q.task = None => sought = {}
        BY <1>2 DEF ReportConstants
      <3>2. sought = {} => q.read = None
        OBVIOUS
      <3> QED BY <1>10, <3>1, <3>2
    <2>2. q.task # None => tasks[q.task] # None
      BY <1>2
    <2>3. q.kind = kind /\ q.execution = x /\ q.version = version
      OBVIOUS
    <2>4. x # None
      BY DEF ReportConstants
    <2> HIDE DEF q
    <2> QED BY <1>6, <1>9, <2>1, <2>2, <2>3, <2>4 DEF QueryIsTrue
  <1>12. ReadIsTrue(q)
    <2>1. SUFFICES ASSUME q.read # None, q.read.latest # None,
                          executions[q.read.latest] # None
                   PROVE  /\ executions[q.read.latest].task = q.task
                          /\ q.asked /\ q.version # 0 =>
                               executions[q.read.latest].version <= q.version
      BY DEF ReadIsTrue
    <2>2. sought # {} /\ saves /\ q.read = tasks[chosen] /\ q.task = chosen
      BY <2>1
    <2>3. LatestExists(chosen)
      BY <1>2, <2>2 DEF ReportInv, RowsAreTied
    <2>4. executions[q.read.latest].task = q.task
      BY <2>1, <2>2, <2>3 DEF LatestExists
    <2>5. ASSUME q.asked, q.version # 0
          PROVE  executions[q.read.latest].version <= q.version
      <3>1. found # {} /\ chosen \in found
        BY <1>2, <2>2, <2>5
      <3>2. chosen \in Tasks /\ Reports!ShouldUpdate(chosen, version)
        BY <1>2, <2>2, <3>1
      <3>3. tasks[chosen].latest \in Executions
        BY <1>2, <1>3, <2>1, <2>2 DEF DescribedTask
      <3>4. executions[tasks[chosen].latest].version \in 0 .. MaxVersion
        BY <2>1, <2>2, <3>3 DEF ReportInv, Reports!TypeOK, Reports!Versions
      <3>5. version # 0 /\ q.version = version
        BY <2>5
      <3>6. tasks[chosen].latest # None
        BY <2>1, <2>2
      <3>7. executions[tasks[chosen].latest].version <= version
        BY <3>2, <3>4, <3>5, <3>6, UpdateIsNotOlder
      <3> QED BY <2>2, <3>5, <3>7
    <2> QED BY <2>4, <2>5
  <1>13. Unread(q, q)
    <2>1. SUFFICES ASSUME kind = "post", q.read # None
                   PROVE  q.read.latest # x
      BY DEF Unread
    <2>2. q.read = tasks[chosen] /\ sought # {}
      BY <2>1
    <2>3. LatestExists(chosen)
      BY <1>2, <2>2 DEF ReportInv, RowsAreTied
    <2>4. x # None
      BY DEF ReportConstants
    <2> QED BY <1>9, <2>1, <2>2, <2>3, <2>4 DEF LatestExists
  <1>14. ASSUME NEW s \in Reporters, pending[s] # None
         PROVE  Unread(pending[s], q)
    <2>1. SUFFICES ASSUME pending[s].kind = "post", q.read # None
                   PROVE  q.read.latest # pending[s].execution
      BY DEF Unread
    <2>2. q.read = tasks[chosen] /\ sought # {}
      BY <2>1
    <2>3. LatestExists(chosen)
      BY <1>2, <2>2 DEF ReportInv, RowsAreTied
    <2>4. pending[s].execution # None /\ executions[pending[s].execution] = None
      BY <1>14, <2>1 DEF ReportInv, QueriesAreTrue, QueryIsTrue
    <2> QED BY <2>2, <2>3, <2>4 DEF LatestExists
  <1>15. \A s \in Reporters : pending[s] # None /\ s # r =>
           /\ Apart(q, pending[s]) /\ Apart(pending[s], q)
           /\ Unread(q, pending[s]) /\ Unread(pending[s], q)
    BY <1>8, <1>14 DEF Apart, Unread
  <1> HIDE DEF q
  <1> QED BY <1>1, <1>7, <1>11, <1>12, <1>13, <1>15, QueryBegins DEF ReportInv

LEMMA BeginEditKeeps ==
  ASSUME ReportConstants, ReportInv, NEW r \in Reporters, Reports!BeginEdit(r)
  PROVE  QueriesAreTrue'
  <1>1. PICK t \in Reports!Known, name \in Names :
          pending' = [pending EXCEPT ![r] =
            [ kind |-> "edit", execution |-> None, version |-> tasks[t].details,
              name |-> name, task |-> t, read |-> tasks[t], asked |-> TRUE, saves |-> TRUE ]]
    BY DEF Reports!BeginEdit
  <1>2. t \in Tasks /\ tasks[t] # None /\ tasks[t] \in DescribedTask
    BY DEF Reports!Known, ReportInv, Reports!TypeOK, Reports!Versions, DescribedTask
  <1> DEFINE q == [ kind |-> "edit", execution |-> None, version |-> tasks[t].details,
                    name |-> name, task |-> t, read |-> tasks[t], asked |-> TRUE,
                    saves |-> TRUE ]
  <1>3. q \in ReportQueries
    BY <1>2 DEF ReportQueries, DescribedTask
  <1>4. t # None /\ name # None
    BY <1>2 DEF ReportConstants
  <1>5. QueryIsTrue(q)
    BY <1>2, <1>4 DEF QueryIsTrue
  <1>6. LatestExists(t)
    BY <1>2 DEF ReportInv, RowsAreTied
  <1>7. ReadIsTrue(q)
    BY <1>6 DEF ReadIsTrue, LatestExists
  <1>8. ASSUME NEW s \in Reporters, pending[s] # None
        PROVE  Unread(pending[s], q)
    <2>1. pending[s].kind = "post" =>
            pending[s].execution # None /\ executions[pending[s].execution] = None
      BY <1>8 DEF ReportInv, QueriesAreTrue, QueryIsTrue
    <2> QED BY <1>6, <2>1 DEF Unread, LatestExists
  <1>9. Unread(q, q) /\ \A s \in Reporters : pending[s] # None =>
          Apart(q, pending[s]) /\ Apart(pending[s], q) /\ Unread(q, pending[s])
    BY DEF Apart, Unread
  <1>10. pending' = [pending EXCEPT ![r] = q] /\ UNCHANGED <<tasks, executions>>
    BY <1>1 DEF Reports!BeginEdit
  <1> HIDE DEF q
  <1> QED BY <1>3, <1>5, <1>7, <1>8, <1>9, <1>10, QueryBegins DEF ReportInv

\* A request that begins changes no row.
LEMMA BeginsKeepReports ==
  ASSUME ReportConstants, ReportInv, NEW r \in Reporters,
         Reports!BeginPost(r) \/ Reports!BeginPatch(r) \/ Reports!BeginEdit(r)
  PROVE  ReportInv'
  <1>1. UNCHANGED <<tasks, executions, top, lapsed>>
    BY DEF Reports!BeginPost, Reports!BeginPatch, Reports!BeginEdit
  <1>2. QueriesAreTrue'
    <2>1. CASE Reports!BeginPost(r)
      <3>1. PICK x \in Reports!Unused, version \in Reports!Versions, uuid \in Uuids \cup {None},
                 name \in Reported, auto \in BOOLEAN :
              Reports!Begin(r, "post", x, version, uuid, name, auto)
        BY <2>1 DEF Reports!BeginPost
      <3>2. x \in Executions /\ version \in 0 .. MaxVersion
        BY DEF Reports!Unused, Reports!Versions
      <3> QED BY <1>1, <3>1, <3>2, BeginKeeps
    <2>2. CASE Reports!BeginPatch(r)
      <3>1. PICK x \in Executions, name \in Reported :
              /\ executions[x] # None /\ executions[x].live
              /\ Reports!Begin(r, "patch", x, executions[x].version, None, name, TRUE)
        BY <2>2 DEF Reports!BeginPatch
      <3>2. executions[x].version \in 0 .. MaxVersion
        BY <3>1 DEF ReportInv, Reports!TypeOK, Reports!Versions
      <3> QED BY <1>1, <3>1, <3>2, BeginKeeps
    <2>3. CASE Reports!BeginEdit(r)
      BY <2>3, BeginEditKeeps
    <2> QED BY <2>1, <2>2, <2>3
  <1>3. Reports!TypeOK' /\ RowsAreTied' /\ \A t \in Tasks : NewestIsLatest(t)'
    BY <1>1 DEF ReportInv, Reports!TypeOK, Reports!Versions, RowsAreTied, LatestExists,
                NewestIsLatest, Reports!VersionOfLatest
  <1> QED BY <1>2, <1>3 DEF ReportInv

LEMMA RefuseKeepsReports ==
  ASSUME ReportInv, NEW r \in Reporters, Reports!Refuse(r)
  PROVE  ReportInv'
  <1>1. UNCHANGED <<tasks, executions, top, lapsed>> /\ pending' = [pending EXCEPT ![r] = None]
    BY DEF Reports!Refuse, Reports!Done
  <1>2. QueriesAreTrue'
    BY <1>1, QueriesStay DEF ReportInv, QueriesAreTrue
  <1>3. Reports!TypeOK' /\ RowsAreTied' /\ \A t \in Tasks : NewestIsLatest(t)'
    BY <1>1 DEF ReportInv, Reports!TypeOK, Reports!Versions, RowsAreTied, LatestExists,
                NewestIsLatest, Reports!VersionOfLatest
  <1> QED BY <1>2, <1>3 DEF ReportInv

LEMMA ReportRows ==
  ASSUME ReportInv
  PROVE  /\ tasks \in [ Tasks -> {None} \cup DescribedTask ]
         /\ executions \in [ Executions -> {None} \cup ReportingExecution ]
  BY DEF ReportInv, Reports!TypeOK, Reports!Versions, DescribedTask, ReportingExecution

LEMMA HeartbeatKeepsReports ==
  ASSUME ReportConstants, ReportInv, NEW x \in Executions, Reports!Heartbeat(x)
  PROVE  ReportInv'
  <1> DEFINE t == executions[x].task
  <1>1. PICK live \in BOOLEAN :
          /\ executions' = [executions EXCEPT ![x].live = live]
          /\ tasks' = [tasks EXCEPT ![t] = Reports!WithLatest(@, x, live)]
          /\ Reports!Account(None, t)
    BY DEF Reports!Heartbeat
  <1>2. executions[x] # None /\ x \notin Reports!Busy /\ UNCHANGED pending
    BY DEF Reports!Heartbeat
  <1>3. /\ executions[x] \in ReportingExecution /\ t \in Tasks
        /\ tasks[t] # None /\ tasks[t] \in DescribedTask
    BY <1>2, ReportRows DEF ReportInv, RowsAreTied, ReportingExecution
  <1>4. executions' \in [ Executions -> {None} \cup ReportingExecution ]
    BY <1>1, <1>3, ReportRows DEF ReportingExecution
  <1>5. /\ executions'[x] \in ReportingExecution /\ executions'[x].task = t
        /\ executions'[x].version = executions[x].version
        /\ \A y \in Executions \ {x} : executions'[y] = executions[y]
    BY <1>1, <1>3, ReportRows DEF ReportingExecution
  <1>6. /\ tasks'[t] \in DescribedTask /\ tasks'[t].details = tasks[t].details
        /\ tasks'[t].latest = IF live THEN x ELSE tasks[t].latest
        /\ \A u \in Tasks \ {t} : tasks'[u] = tasks[u]
        /\ tasks' \in [ Tasks -> {None} \cup DescribedTask ]
    BY <1>1, <1>3, ReportRows DEF DescribedTask, Reports!WithLatest
  <1>7. tasks'[t] # None /\ executions'[x] # None
    BY <1>5, <1>6 DEF ReportConstants
  <1>8. /\ Reports!TypeOK' /\ \A u \in Tasks : NewestIsLatest(u)'
        /\ \A u \in Tasks : tasks'[u] = None => top'[u] = 0
    BY <1>1, <1>3, <1>4, <1>6, <1>7, AccountKeeps DEF ReportInv
  <1>9. \A u \in Tasks : tasks'[u] # None => LatestExists(u)'
    <2>1. SUFFICES ASSUME NEW u \in Tasks, tasks'[u] # None
                   PROVE  LatestExists(u)'
      OBVIOUS
    <2>2. tasks[u] # None /\ LatestExists(u)
      BY <1>3, <1>6, <2>1 DEF ReportInv, RowsAreTied
    <2> QED BY <1>3, <1>5, <1>6, <1>7, <2>2, ReportRows DEF LatestExists, DescribedTask
  <1>10. \A y \in Executions : executions'[y] # None => tasks'[executions'[y].task] # None
    <2>1. SUFFICES ASSUME NEW y \in Executions, executions'[y] # None
                   PROVE  tasks'[executions'[y].task] # None
      OBVIOUS
    <2>2. executions[y] # None /\ executions'[y].task = executions[y].task
      BY <1>2, <1>5, <2>1
    <2>3. executions[y].task \in Tasks /\ tasks[executions[y].task] # None
      BY <2>2, ReportRows DEF ReportInv, RowsAreTied, ReportingExecution
    <2> QED BY <1>6, <1>7, <2>2, <2>3
  <1>11. QueriesAreTrue'
    <2>1. \A s \in Reporters : pending[s] # None => pending[s].execution # x
      BY <1>2 DEF Reports!Busy, Reports!Underway
    <2>2. \A s \in Reporters : pending[s] # None /\ pending[s].execution # None =>
            pending[s].execution \in Executions
      BY DEF ReportInv, QueriesAreTrue, ReportQueries
    <2>3. \A s \in Reporters : pending'[s] # None /\ pending[s].execution # None =>
            executions'[pending[s].execution] = executions[pending[s].execution]
      BY <1>2, <1>5, <2>1, <2>2
    <2>4. \A y \in Executions : executions'[y] # None =>
            /\ executions[y] # None /\ executions'[y].task = executions[y].task
            /\ executions'[y].version = executions[y].version
      BY <1>2, <1>5
    <2>5. pending' \in [ Reporters -> {None} \cup ReportQueries ] /\ QueriesAreTrue
      BY <1>2 DEF ReportInv, QueriesAreTrue
    <2>6. \A u \in Tasks : tasks[u] # None => tasks'[u] # None
      BY <1>6, <1>7
    <2> QED BY <1>2, <2>3, <2>4, <2>5, <2>6, QueriesStay
  <1> QED BY <1>8, <1>9, <1>10, <1>11 DEF ReportInv, RowsAreTied

LEMMA DeleteExecutionKeepsReports ==
  ASSUME ReportConstants, ReportInv, NEW x \in Executions, Reports!DeleteExecution(x)
  PROVE  ReportInv'
  <1> DEFINE t == executions[x].task
  <1>1. /\ executions[x] # None /\ x \notin Reports!Busy /\ UNCHANGED pending
        /\ executions' = [executions EXCEPT ![x] = None]
        /\ tasks' = [tasks EXCEPT ![t].latest = IF @ = x THEN None ELSE @]
        /\ Reports!Account(None, t)
    BY DEF Reports!DeleteExecution
  <1>2. t \in Tasks /\ tasks[t] # None /\ tasks[t] \in DescribedTask
    BY <1>1, ReportRows DEF ReportInv, RowsAreTied, ReportingExecution
  <1>3. /\ executions' \in [ Executions -> {None} \cup ReportingExecution ]
        /\ executions'[x] = None /\ \A y \in Executions \ {x} : executions'[y] = executions[y]
    BY <1>1, ReportRows
  <1>4. /\ tasks'[t] \in DescribedTask /\ tasks'[t].details = tasks[t].details
        /\ tasks'[t].latest = IF tasks[t].latest = x THEN None ELSE tasks[t].latest
        /\ \A u \in Tasks \ {t} : tasks'[u] = tasks[u]
        /\ tasks' \in [ Tasks -> {None} \cup DescribedTask ]
    BY <1>1, <1>2, ReportRows DEF DescribedTask
  <1>5. tasks'[t] # None
    BY <1>4 DEF ReportConstants
  <1>6. /\ Reports!TypeOK' /\ \A u \in Tasks : NewestIsLatest(u)'
        /\ \A u \in Tasks : tasks'[u] = None => top'[u] = 0
    BY <1>1, <1>2, <1>3, <1>4, <1>5, AccountKeeps DEF ReportInv
  <1>7. \A u \in Tasks : tasks'[u] # None => LatestExists(u)'
    <2>1. SUFFICES ASSUME NEW u \in Tasks, tasks'[u] # None, tasks'[u].latest # None
                   PROVE  /\ executions'[tasks'[u].latest] # None
                          /\ executions'[tasks'[u].latest].task = u
      BY DEF LatestExists
    <2>2. tasks[u] # None /\ tasks[u] \in DescribedTask /\ LatestExists(u)
      BY <1>2, <1>4, <2>1, ReportRows DEF ReportInv, RowsAreTied
    <2>3. tasks'[u].latest = tasks[u].latest
      BY <1>4, <2>1
    <2>4. tasks'[u].latest # x
      BY <1>2, <1>4, <2>1, <2>2, <2>3 DEF LatestExists
    <2>5. tasks'[u].latest \in Executions
      BY <2>1, <2>2, <2>3 DEF DescribedTask
    <2> QED BY <1>3, <2>1, <2>2, <2>3, <2>4, <2>5 DEF LatestExists
  <1>8. \A y \in Executions : executions'[y] # None => tasks'[executions'[y].task] # None
    <2>1. SUFFICES ASSUME NEW y \in Executions, executions'[y] # None
                   PROVE  tasks'[executions'[y].task] # None
      OBVIOUS
    <2>2. executions[y] # None /\ executions'[y] = executions[y]
      BY <1>3, <2>1
    <2>3. executions[y].task \in Tasks /\ tasks[executions[y].task] # None
      BY <2>2, ReportRows DEF ReportInv, RowsAreTied, ReportingExecution
    <2> QED BY <1>4, <1>5, <2>2, <2>3
  <1>9. QueriesAreTrue'
    <2>1. \A s \in Reporters : pending[s] # None => pending[s].execution # x
      BY <1>1 DEF Reports!Busy, Reports!Underway
    <2>2. \A s \in Reporters : pending[s] # None /\ pending[s].execution # None =>
            pending[s].execution \in Executions
      BY DEF ReportInv, QueriesAreTrue, ReportQueries
    <2>3. \A s \in Reporters : pending'[s] # None /\ pending[s].execution # None =>
            executions'[pending[s].execution] = executions[pending[s].execution]
      BY <1>1, <1>3, <2>1, <2>2
    <2>4. \A y \in Executions : executions'[y] # None => executions'[y] = executions[y]
      BY <1>3
    <2>5. pending' \in [ Reporters -> {None} \cup ReportQueries ] /\ QueriesAreTrue
      BY <1>1 DEF ReportInv, QueriesAreTrue
    <2>6. \A u \in Tasks : tasks[u] # None => tasks'[u] # None
      BY <1>4, <1>5
    <2> QED BY <1>1, <2>3, <2>4, <2>5, <2>6, QueriesStay
  <1> QED BY <1>6, <1>7, <1>8, <1>9 DEF ReportInv, RowsAreTied

\* A Task goes with its executions, while nobody remembers any.
LEMMA DeleteTaskKeepsReports ==
  ASSUME ReportConstants, ReportInv, NEW t \in Tasks, Reports!DeleteTask(t)
  PROVE  ReportInv'
  <1>1. /\ tasks' = [tasks EXCEPT ![t] = None] /\ UNCHANGED pending
        /\ executions' = [x \in Executions |->
             IF executions[x] # None /\ executions[x].task = t THEN None ELSE executions[x]]
        /\ top' = [top EXCEPT ![t] = 0] /\ lapsed' = lapsed \ {t}
    BY DEF Reports!DeleteTask
  <1>2. \A s \in Reporters : pending[s] = None
    BY DEF Reports!DeleteTask, Reports!Underway
  <1>3. QueriesAreTrue'
    BY <1>1, <1>2 DEF ReportInv, QueriesAreTrue
  <1>4. /\ tasks' \in [ Tasks -> {None} \cup DescribedTask ] /\ tasks'[t] = None
        /\ executions' \in [ Executions -> {None} \cup ReportingExecution ]
        /\ \A u \in Tasks \ {t} : tasks'[u] = tasks[u]
    BY <1>1, ReportRows
  <1>5. /\ top \in [ Tasks -> 0 .. MaxVersion ] /\ lapsed \subseteq Tasks
    BY DEF ReportInv, Reports!TypeOK, Reports!Versions
  <1>6. top' \in [ Tasks -> 0 .. MaxVersion ] /\ top'[t] = 0 /\ lapsed' \subseteq Tasks
    BY <1>1, <1>5 DEF ReportConstants
  <1>7. \A u \in Tasks \ {t} : top'[u] = top[u] /\ (u \in lapsed' <=> u \in lapsed)
    BY <1>1, <1>5
  <1>8. Reports!TypeOK'
    BY <1>4, <1>6 DEF Reports!TypeOK, Reports!Versions, DescribedTask, ReportingExecution
  <1>9. ASSUME NEW u \in Tasks, tasks'[u] # None
        PROVE  LatestExists(u)' /\ NewestIsLatest(u)'
    <2>1. /\ u # t /\ tasks'[u] = tasks[u] /\ tasks[u] # None /\ tasks[u] \in DescribedTask
          /\ LatestExists(u) /\ NewestIsLatest(u)
      BY <1>4, <1>9, ReportRows DEF ReportInv, RowsAreTied
    <2>2. tasks[u].latest # None =>
            executions'[tasks[u].latest] = executions[tasks[u].latest]
      BY <1>1, <2>1 DEF LatestExists, DescribedTask
    <2>3. LatestExists(u)'
      BY <2>1, <2>2 DEF LatestExists
    <2>4. NewestIsLatest(u)'
      BY <1>7, <2>1, <2>2 DEF NewestIsLatest, Reports!VersionOfLatest
    <2> QED BY <2>3, <2>4
  <1>10. ASSUME NEW x \in Executions, executions'[x] # None
         PROVE  tasks'[executions'[x].task] # None
    <2>1. executions'[x] = executions[x] /\ executions[x] # None /\ executions[x].task # t
      BY <1>1, <1>10
    <2>2. executions[x].task \in Tasks /\ tasks[executions[x].task] # None
      BY <2>1, ReportRows DEF ReportInv, RowsAreTied, ReportingExecution
    <2> QED BY <1>4, <2>1, <2>2
  <1>11. \A u \in Tasks : tasks'[u] = None => top'[u] = 0
    BY <1>4, <1>6, <1>7 DEF ReportInv, RowsAreTied
  <1>12. \A u \in Tasks : tasks'[u] = None => NewestIsLatest(u)'
    BY DEF NewestIsLatest
  <1> QED BY <1>3, <1>8, <1>9, <1>10, <1>11, <1>12 DEF ReportInv, RowsAreTied

\* What a request that finishes does to the rows.
LEMMA FinishIs ==
  ASSUME ReportConstants, ReportInv, NEW r \in Reporters, Reports!Finish(r)
  PROVE  \E t \in Tasks, live \in BOOLEAN :
           LET q == pending[r]
               written == IF q.saves THEN Reports!SavedTask(q) ELSE tasks[t]
           IN /\ IF q.task = None THEN tasks[t] = None ELSE t = q.task
              /\ ~Reports!Refused(q, t) /\ Reports!Account(q, t)
              /\ \/ tasks' = [tasks EXCEPT ![t] = written] /\ executions' = executions
                 \/ /\ q.kind # "edit"
                    /\ tasks' = [tasks EXCEPT ![t] = Reports!WithLatest(written, q.execution, live)]
                    /\ executions' = [executions EXCEPT ![q.execution] =
                         [ task |-> t, version |-> q.version, live |-> live ]]
  <1> DEFINE q == pending[r]
             written(t) == IF q.saves THEN Reports!SavedTask(q) ELSE tasks[t]
  <1>1. PICK t \in Tasks, live \in BOOLEAN, admitted \in BOOLEAN :
          /\ IF q.task = None THEN tasks[t] = None ELSE t = q.task
          /\ ~Reports!Refused(q, t)
          /\ CASE q.kind = "edit" ->
                    /\ tasks' = [tasks EXCEPT ![t] = written(t)]
                    /\ UNCHANGED executions
               [] q.kind # "edit" /\ ~admitted ->
                    /\ q.kind = "post"
                    /\ tasks' = [tasks EXCEPT ![t] = written(t)]
                    /\ UNCHANGED executions
               [] OTHER ->
                    /\ tasks' = [tasks EXCEPT ![t] =
                         Reports!WithLatest(written(t), q.execution, live)]
                    /\ executions' = [executions EXCEPT ![q.execution] =
                         [ task |-> t, version |-> q.version, live |-> live ]]
          /\ Reports!Account(q, t)
    BY DEF Reports!Finish
  <1> HIDE DEF q, written
  <1>2. \/ tasks' = [tasks EXCEPT ![t] = written(t)] /\ executions' = executions
        \/ /\ q.kind # "edit"
           /\ tasks' = [tasks EXCEPT ![t] = Reports!WithLatest(written(t), q.execution, live)]
           /\ executions' = [executions EXCEPT ![q.execution] =
                [ task |-> t, version |-> q.version, live |-> live ]]
    BY <1>1
  <1> QED BY <1>1, <1>2 DEF q, written

\* A request whose account is kept is not older than the newest.
LEMMA KeptIsNewest ==
  ASSUME ReportConstants, ReportInv, NEW r \in Reporters, pending[r] # None, NEW t \in Tasks,
         IF pending[r].task = None THEN tasks[t] = None ELSE t = pending[r].task,
         pending[r].saves, Reports!Kept(pending[r], t), t \notin lapsed
  PROVE  top[t] <= pending[r].version
  <1> DEFINE q == pending[r]
  <1>1. q \in ReportQueries /\ QueryIsTrue(q) /\ ReadIsTrue(q)
    BY DEF ReportInv, QueriesAreTrue
  <1>2. q.version \in 0 .. MaxVersion /\ top[t] \in 0 .. MaxVersion
    BY <1>1 DEF ReportQueries, ReportInv, Reports!TypeOK, Reports!Versions
  <1>3. q.version # 0 /\ q.read = tasks[t] /\ q.asked
    BY DEF Reports!Kept
  <1>4. CASE tasks[t] = None
    <2>1. top[t] = 0
      BY <1>4 DEF ReportInv, RowsAreTied
    <2> QED BY <1>2, <2>1
  <1>5. CASE tasks[t] # None
    <2>1. /\ tasks[t] \in DescribedTask /\ LatestExists(t)
          /\ tasks[t].details = top[t] /\ Reports!VersionOfLatest(t) = top[t]
      BY <1>5, ReportRows DEF ReportInv, RowsAreTied, NewestIsLatest
    <2>2. CASE q.kind = "edit"
      <3>1. q.version = top[t]
        BY <1>1, <1>3, <2>1, <2>2 DEF QueryIsTrue
      <3> QED BY <1>2, <3>1
    <2>3. CASE tasks[t].latest = None
      <3>1. top[t] = 0
        BY <2>1, <2>3 DEF Reports!VersionOfLatest
      <3> QED BY <1>2, <3>1
    <2>4. CASE q.kind # "edit" /\ tasks[t].latest # None
      <3>1. executions[tasks[t].latest] # None /\ top[t] = executions[tasks[t].latest].version
        BY <2>1, <2>4 DEF LatestExists, Reports!VersionOfLatest
      <3> QED BY <1>1, <1>3, <1>5, <2>4, <3>1 DEF ReadIsTrue
    <2> QED BY <2>2, <2>3, <2>4
  <1> QED BY <1>4, <1>5

LEMMA FinishKeepsReports ==
  ASSUME ReportConstants, ReportInv, NEW r \in Reporters, Reports!Finish(r)
  PROVE  ReportInv'
  <1> DEFINE q == pending[r]
             written(t) == IF q.saves THEN Reports!SavedTask(q) ELSE tasks[t]
  <1>1. PICK t \in Tasks, live \in BOOLEAN :
          /\ IF q.task = None THEN tasks[t] = None ELSE t = q.task
          /\ ~Reports!Refused(q, t) /\ Reports!Account(q, t)
          /\ \/ tasks' = [tasks EXCEPT ![t] = written(t)] /\ executions' = executions
             \/ /\ q.kind # "edit"
                /\ tasks' = [tasks EXCEPT ![t] = Reports!WithLatest(written(t), q.execution, live)]
                /\ executions' = [executions EXCEPT ![q.execution] =
                     [ task |-> t, version |-> q.version, live |-> live ]]
    BY FinishIs
  <1>2. /\ q # None /\ pending' = [pending EXCEPT ![r] = None]
        /\ q \in ReportQueries /\ QueryIsTrue(q) /\ ReadIsTrue(q)
    BY DEF Reports!Finish, Reports!Done, ReportInv, QueriesAreTrue
  <1>3. q.kind # "edit" => q.execution \in Executions
    BY <1>2 DEF QueryIsTrue, ReportQueries
  <1>4. ~q.saves => tasks[t] # None
    BY <1>1, <1>2 DEF QueryIsTrue
  <1>5. /\ written(t) \in DescribedTask
        /\ written(t).details = IF q.saves THEN q.version ELSE tasks[t].details
    <2>1. CASE q.saves
      <3>1. q.name \in Names /\ q.version \in 0 .. MaxVersion
        BY <1>2, <2>1 DEF QueryIsTrue, ReportQueries
      <3>2. (IF q.read = None THEN None ELSE q.read.latest) \in Executions \cup {None}
        BY <1>2 DEF ReportQueries, DescribedTask
      <3> QED BY <2>1, <3>1, <3>2 DEF Reports!SavedTask, DescribedTask
    <2>2. CASE ~q.saves
      BY <1>4, <2>2, ReportRows
    <2> QED BY <2>1, <2>2
  <1>6. written(t).latest # None =>
          /\ executions[written(t).latest] # None /\ executions[written(t).latest].task = t
          /\ written(t).latest \in Executions
    <2>1. SUFFICES ASSUME written(t).latest # None
                   PROVE  /\ executions[written(t).latest] # None
                          /\ executions[written(t).latest].task = t
      BY <1>5 DEF DescribedTask
    <2>2. CASE ~q.saves
      <3>1. LatestExists(t)
        BY <1>4, <2>2 DEF ReportInv, RowsAreTied
      <3> QED BY <2>1, <2>2, <3>1 DEF LatestExists
    <2>3. CASE q.saves
      <3>1. q.read # None /\ written(t).latest = q.read.latest
        BY <2>1, <2>3 DEF Reports!SavedTask
      <3>2. executions[q.read.latest] # None
        BY <1>1, <2>1, <2>3, <3>1 DEF Reports!Refused, Reports!SavedTask
      <3>3. q.task = t
        BY <1>1, <1>2, <3>1 DEF QueryIsTrue
      <3> QED BY <1>2, <2>1, <3>1, <3>2, <3>3 DEF ReadIsTrue
    <2> QED BY <2>2, <2>3
  <1>7. q.version \in 0 .. MaxVersion
    BY <1>2 DEF ReportQueries
  <1>8. q.kind = "patch" =>
          /\ executions[q.execution] # None /\ executions[q.execution].task = t
          /\ executions[q.execution].version = q.version
    BY <1>1, <1>2 DEF QueryIsTrue, Reports!Refused
  <1>9. q.kind = "post" => executions[q.execution] = None
    BY <1>2 DEF QueryIsTrue
  <1>10. q.kind # "edit" => q.kind = "post" \/ q.kind = "patch"
    BY <1>2 DEF ReportQueries
  <1> DEFINE added == [ task |-> t, version |-> q.version, live |-> live ]
  <1>11. added \in ReportingExecution /\ added # None
    BY <1>7 DEF ReportingExecution, ReportConstants
  <1>12. PICK new \in DescribedTask :
           /\ tasks' = [tasks EXCEPT ![t] = new] /\ new.details = written(t).details
           /\ \/ new = written(t) /\ executions' = executions
              \/ /\ q.kind # "edit" /\ executions' = [executions EXCEPT ![q.execution] = added]
                 /\ new.latest \in { written(t).latest, q.execution }
    <2>1. CASE tasks' = [tasks EXCEPT ![t] = written(t)] /\ executions' = executions
      BY <1>5, <2>1
    <2>2. CASE /\ q.kind # "edit"
               /\ tasks' = [tasks EXCEPT ![t] = Reports!WithLatest(written(t), q.execution, live)]
               /\ executions' = [executions EXCEPT ![q.execution] = added]
      <3> HIDE DEF written
      <3> DEFINE new == Reports!WithLatest(written(t), q.execution, live)
      <3>1. new \in DescribedTask /\ new.details = written(t).details
            /\ new.latest \in { written(t).latest, q.execution }
        BY <1>3, <1>5, <2>2 DEF Reports!WithLatest, DescribedTask
      <3> QED BY <2>2, <3>1
    <2> QED BY <1>1, <2>1, <2>2
  <1> HIDE DEF written, added
  <1>13. new # None /\ tasks'[t] = new /\ \A u \in Tasks \ {t} : tasks'[u] = tasks[u]
    BY <1>12, ReportRows DEF ReportConstants
  <1>14. tasks' \in [ Tasks -> {None} \cup DescribedTask ]
    BY <1>12, ReportRows
  <1>15. /\ executions' \in [ Executions -> {None} \cup ReportingExecution ]
         /\ \A y \in Executions : executions'[y] # executions[y] =>
              /\ q.kind # "edit" /\ y = q.execution /\ executions'[y] = added
         /\ executions' # executions => executions'[q.execution] = added
    BY <1>3, <1>11, <1>12, ReportRows
  <1>16. \A y \in Executions : executions[y] # None =>
           /\ executions'[y] # None /\ executions'[y].task = executions[y].task
           /\ executions'[y].version = executions[y].version
    <2>1. SUFFICES ASSUME NEW y \in Executions, executions[y] # None,
                          executions'[y] # executions[y]
                   PROVE  /\ executions'[y] # None /\ executions'[y].task = executions[y].task
                          /\ executions'[y].version = executions[y].version
      OBVIOUS
    <2>2. q.kind = "patch" /\ y = q.execution /\ executions'[y] = added
      BY <1>9, <1>10, <1>15, <2>1
    <2> QED BY <1>8, <1>11, <2>2 DEF added
  <1>17. /\ Reports!TypeOK' /\ \A u \in Tasks : NewestIsLatest(u)'
         /\ \A u \in Tasks : tasks'[u] = None => top'[u] = 0
    <2>1. q.saves =>
            /\ tasks'[t].details = q.version
            /\ Reports!Kept(q, t) /\ t \notin lapsed => top[t] <= q.version
      BY <1>1, <1>2, <1>5, <1>12, <1>13, KeptIsNewest
    <2>2. ~q.saves => tasks[t] # None /\ tasks'[t].details = tasks[t].details
      BY <1>4, <1>5, <1>12, <1>13
    <2>3. q \in {None} \cup ReportQueries
      BY <1>2
    <2>4. Reports!Account(q, t)
      BY <1>1
    <2> HIDE DEF q
    <2> QED BY <1>2, <1>13, <1>14, <1>15, <2>1, <2>2, <2>3, <2>4, AccountKeeps DEF ReportInv
  <1>18. \A u \in Tasks : tasks'[u] # None => LatestExists(u)'
    <2>1. SUFFICES ASSUME NEW u \in Tasks, tasks'[u] # None, tasks'[u].latest # None
                   PROVE  /\ executions'[tasks'[u].latest] # None
                          /\ executions'[tasks'[u].latest].task = u
      BY DEF LatestExists
    <2>2. CASE u # t
      <3>1. /\ tasks'[u] = tasks[u] /\ tasks[u] # None /\ LatestExists(u)
            /\ tasks[u].latest \in Executions
        BY <1>13, <2>1, <2>2, ReportRows DEF ReportInv, RowsAreTied, DescribedTask
      <3> QED BY <1>16, <2>1, <3>1 DEF LatestExists
    <2>3. CASE u = t /\ new.latest = written(t).latest
      BY <1>6, <1>13, <1>16, <2>1, <2>3
    <2>4. CASE u = t /\ new.latest # written(t).latest
      <3>1. q.kind # "edit" /\ new.latest = q.execution /\ executions'[q.execution] = added
        BY <1>3, <1>12, <2>4, ReportRows
      <3> QED BY <1>11, <1>13, <2>4, <3>1 DEF added
    <2> QED BY <2>2, <2>3, <2>4
  <1>19. \A y \in Executions : executions'[y] # None => tasks'[executions'[y].task] # None
    <2>1. SUFFICES ASSUME NEW y \in Executions, executions'[y] # None
                   PROVE  tasks'[executions'[y].task] # None
      OBVIOUS
    <2>2. CASE executions'[y] = executions[y]
      <3>1. executions[y].task \in Tasks /\ tasks[executions[y].task] # None
        BY <2>1, <2>2, ReportRows DEF ReportInv, RowsAreTied, ReportingExecution
      <3> QED BY <1>13, <2>2, <3>1
    <2>3. CASE executions'[y] # executions[y]
      BY <1>13, <1>15, <2>3 DEF added
    <2> QED BY <2>2, <2>3
  <1>20. QueriesAreTrue'
    <2>1. pending' \in [ Reporters -> {None} \cup ReportQueries ] /\ QueriesAreTrue
      BY <1>2 DEF ReportInv, QueriesAreTrue
    <2>2. \A s \in Reporters : pending'[s] # None => pending'[s] = pending[s] /\ s # r
      BY <1>2, <2>1 DEF QueriesAreTrue
    <2>3. \A u \in Tasks : tasks[u] # None => tasks'[u] # None
      BY <1>13
    <2>4. \A s \in Reporters : pending'[s] # None /\ pending[s].execution # None =>
            executions'[pending[s].execution] = executions[pending[s].execution]
      <3>1. SUFFICES ASSUME NEW s \in Reporters, pending'[s] # None, pending[s].execution # None
                     PROVE  executions'[pending[s].execution] = executions[pending[s].execution]
        OBVIOUS
      <3>2. pending[s].execution \in Executions /\ pending[s].execution # q.execution
        BY <1>2, <2>1, <2>2, <3>1 DEF QueriesAreTrue, ReportQueries, Apart
      <3> QED BY <1>15, <3>2
    <2>5. \A s \in Reporters : \A x \in Executions :
            /\ pending'[s] # None /\ pending[s].read # None
            /\ pending[s].read.latest = x /\ executions'[x] # None
            => /\ executions[x] # None /\ executions'[x].task = executions[x].task
               /\ executions'[x].version = executions[x].version
      <3>1. SUFFICES ASSUME NEW s \in Reporters, NEW x \in Executions, pending'[s] # None,
                            pending[s].read # None, pending[s].read.latest = x,
                            executions'[x] # None
                     PROVE  executions[x] # None
        BY <1>16
      <3>2. CASE q.kind = "post"
        <4>1. pending[s].read.latest # q.execution
          BY <1>2, <2>1, <2>2, <3>1, <3>2 DEF QueriesAreTrue, Unread
        <4> QED BY <1>15, <3>1, <4>1
      <3>3. CASE q.kind # "post"
        BY <1>8, <1>10, <1>15, <3>1, <3>3
      <3> QED BY <3>2, <3>3
    <2> QED BY <2>1, <2>2, <2>3, <2>4, <2>5, QueriesStay
  <1> QED BY <1>17, <1>18, <1>19, <1>20 DEF ReportInv, RowsAreTied

LEMMA ReportsBegin ==
  ASSUME ReportConstants, Reports!Init
  PROVE  ReportInv
  BY DEF ReportConstants, Reports!Init, ReportInv, Reports!TypeOK, Reports!Versions, RowsAreTied,
         NewestIsLatest, QueriesAreTrue

LEMMA ReportsGoOn ==
  ASSUME ReportConstants, ReportInv, [Reports!Next]_(Reports!vars)
  PROVE  ReportInv'
  <1>1. CASE \E r \in Reporters :
               Reports!BeginPost(r) \/ Reports!BeginPatch(r) \/ Reports!BeginEdit(r)
    BY <1>1, BeginsKeepReports
  <1>2. CASE \E r \in Reporters : Reports!Finish(r)
    BY <1>2, FinishKeepsReports
  <1>3. CASE \E r \in Reporters : Reports!Refuse(r)
    BY <1>3, RefuseKeepsReports
  <1>4. CASE \E x \in Executions : Reports!Heartbeat(x)
    BY <1>4, HeartbeatKeepsReports
  <1>5. CASE \E x \in Executions : Reports!DeleteExecution(x)
    BY <1>5, DeleteExecutionKeepsReports
  <1>6. CASE \E t \in Tasks : Reports!DeleteTask(t)
    BY <1>6, DeleteTaskKeepsReports
  <1>7. CASE UNCHANGED Reports!vars
    <2>1. /\ tasks' = tasks /\ executions' = executions /\ pending' = pending
          /\ top' = top /\ lapsed' = lapsed
      BY <1>7 DEF Reports!vars
    <2>2. Reports!TypeOK'
      BY <2>1 DEF ReportInv, Reports!TypeOK, Reports!Versions
    <2>3. RowsAreTied'
      BY <2>1 DEF ReportInv, RowsAreTied, LatestExists
    <2>4. \A t \in Tasks : NewestIsLatest(t)'
      BY <2>1 DEF ReportInv, NewestIsLatest, Reports!VersionOfLatest
    <2>5. QueriesAreTrue'
      BY <2>1 DEF ReportInv, QueriesAreTrue, QueryIsTrue, ReadIsTrue, Apart, Unread
    <2> QED BY <2>2, <2>3, <2>4, <2>5 DEF ReportInv
  <1> QED BY <1>1, <1>2, <1>3, <1>4, <1>5, <1>6, <1>7 DEF Reports!Next

\* Whatever overlaps, a process of an older version does not take back how a newer
\* one has described its Task (TaskExecutionSerializer.to_internal_value), unless
\* one of the reasons that the property names came between.
THEOREM NewestDescribes == Reports!Spec => []DescriptionIsNewest
  <1> USE ReportAssumption
  <1>1. Reports!Init => ReportInv
    BY ReportsBegin
  <1>2. ReportInv /\ [Reports!Next]_(Reports!vars) => ReportInv'
    BY ReportsGoOn
  <1>3. ReportInv => DescriptionIsNewest
    BY DEF ReportInv, NewestIsLatest, DescriptionIsNewest, Reports!DescriptionIsNewest,
           Reports!Known
  <1> QED BY <1>1, <1>2, <1>3, PTL DEF Reports!Spec

-----------------------------------------------------------------------------
(* The settings of a Task (TaskSettings).  Whatever is saved has been      *)
(* enriched, and enriching it again changes nothing.                       *)

\* The attribute derived from the subnets agrees with them.
Settled(network) ==
  network # None /\ network.subnets # None => network.urls = network.subnets

MaybeNetwork == SettingsNetwork \cup {None}
MaybeConfig == SettingsConfig \cup {None}

TaskIsSettled(t) ==
  /\ t = [ method |-> t.method, scheduled |-> t.scheduled, config |-> t.config,
           infra |-> t.infra ]
  /\ t.config \in MaybeConfig
  /\ t.infra # None =>
       /\ t.infra = [ network |-> t.infra.network ]
       /\ t.infra.network \in MaybeNetwork /\ Settled(t.infra.network)

SettingsInv ==
  /\ env = [ network |-> env.network, config |-> env.config ]
  /\ env.network \in MaybeNetwork /\ env.config \in MaybeConfig
  /\ TaskIsSettled(settings)
  /\ starting # None =>
       /\ TaskIsSettled(starting.task)
       /\ starting.network \in MaybeNetwork /\ starting.overriding \in MaybeNetwork

\* Merging gives a dictionary with the attributes of the lower one.
LEMMA OverNetworks ==
  ASSUME SettingsConstants, NEW lower \in MaybeNetwork, NEW upper \in MaybeNetwork
  PROVE  Settings!Over(lower, upper) \in MaybeNetwork
  BY DEF SettingsConstants, MaybeNetwork, SettingsNetwork, Settings!Over

LEMMA OverConfigs ==
  ASSUME SettingsConstants, NEW lower \in MaybeConfig, NEW upper \in MaybeConfig
  PROVE  /\ Settings!Over(lower, upper) \in MaybeConfig
         /\ lower # None /\ upper # None =>
              /\ Settings!Over(lower, upper) # None
              /\ upper.option # None => Settings!Over(lower, upper).option = upper.option
  BY DEF SettingsConstants, MaybeConfig, SettingsConfig, Settings!Over

LEMMA OverNone ==
  /\ \A lower : Settings!Over(lower, None) = lower
  /\ \A upper : Settings!Over(None, upper) = upper
  BY DEF Settings!Over

LEMMA EnrichedSettles ==
  ASSUME SettingsConstants, NEW network \in MaybeNetwork
  PROVE  /\ Settings!Enriched(network) \in MaybeNetwork
         /\ Settled(Settings!Enriched(network))
         /\ Settled(network) => Settings!Enriched(network) = network
  <1>1. CASE network = None
    BY <1>1 DEF Settings!Enriched, Settled, MaybeNetwork
  <1>2. CASE network \in SettingsNetwork
    <2>1. network # None
      BY <1>2 DEF SettingsConstants
    <2>2. Settings!Derived(network) = [ subnets |-> network.subnets, urls |-> network.subnets ]
      BY <1>2 DEF Settings!Derived, SettingsNetwork
    <2>3. Settings!Derived(network) # None
      BY <1>2, <2>2 DEF SettingsConstants, SettingsNetwork
    <2>4. Settings!Enriched(network) =
            [a \in DOMAIN network |-> IF Settings!Derived(network)[a] # None
                                      THEN Settings!Derived(network)[a] ELSE network[a]]
      BY <2>1, <2>3 DEF Settings!Enriched, Settings!Over
    <2>5. Settings!Enriched(network) =
            [ subnets |-> network.subnets,
              urls |-> IF network.subnets # None THEN network.subnets ELSE network.urls ]
      BY <1>2, <2>2, <2>4 DEF SettingsNetwork
    <2> QED BY <1>2, <2>1, <2>5 DEF SettingsNetwork, MaybeNetwork, Settled
  <1> QED BY <1>1, <1>2 DEF MaybeNetwork

LEMMA SentNetworks ==
  ASSUME SettingsConstants, NEW old \in MaybeNetwork, NEW sent,
         sent # None => \A a \in DOMAIN sent : sent[a] \in Subnets \cup {None}
  PROVE  Settings!Sent(old, sent, { "subnets", "urls" }) \in MaybeNetwork
  BY DEF Settings!Sent, MaybeNetwork, SettingsNetwork

LEMMA SentConfigs ==
  ASSUME SettingsConstants, NEW old \in MaybeConfig, NEW sent,
         sent # None => \A a \in DOMAIN sent :
           sent[a] \in {None} \cup (IF a = "option" THEN Options ELSE { "name", "arn" })
  PROVE  Settings!Sent(old, sent, { "option", "cluster" }) \in MaybeConfig
  BY DEF Settings!Sent, MaybeConfig, SettingsConfig

\* merge_aws_settings and merge_aws_ecs_settings_dict.
LEMMA EffectiveTypes ==
  ASSUME SettingsConstants, NEW e, e.network \in MaybeNetwork, e.config \in MaybeConfig,
         NEW t, t.infra # None => t.infra.network \in MaybeNetwork, t.config \in MaybeConfig,
         NEW overriding \in MaybeNetwork
  PROVE  /\ Settings!NetworkOf(t) \in MaybeNetwork
         /\ Settings!EffectiveNetwork(e, t, overriding) \in MaybeNetwork
         /\ Settings!EffectiveConfig(e, t, None) \in MaybeConfig
         /\ Settings!Sanitized(e, t) \in MaybeConfig
  <1>1. Settings!NetworkOf(t) \in MaybeNetwork
    BY DEF Settings!NetworkOf, MaybeNetwork
  <1>2. Settings!EffectiveNetwork(e, t, overriding) \in MaybeNetwork
    BY <1>1, OverNetworks DEF Settings!EffectiveNetwork
  <1>3. Settings!DefaultConfig(e, t.method) \in MaybeConfig
    BY DEF Settings!DefaultConfig, MaybeConfig
  <1>4. Settings!EffectiveConfig(e, t, None) \in MaybeConfig
    BY <1>3, OverConfigs, OverNone DEF Settings!EffectiveConfig
  <1>5. Settings!Sanitized(e, t) \in MaybeConfig
    <2>1. CASE Settings!Attribute(Settings!EffectiveConfig(e, t, None), "cluster") = "name"
      <3>1. Settings!EffectiveConfig(e, t, None) \in SettingsConfig
        BY <1>4, <2>1 DEF Settings!Attribute, MaybeConfig, SettingsConstants
      <3> DEFINE config == Settings!EffectiveConfig(e, t, None)
      <3>2. [config EXCEPT !.cluster = "arn"] \in SettingsConfig
        <4> HIDE DEF config
        <4> QED BY <3>1 DEF SettingsConfig, config
      <3> QED BY <3>2 DEF Settings!Sanitized, MaybeConfig
    <2>2. CASE Settings!Attribute(Settings!EffectiveConfig(e, t, None), "cluster") # "name"
      BY <2>2 DEF Settings!Sanitized
    <2> QED BY <2>1, <2>2
  <1> QED BY <1>1, <1>2, <1>4, <1>5

LEMMA EditEnvSettles ==
  ASSUME SettingsConstants, SettingsInv, NEW network \in Settings!Networks,
         NEW config \in Settings!NetworkConfigs, starting = None,
         Settings!EditEnv(network, config)
  PROVE  SettingsInv'
  <1>1. network \in MaybeNetwork /\ config \in MaybeConfig
    BY DEF Settings!Networks, Settings!NetworkConfigs, MaybeNetwork, MaybeConfig,
           SettingsNetwork, SettingsConfig
  <1>2. Settings!EnrichedEnv(network) \in MaybeNetwork
    BY <1>1 DEF Settings!EnrichedEnv, Settings!Derived, MaybeNetwork, SettingsNetwork
  <1>3. /\ env' = [ network |-> Settings!EnrichedEnv(network),
                    config |-> IF config = None THEN env.config ELSE config ]
        /\ settings' = settings /\ starting' = starting
    BY DEF Settings!EditEnv
  <1>4. (IF config = None THEN env.config ELSE config) \in MaybeConfig
    BY <1>1 DEF SettingsInv
  <1> QED BY <1>2, <1>3, <1>4 DEF SettingsInv

LEMMA SavedIs ==
  ASSUME NEW e, NEW method, NEW scheduled, NEW config, NEW infra, NEW t,
         t = [ method |-> method, scheduled |-> scheduled, config |-> config, infra |-> infra ]
  PROVE  Settings!Saved(e, t) =
           [ method |-> method, scheduled |-> scheduled, config |-> Settings!Sanitized(e, t),
             infra |-> IF infra = None THEN None
                       ELSE [ network |-> Settings!Enriched(infra.network) ] ]
  <1> DEFINE c == Settings!Sanitized(e, t)
             i == IF infra = None THEN None
                  ELSE [ network |-> Settings!Enriched(infra.network) ]
  <1>1. Settings!Saved(e, t) = [t EXCEPT !.config = c, !.infra = i]
    BY DEF Settings!Saved
  <1> HIDE DEF c, i
  <1> QED BY <1>1 DEF c, i

\* What an edit saves.
LEMMA EditedSettles ==
  ASSUME SettingsConstants, SettingsInv, NEW edit \in SettingsEdits
  PROVE  TaskIsSettled(Settings!Saved(env, Settings!Edited(edit)))
  <1> DEFINE new == Settings!Edited(edit)
             configs == { "option", "cluster" }
             old == IF (IF "method" \in DOMAIN edit THEN edit.method ELSE settings.method)
                       = settings.method THEN settings.config ELSE None
  <1>1. old \in MaybeConfig /\ settings.config \in MaybeConfig
    BY DEF SettingsInv, TaskIsSettled, MaybeConfig
  <1>2. "config" \in DOMAIN edit =>
          Settings!Sent(old, edit.config, configs) \in MaybeConfig
    BY <1>1, SentConfigs DEF SettingsConstants
  <1>3. [ option |-> None, cluster |-> None ] \in MaybeConfig
    BY DEF MaybeConfig, SettingsConfig
  <1>4. new.config \in MaybeConfig
    BY <1>1, <1>2, <1>3 DEF Settings!Edited
  <1>5. Settings!NetworkOf(settings) \in MaybeNetwork
    BY DEF SettingsInv, TaskIsSettled, Settings!NetworkOf, MaybeNetwork
  <1>6. "infra" \in DOMAIN edit /\ edit.infra # None =>
          Settings!Sent(Settings!NetworkOf(settings), edit.infra.network, { "subnets", "urls" })
            \in MaybeNetwork
    BY <1>5, SentNetworks DEF SettingsConstants
  <1>7. new.infra # None =>
          new.infra = [ network |-> new.infra.network ] /\ new.infra.network \in MaybeNetwork
    <2>1. CASE "infra" \notin DOMAIN edit
      BY <2>1 DEF Settings!Edited, SettingsInv, TaskIsSettled
    <2>2. CASE "infra" \in DOMAIN edit /\ edit.infra = None
      BY <2>2 DEF Settings!Edited
    <2>3. CASE "infra" \in DOMAIN edit /\ edit.infra # None
      <3>1. new.infra = [ network |-> Settings!Sent(Settings!NetworkOf(settings),
                                        edit.infra.network, { "subnets", "urls" }) ]
        BY <2>3 DEF Settings!Edited
      <3> HIDE DEF new
      <3> QED BY <1>6, <2>3, <3>1
    <2> QED BY <2>1, <2>2, <2>3
  <1>8. new = [ method |-> new.method, scheduled |-> new.scheduled, config |-> new.config,
                infra |-> new.infra ]
    BY DEF Settings!Edited
  <1> HIDE DEF new
  <1>9. Settings!Sanitized(env, new) \in MaybeConfig
    <2>1. None \in MaybeNetwork
      BY DEF MaybeNetwork
    <2> QED BY <1>4, <1>7, <2>1, EffectiveTypes DEF SettingsInv
  <1> DEFINE infra == IF new.infra = None THEN None
                      ELSE [ network |-> Settings!Enriched(new.infra.network) ]
  <1>10. Settings!Saved(env, new) =
           [ method |-> new.method, scheduled |-> new.scheduled,
             config |-> Settings!Sanitized(env, new), infra |-> infra ]
    BY <1>8, SavedIs
  <1>11. infra # None =>
           /\ infra = [ network |-> infra.network ]
           /\ infra.network \in MaybeNetwork /\ Settled(infra.network)
    BY <1>7, EnrichedSettles
  <1> HIDE DEF infra
  <1> QED BY <1>9, <1>10, <1>11 DEF TaskIsSettled, new

LEMMA EditTaskSettles ==
  ASSUME SettingsConstants, SettingsInv, NEW edit \in SettingsEdits, Settings!EditTask(edit)
  PROVE  SettingsInv'
  <1>1. /\ settings' = Settings!Saved(env, Settings!Edited(edit))
        /\ env' = env /\ starting' = starting
    BY DEF Settings!EditTask
  <1>2. TaskIsSettled(settings')
    BY <1>1, EditedSettles
  <1> QED BY <1>1, <1>2 DEF SettingsInv, TaskIsSettled

LEMMA BeginStartSettles ==
  ASSUME SettingsConstants, SettingsInv, NEW network \in Settings!Networks,
         Settings!BeginStart(network)
  PROVE  SettingsInv'
  <1>1. network \in MaybeNetwork
    BY DEF Settings!Networks, MaybeNetwork, SettingsNetwork
  <1>2. /\ starting' = [ network |-> env.network, task |-> settings, overriding |-> network ]
        /\ env' = env /\ settings' = settings
    BY DEF Settings!BeginStart
  <1> QED BY <1>1, <1>2 DEF SettingsInv, TaskIsSettled

\* A start saves the network that it has merged the settings into.
LEMMA FinishStartIs ==
  ASSUME SettingsConstants, SettingsInv, Settings!FinishStart
  PROVE  LET e == [env EXCEPT !.network = starting.network]
             t == starting.task
             after == Settings!TaskNetworkAfter(e, t, starting.overriding)
         IN /\ starting # None /\ starting' = None /\ env' = env
            /\ e.network = starting.network /\ e.config = env.config
            /\ after \in MaybeNetwork
            /\ \/ settings' = settings
               \/ t.infra = None /\ settings' = t
               \/ /\ t.infra # None
                  /\ settings' = [ method |-> t.method, scheduled |-> t.scheduled,
                                   config |-> t.config,
                                   infra |-> [ network |-> Settings!Enriched(after) ] ]
  <1> DEFINE e == [env EXCEPT !.network = starting.network]
             t == starting.task
             after == Settings!TaskNetworkAfter(e, t, starting.overriding)
  <1>1. starting # None /\ starting' = None /\ env' = env
    BY DEF Settings!FinishStart
  <1>2. settings' = settings \/ settings' = Settings!EcsTask(t, after)
    BY DEF Settings!FinishStart
  <1>3. e.network = starting.network /\ e.config = env.config
    BY DEF SettingsInv
  <1>4. /\ e.network \in MaybeNetwork /\ e.config \in MaybeConfig
        /\ starting.overriding \in MaybeNetwork /\ t.config \in MaybeConfig
        /\ t.infra # None => t.infra.network \in MaybeNetwork
    BY <1>1, <1>3 DEF SettingsInv, TaskIsSettled
  <1>5. after \in MaybeNetwork
    <2> HIDE DEF e, t
    <2> QED BY <1>4, EffectiveTypes DEF Settings!TaskNetworkAfter
  <1>6. TaskIsSettled(t)
    BY <1>1 DEF SettingsInv
  <1>7. t.infra # None =>
          Settings!EcsTask(t, after) =
            [ method |-> t.method, scheduled |-> t.scheduled, config |-> t.config,
              infra |-> [ network |-> Settings!Enriched(after) ] ]
    <2> HIDE DEF t, after
    <2> QED BY <1>6 DEF Settings!EcsTask, TaskIsSettled
  <1>8. t.infra = None => Settings!EcsTask(t, after) = t
    BY DEF Settings!EcsTask
  <1> HIDE DEF e, t, after
  <1>9. \/ settings' = settings
        \/ t.infra = None /\ settings' = t
        \/ /\ t.infra # None
           /\ settings' = [ method |-> t.method, scheduled |-> t.scheduled,
                            config |-> t.config,
                            infra |-> [ network |-> Settings!Enriched(after) ] ]
    BY <1>2, <1>7, <1>8
  <1> QED BY <1>1, <1>3, <1>5, <1>9 DEF e, t, after

LEMMA FinishStartSettles ==
  ASSUME SettingsConstants, SettingsInv, Settings!FinishStart
  PROVE  SettingsInv'
  <1> DEFINE t == starting.task
  <1>1. PICK after \in MaybeNetwork :
          /\ starting # None /\ starting' = None /\ env' = env
          /\ \/ settings' = settings
             \/ t.infra = None /\ settings' = t
             \/ /\ t.infra # None
                /\ settings' = [ method |-> t.method, scheduled |-> t.scheduled,
                                 config |-> t.config,
                                 infra |-> [ network |-> Settings!Enriched(after) ] ]
    BY FinishStartIs
  <1>2. TaskIsSettled(settings) /\ TaskIsSettled(t)
    BY <1>1 DEF SettingsInv
  <1>3. Settings!Enriched(after) \in MaybeNetwork /\ Settled(Settings!Enriched(after))
    BY EnrichedSettles
  <1> HIDE DEF t
  <1>4. TaskIsSettled(settings')
    BY <1>1, <1>2, <1>3 DEF TaskIsSettled
  <1> QED BY <1>1, <1>4 DEF SettingsInv, TaskIsSettled

\* A start that overrides nothing, or finds a network in the Run Environment, saves
\* the Task as it was.
LEMMA FinishStartLeaves ==
  ASSUME SettingsConstants, SettingsInv, Settings!FinishStart
  PROVE  \/ settings' = settings
         \/ starting.task # settings
         \/ starting.network = None /\ starting.overriding # None
  <1> DEFINE e == [env EXCEPT !.network = starting.network]
             t == starting.task
             after == Settings!TaskNetworkAfter(e, t, starting.overriding)
  <1>1. SUFFICES ASSUME t = settings, starting.network # None \/ starting.overriding = None,
                        t.infra # None,
                        settings' = [ method |-> t.method, scheduled |-> t.scheduled,
                                      config |-> t.config,
                                      infra |-> [ network |-> Settings!Enriched(after) ] ]
                 PROVE  settings' = settings
    BY FinishStartIs
  <1>2. TaskIsSettled(t) /\ e.network = starting.network
    BY <1>1, FinishStartIs DEF SettingsInv
  <1>3. after = Settings!NetworkOf(t)
    BY <1>1, <1>2, OverNone
       DEF Settings!TaskNetworkAfter, Settings!EffectiveNetwork
  <1>4. Settings!NetworkOf(t) = t.infra.network
    BY <1>1 DEF Settings!NetworkOf
  <1>5. Settings!Enriched(after) = t.infra.network
    BY <1>1, <1>2, <1>3, <1>4, EnrichedSettles DEF TaskIsSettled
  <1> HIDE DEF after, t, e
  <1> QED BY <1>1, <1>2, <1>5 DEF TaskIsSettled

LEMMA SettingsBegin ==
  ASSUME SettingsConstants, Settings!Init
  PROVE  SettingsInv
  BY DEF Settings!Init, SettingsInv, TaskIsSettled, MaybeNetwork, MaybeConfig

LEMMA SettingsGoOn ==
  ASSUME SettingsConstants, SettingsInv, [Settings!Next]_(Settings!vars)
  PROVE  SettingsInv'
  <1>1. CASE \E network \in Settings!Networks, config \in Settings!NetworkConfigs :
               starting = None /\ Settings!EditEnv(network, config)
    BY <1>1, EditEnvSettles
  <1>2. CASE \E edit \in SettingsEdits : Settings!EditTask(edit)
    BY <1>2, EditTaskSettles
  <1>3. CASE \E network \in Settings!Networks : Settings!BeginStart(network)
    BY <1>3, BeginStartSettles
  <1>4. CASE Settings!FinishStart
    BY <1>4, FinishStartSettles
  <1>5. CASE /\ UNCHANGED <<env, settings, starting>>
    BY <1>5 DEF SettingsInv, TaskIsSettled
  <1>6. ASSUME NEW network \in Settings!Networks \ {None}, Settings!Report(network)
        PROVE  SettingsInv'
    BY <1>5, <1>6 DEF Settings!Report
  <1> QED BY <1>1, <1>2, <1>3, <1>4, <1>5, <1>6 DEF Settings!Next, Settings!vars

\* The option of the old row, as should_update_or_force_recreate_scheduled_execution
\* computes it, is the one its rule has, if the row sets it or nothing else does.
LEMMA OldOptionIs ==
  ASSUME SettingsConstants, SettingsInv, NEW new, new.config \in MaybeConfig,
         settings.config # None,
         env.config = None \/ Settings!Attribute(settings.config, "option") # None
  PROVE  LET old == Settings!OldInMemory(new)
             after == [ network |-> Settings!EnvNetworkAfter(env, new),
                        config |-> Settings!EnvConfigAfter(env, new) ]
         IN Settings!Attribute(Settings!EffectiveConfig(after, old, None), "option")
              = Settings!RuleFor(env, settings).option
  <1> DEFINE old == Settings!OldInMemory(new)
             after == [ network |-> Settings!EnvNetworkAfter(env, new),
                        config |-> Settings!EnvConfigAfter(env, new) ]
             mine == settings.config
  <1>1. /\ env.config \in MaybeConfig /\ mine \in MaybeConfig
        /\ settings = [ method |-> settings.method, scheduled |-> settings.scheduled,
                        config |-> settings.config, infra |-> settings.infra ]
    BY DEF SettingsInv, TaskIsSettled
  <1>2. old.config = mine /\ old.method = settings.method
    BY <1>1 DEF Settings!OldInMemory
  <1>3. after.config \in MaybeConfig /\ (env.config = None => after.config = None)
    <2>1. Settings!DefaultConfig(env, new.method) \in MaybeConfig
          /\ (env.config = None => Settings!DefaultConfig(env, new.method) = None)
      BY <1>1 DEF Settings!DefaultConfig, MaybeConfig
    <2>2. Settings!EffectiveConfig(env, new, None) \in MaybeConfig
      BY <2>1, OverConfigs, OverNone DEF Settings!EffectiveConfig
    <2> QED BY <1>1, <2>1, <2>2 DEF Settings!EnvConfigAfter
  <1> DEFINE before == Settings!DefaultConfig(env, settings.method)
             then == Settings!DefaultConfig(after, settings.method)
  <1>4. /\ before \in MaybeConfig /\ then \in MaybeConfig
        /\ env.config = None => before = None /\ then = None
    BY <1>1, <1>3 DEF Settings!DefaultConfig, MaybeConfig
  <1>5. Settings!EffectiveConfig(after, old, None) = Settings!Over(then, mine)
    BY <1>2, OverNone DEF Settings!EffectiveConfig
  <1>6. Settings!EffectiveConfig(env, settings, None) = Settings!Over(before, mine)
    BY OverNone DEF Settings!EffectiveConfig
  <1>7. Settings!RuleFor(env, settings).option =
          Settings!Attribute(Settings!Over(before, mine), "option")
    BY <1>6 DEF Settings!RuleFor
  <1> HIDE DEF before, then, after, old
  <1>8. CASE env.config = None
    BY <1>4, <1>5, <1>7, <1>8 DEF before, then, after, old
  <1>9. CASE Settings!Attribute(mine, "option") # None
    <2>1. mine.option # None /\ Settings!Attribute(mine, "option") = mine.option
      BY <1>9 DEF Settings!Attribute
    <2>2. ASSUME NEW lower \in MaybeConfig
          PROVE  Settings!Attribute(Settings!Over(lower, mine), "option") = mine.option
      <3>1. CASE lower = None
        BY <2>1, <3>1, OverNone
      <3>2. CASE lower # None
        BY <1>1, <2>1, <3>2, OverConfigs DEF Settings!Attribute
      <3> QED BY <3>1, <3>2
    <2> QED BY <1>4, <1>5, <1>7, <2>2 DEF after, old
  <1> QED BY <1>8, <1>9

LEMMA EditedOptionReaches ==
  ASSUME SettingsConstants, SettingsInv, NEW edit \in SettingsEdits, Settings!EditTask(edit),
         settings.scheduled, settings'.scheduled,
         Settings!RuleFor(env, settings).option # Settings!RuleFor(env, settings').option
  PROVE  \/ started'.option = Settings!RuleFor(env, settings').option
         \/ env.config # None /\ Settings!Attribute(settings.config, "option") = None
  <1> DEFINE new == Settings!Saved(env, Settings!Edited(edit))
             old == Settings!OldInMemory(new)
             after == [ network |-> Settings!EnvNetworkAfter(env, new),
                        config |-> Settings!EnvConfigAfter(env, new) ]
             changes == Settings!RuleChanges(env, old, new)
  <1>1. /\ settings' = new
        /\ started' = IF ~changes THEN started
                      ELSE IF new.scheduled THEN Settings!RuleFor(env, new) ELSE None
    BY DEF Settings!EditTask
  <1>2. CASE changes
    <2> HIDE DEF new, changes
    <2> QED BY <1>1, <1>2
  <1>3. CASE ~changes
    <2>1. SUFFICES ASSUME env.config = None \/ Settings!Attribute(settings.config, "option") # None
                   PROVE  FALSE
      OBVIOUS
    <2>2. TaskIsSettled(new)
      BY EditedSettles
    <2>3. old.config = settings.config
      BY DEF Settings!OldInMemory, SettingsInv, TaskIsSettled
    <2>4. /\ old.config # None
          /\ Settings!Attribute(Settings!EffectiveConfig(after, old, None), "option")
               = Settings!Attribute(Settings!EffectiveConfig(env, new, None), "option")
      <3> HIDE DEF new, old
      <3> QED BY <1>1, <1>3 DEF Settings!RuleChanges, Settings!MethodAttributes
    <2>5. new.config \in MaybeConfig
      BY <2>2 DEF TaskIsSettled
    <2>6. Settings!Attribute(Settings!EffectiveConfig(after, old, None), "option")
            = Settings!RuleFor(env, settings).option
      <3> HIDE DEF new
      <3> QED BY <2>1, <2>3, <2>4, <2>5, OldOptionIs
    <2>7. Settings!RuleFor(env, settings').option =
            Settings!Attribute(Settings!EffectiveConfig(env, new, None), "option")
      <3> HIDE DEF new
      <3> QED BY <1>1 DEF Settings!RuleFor
    <2> QED BY <2>4, <2>6, <2>7
  <1> QED BY <1>2, <1>3

LEMMA SettingsSteps ==
  ASSUME SettingsConstants, SettingsInv, Settings!Next
  PROVE  \/ UNCHANGED settings
         \/ \E edit \in SettingsEdits : Settings!EditTask(edit)
         \/ Settings!FinishStart
  BY DEF Settings!Next, Settings!EditEnv, Settings!BeginStart, Settings!Report

\* Whatever is overridden, and whatever is edited before and after: a start leaves
\* the settings of its Task as they are, where they are edited in the meantime, or
\* the Run Environment has no network, excepted (AwsEcsExecutionMethod.manually_start).
THEOREM StartsLeaveTask == Settings!Spec => StartLeavesTask
  <1> USE SettingsAssumption
  <1>1. Settings!Init => SettingsInv
    BY SettingsBegin
  <1>2. SettingsInv /\ [Settings!Next]_(Settings!vars) => SettingsInv'
    BY SettingsGoOn
  <1> DEFINE Leaves ==
        starting # None /\ starting' = None
          => \/ settings' = settings
             \/ starting.task # settings
             \/ starting.network = None /\ starting.overriding # None
  <1>3. SettingsInv /\ Settings!Next => Leaves
    <2>1. ASSUME NEW edit \in SettingsEdits, Settings!EditTask(edit)
          PROVE  starting' = starting
      BY <2>1 DEF Settings!EditTask
    <2> QED BY <2>1, SettingsSteps, FinishStartLeaves
  <1>4. SettingsInv /\ [Settings!Next]_(Settings!vars) => [Leaves]_(Settings!vars)
    BY <1>3
  <1>5. Settings!Spec => [][Leaves]_(Settings!vars)
    BY <1>1, <1>2, <1>4, PTL DEF Settings!Spec
  <1> QED BY <1>5 DEF StartLeavesTask, Settings!StartLeavesTask

\* Whatever the Run Environment has and requests send: an edit of a scheduled Task
\* that changes the option it is started with gets to its rule, unless it is the
\* first to set what the Run Environment has defaults for
\* (should_update_or_force_recreate_scheduled_execution).
THEOREM OptionsReachRule == Settings!Spec => ChangedOptionReachesRule
  <1> USE SettingsAssumption
  <1>1. Settings!Init => SettingsInv
    BY SettingsBegin
  <1>2. SettingsInv /\ [Settings!Next]_(Settings!vars) => SettingsInv'
    BY SettingsGoOn
  <1> DEFINE Reaches ==
        /\ env' = env /\ starting' = starting /\ settings' # settings
        /\ settings.scheduled /\ settings'.scheduled /\ started # None
        /\ Settings!RuleFor(env, settings).option # Settings!RuleFor(env, settings').option
        => \/ started'.option = Settings!RuleFor(env, settings').option
           \/ env.config # None /\ Settings!Attribute(settings.config, "option") = None
  <1>3. SettingsInv /\ Settings!Next => Reaches
    <2>1. Settings!FinishStart => starting # None /\ starting' = None
      BY DEF Settings!FinishStart
    <2> QED BY <2>1, SettingsSteps, EditedOptionReaches
  <1>4. SettingsInv /\ [Settings!Next]_(Settings!vars) => [Reaches]_(Settings!vars)
    BY <1>3
  <1>5. Settings!Spec => [][Reaches]_(Settings!vars)
    BY <1>1, <1>2, <1>4, PTL DEF Settings!Spec
  <1> QED BY <1>5 DEF ChangedOptionReachesRule, Settings!ChangedOptionReachesRule

=============================================================================
