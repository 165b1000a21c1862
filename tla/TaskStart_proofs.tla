-------------------------- MODULE TaskStart_proofs --------------------------
(***************************************************************************)
(* Theorems about TaskStart, for every set of requests, every limit and    *)
(* every combination of faults; then about ProcessStart, for any settings, *)
(* and about ServiceConcurrency, for any executions and any window.        *)
(***************************************************************************)
EXTENDS TaskRuns, FiniteSetTheorems, SequenceTheorems, TLAPS

\* What a request may purge are rows.
LEMMA PurgeChoicesType ==
  ASSUME NEW reserved, NEW victims \in PurgeChoices(reserved)
  PROVE  victims \subseteq Rows
BY DEF PurgeChoices

LEMMA RowsType == Rows \subseteq Starts
BY DEF Rows

LEMMA TypeInit == Init => TypeOK
BY KindsAssumption DEF Init, TypeOK, Status

LEMMA TypeStep == TypeOK /\ [Next]_vars => TypeOK'
<1> SUFFICES ASSUME TypeOK, [Next]_vars PROVE TypeOK'
  OBVIOUS
<1> USE RowsType DEF TypeOK
<1>1. ASSUME NEW s \in Starts, Load(s) PROVE TypeOK'
  BY <1>1 DEF Load, UnderWay
<1>2. ASSUME NEW s \in Starts, Admit(s) PROVE TypeOK'
  <2>1. CASE CanStart
    <3>1. PICK victims \in PurgeChoices(1) : purge' = [purge EXCEPT ![s] = victims]
      BY <1>2, <2>1 DEF Admit
    <3>2. victims \in SUBSET Starts
      BY <3>1, PurgeChoicesType
    <3> QED
      BY <1>2, <2>1, <3>1, <3>2 DEF Admit
  <2>2. CASE ~CanStart
    BY <1>2, <2>2 DEF Admit, Ends
  <2> QED
    BY <2>1, <2>2
<1>3. ASSUME NEW s \in Starts, Insert(s) PROVE TypeOK'
  BY <1>3 DEF Insert
<1>4. ASSUME NEW s \in Starts, Unsupported(s) \/ Crash(s) PROVE TypeOK'
  BY <1>4 DEF Unsupported, Crash, Ends
<1>5. ASSUME NEW s \in Starts, Started(s) \/ NotStarted(s) \/ SeemsNotStarted(s)
      PROVE  TypeOK'
  BY <1>5 DEF Started, NotStarted, SeemsNotStarted, Starting
<1>6. ASSUME NEW s \in Starts, Commit(s) PROVE TypeOK'
  BY <1>6 DEF Commit, Ends, Status
<1>7. ASSUME NEW s \in Starts, Report(s) \/ End(s) PROVE TypeOK'
  BY <1>7 DEF Report, End, Status
<1>8. ASSUME Enforce PROVE TypeOK'
  <2>1. PICK victims \in PurgeChoices(0) :
          /\ row' = [s \in Starts |-> IF s \in victims THEN None ELSE row[s]]
          /\ purged' = purged \cup victims
          /\ UNCHANGED <<holder, request, draft, purge, process, together>>
    BY <1>8 DEF Enforce
  <2>2. victims \in SUBSET Starts
    BY <2>1, PurgeChoicesType
  <2> QED
    BY <2>1, <2>2
<1>9. CASE UNCHANGED vars
  BY <1>9 DEF vars
<1> QED
  BY <1>1, <1>2, <1>3, <1>4, <1>5, <1>6, <1>7, <1>8, <1>9 DEF Next, Step

\* Every state is well-typed, for any requests, limits and faults: what is purged
\* are rows, and only one transaction holds the row of the Task.
THEOREM TypeCorrect == Spec => []TypeOK
BY TypeInit, TypeStep, PTL DEF Spec

-----------------------------------------------------------------------------
(* Rows and processes.                                                     *)

\* The row of a wrapper is never one of an execution that is to be started.
WrappersRun ==
  \A s \in ByWrapper :
    /\ row[s] \notin { "MANUALLY_STARTED", "FAILED" }
    /\ draft[s] = "RUNNING" /\ process[s] # "none" /\ request[s] # "inserted"

\* Before the platform has been asked there is no process.
NotAskedNotStarted ==
  \A s \in Starts \ ByWrapper :
    request[s] \in { "unsent", "loaded", "admitted", "inserted", "refused" }
      => process[s] = "none"

\* What a request is about to commit is true.
DraftIsTrue ==
  \A s \in Starts :
    request[s] = "asked" /\ draft[s] = "MANUALLY_STARTED" => process[s] # "none"

CreatedHasRow ==
  \A s \in Starts : request[s] = "created" => row[s] # None \/ s \in purged

RowInv == /\ TypeOK /\ WrappersRun /\ NotAskedNotStarted
          /\ DraftIsTrue /\ CreatedHasRow /\ StartedHasProcess

LEMMA RowInvInductive == RowInv /\ [Next]_vars => RowInv'
<1> SUFFICES ASSUME RowInv, TypeOK', [Next]_vars PROVE RowInv'
  BY TypeStep DEF RowInv
<1> DEFINE Goal == (WrappersRun /\ NotAskedNotStarted /\ DraftIsTrue
                      /\ CreatedHasRow /\ StartedHasProcess)'
<1> SUFFICES Goal
  BY DEF RowInv
<1> USE KindsAssumption, NoneAssumption
    DEF RowInv, TypeOK, WrappersRun, NotAskedNotStarted, DraftIsTrue,
        CreatedHasRow, StartedHasProcess, Status
<1>1. ASSUME NEW s \in Starts, Load(s) PROVE Goal
  BY <1>1 DEF Load
<1>2. ASSUME NEW s \in Starts, Admit(s) PROVE Goal
  BY <1>2 DEF Admit, Ends
<1>3. ASSUME NEW s \in Starts, Insert(s) PROVE Goal
  BY <1>3 DEF Insert
<1>4. ASSUME NEW s \in Starts, Unsupported(s) \/ Crash(s) PROVE Goal
  BY <1>4 DEF Unsupported, Crash, Ends, UnderWay
<1>5. ASSUME NEW s \in Starts, Started(s) \/ NotStarted(s) \/ SeemsNotStarted(s)
      PROVE  Goal
  BY <1>5 DEF Started, NotStarted, SeemsNotStarted, Starting
<1>6. ASSUME NEW s \in Starts, Commit(s) PROVE Goal
  <2>1. /\ request' = [request EXCEPT ![s] = "created"]
        /\ \A x \in Starts :
             row'[x] = IF x = s THEN draft[s] ELSE IF x \in purge[s] THEN None ELSE row[x]
        /\ \A x \in purge[s] : row[x] # None => x \in purged'
        /\ purged \subseteq purged'
        /\ UNCHANGED <<draft, process>>
    BY <1>6 DEF Commit, Ends
  <2>2. draft[s] \in Status
    BY DEF Status
  <2>3. request[s] = "asked"
    BY <1>6 DEF Commit
  <2>4. WrappersRun'
    BY <2>1, <2>3
  <2>5. NotAskedNotStarted' /\ DraftIsTrue'
    BY <2>1, <2>3
  <2>6. CreatedHasRow'
    BY <2>1, <2>2, <2>3
  <2>7. StartedHasProcess'
    BY <2>1, <2>3
  <2> QED
    BY <2>4, <2>5, <2>6, <2>7
<1>7. ASSUME NEW s \in Starts, Report(s) \/ End(s) PROVE Goal
  BY <1>7 DEF Report, End, Status, InProgress
<1>8. ASSUME Enforce PROVE Goal
  BY <1>8 DEF Enforce
<1>9. CASE UNCHANGED vars
  BY <1>9 DEF vars
<1> QED
  BY <1>1, <1>2, <1>3, <1>4, <1>5, <1>6, <1>7, <1>8, <1>9 DEF Next, Step

LEMMA RowInvInit == Init => RowInv
BY TypeInit, KindsAssumption, NoneAssumption
DEF Init, RowInv, WrappersRun, NotAskedNotStarted, DraftIsTrue, CreatedHasRow,
    StartedHasProcess, Status

LEMMA RowInvInvariant == Spec => []RowInv
BY RowInvInit, RowInvInductive, PTL DEF Spec

\* A row says that an execution was started by hand only if the platform has a
\* process for it (manually_start of the execution methods).
THEOREM StartedIsTrue == Spec => []StartedHasProcess
<1>1. RowInv => StartedHasProcess
  BY DEF RowInv
<1> QED
  BY <1>1, RowInvInvariant, PTL

\* Whatever answers are lost, the platform runs nothing without a row, but for
\* processes whose server died (TaskExecutionViewSet.create, manually_start).
THEOREM ProcessesHaveRows == Spec => []NoProcessWithoutRow
<1>1. RowInv => NoProcessWithoutRow
  <2> SUFFICES ASSUME RowInv, NEW s \in Starts \ (ByWrapper \cup purged),
                      process[s] # "none", s \notin UnderWay, request[s] # "died"
               PROVE  row[s] # None
    BY DEF NoProcessWithoutRow
  <2>1. request[s] \in { "unsent", "created", "refused" }
    BY DEF RowInv, TypeOK, UnderWay
  <2>2. request[s] = "created"
    BY <2>1 DEF RowInv, NotAskedNotStarted
  <2> QED
    BY <2>2 DEF RowInv, CreatedHasRow
<1> QED
  BY <1>1, RowInvInvariant, PTL

-----------------------------------------------------------------------------
(* Requests that overlap.                                                  *)

\* A request that never was under way together with another is alone.
Alone == \A s \in UnderWay \ together : UnderWay = {s}

LEMMA AloneInductive == TypeOK /\ Alone /\ [Next]_vars => Alone'
<1> SUFFICES ASSUME TypeOK, Alone, [Next]_vars PROVE Alone'
  OBVIOUS
<1> USE DEF TypeOK, Alone
<1>1. ASSUME NEW s \in Starts, Load(s) PROVE Alone'
  <2>1. UnderWay' = UnderWay \cup {s}
    BY <1>1 DEF Load, UnderWay
  <2> QED
    BY <1>1, <2>1 DEF Load
<1>2. ASSUME UnderWay' \subseteq UnderWay, together' = together PROVE Alone'
  BY <1>2
<1>3. ASSUME NEW s \in Starts,
             Admit(s) \/ Insert(s) \/ Unsupported(s) \/ Started(s) \/ NotStarted(s)
               \/ SeemsNotStarted(s) \/ Commit(s) \/ Crash(s)
      PROVE  UnderWay' \subseteq UnderWay /\ together' = together
  BY <1>3 DEF Admit, Insert, Unsupported, Started, NotStarted, SeemsNotStarted, Starting,
              Commit, Crash, Ends, UnderWay
<1>4. ASSUME NEW s \in Starts, Report(s) \/ End(s)
      PROVE  UnderWay' \subseteq UnderWay /\ together' = together
  BY <1>4 DEF Report, End, UnderWay
<1>5. ASSUME Enforce \/ UNCHANGED vars
      PROVE  UnderWay' \subseteq UnderWay /\ together' = together
  BY <1>5 DEF Enforce, UnderWay, vars
<1> QED
  BY <1>1, <1>2, <1>3, <1>4, <1>5 DEF Next, Step

\* What runs by the word of wrappers that saw each other's rows.
Lonely == { s \in ByWrapper : row[s] = "RUNNING" /\ s \notin together }

Limited == MaxConcurrency \notin {None, 0}

\* They are no more than the limit, and fewer while another is to be one of them.
FewLonely ==
  Limited =>
    /\ Cardinality(Lonely) <= MaxConcurrency
    /\ \A s \in ByWrapper \ together :
         request[s] \in { "admitted", "asked" } => Cardinality(Lonely) < MaxConcurrency

LimitInv == RowInv /\ Alone /\ FewLonely

LEMMA LonelyIsFinite ==
  /\ IsFiniteSet(Lonely) /\ Cardinality(Lonely) \in Nat
  /\ IsFiniteSet(Running) /\ Cardinality(Running) \in Nat
<1>1. Lonely \in SUBSET Starts /\ Running \in SUBSET Starts
  BY KindsAssumption DEF Lonely, Running
<1> QED
  BY <1>1, StartsAssumption, FS_Subset, FS_CardinalityType

\* A step that adds nothing to them, and admits nobody.
LEMMA FewLonelyKept ==
  ASSUME FewLonely, Lonely' \subseteq Lonely,
         together \subseteq together',
         \A s \in ByWrapper : request'[s] \in { "admitted", "asked" }
                               => request[s] \in { "admitted", "asked" }
  PROVE  FewLonely'
<1>1. Cardinality(Lonely') \in Nat /\ Cardinality(Lonely) \in Nat
        /\ Cardinality(Lonely') <= Cardinality(Lonely)
  <2>1. IsFiniteSet(Lonely) /\ Cardinality(Lonely) \in Nat
    BY LonelyIsFinite
  <2>2. IsFiniteSet(Lonely') /\ Cardinality(Lonely') <= Cardinality(Lonely)
    BY <2>1, FS_Subset
  <2> QED
    BY <2>1, <2>2, FS_CardinalityType
<1> QED
  BY <1>1, NumbersAssumption DEF FewLonely, Limited

LEMMA LimitInvInductive == LimitInv /\ [Next]_vars => LimitInv'
<1> SUFFICES ASSUME LimitInv, [Next]_vars PROVE FewLonely'
  BY RowInvInductive, AloneInductive DEF LimitInv, RowInv
<1> USE KindsAssumption DEF LimitInv, RowInv, TypeOK
<1>1. ASSUME NEW s \in Starts, Load(s) PROVE FewLonely'
  BY <1>1, FewLonelyKept DEF Load, Lonely
<1>2. ASSUME NEW s \in Starts, Admit(s) PROVE FewLonely'
  <2>1. Lonely' = Lonely /\ UNCHANGED together
    BY <1>2 DEF Admit, Lonely
  <2>2. CASE ~CanStart
    BY <1>2, <2>1, <2>2, FewLonelyKept DEF Admit, Ends
  <2>3. CASE CanStart
    <3>1. Lonely \in SUBSET Running
      BY DEF Lonely, Running
    <3>2. Cardinality(Lonely) <= Cardinality(Running)
      BY <3>1, LonelyIsFinite, FS_Subset
    <3>3. Limited => Cardinality(Lonely) < MaxConcurrency
      BY <2>3, <3>2, LonelyIsFinite, NumbersAssumption DEF CanStart, Limited
    <3> QED
      BY <2>1, <3>3, LonelyIsFinite, NumbersAssumption DEF FewLonely, Limited
  <2> QED
    BY <2>2, <2>3
<1>3. ASSUME NEW s \in Starts, Insert(s) PROVE FewLonely'
  BY <1>3, FewLonelyKept DEF Insert, Lonely
<1>4. ASSUME NEW s \in Starts, Unsupported(s) \/ Crash(s) PROVE FewLonely'
  BY <1>4, FewLonelyKept DEF Unsupported, Crash, Ends, Lonely
<1>5. ASSUME NEW s \in Starts, Started(s) \/ NotStarted(s) \/ SeemsNotStarted(s)
      PROVE  FewLonely'
  BY <1>5, FewLonelyKept
  DEF Started, NotStarted, SeemsNotStarted, Starting, Ends, Lonely, WrappersRun
<1>6. ASSUME NEW s \in Starts, Commit(s) PROVE FewLonely'
  <2>1. /\ s \in UnderWay
        /\ together' = together
        /\ request' = [request EXCEPT ![s] = "created"]
        /\ Lonely' \subseteq Lonely \cup {s}
    BY <1>6, NoneAssumption DEF Commit, Ends, UnderWay, Lonely, Status
  <2>2. CASE s \in together \/ s \notin ByWrapper
    <3>1. Lonely' \subseteq Lonely
      BY <2>1, <2>2 DEF Lonely
    <3> QED
      BY <2>1, <3>1, FewLonelyKept
  <2>3. CASE s \in ByWrapper \ together
    <3>1. Limited => Cardinality(Lonely) < MaxConcurrency
      BY <1>6, <2>3 DEF FewLonely, Commit
    <3>2. /\ IsFiniteSet(Lonely \cup {s})
          /\ Cardinality(Lonely \cup {s}) <= Cardinality(Lonely) + 1
      <4>1. Cardinality(Lonely \cup {s}) \in {Cardinality(Lonely), Cardinality(Lonely) + 1}
        BY LonelyIsFinite, FS_AddElement
      <4> QED
        BY <4>1, LonelyIsFinite, FS_AddElement
    <3>3. /\ Cardinality(Lonely') <= Cardinality(Lonely \cup {s})
          /\ Cardinality(Lonely') \in Nat /\ Cardinality(Lonely \cup {s}) \in Nat
      BY <2>1, <3>2, FS_Subset, FS_CardinalityType
    <3>4. Limited => Cardinality(Lonely') <= MaxConcurrency
      BY <3>1, <3>2, <3>3, LonelyIsFinite, NumbersAssumption DEF Limited
    <3>5. \A x \in ByWrapper \ together' : request'[x] \notin { "admitted", "asked" }
      BY <2>1, <2>3 DEF Alone, UnderWay
    <3> QED
      BY <3>4, <3>5 DEF FewLonely, Limited
  <2> QED
    BY <2>2, <2>3
<1>7. ASSUME NEW s \in Starts, Report(s) \/ End(s) PROVE FewLonely'
  BY <1>7, FewLonelyKept DEF Report, End, Lonely, WrappersRun
<1>8. ASSUME Enforce PROVE FewLonely'
  BY <1>8, FewLonelyKept, NoneAssumption DEF Enforce, Lonely, Status
<1>9. CASE UNCHANGED vars
  BY <1>9, FewLonelyKept DEF vars, Lonely
<1> QED
  BY <1>1, <1>2, <1>3, <1>4, <1>5, <1>6, <1>7, <1>8, <1>9 DEF Next, Step

LEMMA LimitInvInit == Init => LimitInv
<1> SUFFICES ASSUME Init PROVE LimitInv
  OBVIOUS
<1>1. RowInv
  BY RowInvInit
<1>2. Alone
  BY DEF Init, Alone, UnderWay
<1>3. FewLonely
  <2>1. Lonely = {}
    BY NoneAssumption, KindsAssumption DEF Init, Lonely, Status
  <2>2. Cardinality(Lonely) = 0
    BY <2>1, FS_EmptySet
  <2>3. \A s \in ByWrapper : request[s] \notin { "admitted", "asked" }
    BY KindsAssumption DEF Init
  <2> QED
    BY <2>2, <2>3, NumbersAssumption DEF FewLonely, Limited
<1> QED
  BY <1>1, <1>2, <1>3 DEF LimitInv

\* However many requests there are: only those that overlap, or starts by hand,
\* take a Task beyond its concurrency (Task.can_start_execution).
THEOREM LimitIsExceededOnlyTogether == Spec => []LimitExceededOnlyTogether
<1>1. LimitInv => LimitExceededOnlyTogether
  <2> SUFFICES ASSUME LimitInv, Limited,
                      \A s \in Running : s \notin together /\ s \in ByWrapper
               PROVE  Cardinality(Running) <= MaxConcurrency
    BY DEF LimitExceededOnlyTogether, Limited
  <2>1. Running = Lonely
    BY KindsAssumption DEF Running, Lonely
  <2> QED
    BY <2>1 DEF LimitInv, FewLonely
<1> QED
  BY <1>1, LimitInvInit, LimitInvInductive, PTL DEF Spec

-----------------------------------------------------------------------------
(* What is purged.                                                         *)

\* A request that is alone purges only what is over, or all that has failed.
ChoiceHolds ==
  \A s \in Starts \ together :
    request[s] \in { "admitted", "inserted", "asked" } =>
      \/ \A x \in purge[s] : row[x] \notin InProgress
      \/ \A x \in Starts : row[x] = "FAILED" => x \in purge[s]

HolderAsks == \A s \in Starts : request[s] \in { "inserted", "asked" } => holder = s

RowsAreCreated == \A s \in Starts : request[s] # "created" => row[s] = None

PurgeInv == RowInv /\ Alone /\ ChoiceHolds /\ HolderAsks /\ RowsAreCreated

LEMMA HolderAsksStep == TypeOK /\ HolderAsks /\ [Next]_vars => HolderAsks'
BY StartsAssumption DEF TypeOK, HolderAsks, Next, vars, Step, Load, Admit, Insert, Unsupported,
   Started, NotStarted, SeemsNotStarted, Starting, Commit, Crash, Enforce,
   Report, End, Ends

LEMMA RowsAreCreatedStep ==
  TypeOK /\ RowsAreCreated /\ [Next]_vars => RowsAreCreated'
<1> SUFFICES ASSUME TypeOK, RowsAreCreated, [Next]_vars PROVE RowsAreCreated'
  OBVIOUS
<1> USE NoneAssumption DEF TypeOK, RowsAreCreated
<1>1. ASSUME NEW s \in Starts, Report(s) \/ End(s) PROVE RowsAreCreated'
  BY <1>1 DEF Report, End, InProgress, Status
<1>2. ASSUME NEW s \in Starts, Commit(s) PROVE RowsAreCreated'
  BY <1>2 DEF Commit, Ends
<1>3. ASSUME NEW s \in Starts, Step(s) \/ Crash(s), ~Commit(s) PROVE RowsAreCreated'
  BY <1>3
  DEF Step, Load, Admit, Insert, Unsupported, Started, NotStarted, SeemsNotStarted, Starting,
      Crash, UnderWay, Ends
<1>4. ASSUME Enforce \/ UNCHANGED vars PROVE RowsAreCreated'
  BY <1>4 DEF Enforce, vars
<1> QED
  BY <1>1, <1>2, <1>3, <1>4 DEF Next, Step

LEMMA ChoiceHoldsStep ==
  ASSUME PurgeInv, [Next]_vars
  PROVE  ChoiceHolds'
<1> USE NoneAssumption DEF PurgeInv, RowInv, TypeOK, ChoiceHolds
<1>1. ASSUME NEW s \in Starts, Load(s) PROVE ChoiceHolds'
  BY <1>1 DEF Load
<1>2. ASSUME NEW s \in Starts, Admit(s) PROVE ChoiceHolds'
  <2>1. CASE ~CanStart
    BY <1>2, <2>1 DEF Admit, Ends
  <2>2. CASE CanStart
    <3>1. PICK victims \in PurgeChoices(1) : purge' = [purge EXCEPT ![s] = victims]
      BY <1>2, <2>2 DEF Admit
    <3>2. \/ \A x \in victims : row[x] \notin InProgress
          \/ \A x \in Starts : row[x] = "FAILED" => x \in victims
      BY <3>1 DEF PurgeChoices, Rows, InProgress, Status
    <3>3. victims \in SUBSET Starts
      BY <3>1, PurgeChoicesType, RowsType
    <3> QED
      BY <1>2, <2>2, <3>1, <3>2, <3>3 DEF Admit
  <2> QED
    BY <2>1, <2>2
<1>3. ASSUME NEW s \in Starts, Insert(s) PROVE ChoiceHolds'
  BY <1>3 DEF Insert
<1>4. ASSUME NEW s \in Starts, Unsupported(s) \/ Crash(s) PROVE ChoiceHolds'
  BY <1>4 DEF Unsupported, Crash, Ends
<1>5. ASSUME NEW s \in Starts, Started(s) \/ NotStarted(s) \/ SeemsNotStarted(s)
      PROVE  ChoiceHolds'
  BY <1>5 DEF Started, NotStarted, SeemsNotStarted, Starting
<1>6. ASSUME NEW s \in Starts, Commit(s) PROVE ChoiceHolds'
  <2>1. \A x \in Starts \ together' :
          request'[x] \notin { "admitted", "inserted", "asked" }
    BY <1>6 DEF Commit, Ends, Alone, UnderWay
  <2> QED
    BY <2>1
<1>7. ASSUME NEW s \in Starts, Report(s) \/ End(s) PROVE ChoiceHolds'
  BY <1>7 DEF Report, End, InProgress
<1>8. ASSUME Enforce PROVE ChoiceHolds'
  BY <1>8 DEF Enforce, InProgress, Status
<1>9. CASE UNCHANGED vars
  BY <1>9 DEF vars
<1> QED
  BY <1>1, <1>2, <1>3, <1>4, <1>5, <1>6, <1>7, <1>8, <1>9 DEF Next, Step

Spares ==
  \A s, x \in Starts :
    row[s] \in InProgress /\ row'[s] = None /\ holder \notin together
      => "FAILED" \notin {row[x]} \cap {row'[x]}

LEMMA EveryStepSpares ==
  ASSUME PurgeInv, [Next]_vars
  PROVE  Spares
<1> SUFFICES ASSUME NEW s \in Starts, NEW x \in Starts,
                    row[s] \in InProgress, row'[s] = None, holder \notin together,
                    row[x] = "FAILED"
             PROVE  row'[x] # "FAILED"
  BY DEF Spares
<1> USE NoneAssumption DEF PurgeInv, RowInv, TypeOK
<1>1. ASSUME NEW c \in Starts, Commit(c) PROVE row'[x] # "FAILED"
  <2>1. request[c] = "asked" /\ c \notin together /\ draft[c] # None
    BY <1>1 DEF Commit, HolderAsks, Status
  <2>2. s \in purge[c]
    BY <1>1, <2>1 DEF Commit, Status, InProgress
  <2>3. x \in purge[c]
    BY <2>1, <2>2 DEF ChoiceHolds
  <2>4. x # c
    BY <2>1 DEF RowsAreCreated, Status
  <2> QED
    BY <1>1, <2>3, <2>4 DEF Commit, Status
<1>2. ASSUME Enforce PROVE row'[x] # "FAILED"
  <2>1. PICK victims \in PurgeChoices(0) :
          row' = [y \in Starts |-> IF y \in victims THEN None ELSE row[y]]
    BY <1>2 DEF Enforce
  <2>2. s \in victims
    BY <2>1 DEF Status, InProgress
  <2>3. x \in victims
    BY <2>1, <2>2 DEF PurgeChoices, Rows, InProgress, Status
  <2> QED
    BY <2>1, <2>3 DEF Status
<1>3. ASSUME NEW c \in Starts, Step(c) \/ Crash(c) \/ Report(c) \/ End(c), ~Commit(c)
      PROVE  FALSE
  BY <1>3
  DEF Step, Load, Admit, Insert, Unsupported, Started, NotStarted, SeemsNotStarted, Starting,
      Crash, Report, End, Ends, InProgress, Status
<1>4. CASE UNCHANGED vars
  BY <1>4 DEF vars, InProgress, Status
<1> QED
  BY <1>1, <1>2, <1>3, <1>4 DEF Next

\* As long as the history holds executions that failed, a request that has been
\* alone, and the enforcer, delete none in progress (Task.purge_history).
THEOREM HistorySparesTheLiving == Spec => PurgeSparesTheLiving
<1>1. Init => PurgeInv
  BY RowInvInit DEF Init, PurgeInv, Alone, UnderWay, ChoiceHolds, HolderAsks,
                    RowsAreCreated
<1>2. PurgeInv /\ [Next]_vars => PurgeInv'
  BY RowInvInductive, AloneInductive, ChoiceHoldsStep, HolderAsksStep,
     RowsAreCreatedStep DEF PurgeInv, RowInv
<1>3. Spec => []PurgeInv /\ [][Next]_vars
  BY <1>1, <1>2, PTL DEF Spec
<1>4. PurgeInv /\ [Next]_vars => [Spares]_vars
  BY EveryStepSpares
<1>5. PurgeSparesTheLiving <=> [][Spares]_vars
  BY DEF PurgeSparesTheLiving, Spares
<1> QED
  BY <1>3, <1>4, <1>5, PTL

-----------------------------------------------------------------------------
(* What a process that is started by hand is told (ProcessStart).          *)

ExecutionRow ==
  [ method : Telling!Methods, status : { "MANUALLY_STARTED", "RUNNING", "SUCCEEDED", "FAILED" },
    edited : BOOLEAN, interval : Telling!Setting, concurrency : Telling!Setting,
    overrides : Telling!Overrides, cpu : Telling!Units, main : Telling!Units ]

\* Tasks that run as AWS Lambda functions.
IsFunction(t) == t.method = "AWS Lambda"

\* What a process of the Task t is given that is started by a request b.
Given(t, b) == Telling!Completed(t, Telling!NewRow(t, b))

\* A process was given what its request and its Task say, and its row has that
\* unless it was edited; an interval may have been reported by the process.
TellingInv ==
  /\ task # None => task \in Configurations
  /\ starting # None => starting \in [task : Configurations, body : Bodies]
  /\ started # None => started \in ExecutionRow
  /\ told # None =>
       /\ origin \in [task : Configurations, body : Bodies]
       /\ told = Telling!ProcessOf(origin.task, Given(origin.task, origin.body))
       /\ started # None =>
            LET x == Given(origin.task, origin.body)
                p == Telling!OfWrapper(told)
            IN /\ started.method = x.method /\ started.cpu = x.cpu
               /\ started.edited \/
                    /\ started.concurrency = x.concurrency
                    /\ \/ started.interval = x.interval
                       \/ "interval" \in DOMAIN p /\ started.interval = p["interval"]

-----------------------------------------------------------------------------
(* What processes are given.                                               *)

LEMMA OrType ==
  /\ \A x, y \in Telling!Setting : Telling!Or(x, y) \in Telling!Setting
  /\ \A x, y \in Telling!Units : Telling!Or(x, y) \in Telling!Units
BY DEF Telling!Or

LEMMA NewRowType ==
  ASSUME NEW t \in Configuration, NEW b \in Body
  PROVE  /\ Telling!NewRow(t, b) \in ExecutionRow
         /\ Telling!NewRow(t, b).method = t.method
BY DEF Telling!NewRow, Configuration, Body, ExecutionRow

\* The row that ECS saves.
LEMMA FrozenType ==
  ASSUME NEW t \in Configuration, NEW x \in ExecutionRow
  PROVE  LET f == Telling!Frozen(t, x) IN
         /\ f \in ExecutionRow
         /\ f.method = x.method /\ f.overrides = x.overrides /\ f.main = x.main
         /\ f.interval = Telling!Or(x.interval, t.interval)
         /\ f.concurrency = Telling!Or(x.concurrency, t.concurrency)
         /\ f.cpu \in Int
<1>1. /\ x.interval \in Telling!Setting /\ t.interval \in Telling!Setting
      /\ x.concurrency \in Telling!Setting /\ t.concurrency \in Telling!Setting
      /\ x.cpu \in Telling!Units /\ t.cpu \in Telling!Units
  BY DEF ExecutionRow, Configuration
<1>2. PICK i : i = Telling!Or(x.interval, t.interval)
  OBVIOUS
<1>3. PICK c : c = Telling!Or(x.concurrency, t.concurrency)
  OBVIOUS
<1>4. PICK u : u = Telling!Or(Telling!Or(x.cpu, t.cpu), Telling!DefaultUnits)
  OBVIOUS
<1>5. i \in Telling!Setting /\ c \in Telling!Setting
  BY <1>1, <1>2, <1>3, OrType
<1>6. u \in Int
  BY <1>1, <1>4 DEF Telling!Or, Telling!DefaultUnits, Telling!Units
<1>7. u \in Telling!Units
  BY <1>6 DEF Telling!Units
<1>8. Telling!Frozen(t, x) = [x EXCEPT !.interval = i, !.concurrency = c, !.cpu = u]
  BY <1>2, <1>3, <1>4 DEF Telling!Frozen
<1> QED
  BY <1>2, <1>3, <1>5, <1>6, <1>7, <1>8 DEF ExecutionRow

\* The row that any method saves.
LEMMA GivenType ==
  ASSUME TellingConstants, NEW t \in Configuration, NEW b \in Body,
         NEW x, x = Given(t, b)
  PROVE  /\ x \in ExecutionRow /\ x.method = t.method /\ x.overrides = b.overrides
         /\ t.method # "AWS ECS" => x = Telling!NewRow(t, b)
         /\ t.method = "AWS ECS" =>
              /\ x.interval = Telling!Or(b.interval, t.interval)
              /\ x.concurrency = Telling!Or(b.concurrency, t.concurrency)
              /\ x.cpu \in Int
              /\ (b.main = None /\ x.main # None) => x.cpu - x.main = t.cpu - t.main
<1>1. PICK y : y = Telling!NewRow(t, b)
  OBVIOUS
<1>2. /\ y \in ExecutionRow /\ y.method = t.method /\ y.overrides = b.overrides
      /\ y.interval = b.interval /\ y.concurrency = b.concurrency /\ y.main = b.main
  BY <1>1, NewRowType DEF Telling!NewRow
<1>3. CASE t.method # "AWS ECS"
  <2>1. x = y
    BY <1>1, <1>3 DEF Given, Telling!Completed
  <2> QED
    BY <1>1, <1>2, <1>3, <2>1
<1>4. CASE t.method = "AWS ECS"
  <2>1. PICK f : f = Telling!Frozen(t, y)
    OBVIOUS
  <2>2. /\ f \in ExecutionRow
        /\ f.method = t.method /\ f.overrides = b.overrides /\ f.main = b.main
        /\ f.interval = Telling!Or(b.interval, t.interval)
        /\ f.concurrency = Telling!Or(b.concurrency, t.concurrency)
        /\ f.cpu \in Int
    BY <1>2, <2>1, FrozenType
  <2>3. PICK k : k = Telling!MainUnits(t, f)
    OBVIOUS
  <2>4. /\ t.cpu \in Int \cup {None} /\ t.main \in Int \cup {None} /\ f.main \in Int \cup {None}
    BY <2>2 DEF Configuration, ExecutionRow, Telling!Units
  <2>5. ASSUME f.main = None, Telling!Or(t.cpu, 0) # 0, Telling!Or(t.main, 0) # 0
        PROVE  k \in Int /\ f.cpu - k = t.cpu - t.main
    <3>1. k = (f.cpu - t.cpu) + t.main
      BY <2>3, <2>5 DEF Telling!MainUnits
    <3>2. t.cpu \in Int /\ t.main \in Int
      BY <2>4, <2>5 DEF Telling!Or
    <3> QED
      BY <2>2, <3>1, <3>2
  <2>6. ASSUME ~(f.main = None /\ Telling!Or(t.cpu, 0) # 0 /\ Telling!Or(t.main, 0) # 0)
        PROVE  k = f.main
    BY <2>3, <2>6 DEF Telling!MainUnits
  <2>7. k \in Int \cup {None}
    BY <2>4, <2>5, <2>6
  <2>8. (b.main = None /\ k # None) => f.cpu - k = t.cpu - t.main
    BY <2>2, <2>5, <2>6
  <2>9. x = [f EXCEPT !.main = k]
    BY <1>1, <1>4, <2>1, <2>3 DEF Given, Telling!Completed
  <2>10. /\ x.method = f.method /\ x.overrides = f.overrides /\ x.main = k
         /\ x.interval = f.interval /\ x.concurrency = f.concurrency /\ x.cpu = f.cpu
    BY <2>2, <2>9 DEF ExecutionRow
  <2>11. x \in ExecutionRow
    BY <2>2, <2>7, <2>9 DEF ExecutionRow, Telling!Units
  <2> QED
    BY <1>4, <2>2, <2>8, <2>10, <2>11
<1> QED
  BY <1>3, <1>4

\* Variables that nobody overrides are what they are without overrides.
LEMMA OverriddenKeeps ==
  ASSUME NEW env \in Telling!Environments, NEW over \in Telling!Overrides,
         NEW new, new = Telling!Overridden(env, over)
  PROVE  /\ new \in Telling!Environments
         /\ \A v \in Telling!Vars \ DOMAIN over :
              /\ v \in DOMAIN new <=> v \in DOMAIN env
              /\ v \in DOMAIN new => new[v] = env[v]
<1>1. PICK S \in SUBSET Telling!Vars : env \in [S -> Telling!Values]
  BY DEF Telling!Environments
<1>2. PICK T \in SUBSET Telling!Vars : over \in [T -> Telling!Values \cup {None}]
  BY DEF Telling!Overrides
<1>3. PICK R : R = { v \in T : over[v] = None }
  OBVIOUS
<1>4. new = [v \in (S \cup T) \ R |-> IF v \in T THEN over[v] ELSE env[v]]
  BY <1>1, <1>2, <1>3 DEF Telling!Overridden
<1>5. new \in [(S \cup T) \ R -> Telling!Values]
  BY <1>1, <1>2, <1>3, <1>4
<1>6. (S \cup T) \ R \in SUBSET Telling!Vars
  BY <1>1, <1>2
<1>7. new \in Telling!Environments
  BY <1>5, <1>6 DEF Telling!Environments
<1> QED
  BY <1>1, <1>2, <1>3, <1>4, <1>7

LEMMA WrapperEnvironmentType ==
  ASSUME TellingConstants, NEW t \in Configuration, NEW x \in ExecutionRow,
         NEW env, env = Telling!WrapperEnvironment(t, x)
  PROVE  /\ env \in Telling!Environments
         /\ IF Telling!Or(x.interval, t.interval) # None
            THEN "interval" \in DOMAIN env /\ env["interval"] = Telling!Or(x.interval, t.interval)
            ELSE "interval" \notin DOMAIN env
         /\ IF x.concurrency \notin {None, 0}
            THEN "concurrency" \in DOMAIN env /\ env["concurrency"] = x.concurrency
            ELSE "concurrency" \notin DOMAIN env
<1>1. PICK i : i = Telling!Or(x.interval, t.interval)
  OBVIOUS
<1>2. PICK c : c = x.concurrency
  OBVIOUS
<1>3. i \in Telling!Values \cup {None} /\ c \in Telling!Values \cup {None}
  BY <1>1, <1>2, OrType DEF Configuration, ExecutionRow, Telling!Setting
<1>4. PICK N : N = { v \in Telling!WrapperVars : \/ v = "interval" /\ i # None
                                                 \/ v = "concurrency" /\ c \notin {None, 0} }
  OBVIOUS
<1>5. env = [v \in N |-> IF v = "interval" THEN i ELSE c]
  BY <1>1, <1>2, <1>4 DEF Telling!WrapperEnvironment
<1>6. env \in [N -> Telling!Values]
  BY <1>3, <1>4, <1>5 DEF Telling!WrapperVars
<1>7. N \in SUBSET Telling!Vars
  BY <1>4 DEF Telling!Vars
<1>8. env \in Telling!Environments
  BY <1>6, <1>7 DEF Telling!Environments
<1>9. /\ "interval" \in N <=> i # None
      /\ "concurrency" \in N <=> c \notin {None, 0}
  BY <1>4 DEF Telling!WrapperVars
<1> QED
  BY <1>1, <1>2, <1>5, <1>8, <1>9

LEMMA NothingIsEnvironment ==
  ASSUME NEW env, env = [v \in {} |-> 0]
  PROVE  env \in Telling!Environments
<1>1. env \in [{} -> Telling!Values] /\ {} \in SUBSET Telling!Vars
  OBVIOUS
<1> QED
  BY <1>1 DEF Telling!Environments

\* The Task's overrides and the execution's.
LEMMA OverriddenTwice ==
  ASSUME NEW t \in Configuration, NEW x \in ExecutionRow,
         NEW own \in Telling!Environments,
         NEW env, env = Telling!Overridden(Telling!Overridden(own, t.overrides), x.overrides)
  PROVE  /\ env \in Telling!Environments
         /\ \A v \in Telling!WrapperVars \ (DOMAIN t.overrides \cup DOMAIN x.overrides) :
              /\ v \in DOMAIN env <=> v \in DOMAIN own
              /\ v \in DOMAIN env => env[v] = own[v]
<1>1. t.overrides \in Telling!Overrides /\ x.overrides \in Telling!Overrides
  BY DEF Configuration, ExecutionRow
<1>2. PICK f : f = Telling!Overridden(own, t.overrides)
  OBVIOUS
<1>3. /\ f \in Telling!Environments
      /\ \A v \in Telling!Vars \ DOMAIN t.overrides :
           (v \in DOMAIN f <=> v \in DOMAIN own) /\ (v \in DOMAIN f => f[v] = own[v])
  BY <1>1, <1>2, OverriddenKeeps
<1>4. /\ env \in Telling!Environments
      /\ \A v \in Telling!Vars \ DOMAIN x.overrides :
           (v \in DOMAIN env <=> v \in DOMAIN f) /\ (v \in DOMAIN env => env[v] = f[v])
  BY <1>1, <1>2, <1>3, OverriddenKeeps
<1> QED
  BY <1>3, <1>4 DEF Telling!Vars

\* What a process is given, by whatever method.
LEMMA ProcessGiven ==
  ASSUME TellingConstants, NEW t \in Configuration, NEW x \in ExecutionRow,
         NEW p, p = Telling!ProcessOf(t, x), NEW w, w = Telling!OfWrapper(p),
         NEW own, own = Telling!WrapperEnvironment(t, x)
  PROVE  /\ p.environment \in Telling!Environments
         /\ p.monitor \in Telling!Environments \cup {None}
         /\ w \in Telling!Environments
         /\ t.method = "AWS ECS" => p.main = Telling!Or(x.main, None)
         /\ t.method # "AWS ECS" => p.main = None
<1>1. t.method \in { "AWS ECS", "AWS CodeBuild", "AWS Lambda" } /\ t.monitored \in BOOLEAN
  BY DEF Configuration, Telling!Methods
<1>2. PICK whole : whole = Telling!MadeEnvironment(t, x, TRUE, TRUE)
  OBVIOUS
<1>3. PICK part : part = Telling!MadeEnvironment(t, x, FALSE, TRUE)
  OBVIOUS
<1>4. PICK side : side = Telling!MadeEnvironment(t, x, TRUE, FALSE)
  OBVIOUS
<1>5. PICK none : none = [v \in {} |-> 0]
  OBVIOUS
<1>6. own \in Telling!Environments /\ none \in Telling!Environments
  BY <1>5, WrapperEnvironmentType, NothingIsEnvironment
<1>7. /\ whole \in Telling!Environments
      /\ \A v \in Telling!WrapperVars \ (DOMAIN t.overrides \cup DOMAIN x.overrides) :
           (v \in DOMAIN whole <=> v \in DOMAIN own) /\ (v \in DOMAIN whole => whole[v] = own[v])
  <2>1. whole = Telling!Overridden(Telling!Overridden(own, t.overrides), x.overrides)
    BY <1>2 DEF Telling!MadeEnvironment
  <2> QED
    BY <1>6, <2>1, OverriddenTwice
<1>8. part \in Telling!Environments
  <2>1. part = Telling!Overridden(Telling!Overridden(none, t.overrides), x.overrides)
    BY <1>3, <1>5 DEF Telling!MadeEnvironment
  <2> QED
    BY <1>6, <2>1, OverriddenTwice
<1>9. side \in Telling!Environments /\ side = own /\ side # None
  BY <1>4, <1>6 DEF TellingConstants, Telling!MadeEnvironment
<1>10. CASE t.method = "AWS ECS" /\ t.monitored
  <2>1. p = [ environment |-> part, monitor |-> side, main |-> Telling!Or(x.main, None) ]
    BY <1>3, <1>4, <1>10 DEF Telling!ProcessOf, Telling!EcsProcess
  <2>2. p.environment = part /\ p.monitor = side /\ p.main = Telling!Or(x.main, None)
    BY <2>1
  <2>3. w = side
    BY <1>9, <2>2 DEF Telling!OfWrapper
  <2> QED
    BY <1>8, <1>9, <1>10, <2>2, <2>3
<1>11. CASE t.method = "AWS ECS" /\ ~t.monitored
  <2>1. p = [ environment |-> whole, monitor |-> None, main |-> Telling!Or(x.main, None) ]
    BY <1>2, <1>11 DEF Telling!ProcessOf, Telling!EcsProcess
  <2>2. p.environment = whole /\ p.monitor = None /\ p.main = Telling!Or(x.main, None)
    BY <2>1
  <2>3. w = whole
    BY <2>2 DEF Telling!OfWrapper
  <2> QED
    BY <1>7, <1>11, <2>2, <2>3
<1>12. CASE t.method = "AWS CodeBuild"
  <2>1. p = [ environment |-> whole, monitor |-> None, main |-> None ]
    BY <1>2, <1>12 DEF Telling!ProcessOf, Telling!OtherProcess
  <2>2. p.environment = whole /\ p.monitor = None /\ p.main = None
    BY <2>1
  <2>3. w = whole
    BY <2>2 DEF Telling!OfWrapper
  <2> QED
    BY <1>7, <1>12, <2>2, <2>3
<1>13. CASE t.method = "AWS Lambda"
  <2>2. p = [ environment |-> none, monitor |-> None, main |-> None ]
    BY <1>5, <1>13 DEF Telling!ProcessOf, Telling!OtherProcess
  <2>3. p.environment = none /\ p.monitor = None /\ p.main = None
    BY <2>2
  <2>4. w = none /\ none \in Telling!Environments
    BY <1>6, <2>3 DEF Telling!OfWrapper
  <2> QED
    BY <1>13, <2>3, <2>4
<1> QED
  BY <1>1, <1>10, <1>11, <1>12, <1>13

\* What it tells the wrapper, unless somebody has overridden that.
LEMMA WrapperIsTold ==
  ASSUME TellingConstants, NEW t \in Configuration, NEW x \in ExecutionRow,
         NEW p, p = Telling!ProcessOf(t, x), NEW w, w = Telling!OfWrapper(p),
         NEW own, own = Telling!WrapperEnvironment(t, x), ~IsFunction(t),
         NEW v \in Telling!WrapperVars,
         p.monitor = None => v \notin DOMAIN t.overrides \cup DOMAIN x.overrides
  PROVE  /\ v \in DOMAIN w <=> v \in DOMAIN own
         /\ v \in DOMAIN w => w[v] = own[v]
<1>1. PICK whole : whole = Telling!MadeEnvironment(t, x, TRUE, TRUE)
  OBVIOUS
<1>2. own \in Telling!Environments
  BY WrapperEnvironmentType
<1>3. CASE p.monitor = own
  <2>1. w = own
    BY <1>2, <1>3 DEF Telling!OfWrapper, TellingConstants
  <2> QED
    BY <2>1
<1>4. CASE p.environment = whole /\ p.monitor = None
  <2>1. w = whole
    BY <1>4 DEF Telling!OfWrapper
  <2>2. whole = Telling!Overridden(Telling!Overridden(own, t.overrides), x.overrides)
    BY <1>1 DEF Telling!MadeEnvironment
  <2>3. v \in Telling!WrapperVars \ (DOMAIN t.overrides \cup DOMAIN x.overrides)
    BY <1>4
  <2> QED
    BY <1>2, <2>1, <2>2, <2>3, OverriddenTwice
<1>5. (p.monitor = own) \/ (p.environment = whole /\ p.monitor = None)
  <2>1. t.method \in { "AWS ECS", "AWS CodeBuild" } /\ t.monitored \in BOOLEAN
    BY DEF Configuration, Telling!Methods, IsFunction
  <2>2. CASE t.method = "AWS ECS" /\ t.monitored
    <3>1. p.monitor = Telling!MadeEnvironment(t, x, TRUE, FALSE)
      BY <2>2 DEF Telling!ProcessOf, Telling!EcsProcess
    <3> QED
      BY <3>1 DEF Telling!MadeEnvironment
  <2>3. CASE t.method = "AWS ECS" /\ ~t.monitored
    BY <1>1, <2>3 DEF Telling!ProcessOf, Telling!EcsProcess
  <2>4. CASE t.method = "AWS CodeBuild"
    BY <1>1, <2>4 DEF Telling!ProcessOf, Telling!OtherProcess
  <2> QED
    BY <2>1, <2>2, <2>3, <2>4
<1> QED
  BY <1>3, <1>4, <1>5

\* The Task and the request of a process are of the kinds there are.
LEMMA OriginType ==
  ASSUME TellingConstants, NEW o \in [task : Configurations, body : Bodies]
  PROVE  o.task \in Configuration /\ o.body \in Body
BY DEF TellingConstants

\* Processes that were started are told what their rows say.
LEMMA ToldAsGiven ==
  ASSUME TellingConstants, TellingInv, told # None, started # None
  PROVE  Telling!ToldAsRowSays /\ Telling!OthersKeepTheirShare
<1>1. PICK t : t = origin.task
  OBVIOUS
<1>2. PICK b : b = origin.body
  OBVIOUS
<1>3. PICK x : x = Given(t, b)
  OBVIOUS
<1>4. PICK w : w = Telling!OfWrapper(told)
  OBVIOUS
<1>5. PICK own : own = Telling!WrapperEnvironment(t, x)
  OBVIOUS
<1>6. t \in Configuration /\ b \in Body
  BY <1>1, <1>2, OriginType DEF TellingInv
<1>7. /\ told = Telling!ProcessOf(t, x)
      /\ started \in ExecutionRow
      /\ started.method = x.method /\ started.cpu = x.cpu
      /\ \/ started.edited
         \/ /\ started.concurrency = x.concurrency
            /\ \/ started.interval = x.interval
               \/ "interval" \in DOMAIN w /\ started.interval = w["interval"]
  BY <1>1, <1>2, <1>3, <1>4 DEF TellingInv
<1>8. /\ x \in ExecutionRow /\ x.method = t.method /\ x.overrides = b.overrides
      /\ t.method # "AWS ECS" => x = Telling!NewRow(t, b)
      /\ t.method = "AWS ECS" =>
           /\ x.interval = Telling!Or(b.interval, t.interval)
           /\ x.concurrency = Telling!Or(b.concurrency, t.concurrency)
           /\ x.cpu \in Int
           /\ (b.main = None /\ x.main # None) => x.cpu - x.main = t.cpu - t.main
  BY <1>3, <1>6, GivenType
<1>9. ASSUME ~IsFunction(t), NEW v \in Telling!WrapperVars, ~Telling!Misled(v)
      PROVE  /\ v \in DOMAIN w <=> v \in DOMAIN own
             /\ v \in DOMAIN w => w[v] = own[v]
  <2>1. told.monitor = None => v \notin DOMAIN t.overrides \cup DOMAIN x.overrides
    BY <1>1, <1>2, <1>8, <1>9 DEF Telling!Misled
  <2>2. x \in ExecutionRow /\ told = Telling!ProcessOf(t, x)
    BY <1>7, <1>8
  <2> QED
    BY <1>4, <1>5, <1>6, <1>9, <2>1, <2>2, WrapperIsTold
<1>10. /\ t.method = "AWS ECS" => told.main = Telling!Or(x.main, None)
       /\ t.method # "AWS ECS" => told.main = None
  BY <1>4, <1>5, <1>6, <1>7, <1>8, ProcessGiven
<1>11. /\ IF Telling!Or(x.interval, t.interval) # None
          THEN "interval" \in DOMAIN own /\ own["interval"] = Telling!Or(x.interval, t.interval)
          ELSE "interval" \notin DOMAIN own
       /\ IF x.concurrency \notin {None, 0}
          THEN "concurrency" \in DOMAIN own /\ own["concurrency"] = x.concurrency
          ELSE "concurrency" \notin DOMAIN own
  BY <1>5, <1>6, <1>8, WrapperEnvironmentType
<1>12. \A v : Telling!Told(v) = IF v \in DOMAIN w THEN w[v] ELSE None
  BY <1>4 DEF Telling!Told
<1>13. \/ Telling!Misled("interval") \/ started.edited \/ started.method = "AWS Lambda"
       \/ started.method = "AWS CodeBuild" /\ started.interval \in {None, 0}
       \/ Telling!Told("interval") = started.interval
       \/ Telling!Told("interval") = None /\ started.interval = 0
  <2> SUFFICES ASSUME ~Telling!Misled("interval"), ~started.edited,
                      started.method # "AWS Lambda"
               PROVE  \/ started.method = "AWS CodeBuild" /\ started.interval \in {None, 0}
                      \/ Telling!Told("interval") = started.interval
                      \/ Telling!Told("interval") = None /\ started.interval = 0
    OBVIOUS
  <2>1. CASE "interval" \in DOMAIN w /\ started.interval = w["interval"]
    BY <1>12, <2>1
  <2>2. CASE started.interval = x.interval
    <3>1. /\ "interval" \in DOMAIN w <=> "interval" \in DOMAIN own
          /\ "interval" \in DOMAIN w => w["interval"] = own["interval"]
      BY <1>7, <1>8, <1>9 DEF Telling!WrapperVars, IsFunction
    <3>2. Telling!Told("interval") = Telling!Or(x.interval, t.interval)
      BY <1>11, <1>12, <3>1
    <3>3. t.method = "AWS ECS" \/ t.method = "AWS CodeBuild"
      BY <1>6, <1>7, <1>8 DEF Configuration, Telling!Methods
    <3>4. CASE t.method = "AWS ECS"
      BY <1>8, <2>2, <3>2, <3>4 DEF Telling!Or
    <3>5. CASE t.method = "AWS CodeBuild"
      BY <1>7, <1>8, <2>2, <3>2, <3>5 DEF Telling!Or
    <3> QED
      BY <3>3, <3>4, <3>5
  <2> QED
    BY <1>7, <2>1, <2>2
<1>14. \/ Telling!Misled("concurrency") \/ started.edited \/ started.method = "AWS Lambda"
       \/ Telling!Told("concurrency") = started.concurrency
       \/ Telling!Told("concurrency") = None /\ started.concurrency = 0
  <2> SUFFICES ASSUME ~Telling!Misled("concurrency"), ~started.edited,
                      started.method # "AWS Lambda"
               PROVE  \/ Telling!Told("concurrency") = started.concurrency
                      \/ Telling!Told("concurrency") = None /\ started.concurrency = 0
    OBVIOUS
  <2>1. /\ "concurrency" \in DOMAIN w <=> "concurrency" \in DOMAIN own
        /\ "concurrency" \in DOMAIN w => w["concurrency"] = own["concurrency"]
    BY <1>7, <1>8, <1>9 DEF Telling!WrapperVars, IsFunction
  <2> QED
    BY <1>7, <1>11, <1>12, <2>1
<1>15. Telling!ToldAsRowSays
  BY <1>13, <1>14 DEF Telling!ToldAsRowSays, Telling!WrapperVars
<1>16. Telling!OthersKeepTheirShare
  <2> SUFFICES ASSUME told.main # None, b.main = None
               PROVE  started.cpu - told.main = t.cpu - t.main
    BY <1>1, <1>2 DEF Telling!OthersKeepTheirShare
  <2>1. t.method = "AWS ECS" /\ told.main = Telling!Or(x.main, None)
    BY <1>10
  <2>2. x.main # None /\ told.main = x.main
    BY <2>1 DEF Telling!Or
  <2> QED
    BY <1>7, <1>8, <2>1, <2>2
<1> QED
  BY <1>15, <1>16

\* What the invariant says of types.
LEMMA TellingTypes ==
  ASSUME TellingConstants, TellingInv
  PROVE  Telling!TypeOK
<1>1. ASSUME task # None
      PROVE  task \in Configuration
  BY <1>1 DEF TellingInv, TellingConstants
<1>2. ASSUME started # None
      PROVE  started \in ExecutionRow
  BY <1>2 DEF TellingInv
<1>3. ASSUME told # None
      PROVE  told.environment \in Telling!Environments
             /\ told.monitor \in Telling!Environments \cup {None}
  <2>1. PICK t : t = origin.task
    OBVIOUS
  <2>2. PICK b : b = origin.body
    OBVIOUS
  <2>3. PICK x : x = Given(t, b)
    OBVIOUS
  <2>4. t \in Configuration /\ b \in Body /\ told = Telling!ProcessOf(t, x)
    BY <1>3, <2>1, <2>2, <2>3, OriginType DEF TellingInv
  <2>5. x \in ExecutionRow
    BY <2>3, <2>4, GivenType
  <2> QED
    BY <2>4, <2>5, ProcessGiven
<1> QED
  BY <1>1, <1>2, <1>3 DEF Telling!TypeOK, Configuration, ExecutionRow

LEMMA TellingInit == Telling!Init => TellingInv
BY DEF Telling!Init, TellingInv

LEMMA TellingStep ==
  ASSUME TellingConstants, TellingInv, [Telling!Next]_Telling!vars
  PROVE  TellingInv'
<1>1. ASSUME NEW configuration \in Configurations, Telling!EditTask(configuration)
      PROVE  TellingInv'
  BY <1>1 DEF Telling!EditTask, TellingInv
<1>2. ASSUME NEW body \in Bodies, NEW developer \in BOOLEAN, Telling!Begin(body, developer)
      PROVE  TellingInv'
  <2>1. starting' \in [task : Configurations, body : Bodies]
    BY <1>2 DEF Telling!Begin, TellingInv
  <2> QED
    BY <1>2, <2>1 DEF Telling!Begin, TellingInv
<1>3. ASSUME NEW accepted \in BOOLEAN, Telling!Finish(accepted)
      PROVE  TellingInv'
  <2>1. PICK t : t = starting.task
    OBVIOUS
  <2>2. PICK b : b = starting.body
    OBVIOUS
  <2>3. PICK x : x = Given(t, b)
    OBVIOUS
  <2>4. starting # None /\ starting \in [task : Configurations, body : Bodies]
    BY <1>3 DEF Telling!Finish, TellingInv
  <2>5. t \in Configurations /\ t \in Configuration /\ b \in Body
    BY <2>1, <2>2, <2>4, OriginType
  <2>6. x \in ExecutionRow
    BY <2>3, <2>5, GivenType
  <2>7. /\ started' = [x EXCEPT !.status = IF accepted THEN @ ELSE "FAILED"]
        /\ told' = IF accepted THEN Telling!ProcessOf(t, x) ELSE None
        /\ origin' = starting /\ starting' = None
    BY <1>3, <2>1, <2>2, <2>3 DEF Telling!Finish, Given
  <2>8. task' = t \/ task' = task
    BY <1>3, <2>1 DEF Telling!Finish
  <2>9. /\ started' \in ExecutionRow
        /\ started'.method = x.method /\ started'.cpu = x.cpu
        /\ started'.concurrency = x.concurrency /\ started'.interval = x.interval
    BY <2>6, <2>7 DEF ExecutionRow
  <2>10. task' # None => task' \in Configurations
    BY <2>5, <2>8 DEF TellingInv
  <2>11. x = Given(starting.task, starting.body)
    BY <2>1, <2>2, <2>3
  <2>12. told' # None => told' = Telling!ProcessOf(starting.task, x)
    BY <2>1, <2>7
  <2> QED
    BY <2>4, <2>7, <2>9, <2>10, <2>11, <2>12 DEF TellingInv
<1>4. ASSUME NEW status \in { "RUNNING", "SUCCEEDED" }, Telling!Report(status)
      PROVE  TellingInv'
  <2>1. PICK w : w = Telling!OfWrapper(told)
    OBVIOUS
  <2>2. PICK i : /\ \/ i = started.interval
                    \/ "interval" \in DOMAIN w /\ i = w["interval"]
                 /\ started' = [started EXCEPT !.status = status, !.interval = i]
    BY <1>4, <2>1 DEF Telling!Report
  <2>3. /\ started # None /\ told # None /\ started \in ExecutionRow
        /\ task' = task /\ starting' = starting /\ told' = told /\ origin' = origin
    BY <1>4 DEF Telling!Report, TellingInv
  <2>4. w \in Telling!Environments
    <3>1. PICK t : t = origin.task
      OBVIOUS
    <3>2. PICK x : x = Given(t, origin.body)
      OBVIOUS
    <3>3. t \in Configuration /\ origin.body \in Body /\ told = Telling!ProcessOf(t, x)
      BY <2>3, <3>1, <3>2, OriginType DEF TellingInv
    <3>4. x \in ExecutionRow
      BY <3>2, <3>3, GivenType
    <3> QED
      BY <2>1, <3>3, <3>4, ProcessGiven
  <2>5. i \in Telling!Setting
    BY <2>2, <2>3, <2>4 DEF Telling!Environments, Telling!Setting, ExecutionRow
  <2>6. /\ started' \in ExecutionRow
        /\ started'.method = started.method /\ started'.cpu = started.cpu
        /\ started'.concurrency = started.concurrency /\ started'.interval = i
        /\ started'.edited = started.edited
    BY <2>2, <2>3, <2>5 DEF ExecutionRow
  <2> QED
    BY <2>1, <2>2, <2>3, <2>6 DEF TellingInv
<1>5. ASSUME NEW body \in Bodies, NEW developer \in BOOLEAN,
             Telling!EditExecution(body, developer)
      PROVE  TellingInv'
  <2>1. /\ started # None /\ started \in ExecutionRow /\ body \in Body
        /\ started' = [started EXCEPT !.interval = body.interval,
                         !.concurrency = body.concurrency, !.edited = TRUE]
        /\ task' = task /\ starting' = starting /\ told' = told /\ origin' = origin
    BY <1>5 DEF Telling!EditExecution, TellingInv, TellingConstants
  <2>2. /\ started' \in ExecutionRow
        /\ started'.method = started.method /\ started'.cpu = started.cpu
        /\ started'.edited = TRUE
    BY <2>1 DEF ExecutionRow, Body
  <2> QED
    BY <2>1, <2>2 DEF TellingInv
<1>6. ASSUME Telling!Forget
      PROVE  TellingInv'
  BY <1>6 DEF Telling!Forget, TellingInv
<1>7. ASSUME UNCHANGED Telling!vars
      PROVE  TellingInv'
  BY <1>7 DEF Telling!vars, TellingInv
<1> QED
  BY <1>1, <1>2, <1>3, <1>4, <1>5, <1>6, <1>7 DEF Telling!Next

\* A process is told what its row says, by which the checkers judge it, and more or
\* fewer units for one execution are at the cost of its main container only, however
\* the Task, its overrides and the execution are edited before, during and after the
\* start (TaskExecution.make_environment and the execution methods).
THEOREM ProcessesAreToldTheirRow == Telling!Spec => []ProcessIsAsRowSays
<1> USE TellingAssumption
<1>1. Telling!Init => TellingInv
  BY TellingInit
<1>2. TellingInv /\ [Telling!Next]_Telling!vars => TellingInv'
  BY TellingStep
<1>3. TellingInv => Telling!ProcessIsAsRowSays
  BY TellingTypes, ToldAsGiven DEF Telling!ProcessIsAsRowSays
<1> QED
  BY <1>1, <1>2, <1>3, PTL DEF Telling!Spec, ProcessIsAsRowSays

-----------------------------------------------------------------------------
(* Noticing that a service has too few executions (ServiceConcurrency).    *)

Execution == [ started : Int, stopped : Int \cup {None}, finished : Int \cup {None} ]

\* A watched service has been looked at no longer ago than the checker looks back.
ServiceInv ==
  /\ now \in Int /\ checked \in Int
  /\ service \in [ required : Int, watched : BOOLEAN, since : Int ]
  /\ \A e \in Executions : execution[e] # None => execution[e] \in Execution
  /\ DOMAIN execution = Executions
  /\ events \in Seq(BOOLEAN)
  /\ checked <= now
  /\ service.watched => now <= checked + MaxGap

LEMMA ServiceCardinality == \A S : Service!Cardinality(S) = Cardinality(S)
BY DEF Service!Cardinality, Cardinality

LEMMA ServiceLast == \A s : Service!Last(s) = s[Len(s)]
BY DEF Service!Last

\* Fewer are too few, if more are.
LEMMA FewerAreShort ==
  ASSUME ServiceConstants, ServiceInv, NEW S \in SUBSET Executions, NEW T \in SUBSET S,
         Service!Cardinality(S) < service.required
  PROVE  Service!Cardinality(T) < service.required
<1>1. IsFiniteSet(S)
  BY FS_Subset DEF ServiceConstants
<1>2. Cardinality(T) <= Cardinality(S) /\ Cardinality(S) \in Nat /\ Cardinality(T) \in Nat
  BY <1>1, FS_Subset, FS_CardinalityType
<1> QED
  BY <1>2, ServiceCardinality DEF ServiceInv

\* Where the window begins.
LEMMA WindowStarts ==
  ASSUME ServiceConstants, ServiceInv
  PROVE  /\ Service!FirstExpected \in Int /\ Service!WindowStart \in Int
         /\ Service!WindowStart >= now - Lookback
         /\ Service!WindowStart >= Service!FirstExpected
         /\ Service!WindowStart \in { now - Lookback, Service!FirstExpected }
BY DEF ServiceConstants, ServiceInv, Service!WindowStart, Service!FirstExpected

\* An execution that is counted runs, until it ends.
LEMMA CountedRuns ==
  ASSUME ServiceConstants, ServiceInv, NEW e \in Executions, NEW instant \in Int,
         Service!Selected(e), Service!CountsAt(e, instant)
  PROVE  Service!RunningAt(e, instant, FALSE)
BY DEF Service!Selected, Service!CountsAt, Service!RunningAt, Service!DoneAt

\* An execution that runs and was not told to stop is counted, within the window.
LEMMA RunsCounted ==
  ASSUME ServiceConstants, ServiceInv, NEW e \in Executions, NEW instant \in Int,
         instant >= Service!WindowStart, Service!RunningAt(e, instant, TRUE)
  PROVE  Service!Selected(e) /\ Service!CountsAt(e, instant)
<1>1. /\ execution[e] # None /\ execution[e] \in Execution
      /\ execution[e].started <= instant
      /\ execution[e].finished = None \/ instant < execution[e].finished
      /\ execution[e].stopped # None => instant < execution[e].stopped
  BY DEF Service!RunningAt, ServiceInv
<1>2. Service!WindowStart \in Int
  BY WindowStarts
<1>3. ASSUME NEW time \in { execution[e].finished, execution[e].stopped }, time # None
      PROVE  time >= Service!WindowStart
  BY <1>1, <1>2, <1>3 DEF Execution
<1>4. Service!Selected(e)
  BY <1>1, <1>3 DEF Service!Selected
<1>5. Service!CountsAt(e, instant)
  BY <1>1 DEF Service!CountsAt, Service!DoneAt
<1> QED
  BY <1>4, <1>5

\* What a resolved event leaves.
LEMMA ResolvedAreClosed ==
  ASSUME ServiceInv
  PROVE  /\ Service!Resolved \in Seq({TRUE})
         /\ Service!Resolved # <<>> => Service!Resolved[Len(Service!Resolved)] = TRUE
<1>1. PICK n : n = Len(events)
  OBVIOUS
<1>2. PICK c : c = Cardinality({ k \in 1 .. Len(events) : ~events[k] })
  OBVIOUS
<1>3. n \in Nat
  BY <1>1 DEF ServiceInv
<1>4. c \in Nat
  <2>1. IsFiniteSet(1 .. n)
    BY <1>3, FS_Interval
  <2>2. IsFiniteSet({ k \in 1 .. n : ~events[k] })
    BY <2>1, FS_Subset
  <2> QED
    BY <1>1, <1>2, <2>2, FS_CardinalityType
<1>5. Service!Resolved = [i \in 1 .. n |-> TRUE] \o [i \in 1 .. c |-> TRUE]
  BY <1>1, <1>2, ServiceCardinality DEF Service!Resolved
<1>6. PICK f : f = [i \in 1 .. n |-> TRUE]
  OBVIOUS
<1>7. PICK g : g = [i \in 1 .. c |-> TRUE]
  OBVIOUS
<1>8. f \in Seq({TRUE}) /\ g \in Seq({TRUE})
  BY <1>3, <1>4, <1>6, <1>7
<1>9. PICK s : s = f \o g
  OBVIOUS
<1>10. s \in Seq({TRUE})
  BY <1>8, <1>9
<1>11. ASSUME s # <<>>
       PROVE  s[Len(s)] = TRUE
  <2>1. Len(s) \in Nat /\ Len(s) # 0
    BY <1>10, <1>11
  <2>2. PICK k \in 1 .. Len(s) : k = Len(s)
    BY <2>1
  <2>3. s[k] \in {TRUE}
    BY <1>10, ElementOfSeq
  <2> QED
    BY <2>2, <2>3
<1> QED
  BY <1>5, <1>6, <1>7, <1>9, <1>10, <1>11

LEMMA ServiceInit == ServiceConstants /\ Service!Init => ServiceInv
<1> SUFFICES ASSUME ServiceConstants, Service!Init PROVE ServiceInv
  OBVIOUS
<1>1. service \in [ required : Int, watched : BOOLEAN, since : Int ]
  <2>1. PICK S : S = {TRUE}
    OBVIOUS
  <2>2. S \subseteq BOOLEAN
    BY <2>1
  <2>3. service \in [ required : 1 .. MaxRequired, watched : S, since : {0} ]
    BY <2>1 DEF Service!Init
  <2> QED
    BY <2>2, <2>3
<1>2. events \in Seq(BOOLEAN)
  BY EmptySeq DEF Service!Init
<1>3. DOMAIN execution = Executions /\ \A e \in Executions : execution[e] = None
  BY DEF Service!Init
<1>4. now = 0 /\ checked = 0 /\ 0 <= 0 + MaxGap
  BY DEF Service!Init, ServiceConstants
<1> QED
  BY <1>1, <1>2, <1>3, <1>4 DEF ServiceInv

LEMMA ServiceStep ==
  ASSUME ServiceConstants, ServiceInv, [Service!Next]_Service!vars
  PROVE  ServiceInv'
<1>1. ASSUME Service!Check
      PROVE  ServiceInv'
  <2>1. events' \in Seq(BOOLEAN)
    <3>1. Service!Raised \in Seq(BOOLEAN)
      <4>1. events \in Seq(BOOLEAN) /\ FALSE \in BOOLEAN
        BY DEF ServiceInv
      <4>2. Append(events, FALSE) \in Seq(BOOLEAN)
        BY <4>1, AppendProperties
      <4> QED
        BY <4>1, <4>2 DEF Service!Raised
    <3>2. PICK s : s = Service!Resolved
      OBVIOUS
    <3>3. s \in Seq({TRUE})
      BY <3>2, ResolvedAreClosed
    <3>4. s \in Seq(BOOLEAN)
      BY <3>3, SeqMonotonic
    <3> QED
      BY <1>1, <3>1, <3>2, <3>4 DEF Service!Check, ServiceInv
  <2> QED
    BY <1>1, <2>1 DEF Service!Check, ServiceInv, ServiceConstants
<1>2. ASSUME Service!EditService
      PROVE  ServiceInv'
  BY <1>2 DEF Service!EditService, ServiceInv, ServiceConstants
<1>3. ASSUME Service!CreateEvent
      PROVE  ServiceInv'
  <2>1. events' \in Seq(BOOLEAN)
    BY <1>3 DEF Service!CreateEvent, ServiceInv
  <2> QED
    BY <1>3, <2>1 DEF Service!CreateEvent, ServiceInv
<1>4. ASSUME Service!Tick
      PROVE  ServiceInv'
  BY <1>4 DEF Service!Tick, ServiceInv, ServiceConstants
<1>5. ASSUME NEW e \in Executions,
             Service!Start(e) \/ Service!Stop(e) \/ Service!Finish(e)
      PROVE  ServiceInv'
  <2>1. PICK x \in Execution : execution' = [execution EXCEPT ![e] = x]
    <3>1. CASE Service!Start(e)
      BY <3>1 DEF Service!Start, ServiceInv, Execution
    <3>2. CASE Service!Stop(e)
      <4>1. [execution[e] EXCEPT !.stopped = now] \in Execution
        BY <3>2 DEF Service!Stop, ServiceInv, Execution
      <4> QED
        BY <3>2, <4>1 DEF Service!Stop
    <3>3. CASE Service!Finish(e)
      <4>1. [execution[e] EXCEPT !.finished = now] \in Execution
        BY <3>3 DEF Service!Finish, ServiceInv, Execution
      <4> QED
        BY <3>3, <4>1 DEF Service!Finish
    <3> QED
      BY <1>5, <3>1, <3>2, <3>3
  <2>2. /\ now' = now /\ service' = service /\ events' = events /\ checked' = checked
    BY <1>5 DEF Service!Start, Service!Stop, Service!Finish
  <2>3. DOMAIN execution' = Executions
    BY <2>1 DEF ServiceInv
  <2>4. \A d \in Executions : execution'[d] # None => execution'[d] \in Execution
    BY <2>1 DEF ServiceInv
  <2> QED
    BY <2>2, <2>3, <2>4 DEF ServiceInv
<1>6. ASSUME NEW i \in 1 .. Len(events), Service!EditEvent(i)
      PROVE  ServiceInv'
  <2>1. CASE events' = [events EXCEPT ![i] = ~@]
    <3>1. events' \in Seq(BOOLEAN)
      BY <2>1 DEF ServiceInv
    <3> QED
      BY <1>6, <3>1 DEF Service!EditEvent, ServiceInv
  <2>2. CASE events' = Service!RemoveAt(events, i)
    <3>1. /\ SubSeq(events, 1, i - 1) \in Seq(BOOLEAN)
          /\ SubSeq(events, i + 1, Len(events)) \in Seq(BOOLEAN)
      BY DEF ServiceInv
    <3>2. events' \in Seq(BOOLEAN)
      BY <2>2, <3>1 DEF Service!RemoveAt
    <3> QED
      BY <1>6, <3>2 DEF Service!EditEvent, ServiceInv
  <2> QED
    BY <1>6, <2>1, <2>2 DEF Service!EditEvent
<1>7. ASSUME UNCHANGED Service!vars
      PROVE  ServiceInv'
  BY <1>7 DEF Service!vars, ServiceInv
<1> QED
  BY <1>1, <1>2, <1>3, <1>4, <1>5, <1>6, <1>7 DEF Service!Next

\* An instant since the last pass at which too few ran is seen.
LEMMA ShortIsSeen ==
  ASSUME ServiceConstants, ServiceInv, Service!Check,
         NEW instant \in checked .. now - 1, instant >= Service!FirstExpected,
         Service!ShortAt(instant, FALSE)
  PROVE  events' # <<>> /\ ~Service!Last(events')
<1>1. /\ Service!WindowStart <= instant /\ instant \in Int /\ instant < now
      /\ Service!WindowStart < now
  <2>1. now <= checked + MaxGap
    BY DEF Service!Check, ServiceInv
  <2> QED
    BY <2>1, WindowStarts DEF ServiceConstants, ServiceInv
<1>2. instant \in Service!Window
  BY <1>1, WindowStarts DEF Service!Window, ServiceInv
<1>3. PICK S : S = { e \in Executions : Service!RunningAt(e, instant, FALSE) }
  OBVIOUS
<1>4. PICK T : T = { e \in Executions : Service!Selected(e) /\ Service!CountsAt(e, instant) }
  OBVIOUS
<1>5. S \in SUBSET Executions /\ T \in SUBSET S
  BY <1>1, <1>3, <1>4, CountedRuns
<1>6. Service!Cardinality(S) < service.required
  BY <1>3 DEF Service!ShortAt
<1>7. Service!Concurrency(instant) < service.required
  BY <1>4, <1>5, <1>6, FewerAreShort DEF Service!Concurrency
<1>8. Service!FoundShort
  BY <1>2, <1>7 DEF Service!FoundShort
<1>9. ~(Service!WindowStart >= now)
  BY <1>1, WindowStarts DEF ServiceInv
<1>10. events' = Service!Raised
  BY <1>8, <1>9 DEF Service!Check
<1>11. CASE events = <<>> \/ Service!Last(events)
  <2>1. events' = Append(events, FALSE) /\ events \in Seq(BOOLEAN)
    BY <1>10, <1>11 DEF Service!Raised, ServiceInv
  <2>2. PICK s : s = events'
    OBVIOUS
  <2>3. /\ Len(s) = Len(events) + 1 /\ s[Len(events) + 1] = FALSE /\ Len(events) \in Nat
        /\ s \in Seq(BOOLEAN)
    BY <2>1, <2>2, AppendProperties, LenProperties
  <2>4. s # <<>> /\ s[Len(s)] = FALSE
    BY <2>3
  <2> QED
    BY <2>2, <2>4, ServiceLast
<1>12. CASE ~(events = <<>> \/ Service!Last(events))
  BY <1>10, <1>12 DEF Service!Raised
<1> QED
  BY <1>11, <1>12

\* An event is raised for too few executions that ran and were not told to stop.
LEMMA SeenWasShort ==
  ASSUME ServiceConstants, ServiceInv, Service!Check,
         Len(events') > Len(events), ~Service!Last(events')
  PROVE  \E instant \in now - Lookback .. now :
           instant >= Service!FirstExpected /\ Service!ShortAt(instant, TRUE)
<1>1. Len(events) \in Nat
  BY DEF ServiceInv
<1>2. ~(Service!WindowStart >= now)
  BY <1>1 DEF Service!Check
<1>3. Service!FoundShort
  <2> SUFFICES ASSUME ~Service!FoundShort PROVE FALSE
    OBVIOUS
  <2>1. PICK s : s = Service!Resolved
    OBVIOUS
  <2>2. events' = s
    BY <1>2, <2>1 DEF Service!Check
  <2>3. s \in Seq({TRUE}) /\ (s # <<>> => s[Len(s)] = TRUE)
    BY <2>1, ResolvedAreClosed
  <2>4. s # <<>>
    BY <1>1, <2>2
  <2> QED
    BY <2>2, <2>3, <2>4, ServiceLast
<1>4. PICK instant \in Service!Window : Service!Concurrency(instant) < service.required
  BY <1>3 DEF Service!FoundShort
<1>5. /\ instant \in Int /\ instant >= Service!WindowStart /\ instant <= now
      /\ instant >= now - Lookback /\ instant >= Service!FirstExpected
  BY <1>4, WindowStarts DEF Service!Window, ServiceInv, ServiceConstants
<1>6. PICK S : S = { e \in Executions : Service!Selected(e) /\ Service!CountsAt(e, instant) }
  OBVIOUS
<1>7. PICK T : T = { e \in Executions : Service!RunningAt(e, instant, TRUE) }
  OBVIOUS
<1>8. S \in SUBSET Executions /\ T \in SUBSET S
  BY <1>5, <1>6, <1>7, RunsCounted
<1>9. Service!Cardinality(S) < service.required
  BY <1>4, <1>6 DEF Service!Concurrency
<1>10. Service!ShortAt(instant, TRUE)
  BY <1>7, <1>8, <1>9, FewerAreShort DEF Service!ShortAt
<1>11. instant \in now - Lookback .. now
  BY <1>5 DEF ServiceInv, ServiceConstants
<1> QED
  BY <1>5, <1>10, <1>11

\* Whenever fewer executions of a service ran than required since the checker last
\* passed, there is an open event when it has passed; and it raises one only if fewer
\* than required ran, and were not told to stop, at an instant it looks back to
\* (ServiceConcurrencyChecker.check_service).
THEOREM ServiceReportsAreRight == Service!Spec => ReportsAreRight
<1> USE ServiceAssumption
<1>1. Service!Init => ServiceInv
  BY ServiceInit
<1>2. ServiceInv /\ [Service!Next]_Service!vars => ServiceInv'
  BY ServiceStep
<1>3. ServiceInv /\ [Service!Next]_Service!vars =>
        [ Service!Check =>
            /\ (\E instant \in checked .. now - 1 :
                  instant >= Service!FirstExpected /\ Service!ShortAt(instant, FALSE))
                 => events' # <<>> /\ ~Service!Last(events')
            /\ Len(events') > Len(events) /\ ~Service!Last(events')
                 => \E instant \in now - Lookback .. now :
                      instant >= Service!FirstExpected
                      /\ Service!ShortAt(instant, TRUE) ]_Service!vars
  <2>1. ASSUME ServiceInv, Service!Check,
               \E instant \in checked .. now - 1 :
                 instant >= Service!FirstExpected /\ Service!ShortAt(instant, FALSE)
        PROVE  events' # <<>> /\ ~Service!Last(events')
    BY <2>1, ShortIsSeen
  <2>2. ASSUME ServiceInv, Service!Check, Len(events') > Len(events),
               ~Service!Last(events')
        PROVE  \E instant \in now - Lookback .. now :
                 instant >= Service!FirstExpected /\ Service!ShortAt(instant, TRUE)
    BY <2>2, SeenWasShort
  <2> QED
    BY <2>1, <2>2
<1> QED
  BY <1>1, <1>2, <1>3, PTL DEF Service!Spec, Service!ReportsAreRight, ReportsAreRight

=============================================================================
