----------------------- MODULE WorkflowEngine_proofs -----------------------
(***************************************************************************)
(* Theorems about WorkflowEngine, for every graph of nodes and transitions *)
(* and every configuration of them.                                        *)
(***************************************************************************)
EXTENDS WorkflowEngine, FiniteSetTheorems, SequenceTheorems, TLAPS

-----------------------------------------------------------------------------
(* The stack of calls.                                                     *)

Over == { "STOPPED", "TERMINATED_AFTER_TIME_OUT" }

\* A call that may be made when m Task Executions exist.
Callable(c, m) == c \in Call /\ (c.op = "finished" => c.run \in 1 .. m)

\* A stack of such calls, of which the last, and no other, ends the transaction.
Stack(s, m) ==
  /\ s \in Seq(Call)
  /\ \A k \in 1 .. Len(s) :
       /\ s[k].op = "finished" => s[k].run \in 1 .. m
       /\ (s[k].op = "commit") <=> (k = Len(s))

Calls(s) == { s[k] : k \in 1 .. Len(s) }

LEMMA StackPush ==
  ASSUME NEW m \in Nat, NEW s, Stack(s, m), s # <<>>,
         NEW c, Callable(c, m), c.op # "commit"
  PROVE  /\ Stack(<<c>> \o s, m)
         /\ <<c>> \o s # <<>>
         /\ Calls(<<c>> \o s) = {c} \cup Calls(s)
<1> DEFINE p == <<c>> \o s
<1>1. s \in Seq(Call) /\ Len(s) \in Nat \ {0}
  BY EmptySeq DEF Stack
<1>2. <<c>> \in Seq(Call) /\ Len(<<c>>) = 1 /\ <<c>>[1] = c
  BY DEF Callable
<1>3. /\ p \in Seq(Call)
      /\ Len(p) = Len(s) + 1
      /\ \A i \in 1 .. Len(s) + 1 : p[i] = IF i = 1 THEN c ELSE s[i - 1]
  BY <1>1, <1>2, ConcatProperties
<1> HIDE DEF p
<1>4. p # <<>>
  BY <1>1, <1>3
<1>5. ASSUME NEW k \in 1 .. Len(p)
      PROVE  /\ p[k].op = "finished" => p[k].run \in 1 .. m
             /\ (p[k].op = "commit") <=> (k = Len(p))
  <2>1. CASE k = 1
    BY <2>1, <1>1, <1>3 DEF Callable
  <2>2. CASE k # 1
    <3>1. k - 1 \in 1 .. Len(s) /\ p[k] = s[k - 1]
      BY <2>2, <1>1, <1>3
    <3> QED
      BY <3>1, <1>1, <1>3 DEF Stack
  <2> QED
    BY <2>1, <2>2
<1>6. Calls(p) = {c} \cup Calls(s)
  <2>1. ASSUME NEW x \in Calls(p) PROVE x \in {c} \cup Calls(s)
    BY <1>1, <1>3 DEF Calls
  <2>2. c \in Calls(p)
    BY <1>1, <1>3 DEF Calls
  <2>3. ASSUME NEW x \in Calls(s) PROVE x \in Calls(p)
    <3>1. PICK k \in 1 .. Len(s) : x = s[k]
      BY DEF Calls
    <3>2. k + 1 \in 1 .. Len(p) /\ p[k + 1] = s[k]
      BY <1>1, <1>3
    <3> QED
      BY <3>1, <3>2 DEF Calls
  <2> QED
    BY <2>1, <2>2, <2>3
<1> QED
  BY <1>3, <1>4, <1>5, <1>6 DEF p, Stack

LEMMA StackPushTwo ==
  ASSUME NEW m \in Nat, NEW s, Stack(s, m), s # <<>>,
         NEW c, Callable(c, m), c.op # "commit",
         NEW d, Callable(d, m), d.op # "commit"
  PROVE  /\ Stack(<<c, d>> \o s, m)
         /\ <<c, d>> \o s # <<>>
         /\ Calls(<<c, d>> \o s) = {c, d} \cup Calls(s)
<1>1. /\ Stack(<<d>> \o s, m)
      /\ <<d>> \o s # <<>>
      /\ Calls(<<d>> \o s) = {d} \cup Calls(s)
  BY StackPush
<1>2. /\ Stack(<<c>> \o (<<d>> \o s), m)
      /\ <<c>> \o (<<d>> \o s) # <<>>
      /\ Calls(<<c>> \o (<<d>> \o s)) = {c} \cup Calls(<<d>> \o s)
  BY <1>1, StackPush
<1>3. <<c, d>> = <<c>> \o <<d>>
  BY DEF Callable
<1>4. <<c>> \in Seq(Call) /\ <<d>> \in Seq(Call) /\ s \in Seq(Call)
  BY DEF Callable, Stack
<1>5. <<c, d>> \o s = <<c>> \o (<<d>> \o s)
  BY <1>3, <1>4, ConcatAssociative
<1> QED
  BY <1>1, <1>2, <1>5

LEMMA StackPop ==
  ASSUME NEW m \in Nat, NEW s, Stack(s, m), s # <<>>
  PROVE  /\ Callable(Head(s), m)
         /\ Stack(Tail(s), m)
         /\ Calls(s) = {Head(s)} \cup Calls(Tail(s))
         /\ (Head(s).op = "commit") <=> (Tail(s) = <<>>)
<1>1. s \in Seq(Call) /\ Len(s) \in Nat \ {0} /\ Head(s) = s[1]
  BY EmptySeq DEF Stack
<1>2. /\ Tail(s) \in Seq(Call)
      /\ Len(Tail(s)) = Len(s) - 1
      /\ \A i \in 1 .. Len(Tail(s)) : Tail(s)[i] = s[i + 1]
  BY <1>1, HeadTailProperties
<1>3. Callable(Head(s), m)
  BY <1>1, ElementOfSeq DEF Callable, Stack
<1>4. Stack(Tail(s), m)
  <2>1. ASSUME NEW k \in 1 .. Len(Tail(s))
        PROVE  /\ Tail(s)[k].op = "finished" => Tail(s)[k].run \in 1 .. m
               /\ (Tail(s)[k].op = "commit") <=> (k = Len(Tail(s)))
    <3>1. k + 1 \in 1 .. Len(s) /\ Tail(s)[k] = s[k + 1]
      BY <1>1, <1>2
    <3>2. /\ s[k + 1].op = "finished" => s[k + 1].run \in 1 .. m
          /\ (s[k + 1].op = "commit") <=> (k + 1 = Len(s))
      BY <3>1 DEF Stack
    <3>3. (k + 1 = Len(s)) <=> (k = Len(Tail(s)))
      BY <1>1, <1>2
    <3> QED
      BY <3>1, <3>2, <3>3
  <2> QED
    BY <2>1, <1>2 DEF Stack
<1>5. Calls(s) = {Head(s)} \cup Calls(Tail(s))
  <2>1. ASSUME NEW x \in Calls(s) PROVE x \in {Head(s)} \cup Calls(Tail(s))
    <3>1. PICK k \in 1 .. Len(s) : x = s[k]
      BY DEF Calls
    <3>2. CASE k = 1
      BY <3>1, <3>2, <1>1
    <3>3. CASE k # 1
      <4>1. k - 1 \in 1 .. Len(Tail(s)) /\ Tail(s)[k - 1] = s[k]
        BY <3>3, <1>1, <1>2
      <4> QED
        BY <3>1, <4>1 DEF Calls
    <3> QED
      BY <3>2, <3>3
  <2>2. Head(s) \in Calls(s)
    BY <1>1 DEF Calls
  <2>3. ASSUME NEW x \in Calls(Tail(s)) PROVE x \in Calls(s)
    <3>1. PICK k \in 1 .. Len(Tail(s)) : x = Tail(s)[k]
      BY DEF Calls
    <3>2. k + 1 \in 1 .. Len(s) /\ Tail(s)[k] = s[k + 1]
      BY <1>1, <1>2
    <3> QED
      BY <3>1, <3>2 DEF Calls
  <2> QED
    BY <2>1, <2>2, <2>3
<1>6. (Head(s).op = "commit") <=> (Tail(s) = <<>>)
  <2>1. Tail(s) # <<>> => Len(Tail(s)) # 0
    BY <1>2, EmptySeq
  <2>2. Len(<<>>) = 0
    OBVIOUS
  <2>3. (Tail(s) = <<>>) <=> (Len(Tail(s)) = 0)
    BY <2>1, <2>2
  <2>4. 1 \in 1 .. Len(s) /\ ((Len(Tail(s)) = 0) <=> (1 = Len(s)))
    BY <1>1, <1>2
  <2>5. (s[1].op = "commit") <=> (1 = Len(s))
    BY <2>4 DEF Stack
  <2> QED
    BY <2>3, <2>4, <2>5, <1>1
<1> QED
  BY <1>3, <1>4, <1>5, <1>6

\* Calls stay callable when Task Executions are added.
LEMMA StackGrow ==
  ASSUME NEW m \in Nat, NEW n \in Nat, m <= n, NEW s, Stack(s, m)
  PROVE  Stack(s, n)
BY DEF Stack

\* The forms of the calls.
LEMMA CallForms ==
  /\ \A S \in SUBSET Nodes, m \in Nat :
       /\ Callable([op |-> "start", nodes |-> S], m)
       /\ Callable([op |-> "retry", nodes |-> S], m)
  /\ \A S \in SUBSET Transitions, retrying \in BOOLEAN, failed \in BOOLEAN, m \in Nat :
       Callable([op |-> "activate", transitions |-> S, retrying |-> retrying,
                 failed |-> failed], m)
  /\ \A m \in Nat : \A i \in 1 .. m, retrying \in BOOLEAN :
       Callable(Finished(i, retrying), m)
  /\ \A w \in WorkflowExecution, m \in Nat : Callable([op |-> "resume", obj |-> w], m)
  /\ \A op \in {"complete", "fail", "save", "refresh", "commit"}, m \in Nat :
       Callable(Do(op), m)
BY DEF Callable, Call, Finished, Do

LEMMA CallFields ==
  ASSUME NEW c \in Call
  PROVE  /\ c.op \in {"start", "retry"} =>
              c \in [op : {"start", "retry"}, nodes : SUBSET Nodes]
         /\ c.op = "finished" => c.run \in Nat /\ c.retrying \in BOOLEAN
         /\ c.op = "activate" =>
              c \in [op : {"activate"}, transitions : SUBSET Transitions,
                     retrying : BOOLEAN, failed : BOOLEAN]
         /\ c.op = "resume" => c.obj \in WorkflowExecution
BY DEF Call

\* The end of a transaction is a stack of its own.
LEMMA StackCommit ==
  ASSUME NEW m \in Nat
  PROVE  /\ Stack(<<>>, m) /\ Calls(<<>>) = {}
         /\ Stack(<<Do("commit")>>, m)
         /\ <<Do("commit")>> # <<>>
         /\ Calls(<<Do("commit")>>) = {Do("commit")}
<1>1. Do("commit") \in Call /\ Do("commit").op = "commit"
  BY DEF Do, Call
<1>2. /\ <<Do("commit")>> \in Seq(Call) /\ <<>> \in Seq(Call)
      /\ Len(<<Do("commit")>>) = 1 /\ Len(<<>>) = 0
      /\ <<Do("commit")>>[1] = Do("commit")
  BY <1>1
<1>3. 1 .. 1 = {1} /\ 1 .. 0 = {}
  OBVIOUS
<1> QED
  BY <1>1, <1>2, <1>3 DEF Stack, Calls

\* The stacks that transactions begin with.
LEMMA TransactionOfTwo ==
  ASSUME NEW m \in Nat, NEW c, Callable(c, m), c.op # "commit"
  PROVE  /\ Stack(<<c, Do("commit")>>, m)
         /\ Calls(<<c, Do("commit")>>) = {c, Do("commit")}
<1> DEFINE last == <<Do("commit")>>
<1>1. Stack(last, m) /\ last # <<>> /\ Calls(last) = {Do("commit")}
  BY StackCommit
<1>2. <<c, Do("commit")>> = <<c>> \o last
  BY DEF Callable, Do, Call
<1> HIDE DEF last
<1>3. Stack(<<c>> \o last, m) /\ Calls(<<c>> \o last) = {c} \cup Calls(last)
  BY <1>1, StackPush
<1>4. {c} \cup {Do("commit")} = {c, Do("commit")}
  OBVIOUS
<1> QED
  BY <1>1, <1>2, <1>3, <1>4

LEMMA TransactionOfThree ==
  ASSUME NEW m \in Nat,
         NEW c, Callable(c, m), c.op # "commit",
         NEW d, Callable(d, m), d.op # "commit"
  PROVE  /\ Stack(<<c, d, Do("commit")>>, m)
         /\ Calls(<<c, d, Do("commit")>>) = {c, d, Do("commit")}
<1> DEFINE last == <<Do("commit")>>
<1>1. Stack(last, m) /\ last # <<>> /\ Calls(last) = {Do("commit")}
  BY StackCommit
<1>2. <<c, d, Do("commit")>> = <<c, d>> \o last
  BY DEF Callable, Do, Call
<1> HIDE DEF last
<1>3. Stack(<<c, d>> \o last, m) /\ Calls(<<c, d>> \o last) = {c, d} \cup Calls(last)
  BY <1>1, StackPushTwo
<1>4. {c, d} \cup {Do("commit")} = {c, d, Do("commit")}
  OBVIOUS
<1> QED
  BY <1>1, <1>2, <1>3, <1>4

LEMMA TransactionOfFour ==
  ASSUME NEW m \in Nat,
         NEW c, Callable(c, m), c.op # "commit",
         NEW d, Callable(d, m), d.op # "commit",
         NEW e, Callable(e, m), e.op # "commit"
  PROVE  /\ Stack(<<c, d, e, Do("commit")>>, m)
         /\ Calls(<<c, d, e, Do("commit")>>) = {c, d, e, Do("commit")}
<1> DEFINE last == <<e, Do("commit")>>
<1>1. Stack(last, m) /\ last # <<>> /\ Calls(last) = {e, Do("commit")}
  BY TransactionOfTwo
<1>2. <<c, d, e, Do("commit")>> = <<c, d>> \o last
  BY DEF Callable, Do, Call
<1> HIDE DEF last
<1>3. Stack(<<c, d>> \o last, m) /\ Calls(<<c, d>> \o last) = {c, d} \cup Calls(last)
  BY <1>1, StackPushTwo
<1>4. {c, d} \cup {e, Do("commit")} = {c, d, e, Do("commit")}
  OBVIOUS
<1> QED
  BY <1>1, <1>2, <1>3, <1>4

-----------------------------------------------------------------------------
(* Types.                                                                  *)

\* TypeOK, strengthened so that it is inductive: the stack is well-formed, and
\* the evaluations can be counted.
TypeInv ==
  /\ TypeOK
  /\ Stack(todo, Len(runs))
  /\ IsFiniteSet(evaluations)

LEMMA RunsMapped ==
  ASSUME NEW rs \in Seq(Run), NEW f \in [1 .. Len(rs) -> Run]
  PROVE  f \in Seq(Run) /\ Len(f) = Len(rs)
<1>1. Len(rs) \in Nat
  BY LenProperties
<1>2. f \in Seq(Run)
  BY <1>1, SeqDef
<1> QED
  BY <1>1, <1>2, LenProperties

LEMMA RunUpdates ==
  ASSUME NEW run \in Run
  PROVE  /\ \A b \in BOOLEAN : [run EXCEPT !.latest = b] \in Run
         /\ \A b \in BOOLEAN : [run EXCEPT !.status = "STOPPING", !.detached = b] \in Run
         /\ \A status \in Status, b \in BOOLEAN :
              [run EXCEPT !.status = status, !.finished = b] \in Run
BY DEF Run, Status

LEMMA WithRunType ==
  ASSUME TypeInv, NEW run \in Run
  PROVE  WithRun(run) \in Seq(Run) /\ Len(WithRun(run)) = Len(runs) + 1
<1> DEFINE rs == [ i \in DOMAIN runs |->
                     [runs[i] EXCEPT !.latest = @ /\ runs[i].node # run.node] ]
<1>1. runs \in Seq(Run) /\ DOMAIN runs = 1 .. Len(runs)
  BY DEF TypeInv, TypeOK
<1>2. rs \in [1 .. Len(runs) -> Run]
  <2>1. ASSUME NEW i \in 1 .. Len(runs)
        PROVE  [runs[i] EXCEPT !.latest = @ /\ runs[i].node # run.node] \in Run
    <3> DEFINE b == runs[i].latest /\ runs[i].node # run.node
    <3>1. runs[i] \in Run /\ b \in BOOLEAN
      BY <1>1, ElementOfSeq
    <3> HIDE DEF b
    <3>2. [runs[i] EXCEPT !.latest = b] \in Run
      BY <3>1, RunUpdates
    <3> QED
      BY <3>2 DEF b
  <2> QED
    BY <1>1, <2>1
<1>3. rs \in Seq(Run) /\ Len(rs) = Len(runs)
  BY <1>1, <1>2, RunsMapped
<1> HIDE DEF rs
<1>4. Append(rs, run) \in Seq(Run) /\ Len(Append(rs, run)) = Len(rs) + 1
  BY <1>3, AppendProperties
<1> QED
  BY <1>3, <1>4 DEF WithRun, rs

LEMMA WithRunningStoppedType ==
  ASSUME TypeInv, NEW detached \in BOOLEAN
  PROVE  /\ WithRunningStopped(detached) \in Seq(Run)
         /\ Len(WithRunningStopped(detached)) = Len(runs)
<1>1. runs \in Seq(Run) /\ DOMAIN runs = 1 .. Len(runs)
  BY DEF TypeInv, TypeOK
<1>2. ASSUME NEW i \in 1 .. Len(runs)
      PROVE  /\ runs[i] \in Run
             /\ [runs[i] EXCEPT !.status = "STOPPING", !.detached = detached] \in Run
  BY <1>1, ElementOfSeq, RunUpdates
<1>3. WithRunningStopped(detached) \in [1 .. Len(runs) -> Run]
  BY <1>1, <1>2 DEF WithRunningStopped
<1> QED
  BY <1>1, <1>3, RunsMapped

LEMMA InvalidatedType ==
  ASSUME NEW rs \in Seq(Run), NEW S
  PROVE  Invalidated(rs, S) \in Seq(Run) /\ Len(Invalidated(rs, S)) = Len(rs)
<1>1. DOMAIN rs = 1 .. Len(rs)
  OBVIOUS
<1>2. ASSUME NEW i \in 1 .. Len(rs)
      PROVE  [rs[i] EXCEPT !.latest = @ /\ rs[i].node \notin Reachable(S)] \in Run
  <2> DEFINE b == rs[i].latest /\ rs[i].node \notin Reachable(S)
  <2>1. rs[i] \in Run /\ b \in BOOLEAN
    BY ElementOfSeq
  <2> HIDE DEF b
  <2>2. [rs[i] EXCEPT !.latest = b] \in Run
    BY <2>1, RunUpdates
  <2> QED
    BY <2>2 DEF b
<1>3. Invalidated(rs, S) \in [1 .. Len(rs) -> Run]
  BY <1>1, <1>2 DEF Invalidated
<1> QED
  BY <1>3, RunsMapped

LEMMA EvaluatedType ==
  ASSUME TypeInv, NEW i \in 1 .. Len(runs), NEW T \in SUBSET Transitions
  PROVE  /\ Evaluated(i, T) \subseteq Evaluation
         /\ IsFiniteSet(Evaluated(i, T))
         /\ \A e \in Evaluated(i, T) : e.run \in 1 .. Len(runs)
<1> DEFINE before(t) == Cardinality({ e \in evaluations : e.run = i /\ e.transition = t })
           new(t) == [run |-> i, transition |-> t, nth |-> before(t) + 1]
           U == { t \in T : before(t) < MaxCount }
           f == [t \in U |-> new(t)]
           R == { new(t) : t \in U }
<1>1. /\ evaluations \subseteq Evaluation /\ IsFiniteSet(evaluations)
      /\ \A e \in evaluations : e.run \in 1 .. Len(runs)
      /\ Len(runs) \in Nat
  BY DEF TypeInv, TypeOK
<1>2. \A t : before(t) \in Nat
  <2>1. ASSUME NEW t
        PROVE  before(t) \in Nat
    <3>1. { e \in evaluations : e.run = i /\ e.transition = t } \in SUBSET evaluations
      OBVIOUS
    <3>2. IsFiniteSet({ e \in evaluations : e.run = i /\ e.transition = t })
      BY <1>1, <3>1, FS_Subset
    <3> QED
      BY <3>2, FS_CardinalityType
  <2> QED
    BY <2>1
<1>3. Evaluated(i, T) = evaluations \cup R
  BY DEF Evaluated
<1> HIDE DEF before
<1>4. \A r \in R : r \in Evaluation /\ r.run = i
  BY <1>1, <1>2, LimitsAssumption DEF Evaluation
<1>5. IsFiniteSet(R)
  <2>1. U \in SUBSET Transitions
    OBVIOUS
  <2>2. IsFiniteSet(U)
    BY <2>1, GraphAssumption, FS_Subset
  <2>3. f \in Surjection(U, R)
    BY DEF Surjection
  <2> QED
    BY <2>2, <2>3, FS_Surjection
<1> HIDE DEF R
<1>6. IsFiniteSet(evaluations \cup R)
  BY <1>1, <1>5, FS_Union
<1> QED
  BY <1>1, <1>3, <1>4, <1>6

LEMMA CheckIfCompleteType ==
  ASSUME TypeInv, obj # None, NEW evals, NEW pending, CheckIfComplete(evals, pending)
  PROVE  we' \in WorkflowExecution /\ obj' \in WorkflowExecution
<1> DEFINE status == ComputedStatus(obj, evals, pending)
<1>1. we \in WorkflowExecution /\ obj \in WorkflowExecution
  BY DEF TypeInv, TypeOK
<1>2. status \in Status
  BY <1>1 DEF ComputedStatus, WorkflowExecution, Status
<1> HIDE DEF status
<1> DEFINE attempts == IF status = "FAILED" THEN OneMore(obj.attempts) ELSE obj.attempts
<1>3. attempts \in 0 .. MaxRetries
  BY <1>1, LimitsAssumption DEF WorkflowExecution, OneMore
<1> HIDE DEF attempts
<1>4. [obj EXCEPT !.status = status, !.finished = TRUE, !.attempts = attempts]
        \in WorkflowExecution
  BY <1>1, <1>2, <1>3 DEF WorkflowExecution
<1> QED
  BY <1>1, <1>4 DEF CheckIfComplete, status, attempts

\* What remains to be shown of a step.
LEMMA Assembled ==
  ASSUME TypeInv,
         we' \in WorkflowExecution,
         runs' \in Seq(Run), Len(runs) <= Len(runs'),
         \/ evaluations' = evaluations
         \/ /\ evaluations' \subseteq Evaluation /\ IsFiniteSet(evaluations')
            /\ \A e \in evaluations' : e.run \in 1 .. Len(runs'),
         obj' \in WorkflowExecution \cup {None},
         (obj' = None) <=> (todo' = <<>>),
         Stack(todo', Len(runs')),
         restarts' \in 0 .. MaxRestarts
  PROVE  TypeInv'
<1>1. Len(runs) \in Nat /\ Len(runs') \in Nat
  BY DEF TypeInv, TypeOK
<1>2. /\ evaluations' \subseteq Evaluation /\ IsFiniteSet(evaluations')
      /\ \A e \in evaluations' : e.run \in 1 .. Len(runs')
  <2>1. /\ evaluations \subseteq Evaluation /\ IsFiniteSet(evaluations)
        /\ \A e \in evaluations : e.run \in 1 .. Len(runs)
    BY DEF TypeInv, TypeOK
  <2> QED
    BY <1>1, <2>1
<1>3. DOMAIN runs' = 1 .. Len(runs')
  OBVIOUS
<1>4. /\ todo' \in Seq(Call)
      /\ \A k \in DOMAIN todo' : todo'[k].op = "finished" => todo'[k].run \in DOMAIN runs'
  BY <1>3 DEF Stack
<1> QED
  BY <1>2, <1>3, <1>4 DEF TypeInv, TypeOK, Idle

\* A set of positions in the list of executions has a youngest.
LEMMA YoungestExists ==
  ASSUME NEW m \in Nat, NEW S \in SUBSET (1 .. m), S # {}
  PROVE  Youngest(S) \in S /\ \A j \in S : j <= Youngest(S)
<1> DEFINE T == { k \in Nat : \E j \in S : k = m - j }
<1>1. T \subseteq Nat /\ T # {}
  <2>1. PICK j \in S : TRUE
    OBVIOUS
  <2>2. m - j \in T
    BY <2>1
  <2> QED
    BY <2>2
<1> DEFINE Less == { ss \in Nat \X Nat : ss[1] < ss[2] }
<1>2. IsWellFoundedOn(Less, Nat)
  BY NatLessThanWellFounded DEF OpToRel
<1>3. PICK x \in T : \A y \in T : x <= y
  <2> HIDE DEF T
  <2>1. \A x, y \in Nat : (y < x) => (<<y, x>> \in Less)
    OBVIOUS
  <2> HIDE DEF Less
  <2>2. PICK x \in T : \A y \in T : ~ (<<y, x>> \in Less)
    BY <1>1, <1>2, WFMin
  <2>3. ASSUME NEW y \in T PROVE x <= y
    <3>1. x \in Nat /\ y \in Nat
      BY <1>1
    <3>2. ~ (y < x)
      BY <2>1, <2>2, <3>1
    <3> QED
      BY <3>1, <3>2
  <2> QED
    BY <2>3
<1>4. m - x \in S
  <2>1. PICK j \in S : x = m - j
    OBVIOUS
  <2>2. j \in Nat /\ m - x = j
    BY <2>1
  <2> QED
    BY <2>2
<1>5. \A j \in S : j <= m - x
  <2>1. ASSUME NEW j \in S PROVE j <= m - x
    <3>1. j \in 1 .. m /\ m - j \in Nat
      OBVIOUS
    <3>2. m - j \in T
      BY <3>1
    <3>3. x <= m - j /\ x \in Nat
      BY <1>3, <3>2
    <3> QED
      BY <3>1, <3>3
  <2> QED
    BY <2>1
<1> QED
  BY <1>4, <1>5 DEF Youngest

LEMMA StartNodeType ==
  ASSUME TypeInv, todo # <<>>, NEW n \in Nodes, NEW rest, NEW raised,
         Stack(rest, Len(runs)), rest # <<>>, Stack(raised, Len(runs)), raised # <<>>,
         StartNode(n, rest, raised)
  PROVE  TypeInv'
<1>1. /\ we \in WorkflowExecution /\ obj \in WorkflowExecution /\ obj # None
      /\ Len(runs) \in Nat /\ restarts \in 0 .. MaxRestarts
  BY NoneAssumption DEF TypeInv, TypeOK, Idle
<1>2. \A status \in Status : NewRun(n, status) \in Run
  BY DEF NewRun, Run
<1>3. \A run \in Run : /\ WithRun(run) \in Seq(Run)
                       /\ Len(WithRun(run)) = Len(runs) + 1
  BY WithRunType
<1>4. UNCHANGED <<we, evaluations, restarts>>
  BY DEF StartNode
<1> DEFINE m == Len(runs) + 1
<1>5. Stack(rest, m) /\ Stack(raised, m) /\ m \in Nat
  BY <1>1, StackGrow
<1>6. /\ runs' \in Seq(Run) /\ Len(runs') = m
      /\ obj' \in WorkflowExecution
      /\ Stack(todo', m) /\ todo' # <<>>
  <2>1. CASE StartAccepted(n, rest)
    BY <2>1, <1>1, <1>2, <1>3, <1>5 DEF StartAccepted, Status
  <2>2. CASE StartRefused(n, rest)
    <3>1. runs' \in Seq(Run) /\ Len(runs') = m
      BY <2>2, <1>2, <1>3 DEF StartRefused, Status
    <3>2. CASE todo' = rest /\ UNCHANGED obj
      BY <3>1, <3>2, <1>1, <1>5
    <3>3. CASE /\ obj' = we
               /\ todo' = << Finished(m, FALSE), [op |-> "resume", obj |-> obj] >> \o rest
      <4>1. /\ Callable(Finished(m, FALSE), m)
            /\ Callable([op |-> "resume", obj |-> obj], m)
        <5>1. m \in 1 .. m /\ FALSE \in BOOLEAN
          BY <1>1
        <5> QED
          BY <5>1, <1>1, <1>5, CallForms
      <4>2. Finished(m, FALSE).op # "commit" /\ [op |-> "resume", obj |-> obj].op # "commit"
        BY DEF Finished
      <4>3. Stack(todo', m) /\ todo' # <<>>
        BY <3>3, <4>1, <4>2, <1>5, StackPushTwo
      <4> QED
        BY <3>1, <3>3, <4>3, <1>1
    <3> QED
      BY <2>2, <3>2, <3>3 DEF StartRefused
  <2>3. CASE StartRaises(n, raised)
    BY <2>3, <1>1, <1>2, <1>3, <1>5 DEF StartRaises, Status
  <2> QED
    BY <2>1, <2>2, <2>3 DEF StartNode
<1> HIDE DEF m
<1>7. Len(runs) <= Len(runs')
  BY <1>1, <1>6 DEF m
<1> QED
  BY <1>1, <1>4, <1>6, <1>7, NoneAssumption, Assembled

LEMMA ProceedType ==
  ASSUME TypeInv, todo # <<>>, NEW rest, Stack(rest, Len(runs)), rest # <<>>, Proceed(rest)
  PROVE  TypeInv'
<1>1. /\ we \in WorkflowExecution /\ obj \in WorkflowExecution /\ obj # None
      /\ runs \in Seq(Run) /\ Len(runs) \in Nat /\ restarts \in 0 .. MaxRestarts
  BY DEF TypeInv, TypeOK, Idle
<1>2. /\ we' \in WorkflowExecution /\ obj' \in WorkflowExecution /\ obj' # None
      /\ runs' \in Seq(Run) /\ Len(runs) <= Len(runs') /\ evaluations' = evaluations
      /\ restarts' \in 0 .. MaxRestarts /\ todo' # <<>> /\ Stack(todo', Len(runs'))
  BY <1>1 DEF Proceed
<1> QED
  BY <1>2, Assembled

LEMMA RetryNodeType ==
  ASSUME TypeInv, todo # <<>>, NEW n \in Nodes, NEW rest, NEW raised,
         Stack(rest, Len(runs)), rest # <<>>, Stack(raised, Len(runs)), raised # <<>>,
         RetryNode(n, rest, raised)
  PROVE  TypeInv'
<1> DEFINE i == Youngest(LatestRuns(n))
<1>1. CASE StartNode(n, rest, raised)
  BY <1>1, StartNodeType
<1>2. CASE Proceed(rest)
  BY <1>2, ProceedType
<1>3. CASE LatestRuns(n) # {} /\ Proceed(<<Finished(i, TRUE)>> \o rest)
  <2>1. Len(runs) \in Nat /\ LatestRuns(n) \in SUBSET (1 .. Len(runs))
    BY DEF TypeInv, TypeOK, LatestRuns
  <2>2. i \in 1 .. Len(runs)
    BY <1>3, <2>1, YoungestExists
  <2> HIDE DEF i
  <2>3. Callable(Finished(i, TRUE), Len(runs)) /\ Finished(i, TRUE).op # "commit"
    BY <2>1, <2>2, CallForms DEF Finished
  <2>4. Stack(<<Finished(i, TRUE)>> \o rest, Len(runs)) /\ <<Finished(i, TRUE)>> \o rest # <<>>
    BY <2>1, <2>3, StackPush
  <2> QED
    BY <1>3, <2>4, ProceedType
<1> QED
  BY <1>1, <1>2, <1>3 DEF RetryNode

\* The state within a transaction.
LEMMA Underway ==
  ASSUME TypeInv, todo # <<>>
  PROVE  /\ we \in WorkflowExecution
         /\ obj \in WorkflowExecution /\ obj # None
         /\ runs \in Seq(Run) /\ Len(runs) \in Nat /\ DOMAIN runs = 1 .. Len(runs)
         /\ restarts \in 0 .. MaxRestarts
         /\ Callable(Top, Len(runs)) /\ Top \in Call
         /\ Stack(Rest, Len(runs))
         /\ Calls(todo) = {Top} \cup Calls(Rest)
         /\ (Top.op = "commit") <=> (Rest = <<>>)
<1>1. /\ we \in WorkflowExecution
      /\ obj \in WorkflowExecution /\ obj # None
      /\ runs \in Seq(Run) /\ Len(runs) \in Nat /\ DOMAIN runs = 1 .. Len(runs)
      /\ restarts \in 0 .. MaxRestarts
  BY DEF TypeInv, TypeOK, Idle
<1>2. Stack(todo, Len(runs))
  BY DEF TypeInv
<1> QED
  BY <1>1, <1>2, StackPop DEF Top, Rest, Callable

\* What the loops leave on the stack for their next round.
LEMMA NextNode ==
  ASSUME TypeInv, todo # <<>>, Top.op \in {"start", "retry"}, NEW n \in Top.nodes
  PROVE  LET next == [Top EXCEPT !.nodes = @ \ {n}]
         IN n \in Nodes /\ Callable(next, Len(runs)) /\ next.op = Top.op
<1> DEFINE next == [Top EXCEPT !.nodes = @ \ {n}]
<1>1. Top \in [op : {"start", "retry"}, nodes : SUBSET Nodes]
  BY Underway, CallFields
<1>2. Top.nodes \ {n} \in SUBSET Nodes /\ n \in Nodes
  BY <1>1
<1>3. next \in [op : {"start", "retry"}, nodes : SUBSET Nodes] /\ next.op = Top.op
  BY <1>1, <1>2
<1> HIDE DEF next
<1>4. Callable(next, Len(runs))
  BY <1>3 DEF Callable, Call
<1> QED
  BY <1>2, <1>3, <1>4 DEF next

LEMMA NextTransition ==
  ASSUME TypeInv, todo # <<>>, Top.op = "activate", NEW t \in Top.transitions
  PROVE  LET next == [Top EXCEPT !.transitions = @ \ {t}]
             failing == [next EXCEPT !.failed = TRUE]
         IN /\ Target[t] \in Nodes
            /\ Callable(next, Len(runs)) /\ next.op = "activate"
            /\ Callable(failing, Len(runs)) /\ failing.op = "activate"
<1> DEFINE next == [Top EXCEPT !.transitions = @ \ {t}]
           failing == [next EXCEPT !.failed = TRUE]
           Activate == [op : {"activate"}, transitions : SUBSET Transitions,
                        retrying : BOOLEAN, failed : BOOLEAN]
<1>1. Top \in Activate
  BY Underway, CallFields
<1>2. Target[t] \in Nodes
  BY <1>1, GraphAssumption
<1>3. next \in Activate
  BY <1>1
<1> HIDE DEF next
<1>4. failing \in Activate
  BY <1>3
<1> HIDE DEF failing
<1>5. /\ Callable(next, Len(runs)) /\ next.op = "activate"
      /\ Callable(failing, Len(runs)) /\ failing.op = "activate"
  BY <1>3, <1>4 DEF Callable, Call
<1> QED
  BY <1>2, <1>5 DEF next, failing

LEMMA StartStepType ==
  ASSUME TypeInv, StartStep
  PROVE  TypeInv'
<1>1. todo # <<>> /\ Top.op = "start"
  BY DEF StartStep, Running
<1>2. /\ Stack(Rest, Len(runs)) /\ Rest # <<>>
      /\ Top.nodes \in SUBSET Nodes /\ Len(runs) \in Nat
  BY <1>1, Underway, CallFields
<1>3. CASE Proceed(Rest)
  BY <1>1, <1>2, <1>3, ProceedType
<1>4. ASSUME NEW n \in Top.nodes,
             StartNode(n, <<[Top EXCEPT !.nodes = @ \ {n}]>> \o Rest,
                       <<Do("fail"), Do("save"), Do("commit")>>)
      PROVE  TypeInv'
  <2> DEFINE next == [Top EXCEPT !.nodes = @ \ {n}]
             raised == <<Do("fail"), Do("save"), Do("commit")>>
  <2>1. Callable(next, Len(runs)) /\ next.op # "commit"
    BY <1>1, NextNode
  <2>2. Stack(<<next>> \o Rest, Len(runs)) /\ <<next>> \o Rest # <<>>
    BY <1>2, <2>1, StackPush
  <2>3. Stack(raised, Len(runs)) /\ raised # <<>>
    <3>1. /\ Callable(Do("fail"), Len(runs)) /\ Callable(Do("save"), Len(runs))
          /\ Do("fail").op # "commit" /\ Do("save").op # "commit"
      BY <1>2, CallForms DEF Do
    <3>2. Stack(<<Do("fail"), Do("save")>> \o <<Do("commit")>>, Len(runs))
      BY <1>2, <3>1, StackCommit, StackPushTwo
    <3>3. raised = <<Do("fail"), Do("save")>> \o <<Do("commit")>>
      OBVIOUS
    <3> QED
      BY <3>2, <3>3
  <2> HIDE DEF next, raised
  <2>4. n \in Nodes /\ StartNode(n, <<next>> \o Rest, raised)
    BY <1>2, <1>4 DEF next, raised
  <2> QED
    BY <1>1, <2>2, <2>3, <2>4, StartNodeType
<1> QED
  BY <1>3, <1>4 DEF StartStep

LEMMA RetryStepType ==
  ASSUME TypeInv, RetryStep
  PROVE  TypeInv'
<1>1. todo # <<>> /\ Top.op = "retry"
  BY DEF RetryStep, Running
<1>2. /\ Stack(Rest, Len(runs)) /\ Rest # <<>>
      /\ Top.nodes \in SUBSET Nodes /\ Len(runs) \in Nat
  BY <1>1, Underway, CallFields
<1>3. CASE Proceed(Rest)
  BY <1>1, <1>2, <1>3, ProceedType
<1>4. ASSUME NEW n \in Top.nodes,
             RetryNode(n, <<[Top EXCEPT !.nodes = @ \ {n}]>> \o Rest, <<Do("fail")>> \o Rest)
      PROVE  TypeInv'
  <2> DEFINE next == [Top EXCEPT !.nodes = @ \ {n}]
  <2>1. Callable(next, Len(runs)) /\ next.op # "commit"
    BY <1>1, NextNode
  <2>2. Stack(<<next>> \o Rest, Len(runs)) /\ <<next>> \o Rest # <<>>
    BY <1>2, <2>1, StackPush
  <2>3. Stack(<<Do("fail")>> \o Rest, Len(runs)) /\ <<Do("fail")>> \o Rest # <<>>
    <3>1. Callable(Do("fail"), Len(runs)) /\ Do("fail").op # "commit"
      BY <1>2, CallForms DEF Do
    <3> QED
      BY <1>2, <3>1, StackPush
  <2> HIDE DEF next
  <2>4. n \in Nodes /\ RetryNode(n, <<next>> \o Rest, <<Do("fail")>> \o Rest)
    BY <1>2, <1>4 DEF next
  <2> QED
    BY <1>1, <2>2, <2>3, <2>4, RetryNodeType
<1> QED
  BY <1>3, <1>4 DEF RetryStep

LEMMA FinishedStepType ==
  ASSUME TypeInv, FinishedStep
  PROVE  TypeInv'
<1> DEFINE i == Top.run
           activated == { t \in Outbound(runs[i].node) : Activates(t, runs[i].status) }
           activate == [op |-> "activate", transitions |-> activated,
                        retrying |-> Top.retrying, failed |-> FALSE]
<1>1. todo # <<>> /\ Top.op = "finished"
  BY DEF FinishedStep, Running
<1>2. /\ we \in WorkflowExecution /\ obj \in WorkflowExecution /\ obj # None
      /\ runs \in Seq(Run) /\ restarts \in 0 .. MaxRestarts
      /\ Stack(Rest, Len(runs)) /\ Rest # <<>> /\ Len(runs) \in Nat
      /\ i \in 1 .. Len(runs) /\ Top.retrying \in BOOLEAN
  BY <1>1, Underway, CallFields DEF Callable
<1>3. activated \in SUBSET Transitions
  BY DEF Outbound
<1> HIDE DEF i, activated
<1>4. CASE Proceed(Rest)
  BY <1>1, <1>2, <1>4, ProceedType
<1>5. CASE /\ evaluations' = Evaluated(i, activated)
           /\ CheckIfComplete(evaluations', activated # {})
           /\ todo' = IF obj'.status # "RUNNING" THEN Rest ELSE <<activate>> \o Rest
           /\ UNCHANGED <<runs, restarts>>
  <2>1. we' \in WorkflowExecution /\ obj' \in WorkflowExecution
    BY <1>2, <1>5, CheckIfCompleteType
  <2>2. /\ evaluations' \subseteq Evaluation /\ IsFiniteSet(evaluations')
        /\ \A e \in evaluations' : e.run \in 1 .. Len(runs')
    BY <1>2, <1>3, <1>5, EvaluatedType
  <2>3. Callable(activate, Len(runs)) /\ activate.op # "commit"
    BY <1>2, <1>3, CallForms
  <2> HIDE DEF activate
  <2>4. Stack(<<activate>> \o Rest, Len(runs)) /\ <<activate>> \o Rest # <<>>
    BY <1>2, <2>3, StackPush
  <2>5. Stack(todo', Len(runs')) /\ todo' # <<>>
    BY <1>2, <1>5, <2>4
  <2>6. runs' \in Seq(Run) /\ Len(runs) <= Len(runs') /\ restarts' \in 0 .. MaxRestarts
    BY <1>2, <1>5
  <2>7. obj' # None
    BY <2>1, NoneAssumption
  <2> QED
    BY <2>1, <2>2, <2>5, <2>6, <2>7, Assembled
<1>6. CASE /\ \E done \in SUBSET activated : evaluations' = Evaluated(i, done)
           /\ todo' = <<Do("fail"), Do("save")>> \o Rest
           /\ UNCHANGED <<we, runs, obj, restarts>>
  <2>1. PICK done \in SUBSET activated : evaluations' = Evaluated(i, done)
    BY <1>6
  <2>2. /\ evaluations' \subseteq Evaluation /\ IsFiniteSet(evaluations')
        /\ \A e \in evaluations' : e.run \in 1 .. Len(runs')
    BY <1>2, <1>3, <1>6, <2>1, EvaluatedType
  <2>3. /\ Callable(Do("fail"), Len(runs)) /\ Callable(Do("save"), Len(runs))
        /\ Do("fail").op # "commit" /\ Do("save").op # "commit"
    BY <1>2, CallForms DEF Do
  <2>4. Stack(todo', Len(runs')) /\ todo' # <<>>
    BY <1>2, <1>6, <2>3, StackPushTwo
  <2>5. /\ runs' \in Seq(Run) /\ Len(runs) <= Len(runs') /\ restarts' \in 0 .. MaxRestarts
        /\ we' \in WorkflowExecution /\ obj' \in WorkflowExecution /\ obj' # None
    BY <1>2, <1>6
  <2> QED
    BY <2>2, <2>4, <2>5, Assembled
<1> QED
  BY <1>4, <1>5, <1>6 DEF FinishedStep, i, activated

LEMMA ActivateStepType ==
  ASSUME TypeInv, ActivateStep
  PROVE  TypeInv'
<1>1. todo # <<>> /\ Top.op = "activate"
  BY DEF ActivateStep, Running
<1>2. /\ Stack(Rest, Len(runs)) /\ Rest # <<>> /\ Len(runs) \in Nat
      /\ Top \in [op : {"activate"}, transitions : SUBSET Transitions,
                  retrying : BOOLEAN, failed : BOOLEAN]
  BY <1>1, Underway, CallFields
<1>3. CASE Proceed(IF Top.failed THEN <<Do("fail"), Do("save")>> \o Rest ELSE Rest)
  <2>1. /\ Callable(Do("fail"), Len(runs)) /\ Callable(Do("save"), Len(runs))
        /\ Do("fail").op # "commit" /\ Do("save").op # "commit"
    BY <1>2, CallForms DEF Do
  <2>2. Stack(<<Do("fail"), Do("save")>> \o Rest, Len(runs))
          /\ <<Do("fail"), Do("save")>> \o Rest # <<>>
    BY <1>2, <2>1, StackPushTwo
  <2>3. CASE Top.failed
    BY <1>1, <1>3, <2>2, <2>3, ProceedType
  <2>4. CASE ~Top.failed
    BY <1>1, <1>2, <1>3, <2>4, ProceedType
  <2> QED
    BY <2>3, <2>4
<1>4. ASSUME NEW t \in Top.transitions
      PROVE  LET n == Target[t]
                 next == [Top EXCEPT !.transitions = @ \ {t}]
                 rest == <<next>> \o Rest
                 raised == <<[next EXCEPT !.failed = TRUE]>> \o Rest
             IN Proceed(rest) \/ RetryNode(n, rest, raised) \/ StartNode(n, rest, raised)
                  => TypeInv'
  <2> DEFINE n == Target[t]
             next == [Top EXCEPT !.transitions = @ \ {t}]
             failing == [next EXCEPT !.failed = TRUE]
  <2>1. n \in Nodes
    BY <1>1, NextTransition
  <2>2. /\ Callable(next, Len(runs)) /\ next.op # "commit"
        /\ Callable(failing, Len(runs)) /\ failing.op # "commit"
    BY <1>1, NextTransition
  <2> HIDE DEF failing
  <2>3. /\ Stack(<<next>> \o Rest, Len(runs)) /\ <<next>> \o Rest # <<>>
        /\ Stack(<<failing>> \o Rest, Len(runs)) /\ <<failing>> \o Rest # <<>>
    <3> HIDE DEF next
    <3> QED
      BY <1>2, <2>2, StackPush
  <2>4. Proceed(<<next>> \o Rest) => TypeInv'
    <3> HIDE DEF next
    <3> QED
      BY <1>1, <2>3, ProceedType
  <2>5. RetryNode(n, <<next>> \o Rest, <<failing>> \o Rest) => TypeInv'
    <3> HIDE DEF next, n
    <3> QED
      BY <1>1, <2>1, <2>3, RetryNodeType
  <2>6. StartNode(n, <<next>> \o Rest, <<failing>> \o Rest) => TypeInv'
    <3> HIDE DEF next, n
    <3> QED
      BY <1>1, <2>1, <2>3, StartNodeType
  <2> QED
    BY <2>4, <2>5, <2>6 DEF failing
<1>5. CASE /\ Top.transitions = {}
           /\ Proceed(IF Top.failed THEN <<Do("fail"), Do("save")>> \o Rest ELSE Rest)
  BY <1>3, <1>5
<1>6. CASE \E t \in Top.transitions :
             LET n == Target[t]
                 next == [Top EXCEPT !.transitions = @ \ {t}]
                 rest == <<next>> \o Rest
                 raised == <<[next EXCEPT !.failed = TRUE]>> \o Rest
             IN Proceed(rest) \/ RetryNode(n, rest, raised) \/ StartNode(n, rest, raised)
  BY <1>4, <1>6
<1> QED
  <2> HIDE DEF TypeInv
  <2> QED
    BY <1>5, <1>6 DEF ActivateStep

\* The steps of a transaction that only change the two workflow executions.
LEMMA ShortStepType ==
  ASSUME TypeInv,
         CompleteStep \/ FailStep \/ SaveStep \/ ResumeStep \/ RefreshStep
  PROVE  TypeInv'
<1>1. /\ todo # <<>> /\ Top.op # "commit"
      /\ todo' = Rest /\ UNCHANGED <<runs, evaluations, restarts>>
  BY DEF CompleteStep, FailStep, SaveStep, ResumeStep, RefreshStep, Running
<1>2. /\ we \in WorkflowExecution /\ obj \in WorkflowExecution /\ obj # None
      /\ runs \in Seq(Run) /\ restarts \in 0 .. MaxRestarts /\ Len(runs) \in Nat
      /\ Stack(Rest, Len(runs)) /\ Rest # <<>>
  BY <1>1, Underway
<1>3. we' \in WorkflowExecution /\ obj' \in WorkflowExecution
  <2>1. CASE CompleteStep
    BY <1>2, <2>1, CheckIfCompleteType DEF CompleteStep
  <2>2. CASE FailStep
    BY <1>2, <2>2 DEF FailStep, WorkflowExecution, Status
  <2>3. CASE SaveStep
    BY <1>2, <2>3 DEF SaveStep
  <2>4. CASE ResumeStep
    BY <1>1, <1>2, <2>4, Underway, CallFields DEF ResumeStep, Running
  <2>5. CASE RefreshStep
    BY <1>2, <2>5 DEF RefreshStep
  <2> QED
    BY <2>1, <2>2, <2>3, <2>4, <2>5
<1>4. /\ runs' \in Seq(Run) /\ Len(runs) <= Len(runs') /\ evaluations' = evaluations
      /\ restarts' \in 0 .. MaxRestarts /\ todo' # <<>> /\ Stack(todo', Len(runs'))
  BY <1>1, <1>2
<1> QED
  BY <1>3, <1>4, NoneAssumption, Assembled

LEMMA CommitStepType ==
  ASSUME TypeInv, CommitStep
  PROVE  TypeInv'
<1>1. todo # <<>> /\ Top.op = "commit"
  BY DEF CommitStep, Running
<1>2. /\ we' \in WorkflowExecution /\ runs' \in Seq(Run) /\ Len(runs) <= Len(runs')
      /\ evaluations' = evaluations /\ restarts' \in 0 .. MaxRestarts
      /\ obj' = None /\ todo' = <<>> /\ Stack(todo', Len(runs'))
  BY <1>1, Underway DEF CommitStep
<1> QED
  BY <1>2, Assembled

LEMMA StepType ==
  ASSUME TypeInv, Step
  PROVE  TypeInv'
BY StartStepType, RetryStepType, FinishedStepType, ActivateStepType, ShortStepType,
   CommitStepType DEF Step

\* The state between transactions.
LEMMA AtRest ==
  ASSUME TypeInv, Idle
  PROVE  /\ we \in WorkflowExecution /\ obj = None /\ todo = <<>>
         /\ runs \in Seq(Run) /\ Len(runs) \in Nat /\ DOMAIN runs = 1 .. Len(runs)
         /\ restarts \in 0 .. MaxRestarts
         /\ Stack(todo, Len(runs))
BY DEF TypeInv, TypeOK, Idle

LEMMA SaveRunType ==
  ASSUME TypeInv, Idle, NEW i \in DOMAIN runs, NEW run \in Run, SaveRun(i, run)
  PROVE  TypeInv'
<1>1. runs' \in Seq(Run) /\ Len(runs') = Len(runs) /\ Len(runs) <= Len(runs')
  BY AtRest, ExceptSeq DEF SaveRun
<1>2. /\ we' \in WorkflowExecution /\ evaluations' = evaluations
      /\ restarts' \in 0 .. MaxRestarts
  BY AtRest DEF SaveRun
<1>3. CASE obj' = we /\ todo' = <<Finished(i, FALSE), Do("commit")>>
  <2>1. Callable(Finished(i, FALSE), Len(runs)) /\ Finished(i, FALSE).op # "commit"
    BY AtRest, CallForms DEF Finished
  <2>2. Stack(todo', Len(runs')) /\ todo' # <<>>
    BY <1>1, <1>3, <2>1, AtRest, TransactionOfTwo
  <2>3. obj' \in WorkflowExecution /\ obj' # None
    BY <1>3, AtRest, NoneAssumption
  <2> QED
    BY <1>1, <1>2, <2>2, <2>3, Assembled
<1>4. CASE UNCHANGED <<obj, todo>>
  <2>1. /\ obj' = None /\ todo' = <<>> /\ Stack(todo', Len(runs'))
    BY <1>1, <1>4, AtRest
  <2> QED
    BY <1>1, <1>2, <2>1, Assembled
<1> QED
  BY <1>3, <1>4 DEF SaveRun

LEMMA ReportType ==
  ASSUME TypeInv, NEW i \in DOMAIN runs, NEW request \in UpdateStatuses, Report(i, request)
  PROVE  TypeInv'
<1> DEFINE run == runs[i]
           status == UpdatedStatus(run.status, request)
           finished == run.finished \/ SetsFinished(run.status, request)
<1>1. Idle /\ run \in Run
  BY AtRest, ElementOfSeq DEF Report
<1>2. status \in Status /\ finished \in BOOLEAN
  BY <1>1, LimitsAssumption DEF UpdatedStatus, Run, Status
<1>3. SaveRun(i, [run EXCEPT !.status = status, !.finished = finished])
  BY DEF Report
<1> HIDE DEF run, status, finished
<1>4. [run EXCEPT !.status = status, !.finished = finished] \in Run
  BY <1>1, <1>2, RunUpdates
<1> QED
  BY <1>1, <1>3, <1>4, SaveRunType

LEMMA CheckRunType ==
  ASSUME TypeInv, NEW i \in DOMAIN runs, CheckRun(i)
  PROVE  TypeInv'
<1> DEFINE run == runs[i]
           finished == run.status # "MANUALLY_STARTED"
           abandoned == [run EXCEPT !.status = "ABANDONED", !.finished = finished]
           stopping == [run EXCEPT !.status = "STOPPING"]
<1>1. Idle /\ run \in Run
  BY AtRest, ElementOfSeq DEF CheckRun
<1>2. abandoned \in Run
  BY <1>1, RunUpdates DEF Status
<1>3. stopping \in Run
  BY <1>1 DEF Run, Status
<1>4. SaveRun(i, abandoned) \/ SaveRun(i, stopping)
  BY DEF CheckRun
<1> HIDE DEF abandoned, stopping
<1> QED
  BY <1>1, <1>2, <1>3, <1>4, SaveRunType

LEMMA BeginRetryType ==
  ASSUME TypeInv, Idle, NEW attempts \in 0 .. MaxRetries, BeginRetry(attempts),
         restarts' \in 0 .. MaxRestarts
  PROVE  TypeInv'
<1>1. runs' \in Seq(Run) /\ Len(runs') = Len(runs) /\ Len(runs) <= Len(runs')
  <2> DEFINE stopped == WithRunningStopped(TRUE)
             unsuccessful == { stopped[i].node :
               i \in { i \in DOMAIN stopped :
                         stopped[i].latest /\ stopped[i].status # "SUCCEEDED" } }
  <2>1. runs' = Invalidated(stopped, unsuccessful)
    BY DEF BeginRetry
  <2>2. stopped \in Seq(Run) /\ Len(stopped) = Len(runs)
    BY WithRunningStoppedType
  <2> HIDE DEF stopped, unsuccessful
  <2>3. runs' \in Seq(Run) /\ Len(runs') = Len(runs)
    BY <2>1, <2>2, InvalidatedType
  <2> QED
    BY <2>3, AtRest
<1>2. /\ we' \in WorkflowExecution /\ evaluations' = evaluations
      /\ obj' \in WorkflowExecution /\ obj' # None
  <2>1. /\ UNCHANGED <<we, evaluations>>
        /\ obj' = [status |-> "RUNNING", finished |-> FALSE, attempts |-> attempts]
    BY DEF BeginRetry
  <2>2. obj' \in WorkflowExecution
    BY <2>1 DEF WorkflowExecution, Status
  <2> QED
    BY <2>1, <2>2, AtRest, NoneAssumption
<1>3. Stack(todo', Len(runs')) /\ todo' # <<>>
  <2> DEFINE c == [op |-> "retry", nodes |-> Roots]
  <2>1. Roots \in SUBSET Nodes
    BY DEF Roots
  <2>2. /\ Callable(c, Len(runs)) /\ c.op # "commit"
        /\ Callable(Do("complete"), Len(runs)) /\ Do("complete").op # "commit"
        /\ Callable(Do("save"), Len(runs)) /\ Do("save").op # "commit"
    BY <2>1, AtRest, CallForms DEF Do
  <2>3. todo' = <<c, Do("complete"), Do("save"), Do("commit")>>
    BY DEF BeginRetry
  <2> HIDE DEF c
  <2>4. Stack(todo', Len(runs))
    BY <2>2, <2>3, AtRest, TransactionOfFour
  <2> QED
    BY <1>1, <2>3, <2>4
<1> QED
  BY <1>1, <1>2, <1>3, Assembled

LEMMA StopExecutionType ==
  ASSUME TypeInv, StopExecution
  PROVE  TypeInv'
<1>1. Idle /\ UNCHANGED <<evaluations, obj, todo, restarts>>
  BY DEF StopExecution, HandleStopRequested
<1>2. we' \in WorkflowExecution
  BY <1>1, AtRest DEF StopExecution, HandleStopRequested, WorkflowExecution, Status
<1>3. runs' \in Seq(Run) /\ Len(runs') = Len(runs) /\ Len(runs) <= Len(runs')
  <2>1. CASE runs' = WithRunningStopped(TRUE)
    <3> DEFINE rs == WithRunningStopped(TRUE)
    <3>1. rs \in Seq(Run) /\ Len(rs) = Len(runs) /\ runs' = rs
      BY <2>1, WithRunningStoppedType
    <3> HIDE DEF rs
    <3>2. Len(runs) \in Nat
      BY <1>1, AtRest
    <3> QED
      BY <3>1, <3>2
  <2>2. CASE UNCHANGED runs
    BY <1>1, <2>2, AtRest
  <2> QED
    BY <2>1, <2>2 DEF StopExecution, HandleStopRequested
<1>4. /\ evaluations' = evaluations /\ restarts' \in 0 .. MaxRestarts
      /\ obj' = None /\ todo' = <<>> /\ Stack(todo', Len(runs'))
  BY <1>1, <1>3, AtRest
<1> QED
  BY <1>2, <1>3, <1>4, Assembled

LEMMA RetryExecutionType ==
  ASSUME TypeInv, RetryExecution
  PROVE  TypeInv'
<1>1. Idle /\ BeginRetry(we.attempts) /\ restarts < MaxRestarts /\ restarts' = restarts + 1
  BY DEF RetryExecution
<1>2. we.attempts \in 0 .. MaxRetries /\ restarts' \in 0 .. MaxRestarts
  BY <1>1, AtRest, LimitsAssumption DEF WorkflowExecution
<1> QED
  BY <1>1, <1>2, BeginRetryType

LEMMA ExpireType ==
  ASSUME TypeInv, Expire
  PROVE  TypeInv'
<1> DEFINE attempts == OneMore(we.attempts)
<1>1. Idle /\ UNCHANGED restarts
  BY DEF Expire
<1>2. attempts \in 0 .. MaxRetries /\ restarts' \in 0 .. MaxRestarts
  BY <1>1, AtRest, LimitsAssumption DEF WorkflowExecution, OneMore
<1>3. \/ BeginRetry(attempts)
      \/ /\ we' = [status |-> "TERMINATED_AFTER_TIME_OUT", finished |-> TRUE,
                   attempts |-> attempts]
         /\ runs' = WithRunningStopped(FALSE)
         /\ UNCHANGED <<evaluations, obj, todo>>
  BY DEF Expire
<1> HIDE DEF attempts
<1>4. CASE BeginRetry(attempts)
  BY <1>1, <1>2, <1>4, BeginRetryType
<1>5. CASE /\ we' = [status |-> "TERMINATED_AFTER_TIME_OUT", finished |-> TRUE,
                    attempts |-> attempts]
           /\ runs' = WithRunningStopped(FALSE)
           /\ UNCHANGED <<evaluations, obj, todo>>
  <2>1. we' \in WorkflowExecution
    BY <1>2, <1>5 DEF WorkflowExecution, Status
  <2>2. runs' \in Seq(Run) /\ Len(runs') = Len(runs) /\ Len(runs) <= Len(runs')
    <3> DEFINE rs == WithRunningStopped(FALSE)
    <3>1. rs \in Seq(Run) /\ Len(rs) = Len(runs) /\ runs' = rs
      BY <1>5, WithRunningStoppedType
    <3> HIDE DEF rs
    <3>2. Len(runs) \in Nat
      BY <1>1, AtRest
    <3> QED
      BY <3>1, <3>2
  <2>3. /\ evaluations' = evaluations
        /\ obj' = None /\ todo' = <<>> /\ Stack(todo', Len(runs'))
    BY <1>1, <1>5, <2>2, AtRest
  <2> QED
    BY <1>2, <2>1, <2>2, <2>3, Assembled
<1> QED
  BY <1>3, <1>4, <1>5

LEMMA StartNodesType ==
  ASSUME TypeInv, NEW S \in Selections, StartNodes(S)
  PROVE  TypeInv'
<1> DEFINE c == [op |-> "start", nodes |-> S]
<1>1. /\ Idle /\ restarts < MaxRestarts /\ restarts' = restarts + 1
      /\ we' = [we EXCEPT !.status = "RUNNING"] /\ obj' = we'
      /\ runs' = Invalidated(runs, S)
      /\ todo' = <<c, Do("refresh"), Do("complete"), Do("commit")>>
      /\ UNCHANGED evaluations
  BY DEF StartNodes
<1>2. we' \in WorkflowExecution /\ obj' \in WorkflowExecution /\ obj' # None
  BY <1>1, AtRest, NoneAssumption DEF WorkflowExecution, Status
<1>3. runs' \in Seq(Run) /\ Len(runs') = Len(runs) /\ Len(runs) <= Len(runs')
  BY <1>1, AtRest, InvalidatedType
<1>4. restarts' \in 0 .. MaxRestarts
  BY <1>1, AtRest, LimitsAssumption
<1>5. /\ Callable(c, Len(runs)) /\ c.op # "commit"
      /\ Callable(Do("refresh"), Len(runs)) /\ Do("refresh").op # "commit"
      /\ Callable(Do("complete"), Len(runs)) /\ Do("complete").op # "commit"
  <2>1. S \in SUBSET Nodes
    BY NodesAssumption
  <2> QED
    BY <1>1, <2>1, AtRest, CallForms DEF Do
<1> HIDE DEF c
<1>6. Stack(todo', Len(runs')) /\ todo' # <<>>
  BY <1>1, <1>3, <1>5, AtRest, TransactionOfFour
<1> QED
  BY <1>1, <1>2, <1>3, <1>4, <1>6, Assembled

LEMMA InitType == Init => TypeInv
<1> SUFFICES ASSUME Init PROVE TypeInv
  OBVIOUS
<1> DEFINE c == [op |-> "start", nodes |-> Roots]
<1>1. /\ we = [status |-> "RUNNING", finished |-> FALSE, attempts |-> 0]
      /\ runs = <<>> /\ evaluations = {} /\ obj = we
      /\ todo = <<c, Do("complete"), Do("commit")>> /\ restarts = 0
  BY DEF Init
<1>2. we \in WorkflowExecution /\ obj # None
  <2>1. 0 \in 0 .. MaxRetries
    BY LimitsAssumption
  <2>2. we \in WorkflowExecution
    BY <1>1, <2>1 DEF WorkflowExecution, Status
  <2> QED
    BY <1>1, <2>2, NoneAssumption
<1>3. /\ Callable(c, 0) /\ c.op # "commit"
      /\ Callable(Do("complete"), 0) /\ Do("complete").op # "commit"
  <2>1. Roots \in SUBSET Nodes
    BY DEF Roots
  <2> QED
    BY <2>1, CallForms DEF Do
<1> HIDE DEF c
<1>4. runs \in Seq(Run) /\ Len(runs) = 0
  BY <1>1
<1>5. Stack(todo, Len(runs)) /\ todo # <<>>
  BY <1>1, <1>3, <1>4, TransactionOfThree
<1>6. /\ todo \in Seq(Call)
      /\ \A k \in DOMAIN todo : todo[k].op = "finished" => todo[k].run \in DOMAIN runs
  BY <1>4, <1>5 DEF Stack
<1>7. restarts \in 0 .. MaxRestarts
  BY <1>1, LimitsAssumption
<1> QED
  BY <1>1, <1>2, <1>4, <1>5, <1>6, <1>7, FS_EmptySet DEF TypeInv, TypeOK, Idle

LEMMA NextType == TypeInv /\ [Next]_vars => TypeInv'
<1> SUFFICES ASSUME TypeInv, [Next]_vars PROVE TypeInv'
  OBVIOUS
<1>1. CASE UNCHANGED vars
  BY <1>1 DEF vars, TypeInv, TypeOK, Idle, Stack
<1>2. CASE Next
  BY <1>2, StepType, ReportType, CheckRunType, StopExecutionType, RetryExecutionType,
     ExpireType, StartNodesType DEF Next
<1> QED
  BY <1>1, <1>2

\* Every reachable state is well-typed: the stack of calls names executions that
\* exist, an instance of the workflow execution is in memory exactly during a
\* transaction, and every count stays within its bounds.
THEOREM TypeCorrect == Spec => []TypeOK
<1>1. TypeInv => TypeOK
  BY DEF TypeInv
<1> QED
  BY <1>1, InitType, NextType, PTL DEF Spec

-----------------------------------------------------------------------------
(* A workflow execution that was stopped, or has timed out, is quiet.      *)

\* What a call takes for granted: the instance that a caller goes on with, and the
\* row that a start reads again, are not over.
Sound(c, w) ==
  /\ c.op = "resume" => c.obj.status \notin Over
  /\ c.op = "refresh" => w.status \notin Over

SoundStack(s, w) == \A c \in Calls(s) : Sound(c, w)

\* While a retry goes on, the row may still say that the workflow execution is
\* over, although its Task Executions run again: the retry will save it.
Quiet(s, w) ==
  /\ SoundStack(s, w)
  /\ w.status \in Over => \E c \in Calls(s) : c.op = "save"

QuietInv ==
  /\ todo # <<>> => obj.status \notin Over /\ Quiet(todo, we)
  /\ todo = <<>> => (we.status \in Over => LatestInProgress = {})

LEMMA QuietPush ==
  ASSUME NEW m \in Nat, NEW s, Stack(s, m), s # <<>>,
         NEW c, Callable(c, m), c.op # "commit",
         NEW w, Quiet(s, w), Sound(c, w)
  PROVE  Quiet(<<c>> \o s, w)
BY StackPush DEF Quiet, SoundStack

LEMMA QuietPushTwo ==
  ASSUME NEW m \in Nat, NEW s, Stack(s, m), s # <<>>,
         NEW c, Callable(c, m), c.op # "commit",
         NEW d, Callable(d, m), d.op # "commit",
         NEW w, Quiet(s, w), Sound(c, w), Sound(d, w)
  PROVE  Quiet(<<c, d>> \o s, w)
<1>1. Calls(<<c, d>> \o s) = {c, d} \cup Calls(s)
  BY StackPushTwo
<1> QED
  BY <1>1 DEF Quiet, SoundStack

\* A row that is not over asks for nothing.
LEMMA QuietRow ==
  ASSUME NEW s, NEW w, SoundStack(s, w), NEW v, v.status \notin Over
  PROVE  Quiet(s, v)
BY DEF Quiet, SoundStack, Sound

LEMMA QuietUnderway ==
  ASSUME TypeInv, QuietInv, todo # <<>>
  PROVE  /\ obj.status \notin Over
         /\ Sound(Top, we)
         /\ SoundStack(Rest, we)
         /\ Top.op # "save" => Quiet(Rest, we)
<1>1. Calls(todo) = {Top} \cup Calls(Rest)
  BY Underway
<1>2. obj.status \notin Over /\ Quiet(todo, we)
  BY DEF QuietInv
<1>3. Sound(Top, we) /\ SoundStack(Rest, we)
  BY <1>1, <1>2 DEF Quiet, SoundStack
<1>4. ASSUME Top.op # "save" PROVE Quiet(Rest, we)
  BY <1>1, <1>2, <1>3, <1>4 DEF Quiet
<1> QED
  BY <1>2, <1>3, <1>4

LEMMA StartNodeQuiet ==
  ASSUME TypeInv, todo # <<>>, NEW n \in Nodes, NEW rest, NEW raised,
         Stack(rest, Len(runs)), rest # <<>>, raised # <<>>,
         obj.status \notin Over, Quiet(rest, we), Quiet(raised, we),
         StartNode(n, rest, raised)
  PROVE  QuietInv'
<1>1. we' = we
  BY DEF StartNode
<1>2. obj'.status \notin Over /\ Quiet(todo', we) /\ todo' # <<>>
  <2>1. CASE StartAccepted(n, rest)
    BY <2>1 DEF StartAccepted
  <2>2. CASE StartRefused(n, rest)
    <3> DEFINE m == Len(runs) + 1
               back == [op |-> "resume", obj |-> obj]
    <3>1. CASE todo' = rest /\ UNCHANGED obj
      BY <3>1
    <3>2. CASE /\ ContinuationAllowed(we)
               /\ obj' = we
               /\ todo' = <<Finished(m, FALSE), back>> \o rest
      <4>1. obj'.status \notin Over
        BY <3>2 DEF ContinuationAllowed, Over
      <4>2. m \in Nat /\ m \in 1 .. m /\ Stack(rest, m) /\ obj \in WorkflowExecution
        BY Underway, StackGrow
      <4>3. /\ Callable(Finished(m, FALSE), m) /\ Finished(m, FALSE).op # "commit"
            /\ Sound(Finished(m, FALSE), we)
        BY <4>2, CallForms DEF Finished, Sound
      <4>4. Callable(back, m) /\ back.op # "commit" /\ Sound(back, we)
        BY <4>2, CallForms DEF Sound
      <4> HIDE DEF m, back
      <4>5. Quiet(<<Finished(m, FALSE), back>> \o rest, we)
        BY <4>2, <4>3, <4>4, QuietPushTwo
      <4>6. <<Finished(m, FALSE), back>> \o rest # <<>>
        BY <4>2, <4>3, <4>4, StackPushTwo
      <4> QED
        BY <3>2, <4>1, <4>5, <4>6
    <3> QED
      BY <2>2, <3>1, <3>2 DEF StartRefused, HandlesEnd
  <2>3. CASE StartRaises(n, raised)
    BY <2>3 DEF StartRaises
  <2> QED
    BY <2>1, <2>2, <2>3 DEF StartNode
<1> QED
  BY <1>1, <1>2 DEF QuietInv

LEMMA ProceedQuiet ==
  ASSUME NEW rest, rest # <<>>, obj.status \notin Over, Quiet(rest, we), Proceed(rest)
  PROVE  QuietInv'
BY DEF Proceed, QuietInv

LEMMA RetryNodeQuiet ==
  ASSUME TypeInv, todo # <<>>, NEW n \in Nodes, NEW rest, NEW raised,
         Stack(rest, Len(runs)), rest # <<>>, raised # <<>>,
         obj.status \notin Over, Quiet(rest, we), Quiet(raised, we),
         RetryNode(n, rest, raised)
  PROVE  QuietInv'
<1> DEFINE i == Youngest(LatestRuns(n))
<1>1. CASE StartNode(n, rest, raised)
  BY <1>1, StartNodeQuiet
<1>2. CASE Proceed(rest)
  BY <1>2, ProceedQuiet
<1>3. CASE LatestRuns(n) # {} /\ Proceed(<<Finished(i, TRUE)>> \o rest)
  <2>1. Len(runs) \in Nat /\ LatestRuns(n) \in SUBSET (1 .. Len(runs))
    BY DEF TypeInv, TypeOK, LatestRuns
  <2>2. i \in 1 .. Len(runs)
    BY <1>3, <2>1, YoungestExists
  <2> HIDE DEF i
  <2>3. /\ Callable(Finished(i, TRUE), Len(runs)) /\ Finished(i, TRUE).op # "commit"
        /\ Sound(Finished(i, TRUE), we)
    BY <2>1, <2>2, CallForms DEF Finished, Sound
  <2>4. Quiet(<<Finished(i, TRUE)>> \o rest, we) /\ <<Finished(i, TRUE)>> \o rest # <<>>
    BY <2>1, <2>3, QuietPush, StackPush
  <2> QED
    BY <1>3, <2>4, ProceedQuiet
<1> QED
  BY <1>1, <1>2, <1>3 DEF RetryNode

LEMMA StartStepQuiet ==
  ASSUME TypeInv, QuietInv, StartStep
  PROVE  QuietInv'
<1>1. todo # <<>> /\ Top.op = "start"
  BY DEF StartStep, Running
<1>2. /\ Stack(Rest, Len(runs)) /\ Rest # <<>> /\ Len(runs) \in Nat
      /\ obj.status \notin Over /\ Quiet(Rest, we)
  BY <1>1, Underway, QuietUnderway
<1>3. CASE Proceed(Rest)
  BY <1>2, <1>3, ProceedQuiet
<1>4. ASSUME NEW n \in Top.nodes,
             StartNode(n, <<[Top EXCEPT !.nodes = @ \ {n}]>> \o Rest,
                       <<Do("fail"), Do("save"), Do("commit")>>)
      PROVE  QuietInv'
  <2> DEFINE next == [Top EXCEPT !.nodes = @ \ {n}]
             raised == <<Do("fail"), Do("save"), Do("commit")>>
  <2>1. n \in Nodes /\ Callable(next, Len(runs)) /\ next.op = "start"
    BY <1>1, NextNode
  <2>2. StartNode(n, <<next>> \o Rest, raised)
    BY <1>4
  <2>3. Quiet(raised, we) /\ raised # <<>>
    <3>1. /\ Callable(Do("fail"), Len(runs)) /\ Callable(Do("save"), Len(runs))
          /\ Do("fail").op # "commit" /\ Do("save").op # "commit"
      BY <1>2, CallForms DEF Do
    <3>2. Calls(raised) = {Do("fail"), Do("save"), Do("commit")}
      BY <1>2, <3>1, TransactionOfThree
    <3> HIDE DEF raised
    <3>3. Quiet(raised, we)
      BY <3>2 DEF Quiet, SoundStack, Sound, Do
    <3> QED
      BY <3>3 DEF raised
  <2> HIDE DEF next, raised
  <2>4. /\ Stack(<<next>> \o Rest, Len(runs)) /\ <<next>> \o Rest # <<>>
        /\ Quiet(<<next>> \o Rest, we)
    BY <1>2, <2>1, StackPush, QuietPush DEF Sound
  <2> QED
    BY <1>1, <1>2, <2>1, <2>2, <2>3, <2>4, StartNodeQuiet
<1> QED
  BY <1>3, <1>4 DEF StartStep

LEMMA RetryStepQuiet ==
  ASSUME TypeInv, QuietInv, RetryStep
  PROVE  QuietInv'
<1>1. todo # <<>> /\ Top.op = "retry"
  BY DEF RetryStep, Running
<1>2. /\ Stack(Rest, Len(runs)) /\ Rest # <<>> /\ Len(runs) \in Nat
      /\ obj.status \notin Over /\ Quiet(Rest, we)
  BY <1>1, Underway, QuietUnderway
<1>3. CASE Proceed(Rest)
  BY <1>2, <1>3, ProceedQuiet
<1>4. ASSUME NEW n \in Top.nodes,
             RetryNode(n, <<[Top EXCEPT !.nodes = @ \ {n}]>> \o Rest, <<Do("fail")>> \o Rest)
      PROVE  QuietInv'
  <2> DEFINE next == [Top EXCEPT !.nodes = @ \ {n}]
  <2>1. n \in Nodes /\ Callable(next, Len(runs)) /\ next.op = "retry"
    BY <1>1, NextNode
  <2>2. RetryNode(n, <<next>> \o Rest, <<Do("fail")>> \o Rest)
    BY <1>4
  <2>3. Quiet(<<Do("fail")>> \o Rest, we) /\ <<Do("fail")>> \o Rest # <<>>
    <3>1. /\ Callable(Do("fail"), Len(runs)) /\ Do("fail").op # "commit"
          /\ Sound(Do("fail"), we)
      BY <1>2, CallForms DEF Do, Sound
    <3> QED
      BY <1>2, <3>1, StackPush, QuietPush
  <2> HIDE DEF next
  <2>4. /\ Stack(<<next>> \o Rest, Len(runs)) /\ <<next>> \o Rest # <<>>
        /\ Quiet(<<next>> \o Rest, we)
    BY <1>2, <2>1, StackPush, QuietPush DEF Sound
  <2> QED
    BY <1>1, <1>2, <2>1, <2>2, <2>3, <2>4, RetryNodeQuiet
<1> QED
  BY <1>3, <1>4 DEF RetryStep

\* compute_updated_status never computes that the workflow is over.
LEMMA CheckIfCompleteQuiet ==
  ASSUME obj.status \notin Over, NEW evals, NEW pending, CheckIfComplete(evals, pending),
         obj \in WorkflowExecution
  PROVE  /\ obj'.status \notin Over
         /\ we' = we \/ we'.status \notin Over
<1> DEFINE status == ComputedStatus(obj, evals, pending)
           attempts == IF status = "FAILED" THEN OneMore(obj.attempts) ELSE obj.attempts
           done == [obj EXCEPT !.status = status, !.finished = TRUE, !.attempts = attempts]
<1>1. status \notin Over
  BY DEF ComputedStatus, Over
<1>2. UNCHANGED <<obj, we>> \/ (obj' = done /\ we' = done)
  BY DEF CheckIfComplete
<1> HIDE DEF status, attempts
<1>3. done.status = status
  BY DEF WorkflowExecution
<1> HIDE DEF done
<1> QED
  BY <1>1, <1>2, <1>3

LEMMA FinishedStepQuiet ==
  ASSUME TypeInv, QuietInv, FinishedStep
  PROVE  QuietInv'
<1> DEFINE i == Top.run
           activated == { t \in Outbound(runs[i].node) : Activates(t, runs[i].status) }
           activate == [op |-> "activate", transitions |-> activated,
                        retrying |-> Top.retrying, failed |-> FALSE]
<1>1. todo # <<>> /\ Top.op = "finished"
  BY DEF FinishedStep, Running
<1>2. /\ obj \in WorkflowExecution /\ Stack(Rest, Len(runs)) /\ Rest # <<>>
      /\ Len(runs) \in Nat /\ Top.retrying \in BOOLEAN
      /\ obj.status \notin Over /\ Quiet(Rest, we) /\ SoundStack(Rest, we)
  BY <1>1, Underway, CallFields, QuietUnderway DEF Callable
<1>3. activated \in SUBSET Transitions
  BY DEF Outbound
<1> HIDE DEF i, activated
<1>4. CASE Proceed(Rest)
  BY <1>2, <1>4, ProceedQuiet
<1>5. CASE /\ CheckIfComplete(evaluations', activated # {})
           /\ todo' = IF obj'.status # "RUNNING" THEN Rest ELSE <<activate>> \o Rest
  <2>1. obj'.status \notin Over /\ (we' = we \/ we'.status \notin Over)
    BY <1>2, <1>5, CheckIfCompleteQuiet
  <2>2. Quiet(Rest, we')
    BY <1>2, <2>1, QuietRow
  <2>3. Callable(activate, Len(runs)) /\ activate.op # "commit" /\ Sound(activate, we')
    BY <1>2, <1>3, CallForms DEF Sound
  <2> HIDE DEF activate
  <2>4. Quiet(<<activate>> \o Rest, we') /\ <<activate>> \o Rest # <<>>
    BY <1>2, <2>2, <2>3, StackPush, QuietPush
  <2> QED
    BY <1>2, <1>5, <2>1, <2>2, <2>4 DEF QuietInv
<1>6. CASE todo' = <<Do("fail"), Do("save")>> \o Rest /\ UNCHANGED <<we, obj>>
  <2>1. /\ Callable(Do("fail"), Len(runs)) /\ Callable(Do("save"), Len(runs))
        /\ Do("fail").op # "commit" /\ Do("save").op # "commit"
        /\ Sound(Do("fail"), we) /\ Sound(Do("save"), we)
    BY <1>2, CallForms DEF Do, Sound
  <2>2. Quiet(todo', we) /\ todo' # <<>>
    BY <1>2, <1>6, <2>1, StackPushTwo, QuietPushTwo
  <2> QED
    BY <1>2, <1>6, <2>2 DEF QuietInv
<1> QED
  BY <1>4, <1>5, <1>6 DEF FinishedStep, i, activated

LEMMA ActivateStepQuiet ==
  ASSUME TypeInv, QuietInv, ActivateStep
  PROVE  QuietInv'
<1>1. todo # <<>> /\ Top.op = "activate"
  BY DEF ActivateStep, Running
<1>2. /\ Stack(Rest, Len(runs)) /\ Rest # <<>> /\ Len(runs) \in Nat
      /\ obj.status \notin Over /\ Quiet(Rest, we)
  BY <1>1, Underway, QuietUnderway
<1>3. CASE Proceed(IF Top.failed THEN <<Do("fail"), Do("save")>> \o Rest ELSE Rest)
  <2>1. /\ Callable(Do("fail"), Len(runs)) /\ Callable(Do("save"), Len(runs))
        /\ Do("fail").op # "commit" /\ Do("save").op # "commit"
        /\ Sound(Do("fail"), we) /\ Sound(Do("save"), we)
    BY <1>2, CallForms DEF Do, Sound
  <2>2. /\ Quiet(<<Do("fail"), Do("save")>> \o Rest, we)
        /\ <<Do("fail"), Do("save")>> \o Rest # <<>>
    BY <1>2, <2>1, StackPushTwo, QuietPushTwo
  <2>3. CASE Top.failed
    BY <1>2, <1>3, <2>2, <2>3, ProceedQuiet
  <2>4. CASE ~Top.failed
    BY <1>2, <1>3, <2>4, ProceedQuiet
  <2> QED
    BY <2>3, <2>4
<1>4. ASSUME NEW t \in Top.transitions
      PROVE  LET n == Target[t]
                 next == [Top EXCEPT !.transitions = @ \ {t}]
                 rest == <<next>> \o Rest
                 raised == <<[next EXCEPT !.failed = TRUE]>> \o Rest
             IN Proceed(rest) \/ RetryNode(n, rest, raised) \/ StartNode(n, rest, raised)
                  => QuietInv'
  <2> DEFINE n == Target[t]
             next == [Top EXCEPT !.transitions = @ \ {t}]
             failing == [next EXCEPT !.failed = TRUE]
  <2>1. n \in Nodes
    BY <1>1, NextTransition
  <2>2. /\ Callable(next, Len(runs)) /\ next.op = "activate"
        /\ Callable(failing, Len(runs)) /\ failing.op = "activate"
    BY <1>1, NextTransition
  <2> HIDE DEF failing
  <2>3. /\ Stack(<<next>> \o Rest, Len(runs)) /\ <<next>> \o Rest # <<>>
        /\ Quiet(<<next>> \o Rest, we)
        /\ <<failing>> \o Rest # <<>> /\ Quiet(<<failing>> \o Rest, we)
    <3> HIDE DEF next
    <3> QED
      BY <1>2, <2>2, StackPush, QuietPush DEF Sound
  <2>4. Proceed(<<next>> \o Rest) => QuietInv'
    <3> HIDE DEF next
    <3> QED
      BY <1>2, <2>3, ProceedQuiet
  <2>5. RetryNode(n, <<next>> \o Rest, <<failing>> \o Rest) => QuietInv'
    <3> HIDE DEF next, n
    <3> QED
      BY <1>1, <1>2, <2>1, <2>3, RetryNodeQuiet
  <2>6. StartNode(n, <<next>> \o Rest, <<failing>> \o Rest) => QuietInv'
    <3> HIDE DEF next, n
    <3> QED
      BY <1>1, <1>2, <2>1, <2>3, StartNodeQuiet
  <2> QED
    BY <2>4, <2>5, <2>6 DEF failing
<1>5. CASE \E t \in Top.transitions :
             LET n == Target[t]
                 next == [Top EXCEPT !.transitions = @ \ {t}]
                 rest == <<next>> \o Rest
                 raised == <<[next EXCEPT !.failed = TRUE]>> \o Rest
             IN Proceed(rest) \/ RetryNode(n, rest, raised) \/ StartNode(n, rest, raised)
  BY <1>4, <1>5
<1> QED
  BY <1>3, <1>5 DEF ActivateStep

LEMMA ShortStepQuiet ==
  ASSUME TypeInv, QuietInv,
         CompleteStep \/ FailStep \/ SaveStep \/ ResumeStep \/ RefreshStep
  PROVE  QuietInv'
<1>1. todo # <<>> /\ Top.op # "commit" /\ todo' = Rest
  BY DEF CompleteStep, FailStep, SaveStep, ResumeStep, RefreshStep, Running
<1>2. /\ obj \in WorkflowExecution /\ obj.status \notin Over /\ Rest # <<>>
      /\ Sound(Top, we) /\ SoundStack(Rest, we) /\ (Top.op # "save" => Quiet(Rest, we))
  BY <1>1, Underway, QuietUnderway
<1>3. obj'.status \notin Over /\ Quiet(Rest, we')
  <2>1. CASE CompleteStep
    <3>1. obj'.status \notin Over /\ (we' = we \/ we'.status \notin Over)
      BY <1>2, <2>1, CheckIfCompleteQuiet DEF CompleteStep
    <3>2. Quiet(Rest, we)
      BY <1>2, <2>1 DEF CompleteStep, Running
    <3> QED
      BY <1>2, <3>1, <3>2, QuietRow
  <2>2. CASE FailStep
    BY <1>2, <2>2 DEF FailStep, Running, WorkflowExecution, Over
  <2>3. CASE SaveStep
    BY <1>2, <2>3, QuietRow DEF SaveStep
  <2>4. CASE ResumeStep
    BY <1>2, <2>4 DEF ResumeStep, Running, Sound
  <2>5. CASE RefreshStep
    BY <1>2, <2>5 DEF RefreshStep, Running, Sound
  <2> QED
    BY <2>1, <2>2, <2>3, <2>4, <2>5
<1> QED
  BY <1>1, <1>2, <1>3 DEF QuietInv

\* A transaction that ends has saved what it was to save.
LEMMA CommitStepQuiet ==
  ASSUME TypeInv, QuietInv, CommitStep
  PROVE  QuietInv'
<1>1. todo # <<>> /\ Top.op = "commit" /\ todo' = Rest /\ we' = we
  BY DEF CommitStep, Running
<1>2. Rest = <<>> /\ Calls(todo) = {Top}
  <2>1. Rest = <<>> /\ Calls(todo) = {Top} \cup Calls(Rest) /\ Len(runs) \in Nat
    BY <1>1, Underway
  <2>2. Calls(<<>>) = {}
    BY <2>1, StackCommit
  <2> QED
    BY <2>1, <2>2
<1>3. we.status \notin Over
  BY <1>1, <1>2 DEF QuietInv, Quiet
<1> QED
  BY <1>1, <1>2, <1>3 DEF QuietInv

LEMMA StepQuiet ==
  ASSUME TypeInv, QuietInv, Step
  PROVE  QuietInv'
BY StartStepQuiet, RetryStepQuiet, FinishedStepQuiet, ActivateStepQuiet, ShortStepQuiet,
   CommitStepQuiet DEF Step

\* A save that does not bring an execution back into progress.
LEMMA SaveRunQuiet ==
  ASSUME TypeInv, QuietInv, Idle, NEW i \in DOMAIN runs, NEW run,
         run.latest = runs[i].latest, InProgress(run.status) => InProgress(runs[i].status),
         SaveRun(i, run)
  PROVE  QuietInv'
<1>1. todo = <<>> /\ we' = we /\ runs' = [runs EXCEPT ![i] = run] /\ Len(runs) \in Nat
      /\ DOMAIN runs = 1 .. Len(runs)
  BY AtRest DEF SaveRun
<1>2. CASE /\ ContinuationAllowed(we)
           /\ obj' = we /\ todo' = <<Finished(i, FALSE), Do("commit")>>
  <2>1. we.status \notin Over
    BY <1>2 DEF ContinuationAllowed, Over
  <2>2. /\ Callable(Finished(i, FALSE), Len(runs)) /\ Finished(i, FALSE).op # "commit"
        /\ Sound(Finished(i, FALSE), we) /\ Sound(Do("commit"), we)
    BY <1>1, CallForms DEF Finished, Sound, Do
  <2>3. Calls(todo') = {Finished(i, FALSE), Do("commit")}
    BY <1>1, <1>2, <2>2, TransactionOfTwo
  <2>4. Quiet(todo', we)
    BY <2>1, <2>2, <2>3 DEF Quiet, SoundStack
  <2> QED
    BY <1>1, <1>2, <2>1, <2>4 DEF QuietInv
<1>3. CASE UNCHANGED todo
  <2>1. LatestInProgress' \subseteq LatestInProgress
    BY <1>1 DEF LatestInProgress
  <2> QED
    BY <1>1, <1>3, <2>1 DEF QuietInv
<1> QED
  BY <1>2, <1>3 DEF SaveRun, HandlesEnd

\* A stop leaves nothing in progress among the latest executions.
LEMMA StoppedAreOver ==
  ASSUME TypeInv, NEW detached \in BOOLEAN
  PROVE  LET rs == WithRunningStopped(detached)
         IN \A i \in DOMAIN rs : ~(rs[i].latest /\ InProgress(rs[i].status))
<1>1. runs \in Seq(Run) /\ DOMAIN runs = 1 .. Len(runs)
  BY DEF TypeInv, TypeOK
<1> DEFINE rs == WithRunningStopped(detached)
<1>2. DOMAIN rs = DOMAIN runs
  BY DEF WithRunningStopped
<1>3. ASSUME NEW i \in DOMAIN runs
      PROVE  ~(rs[i].latest /\ InProgress(rs[i].status))
  <2> DEFINE stopped == [runs[i] EXCEPT !.status = "STOPPING", !.detached = detached]
  <2>1. runs[i] \in Run
    BY <1>1, ElementOfSeq
  <2>2. stopped.status = "STOPPING"
    BY <2>1 DEF Run
  <2>3. rs[i] = IF runs[i].latest /\ InProgress(runs[i].status) THEN stopped ELSE runs[i]
    BY DEF WithRunningStopped
  <2> HIDE DEF stopped, rs
  <2> QED
    BY <2>2, <2>3 DEF InProgress, InProgressStatuses
<1> HIDE DEF rs
<1> QED
  BY <1>2, <1>3 DEF rs

LEMMA NoneInProgress ==
  ASSUME TypeInv, runs' = WithRunningStopped(TRUE) \/ runs' = WithRunningStopped(FALSE)
  PROVE  LatestInProgress' = {}
BY StoppedAreOver DEF LatestInProgress

\* An update brings nothing back into progress, unless clients may claim that an
\* execution has been started manually.
LEMMA ReportQuiet ==
  ASSUME TypeInv, QuietInv, NEW i \in DOMAIN runs,
         NEW request \in UpdateStatuses, request # "MANUALLY_STARTED", Report(i, request)
  PROVE  QuietInv'
<1> DEFINE run == runs[i]
           status == UpdatedStatus(run.status, request)
           finished == run.finished \/ SetsFinished(run.status, request)
           updated == [run EXCEPT !.status = status, !.finished = finished]
<1>1. Idle /\ run \in Run /\ ~UpdateConflicts(run.status, request)
  BY AtRest, ElementOfSeq DEF Report
<1>2. SaveRun(i, updated)
  BY DEF Report
<1>3. InProgress(status) => InProgress(run.status)
  BY <1>1 DEF UpdatedStatus, UpdateConflicts, AsHeartbeat, InProgress,
    InProgressStatuses, AwaitingUpdateStatuses
<1> HIDE DEF status, finished
<1>4. updated.status = status /\ updated.latest = run.latest
  BY <1>1 DEF Run
<1> HIDE DEF updated
<1> QED
  BY <1>1, <1>2, <1>3, <1>4, SaveRunQuiet

LEMMA CheckRunQuiet ==
  ASSUME TypeInv, QuietInv, NEW i \in DOMAIN runs, CheckRun(i)
  PROVE  QuietInv'
<1> DEFINE run == runs[i]
           finished == run.status # "MANUALLY_STARTED"
           abandoned == [run EXCEPT !.status = "ABANDONED", !.finished = finished]
           stopping == [run EXCEPT !.status = "STOPPING"]
<1>1. Idle /\ run \in Run
  BY AtRest, ElementOfSeq DEF CheckRun
<1>2. abandoned.latest = run.latest /\ ~InProgress(abandoned.status)
  BY <1>1 DEF Run, InProgress, InProgressStatuses
<1>3. stopping.latest = run.latest /\ ~InProgress(stopping.status)
  BY <1>1 DEF Run, InProgress, InProgressStatuses
<1>4. SaveRun(i, abandoned) \/ SaveRun(i, stopping)
  BY DEF CheckRun
<1> HIDE DEF abandoned, stopping
<1> QED
  BY <1>1, <1>2, <1>3, <1>4, SaveRunQuiet

LEMMA StopExecutionQuiet ==
  ASSUME TypeInv, QuietInv, StopExecution
  PROVE  QuietInv'
<1>1. todo = <<>> /\ todo' = <<>> /\ we \in WorkflowExecution
  BY AtRest DEF StopExecution, HandleStopRequested, Idle
<1>2. CASE we.status = "RUNNING"
  BY <1>1, <1>2, NoneInProgress DEF StopExecution, HandleStopRequested, QuietInv
<1>3. CASE we.status # "RUNNING"
  BY <1>1, <1>3 DEF StopExecution, HandleStopRequested, QuietInv, WorkflowExecution, Over
<1> QED
  BY <1>2, <1>3

\* A retry goes on until it has saved that the workflow execution runs.
LEMMA BeginRetryQuiet ==
  ASSUME TypeInv, QuietInv, Idle, NEW attempts, BeginRetry(attempts)
  PROVE  QuietInv'
<1> DEFINE c == [op |-> "retry", nodes |-> Roots]
<1>1. /\ we' = we
      /\ obj' = [status |-> "RUNNING", finished |-> FALSE, attempts |-> attempts]
      /\ todo' = <<c, Do("complete"), Do("save"), Do("commit")>>
  BY DEF BeginRetry
<1>2. /\ Callable(c, Len(runs)) /\ c.op # "commit"
      /\ Callable(Do("complete"), Len(runs)) /\ Do("complete").op # "commit"
      /\ Callable(Do("save"), Len(runs)) /\ Do("save").op # "commit"
  <2>1. Roots \in SUBSET Nodes
    BY DEF Roots
  <2> QED
    BY <2>1, AtRest, CallForms DEF Do
<1>3. c.op = "retry"
  OBVIOUS
<1> HIDE DEF c
<1>4. Calls(todo') = {c, Do("complete"), Do("save"), Do("commit")} /\ todo' # <<>>
  <2>1. Len(runs) \in Nat
    BY <1>1, AtRest
  <2> DEFINE d == Do("complete")
             e == Do("save")
  <2>2. /\ Callable(d, Len(runs)) /\ d.op # "commit"
        /\ Callable(e, Len(runs)) /\ e.op # "commit"
    BY <1>2
  <2>3. todo' = <<c, d, e, Do("commit")>>
    BY <1>1
  <2> HIDE DEF d, e
  <2>4. Calls(<<c, d, e, Do("commit")>>) = {c, d, e, Do("commit")}
    BY <1>2, <2>1, <2>2, TransactionOfFour
  <2>5. <<c, d, e, Do("commit")>> # <<>>
    OBVIOUS
  <2> QED
    BY <2>3, <2>4, <2>5 DEF d, e
<1>5. Quiet(todo', we')
  BY <1>3, <1>4 DEF Quiet, SoundStack, Sound, Do
<1>6. obj'.status \notin Over
  BY <1>1 DEF Over
<1> QED
  BY <1>4, <1>5, <1>6 DEF QuietInv

LEMMA ExpireQuiet ==
  ASSUME TypeInv, QuietInv, Expire
  PROVE  QuietInv'
<1>1. Idle /\ todo = <<>>
  BY AtRest DEF Expire
<1>2. CASE BeginRetry(OneMore(we.attempts))
  BY <1>1, <1>2, BeginRetryQuiet
<1>3. CASE runs' = WithRunningStopped(FALSE) /\ UNCHANGED todo
  BY <1>1, <1>3, NoneInProgress DEF QuietInv
<1> QED
  BY <1>2, <1>3 DEF Expire

LEMMA StartNodesQuiet ==
  ASSUME TypeInv, NEW S \in Selections, StartNodes(S)
  PROVE  QuietInv'
<1> DEFINE c == [op |-> "start", nodes |-> S]
<1>1. /\ Idle /\ we' = [we EXCEPT !.status = "RUNNING"] /\ obj' = we'
      /\ todo' = <<c, Do("refresh"), Do("complete"), Do("commit")>>
  BY DEF StartNodes
<1>2. /\ Callable(c, Len(runs)) /\ c.op # "commit"
      /\ Callable(Do("refresh"), Len(runs)) /\ Do("refresh").op # "commit"
      /\ Callable(Do("complete"), Len(runs)) /\ Do("complete").op # "commit"
  <2>1. S \in SUBSET Nodes
    BY NodesAssumption
  <2> QED
    BY <1>1, <2>1, AtRest, CallForms DEF Do
<1>3. c.op = "start"
  OBVIOUS
<1> HIDE DEF c
<1>4. /\ Calls(todo') = {c, Do("refresh"), Do("complete"), Do("commit")}
      /\ todo' # <<>>
  <2>1. Len(runs) \in Nat
    BY <1>1, AtRest
  <2> DEFINE d == Do("refresh")
             e == Do("complete")
  <2>2. /\ Callable(d, Len(runs)) /\ d.op # "commit"
        /\ Callable(e, Len(runs)) /\ e.op # "commit"
    BY <1>2
  <2>3. todo' = <<c, d, e, Do("commit")>>
    BY <1>1
  <2> HIDE DEF d, e
  <2>4. Calls(<<c, d, e, Do("commit")>>) = {c, d, e, Do("commit")}
    BY <1>2, <2>1, <2>2, TransactionOfFour
  <2>5. <<c, d, e, Do("commit")>> # <<>>
    OBVIOUS
  <2> QED
    BY <2>3, <2>4, <2>5 DEF d, e
<1>5. we'.status \notin Over
  BY <1>1, AtRest DEF WorkflowExecution, Over
<1>6. Quiet(todo', we')
  BY <1>3, <1>4, <1>5 DEF Quiet, SoundStack, Sound, Do
<1> QED
  BY <1>1, <1>4, <1>5, <1>6 DEF QuietInv

LEMMA InitQuiet == Init => QuietInv
<1> SUFFICES ASSUME Init PROVE QuietInv
  OBVIOUS
<1> DEFINE c == [op |-> "start", nodes |-> Roots]
<1>1. /\ we = [status |-> "RUNNING", finished |-> FALSE, attempts |-> 0] /\ obj = we
      /\ todo = <<c, Do("complete"), Do("commit")>>
  BY DEF Init
<1>2. /\ Callable(c, 0) /\ c.op # "commit"
      /\ Callable(Do("complete"), 0) /\ Do("complete").op # "commit"
  <2>1. Roots \in SUBSET Nodes
    BY DEF Roots
  <2> QED
    BY <2>1, CallForms DEF Do
<1>3. c.op = "start"
  OBVIOUS
<1> HIDE DEF c
<1>4. Calls(todo) = {c, Do("complete"), Do("commit")} /\ todo # <<>>
  BY <1>1, <1>2, TransactionOfThree
<1>5. we.status \notin Over
  BY <1>1 DEF Over
<1> QED
  BY <1>1, <1>3, <1>4, <1>5 DEF QuietInv, Quiet, SoundStack, Sound, Do

LEMMA NextQuiet ==
  ASSUME "MANUALLY_STARTED" \notin UpdateStatuses, TypeInv, QuietInv, [Next]_vars
  PROVE  QuietInv'
<1>1. CASE UNCHANGED vars
  BY <1>1 DEF vars, QuietInv, LatestInProgress, Quiet, SoundStack, Sound
<1>2. CASE Step
  BY <1>2, StepQuiet
<1>3. ASSUME NEW i \in DOMAIN runs, NEW request \in UpdateStatuses, Report(i, request)
      PROVE  QuietInv'
  BY <1>3, ReportQuiet
<1>4. ASSUME NEW i \in DOMAIN runs, CheckRun(i)
      PROVE  QuietInv'
  BY <1>4, CheckRunQuiet
<1>5. CASE StopExecution
  BY <1>5, StopExecutionQuiet
<1>6. CASE RetryExecution
  BY <1>6, BeginRetryQuiet DEF RetryExecution
<1>7. CASE Expire
  BY <1>7, ExpireQuiet
<1>8. ASSUME NEW S \in Selections, StartNodes(S)
      PROVE  QuietInv'
  BY <1>8, StartNodesQuiet
<1> QED
  BY <1>1, <1>2, <1>3, <1>4, <1>5, <1>6, <1>7, <1>8 DEF Next

\* Whatever is reported, stopped, retried and started by hand, in whatever graph: at
\* the end of every transaction, a workflow execution that was stopped or has timed
\* out has no Task Execution in progress (stop_running_task_executions, and what
\* may be saved after it).
THEOREM StoppedStaysQuiet ==
  ASSUME "MANUALLY_STARTED" \notin UpdateStatuses
  PROVE  Spec => []StoppedIsQuiet
<1> DEFINE Inv == TypeInv /\ QuietInv
<1>1. Init => Inv
  BY InitType, InitQuiet
<1>2. Inv /\ [Next]_vars => Inv'
  <2> SUFFICES ASSUME Inv, [Next]_vars PROVE Inv'
    OBVIOUS
  <2>1. TypeInv'
    BY NextType
  <2>2. QuietInv'
    BY NextQuiet
  <2> QED
    BY <2>1, <2>2
<1>3. Inv => StoppedIsQuiet
  BY DEF QuietInv, StoppedIsQuiet, Idle, Over
<1> HIDE DEF Inv
<1> QED
  BY <1>1, <1>2, <1>3, PTL DEF Spec

\* And it stays over: only a request to retry it or to start nodes begins a
\* transaction that may start anything; the report of an end is not handled.
THEOREM StoppedIsFinal == Spec => StoppedStartsNothing
<1> DEFINE Final ==
      we.status \in { "STOPPED", "TERMINATED_AFTER_TIME_OUT" } /\ restarts' = restarts
        /\ Idle => todo' = <<>>
<1>1. ASSUME TypeInv, [Next]_vars PROVE [Final]_vars
  <2> SUFFICES ASSUME we.status \in Over, restarts' = restarts, todo = <<>>, Next
               PROVE  todo' = <<>>
    BY <1>1 DEF Over, Idle
  <2>1. ~Step
    BY DEF Step, StartStep, RetryStep, FinishedStep, ActivateStep, CompleteStep, FailStep,
      SaveStep, ResumeStep, RefreshStep, CommitStep, Running
  <2>2. ~ContinuationAllowed(we) /\ ~InProgress(we.status)
    BY DEF ContinuationAllowed, Over, InProgress, InProgressStatuses
  <2>3. ASSUME NEW i, NEW run, SaveRun(i, run) PROVE todo' = <<>>
    BY <2>2, <2>3 DEF SaveRun, HandlesEnd
  <2>4. ~RetryExecution /\ ~\E S \in Selections : StartNodes(S)
    <3>1. restarts \in Nat
      BY <1>1, LimitsAssumption DEF TypeInv, TypeOK
    <3> QED
      BY <3>1 DEF RetryExecution, StartNodes
  <2>5. ~Expire
    BY <2>2 DEF Expire
  <2>6. CASE StopExecution
    BY <2>6 DEF StopExecution, HandleStopRequested
  <2>7. CASE \E i \in DOMAIN runs :
               (\E request \in UpdateStatuses : Report(i, request)) \/ CheckRun(i)
    BY <2>3, <2>7 DEF Report, CheckRun
  <2> QED
    BY <2>1, <2>4, <2>5, <2>6, <2>7 DEF Next
<1>2. TypeInv /\ [Next]_vars => [Final]_vars
  BY <1>1
<1> QED
  BY <1>2, InitType, NextType, PTL DEF Spec, StoppedStartsNothing

-----------------------------------------------------------------------------
(* A run of a node is the one that its transitions ask for.                *)

\* The platform refuses no start, no node is evaluated again after its first
\* execution, and users start none ahead of those that lead to it.
Plain ==
  /\ Refusable = {} /\ ReEvaluated = {}
  /\ \A S \in Selections : S \subseteq Roots

RunsOf(n) == { i \in DOMAIN runs : runs[i].node = n }

\* The nodes that have not run, or whose runs count no more.
Vacant == { n \in Nodes : LatestRuns(n) = {} }

\* Nothing that counts has failed, or was stopped.
Calm ==
  \A i \in DOMAIN runs :
    runs[i].latest => runs[i].status = "SUCCEEDED" \/ InProgress(runs[i].status)

\* All inbound transitions of a node have been activated by runs that count.
Supported(n) ==
  \A t \in Inbound(n) : \E e \in evaluations : e.transition = t /\ runs[e.run].latest

RunsInv ==
  /\ \A e \in evaluations : runs[e.run].node = Source[e.transition]
  /\ \A i \in DOMAIN runs :
       runs[i].latest /\ StartCondition[runs[i].node] = "all" => Supported(runs[i].node)
  /\ (\A n \in Nodes : StartCondition[n] = "all") => FollowersAreYounger

Loops == { "start", "retry" }
Retries(c) == c.op = "retry" \/ (c.op \in { "finished", "activate" } /\ c.retrying)

\* Loops are about roots; what is to be started does not run, and while a retry
\* goes on, what it has kept or started has not failed.
CallOK(c, vacant, calm) ==
  /\ c.op # "resume"
  /\ c.op \in Loops => c.nodes \subseteq Roots
  /\ c.op = "start" => c.nodes \subseteq vacant
  /\ Retries(c) => calm

OneLoop(s) == \A k, l \in 1 .. Len(s) : s[k].op \in Loops /\ s[l].op \in Loops => k = l

CallsOK(s, vacant, calm) == OneLoop(s) /\ \A c \in Calls(s) : CallOK(c, vacant, calm)

\* The attempts that the instance in memory has counted are in the row, or will be.
Kept(s, counted, stored) ==
  \/ counted <= stored
  \/ (\E c \in Calls(s) : c.op = "save") /\ (\A c \in Calls(s) : c.op # "refresh")

Attempts == IF todo = <<>> THEN we.attempts ELSE obj.attempts

\* Each restart lets a node run once more.
RunsCounted ==
  \A n \in Nodes :
    Cardinality(RunsOf(n)) <= restarts + Attempts + (IF n \in Vacant THEN 0 ELSE 1)

DueInv ==
  /\ RunsInv
  /\ RunsCounted
  /\ CallsOK(todo, Vacant, Calm)
  /\ todo # <<>> => Kept(todo, obj.attempts, we.attempts)

\* A call is put on the stack.
LEMMA LoopPush ==
  ASSUME NEW m \in Nat, NEW s, Stack(s, m), s # <<>>,
         NEW c, Callable(c, m), c.op # "commit",
         OneLoop(s), c.op \in Loops => \A d \in Calls(s) : d.op \notin Loops
  PROVE  OneLoop(<<c>> \o s)
<1> DEFINE p == <<c>> \o s
<1>1. s \in Seq(Call) /\ Len(s) \in Nat \ {0}
  BY EmptySeq DEF Stack
<1>2. <<c>> \in Seq(Call) /\ Len(<<c>>) = 1 /\ <<c>>[1] = c
  BY DEF Callable
<1>3. /\ Len(p) = Len(s) + 1
      /\ \A i \in 1 .. Len(s) + 1 : p[i] = IF i = 1 THEN c ELSE s[i - 1]
  BY <1>1, <1>2, ConcatProperties
<1> HIDE DEF p
<1>4. ASSUME NEW k \in 1 .. Len(p), NEW l \in 1 .. Len(p), p[k].op \in Loops, p[l].op \in Loops,
             k # l
      PROVE  FALSE
  <2>1. CASE k = 1
    <3>1. p[k] = c /\ p[l] = s[l - 1] /\ l - 1 \in 1 .. Len(s)
      BY <1>1, <1>3, <1>4, <2>1
    <3>2. p[l] \in Calls(s)
      BY <3>1 DEF Calls
    <3> QED  BY <1>4, <3>1, <3>2
  <2>2. CASE l = 1
    <3>1. p[l] = c /\ p[k] = s[k - 1] /\ k - 1 \in 1 .. Len(s)
      BY <1>1, <1>3, <1>4, <2>2
    <3>2. p[k] \in Calls(s)
      BY <3>1 DEF Calls
    <3> QED  BY <1>4, <3>1, <3>2
  <2>3. CASE k # 1 /\ l # 1
    <3>1. /\ p[l] = s[l - 1] /\ l - 1 \in 1 .. Len(s)
          /\ p[k] = s[k - 1] /\ k - 1 \in 1 .. Len(s) /\ k - 1 # l - 1
      BY <1>1, <1>3, <1>4, <2>3
    <3> QED  BY <1>4, <3>1 DEF OneLoop
  <2> QED  BY <2>1, <2>2, <2>3
<1> QED  BY <1>4 DEF OneLoop, p

LEMMA LoopPop ==
  ASSUME NEW m \in Nat, NEW s, Stack(s, m), s # <<>>, OneLoop(s)
  PROVE  /\ OneLoop(Tail(s))
         /\ Head(s).op \in Loops => \A d \in Calls(Tail(s)) : d.op \notin Loops
<1>1. s \in Seq(Call) /\ Len(s) \in Nat \ {0} /\ Head(s) = s[1]
  BY EmptySeq DEF Stack
<1>2. Len(Tail(s)) = Len(s) - 1 /\ \A i \in 1 .. Len(Tail(s)) : Tail(s)[i] = s[i + 1]
  BY <1>1, HeadTailProperties
<1>3. ASSUME NEW k \in 1 .. Len(Tail(s)), NEW l \in 1 .. Len(Tail(s)),
             Tail(s)[k].op \in Loops, Tail(s)[l].op \in Loops
      PROVE  k = l
  <2>1. k + 1 \in 1 .. Len(s) /\ l + 1 \in 1 .. Len(s)
        /\ Tail(s)[k] = s[k + 1] /\ Tail(s)[l] = s[l + 1]
    BY <1>1, <1>2
  <2>2. k + 1 = l + 1
    BY <1>3, <2>1 DEF OneLoop
  <2> QED  BY <2>2
<1>4. ASSUME Head(s).op \in Loops, NEW k \in 1 .. Len(Tail(s)), Tail(s)[k].op \in Loops
      PROVE  FALSE
  <2>1. k + 1 \in 1 .. Len(s) /\ 1 \in 1 .. Len(s) /\ Tail(s)[k] = s[k + 1] /\ k + 1 # 1
    BY <1>1, <1>2
  <2> QED  BY <1>1, <1>4, <2>1 DEF OneLoop
<1> QED  BY <1>3, <1>4 DEF OneLoop, Calls

LEMMA CallsPush ==
  ASSUME NEW m \in Nat, NEW s, Stack(s, m), s # <<>>,
         NEW c, Callable(c, m), c.op # "commit",
         NEW v, NEW calm, CallsOK(s, v, calm), CallOK(c, v, calm),
         c.op \in Loops => \A d \in Calls(s) : d.op \notin Loops
  PROVE  /\ CallsOK(<<c>> \o s, v, calm)
         /\ <<c>> \o s # <<>> /\ Stack(<<c>> \o s, m)
         /\ c.op # "refresh" => \A a, b : Kept(s, a, b) => Kept(<<c>> \o s, a, b)
         /\ c.op \notin Loops /\ (\A d \in Calls(s) : d.op \notin Loops)
              => \A d \in Calls(<<c>> \o s) : d.op \notin Loops
<1>1. Calls(<<c>> \o s) = {c} \cup Calls(s) /\ <<c>> \o s # <<>> /\ Stack(<<c>> \o s, m)
  BY StackPush
<1>2. OneLoop(<<c>> \o s)
  BY LoopPush DEF CallsOK
<1>3. CallsOK(<<c>> \o s, v, calm)
  BY <1>1, <1>2 DEF CallsOK
<1>4. c.op # "refresh" => \A a, b : Kept(s, a, b) => Kept(<<c>> \o s, a, b)
  BY <1>1 DEF Kept
<1> QED  BY <1>1, <1>3, <1>4

\* The end of a transaction is a good stack of its own.
LEMMA CallsCommit ==
  ASSUME NEW m \in Nat, NEW v, NEW calm
  PROVE  /\ CallsOK(<<Do("commit")>>, v, calm) /\ CallsOK(<<>>, v, calm)
         /\ Stack(<<Do("commit")>>, m) /\ <<Do("commit")>> # <<>>
         /\ \A d \in Calls(<<Do("commit")>>) : d.op \notin Loops
<1>1. /\ Stack(<<Do("commit")>>, m) /\ <<Do("commit")>> # <<>>
      /\ Calls(<<Do("commit")>>) = {Do("commit")} /\ Calls(<<>>) = {}
  BY StackCommit
<1>2. Do("commit").op = "commit"
  BY DEF Do
<1>3. OneLoop(<<Do("commit")>>) /\ OneLoop(<<>>)
  BY <1>2 DEF OneLoop
<1> QED  BY <1>1, <1>2, <1>3 DEF CallsOK, CallOK, Loops, Retries

\* The stack below the innermost call.
LEMMA CallsUnderway ==
  ASSUME TypeInv, DueInv, todo # <<>>
  PROVE  /\ CallOK(Top, Vacant, Calm) /\ CallsOK(Rest, Vacant, Calm)
         /\ Top.op \in Loops => \A d \in Calls(Rest) : d.op \notin Loops
         /\ Top.op \notin { "save", "refresh" } => Kept(Rest, obj.attempts, we.attempts)
         /\ Top.op = "refresh" => obj.attempts <= we.attempts
<1>1. Calls(todo) = {Top} \cup Calls(Rest) /\ Stack(todo, Len(runs)) /\ Len(runs) \in Nat
  BY Underway DEF TypeInv
<1>2. OneLoop(todo) /\ \A c \in Calls(todo) : CallOK(c, Vacant, Calm)
  BY DEF DueInv, CallsOK
<1>3. OneLoop(Rest) /\ (Top.op \in Loops => \A d \in Calls(Rest) : d.op \notin Loops)
  BY <1>1, <1>2, LoopPop DEF Top, Rest
<1>4. Kept(todo, obj.attempts, we.attempts)
  BY DEF DueInv
<1> QED  BY <1>1, <1>2, <1>3, <1>4 DEF CallsOK, Kept

\* A stack stays good while its loops have nodes to start and nothing fails.
LEMMA CallsStay ==
  ASSUME NEW s, NEW v, NEW w, NEW calm, NEW still, CallsOK(s, v, calm), calm => still,
         \A c \in Calls(s) : c.op = "start" => c.nodes \subseteq w
  PROVE  CallsOK(s, w, still)
  BY DEF CallsOK, CallOK

\* The nodes and what counts of them do not change, and what is evaluated was
\* started for the node that the transition leaves.
LEMMA RunsKeep ==
  ASSUME TypeInv, RunsInv, DOMAIN runs' = DOMAIN runs,
         \A i \in DOMAIN runs :
           runs'[i].node = runs[i].node /\ (runs'[i].latest <=> runs[i].latest),
         evaluations \subseteq evaluations',
         \A e \in evaluations' : e \in evaluations
           \/ (e.run \in DOMAIN runs /\ runs[e.run].node = Source[e.transition])
  PROVE  /\ RunsInv' /\ Vacant' = Vacant
         /\ \A n \in Nodes : RunsOf(n)' = RunsOf(n)
<1>1. \A e \in evaluations : e.run \in DOMAIN runs
  BY DEF TypeInv, TypeOK
<1>2. \A n : LatestRuns(n)' = LatestRuns(n)
  BY DEF LatestRuns
<1>3. Vacant' = Vacant /\ \A n \in Nodes : RunsOf(n)' = RunsOf(n)
  BY <1>2 DEF Vacant, RunsOf
<1>4. \A e \in evaluations' : runs'[e.run].node = Source[e.transition]
  BY <1>1 DEF RunsInv
<1>5. ASSUME NEW i \in DOMAIN runs', runs'[i].latest, StartCondition[runs'[i].node] = "all"
      PROVE  \A t \in Inbound(runs'[i].node) :
               \E e \in evaluations' : e.transition = t /\ runs'[e.run].latest
  <2>1. Supported(runs[i].node) /\ runs'[i].node = runs[i].node
    BY <1>5 DEF RunsInv
  <2>2. ASSUME NEW t \in Inbound(runs[i].node)
        PROVE  \E e \in evaluations' : e.transition = t /\ runs'[e.run].latest
    BY <1>1, <2>1, <2>2 DEF Supported
  <2> QED  BY <2>1, <2>2
<1>6. (\A n \in Nodes : StartCondition[n] = "all") => FollowersAreYounger'
  BY <1>2 DEF RunsInv, FollowersAreYounger
<1> QED  BY <1>3, <1>4, <1>5, <1>6 DEF RunsInv, Supported

\* Of the nodes that count, those that lead to one that still does do so as well.
LEMMA ReachableClosed ==
  ASSUME NEW S \in SUBSET Nodes
  PROVE  /\ S \subseteq Reachable(S)
         /\ \A t \in Transitions : Source[t] \in Reachable(S) => Target[t] \in Reachable(S)
BY GraphAssumption DEF Reachable

LEMMA RunsInvalidated ==
  ASSUME TypeInv, RunsInv, NEW S \in SUBSET Nodes, DOMAIN runs' = DOMAIN runs,
         \A i \in DOMAIN runs :
           /\ runs'[i].node = runs[i].node
           /\ runs'[i].latest <=> runs[i].latest /\ runs[i].node \notin Reachable(S),
         evaluations' = evaluations
  PROVE  /\ RunsInv' /\ S \subseteq Vacant' /\ Vacant \subseteq Vacant'
         /\ \A n \in Nodes : RunsOf(n)' = RunsOf(n)
<1>1. \A e \in evaluations : e.run \in DOMAIN runs /\ e.transition \in Transitions
  BY DEF TypeInv, TypeOK, Evaluation
<1>2. \A n : LatestRuns(n)' \subseteq LatestRuns(n)
  BY DEF LatestRuns
<1>3. Vacant \subseteq Vacant' /\ \A n \in Nodes : RunsOf(n)' = RunsOf(n)
  BY <1>2 DEF Vacant, RunsOf
<1>4. S \subseteq Vacant'
  BY ReachableClosed DEF Vacant, LatestRuns
<1>5. \A e \in evaluations' : runs'[e.run].node = Source[e.transition]
  BY <1>1 DEF RunsInv
<1>6. ASSUME NEW i \in DOMAIN runs', runs'[i].latest, StartCondition[runs'[i].node] = "all"
      PROVE  \A t \in Inbound(runs'[i].node) :
               \E e \in evaluations' : e.transition = t /\ runs'[e.run].latest
  <2> DEFINE n == runs[i].node
  <2>1. Supported(n) /\ runs'[i].node = n /\ n \notin Reachable(S)
    BY <1>6 DEF RunsInv
  <2>2. ASSUME NEW t \in Inbound(n)
        PROVE  \E e \in evaluations' : e.transition = t /\ runs'[e.run].latest
    <3>1. PICK e \in evaluations : e.transition = t /\ runs[e.run].latest
      BY <2>1 DEF Supported
    <3>2. runs[e.run].node = Source[t] /\ t \in Transitions /\ Target[t] = n
      BY <3>1 DEF RunsInv, Inbound
    <3>3. Source[t] \notin Reachable(S)
      BY <2>1, <3>2, ReachableClosed
    <3> QED  BY <1>1, <3>1, <3>2, <3>3
  <2> QED  BY <2>1, <2>2
<1>7. (\A n \in Nodes : StartCondition[n] = "all") => FollowersAreYounger'
  BY <1>2 DEF RunsInv, FollowersAreYounger
<1> QED  BY <1>3, <1>4, <1>5, <1>6, <1>7 DEF RunsInv, Supported

LEMMA RunsFinite ==
  ASSUME TypeInv, NEW n
  PROVE  /\ IsFiniteSet(RunsOf(n)) /\ Cardinality(RunsOf(n)) \in Nat
         /\ IsFiniteSet(LatestRuns(n)) /\ LatestRuns(n) \subseteq RunsOf(n)
         /\ Len(runs) + 1 \notin RunsOf(n)
<1>1. Len(runs) \in Nat /\ DOMAIN runs = 1 .. Len(runs)
  BY DEF TypeInv, TypeOK
<1>5. IsFiniteSet(1 .. Len(runs))
  BY <1>1, FS_Interval
<1>2. RunsOf(n) \subseteq 1 .. Len(runs) /\ LatestRuns(n) \subseteq 1 .. Len(runs)
  BY <1>1 DEF RunsOf, LatestRuns
<1>3. IsFiniteSet(RunsOf(n)) /\ IsFiniteSet(LatestRuns(n))
  BY <1>5, <1>2, FS_Subset
<1>4. Len(runs) + 1 \notin RunsOf(n)
  BY <1>1, <1>2
<1> QED  BY <1>3, <1>4, FS_CardinalityType DEF RunsOf, LatestRuns

LEMMA Budget ==
  ASSUME NEW c \in Nat, NEW r \in Nat, NEW a \in Nat, NEW q \in Nat, NEW b \in Nat,
         NEW vacant \in BOOLEAN, NEW still \in BOOLEAN,
         c <= r + a + (IF vacant THEN 0 ELSE 1),
         (still = vacant /\ r + a <= q + b) \/ r + a + 1 <= q + b
  PROVE  c <= q + b + (IF still THEN 0 ELSE 1)
OBVIOUS

\* What the counters of restarts and attempts allow, when nothing is started.
LEMMA CountKeeps ==
  ASSUME TypeInv, TypeInv', RunsCounted, \A n \in Nodes : RunsOf(n)' = RunsOf(n),
         \/ Vacant' = Vacant /\ restarts + Attempts <= restarts' + Attempts'
         \/ restarts + Attempts + 1 <= restarts' + Attempts'
  PROVE  RunsCounted'
<1>1. restarts \in Nat /\ restarts' \in Nat
  BY LimitsAssumption DEF TypeInv, TypeOK
<1>2. Attempts \in Nat /\ Attempts' \in Nat
  BY LimitsAssumption DEF TypeInv, TypeOK, Attempts, Idle, WorkflowExecution
<1>3. ASSUME NEW n \in Nodes
      PROVE  Cardinality(RunsOf(n)')
               <= restarts' + Attempts' + (IF n \in Vacant' THEN 0 ELSE 1)
  <2>1. Cardinality(RunsOf(n)) <= restarts + Attempts + (IF n \in Vacant THEN 0 ELSE 1)
    BY DEF RunsCounted
  <2>2. Cardinality(RunsOf(n)) \in Nat /\ RunsOf(n)' = RunsOf(n)
    BY RunsFinite
  <2>3. \/ (n \in Vacant') = (n \in Vacant) /\ restarts + Attempts <= restarts' + Attempts'
        \/ restarts + Attempts + 1 <= restarts' + Attempts'
    OBVIOUS
  <2>4. Cardinality(RunsOf(n))
          <= restarts' + Attempts' + (IF n \in Vacant' THEN 0 ELSE 1)
    BY <1>1, <1>2, <2>1, <2>2, <2>3, Budget
  <2> QED  BY <2>2, <2>4
<1> QED  BY <1>3 DEF RunsCounted

\* A step of a transaction that starts nothing.
LEMMA GoOn ==
  ASSUME TypeInv, TypeInv', DueInv, todo # <<>>, todo' # <<>>,
         UNCHANGED <<runs, restarts>>, evaluations \subseteq evaluations',
         \A e \in evaluations' : e \in evaluations
           \/ (e.run \in DOMAIN runs /\ runs[e.run].node = Source[e.transition]),
         obj.attempts <= obj'.attempts,
         CallsOK(todo', Vacant, Calm), Kept(todo', obj'.attempts, we'.attempts)
  PROVE  DueInv'
<1>1. /\ RunsInv' /\ Vacant' = Vacant
      /\ \A n \in Nodes : RunsOf(n)' = RunsOf(n)
  BY RunsKeep DEF DueInv
<1>2. Calm' <=> Calm
  BY DEF Calm
<1>3. Attempts = obj.attempts /\ Attempts' = obj'.attempts
  BY DEF Attempts
<1>4. /\ restarts \in Nat /\ obj.attempts \in Nat /\ obj'.attempts \in Nat
  BY LimitsAssumption DEF TypeInv, TypeOK, Idle, WorkflowExecution
<1>5. RunsCounted'
  BY <1>1, <1>3, <1>4, CountKeeps DEF DueInv
<1>6. CallsOK(todo', Vacant', Calm')
  BY <1>1, <1>2, CallsStay DEF CallsOK, CallOK
<1> QED  BY <1>1, <1>5, <1>6 DEF DueInv

LEMMA ProceedDue ==
  ASSUME TypeInv, TypeInv', DueInv, todo # <<>>, NEW rest, rest # <<>>, Proceed(rest),
         CallsOK(rest, Vacant, Calm), Kept(rest, obj.attempts, we.attempts)
  PROVE  DueInv'
<1>1. obj.attempts \in Nat
  BY LimitsAssumption DEF TypeInv, TypeOK, Idle, WorkflowExecution
<1>2. todo' = rest /\ UNCHANGED <<we, runs, evaluations, obj, restarts>>
  BY DEF Proceed
<1>3. /\ obj.attempts <= obj'.attempts /\ evaluations \subseteq evaluations'
      /\ \A e \in evaluations' : e \in evaluations
           \/ (e.run \in DOMAIN runs /\ runs[e.run].node = Source[e.transition])
  BY <1>1, <1>2
<1>4. CallsOK(todo', Vacant, Calm) /\ Kept(todo', obj'.attempts, we'.attempts) /\ todo' # <<>>
  BY <1>2
<1>5. UNCHANGED <<runs, restarts>>
  BY <1>2
<1> QED  BY <1>3, <1>4, <1>5, GoOn

\* A node starts that does not run, or no longer.
LEMMA RunAdded ==
  ASSUME TypeInv, RunsInv, NEW n \in Vacant, NEW run \in Run, run.node = n,
         StartCondition[n] = "all" => Supported(n),
         runs' = WithRun(run), evaluations' = evaluations
  PROVE  /\ RunsInv' /\ Vacant' \in SUBSET Nodes /\ Vacant \ {n} \subseteq Vacant'
         /\ \A o \in Nodes \ {n} : (o \in Vacant') = (o \in Vacant)
         /\ \A o \in Nodes \ {n} : RunsOf(o)' = RunsOf(o)
         /\ RunsOf(n)' = RunsOf(n) \cup {Len(runs) + 1}
         /\ run.latest => n \notin Vacant'
         /\ (Calm /\ (run.status = "SUCCEEDED" \/ InProgress(run.status))) => Calm'
<1> DEFINE m == Len(runs) + 1
           rs == [ i \in DOMAIN runs |->
                     [runs[i] EXCEPT !.latest = @ /\ runs[i].node # run.node] ]
<1>1. runs \in Seq(Run) /\ Len(runs) \in Nat /\ DOMAIN runs = 1 .. Len(runs)
  BY DEF TypeInv, TypeOK
<1>2. \A i \in DOMAIN runs : runs[i] \in Run
  BY <1>1, ElementOfSeq
<1>3. rs \in Seq(Run) /\ Len(rs) = Len(runs) /\ runs' = Append(rs, run)
  <2>1. ASSUME NEW i \in DOMAIN runs
        PROVE  [runs[i] EXCEPT !.latest = @ /\ runs[i].node # run.node] \in Run
    <3> DEFINE b == runs[i].latest /\ runs[i].node # run.node
    <3>1. b \in BOOLEAN
      OBVIOUS
    <3> HIDE DEF b
    <3>2. [runs[i] EXCEPT !.latest = b] \in Run
      BY <1>2, <3>1, RunUpdates
    <3> QED  BY <3>2 DEF b
  <2>2. rs \in [1 .. Len(runs) -> Run]
    BY <1>1, <2>1
  <2> QED  BY <1>1, <2>2, RunsMapped DEF WithRun
<1>4. /\ DOMAIN runs' = 1 .. m /\ runs'[m] = run
      /\ \A i \in DOMAIN runs : runs'[i] = rs[i]
  <2> HIDE DEF rs
  <2> QED  BY <1>1, <1>3, AppendProperties
<1>5. ASSUME NEW i \in DOMAIN runs
      PROVE  /\ runs'[i].node = runs[i].node /\ runs'[i].status = runs[i].status
             /\ runs'[i].latest <=> runs[i].latest
  <2>1. rs[i] = [runs[i] EXCEPT !.latest = runs[i].latest /\ runs[i].node # n]
    OBVIOUS
  <2>2. runs[i].latest => runs[i].node # n
    BY DEF Vacant, LatestRuns
  <2>3. /\ rs[i].node = runs[i].node /\ rs[i].status = runs[i].status
        /\ rs[i].latest = (runs[i].latest /\ runs[i].node # n)
    <3> DEFINE b == runs[i].latest /\ runs[i].node # n
    <3> HIDE DEF b
    <3>1. rs[i] = [runs[i] EXCEPT !.latest = b]
      BY <2>1 DEF b
    <3>2. rs[i].node = runs[i].node /\ rs[i].status = runs[i].status /\ rs[i].latest = b
      BY <1>2, <3>1 DEF Run
    <3> QED  BY <3>2 DEF b
  <2> QED  BY <1>4, <2>2, <2>3
<1> HIDE DEF rs
<1>6. m \notin DOMAIN runs /\ DOMAIN runs' = DOMAIN runs \cup {m}
  BY <1>1, <1>4
<1>7. \A e \in evaluations : e.run \in DOMAIN runs /\ e.transition \in Transitions
  BY DEF TypeInv, TypeOK, Evaluation
<1>8. n \in Nodes /\ LatestRuns(n) = {}
  BY DEF Vacant
<1> HIDE DEF m
<1>9. \A o \in Nodes \ {n} : LatestRuns(o)' = LatestRuns(o) /\ RunsOf(o)' = RunsOf(o)
  <2>1. ASSUME NEW o \in Nodes \ {n}, NEW i
        PROVE  /\ (i \in LatestRuns(o)') <=> (i \in LatestRuns(o))
               /\ (i \in RunsOf(o)') <=> (i \in RunsOf(o))
    <3>1. CASE i \in DOMAIN runs
      BY <1>5, <1>6, <3>1 DEF LatestRuns, RunsOf
    <3>2. CASE i = m
      BY <1>4, <1>6, <3>2 DEF LatestRuns, RunsOf
    <3>3. CASE i \notin DOMAIN runs'
      BY <1>6, <3>3 DEF LatestRuns, RunsOf
    <3> QED  BY <1>6, <3>1, <3>2, <3>3
  <2> QED  BY <2>1
<1>10. RunsOf(n)' = RunsOf(n) \cup {m} /\ LatestRuns(n)' \subseteq {m}
       /\ (run.latest => m \in LatestRuns(n)')
  <2>1. ASSUME NEW i \in DOMAIN runs
        PROVE  ((i \in RunsOf(n)') <=> (i \in RunsOf(n))) /\ i \notin LatestRuns(n)'
    BY <1>5, <1>6, <1>8 DEF LatestRuns, RunsOf
  <2>2. m \in RunsOf(n)' /\ (run.latest => m \in LatestRuns(n)')
    BY <1>4, <1>6 DEF LatestRuns, RunsOf
  <2>3. /\ RunsOf(n) \subseteq DOMAIN runs /\ RunsOf(n)' \subseteq DOMAIN runs'
        /\ LatestRuns(n)' \subseteq DOMAIN runs'
    BY DEF LatestRuns, RunsOf
  <2> QED  BY <1>6, <2>1, <2>2, <2>3
<1>11. \A e \in evaluations' : runs'[e.run].node = Source[e.transition]
  BY <1>5, <1>7 DEF RunsInv
<1>12. ASSUME NEW o \in Nodes, Supported(o)
       PROVE  \A t \in Inbound(o) : \E e \in evaluations' : e.transition = t /\ runs'[e.run].latest
  BY <1>5, <1>7, <1>12 DEF Supported
<1>13. ASSUME NEW i \in DOMAIN runs', runs'[i].latest, StartCondition[runs'[i].node] = "all"
       PROVE  /\ Supported(runs'[i].node) /\ runs'[i].node \in Nodes
  <2>1. CASE i = m
    BY <1>4, <1>8, <1>13, <2>1
  <2>2. CASE i \in DOMAIN runs
    BY <1>2, <1>5, <1>13, <2>2 DEF RunsInv, Run
  <2> QED  BY <1>6, <2>1, <2>2
<1>14. ASSUME \A o \in Nodes : StartCondition[o] = "all", NEW t \in Transitions,
              NEW i \in LatestRuns(Source[t])', NEW j \in LatestRuns(Target[t])'
       PROVE  i < j
  <2>1. ASSUME NEW o \in Nodes, Supported(o), t \in Inbound(o)
        PROVE  Source[t] # n
    <3>1. PICK e \in evaluations : e.transition = t /\ runs[e.run].latest
      BY <2>1 DEF Supported
    <3>2. e.run \in LatestRuns(Source[t])
      BY <1>7, <3>1 DEF RunsInv, LatestRuns
    <3> QED  BY <1>8, <3>2
  <2>2. Source[t] \in Nodes /\ Target[t] \in Nodes /\ t \in Inbound(Target[t])
    BY GraphAssumption DEF Inbound
  <2>3. Supported(Target[t])
    <3>1. CASE Target[t] = n
      BY <1>8, <1>14, <3>1
    <3>2. CASE Target[t] # n
      <4>1. j \in LatestRuns(Target[t])
        BY <1>9, <1>14, <2>2, <3>2
      <4> QED  BY <1>14, <2>2, <4>1 DEF RunsInv, LatestRuns
    <3> QED  BY <3>1, <3>2
  <2>4. Source[t] # n /\ i \in LatestRuns(Source[t])
    BY <1>9, <1>14, <2>1, <2>2, <2>3
  <2>5. CASE Target[t] = n
    BY <1>1, <1>10, <1>14, <2>4, <2>5 DEF m, LatestRuns
  <2>6. CASE Target[t] # n
    <3>1. j \in LatestRuns(Target[t])
      BY <1>9, <1>14, <2>2, <2>6
    <3> QED  BY <1>14, <2>4, <3>1 DEF RunsInv, FollowersAreYounger
  <2> QED  BY <2>5, <2>6
<1>15. (\A o \in Nodes : StartCondition[o] = "all") => FollowersAreYounger'
  BY <1>14 DEF FollowersAreYounger
<1>16. RunsInv'
  <2>1. \A o \in Nodes : Supported(o) => Supported(o)'
    BY <1>12 DEF Supported
  <2>2. (\A i \in DOMAIN runs : runs[i].latest /\ StartCondition[runs[i].node] = "all"
           => Supported(runs[i].node))'
    BY <1>13, <2>1 DEF Supported
  <2>3. (\A e \in evaluations : runs[e.run].node = Source[e.transition])'
    BY <1>11
  <2> QED  BY <1>15, <2>2, <2>3 DEF RunsInv
<1>17. Calm /\ (run.status = "SUCCEEDED" \/ InProgress(run.status)) => Calm'
  BY <1>4, <1>5, <1>6 DEF Calm
<1> QED  BY <1>8, <1>9, <1>10, <1>16, <1>17 DEF Vacant, m

\* One more run is within the limit of a node that does not run.
LEMMA StartNodeDue ==
  ASSUME Plain, TypeInv, TypeInv', DueInv, todo # <<>>, NEW n \in Vacant,
         StartCondition[n] = "all" => Supported(n),
         NEW rest, rest # <<>>, NEW raised, raised # <<>>, StartNode(n, rest, raised),
         CallsOK(rest, Vacant \ {n}, Calm), Kept(rest, obj.attempts, we.attempts),
         CallsOK(raised, Vacant \ {n}, Calm), Kept(raised, obj.attempts, we.attempts)
  PROVE  DueInv'
<1> DEFINE run == NewRun(n, "MANUALLY_STARTED")
<1>1. n \in Nodes
  BY DEF Vacant
<1>2. run \in Run /\ run.node = n /\ run.latest /\ InProgress(run.status)
  BY <1>1 DEF NewRun, Run, Status, InProgress, InProgressStatuses
<1>3. /\ runs' = WithRun(run) /\ UNCHANGED <<we, obj, evaluations, restarts>>
      /\ todo' = rest \/ todo' = raised
  BY DEF StartNode, StartAccepted, StartRefused, StartRaises, Plain
<1> HIDE DEF run
<1>4. /\ RunsInv' /\ Vacant' \in SUBSET Nodes /\ Vacant \ {n} \subseteq Vacant'
      /\ n \notin Vacant' /\ (Calm => Calm')
      /\ \A o \in Nodes \ {n} : (o \in Vacant') = (o \in Vacant)
      /\ \A o \in Nodes \ {n} : RunsOf(o)' = RunsOf(o)
      /\ RunsOf(n)' = RunsOf(n) \cup {Len(runs) + 1}
  BY <1>2, <1>3, RunAdded DEF DueInv
<1>5. CallsOK(todo', Vacant', Calm')
  <2>1. CallsOK(todo', Vacant \ {n}, Calm)
    BY <1>3
  <2>2. \A c \in Calls(todo') : c.op = "start" => c.nodes \subseteq Vacant'
    BY <1>4, <2>1 DEF CallsOK, CallOK
  <2> QED  BY <1>4, <2>1, <2>2, CallsStay
<1>6. todo' # <<>> /\ Kept(todo', obj'.attempts, we'.attempts)
  BY <1>3
<1>7. RunsCounted'
  <2>1. Attempts = obj.attempts /\ Attempts' = obj.attempts /\ restarts' = restarts
    BY <1>3, <1>6 DEF Attempts
  <2>2. restarts \in Nat /\ obj.attempts \in Nat
    BY LimitsAssumption DEF TypeInv, TypeOK, Idle, WorkflowExecution
  <2>3. ASSUME NEW o \in Nodes
        PROVE  Cardinality(RunsOf(o)')
                 <= restarts' + Attempts' + (IF o \in Vacant' THEN 0 ELSE 1)
    <3>1. Cardinality(RunsOf(o)) <= restarts + obj.attempts + (IF o \in Vacant THEN 0 ELSE 1)
      BY <2>1 DEF DueInv, RunsCounted
    <3>2. CASE o # n
      BY <1>4, <2>1, <3>1, <3>2
    <3>3. CASE o = n
      <4>1. /\ IsFiniteSet(RunsOf(n)) /\ Cardinality(RunsOf(n)) \in Nat
            /\ Len(runs) + 1 \notin RunsOf(n)
        BY RunsFinite
      <4>2. Cardinality(RunsOf(n) \cup {Len(runs) + 1}) = Cardinality(RunsOf(n)) + 1
        BY <4>1, FS_AddElement
      <4>3. Cardinality(RunsOf(n)) <= restarts + obj.attempts
        BY <2>2, <3>1, <3>3
      <4>4. Cardinality(RunsOf(n)) + 1 <= restarts + obj.attempts + 1
        BY <2>2, <4>1, <4>3
      <4> QED  BY <1>4, <2>1, <3>3, <4>2, <4>4
    <3> QED  BY <3>2, <3>3
  <2> QED  BY <2>3 DEF RunsCounted
<1> QED  BY <1>4, <1>5, <1>6, <1>7 DEF DueInv

\* A retry starts only what does not run: what counts has succeeded or goes on.
LEMMA RetryNodeDue ==
  ASSUME Plain, TypeInv, TypeInv', DueInv, todo # <<>>, Calm, NEW n \in Nodes,
         StartCondition[n] = "all" => Supported(n),
         NEW rest, Stack(rest, Len(runs)), rest # <<>>, NEW raised, raised # <<>>,
         RetryNode(n, rest, raised),
         CallsOK(rest, Vacant, Calm), CallsOK(rest, Vacant \ {n}, Calm),
         Kept(rest, obj.attempts, we.attempts),
         CallsOK(raised, Vacant \ {n}, Calm), Kept(raised, obj.attempts, we.attempts)
  PROVE  DueInv'
<1> DEFINE i == Youngest(LatestRuns(n))
<1>1. /\ Len(runs) \in Nat /\ DOMAIN runs = 1 .. Len(runs)
      /\ LatestRuns(n) \in SUBSET (1 .. Len(runs))
  BY DEF TypeInv, TypeOK, LatestRuns
<1>2. LatestRuns(n) # {} => i \in LatestRuns(n) /\ i \in 1 .. Len(runs)
  BY <1>1, YoungestExists
<1>3. RetryNode(n, rest, raised) =>
        \/ /\ LatestRuns(n) # {} => ~InProgress(runs[i].status) /\ runs[i].status # "SUCCEEDED"
           /\ StartNode(n, rest, raised)
        \/ Proceed(rest)
        \/ LatestRuns(n) # {} /\ Proceed(<<Finished(i, TRUE)>> \o rest)
  BY DEF RetryNode
<1> HIDE DEF i
<1>4. ASSUME LatestRuns(n) # {} => ~InProgress(runs[i].status) /\ runs[i].status # "SUCCEEDED",
             StartNode(n, rest, raised)
      PROVE  DueInv'
  <2>1. LatestRuns(n) = {}
    BY <1>2, <1>4 DEF Calm, LatestRuns
  <2>2. n \in Vacant
    BY <2>1 DEF Vacant
  <2> QED  BY <1>4, <2>2, StartNodeDue
<1>5. CASE Proceed(rest)
  BY <1>5, ProceedDue
<1>6. CASE LatestRuns(n) # {} /\ Proceed(<<Finished(i, TRUE)>> \o rest)
  <2> DEFINE c == Finished(i, TRUE)
  <2>1. /\ Callable(c, Len(runs)) /\ c.op \notin Loops /\ c.op # "commit" /\ c.op # "refresh"
        /\ CallOK(c, Vacant, Calm)
    BY <1>1, <1>2, <1>6, CallForms DEF Finished, CallOK, Loops, Retries
  <2> HIDE DEF c
  <2>2. /\ CallsOK(<<c>> \o rest, Vacant, Calm) /\ <<c>> \o rest # <<>>
        /\ Kept(<<c>> \o rest, obj.attempts, we.attempts)
    BY <1>1, <2>1, CallsPush
  <2>3. Proceed(<<c>> \o rest)
    BY <1>6 DEF c
  <2> QED  BY <2>2, <2>3, ProceedDue
<1> QED  BY <1>3, <1>4, <1>5, <1>6

LEMMA Pair ==
  ASSUME NEW m \in Nat, NEW c, Callable(c, m), NEW d, Callable(d, m)
  PROVE  <<c, d>> = <<c>> \o <<d>>
BY DEF Callable

\* The exception handlers.
LEMMA CallsFail ==
  ASSUME NEW m \in Nat, NEW s, Stack(s, m), s # <<>>,
         NEW v, NEW calm, CallsOK(s, v, calm), NEW a, NEW b, Kept(s, a, b)
  PROVE  /\ CallsOK(<<Do("fail")>> \o s, v, calm) /\ Kept(<<Do("fail")>> \o s, a, b)
         /\ <<Do("fail")>> \o s # <<>>
         /\ CallsOK(<<Do("fail"), Do("save")>> \o s, v, calm)
         /\ Kept(<<Do("fail"), Do("save")>> \o s, a, b)
         /\ <<Do("fail"), Do("save")>> \o s # <<>>
<1> DEFINE c == Do("fail")
           d == Do("save")
           t == <<d>> \o s
<1>1. /\ Callable(c, m) /\ c.op \notin Loops \cup {"commit", "refresh"} /\ CallOK(c, v, calm)
      /\ Callable(d, m) /\ d.op \notin Loops \cup {"commit", "refresh"} /\ CallOK(d, v, calm)
  BY CallForms DEF Do, CallOK, Loops, Retries
<1> HIDE DEF c, d
<1>2. CallsOK(<<c>> \o s, v, calm) /\ Kept(<<c>> \o s, a, b) /\ <<c>> \o s # <<>>
  BY <1>1, CallsPush
<1>3. CallsOK(t, v, calm) /\ Kept(t, a, b) /\ t # <<>> /\ Stack(t, m)
  BY <1>1, CallsPush
<1>4. <<c, d>> \o s = <<c>> \o t
  <2>1. c \in Call /\ d \in Call
    BY <1>1 DEF Callable
  <2>2. <<c>> \in Seq(Call) /\ <<d>> \in Seq(Call) /\ s \in Seq(Call)
    BY <2>1 DEF Stack
  <2>3. <<c, d>> = <<c>> \o <<d>>
    BY <1>1, Pair
  <2> QED  BY <2>2, <2>3, ConcatAssociative
<1> HIDE DEF t
<1>5. CallsOK(<<c>> \o t, v, calm) /\ Kept(<<c>> \o t, a, b) /\ <<c>> \o t # <<>>
  BY <1>1, <1>3, CallsPush
<1> QED  BY <1>2, <1>4, <1>5 DEF c, d

\* A root waits for nothing; and the loops are about roots.
LEMMA RootsSupported ==
  ASSUME NEW n \in Roots
  PROVE  Supported(n) /\ n \in Nodes /\ \A t \in Transitions : Target[t] # n
BY DEF Roots, Supported, Inbound

LEMMA StartStepDue ==
  ASSUME Plain, TypeInv, TypeInv', DueInv, StartStep
  PROVE  DueInv'
<1>1. todo # <<>> /\ Top.op = "start"
  BY DEF StartStep, Running
<1>2. /\ Stack(Rest, Len(runs)) /\ Rest # <<>> /\ Top.nodes \in SUBSET Nodes /\ Top \in Call
      /\ Len(runs) \in Nat
  BY <1>1, Underway, CallFields
<1>3. /\ CallOK(Top, Vacant, Calm) /\ CallsOK(Rest, Vacant, Calm)
      /\ \A d \in Calls(Rest) : d.op \notin Loops
      /\ Kept(Rest, obj.attempts, we.attempts)
  BY <1>1, CallsUnderway DEF Loops
<1>4. CASE Proceed(Rest)
  BY <1>1, <1>2, <1>3, <1>4, ProceedDue
<1>5. ASSUME NEW n \in Top.nodes,
             StartNode(n, <<[Top EXCEPT !.nodes = @ \ {n}]>> \o Rest,
                       <<Do("fail"), Do("save"), Do("commit")>>)
      PROVE  DueInv'
  <2> DEFINE next == [Top EXCEPT !.nodes = @ \ {n}]
             raised == <<Do("fail"), Do("save"), Do("commit")>>
             v == Vacant \ {n}
  <2>1. Callable(next, Len(runs)) /\ next.op = "start"
    BY <1>1, NextNode
  <2>2. next.nodes = Top.nodes \ {n}
    BY <1>1, <1>2, CallFields
  <2>3. n \in Vacant /\ n \in Roots /\ CallOK(next, v, Calm)
    BY <1>1, <1>3, <2>1, <2>2 DEF CallOK, Loops, Retries
  <2>4. CallsOK(Rest, v, Calm)
    BY <1>3, CallsStay DEF Loops
  <2>5. StartNode(n, <<next>> \o Rest, raised)
    BY <1>5
  <2> HIDE DEF next, v
  <2>6. /\ CallsOK(<<next>> \o Rest, v, Calm) /\ <<next>> \o Rest # <<>>
        /\ Kept(<<next>> \o Rest, obj.attempts, we.attempts)
    BY <1>2, <1>3, <2>1, <2>3, <2>4, CallsPush
  <2>7. CallsOK(raised, v, Calm) /\ Kept(raised, obj.attempts, we.attempts) /\ raised # <<>>
    <3>1. /\ Callable(Do("fail"), Len(runs)) /\ Callable(Do("save"), Len(runs))
          /\ Do("fail").op # "commit" /\ Do("save").op # "commit"
      BY <1>2, CallForms DEF Do
    <3>2. Calls(raised) = {Do("fail"), Do("save"), Do("commit")}
      BY <1>2, <3>1, TransactionOfThree
    <3>3. OneLoop(raised)
      BY DEF OneLoop, Loops, Do
    <3>4. raised # <<>>
      OBVIOUS
    <3> HIDE DEF raised
    <3>5. CallsOK(raised, v, Calm)
      BY <3>2, <3>3 DEF CallsOK, CallOK, Retries, Loops, Do
    <3>6. Kept(raised, obj.attempts, we.attempts)
      BY <3>2 DEF Kept, Do
    <3> QED  BY <3>4, <3>5, <3>6
  <2> HIDE DEF raised
  <2> QED  BY <1>1, <2>3, <2>5, <2>6, <2>7, StartNodeDue, RootsSupported DEF v
<1> QED  BY <1>4, <1>5 DEF StartStep

LEMMA RetryStepDue ==
  ASSUME Plain, TypeInv, TypeInv', DueInv, RetryStep
  PROVE  DueInv'
<1>1. todo # <<>> /\ Top.op = "retry"
  BY DEF RetryStep, Running
<1>2. /\ Stack(Rest, Len(runs)) /\ Rest # <<>> /\ Top.nodes \in SUBSET Nodes /\ Top \in Call
      /\ Len(runs) \in Nat
  BY <1>1, Underway, CallFields
<1>3. /\ CallOK(Top, Vacant, Calm) /\ CallsOK(Rest, Vacant, Calm)
      /\ \A d \in Calls(Rest) : d.op \notin Loops
      /\ Kept(Rest, obj.attempts, we.attempts)
  BY <1>1, CallsUnderway DEF Loops
<1>4. CASE Proceed(Rest)
  BY <1>1, <1>2, <1>3, <1>4, ProceedDue
<1>5. ASSUME NEW n \in Top.nodes,
             RetryNode(n, <<[Top EXCEPT !.nodes = @ \ {n}]>> \o Rest, <<Do("fail")>> \o Rest)
      PROVE  DueInv'
  <2> DEFINE next == [Top EXCEPT !.nodes = @ \ {n}]
             v == Vacant \ {n}
  <2>1. Callable(next, Len(runs)) /\ next.op = "retry"
    BY <1>1, NextNode
  <2>2. next.nodes = Top.nodes \ {n}
    BY <1>1, <1>2, CallFields
  <2>3. n \in Roots /\ Calm /\ CallOK(next, v, Calm) /\ CallOK(next, Vacant, Calm)
    BY <1>1, <1>3, <2>1, <2>2 DEF CallOK, Loops, Retries
  <2>4. CallsOK(Rest, v, Calm)
    BY <1>3, CallsStay DEF Loops
  <2>5. RetryNode(n, <<next>> \o Rest, <<Do("fail")>> \o Rest)
    BY <1>5
  <2> HIDE DEF next, v
  <2>6. /\ CallsOK(<<next>> \o Rest, v, Calm) /\ <<next>> \o Rest # <<>>
        /\ CallsOK(<<next>> \o Rest, Vacant, Calm) /\ Stack(<<next>> \o Rest, Len(runs))
        /\ Kept(<<next>> \o Rest, obj.attempts, we.attempts)
    BY <1>2, <1>3, <2>1, <2>3, <2>4, CallsPush
  <2>7. /\ CallsOK(<<Do("fail")>> \o Rest, v, Calm) /\ <<Do("fail")>> \o Rest # <<>>
        /\ Kept(<<Do("fail")>> \o Rest, obj.attempts, we.attempts)
    BY <1>2, <1>3, <2>4, CallsFail
  <2> QED  BY <1>1, <2>3, <2>5, <2>6, <2>7, RetryNodeDue, RootsSupported DEF v
<1> QED  BY <1>4, <1>5 DEF RetryStep

\* What a transition leads to is no root, so that no loop is about to start it, and
\* it is started when it waits for no other transition and does not run.
LEMMA ActivatedIsDue ==
  ASSUME Plain, TypeInv, NEW t \in Transitions, NEW retrying, Triggered(Target[t])
  PROVE  /\ StartCondition[Target[t]] = "all" => Supported(Target[t])
         /\ Target[t] \in Nodes /\ Target[t] \notin Roots
         /\ MayStart(Target[t], retrying) => retrying \/ Target[t] \in Vacant
<1> DEFINE n == Target[t]
<1>1. n \in Nodes /\ n \notin Roots
  BY GraphAssumption DEF Roots
<1>2. ASSUME StartCondition[n] = "all" PROVE Supported(n)
  <2>1. { e.transition : e \in ActivatedInbound(n) } = Inbound(n)
    BY <1>2 DEF Triggered
  <2> QED  BY <2>1 DEF Supported, ActivatedInbound
<1>3. ASSUME MayStart(n, retrying), ~retrying PROVE n \in Vacant
  <2>1. Cardinality(LatestRuns(n)) = 0
    BY <1>3 DEF MayStart, Plain
  <2>2. LatestRuns(n) = {}
    BY <2>1, RunsFinite, FS_EmptySet
  <2> QED  BY <1>1, <2>2 DEF Vacant
<1> QED  BY <1>1, <1>2, <1>3

LEMMA ActivateStepDue ==
  ASSUME Plain, TypeInv, TypeInv', DueInv, ActivateStep
  PROVE  DueInv'
<1>1. todo # <<>> /\ Top.op = "activate"
  BY DEF ActivateStep, Running
<1>2. /\ Stack(Rest, Len(runs)) /\ Rest # <<>> /\ Len(runs) \in Nat
      /\ Top \in [op : {"activate"}, transitions : SUBSET Transitions,
                  retrying : BOOLEAN, failed : BOOLEAN]
  BY <1>1, Underway, CallFields
<1>3. /\ CallOK(Top, Vacant, Calm) /\ CallsOK(Rest, Vacant, Calm)
      /\ Kept(Rest, obj.attempts, we.attempts)
  BY <1>1, CallsUnderway
<1>4. ASSUME Proceed(IF Top.failed THEN <<Do("fail"), Do("save")>> \o Rest ELSE Rest)
      PROVE  DueInv'
  <2>1. /\ CallsOK(<<Do("fail"), Do("save")>> \o Rest, Vacant, Calm)
        /\ Kept(<<Do("fail"), Do("save")>> \o Rest, obj.attempts, we.attempts)
        /\ <<Do("fail"), Do("save")>> \o Rest # <<>>
    BY <1>2, <1>3, CallsFail
  <2>2. CASE Top.failed
    BY <1>1, <1>4, <2>1, <2>2, ProceedDue
  <2>3. CASE ~Top.failed
    BY <1>1, <1>2, <1>3, <1>4, <2>3, ProceedDue
  <2> QED  BY <2>2, <2>3
<1>5. ASSUME NEW t \in Top.transitions
      PROVE  LET n == Target[t]
                 next == [Top EXCEPT !.transitions = @ \ {t}]
                 rest == <<next>> \o Rest
                 raised == <<[next EXCEPT !.failed = TRUE]>> \o Rest
             IN (IF ~(Triggered(n) /\ MayStart(n, Top.retrying)) THEN Proceed(rest)
                 ELSE IF Top.retrying THEN RetryNode(n, rest, raised)
                 ELSE StartNode(n, rest, raised)) => DueInv'
  <2> DEFINE n == Target[t]
             v == Vacant \ {n}
             next == [Top EXCEPT !.transitions = @ \ {t}]
             failing == [next EXCEPT !.failed = TRUE]
  <2>1. t \in Transitions /\ n \in Nodes /\ n \notin Roots
    BY <1>2, GraphAssumption DEF Roots
  <2>2. /\ Callable(next, Len(runs)) /\ next.op = "activate"
        /\ Callable(failing, Len(runs)) /\ failing.op = "activate"
    BY <1>1, NextTransition
  <2>3. next.retrying = Top.retrying /\ failing.retrying = Top.retrying
    BY <1>2
  <2> HIDE DEF next, failing, v
  <2>4. /\ \A w : CallOK(next, w, Calm) /\ CallOK(failing, w, Calm)
        /\ Top.retrying => Calm
    BY <1>1, <1>3, <2>2, <2>3 DEF CallOK, Loops, Retries
  <2>5. CallsOK(Rest, v, Calm)
    <3>1. \A c \in Calls(Rest) : c.op = "start" => c.nodes \subseteq v
      BY <1>3, <2>1 DEF CallsOK, CallOK, Loops, v
    <3> QED  BY <1>3, <3>1, CallsStay
  <2>6. /\ CallsOK(<<next>> \o Rest, v, Calm) /\ <<next>> \o Rest # <<>>
        /\ CallsOK(<<next>> \o Rest, Vacant, Calm) /\ Stack(<<next>> \o Rest, Len(runs))
        /\ Kept(<<next>> \o Rest, obj.attempts, we.attempts)
    BY <1>2, <1>3, <2>2, <2>4, <2>5, CallsPush DEF Loops
  <2>7. /\ CallsOK(<<failing>> \o Rest, v, Calm) /\ <<failing>> \o Rest # <<>>
        /\ Kept(<<failing>> \o Rest, obj.attempts, we.attempts)
    BY <1>2, <1>3, <2>2, <2>4, <2>5, CallsPush DEF Loops
  <2>8. Proceed(<<next>> \o Rest) => DueInv'
    BY <1>1, <2>6, ProceedDue
  <2>9. Triggered(n) =>
          /\ StartCondition[n] = "all" => Supported(n)
          /\ MayStart(n, Top.retrying) => Top.retrying \/ n \in Vacant
    BY <2>1, ActivatedIsDue
  <2> HIDE DEF n
  <2>10. ASSUME Triggered(n), Top.retrying, RetryNode(n, <<next>> \o Rest, <<failing>> \o Rest)
         PROVE  DueInv'
    BY <1>1, <2>1, <2>4, <2>6, <2>7, <2>9, <2>10, RetryNodeDue DEF v
  <2>11. ASSUME Triggered(n), MayStart(n, Top.retrying), ~Top.retrying,
                StartNode(n, <<next>> \o Rest, <<failing>> \o Rest)
         PROVE  DueInv'
    BY <1>1, <2>1, <2>4, <2>6, <2>7, <2>9, <2>11, StartNodeDue DEF v
  <2> QED  BY <2>8, <2>10, <2>11 DEF n, next, failing
<1>6. CASE \E t \in Top.transitions :
             LET n == Target[t]
                 next == [Top EXCEPT !.transitions = @ \ {t}]
                 rest == <<next>> \o Rest
                 raised == <<[next EXCEPT !.failed = TRUE]>> \o Rest
             IN IF ~(Triggered(n) /\ MayStart(n, Top.retrying)) THEN Proceed(rest)
                ELSE IF Top.retrying THEN RetryNode(n, rest, raised)
                ELSE StartNode(n, rest, raised)
  BY <1>5, <1>6
<1> QED  BY <1>4, <1>6 DEF ActivateStep

\* A failure that is counted is saved at once.
LEMMA CheckIfCompleteDue ==
  ASSUME TypeInv, todo # <<>>, NEW evals, NEW pending, CheckIfComplete(evals, pending),
         NEW s, Kept(s, obj.attempts, we.attempts)
  PROVE  obj.attempts <= obj'.attempts /\ Kept(s, obj'.attempts, we'.attempts)
<1> DEFINE status == ComputedStatus(obj, evals, pending)
           attempts == IF status = "FAILED" THEN OneMore(obj.attempts) ELSE obj.attempts
           done == [obj EXCEPT !.status = status, !.finished = TRUE, !.attempts = attempts]
<1>1. obj \in WorkflowExecution /\ obj.attempts \in Nat
  BY LimitsAssumption DEF TypeInv, TypeOK, Idle, WorkflowExecution
<1>2. UNCHANGED <<obj, we>> \/ (obj' = done /\ we' = done)
  BY DEF CheckIfComplete
<1> HIDE DEF status
<1>3. attempts \in Nat /\ obj.attempts <= attempts
  BY <1>1, LimitsAssumption DEF OneMore
<1> HIDE DEF attempts
<1>4. done.attempts = attempts
  BY <1>1 DEF WorkflowExecution
<1> HIDE DEF done
<1> QED  BY <1>1, <1>2, <1>3, <1>4 DEF Kept

LEMMA EvaluatedNew ==
  ASSUME NEW i, NEW T
  PROVE  /\ evaluations \subseteq Evaluated(i, T)
         /\ \A e \in Evaluated(i, T) \ evaluations : e.run = i /\ e.transition \in T
<1> DEFINE before(t) == Cardinality({ e \in evaluations : e.run = i /\ e.transition = t })
<1>1. Evaluated(i, T) = evaluations \cup
        { [run |-> i, transition |-> t, nth |-> before(t) + 1] :
            t \in { t \in T : before(t) < MaxCount } }
  BY DEF Evaluated
<1> HIDE DEF before
<1> QED  BY <1>1

LEMMA FinishedStepDue ==
  ASSUME TypeInv, TypeInv', DueInv, FinishedStep
  PROVE  DueInv'
<1> DEFINE i == Top.run
           activated == { t \in Outbound(runs[i].node) : Activates(t, runs[i].status) }
           activate == [op |-> "activate", transitions |-> activated,
                        retrying |-> Top.retrying, failed |-> FALSE]
<1>1. todo # <<>> /\ Top.op = "finished"
  BY DEF FinishedStep, Running
<1>2. /\ obj \in WorkflowExecution /\ Stack(Rest, Len(runs)) /\ Rest # <<>>
      /\ Len(runs) \in Nat /\ DOMAIN runs = 1 .. Len(runs)
      /\ i \in DOMAIN runs /\ Top.retrying \in BOOLEAN
  BY <1>1, Underway, CallFields DEF Callable
<1>3. /\ CallOK(Top, Vacant, Calm) /\ CallsOK(Rest, Vacant, Calm)
      /\ Kept(Rest, obj.attempts, we.attempts)
  BY <1>1, CallsUnderway
<1>4. activated \in SUBSET Transitions /\ \A t \in activated : Source[t] = runs[i].node
  BY DEF Outbound
<1>5. ASSUME NEW T \in SUBSET activated
      PROVE  /\ evaluations \subseteq Evaluated(i, T)
             /\ \A e \in Evaluated(i, T) : e \in evaluations
                  \/ (e.run \in DOMAIN runs /\ runs[e.run].node = Source[e.transition])
  <2>1. /\ evaluations \subseteq Evaluated(i, T)
        /\ \A e \in Evaluated(i, T) \ evaluations : e.run = i /\ e.transition \in T
    BY EvaluatedNew
  <2> QED  BY <1>2, <1>4, <1>5, <2>1
<1>6. CASE Proceed(Rest)
  BY <1>1, <1>2, <1>3, <1>6, ProceedDue
<1>7. CASE /\ evaluations' = Evaluated(i, activated)
           /\ CheckIfComplete(evaluations', activated # {})
           /\ todo' = IF obj'.status # "RUNNING" THEN Rest ELSE <<activate>> \o Rest
           /\ UNCHANGED <<runs, restarts>>
  <2>1. obj.attempts <= obj'.attempts /\ Kept(Rest, obj'.attempts, we'.attempts)
    BY <1>1, <1>3, <1>7, CheckIfCompleteDue
  <2>2. /\ Callable(activate, Len(runs)) /\ activate.op = "activate"
        /\ CallOK(activate, Vacant, Calm)
    BY <1>1, <1>2, <1>3, <1>4, CallForms DEF CallOK, Loops, Retries
  <2>3. /\ evaluations \subseteq evaluations'
        /\ \A e \in evaluations' : e \in evaluations
             \/ (e.run \in DOMAIN runs /\ runs[e.run].node = Source[e.transition])
    BY <1>5, <1>7
  <2> HIDE DEF activate
  <2>4. /\ CallsOK(<<activate>> \o Rest, Vacant, Calm) /\ <<activate>> \o Rest # <<>>
        /\ Kept(<<activate>> \o Rest, obj'.attempts, we'.attempts)
    BY <1>2, <1>3, <2>1, <2>2, CallsPush DEF Loops
  <2>5. /\ CallsOK(todo', Vacant, Calm) /\ todo' # <<>>
        /\ Kept(todo', obj'.attempts, we'.attempts)
    BY <1>2, <1>3, <1>7, <2>1, <2>4
  <2> QED  BY <1>1, <1>7, <2>1, <2>3, <2>5, GoOn
<1>8. CASE /\ \E done \in SUBSET activated : evaluations' = Evaluated(i, done)
           /\ todo' = <<Do("fail"), Do("save")>> \o Rest
           /\ UNCHANGED <<we, runs, obj, restarts>>
  <2>1. /\ evaluations \subseteq evaluations'
        /\ \A e \in evaluations' : e \in evaluations
             \/ (e.run \in DOMAIN runs /\ runs[e.run].node = Source[e.transition])
    BY <1>5, <1>8
  <2>2. /\ CallsOK(<<Do("fail"), Do("save")>> \o Rest, Vacant, Calm)
        /\ Kept(<<Do("fail"), Do("save")>> \o Rest, obj.attempts, we.attempts)
        /\ <<Do("fail"), Do("save")>> \o Rest # <<>>
    BY <1>2, <1>3, CallsFail
  <2>3. obj.attempts <= obj'.attempts
    BY <1>2, <1>8, LimitsAssumption DEF WorkflowExecution
  <2>4. /\ CallsOK(todo', Vacant, Calm) /\ todo' # <<>>
        /\ Kept(todo', obj'.attempts, we'.attempts)
    BY <1>8, <2>2
  <2> QED  BY <1>1, <1>8, <2>1, <2>3, <2>4, GoOn
<1> HIDE DEF i, activated
<1> QED  BY <1>6, <1>7, <1>8 DEF FinishedStep, i, activated

LEMMA ShortStepDue ==
  ASSUME TypeInv, TypeInv', DueInv,
         CompleteStep \/ FailStep \/ SaveStep \/ ResumeStep \/ RefreshStep
  PROVE  DueInv'
<1>1. /\ todo # <<>> /\ Top.op # "commit"
      /\ todo' = Rest /\ UNCHANGED <<runs, evaluations, restarts>>
  BY DEF CompleteStep, FailStep, SaveStep, ResumeStep, RefreshStep, Running
<1>2. /\ obj \in WorkflowExecution /\ obj.attempts \in Nat /\ Rest # <<>>
      /\ we \in WorkflowExecution /\ we.attempts \in Nat
  BY <1>1, Underway, LimitsAssumption DEF WorkflowExecution
<1>3. /\ CallOK(Top, Vacant, Calm) /\ CallsOK(Rest, Vacant, Calm)
      /\ Top.op \notin { "save", "refresh" } => Kept(Rest, obj.attempts, we.attempts)
      /\ Top.op = "refresh" => obj.attempts <= we.attempts
  BY <1>1, CallsUnderway
<1>4. obj.attempts <= obj'.attempts /\ Kept(Rest, obj'.attempts, we'.attempts)
  <2>1. CASE CompleteStep
    <3>1. Kept(Rest, obj.attempts, we.attempts)
      BY <1>3, <2>1 DEF CompleteStep, Running
    <3> QED  BY <1>1, <2>1, <3>1, CheckIfCompleteDue DEF CompleteStep
  <2>2. CASE FailStep
    <3>1. Kept(Rest, obj.attempts, we.attempts) /\ we' = we
      BY <1>3, <2>2 DEF FailStep, Running
    <3>2. obj'.attempts = obj.attempts
      BY <1>2, <2>2 DEF FailStep, WorkflowExecution
    <3> QED  BY <1>2, <3>1, <3>2
  <2>3. CASE SaveStep
    BY <1>2, <2>3 DEF SaveStep, Kept
  <2>4. CASE ResumeStep
    BY <1>3, <2>4 DEF ResumeStep, Running, CallOK
  <2>5. CASE RefreshStep
    BY <1>2, <1>3, <2>5 DEF RefreshStep, Running, Kept
  <2> QED  BY <2>1, <2>2, <2>3, <2>4, <2>5
<1>5. evaluations \subseteq evaluations' /\ \A e \in evaluations' : e \in evaluations
        \/ (e.run \in DOMAIN runs /\ runs[e.run].node = Source[e.transition])
  BY <1>1
<1>6. CallsOK(todo', Vacant, Calm) /\ Kept(todo', obj'.attempts, we'.attempts) /\ todo' # <<>>
  BY <1>1, <1>2, <1>3, <1>4
<1> QED  BY <1>1, <1>4, <1>5, <1>6, GoOn

\* A transaction that ends has saved the attempts that it has counted.
LEMMA CommitStepDue ==
  ASSUME TypeInv, TypeInv', DueInv, CommitStep
  PROVE  DueInv'
<1>1. todo # <<>> /\ Top.op = "commit" /\ todo' = Rest
      /\ UNCHANGED <<we, runs, evaluations, restarts>>
  BY DEF CommitStep, Running
<1>2. Rest = <<>> /\ Calls(todo) = {Top}
  <2>1. Rest = <<>> /\ Calls(todo) = {Top} \cup Calls(Rest) /\ Len(runs) \in Nat
    BY <1>1, Underway
  <2>2. Calls(<<>>) = {}
    BY <2>1, StackCommit
  <2> QED  BY <2>1, <2>2
<1>3. obj.attempts <= we.attempts
  BY <1>1, <1>2 DEF DueInv, Kept
<1>4. RunsInv' /\ Vacant' = Vacant /\ \A n \in Nodes : RunsOf(n)' = RunsOf(n)
  BY <1>1, RunsKeep DEF DueInv
<1>5. RunsCounted'
  <2>1. Attempts = obj.attempts /\ Attempts' = we.attempts
    BY <1>1, <1>2 DEF Attempts
  <2>2. restarts + Attempts <= restarts' + Attempts'
    BY <1>1, <1>3, <2>1, Underway, LimitsAssumption DEF WorkflowExecution
  <2> QED  BY <1>4, <2>2, CountKeeps DEF DueInv
<1>6. CallsOK(<<>>, Vacant', Calm')
  BY CallsCommit
<1> QED  BY <1>1, <1>2, <1>4, <1>5, <1>6 DEF DueInv

LEMMA StepDue ==
  ASSUME Plain, TypeInv, TypeInv', DueInv, Step
  PROVE  DueInv'
BY StartStepDue, RetryStepDue, FinishedStepDue, ActivateStepDue, ShortStepDue,
   CommitStepDue DEF Step

\* A transaction that saves executions and starts none.
LEMMA RestDue ==
  ASSUME TypeInv, TypeInv', DueInv, todo = <<>>, DOMAIN runs' = DOMAIN runs,
         \A i \in DOMAIN runs :
           runs'[i].node = runs[i].node /\ (runs'[i].latest <=> runs[i].latest),
         evaluations' = evaluations, restarts' = restarts, we.attempts <= Attempts',
         CallsOK(todo', Vacant, Calm'), todo' # <<>> => Kept(todo', obj'.attempts, we'.attempts)
  PROVE  DueInv'
<1>1. RunsInv' /\ Vacant' = Vacant /\ \A n \in Nodes : RunsOf(n)' = RunsOf(n)
  BY RunsKeep DEF DueInv
<1>2. restarts + Attempts <= restarts' + Attempts'
  <2>1. Attempts = we.attempts /\ restarts \in Nat /\ we.attempts \in Nat
    BY LimitsAssumption DEF Attempts, TypeInv, TypeOK, WorkflowExecution
  <2>2. Attempts' \in Nat
    BY LimitsAssumption DEF TypeInv, TypeOK, Attempts, Idle, WorkflowExecution
  <2> QED  BY <2>1, <2>2
<1>3. RunsCounted'
  BY <1>1, <1>2, CountKeeps DEF DueInv
<1> QED  BY <1>1, <1>3 DEF DueInv

LEMMA SaveRunDue ==
  ASSUME TypeInv, TypeInv', DueInv, Idle, NEW i \in DOMAIN runs, NEW run,
         run.node = runs[i].node, run.latest = runs[i].latest, SaveRun(i, run)
  PROVE  DueInv'
<1>1. /\ todo = <<>> /\ UNCHANGED <<we, evaluations, restarts>>
      /\ runs' = [runs EXCEPT ![i] = run]
      /\ we.attempts \in Nat /\ Len(runs) \in Nat /\ DOMAIN runs = 1 .. Len(runs)
  BY AtRest, LimitsAssumption DEF SaveRun, WorkflowExecution
<1>2. /\ DOMAIN runs' = DOMAIN runs
      /\ \A j \in DOMAIN runs :
           runs'[j].node = runs[j].node /\ (runs'[j].latest <=> runs[j].latest)
  BY <1>1
<1>3. CASE obj' = we /\ todo' = <<Finished(i, FALSE), Do("commit")>>
  <2> DEFINE c == Finished(i, FALSE)
             last == <<Do("commit")>>
  <2>1. /\ Callable(c, Len(runs)) /\ c.op = "finished" /\ CallOK(c, Vacant, Calm')
    BY <1>1, CallForms DEF Finished, CallOK, Loops, Retries
  <2>2. <<c, Do("commit")>> = <<c>> \o last
    <3>1. Len(runs) \in Nat /\ Callable(Do("commit"), Len(runs))
      BY <1>1, CallForms
    <3> HIDE DEF c
    <3> QED  BY <2>1, <3>1, Pair
  <2> HIDE DEF c, last
  <2>3. CallsOK(last, Vacant, Calm') /\ Stack(last, Len(runs)) /\ last # <<>>
    BY <1>1, CallsCommit DEF last
  <2>4. CallsOK(<<c>> \o last, Vacant, Calm') /\ <<c>> \o last # <<>>
    BY <1>1, <2>1, <2>3, CallsPush DEF Loops
  <2>5. CallsOK(todo', Vacant, Calm') /\ todo' # <<>>
    BY <1>3, <2>2, <2>4 DEF c
  <2>6. we.attempts <= Attempts' /\ Kept(todo', obj'.attempts, we'.attempts)
    BY <1>1, <1>3, <2>5 DEF Attempts, Kept
  <2> QED  BY <1>1, <1>2, <2>5, <2>6, RestDue
<1>4. CASE UNCHANGED <<obj, todo>>
  <2>1. CallsOK(todo', Vacant, Calm') /\ todo' = <<>>
    BY <1>1, <1>4, CallsCommit
  <2>2. we.attempts <= Attempts'
    BY <1>1, <2>1 DEF Attempts
  <2> QED  BY <1>1, <1>2, <2>1, <2>2, RestDue
<1> QED  BY <1>3, <1>4 DEF SaveRun

LEMMA ReportDue ==
  ASSUME TypeInv, TypeInv', DueInv, NEW i \in DOMAIN runs, NEW request \in UpdateStatuses,
         Report(i, request)
  PROVE  DueInv'
<1> DEFINE run == runs[i]
           status == UpdatedStatus(run.status, request)
           finished == run.finished \/ SetsFinished(run.status, request)
           updated == [run EXCEPT !.status = status, !.finished = finished]
<1>1. Idle /\ run \in Run
  BY AtRest, ElementOfSeq DEF Report
<1>2. SaveRun(i, updated)
  BY DEF Report
<1> HIDE DEF status, finished
<1>3. updated.node = run.node /\ updated.latest = run.latest
  BY <1>1 DEF Run
<1> HIDE DEF updated
<1> QED  BY <1>1, <1>2, <1>3, SaveRunDue

LEMMA CheckRunDue ==
  ASSUME TypeInv, TypeInv', DueInv, NEW i \in DOMAIN runs, CheckRun(i)
  PROVE  DueInv'
<1> DEFINE run == runs[i]
           finished == run.status # "MANUALLY_STARTED"
           abandoned == [run EXCEPT !.status = "ABANDONED", !.finished = finished]
           stopping == [run EXCEPT !.status = "STOPPING"]
<1>1. Idle /\ run \in Run
  BY AtRest, ElementOfSeq DEF CheckRun
<1>2. abandoned.latest = run.latest /\ abandoned.node = run.node
  BY <1>1 DEF Run
<1>3. stopping.latest = run.latest /\ stopping.node = run.node
  BY <1>1 DEF Run
<1>4. SaveRun(i, abandoned) \/ SaveRun(i, stopping)
  BY DEF CheckRun
<1> HIDE DEF abandoned, stopping
<1> QED  BY <1>1, <1>2, <1>3, <1>4, SaveRunDue

\* A stop, and the end of the time, only change the status of executions.
LEMMA WithRunningStoppedKeeps ==
  ASSUME TypeInv, NEW detached \in BOOLEAN
  PROVE  /\ DOMAIN WithRunningStopped(detached) = DOMAIN runs
         /\ \A i \in DOMAIN runs :
              /\ WithRunningStopped(detached)[i].node = runs[i].node
              /\ WithRunningStopped(detached)[i].latest = runs[i].latest
<1>1. \A i \in DOMAIN runs : runs[i] \in Run
  BY ElementOfSeq DEF TypeInv, TypeOK
<1> QED  BY <1>1 DEF WithRunningStopped, Run

LEMMA StopExecutionDue ==
  ASSUME TypeInv, TypeInv', DueInv, StopExecution
  PROVE  DueInv'
<1>1. /\ Idle /\ UNCHANGED <<evaluations, obj, todo, restarts>> /\ todo = <<>>
      /\ we \in WorkflowExecution /\ we.attempts \in Nat
  BY AtRest, LimitsAssumption DEF StopExecution, HandleStopRequested, WorkflowExecution
<1>2. runs' = WithRunningStopped(TRUE) \/ UNCHANGED runs
  BY DEF StopExecution, HandleStopRequested
<1>3. /\ DOMAIN runs' = DOMAIN runs
      /\ \A i \in DOMAIN runs :
           runs'[i].node = runs[i].node /\ (runs'[i].latest <=> runs[i].latest)
  BY <1>2, WithRunningStoppedKeeps
<1>4. we'.attempts = we.attempts
  BY <1>1 DEF StopExecution, HandleStopRequested, WorkflowExecution
<1>5. we.attempts <= Attempts' /\ CallsOK(todo', Vacant, Calm')
  BY <1>1, <1>4, AtRest, CallsCommit DEF Attempts
<1> QED  BY <1>1, <1>3, <1>5, RestDue

\* The executions that a retry keeps have succeeded, and it may start each node once
\* more: it is one more restart, or one more attempt.
LEMMA BeginRetryDue ==
  ASSUME TypeInv, TypeInv', DueInv, Idle, NEW attempts \in Nat, BeginRetry(attempts),
         restarts + we.attempts + 1 <= restarts' + attempts
  PROVE  DueInv'
<1> DEFINE stopped == WithRunningStopped(TRUE)
           S == { stopped[i].node : i \in { i \in DOMAIN stopped :
                    stopped[i].latest /\ stopped[i].status # "SUCCEEDED" } }
           c == [op |-> "retry", nodes |-> Roots]
<1>1. /\ runs' = Invalidated(stopped, S) /\ UNCHANGED <<we, evaluations>>
      /\ obj' = [status |-> "RUNNING", finished |-> FALSE, attempts |-> attempts]
      /\ todo' = <<c, Do("complete"), Do("save"), Do("commit")>> /\ todo' # <<>>
      /\ todo = <<>> /\ Len(runs) \in Nat
  BY AtRest DEF BeginRetry
<1>2. /\ DOMAIN stopped = DOMAIN runs
      /\ \A i \in DOMAIN runs : stopped[i] \in Run
      /\ \A i \in DOMAIN runs :
           stopped[i].node = runs[i].node /\ stopped[i].latest = runs[i].latest
  <2>1. stopped \in Seq(Run)
    BY WithRunningStoppedType
  <2>2. DOMAIN stopped = DOMAIN runs
    BY WithRunningStoppedKeeps
  <2> HIDE DEF stopped
  <2>3. \A i \in DOMAIN runs : stopped[i] \in Run
    BY <2>1, <2>2, ElementOfSeq
  <2> QED  BY <2>2, <2>3, WithRunningStoppedKeeps DEF stopped
<1> HIDE DEF stopped
<1>3. S \in SUBSET Nodes
  BY <1>2 DEF Run
<1>4. ASSUME NEW i \in DOMAIN runs
      PROVE  (stopped[i].latest /\ stopped[i].status # "SUCCEEDED") => stopped[i].node \in S
  BY <1>2
<1> HIDE DEF S, c
<1>5. /\ DOMAIN runs' = DOMAIN runs
      /\ \A i \in DOMAIN runs :
           /\ runs'[i].node = runs[i].node /\ runs'[i].status = stopped[i].status
           /\ runs'[i].latest <=> runs[i].latest /\ runs[i].node \notin Reachable(S)
  <2>1. ASSUME NEW i \in DOMAIN runs
        PROVE  /\ runs'[i].node = runs[i].node /\ runs'[i].status = stopped[i].status
               /\ runs'[i].latest <=> runs[i].latest /\ runs[i].node \notin Reachable(S)
    <3> DEFINE b == stopped[i].latest /\ stopped[i].node \notin Reachable(S)
    <3>1. runs'[i] = [stopped[i] EXCEPT !.latest = stopped[i].latest
                                          /\ stopped[i].node \notin Reachable(S)]
      BY <1>1, <1>2 DEF Invalidated
    <3>2. runs'[i] = [stopped[i] EXCEPT !.latest = b]
      BY <3>1
    <3>3. b <=> runs[i].latest /\ runs[i].node \notin Reachable(S)
      BY <1>2
    <3> HIDE DEF b
    <3>4. /\ runs'[i].node = stopped[i].node /\ runs'[i].status = stopped[i].status
          /\ runs'[i].latest = b
      BY <1>2, <3>2 DEF Run
    <3> QED  BY <1>2, <3>3, <3>4
  <2> QED  BY <1>1, <1>2, <2>1 DEF Invalidated
<1>6. /\ RunsInv' /\ \A n \in Nodes : RunsOf(n)' = RunsOf(n)
  BY <1>1, <1>3, <1>5, RunsInvalidated DEF DueInv
<1>7. Calm'
  <2>1. ASSUME NEW i \in DOMAIN runs', runs'[i].latest PROVE runs'[i].status = "SUCCEEDED"
    <3>1. stopped[i].latest /\ stopped[i].node \notin S
      BY <1>2, <1>3, <1>5, <2>1, ReachableClosed
    <3> QED  BY <1>4, <1>5, <2>1, <3>1
  <2> QED  BY <2>1 DEF Calm
<1>8. /\ Calls(todo') = {c, Do("complete"), Do("save"), Do("commit")} /\ OneLoop(todo')
      /\ CallOK(c, Vacant', Calm')
  <2>1. Roots \in SUBSET Nodes
    BY DEF Roots
  <2>2. /\ Callable(c, Len(runs)) /\ c.op = "retry" /\ c.nodes = Roots
        /\ Callable(Do("complete"), Len(runs)) /\ Do("complete").op = "complete"
        /\ Callable(Do("save"), Len(runs)) /\ Do("save").op = "save"
    BY <1>1, <2>1, CallForms DEF Do, c
  <2>3. OneLoop(<<c, Do("complete"), Do("save"), Do("commit")>>)
    BY DEF OneLoop, Loops, Do
  <2>4. Calls(<<c, Do("complete"), Do("save"), Do("commit")>>)
          = {c, Do("complete"), Do("save"), Do("commit")}
    BY <1>1, <2>2, TransactionOfFour
  <2>5. CallOK(c, Vacant', Calm')
    BY <1>7, <2>2 DEF CallOK
  <2> QED  BY <1>1, <2>3, <2>4, <2>5
<1>9. CallsOK(todo', Vacant', Calm') /\ Kept(todo', obj'.attempts, we'.attempts)
  <2>1. \A op \in {"complete", "save", "commit"} : CallOK(Do(op), Vacant', Calm')
    BY DEF CallOK, Loops, Retries, Do
  <2>2. c.op = "retry" /\ \A op \in {"complete", "save", "commit"} : Do(op).op = op
    BY DEF c, Do
  <2>3. Do("save") \in Calls(todo') /\ \A d \in Calls(todo') : d.op # "refresh"
    BY <1>8, <2>2
  <2> QED  BY <1>8, <2>1, <2>2, <2>3 DEF CallsOK, Kept
<1>10. RunsCounted'
  <2>1. Attempts = we.attempts /\ Attempts' = attempts
    BY <1>1 DEF Attempts
  <2> QED  BY <1>6, <2>1, CountKeeps DEF DueInv
<1> QED  BY <1>6, <1>9, <1>10 DEF DueInv

LEMMA RetryExecutionDue ==
  ASSUME TypeInv, TypeInv', DueInv, RetryExecution
  PROVE  DueInv'
<1>1. /\ Idle /\ BeginRetry(we.attempts) /\ restarts' = restarts + 1
      /\ restarts \in Nat /\ we.attempts \in Nat
  BY AtRest, LimitsAssumption DEF RetryExecution, WorkflowExecution
<1>2. restarts + we.attempts + 1 <= restarts' + we.attempts
  BY <1>1
<1> QED  BY <1>1, <1>2, BeginRetryDue

LEMMA ExpireDue ==
  ASSUME TypeInv, TypeInv', DueInv, Expire
  PROVE  DueInv'
<1> DEFINE attempts == OneMore(we.attempts)
<1>1. /\ Idle /\ todo = <<>> /\ UNCHANGED restarts
      /\ restarts \in Nat /\ we.attempts \in Nat
  BY AtRest, LimitsAssumption DEF Expire, WorkflowExecution
<1>2. /\ attempts \in Nat /\ we.attempts <= attempts
      /\ attempts < MaxRetries => attempts = we.attempts + 1
  BY <1>1, LimitsAssumption DEF OneMore
<1>3. \/ attempts < MaxRetries /\ BeginRetry(attempts)
      \/ /\ we' = [status |-> "TERMINATED_AFTER_TIME_OUT", finished |-> TRUE,
                   attempts |-> attempts]
         /\ runs' = WithRunningStopped(FALSE)
         /\ UNCHANGED <<evaluations, obj, todo>>
  BY DEF Expire
<1> HIDE DEF attempts
<1>4. CASE attempts < MaxRetries /\ BeginRetry(attempts)
  BY <1>1, <1>2, <1>4, BeginRetryDue
<1>5. CASE /\ we' = [status |-> "TERMINATED_AFTER_TIME_OUT", finished |-> TRUE,
                     attempts |-> attempts]
           /\ runs' = WithRunningStopped(FALSE)
           /\ UNCHANGED <<evaluations, obj, todo>>
  <2>1. /\ DOMAIN runs' = DOMAIN runs
        /\ \A i \in DOMAIN runs :
             runs'[i].node = runs[i].node /\ (runs'[i].latest <=> runs[i].latest)
    BY <1>5, WithRunningStoppedKeeps
  <2>2. we.attempts <= Attempts' /\ CallsOK(todo', Vacant, Calm') /\ todo' = <<>>
    BY <1>1, <1>2, <1>5, AtRest, CallsCommit DEF Attempts
  <2>3. restarts' = restarts /\ evaluations' = evaluations
    BY <1>1, <1>5
  <2> QED  BY <1>1, <2>1, <2>2, <2>3, RestDue
<1> QED  BY <1>3, <1>4, <1>5

LEMMA StartNodesDue ==
  ASSUME Plain, TypeInv, TypeInv', DueInv, NEW S \in Selections, StartNodes(S)
  PROVE  DueInv'
<1> DEFINE c == [op |-> "start", nodes |-> S]
<1>1. /\ Idle /\ todo = <<>> /\ restarts' = restarts + 1
      /\ we' = [we EXCEPT !.status = "RUNNING"] /\ obj' = we'
      /\ runs' = Invalidated(runs, S) /\ UNCHANGED evaluations
      /\ todo' = <<c, Do("refresh"), Do("complete"), Do("commit")>> /\ todo' # <<>>
      /\ Len(runs) \in Nat /\ restarts \in Nat
      /\ we \in WorkflowExecution /\ we.attempts \in Nat
  BY AtRest, LimitsAssumption DEF StartNodes, WorkflowExecution
<1>2. S \in SUBSET Nodes /\ S \subseteq Roots
  BY NodesAssumption DEF Plain
<1>3. /\ DOMAIN runs' = DOMAIN runs
      /\ \A i \in DOMAIN runs :
           /\ runs'[i].node = runs[i].node
           /\ runs'[i].latest <=> runs[i].latest /\ runs[i].node \notin Reachable(S)
  <2>1. ASSUME NEW i \in DOMAIN runs
        PROVE  /\ runs'[i].node = runs[i].node
               /\ runs'[i].latest <=> runs[i].latest /\ runs[i].node \notin Reachable(S)
    <3> DEFINE b == runs[i].latest /\ runs[i].node \notin Reachable(S)
    <3>1. runs'[i] = [runs[i] EXCEPT !.latest = runs[i].latest
                                       /\ runs[i].node \notin Reachable(S)]
      BY <1>1 DEF Invalidated
    <3>2. runs'[i] = [runs[i] EXCEPT !.latest = b]
      BY <3>1
    <3> HIDE DEF b
    <3>3. runs[i] \in Run
      BY ElementOfSeq DEF TypeInv, TypeOK
    <3>4. runs'[i].node = runs[i].node /\ runs'[i].latest = b
      BY <3>2, <3>3 DEF Run
    <3> QED  BY <3>4 DEF b
  <2> QED  BY <1>1, <2>1 DEF Invalidated
<1>4. RunsInv' /\ S \subseteq Vacant' /\ \A n \in Nodes : RunsOf(n)' = RunsOf(n)
  BY <1>1, <1>2, <1>3, RunsInvalidated DEF DueInv
<1>5. we'.attempts = we.attempts /\ obj'.attempts = we.attempts
  BY <1>1 DEF WorkflowExecution
<1>6. RunsCounted'
  <2>1. Attempts = we.attempts /\ Attempts' = we.attempts
    BY <1>1, <1>5 DEF Attempts
  <2> QED  BY <1>1, <1>4, <2>1, CountKeeps DEF DueInv
<1> HIDE DEF c
<1>7. /\ Calls(todo') = {c, Do("refresh"), Do("complete"), Do("commit")} /\ OneLoop(todo')
      /\ c.op = "start" /\ c.nodes = S
  <2>1. /\ Callable(c, Len(runs)) /\ c.op = "start" /\ c.nodes = S
        /\ Callable(Do("refresh"), Len(runs)) /\ Do("refresh").op = "refresh"
        /\ Callable(Do("complete"), Len(runs)) /\ Do("complete").op = "complete"
    BY <1>1, <1>2, CallForms DEF Do, c
  <2>2. OneLoop(<<c, Do("refresh"), Do("complete"), Do("commit")>>)
    BY DEF OneLoop, Loops, Do
  <2>3. Calls(<<c, Do("refresh"), Do("complete"), Do("commit")>>)
          = {c, Do("refresh"), Do("complete"), Do("commit")}
    BY <1>1, <2>1, TransactionOfFour
  <2> QED  BY <1>1, <2>1, <2>2, <2>3
<1>8. CallsOK(todo', Vacant', Calm')
  <2>1. \A op \in {"refresh", "complete", "commit"} : CallOK(Do(op), Vacant', Calm')
    BY DEF CallOK, Loops, Retries, Do
  <2>2. CallOK(c, Vacant', Calm')
    BY <1>2, <1>4, <1>7 DEF CallOK, Retries
  <2> QED  BY <1>7, <2>1, <2>2 DEF CallsOK
<1>9. Kept(todo', obj'.attempts, we'.attempts)
  BY <1>1, <1>5 DEF Kept
<1> QED  BY <1>4, <1>6, <1>8, <1>9 DEF DueInv

LEMMA InitDue == Init => DueInv
<1> SUFFICES ASSUME Init PROVE DueInv
  OBVIOUS
<1> DEFINE c == [op |-> "start", nodes |-> Roots]
<1>1. /\ we = [status |-> "RUNNING", finished |-> FALSE, attempts |-> 0]
      /\ runs = <<>> /\ evaluations = {} /\ obj = we
      /\ todo = <<c, Do("complete"), Do("commit")>> /\ todo # <<>> /\ restarts = 0
  BY DEF Init
<1>2. DOMAIN runs = {}
  BY <1>1
<1>3. Vacant = Nodes /\ \A n \in Nodes : RunsOf(n) = {} /\ LatestRuns(n) = {}
  BY <1>2 DEF Vacant, LatestRuns, RunsOf
<1>4. RunsInv
  <2>1. FollowersAreYounger
    BY <1>3, GraphAssumption DEF FollowersAreYounger
  <2> QED  BY <1>1, <1>2, <2>1 DEF RunsInv
<1>5. RunsCounted
  <2>1. Attempts = 0
    BY <1>1 DEF Attempts
  <2>2. Cardinality({}) = 0
    BY FS_EmptySet
  <2>3. \A n \in Nodes : Cardinality(RunsOf(n)) = 0 /\ n \in Vacant
    BY <1>3, <2>2
  <2>4. restarts + Attempts + 0 = 0
    BY <1>1, <2>1
  <2> QED  BY <2>3, <2>4 DEF RunsCounted
<1> HIDE DEF c
<1>6. /\ Calls(todo) = {c, Do("complete"), Do("commit")} /\ OneLoop(todo)
      /\ c.op = "start" /\ c.nodes = Roots /\ Roots \subseteq Nodes
  <2>1. Roots \in SUBSET Nodes
    BY DEF Roots
  <2>2. /\ Callable(c, 0) /\ c.op = "start" /\ c.nodes = Roots
        /\ Callable(Do("complete"), 0) /\ Do("complete").op = "complete"
    BY <2>1, CallForms DEF Do, c
  <2>3. OneLoop(<<c, Do("complete"), Do("commit")>>)
    BY DEF OneLoop, Loops, Do
  <2>4. Calls(<<c, Do("complete"), Do("commit")>>) = {c, Do("complete"), Do("commit")}
    BY <2>2, TransactionOfThree
  <2> QED  BY <1>1, <2>1, <2>2, <2>3, <2>4
<1>7. CallsOK(todo, Vacant, Calm)
  <2>1. \A op \in {"complete", "commit"} : CallOK(Do(op), Vacant, Calm)
    BY DEF CallOK, Loops, Retries, Do
  <2>2. CallOK(c, Vacant, Calm)
    BY <1>3, <1>6 DEF CallOK, Retries
  <2> QED  BY <1>6, <2>1, <2>2 DEF CallsOK
<1>8. Kept(todo, obj.attempts, we.attempts)
  BY <1>1 DEF Kept
<1> QED  BY <1>4, <1>5, <1>7, <1>8 DEF DueInv

LEMMA NextDue ==
  ASSUME Plain, TypeInv, TypeInv', DueInv, [Next]_vars
  PROVE  DueInv'
<1>1. CASE UNCHANGED vars
  BY <1>1 DEF vars, DueInv, RunsInv, RunsCounted, Supported, FollowersAreYounger, LatestRuns,
    Vacant, RunsOf, Attempts, Calm, CallsOK, CallOK, OneLoop, Kept
<1>2. CASE Step
  BY <1>2, StepDue
<1>3. ASSUME NEW i \in DOMAIN runs, NEW request \in UpdateStatuses, Report(i, request)
      PROVE  DueInv'
  BY <1>3, ReportDue
<1>4. ASSUME NEW i \in DOMAIN runs, CheckRun(i)
      PROVE  DueInv'
  BY <1>4, CheckRunDue
<1>5. CASE StopExecution
  BY <1>5, StopExecutionDue
<1>6. CASE RetryExecution
  BY <1>6, RetryExecutionDue
<1>7. CASE Expire
  BY <1>7, ExpireDue
<1>8. ASSUME NEW S \in Selections, StartNodes(S)
      PROVE  DueInv'
  BY <1>8, StartNodesDue
<1> QED
  BY <1>1, <1>2, <1>3, <1>4, <1>5, <1>6, <1>7, <1>8 DEF Next

LEMMA AlwaysDue ==
  ASSUME Plain
  PROVE  Spec => [](TypeInv /\ DueInv)
<1> DEFINE Inv == TypeInv /\ DueInv
<1>1. Init => Inv
  BY InitType, InitDue
<1>2. Inv /\ [Next]_vars => Inv'
  <2> SUFFICES ASSUME Inv, [Next]_vars PROVE Inv'
    OBVIOUS
  <2>1. TypeInv'
    BY NextType
  <2>2. DueInv'
    BY <2>1, NextDue
  <2> QED  BY <2>1, <2>2
<1> HIDE DEF Inv
<1>3. Spec => []Inv
  BY <1>1, <1>2, PTL DEF Spec
<1> QED  BY <1>3 DEF Inv

\* Where the platform refuses no start, no node is evaluated again after its first
\* execution and users restart roots only: in whatever graph, whatever is reported,
\* stopped and retried, a node that waits for all of its inbound transitions runs
\* only when all of them were activated by executions that still count, and no node
\* runs more often than the restarts and the counted attempts of the workflow allow
\* (handle_inbound_transition_activated, retry_if_unsuccessful).
THEOREM RunsAreAskedFor ==
  ASSUME Plain
  PROVE  Spec => []RunsAreDue
<1>1. ASSUME TypeInv, DueInv PROVE RunsAreDue
  <2>1. JoinsAreSupported
    BY <1>1 DEF JoinsAreSupported, DueInv, RunsInv, Supported
  <2>2. ASSUME Idle, NEW n \in Nodes
        PROVE  Cardinality({ i \in DOMAIN runs : runs[i].node = n })
                 <= 1 + restarts + we.attempts
    <3>1. Cardinality(RunsOf(n)) <= restarts + we.attempts + (IF n \in Vacant THEN 0 ELSE 1)
      BY <1>1, <2>2 DEF DueInv, RunsCounted, Attempts, Idle
    <3>2. restarts \in Nat /\ we.attempts \in Nat /\ Cardinality(RunsOf(n)) \in Nat
      BY <1>1, <2>2, AtRest, RunsFinite, LimitsAssumption DEF WorkflowExecution
    <3>3. Cardinality(RunsOf(n)) <= 1 + restarts + we.attempts
      <4> DEFINE k == Cardinality(RunsOf(n))
                 a == we.attempts
      <4> HIDE DEF k, a
      <4>1. k \in Nat /\ a \in Nat /\ restarts \in Nat
              /\ k <= restarts + a + (IF n \in Vacant THEN 0 ELSE 1)
        BY <3>1, <3>2 DEF k, a
      <4>2. k <= 1 + restarts + a
        BY <4>1
      <4> QED  BY <4>2 DEF k, a
    <3> QED  BY <3>3 DEF RunsOf
  <2> QED  BY <2>1, <2>2 DEF RunsAreDue, NodesRunOnce
<1>2. TypeInv /\ DueInv => RunsAreDue
  BY <1>1
<1> QED  BY <1>2, AlwaysDue, PTL

\* And where every node waits for all of its inbound transitions, what counts of a
\* node is younger than what counts of those that lead to it: a restart, however
\* far from it, makes what followed count no more
\* (invalidate_reachable_task_instance_executions).
THEOREM FollowersComeLater ==
  ASSUME Plain, \A n \in Nodes : StartCondition[n] = "all"
  PROVE  Spec => []FollowersAreYounger
<1>1. DueInv => FollowersAreYounger
  BY DEF DueInv, RunsInv
<1> QED  BY <1>1, AlwaysDue, PTL

-----------------------------------------------------------------------------
(* Success is declared when all is over, in workflows that do one thing    *)
(* after another.                                                          *)

\* A start begins with one node, and no end of a node activates two transitions.
Serial ==
  /\ \A m, n \in Roots : m = n
  /\ \A S \in Selections : \A m, n \in S : m = n
  /\ \A t, u \in Transitions :
       /\ Source[t] = Source[u]
       /\ \E status \in Status : Activates(t, status) /\ Activates(u, status)
       => t = u

AllOver == LatestInProgress = {}

\* A loop that has at most one round to go; and what a caller goes on with is not
\* an instance that has succeeded.
Single(c) ==
  /\ c.op \in Loops => \A m, n \in c.nodes : m = n
  /\ c.op = "activate" => \A t, u \in c.transitions : t = u
  /\ c.op = "resume" => c.obj.status # "SUCCEEDED"

\* A call that may lead to the start of a node.
Live(c) ==
  \/ c.op \in Loops /\ c.nodes # {}
  \/ c.op = "activate" /\ c.transitions # {}
  \/ c.op = "finished"

Spent(c) == Single(c) /\ ~Live(c)

\* The instance in memory is going to be saved, and nothing is read before.
SaveAhead(s) ==
  /\ \E c \in Calls(s) : c.op = "save"
  /\ \A c \in Calls(s) : c.op # "refresh"

\* Only the innermost call may start anything.  A row that says SUCCEEDED while
\* something is in progress will be saved; an instance that says so starts nothing.
OverInv ==
  /\ todo = <<>> => (we.status = "SUCCEEDED" => AllOver)
  /\ todo # <<>> =>
       /\ Single(Top) /\ \A c \in Calls(Rest) : Spent(c)
       /\ we.status = "SUCCEEDED" => AllOver \/ SaveAhead(todo)
       /\ we.status = "SUCCEEDED" /\ Live(Top) =>
            /\ AllOver
            /\ SaveAhead(todo) \/ (Top.op = "finished" /\ obj.status # "RUNNING")
       /\ obj.status = "SUCCEEDED" => AllOver /\ (Live(Top) => Top.op = "finished")

LEMMA OverUnderway ==
  ASSUME TypeInv, OverInv, todo # <<>>
  PROVE  /\ Single(Top) /\ \A c \in Calls(Rest) : Spent(c)
         /\ (Top.op # "save" /\ SaveAhead(todo)) => SaveAhead(Rest)
         /\ we.status = "SUCCEEDED" => AllOver \/ SaveAhead(todo)
         /\ (we.status = "SUCCEEDED" /\ Live(Top)) => AllOver
         /\ (obj.status = "SUCCEEDED") => AllOver
         /\ (Live(Top) /\ Top.op # "finished") =>
              /\ obj.status # "SUCCEEDED"
              /\ we.status = "SUCCEEDED" => SaveAhead(todo)
         /\ (Top.op = "finished" /\ obj.status = "RUNNING" /\ we.status = "SUCCEEDED") =>
              SaveAhead(todo)
<1>1. Calls(todo) = {Top} \cup Calls(Rest)
  BY Underway
<1>2. (Top.op # "save" /\ SaveAhead(todo)) => SaveAhead(Rest)
  BY <1>1 DEF SaveAhead
<1>3. Top.op = "finished" => Live(Top)
  BY DEF Live
<1> QED
  BY <1>2, <1>3 DEF OverInv

\* The transaction goes on with calls that start nothing.
LEMMA GoesOnSpent ==
  ASSUME NEW m \in Nat, Stack(todo', m), todo' # <<>>, \A c \in Calls(todo') : Spent(c),
         obj'.status = "SUCCEEDED" => AllOver',
         we'.status = "SUCCEEDED" => AllOver' \/ SaveAhead(todo')
  PROVE  OverInv'
<1>1. Calls(todo') = {Top'} \cup Calls(Rest')
  BY StackPop DEF Top, Rest
<1>2. Spent(Top') /\ \A c \in Calls(Rest') : Spent(c)
  BY <1>1
<1> QED
  BY <1>2 DEF OverInv, Spent

\* What was pushed is on top.
LEMMA StackTop ==
  ASSUME NEW s \in Seq(Call), NEW c \in Call
  PROVE  Head(<<c>> \o s) = c /\ Tail(<<c>> \o s) = s
<1> DEFINE p == <<c>> \o s
<1>1. Len(s) \in Nat
  BY LenProperties
<1>2. <<c>> \in Seq(Call) /\ Len(<<c>>) = 1 /\ <<c>>[1] = c
  OBVIOUS
<1>3. /\ p \in Seq(Call) /\ Len(p) = Len(s) + 1
      /\ \A i \in 1 .. Len(s) + 1 : p[i] = IF i = 1 THEN c ELSE s[i - 1]
  BY <1>1, <1>2, ConcatProperties
<1> HIDE DEF p
<1>4. p # <<>> /\ Head(p) = p[1]
  BY <1>1, <1>3
<1>5. /\ Tail(p) \in Seq(Call) /\ Len(Tail(p)) = Len(s)
      /\ \A i \in 1 .. Len(Tail(p)) : Tail(p)[i] = p[i + 1]
  BY <1>1, <1>3, <1>4, HeadTailProperties
<1>6. \A i \in 1 .. Len(Tail(p)) : Tail(p)[i] = s[i]
  BY <1>1, <1>3, <1>5
<1>7. Tail(p) = s
  BY <1>5, <1>6, SeqEqual
<1>8. Head(p) = c
  BY <1>1, <1>3, <1>4
<1> QED
  BY <1>7, <1>8 DEF p

\* It goes on with a call before those.
LEMMA GoesOnWith ==
  ASSUME NEW m \in Nat, NEW rest, Stack(rest, m), rest # <<>>, \A d \in Calls(rest) : Spent(d),
         NEW c, Callable(c, m), c.op # "commit", Single(c), todo' = <<c>> \o rest,
         obj'.status = "SUCCEEDED" => AllOver' /\ (Live(c) => c.op = "finished"),
         we'.status = "SUCCEEDED" =>
           /\ AllOver' \/ SaveAhead(rest)
           /\ Live(c) =>
                AllOver' /\ (SaveAhead(rest) \/ (c.op = "finished" /\ obj'.status # "RUNNING")),
         c.op # "refresh"
  PROVE  OverInv'
<1>1. rest \in Seq(Call) /\ c \in Call
  BY DEF Stack, Callable
<1>2. todo' # <<>> /\ Calls(todo') = {c} \cup Calls(rest)
  BY StackPush
<1>3. Top' = c /\ Rest' = rest
  BY <1>1, StackTop DEF Top, Rest
<1>4. SaveAhead(rest) => SaveAhead(todo')
  BY <1>2 DEF SaveAhead
<1> QED
  BY <1>2, <1>3, <1>4 DEF OverInv

LEMMA RefusedIsOver ==
  ASSUME TypeInv, NEW n \in Nodes, runs' = WithRun(NewRun(n, "FAILED")), AllOver
  PROVE  AllOver'
<1> DEFINE run == NewRun(n, "FAILED")
           rs == [ i \in DOMAIN runs |->
                     [runs[i] EXCEPT !.latest = @ /\ runs[i].node # run.node] ]
<1>1. runs \in Seq(Run) /\ Len(runs) \in Nat /\ DOMAIN runs = 1 .. Len(runs)
  BY DEF TypeInv, TypeOK
<1>2. run \in Run /\ ~InProgress(run.status)
  BY DEF NewRun, Run, Status, InProgress, InProgressStatuses
<1>3. ASSUME NEW i \in DOMAIN runs
      PROVE  rs[i] \in Run /\ ~(rs[i].latest /\ InProgress(rs[i].status))
  <2> DEFINE b == runs[i].latest /\ runs[i].node # run.node
  <2>1. runs[i] \in Run /\ b \in BOOLEAN /\ (b => runs[i].latest)
    BY <1>1, ElementOfSeq
  <2>2. ~(runs[i].latest /\ InProgress(runs[i].status))
    BY DEF AllOver, LatestInProgress
  <2> HIDE DEF b
  <2>3. [runs[i] EXCEPT !.latest = b] \in Run
    BY <2>1, RunUpdates
  <2>4. /\ [runs[i] EXCEPT !.latest = b].latest = b
        /\ [runs[i] EXCEPT !.latest = b].status = runs[i].status
    BY <2>1 DEF Run
  <2>5. rs[i] = [runs[i] EXCEPT !.latest = b]
    BY DEF b
  <2> HIDE DEF rs
  <2> QED
    BY <2>1, <2>2, <2>3, <2>4, <2>5
<1>4. rs \in [1 .. Len(runs) -> Run]
  BY <1>1, <1>3
<1>5. rs \in Seq(Run) /\ Len(rs) = Len(runs) /\ runs' = Append(rs, run)
  BY <1>1, <1>4, RunsMapped DEF WithRun
<1> HIDE DEF rs, run
<1>6. /\ DOMAIN runs' = 1 .. Len(runs) + 1 /\ runs'[Len(runs) + 1] = run
      /\ \A i \in DOMAIN runs : runs'[i] = rs[i]
  BY <1>1, <1>2, <1>5, AppendProperties
<1>7. ASSUME NEW i \in DOMAIN runs'
      PROVE  ~(runs'[i].latest /\ InProgress(runs'[i].status))
  <2>1. i \in DOMAIN runs \/ i = Len(runs) + 1
    BY <1>1, <1>6
  <2> QED
    BY <1>2, <1>3, <1>6, <2>1
<1> QED
  BY <1>7 DEF AllOver, LatestInProgress

\* A loop has one round, and then it is done.
LEMMA NextIsSpent ==
  ASSUME TypeInv, todo # <<>>, Single(Top)
  PROVE  /\ Top.op \in Loops =>
              \A n \in Top.nodes : Spent([Top EXCEPT !.nodes = @ \ {n}])
         /\ Top.op = "activate" =>
              \A t \in Top.transitions :
                LET next == [Top EXCEPT !.transitions = @ \ {t}]
                IN Spent(next) /\ Spent([next EXCEPT !.failed = TRUE])
<1>1. Top \in Call
  BY Underway
<1>2. ASSUME Top.op \in Loops, NEW n \in Top.nodes
      PROVE  Spent([Top EXCEPT !.nodes = @ \ {n}])
  <2> DEFINE next == [Top EXCEPT !.nodes = @ \ {n}]
  <2>1. Top \in [op : {"start", "retry"}, nodes : SUBSET Nodes]
    BY <1>1, <1>2, CallFields DEF Loops
  <2>2. Top.nodes \ {n} = {}
    BY <1>2 DEF Single
  <2>3. next.op = Top.op /\ next.nodes = {}
    BY <2>1, <2>2
  <2> HIDE DEF next
  <2>4. Spent(next)
    BY <1>2, <2>3 DEF Spent, Single, Live, Loops
  <2> QED
    BY <2>4 DEF next
<1>3. ASSUME Top.op = "activate", NEW t \in Top.transitions
      PROVE  LET next == [Top EXCEPT !.transitions = @ \ {t}]
             IN Spent(next) /\ Spent([next EXCEPT !.failed = TRUE])
  <2> DEFINE next == [Top EXCEPT !.transitions = @ \ {t}]
             failing == [next EXCEPT !.failed = TRUE]
             Activate == [op : {"activate"}, transitions : SUBSET Transitions,
                          retrying : BOOLEAN, failed : BOOLEAN]
  <2>1. Top \in Activate
    BY <1>1, <1>3, CallFields
  <2>2. Top.transitions \ {t} = {}
    BY <1>3 DEF Single
  <2>3. next \in Activate /\ next.transitions = {}
    BY <2>1, <2>2
  <2> HIDE DEF next
  <2>4. failing \in Activate /\ failing.transitions = {}
    BY <2>3
  <2> HIDE DEF failing
  <2>5. Spent(next) /\ Spent(failing)
    BY <2>3, <2>4 DEF Spent, Single, Live, Loops
  <2> QED
    BY <2>5 DEF failing, next
<1> QED
  BY <1>2, <1>3

LEMMA StartNodeOver ==
  ASSUME TypeInv, todo # <<>>, NEW n \in Nodes, NEW rest, NEW raised,
         Stack(rest, Len(runs)), rest # <<>>, \A c \in Calls(rest) : Spent(c),
         Stack(raised, Len(runs)), raised # <<>>, \A c \in Calls(raised) : Spent(c),
         obj.status # "SUCCEEDED",
         we.status = "SUCCEEDED" => AllOver /\ SaveAhead(rest) /\ SaveAhead(raised),
         StartNode(n, rest, raised)
  PROVE  OverInv'
<1> DEFINE m == Len(runs) + 1
           back == [op |-> "resume", obj |-> obj]
<1>1. we' = we /\ Len(runs) \in Nat /\ m \in Nat /\ obj \in WorkflowExecution
  BY Underway DEF StartNode
<1>2. CASE StartAccepted(n, rest)
  BY <1>1, <1>2, GoesOnSpent DEF StartAccepted
<1>3. CASE StartRaises(n, raised)
  BY <1>1, <1>3, GoesOnSpent DEF StartRaises
<1>4. CASE StartRefused(n, rest)
  <2>1. AllOver => AllOver'
    BY <1>4, RefusedIsOver DEF StartRefused
  <2>2. CASE todo' = rest /\ UNCHANGED obj
    BY <1>1, <2>1, <2>2, GoesOnSpent
  <2>3. CASE obj' = we /\ todo' = <<Finished(m, FALSE), back>> \o rest
    <3>1. Stack(rest, m) /\ m \in 1 .. m
      BY <1>1, StackGrow
    <3>2. /\ Callable(back, m) /\ back.op = "resume" /\ back.obj = obj
          /\ Callable(Finished(m, FALSE), m) /\ Finished(m, FALSE).op = "finished"
      BY <1>1, <3>1, CallForms DEF Finished
    <3>3. Spent(back) /\ Single(Finished(m, FALSE))
      BY <3>2 DEF Spent, Single, Live, Loops
    <3> DEFINE c == Finished(m, FALSE)
               below == <<back>> \o rest
    <3> HIDE DEF m, back
    <3>4. /\ Stack(below, m) /\ below # <<>>
          /\ Calls(below) = {back} \cup Calls(rest)
      BY <1>1, <3>1, <3>2, StackPush
    <3>5. todo' = <<c>> \o below
      <4>1. c \in Call /\ back \in Call /\ rest \in Seq(Call)
        BY <3>2, <3>1 DEF Callable, Stack
      <4>2. todo' = <<c, back>> \o rest
        BY <2>3 DEF back, m
      <4> HIDE DEF c
      <4>3. /\ <<c>> \in Seq(Call) /\ <<back>> \in Seq(Call)
            /\ <<c, back>> = <<c>> \o <<back>>
        BY <4>1
      <4> QED
        BY <4>1, <4>2, <4>3, ConcatAssociative DEF below
    <3>6. \A d \in Calls(below) : Spent(d)
      BY <3>3, <3>4
    <3> HIDE DEF c, below
    <3> QED
      BY <1>1, <2>1, <2>3, <3>2, <3>3, <3>4, <3>5, <3>6, GoesOnWith DEF c
  <2> QED
    BY <1>4, <2>2, <2>3 DEF StartRefused
<1> QED
  BY <1>2, <1>3, <1>4 DEF StartNode

LEMMA ProceedOver ==
  ASSUME TypeInv, todo # <<>>, NEW rest,
         Stack(rest, Len(runs)), rest # <<>>, \A c \in Calls(rest) : Spent(c),
         obj.status = "SUCCEEDED" => AllOver,
         we.status = "SUCCEEDED" => AllOver \/ SaveAhead(rest),
         Proceed(rest)
  PROVE  OverInv'
<1>1. Len(runs) \in Nat /\ AllOver' = AllOver
  BY Underway DEF Proceed, AllOver, LatestInProgress
<1> QED
  BY <1>1, GoesOnSpent DEF Proceed

LEMMA RetryNodeOver ==
  ASSUME TypeInv, todo # <<>>, NEW n \in Nodes, NEW rest, NEW raised,
         Stack(rest, Len(runs)), rest # <<>>, \A c \in Calls(rest) : Spent(c),
         Stack(raised, Len(runs)), raised # <<>>, \A c \in Calls(raised) : Spent(c),
         obj.status # "SUCCEEDED",
         we.status = "SUCCEEDED" => AllOver /\ SaveAhead(rest) /\ SaveAhead(raised),
         RetryNode(n, rest, raised)
  PROVE  OverInv'
<1> DEFINE i == Youngest(LatestRuns(n))
           c == Finished(i, TRUE)
<1>1. CASE StartNode(n, rest, raised)
  BY <1>1, StartNodeOver
<1>2. CASE Proceed(rest)
  BY <1>2, ProceedOver
<1>3. CASE LatestRuns(n) # {} /\ Proceed(<<c>> \o rest)
  <2>1. Len(runs) \in Nat /\ LatestRuns(n) \in SUBSET (1 .. Len(runs))
    BY DEF TypeInv, TypeOK, LatestRuns
  <2>2. i \in 1 .. Len(runs)
    BY <1>3, <2>1, YoungestExists
  <2>3. Callable(c, Len(runs)) /\ c.op = "finished"
    <3> HIDE DEF i
    <3> QED
      BY <2>1, <2>2, CallForms DEF Finished
  <2> HIDE DEF i, c
  <2>4. Single(c)
    BY <2>3 DEF Single, Loops
  <2>5. /\ todo' = <<c>> \o rest /\ obj' = obj /\ we' = we /\ AllOver' = AllOver
    BY <1>3 DEF Proceed, AllOver, LatestInProgress
  <2> QED
    BY <2>1, <2>3, <2>4, <2>5, GoesOnWith
<1> QED
  BY <1>1, <1>2, <1>3 DEF RetryNode

LEMMA StartStepOver ==
  ASSUME TypeInv, OverInv, StartStep
  PROVE  OverInv'
<1>1. todo # <<>> /\ Top.op = "start"
  BY DEF StartStep, Running
<1>2. /\ Stack(Rest, Len(runs)) /\ Rest # <<>> /\ Len(runs) \in Nat
      /\ Single(Top) /\ \A c \in Calls(Rest) : Spent(c)
      /\ obj.status = "SUCCEEDED" => AllOver
      /\ we.status = "SUCCEEDED" => AllOver \/ SaveAhead(Rest)
  BY <1>1, Underway, OverUnderway
<1>3. CASE Proceed(Rest)
  BY <1>1, <1>2, <1>3, ProceedOver
<1>4. ASSUME NEW n \in Top.nodes,
             StartNode(n, <<[Top EXCEPT !.nodes = @ \ {n}]>> \o Rest,
                       <<Do("fail"), Do("save"), Do("commit")>>)
      PROVE  OverInv'
  <2> DEFINE next == [Top EXCEPT !.nodes = @ \ {n}]
             raised == <<Do("fail"), Do("save"), Do("commit")>>
  <2>1. n \in Nodes /\ Callable(next, Len(runs)) /\ next.op = "start"
    BY <1>1, NextNode
  <2>2. Spent(next)
    BY <1>1, <1>2, <1>4, NextIsSpent DEF Loops
  <2>3. StartNode(n, <<next>> \o Rest, raised)
    BY <1>4
  <2>4. /\ Live(Top) /\ obj.status # "SUCCEEDED"
        /\ we.status = "SUCCEEDED" => AllOver /\ SaveAhead(Rest)
    BY <1>1, <1>4, OverUnderway DEF Live, Loops
  <2>5. /\ Stack(raised, Len(runs)) /\ raised # <<>>
        /\ \A c \in Calls(raised) : Spent(c)
        /\ SaveAhead(raised)
    <3>1. /\ Callable(Do("fail"), Len(runs)) /\ Callable(Do("save"), Len(runs))
          /\ Do("fail").op # "commit" /\ Do("save").op # "commit"
      BY <1>2, CallForms DEF Do
    <3>2. /\ Stack(raised, Len(runs))
          /\ Calls(raised) = {Do("fail"), Do("save"), Do("commit")}
      BY <1>2, <3>1, TransactionOfThree
    <3>3. raised # <<>>
      OBVIOUS
    <3> HIDE DEF raised
    <3>4. \A c \in Calls(raised) : Spent(c)
      BY <3>2 DEF Do, Spent, Single, Live, Loops
    <3>5. SaveAhead(raised)
      BY <3>2 DEF Do, SaveAhead
    <3> QED
      BY <3>2, <3>3, <3>4, <3>5
  <2> HIDE DEF next, raised
  <2>6. /\ Stack(<<next>> \o Rest, Len(runs)) /\ <<next>> \o Rest # <<>>
        /\ Calls(<<next>> \o Rest) = {next} \cup Calls(Rest)
    BY <1>2, <2>1, StackPush
  <2>7. /\ \A c \in Calls(<<next>> \o Rest) : Spent(c)
        /\ SaveAhead(Rest) => SaveAhead(<<next>> \o Rest)
    BY <1>2, <2>1, <2>2, <2>6 DEF SaveAhead
  <2> QED
    BY <1>1, <2>1, <2>3, <2>4, <2>5, <2>6, <2>7, StartNodeOver
<1> QED
  BY <1>3, <1>4 DEF StartStep

\* What is left to do after an exception starts nothing.
LEMMA FailAndSave ==
  ASSUME NEW m \in Nat, NEW rest, Stack(rest, m), rest # <<>>, \A c \in Calls(rest) : Spent(c)
  PROVE  LET s == <<Do("fail"), Do("save")>> \o rest
         IN /\ Stack(s, m) /\ s # <<>> /\ \A c \in Calls(s) : Spent(c)
            /\ SaveAhead(rest) => SaveAhead(s)
<1> DEFINE c == Do("fail")
           d == Do("save")
<1>1. Callable(c, m) /\ c.op = "fail" /\ Callable(d, m) /\ d.op = "save"
  BY CallForms DEF Do
<1>2. Spent(c) /\ Spent(d)
  BY <1>1 DEF Spent, Single, Live, Loops
<1> HIDE DEF c, d
<1>3. /\ Stack(<<c, d>> \o rest, m) /\ <<c, d>> \o rest # <<>>
      /\ Calls(<<c, d>> \o rest) = {c, d} \cup Calls(rest)
  BY <1>1, StackPushTwo
<1>4. /\ \A e \in Calls(<<c, d>> \o rest) : Spent(e)
      /\ SaveAhead(rest) => SaveAhead(<<c, d>> \o rest)
  BY <1>1, <1>2, <1>3 DEF SaveAhead
<1> QED
  BY <1>3, <1>4 DEF c, d

LEMMA RetryStepOver ==
  ASSUME TypeInv, OverInv, RetryStep
  PROVE  OverInv'
<1>1. todo # <<>> /\ Top.op = "retry"
  BY DEF RetryStep, Running
<1>2. /\ Stack(Rest, Len(runs)) /\ Rest # <<>> /\ Len(runs) \in Nat
      /\ Single(Top) /\ \A c \in Calls(Rest) : Spent(c)
      /\ obj.status = "SUCCEEDED" => AllOver
      /\ we.status = "SUCCEEDED" => AllOver \/ SaveAhead(Rest)
  BY <1>1, Underway, OverUnderway
<1>3. CASE Proceed(Rest)
  BY <1>1, <1>2, <1>3, ProceedOver
<1>4. ASSUME NEW n \in Top.nodes,
             RetryNode(n, <<[Top EXCEPT !.nodes = @ \ {n}]>> \o Rest, <<Do("fail")>> \o Rest)
      PROVE  OverInv'
  <2> DEFINE next == [Top EXCEPT !.nodes = @ \ {n}]
             fail == Do("fail")
  <2>1. n \in Nodes /\ Callable(next, Len(runs)) /\ next.op = "retry"
    BY <1>1, NextNode
  <2>2. Spent(next)
    BY <1>1, <1>2, <1>4, NextIsSpent DEF Loops
  <2>3. RetryNode(n, <<next>> \o Rest, <<fail>> \o Rest)
    BY <1>4
  <2>4. /\ Live(Top) /\ obj.status # "SUCCEEDED"
        /\ we.status = "SUCCEEDED" => AllOver /\ SaveAhead(Rest)
    BY <1>1, <1>4, OverUnderway DEF Live, Loops
  <2>5. Callable(fail, Len(runs)) /\ fail.op = "fail"
    BY <1>2, CallForms DEF Do
  <2>6. Spent(fail)
    BY <2>5 DEF Spent, Single, Live, Loops
  <2> HIDE DEF next, fail
  <2>7. /\ Stack(<<next>> \o Rest, Len(runs)) /\ <<next>> \o Rest # <<>>
        /\ Calls(<<next>> \o Rest) = {next} \cup Calls(Rest)
        /\ Stack(<<fail>> \o Rest, Len(runs)) /\ <<fail>> \o Rest # <<>>
        /\ Calls(<<fail>> \o Rest) = {fail} \cup Calls(Rest)
    BY <1>2, <2>1, <2>5, StackPush
  <2>8. /\ \A c \in Calls(<<next>> \o Rest) : Spent(c)
        /\ \A c \in Calls(<<fail>> \o Rest) : Spent(c)
        /\ SaveAhead(Rest) =>
             SaveAhead(<<next>> \o Rest) /\ SaveAhead(<<fail>> \o Rest)
    BY <1>2, <2>1, <2>2, <2>5, <2>6, <2>7 DEF SaveAhead
  <2> QED
    BY <1>1, <2>1, <2>3, <2>4, <2>7, <2>8, RetryNodeOver
<1> QED
  BY <1>3, <1>4 DEF RetryStep

\* compute_updated_status finds success only when nothing is in progress, and
\* nothing about to start.
LEMMA CheckIfCompleteOver ==
  ASSUME obj \in WorkflowExecution, NEW evals, NEW pending, CheckIfComplete(evals, pending)
  PROVE  \/ obj' = obj /\ we' = we
         \/ /\ obj' = we' /\ obj' \in [status : Status, finished : BOOLEAN, attempts : Int]
            /\ obj'.status = "SUCCEEDED" => AllOver /\ ~pending
<1> DEFINE status == ComputedStatus(obj, evals, pending)
           attempts == IF status = "FAILED" THEN OneMore(obj.attempts) ELSE obj.attempts
           done == [obj EXCEPT !.status = status, !.finished = TRUE, !.attempts = attempts]
<1>1. UNCHANGED <<obj, we>> \/ (status # obj.status /\ obj' = done /\ we' = done)
  BY DEF CheckIfComplete
<1>2. /\ status \in Status
      /\ (status # obj.status /\ status = "SUCCEEDED") => AllOver /\ ~pending
  BY DEF ComputedStatus, AllOver, LatestInProgress, WorkflowExecution, Status
<1>3. attempts \in Int
  BY LimitsAssumption DEF OneMore, WorkflowExecution
<1> HIDE DEF status, attempts
<1>4. /\ done \in [status : Status, finished : BOOLEAN, attempts : Int]
      /\ done.status = status
  BY <1>2, <1>3 DEF WorkflowExecution
<1> HIDE DEF done
<1> QED
  BY <1>1, <1>2, <1>4

LEMMA ActivatedAlone ==
  ASSUME TypeInv, Serial, NEW i \in DOMAIN runs
  PROVE  \A t, u \in { t \in Outbound(runs[i].node) : Activates(t, runs[i].status) } : t = u
<1>1. runs[i].status \in Status
  <2>1. runs \in Seq(Run)
    BY DEF TypeInv, TypeOK
  <2>2. runs[i] \in Run
    BY <2>1, ElementOfSeq
  <2> QED
    BY <2>2 DEF Run
<1>2. ASSUME NEW t \in Transitions, NEW u \in Transitions, Source[t] = Source[u],
             Activates(t, runs[i].status), Activates(u, runs[i].status)
      PROVE  t = u
  BY <1>1, <1>2 DEF Serial
<1> QED
  BY <1>2 DEF Outbound

LEMMA FinishedStepOver ==
  ASSUME TypeInv, Serial, OverInv, FinishedStep
  PROVE  OverInv'
<1> DEFINE i == Top.run
           activated == { t \in Outbound(runs[i].node) : Activates(t, runs[i].status) }
           activate == [op |-> "activate", transitions |-> activated,
                        retrying |-> Top.retrying, failed |-> FALSE]
<1>1. todo # <<>> /\ Top.op = "finished" /\ Live(Top)
  BY DEF FinishedStep, Running, Live
<1>2. /\ obj \in WorkflowExecution /\ Stack(Rest, Len(runs)) /\ Rest # <<>>
      /\ Len(runs) \in Nat /\ Top.retrying \in BOOLEAN /\ i \in DOMAIN runs
  BY <1>1, Underway, CallFields DEF Callable
<1>3. /\ \A c \in Calls(Rest) : Spent(c)
      /\ obj.status = "SUCCEEDED" => AllOver
      /\ we.status = "SUCCEEDED" => AllOver
      /\ we.status = "SUCCEEDED" /\ obj.status = "RUNNING" => SaveAhead(Rest)
  BY <1>1, OverUnderway
<1>4. activated \in SUBSET Transitions /\ \A t, u \in activated : t = u
  BY <1>2, ActivatedAlone DEF Outbound
<1> HIDE DEF i, activated
<1>5. CASE Proceed(Rest)
  BY <1>1, <1>2, <1>3, <1>5, ProceedOver
<1>6. CASE /\ CheckIfComplete(evaluations', activated # {})
           /\ todo' = IF obj'.status # "RUNNING" THEN Rest ELSE <<activate>> \o Rest
           /\ UNCHANGED runs
  <2>1. AllOver' = AllOver
    BY <1>6 DEF AllOver, LatestInProgress
  <2>2. \/ obj' = obj /\ we' = we
        \/ obj' = we' /\ (obj'.status = "SUCCEEDED" => AllOver)
    BY <1>2, <1>6, CheckIfCompleteOver
  <2>3. CASE obj'.status # "RUNNING"
    BY <1>2, <1>3, <1>6, <2>1, <2>2, <2>3, GoesOnSpent
  <2>4. CASE obj'.status = "RUNNING"
    <3>1. /\ Callable(activate, Len(runs)) /\ activate.op = "activate"
          /\ activate.transitions = activated
      BY <1>2, <1>4, CallForms
    <3> HIDE DEF activate
    <3>2. Single(activate)
      BY <1>4, <3>1 DEF Single, Loops
    <3>3. todo' = <<activate>> \o Rest
      BY <1>6, <2>4
    <3>4. we'.status = "SUCCEEDED" => AllOver' /\ SaveAhead(Rest)
      BY <1>3, <2>1, <2>2, <2>4
    <3> QED
      BY <1>2, <1>3, <2>4, <3>1, <3>2, <3>3, <3>4, GoesOnWith
  <2> QED
    BY <2>3, <2>4
<1>7. CASE todo' = <<Do("fail"), Do("save")>> \o Rest /\ UNCHANGED <<we, runs, obj>>
  <2>1. AllOver' = AllOver
    BY <1>7 DEF AllOver, LatestInProgress
  <2> QED
    BY <1>2, <1>3, <1>7, <2>1, FailAndSave, GoesOnSpent
<1> QED
  BY <1>5, <1>6, <1>7 DEF FinishedStep, i, activated

LEMMA ActivateStepOver ==
  ASSUME TypeInv, OverInv, ActivateStep
  PROVE  OverInv'
<1>1. todo # <<>> /\ Top.op = "activate"
  BY DEF ActivateStep, Running
<1>2. /\ Stack(Rest, Len(runs)) /\ Rest # <<>> /\ Len(runs) \in Nat
      /\ Single(Top) /\ \A c \in Calls(Rest) : Spent(c)
      /\ obj.status = "SUCCEEDED" => AllOver
      /\ we.status = "SUCCEEDED" => AllOver \/ SaveAhead(Rest)
  BY <1>1, Underway, OverUnderway
<1>3. CASE Proceed(IF Top.failed THEN <<Do("fail"), Do("save")>> \o Rest ELSE Rest)
  <2>1. CASE Top.failed
    BY <1>1, <1>2, <1>3, <2>1, FailAndSave, ProceedOver
  <2>2. CASE ~Top.failed
    BY <1>1, <1>2, <1>3, <2>2, ProceedOver
  <2> QED
    BY <2>1, <2>2
<1>4. ASSUME NEW t \in Top.transitions
      PROVE  LET n == Target[t]
                 next == [Top EXCEPT !.transitions = @ \ {t}]
                 rest == <<next>> \o Rest
                 raised == <<[next EXCEPT !.failed = TRUE]>> \o Rest
             IN Proceed(rest) \/ RetryNode(n, rest, raised) \/ StartNode(n, rest, raised)
                  => OverInv'
  <2> DEFINE n == Target[t]
             next == [Top EXCEPT !.transitions = @ \ {t}]
             failing == [next EXCEPT !.failed = TRUE]
  <2>1. /\ n \in Nodes
        /\ Callable(next, Len(runs)) /\ next.op = "activate"
        /\ Callable(failing, Len(runs)) /\ failing.op = "activate"
    BY <1>1, NextTransition
  <2>2. Spent(next) /\ Spent(failing)
    BY <1>1, <1>2, NextIsSpent
  <2>3. /\ obj.status # "SUCCEEDED"
        /\ we.status = "SUCCEEDED" => AllOver /\ SaveAhead(Rest)
    BY <1>1, <1>4, OverUnderway DEF Live
  <2> HIDE DEF failing, next, n
  <2>4. /\ Stack(<<next>> \o Rest, Len(runs)) /\ <<next>> \o Rest # <<>>
        /\ Calls(<<next>> \o Rest) = {next} \cup Calls(Rest)
        /\ Stack(<<failing>> \o Rest, Len(runs)) /\ <<failing>> \o Rest # <<>>
        /\ Calls(<<failing>> \o Rest) = {failing} \cup Calls(Rest)
    BY <1>2, <2>1, StackPush
  <2>5. /\ \A c \in Calls(<<next>> \o Rest) : Spent(c)
        /\ \A c \in Calls(<<failing>> \o Rest) : Spent(c)
        /\ SaveAhead(Rest) =>
             SaveAhead(<<next>> \o Rest) /\ SaveAhead(<<failing>> \o Rest)
    BY <1>2, <2>1, <2>2, <2>4 DEF SaveAhead
  <2>6. Proceed(<<next>> \o Rest) => OverInv'
    BY <1>1, <2>3, <2>4, <2>5, ProceedOver
  <2>7. RetryNode(n, <<next>> \o Rest, <<failing>> \o Rest) => OverInv'
    BY <1>1, <2>1, <2>3, <2>4, <2>5, RetryNodeOver
  <2>8. StartNode(n, <<next>> \o Rest, <<failing>> \o Rest) => OverInv'
    BY <1>1, <2>1, <2>3, <2>4, <2>5, StartNodeOver
  <2> QED
    BY <2>6, <2>7, <2>8 DEF failing, next, n
<1>5. CASE \E t \in Top.transitions :
             LET n == Target[t]
                 next == [Top EXCEPT !.transitions = @ \ {t}]
                 rest == <<next>> \o Rest
                 raised == <<[next EXCEPT !.failed = TRUE]>> \o Rest
             IN Proceed(rest) \/ RetryNode(n, rest, raised) \/ StartNode(n, rest, raised)
  BY <1>4, <1>5
<1> QED
  BY <1>3, <1>5 DEF ActivateStep

LEMMA ShortStepOver ==
  ASSUME TypeInv, OverInv,
         CompleteStep \/ FailStep \/ SaveStep \/ ResumeStep \/ RefreshStep
  PROVE  OverInv'
<1>1. todo # <<>> /\ Top.op # "commit" /\ todo' = Rest /\ runs' = runs
  BY DEF CompleteStep, FailStep, SaveStep, ResumeStep, RefreshStep, Running
<1>2. /\ obj \in WorkflowExecution /\ Stack(Rest, Len(runs)) /\ Rest # <<>>
      /\ Len(runs) \in Nat
      /\ \A c \in Calls(Rest) : Spent(c)
      /\ obj.status = "SUCCEEDED" => AllOver
      /\ we.status = "SUCCEEDED" => AllOver \/ SaveAhead(todo)
      /\ (Top.op # "save" /\ SaveAhead(todo)) => SaveAhead(Rest)
      /\ Single(Top) /\ Top \in Calls(todo)
  BY <1>1, Underway, OverUnderway
<1>3. AllOver' = AllOver
  BY <1>1 DEF AllOver, LatestInProgress
<1>4. /\ obj'.status = "SUCCEEDED" => AllOver
      /\ we'.status = "SUCCEEDED" => AllOver \/ SaveAhead(Rest)
  <2>1. CASE CompleteStep
    <3>1. \/ obj' = obj /\ we' = we
          \/ obj' = we' /\ (obj'.status = "SUCCEEDED" => AllOver)
      BY <1>2, <2>1, CheckIfCompleteOver DEF CompleteStep
    <3>2. Top.op # "save"
      BY <2>1 DEF CompleteStep, Running
    <3> QED
      BY <1>2, <3>1, <3>2
  <2>2. CASE FailStep
    BY <1>2, <2>2 DEF FailStep, Running, WorkflowExecution
  <2>3. CASE SaveStep
    BY <1>2, <2>3 DEF SaveStep
  <2>4. CASE ResumeStep
    BY <1>2, <2>4 DEF ResumeStep, Running, Single
  <2>5. CASE RefreshStep
    <3>1. ~SaveAhead(todo)
      BY <1>2, <2>5 DEF RefreshStep, Running, SaveAhead
    <3> QED
      BY <1>2, <2>5, <3>1 DEF RefreshStep
  <2> QED
    BY <2>1, <2>2, <2>3, <2>4, <2>5
<1> QED
  BY <1>1, <1>2, <1>3, <1>4, GoesOnSpent

LEMMA CommitStepOver ==
  ASSUME TypeInv, OverInv, CommitStep
  PROVE  OverInv'
<1>1. todo # <<>> /\ Top.op = "commit" /\ todo' = Rest /\ we' = we /\ runs' = runs
  BY DEF CommitStep, Running
<1>2. Rest = <<>> /\ Calls(todo) = {Top}
  <2>1. Rest = <<>> /\ Calls(todo) = {Top} \cup Calls(Rest) /\ Len(runs) \in Nat
    BY <1>1, Underway
  <2>2. Calls(<<>>) = {}
    BY <2>1, StackCommit
  <2> QED
    BY <2>1, <2>2
<1>3. ~SaveAhead(todo)
  BY <1>1, <1>2 DEF SaveAhead
<1>4. we.status = "SUCCEEDED" => AllOver
  BY <1>1, <1>3, OverUnderway
<1> QED
  BY <1>1, <1>2, <1>4 DEF OverInv, AllOver, LatestInProgress

LEMMA StepOver ==
  ASSUME TypeInv, Serial, OverInv, Step
  PROVE  OverInv'
BY StartStepOver, RetryStepOver, FinishedStepOver, ActivateStepOver, ShortStepOver,
   CommitStepOver DEF Step

LEMMA SaveRunOver ==
  ASSUME TypeInv, OverInv, Idle, NEW i \in DOMAIN runs, NEW run,
         run.latest = runs[i].latest, InProgress(run.status) => InProgress(runs[i].status),
         SaveRun(i, run)
  PROVE  OverInv'
<1> DEFINE c == Finished(i, FALSE)
           rest == <<Do("commit")>>
<1>1. todo = <<>> /\ we' = we /\ runs' = [runs EXCEPT ![i] = run] /\ Len(runs) \in Nat
      /\ DOMAIN runs = 1 .. Len(runs)
  BY AtRest DEF SaveRun
<1>2. we.status = "SUCCEEDED" => AllOver
  BY <1>1 DEF OverInv
<1>3. AllOver => AllOver'
  BY <1>1 DEF AllOver, LatestInProgress
<1>4. CASE obj' = we /\ todo' = <<c, Do("commit")>>
  <2>1. Callable(c, Len(runs)) /\ c.op = "finished"
    BY <1>1, CallForms DEF Finished
  <2>2. Single(c)
    BY <2>1 DEF Single, Loops
  <2>3. /\ Stack(rest, Len(runs)) /\ rest # <<>> /\ Calls(rest) = {Do("commit")}
    BY <1>1, StackCommit
  <2>4. \A d \in Calls(rest) : Spent(d)
    BY <2>3 DEF Do, Spent, Single, Live, Loops
  <2>5. todo' = <<c>> \o rest
    <3>1. c \in Call
      BY <2>1 DEF Callable
    <3> HIDE DEF c
    <3>2. <<c, Do("commit")>> = <<c>> \o rest
      BY <3>1 DEF Do, Call
    <3> QED
      BY <1>4, <3>2 DEF c
  <2> HIDE DEF c, rest
  <2> QED
    BY <1>1, <1>2, <1>3, <1>4, <2>1, <2>2, <2>3, <2>4, <2>5, GoesOnWith
<1>5. CASE UNCHANGED todo
  BY <1>1, <1>2, <1>3, <1>5 DEF OverInv
<1> QED
  BY <1>4, <1>5 DEF SaveRun, HandlesEnd

LEMMA ReportOver ==
  ASSUME TypeInv, OverInv, NEW i \in DOMAIN runs,
         NEW request \in UpdateStatuses, request # "MANUALLY_STARTED", Report(i, request)
  PROVE  OverInv'
<1> DEFINE run == runs[i]
           status == UpdatedStatus(run.status, request)
           finished == run.finished \/ SetsFinished(run.status, request)
           updated == [run EXCEPT !.status = status, !.finished = finished]
<1>1. Idle /\ run \in Run /\ ~UpdateConflicts(run.status, request)
  BY AtRest, ElementOfSeq DEF Report
<1>2. SaveRun(i, updated)
  BY DEF Report
<1>3. InProgress(status) => InProgress(run.status)
  BY <1>1 DEF UpdatedStatus, UpdateConflicts, AsHeartbeat, InProgress,
    InProgressStatuses, AwaitingUpdateStatuses
<1> HIDE DEF status, finished
<1>4. updated.status = status /\ updated.latest = run.latest
  BY <1>1 DEF Run
<1> HIDE DEF updated
<1> QED
  BY <1>1, <1>2, <1>3, <1>4, SaveRunOver

LEMMA CheckRunOver ==
  ASSUME TypeInv, OverInv, NEW i \in DOMAIN runs, CheckRun(i)
  PROVE  OverInv'
<1> DEFINE run == runs[i]
           finished == run.status # "MANUALLY_STARTED"
           abandoned == [run EXCEPT !.status = "ABANDONED", !.finished = finished]
           stopping == [run EXCEPT !.status = "STOPPING"]
<1>1. Idle /\ run \in Run
  BY AtRest, ElementOfSeq DEF CheckRun
<1>2. abandoned.latest = run.latest /\ ~InProgress(abandoned.status)
  BY <1>1 DEF Run, InProgress, InProgressStatuses
<1>3. stopping.latest = run.latest /\ ~InProgress(stopping.status)
  BY <1>1 DEF Run, InProgress, InProgressStatuses
<1>4. SaveRun(i, abandoned) \/ SaveRun(i, stopping)
  BY DEF CheckRun
<1> HIDE DEF abandoned, stopping
<1> QED
  BY <1>1, <1>2, <1>3, <1>4, SaveRunOver

LEMMA StopExecutionOver ==
  ASSUME TypeInv, OverInv, StopExecution
  PROVE  OverInv'
<1>1. todo = <<>> /\ todo' = <<>> /\ we \in WorkflowExecution
  BY AtRest DEF StopExecution, HandleStopRequested, Idle
<1>2. we'.status # "SUCCEEDED"
  BY <1>1 DEF StopExecution, HandleStopRequested, WorkflowExecution
<1> QED
  BY <1>1, <1>2 DEF OverInv

\* A retry begins with nothing in progress, and with the only root there is.
LEMMA BeginRetryOver ==
  ASSUME TypeInv, Serial, OverInv, Idle, NEW attempts, BeginRetry(attempts)
  PROVE  OverInv'
<1> DEFINE c == [op |-> "retry", nodes |-> Roots]
           d == Do("complete")
           e == Do("save")
           rest == <<d, e, Do("commit")>>
<1>1. /\ obj' = [status |-> "RUNNING", finished |-> FALSE, attempts |-> attempts]
      /\ todo' = <<c, d, e, Do("commit")>>
      /\ \E S : runs' = Invalidated(WithRunningStopped(TRUE), S)
  BY DEF BeginRetry
<1>2. AllOver'
  <2> DEFINE rs == WithRunningStopped(TRUE)
  <2>1. rs \in Seq(Run) /\ \A i \in DOMAIN rs : ~(rs[i].latest /\ InProgress(rs[i].status))
    BY WithRunningStoppedType, StoppedAreOver
  <2> HIDE DEF rs
  <2>2. PICK S : runs' = Invalidated(rs, S)
    BY <1>1 DEF rs
  <2>3. ASSUME NEW i \in DOMAIN rs
        PROVE  runs'[i].status = rs[i].status /\ (runs'[i].latest => rs[i].latest)
    <3> DEFINE b == rs[i].latest /\ rs[i].node \notin Reachable(S)
    <3>1. rs[i] \in Run /\ (b => rs[i].latest)
      BY <2>1, ElementOfSeq, LenProperties
    <3>2. runs'[i] = [rs[i] EXCEPT !.latest = b]
      BY <2>2 DEF Invalidated
    <3> HIDE DEF b
    <3> QED
      BY <3>1, <3>2 DEF Run
  <2>4. DOMAIN runs' = DOMAIN rs
    BY <2>2 DEF Invalidated
  <2> QED
    BY <2>1, <2>3, <2>4 DEF AllOver, LatestInProgress
<1>3. Len(runs) \in Nat
  BY AtRest
<1>4. /\ Callable(c, Len(runs)) /\ c.op = "retry" /\ c.nodes = Roots
      /\ Callable(d, Len(runs)) /\ d.op = "complete"
      /\ Callable(e, Len(runs)) /\ e.op = "save"
  <2>1. Roots \in SUBSET Nodes
    BY DEF Roots
  <2> QED
    BY <1>3, <2>1, CallForms DEF Do
<1>5. Single(c)
  BY <1>4 DEF Single, Loops, Serial
<1>6. Spent(d) /\ Spent(e) /\ Spent(Do("commit"))
  BY <1>4 DEF Do, Spent, Single, Live, Loops
<1> HIDE DEF c, d, e
<1>7. todo' = <<c>> \o rest
  <2>1. c \in Call /\ d \in Call /\ e \in Call /\ Do("commit") \in Call
    BY <1>4 DEF Callable, Do, Call
  <2>2. <<c, d, e, Do("commit")>> = <<c>> \o rest
    BY <2>1
  <2> QED
    BY <1>1, <2>2
<1>8. /\ Stack(rest, Len(runs)) /\ rest # <<>>
      /\ Calls(rest) = {d, e, Do("commit")}
  BY <1>3, <1>4, TransactionOfThree
<1> HIDE DEF rest
<1>9. SaveAhead(rest) /\ \A f \in Calls(rest) : Spent(f)
  BY <1>4, <1>6, <1>8 DEF SaveAhead, Do
<1> QED
  BY <1>1, <1>2, <1>3, <1>4, <1>5, <1>7, <1>8, <1>9, GoesOnWith

LEMMA ExpireOver ==
  ASSUME TypeInv, Serial, OverInv, Expire
  PROVE  OverInv'
<1>1. Idle /\ todo = <<>>
  BY AtRest DEF Expire
<1>2. CASE BeginRetry(OneMore(we.attempts))
  BY <1>1, <1>2, BeginRetryOver
<1>3. CASE we'.status = "TERMINATED_AFTER_TIME_OUT" /\ UNCHANGED todo
  BY <1>1, <1>3 DEF OverInv
<1>4. \/ BeginRetry(OneMore(we.attempts))
      \/ we'.status = "TERMINATED_AFTER_TIME_OUT" /\ UNCHANGED todo
  <2> DEFINE attempts == OneMore(we.attempts)
  <2> HIDE DEF attempts
  <2>1. \/ BeginRetry(attempts)
        \/ /\ we' = [status |-> "TERMINATED_AFTER_TIME_OUT", finished |-> TRUE,
                     attempts |-> attempts]
           /\ UNCHANGED todo
    BY DEF Expire, attempts
  <2> QED
    BY <2>1 DEF attempts
<1> QED
  BY <1>2, <1>3, <1>4

LEMMA StartNodesOver ==
  ASSUME TypeInv, Serial, NEW S \in Selections, StartNodes(S)
  PROVE  OverInv'
<1> DEFINE c == [op |-> "start", nodes |-> S]
           d == Do("refresh")
           e == Do("complete")
           rest == <<d, e, Do("commit")>>
<1>1. /\ Idle /\ we' = [we EXCEPT !.status = "RUNNING"] /\ obj' = we'
      /\ todo' = <<c, d, e, Do("commit")>>
  BY DEF StartNodes
<1>2. Len(runs) \in Nat /\ we'.status = "RUNNING" /\ obj'.status = "RUNNING"
  BY <1>1, AtRest DEF WorkflowExecution
<1>3. /\ Callable(c, Len(runs)) /\ c.op = "start" /\ c.nodes = S
      /\ Callable(d, Len(runs)) /\ d.op = "refresh"
      /\ Callable(e, Len(runs)) /\ e.op = "complete"
  <2>1. S \in SUBSET Nodes
    BY NodesAssumption
  <2> QED
    BY <1>2, <2>1, CallForms DEF Do
<1>4. Single(c)
  BY <1>3 DEF Single, Loops, Serial
<1>5. Spent(d) /\ Spent(e) /\ Spent(Do("commit"))
  BY <1>3 DEF Do, Spent, Single, Live, Loops
<1> HIDE DEF c, d, e
<1>6. todo' = <<c>> \o rest
  <2>1. c \in Call /\ d \in Call /\ e \in Call /\ Do("commit") \in Call
    BY <1>3 DEF Callable, Do, Call
  <2>2. <<c, d, e, Do("commit")>> = <<c>> \o rest
    BY <2>1
  <2> QED
    BY <1>1, <2>2
<1>7. /\ Stack(rest, Len(runs)) /\ rest # <<>>
      /\ Calls(rest) = {d, e, Do("commit")}
  BY <1>2, <1>3, TransactionOfThree
<1> HIDE DEF rest
<1>8. \A f \in Calls(rest) : Spent(f)
  BY <1>5, <1>7
<1> QED
  BY <1>2, <1>3, <1>4, <1>6, <1>7, <1>8, GoesOnWith

LEMMA InitOver ==
  ASSUME Serial, Init
  PROVE  OverInv
<1> DEFINE c == [op |-> "start", nodes |-> Roots]
           d == Do("complete")
           rest == <<d, Do("commit")>>
<1>1. /\ we.status = "RUNNING" /\ obj.status = "RUNNING"
      /\ todo = <<c, d, Do("commit")>>
  BY DEF Init
<1>2. /\ Callable(c, 0) /\ c.op = "start" /\ c.nodes = Roots
      /\ Callable(d, 0) /\ d.op = "complete"
  <2>1. Roots \in SUBSET Nodes
    BY DEF Roots
  <2> QED
    BY <2>1, CallForms DEF Do
<1>3. Single(c)
  BY <1>2 DEF Single, Loops, Serial
<1>4. Spent(d) /\ Spent(Do("commit"))
  BY <1>2 DEF Do, Spent, Single, Live, Loops
<1> HIDE DEF c, d
<1>5. c \in Call /\ d \in Call /\ Do("commit") \in Call
  BY <1>2 DEF Callable, Do, Call
<1>6. todo = <<c>> \o rest /\ rest \in Seq(Call)
  <2>1. <<c, d, Do("commit")>> = <<c>> \o rest /\ rest \in Seq(Call)
    BY <1>5
  <2> QED
    BY <1>1, <2>1
<1>7. Calls(rest) = {d, Do("commit")}
  BY <1>2, TransactionOfTwo
<1>8. todo # <<>>
  BY <1>1
<1> HIDE DEF rest
<1>9. Top = c /\ Rest = rest
  BY <1>5, <1>6, StackTop DEF Top, Rest
<1> QED
  BY <1>1, <1>3, <1>4, <1>7, <1>8, <1>9 DEF OverInv

LEMMA NextOver ==
  ASSUME "MANUALLY_STARTED" \notin UpdateStatuses, Serial, TypeInv, OverInv, [Next]_vars
  PROVE  OverInv'
<1>1. CASE UNCHANGED vars
  BY <1>1 DEF vars, OverInv, AllOver, LatestInProgress, Top, Rest, SaveAhead
<1>2. CASE Step
  BY <1>2, StepOver
<1>3. ASSUME NEW i \in DOMAIN runs, NEW request \in UpdateStatuses, Report(i, request)
      PROVE  OverInv'
  BY <1>3, ReportOver
<1>4. ASSUME NEW i \in DOMAIN runs, CheckRun(i)
      PROVE  OverInv'
  BY <1>4, CheckRunOver
<1>5. CASE StopExecution
  BY <1>5, StopExecutionOver
<1>6. CASE RetryExecution
  BY <1>6, BeginRetryOver DEF RetryExecution
<1>7. CASE Expire
  BY <1>7, ExpireOver
<1>8. ASSUME NEW S \in Selections, StartNodes(S)
      PROVE  OverInv'
  BY <1>8, StartNodesOver
<1> QED
  BY <1>1, <1>2, <1>3, <1>4, <1>5, <1>6, <1>7, <1>8 DEF Next

\* In a workflow that does one thing after another, success is declared only when
\* nothing is in progress, whatever starts are refused or raise, at whatever depth of
\* the calls that handle one another's ends, and however the workflow is stopped,
\* retried and started at its nodes (compute_updated_status, and all that saves what
\* it has computed).
THEOREM SuccessIsOver ==
  ASSUME "MANUALLY_STARTED" \notin UpdateStatuses, Serial
  PROVE  Spec => []SucceededIsOver
<1> DEFINE Inv == TypeInv /\ OverInv
<1>1. Init => Inv
  BY InitType, InitOver
<1>2. Inv /\ [Next]_vars => Inv'
  <2> SUFFICES ASSUME Inv, [Next]_vars PROVE Inv'
    OBVIOUS
  <2>1. TypeInv'
    BY NextType
  <2>2. OverInv'
    BY NextOver
  <2> QED
    BY <2>1, <2>2
<1>3. Inv => SucceededIsOver
  BY DEF OverInv, AllOver, SucceededIsOver, Idle
<1> HIDE DEF Inv
<1> QED
  BY <1>1, <1>2, <1>3, PTL DEF Spec

=============================================================================
