---------------------------- MODULE WorkflowStart ----------------------------
(***************************************************************************)
(* How an execution of a Workflow is admitted, and what becomes of the row *)
(* of the Workflow meanwhile.  The request reads the row, counts what      *)
(* runs, deletes history over the limit of the group's subscriptions,      *)
(* inserts the execution, starts its first nodes, and last of all saves    *)
(* every column of the Workflow, as it was read, with the execution as the *)
(* latest one.  A request that edits the Workflow saves every column too.  *)
(*                                                                         *)
(* A transaction shows nothing of what it does before it is committed, and *)
(* whoever writes a row waits for the transaction that has written it.     *)
(* The last write of a request and its commit are one step.                *)
(***************************************************************************)
EXTENDS Integers, FiniteSets, FiniteSetsExt

CONSTANTS
  None,           \* NULL
  Starts,         \* requests to start the Workflow; each names its execution
  Scheduled,      \* those that come from the schedule
  Edits,          \* requests that edit the Workflow
  Concurrencies,  \* values of max_concurrency
  SometimesRuns,  \* whether managed_probability is less than one
  Plans,          \* the plans of the group's subscriptions
  PlanLimit,      \* plan -> its max_workflow_execution_history_items, or None
  DefaultLimit,   \* the limit without a subscription
  MaxRenewals,    \* bound on subscriptions that begin or end
  MaxCrashes      \* bound on the requests whose transaction is aborted

Requests == Starts \cup Edits

VARIABLES
  rows,       \* the executions of the Workflow, by what made them
  workflow,   \* the row of the Workflow
  request,    \* request -> what it has done
  active,     \* the subscriptions that are in force
  clock, renewals, crashes,
  last,       \* the execution that was committed last, unless deleted
  edited,     \* the edit that was committed last
  met,        \* request -> what kinds of requests it has overlapped with
  muddled,    \* columns that an overlap may have taken back
  widest      \* the largest limits that were ever set

vars ==
  <<rows, workflow, request, active, clock, renewals, crashes, last, edited, met,
    muddled, widest>>

Instant == 0 .. 2 * Cardinality(Starts)

Execution ==
  [ started  : Instant,
    finished : Instant \cup {None} ]   \* NULL exactly while it is RUNNING

Workflow == [ maxConcurrency : Concurrencies, latest : Starts \cup {None} ]

Stage == { "new", "loaded", "admitted", "inserted", "done" }

Existing == DOMAIN rows
Kind(q) == IF q \in Starts THEN "start" ELSE "edit"
UnderWay == { q \in Requests : request[q].stage \notin {"new", "done"} }

TypeOK ==
  /\ Existing \subseteq Starts /\ rows \in [Existing -> Execution]
  /\ workflow \in Workflow
  /\ request \in [Requests -> [ stage : Stage, copy : Workflow \cup {None},
                                victims : SUBSET Starts, waits : SUBSET Starts,
                                row : Execution \cup {None} ]]
  /\ active \subseteq Plans /\ clock \in Instant
  /\ last \in Starts \cup {None} /\ edited \in Concurrencies
  /\ met \in [Requests -> SUBSET {"start", "edit"}]
  /\ muddled \subseteq {"latest", "maxConcurrency"}

\* The limits of all plans are added up, and a plan without a limit leaves none.
AddLimits(x, y) == IF None \in {x, y} THEN None ELSE x + y

\* compute_usage_limits
Limit ==
  IF active = {} THEN DefaultLimit
  ELSE MapThenFoldSet(AddLimits, 0, LAMBDA p : PlanLimit[p],
                      LAMBDA plans : CHOOSE p \in plans : TRUE, active)

Wider(a, b) == IF None \in {a, b} THEN None ELSE Max({a, b})

Init ==
  /\ rows = <<>>
  /\ workflow \in [ maxConcurrency : Concurrencies, latest : {None} ]
  /\ request = [ q \in Requests |->
                   [ stage |-> "new", copy |-> None, victims |-> {}, waits |-> {},
                     row |-> None ] ]
  /\ active \in SUBSET Plans
  /\ clock = 0 /\ renewals = 0 /\ crashes = 0
  /\ last = None /\ edited = workflow.maxConcurrency
  /\ met = [q \in Requests |-> {}] /\ muddled = {}
  /\ widest = [history |-> Limit, concurrency |-> edited]

-----------------------------------------------------------------------------
\* The request reads the Workflow, with the serializer's validation.
Load(q) ==
  /\ request[q].stage = "new"
  /\ request' = [request EXCEPT ![q].stage = "loaded", ![q].copy = workflow]
  /\ met' = [ x \in Requests |->
                IF x = q THEN { Kind(y) : y \in UnderWay }
                ELSE IF x \in UnderWay THEN met[x] \cup {Kind(q)} ELSE met[x] ]
  /\ UNCHANGED <<rows, workflow, active, clock, renewals, crashes, last, edited, muddled,
                 widest>>

Finished(q) ==
  [request EXCEPT ![q] = [ stage |-> "done", copy |-> None, victims |-> {}, waits |-> {},
                           row |-> None ]]

\* The request ends and leaves nothing behind.
Leave(q) ==
  /\ request' = Finished(q)
  /\ met' = [met EXCEPT ![q] = {}]

\* A scheduled start is left out by chance.
Skip(q) ==
  /\ q \in Scheduled /\ SometimesRuns
  /\ request[q].stage = "loaded"
  /\ Leave(q)
  /\ UNCHANGED <<rows, workflow, active, clock, renewals, crashes, last, edited, muddled,
                 widest>>

Running == { e \in Existing : rows[e].finished = None }

\* A variant that admits one more.
CanStartExecution_OneMore(copy) ==
  copy.maxConcurrency > 0 => Cardinality(Running) <= copy.maxConcurrency

CanStartExecution(copy) ==
  copy.maxConcurrency > 0 => Cardinality(Running) < copy.maxConcurrency

Admit(q) ==
  /\ request[q].stage = "loaded"
  /\ IF CanStartExecution(request[q].copy)
     THEN request' = [request EXCEPT ![q].stage = "admitted"] /\ UNCHANGED met
     ELSE Leave(q)
  /\ UNCHANGED <<rows, workflow, active, clock, renewals, crashes, last, edited, muddled,
                 widest>>

\* The first n of a set of executions in an order: all, if they are fewer.
FirstOf(n, set, Time(_)) ==
  CHOOSE first \in SUBSET set :
    /\ Cardinality(first) = IF n < Cardinality(set) THEN n ELSE Cardinality(set)
    /\ \A a \in first, b \in set \ first : Time(a) < Time(b)

FirstEnded(n) == FirstOf(n, Existing \ Running, LAMBDA e : rows[e].finished)
FirstStarted(n) == FirstOf(n, Running, LAMBDA e : rows[e].started)

TooMany(reservation) ==
  IF Limit = None THEN 0 ELSE Cardinality(Existing) - (Limit - reservation)

\* purge_history: what has ended goes first, by when it ended, then what runs.
Purged(reservation) ==
  LET n == TooMany(reservation)
      ended == FirstEnded(n)
  IN IF n <= 0 THEN {} ELSE ended \cup FirstStarted(n - Cardinality(ended))

\* Rows that a transaction has deleted are locked, and with the latest one the
\* Workflow that refers to it; one that waits itself has not come to that.
Locked(others) ==
  UNION { request[x].victims : x \in { y \in others : request[y].waits \cap UnderWay = {} } }

WorkflowLocked(others) == workflow.latest # None /\ workflow.latest \in Locked(others)

\* A variant in which the Workflow keeps the reference.
LatestAfter_Kept(latest, gone) == latest

\* on_delete=SET_NULL
LatestAfter(latest, gone) == IF latest \in gone THEN None ELSE latest

\* The purge, the insertion, and what becomes of the start of the first nodes:
\* the execution runs, has nothing to run, or has failed.  A victim that another
\* transaction has deleted makes this one wait for it; no other is looked for.
Insert(q) ==
  LET victims == Purged(1)
      others == UnderWay \ {q}
  IN /\ request[q].stage = "admitted"
     /\ \E finished \in {None, clock} :
          request' = [request EXCEPT
            ![q] = [ stage |-> "inserted", copy |-> @.copy, victims |-> victims,
                     waits |-> { x \in others : request[x].victims \cap victims # {} },
                     row |-> [started |-> clock, finished |-> finished] ]]
     /\ clock' = clock + 1
     /\ UNCHANGED <<rows, workflow, active, renewals, crashes, last, edited, met, muddled,
                    widest>>

\* The Workflow is saved and the transaction committed.
FinishStart(q) ==
  LET r == request[q]
  IN /\ r.stage = "inserted"
     /\ r.waits \cap UnderWay = {}
     /\ ~WorkflowLocked(UnderWay \ {q})
     /\ rows' = [e \in (Existing \ r.victims) \cup {q} |-> IF e = q THEN r.row ELSE rows[e]]
     /\ workflow' = [r.copy EXCEPT !.latest = q]
     /\ request' = Finished(q)
     /\ last' = q
     /\ muddled' = (muddled \ {"latest"})
                     \cup (IF "edit" \in met[q] THEN {"maxConcurrency"} ELSE {})
     /\ UNCHANGED <<active, clock, renewals, crashes, edited, met, widest>>

\* An edit saves every column; the database refuses one that refers to an
\* execution that was deleted in the meantime.
FinishEdit(q) ==
  LET copy == request[q].copy
  IN /\ q \in Edits /\ request[q].stage = "loaded"
     /\ ~WorkflowLocked(UnderWay \ {q})
     /\ Leave(q)
     /\ IF copy.latest \in Existing \cup {None}
        THEN /\ \E value \in Concurrencies :
                  /\ workflow' = [copy EXCEPT !.maxConcurrency = value]
                  /\ edited' = value
                  /\ widest' = [widest EXCEPT !.concurrency = Max({@, value})]
             /\ muddled' = (muddled \ {"maxConcurrency"})
                             \cup (IF "start" \in met[q] THEN {"latest"} ELSE {})
        ELSE UNCHANGED <<workflow, edited, muddled, widest>>
     /\ UNCHANGED <<rows, active, clock, renewals, crashes, last>>

\* The transaction is aborted: the process dies, or the database finds a deadlock.
Crash(q) ==
  /\ crashes < MaxCrashes
  /\ q \in UnderWay
  /\ crashes' = crashes + 1
  /\ Leave(q)
  /\ UNCHANGED <<rows, workflow, active, clock, renewals, last, edited, muddled, widest>>

\* The last node of an execution ends.  (One that is being deleted is left out.)
End(e) ==
  /\ e \in Running \ Locked(UnderWay)
  /\ rows' = [rows EXCEPT ![e].finished = clock]
  /\ clock' = clock + 1
  /\ UNCHANGED <<workflow, request, active, renewals, crashes, last, edited, met, muddled,
                 widest>>

\* The usage limit enforcer, once a day, without a transaction.  (It begins once
\* those are done that are deleting the same rows.)
Enforce ==
  LET gone == Purged(0)
  IN /\ gone # {}
     /\ gone \cap Locked(UnderWay) = {}
     /\ rows' = [e \in Existing \ gone |-> rows[e]]
     /\ workflow' = [workflow EXCEPT !.latest = LatestAfter(@, gone)]
     /\ last' = IF last \in gone THEN None ELSE last
     /\ UNCHANGED <<request, active, clock, renewals, crashes, edited, met, muddled, widest>>

\* A subscription begins, ends or is cancelled.
Renew(p) ==
  /\ renewals < MaxRenewals
  /\ renewals' = renewals + 1
  /\ active' = IF p \in active THEN active \ {p} ELSE active \cup {p}
  /\ widest' = [widest EXCEPT !.history = Wider(@, Limit')]
  /\ UNCHANGED <<rows, workflow, request, clock, crashes, last, edited, met, muddled>>

Next ==
  \/ \E q \in Requests : Load(q) \/ Crash(q)
  \/ \E q \in Starts : Skip(q) \/ Admit(q) \/ Insert(q) \/ FinishStart(q)
  \/ \E q \in Edits : FinishEdit(q)
  \/ \E e \in Starts : End(e)
  \/ Enforce
  \/ \E p \in Plans : Renew(p)

Spec == Init /\ [][Next]_vars

-----------------------------------------------------------------------------
(* Properties.                                                             *)

\* However starts overlap, the Workflow names the execution that was committed
\* last, for as long as that exists, and is as the last edit left it.  Excepted
\* are a start and an edit that overlapped: each takes back what the other saved.
WorkflowRowIsCurrent ==
  /\ workflow.latest \in Existing \cup {None}
  /\ "latest" \in muddled \/ workflow.latest = last
  /\ "maxConcurrency" \in muddled \/ workflow.maxConcurrency = edited

Together == { q \in Starts : "start" \in met[q] }

\* Only starts that overlapped take the history, or what runs at once, beyond the
\* limits: those of the subscriptions and of the Workflow, whatever they have been.
LimitsHold ==
  /\ widest.history # None => Cardinality(Existing \ Together) <= widest.history
  /\ Cardinality(Running \ Together) <= widest.concurrency

=============================================================================
