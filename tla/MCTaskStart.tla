----------------------------- MODULE MCTaskStart -----------------------------
(* TLC instances of TaskStart, of ServiceConcurrency for the executions of  *)
(* a service, which are as many as are found running, and of ProcessStart   *)
(* for what one process is told.                                            *)
EXTENDS TaskRuns, TLC

CONSTANTS w1, w2, m1, m2, e1, e2

VARIABLE instance   \* which of the three is explored

Symmetric == Permutations({ e1, e2 })

\* Tasks of each method with settings of their own and without, with variables of
\* the wrapper that are overridden or removed, with one container and with two.
Plain ==
  [ method |-> "AWS ECS", interval |-> None, concurrency |-> None, cpu |-> None,
    main |-> None, overrides |-> [v \in {} |-> 0], monitored |-> FALSE ]

SomeTasks ==
  { [Plain EXCEPT !.method = m, !.interval = i, !.concurrency = c] :
      m \in { "AWS ECS", "AWS CodeBuild", "AWS Lambda" }, i \in {None, 1}, c \in {None, 2} }
  \cup { [Plain EXCEPT !.interval = 1, !.overrides = o, !.monitored = b] :
           o \in { [interval |-> 2], [interval |-> None, app |-> 1] }, b \in BOOLEAN }
  \cup { [Plain EXCEPT !.cpu = 3, !.main = k] : k \in {None, 1, 2} }

\* Requests that leave everything to the Task, or name some of it.
Nothing ==
  [ interval |-> None, concurrency |-> None, overrides |-> [v \in {} |-> 0],
    cpu |-> None, main |-> None ]

SomeBodies ==
  { Nothing, [Nothing EXCEPT !.interval = 2, !.concurrency = 1],
    [Nothing EXCEPT !.interval = 0, !.concurrency = 0],
    [Nothing EXCEPT !.overrides = [concurrency |-> 1]],
    [Nothing EXCEPT !.overrides = [interval |-> 1, app |-> None]],
    [Nothing EXCEPT !.cpu = 2, !.main = 2] }
  \cup { [Nothing EXCEPT !.cpu = n] : n \in {1, 4} }

MCInit ==
  /\ Init /\ Service!Init /\ Telling!Init
  /\ \/ instance \in { "starts", "telling" } /\ service.required = 1
     \/ instance = "service"

MCNext ==
  /\ \/ instance = "starts" /\ Next /\ UNCHANGED <<servicevars, toldvars>>
     \/ instance = "service" /\ Service!Next /\ UNCHANGED <<vars, toldvars>>
     \/ instance = "telling" /\ Telling!Next /\ UNCHANGED <<vars, servicevars>>
  /\ UNCHANGED instance

MCSpec == MCInit /\ [][MCNext]_<<vars, servicevars, toldvars, instance>>

=============================================================================
