---------------------------- MODULE WorkflowGraph ----------------------------
(***************************************************************************)
(* How the graphs of Workflows are edited: the nodes (WorkflowTaskInstance) *)
(* and the transitions between them, sent with a Workflow as one document,  *)
(* or one at a time, and copied when a Workflow is cloned.  Nothing in the  *)
(* database ties a transition to a Workflow but its two ends.               *)
(*                                                                         *)
(* A request is one transaction, and one that is refused changes nothing.  *)
(***************************************************************************)
EXTENDS FiniteSets

CONSTANTS
  None,        \* no row; the transitions are not sent
  Workflows, Nodes, Names, Transitions

ASSUME NoneAssumption == None \notin Workflows \cup Nodes \cup Names \cup Transitions
ASSUME FiniteAssumption == IsFiniteSet(Nodes) /\ IsFiniteSet(Transitions)

VARIABLES
  workflows,   \* those that exist
  node,        \* the row of each node: its Workflow and its name there
  transition,  \* the row of each transition: its two ends
  asked        \* what the last request wants the graph of a Workflow to be

vars == <<workflows, node, transition, asked>>

Node == [workflow : Workflows, name : Names]
Transition == [from : Nodes, to : Nodes]

ASSUME RowsAssumption == None \notin Node \cup Transition

TypeOK ==
  /\ workflows \subseteq Workflows
  /\ node \in [Nodes -> Node \cup {None}]
  /\ transition \in [Transitions -> Transition \cup {None}]
  /\ asked \in [workflow : Workflows, names : SUBSET Names,
                links : SUBSET (Names \X Names)] \cup {None}

NodesOf(w) == { n \in Nodes : node[n] # None /\ node[n].workflow = w }

\* Workflow.workflow_transitions
TransitionsOf(w) == { t \in Transitions : transition[t] # None /\ transition[t].to \in NodesOf(w) }

Unused(rows) == { id \in DOMAIN rows : rows[id] = None }

Init ==
  /\ workflows = {}
  /\ node = [n \in Nodes |-> None]
  /\ transition = [t \in Transitions |-> None]
  /\ asked = None

-----------------------------------------------------------------------------
\* A variant that leaves the transitions of nodes that are gone.
Cascade_Nothing(nodes, links) == links

\* What is left of the transitions: they are deleted with either end.
Cascade(nodes, links) ==
  [t \in Transitions |->
     IF links[t] # None /\ {links[t].from, links[t].to} \subseteq nodes THEN links[t] ELSE None]

\* The columns name and workflow are unique together.
NamesAreUnique(rows) ==
  \A m, n \in Nodes : (rows[m] # None /\ rows[m] = rows[n]) => m = n

\* Nodes are saved one after another, each under a name that is free by then:
\* there is an order for it unless some of them want to exchange their names.
\* (Names of nodes that are kept, before and after.)
CanBeRenamed(kept, name) ==
  \A some \in SUBSET { n \in kept : node[n].name # name[n] } :
    some # {} => { node[n].name : n \in some } # { name[n] : n \in some }

\* A variant that takes whatever ends there are.
MayJoin_Any(rows, from, to) == rows[from] # None /\ rows[to] # None

\* WorkflowTransitionSerializer: both ends are there and of one Workflow.
MayJoin(rows, from, to) ==
  /\ rows[from] # None
  /\ rows[to] # None
  /\ rows[from].workflow = rows[to].workflow

Joins(rows) == { link \in Transition : MayJoin(rows, link.from, link.to) }

\* The graph of a Workflow, by the names that its nodes have.
Graph(w, name, links) ==
  [workflow |-> w, names |-> { name[n] : n \in DOMAIN name },
   links |-> { <<name[links[t].from], name[links[t].to]>> :
                 t \in { x \in DOMAIN links :
                           /\ links[x] # None
                           /\ {links[x].from, links[x].to} \subseteq DOMAIN name } }]

GraphOf(w) == Graph(w, [n \in NodesOf(w) |-> node[n].name], transition)

-----------------------------------------------------------------------------
(* Requests about a Workflow as a whole.                                   *)

Create(w) ==
  /\ w \notin workflows
  /\ workflows' = workflows \cup {w}
  /\ asked' = None
  /\ UNCHANGED <<node, transition>>

\* The nodes after an edit: those sent are saved, and the others of the
\* Workflow deleted.
NodesAfter(w, name) ==
  [n \in Nodes |->
     IF n \in DOMAIN name THEN [workflow |-> w, name |-> name[n]]
     ELSE IF n \in NodesOf(w) THEN None ELSE node[n]]

\* A variant that keeps the transitions that are not sent.
TransitionsAfter_Kept(w, left, links) ==
  [t \in Transitions |-> IF t \in DOMAIN links THEN links[t] ELSE left[t]]

\* The transitions after it: those sent are saved, and the others deleted that
\* had been left to the Workflow by the deletion of nodes.
TransitionsAfter(w, left, links) ==
  [t \in Transitions |->
     IF t \in DOMAIN links THEN links[t]
     ELSE IF t \in TransitionsOf(w) THEN None ELSE left[t]]

\* The nodes that a request may name by uuid or name: those of the Workflow.
MayBeSent(w) == NodesOf(w)

\* The Workflow is saved with its nodes, and its transitions if they are sent:
\* the nodes that are kept under their names, new ones, and transitions of the
\* Workflow that are left and new ones between any two nodes of one Workflow,
\* be it another.  A request that sends transitions only changes nothing.
Edit(w) ==
  /\ w \in workflows
  /\ \E kept \in SUBSET MayBeSent(w), added \in SUBSET Unused(node) :
     \E name \in [kept \cup added -> Names] :
       LET nodes == NodesAfter(w, name)
           left == Cascade({ n \in Nodes : nodes[n] # None }, transition)
           ofWorkflow == { t \in TransitionsOf(w) : left[t] # None }
       IN /\ NamesAreUnique(nodes)
          /\ CanBeRenamed(kept, name)
          /\ node' = nodes
          /\ \/ transition' = left
                /\ asked' = Graph(w, name, transition)
             \/ \E sent \in SUBSET (ofWorkflow \cup Unused(transition)) :
                \E links \in [sent -> Joins(nodes)] :
                  /\ transition' = TransitionsAfter(w, left, links)
                  /\ asked' = Graph(w, name, links)
  /\ UNCHANGED workflows

\* Workflow.clone: each node and each transition is copied, and the ends of the
\* copies are the copies of the ends.
Clone(w, v) ==
  /\ w \in workflows
  /\ v \notin workflows
  /\ workflows' = workflows \cup {v}
  /\ \E copyOf \in [NodesOf(w) -> Unused(node)],
        linkOf \in [TransitionsOf(w) -> Unused(transition)] :
       /\ \A m, n \in NodesOf(w) : copyOf[m] = copyOf[n] => m = n
       /\ \A s, t \in TransitionsOf(w) : linkOf[s] = linkOf[t] => s = t
       /\ node' = [n \in Nodes |->
                     IF \E m \in NodesOf(w) : copyOf[m] = n
                     THEN [node[CHOOSE m \in NodesOf(w) : copyOf[m] = n] EXCEPT !.workflow = v]
                     ELSE node[n]]
       /\ transition' = [t \in Transitions |->
                           IF \E s \in TransitionsOf(w) : linkOf[s] = t
                           THEN LET s == CHOOSE s \in TransitionsOf(w) : linkOf[s] = t
                                IN [from |-> copyOf[transition[s].from],
                                    to |-> copyOf[transition[s].to]]
                           ELSE transition[t]]
  /\ asked' = [GraphOf(w) EXCEPT !.workflow = v]

Delete(w) ==
  /\ w \in workflows
  /\ workflows' = workflows \ {w}
  /\ node' = [n \in Nodes |-> IF n \in NodesOf(w) THEN None ELSE node[n]]
  /\ transition' = Cascade({ n \in Nodes : node'[n] # None }, transition)
  /\ asked' = None

-----------------------------------------------------------------------------
(* Requests about one node or one transition.                              *)

\* A node is created or renamed; it does not change its Workflow.
SaveNode(n, w, name) ==
  /\ w \in workflows
  /\ node[n] # None => node[n].workflow = w
  /\ node' = [node EXCEPT ![n] = [workflow |-> w, name |-> name]]
  /\ NamesAreUnique(node')
  /\ asked' = None
  /\ UNCHANGED <<workflows, transition>>

DeleteNode(n) ==
  /\ node[n] # None
  /\ node' = [node EXCEPT ![n] = None]
  /\ transition' = Cascade({ m \in Nodes : node'[m] # None }, transition)
  /\ asked' = None
  /\ UNCHANGED workflows

\* A transition is created with two ends, or gets new ones; an end that a
\* request does not name stays.
SaveTransition(t, from, to) ==
  /\ MayJoin(node, from, to)
  /\ transition' = [transition EXCEPT ![t] = [from |-> from, to |-> to]]
  /\ asked' = None
  /\ UNCHANGED <<workflows, node>>

DeleteTransition(t) ==
  /\ transition[t] # None
  /\ transition' = [transition EXCEPT ![t] = None]
  /\ asked' = None
  /\ UNCHANGED <<workflows, node>>

Next ==
  \/ \E w \in Workflows : Create(w) \/ Edit(w) \/ Delete(w)
  \/ \E w, v \in Workflows : Clone(w, v)
  \/ \E n \in Nodes, w \in Workflows, name \in Names : SaveNode(n, w, name)
  \/ \E n \in Nodes : DeleteNode(n)
  \/ \E t \in Transitions, from, to \in Nodes : SaveTransition(t, from, to)
  \/ \E t \in Transitions : DeleteTransition(t)

Spec == Init /\ [][Next]_vars

-----------------------------------------------------------------------------
(* Properties.                                                             *)

\* Every transition joins two nodes that exist and belong to one Workflow, and
\* every node belongs to one that exists: what the engine relies on when it
\* follows transitions (workflow_transitions looks at one end only).
GraphsAreSeparate ==
  /\ \A n \in Nodes : node[n] # None => node[n].workflow \in workflows
  /\ \A t \in Transitions :
       transition[t] # None =>
         \E w \in workflows : {transition[t].from, transition[t].to} \subseteq NodesOf(w)

\* After an edit, a Workflow consists of what was sent, and a clone of what the
\* original does, whichever rows were kept, created, renamed and deleted on the
\* way.
GraphIsAsAsked == asked # None => GraphOf(asked.workflow) = asked

=============================================================================
