------------------------- MODULE WorkflowGraph_proofs -------------------------
(***************************************************************************)
(* Theorems about WorkflowGraph, for any sets of Workflows, nodes, names   *)
(* and transitions.                                                        *)
(***************************************************************************)
EXTENDS WorkflowGraph, TLAPS

LEMMA CascadeType ==
  ASSUME NEW nodes \in SUBSET Nodes, NEW links \in [Transitions -> Transition \cup {None}]
  PROVE  Cascade(nodes, links) \in [Transitions -> Transition \cup {None}]
BY DEF Cascade

LEMMA NodesAfterType ==
  ASSUME NEW w \in Workflows, NEW set \in SUBSET Nodes, NEW name \in [set -> Names], TypeOK
  PROVE  NodesAfter(w, name) \in [Nodes -> Node \cup {None}]
BY DEF NodesAfter, TypeOK, Node

LEMMA TransitionsAfterType ==
  ASSUME NEW w \in Workflows, NEW left \in [Transitions -> Transition \cup {None}],
         NEW sent \in SUBSET Transitions, NEW links \in [sent -> Transition]
  PROVE  TransitionsAfter(w, left, links) \in [Transitions -> Transition \cup {None}]
BY DEF TransitionsAfter

\* The graph under its names, when all its transitions are typed.
LEMMA GraphType ==
  ASSUME NEW w \in Workflows, NEW set \in SUBSET Nodes, NEW name \in [set -> Names],
         NEW sent \in SUBSET Transitions, NEW links \in [sent -> Transition \cup {None}]
  PROVE  Graph(w, name, links) \in [workflow : Workflows, names : SUBSET Names,
                                    links : SUBSET (Names \X Names)]
<1>1. { name[n] : n \in DOMAIN name } \subseteq Names
  OBVIOUS
<1>2. { <<name[links[t].from], name[links[t].to]>> :
          t \in { x \in DOMAIN links :
                    /\ links[x] # None
                    /\ {links[x].from, links[x].to} \subseteq DOMAIN name } }
        \subseteq Names \X Names
  OBVIOUS
<1> QED
  BY <1>1, <1>2 DEF Graph

LEMMA SubsetsOfTheState ==
  ASSUME NEW w
  PROVE  /\ NodesOf(w) \subseteq Nodes
         /\ TransitionsOf(w) \subseteq Transitions
BY DEF NodesOf, TransitionsOf

GraphsOf == [workflow : Workflows, names : SUBSET Names, links : SUBSET (Names \X Names)]

\* What an edit does, with the names it has found: the lemmas about it need
\* nothing else of Edit.
Edits(w, kept, added, name, sent, links, all) ==
  /\ kept \subseteq NodesOf(w) /\ added \subseteq Unused(node)
  /\ name \in [kept \cup added -> Names]
  /\ NamesAreUnique(NodesAfter(w, name))
  /\ node' = NodesAfter(w, name)
  /\ workflows' = workflows
  /\ LET left == Cascade({ n \in Nodes : node'[n] # None }, transition)
     IN \/ /\ ~all
           /\ transition' = left
           /\ asked' = Graph(w, name, transition)
        \/ /\ all
           /\ sent \subseteq { t \in TransitionsOf(w) : left[t] # None } \cup Unused(transition)
           /\ links \in [sent -> Joins(node')]
           /\ transition' = TransitionsAfter(w, left, links)
           /\ asked' = Graph(w, name, links)

LEMMA EditEdits ==
  ASSUME NEW w \in Workflows, Edit(w)
  PROVE  w \in workflows /\ \E kept, added, name, sent, links, all :
           Edits(w, kept, added, name, sent, links, all)
<1>1. PICK kept \in SUBSET NodesOf(w), added \in SUBSET Unused(node) :
        \E name \in [kept \cup added -> Names] :
          LET nodes == NodesAfter(w, name)
              left == Cascade({ n \in Nodes : nodes[n] # None }, transition)
              ofWorkflow == { t \in TransitionsOf(w) : left[t] # None }
          IN /\ NamesAreUnique(nodes)
             /\ node' = nodes
             /\ \/ transition' = left
                   /\ asked' = Graph(w, name, transition)
                \/ \E sent \in SUBSET (ofWorkflow \cup Unused(transition)) :
                   \E links \in [sent -> Joins(nodes)] :
                     /\ transition' = TransitionsAfter(w, left, links)
                     /\ asked' = Graph(w, name, links)
  BY DEF Edit, MayBeSent
<1>2. PICK name \in [kept \cup added -> Names] :
        LET nodes == NodesAfter(w, name)
            left == Cascade({ n \in Nodes : nodes[n] # None }, transition)
            ofWorkflow == { t \in TransitionsOf(w) : left[t] # None }
        IN /\ NamesAreUnique(nodes)
           /\ node' = nodes
           /\ \/ transition' = left
                 /\ asked' = Graph(w, name, transition)
              \/ \E sent \in SUBSET (ofWorkflow \cup Unused(transition)) :
                 \E links \in [sent -> Joins(nodes)] :
                   /\ transition' = TransitionsAfter(w, left, links)
                   /\ asked' = Graph(w, name, links)
  BY <1>1
<1> DEFINE left == Cascade({ n \in Nodes : node'[n] # None }, transition)
<1>3. CASE transition' = left /\ asked' = Graph(w, name, transition)
  <2>1. Edits(w, kept, added, name, {}, {}, FALSE)
    BY <1>1, <1>2, <1>3 DEF Edits, Edit
  <2> QED
    BY <2>1 DEF Edit
<1>4. ASSUME NEW sent \in SUBSET ({ t \in TransitionsOf(w) : left[t] # None }
                                    \cup Unused(transition)),
             NEW links \in [sent -> Joins(node')],
             transition' = TransitionsAfter(w, left, links),
             asked' = Graph(w, name, links)
      PROVE  \E k, a, m, s, l, all : Edits(w, k, a, m, s, l, all)
  <2>1. Edits(w, kept, added, name, sent, links, TRUE)
    BY <1>1, <1>2, <1>4 DEF Edits, Edit
  <2> QED
    BY <2>1
<1> QED
  BY <1>2, <1>3, <1>4 DEF Edit

LEMMA EditKeepsType ==
  ASSUME TypeOK, NEW w \in Workflows, NEW kept, NEW added, NEW name, NEW sent, NEW links,
         NEW all, Edits(w, kept, added, name, sent, links, all)
  PROVE  TypeOK'
<1> DEFINE left == Cascade({ n \in Nodes : node'[n] # None }, transition)
<1>1. kept \cup added \in SUBSET Nodes
  BY SubsetsOfTheState DEF Edits, Unused, TypeOK
<1>2. name \in [kept \cup added -> Names]
  BY DEF Edits
<1>3. node' \in [Nodes -> Node \cup {None}]
  BY <1>1, <1>2, NodesAfterType DEF Edits
<1>4. left \in [Transitions -> Transition \cup {None}]
  BY CascadeType DEF TypeOK
<1> HIDE DEF left
<1>5. CASE ~all
  <2>1. transition' = left /\ asked' = Graph(w, name, transition)
    BY <1>5 DEF Edits, left
  <2>2. asked' \in GraphsOf
    BY <1>1, <1>2, <2>1, GraphType DEF TypeOK, GraphsOf
  <2> QED
    BY <1>3, <1>4, <2>1, <2>2 DEF Edits, TypeOK, GraphsOf
<1>6. CASE all
  <2>1. /\ sent \subseteq { t \in TransitionsOf(w) : left[t] # None } \cup Unused(transition)
        /\ links \in [sent -> Joins(node')]
        /\ transition' = TransitionsAfter(w, left, links)
        /\ asked' = Graph(w, name, links)
    BY <1>6 DEF Edits, left
  <2>2. sent \in SUBSET Transitions
    BY <2>1, SubsetsOfTheState DEF Unused, TypeOK
  <2>3. links \in [sent -> Transition]
    BY <2>1 DEF Joins
  <2>4. transition' \in [Transitions -> Transition \cup {None}]
    BY <1>4, <2>1, <2>2, <2>3, TransitionsAfterType
  <2>5. asked' \in GraphsOf
    BY <1>1, <1>2, <2>1, <2>2, <2>3, GraphType DEF GraphsOf
  <2> QED
    BY <1>3, <2>4, <2>5 DEF Edits, TypeOK, GraphsOf
<1> QED
  BY <1>5, <1>6

\* The nodes of other Workflows are none of an edit's business, and those of the
\* Workflow are the ones it names.
LEMMA EditedNodes ==
  ASSUME TypeOK, NEW w \in Workflows, NEW kept, NEW added, NEW name, NEW sent, NEW links,
         NEW all, Edits(w, kept, added, name, sent, links, all)
  PROVE  /\ NodesOf(w)' = kept \cup added
         /\ \A n \in kept \cup added : n \in Nodes /\ node'[n].name = name[n]
         /\ \A v \in Workflows \ {w} : NodesOf(v)' = NodesOf(v)
<1> DEFINE mine == kept \cup added
<1>1. mine \in SUBSET Nodes
  BY SubsetsOfTheState DEF Edits, Unused, TypeOK
<1>2. name \in [mine -> Names] /\ DOMAIN name = mine
  BY DEF Edits
<1>3. \A n \in Nodes :
        node'[n] = IF n \in mine THEN [workflow |-> w, name |-> name[n]]
                   ELSE IF n \in NodesOf(w) THEN None ELSE node[n]
  BY <1>2 DEF Edits, NodesAfter
<1>4. \A n \in mine : n \in NodesOf(w) \/ node[n] = None
  BY DEF Edits, Unused, TypeOK
<1> HIDE DEF mine
<1>5. ASSUME NEW n \in mine
      PROVE  n \in Nodes /\ node'[n] # None /\ node'[n].workflow = w /\ node'[n].name = name[n]
  <2>1. n \in Nodes /\ node'[n] = [workflow |-> w, name |-> name[n]]
    BY <1>1, <1>3
  <2>2. [workflow |-> w, name |-> name[n]] \in Node
    BY <1>2 DEF Node
  <2> QED
    BY <2>1, <2>2, RowsAssumption
<1>6. ASSUME NEW n \in Nodes, n \notin mine
      PROVE  /\ n \in NodesOf(w) => node'[n] = None
             /\ n \notin NodesOf(w) => node'[n] = node[n]
  BY <1>3, <1>6
<1>7. NodesOf(w)' = mine
  <2>1. \A n \in Nodes \ mine : ~(node'[n] # None /\ node'[n].workflow = w)
    BY <1>6 DEF NodesOf
  <2>2. \A n \in mine : n \in Nodes /\ node'[n] # None /\ node'[n].workflow = w
    BY <1>5
  <2> QED
    BY <2>1, <2>2 DEF NodesOf
<1>8. ASSUME NEW v \in Workflows \ {w} PROVE NodesOf(v)' = NodesOf(v)
  <2>1. \A n \in mine : n \notin NodesOf(v) /\ ~(node'[n] # None /\ node'[n].workflow = v)
    BY <1>4, <1>5 DEF NodesOf
  <2>2. \A n \in Nodes \ mine :
          (node'[n] # None /\ node'[n].workflow = v) <=> n \in NodesOf(v)
    BY <1>6 DEF NodesOf
  <2> QED
    BY <2>1, <2>2 DEF NodesOf
<1> QED
  BY <1>5, <1>7, <1>8 DEF mine

\* Transitions that are left where both their ends are.
LEMMA CascadeSeparates ==
  ASSUME NEW nodes, NEW t \in Transitions, Cascade(nodes, transition)[t] # None
  PROVE  /\ transition[t] # None
         /\ Cascade(nodes, transition)[t] = transition[t]
         /\ transition[t].from \in nodes /\ transition[t].to \in nodes
BY DEF Cascade

LEMMA EditSeparates ==
  ASSUME TypeOK, GraphsAreSeparate, NEW w \in workflows, NEW kept, NEW added, NEW name,
         NEW sent, NEW links, NEW all, Edits(w, kept, added, name, sent, links, all)
  PROVE  GraphsAreSeparate'
<1> DEFINE left == Cascade({ n \in Nodes : node'[n] # None }, transition)
<1> HIDE DEF left
<1>0. w \in Workflows
  BY DEF TypeOK
<1>1. \A v \in Workflows \ {w} : NodesOf(v)' = NodesOf(v)
  BY <1>0, EditedNodes
<1>2. workflows' = workflows /\ workflows \subseteq Workflows
  BY DEF Edits, TypeOK
<1>3. node' \in [Nodes -> Node \cup {None}]
  BY <1>0, EditKeepsType DEF TypeOK
<1>4. ASSUME NEW n \in Nodes, node'[n] # None PROVE node'[n].workflow \in workflows'
  <2>1. node'[n].workflow \in Workflows
    BY <1>3, <1>4 DEF Node
  <2>2. CASE node'[n].workflow = w
    BY <1>2, <2>2
  <2>3. CASE node'[n].workflow # w
    <3>1. PICK v \in Workflows \ {w} : v = node'[n].workflow
      BY <2>1, <2>3
    <3>2. n \in NodesOf(v)'
      BY <1>4, <3>1 DEF NodesOf
    <3>3. n \in NodesOf(v)
      BY <1>1, <3>2
    <3> QED
      BY <1>2, <3>1, <3>3 DEF NodesOf, GraphsAreSeparate
  <2> QED
    BY <2>2, <2>3
<1>5. ASSUME NEW t \in Transitions, left[t] # None
      PROVE  \E v \in workflows' : {left[t].from, left[t].to} \subseteq NodesOf(v)'
  <2>1. /\ transition[t] # None /\ left[t] = transition[t]
        /\ node'[left[t].from] # None /\ node'[left[t].to] # None
    BY <1>5, CascadeSeparates DEF left
  <2>2. PICK v \in workflows : {left[t].from, left[t].to} \subseteq NodesOf(v)
    BY <2>1 DEF GraphsAreSeparate
  <2>3. CASE v # w
    BY <1>1, <1>2, <2>2, <2>3
  <2>4. CASE v = w
    <3>1. \A n \in NodesOf(w) : node'[n] # None => n \in NodesOf(w)'
      BY DEF Edits, NodesAfter, NodesOf
    <3> QED
      BY <1>2, <2>1, <2>2, <2>4, <3>1
  <2> QED
    BY <2>3, <2>4
<1>6. ASSUME NEW t \in Transitions, transition'[t] # None, transition'[t] # left[t]
      PROVE  transition'[t] \in Joins(node')
  BY <1>6 DEF Edits, TransitionsAfter, left
<1>7. ASSUME NEW link \in Joins(node')
      PROVE  \E v \in workflows' : {link.from, link.to} \subseteq NodesOf(v)'
  <2>1. /\ link.from \in Nodes /\ link.to \in Nodes
        /\ node'[link.from] # None /\ node'[link.to] # None
        /\ node'[link.from].workflow = node'[link.to].workflow
    BY DEF Joins, MayJoin, Transition
  <2>2. node'[link.from].workflow \in workflows'
    BY <1>4, <2>1
  <2> QED
    BY <2>1, <2>2 DEF NodesOf
<1> QED
  BY <1>4, <1>5, <1>6, <1>7 DEF GraphsAreSeparate

\* A transition that ends in a Workflow also begins there.
LEMMA SeparateWithin ==
  ASSUME TypeOK, GraphsAreSeparate, NEW w, NEW t \in TransitionsOf(w)
  PROVE  /\ t \in Transitions /\ transition[t] \in Transition
         /\ {transition[t].from, transition[t].to} \subseteq NodesOf(w)
BY DEF TypeOK, GraphsAreSeparate, TransitionsOf, NodesOf

\* A clone, with the copies it has found.
Clones(w, v, copyOf, linkOf) ==
  /\ copyOf \in [NodesOf(w) -> Unused(node)]
  /\ linkOf \in [TransitionsOf(w) -> Unused(transition)]
  /\ \A m, n \in NodesOf(w) : copyOf[m] = copyOf[n] => m = n
  /\ \A s, t \in TransitionsOf(w) : linkOf[s] = linkOf[t] => s = t
  /\ node' \in [Nodes -> Node \cup {None}]
  /\ \A m \in NodesOf(w) : node'[copyOf[m]] = [workflow |-> v, name |-> node[m].name]
  /\ \A n \in Nodes : (\A m \in NodesOf(w) : copyOf[m] # n) => node'[n] = node[n]
  /\ transition' \in [Transitions -> Transition \cup {None}]
  /\ \A s \in TransitionsOf(w) :
       transition'[linkOf[s]] = [from |-> copyOf[transition[s].from],
                                 to |-> copyOf[transition[s].to]]
  /\ \A t \in Transitions :
       (\A s \in TransitionsOf(w) : linkOf[s] # t) => transition'[t] = transition[t]

LEMMA CloneClones ==
  ASSUME TypeOK, GraphsAreSeparate, NEW w \in Workflows, NEW v \in Workflows, Clone(w, v)
  PROVE  \E copyOf, linkOf : Clones(w, v, copyOf, linkOf)
<1>1. PICK copyOf \in [NodesOf(w) -> Unused(node)],
           linkOf \in [TransitionsOf(w) -> Unused(transition)] :
        /\ \A m, n \in NodesOf(w) : copyOf[m] = copyOf[n] => m = n
        /\ \A s, t \in TransitionsOf(w) : linkOf[s] = linkOf[t] => s = t
        /\ node' = [n \in Nodes |->
                      IF \E m \in NodesOf(w) : copyOf[m] = n
                      THEN [node[CHOOSE m \in NodesOf(w) : copyOf[m] = n] EXCEPT !.workflow = v]
                      ELSE node[n]]
        /\ transition' = [t \in Transitions |->
                            IF \E s \in TransitionsOf(w) : linkOf[s] = t
                            THEN LET s == CHOOSE s \in TransitionsOf(w) : linkOf[s] = t
                                 IN [from |-> copyOf[transition[s].from],
                                     to |-> copyOf[transition[s].to]]
                            ELSE transition[t]]
  BY DEF Clone
<1>2. Unused(node) \subseteq Nodes /\ Unused(transition) \subseteq Transitions
  BY DEF Unused, TypeOK
<1>3. ASSUME NEW m \in NodesOf(w)
      PROVE  node'[copyOf[m]] = [workflow |-> v, name |-> node[m].name]
  <2>1. m = CHOOSE x \in NodesOf(w) : copyOf[x] = copyOf[m]
    BY <1>1
  <2>2. node[m] \in Node
    BY DEF NodesOf, TypeOK
  <2>3. node'[copyOf[m]] = [node[m] EXCEPT !.workflow = v]
    BY <1>1, <1>2, <2>1
  <2> QED
    BY <2>2, <2>3 DEF Node
<1>4. ASSUME NEW s \in TransitionsOf(w)
      PROVE  transition'[linkOf[s]] = [from |-> copyOf[transition[s].from],
                                       to |-> copyOf[transition[s].to]]
  <2>1. s = CHOOSE x \in TransitionsOf(w) : linkOf[x] = linkOf[s]
    BY <1>1
  <2> QED
    BY <1>1, <1>2, <2>1
<1>5. \A n \in Nodes : (\A m \in NodesOf(w) : copyOf[m] # n) => node'[n] = node[n]
  BY <1>1
<1>6. \A t \in Transitions :
        (\A s \in TransitionsOf(w) : linkOf[s] # t) => transition'[t] = transition[t]
  BY <1>1
<1>7. node' \in [Nodes -> Node \cup {None}]
  <2>1. DOMAIN node' = Nodes /\ node' = [n \in Nodes |-> node'[n]]
    BY <1>1
  <2>2. ASSUME NEW n \in Nodes PROVE node'[n] \in Node \cup {None}
    <3>1. ASSUME NEW m \in NodesOf(w), copyOf[m] = n PROVE node'[n] \in Node
      <4>1. node[m].name \in Names
        BY DEF NodesOf, Node, TypeOK
      <4>2. node'[n] = [workflow |-> v, name |-> node[m].name]
        BY <1>3, <3>1
      <4> QED
        BY <4>1, <4>2 DEF Node
    <3>2. CASE \A m \in NodesOf(w) : copyOf[m] # n
      BY <1>5, <3>2 DEF TypeOK
    <3> QED
      BY <3>1, <3>2
  <2> QED
    BY <2>1, <2>2
<1>8. \A s \in TransitionsOf(w) : {transition[s].from, transition[s].to} \subseteq NodesOf(w)
  BY SeparateWithin
<1>9. transition' \in [Transitions -> Transition \cup {None}]
  <2>1. DOMAIN transition' = Transitions /\ transition' = [t \in Transitions |-> transition'[t]]
    BY <1>1
  <2>2. ASSUME NEW t \in Transitions PROVE transition'[t] \in Transition \cup {None}
    <3>1. ASSUME NEW s \in TransitionsOf(w), linkOf[s] = t PROVE transition'[t] \in Transition
      <4>1. copyOf[transition[s].from] \in Nodes /\ copyOf[transition[s].to] \in Nodes
        BY <1>2, <1>8
      <4>2. transition'[t] = [from |-> copyOf[transition[s].from],
                              to |-> copyOf[transition[s].to]]
        BY <1>4, <3>1
      <4> QED
        BY <4>1, <4>2 DEF Transition
    <3>2. CASE \A s \in TransitionsOf(w) : linkOf[s] # t
      BY <1>6, <3>2 DEF TypeOK
    <3> QED
      BY <3>1, <3>2
  <2> QED
    BY <2>1, <2>2
<1>10. Clones(w, v, copyOf, linkOf)
  BY <1>1, <1>3, <1>4, <1>5, <1>6, <1>7, <1>9 DEF Clones
<1> QED
  BY <1>10

LEMMA ClonedNodes ==
  ASSUME TypeOK, GraphsAreSeparate, NEW w \in Workflows, NEW v \in Workflows \ workflows,
         NEW copyOf, NEW linkOf, Clones(w, v, copyOf, linkOf)
  PROVE  /\ NodesOf(v)' = { copyOf[m] : m \in NodesOf(w) }
         /\ \A x \in Workflows \ {v} : NodesOf(x)' = NodesOf(x)
<1>1. \A m \in NodesOf(w) : /\ copyOf[m] \in Nodes /\ node[copyOf[m]] = None
                            /\ node'[copyOf[m]] # None /\ node'[copyOf[m]].workflow = v
  <2>1. \A m \in NodesOf(w) : copyOf[m] \in Nodes /\ node[copyOf[m]] = None
    BY DEF Clones, Unused, TypeOK
  <2>2. ASSUME NEW m \in NodesOf(w)
        PROVE  node'[copyOf[m]] \in Node /\ node'[copyOf[m]].workflow = v
    <3>1. node[m].name \in Names
      BY DEF NodesOf, Node, TypeOK
    <3>2. node'[copyOf[m]] = [workflow |-> v, name |-> node[m].name]
      BY DEF Clones
    <3> QED
      BY <3>1, <3>2 DEF Node
  <2> QED
    BY <2>1, <2>2, RowsAssumption
<1>2. \A n \in Nodes : n \notin { copyOf[m] : m \in NodesOf(w) } => node'[n] = node[n]
  BY DEF Clones
<1>3. \A n \in Nodes : node[n] # None => node[n].workflow # v
  BY DEF GraphsAreSeparate
<1> DEFINE copies == { copyOf[m] : m \in NodesOf(w) }
<1>4. \A n \in copies : /\ n \in Nodes /\ node[n] = None
                        /\ node'[n] # None /\ node'[n].workflow = v
  BY <1>1
<1>5. \A n \in Nodes : n \notin copies => node'[n] = node[n]
  BY <1>2
<1> HIDE DEF copies
<1>6. NodesOf(v)' = copies
  BY <1>3, <1>4, <1>5 DEF NodesOf
<1>7. ASSUME NEW x \in Workflows \ {v} PROVE NodesOf(x)' = NodesOf(x)
  BY <1>4, <1>5 DEF NodesOf
<1> QED
  BY <1>6, <1>7 DEF copies

LEMMA CloneKeepsType ==
  ASSUME TypeOK, GraphsAreSeparate, NEW w \in Workflows, NEW v \in Workflows, Clone(w, v)
  PROVE  TypeOK'
<1>1. PICK copyOf, linkOf : Clones(w, v, copyOf, linkOf)
  BY CloneClones
<1>2. workflows' \subseteq Workflows
  BY DEF Clone, TypeOK
<1>3. asked' \in GraphsOf
  <2> DEFINE name == [n \in NodesOf(w) |-> node[n].name]
  <2>1. name \in [NodesOf(w) -> Names]
    BY DEF NodesOf, Node, TypeOK
  <2>2. GraphOf(w) \in GraphsOf
    BY <2>1, GraphType, SubsetsOfTheState DEF GraphOf, GraphsOf, TypeOK
  <2>3. asked' = [GraphOf(w) EXCEPT !.workflow = v]
    BY DEF Clone
  <2> QED
    BY <2>2, <2>3 DEF GraphsOf
<1> QED
  BY <1>1, <1>2, <1>3 DEF Clones, TypeOK, GraphsOf

LEMMA CloneSeparates ==
  ASSUME TypeOK, GraphsAreSeparate, NEW w \in Workflows, NEW v \in Workflows, Clone(w, v)
  PROVE  GraphsAreSeparate'
<1>1. PICK copyOf, linkOf : Clones(w, v, copyOf, linkOf)
  BY CloneClones
<1>2. /\ v \notin workflows /\ workflows' = workflows \cup {v}
      /\ workflows \subseteq Workflows
  BY DEF Clone, TypeOK
<1>3. /\ NodesOf(v)' = { copyOf[m] : m \in NodesOf(w) }
      /\ \A x \in Workflows \ {v} : NodesOf(x)' = NodesOf(x)
  BY <1>1, <1>2, ClonedNodes
<1>4. ASSUME NEW n \in Nodes, node'[n] # None PROVE node'[n].workflow \in workflows'
  <2>1. ASSUME NEW m \in NodesOf(w), copyOf[m] = n PROVE node'[n].workflow = v
    <3>1. node'[n] = [workflow |-> v, name |-> node[m].name]
      BY <1>1, <2>1 DEF Clones
    <3> QED
      BY <3>1
  <2>2. CASE \A m \in NodesOf(w) : copyOf[m] # n
    BY <1>1, <1>2, <1>4, <2>2 DEF Clones, GraphsAreSeparate
  <2> QED
    BY <1>2, <2>1, <2>2
<1>5. ASSUME NEW t \in Transitions, transition'[t] # None
      PROVE  \E x \in workflows' : {transition'[t].from, transition'[t].to} \subseteq NodesOf(x)'
  <2>1. ASSUME NEW s \in TransitionsOf(w), linkOf[s] = t
        PROVE  {transition'[t].from, transition'[t].to} \subseteq NodesOf(v)'
    <3>1. {transition[s].from, transition[s].to} \subseteq NodesOf(w)
      BY SeparateWithin
    <3>2. transition'[t] = [from |-> copyOf[transition[s].from], to |-> copyOf[transition[s].to]]
      BY <1>1, <2>1 DEF Clones
    <3> QED
      BY <1>3, <3>1, <3>2
  <2>2. ASSUME \A s \in TransitionsOf(w) : linkOf[s] # t
        PROVE  \E x \in workflows : {transition'[t].from, transition'[t].to} \subseteq NodesOf(x)'
    <3>1. transition'[t] = transition[t]
      BY <1>1, <2>2 DEF Clones
    <3>2. PICK x \in workflows : {transition[t].from, transition[t].to} \subseteq NodesOf(x)
      BY <1>5, <3>1 DEF GraphsAreSeparate
    <3> QED
      BY <1>2, <1>3, <3>1, <3>2
  <2> QED
    BY <1>2, <2>1, <2>2
<1> QED
  BY <1>4, <1>5 DEF GraphsAreSeparate

-----------------------------------------------------------------------------
(* Every request.                                                          *)

LEMMA TypeStep ==
  ASSUME TypeOK, GraphsAreSeparate, [Next]_vars
  PROVE  TypeOK'
<1>1. ASSUME NEW w \in Workflows, Create(w) PROVE TypeOK'
  BY <1>1 DEF Create, TypeOK
<1>2. ASSUME NEW w \in Workflows, Edit(w) PROVE TypeOK'
  BY <1>2, EditEdits, EditKeepsType
<1>3. ASSUME NEW w \in Workflows, Delete(w) PROVE TypeOK'
  <2>1. workflows' \subseteq Workflows /\ asked' = None
    BY <1>3 DEF Delete, TypeOK
  <2>2. node' \in [Nodes -> Node \cup {None}]
    BY <1>3 DEF Delete, TypeOK
  <2>3. transition' \in [Transitions -> Transition \cup {None}]
    BY <1>3, CascadeType DEF Delete, TypeOK
  <2> QED
    BY <2>1, <2>2, <2>3 DEF TypeOK
<1>4. ASSUME NEW w \in Workflows, NEW v \in Workflows, Clone(w, v) PROVE TypeOK'
  BY <1>4, CloneKeepsType
<1>5. ASSUME NEW n \in Nodes, NEW w \in Workflows, NEW name \in Names, SaveNode(n, w, name)
      PROVE  TypeOK'
  BY <1>5 DEF SaveNode, TypeOK, Node
<1>6. ASSUME NEW n \in Nodes, DeleteNode(n) PROVE TypeOK'
  BY <1>6, CascadeType DEF DeleteNode, TypeOK
<1>7. ASSUME NEW t \in Transitions, NEW from \in Nodes, NEW to \in Nodes,
             SaveTransition(t, from, to) \/ DeleteTransition(t)
      PROVE  TypeOK'
  BY <1>7 DEF SaveTransition, DeleteTransition, TypeOK, Transition
<1>8. ASSUME NEW t \in Transitions, DeleteTransition(t) PROVE TypeOK'
  BY <1>8 DEF DeleteTransition, TypeOK
<1>9. CASE UNCHANGED vars
  BY <1>9 DEF vars, TypeOK
<1> QED
  BY <1>1, <1>2, <1>3, <1>4, <1>5, <1>6, <1>7, <1>8, <1>9 DEF Next

LEMMA SeparateStep ==
  ASSUME TypeOK, GraphsAreSeparate, [Next]_vars
  PROVE  GraphsAreSeparate'
<1>1. ASSUME NEW w \in Workflows, Create(w) PROVE GraphsAreSeparate'
  BY <1>1 DEF Create, GraphsAreSeparate, NodesOf
<1>2. ASSUME NEW w \in Workflows, Edit(w) PROVE GraphsAreSeparate'
  BY <1>2, EditEdits, EditSeparates
<1>3. ASSUME NEW w \in Workflows, Delete(w) PROVE GraphsAreSeparate'
  <2>1. \A n \in Nodes : node'[n] # None => node[n] # None /\ node'[n] = node[n]
                                          /\ node[n].workflow # w
    BY <1>3 DEF Delete, NodesOf
  <2>2. \A n \in Nodes : node'[n] # None => node'[n].workflow \in workflows'
    BY <1>3, <2>1 DEF Delete, GraphsAreSeparate
  <2>3. ASSUME NEW t \in Transitions, transition'[t] # None
        PROVE  \E v \in workflows' : {transition'[t].from, transition'[t].to} \subseteq NodesOf(v)'
    <3>1. /\ transition[t] # None /\ transition'[t] = transition[t]
          /\ node'[transition[t].from] # None /\ node'[transition[t].to] # None
      <4> DEFINE left == { n \in Nodes : node'[n] # None }
      <4>1. transition' = Cascade(left, transition)
        BY <1>3 DEF Delete
      <4> QED
        BY <2>3, <4>1, CascadeSeparates
    <3>2. PICK v \in workflows : {transition[t].from, transition[t].to} \subseteq NodesOf(v)
      BY <3>1 DEF GraphsAreSeparate
    <3>3. v # w
      BY <2>1, <3>1, <3>2 DEF NodesOf
    <3>4. v \in workflows'
      BY <1>3, <3>2, <3>3 DEF Delete
    <3> QED
      BY <2>1, <3>1, <3>2, <3>4 DEF NodesOf
  <2> QED
    BY <2>2, <2>3 DEF GraphsAreSeparate
<1>4. ASSUME NEW w \in Workflows, NEW v \in Workflows, Clone(w, v) PROVE GraphsAreSeparate'
  BY <1>4, CloneSeparates
<1>5. ASSUME NEW n \in Nodes, NEW w \in Workflows, NEW name \in Names, SaveNode(n, w, name)
      PROVE  GraphsAreSeparate'
  <2>1. \A m \in Nodes : /\ node[m] # None => /\ node'[m].workflow = node[m].workflow
                                             /\ node'[m] # None
                         /\ node'[m] # None => node'[m].workflow \in workflows
    <3>1. [workflow |-> w, name |-> name] \in Node
      BY DEF Node
    <3> QED
      BY <1>5, <3>1, RowsAssumption DEF SaveNode, GraphsAreSeparate, TypeOK
  <2>2. \A v \in workflows : NodesOf(v) \subseteq NodesOf(v)'
    BY <2>1 DEF NodesOf
  <2>3. workflows' = workflows /\ transition' = transition
    BY <1>5 DEF SaveNode
  <2> QED
    BY <2>1, <2>2, <2>3 DEF GraphsAreSeparate
<1>6. ASSUME NEW n \in Nodes, DeleteNode(n) PROVE GraphsAreSeparate'
  <2>1. \A m \in Nodes : node'[m] # None => node[m] # None /\ node'[m] = node[m]
    BY <1>6 DEF DeleteNode, TypeOK
  <2>2. workflows' = workflows
    BY <1>6 DEF DeleteNode
  <2>3. ASSUME NEW t \in Transitions, transition'[t] # None
        PROVE  \E v \in workflows' : {transition'[t].from, transition'[t].to} \subseteq NodesOf(v)'
    <3>1. /\ transition[t] # None /\ transition'[t] = transition[t]
          /\ node'[transition[t].from] # None /\ node'[transition[t].to] # None
      BY <1>6, <2>3, CascadeSeparates DEF DeleteNode
    <3>2. PICK v \in workflows : {transition[t].from, transition[t].to} \subseteq NodesOf(v)
      BY <3>1 DEF GraphsAreSeparate
    <3> QED
      BY <2>1, <2>2, <3>1, <3>2 DEF NodesOf
  <2> QED
    BY <2>1, <2>2, <2>3 DEF GraphsAreSeparate
<1>7. ASSUME NEW t \in Transitions, NEW from \in Nodes, NEW to \in Nodes,
             SaveTransition(t, from, to)
      PROVE  GraphsAreSeparate'
  <2>1. PICK v \in workflows : from \in NodesOf(v) /\ to \in NodesOf(v)
    BY <1>7 DEF SaveTransition, MayJoin, GraphsAreSeparate, NodesOf
  <2>2. /\ UNCHANGED <<workflows, node>>
        /\ \A x \in Transitions : transition'[x] = IF x = t THEN [from |-> from, to |-> to]
                                                  ELSE transition[x]
    BY <1>7 DEF SaveTransition, TypeOK
  <2> QED
    BY <2>1, <2>2 DEF GraphsAreSeparate, NodesOf
<1>8. ASSUME NEW t \in Transitions, DeleteTransition(t) PROVE GraphsAreSeparate'
  BY <1>8 DEF DeleteTransition, GraphsAreSeparate, NodesOf, TypeOK
<1>9. CASE UNCHANGED vars
  BY <1>9 DEF vars, GraphsAreSeparate, NodesOf
<1> QED
  BY <1>1, <1>2, <1>3, <1>4, <1>5, <1>6, <1>7, <1>8, <1>9 DEF Next

LEMMA Initially == Init => TypeOK /\ GraphsAreSeparate
BY DEF Init, TypeOK, GraphsAreSeparate

\* Every reachable state is well-typed, for any Workflows, nodes and transitions.
THEOREM TypeCorrect == Spec => []TypeOK
BY Initially, TypeStep, SeparateStep, PTL DEF Spec

\* However nodes and transitions are edited, copied and deleted, no transition
\* joins two Workflows, or what is gone (WorkflowSerializer, Workflow.clone).
THEOREM GraphsStaySeparate == Spec => []GraphsAreSeparate
BY Initially, TypeStep, SeparateStep, PTL DEF Spec

-----------------------------------------------------------------------------
(* What an edit and a clone yield.                                         *)

\* Two sets of transitions that have the same ends among the nodes.
LEMMA SameGraph ==
  ASSUME NEW w, NEW name, NEW some, NEW other, NEW chosen,
         \A x \in chosen :
           /\ x \in DOMAIN some /\ some[x] # None
           /\ x \in DOMAIN other /\ other[x] # None /\ some[x] = other[x],
         \A x \in DOMAIN some : some[x] # None
           /\ {some[x].from, some[x].to} \subseteq DOMAIN name => x \in chosen,
         \A x \in DOMAIN other : other[x] # None
           /\ {other[x].from, other[x].to} \subseteq DOMAIN name => x \in chosen
  PROVE  Graph(w, name, some) = Graph(w, name, other)
<1> DEFINE In(links) == { x \in DOMAIN links :
                           /\ links[x] # None
                           /\ {links[x].from, links[x].to} \subseteq DOMAIN name }
           Link(links, t) == <<name[links[t].from], name[links[t].to]>>
<1>1. In(some) = In(other)
  OBVIOUS
<1>2. \A t \in In(some) : Link(some, t) = Link(other, t)
  OBVIOUS
<1>3. { Link(some, t) : t \in In(some) } = { Link(other, t) : t \in In(other) }
  BY <1>1, <1>2
<1> QED
  BY <1>3 DEF Graph

LEMMA EditYieldsWhatIsAsked ==
  ASSUME TypeOK, GraphsAreSeparate, NEW w \in workflows, NEW kept, NEW added, NEW name,
         NEW sent, NEW links, NEW all, Edits(w, kept, added, name, sent, links, all)
  PROVE  GraphIsAsAsked'
<1> DEFINE mine == kept \cup added
           left == Cascade({ n \in Nodes : node'[n] # None }, transition)
<1>0. w \in Workflows
  BY DEF TypeOK
<1>1. /\ NodesOf(w)' = mine
      /\ \A n \in mine : n \in Nodes /\ node'[n].name = name[n]
  BY <1>0, EditedNodes
<1>2. name \in [mine -> Names] /\ DOMAIN name = mine
  BY DEF Edits
<1>3. [n \in NodesOf(w)' |-> node'[n].name] = name
  BY <1>1, <1>2
<1>4. GraphOf(w)' = Graph(w, name, transition')
  BY <1>3 DEF GraphOf, Graph
<1>5. \A n \in mine : node'[n] # None
  BY <1>1 DEF NodesOf
<1>6. DOMAIN transition = Transitions /\ DOMAIN transition' = Transitions
  BY <1>0, EditKeepsType DEF TypeOK
<1>7. asked'.workflow = w
  BY DEF Edits, Graph
<1>8. CASE ~all
  <2>1. transition' = left /\ asked' = Graph(w, name, transition)
    BY <1>8 DEF Edits
  <2> DEFINE chosen == { t \in Transitions :
                          /\ transition[t] # None
                          /\ {transition[t].from, transition[t].to} \subseteq mine }
  <2>2. \A t \in chosen : left[t] = transition[t]
    BY <1>1, <1>5 DEF Cascade
  <2>3. \A t \in Transitions : left[t] # None => left[t] = transition[t]
    BY DEF Cascade
  <2>4. Graph(w, name, transition') = Graph(w, name, transition)
    <3> HIDE DEF mine, left
    <3>1. \A x \in chosen : /\ x \in DOMAIN transition' /\ transition'[x] # None
                            /\ x \in DOMAIN transition /\ transition[x] # None
                            /\ transition'[x] = transition[x]
      BY <1>6, <2>1, <2>2
    <3>2. \A x \in DOMAIN transition' : transition'[x] # None
            /\ {transition'[x].from, transition'[x].to} \subseteq DOMAIN name => x \in chosen
      BY <1>2, <1>6, <2>1, <2>3
    <3>3. \A x \in DOMAIN transition : transition[x] # None
            /\ {transition[x].from, transition[x].to} \subseteq DOMAIN name => x \in chosen
      BY <1>2, <1>6
    <3> HIDE DEF chosen
    <3> QED
      BY <3>1, <3>2, <3>3, SameGraph
  <2> QED
    BY <1>4, <1>7, <2>1, <2>4 DEF GraphIsAsAsked
<1>9. CASE all
  <2>1. /\ sent \subseteq { t \in TransitionsOf(w) : left[t] # None } \cup Unused(transition)
        /\ links \in [sent -> Joins(node')]
        /\ transition' = TransitionsAfter(w, left, links)
        /\ asked' = Graph(w, name, links)
    BY <1>9 DEF Edits
  <2>2. sent \subseteq Transitions
    BY <2>1, SubsetsOfTheState DEF Unused, TypeOK
  <2> DEFINE chosen == { t \in sent : {links[t].from, links[t].to} \subseteq mine }
  <2>3. \A t \in sent : transition'[t] = links[t] /\ links[t] # None
    BY <2>1, <2>2, RowsAssumption DEF TransitionsAfter, Joins
  <2>4. ASSUME NEW t \in Transitions, transition'[t] # None, t \notin sent,
               transition'[t].to \in mine
        PROVE  FALSE
    <3>1. left[t] # None /\ transition'[t] = left[t] /\ t \notin TransitionsOf(w)
      BY <2>1, <2>4 DEF TransitionsAfter
    <3>2. transition[t] # None /\ left[t] = transition[t]
      BY <3>1 DEF Cascade
    <3>3. transition[t].to \in Nodes /\ node[transition[t].to] # None
            /\ transition[t].to \notin NodesOf(w)
      BY <3>1, <3>2 DEF GraphsAreSeparate, NodesOf, TransitionsOf
    <3>4. \A n \in mine : n \in NodesOf(w) \/ node[n] = None
      BY DEF Edits, Unused, TypeOK
    <3> QED
      BY <2>4, <3>1, <3>2, <3>3, <3>4
  <2>5. Graph(w, name, transition') = Graph(w, name, links)
    <3>1. DOMAIN links = sent
      BY <2>1
    <3> HIDE DEF mine, left
    <3>2. \A x \in chosen : /\ x \in DOMAIN transition' /\ transition'[x] # None
                            /\ x \in DOMAIN links /\ links[x] # None
                            /\ transition'[x] = links[x]
      BY <1>6, <2>2, <2>3, <3>1
    <3>3. \A x \in DOMAIN transition' : transition'[x] # None
            /\ {transition'[x].from, transition'[x].to} \subseteq DOMAIN name => x \in chosen
      BY <1>2, <1>6, <2>3, <2>4
    <3>4. \A x \in DOMAIN links : links[x] # None
            /\ {links[x].from, links[x].to} \subseteq DOMAIN name => x \in chosen
      BY <1>2, <3>1
    <3> HIDE DEF chosen
    <3> QED
      BY <3>2, <3>3, <3>4, SameGraph
  <2> QED
    BY <1>4, <1>7, <2>1, <2>5 DEF GraphIsAsAsked
<1> QED
  BY <1>8, <1>9

LEMMA CloneYieldsWhatIsAsked ==
  ASSUME TypeOK, GraphsAreSeparate, NEW w \in Workflows, NEW v \in Workflows, Clone(w, v)
  PROVE  GraphIsAsAsked'
<1>1. PICK copyOf, linkOf : Clones(w, v, copyOf, linkOf)
  BY CloneClones
<1>2. v \notin workflows /\ asked' = [GraphOf(w) EXCEPT !.workflow = v]
  BY DEF Clone
<1> DEFINE mine == NodesOf(w)
           copies == NodesOf(v)'
           old == [n \in mine |-> node[n].name]
           new == [n \in copies |-> node'[n].name]
<1>3. copies = { copyOf[m] : m \in mine }
  BY <1>1, <1>2, ClonedNodes
<1>4. ASSUME NEW m \in mine PROVE copyOf[m] \in copies /\ new[copyOf[m]] = old[m]
  <2>1. node'[copyOf[m]] = [workflow |-> v, name |-> node[m].name]
    BY <1>1 DEF Clones
  <2> QED
    BY <1>3, <2>1
<1>5. /\ DOMAIN transition = Transitions /\ DOMAIN transition' = Transitions
      /\ mine \subseteq Nodes
  BY <1>1, SubsetsOfTheState DEF Clones, TypeOK
<1>6. \A m \in mine : node[copyOf[m]] = None
  BY <1>1 DEF Clones, Unused, TypeOK
<1>7. \A t \in TransitionsOf(w) :
        /\ t \in Transitions /\ transition[t] # None
        /\ transition[t].from \in mine /\ transition[t].to \in mine
        /\ linkOf[t] \in Transitions
        /\ transition'[linkOf[t]] # None
        /\ transition'[linkOf[t]].from = copyOf[transition[t].from]
        /\ transition'[linkOf[t]].to = copyOf[transition[t].to]
  <2> SUFFICES ASSUME NEW t \in TransitionsOf(w)
               PROVE  /\ t \in Transitions /\ transition[t] # None
                      /\ transition[t].from \in mine /\ transition[t].to \in mine
                      /\ linkOf[t] \in Transitions
                      /\ transition'[linkOf[t]] # None
                      /\ transition'[linkOf[t]].from = copyOf[transition[t].from]
                      /\ transition'[linkOf[t]].to = copyOf[transition[t].to]
    OBVIOUS
  <2>1. /\ t \in Transitions /\ transition[t] # None
        /\ transition[t].from \in mine /\ transition[t].to \in mine
    BY SeparateWithin DEF TransitionsOf
  <2>2. linkOf[t] \in Transitions
    BY <1>1 DEF Clones, Unused, TypeOK
  <2>3. transition'[linkOf[t]] = [from |-> copyOf[transition[t].from],
                                  to |-> copyOf[transition[t].to]]
    BY <1>1 DEF Clones
  <2>4. copyOf[transition[t].from] \in Nodes /\ copyOf[transition[t].to] \in Nodes
    BY <1>1, <2>1 DEF Clones, Unused, TypeOK
  <2>5. transition'[linkOf[t]] \in Transition
    BY <2>3, <2>4 DEF Transition
  <2> QED
    BY <2>1, <2>2, <2>3, <2>5, RowsAssumption
\* Only copies join copies: the rows of the copies were free.
<1>8. ASSUME NEW t \in Transitions, transition'[t] # None, transition'[t].to \in copies
      PROVE  \E s \in TransitionsOf(w) : linkOf[s] = t
  <2> SUFFICES ASSUME \A s \in TransitionsOf(w) : linkOf[s] # t PROVE FALSE
    OBVIOUS
  <2>1. transition'[t] = transition[t]
    BY <1>1 DEF Clones
  <2>2. node[transition[t].to] # None
    BY <1>8, <2>1 DEF GraphsAreSeparate, NodesOf
  <2> QED
    BY <1>3, <1>6, <1>8, <2>1, <2>2
<1>9. { old[n] : n \in mine } = { new[n] : n \in copies }
  <2> HIDE DEF old, new, mine, copies
  <2> QED
    BY <1>3, <1>4
<1> DEFINE Inner == { x \in Transitions : /\ transition[x] # None
                        /\ {transition[x].from, transition[x].to} \subseteq mine }
           Inner2 == { x \in Transitions : /\ transition'[x] # None
                        /\ {transition'[x].from, transition'[x].to} \subseteq copies }
<1>10. Inner = TransitionsOf(w)
  BY <1>7 DEF TransitionsOf
<1>11. Inner2 = { linkOf[s] : s \in TransitionsOf(w) }
  <2> HIDE DEF old, new, mine, copies
  <2>1. Inner2 \subseteq { linkOf[s] : s \in TransitionsOf(w) }
    BY <1>8
  <2>2. { linkOf[s] : s \in TransitionsOf(w) } \subseteq Inner2
    BY <1>4, <1>7
  <2> QED
    BY <2>1, <2>2
<1>12. { <<old[transition[t].from], old[transition[t].to]>> : t \in TransitionsOf(w) }
         = { <<new[transition'[t].from], new[transition'[t].to]>> : t \in Inner2 }
  <2> HIDE DEF old, new, mine, copies, Inner2
  <2>1. \A t \in TransitionsOf(w) :
          <<new[transition'[linkOf[t]].from], new[transition'[linkOf[t]].to]>>
            = <<old[transition[t].from], old[transition[t].to]>>
    BY <1>4, <1>7
  <2> QED
    BY <1>11, <2>1
<1>13. DOMAIN old = mine /\ DOMAIN new = copies
  OBVIOUS
<1>14. GraphOf(v)' = Graph(v, new, transition')
  BY DEF GraphOf, Graph
<1>15. GraphOf(w) = Graph(w, old, transition)
  BY DEF GraphOf
<1>16. Graph(v, new, transition') = [Graph(w, old, transition) EXCEPT !.workflow = v]
  <2> HIDE DEF old, new, mine, copies
  <2>1. Graph(w, old, transition) =
          [workflow |-> w, names |-> { old[n] : n \in mine },
           links |-> { <<old[transition[t].from], old[transition[t].to]>> : t \in Inner }]
    BY <1>5, <1>13 DEF Graph
  <2>2. Graph(v, new, transition') =
          [workflow |-> v, names |-> { new[n] : n \in copies },
           links |-> { <<new[transition'[t].from], new[transition'[t].to]>> : t \in Inner2 }]
    BY <1>5, <1>13 DEF Graph
  <2> HIDE DEF Inner, Inner2
  <2>3. ASSUME NEW names, NEW links
        PROVE  [[workflow |-> w, names |-> names, links |-> links] EXCEPT !.workflow = v]
                 = [workflow |-> v, names |-> names, links |-> links]
    OBVIOUS
  <2>4. Graph(w, old, transition) =
          [workflow |-> w, names |-> { new[n] : n \in copies },
           links |-> { <<new[transition'[t].from], new[transition'[t].to]>> : t \in Inner2 }]
    BY <1>9, <1>10, <1>12, <2>1
  <2> QED
    BY <2>2, <2>3, <2>4
<1> QED
  BY <1>2, <1>14, <1>15, <1>16 DEF GraphIsAsAsked, Graph

\* For any graphs and any rows to keep, create, rename and delete: after an edit a
\* Workflow is what was sent, and after a clone what its original is
\* (WorkflowSerializer.create_or_update, Workflow.clone).
THEOREM RequestsYieldWhatIsAsked == Spec => []GraphIsAsAsked
<1>1. Init => GraphIsAsAsked
  BY DEF Init, GraphIsAsAsked
<1>2. ASSUME TypeOK, GraphsAreSeparate, GraphIsAsAsked, [Next]_vars PROVE GraphIsAsAsked'
  <2>1. ASSUME NEW w \in Workflows, Edit(w) PROVE GraphIsAsAsked'
    BY <1>2, <2>1, EditEdits, EditYieldsWhatIsAsked
  <2>2. ASSUME NEW w \in Workflows, NEW v \in Workflows, Clone(w, v) PROVE GraphIsAsAsked'
    BY <1>2, <2>2, CloneYieldsWhatIsAsked
  <2>3. CASE asked' = None
    BY <2>3 DEF GraphIsAsAsked
  <2>4. CASE UNCHANGED vars
    <3>1. asked' = asked /\ node' = node /\ transition' = transition
      BY <2>4 DEF vars
    <3>2. \A w : NodesOf(w)' = NodesOf(w)
      BY <3>1 DEF NodesOf
    <3>3. \A w : GraphOf(w)' = GraphOf(w)
      BY <3>1, <3>2 DEF GraphOf, Graph
    <3> QED
      BY <1>2, <3>1, <3>3 DEF GraphIsAsAsked
  <2>5. asked' = None \/ UNCHANGED vars
          \/ \E w \in Workflows : Edit(w) \/ \E v \in Workflows : Clone(w, v)
    BY <1>2
    DEF Next, Create, Delete, SaveNode, DeleteNode, SaveTransition, DeleteTransition
  <2> QED
    BY <2>1, <2>2, <2>3, <2>4, <2>5
<1> QED
  BY <1>1, <1>2, Initially, TypeStep, SeparateStep, PTL DEF Spec

=============================================================================
