--------------------------- MODULE TopologyProofs ---------------------------
(***************************************************************************)
(* What the hierarchy store keeps true for any number of nodes, addresses, *)
(* kinds and operations.  The operations are built from two functions on   *)
(* maps of nodes, AddNode and Linked; one lemma for each says that it      *)
(* keeps a sound map sound, and the theorems follow by induction.  What    *)
(* the queries answer follows from the walk upwards: the parent links from *)
(* a node either end or repeat within as many steps as there are nodes,    *)
(* and two walks that meet stay together.                                  *)
(***************************************************************************)
EXTENDS Topology, FiniteSetTheorems, WellFoundedInduction, TLAPS

\* A sound map: well formed, links agreeing, one live node for each address.
Sound(m) == WellTyped(m) /\ Agree(m) /\ ~DuplicateCurrent(m)

\* The inductive invariant.
HierarchyInv == TypeOK /\ Sound(nodes)

\* In a sound map add_node finds the one live node of an address.
LEMMA AddedIsLive ==
    ASSUME NEW m, Sound(m), NEW id, NEW bdf, Live(m, bdf) # {}
    PROVE  /\ Added(m, id, bdf) \in Live(m, bdf)
           /\ Live(m, bdf) = {Added(m, id, bdf)}
<1>1. PICK i \in Live(m, bdf) : TRUE
  OBVIOUS
<1>2. \A j \in Live(m, bdf) : j = i
  BY <1>1 DEF Live, Sound, DuplicateCurrent
<1>3. i \in Int
  BY <1>1 DEF Live, Sound, WellTyped, NodeId
<1>4. \E k \in Live(m, bdf) : \A j \in Live(m, bdf) : k <= j
  BY <1>1, <1>2, <1>3
<1>5. Added(m, id, bdf) \in Live(m, bdf)
  BY <1>4 DEF Added
<1> QED
  BY <1>2, <1>5

\* add_node_locked keeps a map sound and the identities of its nodes.
LEMMA AddNodeSound ==
    ASSUME NEW m, Sound(m), NEW id \in NodeId, NEW bdf \in Bdf, NEW kind \in Kind,
           NEW g \in Generation,
           \A i \in Live(m, bdf) : m[i].generation < MaxGeneration
    PROVE  /\ Sound(AddNode(m, id, bdf, kind, g))
           /\ Keeps(m, AddNode(m, id, bdf, kind, g))
<1> DEFINE n == AddNode(m, id, bdf, kind, g)
<1> USE TopologyAssumption
<1>0. /\ DOMAIN m \subseteq NodeId
      /\ \A x \in DOMAIN m : m[x] \in Node
      /\ \A x \in DOMAIN m : m[x].generation \in Generation
  BY DEF Sound, WellTyped, Node
<1>1. CASE Live(m, bdf) # {}
  <2> DEFINE a == Added(m, id, bdf)
  <2>1. a \in DOMAIN m /\ m[a].generation < MaxGeneration
    BY <1>1, AddedIsLive DEF Live
  <2>2. n = [m EXCEPT ![a].generation = @ + 1]
    BY <1>1 DEF AddNode
  <2>3. m[a].generation + 1 \in Generation
    BY <2>1, <1>0 DEF Generation
  <2>4. /\ DOMAIN n = DOMAIN m
        /\ \A x \in DOMAIN m :
              /\ n[x].bdf = m[x].bdf /\ n[x].kind = m[x].kind /\ n[x].parent = m[x].parent
              /\ n[x].children = m[x].children /\ n[x].removed = m[x].removed
              /\ n[x].generation = IF x = a THEN m[x].generation + 1 ELSE m[x].generation
    BY <2>1, <2>2, <1>0 DEF Node
  <2>5. n \in [DOMAIN n -> Node]
    BY <2>1, <2>2, <2>3, <1>0 DEF Node
  <2>6. WellTyped(n)
    BY <2>4, <2>5, <1>0 DEF WellTyped
  <2>7. Agree(n)
    BY <2>4 DEF Sound, Agree
  <2>8. ~DuplicateCurrent(n)
    BY <2>4 DEF Sound, DuplicateCurrent
  <2>9. Keeps(m, n)
    BY <2>4, <1>0 DEF Keeps, Generation
  <2> QED
    BY <2>6, <2>7, <2>8, <2>9 DEF Sound
<1>2. CASE Live(m, bdf) = {} /\ id \in DOMAIN m
  <2>1. n = m
    BY <1>2 DEF AddNode
  <2>2. Keeps(m, m)
    BY <1>0 DEF Keeps, Generation
  <2> QED
    BY <2>1, <2>2
<1>3. CASE Live(m, bdf) = {} /\ id \notin DOMAIN m
  <2>1. n = [x \in DOMAIN m \cup {id} |-> IF x = id THEN NewNode(bdf, kind, g) ELSE m[x]]
    BY <1>3 DEF AddNode
  <2>2. NewNode(bdf, kind, g) \in Node
    BY DEF NewNode, Node
  <2>3. /\ DOMAIN n = DOMAIN m \cup {id}
        /\ n[id] = NewNode(bdf, kind, g)
        /\ \A x \in DOMAIN m : n[x] = m[x]
    BY <2>1, <1>3
  <2>4. WellTyped(n)
    BY <2>1, <2>2, <1>0 DEF WellTyped
  <2>5. Agree(n)
    BY <2>3 DEF Sound, Agree, NewNode
  <2>6. ~DuplicateCurrent(n)
    BY <2>3, <1>3 DEF Sound, DuplicateCurrent, NewNode, Live
  <2>7. Keeps(m, n)
    BY <2>3, <1>0 DEF Keeps, Generation
  <2> QED
    BY <2>4, <2>5, <2>6, <2>7 DEF Sound
<1> QED
  BY <1>1, <1>2, <1>3

\* attach_locked keeps a map sound and the identities of its nodes.
LEMMA LinkedSound ==
    ASSUME NEW m, Sound(m), NEW child, NEW parent
    PROVE  Sound(Linked(m, child, parent)) /\ Keeps(m, Linked(m, child, parent))
<1> DEFINE n == Linked(m, child, parent)
<1> USE TopologyAssumption
<1>0. /\ DOMAIN m \subseteq NodeId
      /\ \A x \in DOMAIN m : m[x] \in Node
      /\ \A x \in DOMAIN m : m[x].generation \in Int
  BY DEF Sound, WellTyped, Node, Generation
<1>1. CASE ~({child, parent} \subseteq DOMAIN m) \/ child = parent \/ m[child].parent = parent
  <2>1. n = m
    BY <1>1 DEF Linked
  <2>2. Keeps(m, m)
    BY <1>0 DEF Keeps
  <2> QED
    BY <2>1, <2>2
<1>2. CASE ~(~({child, parent} \subseteq DOMAIN m) \/ child = parent \/ m[child].parent = parent)
  <2>1. child \in DOMAIN m /\ parent \in DOMAIN m /\ child # parent
    BY <1>2
  <2>2. n = [m EXCEPT ![child].parent = parent, ![parent].children = @ \cup {child}]
    BY <1>2 DEF Linked
  <2>a. /\ DOMAIN n = DOMAIN m
        /\ n[child] = [m[child] EXCEPT !.parent = parent]
        /\ n[parent] = [m[parent] EXCEPT !.children = @ \cup {child}]
        /\ \A x \in DOMAIN m \ {child, parent} : n[x] = m[x]
    BY <2>1, <2>2
  <2> HIDE DEF n
  <2>3. /\ DOMAIN n = DOMAIN m
        /\ \A x \in DOMAIN m :
              /\ n[x].bdf = m[x].bdf /\ n[x].kind = m[x].kind
              /\ n[x].generation = m[x].generation /\ n[x].removed = m[x].removed
              /\ n[x].parent = IF x = child THEN parent ELSE m[x].parent
              /\ n[x].children = IF x = parent THEN m[x].children \cup {child} ELSE m[x].children
    <3> SUFFICES ASSUME NEW x \in DOMAIN m
                 PROVE  /\ n[x].bdf = m[x].bdf /\ n[x].kind = m[x].kind
                        /\ n[x].generation = m[x].generation /\ n[x].removed = m[x].removed
                        /\ n[x].parent = IF x = child THEN parent ELSE m[x].parent
                        /\ n[x].children = IF x = parent THEN m[x].children \cup {child}
                                          ELSE m[x].children
      BY <2>a
    <3>1. m[x] \in Node
      BY <1>0
    <3>2. CASE x = child
      BY <2>1, <2>a, <3>1, <3>2 DEF Node
    <3>3. CASE x = parent
      BY <2>1, <2>a, <3>1, <3>3 DEF Node
    <3>4. CASE x \notin {child, parent}
      BY <2>1, <2>a, <3>1, <3>4 DEF Node
    <3> QED
      BY <3>2, <3>3, <3>4
  <2>4. ASSUME NEW x \in DOMAIN n PROVE n[x] \in Node
    <3>1. m[x] \in Node /\ m[child] \in Node /\ m[parent] \in Node
      BY <1>0, <2>1, <2>a
    <3>2. child \in NodeId /\ parent \in NodeId
      BY <1>0, <2>1
    <3>3. CASE x = child
      BY <2>a, <3>1, <3>2, <3>3 DEF Node
    <3>4. CASE x = parent
      BY <2>a, <3>1, <3>2, <3>4 DEF Node
    <3>5. CASE x \notin {child, parent}
      BY <2>a, <3>1, <3>5
    <3> QED
      BY <3>3, <3>4, <3>5
  <2>5. WellTyped(n)
    <3>1. n = [x \in DOMAIN n |-> n[x]]
      BY <2>2 DEF n
    <3> QED
      BY <2>3, <2>4, <3>1, <1>0 DEF WellTyped
  <2>6. Agree(n)
    <3> SUFFICES ASSUME NEW x \in DOMAIN m, n[x].parent # None
                 PROVE  /\ n[x].parent \in DOMAIN m /\ n[x].parent # x
                        /\ x \in n[n[x].parent].children
      BY <2>3 DEF Agree
    <3>1. CASE x = child
      BY <2>1, <2>3, <3>1
    <3>2. CASE x # child
      <4>1. n[x].parent = m[x].parent
        BY <2>3, <3>2
      <4>2. /\ m[x].parent \in DOMAIN m /\ m[x].parent # x
            /\ x \in m[m[x].parent].children
        BY <4>1 DEF Sound, Agree
      <4>3. m[m[x].parent].children \subseteq n[m[x].parent].children
        BY <2>3, <4>2
      <4> QED
        BY <4>1, <4>2, <4>3
    <3> QED
      BY <3>1, <3>2
  <2>b. /\ DOMAIN n = DOMAIN m
        /\ \A x \in DOMAIN m :
              /\ n[x].bdf = m[x].bdf /\ n[x].kind = m[x].kind
              /\ n[x].generation = m[x].generation /\ n[x].removed = m[x].removed
    BY <2>3
  <2>7. ~DuplicateCurrent(n)
    BY <2>b DEF Sound, DuplicateCurrent
  <2>8. Keeps(m, n)
    BY <2>b, <1>0 DEF Keeps
  <2> QED
    BY <2>5, <2>6, <2>7, <2>8 DEF Sound, n
<1> QED
  BY <1>1, <1>2

\* Keeps is transitive on well-formed maps.
LEMMA KeepsTransitive ==
    ASSUME NEW m, NEW n, NEW o, WellTyped(m), WellTyped(n), WellTyped(o),
           Keeps(m, n), Keeps(n, o)
    PROVE  Keeps(m, o)
<1>1. ASSUME NEW x \in DOMAIN m PROVE
         /\ x \in DOMAIN n /\ x \in DOMAIN o
         /\ m[x].generation \in Int /\ n[x].generation \in Int /\ o[x].generation \in Int
  <2>1. x \in DOMAIN n /\ x \in DOMAIN o
    BY DEF Keeps
  <2>2. m[x] \in Node /\ n[x] \in Node /\ o[x] \in Node
    BY <2>1 DEF WellTyped
  <2> QED
    BY <2>1, <2>2 DEF Node, Generation
<1> QED
  BY <1>1 DEF Keeps

\* The part the adding operations share.
LEMMA AddAttachedSound ==
    ASSUME Sound(nodes), NEW id \in NodeId, NEW bdf \in Bdf, NEW kind \in Kind,
           NEW g \in Generation, NEW parent, Room(bdf),
           AddAttached(id, bdf, kind, g, parent)
    PROVE  Sound(nodes') /\ Keeps(nodes, nodes')
<1> DEFINE m == AddNode(nodes, id, bdf, kind, g)
           n == Linked(m, Added(nodes, id, bdf), parent)
<1>1. Sound(m) /\ Keeps(nodes, m)
  BY AddNodeSound DEF Room
<1>2. Sound(n) /\ Keeps(m, n)
  BY <1>1, LinkedSound
<1>3. Keeps(nodes, n)
  BY <1>1, <1>2, KeepsTransitive DEF Sound
<1>4. nodes' = m \/ nodes' = n
  BY DEF AddAttached, WithNode
<1> QED
  BY <1>1, <1>2, <1>3, <1>4

\* Every operation keeps the map sound and the identities of its nodes.
LEMMA StepSound ==
    ASSUME HierarchyInv, Next
    PROVE  Sound(nodes') /\ Keeps(nodes, nodes') /\ next_id' \in 1 .. (MaxId + 1)
<1> USE TopologyAssumption
<1>0. /\ Sound(nodes) /\ next_id \in 1 .. (MaxId + 1)
      /\ DOMAIN nodes \subseteq NodeId
      /\ \A x \in DOMAIN nodes : nodes[x] \in Node /\ nodes[x].generation \in Int
  BY DEF HierarchyInv, TypeOK, Sound, WellTyped, Node, Generation
<1>1. ASSUME NEW bdf \in Bdf, NEW g \in NewGeneration, AddRootComplex(bdf, g)
      PROVE  Sound(nodes') /\ Keeps(nodes, nodes') /\ next_id' \in 1 .. (MaxId + 1)
  <2>1. next_id \in NodeId /\ next_id' \in 1 .. (MaxId + 1)
    BY <1>0, <1>1 DEF AddRootComplex, NodeId
  <2>2. "ROOT_COMPLEX" \in Kind /\ g \in Generation
    BY DEF Kind, DeviceClass
  <2> QED
    BY <1>0, <1>1, <2>1, <2>2, AddNodeSound DEF AddRootComplex, Room
<1>2. ASSUME NEW bdf \in Bdf, NEW g \in NewGeneration, NEW parent \in AnyId,
             AddBridge(bdf, g, parent)
      PROVE  Sound(nodes') /\ Keeps(nodes, nodes') /\ next_id' \in 1 .. (MaxId + 1)
  <2>1. next_id \in NodeId /\ next_id' \in 1 .. (MaxId + 1)
    BY <1>0, <1>2 DEF AddBridge, NodeId
  <2>2. "BRIDGE" \in Kind /\ g \in Generation
    BY DEF Kind, DeviceClass
  <2> QED
    BY <1>0, <1>2, <2>1, <2>2, AddAttachedSound DEF AddBridge
<1>3. ASSUME NEW bdf \in Bdf, NEW g \in NewGeneration, NEW id \in NodeId,
             NEW kind \in AddedKind, NEW parent \in AnyId,
             AddEndpoint(id, bdf, kind, g, parent)
      PROVE  Sound(nodes') /\ Keeps(nodes, nodes') /\ next_id' \in 1 .. (MaxId + 1)
  <2>1. kind \in Kind /\ g \in Generation
    BY DEF Kind
  <2> QED
    BY <1>0, <1>3, <2>1, AddAttachedSound DEF AddEndpoint
<1>4. ASSUME NEW child \in AnyId, NEW parent \in AnyId, Attach(child, parent)
      PROVE  Sound(nodes') /\ Keeps(nodes, nodes') /\ next_id' \in 1 .. (MaxId + 1)
  BY <1>0, <1>4, LinkedSound DEF Attach
<1>5. ASSUME NEW id \in AnyId, RemoveNode(id)
      PROVE  Sound(nodes') /\ Keeps(nodes, nodes') /\ next_id' \in 1 .. (MaxId + 1)
  <2>1. /\ DOMAIN nodes' = DOMAIN nodes
        /\ \A x \in DOMAIN nodes :
              /\ nodes'[x].bdf = nodes[x].bdf /\ nodes'[x].kind = nodes[x].kind
              /\ nodes'[x].generation = nodes[x].generation
              /\ nodes'[x].parent = nodes[x].parent /\ nodes'[x].children = nodes[x].children
              /\ nodes[x].removed => nodes'[x].removed
    BY <1>0, <1>5 DEF RemoveNode, Node
  <2>2. WellTyped(nodes')
    BY <1>0, <1>5 DEF RemoveNode, Node, WellTyped
  <2>3. Agree(nodes')
    BY <1>0, <2>1 DEF Sound, Agree
  <2>4. ~DuplicateCurrent(nodes')
    BY <1>0, <2>1 DEF Sound, DuplicateCurrent
  <2>5. Keeps(nodes, nodes')
    BY <1>0, <2>1 DEF Keeps
  <2> QED
    BY <1>0, <1>5, <2>2, <2>3, <2>4, <2>5 DEF RemoveNode, Sound
<1>6. ASSUME NEW id \in AnyId, BumpGeneration(id)
      PROVE  Sound(nodes') /\ Keeps(nodes, nodes') /\ next_id' \in 1 .. (MaxId + 1)
  <2>1. /\ DOMAIN nodes' = DOMAIN nodes
        /\ \A x \in DOMAIN nodes :
              /\ nodes'[x].bdf = nodes[x].bdf /\ nodes'[x].kind = nodes[x].kind
              /\ nodes'[x].generation >= nodes[x].generation
              /\ nodes'[x].parent = nodes[x].parent /\ nodes'[x].children = nodes[x].children
              /\ nodes'[x].removed = nodes[x].removed
    BY <1>0, <1>6 DEF BumpGeneration, Node
  <2>2. nodes[id].generation + 1 \in Generation
    BY <1>0, <1>6 DEF BumpGeneration, Node, Generation
  <2>3. WellTyped(nodes')
    BY <1>0, <1>6, <2>2 DEF BumpGeneration, Node, WellTyped
  <2>4. Agree(nodes')
    BY <1>0, <2>1 DEF Sound, Agree
  <2>5. ~DuplicateCurrent(nodes')
    BY <1>0, <2>1 DEF Sound, DuplicateCurrent
  <2>6. Keeps(nodes, nodes')
    BY <1>0, <2>1 DEF Keeps
  <2> QED
    BY <1>0, <1>6, <2>3, <2>4, <2>5, <2>6 DEF BumpGeneration, Sound
<1> QED
  BY <1>1, <1>2, <1>3, <1>4, <1>5, <1>6 DEF Next

\* The inductive invariant holds in every reachable state, for every number of
\* nodes, addresses, kinds and operations.
THEOREM HierarchyInvariant == Spec => []HierarchyInv
<1>1. Init => HierarchyInv
  <2> SUFFICES ASSUME Init PROVE HierarchyInv
    OBVIOUS
  <2>1. DOMAIN nodes = {}
    BY DEF Init
  <2> QED
    BY <2>1, TopologyAssumption
       DEF Init, HierarchyInv, TypeOK, Sound, WellTyped, Agree, DuplicateCurrent
<1>2. HierarchyInv /\ [Next]_vars => HierarchyInv'
  <2> SUFFICES ASSUME HierarchyInv, [Next]_vars PROVE HierarchyInv'
    OBVIOUS
  <2>1. CASE Next
    <3>0. Counted
      BY <2>1 DEF Next, AddRootComplex, AddBridge, AddEndpoint, Attach, RemoveNode, BumpGeneration
    <3>1. ops' \in 0 .. MaxOps
      BY <3>0, TopologyAssumption DEF Counted, HierarchyInv, TypeOK
    <3>2. Sound(nodes') /\ next_id' \in 1 .. (MaxId + 1)
      BY <2>1, StepSound
    <3> QED
      BY <3>1, <3>2 DEF HierarchyInv, TypeOK, Sound, WellTyped, Agree, DuplicateCurrent
  <2>2. CASE UNCHANGED vars
    BY <2>2 DEF vars, HierarchyInv, TypeOK, Sound, WellTyped, Agree, DuplicateCurrent
  <2> QED
    BY <2>1, <2>2
<1> QED
  BY <1>1, <1>2, PTL DEF Spec

\* The records of nodes_ stay well formed through every operation: a parent or a
\* child is always the id of a node, and next_id_ never leaves its bound.
THEOREM TopologyTypeCorrect == Spec => []TypeOK
<1>1. HierarchyInv => TypeOK
  BY DEF HierarchyInv
<1> QED
  BY <1>1, HierarchyInvariant, PTL

\* attach, remove_node and the adding operations keep the two directions of
\* every link in agreement.
THEOREM LinksAgreeAlways == Spec => []LinksAgree
<1>1. HierarchyInv => LinksAgree
  BY DEF HierarchyInv, Sound, LinksAgree
<1> QED
  BY <1>1, HierarchyInvariant, PTL

\* No operation drops, revives or rebinds a node, or takes its generation back.
THEOREM IdentityIsForEverAlways == Spec => IdentityIsForEver
<1>1. HierarchyInv /\ [Next]_vars => [Keeps(nodes, nodes')]_vars
  <2> SUFFICES ASSUME HierarchyInv, Next PROVE Keeps(nodes, nodes')
    OBVIOUS
  <2> QED
    BY StepSound
<1> QED
  BY <1>1, HierarchyInvariant, PTL DEF Spec, IdentityIsForEver

-----------------------------------------------------------------------------
(* Walks.  What ancestors_locked and the queries built from it compute is     *)
(* proved by induction over the steps of a walk.  The induction is over a set *)
(* of numbers, which needs only that every such set has a least element.      *)

LessThan == {mn \in Nat \X Nat : mn[1] < mn[2]}

\* The order of the numbers as a relation has no endless descent.
LEMMA LessThanIsWellFounded == IsWellFoundedOn(LessThan, Nat)
<1>1. LessThan = OpToRel(<, Nat)
  BY Zenon DEF LessThan, OpToRel
<1> QED
  BY <1>1, NatLessThanWellFounded, Zenon

\* A set of numbers that is not empty has a least element.
LEMMA LeastNumber ==
    ASSUME NEW T \in SUBSET Nat, T # {}
    PROVE  \E n \in T : \A m \in T : n <= m
<1>3. PICK n \in T : \A m \in T : ~(<<m, n>> \in LessThan)
  BY LessThanIsWellFounded, WFMin, Zenon
<1>4. \A m \in T : ~(m < n)
  BY <1>3 DEF LessThan
<1> QED
  BY <1>4

\* In a set of ids that is not empty there is a least one.
LEMMA LeastId ==
    ASSUME NEW X \in SUBSET NodeId, X # {}
    PROVE  \E id \in X : \A j \in X : id <= j
<1>1. NodeId \subseteq Nat
  BY TopologyAssumption DEF NodeId
<1>2. X \in SUBSET Nat
  BY <1>1
<1> QED
  BY <1>2, LeastNumber

\* validate() finds nothing but addresses and kinds that callers put in, in every
\* reachable state: at most one live node at an address and no dangling parent.
THEOREM ValidateBlamesInputAlways == Spec => []ValidateBlamesInput
<1>1. HierarchyInv => ValidateBlamesInput
  <2> SUFFICES ASSUME HierarchyInv PROVE ValidateBlamesInput
    OBVIOUS
  <2> DEFINE Faulty == {id \in DOMAIN nodes : ~nodes[id].removed /\ Fault(nodes, id) # "OK"}
  <2>0. DOMAIN nodes \subseteq NodeId /\ NodeId \subseteq Int
    BY DEF HierarchyInv, Sound, WellTyped, NodeId
  <2>1. ASSUME NEW id \in DOMAIN nodes, ~nodes[id].removed
        PROVE  /\ Fault(nodes, id) \in {"OK", "INVALID_VALUE", "INVALID_BDF"}
               /\ Fault(nodes, id) = "OK" <=> WellGiven(nodes[id])
    <3>1. ~\E j \in DOMAIN nodes : j < id /\ ~nodes[j].removed /\ nodes[j].bdf = nodes[id].bdf
      <4> SUFFICES ASSUME NEW j \in DOMAIN nodes, j < id, ~nodes[j].removed,
                          nodes[j].bdf = nodes[id].bdf
                   PROVE  FALSE
        OBVIOUS
      <4>1. j \in Int /\ id \in Int
        BY <2>0
      <4>2. j # id
        BY <4>1
      <4> QED
        BY <2>1, <4>2 DEF HierarchyInv, Sound, DuplicateCurrent
    <3>2. nodes[id].parent # None => nodes[id].parent \in DOMAIN nodes
      BY <2>1 DEF HierarchyInv, Sound, Agree
    <3> QED
      BY <3>1, <3>2 DEF Fault, WellGiven
  <2>2. CASE \A id \in DOMAIN nodes : nodes[id].removed \/ WellGiven(nodes[id])
    <3>1. Faulty = {}
      BY <2>1, <2>2
    <3> QED
      BY <2>2, <3>1 DEF ValidateBlamesInput, ValidateResult
  <2>3. CASE ~(\A id \in DOMAIN nodes : nodes[id].removed \/ WellGiven(nodes[id]))
    <3>1. Faulty # {} /\ Faulty \in SUBSET NodeId
      BY <2>0, <2>1, <2>3
    <3>2. \E id \in Faulty : \A j \in Faulty : id <= j
      BY <3>1, LeastId
    <3> DEFINE first == CHOOSE id \in Faulty : \A j \in Faulty : id <= j
    <3>3. first \in Faulty
      BY <3>2
    <3>4. ValidateResult(nodes) = Fault(nodes, first)
      BY <3>1 DEF ValidateResult
    <3> HIDE DEF first
    <3>5. Fault(nodes, first) \in {"INVALID_VALUE", "INVALID_BDF"}
      BY <2>1, <3>3
    <3> QED
      BY <2>3, <3>4, <3>5 DEF ValidateBlamesInput
  <2> QED
    BY <2>2, <2>3
<1> QED
  BY <1>1, HierarchyInvariant, PTL

\* Induction over the numbers, for a set instead of a predicate: a proof names the
\* set of numbers for which its claim holds.
LEMMA Induction ==
    ASSUME NEW S \in SUBSET Nat, 0 \in S, \A n \in Nat : n \in S => n + 1 \in S
    PROVE  S = Nat
<1> SUFFICES ASSUME Nat \ S # {} PROVE FALSE
  OBVIOUS
<1>1. PICK n \in Nat \ S : \A k \in Nat \ S : n <= k
  BY LeastNumber
<1>2. n # 0 /\ n - 1 \in Nat
  BY <1>1
<1>3. n - 1 \in S
  BY <1>1, <1>2
<1>4. (n - 1) + 1 \in S
  BY <1>2, <1>3
<1> QED
  BY <1>1, <1>2, <1>4

\* The parent link of one node.
Step(m, x) == IF x \in DOMAIN m THEN m[x].parent ELSE None

\* g is the walk from id for n steps.
Walk(m, id, g, n) == g[0] = id /\ \A i \in 1 .. n : g[i] = Step(m, g[i - 1])

\* A walk can be continued for any number of steps.
LEMMA WalkExists ==
    ASSUME NEW m, NEW id, NEW n \in Nat
    PROVE  \E g : Walk(m, id, g, n)
<1> DEFINE S == {k \in Nat : \E g : Walk(m, id, g, k)}
<1>1. 0 \in S
  <2> DEFINE g == [i \in {0} |-> id]
  <2>1. Walk(m, id, g, 0)
    BY DEF Walk
  <2> QED
    BY <2>1
<1>2. ASSUME NEW k \in Nat, k \in S PROVE k + 1 \in S
  <2>1. PICK g : Walk(m, id, g, k)
    BY <1>2
  <2> DEFINE h == [i \in 0 .. (k + 1) |-> IF i = k + 1 THEN Step(m, g[k]) ELSE g[i]]
  <2>2. h[0] = id
    BY <2>1 DEF Walk
  <2>3. ASSUME NEW i \in 1 .. (k + 1) PROVE h[i] = Step(m, h[i - 1])
    <3>1. CASE i = k + 1
      BY <3>1, <2>1 DEF Walk
    <3>2. CASE i # k + 1
      BY <3>2, <2>1 DEF Walk
    <3> QED
      BY <3>1, <3>2
  <2>4. Walk(m, id, h, k + 1)
    BY <2>2, <2>3 DEF Walk
  <2> QED
    BY <2>4
<1> HIDE DEF S
<1>3. S = Nat
  <2>1. S \in SUBSET Nat
    BY DEF S
  <2> QED
    BY <1>1, <1>2, <2>1, Induction
<1> QED
  BY <1>3 DEF S

\* Two walks from one node agree as far as both go.
LEMMA WalkUnique ==
    ASSUME NEW m, NEW id, NEW g, NEW h, NEW n \in Nat, NEW k \in Nat,
           Walk(m, id, g, n), Walk(m, id, h, k), n <= k
    PROVE  \A i \in 0 .. n : g[i] = h[i]
<1> DEFINE S == {i \in Nat : i <= n => g[i] = h[i]}
<1>1. 0 \in S
  BY DEF Walk
<1>2. ASSUME NEW i \in Nat, i \in S PROVE i + 1 \in S
  <2> SUFFICES ASSUME i + 1 <= n PROVE g[i + 1] = h[i + 1]
    OBVIOUS
  <2>1. i + 1 \in 1 .. n /\ i + 1 \in 1 .. k /\ (i + 1) - 1 = i
    OBVIOUS
  <2>2. g[i + 1] = Step(m, g[i]) /\ h[i + 1] = Step(m, h[i])
    BY <2>1 DEF Walk
  <2> QED
    BY <1>2, <2>2
<1> HIDE DEF S
<1>3. S = Nat
  <2>1. S \in SUBSET Nat
    BY DEF S
  <2> QED
    BY <1>1, <1>2, <2>1, Induction
<1> QED
  BY <1>3 DEF S

\* The recursive function behind Upstream exists, and so the k-th node upstream is
\* what following k parent links gives (the loop of ancestors_locked).
LEMMA UpstreamStep ==
    ASSUME NEW m, NEW id
    PROVE  /\ Upstream(m, id, 0) = id
           /\ \A k \in Nat : Upstream(m, id, k + 1) = Step(m, Upstream(m, id, k))
<1> DEFINE G(n) == CHOOSE g : Walk(m, id, g, n)
           f == [n \in Nat |-> G(n)[n]]
<1>1. \A n \in Nat : Walk(m, id, G(n), n)
  BY WalkExists, Zenon
<1> HIDE DEF G
<1>2. ASSUME NEW n \in Nat, n # 0 PROVE f[n] = Step(m, f[n - 1])
  <2>1. n - 1 \in Nat /\ n \in 1 .. n /\ n - 1 <= n /\ n - 1 \in 0 .. (n - 1)
    BY <1>2
  <2>2. G(n)[n] = Step(m, G(n)[n - 1])
    BY <1>1, <2>1 DEF Walk
  <2>3. G(n - 1)[n - 1] = G(n)[n - 1]
    BY <1>1, <2>1, WalkUnique
  <2> QED
    BY <2>1, <2>2, <2>3
<1>3. f[0] = id
  BY <1>1 DEF Walk
<1>4. f = [i \in Nat |-> IF i = 0 THEN id
            ELSE IF f[i - 1] \in DOMAIN m THEN m[f[i - 1]].parent ELSE None]
  BY <1>2, <1>3 DEF Step
<1> DEFINE up == CHOOSE u : u = [i \in Nat |-> IF i = 0 THEN id
                 ELSE IF u[i - 1] \in DOMAIN m THEN m[u[i - 1]].parent ELSE None]
<1>5. up = [i \in Nat |-> IF i = 0 THEN id
            ELSE IF up[i - 1] \in DOMAIN m THEN m[up[i - 1]].parent ELSE None]
  <2> HIDE DEF f
  <2> QED
    BY <1>4, Zenon
<1>6. \A k : Upstream(m, id, k) = up[k]
  BY Zenon DEF Upstream
<1> HIDE DEF up
<1>7. up[0] = id /\ \A k \in Nat : up[k + 1] = Step(m, up[k])
  BY <1>5 DEF Step
<1> QED
  BY <1>6, <1>7, Zenon

\* Every parent is a node or absent, and there are finitely many nodes.
Closed(m) ==
    /\ IsFiniteSet(DOMAIN m) /\ None \notin DOMAIN m
    /\ \A x \in DOMAIN m : m[x].parent \in DOMAIN m \cup {None}

\* A sound hierarchy is closed.
LEMMA SoundIsClosed ==
    ASSUME NEW m, Sound(m)
    PROVE  Closed(m)
<1>1. DOMAIN m \subseteq 1 .. MaxId /\ MaxId \in Nat
  BY TopologyAssumption DEF Sound, WellTyped, NodeId
<1>2. IsFiniteSet(DOMAIN m)
  <2>1. IsFiniteSet(1 .. MaxId)
    BY <1>1, FS_Interval
  <2> QED
    BY <1>1, <2>1, FS_Subset
<1>3. None \notin DOMAIN m
  BY TopologyAssumption DEF Sound, WellTyped, NodeId, AnyId
<1> QED
  BY <1>2, <1>3 DEF Sound, Agree, Closed

\* Walking j and then k steps is walking j + k steps.
LEMMA UpstreamShift ==
    ASSUME NEW m, NEW x, NEW j \in Nat, NEW k \in Nat
    PROVE  Upstream(m, x, j + k) = Upstream(m, Upstream(m, x, j), k)
<1> DEFINE y == Upstream(m, x, j)
           S == {i \in Nat : Upstream(m, x, j + i) = Upstream(m, y, i)}
<1>1. 0 \in S
  BY UpstreamStep
<1>2. ASSUME NEW i \in Nat, i \in S PROVE i + 1 \in S
  <2>1. j + i \in Nat /\ j + (i + 1) = (j + i) + 1
    OBVIOUS
  <2>2. Upstream(m, x, (j + i) + 1) = Step(m, Upstream(m, x, j + i))
    BY <2>1, UpstreamStep
  <2>3. Upstream(m, y, i + 1) = Step(m, Upstream(m, y, i))
    BY UpstreamStep
  <2> QED
    BY <1>2, <2>1, <2>2, <2>3
<1> HIDE DEF S
<1>3. S = Nat
  <2>1. S \in SUBSET Nat
    BY DEF S
  <2> QED
    BY <1>1, <1>2, <2>1, Induction
<1> QED
  BY <1>3 DEF S

\* A walk through a closed hierarchy never leaves it, and does not come back once
\* it has run out of parents.
LEMMA UpstreamStays ==
    ASSUME NEW m, Closed(m), NEW x \in DOMAIN m \cup {None}, NEW k \in Nat
    PROVE  /\ Upstream(m, x, k) \in DOMAIN m \cup {None}
           /\ x = None => Upstream(m, x, k) = None
<1> DEFINE S == {i \in Nat :
                   /\ Upstream(m, x, i) \in DOMAIN m \cup {None}
                   /\ x = None => Upstream(m, x, i) = None}
<1>1. 0 \in S
  BY UpstreamStep
<1>2. ASSUME NEW i \in Nat, i \in S PROVE i + 1 \in S
  <2>1. Upstream(m, x, i + 1) = Step(m, Upstream(m, x, i))
    BY UpstreamStep
  <2> QED
    BY <1>2, <2>1 DEF Step, Closed
<1> HIDE DEF S
<1>3. S = Nat
  <2>1. S \in SUBSET Nat
    BY DEF S
  <2> QED
    BY <1>1, <1>2, <2>1, Induction
<1>4. k \in S
  BY <1>3
<1> QED
  BY <1>4 DEF S

\* After its end there is nothing on a walk.
LEMMA UpstreamEnds ==
    ASSUME NEW m, Closed(m), NEW x, NEW j \in Nat, NEW k \in Nat, j <= k,
           Upstream(m, x, j) = None
    PROVE  Upstream(m, x, k) = None
<1>1. k - j \in Nat /\ k = j + (k - j)
  OBVIOUS
<1>2. Upstream(m, x, k) = Upstream(m, None, k - j)
  BY <1>1, UpstreamShift
<1> QED
  BY <1>1, <1>2, UpstreamStays

\* A node that is upstream of itself is so within as many steps as there are
\* nodes, so the guard of ancestors_locked cuts off no cycle before it closes.
LEMMA CyclesAreShort ==
    ASSUME NEW m, Closed(m), NEW x \in DOMAIN m, NEW k \in Nat \ {0}, Upstream(m, x, k) = x
    PROVE  \E d \in 1 .. Cardinality(DOMAIN m) : Upstream(m, x, d) = x
<1> DEFINE S == {i \in Nat \ {0} : Upstream(m, x, i) = x}
<1>1. PICK d \in S : \A i \in S : d <= i
  <2>1. S \in SUBSET Nat /\ S # {}
    OBVIOUS
  <2> HIDE DEF S
  <2> QED
    BY <2>1, LeastNumber
<1>2. d \in Nat /\ d >= 1 /\ Upstream(m, x, d) = x
  BY <1>1
<1>3. ASSUME NEW i \in 0 .. (d - 1) PROVE Upstream(m, x, i) \in DOMAIN m
  <2>1. i \in Nat /\ i <= d
    BY <1>2, <1>3
  <2>2. Upstream(m, x, i) # None
    BY <1>2, <2>1, UpstreamEnds DEF Closed
  <2> QED
    BY <2>1, <2>2, UpstreamStays
<1>4. ASSUME NEW i \in 0 .. (d - 1), NEW j \in 0 .. (d - 1), i < j,
             Upstream(m, x, i) = Upstream(m, x, j)
      PROVE  FALSE
  <2>1. /\ i \in Nat /\ j \in Nat /\ d - j \in Nat
        /\ i + (d - j) \in Nat \ {0} /\ i + (d - j) < d /\ j + (d - j) = d
    BY <1>2, <1>4
  <2>2. Upstream(m, x, i + (d - j)) = Upstream(m, Upstream(m, x, i), d - j)
    BY <2>1, UpstreamShift
  <2>3. Upstream(m, x, d) = Upstream(m, Upstream(m, x, j), d - j)
    BY <2>1, UpstreamShift
  <2>4. i + (d - j) \in S
    BY <1>2, <1>4, <2>1, <2>2, <2>3
  <2>5. d <= i + (d - j)
    BY <1>1, <2>4
  <2> QED
    BY <1>2, <2>1, <2>5
<1> DEFINE f == [i \in 0 .. (d - 1) |-> Upstream(m, x, i)]
<1>5. f \in [0 .. (d - 1) -> DOMAIN m]
  BY <1>3
<1>6. \A i, j \in 0 .. (d - 1) : i # j => f[i] # f[j]
  <2> SUFFICES ASSUME NEW i \in 0 .. (d - 1), NEW j \in 0 .. (d - 1), i # j, f[i] = f[j]
               PROVE  FALSE
    OBVIOUS
  <2>1. i < j \/ j < i
    BY <1>2
  <2> QED
    BY <1>4, <2>1
<1>7. IsFiniteSet(0 .. (d - 1)) /\ Cardinality(0 .. (d - 1)) = d
  <2>1. 0 \in Int /\ d - 1 \in Int /\ ~(0 > d - 1) /\ (d - 1) - 0 + 1 = d
    BY <1>2
  <2> QED
    BY <2>1, FS_Interval
<1> HIDE DEF f
<1>8. IsFiniteSet(DOMAIN m) /\ Cardinality(DOMAIN m) \in Nat
  BY FS_CardinalityType DEF Closed
<1>9. d <= Cardinality(DOMAIN m)
  <2> SUFFICES ASSUME Cardinality(DOMAIN m) < d PROVE FALSE
    BY <1>2, <1>8
  <2> QED
    BY <1>5, <1>6, <1>7, <1>8, FS_PigeonHole
<1> QED
  BY <1>2, <1>8, <1>9

\* Without a cycle no node comes twice on a walk.
LEMMA WalkNeverReturns ==
    ASSUME NEW m, Closed(m), ~Cyclic(m), NEW x \in DOMAIN m,
           NEW i \in Nat, NEW j \in Nat, Upstream(m, x, i) # None,
           Upstream(m, x, i) = Upstream(m, x, j)
    PROVE  i = j
<1>1. ASSUME NEW a \in Nat, NEW b \in Nat, a < b, Upstream(m, x, a) # None,
             Upstream(m, x, a) = Upstream(m, x, b)
      PROVE  FALSE
  <2> DEFINE y == Upstream(m, x, a)
  <2>1. y \in DOMAIN m
    BY <1>1, UpstreamStays
  <2>2. b - a \in Nat \ {0} /\ b = a + (b - a)
    BY <1>1
  <2>3. Upstream(m, y, b - a) = y
    BY <1>1, <2>2, UpstreamShift
  <2>4. PICK d \in 1 .. Cardinality(DOMAIN m) : Upstream(m, y, d) = y
    BY <2>1, <2>2, <2>3, CyclesAreShort
  <2> QED
    BY <2>1, <2>4 DEF Cyclic
<1> QED
  BY <1>1

\* Without a cycle ancestors_locked reaches the top before its guard stops it.
LEMMA AncestorsEnd ==
    ASSUME NEW m, Closed(m), ~Cyclic(m), NEW x \in DOMAIN m
    PROVE  \E n \in 1 .. Cardinality(DOMAIN m) :
              /\ Ancestors(m, x) = [k \in 1 .. n |-> Upstream(m, x, k - 1)]
              /\ \A k \in Nat : k < n <=> Upstream(m, x, k) # None
              /\ \A k \in Nat : k < n => Upstream(m, x, k) \in DOMAIN m
<1> DEFINE size == Cardinality(DOMAIN m)
           S == {k \in Nat : Upstream(m, x, k) = None}
<1>1. size \in Nat /\ IsFiniteSet(DOMAIN m)
  BY FS_CardinalityType DEF Closed
<1> HIDE DEF size
<1>2. \E k \in 0 .. size : Upstream(m, x, k) = None
  <2> SUFFICES ASSUME \A k \in 0 .. size : Upstream(m, x, k) # None
               PROVE  FALSE
    OBVIOUS
  <2> DEFINE f == [k \in 0 .. size |-> Upstream(m, x, k)]
  <2>1. f \in [0 .. size -> DOMAIN m]
    BY <1>1, UpstreamStays
  <2>2. \A i, j \in 0 .. size : i # j => f[i] # f[j]
    BY <1>1, WalkNeverReturns
  <2>3. IsFiniteSet(0 .. size) /\ Cardinality(0 .. size) = size + 1
    <3>1. 0 \in Int /\ size \in Int /\ ~(0 > size) /\ size - 0 + 1 = size + 1
      BY <1>1
    <3> QED
      BY <3>1, FS_Interval
  <2> HIDE DEF f
  <2>4. Cardinality(DOMAIN m) < Cardinality(0 .. size)
    BY <1>1, <2>3 DEF size
  <2> QED
    BY <1>1, <2>1, <2>2, <2>3, <2>4, FS_PigeonHole
<1>3. PICK n \in S : \A k \in S : n <= k
  <2>1. S \in SUBSET Nat /\ S # {}
    BY <1>1, <1>2
  <2> HIDE DEF S
  <2> QED
    BY <2>1, LeastNumber
<1>4. n \in 1 .. size
  <2>1. Upstream(m, x, 0) # None
    BY UpstreamStep DEF Closed
  <2>2. n # 0
    BY <1>3, <2>1
  <2> QED
    BY <1>1, <1>2, <1>3, <2>2
<1>5. \A k \in Nat : k < n <=> Upstream(m, x, k) # None
  BY <1>3, <1>4, UpstreamEnds
<1>6. \A k \in Nat : k < n => Upstream(m, x, k) \in DOMAIN m
  BY <1>5, UpstreamStays
<1>7. {k \in 1 .. (size + 1) : Upstream(m, x, k - 1) # None} = 1 .. n
  BY <1>1, <1>4, <1>5
<1>8. Cardinality(1 .. n) = n
  <2>1. 1 \in Int /\ n \in Int /\ ~(1 > n) /\ n - 1 + 1 = n
    BY <1>1, <1>4
  <2> QED
    BY <2>1, FS_Interval
<1>9. Ancestors(m, x) = [k \in 1 .. n |-> Upstream(m, x, k - 1)]
  BY <1>7, <1>8 DEF Ancestors, size
<1> QED
  BY <1>4, <1>5, <1>6, <1>9 DEF size

\* FirstIn is the place where the loops of common_ancestor_locked and
\* path_nodes_locked stop.
LEMMA FirstInIs ==
    ASSUME NEW n \in Nat, NEW s, DOMAIN s = 1 .. n, NEW xs, NEW i \in 1 .. n,
           s[i] \in xs, \A j \in 1 .. (i - 1) : s[j] \notin xs
    PROVE  FirstIn(s, xs) = i
<1> DEFINE First(k) == s[k] \in xs /\ \A j \in 1 .. (k - 1) : s[j] \notin xs
           c == CHOOSE k \in DOMAIN s : First(k)
<1>1. i \in DOMAIN s /\ First(i)
  OBVIOUS
<1>2. c \in DOMAIN s /\ First(c)
  <2> HIDE DEF First
  <2> QED
    BY <1>1
<1>3. FirstIn(s, xs) = c
  BY DEF FirstIn
<1> HIDE DEF c
<1>4. c = i
  <2>1. c \in 1 .. n
    BY <1>2
  <2>2. ~(c < i) /\ ~(i < c)
    BY <1>2, <2>1
  <2> QED
    BY <2>1, <2>2
<1> QED
  BY <1>3, <1>4

\* The first i elements of a sequence.
LEMMA Prefix ==
    ASSUME NEW n \in Nat, NEW s, s = [k \in 1 .. n |-> s[k]], NEW i \in 0 .. n
    PROVE  SubSeq(s, 1, i) = [k \in 1 .. i |-> s[k]]
  OBVIOUS

\* i steps up from a and j steps up from b lie the first node the two walks share.
MeetAt(m, a, b, i, j) ==
    /\ Upstream(m, a, i) = Upstream(m, b, j)
    /\ Upstream(m, a, i) # None
    /\ \A k, l \in Nat :
          Upstream(m, a, k) = Upstream(m, b, l) /\ Upstream(m, a, k) # None => i <= k /\ j <= l

\* Where two walks meet does not depend on which is named first.
LEMMA MeetSymmetric ==
    ASSUME NEW m, NEW a, NEW b, NEW i, NEW j, MeetAt(m, a, b, i, j)
    PROVE  MeetAt(m, b, a, j, i)
  BY DEF MeetAt

\* Two walks with a node in common have a first one, the same for both.
LEMMA WalksMeet ==
    ASSUME NEW m, Closed(m), ~Cyclic(m), NEW a \in DOMAIN m, NEW b \in DOMAIN m,
           NEW k \in Nat, NEW l \in Nat, Upstream(m, a, k) = Upstream(m, b, l),
           Upstream(m, a, k) # None
    PROVE  \E i, j \in Nat : MeetAt(m, a, b, i, j)
<1> DEFINE Shared(x) ==
             /\ Upstream(m, a, x) # None
             /\ \E y \in Nat : Upstream(m, a, x) = Upstream(m, b, y)
           S == {x \in Nat : Shared(x)}
<1>1. PICK i \in S : \A x \in S : i <= x
  <2>1. S \in SUBSET Nat /\ k \in S
    OBVIOUS
  <2> HIDE DEF S
  <2> QED
    BY <2>1, LeastNumber
<1>2. PICK j \in Nat : Upstream(m, a, i) = Upstream(m, b, j)
  BY <1>1
<1>3. ASSUME NEW x \in Nat, NEW y \in Nat, Upstream(m, a, x) = Upstream(m, b, y),
             Upstream(m, a, x) # None
      PROVE  i <= x /\ j <= y
  <2>1. i \in Nat /\ i <= x
    BY <1>1, <1>3
  <2>2. x - i \in Nat /\ x = i + (x - i) /\ j + (x - i) \in Nat
    BY <2>1
  <2>3. Upstream(m, a, x) = Upstream(m, Upstream(m, a, i), x - i)
    BY <2>1, <2>2, UpstreamShift
  <2>4. Upstream(m, b, j + (x - i)) = Upstream(m, Upstream(m, b, j), x - i)
    BY <2>2, UpstreamShift
  <2>5. Upstream(m, b, y) # None /\ Upstream(m, b, y) = Upstream(m, b, j + (x - i))
    BY <1>2, <1>3, <2>3, <2>4
  <2>6. y = j + (x - i)
    BY <2>2, <2>5, WalkNeverReturns
  <2> QED
    BY <2>1, <2>6
<1> QED
  BY <1>1, <1>2, <1>3 DEF MeetAt

\* What common_ancestor_locked and path_nodes_locked answer for two nodes whose
\* walks meet.
LEMMA PathOfMeeting ==
    ASSUME NEW m, Closed(m), ~Cyclic(m), NEW a \in DOMAIN m, NEW b \in DOMAIN m,
           NEW i \in Nat, NEW j \in Nat, MeetAt(m, a, b, i, j)
    PROVE  /\ CommonAncestor(m, a, b) = Upstream(m, a, i)
           /\ PathNodes(m, a, b) =
                [k \in 1 .. (i + j + 1) |->
                    IF k <= i + 1 THEN Upstream(m, a, k - 1) ELSE Upstream(m, b, i + j + 1 - k)]
<1> DEFINE top == Upstream(m, a, i)
           up == Ancestors(m, a)
           vp == Ancestors(m, b)
           shared == Elements(up) \cap Elements(vp)
<1>1. PICK na \in 1 .. Cardinality(DOMAIN m) :
        /\ up = [k \in 1 .. na |-> Upstream(m, a, k - 1)]
        /\ \A k \in Nat : k < na <=> Upstream(m, a, k) # None
  BY AncestorsEnd
<1>2. PICK nb \in 1 .. Cardinality(DOMAIN m) :
        /\ vp = [k \in 1 .. nb |-> Upstream(m, b, k - 1)]
        /\ \A k \in Nat : k < nb <=> Upstream(m, b, k) # None
  BY AncestorsEnd
<1>3. Cardinality(DOMAIN m) \in Nat
  BY FS_CardinalityType DEF Closed
<1>4. /\ na \in Nat /\ nb \in Nat /\ i + 1 \in 1 .. na /\ j + 1 \in 1 .. nb
      /\ DOMAIN up = 1 .. na /\ DOMAIN vp = 1 .. nb
      /\ up[i + 1] = top /\ vp[j + 1] = top
  BY <1>1, <1>2, <1>3 DEF MeetAt
<1> HIDE DEF up, vp
<1>5. top \in shared
  BY <1>4 DEF Elements
<1>6. \A k \in 1 .. ((i + 1) - 1) : up[k] \notin shared
  <2> SUFFICES ASSUME NEW k \in 1 .. ((i + 1) - 1), up[k] \in shared
               PROVE  FALSE
    OBVIOUS
  <2>1. k \in 1 .. na /\ k - 1 \in Nat /\ k - 1 < i
    BY <1>4
  <2>2. PICK l \in 1 .. nb : vp[l] = up[k]
    BY <1>4 DEF Elements
  <2>3. /\ l - 1 \in Nat
        /\ Upstream(m, a, k - 1) = Upstream(m, b, l - 1)
        /\ Upstream(m, a, k - 1) # None
    BY <1>1, <1>2, <1>4, <2>1, <2>2
  <2> QED
    BY <2>1, <2>3 DEF MeetAt
<1>7. FirstIn(up, shared) = i + 1
  <2> HIDE DEF shared, top
  <2> QED
    BY <1>4, <1>5, <1>6, FirstInIs
<1>8. CommonAncestor(m, a, b) = top
  BY <1>4, <1>5, <1>7 DEF CommonAncestor, up, vp
<1>9. FirstIn(up, {top}) = i + 1
  <2>1. \A k \in 1 .. ((i + 1) - 1) : up[k] \notin {top}
    BY <1>5, <1>6
  <2>2. up[i + 1] \in {top}
    BY <1>4
  <2> HIDE DEF top
  <2> QED
    BY <1>4, <2>1, <2>2, FirstInIs
<1>10. FirstIn(vp, {top}) = j + 1
  <2>1. ASSUME NEW k \in 1 .. ((j + 1) - 1), vp[k] = top PROVE FALSE
    <3>1. k \in 1 .. nb /\ k - 1 \in Nat /\ k - 1 < j
      BY <1>4
    <3>2. Upstream(m, b, k - 1) = top
      BY <1>2, <2>1, <3>1
    <3> QED
      BY <3>1, <3>2 DEF MeetAt
  <2> HIDE DEF top
  <2> QED
    BY <1>4, <2>1, FirstInIs
<1>11. Upto(up, top) = [k \in 1 .. (i + 1) |-> Upstream(m, a, k - 1)]
  <2>1. Upto(up, top) = SubSeq(up, 1, i + 1)
    BY <1>9 DEF Upto
  <2>2. SubSeq(up, 1, i + 1) = [k \in 1 .. (i + 1) |-> up[k]]
    BY <1>1, <1>4, Prefix
  <2>3. \A k \in 1 .. (i + 1) : up[k] = Upstream(m, a, k - 1)
    BY <1>1, <1>4
  <2> QED
    BY <2>1, <2>2, <2>3
<1>12. Before(vp, top) = [k \in 1 .. j |-> Upstream(m, b, k - 1)]
  <2>1. Before(vp, top) = SubSeq(vp, 1, j)
    BY <1>10 DEF Before
  <2>2. SubSeq(vp, 1, j) = [k \in 1 .. j |-> vp[k]]
    BY <1>2, <1>4, Prefix
  <2>3. \A k \in 1 .. j : vp[k] = Upstream(m, b, k - 1)
    BY <1>2, <1>4
  <2> QED
    BY <2>1, <2>2, <2>3
<1>13. Backwards(Before(vp, top)) = [k \in 1 .. j |-> Upstream(m, b, j - k)]
  <2>1. Len(Before(vp, top)) = j
    BY <1>12
  <2>2. \A k \in 1 .. j : j + 1 - k \in 1 .. j /\ (j + 1 - k) - 1 = j - k
    OBVIOUS
  <2> QED
    BY <1>12, <2>1, <2>2 DEF Backwards
<1>14. top # None
  BY DEF MeetAt
<1>15. PathNodes(m, a, b) = Upto(up, top) \o Backwards(Before(vp, top))
  BY <1>8, <1>14 DEF PathNodes, up, vp
<1>16. [k \in 1 .. (i + 1) |-> Upstream(m, a, k - 1)] \o [k \in 1 .. j |-> Upstream(m, b, j - k)]
       = [k \in 1 .. (i + j + 1) |->
             IF k <= i + 1 THEN Upstream(m, a, k - 1) ELSE Upstream(m, b, i + j + 1 - k)]
  OBVIOUS
<1> QED
  BY <1>8, <1>11, <1>13, <1>15, <1>16

\* What they answer for nodes of different hierarchies.
LEMMA NoMeeting ==
    ASSUME NEW m, Closed(m), ~Cyclic(m), NEW a \in DOMAIN m, NEW b \in DOMAIN m,
           \A k, l \in Nat : Upstream(m, a, k) = Upstream(m, b, l) => Upstream(m, a, k) = None
    PROVE  CommonAncestor(m, a, b) = None /\ PathNodes(m, a, b) = <<>>
<1> DEFINE up == Ancestors(m, a)
           vp == Ancestors(m, b)
<1>1. PICK na \in 1 .. Cardinality(DOMAIN m) :
        /\ up = [k \in 1 .. na |-> Upstream(m, a, k - 1)]
        /\ \A k \in Nat : k < na <=> Upstream(m, a, k) # None
  BY AncestorsEnd
<1>2. PICK nb \in 1 .. Cardinality(DOMAIN m) :
        /\ vp = [k \in 1 .. nb |-> Upstream(m, b, k - 1)]
        /\ \A k \in Nat : k < nb <=> Upstream(m, b, k) # None
  BY AncestorsEnd
<1>3. na \in Nat /\ nb \in Nat /\ DOMAIN up = 1 .. na /\ DOMAIN vp = 1 .. nb
  BY <1>1, <1>2, FS_CardinalityType DEF Closed
<1> HIDE DEF up, vp
<1>4. Elements(up) \cap Elements(vp) = {}
  <2> SUFFICES ASSUME NEW k \in 1 .. na, NEW l \in 1 .. nb, up[k] = vp[l]
               PROVE  FALSE
    BY <1>3 DEF Elements
  <2>1. k - 1 \in Nat /\ l - 1 \in Nat /\ k - 1 < na
    BY <1>3
  <2>2. Upstream(m, a, k - 1) = Upstream(m, b, l - 1) /\ Upstream(m, a, k - 1) # None
    BY <1>1, <1>2, <2>1
  <2> QED
    BY <2>1, <2>2
<1>5. CommonAncestor(m, a, b) = None
  BY <1>4 DEF CommonAncestor, up, vp
<1> QED
  BY <1>5 DEF PathNodes

\* What PathsAreSound says of one pair of nodes.
SoundPath(m, a, b) ==
    LET p == PathNodes(m, a, b) IN
    /\ p = Backwards(PathNodes(m, b, a))
    /\ Locality(m, a, b) = Locality(m, b, a)
    /\ Cardinality(Elements(p)) = Len(p)
    /\ p # <<>> => p[1] = a /\ p[Len(p)] = b
    /\ \A i \in 1 .. (Len(p) - 1) :
          m[p[i]].parent = p[i + 1] \/ m[p[i + 1]].parent = p[i]

\* Every path of a hierarchy without a cycle is sound (path_nodes_locked,
\* locality_locked).
LEMMA PathIsSound ==
    ASSUME NEW m, Closed(m), ~Cyclic(m), NEW a \in DOMAIN m, NEW b \in DOMAIN m
    PROVE  SoundPath(m, a, b)
<1> DEFINE p == PathNodes(m, a, b)
           q == PathNodes(m, b, a)
<1>1. CASE \A k, l \in Nat : Upstream(m, a, k) = Upstream(m, b, l) => Upstream(m, a, k) = None
  <2>1. CommonAncestor(m, a, b) = None /\ p = <<>>
    BY <1>1, NoMeeting
  <2>2. CommonAncestor(m, b, a) = None /\ q = <<>>
    BY <1>1, NoMeeting
  <2>3. Elements(p) = {} /\ Len(p) = 0 /\ Backwards(q) = <<>>
    BY <2>1, <2>2 DEF Elements, Backwards
  <2>4. Cardinality(Elements(p)) = 0
    BY <2>3, FS_EmptySet
  <2>5. Locality(m, a, b) = Locality(m, b, a)
    BY <2>1, <2>2 DEF Locality
  <2> QED
    BY <2>1, <2>2, <2>3, <2>4, <2>5 DEF SoundPath
<1>2. CASE \E k, l \in Nat : Upstream(m, a, k) = Upstream(m, b, l) /\ Upstream(m, a, k) # None
  <2>1. PICK i \in Nat, j \in Nat : MeetAt(m, a, b, i, j)
    BY <1>2, WalksMeet
  <2>2. MeetAt(m, b, a, j, i)
    BY <2>1, MeetSymmetric
  <2> DEFINE n == i + j + 1
  <2>3. /\ CommonAncestor(m, a, b) = Upstream(m, a, i)
        /\ p = [k \in 1 .. n |->
                IF k <= i + 1 THEN Upstream(m, a, k - 1) ELSE Upstream(m, b, n - k)]
    BY <2>1, PathOfMeeting
  <2>4. /\ CommonAncestor(m, b, a) = Upstream(m, b, j)
        /\ q = [k \in 1 .. (j + i + 1) |->
                IF k <= j + 1 THEN Upstream(m, b, k - 1) ELSE Upstream(m, a, j + i + 1 - k)]
    BY <2>2, PathOfMeeting
  <2>5. CommonAncestor(m, a, b) = CommonAncestor(m, b, a)
    BY <2>1, <2>3, <2>4 DEF MeetAt
  <2>6. Locality(m, a, b) = Locality(m, b, a)
    BY <2>5 DEF Locality
  <2> HIDE DEF p, q
  <2>7. n \in Nat /\ n >= 1 /\ j + i + 1 = n
    OBVIOUS
  <2>8. DOMAIN p = 1 .. n /\ Len(p) = n /\ DOMAIN q = 1 .. n /\ Len(q) = n
    BY <2>3, <2>4, <2>7
  <2>9. \A k \in 1 .. n : k <= i + 1 => p[k] = Upstream(m, a, k - 1)
    BY <2>3
  <2>10. \A k \in 1 .. n : k >= i + 1 => p[k] = Upstream(m, b, n - k)
    <3> SUFFICES ASSUME NEW k \in 1 .. n, k >= i + 1 PROVE p[k] = Upstream(m, b, n - k)
      OBVIOUS
    <3>1. CASE k = i + 1
      <4>1. n - k = j /\ k - 1 = i
        BY <3>1
      <4>2. p[k] = Upstream(m, a, i)
        BY <2>9, <3>1, <4>1
      <4> QED
        BY <2>1, <4>1, <4>2 DEF MeetAt
    <3>2. CASE k # i + 1
      BY <2>3, <3>2
    <3> QED
      BY <3>1, <3>2
  <2>11. \A k \in 1 .. n : k <= j + 1 => q[k] = Upstream(m, b, k - 1)
    BY <2>4
  <2>12. \A k \in 1 .. n : k >= j + 1 => q[k] = Upstream(m, a, n - k)
    <3> SUFFICES ASSUME NEW k \in 1 .. n, k >= j + 1 PROVE q[k] = Upstream(m, a, n - k)
      OBVIOUS
    <3>1. CASE k = j + 1
      <4>1. n - k = i /\ k - 1 = j
        BY <3>1
      <4>2. q[k] = Upstream(m, b, j)
        BY <2>11, <3>1, <4>1
      <4> QED
        BY <2>1, <4>1, <4>2 DEF MeetAt
    <3>2. CASE k # j + 1
      BY <2>4, <2>7, <3>2
    <3> QED
      BY <3>1, <3>2
  <2>13. p = Backwards(q)
    <3>1. \A k \in 1 .. n : p[k] = q[n + 1 - k]
      <4> SUFFICES ASSUME NEW k \in 1 .. n PROVE p[k] = q[n + 1 - k]
        OBVIOUS
      <4>1. CASE k <= i + 1
        BY <4>1, <2>9, <2>12
      <4>2. CASE k >= i + 1
        BY <4>2, <2>10, <2>11
      <4> QED
        BY <4>1, <4>2
    <3>2. p = [k \in 1 .. n |-> p[k]]
      BY <2>3
    <3> QED
      BY <2>8, <3>1, <3>2 DEF Backwards
  <2>14. \A k \in Nat : k <= i => Upstream(m, a, k) # None
    BY <2>1, UpstreamEnds DEF MeetAt
  <2>15. \A k \in Nat : k <= j => Upstream(m, b, k) # None
    BY <2>1, UpstreamEnds DEF MeetAt
  <2>16. ASSUME NEW k \in 1 .. n, NEW l \in 1 .. n, k < l, p[k] = p[l] PROVE FALSE
    <3>1. CASE l <= i + 1
      <4>1. k - 1 \in Nat /\ l - 1 \in Nat /\ k - 1 <= i /\ k - 1 # l - 1
        BY <2>16, <3>1
      <4>2. Upstream(m, a, k - 1) = Upstream(m, a, l - 1)
        BY <2>9, <2>16, <3>1
      <4> QED
        BY <2>14, <4>1, <4>2, WalkNeverReturns
    <3>2. CASE k >= i + 1
      <4>1. n - k \in Nat /\ n - l \in Nat /\ n - k <= j /\ n - k # n - l
        BY <2>16, <3>2
      <4>2. Upstream(m, b, n - k) = Upstream(m, b, n - l)
        BY <2>10, <2>16, <3>2
      <4> QED
        BY <2>15, <4>1, <4>2, WalkNeverReturns
    <3>3. CASE k <= i /\ l >= i + 1
      <4>1. k - 1 \in Nat /\ n - l \in Nat /\ k - 1 < i
        BY <3>3
      <4>2. Upstream(m, a, k - 1) = Upstream(m, b, n - l)
        BY <2>9, <2>10, <2>16, <3>3
      <4> QED
        BY <2>1, <2>14, <4>1, <4>2 DEF MeetAt
    <3> QED
      BY <3>1, <3>2, <3>3
  <2>17. Cardinality(Elements(p)) = n
    <3>1. p \in [1 .. n -> Elements(p)]
      BY <2>3, <2>8 DEF Elements
    <3>2. p \in Surjection(1 .. n, Elements(p))
      BY <2>8, <3>1 DEF Surjection, Elements
    <3>3. p \in Injection(1 .. n, Elements(p))
      <4>1. \A k, l \in 1 .. n : p[k] = p[l] => k = l
        BY <2>16
      <4> QED
        BY <2>8, <3>1, <4>1 DEF Injection, IsInjective
    <3>4. IsFiniteSet(1 .. n) /\ Cardinality(1 .. n) = n
      <4>1. 1 \in Int /\ n \in Int /\ ~(1 > n) /\ n - 1 + 1 = n
        BY <2>7
      <4> QED
        BY <4>1, FS_Interval
    <3> QED
      BY <3>2, <3>3, <3>4, FS_Surjection
  <2>18. p[1] = a /\ p[Len(p)] = b
    <3>1. p[1] = Upstream(m, a, 0)
      BY <2>7, <2>9
    <3>2. p[n] = Upstream(m, b, 0)
      BY <2>7, <2>10
    <3> QED
      BY <2>8, <3>1, <3>2, UpstreamStep
  <2>19. ASSUME NEW k \in 1 .. (n - 1)
         PROVE  m[p[k]].parent = p[k + 1] \/ m[p[k + 1]].parent = p[k]
    <3>1. CASE k <= i
      <4>1. k - 1 \in Nat /\ (k - 1) + 1 = k /\ k + 1 \in 1 .. n /\ k \in 1 .. n
        BY <3>1
      <4>2. p[k] = Upstream(m, a, k - 1) /\ p[k + 1] = Upstream(m, a, k)
        BY <2>9, <3>1, <4>1
      <4>3. Upstream(m, a, (k - 1) + 1) = Step(m, Upstream(m, a, k - 1))
        BY <4>1, UpstreamStep
      <4>4. Upstream(m, a, k - 1) \in DOMAIN m
        BY <2>14, <3>1, <4>1, UpstreamStays
      <4> QED
        BY <4>1, <4>2, <4>3, <4>4 DEF Step
    <3>2. CASE k >= i + 1
      <4>1. n - (k + 1) \in Nat /\ (n - (k + 1)) + 1 = n - k /\ k + 1 \in 1 .. n /\ k \in 1 .. n
            /\ n - (k + 1) <= j
        BY <3>2
      <4>2. p[k] = Upstream(m, b, n - k) /\ p[k + 1] = Upstream(m, b, n - (k + 1))
        BY <2>10, <3>2, <4>1
      <4>3. Upstream(m, b, n - k) = Step(m, Upstream(m, b, n - (k + 1)))
        <5>1. Upstream(m, b, (n - (k + 1)) + 1) = Step(m, Upstream(m, b, n - (k + 1)))
          BY <4>1, UpstreamStep
        <5> QED
          BY <4>1, <5>1
      <4>4. Upstream(m, b, n - (k + 1)) \in DOMAIN m
        BY <2>15, <4>1, UpstreamStays
      <4> QED
        BY <4>2, <4>3, <4>4 DEF Step
    <3> QED
      BY <3>1, <3>2
  <2> QED
    BY <2>6, <2>8, <2>13, <2>17, <2>18, <2>19 DEF SoundPath, p, q
<1> QED
  BY <1>1, <1>2

\* In every reachable hierarchy without a cycle a path is the same in both
\* directions, has the same locality, visits no node twice and follows a link at
\* each hop, whatever the shape and size of the hierarchy (path_nodes_locked).
THEOREM PathsAreSoundAlways == Spec => []PathsAreSound
<1>1. HierarchyInv => PathsAreSound
  <2> SUFFICES ASSUME HierarchyInv, ~Cyclic(nodes), NEW a \in DOMAIN nodes, NEW b \in DOMAIN nodes
               PROVE  SoundPath(nodes, a, b)
    BY DEF PathsAreSound, SoundPath
  <2>1. Closed(nodes)
    BY SoundIsClosed DEF HierarchyInv
  <2> QED
    BY <2>1, PathIsSound
<1> QED
  BY <1>1, HierarchyInvariant, PTL

\* Links of m and n agree at the first k nodes of the walk from x.
AgreeAlong(m, n, x, k) ==
    \A i \in 0 .. (k - 1) : Step(n, Upstream(m, x, i)) = Step(m, Upstream(m, x, i))

\* Hierarchies whose links agree along a walk share it.
LEMMA SameWalk ==
    ASSUME NEW m, NEW n, NEW x, NEW k \in Nat, AgreeAlong(m, n, x, k)
    PROVE  Upstream(n, x, k) = Upstream(m, x, k)
<1> DEFINE S == {i \in Nat : i <= k => Upstream(n, x, i) = Upstream(m, x, i)}
<1>1. 0 \in S
  BY UpstreamStep
<1>2. ASSUME NEW i \in Nat, i \in S PROVE i + 1 \in S
  <2> SUFFICES ASSUME i + 1 <= k PROVE Upstream(n, x, i + 1) = Upstream(m, x, i + 1)
    OBVIOUS
  <2>1. i \in 0 .. (k - 1) /\ Upstream(n, x, i) = Upstream(m, x, i)
    BY <1>2
  <2>2. Upstream(n, x, i + 1) = Step(n, Upstream(n, x, i))
    BY UpstreamStep
  <2>3. Upstream(m, x, i + 1) = Step(m, Upstream(m, x, i))
    BY UpstreamStep
  <2> QED
    BY <2>1, <2>2, <2>3 DEF AgreeAlong
<1> HIDE DEF S
<1>3. S = Nat
  <2>1. S \in SUBSET Nat
    BY DEF S
  <2> QED
    BY <1>1, <1>2, <2>1, Induction
<1> QED
  BY <1>3 DEF S

\* A cycle found after nodes were added that nobody hangs from was there before.
LEMMA CycleWasThere ==
    ASSUME NEW m, NEW n, Closed(m), Closed(n), Cyclic(n), DOMAIN m \subseteq DOMAIN n,
           \A x \in DOMAIN m : n[x].parent = m[x].parent,
           \A x \in DOMAIN n : n[x].parent \in DOMAIN m \cup {None}
    PROVE  Cyclic(m)
<1>1. PICK x \in DOMAIN n, k \in 1 .. Cardinality(DOMAIN n) : Upstream(n, x, k) = x
  BY DEF Cyclic
<1>2. k \in Nat \ {0} /\ k - 1 \in Nat /\ (k - 1) + 1 = k
  BY FS_CardinalityType DEF Closed
<1>3. Upstream(n, x, (k - 1) + 1) = Step(n, Upstream(n, x, k - 1))
  BY <1>2, UpstreamStep
<1>4. x \in DOMAIN m
  BY <1>1, <1>2, <1>3 DEF Step, Closed
<1>5. Upstream(n, x, k) = Upstream(m, x, k)
  <2>1. ASSUME NEW i \in 0 .. (k - 1)
        PROVE  Step(n, Upstream(m, x, i)) = Step(m, Upstream(m, x, i))
    <3>1. Upstream(m, x, i) \in DOMAIN m \cup {None}
      BY <1>4, UpstreamStays
    <3> QED
      BY <3>1 DEF Step, Closed
  <2> QED
    BY <1>2, <2>1, SameWalk DEF AgreeAlong
<1>6. \E d \in 1 .. Cardinality(DOMAIN m) : Upstream(m, x, d) = x
  BY <1>1, <1>2, <1>4, <1>5, CyclesAreShort
<1> QED
  BY <1>4, <1>6 DEF Cyclic

\* A cycle that one changed link closes goes through it, and the walk from the
\* new parent finds the child (would_cycle_locked).
LEMMA CycleIsSeen ==
    ASSUME NEW m, NEW n, Closed(m), Closed(n), ~Cyclic(m), Cyclic(n), DOMAIN n = DOMAIN m,
           NEW child \in DOMAIN m, NEW parent \in DOMAIN m, n[child].parent = parent,
           \A x \in DOMAIN m \ {child} : n[x].parent = m[x].parent
    PROVE  child \in Elements(Ancestors(n, parent))
<1>1. PICK x \in DOMAIN n, k \in 1 .. Cardinality(DOMAIN n) : Upstream(n, x, k) = x
  BY DEF Cyclic
<1>2. Cardinality(DOMAIN n) \in Nat /\ IsFiniteSet(DOMAIN n) /\ k \in Nat \ {0}
  BY FS_CardinalityType DEF Closed
<1>3. PICK i \in 0 .. (k - 1) : Upstream(n, x, i) = child
  <2> SUFFICES ASSUME \A i \in 0 .. (k - 1) : Upstream(n, x, i) # child
               PROVE  FALSE
    OBVIOUS
  <2>1. ASSUME NEW i \in 0 .. (k - 1)
        PROVE  Step(m, Upstream(n, x, i)) = Step(n, Upstream(n, x, i))
    <3>1. Upstream(n, x, i) \in DOMAIN n \cup {None}
      BY UpstreamStays
    <3> QED
      BY <3>1 DEF Step, Closed
  <2>2. Upstream(m, x, k) = x
    BY <1>1, <1>2, <2>1, SameWalk DEF AgreeAlong
  <2>3. \E d \in 1 .. Cardinality(DOMAIN m) : Upstream(m, x, d) = x
    BY <1>2, <2>2, CyclesAreShort
  <2> QED
    BY <2>3 DEF Cyclic
<1>4. Upstream(n, child, k) = child
  <2>1. i \in Nat /\ i + k = k + i
    BY <1>2
  <2>2. Upstream(n, x, i + k) = Upstream(n, child, k)
    BY <1>2, <1>3, <2>1, UpstreamShift
  <2>3. Upstream(n, x, k + i) = Upstream(n, x, i)
    BY <1>1, <1>2, <2>1, UpstreamShift
  <2> QED
    BY <1>3, <2>1, <2>2, <2>3
<1>5. PICK d \in 1 .. Cardinality(DOMAIN n) : Upstream(n, child, d) = child
  BY <1>2, <1>4, CyclesAreShort
<1>6. Upstream(n, parent, d - 1) = child /\ d - 1 \in Nat
  <2>1. d - 1 \in Nat /\ 1 + (d - 1) = d /\ 0 + 1 = 1
    BY <1>2
  <2>2. Upstream(n, child, 0 + 1) = Step(n, Upstream(n, child, 0)) /\ Upstream(n, child, 0) = child
    BY UpstreamStep
  <2>3. Upstream(n, child, 1) = parent
    BY <2>1, <2>2 DEF Step
  <2>4. Upstream(n, child, 1 + (d - 1)) = Upstream(n, Upstream(n, child, 1), d - 1)
    BY <2>1, UpstreamShift
  <2> QED
    BY <1>5, <2>1, <2>3, <2>4
<1>7. \A j \in Nat : j <= d - 1 => Upstream(n, parent, j) # None
  BY <1>6, UpstreamEnds DEF Closed
<1> DEFINE steps == {j \in 1 .. (Cardinality(DOMAIN n) + 1) : Upstream(n, parent, j - 1) # None}
<1>8. 1 .. d \subseteq steps
  BY <1>2, <1>7
<1>9. Cardinality(steps) \in Nat /\ d <= Cardinality(steps)
  <2>1. IsFiniteSet(1 .. (Cardinality(DOMAIN n) + 1))
    BY <1>2, FS_Interval
  <2>2. IsFiniteSet(steps)
    BY <2>1, FS_Subset
  <2>3. Cardinality(1 .. d) = d
    <3>1. 1 \in Int /\ d \in Int /\ ~(1 > d) /\ d - 1 + 1 = d
      BY <1>2
    <3> QED
      BY <3>1, FS_Interval
  <2> HIDE DEF steps
  <2> QED
    BY <1>8, <2>2, <2>3, FS_Subset, FS_CardinalityType
<1>10. Ancestors(n, parent) = [j \in 1 .. Cardinality(steps) |-> Upstream(n, parent, j - 1)]
  BY DEF Ancestors
<1> HIDE DEF steps
<1>11. d \in DOMAIN Ancestors(n, parent) /\ Ancestors(n, parent)[d] = child
  BY <1>2, <1>6, <1>9, <1>10
<1> QED
  BY <1>11 DEF Elements

\* attach_locked reports every cycle its link closes.
LEMMA CycleIsFound ==
    ASSUME NEW m, Sound(m), ~Cyclic(m), NEW child, NEW parent, Cyclic(Linked(m, child, parent))
    PROVE  /\ child \in DOMAIN m /\ parent \in DOMAIN m
           /\ AttachResult(m, child, parent) = "HIERARCHY_CYCLE"
<1> DEFINE n == Linked(m, child, parent)
<1>1. n # m
  OBVIOUS
<1>2. /\ child \in DOMAIN m /\ parent \in DOMAIN m /\ child # parent
      /\ m[child].parent # parent
      /\ n = [m EXCEPT ![child].parent = parent, ![parent].children = @ \cup {child}]
  BY <1>1 DEF Linked
<1>3. Closed(m) /\ Closed(n)
  BY SoundIsClosed, LinkedSound
<1>4. DOMAIN n = DOMAIN m
  BY <1>2
<1>5. m \in [DOMAIN m -> Node]
  BY DEF Sound, WellTyped
<1>6. n[child].parent = parent
  BY <1>2, <1>5 DEF Node
<1>7. \A x \in DOMAIN m \ {child} : n[x].parent = m[x].parent
  BY <1>2, <1>5 DEF Node
<1>8. child \in Elements(Ancestors(n, parent))
  <2> HIDE DEF n
  <2>1. Cyclic(n)
    BY DEF n
  <2> QED
    BY <1>2, <1>3, <1>4, <1>6, <1>7, <2>1, CycleIsSeen
<1> QED
  BY <1>2, <1>8 DEF AttachResult, WouldCycle

\* add_node_locked changes no link; a new node has none.
LEMMA AddNodeParents ==
    ASSUME NEW m, Sound(m), NEW id, NEW bdf, NEW kind, NEW g
    PROVE  LET n == AddNode(m, id, bdf, kind, g) IN
           /\ DOMAIN m \subseteq DOMAIN n
           /\ \A x \in DOMAIN m : n[x].parent = m[x].parent
           /\ \A x \in DOMAIN n \ DOMAIN m : x = id /\ n[x].parent = None
           /\ Live(m, bdf) # {} => DOMAIN n = DOMAIN m
<1> DEFINE n == AddNode(m, id, bdf, kind, g)
<1>1. m \in [DOMAIN m -> Node]
  BY DEF Sound, WellTyped
<1>2. CASE Live(m, bdf) # {}
  <2>1. n = [m EXCEPT ![Added(m, id, bdf)].generation = @ + 1]
    BY <1>2 DEF AddNode
  <2> QED
    BY <1>1, <2>1 DEF Node
<1>3. CASE Live(m, bdf) = {} /\ id \in DOMAIN m
  BY <1>3 DEF AddNode
<1>4. CASE Live(m, bdf) = {} /\ id \notin DOMAIN m
  <2>1. n = [x \in DOMAIN m \cup {id} |-> IF x = id THEN NewNode(bdf, kind, g) ELSE m[x]]
    BY <1>4 DEF AddNode
  <2> QED
    BY <1>4, <2>1 DEF NewNode
<1> QED
  BY <1>2, <1>3, <1>4

\* child moved below parent, where attach_locked finds a cycle.
Found(child, parent) ==
    /\ child \in DOMAIN nodes /\ parent \in DOMAIN nodes
    /\ nodes'[child].parent = parent
    /\ AttachResult(nodes, child, parent) = "HIERARCHY_CYCLE"

\* Linking in a hierarchy with the links of nodes closes a cycle only where
\* attach answers so.
LEMMA LinkFound ==
    ASSUME Sound(nodes), ~Cyclic(nodes), NEW n, Sound(n), DOMAIN n = DOMAIN nodes,
           \A x \in DOMAIN nodes : n[x].parent = nodes[x].parent,
           NEW child, NEW parent, nodes' = Linked(n, child, parent), Cyclic(nodes')
    PROVE  Found(child, parent)
<1> DEFINE l == Linked(nodes, child, parent)
<1>1. nodes \in [DOMAIN nodes -> Node] /\ n \in [DOMAIN n -> Node]
  BY DEF Sound, WellTyped
<1>2. DOMAIN nodes' = DOMAIN nodes /\ DOMAIN l = DOMAIN nodes
  BY DEF Linked
<1>3. \A x \in DOMAIN nodes : nodes'[x].parent = l[x].parent
  BY <1>1 DEF Linked, Node
<1>4. Closed(nodes') /\ Closed(l)
  BY LinkedSound, SoundIsClosed
<1>5. Cyclic(l)
  <2> HIDE DEF l
  <2> QED
    BY <1>2, <1>3, <1>4, CycleWasThere DEF Closed
<1>6. /\ child \in DOMAIN nodes /\ parent \in DOMAIN nodes
      /\ AttachResult(nodes, child, parent) = "HIERARCHY_CYCLE"
  BY <1>5, CycleIsFound
<1>7. l[child].parent = parent
  <2>1. l # nodes
    BY <1>5
  <2> QED
    BY <1>1, <1>6, <2>1 DEF Linked, Node
<1> QED
  BY <1>3, <1>6, <1>7 DEF Found

\* The adding operations close a cycle only by moving a node they found, never by
\* a new one.
LEMMA AddAttachedFound ==
    ASSUME Sound(nodes), ~Cyclic(nodes), NEW id \in NodeId, NEW bdf \in Bdf, NEW kind \in Kind,
           NEW g \in Generation, NEW parent, Room(bdf),
           AddAttached(id, bdf, kind, g, parent), Cyclic(nodes')
    PROVE  \E child \in Live(nodes, bdf) : Found(child, parent)
<1> DEFINE n == AddNode(nodes, id, bdf, kind, g)
           child == Added(nodes, id, bdf)
<1>1. Sound(n)
  BY AddNodeSound DEF Room
<1>2. /\ DOMAIN nodes \subseteq DOMAIN n
      /\ \A x \in DOMAIN nodes : n[x].parent = nodes[x].parent
      /\ \A x \in DOMAIN n \ DOMAIN nodes : x = id /\ n[x].parent = None
      /\ Live(nodes, bdf) # {} => DOMAIN n = DOMAIN nodes
  BY AddNodeParents
<1>3. Closed(nodes) /\ Closed(n)
  BY <1>1, SoundIsClosed
<1>4. CASE Live(nodes, bdf) # {}
  <2>1. nodes' = Linked(n, child, parent)
    BY <1>4 DEF AddAttached, WithNode, AddResult
  <2>2. child \in Live(nodes, bdf)
    BY <1>4, AddedIsLive
  <2> HIDE DEF n, child
  <2>3. Found(child, parent)
    BY <1>1, <1>2, <1>4, <2>1, LinkFound
  <2> QED
    BY <2>2, <2>3
<1>5. CASE Live(nodes, bdf) = {} /\ nodes' = n
  <2>1. \A x \in DOMAIN n : n[x].parent \in DOMAIN nodes \cup {None}
    BY <1>2, <1>3 DEF Closed
  <2> HIDE DEF n
  <2> QED
    BY <1>2, <1>3, <1>5, <2>1, CycleWasThere
<1>6. CASE Live(nodes, bdf) = {} /\ nodes' # n
  <2>1. /\ nodes' = Linked(n, id, parent)
        /\ id \notin DOMAIN nodes
    BY <1>6 DEF AddAttached, WithNode, AddResult, Added
  <2>2. n \in [DOMAIN n -> Node]
    BY <1>1 DEF Sound, WellTyped
  <2> HIDE DEF n
  <2>3. /\ DOMAIN nodes' = DOMAIN n /\ parent \in DOMAIN n /\ parent # id
        /\ \A x \in DOMAIN nodes : nodes'[x].parent = nodes[x].parent
        /\ \A x \in DOMAIN nodes' \ DOMAIN nodes : nodes'[x].parent = parent
    BY <1>2, <1>6, <2>1, <2>2 DEF Linked, Node
  <2>4. parent \in DOMAIN nodes
    BY <1>2, <2>3
  <2>5. Closed(nodes')
    BY <1>1, <2>1, LinkedSound, SoundIsClosed
  <2>6. \A x \in DOMAIN nodes' : nodes'[x].parent \in DOMAIN nodes \cup {None}
    BY <1>3, <2>3, <2>4 DEF Closed
  <2> QED
    BY <1>2, <1>3, <2>3, <2>5, <2>6, CycleWasThere
<1> QED
  BY <1>4, <1>5, <1>6

\* The guarded walk misses no cycle (attach_locked): what closes one is an attach
\* that answers HIERARCHY_CYCLE or an addition of a node that is there already, in
\* hierarchies of any size.
THEOREM CyclesAreFoundAlways == Spec => CyclesAreFound
<1> DEFINE Reported ==
        \E child, parent \in DOMAIN nodes :
            /\ nodes'[child].parent = parent
            /\ AttachResult(nodes, child, parent) = "HIERARCHY_CYCLE"
            /\ Attach(child, parent) \/ Readded(child, parent)
<1>1. ASSUME HierarchyInv, Next, ~Cyclic(nodes), Cyclic(nodes')
      PROVE  Reported
  <2> USE TopologyAssumption
  <2>0. /\ Sound(nodes) /\ Closed(nodes) /\ next_id \in 1 .. (MaxId + 1)
        /\ nodes \in [DOMAIN nodes -> Node]
    BY <1>1, SoundIsClosed DEF HierarchyInv, TypeOK, Sound, WellTyped
  <2>1. Closed(nodes')
    BY <1>1, StepSound, SoundIsClosed
  <2>2. ASSUME NEW bdf \in Bdf, NEW g \in NewGeneration, AddRootComplex(bdf, g)
        PROVE  FALSE
    <3>1. nodes' = AddNode(nodes, next_id, bdf, "ROOT_COMPLEX", g)
      BY <2>2 DEF AddRootComplex
    <3>2. /\ DOMAIN nodes \subseteq DOMAIN nodes'
          /\ \A x \in DOMAIN nodes : nodes'[x].parent = nodes[x].parent
          /\ \A x \in DOMAIN nodes' \ DOMAIN nodes : nodes'[x].parent = None
      BY <2>0, <3>1, AddNodeParents
    <3>3. \A x \in DOMAIN nodes' : nodes'[x].parent \in DOMAIN nodes \cup {None}
      BY <2>0, <3>2 DEF Closed
    <3> QED
      BY <1>1, <2>0, <2>1, <3>2, <3>3, CycleWasThere
  <2>3. ASSUME NEW bdf \in Bdf, NEW g \in NewGeneration, NEW parent \in AnyId,
               AddBridge(bdf, g, parent)
        PROVE  Reported
    <3>1. next_id \in NodeId /\ "BRIDGE" \in Kind /\ g \in Generation
      BY <2>0, <2>3 DEF AddBridge, NodeId, Kind, DeviceClass
    <3>2. PICK child \in Live(nodes, bdf) : Found(child, parent)
      BY <1>1, <2>0, <2>3, <3>1, AddAttachedFound DEF AddBridge
    <3>3. Readded(child, parent)
      BY <2>3, <3>2 DEF Readded, Live
    <3> QED
      BY <3>2, <3>3 DEF Found
  <2>4. ASSUME NEW bdf \in Bdf, NEW g \in NewGeneration, NEW id \in NodeId,
               NEW kind \in AddedKind, NEW parent \in AnyId,
               AddEndpoint(id, bdf, kind, g, parent)
        PROVE  Reported
    <3>1. kind \in Kind /\ g \in Generation
      BY DEF Kind
    <3>2. PICK child \in Live(nodes, bdf) : Found(child, parent)
      BY <1>1, <2>0, <2>4, <3>1, AddAttachedFound DEF AddEndpoint
    <3>3. Readded(child, parent)
      BY <2>4, <3>2 DEF Readded, Live
    <3> QED
      BY <3>2, <3>3 DEF Found
  <2>5. ASSUME NEW child \in AnyId, NEW parent \in AnyId, Attach(child, parent)
        PROVE  Reported
    <3>1. Found(child, parent)
      BY <1>1, <2>0, <2>5, LinkFound DEF Attach
    <3> QED
      BY <2>5, <3>1 DEF Found
  <2>6. ASSUME NEW id \in AnyId, RemoveNode(id) \/ BumpGeneration(id)
        PROVE  FALSE
    <3>1. DOMAIN nodes' = DOMAIN nodes
      BY <2>6 DEF RemoveNode, BumpGeneration
    <3>2. \A x \in DOMAIN nodes : nodes'[x].parent = nodes[x].parent
      BY <2>0, <2>6 DEF RemoveNode, BumpGeneration, Node
    <3> QED
      BY <1>1, <2>0, <2>1, <3>1, <3>2, CycleWasThere DEF Closed
  <2> QED
    BY <1>1, <2>2, <2>3, <2>4, <2>5, <2>6 DEF Next
<1>2. HierarchyInv /\ [Next]_vars =>
        [~Cyclic(nodes) /\ Cyclic(nodes') => Reported]_vars
  BY <1>1
<1> QED
  BY <1>2, HierarchyInvariant, PTL DEF Spec, CyclesAreFound
=============================================================================
