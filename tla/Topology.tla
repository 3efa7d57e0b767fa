------------------------------ MODULE Topology ------------------------------
(***************************************************************************)
(* Topology (include/pciefabric/topology.hpp): the store of the PCIe       *)
(* hierarchy.  Every public operation holds the store's mutex from its     *)
(* first to its last statement, so each one is a single action; the        *)
(* queries are operators of a map of nodes m.                              *)
(*                                                                         *)
(* A node keeps its BDF, kind, generation, upstream node, downstream nodes *)
(* and tombstone.  Left out: the store's own gen_, which nothing reads,    *)
(* links, provenance and the descriptive strings.                          *)
(***************************************************************************)
EXTENDS Integers, FiniteSets, Sequences

CONSTANTS
    MaxId,           \* bound: PciNodeIds are 1 .. MaxId; callers say 0 for "no parent"
    MaxGeneration,   \* bound: PciNodeGenerations are 1 .. MaxGeneration
    NewGeneration,   \* generations callers give a new node
    MaxOps,          \* bound: operations performed
    Bdf,             \* device addresses
    ValidBdf,        \* those with a bus, device and function in range
    AddedKind,       \* kinds add_endpoint is called with, also none of DeviceClass
    None

NodeId == 1 .. MaxId
AnyId == 0 .. MaxId
Generation == 1 .. MaxGeneration

DeviceClass ==
    {"UNKNOWN", "OTHER", "ACCELERATOR", "NIC", "STORAGE", "MEMORY", "BRIDGE", "ROOT_PORT",
     "ROOT_COMPLEX", "SWITCH", "HOST_BRIDGE"}

Kind == DeviceClass \cup AddedKind

ASSUME TopologyAssumption ==
    /\ MaxId \in Nat
    /\ MaxGeneration \in Nat
    /\ MaxOps \in Nat
    /\ NewGeneration \subseteq Generation
    /\ None \notin AnyId

VARIABLES
    nodes,           \* std::map<PciNodeId, Node> nodes_
    next_id,         \* next_id_
    ops              \* operations performed so far

vars == <<nodes, next_id, ops>>

Node == [bdf: Bdf, kind: Kind, generation: Generation, parent: NodeId \cup {None},
         children: SUBSET NodeId, removed: BOOLEAN]

NewNode(bdf, kind, generation) ==
    [bdf |-> bdf, kind |-> kind, generation |-> generation, parent |-> None,
     children |-> {}, removed |-> FALSE]

-----------------------------------------------------------------------------
(* Queries *)

MutantLive(m, bdf) == {id \in DOMAIN m : m[id].removed /\ m[id].bdf = bdf}

\* find_by_bdf: the live nodes at an address.
Live(m, bdf) == {id \in DOMAIN m : ~m[id].removed /\ m[id].bdf = bdf}

\* The k-th node upstream of id; the walk goes through removed nodes.
Upstream(m, id, k) ==
    LET up[i \in Nat] ==
            IF i = 0 THEN id
            ELSE LET cur == up[i - 1] IN IF cur \in DOMAIN m THEN m[cur].parent ELSE None
    IN  up[k]

\* ancestors_locked: id first, then upstream, cut off by a guard that is one
\* more than the number of nodes.
Ancestors(m, id) ==
    LET steps == {k \in 1 .. (Cardinality(DOMAIN m) + 1) : Upstream(m, id, k - 1) # None}
    IN  [k \in 1 .. Cardinality(steps) |-> Upstream(m, id, k - 1)]

Elements(s) == {s[i] : i \in DOMAIN s}

\* The first place in s that holds an element of xs.
FirstIn(s, xs) == CHOOSE i \in DOMAIN s : s[i] \in xs /\ \A j \in 1 .. (i - 1) : s[j] \notin xs

\* Everything up to and including, or before, the first x in s.
Upto(s, x) == SubSeq(s, 1, FirstIn(s, {x}))

Before(s, x) == SubSeq(s, 1, FirstIn(s, {x}) - 1)

Backwards(s) == [i \in 1 .. Len(s) |-> s[Len(s) + 1 - i]]

\* common_ancestor_locked: the first ancestor of a that is one of b.
CommonAncestor(m, a, b) ==
    LET up == Ancestors(m, a)
        shared == Elements(up) \cap Elements(Ancestors(m, b))
    IN  IF shared = {} THEN None ELSE up[FirstIn(up, shared)]

MutantPathNodes(m, a, b) ==
    LET top == CommonAncestor(m, a, b) IN
    IF top = None THEN <<>>
    ELSE Upto(Ancestors(m, a), top) \o Before(Ancestors(m, b), top)

\* path_nodes_locked: up from a to the common ancestor, then down to b.
PathNodes(m, a, b) ==
    LET top == CommonAncestor(m, a, b) IN
    IF top = None THEN <<>>
    ELSE Upto(Ancestors(m, a), top) \o Backwards(Before(Ancestors(m, b), top))

Root == {"ROOT_COMPLEX", "ROOT_PORT"}

Locality(m, a, b) ==
    LET top == CommonAncestor(m, a, b) IN
    IF a = b THEN "SAME_ENDPOINT"
    ELSE IF top = None THEN "UNKNOWN"
    ELSE IF m[top].kind \in {"SWITCH", "BRIDGE"} THEN "SAME_SWITCH"
    ELSE IF m[top].kind \in Root THEN "SAME_ROOT_COMPLEX"
    ELSE "SAME_HOST_REMOTE_ROOT"

\* root_complex_of_locked: the nearest root complex or root port upstream.
RootComplexOf(m, id) ==
    LET up == Ancestors(m, id)
        roots == {x \in Elements(up) \cap DOMAIN m : m[x].kind \in Root}
    IN  IF roots = {} THEN None ELSE up[FirstIn(up, roots)]

\* Two live nodes share an address; a live node hangs from a missing one.
DuplicateCurrent(m) ==
    \E i, j \in DOMAIN m : i # j /\ ~m[i].removed /\ ~m[j].removed /\ m[i].bdf = m[j].bdf

DanglingParent(m) ==
    \E id \in DOMAIN m : ~m[id].removed /\ m[id].parent # None /\ m[id].parent \notin DOMAIN m

\* What validate_locked finds wrong with one live node.
Fault(m, id) ==
    IF m[id].kind \notin DeviceClass THEN "INVALID_VALUE"
    ELSE IF m[id].bdf \notin ValidBdf THEN "INVALID_BDF"
    ELSE IF \E j \in DOMAIN m : j < id /\ ~m[j].removed /\ m[j].bdf = m[id].bdf
         THEN "DUPLICATE_CURRENT"
    ELSE IF m[id].parent # None /\ m[id].parent \notin DOMAIN m THEN "INVALID_RELATIONSHIP"
    ELSE "OK"

\* validate_locked: the first fault in the order of the ids.
ValidateResult(m) ==
    LET faulty == {id \in DOMAIN m : ~m[id].removed /\ Fault(m, id) # "OK"} IN
    IF faulty = {} THEN "OK"
    ELSE Fault(m, CHOOSE id \in faulty : \A j \in faulty : id <= j)

-----------------------------------------------------------------------------
(* Building *)

\* add_node_locked: the answer, and the nodes it leaves behind.  An address
\* that is in use only has its generation advanced.  Neither the address nor the
\* kind is tested.
AddResult(m, id, bdf) ==
    IF Live(m, bdf) # {} THEN "OK"
    ELSE IF id \in DOMAIN m THEN "DUPLICATE_IDENTITY"
    ELSE "OK"

\* std::map is walked in the order of the ids.
Added(m, id, bdf) ==
    IF Live(m, bdf) = {} THEN id
    ELSE CHOOSE i \in Live(m, bdf) : \A j \in Live(m, bdf) : i <= j

MutantAddNode(m, id, bdf, kind, generation) ==
    IF Live(m, bdf) # {} THEN [m EXCEPT ![Added(m, id, bdf)].generation = @ + 1]
    ELSE [x \in DOMAIN m \cup {id} |->
             IF x = id THEN NewNode(bdf, kind, generation) ELSE m[x]]

AddNode(m, id, bdf, kind, generation) ==
    IF Live(m, bdf) # {} THEN [m EXCEPT ![Added(m, id, bdf)].generation = @ + 1]
    ELSE IF id \in DOMAIN m THEN m
    ELSE [x \in DOMAIN m \cup {id} |->
             IF x = id THEN NewNode(bdf, kind, generation) ELSE m[x]]

MutantLinked(m, child, parent) ==
    IF ~({child, parent} \subseteq DOMAIN m) \/ child = parent \/ m[child].parent = parent THEN m
    ELSE [m EXCEPT ![child].parent = parent]

MutantLinkedUnchecked(m, child, parent) ==
    IF child \notin DOMAIN m \/ child = parent THEN m ELSE [m EXCEPT ![child].parent = parent]

\* attach_locked: the nodes are linked before the hierarchy is tested for a
\* cycle and stay linked when it has one.  A child that moves stays in the list
\* of its former parent.
Linked(m, child, parent) ==
    IF ~({child, parent} \subseteq DOMAIN m) \/ child = parent \/ m[child].parent = parent THEN m
    ELSE [m EXCEPT ![child].parent = parent, ![parent].children = @ \cup {child}]

MutantWouldCycle(m, child, parent) == m[parent].parent = child

WouldCycle(m, child, parent) == child \in Elements(Ancestors(m, parent))

AttachResult(m, child, parent) ==
    IF ~({child, parent} \subseteq DOMAIN m) THEN "NOT_FOUND"
    ELSE IF child = parent THEN "HIERARCHY_CYCLE"
    ELSE IF m[child].parent = parent THEN "OK"
    ELSE IF WouldCycle(Linked(m, child, parent), child, parent) THEN "HIERARCHY_CYCLE"
    ELSE "OK"

\* A node at this address can still be given its next generation.
Room(bdf) == \A id \in Live(nodes, bdf) : nodes[id].generation < MaxGeneration

\* Each operation counts against the bound.
Counted == ops < MaxOps /\ ops' = ops + 1

AddRootComplex(bdf, generation) ==
    /\ Counted
    /\ next_id <= MaxId /\ Room(bdf)
    /\ next_id' = next_id + 1
    /\ nodes' = AddNode(nodes, next_id, bdf, "ROOT_COMPLEX", generation)

\* What attach answers is dropped: an error of its leaves the node where it was.
WithNode(m, id, bdf, kind, generation, parent) ==
    LET n == AddNode(m, id, bdf, kind, generation) IN
    IF AddResult(m, id, bdf) = "OK" THEN Linked(n, Added(m, id, bdf), parent) ELSE n

AddAttached(id, bdf, kind, generation, parent) ==
    nodes' = WithNode(nodes, id, bdf, kind, generation, parent)

AddBridge(bdf, generation, parent) ==
    /\ Counted
    /\ next_id <= MaxId /\ Room(bdf)
    /\ next_id' = next_id + 1
    /\ AddAttached(next_id, bdf, "BRIDGE", generation, parent)

AddEndpoint(id, bdf, kind, generation, parent) ==
    /\ Counted
    /\ Room(bdf)
    /\ AddAttached(id, bdf, kind, generation, parent)
    /\ UNCHANGED next_id

Attach(child, parent) ==
    /\ Counted
    /\ nodes' = Linked(nodes, child, parent)
    /\ UNCHANGED next_id

\* The node stays as a tombstone: its id is never free again, its address is.
RemoveNode(id) ==
    /\ Counted
    /\ id \in DOMAIN nodes
    /\ nodes' = [nodes EXCEPT ![id].removed = TRUE]
    /\ UNCHANGED next_id

BumpGeneration(id) ==
    /\ Counted
    /\ id \in DOMAIN nodes
    /\ nodes[id].generation < MaxGeneration
    /\ nodes' = [nodes EXCEPT ![id].generation = @ + 1]
    /\ UNCHANGED next_id

-----------------------------------------------------------------------------
Init ==
    /\ nodes = [id \in {} |-> 0]
    /\ next_id = 1
    /\ ops = 0

Next ==
    \/ \E bdf \in Bdf, g \in NewGeneration :
          \/ AddRootComplex(bdf, g)
          \/ \E parent \in AnyId : AddBridge(bdf, g, parent)
          \/ \E id \in NodeId, kind \in AddedKind, parent \in AnyId :
                AddEndpoint(id, bdf, kind, g, parent)
    \/ \E child, parent \in AnyId : Attach(child, parent)
    \/ \E id \in AnyId : RemoveNode(id) \/ BumpGeneration(id)

Spec == Init /\ [][Next]_vars

-----------------------------------------------------------------------------
(* Properties *)

\* The records of a map of nodes are well formed.
WellTyped(m) == DOMAIN m \subseteq NodeId /\ m \in [DOMAIN m -> Node]

\* Nodes are well formed and the counters stay within their bounds.
TypeOK ==
    /\ WellTyped(nodes)
    /\ next_id \in 1 .. (MaxId + 1)
    /\ ops \in 0 .. MaxOps

\* Every parent exists, lists the child, and is not the child itself.
Agree(m) ==
    \A id \in DOMAIN m : m[id].parent # None =>
        /\ m[id].parent \in DOMAIN m
        /\ m[id].parent # id
        /\ id \in m[m[id].parent].children

\* A parent exists (as a tombstone at least) and lists the child, whatever was
\* removed, re-added or moved since.  The converse fails: a child that moves stays
\* in the list of its former parent.
LinksAgree == Agree(nodes)

WellGiven(n) == n.kind \in DeviceClass /\ n.bdf \in ValidBdf

\* All validate() ever finds is an address or a kind that a caller put in: what
\* the operations themselves could get wrong, it never finds.
ValidateBlamesInput ==
    IF \A id \in DOMAIN nodes : nodes[id].removed \/ WellGiven(nodes[id])
    THEN ValidateResult(nodes) = "OK"
    ELSE ValidateResult(nodes) \in {"INVALID_VALUE", "INVALID_BDF"}

\* Every node of m is still in n, at its address, of its kind, no younger.
Keeps(m, n) ==
    \A id \in DOMAIN m :
        /\ id \in DOMAIN n
        /\ n[id].bdf = m[id].bdf /\ n[id].kind = m[id].kind
        /\ n[id].generation >= m[id].generation
        /\ m[id].removed => n[id].removed

\* The identity of a node is for ever: it is never dropped or revived, never
\* changes address or kind, and its generation never goes back.
IdentityIsForEver == [][Keeps(nodes, nodes')]_vars

\* Some node is upstream of itself.
Cyclic(m) == \E id \in DOMAIN m : \E k \in 1 .. Cardinality(DOMAIN m) : Upstream(m, id, k) = id

\* The call moves child, a live node at an address add_bridge or add_endpoint is
\* given again, below parent; its answer is OK.
Readded(child, parent) ==
    /\ ~nodes[child].removed
    /\ \E g \in NewGeneration :
          \/ AddBridge(nodes[child].bdf, g, parent)
          \/ \E id \in NodeId, kind \in AddedKind :
                AddEndpoint(id, nodes[child].bdf, kind, g, parent)

\* The guarded walk misses no cycle: a cycle is closed only by a move for which
\* attach_locked finds one.  attach() then answers HIERARCHY_CYCLE; the one other
\* way is to add a node that is there already, and then nobody is told.
CyclesAreFound ==
    [][~Cyclic(nodes) /\ Cyclic(nodes') =>
          \E child, parent \in DOMAIN nodes :
              /\ nodes'[child].parent = parent
              /\ AttachResult(nodes, child, parent) = "HIERARCHY_CYCLE"
              /\ Attach(child, parent) \/ Readded(child, parent)]_vars

\* In a hierarchy without a cycle a path is the same in both directions, visits
\* no node twice, and each hop follows one upstream or downstream link.
PathsAreSound ==
    ~Cyclic(nodes) =>
        \A a, b \in DOMAIN nodes :
            LET p == PathNodes(nodes, a, b) IN
            /\ p = Backwards(PathNodes(nodes, b, a))
            /\ Locality(nodes, a, b) = Locality(nodes, b, a)
            /\ Cardinality(Elements(p)) = Len(p)
            /\ p # <<>> => p[1] = a /\ p[Len(p)] = b
            /\ \A i \in 1 .. (Len(p) - 1) :
                  nodes[p[i]].parent = p[i + 1] \/ nodes[p[i + 1]].parent = p[i]

-----------------------------------------------------------------------------
(* Claims of the documentation that the code does not meet *)

\* "The model rejects hierarchy cycles."
NoCycle == ~Cyclic(nodes)

\* "A device disappearing and reappearing at the same BDF receives a fresh
\* generation": no node has the generation of one that was removed from its address.
ReappearsFresh ==
    \A i, j \in DOMAIN nodes :
        nodes[j].removed /\ ~nodes[i].removed /\ nodes[i].bdf = nodes[j].bdf
            => nodes[i].generation # nodes[j].generation
=============================================================================
