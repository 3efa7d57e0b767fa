------------------------------ MODULE Runtime -------------------------------
(***************************************************************************)
(* Runtime (include/pciefabric/runtime.hpp): the facade that keeps a       *)
(* topology, paths and measurements behind one lock and composes them with *)
(* PathSelector and the snapshot file.  Every operation holds the lock     *)
(* throughout and is one action, except save and load: save copies the     *)
(* state under the lock and writes the copy without it, load reads the     *)
(* file without the lock and installs what it read under it.               *)
(*                                                                         *)
(* The topology's operations come from Topology, the file from             *)
(* Persistence, the decision from Selection.  reserve and release only     *)
(* pass through to the registry (module Reservations) and are left out, as *)
(* are the sequence counters and the measurements in a snapshot, which     *)
(* load does not read.  A path keeps what selection and recovery tell      *)
(* apart: its ends, class, locality, authority, freshness and evidence.    *)
(***************************************************************************)
EXTENDS Persistence, Integers, FiniteSets, SequencesExt, Functions

CONSTANTS
    MaxId,           \* bound: PciNodeIds callers use are 1 .. MaxId
    MaxGeneration,   \* bound: generations of nodes
    MaxOps,          \* bound: operations performed
    MaxAge,          \* bound: ages beyond it are not told apart
    Bdf,             \* device addresses
    EndpointKind,    \* DeviceClasses with is_endpoint_kind
    Epoch,           \* CoordinatorEpoch values callers use
    Boot,            \* WorkerBootId values callers use
    Device,          \* arguments of add_endpoint
    Machine,         \* what Windows can report: sets of device instances
    Report,          \* arguments of ingest_measurement
    InitialFile,     \* what a coordinator may have left in the file
    AgeLimit,        \* age from which an AGING path goes STALE (60)
    HostBase         \* first id of the endpoint-to-host paths (0xF0000000)

VARIABLES
    nodes,           \* topology_
    paths,           \* std::map<PathId, Path> paths_
    measurements,    \* measurements_: std::map<MeasurementId, Measurement>
    epoch,           \* epoch_
    boot,            \* boot_
    loading,         \* the snapshot a call of load has read and not yet installed
    recovered,       \* history: ids of paths that came from a file and were not rebuilt
    reported,        \* history: every measured rate, with the ids it was measured between
    witnessed,       \* history: the same with the addresses these ids had then
    ops              \* operations performed so far

facade ==
    <<nodes, paths, measurements, epoch, boot, loading, recovered, reported, witnessed, ops>>

vars == <<files, facade>>

S == INSTANCE Selection

D == INSTANCE Discovery

A == INSTANCE Bdf

\* A default-constructed epoch or boot is zero; load gives a node the id zero.
AnyEpoch == Epoch \cup {0}
AnyBoot == Boot \cup {0}
NodeId == 0 .. MaxId

DeviceClass ==
    {"UNKNOWN", "OTHER", "ACCELERATOR", "NIC", "STORAGE", "MEMORY", "BRIDGE", "ROOT_PORT",
     "ROOT_COMPLEX", "SWITCH", "HOST_BRIDGE"}

T == INSTANCE Topology WITH
        NewGeneration <- {1}, next_id <- 1, AddedKind <- DeviceClass,
        ValidBdf <- {b \in Bdf : A!valid(b)}

PathClass ==
    {"ENDPOINT_TO_HOST", "HOST_TO_ENDPOINT", "ENDPOINT_TO_ENDPOINT", "ACCELERATOR_TO_HOST",
     "HOST_TO_ACCELERATOR", "ACCELERATOR_TO_NIC", "ACCELERATOR_TO_STORAGE", "NIC_TO_ACCELERATOR",
     "STORAGE_TO_ACCELERATOR", "PEER_ENDPOINT_PATH", "UNKNOWN"}

TransferClass ==
    {"UNKNOWN", "PAGEABLE_H2D", "PAGEABLE_D2H", "PINNED_H2D", "PINNED_D2H", "SYNCHRONOUS_COPY",
     "KERNEL_LAUNCH"}

\* The rate is throughput(): bytes by duration.
Measurement ==
    [id: Nat, generation: Nat, source: NodeId, destination: NodeId, class: TransferClass,
     rate: Nat]

Rates == {r.rate : r \in Report}

Path ==
    [id: Nat, source: NodeId, destination: NodeId, class: PathClass, locality: S!Locality,
     epoch: AnyEpoch, boot: AnyBoot, freshness: S!Freshness, age: 0 .. MaxAge,
     measured: Rates \cup {None}]

Address == [domain: Nat, bus: Nat, device: Nat, function: Nat]

\* Windows decides how often an address comes and what kind a device is.
Node ==
    [bdf: Address, kind: DeviceClass, generation: Nat, parent: NodeId \cup {None},
     children: SUBSET NodeId, removed: BOOLEAN]

\* Snapshot, once it is encoded.
SnapshotRecord == [epoch: AnyEpoch, nodes: SUBSET Node, paths: SUBSET Path]

Empty == [x \in {} |-> 0]

ASSUME RuntimeAssumption ==
    /\ MaxId \in Nat /\ MaxOps \in Nat /\ MaxAge \in Nat /\ AgeLimit \in Nat
    /\ None \notin Nat /\ None \notin Address
    /\ Epoch \subseteq Nat /\ Boot \subseteq Nat /\ Report \subseteq Measurement
    /\ Device \subseteq [id: NodeId, bdf: Address, kind: DeviceClass, parent: NodeId]
    /\ \A machine \in Machine :
          /\ IsFiniteSet(machine) /\ Cardinality(machine) <= MaxId
          /\ \A d \in machine : D!BdfOf(d) \in Address
    /\ \A s \in InitialFile \ {None} : s \in Snapshot /\ IsFiniteSet(s.paths)
    /\ HostBase \in Nat /\ HostBase > (MaxId + 1) * (MaxId + 1)

Counted == ops < MaxOps /\ ops' = ops + 1

-----------------------------------------------------------------------------
(* Topology *)

SetAuthority(e, b) ==
    /\ Counted
    /\ epoch' = e
    /\ boot' = b
    /\ UNCHANGED <<files, nodes, paths, measurements, loading, recovered, reported, witnessed>>

AddEndpoint(d) ==
    /\ Counted
    /\ T!Room(d.bdf)
    /\ T!AddAttached(d.id, d.bdf, d.kind, 1, d.parent)
    /\ UNCHANGED <<files, paths, measurements, epoch, boot, loading, recovered, reported, witnessed>>

\* Devices without a valid address are left out.  A parent counts only if it is
\* enumerated before its child.  An address that comes twice keeps its node, but
\* stands for the id that was meant for the second, under which nothing can be
\* attached.
Placed(topo, d) ==
    LET parent == IF d.parent \in DOMAIN topo.by_bdf THEN topo.by_bdf[d.parent] ELSE 0
    IN  [nodes |-> T!WithNode(topo.nodes, topo.next, d.bdf, d.kind, 1, parent),
         by_bdf |-> [b \in DOMAIN topo.by_bdf \cup {d.bdf} |->
                        IF b = d.bdf THEN topo.next ELSE topo.by_bdf[b]],
         next |-> topo.next + 1]

build_topology_from_windows(devices) ==
    LET topo[k \in Nat] ==
            IF k = 0 THEN [nodes |-> Empty, by_bdf |-> Empty, next |-> 1]
            ELSE IF A!valid(devices[k].bdf) THEN Placed(topo[k - 1], devices[k])
            ELSE topo[k - 1]
    IN  topo[Len(devices)].nodes

Discovered ==
    [machine \in Machine |->
        {build_topology_from_windows(devices) : devices \in D!enumerate_pci_devices(machine)}]

\* The hierarchy is replaced; paths of the former one stay.
DiscoverWindows(machine) ==
    /\ Counted
    /\ nodes' \in Discovered[machine]
    /\ UNCHANGED <<files, paths, measurements, epoch, boot, loading, recovered, reported, witnessed>>

-----------------------------------------------------------------------------
(* Paths *)

LiveEndpoints(m) == {id \in DOMAIN m : ~m[id].removed /\ m[id].kind \in EndpointKind}

\* Topology::endpoints: sorted by address.
Endpoints(m) ==
    [i \in 1 .. Cardinality(LiveEndpoints(m)) |->
        CHOOSE id \in LiveEndpoints(m) :
            Cardinality({e \in LiveEndpoints(m) : A!Before(m[e].bdf, m[id].bdf)}) = i - 1]

Root == {"ROOT_COMPLEX", "ROOT_PORT"}

compute_path_class(m, src, dst) ==
    LET s == m[src].kind
        d == m[dst].kind
    IN  CASE s \in EndpointKind /\ d \in Root ->
                IF s = "ACCELERATOR" THEN "ACCELERATOR_TO_HOST" ELSE "ENDPOINT_TO_HOST"
          [] s \in Root /\ d \in EndpointKind ->
                IF d = "ACCELERATOR" THEN "HOST_TO_ACCELERATOR" ELSE "HOST_TO_ENDPOINT"
          [] s \in EndpointKind /\ d \in EndpointKind ->
                CASE <<s, d>> = <<"ACCELERATOR", "NIC">> -> "ACCELERATOR_TO_NIC"
                  [] <<s, d>> = <<"ACCELERATOR", "STORAGE">> -> "ACCELERATOR_TO_STORAGE"
                  [] <<s, d>> = <<"NIC", "ACCELERATOR">> -> "NIC_TO_ACCELERATOR"
                  [] <<s, d>> = <<"STORAGE", "ACCELERATOR">> -> "STORAGE_TO_ACCELERATOR"
                  [] OTHER -> "PEER_ENDPOINT_PATH"
          [] OTHER -> "UNKNOWN"

build_path(id, src, dst) ==
    [id |-> id, source |-> src, destination |-> dst,
     class |-> compute_path_class(nodes, src, dst), locality |-> T!Locality(nodes, src, dst),
     epoch |-> epoch, boot |-> boot, freshness |-> "CURRENT", age |-> 0, measured |-> None]

MutantPairId(n, i, j) == (i - 1) + (j - 1) + 1

\* The id of the path between the i-th and the j-th of n endpoints (from 1).
PairId(n, i, j) == (i - 1) * n + (j - 1) + 1

Pairs(eps) == {ij \in (DOMAIN eps) \X (DOMAIN eps) : ij[1] < ij[2]}

\* The paths build_paths makes: one for each pair of endpoints and one from each
\* endpoint to its root complex.
BuiltPaths ==
    LET eps == Endpoints(nodes) IN
    {build_path(PairId(Len(eps), ij[1], ij[2]), eps[ij[1]], eps[ij[2]]) : ij \in Pairs(eps)}
    \cup {build_path(HostBase + e, e, T!RootComplexOf(nodes, e)) :
            e \in {x \in Range(eps) : T!RootComplexOf(nodes, x) # None}}

\* paths_[p.id()] = p for each of ps; other ids keep their paths.
Assign(map, ps) ==
    [id \in DOMAIN map \cup {p.id : p \in ps} |->
        IF \E p \in ps : p.id = id THEN CHOOSE p \in ps : p.id = id ELSE map[id]]

BuildPaths ==
    /\ Counted
    /\ UNCHANGED <<files, nodes, measurements, epoch, boot, loading, reported, witnessed>>
    /\ paths' = Assign(paths, BuiltPaths)
    /\ recovered' = recovered \ {p.id : p \in BuiltPaths}

Aged(p) ==
    LET older == [p EXCEPT !.age = IF @ < MaxAge THEN @ + 1 ELSE @] IN
    IF p.freshness = "CURRENT" THEN [older EXCEPT !.freshness = "AGING"]
    ELSE IF p.freshness = "AGING" /\ p.age > AgeLimit THEN [older EXCEPT !.freshness = "STALE"]
    ELSE older

AgeFreshness ==
    /\ Counted
    /\ paths' = [id \in DOMAIN paths |-> Aged(paths[id])]
    /\ UNCHANGED <<files, nodes, measurements, epoch, boot, loading, recovered, reported, witnessed>>

-----------------------------------------------------------------------------
(* Measurements *)

\* MeasurementStore::ingest: a known id takes only a newer generation.
Accepted(r) == r.id \in DOMAIN measurements => measurements[r.id].generation < r.generation

\* Where a node is, if there is one with this id.
BdfNow(id) == IF id \in DOMAIN nodes THEN nodes[id].bdf ELSE None

\* A report that is not accepted changes nothing.
IngestMeasurement(r) ==
    /\ Counted
    /\ Accepted(r)
    /\ measurements' = [x \in DOMAIN measurements \cup {r.id} |->
                           IF x = r.id THEN r ELSE measurements[x]]
    /\ reported' = reported \cup {<<r.source, r.destination, r.rate>>}
    /\ witnessed' = witnessed \cup {<<BdfNow(r.source), BdfNow(r.destination), r.rate>>}
    /\ UNCHANGED <<files, nodes, paths, epoch, boot, loading, recovered>>

MutantMatching(p, class) ==
    {id \in DOMAIN measurements :
        measurements[id].source = p.source /\ measurements[id].class = class}

Matching(p, class) ==
    {id \in DOMAIN measurements :
        /\ measurements[id].source = p.source
        /\ measurements[id].destination = p.destination
        /\ measurements[id].class = class}

\* MeasurementStore::latest: the newest generation, the lowest id among equals.
Latest(ids) ==
    CHOOSE id \in ids : \A x \in ids :
        \/ measurements[x].generation < measurements[id].generation
        \/ measurements[x].generation = measurements[id].generation /\ id <= x

MutantWithEvidence(p) ==
    LET known == Matching(p, "PINNED_H2D") IN
    IF known = {} THEN p ELSE [p EXCEPT !.measured = measurements[Latest(known)].generation]

WithEvidence(p) ==
    LET pinned == Matching(p, "PINNED_H2D")
        known == IF pinned # {} THEN pinned ELSE Matching(p, "PAGEABLE_H2D")
    IN  IF known = {} THEN p ELSE [p EXCEPT !.measured = measurements[Latest(known)].rate]

RefreshMeasured ==
    /\ Counted
    /\ paths' = [id \in DOMAIN paths |-> WithEvidence(paths[id])]
    /\ UNCHANGED <<files, nodes, measurements, epoch, boot, loading, recovered, reported, witnessed>>

-----------------------------------------------------------------------------
(* Selection *)

Candidates(src, dst) ==
    {[capabilities |-> {}, theoretical |-> None, contention |-> "UNKNOWN", confidence |-> 0,
      id |-> p.id, source |-> p.source, destination |-> p.destination, locality |-> p.locality,
      epoch |-> p.epoch, boot |-> p.boot, freshness |-> p.freshness, measured |-> p.measured] :
        p \in {q \in Range(paths) : q.source = src /\ q.destination = dst}}

Decide(req) == S!Select(Candidates(req.source, req.destination), req)

-----------------------------------------------------------------------------
(* Snapshot, save and load *)

CurrentSnapshot ==
    [epoch |-> epoch,
     nodes |-> {[id |-> id, node |-> nodes[id]] : id \in {x \in DOMAIN nodes : ~nodes[x].removed}},
     paths |-> Range(paths)]

\* Every field of a path kept here reaches the file, the id of a node does not.
encode(s) == [s EXCEPT !.nodes = {n.node : n \in @}]

BeginSave(t) ==
    /\ Counted
    /\ StartSave(t, encode(CurrentSnapshot))
    /\ UNCHANGED <<nodes, paths, measurements, epoch, boot, loading, recovered, reported, witnessed>>

\* decode_node leaves every id at zero, and deserialize refuses the second one.
Decodable(s) == Cardinality(s.nodes) <= 1

\* Runtime::load, before it takes the lock.  A call that fails changes nothing.
LoadFile ==
    /\ Counted
    /\ loading = None
    /\ LoadResult(file) = "OK" /\ Decodable(file.body)
    /\ loading' = file.body
    /\ UNCHANGED <<files, nodes, paths, measurements, epoch, boot, recovered, reported, witnessed>>

MutantRevalidated(p) == [p EXCEPT !.freshness = IF @ = "CURRENT" THEN "REVALIDATION_REQUIRED" ELSE @]

\* mark_physical_revalidation_required.
Revalidated(p) == [p EXCEPT !.freshness = IF @ = "INVALID" THEN @ ELSE "REVALIDATION_REQUIRED"]

\* Every recovered node is added under the id zero; zero is also its parent
\* when it had none.
RestoredNodes(ns) ==
    IF ns = {} THEN Empty
    ELSE LET n == CHOOSE x \in ns : TRUE IN
         T!WithNode(Empty, 0, n.bdf, n.kind, n.generation, IF n.parent = None THEN 0 ELSE n.parent)

\* The second half of load: neither measurements nor boot come from the file.
InstallLoaded ==
    /\ loading # None
    /\ nodes' = RestoredNodes(loading.nodes)
    /\ paths' = Assign(Empty, {Revalidated(p) : p \in loading.paths})
    /\ epoch' = loading.epoch
    /\ recovered' = {p.id : p \in loading.paths}
    /\ loading' = None
    /\ UNCHANGED <<files, measurements, boot, reported, witnessed, ops>>

\* The process dies and starts again with a new Runtime.
Restart ==
    /\ Crash
    /\ nodes' = Empty /\ paths' = Empty /\ measurements' = Empty
    /\ epoch' = 0 /\ boot' = 0
    /\ loading' = None
    /\ recovered' = {}
    /\ UNCHANGED <<reported, witnessed, ops>>

-----------------------------------------------------------------------------
Evidence(ps) ==
    {<<p.source, p.destination, p.measured>> : p \in {q \in ps : q.measured # None}}

Init ==
    /\ \E s \in InitialFile :
          /\ file = IF s = None THEN None ELSE Whole(s)
          /\ saved = s
          /\ reported = IF s = None THEN {} ELSE Evidence(s.paths)
    /\ tmp = None /\ save = [t \in Saver |-> Idle] /\ lost = FALSE
    /\ overlapping = {} /\ mixed = FALSE /\ saves = 0 /\ crashes = 0
    /\ witnessed = {}
    /\ nodes = Empty /\ paths = Empty /\ measurements = Empty
    /\ epoch = 0 /\ boot = 0 /\ loading = None /\ recovered = {} /\ ops = 0

Next ==
    \/ \E e \in Epoch, b \in Boot : SetAuthority(e, b)
    \/ \E d \in Device : AddEndpoint(d)
    \/ \E machine \in Machine : DiscoverWindows(machine)
    \/ BuildPaths
    \/ AgeFreshness
    \/ \E r \in Report : IngestMeasurement(r)
    \/ RefreshMeasured
    \/ \E t \in Saver : BeginSave(t) \/ (SaveStep(t) /\ UNCHANGED facade)
    \/ LoadFile
    \/ InstallLoaded
    \/ Restart

Spec == Init /\ [][Next]_vars

-----------------------------------------------------------------------------
(* Properties *)

\* The maps hold well-formed nodes, paths and measurements, each path under its own id.
TypeOK ==
    /\ DOMAIN nodes \subseteq NodeId /\ Range(nodes) \subseteq Node
    /\ \A id \in DOMAIN paths : paths[id] \in Path /\ paths[id].id = id
    /\ Range(measurements) \subseteq Report
    /\ epoch \in AnyEpoch /\ boot \in AnyBoot
    /\ loading \in Snapshot \cup {None}
    /\ recovered \subseteq DOMAIN paths
    /\ ops \in 0 .. MaxOps

\* Recovered observations are never used before build_paths has made them anew:
\* whoever asks, under whichever authority, is not given such a path, however
\* often the runtime aged, was moved to another epoch or took new evidence since.
RecoveredIsNotSelected ==
    \A id \in recovered, e \in AnyEpoch, b \in AnyBoot :
        LET p == paths[id] IN
        Decide([source |-> p.source, destination |-> p.destination, epoch |-> e, boot |-> b,
                capabilities |-> {}]).selected \notin recovered

\* The rate a path advertises was reported for the two ids of its ends, also
\* after path ids moved to other pairs, a report was replaced or a file was
\* loaded.  Which devices these ids name is another question.
MeasuredIsEvidence == Evidence(Range(paths)) \subseteq reported

\* "A stale observation from a prior incarnation can never become current": a
\* path that is current and joins two live devices does not advertise what was
\* measured between two others.  discover_windows numbers devices anew and keeps
\* the measurements.  (The rates of the reports differ, so a rate names its report.)
PriorIncarnationStaysBehind ==
    \A p \in Range(paths), w \in witnessed :
        LET ends == <<BdfNow(p.source), BdfNow(p.destination)>>
            measured == <<w[1], w[2]>>
        IN  p.freshness = "CURRENT" /\ p.measured = w[3] /\ None \notin Range(ends \o measured)
                => ends = measured

\* The ids build_paths computes from list positions never collide: afterwards
\* every pair of endpoints has a current path of the current authority.
EveryPairIsBuilt ==
    [][BuildPaths =>
          LET eps == Endpoints(nodes) IN
          \A ij \in Pairs(eps) : \E p \in Range(paths') :
              /\ p.source = eps[ij[1]] /\ p.destination = eps[ij[2]]
              /\ p.freshness = "CURRENT" /\ p.epoch = epoch /\ p.boot = boot]_vars

\* Buses are numbered from the root: every PCI parent has a valid address, and a
\* lower one than its children.
NumberedFromRoot(machine) ==
    \A d, p \in D!PciInstances(machine) :
        d.parent = p.inst => A!Before(D!BdfOf(p), D!BdfOf(d)) /\ A!valid(D!BdfOf(p))

AddressesDiffer(machine) ==
    \A d, e \in D!PciInstances(machine) : D!BdfOf(d) = D!BdfOf(e) => d = e

\* When buses are numbered from the root and addresses differ, discovery finds
\* every device with a valid address and hangs each under the one Windows names
\* as its parent, in whichever order SetupAPI listed them.
HierarchyIsTheMachines ==
    [][\A machine \in Machine :
          DiscoverWindows(machine) /\ NumberedFromRoot(machine) /\ AddressesDiffer(machine) =>
              LET found == {d \in D!PciInstances(machine) : A!valid(D!BdfOf(d))}
                  at(bdf) == CHOOSE id \in DOMAIN nodes' : nodes'[id].bdf = bdf
              IN  /\ {nodes'[id].bdf : id \in DOMAIN nodes'} = {D!BdfOf(d) : d \in found}
                  /\ \A d \in found :
                        LET n == nodes'[at(D!BdfOf(d))]
                            parent == D!ParentBdf(machine, d)
                        IN  n.parent = IF parent = None THEN None ELSE at(parent)]_vars
=============================================================================
