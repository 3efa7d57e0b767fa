---------------------------- MODULE RuntimeProofs ---------------------------
(***************************************************************************)
(* The runtime's invariant and what follows from it, for any machine,      *)
(* devices, reports and authorities, any number of operations, saves and   *)
(* deaths, any number of threads that save at the same time, and any file  *)
(* a coordinator left, as long as the file stores what the runtime encodes.*)
(*                                                                         *)
(* It begins with the snapshot file alone: what its name holds for any set *)
(* of snapshots and any number of saves, failures and deaths.  The next    *)
(* part is about the operators the actions are built from: what adding,    *)
(* linking and discovering nodes keeps of a hierarchy, where discovery     *)
(* hangs each device, what building, ageing, revalidating and assigning    *)
(* keeps of a map of paths, and which measurement is the latest.  The last *)
(* part is the invariant, part by part, and the theorems.                  *)
(***************************************************************************)
EXTENDS Runtime, FiniteSetTheorems, TLAPS

SP == INSTANCE SelectionProofs

-----------------------------------------------------------------------------
(* The snapshot file *)

\* What a call of save has put into the temporary file, by how far it is.
Progress(t) ==
    /\ At(t, "header") => tmp.header = save[t].snapshot
    /\ save[t].at \in {"closed", "removed"} => tmp = Whole(save[t].snapshot)

\* The calls that meet no other one: everybody else is idle.
Alone(t) ==
    ~At(t, "idle") /\ t \notin overlapping =>
        /\ \A u \in Saver : u # t => At(u, "idle")
        /\ Progress(t)

\* While somebody writes it the temporary file is there: it cannot be renamed.
Written(t) ==
    /\ ~At(t, "idle") => save[t].snapshot \in Snapshot
    /\ Writing(t) => tmp \in Contents

\* The file is missing, was written whole from one snapshot or is the work of a
\* call that met another.
FileIsWhole == file = None \/ mixed \/ \E s \in Snapshot : file = Whole(s)

FilesInv ==
    /\ FilesTypeOK
    /\ \A t \in Saver : Written(t)
    /\ \A t \in Saver : Alone(t)
    /\ FileIsWhole
    /\ SavedIsPublished

-----------------------------------------------------------------------------
\* load accepts what was written from one snapshot: its header is there and the
\* checksum in it is the body's (persist::load).
LEMMA WholeLoads ==
    ASSUME NEW s \in Snapshot
    PROVE  /\ Whole(s) \in Contents
           /\ Whole(s) # None
           /\ LoadResult(Whole(s)) = "OK"
<1>1. Whole(s) \in Contents
  BY DEF Whole, Contents, Block
<1>2. Whole(s) # None
  BY <1>1, PersistenceAssumption DEF Contents, Block
<1>3. Whole(s).header = s /\ Whole(s).body = s /\ s # None
  BY PersistenceAssumption DEF Whole
<1> QED
  BY <1>1, <1>2, <1>3 DEF LoadResult

\* Nothing is stored and nobody saves when the process starts for the first time.
LEMMA FilesInitInv ==
    FilesInit => FilesInv
<1> SUFFICES ASSUME FilesInit PROVE FilesInv
  OBVIOUS
<1>1. FilesTypeOK
  <2>1. Idle \in Call
    BY DEF Idle, Call, Place, Block
  <2>2. save \in [Saver -> Call]
    BY <2>1 DEF FilesInit
  <2>3. saves \in 0 .. MaxSaves /\ crashes \in 0 .. MaxCrashes
    BY PersistenceAssumption DEF FilesInit
  <2>4. lost \in BOOLEAN /\ file \in Contents \cup {None} /\ tmp \in Contents \cup {None}
    BY DEF FilesInit
  <2> QED
    BY <2>2, <2>3, <2>4 DEF FilesInit, FilesTypeOK, Block
<1>2. \A t \in Saver : Written(t) /\ Alone(t)
  BY DEF FilesInit, Idle, At, Writing, Written, Alone
<1>3. FileIsWhole /\ SavedIsPublished
  BY DEF FilesInit, FileIsWhole, SavedIsPublished
<1> QED
  BY <1>1, <1>2, <1>3 DEF FilesInv

\* Every call into the file system preserves the invariant (persist::save), as
\* does a failure of it and the death of the process.
LEMMA FilesStep ==
    ASSUME FilesInv, [FilesNext]_files
    PROVE  FilesInv'
<1> USE DEF FilesInv, Call, Place, Block, At, MoveTo, Writing
<1>1. ASSUME NEW t \in Saver, NEW s \in Snapshot, StartSave(t, s)
      PROVE  FilesInv'
  <2>1. FilesTypeOK'
    BY <1>1, PersistenceAssumption DEF StartSave, FilesTypeOK, Busy
  <2>2. (\A u \in Saver : Written(u))'
    BY <1>1 DEF StartSave, FilesTypeOK, Written, Busy
  <2>3. (\A u \in Saver : Alone(u))'
    BY <1>1 DEF StartSave, FilesTypeOK, Alone, Progress, Busy
  <2>4. FileIsWhole' /\ SavedIsPublished'
    BY <1>1 DEF StartSave, FilesTypeOK, FileIsWhole, SavedIsPublished, Busy
  <2> QED  BY <2>1, <2>2, <2>3, <2>4
<1>2. ASSUME NEW t \in Saver, OpenTmp(t)
      PROVE  FilesInv'
  <2>0. Whole(None) \in Contents
    BY DEF Whole, Contents
  <2>1. FilesTypeOK'
    BY <1>2, <2>0 DEF OpenTmp, FilesTypeOK
  <2>2. (\A u \in Saver : Written(u))'
    BY <1>2, <2>0 DEF OpenTmp, FilesTypeOK, Written
  <2>3. (\A u \in Saver : Alone(u))'
    BY <1>2, <2>0 DEF OpenTmp, FilesTypeOK, Alone, Progress
  <2>4. FileIsWhole' /\ SavedIsPublished'
    BY <1>2, <2>0 DEF OpenTmp, FilesTypeOK, FileIsWhole, SavedIsPublished
  <2> QED  BY <2>1, <2>2, <2>3, <2>4
<1>3. ASSUME NEW t \in Saver, WriteHeader(t)
      PROVE  FilesInv'
  <2>0. tmp \in Contents /\ save[t].snapshot \in Snapshot
    BY <1>3 DEF WriteHeader, Written
  <2>a. tmp' \in Contents /\ tmp'.header = save[t].snapshot
    BY <1>3, <2>0 DEF WriteHeader, Contents
  <2>1. FilesTypeOK'
    BY <1>3, <2>0, <2>a DEF WriteHeader, FilesTypeOK
  <2>2. (\A u \in Saver : Written(u))'
    BY <1>3, <2>0, <2>a DEF WriteHeader, FilesTypeOK, Written
  <2>3. (\A u \in Saver : Alone(u))'
    BY <1>3, <2>0, <2>a DEF WriteHeader, FilesTypeOK, Alone, Progress
  <2>4. FileIsWhole' /\ SavedIsPublished'
    BY <1>3, <2>0, <2>a DEF WriteHeader, FilesTypeOK, FileIsWhole, SavedIsPublished
  <2> QED  BY <2>1, <2>2, <2>3, <2>4
<1>4. ASSUME NEW t \in Saver, WriteBody(t)
      PROVE  FilesInv'
  <2>0. tmp \in Contents /\ save[t].snapshot \in Snapshot
    BY <1>4 DEF WriteBody, Written
  <2>a. tmp' \in Contents /\ (Progress(t) => tmp' = Whole(save[t].snapshot))
    BY <1>4, <2>0 DEF WriteBody, Contents, Whole, Progress
  <2>1. FilesTypeOK'
    BY <1>4, <2>0, <2>a DEF WriteBody, FilesTypeOK
  <2>2. (\A u \in Saver : Written(u))'
    BY <1>4, <2>0, <2>a DEF WriteBody, FilesTypeOK, Written
  <2>3. (\A u \in Saver : Alone(u))'
    BY <1>4, <2>0, <2>a DEF WriteBody, FilesTypeOK, Alone, Progress
  <2>4. FileIsWhole' /\ SavedIsPublished'
    BY <1>4, <2>0, <2>a DEF WriteBody, FilesTypeOK, FileIsWhole, SavedIsPublished
  <2> QED  BY <2>1, <2>2, <2>3, <2>4
<1>5. ASSUME NEW t \in Saver, RemoveOld(t)
      PROVE  FilesInv'
  <2>1. FilesTypeOK'
    BY <1>5 DEF RemoveOld, FilesTypeOK
  <2>2. (\A u \in Saver : Written(u))'
    BY <1>5 DEF RemoveOld, FilesTypeOK, Written
  <2>3. (\A u \in Saver : Alone(u))'
    BY <1>5 DEF RemoveOld, FilesTypeOK, Alone, Progress
  <2>4. FileIsWhole' /\ SavedIsPublished'
    BY <1>5 DEF RemoveOld, FilesTypeOK, FileIsWhole, SavedIsPublished
  <2> QED  BY <2>1, <2>2, <2>3, <2>4
<1>6. ASSUME NEW t \in Saver, Rename(t)
      PROVE  FilesInv'
  <2>0. save[t].snapshot \in Snapshot /\ tmp \in Contents
    BY <1>6 DEF Rename, Written, FilesTypeOK
  <2>a. t \notin overlapping => tmp = Whole(save[t].snapshot)
    BY <1>6 DEF Rename, Alone, Progress
  <2>1. FilesTypeOK'
    <3>1. Idle \in Call
      BY DEF Idle
    <3>2. save' \in [Saver -> Call]
      BY <1>6, <3>1 DEF Rename, FilesTypeOK
    <3>3. /\ file' \in Contents \cup {None} /\ tmp' \in Contents \cup {None}
          /\ saved' \in Block /\ lost' \in BOOLEAN
      BY <1>6, <2>0 DEF Rename
    <3>4. mixed' \in BOOLEAN
      BY <1>6 DEF Rename
    <3> QED
      BY <1>6, <3>2, <3>3, <3>4 DEF Rename, FilesTypeOK
  <2>2. (\A u \in Saver : Written(u))'
    BY <1>6, <2>0, <2>a DEF Rename, FilesTypeOK, Written, Idle
  <2>3. (\A u \in Saver : Alone(u))'
    BY <1>6, <2>0, <2>a DEF Rename, FilesTypeOK, Alone, Progress, Idle
  <2>4. FileIsWhole' /\ SavedIsPublished'
    BY <1>6, <2>0, <2>a DEF Rename, FilesTypeOK, FileIsWhole, SavedIsPublished, Idle
  <2> QED  BY <2>1, <2>2, <2>3, <2>4
<1>7. ASSUME NEW t \in Saver, SaveFails(t)
      PROVE  FilesInv'
  <2>1. FilesTypeOK'
    BY <1>7 DEF SaveFails, FilesTypeOK, Idle
  <2>2. (\A u \in Saver : Written(u))'
    BY <1>7 DEF SaveFails, FilesTypeOK, Written, Idle
  <2>3. (\A u \in Saver : Alone(u))'
    BY <1>7 DEF SaveFails, FilesTypeOK, Alone, Progress, Idle
  <2>4. FileIsWhole' /\ SavedIsPublished'
    BY <1>7 DEF SaveFails, FilesTypeOK, FileIsWhole, SavedIsPublished, Idle
  <2> QED  BY <2>1, <2>2, <2>3, <2>4
<1>8. CASE Crash
  <2>1. FilesTypeOK'
    BY <1>8, PersistenceAssumption DEF Crash, FilesTypeOK, Idle
  <2>2. (\A u \in Saver : Written(u) /\ Alone(u))'
    BY <1>8 DEF Crash, Written, Alone, Idle
  <2>3. FileIsWhole' /\ SavedIsPublished'
    BY <1>8 DEF Crash, FileIsWhole, SavedIsPublished
  <2> QED  BY <2>1, <2>2, <2>3
<1>9. CASE UNCHANGED files
  <2>1. FilesTypeOK'
    BY <1>9 DEF files, FilesTypeOK
  <2>2. (\A u \in Saver : Written(u) /\ Alone(u))'
    BY <1>9 DEF files, Written, Alone, Progress
  <2>3. FileIsWhole' /\ SavedIsPublished'
    BY <1>9 DEF files, FileIsWhole, SavedIsPublished
  <2> QED  BY <2>1, <2>2, <2>3
<1> QED
  BY <1>1, <1>2, <1>3, <1>4, <1>5, <1>6, <1>7, <1>8, <1>9 DEF FilesNext, SaveStep

\* The invariant holds for ever, whichever threads save at whatever time.
THEOREM FilesAreInvariant == FilesSpec => []FilesInv
<1>1. FilesInv /\ [FilesNext]_files => FilesInv'
  BY FilesStep
<1> QED
  BY <1>1, FilesInitInv, PTL DEF FilesSpec

\* Files hold blocks of snapshots, and every thread is somewhere in save, after
\* any number of saves, failures and deaths (persist::save).
THEOREM FilesTypeCorrect == FilesSpec => []FilesTypeOK
<1>1. FilesInv => FilesTypeOK
  BY DEF FilesInv
<1> QED
  BY <1>1, FilesAreInvariant, PTL

\* What a call of save published that met no other call is a whole snapshot,
\* whatever failed, was cut short or overlapped before it (persist::save writes
\* the temporary file, checks it and only then renames).
THEOREM PublishedWhole == FilesSpec => []PublishedIsWhole
<1>1. FilesInv => PublishedIsWhole
  BY WholeLoads DEF FilesInv, FileIsWhole, PublishedIsWhole
<1> QED
  BY <1>1, FilesAreInvariant, PTL

\* The name holds the snapshot of the last save that returned success, if that
\* call met no other, but for the gap between remove and rename (persist::save).
THEOREM SavedPublished == FilesSpec => []SavedIsPublished
<1>1. FilesInv => SavedIsPublished
  BY DEF FilesInv
<1> QED
  BY <1>1, FilesAreInvariant, PTL

-----------------------------------------------------------------------------
\* Induction over the numbers, for a set instead of a predicate: a proof names the
\* set of numbers for which its claim holds.
LEMMA Induction ==
    ASSUME NEW Z \in SUBSET Nat, 0 \in Z, \A n \in Nat : n \in Z => n + 1 \in Z
    PROVE  Z = Nat
<1> SUFFICES ASSUME Nat \ Z # {} PROVE FALSE
  OBVIOUS
<1>1. PICK n \in Nat \ Z : \A k \in Nat \ Z : n <= k
  BY SP!LeastNumber DEF SP!LeastNumber
<1>2. n # 0 /\ n - 1 \in Nat
  BY <1>1
<1>3. n - 1 \in Z
  BY <1>1, <1>2
<1>4. (n - 1) + 1 \in Z
  BY <1>2, <1>3
<1> QED
  BY <1>1, <1>2, <1>4

-----------------------------------------------------------------------------
(* Hierarchies *)

\* Well-formed nodes, one live node for each address.
Hierarchy(m) ==
    /\ DOMAIN m \subseteq NodeId
    /\ m \in [DOMAIN m -> Node]
    /\ ~T!DuplicateCurrent(m)

\* The hierarchy of a new Topology.
LEMMA EmptyHierarchy == Hierarchy(Empty)
  BY DEF Hierarchy, Empty, T!DuplicateCurrent

\* add_node_locked keeps a hierarchy well formed.
LEMMA AddNodeKeeps ==
    ASSUME NEW m, Hierarchy(m), NEW id \in NodeId, NEW bdf \in Address, NEW kind \in DeviceClass,
           NEW g \in Nat
    PROVE  Hierarchy(T!AddNode(m, id, bdf, kind, g))
<1> DEFINE n == T!AddNode(m, id, bdf, kind, g)
           i == T!Added(m, id, bdf)
<1>1. CASE T!Live(m, bdf) # {}
  <2>1. PICK x \in T!Live(m, bdf) : TRUE
    BY <1>1
  <2>2. \A y \in T!Live(m, bdf) : y = x
    BY <2>1 DEF T!Live, T!DuplicateCurrent, Hierarchy
  <2>3. x \in Int /\ x \in DOMAIN m
    BY <2>1, RuntimeAssumption DEF T!Live, Hierarchy, NodeId
  <2>4. i = x
    <3>1. \E k \in T!Live(m, bdf) : \A j \in T!Live(m, bdf) : k <= j
      BY <2>1, <2>2, <2>3
    <3>2. i \in T!Live(m, bdf)
      BY <1>1, <3>1 DEF T!Added
    <3> QED
      BY <2>2, <3>2
  <2>5. n = [m EXCEPT ![x].generation = @ + 1]
    BY <1>1, <2>4 DEF T!AddNode
  <2>6. m[x] \in Node /\ m[x].generation \in Nat
    BY <2>3 DEF Hierarchy, Node
  <2>7. DOMAIN n = DOMAIN m /\ n \in [DOMAIN n -> Node]
    <3>1. [m[x] EXCEPT !.generation = @ + 1] \in Node
      BY <2>6 DEF Node
    <3>2. n = [m EXCEPT ![x] = [m[x] EXCEPT !.generation = @ + 1]]
      BY <2>3, <2>5
    <3> HIDE DEF n
    <3> QED
      BY <2>3, <3>1, <3>2 DEF Hierarchy
  <2>8. \A y \in DOMAIN m : n[y].bdf = m[y].bdf /\ n[y].removed = m[y].removed
    BY <2>5, <2>6 DEF Hierarchy, Node
  <2> HIDE DEF n
  <2>9. Hierarchy(n)
    BY <2>7, <2>8 DEF Hierarchy, T!DuplicateCurrent
  <2> QED
    BY <2>9 DEF n
<1>2. CASE T!Live(m, bdf) = {} /\ id \in DOMAIN m
  BY <1>2 DEF T!AddNode
<1>3. CASE T!Live(m, bdf) = {} /\ id \notin DOMAIN m
  <2>1. n = [x \in DOMAIN m \cup {id} |->
                IF x = id THEN T!NewNode(bdf, kind, g) ELSE m[x]]
    BY <1>3 DEF T!AddNode
  <2>2. T!NewNode(bdf, kind, g) \in Node
    BY DEF T!NewNode, Node
  <2>3. DOMAIN n = DOMAIN m \cup {id} /\ n \in [DOMAIN n -> Node]
    BY <2>1, <2>2 DEF Hierarchy
  <2>4. n[id].bdf = bdf /\ \A x \in DOMAIN m : n[x] = m[x]
    BY <1>3, <2>1 DEF T!NewNode
  <2> HIDE DEF n
  <2>5. Hierarchy(n)
    BY <1>3, <2>3, <2>4 DEF Hierarchy, T!DuplicateCurrent, T!Live
  <2> QED
    BY <2>5 DEF n
<1> QED
  BY <1>1, <1>2, <1>3

\* attach_locked keeps a hierarchy well formed, also when it answers with an error.
LEMMA LinkedKeeps ==
    ASSUME NEW m, Hierarchy(m), NEW child, NEW parent
    PROVE  Hierarchy(T!Linked(m, child, parent))
<1> DEFINE n == T!Linked(m, child, parent)
<1>1. CASE ~({child, parent} \subseteq DOMAIN m) \/ child = parent \/ m[child].parent = parent
  BY <1>1 DEF T!Linked
<1>2. CASE ~(~({child, parent} \subseteq DOMAIN m) \/ child = parent \/ m[child].parent = parent)
  <2>1. n = [m EXCEPT ![child].parent = parent, ![parent].children = @ \cup {child}]
    BY <1>2 DEF T!Linked
  <2>2. child \in DOMAIN m /\ parent \in DOMAIN m /\ child # parent
    BY <1>2
  <2>3. m[child] \in Node /\ m[parent] \in Node /\ child \in NodeId /\ parent \in NodeId
    BY <2>2 DEF Hierarchy
  <2>4. /\ DOMAIN n = DOMAIN m
        /\ n[child] = [m[child] EXCEPT !.parent = parent]
        /\ n[parent] = [m[parent] EXCEPT !.children = @ \cup {child}]
        /\ \A x \in DOMAIN m \ {child, parent} : n[x] = m[x]
    BY <2>1, <2>2 DEF Hierarchy
  <2>5. n[child] \in Node /\ n[parent] \in Node
    BY <2>3, <2>4 DEF Node
  <2>6. n \in [DOMAIN n -> Node]
    <3>1. n = [x \in DOMAIN m |-> n[x]]
      BY <2>1 DEF Hierarchy
    <3> HIDE DEF n
    <3> QED
      BY <3>1, <2>4, <2>5 DEF Hierarchy
  <2>7. \A y \in DOMAIN m : n[y].bdf = m[y].bdf /\ n[y].removed = m[y].removed
    <3> HIDE DEF n
    <3> QED
      BY <2>3, <2>4 DEF Node
  <2> HIDE DEF n
  <2>8. Hierarchy(n)
    BY <2>4, <2>6, <2>7 DEF Hierarchy, T!DuplicateCurrent
  <2> QED
    BY <2>8 DEF n
<1> QED
  BY <1>1, <1>2

\* So does add_endpoint.
LEMMA WithNodeKeeps ==
    ASSUME NEW m, Hierarchy(m), NEW id \in NodeId, NEW bdf \in Address, NEW kind \in DeviceClass,
           NEW g \in Nat, NEW parent
    PROVE  Hierarchy(T!WithNode(m, id, bdf, kind, g, parent))
  BY AddNodeKeeps, LinkedKeeps DEF T!WithNode

-----------------------------------------------------------------------------
(* Discovery: what the loop of build_topology_from_windows leaves behind, by   *)
(* induction over the devices it has placed.                                   *)

Start == [nodes |-> Empty, by_bdf |-> Empty, next |-> 1]

Step(devices, k, topo) == IF A!valid(devices[k].bdf) THEN Placed(topo, devices[k]) ELSE topo

\* g holds what the first n rounds of the loop compute.
Rounds(devices, g, n) ==
    /\ g = [i \in 0 .. n |-> g[i]]
    /\ g[0] = Start
    /\ \A i \in 1 .. n : g[i] = Step(devices, i, g[i - 1])

\* The rounds of the loop exist, however many devices are listed
\* (build_topology_from_windows).
LEMMA RoundsExist ==
    ASSUME NEW devices
    PROVE  \A n \in Nat : \E g : Rounds(devices, g, n)
<1> DEFINE Z == {k \in Nat : \E g : Rounds(devices, g, k)}
<1>1. 0 \in Z
  <2> DEFINE g == [i \in 0 .. 0 |-> Start]
  <2>1. Rounds(devices, g, 0)
    BY DEF Rounds
  <2> QED
    BY <2>1
<1>2. ASSUME NEW k \in Nat, k \in Z PROVE k + 1 \in Z
  <2>1. PICK g : Rounds(devices, g, k)
    BY <1>2
  <2> DEFINE h == [i \in 0 .. (k + 1) |-> IF i = k + 1 THEN Step(devices, k + 1, g[k]) ELSE g[i]]
  <2>2. h[0] = Start
    BY <2>1 DEF Rounds
  <2>3. ASSUME NEW i \in 1 .. (k + 1) PROVE h[i] = Step(devices, i, h[i - 1])
    <3>1. CASE i = k + 1
      BY <3>1, <2>1 DEF Rounds
    <3>2. CASE i # k + 1
      <4>1. i \in 1 .. k /\ i \in 0 .. (k + 1) /\ i - 1 \in 0 .. (k + 1) /\ i - 1 # k + 1
        BY <3>2
      <4>2. h[i] = g[i] /\ h[i - 1] = g[i - 1]
        BY <4>1
      <4>3. g[i] = Step(devices, i, g[i - 1])
        BY <2>1, <4>1 DEF Rounds
      <4> QED
        BY <4>2, <4>3
    <3> QED
      BY <3>1, <3>2
  <2>4. Rounds(devices, h, k + 1)
    BY <2>2, <2>3 DEF Rounds
  <2> QED
    BY <2>4
<1> HIDE DEF Z
<1>3. Z = Nat
  <2>1. Z \in SUBSET Nat
    BY DEF Z
  <2> QED
    BY <1>1, <1>2, <2>1, Induction
<1> QED
  BY <1>3 DEF Z

\* and are what they are.
LEMMA RoundsUnique ==
    ASSUME NEW devices, NEW g, NEW h, NEW n \in Nat, NEW k \in Nat,
           Rounds(devices, g, n), Rounds(devices, h, k), n <= k
    PROVE  \A i \in 0 .. n : g[i] = h[i]
<1> DEFINE Z == {i \in Nat : i <= n => g[i] = h[i]}
<1>1. 0 \in Z
  BY DEF Rounds
<1>2. ASSUME NEW i \in Nat, i \in Z PROVE i + 1 \in Z
  <2> SUFFICES ASSUME i + 1 <= n PROVE g[i + 1] = h[i + 1]
    OBVIOUS
  <2>1. i + 1 \in 1 .. n /\ i + 1 \in 1 .. k /\ (i + 1) - 1 = i
    OBVIOUS
  <2>2. g[i + 1] = Step(devices, i + 1, g[i]) /\ h[i + 1] = Step(devices, i + 1, h[i])
    BY <2>1 DEF Rounds
  <2> QED
    BY <1>2, <2>2
<1> HIDE DEF Z
<1>3. Z = Nat
  <2>1. Z \in SUBSET Nat
    BY DEF Z
  <2> QED
    BY <1>1, <1>2, <2>1, Induction
<1> QED
  BY <1>3 DEF Z

\* The hierarchy that is built is the one after the last round
\* (build_topology_from_windows).
LEMMA BuiltInRounds ==
    ASSUME NEW devices
    PROVE  \E topo :
              /\ topo[0] = Start
              /\ \A k \in Nat : topo[k + 1] = Step(devices, k + 1, topo[k])
              /\ build_topology_from_windows(devices) = topo[Len(devices)].nodes
<1> DEFINE G(n) == CHOOSE g : Rounds(devices, g, n)
           f == [n \in Nat |-> G(n)[n]]
<1>1. \A n \in Nat : Rounds(devices, G(n), n)
  BY RoundsExist, Zenon
<1> HIDE DEF G
<1>2. ASSUME NEW n \in Nat, n # 0 PROVE f[n] = Step(devices, n, f[n - 1])
  <2>1. n - 1 \in Nat /\ n \in 1 .. n /\ n - 1 <= n /\ n - 1 \in 0 .. (n - 1)
    BY <1>2
  <2>2. G(n)[n] = Step(devices, n, G(n)[n - 1])
    BY <1>1, <2>1 DEF Rounds
  <2>3. G(n - 1)[n - 1] = G(n)[n - 1]
    BY <1>1, <2>1, RoundsUnique
  <2> QED
    BY <2>1, <2>2, <2>3
<1>3. f[0] = Start
  BY <1>1 DEF Rounds
<1>4. f = [k \in Nat |-> IF k = 0 THEN [nodes |-> Empty, by_bdf |-> Empty, next |-> 1]
            ELSE IF A!valid(devices[k].bdf) THEN Placed(f[k - 1], devices[k]) ELSE f[k - 1]]
  BY <1>2, <1>3 DEF Step, Start
<1> DEFINE topo == CHOOSE u :
              u = [k \in Nat |-> IF k = 0 THEN [nodes |-> Empty, by_bdf |-> Empty, next |-> 1]
                    ELSE IF A!valid(devices[k].bdf) THEN Placed(u[k - 1], devices[k]) ELSE u[k - 1]]
<1>5. topo = [k \in Nat |-> IF k = 0 THEN [nodes |-> Empty, by_bdf |-> Empty, next |-> 1]
            ELSE IF A!valid(devices[k].bdf) THEN Placed(topo[k - 1], devices[k]) ELSE topo[k - 1]]
  <2> HIDE DEF f
  <2> QED
    BY <1>4, Zenon
<1>6. build_topology_from_windows(devices) = topo[Len(devices)].nodes
  BY Zenon DEF build_topology_from_windows
<1> HIDE DEF topo
<1>7. topo[0] = Start /\ \A k \in Nat : topo[k + 1] = Step(devices, k + 1, topo[k])
  BY <1>5 DEF Step, Start
<1> QED
  BY <1>6, <1>7, Zenon

\* Devices with addresses, no more of them than there are ids.
Listed(devices) ==
    /\ Len(devices) \in 0 .. MaxId
    /\ \A k \in 1 .. Len(devices) : devices[k].bdf \in Address /\ devices[k].kind \in DeviceClass

\* What is built from any list of devices is well formed, whatever addresses come
\* twice and whatever parents are missing (build_topology_from_windows).
LEMMA BuiltIsHierarchy ==
    ASSUME NEW devices, Listed(devices)
    PROVE  Hierarchy(build_topology_from_windows(devices))
<1>1. PICK topo :
          /\ topo[0] = Start
          /\ \A k \in Nat : topo[k + 1] = Step(devices, k + 1, topo[k])
          /\ build_topology_from_windows(devices) = topo[Len(devices)].nodes
  BY BuiltInRounds
<1> DEFINE n == Len(devices)
           Z == {k \in Nat : k <= n => Hierarchy(topo[k].nodes) /\ topo[k].next \in 1 .. (k + 1)}
<1>2. n \in Nat /\ n <= MaxId /\ MaxId \in Nat
  BY RuntimeAssumption DEF Listed
<1>3. 0 \in Z
  BY <1>1, EmptyHierarchy DEF Start
<1>4. ASSUME NEW k \in Nat, k \in Z PROVE k + 1 \in Z
  <2> SUFFICES ASSUME k + 1 <= n
               PROVE  Hierarchy(topo[k + 1].nodes) /\ topo[k + 1].next \in 1 .. ((k + 1) + 1)
    OBVIOUS
  <2> DEFINE d == devices[k + 1]
             t == topo[k]
  <2>1. Hierarchy(t.nodes) /\ t.next \in 1 .. (k + 1)
    BY <1>2, <1>4
  <2>2. d.bdf \in Address /\ d.kind \in DeviceClass
    BY <1>2 DEF Listed
  <2>3. topo[k + 1] = Step(devices, k + 1, t)
    BY <1>1
  <2>4. CASE ~A!valid(d.bdf)
    BY <2>1, <2>3, <2>4 DEF Step
  <2>5. CASE A!valid(d.bdf)
    <3>1. topo[k + 1] = Placed(t, d)
      BY <2>3, <2>5 DEF Step
    <3>2. t.next \in NodeId /\ 1 \in Nat
      BY <1>2, <2>1 DEF NodeId
    <3>3. Hierarchy(Placed(t, d).nodes)
      BY <2>1, <2>2, <3>2, WithNodeKeeps DEF Placed
    <3>4. Placed(t, d).next = t.next + 1
      BY DEF Placed
    <3> QED
      BY <2>1, <3>1, <3>3, <3>4
  <2> QED
    BY <2>4, <2>5
<1> HIDE DEF Z
<1>5. Z = Nat
  <2>1. Z \in SUBSET Nat
    BY DEF Z
  <2> QED
    BY <1>3, <1>4, <2>1, Induction
<1>6. n \in Z
  BY <1>2, <1>5
<1> QED
  BY <1>1, <1>2, <1>6 DEF Z

\* The kind of a device is one of the names of DeviceClass (classify_pci_class,
\* classify_by_class_name).
LEMMA KindIsClass ==
    ASSUME NEW d
    PROVE  D!Kind(d) \in DeviceClass
<1>1. \A code : D!classify_pci_class(code) \in DeviceClass
  BY DEF D!classify_pci_class, DeviceClass
<1>2. \A name, vendor : D!classify_by_class_name(name, vendor) \in DeviceClass
  BY DEF D!classify_by_class_name, DeviceClass
<1> QED
  BY <1>1, <1>2 DEF D!Kind

\* Discovery leaves a well-formed hierarchy, whichever machine it meets and
\* however std::sort orders equal addresses (discover_windows).
LEMMA DiscoveredIsHierarchy ==
    ASSUME NEW machine \in Machine, NEW m \in Discovered[machine]
    PROVE  Hierarchy(m)
<1>1. PICK devices \in D!enumerate_pci_devices(machine) :
          m = build_topology_from_windows(devices)
  BY DEF Discovered
<1> DEFINE pci == D!PciInstances(machine)
<1>2. PICK s \in D!SetToSeqs(pci) :
          devices = [i \in DOMAIN s |-> D!RawPciDevice(machine, s[i])]
  BY <1>1 DEF D!enumerate_pci_devices
<1>3. pci \subseteq machine
  BY DEF D!PciInstances
<1>4. /\ IsFiniteSet(machine) /\ Cardinality(machine) <= MaxId /\ MaxId \in Nat
      /\ \A d \in machine : D!BdfOf(d) \in Address
  BY RuntimeAssumption
<1>5. Cardinality(pci) \in Nat /\ Cardinality(pci) <= MaxId
  BY <1>3, <1>4, FS_Subset, FS_CardinalityType
<1>6. s \in [1 .. Cardinality(pci) -> pci]
  <2>1. D!Cardinality(pci) = Cardinality(pci)
    BY Zenon DEF D!Cardinality, Cardinality, D!IsFiniteSet, IsFiniteSet
  <2>2. s \in [1 .. D!Cardinality(pci) -> pci]
    BY <1>2 DEF D!SetToSeqs
  <2> QED
    BY <2>1, <2>2
<1>7. Len(devices) = Cardinality(pci) /\ DOMAIN devices = 1 .. Cardinality(pci)
  BY <1>2, <1>5, <1>6
<1>8. \A i \in 1 .. Len(devices) : devices[i].bdf \in Address /\ devices[i].kind \in DeviceClass
  BY <1>2, <1>3, <1>4, <1>6, <1>7, KindIsClass DEF D!RawPciDevice
<1>9. Listed(devices)
  BY <1>5, <1>7, <1>8 DEF Listed
<1> QED
  BY <1>1, <1>9, BuiltIsHierarchy

-----------------------------------------------------------------------------
(* Endpoints *)

\* Addresses are totally ordered (Bdf::operator<=>).
LEMMA AddressOrder ==
    ASSUME NEW a \in Address, NEW b \in Address, NEW c \in Address
    PROVE  /\ ~A!Before(a, a)
           /\ A!Before(a, b) /\ A!Before(b, c) => A!Before(a, c)
           /\ a # b => A!Before(a, b) \/ A!Before(b, a)
<1>1. /\ a.domain \in Nat /\ a.bus \in Nat /\ a.device \in Nat /\ a.function \in Nat
      /\ b.domain \in Nat /\ b.bus \in Nat /\ b.device \in Nat /\ b.function \in Nat
      /\ c.domain \in Nat /\ c.bus \in Nat /\ c.device \in Nat /\ c.function \in Nat
  BY DEF Address
<1>2. ~A!Before(a, a)
  BY <1>1 DEF A!Before
<1>3. A!Before(a, b) /\ A!Before(b, c) => A!Before(a, c)
  BY <1>1 DEF A!Before
<1>4. a # b => ~(/\ a.domain = b.domain /\ a.bus = b.bus
                 /\ a.device = b.device /\ a.function = b.function)
  BY DEF Address
<1>5. a # b => A!Before(a, b) \/ A!Before(b, a)
  BY <1>1, <1>4 DEF A!Before
<1> QED
  BY <1>2, <1>3, <1>5

\* The endpoints sorted before an endpoint.
SortedBefore(m, id) == {e \in LiveEndpoints(m) : A!Before(m[e].bdf, m[id].bdf)}

\* There are finitely many endpoints.
LEMMA EndpointsAreFinite ==
    ASSUME NEW m, Hierarchy(m)
    PROVE  /\ IsFiniteSet(LiveEndpoints(m)) /\ LiveEndpoints(m) \subseteq DOMAIN m
           /\ Cardinality(LiveEndpoints(m)) \in 0 .. (MaxId + 1)
<1>1. LiveEndpoints(m) \subseteq DOMAIN m /\ LiveEndpoints(m) \subseteq 0 .. MaxId
  BY DEF LiveEndpoints, Hierarchy, NodeId
<1>2. IsFiniteSet(0 .. MaxId) /\ Cardinality(0 .. MaxId) = MaxId + 1
  BY FS_Interval, RuntimeAssumption
<1> QED
  BY <1>1, <1>2, FS_Subset, FS_CardinalityType, RuntimeAssumption

\* Every place of the sorted list is taken by an endpoint: no two live nodes share
\* an address, so no two endpoints have the same number of others before them
\* (Topology::endpoints).
LEMMA EveryPlaceIsTaken ==
    ASSUME NEW m, Hierarchy(m), NEW i \in 1 .. Cardinality(LiveEndpoints(m))
    PROVE  \E id \in LiveEndpoints(m) : Cardinality(SortedBefore(m, id)) = i - 1
<1> DEFINE L == LiveEndpoints(m)
           n == Cardinality(L)
           rank == [id \in L |-> Cardinality(SortedBefore(m, id))]
<1>1. IsFiniteSet(L) /\ n \in Nat /\ L \subseteq DOMAIN m
  BY EndpointsAreFinite, RuntimeAssumption
<1>2. \A x \in L : m[x].bdf \in Address
  BY <1>1 DEF Hierarchy, Node
<1>3. ASSUME NEW x \in L
      PROVE  /\ IsFiniteSet(SortedBefore(m, x))
             /\ SortedBefore(m, x) \subseteq L \ {x}
             /\ rank[x] \in 0 .. (n - 1)
  <2>1. SortedBefore(m, x) \subseteq L \ {x}
    BY <1>2, AddressOrder DEF SortedBefore
  <2>2. IsFiniteSet(L \ {x}) /\ Cardinality(L \ {x}) = n - 1
    BY <1>1, FS_RemoveElement
  <2>3. /\ IsFiniteSet(SortedBefore(m, x))
        /\ Cardinality(SortedBefore(m, x)) \in Nat
        /\ Cardinality(SortedBefore(m, x)) <= n - 1
    BY <2>1, <2>2, FS_Subset, FS_CardinalityType
  <2> QED
    BY <1>1, <2>1, <2>3
<1>4. ASSUME NEW x \in L, NEW y \in L, A!Before(m[x].bdf, m[y].bdf)
      PROVE  rank[x] < rank[y]
  <2>1. SortedBefore(m, x) \subseteq SortedBefore(m, y)
    BY <1>2, <1>4, AddressOrder DEF SortedBefore
  <2>2. x \in SortedBefore(m, y) /\ x \notin SortedBefore(m, x)
    BY <1>2, <1>4, AddressOrder DEF SortedBefore
  <2>3. SortedBefore(m, x) # SortedBefore(m, y)
    BY <2>2
  <2> QED
    BY <1>3, <2>1, <2>3, FS_Subset, FS_CardinalityType
<1>5. ASSUME NEW x \in L, NEW y \in L, x # y
      PROVE  rank[x] # rank[y]
  <2>1. m[x].bdf # m[y].bdf
    BY <1>1, <1>5 DEF Hierarchy, T!DuplicateCurrent, LiveEndpoints
  <2>2. A!Before(m[x].bdf, m[y].bdf) \/ A!Before(m[y].bdf, m[x].bdf)
    BY <1>2, <2>1, AddressOrder
  <2>3. rank[x] \in Nat /\ rank[y] \in Nat
    BY <1>3
  <2> HIDE DEF rank
  <2> QED
    BY <1>4, <2>2, <2>3
<1>6. ASSUME \A id \in L : rank[id] # i - 1
      PROVE  FALSE
  <2> DEFINE places == (0 .. (n - 1)) \ {i - 1}
  <2>1. rank \in [L -> places]
    BY <1>3, <1>6
  <2>2. IsFiniteSet(0 .. (n - 1)) /\ Cardinality(0 .. (n - 1)) = n
    <3>1. 0 \in Int /\ n - 1 \in Int /\ n \in Nat
      BY <1>1
    <3>2. /\ IsFiniteSet(0 .. (n - 1))
          /\ Cardinality(0 .. (n - 1)) = IF 0 > n - 1 THEN 0 ELSE (n - 1) - 0 + 1
      BY ONLY <3>1, FS_Interval
    <3> QED
      BY <3>1, <3>2
  <2>3. i - 1 \in 0 .. (n - 1)
    BY <1>1
  <2>4. IsFiniteSet(places) /\ Cardinality(places) = n - 1
    BY <2>2, <2>3, FS_RemoveElement
  <2>5. Cardinality(places) < Cardinality(L)
    BY <1>1, <2>4
  <2> HIDE DEF rank, places
  <2>6. \E x, y \in L : x # y /\ rank[x] = rank[y]
    BY <1>1, <2>1, <2>4, <2>5, FS_PigeonHole
  <2> QED
    BY <1>5, <2>6
<1>7. PICK id \in L : rank[id] = i - 1
  BY <1>6
<1> QED
  BY <1>7

\* endpoints() lists endpoints (Topology::endpoints).
LEMMA EndpointsAreLive ==
    ASSUME NEW m, Hierarchy(m)
    PROVE  /\ Len(Endpoints(m)) = Cardinality(LiveEndpoints(m))
           /\ Len(Endpoints(m)) \in 0 .. (MaxId + 1)
           /\ DOMAIN Endpoints(m) = 1 .. Len(Endpoints(m))
           /\ \A i \in DOMAIN Endpoints(m) : Endpoints(m)[i] \in DOMAIN m
<1>1. Cardinality(LiveEndpoints(m)) \in 0 .. (MaxId + 1) /\ LiveEndpoints(m) \subseteq DOMAIN m
  BY EndpointsAreFinite
<1>2. DOMAIN Endpoints(m) = 1 .. Cardinality(LiveEndpoints(m))
  BY DEF Endpoints
<1>3. ASSUME NEW i \in 1 .. Cardinality(LiveEndpoints(m))
      PROVE  Endpoints(m)[i] \in LiveEndpoints(m)
  <2>1. \E id \in LiveEndpoints(m) :
           Cardinality({e \in LiveEndpoints(m) : A!Before(m[e].bdf, m[id].bdf)}) = i - 1
    BY EveryPlaceIsTaken DEF SortedBefore
  <2> QED
    BY <2>1 DEF Endpoints
<1>4. Len(Endpoints(m)) = Cardinality(LiveEndpoints(m))
  BY <1>1 DEF Endpoints
<1> QED
  BY <1>1, <1>2, <1>3, <1>4

-----------------------------------------------------------------------------
(* The machine's hierarchy: where discovery hangs each device, by induction    *)
(* over the devices it has placed.                                             *)

\* A list of devices as enumerate_pci_devices returns it, when buses are numbered
\* from the root and addresses differ: parents come first.
ParentsFirst(devices) ==
    /\ Listed(devices)
    /\ \A i, j \in 1 .. Len(devices) : devices[i].bdf = devices[j].bdf => i = j
    /\ \A i \in 1 .. Len(devices) :
          \/ devices[i].parent = None
          \/ \E j \in 1 .. i - 1 : A!valid(devices[j].bdf) /\ devices[j].bdf = devices[i].parent

\* The devices that have been placed after k rounds of the loop.
PlacedBy(devices, k) == {i \in 1 .. k : A!valid(devices[i].bdf)}

\* Each node is the one by_bdf has for its address, and the other way round.
Indexed(devices, k, t) ==
    /\ DOMAIN t.by_bdf = {devices[i].bdf : i \in PlacedBy(devices, k)}
    /\ \A b \in DOMAIN t.by_bdf : t.by_bdf[b] \in DOMAIN t.nodes /\ t.nodes[t.by_bdf[b]].bdf = b
    /\ \A id \in DOMAIN t.nodes :
          t.nodes[id].bdf \in DOMAIN t.by_bdf /\ t.by_bdf[t.nodes[id].bdf] = id

\* Each device hangs where Windows says.
Hung(devices, k, t) ==
    \A i \in PlacedBy(devices, k) :
        IF devices[i].parent = None THEN t.nodes[t.by_bdf[devices[i].bdf]].parent = None
        ELSE /\ devices[i].parent \in DOMAIN t.by_bdf
             /\ t.nodes[t.by_bdf[devices[i].bdf]].parent = t.by_bdf[devices[i].parent]

AfterRound(devices, k, t) ==
    /\ Hierarchy(t.nodes) /\ t.next \in 1 .. k + 1
    /\ \A id \in DOMAIN t.nodes : id \in 1 .. t.next - 1
    /\ Indexed(devices, k, t) /\ Hung(devices, k, t)

\* n has one node more than m, under its parent if that is there.
OneNodeMore(m, id, bdf, parent, n) ==
    /\ DOMAIN n = DOMAIN m \cup {id} /\ n[id].bdf = bdf
    /\ n[id].parent = IF parent \in DOMAIN m THEN parent ELSE None
    /\ \A x \in DOMAIN m : n[x].bdf = m[x].bdf /\ n[x].parent = m[x].parent

NoneAt(m, bdf) == \A x \in DOMAIN m : m[x].bdf # bdf

\* add_endpoint with a fresh id and a free address adds one node and changes the
\* address and the parent of no other.
LEMMA WithNodeAdds ==
    ASSUME NEW m, Hierarchy(m), NEW id \in NodeId, id \notin DOMAIN m, NEW bdf, NEW kind, NEW parent,
           NoneAt(m, bdf), parent # id
    PROVE  OneNodeMore(m, id, bdf, parent, T!WithNode(m, id, bdf, kind, 1, parent))
<1> DEFINE n == T!WithNode(m, id, bdf, kind, 1, parent)
           new == T!NewNode(bdf, kind, 1)
           a == [x \in DOMAIN m \cup {id} |-> IF x = id THEN new ELSE m[x]]
<1>1. T!Live(m, bdf) = {}
  BY DEF T!Live, NoneAt
<1>2. T!AddNode(m, id, bdf, kind, 1) = a
  BY <1>1 DEF T!AddNode
<1>3. T!AddResult(m, id, bdf) = "OK" /\ T!Added(m, id, bdf) = id
  BY <1>1 DEF T!AddResult, T!Added
<1>4. n = T!Linked(a, id, parent)
  BY <1>2, <1>3 DEF T!WithNode
<1>5. new = [bdf |-> bdf, kind |-> kind, generation |-> 1, parent |-> None, children |-> {},
             removed |-> FALSE]
  BY DEF T!NewNode
<1>6. a[id] = new /\ DOMAIN a = DOMAIN m \cup {id} /\ \A x \in DOMAIN m : a[x] = m[x]
  OBVIOUS
<1> HIDE DEF n, new, a
<1>7. ASSUME parent \notin DOMAIN m PROVE OneNodeMore(m, id, bdf, parent, n)
  <2>1. n = a
    BY <1>4, <1>6, <1>7 DEF T!Linked
  <2> QED
    BY <1>5, <1>6, <1>7, <2>1 DEF OneNodeMore
<1>8. ASSUME parent \in DOMAIN m PROVE OneNodeMore(m, id, bdf, parent, n)
  <2>1. a[id].parent # parent
    <3>1. parent \in Nat
      BY <1>8, RuntimeAssumption DEF Hierarchy, NodeId
    <3> QED
      BY <1>5, <1>6, <3>1, RuntimeAssumption
  <2>2. n = [a EXCEPT ![id].parent = parent, ![parent].children = @ \cup {id}]
    BY <1>4, <1>6, <1>8, <2>1 DEF T!Linked
  <2>3. a = [x \in DOMAIN a |-> a[x]]
    BY DEF a
  <2>4. /\ DOMAIN n = DOMAIN a
        /\ n[id] = [a[id] EXCEPT !.parent = parent]
        /\ n[parent] = [a[parent] EXCEPT !.children = @ \cup {id}]
        /\ \A x \in DOMAIN m \ {parent} : n[x] = a[x]
    BY <1>6, <1>8, <2>2, <2>3
  <2>5. n[id].bdf = bdf /\ n[id].parent = parent
    BY <1>5, <1>6, <2>4
  <2>6. n[parent].bdf = m[parent].bdf /\ n[parent].parent = m[parent].parent
    <3>1. m[parent] \in Node
      BY <1>8 DEF Hierarchy
    <3> QED
      BY <1>6, <1>8, <2>4, <3>1 DEF Node
  <2>7. \A x \in DOMAIN m : n[x].bdf = m[x].bdf /\ n[x].parent = m[x].parent
    BY <1>6, <2>4, <2>6
  <2>8. DOMAIN n = DOMAIN m \cup {id}
    BY <1>6, <2>4
  <2> QED
    BY <1>8, <2>5, <2>7, <2>8 DEF OneNodeMore
<1>9. OneNodeMore(m, id, bdf, parent, n)
  BY <1>7, <1>8
<1> QED
  BY <1>9 DEF n

\* A round of the loop that places a device leaves every device placed so far where
\* it was (build_topology_from_windows).
LEMMA RoundPlaces ==
    ASSUME NEW devices, ParentsFirst(devices), NEW k \in Nat, k + 1 <= Len(devices),
           A!valid(devices[k + 1].bdf), NEW t, AfterRound(devices, k, t),
           NEW u, u = Placed(t, devices[k + 1])
    PROVE  AfterRound(devices, k + 1, u)
<1> DEFINE d == devices[k + 1]
           b == d.bdf
           id == t.next
           parent == IF d.parent \in DOMAIN t.by_bdf THEN t.by_bdf[d.parent] ELSE 0
           m == t.nodes
           n == u.nodes
<1>1. /\ n = T!WithNode(m, id, b, d.kind, 1, parent)
      /\ u.by_bdf = [x \in DOMAIN t.by_bdf \cup {b} |-> IF x = b THEN id ELSE t.by_bdf[x]]
      /\ u.next = t.next + 1
  BY DEF Placed
<1>2. /\ Len(devices) \in Nat /\ Len(devices) <= MaxId /\ MaxId \in Nat
      /\ k + 1 \in 1 .. Len(devices) /\ b \in Address /\ d.kind \in DeviceClass
  BY RuntimeAssumption DEF ParentsFirst, Listed
<1>3. /\ Hierarchy(m) /\ id \in Nat /\ 1 <= id /\ id <= k + 1
      /\ \A x \in DOMAIN m : x \in Nat /\ x # 0 /\ x < id
      /\ Indexed(devices, k, t) /\ Hung(devices, k, t)
  BY DEF AfterRound
<1>4. id \in NodeId /\ id \notin DOMAIN m
  BY <1>2, <1>3 DEF NodeId
<1>5. PlacedBy(devices, k + 1) = PlacedBy(devices, k) \cup {k + 1}
      /\ PlacedBy(devices, k) \subseteq 1 .. k
  BY DEF PlacedBy
<1>6. b \notin DOMAIN t.by_bdf
  <2> SUFFICES ASSUME b \in DOMAIN t.by_bdf PROVE FALSE
    OBVIOUS
  <2>1. PICK i \in PlacedBy(devices, k) : devices[i].bdf = b
    BY <1>3 DEF Indexed
  <2>2. i \in 1 .. Len(devices) /\ i # k + 1
    BY <1>2, <1>5, <2>1
  <2> QED
    BY <1>2, <2>1, <2>2 DEF ParentsFirst
<1>7. NoneAt(m, b)
  BY <1>3, <1>6 DEF Indexed, NoneAt
<1>8. parent # id /\ (parent \in DOMAIN m <=> d.parent \in DOMAIN t.by_bdf)
  <2>1. CASE d.parent \in DOMAIN t.by_bdf
    BY <1>3, <1>4, <2>1 DEF Indexed
  <2>2. CASE d.parent \notin DOMAIN t.by_bdf
    BY <1>3, <2>2
  <2> QED
    BY <2>1, <2>2
<1>9. /\ DOMAIN n = DOMAIN m \cup {id} /\ n[id].bdf = b
      /\ n[id].parent = IF parent \in DOMAIN m THEN parent ELSE None
      /\ \A x \in DOMAIN m : n[x].bdf = m[x].bdf /\ n[x].parent = m[x].parent
  <2>1. OneNodeMore(m, id, b, parent, n)
    BY <1>1, <1>3, <1>4, <1>7, <1>8, WithNodeAdds
  <2> QED
    BY <2>1 DEF OneNodeMore
<1>10. Hierarchy(n)
  BY <1>1, <1>2, <1>3, <1>4, WithNodeKeeps
<1>11. /\ DOMAIN u.by_bdf = DOMAIN t.by_bdf \cup {b} /\ u.by_bdf[b] = id
       /\ \A x \in DOMAIN t.by_bdf : u.by_bdf[x] = t.by_bdf[x]
  BY <1>1, <1>6
<1>12. u.next \in 1 .. (k + 1) + 1 /\ \A x \in DOMAIN n : x \in 1 .. u.next - 1
  <2>1. \A x \in DOMAIN n : x \in Nat /\ x # 0 /\ x <= id
    BY <1>3, <1>9
  <2> QED
    BY <1>1, <1>3, <2>1
<1> HIDE DEF d, b, id, m, n, parent
<1>13. Indexed(devices, k + 1, u)
  <2>1. DOMAIN u.by_bdf = {devices[i].bdf : i \in PlacedBy(devices, k + 1)}
    BY <1>3, <1>5, <1>11 DEF Indexed, b, d
  <2>2. \A x \in DOMAIN u.by_bdf : u.by_bdf[x] \in DOMAIN n /\ n[u.by_bdf[x]].bdf = x
    <3>1. \A x \in DOMAIN t.by_bdf : t.by_bdf[x] \in DOMAIN m /\ m[t.by_bdf[x]].bdf = x
      BY <1>3 DEF Indexed, m
    <3> QED
      BY <1>9, <1>11, <3>1
  <2>3. \A x \in DOMAIN n : n[x].bdf \in DOMAIN u.by_bdf /\ u.by_bdf[n[x].bdf] = x
    <3>1. \A x \in DOMAIN m : m[x].bdf \in DOMAIN t.by_bdf /\ t.by_bdf[m[x].bdf] = x
      BY <1>3 DEF Indexed, m
    <3> QED
      BY <1>9, <1>11, <3>1
  <2> QED
    BY <2>1, <2>2, <2>3 DEF Indexed, n
<1>14. Hung(devices, k + 1, u)
  <2> SUFFICES ASSUME NEW i \in PlacedBy(devices, k + 1)
               PROVE  IF devices[i].parent = None THEN n[u.by_bdf[devices[i].bdf]].parent = None
                      ELSE /\ devices[i].parent \in DOMAIN u.by_bdf
                           /\ n[u.by_bdf[devices[i].bdf]].parent = u.by_bdf[devices[i].parent]
    BY DEF Hung, n
  <2>1. CASE i \in PlacedBy(devices, k)
    <3> DEFINE x == devices[i].bdf
    <3>1. x \in DOMAIN t.by_bdf /\ t.by_bdf[x] \in DOMAIN m
      BY <1>3, <2>1 DEF Indexed, m
    <3>2. u.by_bdf[x] = t.by_bdf[x] /\ n[t.by_bdf[x]].parent = m[t.by_bdf[x]].parent
      BY <1>9, <1>11, <3>1
    <3>3. IF devices[i].parent = None THEN m[t.by_bdf[x]].parent = None
          ELSE /\ devices[i].parent \in DOMAIN t.by_bdf
               /\ m[t.by_bdf[x]].parent = t.by_bdf[devices[i].parent]
      BY <1>3, <2>1 DEF Hung, m
    <3> HIDE DEF x
    <3>4. IF devices[i].parent = None THEN n[u.by_bdf[x]].parent = None
          ELSE /\ devices[i].parent \in DOMAIN u.by_bdf
               /\ n[u.by_bdf[x]].parent = u.by_bdf[devices[i].parent]
      BY <1>11, <3>2, <3>3
    <3> QED
      BY <3>4 DEF x
  <2>2. CASE i = k + 1
    <3>1. u.by_bdf[devices[i].bdf] = id
      BY <1>11, <2>2 DEF b, d
    <3>2. CASE d.parent = None
      <4>1. None \notin DOMAIN t.by_bdf
        <5>1. \A j \in PlacedBy(devices, k) : devices[j].bdf \in Address
          BY <1>2, <1>5 DEF ParentsFirst, Listed
        <5> QED
          BY <1>3, <5>1, RuntimeAssumption DEF Indexed
      <4>2. n[id].parent = None
        BY <1>8, <1>9, <3>2, <4>1
      <4> QED
        BY <2>2, <3>1, <3>2, <4>2 DEF d
    <3>3. CASE d.parent # None
      <4>1. PICK j \in 1 .. (k + 1) - 1 : A!valid(devices[j].bdf) /\ devices[j].bdf = d.parent
        BY <1>2, <3>3 DEF ParentsFirst, d
      <4>2. j \in PlacedBy(devices, k)
        BY <4>1 DEF PlacedBy
      <4>3. d.parent \in DOMAIN t.by_bdf
        BY <1>3, <4>1, <4>2 DEF Indexed
      <4>4. n[id].parent = t.by_bdf[d.parent]
        BY <1>8, <1>9, <4>3 DEF parent
      <4> QED
        BY <1>11, <2>2, <3>1, <3>3, <4>3, <4>4 DEF d
    <3> QED
      BY <3>2, <3>3
  <2> QED
    BY <1>5, <2>1, <2>2
<1> QED
  BY <1>10, <1>12, <1>13, <1>14 DEF AfterRound, n

\* After the last round every device that was listed is where Windows says
\* (build_topology_from_windows).
LEMMA BuiltAfterRounds ==
    ASSUME NEW devices, ParentsFirst(devices)
    PROVE  \E t : /\ AfterRound(devices, Len(devices), t)
                  /\ build_topology_from_windows(devices) = t.nodes
<1>1. PICK topo :
          /\ topo[0] = Start
          /\ \A k \in Nat : topo[k + 1] = Step(devices, k + 1, topo[k])
          /\ build_topology_from_windows(devices) = topo[Len(devices)].nodes
  BY BuiltInRounds
<1> DEFINE n == Len(devices)
           Z == {k \in Nat : k <= n => AfterRound(devices, k, topo[k])}
<1>2. n \in Nat
  BY RuntimeAssumption DEF ParentsFirst, Listed
<1>3. 0 \in Z
  <2>1. PlacedBy(devices, 0) = {} /\ DOMAIN Empty = {}
    BY DEF PlacedBy, Empty
  <2>2. AfterRound(devices, 0, Start)
    BY <2>1, EmptyHierarchy DEF AfterRound, Indexed, Hung, Start
  <2> QED
    BY <1>1, <2>2
<1>4. ASSUME NEW k \in Nat, k \in Z PROVE k + 1 \in Z
  <2> SUFFICES ASSUME k + 1 <= n PROVE AfterRound(devices, k + 1, topo[k + 1])
    OBVIOUS
  <2>1. AfterRound(devices, k, topo[k])
    BY <1>2, <1>4
  <2>2. topo[k + 1] = Step(devices, k + 1, topo[k])
    BY <1>1
  <2>3. CASE A!valid(devices[k + 1].bdf)
    <3>1. topo[k + 1] = Placed(topo[k], devices[k + 1])
      BY <2>2, <2>3, SMTT(30) DEF Step
    <3> QED
      BY <2>1, <2>3, <3>1, RoundPlaces
  <2>4. CASE ~A!valid(devices[k + 1].bdf)
    <3>1. topo[k + 1] = topo[k]
      BY <2>2, <2>4 DEF Step
    <3>2. PlacedBy(devices, k + 1) = PlacedBy(devices, k)
      BY <2>4 DEF PlacedBy
    <3>3. topo[k].next \in 1 .. (k + 1) + 1
      BY <2>1 DEF AfterRound
    <3> QED
      BY <2>1, <3>1, <3>2, <3>3 DEF AfterRound, Indexed, Hung
  <2> QED
    BY <2>3, <2>4
<1> HIDE DEF Z
<1>5. Z = Nat
  <2>1. Z \in SUBSET Nat
    BY DEF Z
  <2> QED
    BY <1>3, <1>4, <2>1, Induction
<1>6. AfterRound(devices, n, topo[n])
  BY <1>2, <1>5 DEF Z
<1> QED
  BY <1>1, <1>6

\* Every PCI device of the machine is in the list that is built from, once
\* (enumerate_pci_devices).
LEMMA ListIsMachine ==
    ASSUME NEW machine \in Machine, NEW s \in D!SetToSeqs(D!PciInstances(machine))
    PROVE  /\ Len(s) \in 0 .. MaxId /\ DOMAIN s = 1 .. Len(s)
           /\ \A i \in 1 .. Len(s) : s[i] \in D!PciInstances(machine)
           /\ \A i, j \in 1 .. Len(s) : s[i] = s[j] => i = j
           /\ \A d \in D!PciInstances(machine) : \E i \in 1 .. Len(s) : s[i] = d
<1> DEFINE pci == D!PciInstances(machine)
           n == Cardinality(pci)
<1>1. /\ IsFiniteSet(machine) /\ Cardinality(machine) <= MaxId /\ MaxId \in Nat
  BY RuntimeAssumption
<1>2. pci \subseteq machine
  BY DEF D!PciInstances
<1>3. IsFiniteSet(pci) /\ n \in Nat /\ n <= MaxId
  BY <1>1, <1>2, FS_Subset, FS_CardinalityType
<1>4. D!Cardinality(pci) = n
  BY Zenon DEF D!Cardinality, Cardinality, D!IsFiniteSet, IsFiniteSet
<1>5. s \in [1 .. n -> pci] /\ \A i, j \in 1 .. n : i # j => s[i] # s[j]
  <2>1. /\ s \in [1 .. D!Cardinality(pci) -> pci]
        /\ \A i, j \in 1 .. D!Cardinality(pci) : i # j => s[i] # s[j]
    BY DEF D!SetToSeqs
  <2> QED
    BY <1>4, <2>1
<1>6. s \in Surjection(1 .. n, pci)
  <2>1. s \in Injection(1 .. n, pci)
    BY <1>5 DEF Injection, IsInjective
  <2>2. Cardinality(1 .. n) = n
    <3> HIDE DEF n
    <3>1. n \in Int /\ 1 \in Int /\ ~(1 > n /\ n # 0)
      BY <1>3
    <3>2. Cardinality(1 .. n) = IF 1 > n THEN 0 ELSE n - 1 + 1
      BY <3>1, FS_Interval
    <3> QED
      BY <1>3, <3>2
  <2> HIDE DEF n
  <2>3. Cardinality(1 .. n) = Cardinality(pci)
    BY <2>2 DEF n
  <2> QED
    BY <1>3, <2>1, <2>3, FS_Injection
<1> HIDE DEF n
<1>7. Len(s) = n /\ DOMAIN s = 1 .. n
  BY <1>3, <1>5
<1>8. \A d \in pci : \E i \in 1 .. n : s[i] = d
  BY <1>6 DEF Surjection
<1> QED
  BY <1>1, <1>3, <1>5, <1>7, <1>8

\* The list the devices come in has parents first (enumerate_pci_devices).
LEMMA ListHasParentsFirst ==
    ASSUME NEW machine \in Machine, NumberedFromRoot(machine), AddressesDiffer(machine),
           NEW s \in D!SetToSeqs(D!PciInstances(machine)),
           NEW devices, devices = [i \in DOMAIN s |-> D!RawPciDevice(machine, s[i])],
           D!InAddressOrder(devices)
    PROVE  /\ ParentsFirst(devices) /\ Len(devices) = Len(s)
           /\ \A i \in 1 .. Len(s) : /\ devices[i].bdf = D!BdfOf(s[i])
                                     /\ devices[i].parent = D!ParentBdf(machine, s[i])
<1> DEFINE pci == D!PciInstances(machine)
           n == Len(s)
<1>1. /\ n \in Nat /\ n \in 0 .. MaxId /\ DOMAIN s = 1 .. n
      /\ \A i \in 1 .. n : s[i] \in pci
      /\ \A i, j \in 1 .. n : s[i] = s[j] => i = j
      /\ \A d \in pci : \E i \in 1 .. n : s[i] = d
  BY ListIsMachine, RuntimeAssumption
<1>2. \A d \in pci : D!BdfOf(d) \in Address
  BY RuntimeAssumption DEF D!PciInstances
<1> HIDE DEF n
<1>3. Len(devices) = n /\ DOMAIN devices = 1 .. n
  BY <1>1
<1>4. \A i \in 1 .. n : /\ devices[i].bdf = D!BdfOf(s[i])
                        /\ devices[i].kind = D!Kind(s[i])
                        /\ devices[i].parent = D!ParentBdf(machine, s[i])
  BY <1>1 DEF D!RawPciDevice
<1>5. Listed(devices)
  BY <1>1, <1>2, <1>3, <1>4, KindIsClass DEF Listed
<1>6. \A i, j \in 1 .. n : devices[i].bdf = devices[j].bdf => i = j
  BY <1>1, <1>4 DEF AddressesDiffer
<1>7. ASSUME NEW i \in 1 .. n, devices[i].parent # None
      PROVE  \E j \in 1 .. i - 1 : A!valid(devices[j].bdf) /\ devices[j].bdf = devices[i].parent
  <2>1. PICK p \in pci : p.inst = s[i].parent /\ devices[i].parent = D!BdfOf(p)
    BY <1>4, <1>7 DEF D!ParentBdf
  <2>2. A!Before(D!BdfOf(p), D!BdfOf(s[i])) /\ A!valid(D!BdfOf(p))
    BY <1>1, <2>1 DEF NumberedFromRoot
  <2>3. PICK j \in 1 .. n : s[j] = p
    BY <1>1
  <2>4. devices[j].bdf = D!BdfOf(p) /\ A!Before(devices[j].bdf, devices[i].bdf)
    BY <1>4, <2>2, <2>3
  <2>5. j # i
    BY <1>1, <1>2, <1>4, <2>4, AddressOrder
  <2>6. ~(i < j)
    <3> SUFFICES ASSUME i < j PROVE FALSE
      OBVIOUS
    <3>1. i \in DOMAIN devices /\ j \in DOMAIN devices
      BY <1>3
    <3>2. ~D!B!Before(devices[j].bdf, devices[i].bdf)
      BY <3>1 DEF D!InAddressOrder
    <3> QED
      BY <2>4, <3>2 DEF A!Before, D!B!Before
  <2>7. j \in 1 .. i - 1
    BY <1>1, <2>5, <2>6
  <2> QED
    BY <2>1, <2>2, <2>4, <2>7
<1>8. ParentsFirst(devices)
  BY <1>3, <1>5, <1>6, <1>7 DEF ParentsFirst
<1> QED
  BY <1>3, <1>4, <1>8 DEF n

\* The node with an address.
NodeAt(m, bdf) == CHOOSE id \in DOMAIN m : m[id].bdf = bdf

\* The hierarchy m is the machine's: a node for each device with a valid address,
\* under the one Windows names as its parent.
IsTheMachines(m, machine) ==
    LET found == {d \in D!PciInstances(machine) : A!valid(D!BdfOf(d))} IN
    /\ {m[id].bdf : id \in DOMAIN m} = {D!BdfOf(d) : d \in found}
    /\ \A d \in found :
          LET n == m[NodeAt(m, D!BdfOf(d))]
              parent == D!ParentBdf(machine, d)
          IN  n.parent = IF parent = None THEN None ELSE NodeAt(m, parent)

\* by_bdf finds the only node with an address.
LEMMA IndexedNode ==
    ASSUME NEW devices, NEW k, NEW t, Indexed(devices, k, t), NEW b \in DOMAIN t.by_bdf
    PROVE  NodeAt(t.nodes, b) = t.by_bdf[b]
<1>1. t.by_bdf[b] \in DOMAIN t.nodes /\ t.nodes[t.by_bdf[b]].bdf = b
  BY DEF Indexed
<1>2. \A id \in DOMAIN t.nodes : t.nodes[id].bdf = b => id = t.by_bdf[b]
  BY DEF Indexed
<1> QED
  BY <1>1, <1>2 DEF NodeAt

\* Discovery leaves the machine's hierarchy (enumerate_pci_devices,
\* build_topology_from_windows).
LEMMA DiscoveredIsTheMachines ==
    ASSUME NEW machine \in Machine, NumberedFromRoot(machine), AddressesDiffer(machine),
           NEW m \in Discovered[machine]
    PROVE  IsTheMachines(m, machine)
<1>1. PICK devices \in D!enumerate_pci_devices(machine) :
          m = build_topology_from_windows(devices)
  BY DEF Discovered
<1> DEFINE pci == D!PciInstances(machine)
           found == {d \in pci : A!valid(D!BdfOf(d))}
           n == Len(devices)
<1>2. PICK s \in D!SetToSeqs(pci) :
          devices = [i \in DOMAIN s |-> D!RawPciDevice(machine, s[i])]
  BY <1>1 DEF D!enumerate_pci_devices
<1>3. D!InAddressOrder(devices)
  BY <1>1 DEF D!enumerate_pci_devices
<1>4. /\ ParentsFirst(devices) /\ n = Len(s)
      /\ \A i \in 1 .. n : /\ devices[i].bdf = D!BdfOf(s[i])
                           /\ devices[i].parent = D!ParentBdf(machine, s[i])
  BY <1>2, <1>3, ListHasParentsFirst
<1>5. /\ n \in Nat
      /\ \A i \in 1 .. n : s[i] \in pci
      /\ \A d \in pci : \E i \in 1 .. n : s[i] = d
  BY <1>4, ListIsMachine, RuntimeAssumption
<1>6. PICK t : AfterRound(devices, n, t) /\ m = t.nodes
  BY <1>1, <1>4, BuiltAfterRounds
<1>7. Indexed(devices, n, t) /\ Hung(devices, n, t)
  BY <1>6 DEF AfterRound
<1> HIDE DEF n
<1>8. DOMAIN t.by_bdf = {D!BdfOf(d) : d \in found}
  <2>1. DOMAIN t.by_bdf = {devices[i].bdf : i \in PlacedBy(devices, n)}
    BY <1>7 DEF Indexed
  <2>2. ASSUME NEW i \in PlacedBy(devices, n)
        PROVE  s[i] \in found /\ devices[i].bdf = D!BdfOf(s[i])
    BY <1>4, <1>5 DEF PlacedBy
  <2>3. ASSUME NEW d \in found
        PROVE  \E i \in PlacedBy(devices, n) : devices[i].bdf = D!BdfOf(d)
    BY <1>4, <1>5 DEF PlacedBy
  <2> QED
    BY <2>1, <2>2, <2>3
<1>9. {m[id].bdf : id \in DOMAIN m} = DOMAIN t.by_bdf
  <2>1. ASSUME NEW id \in DOMAIN m PROVE m[id].bdf \in DOMAIN t.by_bdf
    BY <1>6, <1>7 DEF Indexed
  <2>2. ASSUME NEW b \in DOMAIN t.by_bdf PROVE \E id \in DOMAIN m : m[id].bdf = b
    <3>1. t.by_bdf[b] \in DOMAIN m /\ m[t.by_bdf[b]].bdf = b
      BY <1>6, <1>7 DEF Indexed
    <3> QED
      BY <3>1
  <2> QED
    BY <2>1, <2>2
<1>10. ASSUME NEW d \in found
       PROVE  m[NodeAt(m, D!BdfOf(d))].parent =
                  IF D!ParentBdf(machine, d) = None THEN None
                  ELSE NodeAt(m, D!ParentBdf(machine, d))
  <2>1. PICK i \in 1 .. n : s[i] = d
    BY <1>5
  <2>2. devices[i].bdf = D!BdfOf(d) /\ devices[i].parent = D!ParentBdf(machine, d)
    BY <1>4, <2>1
  <2>3. i \in PlacedBy(devices, n)
    BY <2>2 DEF PlacedBy
  <2>4. NodeAt(m, D!BdfOf(d)) = t.by_bdf[devices[i].bdf]
    BY <1>6, <1>7, <1>8, <2>2, IndexedNode
  <2>5. CASE devices[i].parent = None
    BY <1>6, <1>7, <2>2, <2>3, <2>4, <2>5 DEF Hung
  <2>6. CASE devices[i].parent # None
    <3>1. /\ devices[i].parent \in DOMAIN t.by_bdf
          /\ t.nodes[t.by_bdf[devices[i].bdf]].parent = t.by_bdf[devices[i].parent]
      BY <1>7, <2>3, <2>6 DEF Hung
    <3>2. NodeAt(m, devices[i].parent) = t.by_bdf[devices[i].parent]
      BY <1>6, <1>7, <3>1, IndexedNode
    <3> QED
      BY <1>6, <2>2, <2>4, <2>6, <3>1, <3>2
  <2> QED
    BY <2>5, <2>6
<1> QED
  BY <1>8, <1>9, <1>10 DEF IsTheMachines

-----------------------------------------------------------------------------
(* Paths *)

\* What a function takes from a finite set is finite.
LEMMA ImageIsFinite ==
    ASSUME NEW Z, IsFiniteSet(Z), NEW f
    PROVE  IsFiniteSet({f[x] : x \in Z})
<1> DEFINE I == {f[x] : x \in Z}
           g == [x \in Z |-> f[x]]
<1>1. g \in Surjection(Z, I)
  BY DEF Surjection
<1> QED
  BY <1>1, FS_Surjection

\* The first place of a list that holds one of xs does hold one
\* (root_complex_of_locked returns a node it has seen).
LEMMA FirstInFinds ==
    ASSUME NEW s, NEW K \in Nat, DOMAIN s = 1 .. K, NEW xs, \E i \in 1 .. K : s[i] \in xs
    PROVE  s[T!FirstIn(s, xs)] \in xs
<1> DEFINE ns == {i \in 1 .. K : s[i] \in xs}
<1>1. ns \in SUBSET Nat /\ ns # {}
  OBVIOUS
<1>2. PICK i \in ns : \A j \in ns : i <= j
  <2> HIDE DEF ns
  <2> QED
    BY <1>1, SP!LeastNumber DEF SP!LeastNumber
<1>3. i \in DOMAIN s /\ s[i] \in xs /\ \A j \in 1 .. (i - 1) : s[j] \notin xs
  BY <1>2
<1> QED
  BY <1>3 DEF T!FirstIn

\* The root complex of a node is a node.
LEMMA RootComplexIsNode ==
    ASSUME NEW m, Hierarchy(m), NEW id, T!RootComplexOf(m, id) # None
    PROVE  T!RootComplexOf(m, id) \in DOMAIN m
<1> DEFINE up == T!Ancestors(m, id)
           roots == {x \in T!Elements(up) \cap DOMAIN m : m[x].kind \in T!Root}
           K == Cardinality(DOMAIN m) + 1
           steps == {k \in 1 .. K : T!Upstream(m, id, k - 1) # None}
<1>1. T!RootComplexOf(m, id) = up[T!FirstIn(up, roots)] /\ roots # {}
  BY DEF T!RootComplexOf
<1>2. \A Z : T!Cardinality(Z) = Cardinality(Z)
  BY Zenon DEF T!Cardinality, Cardinality, T!IsFiniteSet, IsFiniteSet
<1>3. IsFiniteSet(DOMAIN m) /\ Cardinality(DOMAIN m) \in Nat
  <2>1. DOMAIN m \subseteq 0 .. MaxId /\ 0 \in Int /\ MaxId \in Int
    BY RuntimeAssumption DEF Hierarchy, NodeId
  <2>2. IsFiniteSet(0 .. MaxId)
    BY <2>1, FS_Interval
  <2> QED
    BY <2>1, <2>2, FS_Subset, FS_CardinalityType
<1>4. Cardinality(steps) \in Nat
  <2>1. 1 \in Int /\ K \in Int
    BY <1>3
  <2>2. IsFiniteSet(1 .. K)
    <3> HIDE DEF K
    <3> QED
      BY <2>1, FS_Interval
  <2>3. steps \subseteq 1 .. K
    OBVIOUS
  <2> HIDE DEF steps, K
  <2> QED
    BY <2>2, <2>3, FS_Subset, FS_CardinalityType
<1>5. DOMAIN up = 1 .. Cardinality(steps)
  BY <1>2 DEF T!Ancestors
<1>6. \E i \in 1 .. Cardinality(steps) : up[i] \in roots
  BY <1>1, <1>5 DEF T!Elements
<1>7. up[T!FirstIn(up, roots)] \in roots
  <2> HIDE DEF up, roots, steps
  <2> QED
    BY <1>4, <1>5, <1>6, FirstInFinds
<1> QED
  BY <1>1, <1>7

\* The class and the locality of a path between any two nodes
\* (compute_path_class, Topology::locality).
LEMMA ClassAndLocality ==
    ASSUME NEW m, NEW a, NEW b
    PROVE  compute_path_class(m, a, b) \in PathClass /\ T!Locality(m, a, b) \in S!Locality
<1>1. compute_path_class(m, a, b) \in PathClass
  BY DEF compute_path_class, PathClass
<1>2. T!Locality(m, a, b) \in S!Locality
  BY DEF T!Locality, S!Locality
<1> QED
  BY <1>1, <1>2

\* build_path makes a well-formed path, CURRENT and without a rate.
LEMMA BuiltOne ==
    ASSUME epoch \in AnyEpoch, boot \in AnyBoot, NEW id \in Nat, NEW a \in NodeId, NEW b \in NodeId
    PROVE  /\ build_path(id, a, b) \in Path
           /\ build_path(id, a, b).id = id
           /\ build_path(id, a, b).measured = None
           /\ build_path(id, a, b).freshness = "CURRENT"
<1>1. 0 \in 0 .. MaxAge /\ "CURRENT" \in S!Freshness
  BY RuntimeAssumption DEF S!Freshness
<1> QED
  BY <1>1, ClassAndLocality DEF build_path, Path

\* Ids of the paths between endpoints lie below those of the paths to the host
\* (build_paths counts the former from 1 and the latter from HostBase).
LEMMA PairIdIsSmall ==
    ASSUME NEW n \in 0 .. (MaxId + 1), NEW i \in 1 .. n, NEW j \in 1 .. n
    PROVE  PairId(n, i, j) \in Nat /\ PairId(n, i, j) < HostBase
<1>1. MaxId \in Nat /\ HostBase \in Nat /\ HostBase > (MaxId + 1) * (MaxId + 1)
  BY RuntimeAssumption
<1>2. (i - 1) * n \in Nat /\ (i - 1) * n <= (n - 1) * n
  OBVIOUS
<1>3. n * n <= (MaxId + 1) * (MaxId + 1)
  BY <1>1
<1>4. (n - 1) * n = n * n - n
  OBVIOUS
<1> QED
  BY <1>1, <1>2, <1>3, <1>4 DEF PairId

\* What build_paths makes is well formed and finite.
LEMMA BuiltArePaths ==
    ASSUME Hierarchy(nodes), epoch \in AnyEpoch, boot \in AnyBoot
    PROVE  /\ \A p \in BuiltPaths : p \in Path /\ p.measured = None /\ p.freshness = "CURRENT"
           /\ IsFiniteSet(BuiltPaths)
<1> DEFINE eps == Endpoints(nodes)
           n == Len(eps)
           ends == {x \in Range(eps) : T!RootComplexOf(nodes, x) # None}
           pairs == {build_path(PairId(n, ij[1], ij[2]), eps[ij[1]], eps[ij[2]]) :
                       ij \in Pairs(eps)}
           hosts == {build_path(HostBase + e, e, T!RootComplexOf(nodes, e)) : e \in ends}
<1>1. BuiltPaths = pairs \cup hosts
  BY DEF BuiltPaths
<1>2. /\ n \in 0 .. (MaxId + 1) /\ DOMAIN eps = 1 .. n /\ DOMAIN nodes \subseteq NodeId
      /\ \A i \in DOMAIN eps : eps[i] \in DOMAIN nodes
  BY EndpointsAreLive DEF Hierarchy
<1>3. ends \subseteq DOMAIN nodes
  BY <1>2 DEF Range
<1>4. ASSUME NEW p \in pairs
      PROVE  p \in Path /\ p.measured = None /\ p.freshness = "CURRENT"
  <2>1. PICK ij \in Pairs(eps) :
            p = build_path(PairId(n, ij[1], ij[2]), eps[ij[1]], eps[ij[2]])
    BY <1>4
  <2>2. ij[1] \in 1 .. n /\ ij[2] \in 1 .. n
    BY <1>2 DEF Pairs
  <2>3. PairId(n, ij[1], ij[2]) \in Nat
    BY <1>2, <2>2, PairIdIsSmall
  <2>4. eps[ij[1]] \in NodeId /\ eps[ij[2]] \in NodeId
    BY <1>2, <2>2
  <2> QED
    BY <2>1, <2>3, <2>4, BuiltOne
<1>5. ASSUME NEW p \in hosts
      PROVE  p \in Path /\ p.measured = None /\ p.freshness = "CURRENT"
  <2>1. PICK e \in ends : p = build_path(HostBase + e, e, T!RootComplexOf(nodes, e))
    BY <1>5
  <2>2. e \in NodeId /\ T!RootComplexOf(nodes, e) \in NodeId
    BY <1>2, <1>3, RootComplexIsNode
  <2>3. HostBase + e \in Nat
    BY <2>2, RuntimeAssumption DEF NodeId
  <2> QED
    BY <2>1, <2>2, <2>3, BuiltOne
<1>6. IsFiniteSet(pairs)
  <2> DEFINE f == [ij \in Pairs(eps) |->
                      build_path(PairId(n, ij[1], ij[2]), eps[ij[1]], eps[ij[2]])]
  <2>1. IsFiniteSet(1 .. n)
    BY <1>2, FS_Interval
  <2>2. IsFiniteSet((1 .. n) \X (1 .. n))
    BY <2>1, FS_Product
  <2>3. IsFiniteSet(Pairs(eps))
    <3>1. Pairs(eps) \subseteq (1 .. n) \X (1 .. n)
      BY <1>2 DEF Pairs
    <3> QED
      BY <2>2, <3>1, FS_Subset
  <2>4. pairs = {f[ij] : ij \in Pairs(eps)}
    OBVIOUS
  <2> HIDE DEF f, pairs
  <2> QED
    BY <2>3, <2>4, ImageIsFinite
<1>7. IsFiniteSet(hosts)
  <2> DEFINE f == [e \in ends |-> build_path(HostBase + e, e, T!RootComplexOf(nodes, e))]
  <2>1. IsFiniteSet(0 .. MaxId)
    BY FS_Interval, RuntimeAssumption
  <2>2. ends \subseteq 0 .. MaxId
    BY <1>2, <1>3 DEF NodeId
  <2>3. IsFiniteSet(ends)
    BY <2>1, <2>2, FS_Subset
  <2>4. hosts = {f[e] : e \in ends}
    OBVIOUS
  <2> HIDE DEF f, hosts, ends
  <2> QED
    BY <2>3, <2>4, ImageIsFinite
<1>8. IsFiniteSet(pairs \cup hosts)
  BY <1>6, <1>7, FS_Union
<1> HIDE DEF pairs, hosts
<1> QED
  BY <1>1, <1>4, <1>5, <1>8

\* A map of paths: finitely many, well formed, each under its own id.
PathsOK(map) ==
    /\ IsFiniteSet(DOMAIN map)
    /\ \A id \in DOMAIN map : map[id] \in Path /\ map[id].id = id

\* Storing paths under their ids keeps a map of paths one; ids that are not
\* stored keep their paths (paths_[p.id()] = p).
LEMMA AssignKeeps ==
    ASSUME NEW map, PathsOK(map), NEW ps, ps \subseteq Path, IsFiniteSet(ps)
    PROVE  /\ PathsOK(Assign(map, ps))
           /\ DOMAIN Assign(map, ps) = DOMAIN map \cup {p.id : p \in ps}
           /\ \A id \in DOMAIN Assign(map, ps) :
                 \/ Assign(map, ps)[id] \in ps
                 \/ /\ id \in DOMAIN map /\ id \notin {p.id : p \in ps}
                    /\ Assign(map, ps)[id] = map[id]
<1> DEFINE new == Assign(map, ps)
           ids == {p.id : p \in ps}
<1>1. DOMAIN new = DOMAIN map \cup ids
  BY DEF Assign
<1>2. ASSUME NEW id \in ids
      PROVE  new[id] \in ps /\ new[id].id = id
  BY <1>2 DEF Assign
<1>3. ASSUME NEW id \in DOMAIN map, id \notin ids
      PROVE  new[id] = map[id]
  BY <1>3 DEF Assign
<1>4. IsFiniteSet(ids)
  <2> DEFINE f == [p \in ps |-> p.id]
  <2>1. ids = {f[p] : p \in ps}
    OBVIOUS
  <2> HIDE DEF f, ids
  <2> QED
    BY <2>1, ImageIsFinite
<1>5. IsFiniteSet(DOMAIN map \cup ids)
  BY <1>4, FS_Union DEF PathsOK
<1> HIDE DEF new, ids
<1>6. \A id \in DOMAIN new : new[id] \in Path /\ new[id].id = id
  BY <1>1, <1>2, <1>3 DEF PathsOK
<1>7. PathsOK(new)
  BY <1>1, <1>5, <1>6 DEF PathsOK
<1>8. \A id \in DOMAIN new :
         new[id] \in ps \/ (id \in DOMAIN map /\ id \notin ids /\ new[id] = map[id])
  BY <1>1, <1>2, <1>3
<1> QED
  BY <1>1, <1>7, <1>8 DEF new, ids

\* Neither of the freshness levels a recovered path can have is usable.
Unusable == {"REVALIDATION_REQUIRED", "INVALID"}

\* age_freshness changes the age of a path and how fresh it is, and makes no path
\* usable that was not.
LEMMA AgedKeeps ==
    ASSUME NEW p \in Path
    PROVE  /\ Aged(p) \in Path
           /\ Aged(p).id = p.id /\ Aged(p).source = p.source
           /\ Aged(p).destination = p.destination /\ Aged(p).measured = p.measured
           /\ p.freshness \in Unusable => Aged(p).freshness \in Unusable
<1> DEFINE older == [p EXCEPT !.age = IF @ < MaxAge THEN @ + 1 ELSE @]
<1>1. /\ older \in Path /\ older.id = p.id /\ older.source = p.source
      /\ older.destination = p.destination /\ older.measured = p.measured
      /\ older.freshness = p.freshness
  BY RuntimeAssumption DEF Path
<1>2. "AGING" \in S!Freshness /\ "STALE" \in S!Freshness
  BY DEF S!Freshness
<1>3. \A f \in S!Freshness :
         LET q == [older EXCEPT !.freshness = f] IN
         /\ q \in Path /\ q.id = p.id /\ q.source = p.source
         /\ q.destination = p.destination /\ q.measured = p.measured /\ q.freshness = f
  <2> HIDE DEF older
  <2> QED
    BY <1>1 DEF Path
<1>4. Aged(p) = IF p.freshness = "CURRENT" THEN [older EXCEPT !.freshness = "AGING"]
                ELSE IF p.freshness = "AGING" /\ p.age > AgeLimit
                THEN [older EXCEPT !.freshness = "STALE"] ELSE older
  BY DEF Aged
<1> HIDE DEF older
<1>5. CASE p.freshness = "CURRENT"
  BY <1>2, <1>3, <1>4, <1>5 DEF Unusable
<1>6. CASE p.freshness = "AGING" /\ p.age > AgeLimit
  BY <1>2, <1>3, <1>4, <1>6 DEF Unusable
<1>7. CASE ~(p.freshness = "CURRENT") /\ ~(p.freshness = "AGING" /\ p.age > AgeLimit)
  BY <1>1, <1>4, <1>7 DEF Unusable
<1> QED
  BY <1>5, <1>6, <1>7

\* mark_physical_revalidation_required leaves a path no longer usable.
LEMMA RevalidatedKeeps ==
    ASSUME NEW p \in Path
    PROVE  /\ Revalidated(p) \in Path
           /\ Revalidated(p).id = p.id /\ Revalidated(p).source = p.source
           /\ Revalidated(p).destination = p.destination
           /\ Revalidated(p).measured = p.measured
           /\ Revalidated(p).freshness \in Unusable
<1>1. "REVALIDATION_REQUIRED" \in S!Freshness
  BY DEF S!Freshness
<1> QED
  BY <1>1 DEF Path, Revalidated, Unusable

-----------------------------------------------------------------------------
(* Measurements *)

\* Finitely many measurements, each one that was reported.
MeasurementsOK ==
    /\ IsFiniteSet(DOMAIN measurements) /\ DOMAIN measurements \subseteq Nat
    /\ \A id \in DOMAIN measurements :
          LET r == measurements[id] IN
          r \in Report /\ <<r.source, r.destination, r.rate>> \in reported

\* A strict order of the elements of Z, as a set of pairs.
StrictOrder(R, Z) ==
    /\ \A x \in Z : <<x, x>> \notin R
    /\ \A x, y, z \in Z : <<x, y>> \in R /\ <<y, z>> \in R => <<x, z>> \in R

\* A strict order has a minimal element on a finite set: the
\* one with the fewest others before it.
LEMMA MinimalExists ==
    ASSUME NEW Z, IsFiniteSet(Z), Z # {}, NEW R, StrictOrder(R, Z)
    PROVE  \E x \in Z : \A y \in Z : <<y, x>> \notin R
<1> DEFINE before(x) == {y \in Z : <<y, x>> \in R}
           counts == {Cardinality(before(x)) : x \in Z}
<1>1. \A x \in Z : IsFiniteSet(before(x)) /\ Cardinality(before(x)) \in Nat
  <2> SUFFICES ASSUME NEW x \in Z PROVE IsFiniteSet(before(x)) /\ Cardinality(before(x)) \in Nat
    OBVIOUS
  <2>1. before(x) \subseteq Z
    OBVIOUS
  <2> HIDE DEF before
  <2> QED
    BY <2>1, FS_Subset, FS_CardinalityType
<1>2. counts \in SUBSET Nat /\ counts # {}
  <2> HIDE DEF before
  <2> QED
    BY <1>1
<1>3. PICK n \in counts : \A k \in counts : n <= k
  <2> HIDE DEF counts
  <2> QED
    BY <1>2, SP!LeastNumber DEF SP!LeastNumber
<1>4. PICK x \in Z : n = Cardinality(before(x))
  BY <1>3
<1>5. ASSUME NEW y \in Z, <<y, x>> \in R
      PROVE  FALSE
  <2>1. before(y) \subseteq before(x) /\ y \in before(x) /\ y \notin before(y)
    BY <1>5 DEF StrictOrder
  <2>2. before(y) # before(x)
    BY <2>1
  <2>3. Cardinality(before(x)) <= Cardinality(before(y))
    BY <1>3, <1>4
  <2> HIDE DEF before
  <2> QED
    BY <1>1, <2>1, <2>2, <2>3, FS_Subset
<1> QED
  BY <1>5

\* MeasurementStore::latest finds one of the measurements it searches.
LEMMA LatestIsOne ==
    ASSUME MeasurementsOK, NEW ids, ids \subseteq DOMAIN measurements, ids # {}
    PROVE  Latest(ids) \in ids
<1> DEFINE gen(x) == measurements[x].generation
           R == {xy \in ids \X ids :
                    gen(xy[1]) > gen(xy[2]) \/ (gen(xy[1]) = gen(xy[2]) /\ xy[1] < xy[2])}
<1>1. \A x \in ids : x \in Nat /\ gen(x) \in Nat
  BY RuntimeAssumption DEF MeasurementsOK, Measurement
<1>2. IsFiniteSet(ids)
  BY FS_Subset DEF MeasurementsOK
<1> HIDE DEF gen
<1>3. StrictOrder(R, ids)
  <2>1. \A x \in ids : <<x, x>> \notin R
    BY <1>1
  <2>2. \A x, y, z \in ids : <<x, y>> \in R /\ <<y, z>> \in R => <<x, z>> \in R
    BY <1>1
  <2> QED
    BY <2>1, <2>2 DEF StrictOrder
<1>4. PICK x \in ids : \A y \in ids : <<y, x>> \notin R
  <2> HIDE DEF R
  <2> QED
    BY <1>2, <1>3, MinimalExists
<1>5. \A y \in ids : gen(y) < gen(x) \/ (gen(y) = gen(x) /\ x <= y)
  <2> SUFFICES ASSUME NEW y \in ids
               PROVE  gen(y) < gen(x) \/ (gen(y) = gen(x) /\ x <= y)
    OBVIOUS
  <2>1. ~(gen(y) > gen(x) \/ (gen(y) = gen(x) /\ y < x))
    <3>1. <<y, x>> \notin R /\ <<y, x>> \in ids \X ids
      BY <1>4
    <3> QED
      BY <3>1
  <2>2. x \in Nat /\ y \in Nat /\ gen(x) \in Nat /\ gen(y) \in Nat
    BY <1>1
  <2> QED
    BY <2>1, <2>2
<1> QED
  BY <1>5 DEF Latest, gen

\* The rate of a path, if it has one, was reported between its ends.
Attested(p) == p.measured # None => <<p.source, p.destination, p.measured>> \in reported

\* What Evidence of a set of paths says of each one.
LEMMA EvidenceIsAttested ==
    ASSUME NEW ps
    PROVE  Evidence(ps) \subseteq reported <=> \A p \in ps : Attested(p)
<1>1. ASSUME Evidence(ps) \subseteq reported, NEW p \in ps, p.measured # None
      PROVE  <<p.source, p.destination, p.measured>> \in reported
  <2>1. <<p.source, p.destination, p.measured>> \in Evidence(ps)
    BY <1>1, Zenon DEF Evidence
  <2> QED
    BY <1>1, <2>1
<1>2. ASSUME \A p \in ps : Attested(p), NEW e \in Evidence(ps)
      PROVE  e \in reported
  <2>1. PICK p \in ps : p.measured # None /\ e = <<p.source, p.destination, p.measured>>
    BY Zenon DEF Evidence
  <2> QED
    BY <1>2, <2>1 DEF Attested
<1> QED
  BY <1>1, <1>2 DEF Attested

\* refresh_measured gives a path only rates that were reported between its ends.
LEMMA WithEvidenceKeeps ==
    ASSUME MeasurementsOK, NEW p \in Path, Attested(p)
    PROVE  /\ WithEvidence(p) \in Path
           /\ WithEvidence(p).id = p.id
           /\ WithEvidence(p).freshness = p.freshness
           /\ Attested(WithEvidence(p))
<1> DEFINE pinned == Matching(p, "PINNED_H2D")
           known == IF pinned # {} THEN pinned ELSE Matching(p, "PAGEABLE_H2D")
           r == measurements[Latest(known)]
<1>1. CASE known = {}
  BY <1>1 DEF WithEvidence
<1>2. CASE known # {}
  <2>1. \A x \in known : /\ x \in DOMAIN measurements
                         /\ measurements[x].source = p.source
                         /\ measurements[x].destination = p.destination
    BY DEF Matching
  <2>2. known \subseteq DOMAIN measurements
    BY <2>1
  <2>3. Latest(known) \in known
    <3> HIDE DEF known
    <3> QED
      BY <1>2, <2>2, LatestIsOne
  <2>4. /\ r \in Report /\ <<p.source, p.destination, r.rate>> \in reported
    BY <2>1, <2>3 DEF MeasurementsOK
  <2>5. r.rate \in Rates
    BY <2>4 DEF Rates
  <2>6. WithEvidence(p) = [p EXCEPT !.measured = r.rate]
    BY <1>2 DEF WithEvidence
  <2> HIDE DEF r
  <2> QED
    BY <2>4, <2>5, <2>6 DEF Path, Attested
<1> QED
  BY <1>1, <1>2

-----------------------------------------------------------------------------
(* Selection *)

\* The decision the runtime makes is the one the theorems of SelectionProofs are
\* about.
LEMMA SameDecision ==
    ASSUME NEW cs, NEW req
    PROVE  S!Select(cs, req) = SP!Select(cs, req)
  BY Zenon DEF S!Select, SP!Select, S!Pool, SP!Pool, S!Deferred, SP!Deferred, S!Usable,
       SP!Usable, S!Unfresh, SP!Unfresh, S!Best, SP!Best, S!Penalised, SP!Penalised,
       S!Ids, SP!Ids, S!Fresh, SP!Fresh, S!Authorised, SP!Authorised, S!Capable, SP!Capable,
       S!Precedes, SP!Precedes, S!Admissible, SP!Admissible, S!Rate, SP!Rate,
       S!locality_rank, SP!locality_rank, S!contention_rank, SP!contention_rank

\* A path that is selected is one of the candidates and is CURRENT or AGING
\* (PathSelector::select).
LEMMA SelectedIsFresh ==
    ASSUME NEW req, NEW cs \in SUBSET SP!Candidate, IsFiniteSet(cs), SP!DistinctIds(cs)
    PROVE  \/ S!Select(cs, req).selected = None
           \/ \E c \in cs : S!Fresh(c) /\ S!Select(cs, req).selected = c.id
<1>1. CASE SP!Pool(cs, req) = {}
  <2>1. SP!Select(cs, req).selected = None
    BY <1>1 DEF SP!Select
  <2> QED
    BY <2>1, SameDecision
<1>2. CASE SP!Pool(cs, req) # {}
  <2>1. PICK c \in SP!Pool(cs, req) : SP!Select(cs, req).selected = c.id
    BY <1>2, SP!DecisionAccountsForAll
    DEF SP!DecisionAccountsForAll, SP!IsFiniteSet, IsFiniteSet
  <2>2. c \in cs /\ S!Fresh(c)
    BY <2>1 DEF SP!Pool, SP!Usable, SP!Fresh, S!Fresh
  <2> QED
    BY <2>1, <2>2, SameDecision
<1> QED
  BY <1>1, <1>2

-----------------------------------------------------------------------------
(* The invariant *)

\* What the runtime saves is what the file system stores.
Encoded == Snapshot = SnapshotRecord

\* A snapshot, wherever it is on its way to the file and back, has finitely many
\* paths, whose rates were reported.
Kept(b) == b # None => IsFiniteSet(b.paths) /\ Evidence(b.paths) \subseteq reported

SnapshotsKept ==
    /\ file # None => Kept(file.body)
    /\ tmp # None => Kept(tmp.body)
    /\ \A t \in Saver : Kept(save[t].snapshot)
    /\ Kept(loading)

AuthorityOK ==
    /\ epoch \in AnyEpoch /\ boot \in AnyBoot
    /\ loading \in Snapshot \cup {None}
    /\ ops \in 0 .. MaxOps

\* No path that came from a file is usable.
RecoveredOK ==
    recovered \subseteq DOMAIN paths /\ \A id \in recovered : paths[id].freshness \in Unusable

PathsAttested == \A id \in DOMAIN paths : Attested(paths[id])

RuntimeInv ==
    /\ FilesInv /\ SnapshotsKept
    /\ Hierarchy(nodes) /\ PathsOK(paths) /\ MeasurementsOK
    /\ AuthorityOK /\ RecoveredOK /\ PathsAttested

\* A new runtime has nothing, and its file what a coordinator left there.
LEMMA RuntimeInitInv ==
    ASSUME Encoded, Init
    PROVE  RuntimeInv
<1> USE DEF Init
<1>1. PICK s \in InitialFile :
          /\ file = IF s = None THEN None ELSE Whole(s)
          /\ saved = s
          /\ reported = IF s = None THEN {} ELSE Evidence(s.paths)
  OBVIOUS
<1>2. s # None => s \in Snapshot /\ IsFiniteSet(s.paths)
  BY RuntimeAssumption
<1>3. FilesInv
  <2>1. s # None => Whole(s) \in Contents
    BY <1>2, WholeLoads
  <2>2. file \in Contents \cup {None} /\ saved \in Block
    BY <1>1, <1>2, <2>1 DEF Block
  <2>3. Idle \in Call
    BY DEF Idle, Call, Place, Block
  <2>4. FilesTypeOK
    <3>1. save \in [Saver -> Call]
      BY <2>3
    <3>2. saves \in 0 .. MaxSaves /\ crashes \in 0 .. MaxCrashes
      BY PersistenceAssumption
    <3>3. /\ lost \in BOOLEAN /\ tmp \in Contents \cup {None}
          /\ overlapping \subseteq Saver /\ mixed \in BOOLEAN
      OBVIOUS
    <3> QED
      BY <2>2, <3>1, <3>2, <3>3 DEF FilesTypeOK
  <2>5. \A t \in Saver : Written(t) /\ Alone(t)
    BY DEF Idle, At, Writing, Written, Alone
  <2>6. FileIsWhole /\ SavedIsPublished
    BY <1>1, <1>2 DEF FileIsWhole, SavedIsPublished
  <2> QED
    BY <2>4, <2>5, <2>6 DEF FilesInv
<1>4. SnapshotsKept
  <2>1. file # None => Kept(file.body)
    BY <1>1, <1>2 DEF Kept, Whole
  <2> QED
    BY <2>1 DEF SnapshotsKept, Kept, Idle
<1>5. Hierarchy(nodes)
  BY EmptyHierarchy
<1>6. PathsOK(paths) /\ MeasurementsOK
  <2>1. DOMAIN paths = {} /\ DOMAIN measurements = {}
    BY DEF Empty
  <2>2. IsFiniteSet({})
    BY FS_EmptySet
  <2> QED
    BY <2>1, <2>2 DEF PathsOK, MeasurementsOK
<1>7. AuthorityOK /\ RecoveredOK /\ PathsAttested
  <2>1. DOMAIN paths = {}
    BY DEF Empty
  <2> QED
    BY <2>1, RuntimeAssumption DEF AuthorityOK, RecoveredOK, PathsAttested, AnyEpoch, AnyBoot
<1> QED
  BY <1>3, <1>4, <1>5, <1>6, <1>7 DEF RuntimeInv

\* What save copies under the lock is a snapshot the file system can store.
LEMMA CurrentIsSnapshot ==
    ASSUME RuntimeInv
    PROVE  /\ encode(CurrentSnapshot) \in SnapshotRecord
           /\ encode(CurrentSnapshot).paths = Range(paths)
<1> DEFINE live == {x \in DOMAIN nodes : ~nodes[x].removed}
           named == {[id |-> id, node |-> nodes[id]] : id \in live}
<1>1. encode(CurrentSnapshot) =
          [epoch |-> epoch, nodes |-> {n.node : n \in named}, paths |-> Range(paths)]
  <2>1. CurrentSnapshot = [epoch |-> epoch, nodes |-> named, paths |-> Range(paths)]
    BY DEF CurrentSnapshot
  <2> HIDE DEF named
  <2> QED
    BY <2>1 DEF encode
<1>2. \A n \in named : n.node \in Node
  BY DEF RuntimeInv, Hierarchy
<1>3. {n.node : n \in named} \in SUBSET Node
  BY <1>2
<1>4. Range(paths) \in SUBSET Path
  BY DEF RuntimeInv, PathsOK, Range
<1>5. epoch \in AnyEpoch
  BY DEF RuntimeInv, AuthorityOK
<1> HIDE DEF named
<1> QED
  BY <1>1, <1>3, <1>4, <1>5 DEF SnapshotRecord

\* Whatever the runtime does, the files take a step of save or none.
LEMMA FilesMove ==
    ASSUME Encoded, RuntimeInv, Next
    PROVE  [FilesNext]_files
<1>1. ASSUME NEW t \in Saver, BeginSave(t) PROVE FilesNext
  <2>1. encode(CurrentSnapshot) \in Snapshot
    BY CurrentIsSnapshot DEF Encoded
  <2> QED
    BY <1>1, <2>1 DEF BeginSave, FilesNext
<1>2. ASSUME NEW t \in Saver, SaveStep(t) PROVE FilesNext
  BY <1>2 DEF FilesNext
<1>3. CASE Restart
  BY <1>3 DEF Restart, FilesNext
<1>4. ASSUME NEW e \in Epoch, NEW b \in Boot, SetAuthority(e, b) PROVE UNCHANGED files
  BY <1>4 DEF SetAuthority
<1>5. ASSUME NEW d \in Device, AddEndpoint(d) PROVE UNCHANGED files
  BY <1>5 DEF AddEndpoint
<1>6. ASSUME NEW machine \in Machine, DiscoverWindows(machine) PROVE UNCHANGED files
  BY <1>6 DEF DiscoverWindows
<1>7. ASSUME NEW r \in Report, IngestMeasurement(r) PROVE UNCHANGED files
  BY <1>7 DEF IngestMeasurement
<1>8. CASE BuildPaths \/ AgeFreshness \/ RefreshMeasured \/ LoadFile \/ InstallLoaded
  BY <1>8 DEF BuildPaths, AgeFreshness, RefreshMeasured, LoadFile, InstallLoaded
<1> QED
  BY <1>1, <1>2, <1>3, <1>4, <1>5, <1>6, <1>7, <1>8 DEF Next

\* Reports are never taken back.
LEMMA ReportsStay ==
    ASSUME Next
    PROVE  reported \subseteq reported'
<1>1. ASSUME NEW e \in Epoch, NEW b \in Boot, SetAuthority(e, b) PROVE reported' = reported
  BY <1>1 DEF SetAuthority
<1>2. ASSUME NEW d \in Device, AddEndpoint(d) PROVE reported' = reported
  BY <1>2 DEF AddEndpoint
<1>3. ASSUME NEW machine \in Machine, DiscoverWindows(machine) PROVE reported' = reported
  BY <1>3 DEF DiscoverWindows
<1>4. ASSUME NEW r \in Report, IngestMeasurement(r) PROVE reported \subseteq reported'
  BY <1>4 DEF IngestMeasurement
<1>5. ASSUME NEW t \in Saver, BeginSave(t) \/ (SaveStep(t) /\ UNCHANGED facade)
      PROVE  reported' = reported
  BY <1>5 DEF BeginSave, facade
<1>6. CASE BuildPaths \/ AgeFreshness \/ RefreshMeasured \/ LoadFile \/ InstallLoaded \/ Restart
  BY <1>6 DEF BuildPaths, AgeFreshness, RefreshMeasured, LoadFile, InstallLoaded, Restart
<1> QED
  BY <1>1, <1>2, <1>3, <1>4, <1>5, <1>6 DEF Next

\* The paths of the runtime are finitely many, and their rates were reported.
LEMMA PathsAreKept ==
    ASSUME RuntimeInv
    PROVE  IsFiniteSet(Range(paths)) /\ Evidence(Range(paths)) \subseteq reported
<1>1. IsFiniteSet(DOMAIN paths) /\ PathsAttested
  BY DEF RuntimeInv, PathsOK
<1>2. Range(paths) = {paths[id] : id \in DOMAIN paths}
  BY DEF Range
<1>3. \A p \in Range(paths) : Attested(p)
  BY <1>1, <1>2 DEF PathsAttested
<1> QED
  BY <1>1, <1>2, <1>3, ImageIsFinite, EvidenceIsAttested

\* Snapshots stay what they were on the way from the lock to the file and back.
LEMMA SnapshotsStep ==
    ASSUME Encoded, RuntimeInv, Next
    PROVE  SnapshotsKept'
<1>1. reported \subseteq reported'
  BY ReportsStay
<1>2. SnapshotsKept /\ FilesTypeOK /\ \A t \in Saver : Written(t)
  BY DEF RuntimeInv, FilesInv
<1>3. \A b : Kept(b) =>
         (b # None => IsFiniteSet(b.paths) /\ Evidence(b.paths) \subseteq reported')
  BY <1>1 DEF Kept
<1>4. ASSUME UNCHANGED files, loading' \in {loading, None} \/ (file # None /\ loading' = file.body)
      PROVE  SnapshotsKept'
  BY <1>2, <1>3, <1>4 DEF SnapshotsKept, Kept, files
<1>5. ASSUME NEW t \in Saver, BeginSave(t) PROVE SnapshotsKept'
  <2> DEFINE new == encode(CurrentSnapshot)
  <2>1. IsFiniteSet(new.paths) /\ Evidence(new.paths) \subseteq reported
    BY CurrentIsSnapshot, PathsAreKept
  <2> HIDE DEF new
  <2>2. \A u \in Saver : save'[u].snapshot \in {save[u].snapshot, new}
    BY <1>2, <1>5 DEF BeginSave, StartSave, FilesTypeOK, new
  <2>3. UNCHANGED <<file, tmp, loading>>
    BY <1>5 DEF BeginSave, StartSave
  <2> QED
    BY <1>1, <1>2, <1>3, <2>1, <2>2, <2>3 DEF SnapshotsKept, Kept
<1>6. ASSUME NEW t \in Saver, SaveStep(t), UNCHANGED facade PROVE SnapshotsKept'
  <2> USE DEF MoveTo, At
  <2>1. /\ \A u \in Saver : save'[u].snapshot \in {save[u].snapshot, None}
        /\ loading' = loading
    BY <1>2, <1>6
    DEF SaveStep, OpenTmp, WriteHeader, WriteBody, RemoveOld, Rename, SaveFails, Idle, Call,
        FilesTypeOK, facade
  <2>2. file' \in {file, tmp, None}
    BY <1>6 DEF SaveStep, OpenTmp, WriteHeader, WriteBody, RemoveOld, Rename, SaveFails
  <2>3. tmp' # None => \/ tmp' = tmp
                       \/ tmp # None /\ tmp'.body = tmp.body
                       \/ tmp'.body \in {None, save[t].snapshot}
    <3>1. CASE WriteHeader(t)
      <4>1. tmp \in Contents
        BY <1>2, <3>1 DEF WriteHeader, Written, Writing
      <4>2. tmp # None
        BY <4>1, PersistenceAssumption DEF Contents, Block
      <4> QED
        BY <3>1, <4>1, <4>2 DEF WriteHeader, Contents
    <3>2. CASE WriteBody(t)
      <4>1. tmp \in Contents
        BY <1>2, <3>2 DEF WriteBody, Written, Writing
      <4> QED
        BY <3>2, <4>1 DEF WriteBody, Contents
    <3>3. CASE OpenTmp(t)
      BY <3>3 DEF OpenTmp, Whole
    <3>4. CASE RemoveOld(t) \/ Rename(t) \/ SaveFails(t)
      BY <3>4 DEF RemoveOld, Rename, SaveFails
    <3> QED
      BY <1>6, <3>1, <3>2, <3>3, <3>4 DEF SaveStep
  <2> QED
    BY <1>2, <1>3, <2>1, <2>2, <2>3 DEF SnapshotsKept, Kept
<1>7. ASSUME NEW e \in Epoch, NEW b \in Boot, SetAuthority(e, b) PROVE SnapshotsKept'
  BY <1>4, <1>7 DEF SetAuthority
<1>8. ASSUME NEW d \in Device, AddEndpoint(d) PROVE SnapshotsKept'
  BY <1>4, <1>8 DEF AddEndpoint
<1>9. ASSUME NEW machine \in Machine, DiscoverWindows(machine) PROVE SnapshotsKept'
  BY <1>4, <1>9 DEF DiscoverWindows
<1>10. ASSUME NEW r \in Report, IngestMeasurement(r) PROVE SnapshotsKept'
  BY <1>4, <1>10 DEF IngestMeasurement
<1>11. CASE BuildPaths \/ AgeFreshness \/ RefreshMeasured \/ LoadFile \/ InstallLoaded
  BY <1>4, <1>11 DEF BuildPaths, AgeFreshness, RefreshMeasured, LoadFile, LoadResult, InstallLoaded
<1>12. CASE Restart
  BY <1>2, <1>3, <1>12 DEF Restart, Crash, Idle, SnapshotsKept, Kept
<1> QED
  BY <1>5, <1>6, <1>7, <1>8, <1>9, <1>10, <1>11, <1>12 DEF Next

\* What an operation that leaves paths, nodes or measurements alone keeps of the
\* invariant.
LEMMA WhatStays ==
    ASSUME RuntimeInv, Next
    PROVE  /\ UNCHANGED <<paths, recovered>> =>
                 PathsOK(paths)' /\ RecoveredOK' /\ PathsAttested'
           /\ UNCHANGED measurements => MeasurementsOK'
           /\ UNCHANGED nodes => Hierarchy(nodes)'
<1>1. reported \subseteq reported'
  BY ReportsStay
<1>2. PathsOK(paths) /\ RecoveredOK /\ PathsAttested /\ MeasurementsOK /\ Hierarchy(nodes)
  BY DEF RuntimeInv
<1>3. ASSUME UNCHANGED <<paths, recovered>>
      PROVE  PathsOK(paths)' /\ RecoveredOK' /\ PathsAttested'
  BY <1>1, <1>2, <1>3 DEF PathsOK, RecoveredOK, PathsAttested, Attested
<1>4. ASSUME UNCHANGED measurements PROVE MeasurementsOK'
  BY <1>1, <1>2, <1>4 DEF MeasurementsOK
<1>5. ASSUME UNCHANGED nodes PROVE Hierarchy(nodes)'
  BY <1>2, <1>5
<1> QED
  BY <1>3, <1>4, <1>5

\* Every operation that changes paths leaves a map of paths, whose rates were
\* reported, and none of which is usable before it is rebuilt if it came from a
\* file.
LEMMA PathsStep ==
    ASSUME Encoded, RuntimeInv, Next
    PROVE  PathsOK(paths)' /\ RecoveredOK' /\ PathsAttested'
<1>1. reported \subseteq reported'
  BY ReportsStay
<1>2. PathsOK(paths) /\ RecoveredOK /\ PathsAttested /\ MeasurementsOK /\ Hierarchy(nodes)
  BY DEF RuntimeInv
<1>3. CASE BuildPaths
  <2>1. /\ \A p \in BuiltPaths : p \in Path /\ p.measured = None
        /\ IsFiniteSet(BuiltPaths)
    BY BuiltArePaths DEF RuntimeInv, AuthorityOK
  <2>2. /\ paths' = Assign(paths, BuiltPaths)
        /\ recovered' = recovered \ {p.id : p \in BuiltPaths}
    BY <1>3 DEF BuildPaths
  <2> DEFINE built == BuiltPaths
             ids == {p.id : p \in built}
  <2>3. /\ PathsOK(paths')
        /\ DOMAIN paths' = DOMAIN paths \cup ids
        /\ \A id \in DOMAIN paths' :
              \/ paths'[id] \in built
              \/ id \in DOMAIN paths /\ id \notin ids /\ paths'[id] = paths[id]
    <3> HIDE DEF built
    <3>1. built \subseteq Path /\ IsFiniteSet(built) /\ paths' = Assign(paths, built)
      BY <2>1, <2>2 DEF built
    <3>2. /\ PathsOK(Assign(paths, built))
          /\ DOMAIN Assign(paths, built) = DOMAIN paths \cup {p.id : p \in built}
          /\ \A id \in DOMAIN Assign(paths, built) :
                \/ Assign(paths, built)[id] \in built
                \/ /\ id \in DOMAIN paths /\ id \notin {p.id : p \in built}
                   /\ Assign(paths, built)[id] = paths[id]
      BY <1>2, <3>1, AssignKeeps, Zenon
    <3> QED
      BY <3>1, <3>2
  <2>4. \A id \in ids : id \notin recovered'
    BY <2>2
  <2>5. \A id \in recovered' : id \in DOMAIN paths' /\ id \in recovered /\ paths'[id] = paths[id]
    <3> SUFFICES ASSUME NEW id \in recovered'
                 PROVE  id \in DOMAIN paths' /\ id \in recovered /\ paths'[id] = paths[id]
      OBVIOUS
    <3>1. id \in recovered /\ id \notin ids /\ id \in DOMAIN paths
      BY <1>2, <2>2 DEF RecoveredOK
    <3>2. id \in DOMAIN paths'
      BY <2>3, <3>1
    <3>3. CASE paths'[id] \in built
      <4>1. paths'[id].id = id
        BY <2>3, <3>2 DEF PathsOK
      <4> QED
        BY <3>1, <3>3, <4>1
    <3> HIDE DEF ids, built
    <3> QED
      BY <2>3, <3>1, <3>2, <3>3
  <2>6. RecoveredOK'
    BY <1>2, <2>5 DEF RecoveredOK
  <2>7. PathsAttested'
    BY <1>1, <1>2, <2>1, <2>3 DEF PathsAttested, Attested
  <2> QED
    BY <2>3, <2>6, <2>7
<1>4. CASE AgeFreshness
  <2>1. /\ paths' = [id \in DOMAIN paths |-> Aged(paths[id])]
        /\ recovered' = recovered /\ reported' = reported
    BY <1>4 DEF AgeFreshness
  <2>2. \A id \in DOMAIN paths :
           /\ paths'[id] \in Path /\ paths'[id].id = id
           /\ paths[id].freshness \in Unusable => paths'[id].freshness \in Unusable
           /\ Attested(paths[id]) => Attested(paths'[id])
    BY <1>2, <2>1, AgedKeeps DEF PathsOK, Attested
  <2>3. DOMAIN paths' = DOMAIN paths
    BY <2>1
  <2> QED
    BY <1>2, <2>1, <2>2, <2>3 DEF PathsOK, RecoveredOK, PathsAttested, Attested
<1>5. CASE RefreshMeasured
  <2>1. /\ paths' = [id \in DOMAIN paths |-> WithEvidence(paths[id])]
        /\ recovered' = recovered /\ reported' = reported
    BY <1>5 DEF RefreshMeasured
  <2>2. \A id \in DOMAIN paths : paths[id] \in Path /\ paths[id].id = id /\ Attested(paths[id])
    BY <1>2 DEF PathsOK, PathsAttested
  <2>3. \A id \in DOMAIN paths :
           /\ paths'[id] \in Path /\ paths'[id].id = id
           /\ paths'[id].freshness = paths[id].freshness
           /\ Attested(paths'[id])
    BY <1>2, <2>1, <2>2, WithEvidenceKeeps
  <2>4. DOMAIN paths' = DOMAIN paths
    BY <2>1
  <2> QED
    BY <1>2, <2>1, <2>3, <2>4 DEF PathsOK, RecoveredOK, PathsAttested, Attested
<1>6. CASE InstallLoaded
  <2> DEFINE ps == {Revalidated(p) : p \in loading.paths}
  <2>1. loading \in SnapshotRecord /\ Kept(loading) /\ loading # None
    BY <1>6 DEF InstallLoaded, RuntimeInv, SnapshotsKept, AuthorityOK, Encoded
  <2>2. /\ loading.paths \subseteq Path /\ IsFiniteSet(loading.paths)
        /\ Evidence(loading.paths) \subseteq reported
    BY <2>1 DEF SnapshotRecord, Kept
  <2>3. \A p \in loading.paths : Attested(p)
    BY <2>2, EvidenceIsAttested
  <2>4. \A q \in ps : q \in Path /\ q.freshness \in Unusable /\ Attested(q)
    <3>1. ASSUME NEW p \in loading.paths
          PROVE  LET q == Revalidated(p)
                 IN  q \in Path /\ q.freshness \in Unusable /\ Attested(q)
      <4>1. p \in Path /\ Attested(p)
        BY <2>2, <2>3
      <4> QED
        BY <4>1, RevalidatedKeeps DEF Attested
    <3> QED
      BY <3>1
  <2>5. {q.id : q \in ps} = {p.id : p \in loading.paths}
    BY <2>2, RevalidatedKeeps
  <2>6. IsFiniteSet(ps)
    <3> DEFINE f == [p \in loading.paths |-> Revalidated(p)]
    <3>1. ps = {f[p] : p \in loading.paths}
      OBVIOUS
    <3> HIDE DEF f, ps
    <3> QED
      BY <2>2, <3>1, ImageIsFinite
  <2>7. DOMAIN Empty = {} /\ PathsOK(Empty)
    BY FS_EmptySet DEF Empty, PathsOK
  <2>8. /\ paths' = Assign(Empty, ps) /\ recovered' = {p.id : p \in loading.paths}
        /\ reported' = reported
    BY <1>6 DEF InstallLoaded
  <2> HIDE DEF ps
  <2>9. /\ PathsOK(paths') /\ DOMAIN paths' = {q.id : q \in ps}
        /\ \A id \in DOMAIN paths' : paths'[id] \in ps
    <3>1. ps \subseteq Path
      BY <2>4
    <3>2. /\ PathsOK(Assign(Empty, ps))
          /\ DOMAIN Assign(Empty, ps) = DOMAIN Empty \cup {q.id : q \in ps}
          /\ \A id \in DOMAIN Assign(Empty, ps) :
                \/ Assign(Empty, ps)[id] \in ps
                \/ /\ id \in DOMAIN Empty /\ id \notin {q.id : q \in ps}
                   /\ Assign(Empty, ps)[id] = Empty[id]
      BY <2>6, <2>7, <3>1, AssignKeeps, Zenon
    <3> HIDE DEF Empty
    <3> QED
      BY <2>7, <2>8, <3>2
  <2>10. RecoveredOK'
    BY <2>4, <2>5, <2>8, <2>9 DEF RecoveredOK
  <2>11. PathsAttested'
    BY <2>4, <2>8, <2>9 DEF PathsAttested, Attested
  <2> QED
    BY <2>9, <2>10, <2>11
<1>7. CASE Restart
  <2>1. DOMAIN paths' = {} /\ recovered' = {}
    BY <1>7 DEF Restart, Empty
  <2> QED
    BY <2>1, FS_EmptySet DEF PathsOK, RecoveredOK, PathsAttested
<1>8. ASSUME NEW e \in Epoch, NEW b \in Boot, SetAuthority(e, b)
      PROVE  UNCHANGED <<paths, recovered>>
  BY <1>8 DEF SetAuthority
<1>9. ASSUME NEW d \in Device, AddEndpoint(d) PROVE UNCHANGED <<paths, recovered>>
  BY <1>9 DEF AddEndpoint
<1>10. ASSUME NEW m \in Machine, DiscoverWindows(m) PROVE UNCHANGED <<paths, recovered>>
  BY <1>10 DEF DiscoverWindows
<1>11. ASSUME NEW r \in Report, IngestMeasurement(r) PROVE UNCHANGED <<paths, recovered>>
  BY <1>11 DEF IngestMeasurement
<1>12. ASSUME NEW t \in Saver, BeginSave(t) \/ (SaveStep(t) /\ UNCHANGED facade)
       PROVE  UNCHANGED <<paths, recovered>>
  BY <1>12 DEF BeginSave, facade
<1>13. CASE LoadFile
  BY <1>13, WhatStays DEF LoadFile
<1> QED
  BY <1>3, <1>4, <1>5, <1>6, <1>7, <1>8, <1>9, <1>10, <1>11, <1>12, <1>13, WhatStays DEF Next

\* Every operation leaves a well-formed hierarchy: endpoints that are added, what
\* Windows reports, and the one node a file can bring back.
LEMMA HierarchyStep ==
    ASSUME Encoded, RuntimeInv, Next
    PROVE  Hierarchy(nodes)'
<1>1. Hierarchy(nodes)
  BY DEF RuntimeInv
<1>2. ASSUME NEW d \in Device, AddEndpoint(d) PROVE Hierarchy(nodes')
  <2>1. /\ d.id \in NodeId /\ d.bdf \in Address /\ d.kind \in DeviceClass
        /\ nodes' = T!WithNode(nodes, d.id, d.bdf, d.kind, 1, d.parent)
    BY <1>2, RuntimeAssumption DEF AddEndpoint, T!AddAttached
  <2> QED
    BY <1>1, <2>1, WithNodeKeeps
<1>3. ASSUME NEW machine \in Machine, DiscoverWindows(machine) PROVE Hierarchy(nodes')
  <2>1. nodes' \in Discovered[machine]
    BY <1>3 DEF DiscoverWindows
  <2> QED
    BY <2>1, DiscoveredIsHierarchy
<1>4. CASE InstallLoaded
  <2>1. nodes' = RestoredNodes(loading.nodes) /\ loading.nodes \subseteq Node
    BY <1>4 DEF InstallLoaded, RuntimeInv, AuthorityOK, Encoded, SnapshotRecord
  <2>2. CASE loading.nodes = {}
    BY <2>1, <2>2, EmptyHierarchy DEF RestoredNodes
  <2>3. CASE loading.nodes # {}
    <3> DEFINE n == CHOOSE x \in loading.nodes : TRUE
               parent == IF n.parent = None THEN 0 ELSE n.parent
    <3>1. n \in Node
      BY <2>1, <2>3
    <3>2. n.bdf \in Address /\ n.kind \in DeviceClass /\ n.generation \in Nat
      BY <3>1 DEF Node
    <3>3. 0 \in NodeId
      BY RuntimeAssumption DEF NodeId
    <3>4. nodes' = T!WithNode(Empty, 0, n.bdf, n.kind, n.generation, parent)
      BY <2>1, <2>3 DEF RestoredNodes
    <3> HIDE DEF n, parent
    <3> QED
      BY <3>2, <3>3, <3>4, EmptyHierarchy, WithNodeKeeps
  <2> QED
    BY <2>2, <2>3
<1>5. CASE Restart
  BY <1>5, EmptyHierarchy DEF Restart
<1>6. ASSUME NEW e \in Epoch, NEW b \in Boot, SetAuthority(e, b) PROVE UNCHANGED nodes
  BY <1>6 DEF SetAuthority
<1>7. ASSUME NEW r \in Report, IngestMeasurement(r) PROVE UNCHANGED nodes
  BY <1>7 DEF IngestMeasurement
<1>8. ASSUME NEW t \in Saver, BeginSave(t) \/ (SaveStep(t) /\ UNCHANGED facade)
      PROVE  UNCHANGED nodes
  BY <1>8 DEF BeginSave, facade
<1>9. CASE BuildPaths \/ AgeFreshness \/ RefreshMeasured \/ LoadFile
  <2>1. UNCHANGED nodes
    BY <1>9 DEF BuildPaths, AgeFreshness, RefreshMeasured, LoadFile
  <2> QED
    BY <2>1, WhatStays
<1> QED
  BY <1>2, <1>3, <1>4, <1>5, <1>6, <1>7, <1>8, <1>9, WhatStays DEF Next

\* Every measurement kept was reported, and a report counts as such when it is
\* stored (MeasurementStore::ingest).
LEMMA MeasurementsStep ==
    ASSUME RuntimeInv, Next
    PROVE  MeasurementsOK'
<1>1. ASSUME NEW r \in Report, IngestMeasurement(r) PROVE MeasurementsOK'
  <2>1. /\ measurements' = [x \in DOMAIN measurements \cup {r.id} |->
                               IF x = r.id THEN r ELSE measurements[x]]
        /\ reported' = reported \cup {<<r.source, r.destination, r.rate>>}
    BY <1>1 DEF IngestMeasurement
  <2>2. MeasurementsOK
    BY DEF RuntimeInv
  <2>3. DOMAIN measurements' = DOMAIN measurements \cup {r.id} /\ r.id \in Nat
    BY <2>1, RuntimeAssumption DEF Measurement
  <2>4. IsFiniteSet(DOMAIN measurements')
    <3>1. IsFiniteSet(DOMAIN measurements)
      BY <2>2 DEF MeasurementsOK
    <3> QED
      BY <2>3, <3>1, FS_AddElement
  <2>5. ASSUME NEW id \in DOMAIN measurements'
        PROVE  LET q == measurements'[id] IN
               q \in Report /\ <<q.source, q.destination, q.rate>> \in reported'
    <3>1. CASE id = r.id
      BY <2>1, <3>1
    <3>2. CASE id # r.id
      <4>1. id \in DOMAIN measurements /\ measurements'[id] = measurements[id]
        BY <2>1, <2>3, <3>2
      <4> QED
        BY <2>1, <2>2, <4>1 DEF MeasurementsOK
    <3> QED
      BY <3>1, <3>2
  <2> QED
    BY <2>2, <2>3, <2>4, <2>5 DEF MeasurementsOK
<1>2. CASE Restart
  <2>1. DOMAIN measurements' = {}
    BY <1>2 DEF Restart, Empty
  <2> QED
    BY <2>1, FS_EmptySet DEF MeasurementsOK
<1>3. ASSUME NEW e \in Epoch, NEW b \in Boot, SetAuthority(e, b) PROVE UNCHANGED measurements
  BY <1>3 DEF SetAuthority
<1>4. ASSUME NEW d \in Device, AddEndpoint(d) PROVE UNCHANGED measurements
  BY <1>4 DEF AddEndpoint
<1>5. ASSUME NEW m \in Machine, DiscoverWindows(m) PROVE UNCHANGED measurements
  BY <1>5 DEF DiscoverWindows
<1>6. ASSUME NEW t \in Saver, BeginSave(t) \/ (SaveStep(t) /\ UNCHANGED facade)
      PROVE  UNCHANGED measurements
  BY <1>6 DEF BeginSave, facade
<1>7. CASE BuildPaths \/ AgeFreshness \/ RefreshMeasured \/ LoadFile \/ InstallLoaded
  <2>1. UNCHANGED measurements
    BY <1>7 DEF BuildPaths, AgeFreshness, RefreshMeasured, LoadFile, InstallLoaded
  <2> QED
    BY <2>1, WhatStays
<1> QED
  BY <1>1, <1>2, <1>3, <1>4, <1>5, <1>6, <1>7, WhatStays DEF Next

\* The authority comes from callers or a file, and what load reads is a snapshot.
LEMMA AuthorityStep ==
    ASSUME Encoded, RuntimeInv, Next
    PROVE  AuthorityOK'
<1>1. AuthorityOK /\ FilesTypeOK
  BY DEF RuntimeInv, FilesInv
<1>2. ops' \in 0 .. MaxOps
  <2>1. ops' = ops \/ Counted
    <3>1. ASSUME NEW e \in Epoch, NEW b \in Boot, SetAuthority(e, b) PROVE Counted
      BY <3>1 DEF SetAuthority
    <3>2. ASSUME NEW d \in Device, AddEndpoint(d) PROVE Counted
      BY <3>2 DEF AddEndpoint
    <3>3. ASSUME NEW m \in Machine, DiscoverWindows(m) PROVE Counted
      BY <3>3 DEF DiscoverWindows
    <3>4. ASSUME NEW r \in Report, IngestMeasurement(r) PROVE Counted
      BY <3>4 DEF IngestMeasurement
    <3>5. ASSUME NEW t \in Saver, BeginSave(t) \/ (SaveStep(t) /\ UNCHANGED facade)
          PROVE  ops' = ops \/ Counted
      BY <3>5 DEF BeginSave, facade
    <3>6. CASE BuildPaths \/ AgeFreshness \/ RefreshMeasured \/ LoadFile
      BY <3>6 DEF BuildPaths, AgeFreshness, RefreshMeasured, LoadFile
    <3>7. CASE InstallLoaded \/ Restart
      BY <3>7 DEF InstallLoaded, Restart
    <3> QED
      BY <3>1, <3>2, <3>3, <3>4, <3>5, <3>6, <3>7 DEF Next
  <2> QED
    BY <1>1, <2>1, RuntimeAssumption DEF AuthorityOK, Counted
<1>3. ASSUME UNCHANGED <<epoch, boot, loading>> PROVE AuthorityOK'
  BY <1>1, <1>2, <1>3 DEF AuthorityOK
<1>4. ASSUME NEW e \in Epoch, NEW b \in Boot, SetAuthority(e, b) PROVE AuthorityOK'
  BY <1>1, <1>2, <1>4 DEF SetAuthority, AuthorityOK, AnyEpoch, AnyBoot
<1>5. CASE LoadFile
  <2>1. loading' \in Snapshot
    <3>1. LoadResult(file) = "OK" /\ loading' = file.body
      BY <1>5 DEF LoadFile
    <3>2. file # None /\ file.body # None
      BY <3>1 DEF LoadResult
    <3> QED
      BY <1>1, <3>1, <3>2 DEF FilesTypeOK, Contents, Block
  <2> QED
    BY <1>1, <1>2, <1>5, <2>1 DEF LoadFile, AuthorityOK
<1>6. CASE InstallLoaded
  <2>1. loading.epoch \in AnyEpoch
    BY <1>1, <1>6 DEF InstallLoaded, AuthorityOK, Encoded, SnapshotRecord
  <2> QED
    BY <1>1, <1>2, <1>6, <2>1 DEF InstallLoaded, AuthorityOK
<1>7. CASE Restart
  BY <1>2, <1>7 DEF Restart, AuthorityOK, AnyEpoch, AnyBoot
<1>8. ASSUME NEW d \in Device, AddEndpoint(d) PROVE AuthorityOK'
  BY <1>3, <1>8 DEF AddEndpoint
<1>9. ASSUME NEW m \in Machine, DiscoverWindows(m) PROVE AuthorityOK'
  BY <1>3, <1>9 DEF DiscoverWindows
<1>10. ASSUME NEW r \in Report, IngestMeasurement(r) PROVE AuthorityOK'
  BY <1>3, <1>10 DEF IngestMeasurement
<1>11. ASSUME NEW t \in Saver, BeginSave(t) \/ (SaveStep(t) /\ UNCHANGED facade) PROVE AuthorityOK'
  BY <1>3, <1>11 DEF BeginSave, facade
<1>12. CASE BuildPaths \/ AgeFreshness \/ RefreshMeasured
  BY <1>3, <1>12 DEF BuildPaths, AgeFreshness, RefreshMeasured
<1> QED
  BY <1>4, <1>5, <1>6, <1>7, <1>8, <1>9, <1>10, <1>11, <1>12 DEF Next

\* Every operation of the runtime preserves the invariant.
LEMMA RuntimeStep ==
    ASSUME Encoded, RuntimeInv, [Next]_vars
    PROVE  RuntimeInv'
<1>1. CASE Next
  <2>1. FilesInv'
    BY <1>1, FilesMove, FilesStep DEF RuntimeInv
  <2> QED
    BY <1>1, <2>1, SnapshotsStep, PathsStep, HierarchyStep, MeasurementsStep, AuthorityStep
    DEF RuntimeInv
<1>2. CASE UNCHANGED vars
  <2>1. [FilesNext]_files
    BY <1>2 DEF vars
  <2>2. FilesInv'
    BY <2>1, FilesStep DEF RuntimeInv
  <2>3. SnapshotsKept' /\ AuthorityOK'
    BY <1>2 DEF vars, files, facade, RuntimeInv, SnapshotsKept, Kept, AuthorityOK
  <2>4. Hierarchy(nodes)' /\ PathsOK(paths)' /\ MeasurementsOK'
    BY <1>2 DEF vars, facade, RuntimeInv, MeasurementsOK
  <2>5. RecoveredOK' /\ PathsAttested'
    BY <1>2 DEF vars, facade, RuntimeInv, RecoveredOK, PathsAttested, Attested
  <2> QED
    BY <2>2, <2>3, <2>4, <2>5 DEF RuntimeInv
<1> QED
  BY <1>1, <1>2

-----------------------------------------------------------------------------
(* What follows *)

\* A path that came from a file is not the one select chooses, whatever the
\* request asks for.
LEMMA RecoveredNotChosen ==
    ASSUME RuntimeInv, NEW src, NEW dst, NEW req
    PROVE  S!Select(Candidates(src, dst), req).selected \notin recovered
<1> DEFINE here == {q \in Range(paths) : q.source = src /\ q.destination = dst}
           f == [p \in here |->
                    [capabilities |-> {}, theoretical |-> None, contention |-> "UNKNOWN",
                     confidence |-> 0, id |-> p.id, source |-> p.source,
                     destination |-> p.destination, locality |-> p.locality, epoch |-> p.epoch,
                     boot |-> p.boot, freshness |-> p.freshness, measured |-> p.measured]]
           cs == Candidates(src, dst)
<1>1. cs = {f[p] : p \in here}
  BY DEF Candidates
<1>2. PathsOK(paths) /\ RecoveredOK /\ IsFiniteSet(Range(paths))
  BY PathsAreKept DEF RuntimeInv
<1>3. \A p \in here : p \in Path /\ p.id \in DOMAIN paths /\ p = paths[p.id]
  BY <1>2 DEF PathsOK, Range
<1>4. \A p \in here : f[p].id = p.id /\ f[p].freshness = p.freshness
  OBVIOUS
<1>5. \A p \in here : f[p] \in SP!Candidate
  <2> SUFFICES ASSUME NEW p \in here PROVE f[p] \in SP!Candidate
    OBVIOUS
  <2>1. p \in Path
    BY <1>3
  <2>2. /\ p.id \in Nat /\ p.source \in Nat /\ p.destination \in Nat /\ p.epoch \in Nat
        /\ p.boot \in Nat
    <3>1. AnyEpoch \subseteq Nat /\ AnyBoot \subseteq Nat /\ NodeId \subseteq Nat
      BY RuntimeAssumption DEF AnyEpoch, AnyBoot, NodeId
    <3> QED
      BY <2>1, <3>1 DEF Path
  <2>3. p.measured \in Nat \cup {None}
    <3>1. \A r \in Report : r.rate \in Nat
      BY RuntimeAssumption DEF Measurement
    <3>2. p.measured \in Rates \cup {None}
      BY <2>1 DEF Path
    <3> QED
      BY <3>1, <3>2 DEF Rates
  <2>4. p.locality \in S!Locality /\ p.freshness \in S!Freshness
    BY <2>1 DEF Path
  <2> QED
    BY <2>2, <2>3, <2>4
    DEF SP!Candidate, SP!Locality, SP!Freshness, SP!Contention, S!Locality, S!Freshness
<1>6. IsFiniteSet(here)
  BY <1>2, FS_Subset
<1> HIDE DEF f, here
<1>7. IsFiniteSet(cs)
  BY <1>1, <1>6, ImageIsFinite
<1>8. cs \in SUBSET SP!Candidate
  BY <1>1, <1>5
<1>9. SP!DistinctIds(cs)
  BY <1>1, <1>3, <1>4 DEF SP!DistinctIds
<1>10. None \notin recovered
  BY <1>2, RuntimeAssumption DEF RecoveredOK, PathsOK, Path
<1>11. ASSUME NEW c \in cs, S!Fresh(c) PROVE c.id \notin recovered
  <2>1. PICK p \in here : c = f[p]
    BY <1>1
  <2>2. p.freshness \notin Unusable
    BY <1>4, <1>11, <2>1 DEF S!Fresh, Unusable
  <2>3. p = paths[p.id] /\ c.id = p.id
    BY <1>3, <1>4, <2>1
  <2> QED
    BY <1>2, <2>2, <2>3 DEF RecoveredOK
<1>12. \/ S!Select(cs, req).selected = None
       \/ \E c \in cs : S!Fresh(c) /\ S!Select(cs, req).selected = c.id
  <2> HIDE DEF cs
  <2> QED
    BY <1>7, <1>8, <1>9, SelectedIsFresh
<1> QED
  BY <1>10, <1>11, <1>12

\* Positions of another pair give another id (build_paths numbers the pairs of n
\* endpoints row by row).
LEMMA PairIdsDiffer ==
    ASSUME NEW n \in Nat, NEW i \in 1 .. n, NEW j \in 1 .. n, NEW k \in 1 .. n, NEW l \in 1 .. n,
           PairId(n, i, j) = PairId(n, k, l)
    PROVE  i = k /\ j = l
<1>1. \A x, y \in 1 .. n : x < y => (x - 1) * n + n <= (y - 1) * n
  <2> SUFFICES ASSUME NEW x \in 1 .. n, NEW y \in 1 .. n, x < y
               PROVE  (x - 1) * n + n <= (y - 1) * n
    OBVIOUS
  <2>1. (x - 1) * n + n = x * n
    OBVIOUS
  <2>2. x * n <= (y - 1) * n
    OBVIOUS
  <2> QED
    BY <2>1, <2>2
<1>2. (i - 1) * n \in Int /\ (k - 1) * n \in Int
  OBVIOUS
<1>3. ~(i < k) /\ ~(k < i)
  BY <1>1, <1>2 DEF PairId
<1> QED
  BY <1>2, <1>3 DEF PairId

\* After build_paths, the id of every pair of endpoints holds the path between
\* them, built under the present authority.
LEMMA PairsAreBuilt ==
    ASSUME RuntimeInv, BuildPaths, NEW ij \in Pairs(Endpoints(nodes))
    PROVE  \E p \in Range(paths') :
              /\ p.source = Endpoints(nodes)[ij[1]] /\ p.destination = Endpoints(nodes)[ij[2]]
              /\ p.freshness = "CURRENT" /\ p.epoch = epoch /\ p.boot = boot
<1> DEFINE eps == Endpoints(nodes)
           n == Len(eps)
           id == PairId(n, ij[1], ij[2])
           q == build_path(id, eps[ij[1]], eps[ij[2]])
<1>1. /\ n \in 0 .. (MaxId + 1) /\ DOMAIN eps = 1 .. n /\ DOMAIN nodes \subseteq NodeId
      /\ \A i \in DOMAIN eps : eps[i] \in DOMAIN nodes
  BY EndpointsAreLive DEF RuntimeInv, Hierarchy
<1>2. n \in Nat /\ ij[1] \in 1 .. n /\ ij[2] \in 1 .. n
  BY <1>1, RuntimeAssumption DEF Pairs
<1>3. q \in BuiltPaths
  BY DEF BuiltPaths
<1>4. q.id = id
  BY DEF build_path
<1>5. ASSUME NEW p \in BuiltPaths, p.id = id PROVE p = q
  <2>1. CASE \E kl \in Pairs(eps) : p = build_path(PairId(n, kl[1], kl[2]), eps[kl[1]], eps[kl[2]])
    <3>1. PICK kl \in Pairs(eps) :
              p = build_path(PairId(n, kl[1], kl[2]), eps[kl[1]], eps[kl[2]])
      BY <2>1
    <3>2. kl[1] \in 1 .. n /\ kl[2] \in 1 .. n
      BY <1>1 DEF Pairs
    <3>3. PairId(n, kl[1], kl[2]) = PairId(n, ij[1], ij[2])
      BY <1>5, <3>1 DEF build_path
    <3>4. kl[1] = ij[1] /\ kl[2] = ij[2]
      <4> HIDE DEF n
      <4> QED
        BY <1>2, <3>2, <3>3, PairIdsDiffer
    <3> QED
      BY <3>1, <3>4
  <2>2. CASE \E e \in Range(eps) : p = build_path(HostBase + e, e, T!RootComplexOf(nodes, e))
    <3>1. PICK e \in Range(eps) : p = build_path(HostBase + e, e, T!RootComplexOf(nodes, e))
      BY <2>2
    <3>2. e \in NodeId
      BY <1>1 DEF Range
    <3>3. p.id = HostBase + e
      BY <3>1 DEF build_path
    <3>4. id \in Nat /\ id < HostBase
      <4> HIDE DEF n
      <4> QED
        BY <1>1, <1>2, PairIdIsSmall
    <3> QED
      BY <1>5, <3>2, <3>3, <3>4, RuntimeAssumption DEF NodeId
  <2> QED
    BY <2>1, <2>2 DEF BuiltPaths
<1> HIDE DEF q, id
<1>6. paths' = Assign(paths, BuiltPaths)
  BY DEF BuildPaths
<1>7. id \in DOMAIN paths' /\ paths'[id] = q
  <2>1. id \in DOMAIN paths \cup {p.id : p \in BuiltPaths}
    BY <1>3, <1>4
  <2>2. (CHOOSE p \in BuiltPaths : p.id = id) = q
    BY <1>3, <1>4, <1>5
  <2> QED
    BY <1>3, <1>4, <1>6, <2>1, <2>2 DEF Assign
<1>8. q \in Range(paths')
  BY <1>7 DEF Range
<1>9. /\ q.source = eps[ij[1]] /\ q.destination = eps[ij[2]]
      /\ q.freshness = "CURRENT" /\ q.epoch = epoch /\ q.boot = boot
  BY DEF q, build_path
<1> QED
  BY <1>8, <1>9

\* The invariant holds for ever, in any sequence of operations, saves, loads and
\* deaths of the process, whether calls of save overlap or not.
THEOREM RuntimeInvHolds ==
    ASSUME Encoded
    PROVE  Spec => []RuntimeInv
<1>1. Init => RuntimeInv
  BY RuntimeInitInv
<1>2. RuntimeInv /\ [Next]_vars => RuntimeInv'
  BY RuntimeStep
<1> QED
  BY <1>1, <1>2, PTL DEF Spec

\* Every map of the runtime holds what its type says, whatever was added,
\* discovered, built, measured or loaded before (Runtime).
THEOREM RuntimeTypeCorrect ==
    ASSUME Encoded
    PROVE  Spec => []TypeOK
<1>1. RuntimeInv => TypeOK
  <2> SUFFICES ASSUME RuntimeInv PROVE TypeOK
    OBVIOUS
  <2>1. DOMAIN nodes \subseteq NodeId /\ Range(nodes) \subseteq Node
    BY DEF RuntimeInv, Hierarchy, Range
  <2>2. Range(measurements) \subseteq Report
    BY DEF RuntimeInv, MeasurementsOK, Range
  <2> QED
    BY <2>1, <2>2 DEF RuntimeInv, PathsOK, AuthorityOK, RecoveredOK, TypeOK
<1> QED
  BY <1>1, RuntimeInvHolds, PTL

\* A rate a path advertises was reported for the ids of its two ends, also when
\* path ids moved to other pairs, a newer report replaced it or the path came from
\* a file (build_paths, refresh_measured_bandwidth, load).  It says nothing of the
\* devices: discover_windows gives their ids to others.
THEOREM MeasuredIsEvidenceAlways ==
    ASSUME Encoded
    PROVE  Spec => []MeasuredIsEvidence
<1>1. RuntimeInv => MeasuredIsEvidence
  BY PathsAreKept DEF MeasuredIsEvidence
<1> QED
  BY <1>1, RuntimeInvHolds, PTL

\* select gives nobody a path that came from a file before build_paths has made
\* it anew (mark_physical_revalidation_required, age_freshness, select).
THEOREM RecoveredIsNotSelectedAlways ==
    ASSUME Encoded
    PROVE  Spec => []RecoveredIsNotSelected
<1>1. RuntimeInv => RecoveredIsNotSelected
  BY RecoveredNotChosen DEF RecoveredIsNotSelected, Decide
<1> QED
  BY <1>1, RuntimeInvHolds, PTL

\* Also with all the runtime's operations between them, a save that met no other
\* publishes a whole snapshot, and the name keeps it (Runtime::save).
THEOREM RuntimePublishesWhole ==
    ASSUME Encoded
    PROVE  Spec => [](PublishedIsWhole /\ SavedIsPublished)
<1>1. RuntimeInv => PublishedIsWhole /\ SavedIsPublished
  BY WholeLoads DEF RuntimeInv, FilesInv, FileIsWhole, PublishedIsWhole
<1> QED
  BY <1>1, RuntimeInvHolds, PTL

\* Ids computed from list positions never collide: after build_paths every pair
\* of endpoints has a current path of the current authority.
THEOREM EveryPairIsBuiltAlways ==
    ASSUME Encoded
    PROVE  Spec => EveryPairIsBuilt
<1> DEFINE Made ==
        BuildPaths =>
          LET eps == Endpoints(nodes) IN
          \A ij \in Pairs(eps) : \E p \in Range(paths') :
              /\ p.source = eps[ij[1]] /\ p.destination = eps[ij[2]]
              /\ p.freshness = "CURRENT" /\ p.epoch = epoch /\ p.boot = boot
<1>1. RuntimeInv => [Made]_vars
  BY PairsAreBuilt
<1> QED
  BY <1>1, RuntimeInvHolds, PTL DEF EveryPairIsBuilt

\* When buses are numbered from the root and addresses differ, discover_windows
\* finds every device with a valid address and hangs each under the one Windows
\* names as its parent, whichever order SetupAPI listed them in.
THEOREM HierarchyIsTheMachinesAlways == Spec => HierarchyIsTheMachines
<1> DEFINE Found ==
        \A machine \in Machine :
          DiscoverWindows(machine) /\ NumberedFromRoot(machine) /\ AddressesDiffer(machine) =>
              LET found == {d \in D!PciInstances(machine) : A!valid(D!BdfOf(d))}
                  at(bdf) == CHOOSE id \in DOMAIN nodes' : nodes'[id].bdf = bdf
              IN  /\ {nodes'[id].bdf : id \in DOMAIN nodes'} = {D!BdfOf(d) : d \in found}
                  /\ \A d \in found :
                        LET n == nodes'[at(D!BdfOf(d))]
                            parent == D!ParentBdf(machine, d)
                        IN  n.parent = IF parent = None THEN None ELSE at(parent)
<1>1. Found
  <2> SUFFICES ASSUME NEW machine \in Machine, DiscoverWindows(machine),
                      NumberedFromRoot(machine), AddressesDiffer(machine)
               PROVE  IsTheMachines(nodes', machine)
    BY DEF IsTheMachines, NodeAt
  <2>1. nodes' \in Discovered[machine]
    BY DEF DiscoverWindows
  <2> QED
    BY <2>1, DiscoveredIsTheMachines
<1> QED
  BY <1>1, PTL DEF HierarchyIsTheMachines
=============================================================================
