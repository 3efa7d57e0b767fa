# PCIe Fabric in TLA+

Specifications of the PCIe Fabric runtime (`include/pciefabric`, `src/pciefabric`),
TLC configurations that model-check them on small instances, and proofs checked by
TLAPS. `PROJECT.json` maps every definition to the source lines it models.

## The system

PCIe Fabric keeps facts about a PCIe hierarchy (nodes, paths, measurements) and a
ledger of path reservations. A *coordinator* process owns the shared copy; *workers*
publish to it and reserve through it over framed TCP. A local *runtime* facade
composes the same parts in one process.

| Component | State | Operations | Hard part |
|---|---|---|---|
| `ReservationRegistry` | reservations by id, reserved bytes by path, ceiling | `reserve`, `release`, `set_limits`, `validate_accounting` | counter kept incrementally beside the reservations; fences; 64-bit sums that wrap |
| `Coordinator` | epoch, workers, topology, paths, measurements, registry, one thread per connection | accept loop, one handler per frame kind, `advance_epoch`, `revalidate_all`, stop and destruction | threads share state under three mutexes; answers are written after locks are dropped; frames outlive the worker that sent them |
| `Worker` | identity, boot, epoch last seen, socket | one blocking request per operation, `close`; death and restart under a new boot | ACKs name no request; no timeout |
| `MeasurementStore` | measurement by id | `ingest` | generation fence under concurrent reports |
| `Topology` | nodes by id, id counter | add root complex, bridge, endpoint; attach, remove, bump; ancestors, common ancestor, path, locality, validate | tombstones, reused addresses, moves, cycles |
| `Path`, `build_path` | authority, freshness, structure of a path | built from the topology | authority is a copy that goes stale |
| `persist` | snapshot file and its temporary | `save`, `load`, encode and decode | crash between remove and rename; two saves on one temporary file; what a round trip loses |
| `PathSelector` | none | `rank`, `select` | comparator must be an order |
| `Runtime` | all of the above behind one lock | build paths, age, select, reserve, save, load | recovery; path ids that depend on list positions, node ids that depend on the discovery |
| TCP transport, frames | bytes in flight, the part of a frame collected so far | `write_frame`, `read_frame`, `close` | short writes and reads, close, death or damage in the middle of a frame; where reading goes on after an error |
| Codec | the position in a stream | `serialize`, `deserialize`, one reader and writer for each payload | encoders and decoders are written apart; streams that end early or were changed |
| `Bdf` | an address | order, canonical text, `parse` | ranges; two forms of text |
| Windows discovery | none | enumerate devices, build a hierarchy from them | devices that share an address, parents found too late |
| CUDA engine | events, pinned and device memory, the last error of the CUDA runtime | `run_proof` | every call may fail and every vector throw, many answers are dropped, sizes become an `int` |
| CLI, examples, benchmarks | none | call the library | not modelled |

Interactions: workers call the coordinator by frames and wait for an ACK; connection
threads call the registry and the measurement store, which lock themselves, and
touch `workers_`, `topology_` and `paths_` under the coordinator's `mu_`. Frames are
bytes on a TCP stream; their payloads, and the snapshot file, are written and read by
one codec. The runtime takes its hierarchy from Windows discovery. The
coordinator's owner advances epochs, revalidates, stops and destroys it. There are no
callbacks.

What makes each part correct:

- the registry: the counters equal the reservations they sum, reservations never
  grow past the ceiling, exactly the holder can release and exactly once, ids are
  spent for good;
- coordinator and workers: answers reach the request they answer, a granted
  reservation stays granted, what was told to be stored is stored, no path is rolled
  back, nothing of a dead boot changes current state, requests return and threads end;
- the topology: every parent lists its child, one live node for each address,
  identities last, no cycles, paths do not depend on direction;
- persistence: what lies under the name is always one whole snapshot, and the last one
  that was saved;
- the runtime: nothing recovered is used before it is made anew, a rate stays with the
  devices it was measured on, every pair of endpoints gets a path;
- transport: frames are read as they were written, in order, whatever happens to the
  pieces they are sent in, none is made up, and they arrive;
- codec: what is written is read back, and what is cut, extended or out of range is refused;
- discovery: the hierarchy is the one Windows reports;
- the CUDA engine: everything taken is given back, and a result means what it says;
- selection: the comparator is a strict order without ties, and a decision accounts for
  every candidate.

Not all of this is so: *Where the code departs from its documentation*, below, lists what is
not, each point with the configuration that shows it.

## Modules

| Module | Models |
|---|---|
| `Reservations` | `ReservationRegistry`; one action for each operation, split into its accepted and refused outcomes |
| `ReservationProofs` | theorems about `Reservations` |
| `Coordinator` | coordinator threads, workers, connections; instantiates `Reservations` as its registry |
| `CoordinatorProofs` | theorems about `Coordinator` |
| `Topology` | the hierarchy store; operations as actions, queries as operators |
| `TopologyProofs` | theorems about `Topology` |
| `Selection` | `PathSelector`: comparator and decision as operators without state |
| `SelectionProofs` | theorems about `Selection` |
| `Persistence` | `save` and `load` of a snapshot file, with failures and crashes |
| `Runtime` | the facade: extends `Persistence`, instantiates `Topology`, `Selection`, `Discovery` and `Bdf` |
| `RuntimeProofs` | theorems about `Persistence` and `Runtime` |
| `FrameChannel` | abstract: what a connection promises, a queue of whole frames |
| `Transport` | `send_all`, `recv_some`, `write_frame`, `read_frame` byte by byte; implements `FrameChannel` |
| `TransportProofs` | theorems about `Transport` |
| `Codec` | `Writer`, `Reader`, `serialize`, `deserialize`, the payloads of the frames, `semantic_digest` |
| `CodecProofs` | theorems about `Codec` and `Bdf` |
| `Bdf` | addresses: order, text, `parse`; operators without state |
| `Discovery` | `enumerate_pci_devices`: operators without state |
| `Cuda` | `run_proof`, call by call into the CUDA runtime |
| `CudaProofs` | theorems about `Cuda` |
| `MCReservations`, `MCCoordinator`, `MCTopology`, `MCRuntime`, `MCTransport`, `MCCodec` | constants for TLC |

Definitions named `Mutant...` are altered copies of the definition that follows them,
each with a plausible mistake; a property is worth keeping only if some mutant
violates it. No specification uses them.

### Reservations

`reservations` and `active_by_path` are the two maps, `per_path_bytes` the ceiling.
Each C++ operation holds the registry's mutex throughout, so it is one action.
`ReserveResult` and `ReleaseResult` give the error code, testing in the order of the
code. Counters are `std::uint64_t`: `Add` wraps at the constant `Word`, and a request may be of
any size below it, as a frame may. Reservations keep only the fields the registry reads.

### Coordinator

`thread[c]` is the thread of connection `c`: `backlog` before it is accepted,
`starting`, `recv` when blocked in `read_frame`, `reply` when a handler has done its
work but not yet answered, `ended`. REGISTER and the snapshots answer while they hold
`mu_` and are one action. The other handlers change a self-locking store (or
`workers_`) and answer afterwards without a lock: they are two actions, and the second
reads the epoch it sends. `DropFrame` is every early return of `handle_frame` that
sends nothing.

`inbox[c]` and `acks[c]` are the bytes in flight. `peer[c]` says how the worker's end
of the connection stands: open, closed (`fin`) or reset (`rst`). `read_frame` reports
PEER_LOST only for an orderly close; after a reset the thread retries until the
coordinator stops. A reset may destroy frames not read yet, and an answer written to a
closed end may cause one.

`proc[w]` is the worker object and its application: boot, connection, the epoch of its
last registration, the request it is blocked on, and the reservations it was told it
has (`held`). `Restart` kills the process at any point, also in the middle of a request,
and starts a new one under a fresh boot; frames already sent stay in flight.

Snapshots lose node ids when they are encoded, so all nodes arrive with id 0: an
inventory of two nodes is refused as a duplicate. `DecodedNodes` and `Decodable` say so.

Abstracted: texts and sequence numbers of ACKs (no worker reads them), constant fields
of `WorkerInfo`, the bytes of frames (`Transport` shows that a connection is the queue
of frames used here, and `Codec` what becomes of the fields), POLICY_UPDATE and HELLO frames (no worker sends them), the fields of paths and
measurements beyond authority and generation.

`Ops` lists what applications and the owner do in a run, so that each run spends its
states on one question.

### Topology

`nodes` maps ids to records, removed nodes included; `next_id` is the counter behind
`add_root_complex` and `add_bridge`. `AddNode` and `Linked` are the two internal
helpers of the code as functions from one map of nodes to the next; the public
operations are built from them as in the code. In particular `Linked` does what
`attach_locked` does to the nodes whether or not it then reports a cycle, and
`AddAttached` ignores what `attach_locked` answers. `Ancestors` is the guarded walk.
`children` is a set: the code's vector never holds a node twice, and no query modelled
here depends on its order. A kind can be any number: `add_node_locked` takes what it is given, as
it takes any address, and only `validate()` (`ValidateResult`, with all its tests in order) looks.
`RootComplexOf` and `Locality` have the code's cases for root ports and switches.

### Selection

`Precedes(a, b, req)` is `compare_components(a, b, req) < 0`: a chain of components, the
first that differs decides; paths nobody may use are ordered by id alone. `Select` is the
decision over a set of candidates. The code sorts the pool and takes its front; the
model takes the path that precedes all others, and `SelectionProofs` shows that the two
are the same whatever the order of the input. Doubles are natural numbers.

As in the code, a path without authority or capability is listed as eliminated only if
some other path is used; a REJECT or DEFER lists only the paths that were not fresh.

### Persistence

A file is a header block (length and CRC-32 of a body) and a body block; each holds
the snapshot it was written from. `save` takes no lock, so each of its calls into the
file system is an action: open and truncate the temporary file, write the header, write
the body and close, remove the old file, rename. Any of them can fail, which leaves the
files as they are, and the process can die between any two. `LoadResult` is what `load`
answers before it decodes. `saved` and `lost` are history: the snapshot of the last
successful save, and whether a later save stopped between remove and rename. So are `overlapping`
and `mixed`: the calls of `save` that met another one, all of which use one temporary file, and
whether one of those has published since the last that met none.

The build is for Windows, where a file that is open can be neither removed nor renamed.
Loss of data that was flushed but not written by the system is left out.

### Runtime

Every operation holds the runtime's lock throughout and is one action, but for two.
`save` copies the state under the lock (`BeginSave`) and writes it without (the
actions of `Persistence`), `load` reads the file without it (`LoadFile`) and installs
what it read under it (`InstallLoaded`). The topology changes through `Topology`'s operators.
`DiscoverWindows` takes a machine, a set of device instances as SetupAPI reports them,
through `Discovery` and `build_topology_from_windows`, which places the devices with a
valid address in their order, one round of a recursive function for each; it never makes a root complex, and an address listed twice
is remembered under an id that has no node. `BuiltPaths` numbers paths by positions in the list of endpoints as
the code does. `encode` drops the ids of nodes, so `Decodable` accepts at most one node and
`RestoredNodes` puts it under id 0. `Restart` kills the process at any point of a save or load.
`recovered`, `reported` and `witnessed` are history: paths that came from a file and were not
rebuilt, every rate ever measured with the two ids it was reported for, and the same with the two
devices that had these ids then.

`reserve` and `release` of the runtime only call the registry under one more lock and
are left out; measurements in a snapshot are too, since `load` does not read them.

### Transport and FrameChannel

One direction of a connection. A unit of `wire` is a field of the header (magic and
version, kind, length, checksum) or a byte of payload, and any unit may have any value, also the
magic's. `SendSome` and `Receive` move any number of units up to what `send` and `recv` were asked
for. The reader is the thread of `handle_connection`: after any error but PEER_LOST it reads the
next header from wherever the stream stands. After a frame larger than `kMaxPayload`, which
`write_frame` sends without complaint and `read_frame` refuses after its header, that is
inside its payload, and a payload may hold anything, a whole frame included. From there on the
history variable `astray` is set, and what is read is whatever the stream holds.

`Damage` overwrites any one unit in flight. The checksum covers the payload alone, so a damaged
kind is accepted as another kind; a damaged length leads the reader astray as well.
`FrameChannel` says what is promised: frames as written, in order, none left out; a damaged
unit costs one frame or changes its kind; and once the reader is astray, nothing. The checksum
is computed byte by byte as in the code, by a step (`Rolled`) from which both its arguments can be
told, so that it never collides; `TransportProofs` proves it.

### Codec

A stream is a sequence of units, one for each number, a text being a length and its
characters. An encoder is a sequence of pieces, one for each `Writer` call, joined by
`FlattenSeq`; a decoder is a list of fields, read one after another by the recursive function in
`Decode`, with what is made of them. Nothing but the code makes the two agree. `Init` writes a
document and damages it: not at all, cut anywhere, one unit more, or any unit overwritten.
`deserialize` is one action for each part, so that the reader's place shows; each of
the other payloads is one action. `TextAt` takes units from behind the stream when a
text is longer than what is left, because `Reader::string` does not compare the length
with the size. `SaveAgain` writes what was accepted and reads it once more.

What a trip loses, named in `Kept`: ids of nodes, capabilities, host and device
generation of a path and the generation of a measurement's path (all read back as 1), the creation
time of a reservation, half a step of confidence. `Snapshot::host_generation` is not
written either and is left out. A reservation neither active nor released comes back as
released. None of it changes `semantic_digest`, which the model gives as the sequence
of values hashed. The code does not check the kind of a node, the generation of a link or
two of the provenances: `AcceptedIsWellFormed` asks the enums it does check, `EnumsAreValid` all.

A document (`IsDocument`) is what the process can hold: texts no longer than `StringLimit` and
lists no longer than `MaxCount` (the limits of the reader; `Writer` checks neither, so the model
leaves longer ones out), and ids that differ within a list, since the stores are maps. A message
is shorter than `max_string_`, a snapshot need not be. `CodecAssumption` asks this of the constant
`Document`, and TLC evaluates it.

`MCCodec` compares `Bdf` with its purpose: exactly the valid addresses come back from
their text, in either case, and the order of addresses is that of their texts.

### Discovery

A machine is the set of instances SetupAPI and the Configuration Manager report, their
texts already split into words and numbers. The model starts where the code chooses:
which property gives the address, which text the class, who counts as a parent.
`enumerate_pci_devices` gives every list `std::sort` may return, since devices with the
same address may come in any order.

### Cuda

Each call into the CUDA runtime is an action that succeeds or fails. A failure sets the last
error, which stays until `cudaGetLastError` is asked, and may cost the context, after
which everything fails. Releases in a good context do not fail. `Throw` is an allocation on the
host that throws, wherever the code allocates: `run_proof` is left at once, with the
pinned and device blocks it holds by raw pointers.

`bytes` and `iters` are what the caller gave, zero replaced by the defaults. `AsInt` is
`static_cast<int>`, for the copies of a transfer (`CopiesDone` is the head of the loop) and the
floats of the kernel (`Launch`, where `n + threads - 1` may overflow); the constant `IntHalf`
stands for 2^31. A size that is no multiple of `sizeof(float)` makes `run_proof` read and write behind its
vectors, which is undefined: `Overrun` ends the process at any point from there on, and with one
to three bytes the vector is empty and the process ends (`FillPattern`).

`Identify` may fail, answer nothing or answer a text `Bdf::parse` refuses; `identified` remembers.
`pci_correlated` is set in any case, since the default address is a valid one, and a sample can be
good without a time, because the answers of `cudaEventRecord` and `cudaEventElapsedTime` are
dropped: only `cuda_clean` tells, which `CleanIsClean` states.

## Runs

| Run | Expectation | Question |
|---|---|---|
| `reservations` | pass | does the ledger stay exact and every fence hold, and can only a sum that wraps overcommit? |
| `reservations_overcommit` | violation | can a reservation pass the ceiling? |
| `coordinator_safety` | pass | are answers and grants right under races, restarts and epoch changes, does only its own boot release a reservation, can a published path go back, is what was told to be stored there? |
| `coordinator_lifecycle` | pass | do answerable requests return and threads of departed workers end, under fairness? |
| `coordinator_silence` | violation | does every request of a registered worker return? |
| `coordinator_fencing` | violation | can a superseded boot still change state? |
| `topology` | pass | does every parent list its child, do identities last, is every cycle found and every path sound, and does `validate` only find what a caller put in? |
| `runtime` | pass | is the file whole and the last one saved while saves do not overlap, are recovered paths kept out of decisions, does a rate stay with the ids it was reported for, does every pair get a path, is the discovered hierarchy the machine's? |
| `runtime_incarnation` | violation | can a rate measured between two devices be advertised for two others? |
| `transport` | pass | are the bytes of a connection a queue of whole frames until one is too large or a length is damaged, and does each arrive? |
| `codec` | pass | is everything written read back, are cut and extended streams refused, is everything accepted well formed where the code looks? |
| `cuda` | pass | does only an exception leak, and do the results hold what they claim for sizes within an `int`? |

Bounds, and why they suffice:

- `reservations`: three ids on two paths let one path carry two reservations while
  another changes; sizes 0, 1, 3, 7 and ceilings 2, 4 cover the empty request, an exact
  fit, one too many, a ceiling lowered below what is in use, and, `Word` being 8, sums that
  wrap: to nothing, to something small, and with three reservations more than once. The space
  is complete, so no bound on the number of calls is needed. `reservations_overcommit` is the
  same instance.
- `coordinator_safety`: two workers, three boots and three connections (one restart of
  either), one epoch change, four requests: enough to register, reserve and release with a
  restart or a second worker in between, or for both to register and publish. One reservation
  id of one byte with a ceiling of one byte makes every reserve of the second worker a conflict;
  one path id and one measurement id, with generations 1 and 2, let an older report be handled
  after a newer one of the other worker, and the answers arrive in either order. 1,779,782 states.
- `coordinator_fencing` has the same workers and connections, `coordinator_silence` one worker with
  two requests, each with only the calls the question is about.
- `coordinator_lifecycle`: one worker, two connections, two boots, three requests of any kind,
  also without registering first, with close, restart, stop and destruction anywhere.
- `topology`: three ids, three addresses, one of them out of range, generations up to 2, five
  operations: enough for a cycle through all nodes, a node removed and rebuilt at
  its address, and a move. Added endpoints are of a kind that does not exist; with root
  complexes and bridges that takes each branch of `Locality`. `MaxOps` bounds the calls since the complete space has
  millions of states; there are 77,636 within it.
- `runtime`: four operations, saves and loads counted among them, two savers with three saves
  between them, one death, one load at a time: enough to discover, build, save, die and load; or,
  starting from the coordinator's file, to load, then age, move to another authority, add or
  discover, and build or refresh; and for two saves to meet at any two points. The savers are
  interchangeable. Three added endpoints, one of them in an order that renumbers the paths, or
  four discovered ones; four are the fewest for which ids formed by adding two positions collide. A
  report and a newer one between other ends. A file left by a coordinator with a CURRENT and an
  AGING path. The kinds of endpoints are those of the code, and `MaxId` 7 leaves room for all nodes.
  `AgeLimit` 0 stands for 60: ages are only compared with it. Two machines: one with
  a bridge, four endpoints found in three ways and a device without a valid address;
  one in which two devices share an address. 393,273 states. `runtime_incarnation` leaves files
  out, allows five operations and has the first machine and the same without one of its cards.
- `transport`: three frames, of no payload, of the greatest one, and of one that is too large and
  holds the bytes of the first; up to three of them written, four units in flight, fewer than any
  frame with a payload, so that such a frame is always cut. One unit at a time damaged, to a
  value that can be a length, a kind, a checksum or none of these; 486,392 states.
- `codec`: twelve documents with each optional part present somewhere and absent somewhere,
  lists of none, one and two elements, every enum at its greatest value; seven values for
  a damaged unit, among them lengths just right, too long and past every limit. `StringWindow`
  81 lets a text of one document lie across the end of the window, and those of the longest
  one behind it, where the difference has wrapped and they are read again.
- `cuda`: two runs, three failures or exceptions of their own. `IntHalf` is 8, so that an
  `int` keeps -8 .. 7: of 14 and 17 copies it makes -2 and 1; sizes 28, 56 and 68 are 7, 14 and 17
  floats, of which 7 fits and overflows with the two threads of a block added, 14
  becomes negative and 17 one; 3 and 6 bytes are less and more than one float, 0 is the default of
  two. 691,024 states.

`CHECK_DEADLOCK FALSE` appears where the bound on requests or operations ends a
behaviour; the waiting that matters is stated as a liveness property instead.

### Fairness

`FairSpec` assumes weak fairness of accepting each connection, of each connection
thread, and of a worker blocked on its ACK. Each is an operating-system thread that
runs a loop and waits only for data or for a mutex held for a bounded time. Nothing is
assumed about applications, restarts, epochs or shutdown. `Transport` assumes weak
fairness of `SendSome` and of the reading thread: each is a thread in a loop around one
blocking call, which returns once the socket has room or data.

### What the runs show

The passing runs confirm what the table says. Where a claim holds with an exception, the
exception is part of the property: `OvercommitsOnlyByWrapping`, `CyclesAreFound`,
`SavedIsPublished`, `EverythingIsReleased`, `GoodIsComplete`, and, in `FrameChannel`, what a reader
that has gone astray may return.

### Where the code departs from its documentation

Each point is a definition that states what the documentation says, and a configuration under
which TLC finds a behaviour that violates it. The first four are runs.

| Definition | Configuration | What happens |
|---|---|---|
| `EveryRequestReturns` | `MCCoordinatorSilence.cfg` (run `coordinator_silence`) | a frame that cannot be decoded is dropped without an answer and its sender waits for ever; an inventory of two nodes is such a frame |
| `SupersededIsFenced` | `MCCoordinatorFencing.cfg` (run `coordinator_fencing`) | handlers compare a frame with the boot of its own connection, never with the current boot of that worker, so a dead boot's frame that is read late is applied |
| `GrowsWithinLimit` | `MCReservationsOvercommit.cfg` (run `reservations_overcommit`) | `used + bytes` (reservation.hpp:109) wraps at 2^64 and a huge request is granted |
| `PriorIncarnationStaysBehind` | `MCRuntimeIncarnation.cfg` (run `runtime_incarnation`) | a second discovery numbers the nodes anew and keeps the measurements, which then belong to other devices (runtime.hpp:44; README.md:68-69 excludes it) |
| `NoBootRollback` | `MCCoordinatorRollback.cfg` | a REGISTER of a dead boot, read after its successor's, puts the old boot back (coordinator.cpp:83; protocol.hpp:3-5 says stale-boot frames are rejected) |
| `NoCycle` | `MCTopologyCycle.cfg` | `attach` links first, tests afterwards and does not undo; the adding operations drop its answer (topology.hpp:211; README.md:77) |
| `ReappearsFresh` | `MCTopologyReappear.cfg` | a device that comes back at its address has the generation its caller gives (topology.hpp:193; README.md:66-68) |
| `AtomicSave` | `PersistenceAtomic.cfg` | `save` removes the old file before it renames the new one; a stop in between leaves nothing to load (persistence.hpp:264; README.md:149) |
| `NeverTorn` | `PersistenceTorn.cfg` | two calls of `save` write one temporary file, and one publishes what the other has begun (persistence.hpp:254; runtime.hpp:2-4 calls the runtime thread-safe) |
| `NothingIsMadeUp` | `MCTransportOversize.cfg` | after a frame that is too large its payload is read as frames (tcp.cpp:145; protocol.hpp:3-5) |
| `EnumsAreValid` | `MCCodecEnums.cfg` | kinds of nodes, generations of links and two provenances are not checked (persistence.hpp:101, 126, 128, 133; README.md:150-152) |
| `ReadsStayInside` | `MCCodecOverread.cfg` | a text is built from behind the end of the stream (codec.hpp:90; codec.hpp:3-4 says every read is bounds-checked) |
| `NothingIsLeaked` | `CudaLeak.cfg` | a vector that cannot be allocated leaves pinned and device memory behind (cuda_engine.cu:114, 127, 139, 148; cuda_engine.cu:2-4) |
| `SamplesAreComplete` | `CudaCopies.cfg` | more than 2^31 - 1 iterations make fewer copies, or none, and a good sample names them all (cuda_engine.cu:109; cuda_engine.hpp:3-5) |
| `CorrelatedIsIdentified` | `CudaIdentity.cfg` | a device without an address is reported correlated (cuda_engine.cu:168; README.md:167-168) |

Three more are exceptions of `RoundTrip` and `DamageIsRefused`, which name them:

- Nodes are written without their ids, and `deserialize` refuses the second one as a
  duplicate (persistence.hpp:223), so a runtime with two nodes saves files it can never
  load.
- `Reader::string` (codec.hpp:90) compares a length with what is left of 256 KiB and not with
  what is left of the stream, so an undamaged stream is refused when a text lies across that
  offset.
- A MEASUREMENT or RESERVE payload with something after its end is accepted, and so is a
  MEASUREMENT cut within its last text (coordinator.cpp:105-118 does not call
  `require_end`); protocol.hpp:3-6 says trailing bytes are rejected.

Known, and no document says otherwise: a node that moves stays in its former parent's
`children`, so the converse of `LinksAgree` is false; a reservation whose worker died is never
reclaimed (`OrphansStay` states it); the coordinator's destructor waits for connections that
stay open; a load overwrites what the runtime built while it was reading the file; a device behind
an address that two devices report loses its parent; and of a size that is no multiple of four the
CUDA engine copies up to three bytes from behind a vector.

## Proofs

Each theorem holds for every value of the constants that satisfies the named assumption of
the module (`ReservationsAssumption`, `CoordinatorAssumption`, ...: sets of numbers and distinct
values) and the hypotheses given here. An invariant that a run checks is seldom
inductive; what had to be added is said for each.

The library's induction theorems take a predicate as a parameter, which the provers cannot
instantiate. Where a proof needs induction it takes the *set* of the numbers for which
its claim holds and shows that this set is all of `Nat`, since a set of numbers that is not
empty has a least element (`Induction`, `LeastNumber`). This reaches recursive functions,
walks and loops; `RECURSIVE` operators stay out of reach, so no module with theorems uses one.

### Reservations

- `LedgerInvariant`: `LedgerInv` is an invariant, for any width of the word and any sizes, also
  those whose sums wrap. `AccountingCloses` alone is not
  inductive: releasing needs `LedgerClosesToZero` and the exclusiveness of the two flags. The
  sum of the active bytes of a path is the cardinality of a set with one element
  for each byte, so adding or removing a reservation is a disjoint union; this avoids
  induction over the set of reservations.
- `AccountingClosesAlways` (modulo the word, and so exactly while the sum fits),
  `LedgerClosesToZeroAlways`, `ReleaseVerdictAlways`, `RegistryTypeCorrect` and
  `IdentityIsSpentAlways` follow. `OvercommitsOnlyByWrappingAlways`: the bytes held on a path grow past
  the ceiling in force only in a step whose sum of used and requested bytes reaches the word.

### Coordinator and workers

For any number of workers, connections, boots, epochs, requests and identities
(`CoordinatorAssumption`, `NoneAssumption`):

- `CoordinatorInvHolds`: `ProtocolInv` is an invariant. An ACK names no request, so
  `AckAnswersRequest` is not inductive: it follows from where a request can be
  (`RequestInv`: in its queue, with its handler, in one ACK, or lost), that a connection not used yet
  carries nothing (`FreshInv`), and that a connection has one owner
  (`OwnerInv`). `GrantedIsHeld` needs that a RELEASE still in a queue comes from the
  worker now on that connection or from a boot that is gone (`BootInv`), that a
  worker asks only in its own name (`OwnInv`), and that a success on its way to a
  worker is already true (`GrantInv`).
- The thirty or so actions are first reduced to few kinds of step (`ProtocolStep`); what
  a step does to queues, threads and workers is then proved once for each kind.
- `AckAnswersRequestAlways`, `GrantedIsHeldAlways`, `OrphansStayAlways`, `PathsNeverRollBack` follow.
  `ReportedIsStoredAlways` follows an answer on its way (`OnTheWay`): only the handler of the report
  makes it, in the step that stores, and generations in the store never go back. `CoordinatorTypeCorrect` counts as well: each REGISTER the coordinator
  has read, and each frame still under way, used up one of the `MaxCalls` requests (`CountInv`).
- `CoordinatorLedgerCloses` and `CoordinatorOvercommitsOnlyByWrapping` carry the theorems on the
  ledger over to the coordinator's registry, from an instance of `ReservationProofs` and the
  lemma `CoordinatorRunsItsRegistry`: every step of the coordinator is a step of `Reservations` or
  leaves the registry alone.

### Topology

For any number of nodes, addresses, kinds and operations:

- `HierarchyInvariant`: well-formed nodes, links that agree, one live node for each
  address. The last part is what makes "the node at this address" well defined in
  `AddNode`; `AddNodeSound` and `LinkedSound` show that each helper keeps a map sound,
  and each action is a composition of the two.
- `LinksAgreeAlways`, `ValidateBlamesInputAlways`, `IdentityIsForEverAlways`, `TopologyTypeCorrect`
  follow, whatever kinds and addresses callers give.
- `PathsAreSoundAlways` and `CyclesAreFoundAlways` are about the guarded walk upwards. By
  the pigeonhole principle a walk that does not end repeats a node within as many steps
  as there are nodes (`CyclesAreShort`), so the guard of the walk cuts nothing off in a
  hierarchy without a cycle; two walks that meet stay together (`MeetAt`), which makes
  the path back the reverse of the path. A cycle that was not there before runs through the
  new link, so the walk from the parent meets the child (`CycleWasThere`, `CycleIsSeen`).

### Selection

For all paths and requests without any bound: the comparator is irreflexive, total on
distinct ids and transitive; a finite pool has a first path (`FirstExists`: one with the
fewest paths ahead of it has none), and at most one (`FirstIsUnique`), so `Best` is the front of
any sort; and a decision that uses a path gives every candidate exactly one part
(`DecisionAccountsForAll`).

### Persistence

For any snapshots, any number of threads that save, and any saves, failures and deaths:

- `FilesAreInvariant`: `FilesInv` is an invariant. `PublishedIsWhole` is not inductive,
  since rename publishes whatever the temporary file holds: `Progress` says what that
  is at each point of a save. It says so of every call that has met no other one (`overlapping`), and
  that such a call is the only one there is; one that has met another may leave anything.
- `FilesTypeCorrect`, `PublishedWhole` and `SavedPublished` follow.

### Runtime

For any machine, devices, reports, authorities and file, and any sequence of operations,
saves, loads and deaths, under `Encoded` (a snapshot is what the runtime encodes):

- `RuntimeInvHolds`: `RuntimeInv` is an invariant. It joins `FilesInv` (a lemma, `FilesMove`, says
  that the runtime's steps are steps of the files or leave them alone), that the rates in every
  snapshot in a file, a save or a load in progress were reported (`SnapshotsKept`), and the soundness of the
  hierarchy, the paths, the measurements, the authority and the recovered set.
- `MeasuredIsEvidenceAlways` needs it across a save, a death and a load:
  a rate in a file was reported for the ids of its ends too. Ids are all it speaks of: which devices
  bear them after another discovery is `PriorIncarnationStaysBehind`, and false. `RecoveredIsNotSelectedAlways` rests on
  the freshness `load` gives to every path, which no operation but building raises,
  and on the theorems of `SelectionProofs`, cited through an instance.
- `EveryPairIsBuiltAlways`: the id the code computes from two positions in the list is
  injective and stays below the ids of host paths (`PairId`), so no path overwrites another.
- `HierarchyIsTheMachinesAlways`: `build_topology_from_windows` works off a sorted list, so it is
  followed round by round (`BuiltInRounds`). `AfterRound` says after each that `by_bdf` and the hierarchy have the same
  nodes and that every device placed so far hangs where Windows says; `RoundPlaces` that a round
  keeps this, given that parents come first. They do (`ListHasParentsFirst`) because the list is sorted and
  buses are numbered from the root; two devices with one address are what would break it.
- `RuntimeTypeCorrect`; `RuntimePublishesWhole` (the file, with the runtime's operations between the steps of saves).
- Among the constants, `None` stands for an empty `std::optional` and is no number and no address.

### Transport

For any frames, window, pieces, with damage, close, death, reset and stop anywhere:

- `TransportInvHolds`: `TransportInv` is an invariant. Its heart is `StreamInv`: what the
  reader has collected, the wire carries and the writer has yet to send, put in a row, are
  the bytes of the written frames laid end to end, without the first `skipped` ones and but for one
  damaged byte. Moving bytes along leaves the row as it is (`SendMoves`, `RecvMoves`), and a death cuts
  its end off.
- While the reader is not astray it stands at the beginning of the next frame, and what it collects
  has the announced length, so it is that frame but for the damaged byte. The checksum is
  injective (`CrcIsPerfect`), so a payload or a checksum that was damaged is refused, and what
  remains is a damaged kind. A length that was damaged or is too large leads it astray, and then
  nothing is claimed of it but `TypeOK`.
- While nothing is wrong none is refused: `CloseLosesNothingAlways`.
- `ConnectionIsQueue`: the connection implements `FrameChannel`. `WriteFrame` is `Put`, a
  `Receive` that completes a frame is `Get` or, of the damaged one, `Misread`, one that loses its place is
  `GoAstray`, `Damage` is `Spoil`, everything else stutters. This is what allows `Coordinator` to use a
  queue of frames for a connection, as long as its frames are within `kMaxPayload`.
- Nothing is assumed of what payloads and damaged units hold: any of them may be the magic.

### Codec

For any documents, any damage of the model, and any units in or behind a stream
(`CodecAssumption`):

- An address: `CanonicalIsText` says that `parse` returns every valid address from its canonical text.
- A field: what its writer produces its reader returns (`FieldComesBack`), and whatever a reader
  returns is a value the field can hold (`FieldRead`).
- Several fields: by induction over the fields, pieces that lie one behind the other in a stream are
  read back (`DecodeComesBack`), and a stream that agrees with them only as far as it goes leaves a
  reader that accepts it where the writer was (`DecodeIsPlaced`). For each payload there is one lemma
  that encoder and decoder have the same fields in the same order.
- A snapshot: `Edge` and `Spot` are the places where `serialize` puts each list and each element.
- `CodecInvariance`: `CodecInvariant` is an invariant. `RoundTrip` says something only at the end of a
  reading; `Returned` says element by element what has been read so far, `Placed` that the reader stands
  where the writer stood, unless a unit was overwritten, and `Gathered` that what was read is well
  formed whatever the stream held. `Second` says that what is written for the second time was read
  before, so it has nothing left to lose.
- `CodecTypes`, `WhatIsWrittenComesBack` (`RoundTrip`), `DamagedStreamsAreRefused` (`DamageIsRefused`),
  `AcceptedSnapshotsAreWellFormed` (`AcceptedIsWellFormed`, which asks the enums the code asks) and `LossesDoNotAddUp`
  (`SecondTripIsExact`) follow.

### CUDA engine

For any sizes, numbers of copies, width of an `int` and threads in a block, any number of runs and any
pattern of failures and exceptions: `CudaInvHolds`, from which `ResourcesAreReleased`,
`CleanRunIsClean` and `GoodSampleIsComplete` follow, with the exceptions the properties
name. They speak of the end of a run; `CudaInv` says for every call what is held there,
which copies of the transfer in progress were made, what an `int` keeps of the numbers, and what must
have been done when no call has failed.

### Only model-checked

- Liveness (`RequestsReturn`, `StoppedThreadsEnd`, `EveryFrameArrives`): outside the prover's reach,
  as is `ENABLED`.
- What `Bdf` makes of texts that are not canonical (capitals, numbers out of range), and that the order
  of addresses is that of their texts: an `ASSUME` of `MCCodec`, over addresses in and out of range.
- What the configurations that expect a violation show: counterexamples are TLC's.

Every other property of a passing run is stated by a theorem.

## Plan

Done, in this order: the registry, coordinator and workers, topology, selection,
persistence, the runtime; the transport and its refinement of a queue of frames, the
codec and addresses, discovery, the CUDA engine; then proofs for each of them.

Left: the coordinator with `Transport` connections in place of queues, as a composition of
`ConnectionIsQueue` with the coordinator's theorems; today the two are joined by the
queue that both modules use.

## Not modelled

- The command line, examples and benchmarks: callers that print what the modelled
  operations return.
- `SnapshotDiff`, links, the packed identity of an address, units other than bytes per second:
  nothing in the library decides by them.
- Socket options, the addresses of sockets, the calls into SetupAPI themselves.
- `mem_clean` of the CUDA engine, which compares amounts of memory other processes change.
- `Runtime::reserve` and `release`, which only call the registry, and HELLO and
  POLICY_UPDATE frames, which no worker sends and which are only answered.
- Loss of file data that was flushed but not written by the system.
