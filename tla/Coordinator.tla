---------------------------- MODULE Coordinator -----------------------------
(***************************************************************************)
(* The coordinator and its workers (src/pciefabric/coordinator.cpp,        *)
(* worker.cpp): one thread for each connection, each reading a frame,      *)
(* handling it and answering with an ACK; workers that send one request    *)
(* and block until its ACK; restarts of workers under a fresh boot.        *)
(*                                                                         *)
(* A handler is one action as far as it holds a lock: REGISTER and the two *)
(* snapshots answer while they still hold mu_; the others change the       *)
(* registry, the measurement store or workers_ first and answer, reading   *)
(* epoch_ without the lock, in a second step.  A frame that fails before   *)
(* its handler answers is dropped without any answer.                      *)
(*                                                                         *)
(* Left out as data: the text and sequence number of an ACK (no worker     *)
(* reads them) and WorkerInfo::connected and last_seen (constants).        *)
(***************************************************************************)
EXTENDS Integers, Sequences, FiniteSets

CONSTANTS
    NumWorkers,       \* WorkerIds are 1 .. NumWorkers
    MaxConn,          \* bound: connections ever opened
    MaxBoot,          \* bound: WorkerBootIds ever issued
    MaxEpoch,         \* bound: value of the coordinator's epoch
    MaxCalls,         \* bound: requests sent by all workers together
    Ops,              \* the operations the applications and the owner use
    ReservationId, PathId, NodeId, MeasurementId, MeasurementGeneration,
    Bytes, Capacity, Word,
    None

Worker == 1 .. NumWorkers
Conn == 1 .. MaxConn
Boot == 1 .. MaxBoot
Epoch == 0 .. MaxEpoch
Generation == {1}

ASSUME CoordinatorAssumption ==
    /\ NumWorkers \in Nat \ {0}
    /\ NumWorkers <= MaxBoot
    /\ MaxConn \in Nat /\ MaxBoot \in Nat /\ MaxEpoch \in Nat /\ MaxCalls \in Nat
    /\ MeasurementGeneration \subseteq Nat
    /\ IsFiniteSet(ReservationId)
    /\ Word \in Nat \ {0}
    /\ Bytes \subseteq 0 .. (Word - 1) /\ Capacity \subseteq 0 .. (Word - 1)

VARIABLES
    epoch, seq,       \* epoch_ and seq_
    workers,          \* workers_: WorkerId -> [boot, revalidation_required]
    nodes,            \* the node ids in topology_
    paths,            \* paths_: PathId -> [epoch, boot, freshness]
    measurements,     \* measurements_: MeasurementId -> [generation, boot]
    reservations, active_by_path, per_path_bytes,   \* reservations_
    stop, listening,  \* stop_, and whether the listener is open
    thread,           \* per connection: where its thread is, and its locals
    peer,             \* per connection: "open", "fin" or "rst" at the worker's end
    inbox, acks,      \* per connection: frames in flight, either way
    proc,             \* per worker: the Worker object and what its application holds
    calls,            \* requests sent so far
    next_boot

registry == <<reservations, active_by_path, per_path_bytes>>
state    == <<epoch, seq, workers, nodes, paths, measurements>>
server   == <<stop, listening>>
client   == <<proc, calls, next_boot>>
vars     == <<state, registry, server, thread, peer, inbox, acks, client>>

Registry == INSTANCE Reservations

Put(map, k, v) == [x \in DOMAIN map \cup {k} |-> IF x = k THEN v ELSE map[x]]

\* What a connection has registered as, and the frames workers send.
Registration == [worker: Worker, boot: Boot]

Frames ==
    [kind: {"REGISTER"}, worker: Worker, boot: Boot]
    \cup [kind: {"INVENTORY"}, nodes: SUBSET NodeId, paths: {{}}]
    \cup [kind: {"PATH_SNAPSHOT"}, nodes: {{}}, paths: SUBSET PathId, boot: Boot, epoch: Epoch]
    \cup [kind: {"MEASUREMENT"}, id: MeasurementId, generation: MeasurementGeneration, boot: Boot]
    \cup [kind: {"RESERVE"}, id: ReservationId, req: Registry!Request]
    \cup [kind: {"RELEASE"}, id: ReservationId, boot: Boot, generation: Generation, epoch: Epoch]
    \cup [kind: {"HEARTBEAT", "REVALIDATE"}]

ASSUME NoneAssumption == None \notin Conn \cup Registration \cup Frames

-----------------------------------------------------------------------------
(* Workers.  proc[w].awaiting is the request send_and_await_ack is blocked   *)
(* on; held is what the application was told it has reserved and has not    *)
(* asked to release since.                                                   *)

FreshProc(b) == [boot |-> b, conn |-> None, epoch |-> 0, awaiting |-> None, held |-> {}]

\* The coordinator closed this connection, or its listener did.
Closed(c) == thread[c].at = "ended"

\* connect() returns once the connection is in the listener's backlog.
Connect(w) ==
    /\ proc[w].conn = None
    /\ listening
    /\ \E c \in Conn :
          /\ thread[c].at = "unused"
          /\ \A d \in Conn : thread[d].at = "unused" => c <= d
          /\ thread' = [thread EXCEPT ![c].at = "backlog"]
          /\ peer' = [peer EXCEPT ![c] = "open"]
          /\ proc' = [proc EXCEPT ![w].conn = c]
    /\ UNCHANGED <<state, registry, server, inbox, acks, calls, next_boot>>

\* Applications register first; "EARLY_CALLS" lets them do without.
InOrder(w, kind) ==
    \/ kind = "REGISTER"
    \/ thread[proc[w].conn].as # None
    \/ Closed(proc[w].conn)
    \/ "EARLY_CALLS" \in Ops

\* Write a frame and block for its ACK.  Bytes written to a connection the
\* other side has closed are lost.
Send(w, frame, held) ==
    /\ proc[w].conn # None
    /\ proc[w].awaiting = None
    /\ calls < MaxCalls
    /\ frame.kind \in Ops
    /\ InOrder(w, frame.kind)
    /\ calls' = calls + 1
    /\ proc' = [proc EXCEPT ![w].awaiting = frame, ![w].held = held]
    /\ inbox' = [inbox EXCEPT ![proc[w].conn] = IF Closed(proc[w].conn) THEN @ ELSE Append(@, frame)]
    /\ UNCHANGED <<state, registry, server, thread, peer, acks, next_boot>>

RegisterSelf(w) ==
    Send(w, [kind |-> "REGISTER", worker |-> w, boot |-> proc[w].boot], proc[w].held)

SendInventory(w, ns) ==
    Send(w, [kind |-> "INVENTORY", nodes |-> ns, paths |-> {}], proc[w].held)

\* The paths carry the boot of the worker and the epoch it last registered at.
SendPathSnapshot(w, ps) ==
    Send(w, [kind |-> "PATH_SNAPSHOT", nodes |-> {}, paths |-> ps,
             boot |-> proc[w].boot, epoch |-> proc[w].epoch], proc[w].held)

SendMeasurement(w, m, g) ==
    Send(w, [kind |-> "MEASUREMENT", id |-> m, generation |-> g, boot |-> proc[w].boot],
         proc[w].held)

ReserveBytes(w, id, p, n) ==
    Send(w, [kind |-> "RESERVE", id |-> id,
             req |-> [path |-> p, bytes |-> n, boot |-> proc[w].boot,
                      generation |-> 1, epoch |-> proc[w].epoch]], proc[w].held)

ReleaseId(w, id) ==
    Send(w, [kind |-> "RELEASE", id |-> id, boot |-> proc[w].boot, generation |-> 1,
             epoch |-> proc[w].epoch], proc[w].held \ {id})

Heartbeat(w) == Send(w, [kind |-> "HEARTBEAT"], proc[w].held)

Revalidate(w) == Send(w, [kind |-> "REVALIDATE"], proc[w].held)

\* The ACK read by a blocked request: register_self stores its epoch, reserve
\* reports success to the application.
ReceiveAck(w) ==
    /\ proc[w].awaiting # None
    /\ LET c == proc[w].conn
           a == Head(acks[c])
           f == proc[w].awaiting
       IN  /\ acks[c] # <<>>
           /\ acks' = [acks EXCEPT ![c] = Tail(@)]
           /\ proc' = [proc EXCEPT
                 ![w].awaiting = None,
                 ![w].epoch = IF f.kind = "REGISTER" THEN a.epoch ELSE @,
                 ![w].held = IF f.kind = "RESERVE" /\ a.ok THEN @ \cup {f.id} ELSE @]
    /\ UNCHANGED <<state, registry, server, thread, peer, inbox, calls, next_boot>>

MutantGiveUp(w) ==
    /\ proc[w].awaiting # None
    /\ proc' = [proc EXCEPT ![w].awaiting = None]
    /\ UNCHANGED <<state, registry, server, thread, peer, inbox, acks, calls, next_boot>>

\* read_frame of a blocked request finds the connection closed.
AwaitFails(w) ==
    /\ proc[w].awaiting # None
    /\ Closed(proc[w].conn)
    /\ acks[proc[w].conn] = <<>>
    /\ proc' = [proc EXCEPT ![w].awaiting = None]
    /\ UNCHANGED <<state, registry, server, thread, peer, inbox, acks, calls, next_boot>>

\* close(): the frames already written still reach the coordinator.
Close(w) ==
    /\ "CLOSE" \in Ops
    /\ proc[w].conn # None
    /\ proc[w].awaiting = None
    /\ peer' = [peer EXCEPT ![proc[w].conn] = "fin"]
    /\ proc' = [proc EXCEPT ![w].conn = None]
    /\ UNCHANGED <<state, registry, server, thread, inbox, acks, calls, next_boot>>

\* The worker process dies, also in the middle of a request, and a new one
\* starts under a fresh boot.  Its connection ends in an orderly close or in a
\* reset, and a reset may destroy what the coordinator has not read yet.
Restart(w) ==
    /\ "RESTART" \in Ops
    /\ next_boot \in Boot
    /\ next_boot' = next_boot + 1
    /\ proc' = [proc EXCEPT ![w] = FreshProc(next_boot)]
    /\ \/ proc[w].conn = None /\ UNCHANGED <<peer, inbox>>
       \/ /\ proc[w].conn # None
          /\ \/ peer' = [peer EXCEPT ![proc[w].conn] = "fin"] /\ UNCHANGED inbox
             \/ /\ peer' = [peer EXCEPT ![proc[w].conn] = "rst"]
                /\ \/ UNCHANGED inbox
                   \/ inbox' = [inbox EXCEPT ![proc[w].conn] = <<>>]
    /\ UNCHANGED <<state, registry, server, thread, acks, calls>>

-----------------------------------------------------------------------------
(* Connection threads.  thread[c].at is "starting" (not yet in its loop),    *)
(* "recv" (blocked in read_frame) or "reply" (a handler has done its work    *)
(* and will answer); "as" is the worker and boot the connection registered.  *)

UnusedThread == [at |-> "unused", as |-> None, re |-> None, ok |-> FALSE]

\* run(): the accept loop starts a thread for each connection, in the order they
\* were made, until stop_.
Accept(c) ==
    /\ ~stop
    /\ thread[c].at = "backlog"
    /\ \A d \in Conn : thread[d].at = "backlog" => c <= d
    /\ thread' = [thread EXCEPT ![c].at = "starting"]
    /\ UNCHANGED <<state, registry, server, peer, inbox, acks, client>>

\* The loop of handle_connection tests stop_ before it blocks in read_frame; its
\* locals die with it.
EndedThread == [UnusedThread EXCEPT !.at = "ended"]

AfterFrame(as) == IF stop THEN EndedThread ELSE [UnusedThread EXCEPT !.at = "recv", !.as = as]

StartThread(c) ==
    /\ thread[c].at = "starting"
    /\ thread' = [thread EXCEPT ![c] = AfterFrame(None)]
    /\ UNCHANGED <<state, registry, server, peer, inbox, acks, client>>

Frame(c) == Head(inbox[c])

Reading(c, kinds) ==
    /\ thread[c].at = "recv"
    /\ inbox[c] # <<>>
    /\ Frame(c).kind \in kinds

Consumed(c) == [inbox EXCEPT ![c] = Tail(@)]

\* An ACK names no request; re is a history field.
Ack(re, ok) == [re |-> re, epoch |-> epoch, ok |-> ok]

\* reply_ack: nobody reads the answer once the worker's end is closed, and the
\* answer may be answered with a reset.
Reply(c, re, ok) ==
    IF peer[c] = "open"
    THEN /\ acks' = [acks EXCEPT ![c] = Append(@, Ack(re, ok))]
         /\ UNCHANGED peer
    ELSE /\ peer' \in {peer, [peer EXCEPT ![c] = "rst"]}
         /\ UNCHANGED acks

\* The second half of the handlers that answer without holding mu_.
SendReply(c) ==
    /\ thread[c].at = "reply"
    /\ Reply(c, thread[c].re, thread[c].ok)
    /\ thread' = [thread EXCEPT ![c] = AfterFrame(thread[c].as)]
    /\ UNCHANGED <<state, registry, server, inbox, client>>

WillReply(c, ok) ==
    /\ inbox' = Consumed(c)
    /\ thread' = [thread EXCEPT ![c].at = "reply", ![c].re = Frame(c), ![c].ok = ok]

MutantHandleRegister(c) ==
    /\ Reading(c, {"REGISTER"})
    /\ seq' = seq + 1
    /\ workers' = Put(workers, Frame(c).boot,
                      [boot |-> Frame(c).worker, revalidation_required |-> FALSE])
    /\ inbox' = Consumed(c)
    /\ Reply(c, Frame(c), TRUE)
    /\ thread' = [thread EXCEPT ![c] =
                     AfterFrame([worker |-> Frame(c).worker, boot |-> Frame(c).boot])]
    /\ UNCHANGED <<epoch, nodes, paths, measurements, registry, server, client>>

HandleRegister(c) ==
    /\ Reading(c, {"REGISTER"})
    /\ seq' = seq + 1
    /\ workers' = Put(workers, Frame(c).worker,
                      [boot |-> Frame(c).boot, revalidation_required |-> FALSE])
    /\ inbox' = Consumed(c)
    /\ Reply(c, Frame(c), TRUE)
    /\ thread' = [thread EXCEPT ![c] =
                     AfterFrame([worker |-> Frame(c).worker, boot |-> Frame(c).boot])]
    /\ UNCHANGED <<epoch, nodes, paths, measurements, registry, server, client>>

\* Serialised nodes do not carry their id: every node is decoded with id 0, so
\* a snapshot of two nodes is refused as holding a duplicate identity.
DecodedNodes(f) == {0 : n \in f.nodes}

Decodable(f) == f.kind \in {"INVENTORY", "PATH_SNAPSHOT"} => Cardinality(f.nodes) <= 1

\* Path::authority_matches, against the boot this connection registered with.
MutantAuthorityMatches(c, f) == f.boot = thread[c].as.boot

AuthorityMatches(c, f) == f.epoch = epoch /\ f.boot = thread[c].as.boot

SnapshotPaths(c, f) ==
    IF f.paths # {} /\ AuthorityMatches(c, f) THEN f.paths ELSE {}

HandleSnapshot(c) ==
    /\ Reading(c, {"INVENTORY", "PATH_SNAPSHOT"})
    /\ thread[c].as # None
    /\ Decodable(Frame(c))
    /\ LET f == Frame(c)
           accepted == SnapshotPaths(c, f)
       IN  /\ nodes' = nodes \cup DecodedNodes(f)
           /\ paths' = [p \in DOMAIN paths \cup accepted |->
                           IF p \in accepted
                           THEN [epoch |-> f.epoch, boot |-> f.boot, freshness |-> "CURRENT"]
                           ELSE paths[p]]
           /\ Reply(c, f, TRUE)
    /\ inbox' = Consumed(c)
    /\ thread' = [thread EXCEPT ![c] = AfterFrame(thread[c].as)]
    /\ UNCHANGED <<epoch, seq, workers, measurements, registry, server, client>>

\* MeasurementStore::ingest accepts a known id only with a newer generation.
MutantNewer(f) ==
    f.id \in DOMAIN measurements => measurements[f.id].generation <= f.generation

Newer(f) == f.id \in DOMAIN measurements => measurements[f.id].generation < f.generation

MutantHandleMeasurement(c) ==
    /\ Reading(c, {"MEASUREMENT"})
    /\ thread[c].as # None
    /\ IF Newer(Frame(c))
       THEN /\ measurements' = Put(measurements, Frame(c).id,
                                  [generation |-> Frame(c).generation, boot |-> Frame(c).boot])
            /\ WillReply(c, TRUE)
       ELSE /\ inbox' = Consumed(c)
            /\ UNCHANGED <<measurements, thread>>
    /\ UNCHANGED <<epoch, seq, workers, nodes, paths, registry, server, peer, acks, client>>

HandleMeasurement(c) ==
    /\ Reading(c, {"MEASUREMENT"})
    /\ thread[c].as # None
    /\ measurements' = IF Newer(Frame(c))
                       THEN Put(measurements, Frame(c).id,
                                [generation |-> Frame(c).generation, boot |-> Frame(c).boot])
                       ELSE measurements
    /\ WillReply(c, Newer(Frame(c)))
    /\ UNCHANGED <<epoch, seq, workers, nodes, paths, registry, server, peer, acks, client>>

MutantHandleReserve(c) ==
    /\ Reading(c, {"RESERVE"})
    /\ thread[c].as # None
    /\ reservations' = Put(reservations, Frame(c).id, Registry!MarkActive(Frame(c).req))
    /\ active_by_path' = Put(active_by_path, Frame(c).req.path, Frame(c).req.bytes)
    /\ WillReply(c, TRUE)
    /\ UNCHANGED <<per_path_bytes, state, server, peer, acks, client>>

HandleReserve(c) ==
    /\ Reading(c, {"RESERVE"})
    /\ thread[c].as # None
    /\ Registry!Reserve(Frame(c).id, Frame(c).req)
    /\ WillReply(c, Registry!ReserveResult(Frame(c).id, Frame(c).req) = "OK")
    /\ UNCHANGED <<state, server, peer, acks, client>>

MutantReleaseBoot(f) ==
    IF f.id \in DOMAIN reservations THEN reservations[f.id].boot ELSE f.boot

\* The boot release is fenced by is the one the request carries.
ReleaseBoot(f) == f.boot

HandleRelease(c) ==
    /\ Reading(c, {"RELEASE"})
    /\ thread[c].as # None
    /\ LET f == Frame(c) IN
          /\ Registry!Release(f.id, ReleaseBoot(f), f.generation, f.epoch)
          /\ WillReply(c, Registry!ReleaseResult(f.id, ReleaseBoot(f), f.generation, f.epoch) = "OK")
    /\ UNCHANGED <<state, server, peer, acks, client>>

HandleHeartbeat(c) ==
    /\ Reading(c, {"HEARTBEAT"})
    /\ WillReply(c, TRUE)
    /\ UNCHANGED <<state, registry, server, peer, acks, client>>

HandleRevalidate(c) ==
    /\ Reading(c, {"REVALIDATE"})
    /\ workers' = IF thread[c].as # None /\ thread[c].as.worker \in DOMAIN workers
                  THEN [workers EXCEPT ![thread[c].as.worker].revalidation_required = TRUE]
                  ELSE workers
    /\ WillReply(c, TRUE)
    /\ UNCHANGED <<epoch, seq, nodes, paths, measurements, registry, server, peer, acks, client>>

\* handle_frame returns an error before any reply: the frame is gone and the
\* worker is told nothing.
NeedsRegistration == {"INVENTORY", "PATH_SNAPSHOT", "MEASUREMENT", "RESERVE", "RELEASE"}

Refused(c) ==
    \/ Frame(c).kind \in NeedsRegistration /\ thread[c].as = None
    \/ ~Decodable(Frame(c))

DropFrame(c) ==
    /\ thread[c].at = "recv"
    /\ inbox[c] # <<>>
    /\ Refused(c)
    /\ inbox' = Consumed(c)
    /\ thread' = [thread EXCEPT ![c] = AfterFrame(thread[c].as)]
    /\ UNCHANGED <<state, registry, server, peer, acks, client>>

MutantEndThread(c) ==
    /\ thread[c].at = "recv"
    /\ inbox[c] = <<>>
    /\ peer[c] = "fin"
    /\ thread' = [thread EXCEPT ![c] = EndedThread]
    /\ UNCHANGED <<state, registry, server, peer, inbox, acks, client>>

\* An orderly close ends the thread; after a reset read_frame fails with
\* NETWORK_ERROR and the loop retries until stop_ is set.
EndThread(c) ==
    /\ thread[c].at = "recv"
    /\ inbox[c] = <<>>
    /\ peer[c] = "fin" \/ (peer[c] = "rst" /\ stop)
    /\ thread' = [thread EXCEPT ![c] = EndedThread]
    /\ UNCHANGED <<state, registry, server, peer, inbox, acks, client>>

Serve(c) ==
    \/ StartThread(c)
    \/ HandleRegister(c) \/ HandleSnapshot(c) \/ HandleMeasurement(c)
    \/ HandleReserve(c) \/ HandleRelease(c)
    \/ HandleHeartbeat(c) \/ HandleRevalidate(c)
    \/ DropFrame(c) \/ SendReply(c) \/ EndThread(c)

-----------------------------------------------------------------------------
(* The coordinator's owner *)

AdvanceEpoch ==
    /\ "ADVANCE_EPOCH" \in Ops
    /\ epoch < MaxEpoch
    /\ epoch' = epoch + 1
    /\ UNCHANGED <<seq, workers, nodes, paths, measurements, registry, server, thread,
                   peer, inbox, acks, client>>

\* No path of this model is INVALID, so every one is downgraded.
RevalidateAll ==
    /\ "REVALIDATE_ALL" \in Ops
    /\ paths' = [p \in DOMAIN paths |-> [paths[p] EXCEPT !.freshness = "REVALIDATION_REQUIRED"]]
    /\ UNCHANGED <<epoch, seq, workers, nodes, measurements, registry, server, thread,
                   peer, inbox, acks, client>>

RequestStop ==
    /\ "STOP" \in Ops
    /\ ~stop
    /\ stop' = TRUE
    /\ UNCHANGED <<state, registry, listening, thread, peer, inbox, acks, client>>

\* The destructor closes the listener, which resets what was never accepted,
\* and then joins the threads.
Destroy ==
    /\ stop /\ listening
    /\ listening' = FALSE
    /\ thread' = [c \in Conn |-> IF thread[c].at = "backlog"
                                 THEN EndedThread ELSE thread[c]]
    /\ UNCHANGED <<state, registry, stop, peer, inbox, acks, client>>

-----------------------------------------------------------------------------
Init ==
    /\ epoch = 0 /\ seq = 0
    /\ workers = [w \in {} |-> 0]
    /\ nodes = {}
    /\ paths = [p \in {} |-> 0]
    /\ measurements = [m \in {} |-> 0]
    /\ Registry!Init
    /\ stop = FALSE /\ listening = TRUE
    /\ thread = [c \in Conn |-> UnusedThread]
    /\ peer = [c \in Conn |-> "open"]
    /\ inbox = [c \in Conn |-> <<>>]
    /\ acks = [c \in Conn |-> <<>>]
    /\ proc = [w \in Worker |-> FreshProc(w)]
    /\ calls = 0
    /\ next_boot = NumWorkers + 1

Call(w) ==
    \/ RegisterSelf(w) \/ Heartbeat(w) \/ Revalidate(w)
    \/ \E ns \in SUBSET NodeId : SendInventory(w, ns)
    \/ \E ps \in (SUBSET PathId) \ {{}} : SendPathSnapshot(w, ps)
    \/ \E m \in MeasurementId, g \in MeasurementGeneration : SendMeasurement(w, m, g)
    \/ \E id \in ReservationId, p \in PathId, n \in Bytes : ReserveBytes(w, id, p, n)
    \/ \E id \in ReservationId : ReleaseId(w, id)

Return(w) == ReceiveAck(w) \/ AwaitFails(w)

Next ==
    \/ \E w \in Worker : Connect(w) \/ Call(w) \/ Return(w) \/ Close(w) \/ Restart(w)
    \/ \E c \in Conn : Accept(c) \/ Serve(c)
    \/ AdvanceEpoch \/ RevalidateAll \/ RequestStop \/ Destroy

\* The accept loop, the connection threads and the callers blocked on an ACK
\* keep running: each is an operating-system thread and no lock is held for
\* ever.  Nothing obliges applications to call, stop or restart.
Fairness ==
    /\ \A c \in Conn : WF_vars(Accept(c)) /\ WF_vars(Serve(c))
    /\ \A w \in Worker : WF_vars(Return(w))

Spec == Init /\ [][Next]_vars

FairSpec == Spec /\ Fairness

-----------------------------------------------------------------------------
(* Properties *)

\* Shapes and ranges of the coordinator's tables, threads and workers.
TypeOK ==
    /\ epoch \in Epoch
    /\ seq \in 0 .. MaxCalls
    /\ \A w \in DOMAIN workers : w \in Worker /\ workers[w].boot \in Boot
    /\ nodes \subseteq NodeId \cup {0}
    /\ \A p \in DOMAIN paths : p \in PathId /\ paths[p].epoch \in Epoch /\ paths[p].boot \in Boot
    /\ DOMAIN measurements \subseteq MeasurementId
    /\ \A c \in Conn :
          /\ thread[c].at \in {"unused", "backlog", "starting", "recv", "reply", "ended"}
          /\ peer[c] \in {"open", "fin", "rst"}
          /\ \A i \in DOMAIN inbox[c] : inbox[c][i] \in Frames
    /\ \A w \in Worker :
          /\ proc[w].boot \in 1 .. (next_boot - 1)
          /\ proc[w].conn \in Conn \cup {None}
          /\ proc[w].held \subseteq ReservationId

\* ACKs carry nothing that names the request they answer, so a worker takes
\* the first one it reads.  It is the answer to the request it is blocked on,
\* and a worker that is not blocked has none waiting.
AckAnswersRequest ==
    \A w \in Worker :
        LET c == proc[w].conn IN
        c # None =>
            IF proc[w].awaiting = None THEN acks[c] = <<>>
            ELSE Len(acks[c]) <= 1 /\ (acks[c] # <<>> => acks[c][1].re = proc[w].awaiting)

\* What reserve() reported to an application stays true until it asks for the
\* release: the reservation is active, in its name, whatever other workers,
\* restarts and epochs do.
GrantedIsHeld ==
    \A w \in Worker : \A id \in proc[w].held :
        /\ id \in DOMAIN reservations
        /\ reservations[id].active /\ ~reservations[id].released
        /\ reservations[id].boot = proc[w].boot

\* A stored path is never replaced by one published under an older epoch.
NoPathRollback ==
    [][\A p \in DOMAIN paths : p \in DOMAIN paths' /\ paths[p].epoch <= paths'[p].epoch]_vars

\* What the answer to a report claims is still so: one at least as new is stored,
\* and if the report was accepted and nothing newer came, it is that very report and
\* not another worker's under the same id and generation.
Verdict(f, ok) ==
    f.kind = "MEASUREMENT" =>
        /\ f.id \in DOMAIN measurements
        /\ f.generation <= measurements[f.id].generation
        /\ ok /\ f.generation = measurements[f.id].generation
              => measurements[f.id].boot = f.boot

\* ingest and the answer are two steps with no lock between them, and workers that
\* report under one id race there; every answer is right until its worker reads it.
ReportedIsStored ==
    \A c \in Conn :
        /\ thread[c].at = "reply" => Verdict(thread[c].re, thread[c].ok)
        /\ \A i \in DOMAIN acks[c] : Verdict(acks[c][i].re, acks[c][i].ok)

\* Some worker process still runs under boot b, or a request it sent is on its way.
BootCanAct(b) ==
    \/ \E w \in Worker : proc[w].boot = b
    \/ \E c \in Conn : \E i \in DOMAIN inbox[c] :
          inbox[c][i].kind = "RELEASE" /\ inbox[c][i].boot = b

\* There is no expiry and no reclaim: once its boot is gone, an active
\* reservation holds its bytes for ever, and no other worker can free them.
OrphansStay ==
    [][\A id \in DOMAIN reservations :
          reservations[id].active /\ ~BootCanAct(reservations[id].boot)
              => reservations'[id].active]_vars

\* A request the coordinator can decode, from a worker registered on its
\* connection or not needing to be.
Answerable(w) ==
    LET f == proc[w].awaiting
        c == proc[w].conn
    IN  /\ f # None
        /\ Decodable(f)
        /\ f.kind \in NeedsRegistration => thread[c].as # None

\* Every such request returns (with its ACK, or with an error when the
\* connection is closed) unless the coordinator is stopped first.
RequestsReturn ==
    \A w \in Worker : Answerable(w) ~> (proc[w].awaiting = None \/ stop)

\* After request_stop a thread whose worker is gone ends, so that the
\* destructor's join returns once every worker has left.
StoppedThreadsEnd ==
    \A c \in Conn :
        (stop /\ peer[c] # "open" /\ thread[c].at = "recv") ~> (thread[c].at = "ended")

-----------------------------------------------------------------------------
(* Claims of the documentation that the code does not meet *)

\* "Read frames until an ACK arrives (bounded loop)": a request of a
\* registered worker returns.
EveryRequestReturns ==
    \A w \in Worker :
        (proc[w].awaiting # None /\ thread[proc[w].conn].as # None)
            ~> (proc[w].awaiting = None \/ stop)

\* A later incarnation of this connection's worker has registered.
Superseded(c) ==
    /\ thread[c].as # None
    /\ workers[thread[c].as.worker].boot > thread[c].as.boot

\* "old measurements and reservations cannot mutate current state": a frame
\* read on a superseded connection changes nothing.
SupersededIsFenced ==
    [][\A c \in Conn :
          Superseded(c) /\ inbox'[c] # inbox[c] => UNCHANGED <<paths, measurements, reservations>>]_vars

\* "stale-boot ... frames are rejected" (protocol.hpp): a worker's entry never goes
\* back to a boot that was replaced.  A REGISTER is taken as it comes.
NoBootRollback ==
    [][\A w \in DOMAIN workers : workers'[w].boot >= workers[w].boot]_vars
=============================================================================
