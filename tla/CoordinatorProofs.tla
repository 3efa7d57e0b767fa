-------------------------- MODULE CoordinatorProofs --------------------------
(***************************************************************************)
(* What the coordinator and its workers guarantee, for any number of       *)
(* workers, connections, boots, epochs, requests and identities.           *)
(*                                                                         *)
(* Neither AckAnswersRequest nor GrantedIsHeld is inductive.  An ACK names *)
(* no request, so that it is the right one follows only from where a       *)
(* request can be (RequestInv): in its queue, with its handler, in one     *)
(* ACK, or lost.  That a granted reservation stays with its holder needs   *)
(* that a RELEASE still in a queue was sent by the worker now on that      *)
(* connection or by a boot that is gone (BootInv), that a worker asks only *)
(* in its own name and only for what it no longer holds (OwnInv), and that *)
(* a success on its way to a worker is already true (GrantInv).            *)
(*                                                                         *)
(* The actions are first reduced to few kinds of step (ProtocolStep): what *)
(* a step does to the queues, threads and workers is then proved once for  *)
(* each kind.                                                              *)
(***************************************************************************)
EXTENDS Coordinator, FiniteSetTheorems, SequenceTheorems, TLAPS

-----------------------------------------------------------------------------
(* The inductive invariant *)

Place == {"unused", "backlog", "starting", "recv", "reply", "ended"}

Thread == [at : Place, as : Registration \cup {None}, re : Frames \cup {None}, ok : BOOLEAN]

Answer == [re : Frames, epoch : Epoch, ok : BOOLEAN]

Process ==
    [boot : Boot, conn : Conn \cup {None}, epoch : Epoch, awaiting : Frames \cup {None},
     held : SUBSET ReservationId]

\* Shapes of the threads, connections and workers; no connection has more than
\* one frame under way.
ShapeInv ==
    /\ epoch \in Epoch
    /\ thread \in [Conn -> Thread]
    /\ \A c \in Conn : thread[c].at = "reply" => thread[c].re # None
    /\ peer \in [Conn -> {"open", "fin", "rst"}]
    /\ inbox \in [Conn -> Seq(Frames)]
    /\ \A c \in Conn : Len(inbox[c]) <= 1
    /\ acks \in [Conn -> Seq(Answer)]
    /\ proc \in [Worker -> Process]
    /\ next_boot \in 1 .. (MaxBoot + 1)

\* The request f (None: no request) of the worker on connection c is in one
\* place: with the thread, with its handler, in the ACK that answers it, or
\* lost.
Under(c, f) ==
    IF f = None
    THEN acks[c] = <<>> /\ thread[c].at # "reply" /\ (inbox[c] = <<>> \/ thread[c].at = "ended")
    ELSE \/ inbox[c] = <<f>> /\ acks[c] = <<>> /\ thread[c].at # "reply"
         \/ inbox[c] = <<>> /\ acks[c] = <<>> /\ (thread[c].at = "reply" => thread[c].re = f)
         \/ inbox[c] = <<>> /\ thread[c].at # "reply" /\ Len(acks[c]) = 1 /\ acks[c][1].re = f
         \/ thread[c].at = "ended" /\ acks[c] = <<>>

FreshInv ==
    \A c \in Conn : thread[c].at = "unused" => inbox[c] = <<>> /\ acks[c] = <<>>

RequestInv ==
    \A w \in Worker :
        IF proc[w].conn = None THEN proc[w].awaiting = None
        ELSE thread[proc[w].conn].at # "unused" /\ Under(proc[w].conn, proc[w].awaiting)

OwnerInv ==
    \A v, w \in Worker : v # w /\ proc[v].conn # None => proc[v].conn # proc[w].conn

\* No two workers run under one boot, and a RELEASE still to be read comes from
\* the worker now on that connection or from a boot that is gone.
BootInv ==
    /\ \A w \in Worker : proc[w].boot < next_boot
    /\ \A v, w \in Worker : v # w => proc[v].boot # proc[w].boot
    /\ \A c \in Conn : inbox[c] # <<>> /\ Frame(c).kind = "RELEASE" =>
          /\ Frame(c).boot < next_boot
          /\ thread[c].at # "ended" =>
                \A w \in Worker : Frame(c).boot = proc[w].boot => proc[w].conn = c

\* Requests are made in the name of the worker that waits for them, and what it
\* asks to release it no longer holds.
Own(w, f, h) ==
    /\ f.kind = "RESERVE" => f.req.boot = proc[w].boot
    /\ f.kind = "RELEASE" => f.boot = proc[w].boot /\ f.id \notin h

OwnInv ==
    \A w \in Worker : proc[w].awaiting # None => Own(w, proc[w].awaiting, proc[w].held)

Holds(b, id) ==
    /\ id \in DOMAIN reservations
    /\ reservations[id].active /\ ~reservations[id].released
    /\ reservations[id].boot = b

\* A success that is on its way to a worker is already true.
GrantInv ==
    \A w \in Worker :
        LET c == proc[w].conn
            f == proc[w].awaiting
        IN  f # None /\ f.kind = "RESERVE" =>
                /\ thread[c].at = "reply" /\ thread[c].ok => Holds(proc[w].boot, f.id)
                /\ acks[c] # <<>> /\ acks[c][1].ok => Holds(proc[w].boot, f.id)

ProtocolInv == ShapeInv /\ FreshInv /\ RequestInv /\ OwnerInv /\ BootInv /\ OwnInv

-----------------------------------------------------------------------------
(* What a step does to the connections, in fewer cases than there are actions *)

\* Thread c goes on from one of the places from to one of the places to.
Goes(c, from, to) ==
    /\ thread[c].at \in from
    /\ thread' = [thread EXCEPT ![c] = thread'[c]]
    /\ thread'[c] \in Thread
    /\ thread'[c].at \in to

Takes(c) ==
    /\ inbox[c] # <<>>
    /\ inbox' = Consumed(c)

\* It reads nothing and answers nothing.
Quiet(c) ==
    /\ Goes(c, {"backlog", "starting", "recv"}, {"starting", "recv", "ended"})
    /\ UNCHANGED <<peer, inbox, acks, registry>>

\* It reads a frame and drops it.
Drops(c) ==
    /\ Goes(c, {"recv"}, {"recv", "ended"}) /\ Takes(c)
    /\ UNCHANGED <<peer, acks, registry>>

\* It reads a frame, and will answer it in another step.
Handles(c) ==
    /\ Goes(c, {"recv"}, {"reply"}) /\ Takes(c)
    /\ thread'[c].re = Frame(c)
    /\ UNCHANGED <<peer, acks>>
    /\ \/ /\ Frame(c).kind = "RESERVE" /\ Frame(c) \in Frames
          /\ Registry!Reserve(Frame(c).id, Frame(c).req)
          /\ thread'[c].ok = (Registry!ReserveResult(Frame(c).id, Frame(c).req) = "OK")
       \/ /\ Frame(c).kind = "RELEASE" /\ Frame(c) \in Frames
          /\ Registry!Release(Frame(c).id, Frame(c).boot, Frame(c).generation, Frame(c).epoch)
       \/ /\ Frame(c).kind \notin {"RESERVE", "RELEASE"}
          /\ UNCHANGED registry

\* It reads a frame and answers it at once.
Answers(c) ==
    /\ Goes(c, {"recv"}, {"recv", "ended"}) /\ Takes(c)
    /\ Frame(c).kind \notin {"RESERVE", "RELEASE"}
    /\ Reply(c, Frame(c), TRUE)
    /\ UNCHANGED registry

\* It answers the frame it has handled.
Replies(c) ==
    /\ Goes(c, {"reply"}, {"recv", "ended"})
    /\ Reply(c, thread[c].re, thread[c].ok)
    /\ UNCHANGED <<inbox, registry>>

ServerStep(c) ==
    /\ Quiet(c) \/ Drops(c) \/ Handles(c) \/ Answers(c) \/ Replies(c)
    /\ UNCHANGED <<epoch, client, server>>

\* A call, with what it sends.
CallStep(w) ==
    \E f \in Frames, h \in SUBSET proc[w].held : Own(w, f, h) /\ Send(w, f, h)

\* The owner does nothing to the connections, except when it closes the listener.
OwnerStep ==
    /\ UNCHANGED <<peer, inbox, acks, client, registry>>
    /\ epoch' \in Epoch /\ epoch <= epoch'
    /\ \/ UNCHANGED thread
       \/ thread' = [c \in Conn |-> IF thread[c].at = "backlog" THEN EndedThread ELSE thread[c]]

\* Every step is one of these, or changes nothing at all (OwnerStep allows that).
ProtocolStep ==
    \/ \E w \in Worker : \/ Connect(w) \/ CallStep(w) \/ ReceiveAck(w)
                         \/ AwaitFails(w) \/ Close(w) \/ Restart(w)
    \/ \E c \in Conn : ServerStep(c)
    \/ OwnerStep

-----------------------------------------------------------------------------
(* Lemmas *)

\* A queue of at most one frame.
LEMMA OneFrame ==
    ASSUME NEW S, NEW s \in Seq(S), Len(s) <= 1, s # <<>>
    PROVE  Head(s) \in S /\ s = <<Head(s)>> /\ Tail(s) = <<>> /\ DOMAIN s = {1} /\ s[1] = Head(s)
<1>1. Len(s) \in Nat \ {0}
  BY EmptySeq, Zenon
<1>2. Len(s) = 1
  BY <1>1
<1>3. Head(s) \in S /\ Tail(s) \in Seq(S) /\ Len(Tail(s)) = 0
  BY <1>2, HeadTailProperties
<1>4. Tail(s) = <<>>
  BY <1>3, EmptySeq
<1>5. DOMAIN s = 1 .. 1 /\ s[1] = Head(s)
  BY <1>2, LenProperties
<1>6. s = <<Head(s)>>
  BY <1>2, <1>5
<1> QED BY <1>3, <1>4, <1>5, <1>6

\* An answer is added to a queue.
LEMMA AddAnswer ==
    ASSUME NEW S, NEW s \in Seq(S), NEW a \in S
    PROVE  /\ Append(s, a) \in Seq(S)
           /\ s = <<>> => Append(s, a) = <<a>>
<1>1. Append(s, a) \in Seq(S)
  BY AppendProperties
<1>2. Append(<<>>, a) = <<a>>
  OBVIOUS
<1> QED BY <1>1, <1>2

\* The fields of a frame of each kind, as its handler reads them.
LEMMA FrameKind ==
    ASSUME NEW f \in Frames
    PROVE  /\ f # None
           /\ f.kind = "RESERVE" => f.id \in ReservationId /\ f.req \in Registry!Request
           /\ f.kind = "RELEASE" => /\ f.id \in ReservationId /\ f.boot \in Boot
                                    /\ f.generation \in Generation /\ f.epoch \in Epoch
           /\ f.kind = "REGISTER" => f.worker \in Worker /\ f.boot \in Boot
           /\ f.kind \in {"INVENTORY", "PATH_SNAPSHOT"} =>
                f.nodes \subseteq NodeId /\ f.paths \subseteq PathId
           /\ f.kind = "INVENTORY" => f.paths = {}
           /\ f.kind = "PATH_SNAPSHOT" => f.boot \in Boot /\ f.epoch \in Epoch
           /\ f.kind = "MEASUREMENT" => /\ f.id \in MeasurementId /\ f.boot \in Boot
                                        /\ f.generation \in MeasurementGeneration
BY NoneAssumption DEF Frames

\* The locals a connection thread starts, goes on and ends with.
LEMMA ThreadTypes ==
    /\ UnusedThread \in Thread /\ EndedThread \in Thread /\ EndedThread.at = "ended"
    /\ UnusedThread.at = "unused"
    /\ \A as \in Registration \cup {None} :
          AfterFrame(as) \in Thread /\ AfterFrame(as).at \in {"recv", "ended"}
BY DEF UnusedThread, EndedThread, AfterFrame, Thread, Place

\* Every handler of handle_frame, and every other step of a thread, is of one of the
\* five kinds.
LEMMA ServeIsServerStep ==
    ASSUME ShapeInv, NEW c \in Conn, Accept(c) \/ Serve(c)
    PROVE  ServerStep(c)
<1> DEFINE f == Frame(c)
<1>1. thread[c] \in Thread /\ thread[c].as \in Registration \cup {None}
  BY DEF ShapeInv, Thread
<1>2. inbox[c] # <<>> => f \in Frames
  BY OneFrame DEF ShapeInv, Frame
<1>3. CASE Accept(c)
  BY <1>1, <1>3 DEF Accept, ServerStep, Quiet, Goes, Thread, Place, ShapeInv, state
<1>4. CASE StartThread(c)
  BY <1>1, <1>4, ThreadTypes DEF StartThread, ServerStep, Quiet, Goes, ShapeInv, state
<1>5. CASE EndThread(c)
  BY <1>1, <1>5, ThreadTypes DEF EndThread, ServerStep, Quiet, Goes, ShapeInv, state
<1>6. CASE DropFrame(c)
  BY <1>1, <1>6, ThreadTypes DEF DropFrame, ServerStep, Drops, Takes, Goes, ShapeInv, state
<1>7. CASE SendReply(c)
  BY <1>1, <1>7, ThreadTypes DEF SendReply, ServerStep, Replies, Goes, ShapeInv, state
<1>8. CASE HandleRegister(c)
  <2>1. [worker |-> f.worker, boot |-> f.boot] \in Registration
    BY <1>2, <1>8, FrameKind DEF HandleRegister, Reading, Registration
  <2> QED BY <1>1, <1>8, <2>1, ThreadTypes
          DEF HandleRegister, Reading, ServerStep, Answers, Takes, Goes, ShapeInv, state
<1>9. CASE HandleSnapshot(c)
  BY <1>1, <1>9, ThreadTypes
  DEF HandleSnapshot, Reading, ServerStep, Answers, Takes, Goes, ShapeInv, state
<1>10. ASSUME NEW ok \in BOOLEAN, thread[c].at = "recv", inbox[c] # <<>>, WillReply(c, ok)
       PROVE  Goes(c, {"recv"}, {"reply"}) /\ Takes(c) /\ thread'[c].re = f /\ thread'[c].ok = ok
  BY <1>1, <1>2, <1>10 DEF WillReply, Goes, Takes, Thread, Place, ShapeInv
<1>11. CASE HandleMeasurement(c)
  <2>1. Newer(f) \in BOOLEAN
    BY DEF Newer
  <2> QED BY <1>10, <1>11, <2>1 DEF HandleMeasurement, Reading, ServerStep, Handles
<1>12. CASE HandleReserve(c)
  <2>1. (Registry!ReserveResult(f.id, f.req) = "OK") \in BOOLEAN
    OBVIOUS
  <2> QED BY <1>2, <1>10, <1>12, <2>1 DEF HandleReserve, Reading, ServerStep, Handles, state
<1>13. CASE HandleRelease(c)
  <2>1. (Registry!ReleaseResult(f.id, ReleaseBoot(f), f.generation, f.epoch) = "OK") \in BOOLEAN
    OBVIOUS
  <2> QED BY <1>2, <1>10, <1>13, <2>1
          DEF HandleRelease, Reading, ServerStep, Handles, state, ReleaseBoot
<1>14. CASE HandleHeartbeat(c)
  BY <1>10, <1>14 DEF HandleHeartbeat, Reading, ServerStep, Handles, state
<1>15. CASE HandleRevalidate(c)
  BY <1>10, <1>15 DEF HandleRevalidate, Reading, ServerStep, Handles, state
<1> QED
  BY <1>3, <1>4, <1>5, <1>6, <1>7, <1>8, <1>9, <1>11, <1>12, <1>13, <1>14, <1>15 DEF Serve

\* Every call of a worker sends one frame, in the worker's own name, and a release
\* gives up what it names before it is sent.
LEMMA CallIsCallStep ==
    ASSUME ShapeInv, NEW w \in Worker, Call(w)
    PROVE  CallStep(w)
<1> USE DEF Send
<1>1. proc[w] \in Process /\ proc[w].boot \in Boot /\ proc[w].epoch \in Epoch
  BY DEF ShapeInv, Process
<1>2. CASE RegisterSelf(w)
  BY <1>1, <1>2 DEF RegisterSelf, CallStep, Own, Frames
<1>3. CASE Heartbeat(w) \/ Revalidate(w)
  BY <1>1, <1>3 DEF Heartbeat, Revalidate, CallStep, Own, Frames
<1>4. ASSUME NEW ns \in SUBSET NodeId, SendInventory(w, ns)
      PROVE  CallStep(w)
  BY <1>1, <1>4 DEF SendInventory, CallStep, Own, Frames
<1>5. ASSUME NEW ps \in SUBSET PathId, SendPathSnapshot(w, ps)
      PROVE  CallStep(w)
  BY <1>1, <1>5 DEF SendPathSnapshot, CallStep, Own, Frames
<1>6. ASSUME NEW m \in MeasurementId, NEW g \in MeasurementGeneration, SendMeasurement(w, m, g)
      PROVE  CallStep(w)
  BY <1>1, <1>6 DEF SendMeasurement, CallStep, Own, Frames
<1>7. ASSUME NEW id \in ReservationId, NEW p \in PathId, NEW n \in Bytes, ReserveBytes(w, id, p, n)
      PROVE  CallStep(w)
  BY <1>1, <1>7 DEF ReserveBytes, CallStep, Own, Frames, Registry!Request, Generation
<1>8. ASSUME NEW id \in ReservationId, ReleaseId(w, id)
      PROVE  CallStep(w)
  BY <1>1, <1>8 DEF ReleaseId, CallStep, Own, Frames, Generation
<1> QED
  BY <1>2, <1>3, <1>4, <1>5, <1>6, <1>7, <1>8 DEF Call

\* Every step of the system is of one of the kinds.
LEMMA NextIsProtocolStep ==
    ASSUME ShapeInv, [Next]_vars
    PROVE  ProtocolStep
<1> USE DEF ProtocolStep, OwnerStep, state, server
<1>0. epoch \in Int /\ epoch <= epoch /\ epoch \in Epoch
  BY CoordinatorAssumption DEF ShapeInv, Epoch
<1>1. CASE AdvanceEpoch
  BY <1>1, CoordinatorAssumption DEF AdvanceEpoch, ShapeInv, Epoch
<1>2. CASE RevalidateAll \/ RequestStop
  BY <1>0, <1>2 DEF RevalidateAll, RequestStop
<1>3. CASE Destroy
  BY <1>0, <1>3 DEF Destroy
<1>4. CASE UNCHANGED vars
  BY <1>0, <1>4 DEF vars
<1>5. ASSUME NEW w \in Worker, Connect(w) \/ Call(w) \/ Return(w) \/ Close(w) \/ Restart(w)
      PROVE  ProtocolStep
  BY <1>5, CallIsCallStep DEF Return
<1>6. ASSUME NEW c \in Conn, Accept(c) \/ Serve(c)
      PROVE  ProtocolStep
  BY <1>6, ServeIsServerStep
<1> QED
  BY <1>1, <1>2, <1>3, <1>4, <1>5, <1>6 DEF Next

\* What an answer leaves in the queue of ACKs.
LEMMA ReplyEffect ==
    ASSUME ShapeInv, NEW c \in Conn, NEW f \in Frames, NEW ok \in BOOLEAN, Reply(c, f, ok)
    PROVE  /\ peer' \in [Conn -> {"open", "fin", "rst"}]
           /\ acks' \in [Conn -> Seq(Answer)]
           /\ \A d \in Conn \ {c} : acks'[d] = acks[d]
           /\ \/ acks'[c] = acks[c]
              \/ acks'[c] = Append(acks[c], Ack(f, ok))
           /\ acks[c] = <<>> => acks'[c] = <<>> \/ (Len(acks'[c]) = 1 /\ acks'[c][1] = Ack(f, ok))
<1>1. Ack(f, ok) \in Answer
  BY DEF Ack, Answer, ShapeInv
<1>2. /\ acks[c] \in Seq(Answer)
      /\ Append(acks[c], Ack(f, ok)) \in Seq(Answer)
      /\ acks[c] = <<>> => Append(acks[c], Ack(f, ok)) = <<Ack(f, ok)>>
  BY <1>1, AddAnswer DEF ShapeInv
<1>3. CASE peer[c] = "open"
  <2>1. acks' = [acks EXCEPT ![c] = Append(acks[c], Ack(f, ok))] /\ peer' = peer
    BY <1>3 DEF Reply
  <2>2. /\ acks' \in [Conn -> Seq(Answer)]
        /\ \A d \in Conn \ {c} : acks'[d] = acks[d]
        /\ acks'[c] = Append(acks[c], Ack(f, ok))
    BY <1>2, <2>1 DEF ShapeInv
  <2>3. Len(<<Ack(f, ok)>>) = 1 /\ <<Ack(f, ok)>>[1] = Ack(f, ok)
    OBVIOUS
  <2> QED BY <1>2, <2>1, <2>2, <2>3 DEF ShapeInv
<1>4. CASE peer[c] # "open"
  BY <1>4 DEF Reply, ShapeInv
<1> QED BY <1>3, <1>4

\* What read_frame takes from a queue, and what it leaves.
LEMMA TakesEffect ==
    ASSUME ShapeInv, NEW c \in Conn, Takes(c)
    PROVE  /\ Frame(c) \in Frames
           /\ inbox[c] = <<Frame(c)>>
           /\ inbox' \in [Conn -> Seq(Frames)]
           /\ inbox'[c] = <<>>
           /\ \A d \in Conn \ {c} : inbox'[d] = inbox[d]
           /\ \A d \in Conn : Len(inbox'[d]) <= 1
<1>1. Frame(c) \in Frames /\ inbox[c] = <<Frame(c)>> /\ Tail(inbox[c]) = <<>>
  BY OneFrame DEF ShapeInv, Takes, Frame
<1>2. inbox' = [inbox EXCEPT ![c] = <<>>]
  BY <1>1 DEF Takes, Consumed
<1> QED BY <1>1, <1>2 DEF ShapeInv

\* Shapes are kept, and a worker that is blocked on a request sends no second frame.
LEMMA ShapeKept ==
    ASSUME ProtocolInv, ProtocolStep
    PROVE  ShapeInv'
<1> USE NoneAssumption, CoordinatorAssumption
<1>0. ShapeInv
  BY DEF ProtocolInv
<1>1. ASSUME NEW w \in Worker, Connect(w)
      PROVE  ShapeInv'
  <2>1. PICK c \in Conn : /\ thread' = [thread EXCEPT ![c].at = "backlog"]
                          /\ peer' = [peer EXCEPT ![c] = "open"]
                          /\ proc' = [proc EXCEPT ![w].conn = c]
    BY <1>1 DEF Connect
  <2>2. thread' \in [Conn -> Thread] /\ \A d \in Conn : thread'[d].at = "reply" => thread'[d].re # None
    <3>0. thread[c] \in Thread /\ "backlog" \in Place
      BY <1>0 DEF ShapeInv, Place
    <3>1. [thread[c] EXCEPT !.at = "backlog"] \in Thread
      BY <3>0 DEF Thread
    <3>2. thread' = [thread EXCEPT ![c] = [thread[c] EXCEPT !.at = "backlog"]]
      BY <1>0, <2>1 DEF ShapeInv
    <3>3. [thread[c] EXCEPT !.at = "backlog"].at = "backlog"
      BY <1>0 DEF ShapeInv, Thread
    <3>4. thread' \in [Conn -> Thread]
      BY <1>0, <3>1, <3>2 DEF ShapeInv
    <3>5. \A d \in Conn : thread'[d].at = "reply" => thread'[d] = thread[d]
      BY <1>0, <3>2, <3>3 DEF ShapeInv
    <3> QED BY <1>0, <3>4, <3>5 DEF ShapeInv
  <2>3. peer' \in [Conn -> {"open", "fin", "rst"}] /\ proc' \in [Worker -> Process]
    BY <1>0, <2>1 DEF ShapeInv, Process
  <2> QED BY <1>0, <1>1, <2>2, <2>3 DEF Connect, ShapeInv, state
<1>2. ASSUME NEW w \in Worker, NEW f \in Frames, NEW h \in SUBSET proc[w].held, Send(w, f, h)
      PROVE  ShapeInv'
  <2>1. proc' \in [Worker -> Process]
    <3>1. proc' = [proc EXCEPT ![w] = [proc[w] EXCEPT !.awaiting = f, !.held = h]]
      BY <1>0, <1>2 DEF Send, ShapeInv
    <3>2. [proc[w] EXCEPT !.awaiting = f, !.held = h] \in Process
      BY <1>0 DEF ShapeInv, Process
    <3> QED BY <1>0, <3>1, <3>2 DEF ShapeInv
  <2>2. inbox' \in [Conn -> Seq(Frames)] /\ \A c \in Conn : Len(inbox'[c]) <= 1
    <3> DEFINE c == proc[w].conn
    <3>1. c \in Conn /\ proc[w].awaiting = None
      BY <1>0, <1>2 DEF Send, ShapeInv, Process
    <3>2. CASE Closed(c)
      BY <1>0, <1>2, <3>1, <3>2 DEF Send, ShapeInv
    <3>3. CASE ~Closed(c)
      <4>1. inbox[c] = <<>>
        BY <3>1, <3>3 DEF ProtocolInv, RequestInv, Under, Closed
      <4>2. inbox' = [inbox EXCEPT ![c] = <<f>>] /\ <<f>> \in Seq(Frames) /\ Len(<<f>>) <= 1
        BY <1>2, <3>3, <4>1, AddAnswer DEF Send
      <4> QED BY <1>0, <3>1, <4>2 DEF ShapeInv
    <3> QED BY <3>2, <3>3
  <2> QED BY <1>0, <1>2, <2>1, <2>2 DEF Send, ShapeInv, state
<1>3. ASSUME NEW w \in Worker, ReceiveAck(w)
      PROVE  ShapeInv'
  <2> DEFINE c == proc[w].conn
  <2>1. c \in Conn /\ acks[c] # <<>>
    BY <1>0, <1>3 DEF ProtocolInv, RequestInv, ReceiveAck, ShapeInv, Process
  <2>2. Head(acks[c]) \in Answer /\ Tail(acks[c]) \in Seq(Answer)
    BY <1>0, <2>1, HeadTailProperties DEF ShapeInv
  <2>3. acks' \in [Conn -> Seq(Answer)]
    BY <1>0, <1>3, <2>2 DEF ReceiveAck, ShapeInv
  <2>4. /\ proc[w] \in Process /\ proc[w].awaiting \in Frames
        /\ proc[w].awaiting.kind = "RESERVE" => proc[w].awaiting.id \in ReservationId
    BY <1>0, <1>3, FrameKind DEF ReceiveAck, ShapeInv, Process
  <2>5. proc' \in [Worker -> Process]
    BY <1>0, <1>3, <2>2, <2>4 DEF ReceiveAck, ShapeInv, Process, Answer
  <2> QED BY <1>0, <1>3, <2>3, <2>5 DEF ReceiveAck, ShapeInv, state
<1>4. ASSUME NEW w \in Worker, AwaitFails(w)
      PROVE  ShapeInv'
  BY <1>0, <1>4 DEF AwaitFails, ShapeInv, Process, state
<1>5. ASSUME NEW w \in Worker, Close(w)
      PROVE  ShapeInv'
  <2>1. proc' \in [Worker -> Process]
    <3>1. proc' = [proc EXCEPT ![w] = [proc[w] EXCEPT !.conn = None]]
      BY <1>0, <1>5 DEF Close, ShapeInv
    <3>2. [proc[w] EXCEPT !.conn = None] \in Process
      BY <1>0 DEF ShapeInv, Process
    <3> QED BY <1>0, <3>1, <3>2 DEF ShapeInv
  <2>2. peer' \in [Conn -> {"open", "fin", "rst"}]
    BY <1>0, <1>5 DEF Close, ShapeInv
  <2> QED BY <1>0, <1>5, <2>1, <2>2 DEF Close, ShapeInv, state
<1>6. ASSUME NEW w \in Worker, Restart(w)
      PROVE  ShapeInv'
  <2>1. FreshProc(next_boot) \in Process /\ proc' \in [Worker -> Process] /\ next_boot' \in 1 .. (MaxBoot + 1)
    BY <1>0, <1>6 DEF Restart, FreshProc, Process, ShapeInv, Boot, Epoch
  <2>2. peer' \in [Conn -> {"open", "fin", "rst"}]
    BY <1>0, <1>6 DEF Restart, ShapeInv
  <2>3. inbox' \in [Conn -> Seq(Frames)] /\ \A c \in Conn : Len(inbox'[c]) <= 1
    <3>1. inbox' = inbox \/ inbox' = [inbox EXCEPT ![proc[w].conn] = <<>>]
      BY <1>6 DEF Restart
    <3>2. <<>> \in Seq(Frames) /\ Len(<<>>) <= 1
      BY EmptySeq
    <3>3. inbox' \in [Conn -> Seq(Frames)]
      BY <1>0, <3>1, <3>2 DEF ShapeInv
    <3>4. ASSUME NEW c \in Conn PROVE inbox'[c] = inbox[c] \/ inbox'[c] = <<>>
      BY <1>0, <3>1 DEF ShapeInv
    <3> QED BY <1>0, <3>2, <3>3, <3>4 DEF ShapeInv
  <2> QED BY <1>0, <1>6, <2>1, <2>2, <2>3 DEF Restart, ShapeInv, state
<1>7. ASSUME NEW c \in Conn, ServerStep(c)
      PROVE  ShapeInv'
  <2>1. ASSUME NEW from, NEW to, Goes(c, from, to), thread'[c].at = "reply" => thread'[c].re # None
        PROVE  thread' \in [Conn -> Thread] /\ \A d \in Conn : thread'[d].at = "reply" => thread'[d].re # None
    BY <1>0, <2>1 DEF Goes, ShapeInv
  <2>2. CASE Quiet(c)
    BY <1>0, <1>7, <2>1, <2>2 DEF ServerStep, Quiet, Goes, ShapeInv, client
  <2>3. CASE Drops(c)
    BY <1>0, <1>7, <2>1, <2>3, TakesEffect DEF ServerStep, Drops, Goes, ShapeInv, client
  <2>4. CASE Handles(c)
    BY <1>0, <1>7, <2>1, <2>4, TakesEffect DEF ServerStep, Handles, ShapeInv, client
  <2>5. CASE Answers(c)
    BY <1>0, <1>7, <2>1, <2>5, TakesEffect, ReplyEffect
    DEF ServerStep, Answers, Goes, ShapeInv, client
  <2>6. CASE Replies(c)
    <3>1. thread[c].re \in Frames /\ thread[c].ok \in BOOLEAN
      BY <1>0, <2>6 DEF Replies, Goes, ShapeInv, Thread
    <3>2. peer' \in [Conn -> {"open", "fin", "rst"}] /\ acks' \in [Conn -> Seq(Answer)]
      BY <1>0, <2>6, <3>1, ReplyEffect DEF Replies
    <3>3. Goes(c, {"reply"}, {"recv", "ended"}) /\ thread'[c].at # "reply"
      BY <2>6 DEF Replies, Goes
    <3> QED BY <1>0, <1>7, <2>1, <2>6, <3>2, <3>3 DEF ServerStep, Replies, ShapeInv, client
  <2> QED BY <1>7, <2>2, <2>3, <2>4, <2>5, <2>6 DEF ServerStep
<1>8. CASE OwnerStep
  <2>1. thread' \in [Conn -> Thread] /\ \A c \in Conn : thread'[c].at = "reply" => thread'[c].re # None
    BY <1>0, <1>8, ThreadTypes DEF OwnerStep, ShapeInv
  <2> QED BY <1>0, <1>8, <2>1 DEF OwnerStep, ShapeInv, client
<1> QED
  BY <1>1, <1>2, <1>3, <1>4, <1>5, <1>6, <1>7, <1>8 DEF ProtocolStep, CallStep

\* A thread leaves the other connections alone.
LEMMA ServerOthers ==
    ASSUME ShapeInv, NEW c \in Conn, ServerStep(c), NEW d \in Conn, d # c
    PROVE  thread'[d] = thread[d] /\ inbox'[d] = inbox[d] /\ acks'[d] = acks[d]
<1>1. thread'[d] = thread[d]
  BY DEF ServerStep, Quiet, Drops, Handles, Answers, Replies, Goes, ShapeInv
<1>2. inbox'[d] = inbox[d]
  BY TakesEffect DEF ServerStep, Quiet, Drops, Handles, Answers, Replies
<1>3. acks'[d] = acks[d]
  <2>1. CASE Answers(c)
    BY <2>1, TakesEffect, ReplyEffect DEF Answers
  <2>2. CASE Replies(c)
    <3>1. thread[c].re \in Frames /\ thread[c].ok \in BOOLEAN
      BY <2>2 DEF Replies, Goes, ShapeInv, Thread
    <3> QED BY <2>2, <3>1, ReplyEffect DEF Replies
  <2> QED BY <2>1, <2>2 DEF ServerStep, Quiet, Drops, Handles
<1> QED BY <1>1, <1>2, <1>3

\* A thread moves the request of its worker on, or loses it; it never makes up
\* an answer.
LEMMA ServerKeepsUnder ==
    ASSUME ShapeInv, NEW c \in Conn, ServerStep(c), NEW f \in Frames \cup {None}, Under(c, f)
    PROVE  Under(c, f)' /\ thread'[c].at # "unused"
<1>1. CASE Quiet(c)
  BY <1>1 DEF Quiet, Goes, Under
<1>2. CASE Drops(c)
  BY <1>2, TakesEffect DEF Drops, Goes, Under
<1>3. CASE Handles(c)
  <2>1. inbox[c] = <<Frame(c)>> /\ inbox'[c] = <<>> /\ acks' = acks
    BY <1>3, TakesEffect DEF Handles
  <2>2. thread[c].at = "recv" /\ thread'[c].at = "reply" /\ thread'[c].re = Frame(c)
    BY <1>3 DEF Handles, Goes
  <2>3. f # None /\ f = Frame(c) /\ acks[c] = <<>>
    BY <2>1, <2>2 DEF Under
  <2> QED BY <2>1, <2>2, <2>3 DEF Under
<1>4. CASE Answers(c)
  <2>1. inbox[c] = <<Frame(c)>> /\ inbox'[c] = <<>> /\ Frame(c) \in Frames
    BY <1>4, TakesEffect DEF Answers
  <2>2. thread[c].at = "recv" /\ thread'[c].at \in {"recv", "ended"}
    BY <1>4 DEF Answers, Goes
  <2>3. f # None /\ f = Frame(c) /\ acks[c] = <<>>
    BY <2>1, <2>2 DEF Under
  <2>4. acks'[c] = <<>> \/ (Len(acks'[c]) = 1 /\ acks'[c][1].re = f)
    <3>1. Reply(c, f, TRUE) /\ f \in Frames /\ Ack(f, TRUE).re = f
      BY <1>4, <2>1, <2>3 DEF Answers, Ack
    <3> QED BY <2>3, <3>1, ReplyEffect
  <2> QED BY <2>1, <2>2, <2>3, <2>4 DEF Under
<1>5. CASE Replies(c)
  <2>1. thread[c].at = "reply" /\ thread'[c].at \in {"recv", "ended"} /\ inbox' = inbox
    BY <1>5 DEF Replies, Goes
  <2>2. thread[c].re \in Frames /\ thread[c].ok \in BOOLEAN
    BY <1>5 DEF Replies, Goes, ShapeInv, Thread
  <2>3. f # None /\ thread[c].re = f /\ acks[c] = <<>> /\ inbox[c] = <<>>
    BY <2>1 DEF Under
  <2>4. acks'[c] = <<>> \/ (Len(acks'[c]) = 1 /\ acks'[c][1].re = f)
    <3> DEFINE ok == thread[c].ok
    <3>1. Reply(c, f, ok) /\ f \in Frames /\ ok \in BOOLEAN /\ Ack(f, ok).re = f
      BY <1>5, <2>2, <2>3 DEF Replies, Ack
    <3> HIDE DEF ok
    <3> QED BY <2>3, <3>1, ReplyEffect
  <2> QED BY <2>1, <2>3, <2>4 DEF Under
<1> QED BY <1>1, <1>2, <1>3, <1>4, <1>5 DEF ServerStep

\* A worker's step leaves the other workers alone.
LEMMA WorkerOthers ==
    ASSUME ShapeInv, NEW w \in Worker,
           Connect(w) \/ CallStep(w) \/ ReceiveAck(w) \/ AwaitFails(w) \/ Close(w) \/ Restart(w),
           NEW v \in Worker, v # w
    PROVE  proc'[v] = proc[v]
BY DEF ShapeInv, Connect, CallStep, Send, ReceiveAck, AwaitFails, Close, Restart

\* What a worker's step does to the worker itself and to its connection.
LEMMA ConnectEffect ==
    ASSUME ShapeInv, FreshInv, RequestInv, NEW w \in Worker, Connect(w)
    PROVE  \E c \in Conn :
              /\ proc'[w] = [proc[w] EXCEPT !.conn = c] /\ proc'[w].conn = c
              /\ proc'[w].awaiting = None
              /\ thread[c].at = "unused" /\ thread'[c].at = "backlog"
              /\ \A d \in Conn \ {c} : thread'[d] = thread[d]
              /\ Under(c, None)'
              /\ UNCHANGED <<inbox, acks, registry, next_boot>>
<1>1. PICK c \in Conn : /\ thread[c].at = "unused"
                        /\ thread' = [thread EXCEPT ![c].at = "backlog"]
                        /\ proc' = [proc EXCEPT ![w].conn = c]
  BY DEF Connect
<1>2. proc'[w] = [proc[w] EXCEPT !.conn = c] /\ proc[w] \in Process /\ thread[c] \in Thread
  BY <1>1 DEF ShapeInv
<1>3. proc'[w].conn = c /\ proc'[w].awaiting = proc[w].awaiting /\ proc[w].awaiting = None
  BY <1>2 DEF Process, RequestInv, Connect
<1>4. thread'[c].at = "backlog" /\ \A d \in Conn \ {c} : thread'[d] = thread[d]
  BY <1>1, <1>2 DEF ShapeInv, Thread
<1>5. UNCHANGED <<inbox, acks, registry, next_boot>>
  BY DEF Connect
<1>6. Under(c, None)'
  BY <1>1, <1>4, <1>5 DEF FreshInv, Under
<1> QED BY <1>1, <1>2, <1>3, <1>4, <1>5, <1>6

\* A worker sends on a connection that holds nothing of an earlier request.
LEMMA SendEffect ==
    ASSUME ShapeInv, RequestInv, NEW w \in Worker, NEW f \in Frames,
           NEW h \in SUBSET proc[w].held, Send(w, f, h)
    PROVE  LET c == proc[w].conn IN
           /\ c \in Conn /\ proc[w].awaiting = None
           /\ proc'[w].boot = proc[w].boot /\ proc'[w].conn = c
           /\ proc'[w].awaiting = f /\ proc'[w].held = h
           /\ \A d \in Conn \ {c} : inbox'[d] = inbox[d]
           /\ inbox'[c] = <<f>> \/ (inbox'[c] = inbox[c] /\ thread[c].at = "ended")
           /\ thread[c].at # "unused" /\ acks[c] = <<>> /\ thread[c].at # "reply"
           /\ UNCHANGED <<thread, acks, registry, next_boot>>
           /\ Under(proc[w].conn, proc[w].awaiting)'
<1> DEFINE c == proc[w].conn
<1>0. proc[w] \in Process /\ c # None /\ c \in Conn /\ proc[w].awaiting = None
  BY DEF ShapeInv, Process, Send
<1>1. Under(c, None) /\ thread[c].at # "unused"
  BY <1>0 DEF RequestInv
<1>2. proc'[w] = [proc[w] EXCEPT !.awaiting = f, !.held = h]
  BY DEF Send, ShapeInv
<1>3. /\ proc'[w].boot = proc[w].boot /\ proc'[w].conn = c
      /\ proc'[w].awaiting = f /\ proc'[w].held = h
  BY <1>0, <1>2 DEF Process
<1>4. UNCHANGED <<thread, acks, registry, next_boot>>
  BY DEF Send
<1>5. inbox' = [inbox EXCEPT ![c] = IF Closed(c) THEN @ ELSE Append(@, f)]
  BY DEF Send
<1>6. \A d \in Conn \ {c} : inbox'[d] = inbox[d]
  BY <1>5 DEF ShapeInv
<1>7. inbox'[c] = <<f>> \/ (inbox'[c] = inbox[c] /\ thread[c].at = "ended")
  BY <1>0, <1>1, <1>5, AddAnswer DEF Closed, Under, ShapeInv
<1>8. f # None
  BY NoneAssumption
<1>9. Under(proc[w].conn, proc[w].awaiting)'
  BY <1>1, <1>3, <1>4, <1>7, <1>8 DEF Under
<1> QED BY <1>0, <1>1, <1>3, <1>4, <1>6, <1>7, <1>9 DEF Under

\* The ACK a worker reads answers the request it is blocked on, and there is no other.
LEMMA ReceiveEffect ==
    ASSUME ShapeInv, RequestInv, NEW w \in Worker, ReceiveAck(w)
    PROVE  LET c == proc[w].conn
               f == proc[w].awaiting
           IN
           /\ c \in Conn /\ f \in Frames
           /\ proc'[w].boot = proc[w].boot /\ proc'[w].conn = c /\ proc'[w].awaiting = None
           /\ proc'[w].held = IF f.kind = "RESERVE" /\ acks[c][1].ok
                              THEN proc[w].held \cup {f.id} ELSE proc[w].held
           /\ acks[c] # <<>> /\ acks[c][1].re = f
           /\ \A d \in Conn \ {c} : acks'[d] = acks[d]
           /\ thread[c].at # "unused"
           /\ UNCHANGED <<thread, inbox, registry, next_boot>>
           /\ Under(proc[w].conn, proc[w].awaiting)'
<1> DEFINE c == proc[w].conn
           f == proc[w].awaiting
           a == Head(acks[c])
<1>0. proc[w] \in Process /\ f \in Frames /\ f # None /\ acks[c] # <<>>
  BY DEF ShapeInv, Process, ReceiveAck
<1>1. c \in Conn /\ Under(c, f) /\ thread[c].at # "unused"
  BY <1>0 DEF ShapeInv, RequestInv, Process
<1>2. /\ inbox[c] = <<>> /\ thread[c].at # "reply" /\ Len(acks[c]) = 1 /\ acks[c][1].re = f
  BY <1>0, <1>1 DEF Under
<1>3. acks[c] \in Seq(Answer)
  BY <1>1 DEF ShapeInv
<1>4. Tail(acks[c]) = <<>> /\ a = acks[c][1]
  <2>1. Len(acks[c]) <= 1
    BY <1>2
  <2> HIDE DEF c
  <2> QED BY <1>0, <1>3, <2>1, OneFrame, Zenon
<1>5. acks' = [acks EXCEPT ![c] = Tail(acks[c])] /\ UNCHANGED <<thread, inbox, registry, next_boot>>
  BY DEF ReceiveAck
<1>6. acks'[c] = <<>> /\ \A d \in Conn \ {c} : acks'[d] = acks[d]
  BY <1>1, <1>4, <1>5 DEF ShapeInv
<1>7. proc'[w] = [proc[w] EXCEPT
                    !.awaiting = None,
                    !.epoch = IF f.kind = "REGISTER" THEN a.epoch ELSE @,
                    !.held = IF f.kind = "RESERVE" /\ a.ok THEN @ \cup {f.id} ELSE @]
  BY DEF ReceiveAck, ShapeInv
<1>8. /\ proc'[w].boot = proc[w].boot /\ proc'[w].conn = c /\ proc'[w].awaiting = None
      /\ proc'[w].held = IF f.kind = "RESERVE" /\ a.ok
                         THEN proc[w].held \cup {f.id} ELSE proc[w].held
  BY <1>0, <1>7 DEF Process
<1>9. Under(proc[w].conn, proc[w].awaiting)'
  BY <1>2, <1>5, <1>6, <1>8 DEF Under
<1> QED BY <1>0, <1>1, <1>2, <1>4, <1>5, <1>6, <1>8, <1>9

\* read_frame of a blocked request fails; the worker closes; the worker dies.
LEMMA LeaveEffect ==
    ASSUME ShapeInv, RequestInv, NEW w \in Worker, AwaitFails(w) \/ Close(w) \/ Restart(w)
    PROVE  /\ proc'[w].awaiting = None
           /\ \/ /\ proc'[w].boot = proc[w].boot /\ proc'[w].held = proc[w].held
                 /\ next_boot' = next_boot /\ inbox' = inbox
                 /\ \/ /\ proc'[w].conn = proc[w].conn /\ proc[w].conn \in Conn
                       /\ thread[proc[w].conn].at = "ended" /\ acks[proc[w].conn] = <<>>
                    \/ proc'[w].conn = None /\ proc[w].awaiting = None
              \/ /\ proc'[w].boot = next_boot /\ next_boot' = next_boot + 1
                 /\ proc'[w].conn = None /\ proc'[w].held = {}
           /\ \A c \in Conn : inbox'[c] = inbox[c] \/ (inbox'[c] = <<>> /\ proc[w].conn = c)
           /\ UNCHANGED <<thread, acks, registry>>
<1>0. proc[w] \in Process
  BY DEF ShapeInv
<1>1. CASE AwaitFails(w)
  <2>1. proc'[w] = [proc[w] EXCEPT !.awaiting = None] /\ proc[w].conn \in Conn
    BY <1>0, <1>1 DEF AwaitFails, ShapeInv, Process, RequestInv
  <2> QED BY <1>0, <1>1, <2>1 DEF AwaitFails, Closed, Process
<1>2. CASE Close(w)
  <2>1. proc'[w] = [proc[w] EXCEPT !.conn = None] /\ proc[w].awaiting = None
    BY <1>0, <1>2 DEF Close, ShapeInv
  <2> QED BY <1>0, <1>2, <2>1 DEF Close, Process
<1>3. CASE Restart(w)
  <2>1. proc'[w] = FreshProc(next_boot) /\ next_boot' = next_boot + 1
    BY <1>3 DEF Restart, ShapeInv
  <2>2. \A c \in Conn : inbox'[c] = inbox[c] \/ (inbox'[c] = <<>> /\ proc[w].conn = c)
    BY <1>3 DEF Restart, ShapeInv
  <2> QED BY <1>3, <2>1, <2>2 DEF Restart, FreshProc
<1> QED BY <1>1, <1>2, <1>3

\* The owner only ends connections that were never accepted.
LEMMA OwnerEffect ==
    ASSUME ShapeInv, OwnerStep, NEW c \in Conn
    PROVE  /\ UNCHANGED <<proc, next_boot, inbox, acks, registry>>
           /\ thread'[c] = thread[c] \/ (thread[c].at = "backlog" /\ thread'[c].at = "ended")
BY ThreadTypes DEF OwnerStep, client

\* A request stays in one place through every step of its connection's thread and of
\* the workers, and no connection is shared.
LEMMA RequestKept ==
    ASSUME ProtocolInv, ProtocolStep
    PROVE  RequestInv' /\ FreshInv' /\ OwnerInv'
<1>0. ShapeInv /\ FreshInv /\ RequestInv /\ OwnerInv /\ None \notin Conn
  BY NoneAssumption DEF ProtocolInv
<1> DEFINE Good(v) == IF proc[v].conn = None THEN proc[v].awaiting = None
                      ELSE thread[proc[v].conn].at # "unused" /\ Under(proc[v].conn, proc[v].awaiting)
<1>a. ASSUME NEW v \in Worker
      PROVE  /\ Good(v) /\ proc[v].conn \in Conn \cup {None}
             /\ proc[v].awaiting \in Frames \cup {None}
  BY <1>0 DEF RequestInv, ShapeInv, Process
<1>b. ASSUME NEW v \in Worker, proc'[v] = proc[v],
             proc[v].conn # None =>
                /\ thread'[proc[v].conn] = thread[proc[v].conn]
                /\ inbox'[proc[v].conn] = inbox[proc[v].conn]
                /\ acks'[proc[v].conn] = acks[proc[v].conn]
      PROVE  Good(v)'
  BY <1>a, <1>b DEF Under
<1> HIDE DEF Good
<1>1. ASSUME NEW w \in Worker, Connect(w)
      PROVE  RequestInv' /\ FreshInv' /\ OwnerInv'
  <2>1. PICK c \in Conn :
              /\ proc'[w].conn = c /\ proc'[w].awaiting = None
              /\ thread[c].at = "unused" /\ thread'[c].at = "backlog"
              /\ \A d \in Conn \ {c} : thread'[d] = thread[d]
              /\ Under(c, None)'
              /\ UNCHANGED <<inbox, acks>>
    BY <1>0, <1>1, ConnectEffect
  <2>2. ASSUME NEW v \in Worker, v # w
        PROVE  proc'[v] = proc[v] /\ proc[v].conn # c /\ Good(v)'
    <3>1. proc'[v] = proc[v]
      BY <1>0, <1>1, <2>2, WorkerOthers
    <3>2. proc[v].conn # c
      BY <1>0, <1>a, <2>1 DEF Good
    <3> QED BY <1>a, <1>b, <2>1, <3>1, <3>2
  <2>3. Good(w)'
    BY <1>0, <2>1 DEF Good
  <2>4. RequestInv'
    BY <2>2, <2>3 DEF RequestInv, Good
  <2>5. FreshInv'
    BY <1>0, <2>1 DEF FreshInv
  <2>6. OwnerInv'
    BY <1>0, <2>1, <2>2 DEF OwnerInv
  <2> QED BY <2>4, <2>5, <2>6
<1>2. ASSUME NEW w \in Worker, NEW f \in Frames, NEW h \in SUBSET proc[w].held, Send(w, f, h),
             CallStep(w)
      PROVE  RequestInv' /\ FreshInv' /\ OwnerInv'
  <2> DEFINE c == proc[w].conn
  <2>1. /\ c \in Conn /\ proc'[w].conn = c
        /\ \A d \in Conn \ {c} : inbox'[d] = inbox[d]
        /\ thread[c].at # "unused" /\ UNCHANGED <<thread, acks>>
        /\ Under(proc[w].conn, proc[w].awaiting)'
    BY <1>0, <1>2, SendEffect
  <2>2. ASSUME NEW v \in Worker, v # w
        PROVE  proc'[v] = proc[v] /\ Good(v)'
    <3>1. proc'[v] = proc[v]
      BY <1>0, <1>2, <2>2, WorkerOthers
    <3>2. proc[v].conn # c
      BY <1>0, <2>1, <2>2 DEF OwnerInv
    <3> QED BY <1>a, <1>b, <2>1, <3>1, <3>2
  <2>3. Good(w)'
    BY <1>0, <2>1 DEF Good
  <2>4. RequestInv'
    BY <2>2, <2>3 DEF RequestInv, Good
  <2>5. FreshInv'
    BY <1>0, <2>1 DEF FreshInv
  <2>6. OwnerInv'
    BY <1>0, <2>1, <2>2 DEF OwnerInv
  <2> QED BY <2>4, <2>5, <2>6
<1>3. ASSUME NEW w \in Worker, ReceiveAck(w)
      PROVE  RequestInv' /\ FreshInv' /\ OwnerInv'
  <2> DEFINE c == proc[w].conn
  <2>1. /\ c \in Conn /\ proc'[w].conn = c
        /\ \A d \in Conn \ {c} : acks'[d] = acks[d]
        /\ thread[c].at # "unused" /\ UNCHANGED <<thread, inbox>>
        /\ Under(proc[w].conn, proc[w].awaiting)'
    BY <1>0, <1>3, ReceiveEffect
  <2>2. ASSUME NEW v \in Worker, v # w
        PROVE  proc'[v] = proc[v] /\ Good(v)'
    <3>1. proc'[v] = proc[v]
      BY <1>0, <1>3, <2>2, WorkerOthers
    <3>2. proc[v].conn # c
      BY <1>0, <2>1, <2>2 DEF OwnerInv
    <3> QED BY <1>a, <1>b, <2>1, <3>1, <3>2
  <2>3. Good(w)'
    BY <1>0, <2>1 DEF Good
  <2>4. RequestInv'
    BY <2>2, <2>3 DEF RequestInv, Good
  <2>5. FreshInv'
    BY <1>0, <2>1 DEF FreshInv
  <2>6. OwnerInv'
    BY <1>0, <2>1, <2>2 DEF OwnerInv
  <2> QED BY <2>4, <2>5, <2>6
<1>4. ASSUME NEW w \in Worker, AwaitFails(w) \/ Close(w) \/ Restart(w)
      PROVE  RequestInv' /\ FreshInv' /\ OwnerInv'
  <2>1. /\ proc'[w].awaiting = None
        /\ \/ /\ proc'[w].conn = proc[w].conn /\ proc[w].conn \in Conn
              /\ thread[proc[w].conn].at = "ended" /\ acks[proc[w].conn] = <<>>
           \/ proc'[w].conn = None
        /\ \A c \in Conn : inbox'[c] = inbox[c] \/ (inbox'[c] = <<>> /\ proc[w].conn = c)
        /\ UNCHANGED <<thread, acks>>
    BY <1>0, <1>4, LeaveEffect
  <2>2. ASSUME NEW v \in Worker, v # w
        PROVE  proc'[v] = proc[v] /\ Good(v)'
    <3>1. proc'[v] = proc[v]
      BY <1>0, <1>4, <2>2, WorkerOthers
    <3>2. proc[v].conn # None => proc[v].conn # proc[w].conn
      BY <1>0, <2>2 DEF OwnerInv
    <3> QED BY <1>a, <1>b, <2>1, <3>1, <3>2
  <2>3. Good(w)'
    BY <2>1 DEF Good, Under
  <2>4. RequestInv'
    BY <2>2, <2>3 DEF RequestInv, Good
  <2>5. FreshInv'
    BY <1>0, <2>1 DEF FreshInv
  <2>6. OwnerInv'
    BY <1>0, <2>1, <2>2 DEF OwnerInv
  <2> QED BY <2>4, <2>5, <2>6
<1>5. ASSUME NEW c \in Conn, ServerStep(c)
      PROVE  RequestInv' /\ FreshInv' /\ OwnerInv'
  <2>1. proc' = proc
    BY <1>5 DEF ServerStep, client
  <2>2. \A d \in Conn \ {c} : thread'[d] = thread[d] /\ inbox'[d] = inbox[d] /\ acks'[d] = acks[d]
    BY <1>0, <1>5, ServerOthers
  <2>3. ASSUME NEW v \in Worker PROVE Good(v)'
    <3>1. CASE proc[v].conn = c
      <4> DEFINE f == proc[v].awaiting
      <4>1. Under(c, f) /\ f \in Frames \cup {None}
        BY <1>0, <1>a, <3>1 DEF Good
      <4>2. f' = f /\ proc'[v].conn = c
        BY <2>1, <3>1
      <4>3. \A g \in Frames \cup {None} : Under(c, g) => Under(c, g)' /\ thread'[c].at # "unused"
        BY <1>0, <1>5, ServerKeepsUnder
      <4> QED BY <1>0, <4>1, <4>2, <4>3 DEF Good
    <3>2. CASE proc[v].conn # c
      BY <1>a, <1>b, <2>1, <2>2, <3>2
    <3> QED BY <3>1, <3>2
  <2>4. RequestInv'
    BY <2>3 DEF RequestInv, Good
  <2>5. FreshInv'
    <3>1. thread'[c].at # "unused"
      BY <1>5 DEF ServerStep, Quiet, Drops, Handles, Answers, Replies, Goes
    <3> QED BY <1>0, <2>2, <3>1 DEF FreshInv
  <2>6. OwnerInv'
    BY <1>0, <2>1 DEF OwnerInv
  <2> QED BY <2>4, <2>5, <2>6
<1>6. CASE OwnerStep
  <2>1. UNCHANGED <<proc, inbox, acks>>
    BY <1>6 DEF OwnerStep, client
  <2>2. \A c \in Conn : thread'[c] = thread[c] \/ (thread[c].at = "backlog" /\ thread'[c].at = "ended")
    BY <1>0, <1>6, OwnerEffect
  <2>3. ASSUME NEW v \in Worker PROVE Good(v)'
    BY <1>a, <2>1, <2>2 DEF Good, Under
  <2>4. RequestInv'
    BY <2>3 DEF RequestInv, Good
  <2>5. FreshInv'
    BY <1>0, <2>1, <2>2 DEF FreshInv
  <2>6. OwnerInv'
    BY <1>0, <2>1 DEF OwnerInv
  <2> QED BY <2>4, <2>5, <2>6
<1> QED
  BY <1>1, <1>2, <1>3, <1>4, <1>5, <1>6 DEF ProtocolStep, CallStep

\* Boots are used once, so that a RELEASE that outlives its sender meets no
\* worker of the same boot.
LEMMA BootKept ==
    ASSUME ProtocolInv, ProtocolStep
    PROVE  BootInv'
<1>0. ShapeInv /\ FreshInv /\ RequestInv /\ BootInv /\ None \notin Conn
  BY NoneAssumption DEF ProtocolInv
<1>a. /\ next_boot \in Int
      /\ \A w \in Worker : proc[w].boot \in Int /\ proc[w].boot < next_boot
      /\ \A c \in Conn : inbox[c] # <<>> => Frame(c) \in Frames
  BY <1>0, OneFrame, CoordinatorAssumption DEF ShapeInv, BootInv, Process, Boot, Frame
<1>b. ASSUME NEW c \in Conn, inbox'[c] = inbox[c]
      PROVE  Frame(c)' = Frame(c)
  BY <1>b DEF Frame
<1>1. ASSUME NEW w \in Worker, Connect(w)
      PROVE  BootInv'
  <2>1. PICK c \in Conn :
              /\ proc'[w] = [proc[w] EXCEPT !.conn = c] /\ proc'[w].conn = c
              /\ thread[c].at = "unused"
              /\ \A d \in Conn \ {c} : thread'[d] = thread[d]
              /\ UNCHANGED <<inbox, next_boot>>
    BY <1>0, <1>1, ConnectEffect
  <2>2. proc'[w].boot = proc[w].boot /\ proc[w].conn = None
    BY <1>0, <1>1, <2>1 DEF Connect, ShapeInv, Process
  <2>3. \A v \in Worker : proc'[v].boot = proc[v].boot /\ (v # w => proc'[v] = proc[v])
    BY <1>0, <1>1, <2>2, WorkerOthers
  <2>4. inbox'[c] = <<>>
    BY <1>0, <2>1 DEF FreshInv
  <2>5. ASSUME NEW d \in Conn, inbox'[d] # <<>>, Frame(d)'.kind = "RELEASE"
        PROVE  /\ Frame(d)'.boot < next_boot'
               /\ thread'[d].at # "ended" =>
                     \A v \in Worker : Frame(d)'.boot = proc'[v].boot => proc'[v].conn = d
    BY <1>0, <1>b, <2>1, <2>2, <2>3, <2>4, <2>5 DEF BootInv
  <2> QED BY <1>0, <2>1, <2>3, <2>5 DEF BootInv
<1>2. ASSUME NEW w \in Worker, NEW f \in Frames, NEW h \in SUBSET proc[w].held, Send(w, f, h),
             Own(w, f, h), CallStep(w)
      PROVE  BootInv'
  <2> DEFINE c == proc[w].conn
  <2>1. /\ c \in Conn /\ proc'[w].conn = c /\ proc'[w].boot = proc[w].boot
        /\ \A d \in Conn \ {c} : inbox'[d] = inbox[d]
        /\ inbox'[c] = <<f>> \/ (inbox'[c] = inbox[c] /\ thread[c].at = "ended")
        /\ UNCHANGED <<thread, next_boot>>
    BY <1>0, <1>2, SendEffect
  <2>2. \A v \in Worker : proc'[v].boot = proc[v].boot /\ proc'[v].conn = proc[v].conn
    BY <1>0, <1>2, <2>1, WorkerOthers
  <2>3. ASSUME NEW d \in Conn, inbox'[d] # <<>>, Frame(d)'.kind = "RELEASE"
        PROVE  /\ Frame(d)'.boot < next_boot'
               /\ thread'[d].at # "ended" =>
                     \A v \in Worker : Frame(d)'.boot = proc'[v].boot => proc'[v].conn = d
    <3>1. CASE inbox'[d] = inbox[d]
      BY <1>0, <1>b, <2>1, <2>2, <2>3, <3>1 DEF BootInv
    <3>2. CASE d = c /\ inbox'[d] = <<f>>
      <4>1. Frame(d)' = f
        BY <3>2 DEF Frame
      <4>2. f.boot = proc[w].boot
        BY <1>2, <2>3, <4>1 DEF Own
      <4> QED BY <1>0, <1>a, <2>1, <2>2, <3>2, <4>1, <4>2 DEF BootInv
    <3> QED BY <2>1, <3>1, <3>2
  <2> QED BY <1>0, <2>1, <2>2, <2>3 DEF BootInv
<1>3. ASSUME NEW w \in Worker, ReceiveAck(w)
      PROVE  BootInv'
  <2>1. /\ proc'[w].conn = proc[w].conn /\ proc'[w].boot = proc[w].boot
        /\ UNCHANGED <<thread, inbox, next_boot>>
    BY <1>0, <1>3, ReceiveEffect
  <2>2. \A v \in Worker : proc'[v].boot = proc[v].boot /\ proc'[v].conn = proc[v].conn
    BY <1>0, <1>3, <2>1, WorkerOthers
  <2> QED BY <1>0, <1>b, <2>1, <2>2 DEF BootInv
<1>4. ASSUME NEW w \in Worker, AwaitFails(w) \/ Close(w) \/ Restart(w)
      PROVE  BootInv'
  <2>1. /\ \/ /\ proc'[w].boot = proc[w].boot /\ next_boot' = next_boot
              /\ \/ proc'[w].conn = proc[w].conn
                 \/ proc'[w].conn = None /\ proc[w].awaiting = None
           \/ /\ proc'[w].boot = next_boot /\ next_boot' = next_boot + 1
        /\ \A c \in Conn : inbox'[c] = inbox[c] \/ inbox'[c] = <<>>
        /\ UNCHANGED thread
    BY <1>0, <1>4, LeaveEffect
  <2>2. \A v \in Worker \ {w} : proc'[v] = proc[v]
    BY <1>0, <1>4, WorkerOthers
  <2>3. proc[w].awaiting = None =>
           \A c \in Conn : proc[w].conn = c => inbox[c] = <<>> \/ thread[c].at = "ended"
    BY <1>0 DEF RequestInv, Under
  <2>4. next_boot <= next_boot' /\ next_boot' \in Int
    BY <1>a, <2>1
  <2>5. ASSUME NEW d \in Conn, inbox'[d] # <<>>, Frame(d)'.kind = "RELEASE"
        PROVE  /\ Frame(d)'.boot < next_boot'
               /\ thread'[d].at # "ended" =>
                     \A v \in Worker : Frame(d)'.boot = proc'[v].boot => proc'[v].conn = d
    <3>1. /\ inbox'[d] = inbox[d] /\ Frame(d)' = Frame(d) /\ Frame(d).kind = "RELEASE"
          /\ inbox[d] # <<>>
      BY <1>b, <2>1, <2>5
    <3>2. Frame(d).boot \in Int /\ Frame(d).boot < next_boot
      BY <1>0, <1>a, <3>1, FrameKind, CoordinatorAssumption DEF BootInv, Boot
    <3>3. thread[d].at # "ended" => \A v \in Worker : Frame(d).boot = proc[v].boot => proc[v].conn = d
      BY <1>0, <3>1 DEF BootInv
    <3>4. ASSUME thread[d].at # "ended", Frame(d).boot = proc'[w].boot
          PROVE  proc'[w].conn = d
      <4>1. proc'[w].boot # next_boot
        BY <1>a, <3>2, <3>4
      <4> QED BY <2>1, <2>3, <3>1, <3>3, <3>4, <4>1
    <3>5. Frame(d).boot < next_boot'
      BY <1>a, <2>4, <3>2
    <3> QED BY <2>1, <2>2, <3>1, <3>3, <3>4, <3>5
  <2>6. \A v \in Worker : proc'[v].boot < next_boot'
    BY <1>a, <2>1, <2>2, <2>4
  <2>7. \A v, u \in Worker : v # u => proc'[v].boot # proc'[u].boot
    BY <1>0, <1>a, <2>1, <2>2 DEF BootInv
  <2> QED BY <2>5, <2>6, <2>7 DEF BootInv
<1>5. ASSUME NEW c \in Conn, ServerStep(c)
      PROVE  BootInv'
  <2>1. UNCHANGED <<proc, next_boot>>
    BY <1>5 DEF ServerStep, client
  <2>2. \A d \in Conn \ {c} : thread'[d] = thread[d] /\ inbox'[d] = inbox[d]
    BY <1>0, <1>5, ServerOthers
  <2>3. thread[c].at # "ended"
    BY <1>5 DEF ServerStep, Quiet, Drops, Handles, Answers, Replies, Goes
  <2>4. inbox'[c] = inbox[c] \/ inbox'[c] = <<>>
    BY <1>0, <1>5, TakesEffect DEF ServerStep, Quiet, Drops, Handles, Answers, Replies
  <2> QED BY <1>0, <1>b, <2>1, <2>2, <2>3, <2>4 DEF BootInv
<1>6. CASE OwnerStep
  <2>1. UNCHANGED <<proc, next_boot, inbox>>
    BY <1>6 DEF OwnerStep, client
  <2>2. \A c \in Conn : thread'[c].at # "ended" => thread[c].at # "ended"
    BY <1>0, <1>6, OwnerEffect
  <2> QED BY <1>0, <1>b, <2>1, <2>2 DEF BootInv
<1> QED
  BY <1>1, <1>2, <1>3, <1>4, <1>5, <1>6 DEF ProtocolStep, CallStep

\* A worker restarted under a new boot waits for nothing sent under the old one.
LEMMA OwnKept ==
    ASSUME ProtocolInv, ProtocolStep
    PROVE  OwnInv'
<1>0. ShapeInv /\ FreshInv /\ RequestInv /\ OwnInv
  BY DEF ProtocolInv
<1>a. ASSUME NEW v \in Worker, proc'[v] = proc[v]
      PROVE  (proc[v].awaiting # None => Own(v, proc[v].awaiting, proc[v].held))'
  BY <1>0, <1>a DEF OwnInv, Own
<1>1. ASSUME NEW w \in Worker, Connect(w) \/ ReceiveAck(w) \/ AwaitFails(w) \/ Close(w) \/ Restart(w)
      PROVE  OwnInv'
  <2>1. proc'[w].awaiting = None
    BY <1>0, <1>1, ConnectEffect, ReceiveEffect, LeaveEffect
  <2>2. \A v \in Worker \ {w} : proc'[v] = proc[v]
    BY <1>0, <1>1, WorkerOthers
  <2> QED BY <1>a, <2>1, <2>2 DEF OwnInv
<1>2. ASSUME NEW w \in Worker, NEW f \in Frames, NEW h \in SUBSET proc[w].held, Send(w, f, h),
             Own(w, f, h), CallStep(w)
      PROVE  OwnInv'
  <2>1. proc'[w].awaiting = f /\ proc'[w].held = h /\ proc'[w].boot = proc[w].boot
    BY <1>0, <1>2, SendEffect
  <2>2. \A v \in Worker \ {w} : proc'[v] = proc[v]
    BY <1>0, <1>2, WorkerOthers
  <2>3. Own(w, proc[w].awaiting, proc[w].held)'
    BY <1>2, <2>1 DEF Own
  <2> QED BY <1>a, <2>2, <2>3 DEF OwnInv
<1>3. CASE UNCHANGED proc
  BY <1>a, <1>3 DEF OwnInv
<1> QED
  BY <1>1, <1>2, <1>3 DEF ProtocolStep, CallStep, ServerStep, OwnerStep, client

\* A thread changes a stored reservation only by reading a RELEASE of it that
\* carries the boot it was made under.
LEMMA ReservationKept ==
    ASSUME NEW c \in Conn, ServerStep(c), NEW id \in DOMAIN reservations,
           ~(/\ inbox[c] # <<>> /\ thread[c].at = "recv" /\ Frame(c).kind = "RELEASE"
             /\ Frame(c).boot = reservations[id].boot /\ Frame(c).id = id)
    PROVE  id \in DOMAIN reservations' /\ reservations'[id] = reservations[id]
<1> DEFINE f == Frame(c)
<1>1. CASE UNCHANGED registry
  BY <1>1 DEF registry
<1>2. CASE Registry!Reserve(f.id, f.req)
  <2>1. CASE Registry!ReserveOK(f.id, f.req)
    <3>1. f.id \notin DOMAIN reservations
      BY <2>1 DEF Registry!ReserveOK, Registry!ReserveResult
    <3> QED BY <2>1, <3>1 DEF Registry!ReserveOK, Registry!Put
  <2>2. CASE Registry!ReserveRejected(f.id, f.req)
    BY <2>2 DEF Registry!ReserveRejected, Registry!vars
  <2> QED BY <1>2, <2>1, <2>2 DEF Registry!Reserve
<1>3. CASE /\ inbox[c] # <<>> /\ thread[c].at = "recv" /\ f.kind = "RELEASE"
           /\ Registry!Release(f.id, f.boot, f.generation, f.epoch)
  <2>1. CASE Registry!ReleaseOK(f.id, f.boot, f.generation, f.epoch)
    <3>1. reservations[f.id].boot = f.boot
      BY <2>1 DEF Registry!ReleaseOK, Registry!ReleaseResult
    <3>2. id # f.id
      BY <1>3, <3>1
    <3> QED BY <2>1, <3>2 DEF Registry!ReleaseOK, Registry!Put
  <2>2. CASE Registry!ReleaseRejected(f.id, f.boot, f.generation, f.epoch)
    BY <2>2 DEF Registry!ReleaseRejected, Registry!vars
  <2> QED BY <1>3, <2>1, <2>2 DEF Registry!Release
<1> QED
  BY <1>1, <1>2, <1>3 DEF ServerStep, Quiet, Drops, Handles, Answers, Replies, Goes, Takes

\* A RELEASE a thread reads under the boot of a running worker is the request
\* that worker waits for.
LEMMA ReleaseIsAwaited ==
    ASSUME ProtocolInv, NEW c \in Conn, inbox[c] # <<>>, thread[c].at = "recv",
           Frame(c).kind = "RELEASE", NEW w \in Worker, Frame(c).boot = proc[w].boot
    PROVE  proc[w].awaiting = Frame(c) /\ Frame(c).id \notin proc[w].held
<1>1. proc[w].conn = c /\ c # None
  BY NoneAssumption DEF ProtocolInv, BootInv
<1>2. Under(c, proc[w].awaiting)
  BY <1>1 DEF ProtocolInv, RequestInv
<1>3. proc[w].awaiting # None /\ inbox[c] = <<proc[w].awaiting>>
  BY <1>2 DEF Under
<1>4. proc[w].awaiting = Frame(c)
  BY <1>3 DEF Frame
<1> QED BY <1>3, <1>4 DEF ProtocolInv, OwnInv, Own

\* A granted reservation is only ever taken by the RELEASE its holder sends, and an
\* ACK of success is sent only once the registry has stored the reservation.
LEMMA GrantKept ==
    ASSUME ProtocolInv, GrantInv, GrantedIsHeld, ProtocolStep
    PROVE  GrantInv' /\ GrantedIsHeld'
<1>0. ShapeInv /\ FreshInv /\ RequestInv /\ OwnerInv /\ BootInv /\ OwnInv /\ None \notin Conn
  BY NoneAssumption DEF ProtocolInv
<1> DEFINE Told(v) ==
             proc[v].awaiting # None /\ proc[v].awaiting.kind = "RESERVE" =>
                /\ thread[proc[v].conn].at = "reply" /\ thread[proc[v].conn].ok =>
                      Holds(proc[v].boot, proc[v].awaiting.id)
                /\ acks[proc[v].conn] # <<>> /\ acks[proc[v].conn][1].ok =>
                      Holds(proc[v].boot, proc[v].awaiting.id)
           Kept(v) == \A id \in proc[v].held : Holds(proc[v].boot, id)
<1>a. ASSUME NEW v \in Worker
      PROVE  /\ Told(v) /\ Kept(v) /\ proc[v].conn \in Conn \cup {None}
             /\ proc[v].awaiting # None => proc[v].conn \in Conn
  BY <1>0 DEF GrantInv, GrantedIsHeld, Holds, ShapeInv, Process, RequestInv
<1>b. (\A v \in Worker : Told(v)' /\ Kept(v)') => GrantInv' /\ GrantedIsHeld'
  BY DEF GrantInv, GrantedIsHeld, Holds
<1>c. ASSUME NEW b, NEW id, UNCHANGED registry, Holds(b, id)
      PROVE  Holds(b, id)'
  BY <1>c DEF Holds, registry
<1>1. ASSUME NEW w \in Worker, Connect(w)
      PROVE  GrantInv' /\ GrantedIsHeld'
  <2>1. PICK c \in Conn :
              /\ proc'[w] = [proc[w] EXCEPT !.conn = c] /\ proc'[w].awaiting = None
              /\ thread[c].at = "unused"
              /\ \A d \in Conn \ {c} : thread'[d] = thread[d]
              /\ UNCHANGED <<inbox, acks, registry>>
    BY <1>0, <1>1, ConnectEffect
  <2>2. proc'[w].boot = proc[w].boot /\ proc'[w].held = proc[w].held
    BY <1>0, <2>1 DEF ShapeInv, Process
  <2>3. ASSUME NEW v \in Worker, v # w
        PROVE  Told(v)' /\ Kept(v)'
    <3>1. proc'[v] = proc[v]
      BY <1>0, <1>1, <2>3, WorkerOthers
    <3>2. proc[v].conn # c
      BY <1>0, <2>1 DEF RequestInv
    <3> QED BY <1>a, <1>c, <2>1, <3>1, <3>2
  <2>4. Told(w)' /\ Kept(w)'
    BY <1>a, <1>c, <2>1, <2>2
  <2> QED BY <1>b, <2>3, <2>4
<1>2. ASSUME NEW w \in Worker, NEW f \in Frames, NEW h \in SUBSET proc[w].held, Send(w, f, h),
             CallStep(w)
      PROVE  GrantInv' /\ GrantedIsHeld'
  <2> DEFINE c == proc[w].conn
  <2>1. /\ proc'[w].conn = c /\ proc'[w].boot = proc[w].boot /\ proc'[w].held = h
        /\ thread[c].at # "reply" /\ acks[c] = <<>>
        /\ UNCHANGED <<thread, acks, registry>>
    BY <1>0, <1>2, SendEffect
  <2>2. ASSUME NEW v \in Worker, v # w
        PROVE  Told(v)' /\ Kept(v)'
    <3>1. proc'[v] = proc[v]
      BY <1>0, <1>2, <2>2, WorkerOthers
    <3> QED BY <1>a, <1>c, <2>1, <3>1
  <2>3. Told(w)' /\ Kept(w)'
    BY <1>a, <1>c, <2>1
  <2> QED BY <1>b, <2>2, <2>3
<1>3. ASSUME NEW w \in Worker, ReceiveAck(w)
      PROVE  GrantInv' /\ GrantedIsHeld'
  <2> DEFINE c == proc[w].conn
             f == proc[w].awaiting
  <2>1. /\ c \in Conn /\ f \in Frames
        /\ proc'[w].boot = proc[w].boot /\ proc'[w].awaiting = None
        /\ proc'[w].held = IF f.kind = "RESERVE" /\ acks[c][1].ok
                           THEN proc[w].held \cup {f.id} ELSE proc[w].held
        /\ acks[c] # <<>>
        /\ \A d \in Conn \ {c} : acks'[d] = acks[d]
        /\ UNCHANGED <<thread, registry>>
    BY <1>0, <1>3, ReceiveEffect
  <2>2. ASSUME NEW v \in Worker, v # w
        PROVE  Told(v)' /\ Kept(v)'
    <3>1. proc'[v] = proc[v]
      BY <1>0, <1>3, <2>2, WorkerOthers
    <3>2. proc[v].conn # c
      BY <1>0, <2>1, <2>2 DEF OwnerInv
    <3> QED BY <1>a, <1>c, <2>1, <3>1, <3>2
  <2>3. \A id \in proc'[w].held : Holds(proc[w].boot, id)
    <3>1. f # None
      BY <1>3 DEF ReceiveAck
    <3> QED BY <1>a, <2>1, <3>1
  <2>4. Told(w)' /\ Kept(w)'
    BY <1>c, <2>1, <2>3
  <2> QED BY <1>b, <2>2, <2>4
<1>4. ASSUME NEW w \in Worker, AwaitFails(w) \/ Close(w) \/ Restart(w)
      PROVE  GrantInv' /\ GrantedIsHeld'
  <2>1. /\ proc'[w].awaiting = None
        /\ \/ proc'[w].boot = proc[w].boot /\ proc'[w].held = proc[w].held
           \/ proc'[w].held = {}
        /\ UNCHANGED <<thread, acks, registry>>
    BY <1>0, <1>4, LeaveEffect
  <2>2. ASSUME NEW v \in Worker, v # w
        PROVE  Told(v)' /\ Kept(v)'
    <3>1. proc'[v] = proc[v]
      BY <1>0, <1>4, <2>2, WorkerOthers
    <3> QED BY <1>a, <1>c, <2>1, <3>1
  <2>3. Told(w)' /\ Kept(w)'
    BY <1>a, <1>c, <2>1
  <2> QED BY <1>b, <2>2, <2>3
<1>5. ASSUME NEW c \in Conn, ServerStep(c)
      PROVE  GrantInv' /\ GrantedIsHeld'
  <2>1. proc' = proc
    BY <1>5 DEF ServerStep, client
  <2>2. \A d \in Conn \ {c} : thread'[d] = thread[d] /\ acks'[d] = acks[d]
    BY <1>0, <1>5, ServerOthers
  <2>3. ASSUME NEW v \in Worker, NEW id, Holds(proc[v].boot, id),
               \/ id \in proc[v].held
               \/ proc[v].awaiting # None /\ proc[v].awaiting.kind = "RESERVE"
        PROVE  Holds(proc[v].boot, id)'
    <3>1. ~(/\ inbox[c] # <<>> /\ thread[c].at = "recv" /\ Frame(c).kind = "RELEASE"
            /\ Frame(c).boot = proc[v].boot /\ Frame(c).id = id)
      BY <2>3, ReleaseIsAwaited
    <3> DEFINE b == proc[v].boot
    <3>2. b' = b
      BY <2>1
    <3>3. ASSUME NEW x, x = b PROVE Holds(x, id)'
      BY <1>5, <2>3, <3>1, <3>3, ReservationKept DEF Holds
    <3> QED BY <3>2, <3>3
  <2>4. ASSUME NEW v \in Worker
        PROVE  Kept(v)'
    BY <1>a, <2>1, <2>3
  <2>5. ASSUME NEW v \in Worker, proc[v].conn # c
        PROVE  Told(v)'
    BY <1>a, <2>1, <2>2, <2>3, <2>5
  <2>6. ASSUME NEW v \in Worker, proc[v].conn = c, proc[v].awaiting # None,
               proc[v].awaiting.kind = "RESERVE"
        PROVE  /\ thread'[c].at = "reply" /\ thread'[c].ok => Holds(proc[v].boot, proc[v].awaiting.id)'
               /\ acks'[c] # <<>> /\ acks'[c][1].ok => Holds(proc[v].boot, proc[v].awaiting.id)'
    <3> DEFINE f == proc[v].awaiting
    <3>1. Under(c, f) /\ f \in Frames /\ f # None /\ f.req.boot = proc[v].boot
      BY <1>0, <2>6 DEF RequestInv, ShapeInv, Process, OwnInv, Own
    <3>a. Holds(proc[v].boot, f.id) => Holds(proc[v].boot, f.id)'
      <4>1. ASSUME NEW id, id = f.id, Holds(proc[v].boot, id)
            PROVE  Holds(proc[v].boot, id)'
        BY <2>3, <2>6, <4>1
      <4> QED BY <2>1, <4>1
    <3>2. ASSUME Takes(c), thread[c].at = "recv"
          PROVE  Frame(c) = f /\ acks[c] = <<>>
      BY <3>1, <3>2 DEF Takes, Under, Frame
    <3>3. CASE Quiet(c) \/ Drops(c)
      BY <1>a, <2>6, <3>a, <3>3 DEF Quiet, Drops, Goes
    <3>4. CASE Answers(c)
      BY <2>6, <3>2, <3>4 DEF Answers, Goes
    <3>5. CASE Replies(c)
      <4>1. thread[c].re = f /\ acks[c] = <<>> /\ thread[c].at = "reply" /\ thread'[c].at # "reply"
        BY <3>1, <3>5 DEF Under, Replies, Goes
      <4> DEFINE ok == thread[c].ok
      <4>2. ok \in BOOLEAN
        BY <1>0 DEF ShapeInv, Thread
      <4>3. Reply(c, f, ok) /\ Ack(f, ok).ok = ok
        BY <3>5, <4>1 DEF Replies, Ack
      <4>4. acks'[c] = <<>> \/ acks'[c][1].ok = ok
        <5> HIDE DEF ok
        <5> QED BY <1>0, <3>1, <4>1, <4>2, <4>3, ReplyEffect
      <4> QED BY <1>a, <2>6, <3>a, <4>1, <4>4
    <3>6. CASE Handles(c)
      <4>1. Frame(c) = f /\ acks'[c] = <<>>
        BY <3>2, <3>6 DEF Handles, Goes
      <4>2. /\ Registry!Reserve(f.id, f.req)
            /\ thread'[c].ok = (Registry!ReserveResult(f.id, f.req) = "OK")
        BY <2>6, <3>6, <4>1 DEF Handles
      <4>3. CASE thread'[c].ok
        <5>1. Registry!ReserveOK(f.id, f.req)
          BY <4>2, <4>3 DEF Registry!Reserve, Registry!ReserveRejected
        <5>2. f.id \in DOMAIN reservations' /\ reservations'[f.id] = Registry!MarkActive(f.req)
          BY <5>1 DEF Registry!ReserveOK, Registry!Put
        <5>3. ASSUME NEW x, x = proc[v].boot, NEW id, id = f.id PROVE Holds(x, id)'
          BY <3>1, <5>2, <5>3 DEF Holds, Registry!MarkActive
        <5> QED BY <2>1, <4>1, <5>3
      <4> QED BY <4>1, <4>3
    <3> QED BY <1>5, <3>3, <3>4, <3>5, <3>6 DEF ServerStep
  <2>7. ASSUME NEW v \in Worker, proc[v].conn = c
        PROVE  Told(v)'
    BY <2>1, <2>6, <2>7
  <2> QED BY <1>b, <2>4, <2>5, <2>7
<1>6. CASE OwnerStep
  <2>1. UNCHANGED <<proc, acks, registry>>
    BY <1>6 DEF OwnerStep, client
  <2>2. \A c \in Conn : thread'[c] = thread[c] \/ thread'[c].at = "ended"
    BY <1>0, <1>6, OwnerEffect
  <2>3. ASSUME NEW v \in Worker
        PROVE  Told(v)' /\ Kept(v)'
    BY <1>a, <1>c, <2>1, <2>2
  <2> QED BY <1>b, <2>3
<1> QED
  BY <1>1, <1>2, <1>3, <1>4, <1>5, <1>6 DEF ProtocolStep, CallStep

-----------------------------------------------------------------------------
(* Requests and their answers *)

CoordinatorInv == ProtocolInv /\ GrantInv /\ GrantedIsHeld

\* No worker is connected at the start.
LEMMA InitInv == Init => CoordinatorInv
<1> SUFFICES ASSUME Init PROVE CoordinatorInv
  OBVIOUS
<1> USE CoordinatorAssumption, NoneAssumption DEF Init
<1>1. \A w \in Worker : /\ proc[w] = FreshProc(w) /\ proc[w].conn = None /\ proc[w].awaiting = None
                        /\ proc[w].boot = w /\ proc[w].held = {} /\ proc[w].epoch = 0
  BY DEF FreshProc
<1>2. \A w \in Worker : w \in Boot /\ w < next_boot
  BY DEF Worker, Boot
<1>3. ShapeInv
  <2>1. thread \in [Conn -> Thread] /\ \A c \in Conn : thread[c].at # "reply"
    BY ThreadTypes DEF UnusedThread
  <2>2. inbox \in [Conn -> Seq(Frames)] /\ acks \in [Conn -> Seq(Answer)]
    OBVIOUS
  <2>3. proc \in [Worker -> Process]
    BY <1>2 DEF FreshProc, Process, Epoch
  <2>4. epoch \in Epoch /\ next_boot \in 1 .. (MaxBoot + 1)
    BY DEF Epoch
  <2> QED BY <2>1, <2>2, <2>3, <2>4 DEF ShapeInv
<1>4. FreshInv /\ RequestInv /\ OwnerInv /\ OwnInv
  BY <1>1 DEF FreshInv, RequestInv, OwnerInv, OwnInv
<1>5. BootInv
  BY <1>1, <1>2 DEF BootInv
<1>6. GrantInv /\ GrantedIsHeld
  BY <1>1 DEF GrantInv, GrantedIsHeld
<1> QED BY <1>3, <1>4, <1>5, <1>6 DEF CoordinatorInv, ProtocolInv

\* The inductive invariant: it holds of a coordinator at the start and is kept by every
\* step of its threads, its owner and the workers.
THEOREM CoordinatorInvHolds == Spec => []CoordinatorInv
<1>1. CoordinatorInv /\ [Next]_vars => CoordinatorInv'
  <2> SUFFICES ASSUME CoordinatorInv, [Next]_vars PROVE CoordinatorInv'
    OBVIOUS
  <2>1. ProtocolInv /\ GrantInv /\ GrantedIsHeld /\ ShapeInv
    BY DEF CoordinatorInv, ProtocolInv
  <2>2. ProtocolStep
    BY <2>1, NextIsProtocolStep
  <2> QED BY <2>1, <2>2, ShapeKept, RequestKept, BootKept, OwnKept, GrantKept
          DEF CoordinatorInv, ProtocolInv
<1> QED BY <1>1, InitInv, PTL DEF Spec

\* send_and_await_ack takes the first ACK it reads; it is always the answer to the
\* request it is blocked on, although nothing in an ACK names a request.
THEOREM AckAnswersRequestAlways == Spec => []AckAnswersRequest
<1>1. CoordinatorInv => AckAnswersRequest
  <2> SUFFICES ASSUME CoordinatorInv, NEW w \in Worker, proc[w].conn # None
               PROVE  IF proc[w].awaiting = None THEN acks[proc[w].conn] = <<>>
                      ELSE /\ Len(acks[proc[w].conn]) <= 1
                           /\ acks[proc[w].conn] # <<>> =>
                                 acks[proc[w].conn][1].re = proc[w].awaiting
    BY DEF AckAnswersRequest
  <2>1. Under(proc[w].conn, proc[w].awaiting)
    BY DEF CoordinatorInv, ProtocolInv, RequestInv
  <2>2. CASE proc[w].awaiting = None
    BY <2>1, <2>2 DEF Under
  <2>3. CASE proc[w].awaiting # None
    <3> DEFINE q == acks[proc[w].conn]
    <3>1. q = <<>> \/ (Len(q) = 1 /\ q[1].re = proc[w].awaiting)
      BY <2>1, <2>3 DEF Under
    <3>2. Len(<<>>) = 0
      OBVIOUS
    <3> HIDE DEF q
    <3>3. Len(q) <= 1 /\ (q # <<>> => q[1].re = proc[w].awaiting)
      BY <3>1, <3>2
    <3> QED BY <2>3, <3>3 DEF q
  <2> QED BY <2>2, <2>3
<1> QED BY <1>1, CoordinatorInvHolds, PTL

\* What reserve() reported to a worker's application stays true until it calls release:
\* no other worker, restart, lost connection or new epoch takes it away.
THEOREM GrantedIsHeldAlways == Spec => []GrantedIsHeld
<1>1. CoordinatorInv => GrantedIsHeld
  BY DEF CoordinatorInv
<1> QED BY <1>1, CoordinatorInvHolds, PTL

-----------------------------------------------------------------------------
(* The registry under the coordinator *)

\* The coordinator calls the registry only in its RESERVE and RELEASE handlers.
LEMMA StepIsRegistryStep ==
    ASSUME ShapeInv, ProtocolStep
    PROVE  [Registry!Next]_(Registry!vars)
<1>1. CASE UNCHANGED registry
  BY <1>1 DEF registry, Registry!vars
<1>2. ASSUME NEW c \in Conn, Handles(c)
      PROVE  [Registry!Next]_(Registry!vars)
  BY <1>1, <1>2, FrameKind DEF Handles, Registry!Next
<1>3. ASSUME NEW c \in Conn, ServerStep(c)
      PROVE  [Registry!Next]_(Registry!vars)
  BY <1>1, <1>2, <1>3 DEF ServerStep, Quiet, Drops, Answers, Replies
<1>4. CASE OwnerStep
  BY <1>1, <1>4 DEF OwnerStep
<1>5. ASSUME NEW w \in Worker,
             Connect(w) \/ CallStep(w) \/ ReceiveAck(w) \/ AwaitFails(w) \/ Close(w) \/ Restart(w)
      PROVE  [Registry!Next]_(Registry!vars)
  BY <1>1, <1>5 DEF Connect, CallStep, Send, ReceiveAck, AwaitFails, Close, Restart
<1> QED BY <1>3, <1>4, <1>5 DEF ProtocolStep

\* Whatever the connection threads do concurrently, reservations_ behaves as a
\* ReservationRegistry called by one thread.
LEMMA CoordinatorRunsItsRegistry == Spec => Registry!Spec
<1>1. Init => Registry!Init
  BY DEF Init
<1>2. CoordinatorInv /\ [Next]_vars => [Registry!Next]_(Registry!vars)
  BY NextIsProtocolStep, StepIsRegistryStep DEF CoordinatorInv, ProtocolInv
<1> QED BY <1>1, <1>2, CoordinatorInvHolds, PTL DEF Spec, Registry!Spec

\* No step frees an active reservation whose boot is gone: the coordinator has no expiry
\* and no reclaim.
THEOREM OrphansStayAlways == Spec => OrphansStay
<1> DEFINE Stays == \A id \in DOMAIN reservations :
                       reservations[id].active /\ ~BootCanAct(reservations[id].boot)
                          => reservations'[id].active
<1>1. CoordinatorInv /\ [Next]_vars => [Stays]_vars
  <2> SUFFICES ASSUME CoordinatorInv, [Next]_vars, NEW id \in DOMAIN reservations,
                      reservations[id].active, ~BootCanAct(reservations[id].boot)
               PROVE  reservations'[id].active
    OBVIOUS
  <2>1. ShapeInv /\ ProtocolStep
    BY NextIsProtocolStep DEF CoordinatorInv, ProtocolInv
  <2>2. ASSUME NEW c \in Conn, ServerStep(c)
        PROVE  reservations'[id].active
    <3>1. ~(/\ inbox[c] # <<>> /\ thread[c].at = "recv" /\ Frame(c).kind = "RELEASE"
            /\ Frame(c).boot = reservations[id].boot /\ Frame(c).id = id)
      BY <2>1, OneFrame DEF ShapeInv, BootCanAct, Frame
    <3> QED BY <2>2, <3>1, ReservationKept
  <2>3. CASE UNCHANGED registry
    BY <2>3 DEF registry
  <2> QED
    BY <2>1, <2>2, <2>3
    DEF ProtocolStep, OwnerStep, Connect, CallStep, Send, ReceiveAck, AwaitFails, Close, Restart
<1> QED BY <1>1, CoordinatorInvHolds, PTL DEF Spec, OrphansStay

-----------------------------------------------------------------------------
(* The coordinator's tables *)

Freshness == {"CURRENT", "REVALIDATION_REQUIRED"}

\* Shapes of the tables; no path was published under an epoch to come.
TableInv ==
    /\ DOMAIN workers \subseteq Worker
    /\ workers \in [DOMAIN workers -> [boot : Boot, revalidation_required : BOOLEAN]]
    /\ nodes \subseteq NodeId \cup {0}
    /\ DOMAIN paths \subseteq PathId
    /\ paths \in [DOMAIN paths -> [epoch : Epoch, boot : Boot, freshness : Freshness]]
    /\ \A p \in DOMAIN paths : paths[p].epoch <= epoch
    /\ DOMAIN measurements \subseteq MeasurementId

\* The actions that write a table.
LEMMA TableWriters ==
    ASSUME [Next]_vars
    PROVE  \/ \E c \in Conn : \/ HandleRegister(c) \/ HandleSnapshot(c)
                             \/ HandleMeasurement(c) \/ HandleRevalidate(c)
           \/ AdvanceEpoch
           \/ RevalidateAll
           \/ UNCHANGED state
<1>1. CASE UNCHANGED vars
  BY <1>1 DEF vars
<1>2. ASSUME NEW w \in Worker, Call(w)
      PROVE  UNCHANGED state
  BY <1>2 DEF Call, RegisterSelf, Heartbeat, Revalidate, SendInventory, SendPathSnapshot,
              SendMeasurement, ReserveBytes, ReleaseId, Send
<1>3. ASSUME NEW w \in Worker, Connect(w) \/ Return(w) \/ Close(w) \/ Restart(w)
      PROVE  UNCHANGED state
  BY <1>3 DEF Connect, Return, ReceiveAck, AwaitFails, Close, Restart
<1>4. ASSUME NEW c \in Conn, \/ Accept(c) \/ StartThread(c) \/ HandleReserve(c) \/ HandleRelease(c)
                              \/ HandleHeartbeat(c) \/ DropFrame(c) \/ SendReply(c) \/ EndThread(c)
      PROVE  UNCHANGED state
  BY <1>4 DEF Accept, StartThread, HandleReserve, HandleRelease, HandleHeartbeat, DropFrame,
              SendReply, EndThread
<1>5. CASE RequestStop \/ Destroy
  BY <1>5 DEF RequestStop, Destroy
<1> QED BY <1>1, <1>2, <1>3, <1>4, <1>5 DEF Next, Serve

\* The frame a handler reads, and the epoch of the paths it stores.
LEMMA SnapshotFacts ==
    ASSUME ShapeInv, NEW c \in Conn, inbox[c] # <<>>, Frame(c).kind \in {"INVENTORY", "PATH_SNAPSHOT"}
    PROVE  /\ SnapshotPaths(c, Frame(c)) \subseteq PathId
           /\ SnapshotPaths(c, Frame(c)) # {} =>
                 Frame(c).epoch = epoch /\ Frame(c).boot \in Boot
<1>1. Frame(c) \in Frames
  BY OneFrame DEF ShapeInv, Frame
<1> QED BY <1>1, FrameKind DEF SnapshotPaths, AuthorityMatches

\* Every handler stores what the frame it decoded carries, and a path only under the
\* epoch then in force.
LEMMA TablesKept ==
    ASSUME ShapeInv, TableInv, [Next]_vars
    PROVE  TableInv'
<1>0. epoch \in Int /\ epoch \in Epoch /\ epoch <= epoch
  BY CoordinatorAssumption DEF ShapeInv, Epoch
<1>a. ASSUME NEW c \in Conn, inbox[c] # <<>>
      PROVE  Frame(c) \in Frames
  BY <1>a, OneFrame DEF ShapeInv, Frame
<1>1. ASSUME NEW c \in Conn, HandleRegister(c)
      PROVE  TableInv'
  <2> DEFINE f == Frame(c)
             info == [boot |-> f.boot, revalidation_required |-> FALSE]
  <2>1. f.worker \in Worker /\ f.boot \in Boot
    BY <1>a, <1>1, FrameKind DEF HandleRegister, Reading
  <2>2. info \in [boot : Boot, revalidation_required : BOOLEAN]
    BY <2>1
  <2>3. workers' = Put(workers, f.worker, info) /\ UNCHANGED <<epoch, nodes, paths, measurements>>
    BY <1>1 DEF HandleRegister
  <2> HIDE DEF f, info
  <2>4. /\ DOMAIN workers' \subseteq Worker
        /\ workers' \in [DOMAIN workers' -> [boot : Boot, revalidation_required : BOOLEAN]]
    BY <2>1, <2>2, <2>3 DEF Put, TableInv
  <2> QED BY <2>3, <2>4 DEF TableInv
<1>2. ASSUME NEW c \in Conn, HandleSnapshot(c)
      PROVE  TableInv'
  <2> DEFINE f == Frame(c)
             accepted == SnapshotPaths(c, f)
             new == [epoch |-> f.epoch, boot |-> f.boot, freshness |-> "CURRENT"]
  <2>1. /\ nodes' = nodes \cup DecodedNodes(f)
        /\ paths' = [p \in DOMAIN paths \cup accepted |-> IF p \in accepted THEN new ELSE paths[p]]
        /\ UNCHANGED <<epoch, workers, measurements>>
    BY <1>2 DEF HandleSnapshot
  <2>2. /\ accepted \subseteq PathId
        /\ accepted # {} => f.epoch = epoch /\ f.boot \in Boot
    BY <1>2, SnapshotFacts DEF HandleSnapshot, Reading
  <2>3. accepted # {} =>
           new \in [epoch : Epoch, boot : Boot, freshness : Freshness] /\ new.epoch = epoch
    BY <1>0, <2>2 DEF Freshness
  <2>4. nodes' \subseteq NodeId \cup {0}
    BY <2>1 DEF TableInv, DecodedNodes
  <2> HIDE DEF f, accepted, new
  <2>5. /\ DOMAIN paths' \subseteq PathId
        /\ paths' \in [DOMAIN paths' -> [epoch : Epoch, boot : Boot, freshness : Freshness]]
        /\ \A p \in DOMAIN paths' : paths'[p].epoch <= epoch
    BY <1>0, <2>1, <2>2, <2>3 DEF TableInv
  <2> QED BY <2>1, <2>4, <2>5 DEF TableInv
<1>3. ASSUME NEW c \in Conn, HandleMeasurement(c)
      PROVE  TableInv'
  <2>1. Frame(c).id \in MeasurementId
    BY <1>a, <1>3, FrameKind DEF HandleMeasurement, Reading
  <2>2. DOMAIN measurements' \subseteq MeasurementId
    BY <1>3, <2>1 DEF HandleMeasurement, Put, TableInv
  <2> QED BY <1>3, <2>2 DEF HandleMeasurement, TableInv
<1>4. ASSUME NEW c \in Conn, HandleRevalidate(c)
      PROVE  TableInv'
  <2>1. /\ DOMAIN workers' = DOMAIN workers
        /\ workers' \in [DOMAIN workers -> [boot : Boot, revalidation_required : BOOLEAN]]
    BY <1>4 DEF HandleRevalidate, TableInv
  <2> QED BY <1>4, <2>1 DEF HandleRevalidate, TableInv
<1>5. CASE AdvanceEpoch
  <2>1. \A p \in DOMAIN paths : paths[p].epoch \in Int
    BY CoordinatorAssumption DEF TableInv, Epoch
  <2>2. \A p \in DOMAIN paths : paths[p].epoch <= epoch + 1
    BY <1>0, <2>1 DEF TableInv
  <2> QED BY <1>5, <2>2 DEF AdvanceEpoch, TableInv
<1>6. CASE RevalidateAll
  <2>1. /\ DOMAIN paths' = DOMAIN paths
        /\ paths' \in [DOMAIN paths -> [epoch : Epoch, boot : Boot, freshness : Freshness]]
        /\ \A p \in DOMAIN paths : paths'[p].epoch = paths[p].epoch
    BY <1>6 DEF RevalidateAll, TableInv, Freshness
  <2> QED BY <1>6, <2>1 DEF RevalidateAll, TableInv
<1>7. CASE UNCHANGED state
  BY <1>7 DEF state, TableInv
<1> QED
  BY <1>1, <1>2, <1>3, <1>4, <1>5, <1>6, <1>7, TableWriters

\* The shapes of workers_, topology_, paths_ and measurements_ hold throughout.
THEOREM TablesHold == Spec => []TableInv
<1>1. Init => TableInv
  BY DEF Init, TableInv
<1>2. CoordinatorInv /\ TableInv /\ [Next]_vars => TableInv'
  BY TablesKept DEF CoordinatorInv, ProtocolInv
<1> QED BY <1>1, <1>2, CoordinatorInvHolds, PTL DEF Spec

\* A stored path is replaced only by one of the same or a later epoch, also when a
\* snapshot was sent before advance_epoch and is read after it.
THEOREM PathsNeverRollBack == Spec => NoPathRollback
<1> DEFINE Monotone == \A p \in DOMAIN paths : p \in DOMAIN paths' /\ paths[p].epoch <= paths'[p].epoch
<1>1. CoordinatorInv /\ TableInv /\ [Next]_vars => [Monotone]_vars
  <2> SUFFICES ASSUME CoordinatorInv, TableInv, [Next]_vars, NEW p \in DOMAIN paths
               PROVE  p \in DOMAIN paths' /\ paths[p].epoch <= paths'[p].epoch
    OBVIOUS
  <2>0. ShapeInv
    BY DEF CoordinatorInv, ProtocolInv
  <2>1. paths[p].epoch \in Int /\ paths[p].epoch <= paths[p].epoch /\ paths[p].epoch <= epoch
    BY CoordinatorAssumption DEF TableInv, Epoch
  <2>2. CASE UNCHANGED paths
    BY <2>1, <2>2
  <2>3. ASSUME NEW c \in Conn, HandleSnapshot(c)
        PROVE  p \in DOMAIN paths' /\ paths[p].epoch <= paths'[p].epoch
    <3> DEFINE f == Frame(c)
               accepted == SnapshotPaths(c, f)
               new == [epoch |-> f.epoch, boot |-> f.boot, freshness |-> "CURRENT"]
    <3>1. paths' = [q \in DOMAIN paths \cup accepted |-> IF q \in accepted THEN new ELSE paths[q]]
      BY <2>3 DEF HandleSnapshot
    <3>2. accepted # {} => f.epoch = epoch
      BY <2>0, <2>3, SnapshotFacts DEF HandleSnapshot, Reading
    <3>3. accepted # {} => new.epoch = epoch
      BY <3>2
    <3> HIDE DEF f, accepted, new
    <3> QED BY <2>1, <3>1, <3>3
  <2>4. CASE RevalidateAll
    <3>1. p \in DOMAIN paths' /\ paths'[p].epoch = paths[p].epoch
      BY <2>4 DEF RevalidateAll, TableInv
    <3> QED BY <2>1, <3>1
  <2> QED
    BY <2>2, <2>3, <2>4, TableWriters
    DEF HandleRegister, HandleMeasurement, HandleRevalidate, AdvanceEpoch, state
<1> QED BY <1>1, CoordinatorInvHolds, TablesHold, PTL DEF Spec, NoPathRollback

\* The answer ok to frame f is with the handler that will send it, or in an ACK.
OnTheWay(c, f, ok) ==
    \/ thread[c].at = "reply" /\ thread[c].re = f /\ thread[c].ok = ok
    \/ \E i \in DOMAIN acks[c] : acks[c][i].re = f /\ acks[c][i].ok = ok

GenerationsInv == \A m \in DOMAIN measurements : measurements[m].generation \in Nat

ReportInv == GenerationsInv /\ ReportedIsStored

LEMMA VerdictOnTheWay ==
    ReportedIsStored <=> \A c \in Conn : \A f, ok : OnTheWay(c, f, ok) => Verdict(f, ok)
BY DEF ReportedIsStored, OnTheWay

\* What one more ACK adds to a queue.
LEMMA AppendedAnswer ==
    ASSUME NEW s \in Seq(Answer), NEW a, NEW i \in DOMAIN Append(s, a)
    PROVE  (i \in DOMAIN s /\ Append(s, a)[i] = s[i]) \/ Append(s, a)[i] = a
OBVIOUS

\* An answer to a report comes from its handler only, and is then passed on as it is.
LEMMA NewVerdict ==
    ASSUME ShapeInv, FreshInv, RequestInv, [Next]_vars,
           NEW c \in Conn, NEW f, NEW ok, OnTheWay(c, f, ok)'
    PROVE  \/ OnTheWay(c, f, ok)
           \/ f.kind # "MEASUREMENT"
           \/ HandleMeasurement(c) /\ f = Frame(c) /\ ok = Newer(Frame(c))
<1> DEFINE Here == \/ OnTheWay(c, f, ok)
                   \/ f.kind # "MEASUREMENT"
                   \/ HandleMeasurement(c) /\ f = Frame(c) /\ ok = Newer(Frame(c))
<1>0. ProtocolStep
  BY NextIsProtocolStep
<1>1. ASSUME acks'[c] = acks[c] \/ acks'[c] = <<>>, thread'[c].at # "reply" \/ thread'[c] = thread[c]
      PROVE  OnTheWay(c, f, ok)
  <2>1. DOMAIN <<>> = {}
    OBVIOUS
  <2> QED BY <1>1, <2>1 DEF OnTheWay
<1>2. CASE OwnerStep
  BY <1>1, <1>2, OwnerEffect
<1>3. ASSUME NEW w \in Worker, Connect(w)
      PROVE  OnTheWay(c, f, ok)
  <2>1. acks'[c] = acks[c] /\ (thread'[c].at # "reply" \/ thread'[c] = thread[c])
    BY <1>3, ConnectEffect
  <2> QED BY <1>1, <2>1
<1>4. ASSUME NEW w \in Worker, CallStep(w)
      PROVE  OnTheWay(c, f, ok)
  BY <1>1, <1>4 DEF CallStep, Send
<1>5. ASSUME NEW w \in Worker, ReceiveAck(w)
      PROVE  OnTheWay(c, f, ok)
  <2>1. acks'[c] = acks[c] \/ acks'[c] = <<>>
    BY <1>5, ReceiveEffect DEF Under
  <2> QED BY <1>1, <1>5, <2>1 DEF ReceiveAck
<1>6. ASSUME NEW w \in Worker, AwaitFails(w) \/ Close(w) \/ Restart(w)
      PROVE  OnTheWay(c, f, ok)
  BY <1>1, <1>6 DEF AwaitFails, Close, Restart
<1>7. ASSUME NEW d \in Conn, ServerStep(d), d # c
      PROVE  OnTheWay(c, f, ok)
  BY <1>1, <1>7, ServerOthers
<1>8. ASSUME ServerStep(c), Accept(c) \/ Serve(c)
      PROVE  Here
  <2>1. thread[c] \in Thread /\ acks[c] \in Seq(Answer)
    BY DEF ShapeInv
  <2>2. ASSUME NEW re \in Frames, NEW b \in BOOLEAN, Reply(c, re, b), thread'[c].at # "reply"
        PROVE  OnTheWay(c, f, ok) \/ (f = re /\ ok = b)
    <3>1. acks'[c] = acks[c] \/ acks'[c] = Append(acks[c], Ack(re, b))
      BY <2>2, ReplyEffect
    <3>2. PICK i \in DOMAIN acks'[c] : acks'[c][i].re = f /\ acks'[c][i].ok = ok
      BY <2>2 DEF OnTheWay
    <3>3. CASE acks'[c] = acks[c]
      BY <3>2, <3>3 DEF OnTheWay
    <3>4. CASE acks'[c] = Append(acks[c], Ack(re, b))
      <4>1. (i \in DOMAIN acks[c] /\ acks'[c][i] = acks[c][i]) \/ acks'[c][i] = Ack(re, b)
        BY <2>1, <3>2, <3>4, AppendedAnswer
      <4> QED BY <3>2, <4>1 DEF OnTheWay, Ack
    <3> QED BY <3>1, <3>3, <3>4
  <2>3. inbox[c] # <<>> => Frame(c) \in Frames
    BY OneFrame DEF ShapeInv, Frame
  <2>4. CASE Accept(c) \/ StartThread(c) \/ EndThread(c) \/ DropFrame(c)
    <3>1. acks'[c] = acks[c] /\ thread'[c].at # "reply"
      <4>1. AfterFrame(None).at # "reply" /\ AfterFrame(thread[c].as).at # "reply"
        BY <2>1, ThreadTypes DEF Thread
      <4> QED BY <2>1, <2>4, <4>1, ThreadTypes
              DEF Accept, StartThread, EndThread, DropFrame, ShapeInv, Thread
    <3> QED BY <1>1, <3>1
  <2>5. CASE HandleRegister(c) \/ HandleSnapshot(c)
    <3>1. Frame(c) \in Frames /\ Frame(c).kind # "MEASUREMENT" /\ Reply(c, Frame(c), TRUE)
      BY <2>3, <2>5 DEF HandleRegister, HandleSnapshot, Reading
    <3>2. thread'[c].at # "reply"
      <4>1. AfterFrame(thread[c].as).at # "reply"
        BY <2>1, ThreadTypes DEF Thread
      <4>2. AfterFrame([worker |-> Frame(c).worker, boot |-> Frame(c).boot]).at # "reply"
        BY DEF AfterFrame, EndedThread
      <4> QED BY <2>5, <4>1, <4>2 DEF HandleRegister, HandleSnapshot, ShapeInv
    <3>3. OnTheWay(c, f, ok) \/ f = Frame(c)
      BY <2>2, <3>1, <3>2
    <3> QED BY <3>1, <3>3
  <2>6. CASE SendReply(c)
    <3>1. thread[c].at = "reply" /\ thread[c].re \in Frames /\ thread[c].ok \in BOOLEAN
      BY <2>1, <2>6 DEF SendReply, ShapeInv, Thread
    <3>2. AfterFrame(thread[c].as).at # "reply"
      BY <2>1, ThreadTypes DEF Thread
    <3>3. Reply(c, thread[c].re, thread[c].ok) /\ thread'[c].at # "reply"
      BY <2>6, <3>2 DEF SendReply, ShapeInv
    <3>4. OnTheWay(c, f, ok) \/ (f = thread[c].re /\ ok = thread[c].ok)
      BY <2>2, <3>1, <3>3
    <3> QED BY <3>1, <3>4 DEF OnTheWay
  <2>7. ASSUME NEW b, WillReply(c, b), acks' = acks
        PROVE  OnTheWay(c, f, ok) \/ (f = Frame(c) /\ ok = b)
    <3>1. thread'[c].at = "reply" /\ thread'[c].re = Frame(c) /\ thread'[c].ok = b
      BY <2>1, <2>7 DEF WillReply, ShapeInv, Thread
    <3> QED BY <2>7, <3>1 DEF OnTheWay
  <2>8. CASE HandleMeasurement(c)
    BY <2>7, <2>8 DEF HandleMeasurement
  <2>9. CASE HandleReserve(c) \/ HandleRelease(c) \/ HandleHeartbeat(c) \/ HandleRevalidate(c)
    <3>1. acks' = acks /\ Frame(c).kind # "MEASUREMENT" /\ \E b : WillReply(c, b)
      BY <2>9 DEF HandleReserve, HandleRelease, HandleHeartbeat, HandleRevalidate, Reading
    <3> QED BY <2>7, <3>1
  <2> QED
    BY <1>8, <2>4, <2>5, <2>6, <2>8, <2>9 DEF Serve
<1>9. CASE UNCHANGED vars
  BY <1>1, <1>9 DEF vars
<1>10. CASE Next
  <2>1. CASE \E d \in Conn : Accept(d) \/ Serve(d)
    BY <1>7, <1>8, <2>1, ServeIsServerStep
  <2>2. CASE \E w \in Worker : Connect(w) \/ Call(w) \/ Return(w) \/ Close(w) \/ Restart(w)
    BY <1>3, <1>4, <1>5, <1>6, <2>2, CallIsCallStep DEF Return
  <2>3. CASE AdvanceEpoch \/ RevalidateAll \/ RequestStop \/ Destroy
    <3>1. acks' = acks /\ (thread'[c].at # "reply" \/ thread'[c] = thread[c])
      BY <2>3, ThreadTypes DEF AdvanceEpoch, RevalidateAll, RequestStop, Destroy
    <3> QED BY <1>1, <3>1
  <2> QED BY <1>10, <2>1, <2>2, <2>3 DEF Next
<1> QED BY <1>9, <1>10

\* ingest stores a report or leaves one at least as new; either way the answer it is
\* about to get is right, and those on their way stay so.
LEMMA IngestKeepsVerdicts ==
    ASSUME ShapeInv, GenerationsInv, NEW c \in Conn, HandleMeasurement(c),
           NEW r, r = Frame(c)
    PROVE  /\ GenerationsInv'
           /\ Verdict(r, TRUE)' \/ ~Newer(r)
           /\ Verdict(r, FALSE)'
           /\ \A f, ok : Verdict(f, ok) /\ (f.kind = "MEASUREMENT" => f.generation \in Nat)
                             => Verdict(f, ok)'
<1> DEFINE new == [generation |-> r.generation, boot |-> r.boot]
<1>1. r \in Frames /\ r.kind = "MEASUREMENT"
  BY OneFrame DEF HandleMeasurement, Reading, ShapeInv, Frame
<1>2. r.generation \in Nat
  BY <1>1, FrameKind, CoordinatorAssumption
<1>3. measurements' = IF Newer(r) THEN Put(measurements, r.id, new) ELSE measurements
  BY DEF HandleMeasurement
<1>4. CASE Newer(r)
  <2>1. /\ measurements' = Put(measurements, r.id, new)
        /\ r.id \in DOMAIN measurements => measurements[r.id].generation < r.generation
    BY <1>3, <1>4 DEF Newer
  <2>2. /\ DOMAIN measurements' = DOMAIN measurements \cup {r.id}
        /\ measurements'[r.id] = new
        /\ \A m \in DOMAIN measurements : m # r.id => measurements'[m] = measurements[m]
    BY <2>1 DEF Put
  <2>3. new.generation = r.generation /\ new.boot = r.boot
    OBVIOUS
  <2> HIDE DEF new
  <2>4. GenerationsInv'
    BY <1>2, <2>2, <2>3 DEF GenerationsInv
  <2>5. Verdict(r, TRUE)' /\ Verdict(r, FALSE)'
    BY <1>2, <2>2, <2>3 DEF Verdict
  <2>6. ASSUME NEW f, NEW ok, Verdict(f, ok), f.kind = "MEASUREMENT", f.generation \in Nat
        PROVE  Verdict(f, ok)'
    <3>1. /\ f.id \in DOMAIN measurements
          /\ f.generation <= measurements[f.id].generation
          /\ measurements[f.id].generation \in Nat
          /\ ok /\ f.generation = measurements[f.id].generation
                => measurements[f.id].boot = f.boot
      BY <2>6 DEF Verdict, GenerationsInv
    <3>2. CASE f.id = r.id
      <4>1. f.generation < measurements'[f.id].generation
        BY <1>2, <2>1, <2>2, <2>3, <2>6, <3>1, <3>2
      <4>2. f.generation <= measurements'[f.id].generation
            /\ f.generation # measurements'[f.id].generation
        BY <1>2, <2>2, <2>3, <2>6, <3>2, <4>1
      <4> QED BY <2>2, <3>1, <4>2 DEF Verdict
    <3>3. CASE f.id # r.id
      BY <2>2, <3>1, <3>3 DEF Verdict
    <3> QED BY <3>2, <3>3
  <2> QED
    BY <2>4, <2>5, <2>6 DEF Verdict
<1>5. CASE ~Newer(r)
  <2>1. /\ measurements' = measurements /\ r.id \in DOMAIN measurements
        /\ ~(measurements[r.id].generation < r.generation)
    BY <1>3, <1>5 DEF Newer
  <2>2. r.generation <= measurements[r.id].generation
    BY <1>2, <2>1 DEF GenerationsInv
  <2> QED
    BY <1>5, <2>1, <2>2 DEF Verdict, GenerationsInv
<1> QED BY <1>4, <1>5

\* Every answer on its way is to a frame some worker sent.
LEMMA AnswerIsToFrame ==
    ASSUME ShapeInv, NEW c \in Conn, NEW f, NEW ok, OnTheWay(c, f, ok)
    PROVE  f \in Frames /\ ok \in BOOLEAN
<1>1. thread[c] \in Thread /\ acks[c] \in Seq(Answer)
  BY DEF ShapeInv
<1>2. CASE thread[c].at = "reply" /\ thread[c].re = f /\ thread[c].ok = ok
  BY <1>1, <1>2 DEF ShapeInv, Thread
<1>3. CASE \E i \in DOMAIN acks[c] : acks[c][i].re = f /\ acks[c][i].ok = ok
  <2>1. PICK i \in DOMAIN acks[c] : acks[c][i].re = f /\ acks[c][i].ok = ok
    BY <1>3
  <2>2. acks[c][i] \in Answer
    BY <1>1, <2>1, ElementOfSeq, LenProperties
  <2> QED BY <2>1, <2>2 DEF Answer
<1> QED BY <1>2, <1>3 DEF OnTheWay

LEMMA VerdictOnTheWayNext ==
    ReportedIsStored' <=> \A c \in Conn : \A f, ok : OnTheWay(c, f, ok)' => Verdict(f, ok)'
BY DEF ReportedIsStored, OnTheWay

LEMMA ReportKept ==
    ASSUME ShapeInv, FreshInv, RequestInv, ReportInv, [Next]_vars
    PROVE  ReportInv'
<1>1. ASSUME NEW d \in Conn, HandleMeasurement(d)
      PROVE  ReportInv'
  <2>1. GenerationsInv'
    BY <1>1, IngestKeepsVerdicts DEF ReportInv
  <2>2. ASSUME NEW c \in Conn, NEW f, NEW ok, OnTheWay(c, f, ok)'
        PROVE  Verdict(f, ok)'
    <3>1. CASE OnTheWay(c, f, ok)
      <4>1. Verdict(f, ok) /\ f \in Frames
        BY <3>1, VerdictOnTheWay, AnswerIsToFrame DEF ReportInv
      <4>2. f.kind = "MEASUREMENT" => f.generation \in Nat
        BY <4>1, FrameKind, CoordinatorAssumption
      <4> QED BY <1>1, <4>1, <4>2, IngestKeepsVerdicts DEF ReportInv
    <3>2. CASE f.kind # "MEASUREMENT"
      BY <3>2 DEF Verdict
    <3>3. CASE HandleMeasurement(c) /\ f = Frame(c) /\ ok = Newer(Frame(c))
      <4>1. Verdict(f, TRUE)' \/ ~Newer(f)
        BY <3>3, IngestKeepsVerdicts DEF ReportInv
      <4>2. Verdict(f, FALSE)'
        BY <3>3, IngestKeepsVerdicts DEF ReportInv
      <4>3. ok = TRUE \/ ok = FALSE
        BY <3>3 DEF Newer
      <4>4. CASE ok = TRUE
        <5>1. Newer(f)
          BY <3>3, <4>4
        <5> QED BY <3>3, <4>1, <4>4, <5>1 DEF Verdict
      <4>5. CASE ok = FALSE
        BY <3>3, <4>2, <4>5 DEF Verdict
      <4> QED BY <4>3, <4>4, <4>5
    <3> QED BY <2>2, <3>1, <3>2, <3>3, NewVerdict
  <2> QED BY <2>1, <2>2, VerdictOnTheWayNext DEF ReportInv
<1>2. ASSUME \A d \in Conn : ~HandleMeasurement(d)
      PROVE  ReportInv'
  <2>1. measurements' = measurements
    BY <1>2, TableWriters
    DEF HandleRegister, HandleSnapshot, HandleRevalidate, AdvanceEpoch, RevalidateAll, state
  <2>2. ASSUME NEW c \in Conn, NEW f, NEW ok, OnTheWay(c, f, ok)'
        PROVE  Verdict(f, ok)'
    <3>1. OnTheWay(c, f, ok) \/ f.kind # "MEASUREMENT"
      BY <1>2, <2>2, NewVerdict
    <3>2. Verdict(f, ok)
      BY <3>1, VerdictOnTheWay DEF ReportInv, Verdict
    <3> QED BY <2>1, <3>2 DEF Verdict
  <2> QED BY <2>1, <2>2, VerdictOnTheWayNext DEF ReportInv, GenerationsInv
<1> QED BY <1>1, <1>2

\* Whatever order the threads handle the reports of several workers in, every answer
\* to a report is right from the moment it is made until its worker reads it.
THEOREM ReportedIsStoredAlways == Spec => []ReportedIsStored
<1>1. Init => ReportInv
  BY DEF Init, ReportInv, GenerationsInv, ReportedIsStored, UnusedThread
<1>2. CoordinatorInv /\ ReportInv /\ [Next]_vars => ReportInv'
  BY ReportKept DEF CoordinatorInv, ProtocolInv
<1>3. ReportInv => ReportedIsStored
  BY DEF ReportInv
<1> QED BY <1>1, <1>2, <1>3, CoordinatorInvHolds, PTL DEF Spec

\* Connections with a frame under way.  Each was sent by a call of its own, and
\* each REGISTER read used one up.
Pending == {c \in Conn : inbox[c] # <<>>}

CountInv ==
    /\ calls \in 0 .. MaxCalls
    /\ seq \in Nat
    /\ seq + Cardinality(Pending) <= calls

\* Connections can be counted.
LEMMA ConnectionsFinite ==
    ASSUME NEW S \in SUBSET Conn
    PROVE  IsFiniteSet(S) /\ Cardinality(S) \in Nat
<1>1. IsFiniteSet(Conn)
  BY CoordinatorAssumption, FS_Interval DEF Conn
<1>2. IsFiniteSet(S)
  BY <1>1, FS_Subset
<1> QED BY <1>2, FS_CardinalityType

\* Which steps count: REGISTER takes a frame and increments seq_, a call sends
\* one, and no other step sends.
LEMMA PendingStep ==
    ASSUME CoordinatorInv, [Next]_vars
    PROVE  \/ \E c \in Pending : Pending' = Pending \ {c} /\ seq' = seq + 1 /\ calls' = calls
           \/ \E c \in Conn : /\ Pending' \subseteq Pending \cup {c} /\ seq' = seq
                            /\ calls < MaxCalls /\ calls' = calls + 1
           \/ Pending' \subseteq Pending /\ seq' = seq /\ calls' = calls
<1>0. ShapeInv /\ RequestInv /\ ProtocolStep
  BY NextIsProtocolStep DEF CoordinatorInv, ProtocolInv
<1>1. ASSUME NEW c \in Conn, HandleRegister(c)
      PROVE  c \in Pending /\ Pending' = Pending \ {c} /\ seq' = seq + 1 /\ calls' = calls
  <2>1. Takes(c) /\ seq' = seq + 1 /\ calls' = calls
    BY <1>1 DEF HandleRegister, Reading, Takes, client
  <2>2. inbox'[c] = <<>> /\ \A d \in Conn \ {c} : inbox'[d] = inbox[d]
    BY <1>0, <2>1, TakesEffect
  <2> QED BY <2>1, <2>2 DEF Pending, Takes
<1>2. ASSUME \A c \in Conn : ~HandleRegister(c)
      PROVE  seq' = seq
  BY <1>2, TableWriters
  DEF HandleSnapshot, HandleMeasurement, HandleRevalidate, AdvanceEpoch,
                            RevalidateAll, state
<1>3. ASSUME NEW c \in Conn, ServerStep(c)
      PROVE  Pending' \subseteq Pending /\ calls' = calls
  <2>1. \A d \in Conn \ {c} : inbox'[d] = inbox[d]
    BY <1>0, <1>3, ServerOthers
  <2>2. inbox'[c] = inbox[c] \/ inbox'[c] = <<>>
    BY <1>0, <1>3, TakesEffect DEF ServerStep, Quiet, Drops, Handles, Answers, Replies
  <2> QED BY <1>3, <2>1, <2>2 DEF Pending, ServerStep, client
<1>4. ASSUME NEW w \in Worker, NEW f \in Frames, NEW h \in SUBSET proc[w].held, Send(w, f, h)
      PROVE  \E c \in Conn : Pending' \subseteq Pending \cup {c} /\ calls < MaxCalls /\ calls' = calls + 1
  <2>1. proc[w].conn \in Conn /\ \A d \in Conn \ {proc[w].conn} : inbox'[d] = inbox[d]
    BY <1>0, <1>4, SendEffect
  <2>2. Pending' \subseteq Pending \cup {proc[w].conn} /\ calls < MaxCalls /\ calls' = calls + 1
    BY <1>4, <2>1 DEF Pending, Send
  <2> QED BY <2>1, <2>2
<1>5. ASSUME NEW w \in Worker, Connect(w) \/ ReceiveAck(w)
      PROVE  Pending' \subseteq Pending /\ calls' = calls
  BY <1>5 DEF Connect, ReceiveAck, Pending
<1>6. ASSUME NEW w \in Worker, AwaitFails(w) \/ Close(w) \/ Restart(w)
      PROVE  Pending' \subseteq Pending /\ calls' = calls
  <2>1. \A c \in Conn : inbox'[c] = inbox[c] \/ inbox'[c] = <<>>
    BY <1>0, <1>6, LeaveEffect
  <2> QED BY <1>6, <2>1 DEF Pending, AwaitFails, Close, Restart
<1>7. ASSUME OwnerStep
      PROVE  Pending' \subseteq Pending /\ calls' = calls
  BY <1>7 DEF OwnerStep, Pending, client
<1>8. \/ Pending' \subseteq Pending /\ calls' = calls
      \/ \E c \in Conn : Pending' \subseteq Pending \cup {c} /\ calls < MaxCalls /\ calls' = calls + 1
  BY <1>0, <1>3, <1>4, <1>5, <1>6, <1>7 DEF ProtocolStep, CallStep
<1> QED
  BY <1>1, <1>2, <1>8 DEF Pending

\* seq_ counts at most the requests sent and read.
LEMMA CountKept ==
    ASSUME CoordinatorInv, CountInv, [Next]_vars
    PROVE  CountInv'
<1>0. /\ IsFiniteSet(Pending) /\ Cardinality(Pending) \in Nat
      /\ IsFiniteSet(Pending') /\ Cardinality(Pending') \in Nat
  <2>1. Pending \in SUBSET Conn /\ Pending' \in SUBSET Conn
    BY DEF Pending
  <2> QED BY <2>1, ConnectionsFinite
<1> USE CoordinatorAssumption
<1>1. ASSUME NEW c \in Pending, Pending' = Pending \ {c}, seq' = seq + 1, calls' = calls
      PROVE  CountInv'
  <2>1. Cardinality(Pending') = Cardinality(Pending) - 1
    BY <1>0, <1>1, FS_RemoveElement
  <2> QED BY <1>0, <1>1, <2>1 DEF CountInv
<1>2. ASSUME NEW c \in Conn, Pending' \subseteq Pending \cup {c}, seq' = seq, calls < MaxCalls,
             calls' = calls + 1
      PROVE  CountInv'
  <2>1. /\ IsFiniteSet(Pending \cup {c})
        /\ Cardinality(Pending \cup {c}) \in Nat
        /\ Cardinality(Pending \cup {c}) <= Cardinality(Pending) + 1
    <3> DEFINE n == Cardinality(Pending)
    <3>1. /\ IsFiniteSet(Pending \cup {c})
          /\ Cardinality(Pending \cup {c}) = IF c \in Pending THEN n ELSE n + 1
      BY <1>0, FS_AddElement
    <3>2. n \in Nat
      BY <1>0
    <3> HIDE DEF n
    <3>3. /\ Cardinality(Pending \cup {c}) \in Nat
          /\ Cardinality(Pending \cup {c}) <= n + 1
      BY <3>1, <3>2
    <3> QED BY <3>1, <3>3 DEF n
  <2>2. Cardinality(Pending') <= Cardinality(Pending \cup {c})
    BY <1>2, <2>1, FS_Subset
  <2>3. Cardinality(Pending') <= Cardinality(Pending) + 1
    BY <1>0, <2>1, <2>2
  <2> QED BY <1>0, <1>2, <2>3 DEF CountInv
<1>3. ASSUME Pending' \subseteq Pending, seq' = seq, calls' = calls
      PROVE  CountInv'
  <2>1. Cardinality(Pending') <= Cardinality(Pending)
    BY <1>0, <1>3, FS_Subset
  <2> QED BY <1>0, <1>3, <2>1 DEF CountInv
<1> QED BY <1>1, <1>2, <1>3, PendingStep

\* Shapes and ranges of all state, the message counter seq_ included.
THEOREM CoordinatorTypeCorrect == Spec => []TypeOK
<1>1. Init => CountInv
  <2> SUFFICES ASSUME Init PROVE CountInv
    OBVIOUS
  <2>1. Pending = {}
    BY DEF Init, Pending
  <2>2. Cardinality(Pending) = 0
    BY <2>1, FS_EmptySet
  <2> QED BY <2>2, CoordinatorAssumption DEF Init, CountInv
<1>2. CoordinatorInv /\ CountInv /\ [Next]_vars => CountInv'
  BY CountKept
<1>3. CoordinatorInv /\ TableInv /\ CountInv => TypeOK
  <2> SUFFICES ASSUME CoordinatorInv, TableInv, CountInv PROVE TypeOK
    OBVIOUS
  <2>0. ShapeInv /\ BootInv
    BY DEF CoordinatorInv, ProtocolInv
  <2>1. seq \in 0 .. MaxCalls
    <3>1. Pending \in SUBSET Conn
      BY DEF Pending
    <3>2. Cardinality(Pending) \in Nat
      BY <3>1, ConnectionsFinite
    <3> QED BY <3>2, CoordinatorAssumption DEF CountInv
  <2>2. /\ \A w \in DOMAIN workers : w \in Worker /\ workers[w].boot \in Boot
        /\ nodes \subseteq NodeId \cup {0}
        /\ \A p \in DOMAIN paths : p \in PathId /\ paths[p].epoch \in Epoch /\ paths[p].boot \in Boot
        /\ DOMAIN measurements \subseteq MeasurementId
    BY DEF TableInv
  <2>3. ASSUME NEW c \in Conn
        PROVE  /\ thread[c].at \in {"unused", "backlog", "starting", "recv", "reply", "ended"}
               /\ peer[c] \in {"open", "fin", "rst"}
               /\ \A i \in DOMAIN inbox[c] : inbox[c][i] \in Frames
    <3>1. inbox[c] \in Seq(Frames)
      BY <2>0 DEF ShapeInv
    <3>2. \A i \in DOMAIN inbox[c] : inbox[c][i] \in Frames
      BY <3>1, ElementOfSeq, LenProperties
    <3> QED BY <2>0, <3>2 DEF ShapeInv, Thread, Place
  <2>4. ASSUME NEW w \in Worker
        PROVE  /\ proc[w].boot \in 1 .. (next_boot - 1)
               /\ proc[w].conn \in Conn \cup {None}
               /\ proc[w].held \subseteq ReservationId
    <3>1. proc[w] \in Process
      BY <2>0 DEF ShapeInv
    <3>2. proc[w].boot \in Boot /\ proc[w].boot < next_boot /\ next_boot \in Int
      BY <2>0, <3>1, CoordinatorAssumption DEF ShapeInv, BootInv, Process
    <3> QED BY <3>1, <3>2, CoordinatorAssumption DEF Process, Boot
  <2> QED BY <2>0, <2>1, <2>2, <2>3, <2>4 DEF TypeOK, ShapeInv
<1> QED BY <1>1, <1>2, <1>3, CoordinatorInvHolds, TablesHold, PTL DEF Spec

-----------------------------------------------------------------------------
(* The ledger of a coordinator *)

RP == INSTANCE ReservationProofs

\* What the theorems on the registry assume of its constants.
LEMMA RegistryAssumption ==
    /\ RP!IsFiniteSet(ReservationId)
    /\ Word \in Nat \ {0} /\ Bytes \subseteq 0 .. (Word - 1) /\ Capacity \subseteq 0 .. (Word - 1)
  BY CoordinatorAssumption DEF RP!IsFiniteSet, IsFiniteSet

\* The registry a coordinator owns is the one the theorems are about.
LEMMA SameRegistry ==
    /\ Registry!Init => RP!Init
    /\ [Registry!Next]_(Registry!vars) => [RP!Next]_(RP!vars)
<1>1. Registry!Init => RP!Init
  BY DEF Registry!Init, RP!Init
<1>2. [Registry!Next]_(Registry!vars) => [RP!Next]_(RP!vars)
  BY Zenon DEF Registry!Next, RP!Next, Registry!vars, RP!vars, Registry!Reserve, RP!Reserve,
     Registry!ReserveOK, RP!ReserveOK, Registry!ReserveRejected, RP!ReserveRejected,
     Registry!ReserveResult, RP!ReserveResult, Registry!MarkActive, RP!MarkActive,
     Registry!WouldOvercommit, RP!WouldOvercommit, Registry!Request, RP!Request,
     Registry!Release, RP!Release, Registry!ReleaseOK, RP!ReleaseOK,
     Registry!ReleaseRejected, RP!ReleaseRejected, Registry!ReleaseResult, RP!ReleaseResult,
     Registry!MarkReleased, RP!MarkReleased, Registry!LedgerWithout, RP!LedgerWithout,
     Registry!SetLimits, RP!SetLimits, Registry!Put, RP!Put, Registry!Erase, RP!Erase,
     Registry!Add, RP!Add, Registry!Used, RP!Used, Registry!Active, RP!Active
<1> QED
  BY <1>1, <1>2

\* So is the sum of what is held on a path.
LEMMA SameBytes ==
    ASSUME NEW p
    PROVE  Registry!ActiveBytes(p) = RP!ActiveBytes(p) /\ Registry!Used(p) = RP!Used(p)
  BY Zenon DEF Registry!Used, RP!Used, Registry!ActiveBytes, RP!ActiveBytes,
     Registry!ActiveUnits, RP!ActiveUnits, Registry!ActiveOn, RP!ActiveOn, Registry!Active,
     RP!Active, Registry!Cardinality, RP!Cardinality

\* A coordinator's registry is a registry in itself.
LEMMA CoordinatorRunsRegistry == Spec => RP!Spec
  BY CoordinatorRunsItsRegistry, SameRegistry, PTL DEF Registry!Spec, RP!Spec

\* Whatever threads, restarts and late frames do, the counter of each path is the
\* sum of its active reservations, and a path without any has no counter: what the
\* coordinator's validate_accounting tests holds in every state.
THEOREM CoordinatorLedgerCloses ==
    Spec => [](Registry!AccountingCloses /\ Registry!LedgerClosesToZero)
<1>2. RP!Spec => []RP!LedgerInv
  BY RP!LedgerInvariant, RegistryAssumption DEF RP!LedgerInvariant
<1>3. RP!LedgerInv => Registry!AccountingCloses /\ Registry!LedgerClosesToZero
  <2>1. RP!LedgerInv => RP!AccountingCloses /\ RP!LedgerClosesToZero
    BY DEF RP!LedgerInv
  <2>2. RP!AccountingCloses => Registry!AccountingCloses
    BY SameBytes DEF RP!AccountingCloses, Registry!AccountingCloses
  <2>3. RP!LedgerClosesToZero => Registry!LedgerClosesToZero
    BY Zenon DEF RP!LedgerClosesToZero, Registry!LedgerClosesToZero, RP!ActiveOn,
       Registry!ActiveOn, RP!Active, Registry!Active
  <2> QED
    BY <2>1, <2>2, <2>3
<1> QED
  BY <1>2, <1>3, CoordinatorRunsRegistry, PTL

\* No interleaving of the coordinator's threads lets the bytes held on a path grow past
\* the ceiling in force, except where their sum no longer fits the counter (RESERVE).
THEOREM CoordinatorOvercommitsOnlyByWrapping == Spec => Registry!OvercommitsOnlyByWrapping
<1>2. RP!Spec => RP!OvercommitsOnlyByWrapping
  BY RP!OvercommitsOnlyByWrappingAlways, RegistryAssumption
  DEF RP!OvercommitsOnlyByWrappingAlways
<1> DEFINE Within == \A p \in PathId :
               Registry!ActiveBytes(p)' > Registry!ActiveBytes(p)
                   => Registry!ActiveBytes(p)' <= per_path_bytes \/ Registry!ActiveBytes(p)' >= Word
           WithinRP == \A p \in PathId :
               RP!ActiveBytes(p)' > RP!ActiveBytes(p)
                   => RP!ActiveBytes(p)' <= per_path_bytes \/ RP!ActiveBytes(p)' >= Word
<1>3. WithinRP => Within
  <2>1. ASSUME NEW p
        PROVE  Registry!ActiveBytes(p)' = RP!ActiveBytes(p)'
    BY Zenon DEF Registry!ActiveBytes, RP!ActiveBytes,
       Registry!ActiveUnits, RP!ActiveUnits, Registry!ActiveOn, RP!ActiveOn, Registry!Active,
       RP!Active, Registry!Cardinality, RP!Cardinality
  <2> QED
    BY <2>1, SameBytes
<1>4. [WithinRP]_(RP!vars) => [Within]_(Registry!vars)
  BY <1>3 DEF RP!vars, Registry!vars
<1>5. RP!OvercommitsOnlyByWrapping => Registry!OvercommitsOnlyByWrapping
  BY <1>4, PTL DEF RP!OvercommitsOnlyByWrapping, Registry!OvercommitsOnlyByWrapping
<1> QED
  BY <1>2, <1>5, CoordinatorRunsRegistry, PTL
=============================================================================
