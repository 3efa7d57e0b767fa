----------------------------- MODULE Transport ------------------------------
(***************************************************************************)
(* One direction of a connection at the level of bytes                     *)
(* (src/pciefabric/tcp.cpp, include/pciefabric/protocol.hpp): write_frame  *)
(* encodes a frame and hands its bytes to send in as many pieces as the    *)
(* socket takes; the thread of handle_connection collects a header, then   *)
(* the payload it announces, in as many pieces as recv returns, and        *)
(* decodes.  After an error other than PEER_LOST the thread goes on to     *)
(* read the next header from wherever the stream stands.                   *)
(*                                                                         *)
(* A field of the header is one unit and so is a byte of payload; magic    *)
(* and version are one field.  The checksum is perfect, but it covers the  *)
(* payload only.  Any unit may have any value, also the magic's: after a   *)
(* frame that was too large the stream stands in its payload, and whatever *)
(* is found there counts as the next header.                               *)
(***************************************************************************)
EXTENDS Integers, SequencesExt

CONSTANTS
    Frame,           \* frames the writer sends: [kind, payload]
    Magic,           \* the unit that stands for magic and version
    MaxPayload,      \* kMaxPayload
    Garbage,         \* what a damaged unit may turn into
    Window,          \* bound: units in flight
    MaxFrames        \* bound: frames written

VARIABLES
    out,             \* bytes of the frame being written that send_all has yet to send
    wire,            \* bytes in flight
    peer,            \* the writer's end: "open", "fin" (closed), "dead" (died), "rst" (reset)
    reader,          \* where read_frame is, and what it has collected
    stop,            \* stop_
    sent, delivered, \* history: frames written and frames read
    last,            \* history: frames read_frame is done with, returned or refused
    spoilt,          \* history: a damaged unit is under way
    astray,          \* history: read_frame went on elsewhere than at the beginning of a frame
    sound            \* history: no unit was damaged

told == <<sent, delivered, last, spoilt, astray, sound>>

vars == <<out, wire, peer, reader, stop, told>>

HeaderSize == 4

\* crc32, byte by byte, but no two payloads share one: a square and something
\* less than the distance to the next give both numbers away.
Rolled(crc, byte) == (crc + byte) * (crc + byte) + byte + 1

Crc(payload) ==
    LET crc[n \in Nat] == IF n = 0 THEN 0 ELSE Rolled(crc[n - 1], payload[n])
    IN  crc[Len(payload)]

Kinds == 1 .. 12

ASSUME TransportAssumption ==
    /\ MaxPayload \in Nat /\ Window \in Nat \ {0} /\ MaxFrames \in Nat
    /\ Magic \in Nat /\ Garbage \subseteq Nat
    /\ Frame \subseteq [kind: Kinds, payload: Seq(Nat)]

-----------------------------------------------------------------------------
(* protocol.hpp *)

encode(f) == <<Magic, f.kind, Len(f.payload), Crc(f.payload)>> \o f.payload

Payload(buf) == SubSeq(buf, HeaderSize + 1, Len(buf))

MutantDecode(buf) ==
    IF buf[1] # Magic THEN "PROTOCOL_MALFORMED"
    ELSE IF buf[2] \notin Kinds THEN "INVALID_ENUM"
    ELSE "OK"

\* What decode answers for a header and the payload it announces.
decode(buf) ==
    IF buf[1] # Magic THEN "PROTOCOL_MALFORMED"
    ELSE IF buf[2] \notin Kinds THEN "INVALID_ENUM"
    ELSE IF buf[4] # Crc(Payload(buf)) THEN "PROTOCOL_CHECKSUM"
    ELSE "OK"

-----------------------------------------------------------------------------
(* The writer *)

WriteFrame(f) ==
    /\ peer = "open" /\ out = <<>>
    /\ Len(sent) < MaxFrames
    /\ out' = encode(f)
    /\ sent' = Append(sent, f)
    /\ UNCHANGED <<wire, peer, reader, stop, delivered, last, spoilt, astray, sound>>

MutantSendSome ==
    /\ peer = "open" /\ reader.at # "ended"
    /\ \E n \in 1 .. Len(out) :
          /\ Len(wire) + n <= Window
          /\ wire' = wire \o SubSeq(out, 1, n)
          /\ out' = <<>>
    /\ UNCHANGED <<peer, reader, stop, told>>

\* send takes some of the bytes.
SendSome ==
    /\ peer = "open" /\ reader.at # "ended"
    /\ \E n \in 1 .. Len(out) :
          /\ Len(wire) + n <= Window
          /\ wire' = wire \o SubSeq(out, 1, n)
          /\ out' = SubSeq(out, n + 1, Len(out))
    /\ UNCHANGED <<peer, reader, stop, told>>

\* Nobody is there any more: write_frame returns an error.
SendFails ==
    /\ reader.at = "ended" /\ out # <<>>
    /\ out' = <<>>
    /\ UNCHANGED <<wire, peer, reader, stop, told>>

Close ==
    /\ peer = "open" /\ out = <<>>
    /\ peer' = "fin"
    /\ UNCHANGED <<out, wire, reader, stop, told>>

\* The process dies, also in the middle of a frame.  A reset may destroy bytes
\* that were not read.
Die ==
    /\ peer = "open"
    /\ out' = <<>>
    /\ \/ peer' = "dead" /\ UNCHANGED wire
       \/ peer' = "rst" /\ wire' \in {wire, <<>>}
    /\ UNCHANGED <<reader, stop, told>>

\* A unit in flight is damaged; bound: no other damaged one is under way.
Damage ==
    /\ ~spoilt
    /\ \E i \in DOMAIN wire, v \in Garbage :
          /\ wire[i] # v
          /\ wire' = [wire EXCEPT ![i] = v]
    /\ spoilt' = TRUE /\ sound' = FALSE
    /\ UNCHANGED <<out, peer, reader, stop, sent, delivered, last, astray>>

-----------------------------------------------------------------------------
(* The reader *)

At(place, buf) == [at |-> place, buf |-> buf]

\* The loop of handle_connection, before it blocks in read_frame.
NextFrame == IF stop THEN At("ended", <<>>) ELSE At("header", <<>>)

\* How many bytes the call of recv asks for.
Wanted ==
    CASE reader.at = "header" -> HeaderSize - Len(reader.buf)
      [] reader.at = "payload" -> HeaderSize + reader.buf[3] - Len(reader.buf)
      [] OTHER -> 0

Keep == UNCHANGED <<delivered, last, spoilt, astray>>

\* The frame that begins where the header stands has the announced length.
Announced(buf) == ~astray /\ last < Len(sent) /\ buf[3] = Len(sent[last + 1].payload)

\* The whole frame has been collected: it is returned, or refused.
Complete(buf) ==
    LET f == [kind |-> buf[2], payload |-> Payload(buf)]
        returned == decode(buf) = "OK"
    IN  /\ reader' = NextFrame
        /\ delivered' = IF returned THEN Append(delivered, f) ELSE delivered
        /\ IF Announced(buf)
           THEN /\ last' = last + 1
                /\ spoilt' = (spoilt /\ returned /\ f = sent[last + 1])
                /\ UNCHANGED astray
           ELSE astray' = TRUE /\ UNCHANGED <<last, spoilt>>

MutantCollect(buf) ==
    IF Len(buf) < HeaderSize THEN reader' = At("header", buf) /\ Keep
    ELSE IF Len(buf) < HeaderSize + buf[3] THEN reader' = At("payload", buf) /\ Keep
    ELSE Complete(buf)

\* After a length beyond the limit the announced payload is left in the stream.
Collect(buf) ==
    IF Len(buf) < HeaderSize THEN reader' = At("header", buf) /\ Keep
    ELSE IF buf[3] > MaxPayload
    THEN reader' = NextFrame /\ astray' = TRUE /\ UNCHANGED <<delivered, last, spoilt>>
    ELSE IF Len(buf) < HeaderSize + buf[3] THEN reader' = At("payload", buf) /\ Keep
    ELSE Complete(buf)

\* recv returns some of the bytes asked for.
Receive ==
    /\ \E n \in 1 .. Len(wire) :
          /\ n <= Wanted
          /\ wire' = SubSeq(wire, n + 1, Len(wire))
          /\ Collect(reader.buf \o SubSeq(wire, 1, n))
    /\ UNCHANGED <<out, peer, stop, sent, sound>>

MutantPeerLost ==
    /\ reader.at # "ended" /\ peer \in {"fin", "dead"}
    /\ reader' = At("ended", <<>>)
    /\ UNCHANGED <<out, wire, peer, stop, told>>

\* recv returns 0: the thread ends, whatever it had collected.
PeerLost ==
    /\ reader.at # "ended" /\ wire = <<>> /\ peer \in {"fin", "dead"}
    /\ reader' = At("ended", <<>>)
    /\ UNCHANGED <<out, wire, peer, stop, told>>

\* recv fails with NETWORK_ERROR, again and again until stop_.
RecvFails ==
    /\ reader.at # "ended" /\ wire = <<>> /\ peer = "rst"
    /\ reader' = NextFrame
    /\ UNCHANGED <<out, wire, peer, stop, told>>

RequestStop ==
    /\ ~stop
    /\ stop' = TRUE
    /\ UNCHANGED <<out, wire, peer, reader, told>>

-----------------------------------------------------------------------------
Init ==
    /\ out = <<>> /\ wire = <<>> /\ peer = "open"
    /\ reader = At("header", <<>>) /\ stop = FALSE
    /\ sent = <<>> /\ delivered = <<>> /\ last = 0
    /\ spoilt = FALSE /\ astray = FALSE /\ sound = TRUE

ReadStep == Receive \/ PeerLost \/ RecvFails

Next ==
    \/ \E f \in Frame : WriteFrame(f)
    \/ SendSome \/ SendFails \/ Close \/ Die \/ Damage
    \/ ReadStep \/ RequestStop

\* The sending thread and the reading thread keep running.
Fairness == WF_vars(SendSome) /\ WF_vars(ReadStep)

Spec == Init /\ [][Next]_vars /\ Fairness

-----------------------------------------------------------------------------
(* Properties *)

Channel == INSTANCE FrameChannel WITH
              Kind <- Kinds, queue <- SubSeq(sent, last + 1, Len(sent)), got <- delivered

\* Bytes are in one place at a time and the reader never collects more than a
\* frame of the greatest size.
TypeOK ==
    /\ Len(wire) <= Window
    /\ peer \in {"open", "fin", "dead", "rst"}
    /\ reader.at \in {"header", "payload", "ended"}
    /\ Len(reader.buf) < HeaderSize + MaxPayload
    /\ {stop, spoilt, astray, sound} \subseteq BOOLEAN
    /\ last \in 0 .. Len(sent)

\* However the bytes are cut into pieces or lost with the writer, read_frame
\* returns the frames as they were written, in order and none left out; a damaged
\* unit costs or falsifies one frame at most.  That ends when a length is damaged
\* or a frame too large: then read_frame may return anything.
ImplementsChannel == Channel!Spec

\* An orderly close takes nothing back: when the thread ends because the writer
\* has closed, it has read every frame, and they are those written unless a unit
\* was damaged.
CloseLosesNothing ==
    reader.at = "ended" /\ peer = "fin" /\ ~stop /\ ~astray /\ ~spoilt =>
        last = Len(sent) /\ (sound => delivered = sent)

\* read_frame gets to every frame that was written, unless the writer dies, the
\* coordinator stops, a damaged unit is still under way or read_frame has gone
\* astray; a full socket, a short read or a frame refused before it only delays it.
EveryFrameArrives ==
    \A k \in 1 .. MaxFrames :
        Len(sent) >= k ~> (last >= k \/ peer \in {"dead", "rst"} \/ stop \/ spoilt \/ astray)

\* "Oversize frames are rejected": nothing of one is taken for a frame, so only
\* frames that were written are returned as long as no unit is damaged.
\* read_frame rejects the header and goes on in the payload.
NothingIsMadeUp == sound => Range(delivered) \subseteq Range(sent)
=============================================================================
