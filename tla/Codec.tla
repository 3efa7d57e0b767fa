------------------------------- MODULE Codec --------------------------------
(***************************************************************************)
(* Reader and Writer (include/pciefabric/codec.hpp) and what is written    *)
(* with them: the body of a snapshot file, which is also the payload of an *)
(* INVENTORY or PATH_SNAPSHOT frame (persistence.hpp), and the payloads of *)
(* the other frames (protocol.hpp).                                        *)
(*                                                                         *)
(* A stream is a sequence of units, one for each number whatever its       *)
(* width; a text is its length and its characters.  The encoders are       *)
(* written out field by field, the decoders are given by the fields they   *)
(* read, so nothing but the code makes the two agree.  Every document in   *)
(* Document is written, damaged in one place or not at all, and read; a    *)
(* snapshot that was accepted is written and read a second time.           *)
(***************************************************************************)
EXTENDS Naturals, SequencesExt

CONSTANTS
    Document,        \* what is written: records with fields what and value
    Garbage,         \* units that damage puts into a stream
    Beyond,          \* units the memory behind a stream can hold
    Magic,           \* the text "PCIEFABRIC"
    StringWindow,    \* max_string_ (256 KiB)
    StringLimit,     \* the longest text (64 KiB)
    MaxCount         \* max_count_ (16 Mi)

VARIABLES
    document,        \* what was written last
    fault,           \* how the stream was damaged: "none", "cut", "extra", "overwritten"
    stream,          \* the units
    beyond,          \* the unit the memory behind the stream holds
    pos,             \* pos_: units read
    section,         \* the list deserialize is reading, 0 before the first
    left,            \* elements of it still to be read
    out,             \* what was decoded
    result,          \* "reading", "OK" or an error code
    trip             \* how often the document was written

vars == <<document, fault, stream, beyond, pos, section, left, out, result, trip>>

B == INSTANCE Bdf

-----------------------------------------------------------------------------
(* Writer, and the encode overloads of persistence.hpp *)

Unit(x) == <<x>>
Text(t) == <<Len(t)>> \o t
List(s) == <<Len(s)>> \o s
Flag(b) == <<IF b THEN 1 ELSE 0>>

\* A value that may be absent is the empty sequence or the units it consists of.
Optional(v) == Flag(v # <<>>) \o v

encode_node(n) ==
    FlattenSeq(<<Text(B!canonical(n.bdf)), Unit(n.kind), Unit(n.generation), Unit(n.provenance),
      Optional(n.parent), List(n.children), Text(n.vendor), Text(n.device), Text(n.class_name),
      Text(n.driver), Flag(n.removed)>>)

MutantEncodePath(p) ==
    FlattenSeq(<<Unit(p.id), Unit(p.generation), Unit(p.source), Unit(p.destination), Unit(p.class),
      List(p.chain), List(p.links), Unit(p.locality), Optional(p.theoretical), Optional(p.measured),
      Unit(p.freshness), Unit(p.age), Unit(p.contention), Unit(p.score), Unit(p.confidence \div 2),
      Unit(p.provenance), Unit(p.boot), Unit(p.epoch)>>)

\* Confidences count steps of 1/510, of which the written byte keeps every second.
encode_path(p) ==
    FlattenSeq(<<Unit(p.id), Unit(p.generation), Unit(p.source), Unit(p.destination), Unit(p.class),
      List(p.chain), List(p.links), Unit(p.locality), Optional(p.theoretical), Optional(p.measured),
      Unit(p.freshness), Unit(p.age), Unit(p.contention), Unit(p.score), Unit(p.confidence \div 2),
      Unit(p.provenance), Unit(p.epoch), Unit(p.boot)>>)

encode_measurement(m) ==
    FlattenSeq(<<Unit(m.id), Unit(m.generation), Unit(m.source), Unit(m.destination), Unit(m.class),
      Unit(m.engine), Unit(m.bytes), Unit(m.iterations), Unit(m.duration), Unit(m.latency),
      Unit(m.provenance), Optional(m.path), Text(m.sync), Unit(m.warmup), Text(m.detail)>>)

encode_reservation(r) ==
    FlattenSeq(<<Unit(r.id), Unit(r.generation), Unit(r.path), Unit(r.path_generation),
      Unit(r.worker), Unit(r.boot), Unit(r.attempt), Unit(r.epoch), Unit(r.policy),
      Unit(r.policy_generation), Unit(r.bytes), Unit(r.bandwidth), Unit(r.duration),
      Unit(r.priority), Unit(r.source), Unit(r.destination), Text(r.workload), Unit(r.created),
      Flag(r.active), Flag(r.released)>>)

Each(s, op(_)) == [i \in DOMAIN s |-> op(s[i])]

\* u32_count(s.size()), then every element.
EncodeAll(elements) == <<Len(elements)>> \o FlattenSeq(elements)

serialize(s) ==
    FlattenSeq(<<Text(Magic), Unit(s.sequence), Unit(s.epoch),
      EncodeAll(Each(s.nodes, encode_node)), EncodeAll(Each(s.paths, encode_path)),
      EncodeAll(Each(s.measurements, encode_measurement)),
      EncodeAll(Each(s.reservations, encode_reservation)), EncodeAll(Each(s.policies, Unit))>>)

write_register(m) == FlattenSeq(<<Unit(m.worker), Unit(m.boot), Unit(m.host_gen)>>)
write_release(m) ==
    FlattenSeq(<<Unit(m.reservation), Unit(m.boot), Unit(m.gen), Unit(m.epoch)>>)
write_ack(m) == FlattenSeq(<<Unit(m.epoch), Unit(m.seq), Flag(m.ok), Text(m.message)>>)

Written(d) ==
    CASE d.what = "snapshot" -> serialize(d.value)
      [] d.what = "register" -> write_register(d.value)
      [] d.what = "release" -> write_release(d.value)
      [] d.what = "ack" -> write_ack(d.value)
      [] d.what = "measurement" -> encode_measurement(d.value)
      [] d.what = "reserve" -> encode_reservation(d.value)

-----------------------------------------------------------------------------
(* Reader *)

\* How one field is read: kind "unit", "flag", "enum" (of size values), "text",
\* "bdf", "list" or "optional" (of size units).
Field(kind, name, size) == [kind |-> kind, name |-> name, size |-> size]
U(name) == Field("unit", name, 1)

Reading(p) == [pos |-> p, got |-> [x \in {} |-> 0], error |-> "OK"]

Fails(r, code) == [r EXCEPT !.error = code]

\* The fields of a, and those of b that a does not have.
And(a, b) == [x \in DOMAIN a \cup DOMAIN b |-> IF x \in DOMAIN a THEN a[x] ELSE b[x]]

Got(r, f, value, p) ==
    [pos |-> p, got |-> And([x \in {f.name} |-> value], r.got), error |-> "OK"]

Has(p, n) == p + n <= Len(stream)

Units(p, n) == SubSeq(stream, p + 1, p + n)

\* A length is compared with what is left of max_string_, not of the stream; the
\* difference is unsigned and wraps once pos_ is past max_string_.
StringRefused(n, p) == n > StringLimit \/ (p <= StringWindow /\ n > StringWindow - p)

\* string() does not compare the length with the size of the stream.
TextAt(p, n) == [i \in 1 .. n |-> IF p + i <= Len(stream) THEN stream[p + i] ELSE beyond]

ReadText(r, f) ==
    IF ~Has(r.pos, 1) THEN Fails(r, "TRUNCATED")
    ELSE LET n == stream[r.pos + 1] IN
         IF StringRefused(n, r.pos + 1) THEN Fails(r, "PROTOCOL_OVERFLOW")
         ELSE LET text == TextAt(r.pos + 1, n) IN
              IF f.kind = "text" THEN Got(r, f, text, r.pos + 1 + n)
              ELSE IF B!parse(text) = B!Invalid THEN Fails(r, "INVALID_BDF")
              ELSE Got(r, f, B!parse(text), r.pos + 1 + n)

\* A count or a presence flag, then as many units as it announces.
ReadMany(r, f) ==
    IF ~Has(r.pos, 1) THEN Fails(r, "TRUNCATED")
    ELSE LET first == stream[r.pos + 1]
             n == IF f.kind = "list" THEN first ELSE IF first = 0 THEN 0 ELSE f.size
         IN  IF Has(r.pos + 1, n) THEN Got(r, f, Units(r.pos + 1, n), r.pos + 1 + n)
             ELSE Fails(r, "TRUNCATED")

MutantReadOne(r, f) ==
    IF ~Has(r.pos, 1) THEN Fails(r, "TRUNCATED")
    ELSE Got(r, f, IF f.kind = "flag" THEN stream[r.pos + 1] # 0 ELSE stream[r.pos + 1], r.pos + 1)

\* An enum that is missing is an invalid one.
ReadOne(r, f) ==
    IF ~Has(r.pos, 1) THEN Fails(r, IF f.kind = "enum" THEN "INVALID_ENUM" ELSE "TRUNCATED")
    ELSE LET v == stream[r.pos + 1] IN
         IF f.kind = "enum" /\ v >= f.size THEN Fails(r, "INVALID_ENUM")
         ELSE Got(r, f, IF f.kind = "flag" THEN v # 0 ELSE v, r.pos + 1)

ReadField(r, f) ==
    IF r.error # "OK" THEN r
    ELSE IF f.kind \in {"text", "bdf"} THEN ReadText(r, f)
    ELSE IF f.kind \in {"list", "optional"} THEN ReadMany(r, f)
    ELSE ReadOne(r, f)

\* Reads the fields in order, up to the first that fails.
Decode(fields, p) ==
    LET read[n \in 0 .. Len(fields)] ==
            IF n = 0 THEN Reading(p) ELSE ReadField(read[n - 1], fields[n])
    IN  read[Len(fields)]

\* require_end
Closed(r) == IF r.error = "OK" /\ r.pos # Len(stream) THEN Fails(r, "PROTOCOL_MALFORMED") ELSE r

-----------------------------------------------------------------------------
(* The decoders: the fields each reads, and what it makes of them *)

Provenances == 6
Freshnesses == 5
Localities == 8
PathClasses == 11
Contentions == 6
Engines == 5
TransferClasses == 7

NodeFields ==
    <<Field("bdf", "bdf", 1), U("kind"), U("generation"), Field("enum", "provenance", Provenances),
      Field("optional", "parent", 1), Field("list", "children", 1), Field("text", "vendor", 1),
      Field("text", "device", 1), Field("text", "class_name", 1), Field("text", "driver", 1),
      Field("flag", "removed", 1)>>

\* DeviceClass is one byte; the id is not read.
decode_node(got) == And([got EXCEPT !.kind = @ % 256], [id |-> 0])

PathFields ==
    <<U("id"), U("generation"), U("source"), U("destination"), Field("enum", "class", PathClasses),
      Field("list", "chain", 1), Field("list", "links", 1), Field("enum", "locality", Localities),
      Field("optional", "theoretical", 2), Field("optional", "measured", 2),
      Field("enum", "freshness", Freshnesses), U("age"), Field("enum", "contention", Contentions),
      U("score"), U("confidence"), U("provenance"), U("epoch"), U("boot")>>

MutantDecodePath(got) ==
    And([got EXCEPT !.confidence = (510 * @) \div 256],
        [capabilities |-> {}, host_generation |-> 1, device_generation |-> 1])

\* Two of the generations in the authority are made up.
decode_path(got) ==
    And([got EXCEPT !.confidence = 2 * @],
        [capabilities |-> {}, host_generation |-> 1, device_generation |-> 1])

MeasurementFields ==
    <<U("id"), U("generation"), U("source"), U("destination"),
      Field("enum", "class", TransferClasses), Field("enum", "engine", Engines),
      U("bytes"), U("iterations"), U("duration"), U("latency"),
      Field("enum", "provenance", Provenances), Field("optional", "path", 1),
      Field("text", "sync", 1), U("warmup"), Field("text", "detail", 1)>>

\* The generation of the path is made up too.
decode_measurement(got) ==
    And(got, [path_generation |-> IF got.path = <<>> THEN <<>> ELSE <<1>>])

ReservationFields ==
    <<U("id"), U("generation"), U("path"), U("path_generation"), U("worker"), U("boot"),
      U("attempt"), U("epoch"), U("policy"), U("policy_generation"), U("bytes"), U("bandwidth"),
      U("duration"), U("priority"), U("source"), U("destination"), Field("text", "workload", 1),
      U("created"), Field("flag", "active", 1), Field("flag", "released", 1)>>

\* A reservation that is not active becomes a released one; its time is read and dropped.
decode_reservation(got) == [got EXCEPT !.created = 0, !.released = ~got.active]

RegisterFields == <<U("worker"), U("boot"), U("host_gen")>>
ReleaseFields == <<U("reservation"), U("boot"), U("gen"), U("epoch")>>
AckFields == <<U("epoch"), U("seq"), Field("flag", "ok", 1), Field("text", "message", 1)>>

-----------------------------------------------------------------------------
(* What there is to write *)

Lists == <<"nodes", "paths", "measurements", "reservations", "policies">>

Nothing ==
    [sequence |-> 0, epoch |-> 0, nodes |-> <<>>, paths |-> <<>>, measurements |-> <<>>,
     reservations |-> <<>>, policies |-> <<>>]

\* What a field can hold.
FieldHolds(f, v) ==
    CASE f.kind = "unit" -> v \in Nat
      [] f.kind = "flag" -> v \in BOOLEAN
      [] f.kind = "enum" -> v \in 0 .. f.size - 1
      [] f.kind = "text" -> v \in Seq(Nat) /\ Len(v) <= StringLimit
      [] f.kind = "bdf" -> v \in B!ValidAddress
      [] f.kind = "list" -> v \in Seq(Nat)
      [] f.kind = "optional" -> v \in Seq(Nat) /\ Len(v) \in {0, f.size}

Names(fields) == {fields[i].name : i \in DOMAIN fields}

\* A record with these fields and more.
Fits(v, fields, more) ==
    /\ v = [x \in Names(fields) \cup more |-> v[x]]
    /\ \A i \in DOMAIN fields : FieldHolds(fields[i], v[fields[i].name])

IsNode(n) == Fits(n, NodeFields, {"id"}) /\ n.kind < 256
IsPath(p) == Fits(p, PathFields, {"capabilities", "host_generation", "device_generation"})
IsMeasurement(m) ==
    /\ Fits(m, MeasurementFields, {"path_generation"})
    /\ m.path_generation = [i \in DOMAIN m.path |-> m.path_generation[i]]
IsReservation(r) == Fits(r, ReservationFields, {})

Distinct(s) == \A i, j \in DOMAIN s : s[i].id = s[j].id => i = j

\* The stores a snapshot is taken from are maps, so no id is in a list twice.
IsSnapshot(s) ==
    /\ s = [x \in DOMAIN Nothing |-> s[x]]
    /\ s.sequence \in Nat /\ s.epoch \in Nat
    /\ \A k \in DOMAIN Lists :
          LET list == s[Lists[k]] IN
          list = [i \in 1 .. Len(list) |-> list[i]] /\ Len(list) \in 0 .. MaxCount
    /\ \A i \in DOMAIN s.nodes : IsNode(s.nodes[i])
    /\ \A i \in DOMAIN s.paths : IsPath(s.paths[i])
    /\ \A i \in DOMAIN s.measurements : IsMeasurement(s.measurements[i])
    /\ \A i \in DOMAIN s.reservations : IsReservation(s.reservations[i])
    /\ \A i \in DOMAIN s.policies : s.policies[i] \in Nat
    /\ Distinct(s.paths) /\ Distinct(s.measurements) /\ Distinct(s.reservations)

\* The texts of a message are far shorter than max_string_.
IsDocument(d) ==
    /\ d = [what |-> d.what, value |-> d.value]
    /\ d.what # "snapshot" => Len(Written(d)) <= StringWindow
    /\ \/ d.what = "snapshot" /\ IsSnapshot(d.value)
       \/ d.what = "register" /\ Fits(d.value, RegisterFields, {})
       \/ d.what = "release" /\ Fits(d.value, ReleaseFields, {})
       \/ d.what = "ack" /\ Fits(d.value, AckFields, {})
       \/ d.what = "measurement" /\ IsMeasurement(d.value)
       \/ d.what = "reserve" /\ IsReservation(d.value)

ASSUME CodecAssumption ==
    /\ \A d \in Document : IsDocument(d)
    /\ Garbage \subseteq Nat /\ Beyond \subseteq Nat
    /\ Magic \in Seq(Nat) /\ Len(Magic) <= StringLimit
    /\ StringWindow \in Nat /\ StringLimit \in Nat /\ StringLimit >= 12 /\ MaxCount \in Nat

-----------------------------------------------------------------------------
(* deserialize *)

Ends(code) ==
    /\ result' = code
    /\ UNCHANGED <<document, fault, stream, beyond, pos, section, left, out, trip>>

\* The caller goes on from r unless it failed.
Continue(r, s, n, o) ==
    IF r.error # "OK" THEN Ends(r.error)
    ELSE /\ pos' = r.pos /\ section' = s /\ left' = n /\ out' = o
         /\ UNCHANGED <<document, fault, stream, beyond, result, trip>>

Deserializing == result = "reading" /\ document.what = "snapshot"

ReadHeader ==
    LET r == Decode(<<Field("text", "magic", 1), U("sequence"), U("epoch")>>, pos)
        magic == Decode(<<Field("text", "magic", 1)>>, pos)
    IN  /\ Deserializing /\ section = 0 /\ pos = 0
        /\ IF magic.error = "OK" /\ magic.got.magic # Magic THEN Ends("PROTOCOL_MALFORMED")
           ELSE Continue(r, 0, 0, IF r.error = "OK" THEN [out EXCEPT !.sequence = r.got.sequence,
                                                                     !.epoch = r.got.epoch]
                                  ELSE out)

MutantReadCount ==
    LET r == Decode(<<U("count")>>, pos) IN
    /\ Deserializing /\ pos > 0 /\ left = 0 /\ section < Len(Lists)
    /\ Continue(r, section + 1, IF r.error = "OK" THEN r.got.count ELSE 0, out)

\* u32_count, when the list before it is complete.
ReadCount ==
    LET r == Decode(<<U("count")>>, pos) IN
    /\ Deserializing /\ pos > 0 /\ left = 0 /\ section < Len(Lists)
    /\ IF r.error = "OK" /\ r.got.count > MaxCount THEN Ends("PROTOCOL_OVERFLOW")
       ELSE Continue(r, section + 1, IF r.error = "OK" THEN r.got.count ELSE 0, out)

IsKnown(list, x) == \E i \in DOMAIN out[list] : out[list][i].id = x.id

\* One pass through a loop of deserialize; op is what becomes of the fields read.
DecodeElement(list, fields, op(_)) ==
    LET r == Decode(fields, pos) IN
    /\ Deserializing /\ left > 0 /\ Lists[section] = list
    /\ IF r.error = "OK" /\ IsKnown(list, op(r.got)) THEN Ends("DUPLICATE_IDENTITY")
       ELSE Continue(r, section, left - 1,
                     IF r.error = "OK" THEN [out EXCEPT ![list] = Append(@, op(r.got))] ELSE out)

DecodeNode == DecodeElement("nodes", NodeFields, decode_node)
DecodePath == DecodeElement("paths", PathFields, decode_path)
DecodeMeasurement == DecodeElement("measurements", MeasurementFields, decode_measurement)
DecodeReservation == DecodeElement("reservations", ReservationFields, decode_reservation)

\* Policies are bare ids, and may repeat.
ReadPolicy ==
    LET r == Decode(<<U("policy")>>, pos) IN
    /\ Deserializing /\ left > 0 /\ Lists[section] = "policies"
    /\ Continue(r, section, left - 1,
                IF r.error = "OK" THEN [out EXCEPT !.policies = Append(@, r.got.policy)] ELSE out)

RequireEnd ==
    /\ Deserializing /\ section = Len(Lists) /\ left = 0
    /\ Ends(Closed(Reading(pos)).error)

-----------------------------------------------------------------------------
(* The other payloads *)

Finish(r, value) ==
    /\ result' = r.error
    /\ pos' = r.pos
    /\ out' = IF r.error = "OK" THEN value ELSE out
    /\ UNCHANGED <<document, fault, stream, beyond, section, left, trip>>

Receives(what) == result = "reading" /\ document.what = what

read_register ==
    LET r == Closed(Decode(RegisterFields, 0)) IN Receives("register") /\ Finish(r, r.got)

read_release ==
    LET r == Closed(Decode(ReleaseFields, 0)) IN Receives("release") /\ Finish(r, r.got)

MutantReadAck ==
    LET r == Decode(AckFields, 0) IN Receives("ack") /\ Finish(r, r.got)

read_ack == LET r == Closed(Decode(AckFields, 0)) IN Receives("ack") /\ Finish(r, r.got)

\* handle_frame does not ask these two for the end of the payload.
ReadMeasurement ==
    LET r == Decode(MeasurementFields, 0) IN
    Receives("measurement") /\ Finish(r, IF r.error = "OK" THEN decode_measurement(r.got) ELSE r.got)

ReadReserve ==
    LET r == Decode(ReservationFields, 0) IN
    Receives("reserve") /\ Finish(r, IF r.error = "OK" THEN decode_reservation(r.got) ELSE r.got)

-----------------------------------------------------------------------------
Start(d, f, s) ==
    /\ document = d /\ fault = f /\ stream = s
    /\ pos = 0 /\ section = 0 /\ left = 0 /\ out = Nothing
    /\ result = "reading"

Init ==
    /\ beyond \in Beyond /\ trip = 1
    /\ \E d \in Document :
          LET s == Written(d) IN
          \/ Start(d, "none", s)
          \/ \E n \in 0 .. Len(s) - 1 : Start(d, "cut", SubSeq(s, 1, n))
          \/ \E v \in Garbage : Start(d, "extra", Append(s, v))
          \/ \E i \in DOMAIN s, v \in Garbage :
                s[i] # v /\ Start(d, "overwritten", [s EXCEPT ![i] = v])

\* What was accepted is saved and loaded again.
SaveAgain ==
    /\ result = "OK" /\ trip = 1 /\ document.what = "snapshot"
    /\ trip' = 2 /\ fault' = "none"
    /\ document' = [document EXCEPT !.value = out]
    /\ stream' = serialize(out)
    /\ pos' = 0 /\ section' = 0 /\ left' = 0 /\ out' = Nothing /\ result' = "reading"
    /\ UNCHANGED beyond

Next ==
    \/ ReadHeader \/ ReadCount
    \/ DecodeNode \/ DecodePath \/ DecodeMeasurement \/ DecodeReservation \/ ReadPolicy
    \/ RequireEnd
    \/ read_register \/ read_release \/ read_ack \/ ReadMeasurement \/ ReadReserve
    \/ SaveAgain

Spec == Init /\ [][Next]_vars

-----------------------------------------------------------------------------
(* semantic_digest (snapshot.hpp) *)

\* Tenths of gigatransfers per second, by PcieGen.
signaling_gts(g) == IF g \in 1 .. 6 THEN <<25, 50, 80, 160, 320, 640>>[g] ELSE 0

\* Megabytes per second of payload: 8b/10b for the first two generations, then 128b/130b.
effective_rate(g, lanes) ==
    IF g \in {1, 2} THEN (signaling_gts(g) * 25 * 8 * lanes) \div 20
    ELSE (signaling_gts(g) * 25 * 128 * lanes) \div 260

throughput(m) == IF m.duration = 0 THEN 0 ELSE (m.bytes * 1000) \div m.duration

\* What is hashed of each, in its order; texts are hashed without their lengths.
NodeHashed(n) ==
    B!canonical(n.bdf) \o <<n.kind, n.generation, n.provenance>> \o n.parent
    \o n.vendor \o n.device \o n.class_name

PathHashed(p) ==
    <<p.id, p.generation, p.source, p.destination, p.class, p.locality, p.freshness>>
    \o (IF p.theoretical = <<>> THEN <<>>
        ELSE <<effective_rate(p.theoretical[1], p.theoretical[2])>>)
    \o (IF p.measured = <<>> THEN <<>> ELSE <<Head(p.measured)>>)

MeasurementHashed(m) == <<m.id, m.source, m.destination, m.class, m.bytes, throughput(m)>>

semantic_digest(s) ==
    <<s.sequence, s.epoch>>
    \o FlattenSeq(Each(s.nodes, NodeHashed) \o Each(s.paths, PathHashed)
                  \o Each(s.measurements, MeasurementHashed))

-----------------------------------------------------------------------------
(* Properties *)

Codes ==
    {"reading", "OK", "TRUNCATED", "PROTOCOL_OVERFLOW", "PROTOCOL_MALFORMED", "INVALID_ENUM",
     "INVALID_BDF", "DUPLICATE_IDENTITY"}

\* The reader is at a place of deserialize, and never accepts before it has
\* read the last list; no unit is read twice.
TypeOK ==
    /\ stream \in Seq(Nat) /\ pos \in Nat
    /\ result \in Codes /\ trip \in 1 .. 2
    /\ section \in 0 .. Len(Lists) /\ left \in 0 .. MaxCount
    /\ document.what = "snapshot" /\ result = "OK" => section = Len(Lists) /\ left = 0
    /\ left > 0 => section > 0

KeptNode(n) == [n EXCEPT !.id = 0]

KeptMeasurement(m) == [m EXCEPT !.path_generation = [i \in DOMAIN @ |-> 1]]

KeptReservation(r) == [r EXCEPT !.created = 0, !.released = ~r.active]

KeptPath(p) ==
    [p EXCEPT !.confidence = @ - (@ % 2), !.capabilities = {},
              !.host_generation = 1, !.device_generation = 1]

\* What one trip through a stream is meant to keep of a document.
Kept(d) ==
    CASE d.what = "snapshot" ->
            [d.value EXCEPT !.nodes = Each(@, KeptNode), !.paths = Each(@, KeptPath),
                            !.measurements = Each(@, KeptMeasurement),
                            !.reservations = Each(@, KeptReservation)]
      [] d.what = "measurement" -> KeptMeasurement(d.value)
      [] d.what = "reserve" -> KeptReservation(d.value)
      [] OTHER -> d.value

\* Texts near the end of max_string_ cannot be read back, however short they are.
TooLong == result = "PROTOCOL_OVERFLOW" /\ Len(stream) > StringWindow

\* Whatever the encoders write, the decoders read back field for field, losing
\* only ids of nodes, capabilities, two of the generations, creation times and
\* half a step of confidence, none of which changes the semantic digest.  The
\* only streams refused are those with a second node and those too long for
\* max_string_.
RoundTrip ==
    fault = "none" /\ result # "reading" =>
        \/ /\ result = "OK" /\ out = Kept(document)
           /\ document.what = "snapshot" => semantic_digest(out) = semantic_digest(document.value)
        \/ /\ document.what = "snapshot"
           /\ \/ result = "DUPLICATE_IDENTITY" /\ Len(document.value.nodes) > 1
              \/ TooLong

\* A stream that ends early is refused wherever it was cut, also inside a text,
\* where the reader has run past its end; one with something after its end is
\* refused too.  Both rest on require_end, which a MEASUREMENT, whose last field
\* is a text, and a RESERVE are not read with.
DamageIsRefused ==
    /\ fault = "cut" /\ document.what # "measurement" => result # "OK"
    /\ fault = "extra" /\ document.what \notin {"measurement", "reserve"} => result # "OK"

Within(s, name, size) == \A i \in DOMAIN s : s[i][name] < size

\* Whichever unit was overwritten, an accepted snapshot holds valid addresses of
\* nodes, a provenance of nodes and measurements, a class, locality, freshness
\* and contention of paths, a transfer class and an engine of measurements that
\* exist, and no identity twice, and was read to its last unit.  Of the other
\* four enums in it nothing is said: see EnumsAreValid.
AcceptedIsWellFormed ==
    document.what = "snapshot" /\ result = "OK" =>
        /\ \A i \in DOMAIN out.nodes : B!valid(out.nodes[i].bdf)
        /\ Within(out.nodes, "provenance", Provenances)
        /\ Within(out.paths, "class", PathClasses) /\ Within(out.paths, "locality", Localities)
        /\ Within(out.paths, "freshness", Freshnesses)
        /\ Within(out.paths, "contention", Contentions)
        /\ Within(out.measurements, "class", TransferClasses)
        /\ Within(out.measurements, "engine", Engines)
        /\ Within(out.measurements, "provenance", Provenances)
        /\ Distinct(out.nodes) /\ Distinct(out.paths)
        /\ Distinct(out.measurements) /\ Distinct(out.reservations)
        /\ pos = Len(stream)

DeviceClasses == 11
PcieGens == 7

\* "Every enum has ... a strict validity check so that malformed codes can never
\* be accepted silently" (enums.hpp): an accepted snapshot has no device class,
\* link generation or provenance of a path that does not exist.  The decoders
\* cast all four without asking valid().
EnumsAreValid ==
    document.what = "snapshot" /\ result = "OK" =>
        /\ Within(out.nodes, "kind", DeviceClasses)
        /\ Within(out.paths, "provenance", Provenances)
        /\ \A i \in DOMAIN out.paths :
              LET p == out.paths[i] IN
              /\ p.theoretical = <<>> \/ p.theoretical[1] < PcieGens
              /\ p.measured = <<>> \/ p.measured[2] < Provenances

\* "Every read is bounds-checked" (codec.hpp): the reader is never past the end of
\* its stream.  A text is not compared with the stream, and takes it there.
ReadsStayInside == pos <= Len(stream)

\* Losses do not add up: what was accepted once, damaged or not, comes back
\* exactly when it is saved and loaded again.
SecondTripIsExact ==
    trip = 2 /\ result # "reading" => (result = "OK" /\ out = document.value) \/ TooLong
=============================================================================
