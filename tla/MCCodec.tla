------------------------------ MODULE MCCodec -------------------------------
(***************************************************************************)
(* Snapshots with every optional part present somewhere and absent         *)
(* somewhere.  In one a text lies across the end of max_string_, in the    *)
(* longest all texts lie behind it.                                        *)
(***************************************************************************)
EXTENDS Codec

MCMagic == <<99>>

Node(function, parent, children) ==
    [id |-> 5, bdf |-> B!Address(258, 26, 31, function), kind |-> 6, generation |-> 2,
     provenance |-> 1, parent |-> parent, children |-> children, vendor |-> <<8>>,
     device |-> <<>>, class_name |-> <<>>, driver |-> <<9>>, removed |-> FALSE]

Path(id, chain, theoretical, measured, confidence) ==
    [id |-> id, generation |-> 3, source |-> 1, destination |-> 2, class |-> 10, chain |-> chain,
     links |-> <<>>, locality |-> 7, theoretical |-> theoretical, measured |-> measured,
     freshness |-> 4, age |-> 6, contention |-> 5, score |-> 3, confidence |-> confidence,
     provenance |-> 2, epoch |-> 1, boot |-> 2, capabilities |-> {"PEER_ACCESS"},
     host_generation |-> 2, device_generation |-> 2]

Meas(id, path, detail) ==
    [id |-> id, generation |-> 1, source |-> 1, destination |-> 2, class |-> 6, engine |-> 4,
     bytes |-> 7, iterations |-> 2, duration |-> 3, latency |-> 1, provenance |-> 5,
     path |-> path, path_generation |-> [i \in DOMAIN path |-> 4], sync |-> <<1>>,
     warmup |-> 2, detail |-> detail]

Res(id, active, released) ==
    [id |-> id, generation |-> 1, path |-> 2, path_generation |-> 3, worker |-> 4, boot |-> 5,
     attempt |-> 6, epoch |-> 7, policy |-> 8, policy_generation |-> 9, bytes |-> 10,
     bandwidth |-> 11, duration |-> 12, priority |-> 13, source |-> 1, destination |-> 2,
     workload |-> <<3>>, created |-> 4, active |-> active, released |-> released]

Snap(nodes, paths, measurements, reservations, policies) ==
    [what |-> "snapshot",
     value |-> [sequence |-> 2, epoch |-> 3, nodes |-> nodes, paths |-> paths,
                measurements |-> measurements, reservations |-> reservations,
                policies |-> policies]]

Message(what, value) == [what |-> what, value |-> value]

MCDocument ==
    {Snap(<<>>, <<>>, <<>>, <<>>, <<>>),
     Snap(<<Node(7, <<>>, <<1, 2>>)>>, <<Path(1, <<2>>, <<>>, <<>>, 509)>>, <<>>, <<>>, <<1, 1>>),
     Snap(<<Node(0, <<4>>, <<>>), Node(1, <<5>>, <<>>)>>, <<>>, <<>>, <<>>, <<>>),
     Snap(<<>>, <<Path(1, <<>>, <<4, 16>>, <<7, 0>>, 255), Path(2, <<2, 3>>, <<>>, <<9, 1>>, 0)>>,
          <<>>, <<>>, <<>>),
     Snap(<<>>, <<>>, <<Meas(1, <<>>, <<>>), Meas(2, <<3>>, <<2, 3>>)>>,
          <<Res(1, TRUE, FALSE), Res(2, FALSE, TRUE)>>, <<5>>),
     Snap(<<>>, <<>>, <<Meas(1, <<3>>, <<>>)>>, <<Res(1, FALSE, FALSE), Res(2, TRUE, FALSE)>>, <<5>>),
     Snap(<<>>, <<Path(1, [i \in 1 .. 60 |-> i], <<>>, <<>>, 0)>>, <<Meas(1, <<>>, <<2>>)>>, <<>>, <<>>),
     Message("register", [worker |-> 1, boot |-> 2, host_gen |-> 3]),
     Message("release", [reservation |-> 1, boot |-> 2, gen |-> 3, epoch |-> 4]),
     Message("ack", [epoch |-> 1, seq |-> 2, ok |-> FALSE, message |-> <<3, 4>>]),
     Message("measurement", Meas(1, <<3>>, <<2>>)),
     Message("reserve", Res(1, FALSE, FALSE))}

Addresses ==
    {B!Address(domain, bus, device, function) :
        domain \in {0, 1, 43981}, bus \in {0, 1, 16, 171}, device \in {0, 9, 16, 31, 32, 255},
        function \in {0, 1, 7, 8, 15}}

Capitals(text) == [i \in DOMAIN text |-> IF text[i] \in 10 .. 15 THEN text[i] + 16 ELSE text[i]]

TextBefore(s, t) ==
    \E i \in DOMAIN s : s[i] < t[i] /\ SubSeq(s, 1, i - 1) = SubSeq(t, 1, i - 1)

\* Bdf against what it is for: exactly the valid addresses come back from their
\* text, in either case and, in domain 0, without the domain; sorting addresses
\* sorts their texts.
ASSUME AddressesAreText ==
    /\ \A b \in Addresses :
          LET back == IF B!valid(b) THEN b ELSE B!Invalid IN
          /\ B!parse(B!canonical(b)) = back /\ B!parse(Capitals(B!canonical(b))) = back
          /\ b.domain = 0 => B!parse(B!fmt_bdf(b)) = back
    /\ \A a, b \in {x \in Addresses : x.function < 8} :
          B!Before(a, b) <=> TextBefore(B!canonical(a), B!canonical(b))
=============================================================================
