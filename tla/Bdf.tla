-------------------------------- MODULE Bdf ---------------------------------
(***************************************************************************)
(* Bdf (include/pciefabric/bdf.hpp): the address of a device slot, its     *)
(* canonical text and the parser of that text.  A text is a sequence of    *)
(* character codes: the sixteen lower-case hexadecimal digits are 0 .. 15, *)
(* the capitals A .. F are 26 .. 31, and every character that is neither a *)
(* digit nor a separator is Other.                                         *)
(***************************************************************************)
EXTENDS Naturals, Sequences, FiniteSets

Digit == 0 .. 15
Capital == 26 .. 31
Colon == 32
Dot == 33
Other == 34

\* The error INVALID_BDF.
Invalid == [domain |-> 0, bus |-> 0, device |-> 0, function |-> 256]

Address(domain, bus, device, function) ==
    [domain |-> domain, bus |-> bus, device |-> device, function |-> function]

\* domain_ is 16 bits wide and the other three 8.
valid(b) == b.function <= 7 /\ b.device <= 31

Domains == {d \in Nat : d \div 256 <= 255}

ValidAddress == [domain: Domains, bus: 0 .. 255, device: 0 .. 31, function: 0 .. 7]

\* operator<=>
Before(a, b) ==
    \/ a.domain < b.domain
    \/ a.domain = b.domain /\ a.bus < b.bus
    \/ a.domain = b.domain /\ a.bus = b.bus /\ a.device < b.device
    \/ a.domain = b.domain /\ a.bus = b.bus /\ a.device = b.device /\ a.function < b.function

\* One digit of the function is written, whatever the function is.
fmt_bdf(b) ==
    <<b.bus \div 16, b.bus % 16, Colon, b.device \div 16, b.device % 16, Dot, b.function % 16>>

canonical(b) ==
    <<(b.domain \div 256) \div 16, (b.domain \div 256) % 16, (b.domain \div 16) % 16, b.domain % 16, Colon>>
    \o fmt_bdf(b)

IsHex(c) == c \in Digit \cup Capital

hexval(c) == c % 16

\* "bus:device.function": seven characters.
ParseTriple(domain, text) ==
    IF /\ Len(text) = 7 /\ text[3] = Colon /\ text[6] = Dot
       /\ \A i \in {1, 2, 4, 5, 7} : IsHex(text[i])
    THEN Address(domain, 16 * hexval(text[1]) + hexval(text[2]),
                 16 * hexval(text[4]) + hexval(text[5]), hexval(text[7]))
    ELSE Invalid

\* The number of colons decides whether a domain of four digits comes first.
parse(text) ==
    LET colons == Cardinality({i \in DOMAIN text : text[i] = Colon})
        b == IF colons = 1 THEN ParseTriple(0, text)
             ELSE IF colons = 2 /\ Len(text) > 5 /\ text[5] = Colon
                     /\ \A i \in 1 .. 4 : IsHex(text[i])
             THEN ParseTriple((16 * hexval(text[1]) + hexval(text[2])) * 256
                                + 16 * hexval(text[3]) + hexval(text[4]),
                              SubSeq(text, 6, Len(text)))
             ELSE Invalid
    IN  IF valid(b) THEN b ELSE Invalid
=============================================================================
