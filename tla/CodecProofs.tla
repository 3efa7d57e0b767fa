---------------------------- MODULE CodecProofs ----------------------------
(***************************************************************************)
(* Proofs about Codec, for every document the wire format can hold and     *)
(* every damage of the model.                                              *)
(*                                                                         *)
(* The argument has three layers.  An address or a field: what Bdf and the *)
(* writers produce, the readers return (CanonicalIsText, FieldComesBack),  *)
(* and whatever a reader returns is a value of the field (FieldRead).      *)
(* Several fields: the pieces FlattenSeq joins are found one behind the    *)
(* other (Laid), and Decode reads them so (Runs); by induction over the    *)
(* fields, a stream that holds the pieces is read back (DecodeComesBack),  *)
(* and one that merely agrees with them as far as it goes leaves an        *)
(* accepting reader where the writer was (Agrees).  A snapshot: Edge and   *)
(* Spot say where serialize puts each list and each element, and the       *)
(* inductive invariant relates the reader, element by element, to them.    *)
(*                                                                         *)
(* Induction is the lemma Induction: the numbers for which a claim fails   *)
(* would have a least one (LeastNumber).                                   *)
(***************************************************************************)
EXTENDS Codec, FiniteSetTheorems, SequenceTheorems, WellFoundedInduction, TLAPS

LessThan == {mn \in Nat \X Nat : mn[1] < mn[2]}

\* A set of numbers that is not empty has a least element.
LEMMA LeastNumber ==
    ASSUME NEW ns \in SUBSET Nat, ns # {}
    PROVE  \E n \in ns : \A m \in ns : n <= m
<1>1. IsWellFoundedOn(LessThan, Nat)
  <2>1. LessThan = OpToRel(<, Nat)
    BY Zenon DEF LessThan, OpToRel
  <2> QED
    BY <2>1, NatLessThanWellFounded, Zenon
<1>2. PICK n \in ns : \A m \in ns : ~(<<m, n>> \in LessThan)
  BY <1>1, WFMin, Zenon
<1>3. \A m \in ns : ~(m < n)
  BY <1>2 DEF LessThan
<1> QED
  BY <1>3

\* Induction over the numbers, for the set of those for which a claim holds.
LEMMA Induction ==
    ASSUME NEW ns \in SUBSET Nat, 0 \in ns, \A n \in Nat : n \in ns => n + 1 \in ns
    PROVE  ns = Nat
<1> SUFFICES ASSUME Nat \ ns # {} PROVE FALSE
  OBVIOUS
<1>1. PICK n \in Nat \ ns : \A k \in Nat \ ns : n <= k
  BY LeastNumber
<1>2. n # 0 /\ n - 1 \in Nat
  BY <1>1
<1>3. n - 1 \in ns
  BY <1>1, <1>2
<1>4. (n - 1) + 1 \in ns
  BY <1>2, <1>3
<1> QED
  BY <1>1, <1>2, <1>4

-----------------------------------------------------------------------------
(* Where the parts of a stream are *)

\* x has the units u after its first p.
HoldsAt(x, p, u) == p + Len(u) <= Len(x) /\ \A j \in 1 .. Len(u) : x[p + j] = u[j]

\* g holds what is written after each part of s.
Flats(s, g, n) ==
    /\ g = [i \in 1 .. n |-> g[i]]
    /\ g[1] = s[1]
    /\ \A i \in 2 .. n : g[i] = g[i - 1] \o s[i]

\* Every number of pieces can be joined one after another.
LEMMA FlatsExist ==
    ASSUME NEW s
    PROVE  \A n \in Nat : \E g : Flats(s, g, n + 1)
<1> DEFINE Z == {k \in Nat : \E g : Flats(s, g, k + 1)}
<1>1. 0 \in Z
  <2> DEFINE g == [i \in 1 .. 1 |-> s[1]]
  <2>1. Flats(s, g, 0 + 1)
    BY DEF Flats
  <2> QED
    BY <2>1
<1>2. ASSUME NEW k \in Nat, k \in Z PROVE k + 1 \in Z
  <2>1. PICK g : Flats(s, g, k + 1)
    BY <1>2
  <2> DEFINE h == [i \in 1 .. (k + 2) |-> IF i = k + 2 THEN g[k + 1] \o s[k + 2] ELSE g[i]]
  <2>2. h[1] = s[1]
    BY <2>1 DEF Flats
  <2>3. ASSUME NEW i \in 2 .. (k + 2) PROVE h[i] = h[i - 1] \o s[i]
    <3>1. CASE i = k + 2
      <4>1. i \in 1 .. (k + 2) /\ i - 1 = k + 1 /\ k + 1 \in 1 .. (k + 2) /\ k + 1 # k + 2
        BY <3>1
      <4>2. h[i] = g[k + 1] \o s[k + 2] /\ h[k + 1] = g[k + 1]
        BY <3>1, <4>1
      <4> QED
        BY <3>1, <4>1, <4>2
    <3>2. CASE i # k + 2
      <4>1. i \in 2 .. (k + 1) /\ i \in 1 .. (k + 2) /\ i - 1 \in 1 .. (k + 2) /\ i - 1 # k + 2
        BY <3>2
      <4>2. h[i] = g[i] /\ h[i - 1] = g[i - 1]
        BY <4>1, <3>2
      <4>3. g[i] = g[i - 1] \o s[i]
        BY <2>1, <4>1 DEF Flats
      <4> QED
        BY <4>2, <4>3
    <3> QED
      BY <3>1, <3>2
  <2>4. Flats(s, h, k + 2)
    BY <2>2, <2>3 DEF Flats
  <2>5. k + 2 = (k + 1) + 1
    OBVIOUS
  <2> QED
    BY <2>4, <2>5
<1> HIDE DEF Z
<1>3. Z = Nat
  <2>1. Z \in SUBSET Nat
    BY DEF Z
  <2> QED
    BY <1>1, <1>2, <2>1, Induction
<1> QED
  BY <1>3 DEF Z

\* FlattenSeq joins the pieces of a sequence one after another, from the first.
LEMMA FlattenIsFlat ==
    ASSUME NEW s, Len(s) \in Nat, Len(s) # 0
    PROVE  \E g : Flats(s, g, Len(s)) /\ FlattenSeq(s) = g[Len(s)]
<1> DEFINE n == Len(s)
           f == CHOOSE u : u = [i \in 1 .. n |-> IF i = 1 THEN s[i] ELSE u[i - 1] \o s[i]]
<1>1. FlattenSeq(s) = f[n]
  BY Zenon DEF FlattenSeq
<1>2. PICK g : Flats(s, g, n)
  <2>1. n - 1 \in Nat /\ (n - 1) + 1 = n
    OBVIOUS
  <2>2. \E g : Flats(s, g, (n - 1) + 1)
    BY <2>1, FlatsExist, Zenon
  <2> QED
    BY <2>1, <2>2
<1> HIDE DEF n
<1>3. g = [i \in 1 .. n |-> IF i = 1 THEN s[i] ELSE g[i - 1] \o s[i]]
  <2>1. n \in Nat
    BY DEF n
  <2>2. \A i \in 1 .. n : i # 1 => i \in 2 .. n
    BY <2>1
  <2>3. g = [i \in 1 .. n |-> g[i]]
    BY <1>2, Zenon DEF Flats
  <2>4. \A i \in 1 .. n : g[i] = IF i = 1 THEN s[i] ELSE g[i - 1] \o s[i]
    BY <1>2, <2>2, Zenon DEF Flats
  <2> QED
    BY <2>3, <2>4, Zenon
<1>4. f = [i \in 1 .. n |-> IF i = 1 THEN s[i] ELSE f[i - 1] \o s[i]]
  BY <1>3, Zenon
<1> HIDE DEF f
<1>5. Flats(s, f, n)
  <2>1. n \in Nat /\ n # 0 /\ 1 \in 1 .. n
    BY DEF n
  <2>2. \A i \in 2 .. n : i \in 1 .. n /\ i # 1
    BY <2>1
  <2>3. f = [i \in 1 .. n |-> f[i]]
    BY <1>4, Zenon
  <2>4. f[1] = s[1]
    BY <1>4, <2>1, Zenon
  <2>5. \A i \in 2 .. n : f[i] = f[i - 1] \o s[i]
    BY <1>4, <2>2, Zenon
  <2> QED
    BY <2>3, <2>4, <2>5 DEF Flats
<1> QED
  BY <1>1, <1>5 DEF n

\* The parts of s lie in x one after the other, the i-th from e[i - 1] to e[i].
Laid(x, s, e) ==
    \A i \in 1 .. Len(s) :
        e[i - 1] \in Nat /\ e[i] = e[i - 1] + Len(s[i]) /\ HoldsAt(x, e[i - 1], s[i])

\* The parts of two joined sequences.
LEMMA Joined ==
    ASSUME NEW u \in Seq(Nat), NEW w \in Seq(Nat)
    PROVE  /\ u \o w \in Seq(Nat) /\ Len(u \o w) = Len(u) + Len(w)
           /\ \A j \in 1 .. Len(u) : (u \o w)[j] = u[j]
           /\ \A j \in 1 .. Len(w) : (u \o w)[Len(u) + j] = w[j]
  OBVIOUS

\* Sequences with the same length and the same members are the same.
LEMMA SameSeq ==
    ASSUME NEW u \in Seq(Nat), NEW w \in Seq(Nat), Len(u) = Len(w),
           \A i \in 1 .. Len(u) : u[i] = w[i]
    PROVE  u = w
  OBVIOUS

\* The n units after the first p of a sequence.
LEMMA PieceOf ==
    ASSUME NEW u \in Seq(Nat), NEW p \in Nat, NEW n \in Nat, p + n <= Len(u)
    PROVE  /\ SubSeq(u, p + 1, p + n) \in Seq(Nat) /\ Len(SubSeq(u, p + 1, p + n)) = n
           /\ \A i \in 1 .. n : SubSeq(u, p + 1, p + n)[i] = u[p + i]
  OBVIOUS

\* Two joined pieces are held one behind the other.
LEMMA HoldsBoth ==
    ASSUME NEW x \in Seq(Nat), NEW p \in Nat, NEW u \in Seq(Nat), NEW w \in Seq(Nat)
    PROVE  /\ u \o w \in Seq(Nat) /\ Len(u \o w) = Len(u) + Len(w)
           /\ HoldsAt(x, p, u \o w) => HoldsAt(x, p, u) /\ HoldsAt(x, p + Len(u), w)
<1>1. /\ u \o w \in Seq(Nat) /\ Len(u \o w) = Len(u) + Len(w)
      /\ \A j \in 1 .. Len(u) : (u \o w)[j] = u[j]
      /\ \A j \in 1 .. Len(w) : (u \o w)[Len(u) + j] = w[j]
  BY Joined
<1> DEFINE v == u \o w
<1> HIDE DEF v
<1>2. v \in Seq(Nat) /\ Len(v) = Len(u) + Len(w) /\ Len(u) \in Nat /\ Len(w) \in Nat
      /\ (\A j \in 1 .. Len(u) : v[j] = u[j])
      /\ (\A j \in 1 .. Len(w) : v[Len(u) + j] = w[j])
  BY <1>1 DEF v
<1>3. ASSUME HoldsAt(x, p, v) PROVE HoldsAt(x, p, u)
  <2>1. \A j \in 1 .. Len(u) : j \in 1 .. Len(v)
    BY <1>2
  <2> QED
    <3>1. p + Len(u) <= Len(x)
      BY <1>2, <1>3 DEF HoldsAt
    <3>2. \A j \in 1 .. Len(u) : x[p + j] = u[j]
      BY <1>2, <1>3, <2>1 DEF HoldsAt
    <3> QED
      BY <3>1, <3>2 DEF HoldsAt
<1>4. ASSUME HoldsAt(x, p, v) PROVE HoldsAt(x, p + Len(u), w)
  <2>1. \A j \in 1 .. Len(w) : Len(u) + j \in 1 .. Len(v) /\ p + (Len(u) + j) = (p + Len(u)) + j
    BY <1>2
  <2>2. ASSUME NEW j \in 1 .. Len(w) PROVE x[(p + Len(u)) + j] = w[j]
    <3>1. x[p + (Len(u) + j)] = v[Len(u) + j]
      BY <1>4, <2>1 DEF HoldsAt
    <3> QED
      BY <3>1, <2>1, <1>2
  <2>3. (p + Len(u)) + Len(w) <= Len(x)
    BY <1>2, <1>4 DEF HoldsAt
  <2> QED
    BY <2>2, <2>3 DEF HoldsAt
<1> QED
  BY <1>2, <1>3, <1>4 DEF v

\* What is written one after the other is found one after the other.
LEMMA FlatIsLaid ==
    ASSUME NEW s \in Seq(Seq(Nat))
    PROVE  /\ FlattenSeq(s) \in Seq(Nat)
           /\ \A x \in Seq(Nat), p \in Nat :
                 HoldsAt(x, p, FlattenSeq(s)) =>
                    \E e : e[0] = p /\ e[Len(s)] = p + Len(FlattenSeq(s)) /\ Laid(x, s, e)
<1>1. CASE Len(s) = 0
  <2>1. FlattenSeq(s) = s /\ s = <<>>
    BY <1>1 DEF FlattenSeq
  <2>2. ASSUME NEW x \in Seq(Nat), NEW p \in Nat
        PROVE  \E e : e[0] = p /\ e[Len(s)] = p + Len(FlattenSeq(s)) /\ Laid(x, s, e)
    <3> DEFINE e == [i \in {0} |-> p]
    <3>1. e[0] = p /\ e[Len(s)] = p + Len(FlattenSeq(s)) /\ Laid(x, s, e)
      BY <2>1 DEF Laid
    <3> QED
      BY <3>1
  <2> QED
    BY <2>1, <2>2
<1>2. CASE Len(s) # 0
  <2> DEFINE n == Len(s)
  <2>1. n \in Nat /\ n # 0
    BY <1>2
  <2>2. PICK g : Flats(s, g, n) /\ FlattenSeq(s) = g[n]
    BY <2>1, FlattenIsFlat
  <2>3. \A i \in 1 .. n : s[i] \in Seq(Nat)
    OBVIOUS
  <2> HIDE DEF n
  <2>4. \A i \in 1 .. n : g[i] \in Seq(Nat)
    <3> DEFINE Z == {k \in Nat : k + 1 <= n => g[k + 1] \in Seq(Nat)}
    <3>1. 0 \in Z
      <4>1. 0 + 1 = 1 /\ 1 \in 1 .. n
        BY <2>1
      <4>2. g[1] = s[1]
        BY <2>2 DEF Flats
      <4> QED
        BY <2>3, <4>1, <4>2
    <3>2. ASSUME NEW k \in Nat, k \in Z PROVE k + 1 \in Z
      <4> SUFFICES ASSUME k + 2 <= n PROVE g[k + 2] \in Seq(Nat)
        BY <2>1
      <4>1. g[k + 1] \in Seq(Nat) /\ s[k + 2] \in Seq(Nat)
        BY <2>1, <2>3, <3>2
      <4>2. k + 2 \in 2 .. n /\ (k + 2) - 1 = k + 1
        BY <2>1
      <4>3. g[k + 2] = g[k + 1] \o s[k + 2]
        BY <2>2, <4>2 DEF Flats
      <4> QED
        BY <4>1, <4>3, HoldsBoth
    <3>3. Z = Nat
      <4> HIDE DEF Z
      <4>1. Z \in SUBSET Nat
        BY DEF Z
      <4> QED
        BY <3>1, <3>2, <4>1, Induction
    <3>4. \A i \in 1 .. n : i - 1 \in Nat /\ (i - 1) + 1 = i /\ i <= n
      BY <2>1
    <3> QED
      BY <3>3, <3>4
  <2>5. ASSUME NEW x \in Seq(Nat), NEW p \in Nat, HoldsAt(x, p, g[n])
        PROVE  \E e : e[0] = p /\ e[n] = p + Len(g[n]) /\ Laid(x, s, e)
    <3>1. \A i \in 1 .. n : HoldsAt(x, p, g[i])
      <4> DEFINE Z == {k \in Nat : k < n => HoldsAt(x, p, g[n - k])}
      <4>1. 0 \in Z
        BY <2>1, <2>5
      <4>2. ASSUME NEW k \in Nat, k \in Z PROVE k + 1 \in Z
        <5> SUFFICES ASSUME k + 1 < n PROVE HoldsAt(x, p, g[n - (k + 1)])
          OBVIOUS
        <5>1. n - k \in 2 .. n /\ (n - k) - 1 = n - (k + 1) /\ n - (k + 1) \in 1 .. n /\ k < n
              /\ n - k \in 1 .. n
          BY <2>1
        <5>2. g[n - k] = g[n - (k + 1)] \o s[n - k]
          BY <5>1, <2>2 DEF Flats
        <5>3. HoldsAt(x, p, g[n - (k + 1)] \o s[n - k])
          BY <4>2, <5>1, <5>2
        <5>4. g[n - (k + 1)] \in Seq(Nat) /\ s[n - k] \in Seq(Nat)
          BY <2>3, <2>4, <5>1
        <5> QED
          BY <5>3, <5>4, HoldsBoth
      <4>3. Z = Nat
        <5> HIDE DEF Z
        <5>1. Z \in SUBSET Nat
          BY DEF Z
        <5> QED
          BY <4>1, <4>2, <5>1, Induction
      <4>4. \A i \in 1 .. n : n - i \in Nat /\ n - i < n /\ n - (n - i) = i
        BY <2>1
      <4> QED
        BY <4>3, <4>4
    <3> DEFINE e == [i \in 0 .. n |-> IF i = 0 THEN p ELSE p + Len(g[i])]
    <3>2. e[0] = p /\ e[n] = p + Len(g[n])
      BY <2>1
    <3>3. ASSUME NEW i \in 1 .. n
          PROVE  e[i - 1] \in Nat /\ e[i] = e[i - 1] + Len(s[i]) /\ HoldsAt(x, e[i - 1], s[i])
      <4>1. CASE i = 1
        <5>1. e[i - 1] = p /\ e[i] = p + Len(g[1]) /\ g[1] = s[1]
          BY <2>1, <2>2, <4>1 DEF Flats
        <5> QED
          BY <5>1, <4>1, <3>1
      <4>2. CASE i # 1
        <5>1. i \in 2 .. n /\ i - 1 \in 1 .. n /\ i - 1 \in 0 .. n /\ i - 1 # 0 /\ i # 0 /\ i \in 0 .. n
          BY <2>1, <4>2
        <5>2. g[i] = g[i - 1] \o s[i]
          BY <5>1, <2>2 DEF Flats
        <5>3. e[i] = p + Len(g[i]) /\ e[i - 1] = p + Len(g[i - 1])
          BY <5>1
        <5>4. g[i - 1] \in Seq(Nat) /\ s[i] \in Seq(Nat) /\ Len(g[i - 1]) \in Nat /\ Len(s[i]) \in Nat
          BY <5>1, <2>3, <2>4
        <5>5. HoldsAt(x, p, g[i - 1] \o s[i])
          BY <3>1, <5>2
        <5>6. Len(g[i]) = Len(g[i - 1]) + Len(s[i]) /\ HoldsAt(x, p + Len(g[i - 1]), s[i])
          BY <5>2, <5>4, <5>5, HoldsBoth
        <5> HIDE DEF e
        <5> QED
          <6>1. e[i - 1] \in Nat
            BY <5>3, <5>4
          <6>2. e[i] = e[i - 1] + Len(s[i])
            <7>1. \A a, b \in Nat : p + (a + b) = (p + a) + b
              OBVIOUS
            <7> QED
              BY <5>3, <5>4, <5>6, <7>1
          <6> QED
            BY <6>1, <6>2, <5>3, <5>6
      <4> QED
        BY <4>1, <4>2
    <3>4. Laid(x, s, e)
      BY <3>3 DEF Laid, n
    <3> HIDE DEF e
    <3> QED
      BY <3>2, <3>4
  <2>6. n \in 1 .. n
    BY <2>1
  <2>7. g[n] \in Seq(Nat)
    BY <2>4, <2>6
  <2> QED
    BY <2>2, <2>5, <2>7 DEF n
<1> QED
  BY <1>1, <1>2

-----------------------------------------------------------------------------
(* Addresses *)

\* hexval returns one of sixteen digits, for characters that are none too.
LEMMA HexIsDigit == \A c \in Nat : B!hexval(c) \in 0 .. 15
  BY DEF B!hexval

\* The members of a sequence of numbers.
LEMMA Element == \A t \in Seq(Nat) : \A i \in 1 .. Len(t) : t[i] \in Nat
  OBVIOUS

\* A number is its low byte and the bytes above it.
LEMMA ByteAndRest ==
    \A d \in Nat : /\ d = 256 * (d \div 256) + (d % 256)
                  /\ d % 256 \in 0 .. 255 /\ d \div 256 \in Nat
  OBVIOUS

\* Two digits appended to whole bytes: the last digit, and what is above it.
LEMMA DigitAndRest ==
    \A q, x \in Nat, y \in 0 .. 15 :
        /\ (256 * q + (16 * x + y)) \div 16 = 16 * q + x
        /\ (256 * q + (16 * x + y)) % 16 = y
  OBVIOUS

\* The digit appended last.
LEMMA LastDigit == \A q \in Nat, x \in 0 .. 15 : (16 * q + x) % 16 = x
  OBVIOUS

\* A byte is two digits.
LEMMA ByteIsDigits ==
    \A d \in 0 .. 255 : /\ d = 16 * (d \div 16) + (d % 16)
                        /\ d % 16 \in 0 .. 15 /\ d \div 16 \in 0 .. 15
  OBVIOUS

\* Two digits are a byte.
LEMMA TwoDigits == \A x, y \in 0 .. 15 : 16 * x + y \in 0 .. 255
  OBVIOUS

\* Two characters of a text make a byte.
LEMMA TwoCharacters ==
    ASSUME NEW t \in Seq(Nat), NEW i \in Nat, i # 0, i + 1 <= Len(t)
    PROVE  16 * B!hexval(t[i]) + B!hexval(t[i + 1]) \in 0 .. 255
<1>1. t[i] \in Nat /\ t[i + 1] \in Nat
  OBVIOUS
<1>2. B!hexval(t[i]) \in 0 .. 15 /\ B!hexval(t[i + 1]) \in 0 .. 15
  BY <1>1, HexIsDigit
<1> QED
  BY <1>2, TwoDigits

\* What Bdf::parse has taken from bus:device.function, once valid() holds, is an
\* address.
LEMMA TripleIsValid ==
    ASSUME NEW domain \in B!Domains, NEW t \in Seq(Nat),
           B!ParseTriple(domain, t) # B!Invalid, B!valid(B!ParseTriple(domain, t))
    PROVE  B!ParseTriple(domain, t) \in B!ValidAddress
<1> DEFINE b == 16 * B!hexval(t[1]) + B!hexval(t[2])
           d == 16 * B!hexval(t[4]) + B!hexval(t[5])
           f == B!hexval(t[7])
<1>1. Len(t) = 7
  BY DEF B!ParseTriple
<1>2. B!ParseTriple(domain, t) = B!Address(domain, b, d, f)
  BY DEF B!ParseTriple
<1>3. b \in 0 .. 255
  <2>1. 16 * B!hexval(t[1]) + B!hexval(t[1 + 1]) \in 0 .. 255
    <3>1. 1 \in Nat /\ 1 # 0 /\ 1 + 1 <= Len(t)
      BY <1>1
    <3> QED
      BY <3>1, TwoCharacters
  <2> QED
    BY <2>1
<1>4. d \in 0 .. 255
  <2>1. 16 * B!hexval(t[4]) + B!hexval(t[4 + 1]) \in 0 .. 255
    <3>1. 4 \in Nat /\ 4 # 0 /\ 4 + 1 <= Len(t)
      BY <1>1
    <3> QED
      BY <3>1, TwoCharacters
  <2> QED
    BY <2>1
<1>5. f \in 0 .. 15
  <2>1. 7 \in 1 .. Len(t)
    BY <1>1
  <2>2. t[7] \in Nat
    BY <2>1, Element
  <2> QED
    BY <2>2, HexIsDigit
<1> HIDE DEF b, d, f
<1>6. d <= 31 /\ f <= 7
  BY <1>2 DEF B!valid, B!Address
<1>7. d \in 0 .. 31 /\ f \in 0 .. 7
  BY <1>4, <1>5, <1>6
<1> QED
  BY <1>2, <1>3, <1>7 DEF B!Address, B!ValidAddress

\* A parser of texts gives valid addresses only.
LEMMA ParsedIsValid ==
    ASSUME NEW text \in Seq(Nat), B!parse(text) # B!Invalid
    PROVE  B!parse(text) \in B!ValidAddress
<1> DEFINE dom == (16 * B!hexval(text[1]) + B!hexval(text[2])) * 256
                  + 16 * B!hexval(text[3]) + B!hexval(text[4])
           rest == SubSeq(text, 6, Len(text))
<1>2. ~B!valid(B!Invalid)
  BY DEF B!valid, B!Invalid
<1>3. \/ B!parse(text) = B!ParseTriple(0, text) /\ B!valid(B!ParseTriple(0, text))
      \/ /\ Len(text) > 5
         /\ B!parse(text) = B!ParseTriple(dom, rest) /\ B!valid(B!ParseTriple(dom, rest))
  BY <1>2, Zenon DEF B!parse
<1>4. 0 \in B!Domains
  BY DEF B!Domains
<1>5. ASSUME Len(text) > 5 PROVE dom \in B!Domains
  <2> DEFINE high == 16 * B!hexval(text[1]) + B!hexval(text[2])
             x == B!hexval(text[3])
             y == B!hexval(text[4])
  <2>1. high \in 0 .. 255
    <3>1. 16 * B!hexval(text[1]) + B!hexval(text[1 + 1]) \in 0 .. 255
      <4>1. 1 \in Nat /\ 1 # 0 /\ 1 + 1 <= Len(text)
        BY <1>5
      <4> QED
        BY <4>1, TwoCharacters
    <3> QED
      BY <3>1
  <2>3. dom = high * 256 + 16 * x + y
    OBVIOUS
  <2>4. x \in 0 .. 15 /\ y \in 0 .. 15
    <3>1. 3 \in 1 .. Len(text) /\ 4 \in 1 .. Len(text)
      BY <1>5
    <3>2. text[3] \in Nat /\ text[4] \in Nat
      BY <3>1, Element
    <3> QED
      BY <3>2, HexIsDigit
  <2> HIDE DEF high, x, y, dom
  <2>5. dom \in Nat /\ dom \div 256 <= 255
    BY <2>1, <2>3, <2>4
  <2> QED
    BY <2>5 DEF B!Domains
<1>6. ASSUME Len(text) > 5 PROVE rest \in Seq(Nat)
  BY <1>6
<1> HIDE DEF dom, rest
<1> QED
  BY <1>3, <1>4, <1>5, <1>6, TripleIsValid

\* The instance of FiniteSets behind Bdf counts what FiniteSets counts.
LEMMA CountIsCardinality == ASSUME NEW s PROVE B!Cardinality(s) = Cardinality(s)
  BY Zenon DEF B!Cardinality, Cardinality, B!IsFiniteSet, IsFiniteSet

\* The canonical text of a valid address has two colons.
LEMMA CanonicalIsText ==
    ASSUME NEW b \in B!ValidAddress
    PROVE  /\ B!canonical(b) \in Seq(Nat) /\ Len(B!canonical(b)) = 12
           /\ B!parse(B!canonical(b)) = b
           /\ B!parse(B!canonical(b)) # B!Invalid
<1> DEFINE t == B!canonical(b)
           s == B!fmt_bdf(b)
<1>1. /\ b = [domain |-> b.domain, bus |-> b.bus, device |-> b.device, function |-> b.function]
      /\ b.domain \in Nat /\ b.domain \div 256 <= 255 /\ b.bus \in 0 .. 255
      /\ b.device \in 0 .. 31 /\ b.function \in 0 .. 7
  BY DEF B!ValidAddress, B!Domains
<1> DEFINE d1 == (b.domain \div 256) \div 16
           d2 == (b.domain \div 256) % 16
           d3 == (b.domain \div 16) % 16
           d4 == b.domain % 16
           s1 == b.bus \div 16
           s2 == b.bus % 16
           s4 == b.device \div 16
           s5 == b.device % 16
           s7 == b.function % 16
<1>2. /\ d1 \in 0 .. 15 /\ d2 \in 0 .. 15 /\ d3 \in 0 .. 15 /\ d4 \in 0 .. 15
      /\ b.domain = (16 * d1 + d2) * 256 + 16 * d3 + d4
  <2> DEFINE q == b.domain \div 256
             r == b.domain % 256
  <2>1. q \in Nat /\ r \in 0 .. 255 /\ b.domain = 256 * q + r /\ q <= 255
    BY <1>1, ByteAndRest
  <2> DEFINE x == r \div 16
             y == r % 16
  <2>2. r = 16 * x + y /\ x \in 0 .. 15 /\ y \in 0 .. 15
    BY <2>1, ByteIsDigits
  <2>3. d1 = q \div 16 /\ d2 = q % 16
    OBVIOUS
  <2> HIDE DEF q, r, x, y
  <2>4. q = 16 * d1 + d2 /\ d1 \in 0 .. 15 /\ d2 \in 0 .. 15
    <3>1. q \in 0 .. 255
      BY <2>1
    <3> QED
      BY <2>3, <3>1, ByteIsDigits
  <2>5. b.domain = 256 * q + (16 * x + y) /\ x \in Nat
    BY <2>1, <2>2
  <2>6. b.domain \div 16 = 16 * q + x /\ b.domain % 16 = y
    BY <2>1, <2>2, <2>5, DigitAndRest
  <2>7. d3 = x /\ d4 = y
    BY <2>1, <2>2, <2>6, LastDigit
  <2> HIDE DEF d1, d2, d3, d4
  <2>8. b.domain = q * 256 + 16 * d3 + d4
    BY <2>1, <2>2, <2>5, <2>7
  <2> QED
    BY <2>2, <2>4, <2>7, <2>8
<1>3. s1 \in 0 .. 15 /\ s2 \in 0 .. 15 /\ b.bus = 16 * s1 + s2
  BY <1>1
<1>4. s4 \in 0 .. 15 /\ s5 \in 0 .. 15 /\ b.device = 16 * s4 + s5
  BY <1>1
<1>5. s7 \in 0 .. 15 /\ b.function = s7
  BY <1>1
<1>6. s = <<s1, s2, 32, s4, s5, 33, s7>>
  BY DEF B!fmt_bdf, B!Colon, B!Dot
<1>7. t = <<d1, d2, d3, d4, 32>> \o s
  BY DEF B!canonical, B!Colon
<1> HIDE DEF d1, d2, d3, d4, s1, s2, s4, s5, s7, t, s
<1> DEFINE a == <<d1, d2, d3, d4, 32>>
<1>8. a \in Seq(Nat) /\ Len(a) = 5 /\ s \in Seq(Nat) /\ Len(s) = 7
  BY <1>2, <1>3, <1>4, <1>5, <1>6
<1>9. /\ a[1] = d1 /\ a[2] = d2 /\ a[3] = d3 /\ a[4] = d4 /\ a[5] = 32
      /\ s[1] = s1 /\ s[2] = s2 /\ s[3] = 32 /\ s[4] = s4 /\ s[5] = s5 /\ s[6] = 33 /\ s[7] = s7
  BY <1>6
<1>17. t = a \o s
  BY <1>7
<1> HIDE DEF a
<1>18. /\ t \in Seq(Nat) /\ Len(t) = 12 /\ DOMAIN t = 1 .. 12
       /\ \A i \in 1 .. 5 : t[i] = a[i]
       /\ \A i \in 1 .. 7 : t[5 + i] = s[i]
  <2>0. /\ a \o s \in Seq(Nat) /\ Len(a \o s) = Len(a) + Len(s)
        /\ \A j \in 1 .. Len(a) : (a \o s)[j] = a[j]
        /\ \A j \in 1 .. Len(s) : (a \o s)[Len(a) + j] = s[j]
    BY <1>8, Joined, Zenon
  <2>1. t \in Seq(Nat) /\ Len(t) = 5 + 7
    BY <1>8, <1>17, <2>0, Zenon
  <2>2. \A i \in 1 .. 5 : t[i] = a[i]
    BY <1>8, <1>17, <2>0, Zenon
  <2>3. \A i \in 1 .. 7 : t[5 + i] = s[i]
    BY <1>8, <1>17, <2>0, Zenon
  <2>4. DOMAIN t = 1 .. Len(t)
    BY <2>1
  <2> QED
    BY <2>1, <2>2, <2>3, <2>4
<1>10. {i \in DOMAIN t : t[i] = B!Colon} = {5, 8}
  <2>1. \A i \in 1 .. 5 : a[i] = 32 <=> i = 5
    <3>1. \A i \in 1 .. 5 : i \in {1, 2, 3, 4, 5}
      OBVIOUS
    <3> QED
      BY <1>2, <1>9, <3>1
  <2>2. \A i \in 1 .. 7 : s[i] = 32 <=> i = 3
    <3>1. \A i \in 1 .. 7 : i \in {1, 2, 3, 4, 5, 6, 7}
      OBVIOUS
    <3> QED
      BY <1>3, <1>4, <1>5, <1>9, <3>1
  <2>3. ASSUME NEW i \in 1 .. 12 PROVE t[i] = 32 <=> i \in {5, 8}
    <3>1. CASE i <= 5
      <4>1. i \in 1 .. 5 /\ i # 8
        BY <3>1
      <4> QED
        BY <1>18, <2>1, <4>1
    <3>2. CASE i > 5
      <4>1. i - 5 \in 1 .. 7 /\ 5 + (i - 5) = i /\ i # 5 /\ (i - 5 = 3 <=> i = 8)
        BY <3>2
      <4>2. t[5 + (i - 5)] = s[i - 5]
        BY <1>18, <4>1
      <4>3. s[i - 5] = 32 <=> i - 5 = 3
        BY <2>2, <4>1
      <4> QED
        BY <4>1, <4>2, <4>3
    <3> QED
      BY <3>1, <3>2
  <2>4. 5 \in 1 .. 12 /\ 8 \in 1 .. 12
    OBVIOUS
  <2> QED
    BY <1>18, <2>3, <2>4 DEF B!Colon
<1>11. B!Cardinality({5, 8}) = 2
  <2>1. IsFiniteSet({5}) /\ Cardinality({5}) = 1
    BY FS_Singleton
  <2>2. Cardinality({5} \cup {8}) = 2
    BY <2>1, FS_AddElement
  <2>3. {5} \cup {8} = {5, 8}
    OBVIOUS
  <2> QED
    BY <2>2, <2>3, CountIsCardinality
<1>12. /\ \A i \in 1 .. 4 : B!IsHex(t[i])
       /\ B!hexval(t[1]) = d1 /\ B!hexval(t[2]) = d2
       /\ B!hexval(t[3]) = d3 /\ B!hexval(t[4]) = d4
  <2>1. \A c \in 0 .. 15 : B!IsHex(c) /\ B!hexval(c) = c
    BY DEF B!IsHex, B!hexval, B!Digit
  <2>2. \A i \in 1 .. 4 : i \in {1, 2, 3, 4}
    OBVIOUS
  <2>3. t[1] = d1 /\ t[2] = d2 /\ t[3] = d3 /\ t[4] = d4
    BY <1>9, <1>18
  <2> QED
    BY <1>2, <2>1, <2>2, <2>3
<1>13. SubSeq(t, 6, Len(t)) = s
  <2> DEFINE w == SubSeq(t, 6, 12)
  <2>1. w \in Seq(Nat) /\ Len(w) = 7 /\ \A i \in 1 .. 7 : w[i] = t[5 + i]
    <3>1. 5 \in Nat /\ 7 \in Nat /\ 5 + 7 <= Len(t) /\ 5 + 1 = 6 /\ 5 + 7 = 12
      BY <1>18
    <3>2. /\ SubSeq(t, 5 + 1, 5 + 7) \in Seq(Nat) /\ Len(SubSeq(t, 5 + 1, 5 + 7)) = 7
          /\ \A i \in 1 .. 7 : SubSeq(t, 5 + 1, 5 + 7)[i] = t[5 + i]
      BY <1>18, <3>1, PieceOf, Zenon
    <3> QED
      BY <3>1, <3>2, Zenon
  <2> HIDE DEF w
  <2>2. \A i \in 1 .. 7 : w[i] = s[i]
    BY <1>18, <2>1
  <2>3. w = s
    BY <1>8, <2>1, <2>2, SameSeq
  <2> QED
    BY <1>18, <2>3 DEF w
<1>14. B!ParseTriple(b.domain, s) = b
  <2>1. \A c \in 0 .. 15 : B!IsHex(c) /\ B!hexval(c) = c
    BY DEF B!IsHex, B!hexval, B!Digit
  <2>2. /\ Len(s) = 7 /\ s[3] = 32 /\ s[6] = 33
        /\ s[1] = s1 /\ s[2] = s2 /\ s[4] = s4 /\ s[5] = s5 /\ s[7] = s7
    BY <1>6
  <2>3. \A i \in {1, 2, 4, 5, 7} : B!IsHex(s[i])
    BY <1>3, <1>4, <1>5, <2>1, <2>2
  <2>4. B!ParseTriple(b.domain, s) = B!Address(b.domain, 16 * s1 + s2, 16 * s4 + s5, s7)
    BY <1>3, <1>4, <1>5, <2>1, <2>2, <2>3 DEF B!ParseTriple, B!Colon, B!Dot
  <2> QED
    BY <1>1, <1>3, <1>4, <1>5, <2>4 DEF B!Address
<1>15. B!valid(b) /\ b # B!Invalid
  BY <1>1 DEF B!valid, B!Invalid
<1>16. B!parse(t) = b
  <2> DEFINE colons == B!Cardinality({i \in DOMAIN t : t[i] = B!Colon})
             domain == (16 * B!hexval(t[1]) + B!hexval(t[2])) * 256
                       + 16 * B!hexval(t[3]) + B!hexval(t[4])
             tail == SubSeq(t, 6, Len(t))
  <2>1. colons # 1 /\ colons = 2
    BY <1>10, <1>11
  <2>2. Len(t) > 5 /\ t[5] = B!Colon
    BY <1>9, <1>18 DEF B!Colon
  <2>3. domain = b.domain
    BY <1>2, <1>12
  <2>4. B!ParseTriple(domain, tail) = b
    BY <2>3, <1>13, <1>14
  <2>5. B!parse(t) = LET p == IF colons = 1 THEN B!ParseTriple(0, t)
                              ELSE IF colons = 2 /\ Len(t) > 5 /\ t[5] = B!Colon
                                      /\ \A i \in 1 .. 4 : B!IsHex(t[i])
                              THEN B!ParseTriple(domain, tail)
                              ELSE B!Invalid
                     IN  IF B!valid(p) THEN p ELSE B!Invalid
    BY Zenon DEF B!parse
  <2> HIDE DEF colons, domain, tail
  <2> QED
    BY <2>1, <2>2, <2>4, <2>5, <1>12, <1>15, Zenon
<1> QED
  BY <1>15, <1>16, <1>18 DEF t

-----------------------------------------------------------------------------
(* Reading a field *)

Kinds == {"unit", "flag", "enum", "text", "bdf", "list", "optional"}

IsField(f) == f.kind \in Kinds /\ f.size \in Nat

\* What is written for a field.
FieldUnits(f, v) ==
    CASE f.kind = "flag" -> Flag(v)
      [] f.kind = "text" -> Text(v)
      [] f.kind = "bdf" -> Text(B!canonical(v))
      [] f.kind = "list" -> List(v)
      [] f.kind = "optional" -> Optional(v)
      [] OTHER -> Unit(v)

IsRead(r) == r = [pos |-> r.pos, got |-> r.got, error |-> r.error]

\* A reader that fails keeps its place, and what it has got.
LEMMA FailsIs ==
    ASSUME NEW r, NEW code, IsRead(r)
    PROVE  /\ IsRead(Fails(r, code)) /\ Fails(r, code).error = code
           /\ Fails(r, code).pos = r.pos
  BY DEF IsRead, Fails

\* A reader that has got a field is at p and has one field more.
LEMMA GotIs ==
    ASSUME NEW r, NEW f, NEW v, NEW p
    PROVE  /\ IsRead(Got(r, f, v, p)) /\ Got(r, f, v, p).error = "OK"
           /\ Got(r, f, v, p).pos = p
           /\ Got(r, f, v, p).got = And([x \in {f.name} |-> v], r.got)
  BY DEF IsRead, Got

\* A count or flag, and what follows it.
LEMMA HoldsPrefixed ==
    ASSUME NEW x \in Seq(Nat), NEW p \in Nat, NEW c \in Nat, NEW t \in Seq(Nat)
    PROVE  /\ <<c>> \o t \in Seq(Nat) /\ Len(<<c>> \o t) = 1 + Len(t)
           /\ HoldsAt(x, p, <<c>> \o t) =>
                 p + 1 <= Len(x) /\ x[p + 1] = c /\ HoldsAt(x, p + 1, t)
<1> DEFINE u == <<c>>
<1>1. u \in Seq(Nat) /\ Len(u) = 1 /\ u[1] = c
  OBVIOUS
<1> HIDE DEF u
<1>2. /\ u \o t \in Seq(Nat) /\ Len(u \o t) = Len(u) + Len(t)
      /\ HoldsAt(x, p, u \o t) => HoldsAt(x, p, u) /\ HoldsAt(x, p + Len(u), t)
  BY <1>1, HoldsBoth
<1>3. ASSUME HoldsAt(x, p, u) PROVE p + 1 <= Len(x) /\ x[p + 1] = c
  BY <1>1, <1>3 DEF HoldsAt
<1>4. u \o t \in Seq(Nat) /\ Len(u \o t) = 1 + Len(t)
  BY <1>1, <1>2
<1>5. HoldsAt(x, p, u \o t) => HoldsAt(x, p, u) /\ HoldsAt(x, p + 1, t)
  BY <1>1, <1>2
<1> QED
  BY <1>3, <1>4, <1>5 DEF u

\* What a field is written as: one unit, or one unit and a sequence.
FieldHead(f, v) ==
    CASE f.kind = "flag" -> IF v THEN 1 ELSE 0
      [] f.kind \in {"text", "list"} -> Len(v)
      [] f.kind = "bdf" -> 12
      [] f.kind = "optional" -> IF v # <<>> THEN 1 ELSE 0
      [] OTHER -> v

FieldTail(f, v) ==
    CASE f.kind = "bdf" -> B!canonical(v)
      [] f.kind \in {"text", "list", "optional"} -> v
      [] OTHER -> <<>>

\* What is written for a field is a unit and what follows it.
LEMMA FieldIsHeadAndTail ==
    ASSUME NEW f, NEW v, IsField(f), FieldHolds(f, v)
    PROVE  /\ FieldHead(f, v) \in Nat /\ FieldTail(f, v) \in Seq(Nat)
           /\ FieldUnits(f, v) = <<FieldHead(f, v)>> \o FieldTail(f, v)
<1>1. \A c : <<c>> \o <<>> = <<c>>
  OBVIOUS
<1>2. CASE f.kind \in {"unit", "enum"}
  <2>1. FieldHead(f, v) = v /\ FieldTail(f, v) = <<>> /\ FieldUnits(f, v) = <<v>>
    BY <1>2 DEF FieldHead, FieldTail, FieldUnits, Unit
  <2>2. v \in Nat
    <3>1. f.kind = "enum" => v \in 0 .. f.size - 1
      BY DEF FieldHolds
    <3>2. f.kind = "unit" => v \in Nat
      BY DEF FieldHolds
    <3> QED
      BY <1>2, <3>1, <3>2 DEF IsField
  <2>3. <<>> \in Seq(Nat)
    OBVIOUS
  <2> QED
    BY <2>1, <2>2, <2>3, <1>1
<1>3. CASE f.kind = "flag"
  <2>1. /\ FieldHead(f, v) = (IF v THEN 1 ELSE 0) /\ FieldTail(f, v) = <<>>
        /\ FieldUnits(f, v) = <<IF v THEN 1 ELSE 0>>
    BY <1>3 DEF FieldHead, FieldTail, FieldUnits, Flag
  <2>2. (IF v THEN 1 ELSE 0) \in Nat
    OBVIOUS
  <2>3. <<>> \in Seq(Nat)
    OBVIOUS
  <2> QED
    BY <2>1, <2>2, <2>3, <1>1
<1>4. CASE f.kind \in {"text", "list"}
  <2>1. FieldHead(f, v) = Len(v) /\ FieldTail(f, v) = v /\ FieldUnits(f, v) = <<Len(v)>> \o v
    BY <1>4 DEF FieldHead, FieldTail, FieldUnits, Text, List
  <2>2. v \in Seq(Nat)
    BY <1>4 DEF FieldHolds
  <2> QED
    BY <2>1, <2>2
<1>5. CASE f.kind = "bdf"
  <2>1. v \in B!ValidAddress
    BY <1>5 DEF FieldHolds
  <2>2. B!canonical(v) \in Seq(Nat) /\ Len(B!canonical(v)) = 12
    BY <2>1, CanonicalIsText
  <2>3. /\ FieldHead(f, v) = 12 /\ FieldTail(f, v) = B!canonical(v)
        /\ FieldUnits(f, v) = <<Len(B!canonical(v))>> \o B!canonical(v)
    BY <1>5 DEF FieldHead, FieldTail, FieldUnits, Text
  <2> QED
    BY <2>2, <2>3
<1>6. CASE f.kind = "optional"
  <2>1. /\ FieldHead(f, v) = (IF v # <<>> THEN 1 ELSE 0) /\ FieldTail(f, v) = v
        /\ FieldUnits(f, v) = <<IF v # <<>> THEN 1 ELSE 0>> \o v
    BY <1>6 DEF FieldHead, FieldTail, FieldUnits, Optional, Flag
  <2>2. v \in Seq(Nat)
    BY <1>6 DEF FieldHolds
  <2>3. (IF v # <<>> THEN 1 ELSE 0) \in Nat
    OBVIOUS
  <2> QED
    BY <2>1, <2>2, <2>3
<1> QED
  BY <1>2, <1>3, <1>4, <1>5, <1>6 DEF IsField, Kinds

\* What the writer of a field leaves for its reader.
LEMMA FieldHeld ==
    ASSUME NEW f, NEW v, IsField(f), FieldHolds(f, v), NEW x \in Seq(Nat), NEW p \in Nat
    PROVE  /\ FieldUnits(f, v) \in Seq(Nat) /\ Len(FieldUnits(f, v)) = 1 + Len(FieldTail(f, v))
           /\ FieldTail(f, v) \in Seq(Nat)
           /\ HoldsAt(x, p, FieldUnits(f, v)) =>
                 p + 1 <= Len(x) /\ x[p + 1] = FieldHead(f, v) /\ HoldsAt(x, p + 1, FieldTail(f, v))
<1> DEFINE c == FieldHead(f, v)
           t == FieldTail(f, v)
<1>1. c \in Nat /\ t \in Seq(Nat) /\ FieldUnits(f, v) = <<c>> \o t
  BY FieldIsHeadAndTail
<1> HIDE DEF c, t
<1> QED
  BY <1>1, HoldsPrefixed DEF c, t

-----------------------------------------------------------------------------
(* What the reader returns *)

ReadCodes == {"OK", "TRUNCATED", "PROTOCOL_OVERFLOW", "INVALID_ENUM", "INVALID_BDF"}

IsReader(r) == IsRead(r) /\ r.pos \in Nat /\ r.error = "OK"

IsStream == stream \in Seq(Nat) /\ beyond \in Nat

\* What Reader::string copies is as long as the length says, inside the stream or past
\* its end.
LEMMA TextAtIsText ==
    ASSUME IsStream, NEW p \in Nat, NEW n \in Nat
    PROVE  TextAt(p, n) \in Seq(Nat) /\ Len(TextAt(p, n)) = n
<1>1. \A i \in 1 .. n : (IF p + i <= Len(stream) THEN stream[p + i] ELSE beyond) \in Nat
  BY DEF IsStream
<1> QED
  BY <1>1 DEF TextAt

\* If the text is in the stream, Reader::string returns it.
LEMMA TextAtIsHeld ==
    ASSUME IsStream, NEW p \in Nat, NEW t \in Seq(Nat), HoldsAt(stream, p, t)
    PROVE  TextAt(p, Len(t)) = t
<1> DEFINE w == TextAt(p, Len(t))
<1>1. w \in Seq(Nat) /\ Len(w) = Len(t)
  BY TextAtIsText
<1>2. \A i \in 1 .. Len(t) : w[i] = t[i]
  <2>1. \A i \in 1 .. Len(t) : p + i <= Len(stream)
    BY DEF HoldsAt, IsStream
  <2>2. \A i \in 1 .. Len(t) : w[i] = stream[p + i]
    BY <2>1 DEF TextAt
  <2> QED
    BY <2>2 DEF HoldsAt
<1> HIDE DEF w
<1>3. w = t
  BY <1>1, <1>2, SameSeq
<1> QED
  BY <1>3 DEF w

\* If the units are in the stream, the reader finds them all.
LEMMA UnitsAreHeld ==
    ASSUME IsStream, NEW p \in Nat, NEW t \in Seq(Nat), HoldsAt(stream, p, t)
    PROVE  Units(p, Len(t)) = t /\ Has(p, Len(t))
<1> DEFINE n == Len(t)
           w == SubSeq(stream, p + 1, p + n)
<1>1. n \in Nat /\ p + n <= Len(stream)
  BY DEF HoldsAt
<1>2. w \in Seq(Nat) /\ Len(w) = n /\ \A i \in 1 .. n : w[i] = stream[p + i]
  BY <1>1, PieceOf DEF IsStream
<1> HIDE DEF w
<1>3. \A i \in 1 .. n : w[i] = t[i]
  BY <1>2 DEF HoldsAt
<1>4. w = t
  BY <1>2, <1>3, SameSeq
<1> QED
  BY <1>1, <1>4 DEF w, Units, Has

\* What reading a field makes of the reader r.
FieldRead(r, f, q) ==
    /\ IsRead(q) /\ q.pos \in Nat /\ q.error \in ReadCodes
    /\ q.error = "OK" =>
          /\ r.pos < q.pos
          /\ \E v : FieldHolds(f, v) /\ q = Got(r, f, v, q.pos)
          /\ f.kind \notin {"text", "bdf"} => q.pos <= Len(stream)

\* A field that could not be read is a read field.
LEMMA FailedIsRead ==
    ASSUME NEW r, NEW f, NEW code \in ReadCodes \ {"OK"}, IsReader(r)
    PROVE  FieldRead(r, f, Fails(r, code))
<1>1. /\ IsRead(Fails(r, code)) /\ Fails(r, code).error = code
      /\ Fails(r, code).pos = r.pos /\ r.pos \in Nat
  BY FailsIs DEF IsReader
<1> QED
  BY <1>1 DEF FieldRead, ReadCodes

\* A value the field can hold, at a place further on, is a read field.
LEMMA GotIsRead ==
    ASSUME NEW r, NEW f, NEW v, NEW p \in Nat, IsReader(r), FieldHolds(f, v), r.pos < p,
           f.kind \notin {"text", "bdf"} => p <= Len(stream)
    PROVE  FieldRead(r, f, Got(r, f, v, p))
<1> DEFINE q == Got(r, f, v, p)
<1>1. IsRead(q) /\ q.error = "OK" /\ q.pos = p
  BY DEF IsRead, Got
<1>2. q = Got(r, f, v, q.pos)
  BY <1>1
<1> HIDE DEF q
<1>3. q.error \in ReadCodes
  BY <1>1 DEF ReadCodes
<1>4. FieldRead(r, f, q)
  BY <1>1, <1>2, <1>3 DEF FieldRead
<1> QED
  BY <1>4 DEF q

\* Reader::u8 to u64, boolean and the tests of enums return a value of the field or a
\* code.
LEMMA OneIsRead ==
    ASSUME IsStream, NEW r, NEW f, IsReader(r), IsField(f), f.kind \in {"unit", "flag", "enum"}
    PROVE  FieldRead(r, f, ReadOne(r, f))
<1> DEFINE v == stream[r.pos + 1]
           w == IF f.kind = "flag" THEN v # 0 ELSE v
           code == IF f.kind = "enum" THEN "INVALID_ENUM" ELSE "TRUNCATED"
<1>1. r.pos \in Nat /\ r.pos + 1 \in Nat /\ r.pos < r.pos + 1
  BY DEF IsReader
<1>2. CASE ~Has(r.pos, 1)
  <2>1. ReadOne(r, f) = Fails(r, code)
    BY <1>2 DEF ReadOne
  <2>2. code \in ReadCodes \ {"OK"}
    BY DEF ReadCodes
  <2> HIDE DEF code
  <2> QED
    BY <2>1, <2>2, FailedIsRead
<1>3. CASE Has(r.pos, 1) /\ f.kind = "enum" /\ v >= f.size
  <2>1. ReadOne(r, f) = Fails(r, "INVALID_ENUM")
    BY <1>3 DEF ReadOne
  <2>2. "INVALID_ENUM" \in ReadCodes \ {"OK"}
    BY DEF ReadCodes
  <2> QED
    BY <2>1, <2>2, FailedIsRead
<1>4. CASE Has(r.pos, 1) /\ ~(f.kind = "enum" /\ v >= f.size)
  <2>1. ReadOne(r, f) = Got(r, f, w, r.pos + 1)
    BY <1>4 DEF ReadOne
  <2>2. v \in Nat /\ r.pos + 1 <= Len(stream)
    <3>1. r.pos + 1 \in 1 .. Len(stream)
      BY <1>1, <1>4 DEF Has, IsStream
    <3> QED
      BY <3>1, Element DEF IsStream
  <2>3. FieldHolds(f, w)
    <3>1. CASE f.kind = "unit"
      BY <2>2, <3>1 DEF FieldHolds
    <3>2. CASE f.kind = "flag"
      BY <3>2 DEF FieldHolds
    <3>3. CASE f.kind = "enum"
      <4>1. w = v /\ v \in 0 .. f.size - 1
        BY <1>4, <2>2, <3>3 DEF IsField
      <4> HIDE DEF w
      <4> QED
        BY <3>3, <4>1 DEF FieldHolds
    <3> QED
      BY <3>1, <3>2, <3>3
  <2> HIDE DEF w, v
  <2> QED
    BY <1>1, <2>1, <2>2, <2>3, GotIsRead
<1> QED
  BY <1>2, <1>3, <1>4

\* A loop over a count, or an optional's flag, returns a value of the field or a code.
LEMMA ManyIsRead ==
    ASSUME IsStream, NEW r, NEW f, IsReader(r), IsField(f), f.kind \in {"list", "optional"}
    PROVE  FieldRead(r, f, ReadMany(r, f))
<1> DEFINE c == stream[r.pos + 1]
           n == IF f.kind = "list" THEN c ELSE IF c = 0 THEN 0 ELSE f.size
<1>1. r.pos \in Nat /\ r.pos + 1 \in Nat
  BY DEF IsReader
<1>2. "TRUNCATED" \in ReadCodes \ {"OK"}
  BY DEF ReadCodes
<1>3. CASE ~Has(r.pos, 1) \/ ~Has(r.pos + 1, n)
  <2>1. ReadMany(r, f) = Fails(r, "TRUNCATED")
    BY <1>3 DEF ReadMany
  <2> QED
    BY <2>1, <1>2, FailedIsRead
<1>4. CASE Has(r.pos, 1) /\ Has(r.pos + 1, n)
  <2> DEFINE w == Units(r.pos + 1, n)
             p == r.pos + 1 + n
  <2>1. ReadMany(r, f) = Got(r, f, w, p)
    BY <1>4 DEF ReadMany
  <2>2. c \in Nat
    <3>1. r.pos + 1 \in 1 .. Len(stream)
      BY <1>1, <1>4 DEF Has, IsStream
    <3> QED
      BY <3>1, Element DEF IsStream
  <2>3. n \in Nat
    BY <2>2 DEF IsField
  <2>4. w \in Seq(Nat) /\ Len(w) = n /\ p <= Len(stream)
    <3> HIDE DEF n
    <3>1. stream \in Seq(Nat) /\ (r.pos + 1) + n <= Len(stream)
      BY <1>4 DEF IsStream, Has
    <3> QED
      BY <1>1, <2>3, <3>1, PieceOf DEF Units
  <2>5. FieldHolds(f, w)
    <3>1. f.kind = "optional" => n \in {0, f.size}
      OBVIOUS
    <3> HIDE DEF w, n
    <3>2. CASE f.kind = "list"
      BY <2>4, <3>2 DEF FieldHolds
    <3>3. CASE f.kind = "optional"
      BY <2>4, <3>1, <3>3 DEF FieldHolds
    <3> QED
      BY <3>2, <3>3
  <2>6. p \in Nat /\ r.pos < p
    <3> HIDE DEF n
    <3> QED
      BY <1>1, <2>3
  <2> HIDE DEF w, p
  <2> QED
    BY <2>1, <2>4, <2>5, <2>6, GotIsRead
<1> QED
  BY <1>3, <1>4

\* Reader::string and Bdf::parse return a value of the field or a code.
LEMMA TextIsRead ==
    ASSUME IsStream, NEW r, NEW f, IsReader(r), f.kind \in {"text", "bdf"}
    PROVE  FieldRead(r, f, ReadText(r, f))
<1> DEFINE n == stream[r.pos + 1]
           t == TextAt(r.pos + 1, n)
           p == r.pos + 1 + n
<1>1. r.pos \in Nat /\ r.pos + 1 \in Nat
  BY DEF IsReader
<1>2. {"TRUNCATED", "PROTOCOL_OVERFLOW", "INVALID_BDF"} \subseteq ReadCodes \ {"OK"}
  BY DEF ReadCodes
<1>3. CASE ~Has(r.pos, 1)
  <2>1. ReadText(r, f) = Fails(r, "TRUNCATED")
    BY <1>3 DEF ReadText
  <2> QED
    BY <2>1, <1>2, FailedIsRead
<1>4. CASE Has(r.pos, 1) /\ StringRefused(n, r.pos + 1)
  <2>1. ReadText(r, f) = Fails(r, "PROTOCOL_OVERFLOW")
    BY <1>4 DEF ReadText
  <2> QED
    BY <2>1, <1>2, FailedIsRead
<1>5. CASE Has(r.pos, 1) /\ ~StringRefused(n, r.pos + 1)
  <2>1. n \in Nat
    <3>1. r.pos + 1 \in 1 .. Len(stream)
      BY <1>1, <1>5 DEF Has, IsStream
    <3> QED
      BY <3>1, Element DEF IsStream
  <2>2. n <= StringLimit
    BY <1>5, <2>1, CodecAssumption DEF StringRefused
  <2>3. t \in Seq(Nat) /\ Len(t) = n
    <3> HIDE DEF n
    <3> QED
      BY <1>1, <2>1, TextAtIsText
  <2>4. p \in Nat /\ r.pos < p
    <3> HIDE DEF n
    <3> QED
      BY <1>1, <2>1
  <2>5. CASE f.kind = "text"
    <3>1. ReadText(r, f) = Got(r, f, t, p)
      BY <1>5, <2>5 DEF ReadText
    <3> HIDE DEF t, p, n
    <3>2. FieldHolds(f, t)
      BY <2>2, <2>3, <2>5 DEF FieldHolds
    <3> QED
      BY <2>4, <2>5, <3>1, <3>2, GotIsRead
  <2>6. CASE f.kind = "bdf" /\ B!parse(t) = B!Invalid
    <3>1. ReadText(r, f) = Fails(r, "INVALID_BDF")
      BY <1>5, <2>6 DEF ReadText
    <3> QED
      BY <3>1, <1>2, FailedIsRead
  <2>7. CASE f.kind = "bdf" /\ B!parse(t) # B!Invalid
    <3> DEFINE v == B!parse(t)
    <3>1. ReadText(r, f) = Got(r, f, v, p)
      BY <1>5, <2>7 DEF ReadText
    <3> HIDE DEF t, p, n
    <3>2. v \in B!ValidAddress
      BY <2>3, <2>7, ParsedIsValid
    <3> HIDE DEF v
    <3>3. FieldHolds(f, v)
      BY <2>7, <3>2 DEF FieldHolds
    <3> QED
      BY <2>4, <2>7, <3>1, <3>3, GotIsRead
  <2> QED
    BY <2>5, <2>6, <2>7
<1> QED
  BY <1>3, <1>4, <1>5

\* Any unit can follow: a field is read as one that it can hold or refused.
LEMMA FieldIsRead ==
    ASSUME IsStream, NEW r, NEW f, IsReader(r), IsField(f)
    PROVE  FieldRead(r, f, ReadField(r, f))
<1>1. CASE f.kind \in {"text", "bdf"}
  <2>1. ReadField(r, f) = ReadText(r, f)
    BY <1>1 DEF ReadField, IsReader
  <2> QED
    BY <1>1, <2>1, TextIsRead
<1>2. CASE f.kind \in {"list", "optional"}
  <2>1. ReadField(r, f) = ReadMany(r, f)
    BY <1>2 DEF ReadField, IsReader
  <2> QED
    BY <1>2, <2>1, ManyIsRead
<1>3. CASE f.kind \in {"unit", "flag", "enum"}
  <2>1. ReadField(r, f) = ReadOne(r, f)
    BY <1>3 DEF ReadField, IsReader
  <2> QED
    BY <1>3, <2>1, OneIsRead
<1> QED
  BY <1>1, <1>2, <1>3 DEF IsField, Kinds

-----------------------------------------------------------------------------
(* Reading what was written *)

\* The first unit of a field says how many follow it.
HeadTells(f, v) ==
    LET c == FieldHead(f, v)
        t == FieldTail(f, v)
    IN  /\ f.kind \in {"text", "bdf"} => c = Len(t) /\ Len(t) <= StringLimit
        /\ f.kind \in {"list", "optional"} =>
              t = v /\ (IF f.kind = "list" THEN c ELSE IF c = 0 THEN 0 ELSE f.size) = Len(t)
        /\ f.kind \in {"unit", "flag", "enum"} => t = <<>>

\* The first unit of every kind of field says how many units follow it.
LEMMA HeadTellsTail ==
    ASSUME NEW f, NEW v, IsField(f), FieldHolds(f, v)
    PROVE  HeadTells(f, v)
<1> DEFINE c == FieldHead(f, v)
           t == FieldTail(f, v)
<1>1. ASSUME f.kind = "text" PROVE c = Len(t) /\ Len(t) <= StringLimit
  <2>1. c = Len(v) /\ t = v
    BY <1>1 DEF FieldHead, FieldTail
  <2>2. Len(v) <= StringLimit
    BY <1>1 DEF FieldHolds
  <2> QED
    BY <2>1, <2>2
<1>2. ASSUME f.kind = "bdf" PROVE c = Len(t) /\ Len(t) <= StringLimit
  <2>1. c = 12 /\ t = B!canonical(v) /\ v \in B!ValidAddress
    BY <1>2 DEF FieldHead, FieldTail, FieldHolds
  <2>2. Len(B!canonical(v)) = 12
    BY <2>1, CanonicalIsText
  <2>3. 12 <= StringLimit
    BY CodecAssumption
  <2> QED
    BY <2>1, <2>2, <2>3
<1>3. ASSUME f.kind = "list" PROVE t = v /\ c = Len(t)
  BY <1>3 DEF FieldHead, FieldTail
<1>4. ASSUME f.kind = "optional" PROVE t = v /\ (IF c = 0 THEN 0 ELSE f.size) = Len(t)
  <2>1. Len(v) \in {0, f.size} /\ v \in Seq(Nat)
    BY <1>4 DEF FieldHolds
  <2>2. c = (IF v # <<>> THEN 1 ELSE 0) /\ t = v
    BY <1>4 DEF FieldHead, FieldTail
  <2>3. v = <<>> <=> Len(v) = 0
    BY <2>1
  <2> QED
    BY <2>1, <2>2, <2>3
<1>5. ASSUME f.kind \in {"unit", "flag", "enum"} PROVE t = <<>>
  BY <1>5 DEF FieldTail
<1> QED
  BY <1>1, <1>2, <1>3, <1>4, <1>5 DEF HeadTells

\* Reading a field that was written gives it back, or it lies behind max_string_.
FieldBack(r, f, v, q) ==
    \/ q = Got(r, f, v, r.pos + Len(FieldUnits(f, v)))
    \/ q.error = "PROTOCOL_OVERFLOW" /\ Len(stream) > StringWindow

\* A field that is in the stream as it was written is read back, unless a text lies
\* beyond max_string_ (StringWindow).
LEMMA FieldComesBack ==
    ASSUME IsStream, NEW r, NEW f, NEW v, IsReader(r), IsField(f), FieldHolds(f, v),
           HoldsAt(stream, r.pos, FieldUnits(f, v))
    PROVE  FieldBack(r, f, v, ReadField(r, f))
<1> DEFINE c == FieldHead(f, v)
           t == FieldTail(f, v)
           n == Len(FieldUnits(f, v))
<1>1. r.pos \in Nat /\ r.pos + 1 \in Nat /\ stream \in Seq(Nat)
  BY DEF IsReader, IsStream
<1>2. /\ t \in Seq(Nat) /\ n = 1 + Len(t) /\ r.pos + 1 <= Len(stream)
      /\ stream[r.pos + 1] = c /\ HoldsAt(stream, r.pos + 1, t)
  BY <1>1, FieldHeld
<1>3. Has(r.pos, 1)
  BY <1>2 DEF Has
<1>4. r.pos + n = r.pos + 1 + Len(t) /\ Len(t) \in Nat
  <2>1. Len(t) \in Nat
    BY <1>2
  <2>2. \A a, b \in Nat : a + (1 + b) = a + 1 + b
    OBVIOUS
  <2> HIDE DEF n, t
  <2> QED
    BY <1>1, <1>2, <2>1, <2>2
<1>5. CASE f.kind \in {"text", "bdf"}
  <2>1. c = Len(t) /\ Len(t) <= StringLimit
    BY <1>5, HeadTellsTail DEF HeadTells
  <2>2. TextAt(r.pos + 1, c) = t
    BY <1>1, <1>2, <2>1, TextAtIsHeld
  <2>3. ReadField(r, f) = ReadText(r, f)
    BY <1>5 DEF ReadField, IsReader
  <2>4. CASE StringRefused(c, r.pos + 1)
    <3>1. ReadText(r, f) = Fails(r, "PROTOCOL_OVERFLOW")
      BY <1>2, <1>3, <2>4 DEF ReadText
    <3>2. ReadText(r, f).error = "PROTOCOL_OVERFLOW"
      BY <3>1, FailsIs DEF IsReader
    <3>3. Len(stream) > StringWindow
      <4> DEFINE m == Len(t)
      <4>1. r.pos + 1 + m <= Len(stream)
        BY <1>2 DEF HoldsAt
      <4>2. m > StringWindow - (r.pos + 1)
        BY <2>1, <2>4, <1>4, CodecAssumption DEF StringRefused
      <4>3. m \in Nat /\ Len(stream) \in Nat /\ StringWindow \in Nat
        BY <1>1, <1>4, CodecAssumption
      <4> HIDE DEF m
      <4> QED
        BY <1>1, <4>1, <4>2, <4>3
    <3> QED
      BY <2>3, <3>2, <3>3 DEF FieldBack
  <2>5. CASE ~StringRefused(c, r.pos + 1)
    <3>1. CASE f.kind = "text"
      <4>1. ReadText(r, f) = Got(r, f, TextAt(r.pos + 1, c), r.pos + 1 + c)
        BY <1>2, <1>3, <2>5, <3>1 DEF ReadText
      <4>2. t = v
        BY <3>1 DEF FieldTail
      <4>3. ReadText(r, f) = Got(r, f, v, r.pos + n)
        BY <4>1, <4>2, <2>1, <2>2, <1>4
      <4> QED
        BY <4>3, <2>3 DEF FieldBack
    <3>2. CASE f.kind = "bdf"
      <4>1. t = B!canonical(v) /\ v \in B!ValidAddress
        BY <3>2 DEF FieldTail, FieldHolds
      <4>2. B!parse(t) = v /\ B!parse(t) # B!Invalid
        BY <4>1, CanonicalIsText
      <4> HIDE DEF t, c, n
      <4>3. ReadText(r, f) = Got(r, f, B!parse(t), r.pos + 1 + c)
        BY <1>2, <1>3, <2>2, <2>5, <3>2, <4>2 DEF ReadText
      <4>4. ReadText(r, f) = Got(r, f, v, r.pos + n)
        BY <4>2, <4>3, <2>1, <1>4
      <4> QED
        BY <4>4, <2>3 DEF FieldBack, n
    <3> QED
      BY <1>5, <3>1, <3>2
  <2> QED
    BY <2>4, <2>5
<1>6. CASE f.kind \in {"list", "optional"}
  <2>1. t = v
    BY <1>6, HeadTellsTail DEF HeadTells
  <2>2. (IF f.kind = "list" THEN c ELSE IF c = 0 THEN 0 ELSE f.size) = Len(t)
    BY <1>6, HeadTellsTail DEF HeadTells
  <2>3. Units(r.pos + 1, Len(t)) = t /\ Has(r.pos + 1, Len(t))
    BY <1>1, <1>2, UnitsAreHeld
  <2>4. ReadField(r, f) = ReadMany(r, f)
    BY <1>6 DEF ReadField, IsReader
  <2> HIDE DEF t, c, n
  <2>5. ReadMany(r, f) = Got(r, f, t, r.pos + 1 + Len(t))
    BY <1>2, <1>3, <2>2, <2>3 DEF ReadMany
  <2>6. ReadField(r, f) = Got(r, f, v, r.pos + n)
    BY <1>4, <2>1, <2>4, <2>5
  <2> QED
    BY <2>6 DEF FieldBack, n
<1>7. CASE f.kind \in {"unit", "flag", "enum"}
  <2>1. t = <<>>
    BY <1>7 DEF FieldTail
  <2>2. n = 1
    BY <1>2, <2>1
  <2>3. ReadField(r, f) = ReadOne(r, f)
    BY <1>7 DEF ReadField, IsReader
  <2>4. ~(f.kind = "enum" /\ c >= f.size)
    <3>1. f.kind = "enum" => c = v /\ v \in 0 .. f.size - 1
      BY DEF FieldHead, FieldHolds
    <3> QED
      BY <3>1 DEF IsField
  <2>5. (IF f.kind = "flag" THEN c # 0 ELSE c) = v
    <3>1. CASE f.kind = "flag"
      <4>1. v \in BOOLEAN /\ c = (IF v THEN 1 ELSE 0)
        BY <3>1 DEF FieldHead, FieldHolds
      <4> QED
        BY <3>1, <4>1
    <3>2. CASE f.kind \in {"unit", "enum"}
      BY <3>2 DEF FieldHead
    <3> QED
      BY <1>7, <3>1, <3>2
  <2> HIDE DEF t, c, n
  <2>6. ReadOne(r, f) = Got(r, f, v, r.pos + 1)
    BY <1>2, <1>3, <2>4, <2>5 DEF ReadOne
  <2> QED
    BY <2>2, <2>3, <2>6 DEF FieldBack, n
<1> QED
  BY <1>5, <1>6, <1>7 DEF IsField, Kinds

\* The stream is full, as far as both go.
Agrees(full) == full \in Seq(Nat) /\ \A i \in 1 .. Len(stream) : i <= Len(full) => stream[i] = full[i]

\* Wherever the stream ends, a reader that passes a field goes where the writer went.
LEMMA FieldIsPlaced ==
    ASSUME IsStream, NEW r, NEW f, NEW v, NEW full, IsReader(r), IsField(f), FieldHolds(f, v),
           Agrees(full), HoldsAt(full, r.pos, FieldUnits(f, v)), ReadField(r, f).error = "OK"
    PROVE  ReadField(r, f).pos = r.pos + Len(FieldUnits(f, v))
<1> DEFINE c == FieldHead(f, v)
           t == FieldTail(f, v)
           n == Len(FieldUnits(f, v))
<1>1. r.pos \in Nat /\ r.pos + 1 \in Nat /\ stream \in Seq(Nat) /\ full \in Seq(Nat)
  BY DEF IsReader, IsStream, Agrees
<1>2. t \in Seq(Nat) /\ n = 1 + Len(t) /\ r.pos + 1 <= Len(full) /\ full[r.pos + 1] = c
  BY <1>1, FieldHeld
<1>3. r.pos + n = r.pos + 1 + Len(t) /\ Len(t) \in Nat
  <2>1. Len(t) \in Nat
    BY <1>2
  <2>2. \A a, b \in Nat : a + (1 + b) = a + 1 + b
    OBVIOUS
  <2> HIDE DEF n, t
  <2> QED
    BY <1>1, <1>2, <2>1, <2>2
<1>4. \A code : Fails(r, code).error = code
  BY FailsIs DEF IsReader
<1>5. \A w, p : Got(r, f, w, p).pos = p
  BY DEF Got
<1>6. Has(r.pos, 1)
  <2> SUFFICES ASSUME ~Has(r.pos, 1) PROVE FALSE
    OBVIOUS
  <2>1. \E code : code # "OK" /\ ReadField(r, f) = Fails(r, code)
    BY DEF ReadField, ReadText, ReadMany, ReadOne, IsReader
  <2> QED
    BY <1>4, <2>1
<1>7. stream[r.pos + 1] = c
  <2>1. r.pos + 1 \in 1 .. Len(stream)
    BY <1>1, <1>6 DEF Has
  <2> QED
    BY <1>2, <2>1 DEF Agrees
<1>8. HeadTells(f, v)
  BY HeadTellsTail
<1>9. CASE f.kind \in {"text", "bdf"}
  <2>1. c = Len(t)
    BY <1>8, <1>9 DEF HeadTells
  <2>2. ReadField(r, f) = ReadText(r, f)
    BY <1>9 DEF ReadField, IsReader
  <2> HIDE DEF c, t, n
  <2>3. \/ \E code : code # "OK" /\ ReadText(r, f) = Fails(r, code)
        \/ \E w : ReadText(r, f) = Got(r, f, w, r.pos + 1 + c)
    BY <1>6, <1>7 DEF ReadText
  <2>4. ReadField(r, f).pos = r.pos + 1 + c
    BY <1>4, <1>5, <2>2, <2>3
  <2> QED
    BY <1>3, <2>1, <2>4 DEF n
<1>10. CASE f.kind \in {"list", "optional"}
  <2> DEFINE m == IF f.kind = "list" THEN c ELSE IF c = 0 THEN 0 ELSE f.size
  <2>1. m = Len(t)
    BY <1>8, <1>10 DEF HeadTells
  <2>2. ReadField(r, f) = ReadMany(r, f)
    BY <1>10 DEF ReadField, IsReader
  <2>3. \/ ReadMany(r, f) = Fails(r, "TRUNCATED")
        \/ \E w : ReadMany(r, f) = Got(r, f, w, r.pos + 1 + m)
    <3> HIDE DEF c, t, n
    <3> QED
      BY <1>6, <1>7 DEF ReadMany
  <2> HIDE DEF c, t, n, m
  <2>4. ReadField(r, f).pos = r.pos + 1 + m
    BY <1>4, <1>5, <2>2, <2>3
  <2> QED
    BY <1>3, <2>1, <2>4 DEF n
<1>11. CASE f.kind \in {"unit", "flag", "enum"}
  <2>1. Len(t) = 0
    <3>1. t = <<>>
      BY <1>8, <1>11 DEF HeadTells
    <3> QED
      BY <3>1
  <2>2. ReadField(r, f) = ReadOne(r, f)
    BY <1>11 DEF ReadField, IsReader
  <2> HIDE DEF c, t, n
  <2>3. \/ \E code : code # "OK" /\ ReadOne(r, f) = Fails(r, code)
        \/ \E w : ReadOne(r, f) = Got(r, f, w, r.pos + 1)
    BY <1>6, <1>7 DEF ReadOne
  <2>4. ReadField(r, f).pos = r.pos + 1
    BY <1>4, <1>5, <2>2, <2>3
  <2> QED
    BY <1>1, <1>3, <2>1, <2>4 DEF n
<1> QED
  BY <1>9, <1>10, <1>11 DEF IsField, Kinds

-----------------------------------------------------------------------------
(* Reading several fields *)

\* read holds the readers after each of the first n fields.
Runs(fields, p, read, n) ==
    /\ read = [i \in 0 .. n |-> read[i]]
    /\ read[0] = Reading(p)
    /\ \A i \in 1 .. n : read[i] = ReadField(read[i - 1], fields[i])

\* Every number of fields can be read one after another.
LEMMA RunsExist ==
    ASSUME NEW fields, NEW p
    PROVE  \A n \in Nat : \E read : Runs(fields, p, read, n)
<1> DEFINE Z == {k \in Nat : \E read : Runs(fields, p, read, k)}
<1>1. 0 \in Z
  <2> DEFINE g == [i \in 0 .. 0 |-> Reading(p)]
  <2>1. Runs(fields, p, g, 0)
    BY DEF Runs
  <2> QED
    BY <2>1
<1>2. ASSUME NEW k \in Nat, k \in Z PROVE k + 1 \in Z
  <2>1. PICK g : Runs(fields, p, g, k)
    BY <1>2
  <2> DEFINE h == [i \in 0 .. (k + 1) |->
                      IF i = k + 1 THEN ReadField(g[k], fields[k + 1]) ELSE g[i]]
  <2>2. h[0] = Reading(p)
    BY <2>1 DEF Runs
  <2>3. ASSUME NEW i \in 1 .. (k + 1) PROVE h[i] = ReadField(h[i - 1], fields[i])
    <3>1. CASE i = k + 1
      <4>1. i \in 0 .. (k + 1) /\ i - 1 = k /\ k \in 0 .. (k + 1) /\ k # k + 1
        BY <3>1
      <4>2. h[i] = ReadField(g[k], fields[k + 1]) /\ h[k] = g[k]
        BY <3>1, <4>1
      <4> QED
        BY <3>1, <4>1, <4>2
    <3>2. CASE i # k + 1
      <4>1. i \in 1 .. k /\ i \in 0 .. (k + 1) /\ i - 1 \in 0 .. (k + 1) /\ i - 1 # k + 1
        BY <3>2
      <4>2. h[i] = g[i] /\ h[i - 1] = g[i - 1]
        BY <4>1, <3>2
      <4>3. g[i] = ReadField(g[i - 1], fields[i])
        BY <2>1, <4>1 DEF Runs
      <4> QED
        BY <4>2, <4>3
    <3> QED
      BY <3>1, <3>2
  <2>4. Runs(fields, p, h, k + 1)
    BY <2>2, <2>3 DEF Runs
  <2> QED
    BY <2>4
<1> HIDE DEF Z
<1>3. Z = Nat
  <2>1. Z \in SUBSET Nat
    BY DEF Z
  <2> QED
    BY <1>1, <1>2, <2>1, Induction
<1> QED
  BY <1>3 DEF Z

\* Decode is the reading of the fields one after another.
LEMMA DecodeRuns ==
    ASSUME NEW fields, NEW p, Len(fields) \in Nat
    PROVE  \E read : Runs(fields, p, read, Len(fields)) /\ Decode(fields, p) = read[Len(fields)]
<1> DEFINE n == Len(fields)
           f == CHOOSE u : u = [i \in 0 .. n |->
                                   IF i = 0 THEN Reading(p) ELSE ReadField(u[i - 1], fields[i])]
<1>1. Decode(fields, p) = f[n]
  BY Zenon DEF Decode
<1>2. PICK g : Runs(fields, p, g, n)
  BY RunsExist
<1> HIDE DEF n
<1>3. g = [i \in 0 .. n |-> IF i = 0 THEN Reading(p) ELSE ReadField(g[i - 1], fields[i])]
  <2>1. n \in Nat
    BY DEF n
  <2>2. \A i \in 0 .. n : i # 0 => i \in 1 .. n
    BY <2>1
  <2>3. g = [i \in 0 .. n |-> g[i]]
    BY <1>2, Zenon DEF Runs
  <2>4. \A i \in 0 .. n : g[i] = IF i = 0 THEN Reading(p) ELSE ReadField(g[i - 1], fields[i])
    BY <1>2, <2>2, Zenon DEF Runs
  <2> QED
    BY <2>3, <2>4, Zenon
<1>4. f = [i \in 0 .. n |-> IF i = 0 THEN Reading(p) ELSE ReadField(f[i - 1], fields[i])]
  BY <1>3, Zenon
<1> HIDE DEF f
<1>5. Runs(fields, p, f, n)
  <2>1. n \in Nat /\ 0 \in 0 .. n
    BY DEF n
  <2>2. \A i \in 1 .. n : i \in 0 .. n /\ i # 0
    BY <2>1
  <2>3. f = [i \in 0 .. n |-> f[i]]
    BY <1>4, Zenon
  <2>4. f[0] = Reading(p)
    BY <1>4, <2>1, Zenon
  <2>5. \A i \in 1 .. n : f[i] = ReadField(f[i - 1], fields[i])
    BY <1>4, <2>2, Zenon
  <2> QED
    BY <2>3, <2>4, <2>5 DEF Runs
<1> QED
  BY <1>1, <1>5 DEF n

IsFieldList(fields) ==
    /\ Len(fields) \in Nat /\ DOMAIN fields = 1 .. Len(fields)
    /\ \A i \in 1 .. Len(fields) : IsField(fields[i])
    /\ \A i, j \in 1 .. Len(fields) : fields[i].name = fields[j].name => i = j

NamesTo(fields, n) == {fields[i].name : i \in 1 .. n}

\* A reader that has read n fields, each as something that it can hold.
HasRead(fields, p, n, r) ==
    /\ IsRead(r) /\ r.pos \in Nat /\ r.error \in ReadCodes
    /\ r.error = "OK" =>
          /\ p + n <= r.pos
          /\ r.got = [x \in NamesTo(fields, n) |-> r.got[x]]
          /\ \A i \in 1 .. n : FieldHolds(fields[i], r.got[fields[i].name])

OnNames(fields, n, g) == g = [x \in NamesTo(fields, n) |-> g[x]]

\* h is g and one more field.
OneMore(fields, n, g, v, h) ==
    /\ OnNames(fields, n + 1, h)
    /\ h[fields[n + 1].name] = v
    /\ \A i \in 1 .. n : h[fields[i].name] = g[fields[i].name]

\* Adding the next field's value to what was read.
LEMMA AndOne ==
    ASSUME NEW fields, IsFieldList(fields), NEW n \in Nat, n + 1 <= Len(fields),
           NEW g, OnNames(fields, n, g), NEW v
    PROVE  OneMore(fields, n, g, v, And([x \in {fields[n + 1].name} |-> v], g))
<1> DEFINE h == And([x \in {fields[n + 1].name} |-> v], g)
<1> DEFINE name == fields[n + 1].name
           one == [x \in {name} |-> v]
<1>1. DOMAIN one = {name} /\ one[name] = v
  OBVIOUS
<1>2. DOMAIN g = NamesTo(fields, n)
  <2> DEFINE s == NamesTo(fields, n)
  <2> HIDE DEF s
  <2>1. g = [x \in s |-> g[x]]
    BY DEF s, OnNames
  <2> QED
    BY <2>1 DEF s
<1>3. NamesTo(fields, n + 1) = {name} \cup NamesTo(fields, n)
  <2>1. \A i : i \in 1 .. (n + 1) <=> i \in 1 .. n \/ i = n + 1
    OBVIOUS
  <2> QED
    BY <2>1 DEF NamesTo
<1> DEFINE u == {name} \cup NamesTo(fields, n)
<1> HIDE DEF one, name
<1>4. h = [x \in u |-> IF x \in {name} THEN one[x] ELSE g[x]]
  BY <1>1, <1>2 DEF And, one, name
<1> HIDE DEF h
<1>5. \A i \in 1 .. n : fields[i].name # name /\ fields[i].name \in u
  <2>1. \A i \in 1 .. n : i \in 1 .. Len(fields) /\ n + 1 \in 1 .. Len(fields) /\ i # n + 1
    BY DEF IsFieldList
  <2> QED
    BY <2>1 DEF IsFieldList, name, NamesTo
<1>6. name \in u
  OBVIOUS
<1> HIDE DEF u
<1>7. h = [x \in u |-> h[x]]
  BY <1>4
<1>8. h[name] = v
  BY <1>1, <1>4, <1>6
<1>9. \A i \in 1 .. n : h[fields[i].name] = g[fields[i].name]
  BY <1>4, <1>5
<1> QED
  BY <1>3, <1>7, <1>8, <1>9 DEF u, name, h, OneMore, OnNames

\* After each field the reader holds values of the fields read so far, or has stopped
\* with a code.
LEMMA RunHasRead ==
    ASSUME IsStream, NEW fields, IsFieldList(fields), NEW p \in Nat, NEW read,
           Runs(fields, p, read, Len(fields))
    PROVE  \A n \in 0 .. Len(fields) : HasRead(fields, p, n, read[n])
<1> DEFINE m == Len(fields)
           Z == {n \in Nat : n <= m => HasRead(fields, p, n, read[n])}
<1>0. m \in Nat
  BY DEF IsFieldList
<1>1. 0 \in Z
  <2> DEFINE r == Reading(p)
  <2>1. read[0] = r
    BY DEF Runs
  <2>2. IsRead(r) /\ r.error = "OK" /\ r.pos = p /\ r.got = [x \in {} |-> 0]
    BY DEF Reading, IsRead
  <2>3. NamesTo(fields, 0) = {}
    BY DEF NamesTo
  <2> HIDE DEF r
  <2>4. r.got = [x \in NamesTo(fields, 0) |-> r.got[x]]
    BY <2>2, <2>3
  <2>5. HasRead(fields, p, 0, r)
    BY <2>2, <2>4 DEF HasRead, ReadCodes
  <2> QED
    BY <2>1, <2>5
<1>2. ASSUME NEW n \in Nat, n \in Z PROVE n + 1 \in Z
  <2> SUFFICES ASSUME n + 1 <= m PROVE HasRead(fields, p, n + 1, read[n + 1])
    OBVIOUS
  <2> DEFINE r == read[n]
             f == fields[n + 1]
             q == read[n + 1]
  <2>1. n + 1 \in 1 .. m /\ (n + 1) - 1 = n /\ n <= m
    BY <1>0
  <2>2. HasRead(fields, p, n, r) /\ IsField(f)
    BY <1>2, <2>1 DEF IsFieldList
  <2>3. q = ReadField(r, f)
    <3>1. q = ReadField(read[(n + 1) - 1], f)
      BY <2>1 DEF Runs
    <3> QED
      BY <2>1, <3>1
  <2> HIDE DEF r, q
  <2>4. CASE r.error # "OK"
    <3>1. q = r
      BY <2>3, <2>4 DEF ReadField
    <3>2. HasRead(fields, p, n + 1, q)
      BY <2>2, <2>4, <3>1 DEF HasRead
    <3> QED
      BY <3>2 DEF q
  <2>5. CASE r.error = "OK"
    <3>1. IsReader(r) /\ p + n <= r.pos
      BY <2>2, <2>5 DEF IsReader, HasRead
    <3>2. FieldRead(r, f, q)
      BY <2>2, <2>3, <3>1, FieldIsRead
    <3>3. CASE q.error # "OK"
      <4>1. HasRead(fields, p, n + 1, q)
        BY <3>2, <3>3 DEF HasRead, FieldRead
      <4> QED
        BY <4>1 DEF q
    <3>4. CASE q.error = "OK"
      <4>1. PICK v : FieldHolds(f, v) /\ q = Got(r, f, v, q.pos)
        BY <3>2, <3>4 DEF FieldRead
      <4>2. q.got = And([x \in {f.name} |-> v], r.got)
        BY <4>1 DEF Got
      <4>3. r.got = [x \in NamesTo(fields, n) |-> r.got[x]]
        BY <2>2, <2>5 DEF HasRead
      <4>4. /\ q.got = [x \in NamesTo(fields, n + 1) |-> q.got[x]]
            /\ q.got[f.name] = v
            /\ \A i \in 1 .. n : q.got[fields[i].name] = r.got[fields[i].name]
        <5>1. OnNames(fields, n, r.got) /\ n + 1 <= Len(fields)
          BY <4>3 DEF OnNames
        <5>3. OneMore(fields, n, r.got, v, And([x \in {f.name} |-> v], r.got))
          BY <5>1, AndOne, Zenon
        <5>2. OneMore(fields, n, r.got, v, q.got)
          BY <4>2, <5>3, Zenon
        <5> QED
          BY <5>2 DEF OneMore, OnNames
      <4>5. \A i \in 1 .. (n + 1) : FieldHolds(fields[i], q.got[fields[i].name])
        <5>1. \A i \in 1 .. (n + 1) : i \in 1 .. n \/ i = n + 1
          OBVIOUS
        <5>2. \A i \in 1 .. n : FieldHolds(fields[i], r.got[fields[i].name])
          BY <2>2, <2>5 DEF HasRead
        <5> QED
          BY <4>1, <4>4, <5>1, <5>2
      <4>6. q.pos \in Nat /\ p + (n + 1) <= q.pos
        <5>1. q.pos \in Nat /\ r.pos < q.pos /\ r.pos \in Nat
          BY <3>1, <3>2, <3>4 DEF FieldRead, IsReader
        <5>2. \A a, b \in Nat : p + n <= a /\ a < b => p + (n + 1) <= b
          OBVIOUS
        <5> QED
          BY <3>1, <5>1, <5>2
      <4>7. HasRead(fields, p, n + 1, q)
        BY <3>2, <4>4, <4>5, <4>6 DEF HasRead, FieldRead
      <4> QED
        BY <4>7 DEF q
    <3> QED
      BY <3>3, <3>4
  <2> QED
    BY <2>4, <2>5
<1> HIDE DEF Z
<1>3. Z = Nat
  <2>1. Z \in SUBSET Nat
    BY DEF Z
  <2> QED
    BY <1>1, <1>2, <2>1, Induction
<1> QED
  BY <1>0, <1>3 DEF Z

\* Whatever the stream holds, a decoder gets a record of its fields or an error.
LEMMA DecodeHasRead ==
    ASSUME IsStream, NEW fields, IsFieldList(fields), NEW p \in Nat
    PROVE  HasRead(fields, p, Len(fields), Decode(fields, p))
<1>1. PICK read : Runs(fields, p, read, Len(fields)) /\ Decode(fields, p) = read[Len(fields)]
  BY DecodeRuns DEF IsFieldList
<1>2. Len(fields) \in 0 .. Len(fields)
  BY DEF IsFieldList
<1> QED
  BY <1>1, <1>2, RunHasRead

\* The parts are what is written for the fields of v.
Wrote(fields, v, parts) ==
    /\ parts \in Seq(Seq(Nat)) /\ Len(parts) = Len(fields)
    /\ \A i \in 1 .. Len(fields) : /\ FieldHolds(fields[i], v[fields[i].name])
                                   /\ parts[i] = FieldUnits(fields[i], v[fields[i].name])

\* Wherever the stream ends, a decoder that passes goes where the encoder went.
LEMMA DecodeIsPlaced ==
    ASSUME IsStream, NEW fields, IsFieldList(fields), NEW p \in Nat, NEW v, NEW parts,
           Wrote(fields, v, parts), NEW full, Agrees(full), NEW e, Laid(full, parts, e), e[0] = p,
           Decode(fields, p).error = "OK"
    PROVE  Decode(fields, p).pos = e[Len(fields)]
<1> DEFINE m == Len(fields)
<1>1. PICK read : Runs(fields, p, read, m) /\ Decode(fields, p) = read[m]
  BY DecodeRuns DEF IsFieldList
<1>2. e[0] = p /\ Laid(full, parts, e)
  OBVIOUS
<1> DEFINE Z == {n \in Nat : n <= m => (read[n].error = "OK" => read[n].pos = e[n])}
<1>0. m \in Nat
  BY DEF IsFieldList
<1>3. 0 \in Z
  BY <1>1, <1>2 DEF Runs, Reading
<1>4. ASSUME NEW n \in Nat, n \in Z PROVE n + 1 \in Z
  <2> SUFFICES ASSUME n + 1 <= m, read[n + 1].error = "OK" PROVE read[n + 1].pos = e[n + 1]
    OBVIOUS
  <2> DEFINE r == read[n]
             f == fields[n + 1]
             q == read[n + 1]
             w == v[f.name]
  <2>1. n + 1 \in 1 .. m /\ (n + 1) - 1 = n /\ n <= m /\ n \in 0 .. m
    BY <1>0
  <2>2. HasRead(fields, p, n, r) /\ IsField(f)
    BY <1>1, <2>1, RunHasRead DEF IsFieldList
  <2>3. q = ReadField(r, f)
    <3>1. q = ReadField(read[(n + 1) - 1], f)
      BY <1>1, <2>1 DEF Runs
    <3> QED
      BY <2>1, <3>1
  <2>4. r.error = "OK"
    BY <2>3 DEF ReadField
  <2>5. r.pos = e[n]
    BY <1>4, <2>1, <2>4
  <2>6. FieldHolds(f, w) /\ parts[n + 1] = FieldUnits(f, w)
    BY <2>1 DEF Wrote
  <2>7. e[n + 1] = e[n] + Len(FieldUnits(f, w)) /\ HoldsAt(full, e[n], FieldUnits(f, w))
    <3>1. n + 1 \in 1 .. Len(parts)
      BY <2>1 DEF Wrote
    <3>2. e[n + 1] = e[(n + 1) - 1] + Len(parts[n + 1]) /\ HoldsAt(full, e[(n + 1) - 1], parts[n + 1])
      BY <1>2, <3>1 DEF Laid
    <3> QED
      BY <2>1, <2>6, <3>2
  <2>8. IsReader(r)
    BY <2>2, <2>4 DEF HasRead, IsReader
  <2> HIDE DEF r, q, f, w
  <2>9. q.pos = r.pos + Len(FieldUnits(f, w))
    <3>1. ReadField(r, f).error = "OK"
      BY <2>3 DEF q
    <3>2. HoldsAt(full, r.pos, FieldUnits(f, w))
      BY <2>5, <2>7
    <3> QED
      BY <2>2, <2>3, <2>6, <2>8, <3>1, <3>2, FieldIsPlaced
  <2> QED
    BY <2>5, <2>7, <2>9 DEF q
<1> HIDE DEF Z
<1>5. Z = Nat
  <2>1. Z \in SUBSET Nat
    BY DEF Z
  <2> QED
    BY <1>3, <1>4, <2>1, Induction
<1> QED
  BY <1>0, <1>1, <1>2, <1>5 DEF Z

\* A decoder of what an encoder wrote gets its fields back.
DecodeBack(fields, v, end, r) ==
    \/ /\ r.error = "OK" /\ r.pos = end
       /\ r.got = [x \in Names(fields) |-> v[x]]
    \/ r.error = "PROTOCOL_OVERFLOW" /\ Len(stream) > StringWindow

\* Fields that lie in the stream as they were written are read back one after another.
LEMMA DecodeComesBack ==
    ASSUME IsStream, NEW fields, IsFieldList(fields), NEW p \in Nat, NEW v, NEW parts,
           Wrote(fields, v, parts), NEW e, Laid(stream, parts, e), e[0] = p
    PROVE  DecodeBack(fields, v, e[Len(fields)], Decode(fields, p))
<1> DEFINE m == Len(fields)
<1>1. PICK read : Runs(fields, p, read, m) /\ Decode(fields, p) = read[m]
  BY DecodeRuns DEF IsFieldList
<1>2. e[0] = p /\ Laid(stream, parts, e)
  OBVIOUS
<1> DEFINE Long(r) == r.error = "PROTOCOL_OVERFLOW" /\ Len(stream) > StringWindow
           Back(n, r) == /\ r.error = "OK" /\ r.pos = e[n]
                         /\ \A i \in 1 .. n : r.got[fields[i].name] = v[fields[i].name]
           Z == {n \in Nat : n <= m => Back(n, read[n]) \/ Long(read[n])}
<1>0. m \in Nat
  BY DEF IsFieldList
<1>3. 0 \in Z
  BY <1>1, <1>2 DEF Runs, Reading
<1>4. ASSUME NEW n \in Nat, n \in Z PROVE n + 1 \in Z
  <2> SUFFICES ASSUME n + 1 <= m PROVE Back(n + 1, read[n + 1]) \/ Long(read[n + 1])
    OBVIOUS
  <2> DEFINE r == read[n]
             f == fields[n + 1]
             q == read[n + 1]
             w == v[f.name]
  <2>1. n + 1 \in 1 .. m /\ (n + 1) - 1 = n /\ n <= m /\ n \in 0 .. m
    BY <1>0
  <2>2. HasRead(fields, p, n, r) /\ IsField(f)
    BY <1>1, <2>1, RunHasRead DEF IsFieldList
  <2>3. q = ReadField(r, f)
    <3>1. q = ReadField(read[(n + 1) - 1], f)
      BY <1>1, <2>1 DEF Runs
    <3> QED
      BY <2>1, <3>1
  <2>4. Back(n, r) \/ Long(r)
    BY <1>4, <2>1
  <2>6. FieldHolds(f, w) /\ parts[n + 1] = FieldUnits(f, w)
    BY <2>1 DEF Wrote
  <2>7. e[n + 1] = e[n] + Len(FieldUnits(f, w)) /\ HoldsAt(stream, e[n], FieldUnits(f, w))
    <3>1. n + 1 \in 1 .. Len(parts)
      BY <2>1 DEF Wrote
    <3>2. /\ e[n + 1] = e[(n + 1) - 1] + Len(parts[n + 1])
          /\ HoldsAt(stream, e[(n + 1) - 1], parts[n + 1])
      BY <1>2, <3>1 DEF Laid
    <3> QED
      BY <2>1, <2>6, <3>2
  <2>8. CASE Long(r)
    <3>1. q = r
      BY <2>3, <2>8 DEF ReadField
    <3> QED
      BY <2>8, <3>1
  <2>9. CASE Back(n, r)
    <3>1. IsReader(r) /\ r.pos = e[n]
      BY <2>2, <2>9 DEF HasRead, IsReader
    <3>2. HoldsAt(stream, r.pos, FieldUnits(f, w))
      BY <2>7, <3>1
    <3>3. FieldBack(r, f, w, q)
      <4> HIDE DEF r, q, f, w
      <4> QED
        BY <2>2, <2>3, <2>6, <3>1, <3>2, FieldComesBack
    <3>4. CASE Long(q)
      BY <3>4
    <3>5. CASE q = Got(r, f, w, r.pos + Len(FieldUnits(f, w)))
      <4>1. q.error = "OK" /\ q.pos = e[n + 1]
        <5> HIDE DEF r, q, f, w
        <5> QED
          BY <2>7, <3>1, <3>5 DEF Got
      <4>2. q.got = And([x \in {f.name} |-> w], r.got)
        <5> HIDE DEF r, q, f, w
        <5> QED
          BY <3>5 DEF Got
      <4>3. r.got = [x \in NamesTo(fields, n) |-> r.got[x]]
        BY <2>2, <2>9 DEF HasRead
      <4>4. /\ q.got[f.name] = w
            /\ \A i \in 1 .. n : q.got[fields[i].name] = r.got[fields[i].name]
        <5>1. OnNames(fields, n, r.got) /\ n + 1 <= Len(fields)
          BY <4>3 DEF OnNames
        <5>3. OneMore(fields, n, r.got, w, And([x \in {f.name} |-> w], r.got))
          BY <5>1, AndOne, Zenon
        <5>2. OneMore(fields, n, r.got, w, q.got)
          BY <4>2, <5>3, Zenon
        <5> QED
          BY <5>2 DEF OneMore
      <4>5. \A i \in 1 .. (n + 1) : q.got[fields[i].name] = v[fields[i].name]
        <5>1. \A i \in 1 .. (n + 1) : i \in 1 .. n \/ i = n + 1
          OBVIOUS
        <5> QED
          BY <2>9, <4>4, <5>1
      <4> QED
        BY <4>1, <4>5
    <3> QED
      BY <3>3, <3>4, <3>5 DEF FieldBack
  <2> QED
    BY <2>4, <2>8, <2>9
<1> HIDE DEF Z
<1>5. Z = Nat
  <2>1. Z \in SUBSET Nat
    BY DEF Z
  <2> QED
    BY <1>3, <1>4, <2>1, Induction
<1> DEFINE q == read[m]
<1>6. Back(m, q) \/ Long(q)
  BY <1>0, <1>5 DEF Z
<1>7. CASE Long(q)
  BY <1>1, <1>7 DEF DecodeBack
<1>8. CASE Back(m, q)
  <2>1. HasRead(fields, p, m, q)
    <3>1. m \in 0 .. m
      BY <1>0
    <3> QED
      BY <1>1, <3>1, RunHasRead
  <2>2. NamesTo(fields, m) = Names(fields)
    BY DEF NamesTo, Names, IsFieldList
  <2>3. q.got = [x \in Names(fields) |-> q.got[x]]
    BY <1>8, <2>1, <2>2 DEF HasRead
  <2>4. \A x \in Names(fields) : q.got[x] = v[x]
    BY <1>8 DEF Names, IsFieldList
  <2> DEFINE s == Names(fields)
  <2> HIDE DEF q, s
  <2>5. q.got = [x \in s |-> v[x]]
    BY <2>3, <2>4 DEF s
  <2> QED
    BY <1>1, <1>2, <1>8, <2>5 DEF DecodeBack, q, s
<1> QED
  BY <1>6, <1>7, <1>8

-----------------------------------------------------------------------------
(* The fields of each record, and what is written for them *)

HoldsFields(fields, v) == \A i \in DOMAIN fields : FieldHolds(fields[i], v[fields[i].name])

PartsOf(fields, v, parts) ==
      /\ Len(parts) = Len(fields) /\ parts = [i \in 1 .. Len(fields) |-> parts[i]]
      /\ \A i \in 1 .. Len(fields) : parts[i] = FieldUnits(fields[i], v[fields[i].name])

\* The pieces a writer makes of its fields are what each field's reader expects.
LEMMA PartsAreWritten ==
    ASSUME NEW fields, IsFieldList(fields), NEW v, HoldsFields(fields, v),
           NEW parts, PartsOf(fields, v, parts)
    PROVE  Wrote(fields, v, parts)
<1> DEFINE n == Len(fields)
<1>1. n \in Nat /\ parts = [i \in 1 .. n |-> parts[i]] /\ Len(parts) = n
  BY DEF IsFieldList, PartsOf
<1>2. ASSUME NEW i \in 1 .. n
      PROVE  /\ parts[i] = FieldUnits(fields[i], v[fields[i].name])
             /\ FieldHolds(fields[i], v[fields[i].name])
             /\ parts[i] \in Seq(Nat)
  <2> DEFINE f == fields[i]
             w == v[f.name]
  <2>1. IsField(f) /\ FieldHolds(f, w) /\ parts[i] = FieldUnits(f, w)
    BY DEF IsFieldList, HoldsFields, PartsOf
  <2>2. <<>> \in Seq(Nat) /\ 0 \in Nat
    OBVIOUS
  <2> HIDE DEF f, w
  <2>3. FieldUnits(f, w) \in Seq(Nat)
    BY <2>1, <2>2, FieldHeld
  <2> QED
    BY <2>1, <2>3 DEF f, w
<1> HIDE DEF n
<1>3. parts \in Seq(Seq(Nat))
  BY <1>1, <1>2
<1> QED
  BY <1>1, <1>2, <1>3 DEF Wrote, n

NodeParts(n) ==
    <<Text(B!canonical(n.bdf)), Unit(n.kind), Unit(n.generation), Unit(n.provenance),
      Optional(n.parent), List(n.children), Text(n.vendor), Text(n.device), Text(n.class_name),
      Text(n.driver), Flag(n.removed)>>

\* The fields of decode_node, in their order.
LEMMA NodeFieldNames ==
      /\ NodeFields[1].name = "bdf" /\ NodeFields[2].name = "kind"
      /\ NodeFields[3].name = "generation" /\ NodeFields[4].name = "provenance"
      /\ NodeFields[5].name = "parent" /\ NodeFields[6].name = "children"
      /\ NodeFields[7].name = "vendor" /\ NodeFields[8].name = "device"
      /\ NodeFields[9].name = "class_name" /\ NodeFields[10].name = "driver"
      /\ NodeFields[11].name = "removed"
  BY DEF NodeFields, Field, U

\* The fields of decode_node are fields, each with its own name.
LEMMA NodeFieldList == IsFieldList(NodeFields)
<1>1. Len(NodeFields) = 11 /\ DOMAIN NodeFields = 1 .. 11
  BY DEF NodeFields
<1>2. \A i \in 1 .. 11 :
         i \in {1, 2, 3, 4, 5, 6, 7, 8, 9, 10, 11}
  OBVIOUS
<1>3. \A i, j \in 1 .. 11 : NodeFields[i].name = NodeFields[j].name => i = j
  BY <1>2, NodeFieldNames, SMTT(30)
<1>4. \A i \in 1 .. 11 : NodeFields[i].kind \in Kinds /\ NodeFields[i].size \in Nat
  BY <1>2 DEF NodeFields, Field, U, Kinds, Provenances, PathClasses, Localities, Freshnesses,
              Contentions, TransferClasses, Engines
<1> QED
  BY <1>1, <1>3, <1>4 DEF IsFieldList, IsField

\* encode_node writes, in the same order, the fields that decode_node reads.
LEMMA NodeWrote ==
    ASSUME NEW v, HoldsFields(NodeFields, v)
    PROVE  Wrote(NodeFields, v, NodeParts(v))
<1>1. /\ Len(NodeFields) = 11 /\ Len(NodeParts(v)) = 11
      /\ NodeParts(v) = [i \in 1 .. 11 |-> NodeParts(v)[i]]
  BY DEF NodeFields, NodeParts
<1>2. \A i \in 1 .. 11 :
         i \in {1, 2, 3, 4, 5, 6, 7, 8, 9, 10, 11}
  OBVIOUS
<1>3. \A i \in 1 .. 11 :
         NodeParts(v)[i] = FieldUnits(NodeFields[i], v[NodeFields[i].name])
  BY <1>2, SMTT(30) DEF NodeFields, Field, U, NodeParts, FieldUnits
<1>4. PartsOf(NodeFields, v, NodeParts(v))
  BY <1>1, <1>3 DEF PartsOf
<1> QED
  BY <1>4, NodeFieldList, PartsAreWritten

\* The names of a node's fields on the wire.
LEMMA NodeNames ==
    Names(NodeFields) =
      {"bdf", "kind", "generation", "provenance", "parent", "children",
       "vendor", "device", "class_name", "driver", "removed"}
<1> DEFINE s ==
      {"bdf", "kind", "generation", "provenance", "parent", "children",
       "vendor", "device", "class_name", "driver", "removed"}
<1>1. DOMAIN NodeFields = 1 .. 11
  BY DEF NodeFields
<1>2. \A i \in 1 .. 11 :
         i \in {1, 2, 3, 4, 5, 6, 7, 8, 9, 10, 11}
  OBVIOUS
<1>3. s \subseteq Names(NodeFields)
  <2>1. \A x \in s : \E i \in 1 .. 11 : x = NodeFields[i].name
    BY NodeFieldNames, SMTT(30)
  <2> HIDE DEF s
  <2> QED
    BY <1>1, <2>1 DEF Names
<1>4. Names(NodeFields) \subseteq s
  <2>1. \A i \in 1 .. 11 : NodeFields[i].name \in s
    BY <1>2, NodeFieldNames, SMTT(30)
  <2> HIDE DEF s
  <2> QED
    BY <1>1, <2>1, Zenon DEF Names
<1> QED
  BY <1>3, <1>4

PathParts(p) ==
    <<Unit(p.id), Unit(p.generation), Unit(p.source), Unit(p.destination), Unit(p.class),
      List(p.chain), List(p.links), Unit(p.locality), Optional(p.theoretical), Optional(p.measured),
      Unit(p.freshness), Unit(p.age), Unit(p.contention), Unit(p.score), Unit(p.confidence),
      Unit(p.provenance), Unit(p.epoch), Unit(p.boot)>>

\* The fields of decode_path, in their order.
LEMMA PathFieldNames ==
      /\ PathFields[1].name = "id" /\ PathFields[2].name = "generation"
      /\ PathFields[3].name = "source" /\ PathFields[4].name = "destination"
      /\ PathFields[5].name = "class" /\ PathFields[6].name = "chain"
      /\ PathFields[7].name = "links" /\ PathFields[8].name = "locality"
      /\ PathFields[9].name = "theoretical" /\ PathFields[10].name = "measured"
      /\ PathFields[11].name = "freshness" /\ PathFields[12].name = "age"
      /\ PathFields[13].name = "contention" /\ PathFields[14].name = "score"
      /\ PathFields[15].name = "confidence" /\ PathFields[16].name = "provenance"
      /\ PathFields[17].name = "epoch" /\ PathFields[18].name = "boot"
  BY DEF PathFields, Field, U

\* The fields of decode_path are fields, each with its own name.
LEMMA PathFieldList == IsFieldList(PathFields)
<1>1. Len(PathFields) = 18 /\ DOMAIN PathFields = 1 .. 18
  BY DEF PathFields
<1>2. \A i \in 1 .. 18 :
         i \in {1, 2, 3, 4, 5, 6, 7, 8, 9, 10, 11, 12, 13, 14, 15, 16, 17, 18}
  OBVIOUS
<1>3. \A i, j \in 1 .. 18 : PathFields[i].name = PathFields[j].name => i = j
  BY <1>2, PathFieldNames, SMTT(30)
<1>4. \A i \in 1 .. 18 : PathFields[i].kind \in Kinds /\ PathFields[i].size \in Nat
  BY <1>2 DEF PathFields, Field, U, Kinds, Provenances, PathClasses, Localities, Freshnesses,
              Contentions, TransferClasses, Engines
<1> QED
  BY <1>1, <1>3, <1>4 DEF IsFieldList, IsField

\* encode_path writes, in the same order, the fields that decode_path reads.
LEMMA PathWrote ==
    ASSUME NEW v, HoldsFields(PathFields, v)
    PROVE  Wrote(PathFields, v, PathParts(v))
<1>1. /\ Len(PathFields) = 18 /\ Len(PathParts(v)) = 18
      /\ PathParts(v) = [i \in 1 .. 18 |-> PathParts(v)[i]]
  BY DEF PathFields, PathParts
<1>2. \A i \in 1 .. 18 :
         i \in {1, 2, 3, 4, 5, 6, 7, 8, 9, 10, 11, 12, 13, 14, 15, 16, 17, 18}
  OBVIOUS
<1>3. \A i \in 1 .. 18 :
         PathParts(v)[i] = FieldUnits(PathFields[i], v[PathFields[i].name])
  BY <1>2, SMTT(30) DEF PathFields, Field, U, PathParts, FieldUnits
<1>4. PartsOf(PathFields, v, PathParts(v))
  BY <1>1, <1>3 DEF PartsOf
<1> QED
  BY <1>4, PathFieldList, PartsAreWritten

\* The names of a path's fields on the wire.
LEMMA PathNames ==
    Names(PathFields) =
      {"id", "generation", "source", "destination", "class", "chain",
       "links", "locality", "theoretical", "measured", "freshness", "age",
       "contention", "score", "confidence", "provenance", "epoch", "boot"}
<1> DEFINE s ==
      {"id", "generation", "source", "destination", "class", "chain",
       "links", "locality", "theoretical", "measured", "freshness", "age",
       "contention", "score", "confidence", "provenance", "epoch", "boot"}
<1>1. DOMAIN PathFields = 1 .. 18
  BY DEF PathFields
<1>2. \A i \in 1 .. 18 :
         i \in {1, 2, 3, 4, 5, 6, 7, 8, 9, 10, 11, 12, 13, 14, 15, 16, 17, 18}
  OBVIOUS
<1>3. s \subseteq Names(PathFields)
  <2>1. \A x \in s : \E i \in 1 .. 18 : x = PathFields[i].name
    BY PathFieldNames, SMTT(30)
  <2> HIDE DEF s
  <2> QED
    BY <1>1, <2>1 DEF Names
<1>4. Names(PathFields) \subseteq s
  <2>1. \A i \in 1 .. 18 : PathFields[i].name \in s
    BY <1>2, PathFieldNames, SMTT(30)
  <2> HIDE DEF s
  <2> QED
    BY <1>1, <2>1, Zenon DEF Names
<1> QED
  BY <1>3, <1>4

MeasurementParts(m) ==
    <<Unit(m.id), Unit(m.generation), Unit(m.source), Unit(m.destination), Unit(m.class),
      Unit(m.engine), Unit(m.bytes), Unit(m.iterations), Unit(m.duration), Unit(m.latency),
      Unit(m.provenance), Optional(m.path), Text(m.sync), Unit(m.warmup), Text(m.detail)>>

\* The fields of decode_measurement, in their order.
LEMMA MeasurementFieldNames ==
      /\ MeasurementFields[1].name = "id" /\ MeasurementFields[2].name = "generation"
      /\ MeasurementFields[3].name = "source" /\ MeasurementFields[4].name = "destination"
      /\ MeasurementFields[5].name = "class" /\ MeasurementFields[6].name = "engine"
      /\ MeasurementFields[7].name = "bytes" /\ MeasurementFields[8].name = "iterations"
      /\ MeasurementFields[9].name = "duration" /\ MeasurementFields[10].name = "latency"
      /\ MeasurementFields[11].name = "provenance" /\ MeasurementFields[12].name = "path"
      /\ MeasurementFields[13].name = "sync" /\ MeasurementFields[14].name = "warmup"
      /\ MeasurementFields[15].name = "detail"
  BY DEF MeasurementFields, Field, U

\* The fields of decode_measurement are fields, each with its own name.
LEMMA MeasurementFieldList == IsFieldList(MeasurementFields)
<1>1. Len(MeasurementFields) = 15 /\ DOMAIN MeasurementFields = 1 .. 15
  BY DEF MeasurementFields
<1>2. \A i \in 1 .. 15 :
         i \in {1, 2, 3, 4, 5, 6, 7, 8, 9, 10, 11, 12, 13, 14, 15}
  OBVIOUS
<1>3. \A i, j \in 1 .. 15 : MeasurementFields[i].name = MeasurementFields[j].name => i = j
  BY <1>2, MeasurementFieldNames, SMTT(30)
<1>4. \A i \in 1 .. 15 : MeasurementFields[i].kind \in Kinds /\ MeasurementFields[i].size \in Nat
  BY <1>2 DEF MeasurementFields, Field, U, Kinds, Provenances, PathClasses, Localities, Freshnesses,
              Contentions, TransferClasses, Engines
<1> QED
  BY <1>1, <1>3, <1>4 DEF IsFieldList, IsField

\* encode_measurement writes, in the same order, the fields that decode_measurement
\* reads.
LEMMA MeasurementWrote ==
    ASSUME NEW v, HoldsFields(MeasurementFields, v)
    PROVE  Wrote(MeasurementFields, v, MeasurementParts(v))
<1>1. /\ Len(MeasurementFields) = 15 /\ Len(MeasurementParts(v)) = 15
      /\ MeasurementParts(v) = [i \in 1 .. 15 |-> MeasurementParts(v)[i]]
  BY DEF MeasurementFields, MeasurementParts
<1>2. \A i \in 1 .. 15 :
         i \in {1, 2, 3, 4, 5, 6, 7, 8, 9, 10, 11, 12, 13, 14, 15}
  OBVIOUS
<1>3. \A i \in 1 .. 15 :
         MeasurementParts(v)[i] = FieldUnits(MeasurementFields[i], v[MeasurementFields[i].name])
  BY <1>2, SMTT(30) DEF MeasurementFields, Field, U, MeasurementParts, FieldUnits
<1>4. PartsOf(MeasurementFields, v, MeasurementParts(v))
  BY <1>1, <1>3 DEF PartsOf
<1> QED
  BY <1>4, MeasurementFieldList, PartsAreWritten

\* The names of a measurement's fields on the wire.
LEMMA MeasurementNames ==
    Names(MeasurementFields) =
      {"id", "generation", "source", "destination", "class", "engine",
       "bytes", "iterations", "duration", "latency", "provenance", "path",
       "sync", "warmup", "detail"}
<1> DEFINE s ==
      {"id", "generation", "source", "destination", "class", "engine",
       "bytes", "iterations", "duration", "latency", "provenance", "path",
       "sync", "warmup", "detail"}
<1>1. DOMAIN MeasurementFields = 1 .. 15
  BY DEF MeasurementFields
<1>2. \A i \in 1 .. 15 :
         i \in {1, 2, 3, 4, 5, 6, 7, 8, 9, 10, 11, 12, 13, 14, 15}
  OBVIOUS
<1>3. s \subseteq Names(MeasurementFields)
  <2>1. \A x \in s : \E i \in 1 .. 15 : x = MeasurementFields[i].name
    BY MeasurementFieldNames, SMTT(30)
  <2> HIDE DEF s
  <2> QED
    BY <1>1, <2>1 DEF Names
<1>4. Names(MeasurementFields) \subseteq s
  <2>1. \A i \in 1 .. 15 : MeasurementFields[i].name \in s
    BY <1>2, MeasurementFieldNames, SMTT(30)
  <2> HIDE DEF s
  <2> QED
    BY <1>1, <2>1, Zenon DEF Names
<1> QED
  BY <1>3, <1>4

ReservationParts(r) ==
    <<Unit(r.id), Unit(r.generation), Unit(r.path), Unit(r.path_generation),
      Unit(r.worker), Unit(r.boot), Unit(r.attempt), Unit(r.epoch), Unit(r.policy),
      Unit(r.policy_generation), Unit(r.bytes), Unit(r.bandwidth), Unit(r.duration),
      Unit(r.priority), Unit(r.source), Unit(r.destination), Text(r.workload), Unit(r.created),
      Flag(r.active), Flag(r.released)>>

\* The fields of decode_reservation, in their order.
LEMMA ReservationFieldNames ==
      /\ ReservationFields[1].name = "id" /\ ReservationFields[2].name = "generation"
      /\ ReservationFields[3].name = "path" /\ ReservationFields[4].name = "path_generation"
      /\ ReservationFields[5].name = "worker" /\ ReservationFields[6].name = "boot"
      /\ ReservationFields[7].name = "attempt" /\ ReservationFields[8].name = "epoch"
      /\ ReservationFields[9].name = "policy" /\ ReservationFields[10].name = "policy_generation"
      /\ ReservationFields[11].name = "bytes" /\ ReservationFields[12].name = "bandwidth"
      /\ ReservationFields[13].name = "duration" /\ ReservationFields[14].name = "priority"
      /\ ReservationFields[15].name = "source" /\ ReservationFields[16].name = "destination"
      /\ ReservationFields[17].name = "workload" /\ ReservationFields[18].name = "created"
      /\ ReservationFields[19].name = "active" /\ ReservationFields[20].name = "released"
  BY DEF ReservationFields, Field, U

\* The fields of decode_reservation are fields, each with its own name.
LEMMA ReservationFieldList == IsFieldList(ReservationFields)
<1>1. Len(ReservationFields) = 20 /\ DOMAIN ReservationFields = 1 .. 20
  BY DEF ReservationFields
<1>2. \A i \in 1 .. 20 :
         i \in {1, 2, 3, 4, 5, 6, 7, 8, 9, 10, 11, 12, 13, 14, 15, 16, 17, 18, 19, 20}
  OBVIOUS
<1>3. \A i, j \in 1 .. 20 : ReservationFields[i].name = ReservationFields[j].name => i = j
  BY <1>2, ReservationFieldNames, SMTT(30)
<1>4. \A i \in 1 .. 20 : ReservationFields[i].kind \in Kinds /\ ReservationFields[i].size \in Nat
  BY <1>2 DEF ReservationFields, Field, U, Kinds, Provenances, PathClasses, Localities, Freshnesses,
              Contentions, TransferClasses, Engines
<1> QED
  BY <1>1, <1>3, <1>4 DEF IsFieldList, IsField

\* encode_reservation writes, in the same order, the fields that decode_reservation
\* reads.
LEMMA ReservationWrote ==
    ASSUME NEW v, HoldsFields(ReservationFields, v)
    PROVE  Wrote(ReservationFields, v, ReservationParts(v))
<1>1. /\ Len(ReservationFields) = 20 /\ Len(ReservationParts(v)) = 20
      /\ ReservationParts(v) = [i \in 1 .. 20 |-> ReservationParts(v)[i]]
  BY DEF ReservationFields, ReservationParts
<1>2. \A i \in 1 .. 20 :
         i \in {1, 2, 3, 4, 5, 6, 7, 8, 9, 10, 11, 12, 13, 14, 15, 16, 17, 18, 19, 20}
  OBVIOUS
<1>3. \A i \in 1 .. 20 :
         ReservationParts(v)[i] = FieldUnits(ReservationFields[i], v[ReservationFields[i].name])
  BY <1>2, SMTT(30) DEF ReservationFields, Field, U, ReservationParts, FieldUnits
<1>4. PartsOf(ReservationFields, v, ReservationParts(v))
  BY <1>1, <1>3 DEF PartsOf
<1> QED
  BY <1>4, ReservationFieldList, PartsAreWritten

\* The names of a reservation's fields on the wire.
LEMMA ReservationNames ==
    Names(ReservationFields) =
      {"id", "generation", "path", "path_generation", "worker", "boot",
       "attempt", "epoch", "policy", "policy_generation", "bytes", "bandwidth",
       "duration", "priority", "source", "destination", "workload", "created",
       "active", "released"}
<1> DEFINE s ==
      {"id", "generation", "path", "path_generation", "worker", "boot",
       "attempt", "epoch", "policy", "policy_generation", "bytes", "bandwidth",
       "duration", "priority", "source", "destination", "workload", "created",
       "active", "released"}
<1>1. DOMAIN ReservationFields = 1 .. 20
  BY DEF ReservationFields
<1>2. \A i \in 1 .. 20 :
         i \in {1, 2, 3, 4, 5, 6, 7, 8, 9, 10, 11, 12, 13, 14, 15, 16, 17, 18, 19, 20}
  OBVIOUS
<1>3. s \subseteq Names(ReservationFields)
  <2>1. \A x \in s : \E i \in 1 .. 20 : x = ReservationFields[i].name
    BY ReservationFieldNames, SMTT(30)
  <2> HIDE DEF s
  <2> QED
    BY <1>1, <2>1 DEF Names
<1>4. Names(ReservationFields) \subseteq s
  <2>1. \A i \in 1 .. 20 : ReservationFields[i].name \in s
    BY <1>2, ReservationFieldNames, SMTT(30)
  <2> HIDE DEF s
  <2> QED
    BY <1>1, <2>1, Zenon DEF Names
<1> QED
  BY <1>3, <1>4

RegisterParts(m) ==
    <<Unit(m.worker), Unit(m.boot), Unit(m.host_gen)>>

\* The fields of read_register, in their order.
LEMMA RegisterFieldNames ==
      /\ RegisterFields[1].name = "worker" /\ RegisterFields[2].name = "boot"
      /\ RegisterFields[3].name = "host_gen"
  BY DEF RegisterFields, Field, U

\* The fields of read_register are fields, each with its own name.
LEMMA RegisterFieldList == IsFieldList(RegisterFields)
<1>1. Len(RegisterFields) = 3 /\ DOMAIN RegisterFields = 1 .. 3
  BY DEF RegisterFields
<1>2. \A i \in 1 .. 3 :
         i \in {1, 2, 3}
  OBVIOUS
<1>3. \A i, j \in 1 .. 3 : RegisterFields[i].name = RegisterFields[j].name => i = j
  BY <1>2, RegisterFieldNames, SMTT(30)
<1>4. \A i \in 1 .. 3 : RegisterFields[i].kind \in Kinds /\ RegisterFields[i].size \in Nat
  BY <1>2 DEF RegisterFields, Field, U, Kinds, Provenances, PathClasses, Localities, Freshnesses,
              Contentions, TransferClasses, Engines
<1> QED
  BY <1>1, <1>3, <1>4 DEF IsFieldList, IsField

\* write_register writes, in the same order, the fields that read_register reads.
LEMMA RegisterWrote ==
    ASSUME NEW v, HoldsFields(RegisterFields, v)
    PROVE  Wrote(RegisterFields, v, RegisterParts(v))
<1>1. /\ Len(RegisterFields) = 3 /\ Len(RegisterParts(v)) = 3
      /\ RegisterParts(v) = [i \in 1 .. 3 |-> RegisterParts(v)[i]]
  BY DEF RegisterFields, RegisterParts
<1>2. \A i \in 1 .. 3 :
         i \in {1, 2, 3}
  OBVIOUS
<1>3. \A i \in 1 .. 3 :
         RegisterParts(v)[i] = FieldUnits(RegisterFields[i], v[RegisterFields[i].name])
  BY <1>2, SMTT(30) DEF RegisterFields, Field, U, RegisterParts, FieldUnits
<1>4. PartsOf(RegisterFields, v, RegisterParts(v))
  BY <1>1, <1>3 DEF PartsOf
<1> QED
  BY <1>4, RegisterFieldList, PartsAreWritten

ReleaseParts(m) ==
    <<Unit(m.reservation), Unit(m.boot), Unit(m.gen), Unit(m.epoch)>>

\* The fields of read_release, in their order.
LEMMA ReleaseFieldNames ==
      /\ ReleaseFields[1].name = "reservation" /\ ReleaseFields[2].name = "boot"
      /\ ReleaseFields[3].name = "gen" /\ ReleaseFields[4].name = "epoch"
  BY DEF ReleaseFields, Field, U

\* The fields of read_release are fields, each with its own name.
LEMMA ReleaseFieldList == IsFieldList(ReleaseFields)
<1>1. Len(ReleaseFields) = 4 /\ DOMAIN ReleaseFields = 1 .. 4
  BY DEF ReleaseFields
<1>2. \A i \in 1 .. 4 :
         i \in {1, 2, 3, 4}
  OBVIOUS
<1>3. \A i, j \in 1 .. 4 : ReleaseFields[i].name = ReleaseFields[j].name => i = j
  BY <1>2, ReleaseFieldNames, SMTT(30)
<1>4. \A i \in 1 .. 4 : ReleaseFields[i].kind \in Kinds /\ ReleaseFields[i].size \in Nat
  BY <1>2 DEF ReleaseFields, Field, U, Kinds, Provenances, PathClasses, Localities, Freshnesses,
              Contentions, TransferClasses, Engines
<1> QED
  BY <1>1, <1>3, <1>4 DEF IsFieldList, IsField

\* write_release writes, in the same order, the fields that read_release reads.
LEMMA ReleaseWrote ==
    ASSUME NEW v, HoldsFields(ReleaseFields, v)
    PROVE  Wrote(ReleaseFields, v, ReleaseParts(v))
<1>1. /\ Len(ReleaseFields) = 4 /\ Len(ReleaseParts(v)) = 4
      /\ ReleaseParts(v) = [i \in 1 .. 4 |-> ReleaseParts(v)[i]]
  BY DEF ReleaseFields, ReleaseParts
<1>2. \A i \in 1 .. 4 :
         i \in {1, 2, 3, 4}
  OBVIOUS
<1>3. \A i \in 1 .. 4 :
         ReleaseParts(v)[i] = FieldUnits(ReleaseFields[i], v[ReleaseFields[i].name])
  BY <1>2, SMTT(30) DEF ReleaseFields, Field, U, ReleaseParts, FieldUnits
<1>4. PartsOf(ReleaseFields, v, ReleaseParts(v))
  BY <1>1, <1>3 DEF PartsOf
<1> QED
  BY <1>4, ReleaseFieldList, PartsAreWritten

AckParts(m) ==
    <<Unit(m.epoch), Unit(m.seq), Flag(m.ok), Text(m.message)>>

\* The fields of read_ack, in their order.
LEMMA AckFieldNames ==
      /\ AckFields[1].name = "epoch" /\ AckFields[2].name = "seq"
      /\ AckFields[3].name = "ok" /\ AckFields[4].name = "message"
  BY DEF AckFields, Field, U

\* The fields of read_ack are fields, each with its own name.
LEMMA AckFieldList == IsFieldList(AckFields)
<1>1. Len(AckFields) = 4 /\ DOMAIN AckFields = 1 .. 4
  BY DEF AckFields
<1>2. \A i \in 1 .. 4 :
         i \in {1, 2, 3, 4}
  OBVIOUS
<1>3. \A i, j \in 1 .. 4 : AckFields[i].name = AckFields[j].name => i = j
  BY <1>2, AckFieldNames, SMTT(30)
<1>4. \A i \in 1 .. 4 : AckFields[i].kind \in Kinds /\ AckFields[i].size \in Nat
  BY <1>2 DEF AckFields, Field, U, Kinds, Provenances, PathClasses, Localities, Freshnesses,
              Contentions, TransferClasses, Engines
<1> QED
  BY <1>1, <1>3, <1>4 DEF IsFieldList, IsField

\* write_ack writes, in the same order, the fields that read_ack reads.
LEMMA AckWrote ==
    ASSUME NEW v, HoldsFields(AckFields, v)
    PROVE  Wrote(AckFields, v, AckParts(v))
<1>1. /\ Len(AckFields) = 4 /\ Len(AckParts(v)) = 4
      /\ AckParts(v) = [i \in 1 .. 4 |-> AckParts(v)[i]]
  BY DEF AckFields, AckParts
<1>2. \A i \in 1 .. 4 :
         i \in {1, 2, 3, 4}
  OBVIOUS
<1>3. \A i \in 1 .. 4 :
         AckParts(v)[i] = FieldUnits(AckFields[i], v[AckFields[i].name])
  BY <1>2, SMTT(30) DEF AckFields, Field, U, AckParts, FieldUnits
<1>4. PartsOf(AckFields, v, AckParts(v))
  BY <1>1, <1>3 DEF PartsOf
<1> QED
  BY <1>4, AckFieldList, PartsAreWritten

-----------------------------------------------------------------------------
(* What decoding keeps of a record *)

\* v has the fields of s and more.
On(s, v) == v = [x \in s |-> v[x]]

\* The fields encode_node wrote make, in decode_node, what the format keeps of the node.
LEMMA NodeBack ==
    ASSUME NEW n, IsNode(n), NEW got, got = [x \in Names(NodeFields) |-> n[x]]
    PROVE  decode_node(got) = KeptNode(n)
<1> DEFINE s == Names(NodeFields)
           g == [got EXCEPT !.kind = @ % 256]
<1>1. "kind" \in s /\ "id" \notin s
  BY NodeNames
<1>2. n.kind \in Nat /\ n.kind < 256
  <2>1. FieldHolds(NodeFields[2], n[NodeFields[2].name]) /\ NodeFields[2].name = "kind"
    <3>1. 2 \in DOMAIN NodeFields
      BY DEF NodeFields
    <3> QED
      BY <3>1, NodeFieldNames DEF IsNode, Fits
  <2>2. NodeFields[2].kind = "unit"
    BY DEF NodeFields, U, Field
  <2> QED
    BY <2>1, <2>2 DEF IsNode, FieldHolds
<1>3. n = [x \in s \cup {"id"} |-> n[x]]
  BY DEF IsNode, Fits
<1>4. got = [x \in s |-> n[x]]
  OBVIOUS
<1> HIDE DEF s
<1>5. DOMAIN g = s /\ \A x \in s : g[x] = n[x]
  <2>1. n.kind % 256 = n.kind
    BY <1>2
  <2> QED
    BY <1>1, <1>4, <2>1
<1> HIDE DEF g
<1>6. decode_node(got) = [x \in s \cup {"id"} |-> IF x \in s THEN n[x] ELSE 0]
  <2> DEFINE z == [id |-> 0]
  <2>1. DOMAIN z = {"id"} /\ z["id"] = 0
    OBVIOUS
  <2>2. decode_node(got) = And(g, z)
    BY DEF decode_node, g
  <2> HIDE DEF z
  <2> QED
    BY <1>5, <2>1, <2>2 DEF And
<1>7. KeptNode(n) = [x \in s \cup {"id"} |-> IF x \in s THEN n[x] ELSE 0]
  BY <1>1, <1>3 DEF KeptNode
<1> QED
  BY <1>6, <1>7

\* Whatever decode_node returns is a node that the format keeps as it is.
LEMMA NodeTyped ==
    ASSUME NEW got, On(Names(NodeFields), got), HoldsFields(NodeFields, got)
    PROVE  IsNode(decode_node(got)) /\ KeptNode(decode_node(got)) = decode_node(got)
<1> DEFINE s == Names(NodeFields)
           g == [got EXCEPT !.kind = @ % 256]
           n == decode_node(got)
<1>1. "kind" \in s /\ "id" \notin s
  BY NodeNames
<1>2. got.kind \in Nat
  <2>1. FieldHolds(NodeFields[2], got[NodeFields[2].name]) /\ NodeFields[2].name = "kind"
    <3>1. 2 \in DOMAIN NodeFields
      BY DEF NodeFields
    <3> QED
      BY <3>1, NodeFieldNames DEF HoldsFields
  <2>2. NodeFields[2].kind = "unit"
    BY DEF NodeFields, U, Field
  <2> QED
    BY <2>1, <2>2 DEF FieldHolds
<1>3. \A i \in DOMAIN NodeFields : NodeFields[i].name \in s
  BY DEF Names
<1>4. got = [x \in s |-> got[x]]
  BY DEF On
<1> HIDE DEF s
<1>5. DOMAIN g = s /\ g["kind"] = got.kind % 256 /\ \A x \in s : x # "kind" => g[x] = got[x]
  BY <1>1, <1>4
<1> HIDE DEF g
<1>6. n = [x \in s \cup {"id"} |-> IF x \in s THEN g[x] ELSE 0]
  <2> DEFINE z == [id |-> 0]
  <2>1. DOMAIN z = {"id"} /\ z["id"] = 0
    OBVIOUS
  <2>2. n = And(g, z)
    BY DEF decode_node, g
  <2> HIDE DEF z, n
  <2> QED
    BY <1>5, <2>1, <2>2 DEF And
<1> HIDE DEF n
<1>7. n = [x \in s \cup {"id"} |-> n[x]] /\ n.id = 0 /\ \A x \in s : n[x] = g[x]
  BY <1>1, <1>6
<1>8. \A i \in DOMAIN NodeFields : FieldHolds(NodeFields[i], n[NodeFields[i].name])
  <2> SUFFICES ASSUME NEW i \in DOMAIN NodeFields
               PROVE  FieldHolds(NodeFields[i], n[NodeFields[i].name])
    OBVIOUS
  <2>1. CASE NodeFields[i].name # "kind"
    BY <1>3, <1>5, <1>7, <2>1 DEF HoldsFields
  <2>2. CASE NodeFields[i].name = "kind"
    <3>1. NodeFields[i].kind = "unit"
      <4>1. NodeFields[2].name = "kind" /\ NodeFields[2].kind = "unit" /\ 2 \in DOMAIN NodeFields
        BY DEF NodeFields, U, Field
      <4>2. i = 2
        BY <2>2, <4>1, NodeFieldList DEF IsFieldList
      <4> QED
        BY <4>1, <4>2
    <3>2. n["kind"] \in Nat
      BY <1>1, <1>2, <1>5, <1>7
    <3> QED
      BY <2>2, <3>1, <3>2 DEF FieldHolds
  <2> QED
    BY <2>1, <2>2
<1>9. n.kind < 256
  BY <1>1, <1>2, <1>5, <1>7
<1>10. IsNode(n)
  BY <1>7, <1>8, <1>9 DEF IsNode, Fits, s
<1>11. KeptNode(n) = n
  BY <1>7 DEF KeptNode
<1> QED
  BY <1>10, <1>11 DEF n

Made3 == {"capabilities", "host_generation", "device_generation"}

\* The record that is written for a path.
RawPath(p) == [p EXCEPT !.confidence = @ \div 2]

\* What encode_path writes: the path's fields, the confidence divided by two.
LEMMA PathWritten ==
    ASSUME NEW p, IsPath(p)
    PROVE  /\ HoldsFields(PathFields, RawPath(p))
           /\ encode_path(p) = FlattenSeq(PathParts(RawPath(p)))
           /\ p.confidence \in Nat
           /\ On(Names(PathFields) \cup Made3, p)
           /\ \A x \in Names(PathFields) :
                 RawPath(p)[x] = IF x = "confidence" THEN p.confidence \div 2 ELSE p[x]
<1> DEFINE s == Names(PathFields)
           r == RawPath(p)
<1>1. s = {"id", "generation", "source", "destination", "class", "chain",
           "links", "locality", "theoretical", "measured", "freshness", "age",
           "contention", "score", "confidence", "provenance", "epoch", "boot"}
  BY PathNames
<1>2. p = [x \in s \cup Made3 |-> p[x]]
  BY DEF IsPath, Fits, Made3
<1>3. p.confidence \in Nat
  <2>1. FieldHolds(PathFields[15], p[PathFields[15].name]) /\ PathFields[15].name = "confidence"
    <3>1. 15 \in DOMAIN PathFields
      BY DEF PathFields
    <3> QED
      BY <3>1, PathFieldNames DEF IsPath, Fits
  <2>2. PathFields[15].kind = "unit"
    BY DEF PathFields, U, Field
  <2> QED
    BY <2>1, <2>2 DEF FieldHolds
<1>4. \A i \in DOMAIN PathFields : PathFields[i].name \in s
  BY DEF Names
<1> HIDE DEF s
<1>5. "confidence" \in s
  BY <1>1
<1>6. \A x \in s : r[x] = IF x = "confidence" THEN p.confidence \div 2 ELSE p[x]
  BY <1>2, <1>5 DEF RawPath
<1> HIDE DEF r
<1>7. HoldsFields(PathFields, r)
  <2> SUFFICES ASSUME NEW i \in DOMAIN PathFields
               PROVE  FieldHolds(PathFields[i], r[PathFields[i].name])
    BY DEF HoldsFields
  <2>1. CASE PathFields[i].name # "confidence"
    BY <1>4, <1>6, <2>1 DEF IsPath, Fits
  <2>2. CASE PathFields[i].name = "confidence"
    <3>1. PathFields[i].kind = "unit"
      <4>1. /\ PathFields[15].name = "confidence" /\ PathFields[15].kind = "unit"
            /\ 15 \in DOMAIN PathFields
        BY DEF PathFields, U, Field
      <4>2. i = 15
        BY <2>2, <4>1, PathFieldList DEF IsFieldList
      <4> QED
        BY <4>1, <4>2
    <3>2. r["confidence"] \in Nat
      BY <1>3, <1>5, <1>6
    <3> QED
      BY <2>2, <3>1, <3>2 DEF FieldHolds
  <2> QED
    BY <2>1, <2>2
<1>8. encode_path(p) = FlattenSeq(PathParts(r))
  <2>1. /\ r.id = p.id /\ r.generation = p.generation /\ r.source = p.source
        /\ r.destination = p.destination /\ r.class = p.class /\ r.chain = p.chain
        /\ r.links = p.links /\ r.locality = p.locality /\ r.theoretical = p.theoretical
        /\ r.measured = p.measured /\ r.freshness = p.freshness /\ r.age = p.age
        /\ r.contention = p.contention /\ r.score = p.score
        /\ r.confidence = p.confidence \div 2
        /\ r.provenance = p.provenance /\ r.epoch = p.epoch /\ r.boot = p.boot
    BY <1>1, <1>6
  <2> QED
    BY <2>1 DEF encode_path, PathParts
<1> QED
  BY <1>2, <1>3, <1>6, <1>7, <1>8 DEF r, s, On

\* The decoded path, given what became of its confidence.
PathOf(s, v, c) ==
    [x \in s \cup Made3 |->
        IF x = "confidence" THEN c ELSE IF x = "capabilities" THEN {}
        ELSE IF x \in {"host_generation", "device_generation"} THEN 1 ELSE v[x]]

\* What decode_path makes of the fields it has read.
LEMMA PathDecoded ==
    ASSUME NEW got, On(Names(PathFields), got)
    PROVE  decode_path(got) = PathOf(Names(PathFields), got, 2 * got.confidence)
<1> DEFINE s == Names(PathFields)
           g == [got EXCEPT !.confidence = 2 * @]
           z == [capabilities |-> {}, host_generation |-> 1, device_generation |-> 1]
<1>1. "confidence" \in s /\ s \cap Made3 = {} /\ "confidence" \notin Made3
  BY PathNames DEF Made3
<1>2. got = [x \in s |-> got[x]]
  BY DEF On
<1>3. DOMAIN z = Made3 /\ z["capabilities"] = {} /\ z["host_generation"] = 1
      /\ z["device_generation"] = 1
  BY DEF Made3
<1> HIDE DEF s
<1>4. DOMAIN g = s /\ \A x \in s : g[x] = IF x = "confidence" THEN 2 * got.confidence ELSE got[x]
  BY <1>1, <1>2
<1>5. decode_path(got) = And(g, z)
  BY DEF decode_path
<1> HIDE DEF g, z
<1>6. And(g, z) = [x \in s \cup Made3 |-> IF x \in s THEN g[x] ELSE z[x]]
  BY <1>3, <1>4 DEF And
<1>7. \A x \in Made3 : x \notin s /\ z[x] = IF x = "capabilities" THEN {} ELSE 1
  BY <1>1, <1>3 DEF Made3
<1>8. \A x \in s \cup Made3 :
        (IF x \in s THEN g[x] ELSE z[x])
          = (IF x = "confidence" THEN 2 * got.confidence ELSE IF x = "capabilities" THEN {}
             ELSE IF x \in {"host_generation", "device_generation"} THEN 1 ELSE got[x])
  BY <1>1, <1>4, <1>7 DEF Made3
<1> QED
  BY <1>5, <1>6, <1>8 DEF s, PathOf

\* What the format keeps of a path: its fields, an even confidence, the defaults.
LEMMA PathKept ==
    ASSUME NEW p, On(Names(PathFields) \cup Made3, p)
    PROVE  KeptPath(p) = PathOf(Names(PathFields), p, p.confidence - (p.confidence % 2))
<1> DEFINE s == Names(PathFields)
<1>1. "confidence" \in s /\ s \cap Made3 = {}
  BY PathNames DEF Made3
<1>2. p = [x \in s \cup Made3 |-> p[x]]
  BY DEF On
<1> HIDE DEF s
<1> DEFINE c == p.confidence - (p.confidence % 2)
<1>3. KeptPath(p) = [p EXCEPT !.confidence = c, !.capabilities = {},
                              !.host_generation = 1, !.device_generation = 1]
  BY <1>1, <1>2 DEF KeptPath
<1> HIDE DEF c
<1> QED
  BY <1>1, <1>2, <1>3 DEF PathOf, Made3, s, c

\* The fields encode_path wrote make, in decode_path, what the format keeps of the path.
LEMMA PathBack ==
    ASSUME NEW p, IsPath(p), NEW got, got = [x \in Names(PathFields) |-> RawPath(p)[x]]
    PROVE  decode_path(got) = KeptPath(p)
<1> DEFINE s == Names(PathFields)
           c == p.confidence
<1>1. "confidence" \in s
  BY PathNames
<1>2. /\ c \in Nat /\ On(s \cup Made3, p)
      /\ \A x \in s : RawPath(p)[x] = IF x = "confidence" THEN c \div 2 ELSE p[x]
  BY PathWritten
<1>3. got = [x \in s |-> RawPath(p)[x]]
  OBVIOUS
<1> HIDE DEF s
<1>4. On(s, got) /\ got.confidence = c \div 2 /\ \A x \in s : x # "confidence" => got[x] = p[x]
  BY <1>1, <1>2, <1>3 DEF On
<1>5. 2 * (c \div 2) = c - (c % 2)
  <2> HIDE DEF c
  <2> QED
    BY <1>2
<1>6. decode_path(got) = PathOf(s, got, 2 * got.confidence)
  BY <1>4, PathDecoded DEF s
<1>7. KeptPath(p) = PathOf(s, p, c - (c % 2))
  BY <1>2, PathKept DEF s
<1> DEFINE d == c - (c % 2)
<1>8. 2 * got.confidence = d
  BY <1>4, <1>5
<1> HIDE DEF c, d
<1>9. PathOf(s, got, d) = PathOf(s, p, d)
  BY <1>4 DEF PathOf, Made3
<1> QED
  BY <1>6, <1>7, <1>8, <1>9 DEF d

\* Whatever decode_path returns is a path that the format keeps as it is.
LEMMA PathTyped ==
    ASSUME NEW got, On(Names(PathFields), got), HoldsFields(PathFields, got)
    PROVE  IsPath(decode_path(got)) /\ KeptPath(decode_path(got)) = decode_path(got)
<1> DEFINE s == Names(PathFields)
           c == 2 * got.confidence
           p == decode_path(got)
<1>1. "confidence" \in s /\ s \cap Made3 = {}
  BY PathNames DEF Made3
<1>2. got.confidence \in Nat
  <2>1. FieldHolds(PathFields[15], got[PathFields[15].name]) /\ PathFields[15].name = "confidence"
    <3>1. 15 \in DOMAIN PathFields
      BY DEF PathFields
    <3> QED
      BY <3>1, PathFieldNames DEF HoldsFields
  <2>2. PathFields[15].kind = "unit"
    BY DEF PathFields, U, Field
  <2> QED
    BY <2>1, <2>2 DEF FieldHolds
<1>3. \A i \in DOMAIN PathFields : PathFields[i].name \in s
  BY DEF Names
<1>4. p = PathOf(s, got, c)
  BY PathDecoded
<1> HIDE DEF s, p
<1>5. c \in Nat /\ c % 2 = 0 /\ c - (c % 2) = c
  BY <1>2
<1> HIDE DEF c
<1>6. On(s \cup Made3, p) /\ p.confidence = c
      /\ \A x \in s : x # "confidence" => p[x] = got[x]
  BY <1>1, <1>4 DEF On, PathOf, Made3
<1>7. \A i \in DOMAIN PathFields : FieldHolds(PathFields[i], p[PathFields[i].name])
  <2> SUFFICES ASSUME NEW i \in DOMAIN PathFields
               PROVE  FieldHolds(PathFields[i], p[PathFields[i].name])
    OBVIOUS
  <2>1. CASE PathFields[i].name # "confidence"
    BY <1>3, <1>6, <2>1 DEF HoldsFields
  <2>2. CASE PathFields[i].name = "confidence"
    <3>1. PathFields[i].kind = "unit"
      <4>1. /\ PathFields[15].name = "confidence" /\ PathFields[15].kind = "unit"
            /\ 15 \in DOMAIN PathFields
        BY DEF PathFields, U, Field
      <4>2. i = 15
        BY <2>2, <4>1, PathFieldList DEF IsFieldList
      <4> QED
        BY <4>1, <4>2
    <3> QED
      BY <1>5, <1>6, <2>2, <3>1 DEF FieldHolds
  <2> QED
    BY <2>1, <2>2
<1>8. IsPath(p)
  BY <1>6, <1>7 DEF IsPath, Fits, On, Made3, s
<1>9. KeptPath(p) = p
  <2>1. KeptPath(p) = PathOf(s, p, c)
    BY <1>5, <1>6, PathKept DEF s
  <2>2. PathOf(s, p, c) = PathOf(s, got, c)
    BY <1>1, <1>6 DEF PathOf, Made3
  <2> QED
    BY <1>4, <2>1, <2>2
<1> QED
  BY <1>8, <1>9 DEF p

\* A measurement with the generation g of its path.
MeasurementOf(s, v, g) ==
    [x \in s \cup {"path_generation"} |-> IF x = "path_generation" THEN g ELSE v[x]]

\* A measurement's path is there or not: the generation decode_measurement sets goes
\* with it.
LEMMA PathIsOptional ==
    ASSUME NEW v, HoldsFields(MeasurementFields, v)
    PROVE  /\ v.path \in Seq(Nat) /\ Len(v.path) \in {0, 1}
           /\ (IF v.path = <<>> THEN <<>> ELSE <<1>>) = [i \in DOMAIN v.path |-> 1]
<1>1. FieldHolds(MeasurementFields[12], v[MeasurementFields[12].name])
  <2>1. 12 \in DOMAIN MeasurementFields
    BY DEF MeasurementFields
  <2> QED
    BY <2>1 DEF HoldsFields
<1>2. /\ MeasurementFields[12].name = "path" /\ MeasurementFields[12].kind = "optional"
      /\ MeasurementFields[12].size = 1
  BY DEF MeasurementFields, Field
<1> DEFINE w == v.path
<1>3. w \in Seq(Nat) /\ Len(w) \in {0, 1}
  BY <1>1, <1>2 DEF FieldHolds
<1> HIDE DEF w
<1>4. CASE Len(w) = 0
  <2>1. w = <<>> /\ DOMAIN w = {}
    BY <1>3, <1>4
  <2>2. <<>> = [i \in {} |-> 1]
    OBVIOUS
  <2> QED
    BY <1>3, <2>1, <2>2 DEF w
<1>5. CASE Len(w) = 1
  <2>1. w # <<>> /\ DOMAIN w = 1 .. 1
    <3>1. w # <<>>
      BY <1>5
    <3>2. DOMAIN w = 1 .. Len(w)
      BY <1>3
    <3> QED
      BY <1>5, <3>1, <3>2
  <2>2. <<1>> = [i \in 1 .. 1 |-> 1]
    OBVIOUS
  <2> QED
    BY <1>3, <2>1, <2>2 DEF w
<1> QED
  BY <1>3, <1>4, <1>5

\* What decode_measurement makes of the fields it has read.
LEMMA MeasurementDecoded ==
    ASSUME NEW got, On(Names(MeasurementFields), got), HoldsFields(MeasurementFields, got)
    PROVE  decode_measurement(got)
             = MeasurementOf(Names(MeasurementFields), got, [i \in DOMAIN got.path |-> 1])
<1> DEFINE s == Names(MeasurementFields)
           g == [i \in DOMAIN got.path |-> 1]
           z == [path_generation |-> g]
<1>1. "path_generation" \notin s
  BY MeasurementNames
<1>2. got = [x \in s |-> got[x]]
  BY DEF On
<1>3. decode_measurement(got) = And(got, z)
  <2>1. (IF got.path = <<>> THEN <<>> ELSE <<1>>) = g
    BY PathIsOptional
  <2> HIDE DEF g
  <2> QED
    BY <2>1 DEF decode_measurement
<1> HIDE DEF g, s
<1>4. DOMAIN z = {"path_generation"} /\ z["path_generation"] = g
  OBVIOUS
<1>5. DOMAIN got = s
  BY <1>2
<1> HIDE DEF z
<1>6. And(got, z) = MeasurementOf(s, got, g)
  BY <1>1, <1>4, <1>5 DEF And, MeasurementOf
<1> QED
  BY <1>3, <1>6 DEF s, g

\* What the format keeps of a measurement: its fields, and generation 1 for its path.
LEMMA MeasurementKept ==
    ASSUME NEW m, On(Names(MeasurementFields) \cup {"path_generation"}, m)
    PROVE  KeptMeasurement(m)
             = MeasurementOf(Names(MeasurementFields), m, [i \in DOMAIN m.path_generation |-> 1])
<1> DEFINE s == Names(MeasurementFields)
           g == [i \in DOMAIN m.path_generation |-> 1]
<1>1. "path_generation" \notin s
  BY MeasurementNames
<1>2. m = [x \in s \cup {"path_generation"} |-> m[x]]
  BY DEF On
<1>3. KeptMeasurement(m) = [m EXCEPT !.path_generation = g]
  BY DEF KeptMeasurement
<1> HIDE DEF g, s
<1>4. [m EXCEPT !.path_generation = g] = MeasurementOf(s, m, g)
  BY <1>2 DEF MeasurementOf
<1> QED
  BY <1>3, <1>4 DEF s, g

\* What encode_measurement writes: the measurement's fields.
LEMMA MeasurementParted ==
    ASSUME NEW m, IsMeasurement(m)
    PROVE  /\ HoldsFields(MeasurementFields, m)
           /\ encode_measurement(m) = FlattenSeq(MeasurementParts(m))
           /\ On(Names(MeasurementFields) \cup {"path_generation"}, m)
           /\ DOMAIN m.path_generation = DOMAIN m.path
<1>1. DOMAIN m.path_generation = DOMAIN m.path
  BY DEF IsMeasurement
<1> QED
  BY <1>1 DEF IsMeasurement, Fits, On, HoldsFields, encode_measurement, MeasurementParts

\* The fields encode_measurement wrote make, in decode_measurement, what the format
\* keeps.
LEMMA MeasurementBack ==
    ASSUME NEW m, IsMeasurement(m), NEW got, got = [x \in Names(MeasurementFields) |-> m[x]]
    PROVE  decode_measurement(got) = KeptMeasurement(m)
<1> DEFINE s == Names(MeasurementFields)
           g == [i \in DOMAIN m.path |-> 1]
<1>1. "path" \in s /\ "path_generation" \notin s
  BY MeasurementNames
<1>2. /\ HoldsFields(MeasurementFields, m) /\ On(s \cup {"path_generation"}, m)
      /\ DOMAIN m.path_generation = DOMAIN m.path
  BY MeasurementParted
<1>3. got = [x \in s |-> m[x]] /\ \A i \in DOMAIN MeasurementFields : MeasurementFields[i].name \in s
  BY DEF Names
<1> HIDE DEF s
<1>4. On(s, got) /\ \A x \in s : got[x] = m[x]
  BY <1>3 DEF On
<1>5. HoldsFields(MeasurementFields, got)
  BY <1>2, <1>3, <1>4 DEF HoldsFields
<1>6. got.path = m.path
  BY <1>1, <1>4
<1>7. decode_measurement(got) = MeasurementOf(s, got, g)
  BY <1>4, <1>5, <1>6, MeasurementDecoded DEF s
<1>8. KeptMeasurement(m) = MeasurementOf(s, m, g)
  BY <1>2, MeasurementKept DEF s
<1> HIDE DEF g
<1>9. MeasurementOf(s, got, g) = MeasurementOf(s, m, g)
  BY <1>4 DEF MeasurementOf
<1> QED
  BY <1>7, <1>8, <1>9

\* Whatever decode_measurement returns is a measurement that the format keeps as it is.
LEMMA MeasurementTyped ==
    ASSUME NEW got, On(Names(MeasurementFields), got), HoldsFields(MeasurementFields, got)
    PROVE  /\ IsMeasurement(decode_measurement(got))
           /\ KeptMeasurement(decode_measurement(got)) = decode_measurement(got)
<1> DEFINE s == Names(MeasurementFields)
           g == [i \in DOMAIN got.path |-> 1]
           m == decode_measurement(got)
<1>1. "path" \in s /\ "path_generation" \notin s
  BY MeasurementNames
<1>2. m = MeasurementOf(s, got, g)
  BY MeasurementDecoded
<1>3. \A i \in DOMAIN MeasurementFields : MeasurementFields[i].name \in s
  BY DEF Names
<1>4. DOMAIN g = DOMAIN got.path /\ g = [i \in DOMAIN got.path |-> g[i]]
      /\ [i \in DOMAIN g |-> 1] = g
  OBVIOUS
<1> HIDE DEF s, m, g
<1>5. /\ On(s \cup {"path_generation"}, m) /\ m.path_generation = g
      /\ \A x \in s : m[x] = got[x]
  BY <1>1, <1>2 DEF On, MeasurementOf
<1>6. m.path = got.path
  BY <1>1, <1>5
<1>7. \A i \in DOMAIN MeasurementFields : FieldHolds(MeasurementFields[i], m[MeasurementFields[i].name])
  BY <1>3, <1>5 DEF HoldsFields
<1>8. m.path_generation = [i \in DOMAIN m.path |-> m.path_generation[i]]
  BY <1>4, <1>5, <1>6
<1>9. IsMeasurement(m)
  BY <1>5, <1>7, <1>8 DEF IsMeasurement, Fits, On, s
<1>10. KeptMeasurement(m) = m
  <2>1. KeptMeasurement(m) = MeasurementOf(s, m, g)
    BY <1>4, <1>5, MeasurementKept DEF s
  <2>2. MeasurementOf(s, m, g) = MeasurementOf(s, got, g)
    BY <1>5 DEF MeasurementOf
  <2> QED
    BY <1>2, <2>1, <2>2
<1> QED
  BY <1>9, <1>10 DEF m

\* What encode_reservation writes: all the fields of the reservation.
LEMMA ReservationParted ==
    ASSUME NEW r, IsReservation(r)
    PROVE  /\ HoldsFields(ReservationFields, r)
           /\ encode_reservation(r) = FlattenSeq(ReservationParts(r))
           /\ r = [x \in Names(ReservationFields) |-> r[x]]
<1>1. Names(ReservationFields) \cup {} = Names(ReservationFields)
  OBVIOUS
<1> QED
  BY <1>1 DEF IsReservation, Fits, HoldsFields, encode_reservation, ReservationParts

\* The fields encode_reservation wrote make, in decode_reservation, the same
\* reservation.
LEMMA ReservationBack ==
    ASSUME NEW r, IsReservation(r), NEW got, got = [x \in Names(ReservationFields) |-> r[x]]
    PROVE  decode_reservation(got) = KeptReservation(r)
<1>1. got = r
  BY ReservationParted
<1> QED
  BY <1>1 DEF decode_reservation, KeptReservation

\* Whatever decode_reservation returns is a reservation that the format keeps as it is.
LEMMA ReservationTyped ==
    ASSUME NEW got, On(Names(ReservationFields), got), HoldsFields(ReservationFields, got)
    PROVE  /\ IsReservation(decode_reservation(got))
           /\ KeptReservation(decode_reservation(got)) = decode_reservation(got)
<1> DEFINE s == Names(ReservationFields)
           r == decode_reservation(got)
<1>1. "created" \in s /\ "released" \in s /\ "active" \in s
  BY ReservationNames
<1>2. \A i \in DOMAIN ReservationFields : ReservationFields[i].name \in s
  BY DEF Names
<1>3. got = [x \in s |-> got[x]]
  BY DEF On
<1>4. /\ ReservationFields[18].name = "created" /\ ReservationFields[18].kind = "unit"
      /\ ReservationFields[20].name = "released" /\ ReservationFields[20].kind = "flag"
      /\ 18 \in DOMAIN ReservationFields /\ 20 \in DOMAIN ReservationFields
  BY DEF ReservationFields, U, Field
<1> HIDE DEF s
<1>5. r = [got EXCEPT !.created = 0, !.released = ~got.active]
  BY DEF decode_reservation
<1> HIDE DEF r
<1>6. /\ On(s, r) /\ r.created = 0 /\ r.released = ~got.active /\ r.active = got.active
      /\ \A x \in s : x \notin {"created", "released"} => r[x] = got[x]
  BY <1>1, <1>3, <1>5 DEF On
<1>7. \A i \in DOMAIN ReservationFields : FieldHolds(ReservationFields[i], r[ReservationFields[i].name])
  <2> SUFFICES ASSUME NEW i \in DOMAIN ReservationFields
               PROVE  FieldHolds(ReservationFields[i], r[ReservationFields[i].name])
    OBVIOUS
  <2>1. CASE ReservationFields[i].name \notin {"created", "released"}
    BY <1>2, <1>6, <2>1 DEF HoldsFields
  <2>2. CASE ReservationFields[i].name = "created"
    <3>1. i = 18
      BY <1>4, <2>2, ReservationFieldList DEF IsFieldList
    <3>2. ReservationFields[i].kind = "unit" /\ r[ReservationFields[i].name] \in Nat
      BY <1>4, <1>6, <3>1
    <3> QED
      BY <3>2 DEF FieldHolds
  <2>3. CASE ReservationFields[i].name = "released"
    <3>1. i = 20
      BY <1>4, <2>3, ReservationFieldList DEF IsFieldList
    <3>2. ReservationFields[i].kind = "flag" /\ r[ReservationFields[i].name] \in BOOLEAN
      BY <1>4, <1>6, <3>1
    <3> QED
      BY <3>2 DEF FieldHolds
  <2> QED
    BY <2>1, <2>2, <2>3
<1>8. IsReservation(r)
  BY <1>6, <1>7 DEF IsReservation, Fits, On, s
<1>9. KeptReservation(r) = r
  <2>1. KeptReservation(r) = [r EXCEPT !.created = 0, !.released = ~r.active]
    BY DEF KeptReservation
  <2>2. r = [x \in s |-> r[x]]
    BY <1>6 DEF On
  <2>3. [r EXCEPT !.created = 0, !.released = ~r.active] = r
    BY <1>6, <2>2
  <2> QED
    BY <2>1, <2>3
<1> QED
  BY <1>8, <1>9 DEF r

-----------------------------------------------------------------------------
(* The five lists of a snapshot, by their numbers *)

PolicyFields == <<U("policy")>>

ListFields(k) ==
    CASE k = 1 -> NodeFields
      [] k = 2 -> PathFields
      [] k = 3 -> MeasurementFields
      [] k = 4 -> ReservationFields
      [] k = 5 -> PolicyFields

IsElement(k, x) ==
    CASE k = 1 -> IsNode(x)
      [] k = 2 -> IsPath(x)
      [] k = 3 -> IsMeasurement(x)
      [] k = 4 -> IsReservation(x)
      [] k = 5 -> x \in Nat

\* What is written for an element,
Coded(k, x) ==
    CASE k = 1 -> encode_node(x)
      [] k = 2 -> encode_path(x)
      [] k = 3 -> encode_measurement(x)
      [] k = 4 -> encode_reservation(x)
      [] k = 5 -> Unit(x)

\* the record whose fields that are,
Raw(k, x) ==
    CASE k = 2 -> RawPath(x)
      [] k = 5 -> [policy |-> x]
      [] OTHER -> x

PartsFor(k, x) ==
    CASE k = 1 -> NodeParts(x)
      [] k = 2 -> PathParts(RawPath(x))
      [] k = 3 -> MeasurementParts(x)
      [] k = 4 -> ReservationParts(x)
      [] k = 5 -> <<Unit(x)>>

\* what is made of the fields read,
Made(k, got) ==
    CASE k = 1 -> decode_node(got)
      [] k = 2 -> decode_path(got)
      [] k = 3 -> decode_measurement(got)
      [] k = 4 -> decode_reservation(got)
      [] k = 5 -> got.policy

\* and what is kept of the element.
KeptElement(k, x) ==
    CASE k = 1 -> KeptNode(x)
      [] k = 2 -> KeptPath(x)
      [] k = 3 -> KeptMeasurement(x)
      [] k = 4 -> KeptReservation(x)
      [] k = 5 -> x

\* Joining one piece is that piece.
LEMMA OneIsFlat ==
    ASSUME NEW u
    PROVE  FlattenSeq(<<u>>) = u
<1> DEFINE s == <<u>>
<1>1. Len(s) = 1 /\ s[1] = u
  OBVIOUS
<1> HIDE DEF s
<1>2. Len(s) \in Nat /\ Len(s) # 0
  BY <1>1
<1>3. \E g : Flats(s, g, Len(s)) /\ FlattenSeq(s) = g[Len(s)]
  BY <1>2, FlattenIsFlat, Zenon
<1> QED
  BY <1>1, <1>3 DEF Flats, s

\* A policy's id is read as one field.
LEMMA PolicyFieldList == IsFieldList(PolicyFields) /\ Names(PolicyFields) = {"policy"}
<1>1. /\ Len(PolicyFields) = 1 /\ DOMAIN PolicyFields = 1 .. 1
      /\ PolicyFields[1].name = "policy" /\ PolicyFields[1].kind = "unit" /\ PolicyFields[1].size = 1
  BY DEF PolicyFields, U, Field
<1>2. IsFieldList(PolicyFields)
  BY <1>1 DEF IsFieldList, IsField, Kinds
<1>3. Names(PolicyFields) = {"policy"}
  BY <1>1 DEF Names
<1> QED
  BY <1>2, <1>3

\* A policy's id is written as one unit.
LEMMA PolicyWritten ==
    ASSUME NEW x \in Nat
    PROVE  /\ Wrote(PolicyFields, [policy |-> x], <<Unit(x)>>)
           /\ Unit(x) = FlattenSeq(<<Unit(x)>>)
<1> DEFINE v == [policy |-> x]
           s == <<Unit(x)>>
<1>1. /\ Len(PolicyFields) = 1 /\ DOMAIN PolicyFields = 1 .. 1
      /\ PolicyFields[1].name = "policy" /\ PolicyFields[1].kind = "unit"
  BY DEF PolicyFields, U, Field
<1>2. v["policy"] = x
  OBVIOUS
<1>3. s[1] = Unit(x) /\ Len(s) = 1 /\ s \in Seq(Seq(Nat))
  BY DEF Unit
<1> HIDE DEF v, s
<1>4. FieldUnits(PolicyFields[1], x) = Unit(x) /\ FieldHolds(PolicyFields[1], x)
  BY <1>1 DEF FieldUnits, FieldHolds
<1>5. \A i \in 1 .. 1 : i = 1
  OBVIOUS
<1>6. Wrote(PolicyFields, v, s)
  BY <1>1, <1>2, <1>3, <1>4, <1>5 DEF Wrote
<1>7. Unit(x) = FlattenSeq(s)
  BY OneIsFlat DEF s
<1> QED
  BY <1>6, <1>7 DEF v, s

\* The id that was written is the id that is read.
LEMMA PolicyBack ==
    ASSUME NEW x, NEW got, got = [y \in Names(PolicyFields) |-> [policy |-> x][y]]
    PROVE  got.policy = x
  BY PolicyFieldList

\* Whatever is read for a policy's id is a number.
LEMMA PolicyTyped ==
    ASSUME NEW got, HoldsFields(PolicyFields, got)
    PROVE  got.policy \in Nat
<1>1. /\ DOMAIN PolicyFields = 1 .. 1
      /\ PolicyFields[1].name = "policy" /\ PolicyFields[1].kind = "unit"
  BY DEF PolicyFields, U, Field
<1>2. 1 \in DOMAIN PolicyFields
  BY <1>1
<1>3. FieldHolds(PolicyFields[1], got["policy"])
  BY <1>1, <1>2 DEF HoldsFields
<1> QED
  BY <1>1, <1>3 DEF FieldHolds

\* The fields of an element of any of the five lists are fields.
LEMMA ElementListed ==
    ASSUME NEW k \in 1 .. 5
    PROVE  IsFieldList(ListFields(k))
<1>1. k \in {1, 2, 3, 4, 5}
  OBVIOUS
<1> QED
  BY <1>1, NodeFieldList, PathFieldList, MeasurementFieldList, ReservationFieldList,
     PolicyFieldList DEF ListFields

\* serialize writes, for an element of any list, the fields that deserialize reads.
LEMMA ElementWritten ==
    ASSUME NEW k \in 1 .. 5, NEW x, IsElement(k, x)
    PROVE  /\ Wrote(ListFields(k), Raw(k, x), PartsFor(k, x))
           /\ Coded(k, x) = FlattenSeq(PartsFor(k, x))
<1>1. CASE k = 1
  <2>1. IsNode(x)
    BY <1>1 DEF IsElement
  <2>2. HoldsFields(NodeFields, x)
    BY <2>1 DEF IsNode, Fits, HoldsFields
  <2>3. encode_node(x) = FlattenSeq(NodeParts(x))
    BY DEF encode_node, NodeParts
  <2> QED
    BY <1>1, <2>2, <2>3, NodeWrote DEF ListFields, Raw, PartsFor, Coded
<1>2. CASE k = 2
  <2>1. IsPath(x)
    BY <1>2 DEF IsElement
  <2> QED
    BY <1>2, <2>1, PathWritten, PathWrote DEF ListFields, Raw, PartsFor, Coded
<1>3. CASE k = 3
  <2>1. IsMeasurement(x)
    BY <1>3 DEF IsElement
  <2> QED
    BY <1>3, <2>1, MeasurementParted, MeasurementWrote DEF ListFields, Raw, PartsFor, Coded
<1>4. CASE k = 4
  <2>1. IsReservation(x)
    BY <1>4 DEF IsElement
  <2> QED
    BY <1>4, <2>1, ReservationParted, ReservationWrote DEF ListFields, Raw, PartsFor, Coded
<1>5. CASE k = 5
  <2>1. x \in Nat
    BY <1>5 DEF IsElement
  <2> QED
    BY <1>5, <2>1, PolicyWritten DEF ListFields, Raw, PartsFor, Coded
<1> QED
  BY <1>1, <1>2, <1>3, <1>4, <1>5

\* The fields of an element make what the format keeps of the element.
LEMMA ElementBack ==
    ASSUME NEW k \in 1 .. 5, NEW x, IsElement(k, x),
           NEW got, got = [y \in Names(ListFields(k)) |-> Raw(k, x)[y]]
    PROVE  Made(k, got) = KeptElement(k, x)
<1>1. CASE k = 1
  BY <1>1, NodeBack DEF IsElement, Made, KeptElement, ListFields, Raw
<1>2. CASE k = 2
  BY <1>2, PathBack DEF IsElement, Made, KeptElement, ListFields, Raw
<1>3. CASE k = 3
  BY <1>3, MeasurementBack DEF IsElement, Made, KeptElement, ListFields, Raw
<1>4. CASE k = 4
  BY <1>4, ReservationBack DEF IsElement, Made, KeptElement, ListFields, Raw
<1>5. CASE k = 5
  BY <1>5, PolicyBack DEF IsElement, Made, KeptElement, ListFields, Raw
<1> QED
  BY <1>1, <1>2, <1>3, <1>4, <1>5

\* Whatever is decoded for a list is an element of it that the format keeps as it is.
LEMMA ElementTyped ==
    ASSUME NEW k \in 1 .. 5, NEW got, On(Names(ListFields(k)), got), HoldsFields(ListFields(k), got)
    PROVE  IsElement(k, Made(k, got)) /\ KeptElement(k, Made(k, got)) = Made(k, got)
<1>1. CASE k = 1
  BY <1>1, NodeTyped DEF IsElement, Made, KeptElement, ListFields
<1>2. CASE k = 2
  BY <1>2, PathTyped DEF IsElement, Made, KeptElement, ListFields
<1>3. CASE k = 3
  BY <1>3, MeasurementTyped DEF IsElement, Made, KeptElement, ListFields
<1>4. CASE k = 4
  BY <1>4, ReservationTyped DEF IsElement, Made, KeptElement, ListFields
<1>5. CASE k = 5
  BY <1>5, PolicyTyped DEF IsElement, Made, KeptElement, ListFields
<1> QED
  BY <1>1, <1>2, <1>3, <1>4, <1>5

\* Only nodes lose their ids.
LEMMA KeptId ==
    ASSUME NEW k \in 1 .. 4, NEW x, IsElement(k, x)
    PROVE  KeptElement(k, x).id = IF k = 1 THEN 0 ELSE x.id
<1>1. CASE k = 1
  <2>1. x = [y \in Names(NodeFields) \cup {"id"} |-> x[y]]
    BY <1>1 DEF IsElement, IsNode, Fits
  <2>2. KeptNode(x).id = 0
    BY <2>1 DEF KeptNode
  <2> QED
    BY <1>1, <2>2 DEF KeptElement
<1>2. CASE k = 2
  <2>1. On(Names(PathFields) \cup Made3, x)
    BY <1>2 DEF IsElement, IsPath, Fits, On, Made3
  <2>2. KeptPath(x) = PathOf(Names(PathFields), x, x.confidence - (x.confidence % 2))
    BY <2>1, PathKept
  <2>3. "id" \in Names(PathFields)
    BY PathNames
  <2>4. KeptPath(x).id = x.id
    BY <2>2, <2>3 DEF PathOf
  <2> QED
    BY <1>2, <2>4 DEF KeptElement
<1>3. CASE k = 3
  <2>1. KeptMeasurement(x).id = x.id
    BY DEF KeptMeasurement
  <2> QED
    BY <1>3, <2>1 DEF KeptElement
<1>4. CASE k = 4
  <2>1. KeptReservation(x).id = x.id
    BY DEF KeptReservation
  <2> QED
    BY <1>4, <2>1 DEF KeptElement
<1> QED
  BY <1>1, <1>2, <1>3, <1>4

-----------------------------------------------------------------------------
(* One element *)

\* Where an element is in a stream, its fields lie one behind the other.
LEMMA ElementIsCoded ==
    ASSUME NEW k \in 1 .. 5, NEW x, IsElement(k, x)
    PROVE  /\ Coded(k, x) \in Seq(Nat)
           /\ \A full \in Seq(Nat), p \in Nat :
                 HoldsAt(full, p, Coded(k, x)) =>
                    \E e : /\ e[0] = p /\ e[Len(ListFields(k))] = p + Len(Coded(k, x))
                           /\ Laid(full, PartsFor(k, x), e)
<1>1. /\ PartsFor(k, x) \in Seq(Seq(Nat)) /\ Len(PartsFor(k, x)) = Len(ListFields(k))
      /\ Coded(k, x) = FlattenSeq(PartsFor(k, x))
  BY ElementWritten DEF Wrote
<1> QED
  BY <1>1, FlatIsLaid

\* Decoding an element, whatever the stream, gives a code or an element further on.
LEMMA ElementIsRead ==
    ASSUME IsStream, NEW k \in 1 .. 5, NEW p \in Nat, NEW r, r = Decode(ListFields(k), p)
    PROVE  /\ r.error \in ReadCodes
           /\ r.error = "OK" =>
                 /\ r.pos \in Nat /\ p < r.pos
                 /\ IsElement(k, Made(k, r.got)) /\ KeptElement(k, Made(k, r.got)) = Made(k, r.got)
<1> DEFINE fields == ListFields(k)
           n == Len(fields)
<1>1. IsFieldList(fields) /\ n \in Nat /\ DOMAIN fields = 1 .. n
  BY ElementListed DEF IsFieldList
<1>2. n > 0
  BY DEF ListFields, NodeFields, PathFields, MeasurementFields, ReservationFields, PolicyFields
<1>3. HasRead(fields, p, n, r)
  BY <1>1, DecodeHasRead
<1>4. NamesTo(fields, n) = Names(fields)
  BY <1>1 DEF NamesTo, Names
<1>5. ASSUME r.error = "OK"
      PROVE  /\ r.pos \in Nat /\ p < r.pos
             /\ On(Names(fields), r.got) /\ HoldsFields(fields, r.got)
  <2> HIDE DEF fields, n
  <2> QED
    BY <1>1, <1>2, <1>3, <1>4, <1>5 DEF HasRead, On, HoldsFields
<1>6. r.error \in ReadCodes
  BY <1>3 DEF HasRead
<1> QED
  BY <1>5, <1>6, ElementTyped

\* An element that is in the stream as it was written comes back, unless the stream is
\* longer than max_string_.
LEMMA ElementComesBack ==
    ASSUME IsStream, NEW k \in 1 .. 5, NEW x, IsElement(k, x), NEW p \in Nat,
           HoldsAt(stream, p, Coded(k, x)), NEW r, r = Decode(ListFields(k), p)
    PROVE  \/ r.error = "OK" /\ r.pos = p + Len(Coded(k, x)) /\ Made(k, r.got) = KeptElement(k, x)
           \/ r.error = "PROTOCOL_OVERFLOW" /\ Len(stream) > StringWindow
<1>1. PICK e : /\ e[0] = p /\ e[Len(ListFields(k))] = p + Len(Coded(k, x))
               /\ Laid(stream, PartsFor(k, x), e)
  BY ElementIsCoded DEF IsStream
<1>2. IsFieldList(ListFields(k)) /\ Wrote(ListFields(k), Raw(k, x), PartsFor(k, x))
  BY ElementListed, ElementWritten
<1>3. DecodeBack(ListFields(k), Raw(k, x), e[Len(ListFields(k))], Decode(ListFields(k), p))
  BY <1>1, <1>2, DecodeComesBack
<1>4. DecodeBack(ListFields(k), Raw(k, x), p + Len(Coded(k, x)), r)
  BY <1>1, <1>3
<1> QED
  BY <1>4, ElementBack DEF DecodeBack

\* In a stream that agrees with what was written as far as both go, a decoder that
\* accepts an element is where the writer was.
LEMMA ElementIsPlaced ==
    ASSUME IsStream, NEW k \in 1 .. 5, NEW x, IsElement(k, x), NEW p \in Nat,
           NEW full, Agrees(full), HoldsAt(full, p, Coded(k, x)),
           Decode(ListFields(k), p).error = "OK"
    PROVE  Decode(ListFields(k), p).pos = p + Len(Coded(k, x))
<1>1. full \in Seq(Nat)
  BY DEF Agrees
<1>2. PICK e : /\ e[0] = p /\ e[Len(ListFields(k))] = p + Len(Coded(k, x))
               /\ Laid(full, PartsFor(k, x), e)
  BY <1>1, ElementIsCoded
<1>3. IsFieldList(ListFields(k)) /\ Wrote(ListFields(k), Raw(k, x), PartsFor(k, x))
  BY ElementListed, ElementWritten
<1>4. Decode(ListFields(k), p).pos = e[Len(ListFields(k))]
  BY <1>2, <1>3, DecodeIsPlaced
<1> QED
  BY <1>2, <1>4

-----------------------------------------------------------------------------
(* Where everything is in what serialize writes *)

CodedList(s, k) ==
    LET list == s[Lists[k]] IN [i \in DOMAIN list |-> Coded(k, list[i])]

HeaderParts(s) == <<Text(Magic), Unit(s.sequence), Unit(s.epoch)>>

Sections(s) ==
    <<Text(Magic), Unit(s.sequence), Unit(s.epoch), EncodeAll(CodedList(s, 1)),
      EncodeAll(CodedList(s, 2)), EncodeAll(CodedList(s, 3)), EncodeAll(CodedList(s, 4)),
      EncodeAll(CodedList(s, 5))>>

\* l is a list with elements of list k.
IsListOf(k, l) ==
    /\ l = [i \in 1 .. Len(l) |-> l[i]] /\ Len(l) \in 0 .. MaxCount
    /\ \A i \in 1 .. Len(l) : IsElement(k, l[i])

\* The five lists, in the order serialize writes them.
LEMMA ListNames ==
    /\ DOMAIN Lists = 1 .. 5 /\ Len(Lists) = 5
    /\ Lists[1] = "nodes" /\ Lists[2] = "paths" /\ Lists[3] = "measurements"
    /\ Lists[4] = "reservations" /\ Lists[5] = "policies"
  BY DEF Lists

\* What each list of a snapshot holds; the ids of three of the lists are all different.
LEMMA SnapshotLists ==
    ASSUME NEW s, IsSnapshot(s), NEW k \in 1 .. 5
    PROVE  IsListOf(k, s[Lists[k]]) /\ (k \in 2 .. 4 => Distinct(s[Lists[k]]))
<1> DEFINE l == s[Lists[k]]
<1>1. k \in {1, 2, 3, 4, 5}
  OBVIOUS
<1>2. l = [i \in 1 .. Len(l) |-> l[i]] /\ Len(l) \in 0 .. MaxCount
  <2>1. k \in DOMAIN Lists
    BY ListNames
  <2> QED
    BY <2>1 DEF IsSnapshot
<1>3. DOMAIN l = 1 .. Len(l)
  BY <1>2
<1>4. \A i \in DOMAIN l : IsElement(k, l[i])
  BY <1>1, ListNames DEF IsSnapshot, IsElement
<1>5. k \in 2 .. 4 => Distinct(l)
  BY <1>1, ListNames DEF IsSnapshot
<1> QED
  BY <1>2, <1>3, <1>4, <1>5 DEF IsListOf

\* The elements of a list, each as serialize writes it.
LEMMA CodedListIs ==
    ASSUME NEW s, NEW k \in 1 .. 5, IsListOf(k, s[Lists[k]])
    PROVE  /\ CodedList(s, k) \in Seq(Seq(Nat))
           /\ Len(CodedList(s, k)) = Len(s[Lists[k]])
           /\ \A i \in 1 .. Len(s[Lists[k]]) : CodedList(s, k)[i] = Coded(k, s[Lists[k]][i])
<1> DEFINE l == s[Lists[k]]
           c == CodedList(s, k)
<1>1. Len(l) \in Nat /\ DOMAIN l = 1 .. Len(l) /\ \A i \in 1 .. Len(l) : IsElement(k, l[i])
  BY CodecAssumption DEF IsListOf
<1>2. c = [i \in 1 .. Len(l) |-> Coded(k, l[i])]
  BY <1>1 DEF CodedList
<1> HIDE DEF l, c
<1>3. \A i \in 1 .. Len(l) : Coded(k, l[i]) \in Seq(Nat)
  BY <1>1, ElementIsCoded
<1>4. c \in Seq(Seq(Nat)) /\ Len(c) = Len(l)
  BY <1>1, <1>2, <1>3
<1> QED
  BY <1>2, <1>4 DEF l, c

\* Where a list is in a stream: its count, then its elements one behind the other.
LEMMA ListHeld ==
    ASSUME NEW parts \in Seq(Seq(Nat)), NEW x \in Seq(Nat), NEW p \in Nat
    PROVE  /\ EncodeAll(parts) \in Seq(Nat)
           /\ HoldsAt(x, p, EncodeAll(parts)) =>
                 /\ HoldsAt(x, p, <<Len(parts)>>)
                 /\ \E d : /\ d[0] = p + 1 /\ d[Len(parts)] = p + Len(EncodeAll(parts))
                           /\ Laid(x, parts, d)
<1> DEFINE n == Len(parts)
           u == FlattenSeq(parts)
<1>1. n \in Nat
  OBVIOUS
<1>2. /\ u \in Seq(Nat)
      /\ HoldsAt(x, p + 1, u) => \E d : d[0] = p + 1 /\ d[n] = p + 1 + Len(u) /\ Laid(x, parts, d)
  <2> HIDE DEF n, u
  <2>1. p + 1 \in Nat
    OBVIOUS
  <2> QED
    BY <2>1, FlatIsLaid, Zenon DEF n, u
<1>3. EncodeAll(parts) = <<n>> \o u
  BY DEF EncodeAll
<1> HIDE DEF n, u
<1>4. /\ <<n>> \o u \in Seq(Nat) /\ Len(<<n>> \o u) = 1 + Len(u)
      /\ HoldsAt(x, p, <<n>> \o u) => p + 1 <= Len(x) /\ x[p + 1] = n /\ HoldsAt(x, p + 1, u)
  BY <1>1, <1>2, HoldsPrefixed
<1>5. p + 1 <= Len(x) /\ x[p + 1] = n => HoldsAt(x, p, <<n>>)
  BY DEF HoldsAt
<1>6. p + 1 + Len(u) = p + (1 + Len(u))
  BY <1>2
<1> QED
  BY <1>2, <1>3, <1>4, <1>5, <1>6 DEF n

\* serialize writes the header's three fields and the five lists.
LEMMA SerializedBySections ==
    ASSUME NEW s
    PROVE  serialize(s) = FlattenSeq(Sections(s))
<1>1. /\ CodedList(s, 1) = Each(s.nodes, encode_node)
      /\ CodedList(s, 2) = Each(s.paths, encode_path)
      /\ CodedList(s, 3) = Each(s.measurements, encode_measurement)
      /\ CodedList(s, 4) = Each(s.reservations, encode_reservation)
      /\ CodedList(s, 5) = Each(s.policies, Unit)
  BY ListNames DEF CodedList, Coded, Each
<1> QED
  BY <1>1 DEF serialize, Sections

\* e is where the sections begin, and where the last ends.
IsLayout(s, e) ==
    e[0] = 0 /\ e[8] = Len(serialize(s)) /\ Laid(serialize(s), Sections(s), e)

Edge(s) == CHOOSE e : IsLayout(s, e)

\* The eight sections of a snapshot are streams of their own.
LEMMA SectionsAre ==
    ASSUME NEW s, IsSnapshot(s)
    PROVE  /\ Sections(s) \in Seq(Seq(Nat)) /\ Len(Sections(s)) = 8
           /\ Sections(s)[1] = Text(Magic) /\ Sections(s)[2] = Unit(s.sequence)
           /\ Sections(s)[3] = Unit(s.epoch)
           /\ \A k \in 1 .. 5 : Sections(s)[3 + k] = EncodeAll(CodedList(s, k))
<1> DEFINE c(k) == EncodeAll(CodedList(s, k))
           h == Text(Magic)
           q == Unit(s.sequence)
           x == Unit(s.epoch)
<1>1. \A k \in 1 .. 5 : c(k) \in Seq(Nat)
  <2> SUFFICES ASSUME NEW k \in 1 .. 5 PROVE c(k) \in Seq(Nat)
    OBVIOUS
  <2>1. CodedList(s, k) \in Seq(Seq(Nat))
    BY SnapshotLists, CodedListIs
  <2>2. <<>> \in Seq(Nat) /\ 0 \in Nat
    OBVIOUS
  <2> QED
    BY <2>1, <2>2, ListHeld
<1>2. h \in Seq(Nat) /\ q \in Seq(Nat) /\ x \in Seq(Nat)
  <2>1. Magic \in Seq(Nat)
    BY CodecAssumption
  <2>2. h \in Seq(Nat)
    BY <2>1 DEF Text
  <2>3. q \in Seq(Nat) /\ x \in Seq(Nat)
    BY DEF IsSnapshot, Unit
  <2> QED
    BY <2>2, <2>3
<1>3. Sections(s) = <<h, q, x, c(1), c(2), c(3), c(4), c(5)>>
  BY DEF Sections
<1>4. c(1) \in Seq(Nat) /\ c(2) \in Seq(Nat) /\ c(3) \in Seq(Nat) /\ c(4) \in Seq(Nat)
      /\ c(5) \in Seq(Nat)
  BY <1>1
<1>5. \A k \in 1 .. 5 : k \in {1, 2, 3, 4, 5}
  OBVIOUS
<1> HIDE DEF c, h, q, x
<1>6. Sections(s) \in Seq(Seq(Nat)) /\ Len(Sections(s)) = 8
  BY <1>2, <1>3, <1>4
<1>7. Sections(s)[1] = h /\ Sections(s)[2] = q /\ Sections(s)[3] = x
  BY <1>3
<1>8. /\ Sections(s)[4] = c(1) /\ Sections(s)[5] = c(2) /\ Sections(s)[6] = c(3)
      /\ Sections(s)[7] = c(4) /\ Sections(s)[8] = c(5)
  BY <1>3
<1>9. \A k \in 1 .. 5 : Sections(s)[3 + k] = c(k)
  BY <1>5, <1>8
<1> QED
  BY <1>6, <1>7, <1>9 DEF c, h, q, x

\* A sequence holds itself.
LEMMA HoldsItself ==
    ASSUME NEW u \in Seq(Nat)
    PROVE  HoldsAt(u, 0, u)
  BY DEF HoldsAt

\* The sections of a snapshot have a layout in what serialize writes.
LEMMA EdgeIsLayout ==
    ASSUME NEW s, IsSnapshot(s)
    PROVE  serialize(s) \in Seq(Nat) /\ IsLayout(s, Edge(s))
<1> DEFINE u == serialize(s)
           t == Sections(s)
<1>1. t \in Seq(Seq(Nat)) /\ Len(t) = 8
  BY SectionsAre
<1>2. u = FlattenSeq(t)
  BY SerializedBySections
<1>3. u \in Seq(Nat)
  BY <1>1, <1>2, FlatIsLaid
<1>4. HoldsAt(u, 0, u) /\ 0 \in Nat
  BY <1>3, HoldsItself
<1>5. HoldsAt(u, 0, FlattenSeq(t)) =>
         \E e : e[0] = 0 /\ e[Len(t)] = 0 + Len(FlattenSeq(t)) /\ Laid(u, t, e)
  BY <1>1, <1>3, <1>4, FlatIsLaid, Zenon
<1> HIDE DEF u, t
<1>6. \E e : e[0] = 0 /\ e[Len(t)] = 0 + Len(FlattenSeq(t)) /\ Laid(u, t, e)
  BY <1>2, <1>4, <1>5
<1>7. 0 + Len(u) = Len(u)
  BY <1>3
<1>8. \E e : e[0] = 0 /\ e[8] = Len(u) /\ Laid(u, t, e)
  BY <1>1, <1>2, <1>6, <1>7
<1>9. \E e : IsLayout(s, e)
  BY <1>8 DEF IsLayout, u, t
<1> QED
  BY <1>3, <1>9 DEF Edge, u

\* Where serialize writes each section: Edge(s)[i] units come before section i + 1.
LEMMA EdgeOf ==
    ASSUME NEW s, IsSnapshot(s)
    PROVE  /\ serialize(s) \in Seq(Nat)
           /\ \A i \in 0 .. 8 : Edge(s)[i] \in Nat
           /\ Edge(s)[0] = 0 /\ Edge(s)[8] = Len(serialize(s)) /\ Edge(s)[3] > 0
           /\ Laid(serialize(s), HeaderParts(s), Edge(s))
           /\ \A k \in 1 .. 5 :
                 /\ Edge(s)[3 + k] = Edge(s)[2 + k] + Len(EncodeAll(CodedList(s, k)))
                 /\ HoldsAt(serialize(s), Edge(s)[2 + k], EncodeAll(CodedList(s, k)))
<1> DEFINE u == serialize(s)
           t == Sections(s)
           e == Edge(s)
           c(k) == EncodeAll(CodedList(s, k))
<1>1. /\ t \in Seq(Seq(Nat)) /\ Len(t) = 8
      /\ t[1] = Text(Magic) /\ t[2] = Unit(s.sequence) /\ t[3] = Unit(s.epoch)
      /\ \A k \in 1 .. 5 : t[3 + k] = c(k)
  BY SectionsAre
<1>2. u \in Seq(Nat) /\ e[0] = 0 /\ e[8] = Len(u) /\ Laid(u, t, e)
  BY EdgeIsLayout DEF IsLayout
<1>3. /\ HeaderParts(s)[1] = Text(Magic) /\ HeaderParts(s)[2] = Unit(s.sequence)
      /\ HeaderParts(s)[3] = Unit(s.epoch) /\ Len(HeaderParts(s)) = 3
  BY DEF HeaderParts
<1>4. Len(Text(Magic)) \in Nat /\ Len(Text(Magic)) > 0
  BY CodecAssumption DEF Text
<1> HIDE DEF u, t, e, c
<1>5. \A i \in 1 .. 8 : e[i - 1] \in Nat /\ e[i] = e[i - 1] + Len(t[i]) /\ HoldsAt(u, e[i - 1], t[i])
  BY <1>1, <1>2 DEF Laid
<1>6. \A i \in 0 .. 8 : e[i] \in Nat
  <2>1. \A i \in 0 .. 7 : e[i] \in Nat
    <3> SUFFICES ASSUME NEW i \in 0 .. 7 PROVE e[i] \in Nat
      OBVIOUS
    <3>1. i + 1 \in 1 .. 8 /\ (i + 1) - 1 = i
      OBVIOUS
    <3> QED
      BY <1>5, <3>1
  <2>2. e[8] \in Nat
    BY <1>2
  <2>3. \A i \in 0 .. 8 : i \in 0 .. 7 \/ i = 8
    OBVIOUS
  <2> QED
    BY <2>1, <2>2, <2>3
<1>7. Laid(u, HeaderParts(s), e)
  <2> SUFFICES ASSUME NEW i \in 1 .. 3
               PROVE  /\ e[i - 1] \in Nat /\ e[i] = e[i - 1] + Len(HeaderParts(s)[i])
                      /\ HoldsAt(u, e[i - 1], HeaderParts(s)[i])
    BY <1>3 DEF Laid
  <2>1. i \in {1, 2, 3} /\ i \in 1 .. 8
    OBVIOUS
  <2>2. HeaderParts(s)[i] = t[i]
    BY <1>1, <1>3, <2>1
  <2> QED
    BY <1>5, <2>1, <2>2
<1>8. e[3] > 0
  <2> HIDE DEF Laid
  <2>1. e[1] = e[0] + Len(t[1]) /\ e[2] = e[1] + Len(t[2]) /\ e[3] = e[2] + Len(t[3])
    BY <1>5
  <2>2. t[2] \in Seq(Nat) /\ t[3] \in Seq(Nat)
    <3>1. \A w \in Seq(Seq(Nat)) : \A i \in 1 .. Len(w) : w[i] \in Seq(Nat)
      OBVIOUS
    <3>2. 2 \in 1 .. Len(t) /\ 3 \in 1 .. Len(t)
      BY <1>1
    <3> QED
      BY <1>1, <3>1, <3>2
  <2> QED
    BY <1>1, <1>2, <1>4, <2>1, <2>2
<1>9. ASSUME NEW k \in 1 .. 5
      PROVE  e[3 + k] = e[2 + k] + Len(c(k)) /\ HoldsAt(u, e[2 + k], c(k))
  <2>1. 3 + k \in 1 .. 8 /\ (3 + k) - 1 = 2 + k
    OBVIOUS
  <2> QED
    BY <1>1, <1>5, <2>1
<1> QED
  BY <1>2, <1>6, <1>7, <1>8, <1>9 DEF u, e, c

\* d is where the elements of list k begin, and where the last ends.
IsSpots(s, k, d) ==
    /\ d[0] = Edge(s)[2 + k] + 1 /\ d[Len(s[Lists[k]])] = Edge(s)[3 + k]
    /\ Laid(serialize(s), CodedList(s, k), d)

Spot(s, k) == CHOOSE d : IsSpots(s, k, d)

\* Where list k is, and where its elements are.
SpotsHold(s, k) ==
    LET l == s[Lists[k]]
        d == Spot(s, k)
        e == Edge(s)
    IN  /\ e[2 + k] \in Nat /\ e[3 + k] \in Nat
        /\ HoldsAt(serialize(s), e[2 + k], <<Len(l)>>)
        /\ d[0] = e[2 + k] + 1 /\ d[Len(l)] = e[3 + k]
        /\ \A i \in 1 .. Len(l) :
              /\ d[i - 1] \in Nat /\ d[i] = d[i - 1] + Len(Coded(k, l[i]))
              /\ HoldsAt(serialize(s), d[i - 1], Coded(k, l[i]))

\* Where serialize writes each element of a list: Spot(s, k)[i] units come before
\* element i + 1.
LEMMA SpotOf ==
    ASSUME NEW s, IsSnapshot(s), NEW k \in 1 .. 5
    PROVE  SpotsHold(s, k)
<1> DEFINE u == serialize(s)
           e == Edge(s)
           l == s[Lists[k]]
           c == CodedList(s, k)
           d == Spot(s, k)
           p == e[2 + k]
<1>1. c \in Seq(Seq(Nat)) /\ Len(c) = Len(l) /\ \A i \in 1 .. Len(l) : c[i] = Coded(k, l[i])
  BY SnapshotLists, CodedListIs
<1>2. /\ u \in Seq(Nat) /\ p \in Nat /\ e[3 + k] \in Nat
      /\ e[3 + k] = p + Len(EncodeAll(c)) /\ HoldsAt(u, p, EncodeAll(c))
  <2>1. 2 + k \in 0 .. 8 /\ 3 + k \in 0 .. 8
    OBVIOUS
  <2> QED
    BY <2>1, EdgeOf
<1> HIDE DEF c, p, u
<1>3. /\ HoldsAt(u, p, <<Len(c)>>)
      /\ \E f : f[0] = p + 1 /\ f[Len(c)] = p + Len(EncodeAll(c)) /\ Laid(u, c, f)
  BY <1>1, <1>2, ListHeld
<1>4. \E f : f[0] = p + 1 /\ f[Len(l)] = e[3 + k] /\ Laid(u, c, f)
  BY <1>1, <1>2, <1>3
<1>5. \E f : IsSpots(s, k, f)
  BY <1>4 DEF IsSpots, u, c, p
<1>6. IsSpots(s, k, d)
  BY <1>5 DEF Spot
<1>7. d[0] = p + 1 /\ d[Len(l)] = e[3 + k] /\ Laid(u, c, d)
  BY <1>6 DEF IsSpots, u, c, p
<1> HIDE DEF d, e, l
<1>8. \A i \in 1 .. Len(l) : d[i - 1] \in Nat /\ d[i] = d[i - 1] + Len(Coded(k, l[i]))
                             /\ HoldsAt(u, d[i - 1], Coded(k, l[i]))
  BY <1>1, <1>7 DEF Laid
<1> QED
  BY <1>1, <1>2, <1>3, <1>7, <1>8 DEF SpotsHold, d, e, l, u, p

-----------------------------------------------------------------------------
(* The header and the counts *)

MagicFields == <<Field("text", "magic", 1)>>

HeaderFields == <<Field("text", "magic", 1), U("sequence"), U("epoch")>>

HeaderOf(s) == [magic |-> Magic, sequence |-> s.sequence, epoch |-> s.epoch]

\* The fields of the header are fields, each with its own name.
LEMMA HeaderFieldList ==
    /\ IsFieldList(HeaderFields) /\ Len(HeaderFields) = 3
    /\ Names(HeaderFields) = {"magic", "sequence", "epoch"}
    /\ HeaderFields[1].kind = "text" /\ HeaderFields[2].kind = "unit"
    /\ HeaderFields[3].kind = "unit"
    /\ HeaderFields[1].name = "magic" /\ HeaderFields[2].name = "sequence"
    /\ HeaderFields[3].name = "epoch"
<1>1. /\ Len(HeaderFields) = 3 /\ DOMAIN HeaderFields = 1 .. 3
      /\ HeaderFields[1].name = "magic" /\ HeaderFields[2].name = "sequence"
      /\ HeaderFields[3].name = "epoch"
      /\ HeaderFields[1].kind = "text" /\ HeaderFields[2].kind = "unit"
      /\ HeaderFields[3].kind = "unit"
      /\ HeaderFields[1].size = 1 /\ HeaderFields[2].size = 1 /\ HeaderFields[3].size = 1
  BY DEF HeaderFields, U, Field
<1>2. \A i \in 1 .. 3 : i \in {1, 2, 3}
  OBVIOUS
<1>3. \A i, j \in 1 .. 3 : HeaderFields[i].name = HeaderFields[j].name => i = j
  BY <1>1, <1>2
<1>4. \A i \in 1 .. 3 : HeaderFields[i].kind \in Kinds /\ HeaderFields[i].size \in Nat
  BY <1>1, <1>2 DEF Kinds
<1>5. IsFieldList(HeaderFields)
  BY <1>1, <1>3, <1>4 DEF IsFieldList, IsField
<1>6. Names(HeaderFields) = {"magic", "sequence", "epoch"}
  <2>1. \A i \in 1 .. 3 : HeaderFields[i].name \in {"magic", "sequence", "epoch"}
    BY <1>1, <1>2
  <2>2. \A x \in {"magic", "sequence", "epoch"} : \E i \in 1 .. 3 : x = HeaderFields[i].name
    BY <1>1
  <2> QED
    BY <1>1, <2>1, <2>2 DEF Names
<1> QED
  BY <1>1, <1>5, <1>6

\* The magic is read as a text.
LEMMA MagicFieldList ==
    /\ IsFieldList(MagicFields) /\ Len(MagicFields) = 1 /\ Names(MagicFields) = {"magic"}
    /\ MagicFields[1].kind = "text" /\ MagicFields[1].name = "magic"
<1>1. /\ Len(MagicFields) = 1 /\ DOMAIN MagicFields = 1 .. 1
      /\ MagicFields[1].name = "magic" /\ MagicFields[1].kind = "text" /\ MagicFields[1].size = 1
  BY DEF MagicFields, Field
<1>2. IsFieldList(MagicFields)
  BY <1>1 DEF IsFieldList, IsField, Kinds
<1>3. Names(MagicFields) = {"magic"}
  BY <1>1 DEF Names
<1> QED
  BY <1>1, <1>2, <1>3

\* serialize writes, in the same order, the fields of the header that deserialize reads.
LEMMA HeaderWrote ==
    ASSUME NEW s, s.sequence \in Nat, s.epoch \in Nat
    PROVE  /\ Wrote(HeaderFields, HeaderOf(s), HeaderParts(s))
           /\ Wrote(MagicFields, HeaderOf(s), <<Text(Magic)>>)
<1> DEFINE v == HeaderOf(s)
<1>1. v["magic"] = Magic /\ v["sequence"] = s.sequence /\ v["epoch"] = s.epoch
  BY DEF HeaderOf
<1>2. /\ HeaderParts(s)[1] = Text(Magic) /\ HeaderParts(s)[2] = Unit(s.sequence)
      /\ HeaderParts(s)[3] = Unit(s.epoch) /\ Len(HeaderParts(s)) = 3
  BY DEF HeaderParts
<1>3. Magic \in Seq(Nat) /\ Len(Magic) <= StringLimit /\ Text(Magic) \in Seq(Nat)
  BY CodecAssumption DEF Text
<1>4. Unit(s.sequence) \in Seq(Nat) /\ Unit(s.epoch) \in Seq(Nat)
  BY DEF Unit
<1>5. HeaderParts(s) \in Seq(Seq(Nat)) /\ <<Text(Magic)>> \in Seq(Seq(Nat))
  BY <1>3, <1>4 DEF HeaderParts
<1> HIDE DEF v
<1>6. ASSUME NEW f, f.kind = "text"
      PROVE  FieldHolds(f, Magic) /\ FieldUnits(f, Magic) = Text(Magic)
  BY <1>3, <1>6 DEF FieldHolds, FieldUnits
<1>7. ASSUME NEW f, f.kind = "unit", NEW x \in Nat
      PROVE  FieldHolds(f, x) /\ FieldUnits(f, x) = Unit(x)
  BY <1>7 DEF FieldHolds, FieldUnits
<1>8. \A i \in 1 .. 3 : i \in {1, 2, 3}
  OBVIOUS
<1>9. ASSUME NEW i \in 1 .. 3
      PROVE  /\ FieldHolds(HeaderFields[i], v[HeaderFields[i].name])
             /\ HeaderParts(s)[i] = FieldUnits(HeaderFields[i], v[HeaderFields[i].name])
  <2>1. CASE i = 1
    BY <1>1, <1>2, <1>6, <2>1, HeaderFieldList
  <2>2. CASE i = 2
    BY <1>1, <1>2, <1>7, <2>2, HeaderFieldList
  <2>3. CASE i = 3
    BY <1>1, <1>2, <1>7, <2>3, HeaderFieldList
  <2> QED
    BY <1>8, <2>1, <2>2, <2>3
<1>10. Wrote(HeaderFields, v, HeaderParts(s))
  BY <1>2, <1>5, <1>9, HeaderFieldList DEF Wrote
<1>11. Wrote(MagicFields, v, <<Text(Magic)>>)
  <2> DEFINE t == <<Text(Magic)>>
  <2>1. t[1] = Text(Magic) /\ Len(t) = 1 /\ t \in Seq(Seq(Nat))
    BY <1>5
  <2>2. /\ FieldHolds(MagicFields[1], v[MagicFields[1].name])
        /\ t[1] = FieldUnits(MagicFields[1], v[MagicFields[1].name])
    BY <1>1, <1>6, <2>1, MagicFieldList
  <2> HIDE DEF t
  <2>3. \A i \in 1 .. 1 : i = 1
    OBVIOUS
  <2>4. Wrote(MagicFields, v, t)
    BY <2>1, <2>2, <2>3, MagicFieldList DEF Wrote
  <2> QED
    BY <2>4 DEF t
<1> QED
  BY <1>10, <1>11 DEF v

\* Reading the header, whatever the stream, gives a code or two numbers.
LEMMA HeaderIsRead ==
    ASSUME IsStream, NEW r, r = Decode(HeaderFields, 0)
    PROVE  /\ r.error \in ReadCodes
           /\ r.error = "OK" => /\ r.pos \in Nat /\ r.pos > 0
                                /\ r.got.sequence \in Nat /\ r.got.epoch \in Nat
<1>1. HasRead(HeaderFields, 0, 3, r)
  BY HeaderFieldList, DecodeHasRead
<1>2. r.error \in ReadCodes
  BY <1>1 DEF HasRead
<1>3. ASSUME r.error = "OK"
      PROVE  /\ r.pos \in Nat /\ r.pos > 0
             /\ FieldHolds(HeaderFields[2], r.got["sequence"])
             /\ FieldHolds(HeaderFields[3], r.got["epoch"])
  BY <1>1, <1>3, HeaderFieldList DEF HasRead
<1>4. ASSUME NEW f, f.kind = "unit", NEW x, FieldHolds(f, x)
      PROVE  x \in Nat
  BY <1>4 DEF FieldHolds
<1>5. r.error = "OK" => r.got["sequence"] \in Nat /\ r.got["epoch"] \in Nat
  BY <1>3, <1>4, HeaderFieldList
<1> QED
  BY <1>2, <1>3, <1>5

\* A header that is accepted ends where serialize put its end.
LEMMA HeaderIsPlaced ==
    ASSUME IsStream, NEW s, IsSnapshot(s), Agrees(serialize(s)),
           Decode(HeaderFields, 0).error = "OK"
    PROVE  Decode(HeaderFields, 0).pos = Edge(s)[3]
<1>1. /\ Laid(serialize(s), HeaderParts(s), Edge(s)) /\ Edge(s)[0] = 0
      /\ IsFieldList(HeaderFields) /\ Len(HeaderFields) = 3
  BY EdgeOf, HeaderFieldList
<1>2. Wrote(HeaderFields, HeaderOf(s), HeaderParts(s))
  BY HeaderWrote DEF IsSnapshot
<1>3. Decode(HeaderFields, 0).pos = Edge(s)[Len(HeaderFields)]
  BY <1>1, <1>2, DecodeIsPlaced
<1> QED
  BY <1>1, <1>3

\* The header of an undamaged stream is read back: its magic is the magic, its sequence
\* and epoch what they were.
LEMMA HeaderComesBack ==
    ASSUME IsStream, NEW s, IsSnapshot(s), stream = serialize(s),
           NEW r, r = Decode(HeaderFields, 0), NEW m, m = Decode(MagicFields, 0)
    PROVE  /\ m.error = "OK" => m.got.magic = Magic
           /\ \/ /\ r.error = "OK" /\ r.pos = Edge(s)[3]
                 /\ r.got.sequence = s.sequence /\ r.got.epoch = s.epoch
              \/ r.error = "PROTOCOL_OVERFLOW" /\ Len(stream) > StringWindow
<1> DEFINE v == HeaderOf(s)
<1>1. /\ Laid(stream, HeaderParts(s), Edge(s)) /\ Edge(s)[0] = 0
      /\ IsFieldList(HeaderFields) /\ Len(HeaderFields) = 3
      /\ IsFieldList(MagicFields) /\ Len(MagicFields) = 1
  BY EdgeOf, HeaderFieldList, MagicFieldList
<1>2. /\ Wrote(HeaderFields, v, HeaderParts(s))
      /\ Wrote(MagicFields, v, <<Text(Magic)>>)
  BY HeaderWrote DEF IsSnapshot
<1>3. v["magic"] = Magic /\ v["sequence"] = s.sequence /\ v["epoch"] = s.epoch
  BY DEF HeaderOf
<1> HIDE DEF v
<1>4. Laid(stream, <<Text(Magic)>>, Edge(s))
  <2> DEFINE t == <<Text(Magic)>>
  <2>1. /\ HeaderParts(s)[1] = t[1] /\ Len(HeaderParts(s)) = 3 /\ Len(t) = 1
    BY DEF HeaderParts
  <2> HIDE DEF t
  <2>2. \A i \in 1 .. 1 : i = 1 /\ i \in 1 .. 3
    OBVIOUS
  <2>3. Laid(stream, t, Edge(s))
    BY <1>1, <2>1, <2>2 DEF Laid
  <2> QED
    BY <2>3 DEF t
<1>5. DecodeBack(HeaderFields, v, Edge(s)[Len(HeaderFields)], Decode(HeaderFields, 0))
  BY <1>1, <1>2, DecodeComesBack
<1>6. DecodeBack(MagicFields, v, Edge(s)[Len(MagicFields)], Decode(MagicFields, 0))
  BY <1>1, <1>2, <1>4, DecodeComesBack
<1>7. \/ r.error = "OK" /\ r.pos = Edge(s)[3] /\ r.got = [x \in Names(HeaderFields) |-> v[x]]
      \/ r.error = "PROTOCOL_OVERFLOW" /\ Len(stream) > StringWindow
  BY <1>1, <1>5 DEF DecodeBack
<1>8. \/ m.error = "OK" /\ m.got = [x \in Names(MagicFields) |-> v[x]]
      \/ m.error = "PROTOCOL_OVERFLOW"
  BY <1>6 DEF DecodeBack
<1>9. m.error = "OK" => m.got.magic = Magic
  BY <1>3, <1>8, MagicFieldList
<1>10. ASSUME r.got = [x \in Names(HeaderFields) |-> v[x]]
       PROVE  r.got.sequence = s.sequence /\ r.got.epoch = s.epoch
  BY <1>3, <1>10, HeaderFieldList
<1> QED
  BY <1>7, <1>9, <1>10

CountFields == <<U("count")>>

\* Reading a count gives TRUNCATED at the end of the stream, and the unit anywhere else.
LEMMA CountIsRead ==
    ASSUME IsStream, NEW p \in Nat, NEW r, r = Decode(CountFields, p)
    PROVE  \/ r.error = "TRUNCATED" /\ p + 1 > Len(stream)
           \/ /\ r.error = "OK" /\ r.pos = p + 1 /\ p + 1 <= Len(stream)
              /\ r.got.count = stream[p + 1] /\ r.got.count \in Nat
<1> DEFINE f == CountFields[1]
<1>1. Len(CountFields) = 1 /\ f.kind = "unit" /\ f.name = "count"
  BY DEF CountFields, U, Field
<1>2. PICK read : Runs(CountFields, p, read, 1) /\ Decode(CountFields, p) = read[1]
  <2>1. \E read : Runs(CountFields, p, read, Len(CountFields))
                  /\ Decode(CountFields, p) = read[Len(CountFields)]
    <3>1. Len(CountFields) \in Nat
      BY <1>1
    <3> QED
      BY <3>1, DecodeRuns, Zenon
  <2> QED
    BY <1>1, <2>1
<1> HIDE DEF f
<1>3. r = ReadField(Reading(p), f)
  <2>1. read[0] = Reading(p) /\ 1 \in 1 .. 1 /\ 1 - 1 = 0
    BY <1>2 DEF Runs
  <2>2. read[1] = ReadField(read[1 - 1], f)
    BY <1>2, <2>1 DEF Runs, f
  <2> QED
    BY <1>2, <2>1, <2>2
<1> DEFINE q == Reading(p)
<1>4. q.pos = p /\ q.error = "OK" /\ IsRead(q)
  BY DEF Reading, IsRead
<1> HIDE DEF q
<1>5. r = ReadOne(q, f)
  BY <1>1, <1>3, <1>4 DEF ReadField, q
<1>6. Len(stream) \in Nat /\ \A i \in 1 .. Len(stream) : stream[i] \in Nat
  BY DEF IsStream
<1>7. CASE ~(p + 1 <= Len(stream))
  <2>1. r = Fails(q, "TRUNCATED")
    BY <1>1, <1>4, <1>5, <1>7 DEF ReadOne, Has
  <2>2. r.error = "TRUNCATED"
    BY <1>4, <2>1, FailsIs
  <2> QED
    BY <1>6, <1>7, <2>2
<1>8. CASE p + 1 <= Len(stream)
  <2>1. r = Got(q, f, stream[p + 1], p + 1)
    BY <1>1, <1>4, <1>5, <1>8 DEF ReadOne, Has
  <2>2. /\ r.error = "OK" /\ r.pos = p + 1
        /\ r.got = And([x \in {f.name} |-> stream[p + 1]], q.got)
    BY <2>1 DEF Got
  <2>3. r.got.count = stream[p + 1]
    BY <1>1, <2>2 DEF And
  <2>4. stream[p + 1] \in Nat
    <3>1. p + 1 \in 1 .. Len(stream)
      BY <1>6, <1>8
    <3> QED
      BY <1>6, <3>1
  <2> QED
    BY <1>8, <2>2, <2>3, <2>4
<1> QED
  BY <1>7, <1>8

\* A count that is read where one was written is that one.
LEMMA CountComesBack ==
    ASSUME IsStream, NEW full, Agrees(full), NEW p \in Nat, NEW n, HoldsAt(full, p, <<n>>),
           p + 1 <= Len(stream)
    PROVE  stream[p + 1] = n
<1> DEFINE u == <<n>>
<1>1. Len(u) = 1 /\ u[1] = n
  OBVIOUS
<1> HIDE DEF u
<1>2. p + 1 <= Len(full) /\ full[p + 1] = n
  BY <1>1 DEF HoldsAt, u
<1>3. p + 1 \in 1 .. Len(stream)
  BY DEF IsStream
<1> QED
  BY <1>2, <1>3 DEF Agrees

-----------------------------------------------------------------------------
(* The payloads that are read in one piece *)

\* A decoder whose last field is not a text has not passed the end.
LEMMA DecodeEndsWithin ==
    ASSUME IsStream, NEW fields, IsFieldList(fields), Len(fields) > 0,
           fields[Len(fields)].kind \notin {"text", "bdf"}, NEW p \in Nat,
           NEW r, r = Decode(fields, p), r.error = "OK"
    PROVE  r.pos <= Len(stream)
<1> DEFINE n == Len(fields)
           f == fields[n]
<1>1. n \in Nat /\ n > 0 /\ n \in 1 .. n /\ n - 1 \in 0 .. n
  BY DEF IsFieldList
<1>2. PICK read : Runs(fields, p, read, n) /\ Decode(fields, p) = read[n]
  BY <1>1, DecodeRuns
<1>3. HasRead(fields, p, n - 1, read[n - 1])
  BY <1>1, <1>2, RunHasRead
<1>4. IsField(f) /\ f.kind \notin {"text", "bdf"}
  BY <1>1 DEF IsFieldList
<1> DEFINE q == read[n - 1]
<1>5. r = ReadField(q, f)
  BY <1>1, <1>2 DEF Runs
<1> HIDE DEF q, f, n
<1>6. q.error = "OK"
  BY <1>5 DEF ReadField
<1>7. IsReader(q)
  BY <1>3, <1>6 DEF HasRead, IsReader, q
<1>8. FieldRead(q, f, r)
  BY <1>4, <1>5, <1>7, FieldIsRead
<1> QED
  BY <1>4, <1>8 DEF FieldRead

\* A payload read in one piece: one that is accepted is as long as what was written; one
\* that was not damaged is read back.
LEMMA PayloadIsRead ==
    ASSUME IsStream, NEW fields, IsFieldList(fields), NEW v, NEW parts, Wrote(fields, v, parts),
           NEW full, full = FlattenSeq(parts), Agrees(full), NEW r, r = Decode(fields, 0)
    PROVE  /\ r.error = "OK" => r.pos = Len(full)
           /\ stream = full /\ Len(full) <= StringWindow =>
                 r.error = "OK" /\ r.got = [x \in Names(fields) |-> v[x]]
<1>1. parts \in Seq(Seq(Nat)) /\ Len(parts) = Len(fields)
  BY DEF Wrote
<1>2. full \in Seq(Nat) /\ 0 \in Nat /\ Len(full) \in Nat
  BY DEF Agrees
<1>3. HoldsAt(full, 0, full)
  BY <1>2, HoldsItself
<1>4. HoldsAt(full, 0, FlattenSeq(parts)) =>
         \E e : e[0] = 0 /\ e[Len(parts)] = 0 + Len(FlattenSeq(parts)) /\ Laid(full, parts, e)
  BY <1>1, <1>2, FlatIsLaid, Zenon
<1>5. 0 + Len(full) = Len(full)
  BY <1>2
<1>6. PICK e : e[0] = 0 /\ e[Len(fields)] = Len(full) /\ Laid(full, parts, e)
  BY <1>1, <1>3, <1>4, <1>5
<1>7. r.error = "OK" => r.pos = Len(full)
  BY <1>2, <1>6, DecodeIsPlaced
<1>8. ASSUME stream = full, Len(full) <= StringWindow
      PROVE  r.error = "OK" /\ r.got = [x \in Names(fields) |-> v[x]]
  <2>1. DecodeBack(fields, v, e[Len(fields)], Decode(fields, 0))
    BY <1>2, <1>6, <1>8, DecodeComesBack
  <2>2. ~(Len(stream) > StringWindow)
    BY <1>2, <1>8, CodecAssumption
  <2> QED
    BY <2>1, <2>2 DEF DecodeBack
<1> QED
  BY <1>7, <1>8

\* require_end refuses what is not read to the end, and changes nothing else.
LEMMA ClosedIs ==
    ASSUME IsStream, NEW r, IsRead(r), r.pos \in Nat, r.error \in ReadCodes
    PROVE  /\ Closed(r).error \in ReadCodes \cup {"PROTOCOL_MALFORMED"} /\ Closed(r).pos = r.pos
           /\ Closed(r).error = "OK" => Closed(r) = r /\ r.pos = Len(stream)
           /\ r.error = "OK" /\ r.pos = Len(stream) => Closed(r) = r
<1>1. CASE r.error = "OK" /\ r.pos # Len(stream)
  <2>1. Closed(r) = Fails(r, "PROTOCOL_MALFORMED")
    BY <1>1 DEF Closed
  <2>2. Closed(r).error = "PROTOCOL_MALFORMED" /\ Closed(r).pos = r.pos
    BY <2>1, FailsIs
  <2> QED
    BY <1>1, <2>2
<1>2. CASE ~(r.error = "OK" /\ r.pos # Len(stream))
  <2>1. Closed(r) = r
    BY <1>2 DEF Closed
  <2> QED
    BY <1>2, <2>1
<1> QED
  BY <1>1, <1>2

\* What a stream is, by what was done to it.
Damaged ==
    fault # "overwritten" =>
        /\ Agrees(Written(document))
        /\ fault = "none" => stream = Written(document)
        /\ fault = "cut" => Len(stream) < Len(Written(document))
        /\ fault = "extra" => Len(stream) = Len(Written(document)) + 1

Messages == {"register", "release", "ack", "measurement", "reserve"}

MessageFields(w) ==
    CASE w = "register" -> RegisterFields
      [] w = "release" -> ReleaseFields
      [] w = "ack" -> AckFields
      [] w = "measurement" -> MeasurementFields
      [] w = "reserve" -> ReservationFields

MessageParts(w, v) ==
    CASE w = "register" -> RegisterParts(v)
      [] w = "release" -> ReleaseParts(v)
      [] w = "ack" -> AckParts(v)
      [] w = "measurement" -> MeasurementParts(v)
      [] w = "reserve" -> ReservationParts(v)

\* The fields of the five messages are fields.
LEMMA MessageListed ==
    ASSUME NEW w \in Messages
    PROVE  IsFieldList(MessageFields(w))
  BY RegisterFieldList, ReleaseFieldList, AckFieldList, MeasurementFieldList, ReservationFieldList
  DEF Messages, MessageFields

\* write_register, write_release, write_ack and encode write, in the same order, the
\* fields that are read.
LEMMA MessageWritten ==
    ASSUME NEW d, IsDocument(d), d.what \in Messages
    PROVE  /\ Wrote(MessageFields(d.what), d.value, MessageParts(d.what, d.value))
           /\ Written(d) = FlattenSeq(MessageParts(d.what, d.value))
           /\ Len(Written(d)) <= StringWindow
<1> DEFINE v == d.value
<1>1. CASE d.what = "register"
  <2>1. HoldsFields(RegisterFields, v)
    BY <1>1 DEF IsDocument, Fits, HoldsFields
  <2>2. Written(d) = FlattenSeq(RegisterParts(v))
    BY <1>1 DEF Written, write_register, RegisterParts
  <2> QED
    BY <1>1, <2>1, <2>2, RegisterWrote DEF IsDocument, MessageFields, MessageParts
<1>2. CASE d.what = "release"
  <2>1. HoldsFields(ReleaseFields, v)
    BY <1>2 DEF IsDocument, Fits, HoldsFields
  <2>2. Written(d) = FlattenSeq(ReleaseParts(v))
    BY <1>2 DEF Written, write_release, ReleaseParts
  <2> QED
    BY <1>2, <2>1, <2>2, ReleaseWrote DEF IsDocument, MessageFields, MessageParts
<1>3. CASE d.what = "ack"
  <2>1. HoldsFields(AckFields, v)
    BY <1>3 DEF IsDocument, Fits, HoldsFields
  <2>2. Written(d) = FlattenSeq(AckParts(v))
    BY <1>3 DEF Written, write_ack, AckParts
  <2> QED
    BY <1>3, <2>1, <2>2, AckWrote DEF IsDocument, MessageFields, MessageParts
<1>4. CASE d.what = "measurement"
  <2>1. IsMeasurement(v)
    BY <1>4 DEF IsDocument
  <2>2. HoldsFields(MeasurementFields, v) /\ Written(d) = FlattenSeq(MeasurementParts(v))
    BY <1>4, <2>1, MeasurementParted DEF Written
  <2> QED
    BY <1>4, <2>2, MeasurementWrote DEF IsDocument, MessageFields, MessageParts
<1>5. CASE d.what = "reserve"
  <2>1. IsReservation(v)
    BY <1>5 DEF IsDocument
  <2>2. HoldsFields(ReservationFields, v) /\ Written(d) = FlattenSeq(ReservationParts(v))
    BY <1>5, <2>1, ReservationParted DEF Written
  <2> QED
    BY <1>5, <2>2, ReservationWrote DEF IsDocument, MessageFields, MessageParts
<1> QED
  BY <1>1, <1>2, <1>3, <1>4, <1>5 DEF Messages

\* A message read from a stream it was written to, by how the stream was damaged.
MessageRead(w, v, r) ==
    /\ IsRead(r) /\ r.pos \in Nat /\ r.error \in ReadCodes
    /\ fault = "none" => /\ r.error = "OK" /\ r.pos = Len(stream)
                         /\ r.got = [x \in Names(MessageFields(w)) |-> v[x]]
    /\ r.error = "OK" /\ fault = "cut" => r.pos > Len(stream)
    /\ r.error = "OK" /\ fault = "extra" => r.pos < Len(stream)

\* Reading a message: accepted, it is as long as what was written; undamaged, it is read
\* back.
LEMMA MessageIsRead ==
    ASSUME IsStream, IsDocument(document), document.what \in Messages, Damaged,
           fault \in {"none", "cut", "extra", "overwritten"},
           NEW r, r = Decode(MessageFields(document.what), 0)
    PROVE  MessageRead(document.what, document.value, r)
<1> DEFINE w == document.what
           v == document.value
           u == Written(document)
<1>1. IsFieldList(MessageFields(w)) /\ 0 \in Nat
  BY MessageListed
<1>2. /\ Wrote(MessageFields(w), v, MessageParts(w, v)) /\ u = FlattenSeq(MessageParts(w, v))
      /\ Len(u) <= StringWindow
  BY MessageWritten
<1>3. IsRead(r) /\ r.pos \in Nat /\ r.error \in ReadCodes
  BY <1>1, DecodeHasRead DEF HasRead
<1> HIDE DEF w, v, u
<1>4. CASE fault = "overwritten"
  BY <1>3, <1>4 DEF MessageRead
<1>5. CASE fault # "overwritten"
  <2>1. /\ Agrees(u) /\ (fault = "none" => stream = u) /\ (fault = "cut" => Len(stream) < Len(u))
        /\ (fault = "extra" => Len(stream) = Len(u) + 1)
    BY <1>5 DEF Damaged, u
  <2>2. /\ r.error = "OK" => r.pos = Len(u)
        /\ stream = u /\ Len(u) <= StringWindow =>
              r.error = "OK" /\ r.got = [x \in Names(MessageFields(w)) |-> v[x]]
    BY <1>1, <1>2, <2>1, PayloadIsRead DEF w
  <2>3. Len(stream) \in Nat /\ Len(u) \in Nat
    BY <2>1 DEF IsStream, Agrees
  <2>4. MessageRead(w, v, r)
    BY <1>2, <1>3, <2>1, <2>2, <2>3 DEF MessageRead
  <2> QED
    BY <2>4 DEF w, v
<1> QED
  BY <1>4, <1>5

Answered == document.what \in Messages => RoundTrip /\ DamageIsRefused

\* A message was read, and what came of it is right.
MessageStep ==
    /\ document.what \in Messages /\ result = "reading" /\ pos' \in Nat /\ result' \in Codes
    /\ UNCHANGED <<document, fault, stream, beyond, section, left, trip>>
    /\ Answered'

\* Every code of the reader is a result.
LEMMA CodesAre == ReadCodes \cup {"PROTOCOL_MALFORMED"} \subseteq Codes
  BY DEF ReadCodes, Codes

\* Enough for one of the three that are read with require_end.
LEMMA ClosedStep ==
    ASSUME IsStream, NEW w \in {"register", "release", "ack"}, NEW v, NEW r, MessageRead(w, v, r),
           Receives(w), document.value = v, v = [x \in Names(MessageFields(w)) |-> v[x]],
           Finish(Closed(r), Closed(r).got)
    PROVE  MessageStep
<1> DEFINE q == Closed(r)
<1>1. /\ document.what = w /\ result = "reading" /\ w # "snapshot" /\ w \in Messages
      /\ w # "measurement" /\ w # "reserve"
  BY DEF Receives, Messages
<1>2. /\ result' = q.error /\ pos' = q.pos /\ out' = (IF q.error = "OK" THEN q.got ELSE out)
      /\ UNCHANGED <<document, fault, stream, beyond, section, left, trip>>
  BY DEF Finish
<1>3. /\ IsRead(r) /\ r.pos \in Nat /\ r.error \in ReadCodes
      /\ fault = "none" => /\ r.error = "OK" /\ r.pos = Len(stream)
                           /\ r.got = [x \in Names(MessageFields(w)) |-> v[x]]
      /\ r.error = "OK" /\ fault = "cut" => r.pos > Len(stream)
      /\ r.error = "OK" /\ fault = "extra" => r.pos < Len(stream)
  BY DEF MessageRead
<1>4. /\ q.error \in ReadCodes \cup {"PROTOCOL_MALFORMED"} /\ q.pos = r.pos
      /\ q.error = "OK" => q = r /\ r.pos = Len(stream)
      /\ r.error = "OK" /\ r.pos = Len(stream) => q = r
  BY <1>3, ClosedIs
<1> HIDE DEF q
<1>5. Len(stream) \in Nat
  BY DEF IsStream
<1>6. Kept(document) = v
  BY <1>1 DEF Kept
<1>7. RoundTrip'
  <2> SUFFICES ASSUME fault = "none"
               PROVE  result' = "OK" /\ out' = Kept(document')
    BY <1>1, <1>2 DEF RoundTrip
  <2>1. r.error = "OK" /\ r.pos = Len(stream) /\ r.got = v
    BY <1>3
  <2>2. q = r
    BY <1>4, <2>1
  <2> QED
    BY <1>2, <1>6, <2>1, <2>2
<1>8. DamageIsRefused'
  <2>1. fault = "cut" => result' # "OK"
    BY <1>2, <1>3, <1>4, <1>5
  <2>2. fault = "extra" => result' # "OK"
    BY <1>2, <1>3, <1>4, <1>5
  <2> QED
    BY <1>2, <2>1, <2>2 DEF DamageIsRefused
<1>9. Answered'
  BY <1>7, <1>8 DEF Answered
<1> QED
  BY <1>1, <1>2, <1>3, <1>4, <1>9, CodesAre DEF MessageStep

\* Enough for one of the two that are not.
LEMMA OpenStep ==
    ASSUME IsStream, NEW w \in {"measurement", "reserve"}, NEW v, NEW r, MessageRead(w, v, r),
           Receives(w), document.value = v, NEW value, Finish(r, value),
           r.error = "OK" /\ fault = "none" => value = Kept(document),
           r.error = "OK" /\ w = "reserve" => r.pos <= Len(stream)
    PROVE  MessageStep
<1>1. /\ document.what = w /\ result = "reading" /\ w # "snapshot" /\ w \in Messages
  BY DEF Receives, Messages
<1>2. /\ result' = r.error /\ pos' = r.pos /\ out' = (IF r.error = "OK" THEN value ELSE out)
      /\ UNCHANGED <<document, fault, stream, beyond, section, left, trip>>
  BY DEF Finish
<1>3. /\ r.pos \in Nat /\ r.error \in ReadCodes /\ (fault = "none" => r.error = "OK")
      /\ r.error = "OK" /\ fault = "cut" => r.pos > Len(stream)
  BY DEF MessageRead
<1>4. Len(stream) \in Nat
  BY DEF IsStream
<1>5. RoundTrip'
  <2> SUFFICES ASSUME fault = "none"
               PROVE  result' = "OK" /\ out' = Kept(document')
    BY <1>1, <1>2 DEF RoundTrip
  <2> QED
    BY <1>2, <1>3
<1>6. DamageIsRefused'
  <2>1. fault = "cut" /\ w = "reserve" => result' # "OK"
    BY <1>2, <1>3, <1>4
  <2> QED
    BY <1>1, <1>2, <2>1 DEF DamageIsRefused
<1>7. Answered'
  BY <1>5, <1>6 DEF Answered
<1> QED
  BY <1>1, <1>2, <1>3, <1>7, CodesAre DEF MessageStep

\* read_register reads its message as MessageRead says.
LEMMA RegisterStep ==
    ASSUME IsStream, IsDocument(document), Damaged,
           fault \in {"none", "cut", "extra", "overwritten"}, read_register
    PROVE  MessageStep
<1> DEFINE r == Decode(RegisterFields, 0)
           v == document.value
<1>1. document.what = "register" /\ Receives("register") /\ Finish(Closed(r), Closed(r).got)
  BY DEF read_register, Receives
<1>2. MessageFields("register") = RegisterFields /\ "register" \in Messages
  BY DEF MessageFields, Messages
<1>3. MessageRead("register", v, r)
  BY <1>1, <1>2, MessageIsRead
<1>4. v = [x \in Names(MessageFields("register")) |-> v[x]]
  BY <1>1, <1>2 DEF IsDocument, Fits
<1> QED
  BY <1>1, <1>3, <1>4, ClosedStep

\* read_release reads its message as MessageRead says.
LEMMA ReleaseStep ==
    ASSUME IsStream, IsDocument(document), Damaged,
           fault \in {"none", "cut", "extra", "overwritten"}, read_release
    PROVE  MessageStep
<1> DEFINE r == Decode(ReleaseFields, 0)
           v == document.value
<1>1. document.what = "release" /\ Receives("release") /\ Finish(Closed(r), Closed(r).got)
  BY DEF read_release, Receives
<1>2. MessageFields("release") = ReleaseFields /\ "release" \in Messages
  BY DEF MessageFields, Messages
<1>3. MessageRead("release", v, r)
  BY <1>1, <1>2, MessageIsRead
<1>4. v = [x \in Names(MessageFields("release")) |-> v[x]]
  BY <1>1, <1>2 DEF IsDocument, Fits
<1> QED
  BY <1>1, <1>3, <1>4, ClosedStep

\* read_ack reads its message as MessageRead says.
LEMMA AckStep ==
    ASSUME IsStream, IsDocument(document), Damaged,
           fault \in {"none", "cut", "extra", "overwritten"}, read_ack
    PROVE  MessageStep
<1> DEFINE r == Decode(AckFields, 0)
           v == document.value
<1>1. document.what = "ack" /\ Receives("ack") /\ Finish(Closed(r), Closed(r).got)
  BY DEF read_ack, Receives
<1>2. MessageFields("ack") = AckFields /\ "ack" \in Messages
  BY DEF MessageFields, Messages
<1>3. MessageRead("ack", v, r)
  BY <1>1, <1>2, MessageIsRead
<1>4. v = [x \in Names(MessageFields("ack")) |-> v[x]]
  BY <1>1, <1>2 DEF IsDocument, Fits
<1> QED
  BY <1>1, <1>3, <1>4, ClosedStep

\* The handler of MEASUREMENT reads its message as MessageRead says.
LEMMA MeasurementStep ==
    ASSUME IsStream, IsDocument(document), Damaged,
           fault \in {"none", "cut", "extra", "overwritten"}, ReadMeasurement
    PROVE  MessageStep
<1> DEFINE r == Decode(MeasurementFields, 0)
           v == document.value
           value == IF r.error = "OK" THEN decode_measurement(r.got) ELSE r.got
<1>1. document.what = "measurement" /\ Receives("measurement") /\ Finish(r, value)
  BY DEF ReadMeasurement, Receives
<1>2. MessageFields("measurement") = MeasurementFields /\ "measurement" \in Messages
  BY DEF MessageFields, Messages
<1>3. MessageRead("measurement", v, r)
  BY <1>1, <1>2, MessageIsRead
<1>4. r.error = "OK" /\ fault = "none" => value = Kept(document)
  <2> SUFFICES ASSUME r.error = "OK", fault = "none"
               PROVE  value = Kept(document)
    OBVIOUS
  <2>1. IsMeasurement(v)
    BY <1>1 DEF IsDocument
  <2>2. r.got = [x \in Names(MeasurementFields) |-> v[x]]
    BY <1>2, <1>3 DEF MessageRead
  <2>3. decode_measurement(r.got) = KeptMeasurement(v)
    BY <2>1, <2>2, MeasurementBack
  <2>4. Kept(document) = KeptMeasurement(v)
    BY <1>1 DEF Kept
  <2> QED
    BY <2>3, <2>4
<1> HIDE DEF value
<1> QED
  BY <1>1, <1>3, <1>4, OpenStep

\* The handler of RESERVE reads its message as MessageRead says.
LEMMA ReserveStep ==
    ASSUME IsStream, IsDocument(document), Damaged,
           fault \in {"none", "cut", "extra", "overwritten"}, ReadReserve
    PROVE  MessageStep
<1> DEFINE r == Decode(ReservationFields, 0)
           v == document.value
           value == IF r.error = "OK" THEN decode_reservation(r.got) ELSE r.got
<1>1. document.what = "reserve" /\ Receives("reserve") /\ Finish(r, value)
  BY DEF ReadReserve, Receives
<1>2. MessageFields("reserve") = ReservationFields /\ "reserve" \in Messages
  BY DEF MessageFields, Messages
<1>3. MessageRead("reserve", v, r)
  BY <1>1, <1>2, MessageIsRead
<1>4. r.error = "OK" /\ fault = "none" => value = Kept(document)
  <2> SUFFICES ASSUME r.error = "OK", fault = "none"
               PROVE  value = Kept(document)
    OBVIOUS
  <2>1. IsReservation(v)
    BY <1>1 DEF IsDocument
  <2>2. r.got = [x \in Names(ReservationFields) |-> v[x]]
    BY <1>2, <1>3 DEF MessageRead
  <2>3. decode_reservation(r.got) = KeptReservation(v)
    BY <2>1, <2>2, ReservationBack
  <2>4. Kept(document) = KeptReservation(v)
    BY <1>1 DEF Kept
  <2> QED
    BY <2>3, <2>4
<1>5. r.error = "OK" => r.pos <= Len(stream)
  <2>1. /\ Len(ReservationFields) = 20
        /\ ReservationFields[20].kind = "flag"
    BY DEF ReservationFields, U, Field
  <2>2. 0 \in Nat /\ Len(ReservationFields) > 0
        /\ ReservationFields[Len(ReservationFields)].kind \notin {"text", "bdf"}
    BY <2>1
  <2> HIDE DEF r
  <2> QED
    BY <2>2, ReservationFieldList, DecodeEndsWithin DEF r
<1> HIDE DEF value
<1> QED
  BY <1>1, <1>3, <1>4, <1>5, OpenStep

-----------------------------------------------------------------------------
(* The inductive invariant *)

Faults == {"none", "cut", "extra", "overwritten"}

Typed ==
    /\ IsStream /\ pos \in Nat /\ result \in Codes /\ trip \in 1 .. 2
    /\ section \in 0 .. 5 /\ left \in 0 .. MaxCount /\ (section = 0 => left = 0)
    /\ fault \in Faults /\ IsDocument(document)
    /\ document.what # "snapshot" => section = 0

\* A list that deserialize has built.
IsBuilt(k, l) ==
    /\ IsListOf(k, l)
    /\ \A i \in 1 .. Len(l) : KeptElement(k, l[i]) = l[i]
    /\ k < 5 => Distinct(l)

IsOut(o) ==
    /\ o = [x \in DOMAIN Nothing |-> o[x]]
    /\ o.sequence \in Nat /\ o.epoch \in Nat

\* What deserialize has decoded would be a snapshot, and stays one.
Gathered ==
    document.what = "snapshot" =>
        /\ IsOut(out)
        /\ \A k \in 1 .. 5 :
              /\ IsBuilt(k, out[Lists[k]])
              /\ k = section => Len(out[Lists[k]]) + left <= MaxCount
              /\ k > section => out[Lists[k]] = <<>>
        /\ section > 0 => pos > 0
        /\ result = "OK" => section = 5 /\ left = 0 /\ pos = Len(stream)

\* Unless a unit was overwritten, the reader is where the writer was.
Placed ==
    document.what = "snapshot" /\ fault # "overwritten" /\ result \in {"reading", "OK"} =>
        LET s == document.value IN
        IF section = 0 THEN pos \in {0, Edge(s)[3]}
        ELSE LET n == Len(s[Lists[section]]) IN
             left <= n /\ pos = Spot(s, section)[n - left]

\* How many elements of list k have been read.
Done(k) ==
    LET n == Len(document.value[Lists[k]]) IN
    IF k < section THEN n ELSE IF k = section THEN n - left ELSE 0

\* If nothing was damaged, what was read is what is kept of what was written.
Returned ==
    document.what = "snapshot" /\ fault = "none" =>
        /\ pos > 0 => out.sequence = document.value.sequence /\ out.epoch = document.value.epoch
        /\ \A k \in 1 .. 5 :
              /\ Len(out[Lists[k]]) = Done(k)
              /\ \A i \in 1 .. Done(k) :
                    out[Lists[k]][i] = KeptElement(k, document.value[Lists[k]][i])
        /\ result \notin {"reading", "OK"} =>
              TooLong \/ (result = "DUPLICATE_IDENTITY" /\ Len(document.value.nodes) > 1)

\* What is written for the second time has nothing more to lose.
Second ==
    trip = 2 =>
        /\ fault = "none" /\ document.what = "snapshot" /\ Len(document.value.nodes) <= 1
        /\ \A k \in 1 .. 5 : IsBuilt(k, document.value[Lists[k]])

CodecInvariant == Typed /\ Damaged /\ Answered /\ Gathered /\ Placed /\ Returned /\ Second

-----------------------------------------------------------------------------
(* Init establishes the invariant *)

\* What is written is a sequence of units.
LEMMA WrittenIsStream ==
    ASSUME NEW d, IsDocument(d)
    PROVE  Written(d) \in Seq(Nat)
<1>1. CASE d.what = "snapshot"
  <2>1. Written(d) = serialize(d.value)
    BY <1>1 DEF Written
  <2>2. IsSnapshot(d.value)
    BY <1>1 DEF IsDocument
  <2> QED
    BY <2>1, <2>2, EdgeOf
<1>2. CASE d.what # "snapshot"
  <2>1. d.what \in Messages
    BY <1>2 DEF IsDocument, Messages
  <2>2. /\ Written(d) = FlattenSeq(MessageParts(d.what, d.value))
        /\ MessageParts(d.what, d.value) \in Seq(Seq(Nat))
    BY <2>1, MessageWritten DEF Wrote
  <2> QED
    BY <2>2, FlatIsLaid
<1> QED
  BY <1>1, <1>2

\* An empty list is one that deserialize could have built.
LEMMA EmptyIsBuilt == \A k \in 1 .. 5 : IsBuilt(k, <<>>)
<1> SUFFICES ASSUME NEW k \in 1 .. 5 PROVE IsBuilt(k, <<>>)
  OBVIOUS
<1> DEFINE l == <<>>
<1>1. Len(l) = 0 /\ l = [i \in 1 .. 0 |-> l[i]] /\ 1 .. 0 = {} /\ DOMAIN l = {}
  OBVIOUS
<1> HIDE DEF l
<1>2. IsBuilt(k, l)
  BY <1>1, CodecAssumption DEF IsBuilt, IsListOf, Distinct
<1> QED
  BY <1>2 DEF l

\* Before anything was read.
LEMMA StartsWell ==
    ASSUME IsDocument(document), fault \in Faults, IsStream, trip = 1, Damaged,
           pos = 0, section = 0, left = 0, out = Nothing, result = "reading"
    PROVE  CodecInvariant
<1>1. MaxCount \in Nat
  BY CodecAssumption
<1>2. Typed
  BY <1>1 DEF Typed, Codes
<1>3. Answered
  BY DEF Answered, RoundTrip, DamageIsRefused
<1>4. \A k \in 1 .. 5 : Nothing[Lists[k]] = <<>>
  <2>1. \A k \in 1 .. 5 : k \in {1, 2, 3, 4, 5}
    OBVIOUS
  <2> QED
    BY <2>1, ListNames DEF Nothing
<1>5. Gathered
  <2>1. IsOut(Nothing)
    BY DEF IsOut, Nothing
  <2>2. \A k \in 1 .. 5 : IsBuilt(k, <<>>)
    BY EmptyIsBuilt
  <2> QED
    BY <1>4, <2>1, <2>2 DEF Gathered
<1>6. Placed
  BY DEF Placed
<1>7. Returned
  <2>1. \A k \in 1 .. 5 : Done(k) = 0
    BY DEF Done
  <2> QED
    BY <1>4, <2>1 DEF Returned
<1>8. Second
  BY DEF Second
<1> QED
  BY <1>2, <1>3, <1>5, <1>6, <1>7, <1>8 DEF CodecInvariant

\* The invariant holds of every document, before anything of it is read.
LEMMA CodecInit ==
    ASSUME Init
    PROVE  CodecInvariant
<1>1. PICK d \in Document :
         LET s == Written(d) IN
          \/ Start(d, "none", s)
          \/ \E n \in 0 .. Len(s) - 1 : Start(d, "cut", SubSeq(s, 1, n))
          \/ \E v \in Garbage : Start(d, "extra", Append(s, v))
          \/ \E i \in DOMAIN s, v \in Garbage :
                s[i] # v /\ Start(d, "overwritten", [s EXCEPT ![i] = v])
  BY DEF Init
<1>2. beyond \in Nat /\ trip = 1 /\ IsDocument(d) /\ Garbage \subseteq Nat
  BY CodecAssumption DEF Init
<1> DEFINE s == Written(d)
<1>3. s \in Seq(Nat) /\ Len(s) \in Nat /\ DOMAIN s = 1 .. Len(s)
  BY <1>2, WrittenIsStream
<1> HIDE DEF s
<1>4. /\ document = d /\ pos = 0 /\ section = 0 /\ left = 0 /\ out = Nothing
      /\ result = "reading" /\ fault \in Faults
  BY <1>1 DEF Start, Faults
<1>5. stream \in Seq(Nat) /\ Damaged
  <2>1. CASE Start(d, "none", s)
    <3>1. fault = "none" /\ stream = s
      BY <2>1 DEF Start
    <3>2. Agrees(s)
      BY <1>3, <3>1 DEF Agrees
    <3> QED
      BY <1>3, <1>4, <3>1, <3>2 DEF Damaged, s
  <2>2. CASE \E n \in 0 .. Len(s) - 1 : Start(d, "cut", SubSeq(s, 1, n))
    <3>1. PICK n \in 0 .. Len(s) - 1 : fault = "cut" /\ stream = SubSeq(s, 1, n)
      BY <2>2 DEF Start
    <3>2. n \in Nat /\ n < Len(s)
      BY <1>3
    <3>3. /\ SubSeq(s, 0 + 1, 0 + n) \in Seq(Nat) /\ Len(SubSeq(s, 0 + 1, 0 + n)) = n
          /\ \A i \in 1 .. n : SubSeq(s, 0 + 1, 0 + n)[i] = s[0 + i]
      BY <1>3, <3>2, PieceOf
    <3>4. 0 + 1 = 1 /\ 0 + n = n /\ \A i \in 1 .. n : 0 + i = i
      BY <3>2
    <3>5. stream \in Seq(Nat) /\ Len(stream) = n /\ \A i \in 1 .. n : stream[i] = s[i]
      BY <3>1, <3>3, <3>4
    <3>6. Agrees(s)
      BY <1>3, <3>5 DEF Agrees
    <3> QED
      BY <1>4, <3>1, <3>2, <3>5, <3>6 DEF Damaged, s
  <2>3. CASE \E v \in Garbage : Start(d, "extra", Append(s, v))
    <3>1. PICK v \in Garbage : fault = "extra" /\ stream = Append(s, v)
      BY <2>3 DEF Start
    <3>2. v \in Nat
      BY <1>2
    <3>3. /\ stream \in Seq(Nat) /\ Len(stream) = Len(s) + 1
          /\ \A i \in 1 .. Len(s) : stream[i] = s[i]
      BY <1>3, <3>1, <3>2
    <3>4. Agrees(s)
      BY <1>3, <3>3 DEF Agrees
    <3> QED
      BY <1>4, <3>1, <3>3, <3>4 DEF Damaged, s
  <2>4. CASE \E i \in DOMAIN s, v \in Garbage :
                s[i] # v /\ Start(d, "overwritten", [s EXCEPT ![i] = v])
    <3>1. PICK i \in DOMAIN s, v \in Garbage : fault = "overwritten" /\ stream = [s EXCEPT ![i] = v]
      BY <2>4 DEF Start
    <3>2. v \in Nat
      BY <1>2
    <3>3. stream \in Seq(Nat)
      BY <1>3, <3>1, <3>2
    <3> QED
      BY <3>1, <3>3 DEF Damaged
  <2> QED
    BY <1>1, <2>1, <2>2, <2>3, <2>4 DEF s
<1>6. IsStream
  BY <1>2, <1>5 DEF IsStream
<1> QED
  BY <1>2, <1>4, <1>5, <1>6, StartsWell

-----------------------------------------------------------------------------
(* The steps that end the reading *)

\* A message's reader preserves the invariant.
LEMMA MessagePreserves ==
    ASSUME CodecInvariant, MessageStep
    PROVE  CodecInvariant'
<1>1. document.what \in Messages /\ document.what # "snapshot"
  BY DEF MessageStep, Messages
<1>2. trip # 2
  BY <1>1 DEF CodecInvariant, Second
<1>3. UNCHANGED <<document, fault, stream, beyond, section, left, trip>>
  BY DEF MessageStep
<1>4. Typed'
  BY <1>3 DEF MessageStep, CodecInvariant, Typed, IsStream
<1>5. Damaged'
  BY <1>3 DEF CodecInvariant, Damaged, Agrees
<1>6. Gathered' /\ Placed' /\ Returned'
  BY <1>1, <1>3 DEF Gathered, Placed, Returned
<1>7. Second'
  BY <1>2, <1>3 DEF Second
<1> QED
  BY <1>4, <1>5, <1>6, <1>7 DEF CodecInvariant, MessageStep

\* What deserialize refuses, and when it is right to.
Refusal(code) ==
    /\ code \in Codes \ {"reading", "OK"}
    /\ fault = "none" => \/ code = "PROTOCOL_OVERFLOW" /\ Len(stream) > StringWindow
                         \/ code = "DUPLICATE_IDENTITY" /\ Len(document.value.nodes) > 1

\* A refusal preserves the invariant: deserialize returns the error, and no snapshot.
LEMMA RefusalPreserves ==
    ASSUME CodecInvariant, Deserializing, NEW code, Refusal(code), Ends(code)
    PROVE  CodecInvariant'
<1>1. /\ result' = code
      /\ UNCHANGED <<document, fault, stream, beyond, pos, section, left, out, trip>>
  BY DEF Ends
<1>2. document.what = "snapshot" /\ document.what \notin Messages /\ result = "reading"
      /\ code # "reading" /\ code # "OK" /\ code \in Codes
  BY DEF Deserializing, Messages, Refusal
<1>3. Typed'
  BY <1>1, <1>2 DEF CodecInvariant, Typed, IsStream
<1>4. Damaged'
  BY <1>1 DEF CodecInvariant, Damaged, Agrees
<1>5. Answered'
  BY <1>1, <1>2 DEF Answered
<1>6. Gathered'
  BY <1>1, <1>2 DEF CodecInvariant, Gathered
<1>7. Placed'
  BY <1>1, <1>2 DEF Placed
<1>8. Returned'
  <2>1. \A k \in 1 .. 5 : Done(k)' = Done(k)
    BY <1>1 DEF Done
  <2>2. fault = "none" => TooLong' \/ (result' = "DUPLICATE_IDENTITY"
                                       /\ Len(document'.value.nodes) > 1)
    BY <1>1 DEF Refusal, TooLong
  <2> QED
    BY <1>1, <1>2, <2>1, <2>2 DEF CodecInvariant, Returned
<1>9. Second'
  BY <1>1 DEF CodecInvariant, Second
<1> QED
  BY <1>3, <1>4, <1>5, <1>6, <1>7, <1>8, <1>9 DEF CodecInvariant

\* deserialize returns only with all lists read and nothing behind them.
LEMMA AcceptancePreserves ==
    ASSUME CodecInvariant, Deserializing, section = 5, left = 0, pos = Len(stream), Ends("OK")
    PROVE  CodecInvariant'
<1>1. /\ result' = "OK"
      /\ UNCHANGED <<document, fault, stream, beyond, pos, section, left, out, trip>>
  BY DEF Ends
<1>2. document.what = "snapshot" /\ document.what \notin Messages /\ result = "reading"
  BY DEF Deserializing, Messages
<1>3. Typed'
  BY <1>1, <1>2 DEF CodecInvariant, Typed, IsStream, Codes
<1>4. Damaged'
  BY <1>1 DEF CodecInvariant, Damaged, Agrees
<1>5. Answered'
  BY <1>1, <1>2 DEF Answered
<1>6. Gathered'
  BY <1>1, <1>2 DEF CodecInvariant, Gathered
<1>7. Placed'
  BY <1>1, <1>2 DEF CodecInvariant, Placed
<1>8. Returned'
  <2>1. \A k \in 1 .. 5 : Done(k)' = Done(k)
    BY <1>1 DEF Done
  <2> QED
    BY <1>1, <1>2, <2>1 DEF CodecInvariant, Returned
<1>9. Second'
  BY <1>1 DEF CodecInvariant, Second
<1> QED
  BY <1>3, <1>4, <1>5, <1>6, <1>7, <1>8, <1>9 DEF CodecInvariant

\* Where the reader is when nothing was overwritten.
LEMMA ReaderIsAt ==
    ASSUME Typed, Placed, Deserializing, fault # "overwritten"
    PROVE  /\ section = 0 => pos \in {0, Edge(document.value)[3]}
           /\ section # 0 =>
                 /\ left <= Len(document.value[Lists[section]])
                 /\ pos = Spot(document.value, section)
                             [Len(document.value[Lists[section]]) - left]
  BY DEF Placed, Deserializing

\* What deserialize reads was, before any damage, what serialize wrote.
LEMMA SnapshotWritten ==
    ASSUME Typed, Deserializing
    PROVE  IsSnapshot(document.value) /\ Written(document) = serialize(document.value)
  BY DEF Typed, Deserializing, IsDocument, Written

\* The end of a list is the beginning of the next section.
LEMMA ListEnds ==
    ASSUME Typed, Placed, Deserializing, fault # "overwritten", left = 0, pos > 0
    PROVE  pos = Edge(document.value)[3 + section]
<1> DEFINE s == document.value
           n == Len(s[Lists[section]])
<1>1. IsSnapshot(s)
  BY SnapshotWritten
<1>2. CASE section = 0
  BY <1>2, ReaderIsAt
<1>3. CASE section # 0
  <2>1. section \in 1 .. 5
    BY <1>3 DEF Typed
  <2>2. SpotsHold(s, section) /\ IsListOf(section, s[Lists[section]])
    BY <1>1, <2>1, SpotOf, SnapshotLists
  <2>3. n - left = n
    BY <2>2, CodecAssumption DEF IsListOf
  <2>4. pos = Spot(s, section)[n]
    BY <1>3, <2>3, ReaderIsAt
  <2> QED
    BY <2>2, <2>4 DEF SpotsHold
<1> QED
  BY <1>2, <1>3

\* The invariant is preserved by deserialize's require_end.
LEMMA EndPreserves ==
    ASSUME CodecInvariant, RequireEnd
    PROVE  CodecInvariant'
<1> DEFINE q == Reading(pos)
           code == Closed(q).error
<1>1. Deserializing /\ section = 5 /\ left = 0 /\ Ends(code)
  BY ListNames DEF RequireEnd
<1>2. IsStream /\ pos \in Nat /\ Typed /\ Placed
  BY DEF CodecInvariant, Typed
<1>3. IsRead(q) /\ q.pos = pos /\ q.error = "OK" /\ q.error \in ReadCodes
  BY DEF Reading, IsRead, ReadCodes
<1> HIDE DEF q
<1>4. CASE pos = Len(stream)
  <2>1. code = "OK"
    BY <1>2, <1>3, <1>4, ClosedIs
  <2> QED
    BY <1>1, <1>4, <2>1, AcceptancePreserves
<1>5. CASE pos # Len(stream)
  <2>1. code = "PROTOCOL_MALFORMED"
    BY <1>3, <1>5, FailsIs DEF Closed
  <2>2. fault # "none"
    <3> SUFFICES ASSUME fault = "none" PROVE FALSE
      OBVIOUS
    <3>1. stream = serialize(document.value) /\ IsSnapshot(document.value)
      BY <1>1, <1>2, SnapshotWritten DEF CodecInvariant, Damaged
    <3>2. pos > 0
      BY <1>1 DEF CodecInvariant, Gathered, Deserializing
    <3>3. pos = Edge(document.value)[3 + section] /\ 3 + section = 8
      BY <1>1, <1>2, <3>2, ListEnds
    <3>4. Edge(document.value)[8] = Len(serialize(document.value))
      BY <3>1, EdgeOf
    <3> QED
      BY <1>5, <3>1, <3>3, <3>4
  <2>3. Refusal(code)
    BY <2>1, <2>2 DEF Refusal, Codes
  <2> HIDE DEF code
  <2> QED
    BY <1>1, <2>3, RefusalPreserves
<1> QED
  BY <1>4, <1>5

-----------------------------------------------------------------------------
(* The header and the counts preserve the invariant *)

\* The fields of an empty snapshot.
LEMMA NothingHas ==
    /\ "sequence" \in DOMAIN Nothing /\ "epoch" \in DOMAIN Nothing
    /\ \A k \in 1 .. 5 : /\ Lists[k] \in DOMAIN Nothing /\ Lists[k] # "sequence"
                         /\ Lists[k] # "epoch"
                         /\ \A j \in 1 .. 5 : Lists[j] = Lists[k] => j = k
<1>1. \A k \in 1 .. 5 : k \in {1, 2, 3, 4, 5}
  OBVIOUS
<1>2. DOMAIN Nothing =
        {"sequence", "epoch", "nodes", "paths", "measurements", "reservations", "policies"}
  BY DEF Nothing
<1> QED
  BY <1>1, <1>2, ListNames

\* A code of the reader that is not OK ends the reading.
LEMMA CodeIsRefusal ==
    ASSUME NEW code \in ReadCodes, code # "OK"
    PROVE  code \in Codes \ {"reading", "OK"}
  BY DEF ReadCodes, Codes

\* What the header changes of what was decoded.
HeaderOut(x, y) == [out EXCEPT !.sequence = x, !.epoch = y]

\* Storing the header changes nothing else of what was decoded.
LEMMA HeaderOutIs ==
    ASSUME IsOut(out), NEW x \in Nat, NEW y \in Nat
    PROVE  /\ IsOut(HeaderOut(x, y))
           /\ HeaderOut(x, y).sequence = x /\ HeaderOut(x, y).epoch = y
           /\ \A k \in 1 .. 5 : HeaderOut(x, y)[Lists[k]] = out[Lists[k]]
<1> DEFINE D == DOMAIN Nothing
           h == HeaderOut(x, y)
<1>1. out = [z \in D |-> out[z]]
  BY DEF IsOut
<1>2. "sequence" \in D /\ "epoch" \in D
  BY NothingHas
<1> HIDE DEF D
<1>3. h = [z \in D |-> IF z = "sequence" THEN x ELSE IF z = "epoch" THEN y ELSE out[z]]
  BY <1>1, <1>2 DEF HeaderOut
<1> HIDE DEF h
<1>4. h = [z \in D |-> h[z]] /\ h.sequence = x /\ h.epoch = y
  BY <1>2, <1>3
<1>5. \A k \in 1 .. 5 : h[Lists[k]] = out[Lists[k]]
  BY <1>3, NothingHas DEF D
<1> QED
  BY <1>4, <1>5 DEF IsOut, D, h

\* A header that is accepted preserves the invariant.
LEMMA HeaderPassed ==
    ASSUME CodecInvariant, Deserializing, section = 0, pos = 0,
           NEW r, r = Decode(HeaderFields, 0), r.error = "OK",
           Continue(r, 0, 0, HeaderOut(r.got.sequence, r.got.epoch))
    PROVE  CodecInvariant'
<1> DEFINE s == document.value
           h == HeaderOut(r.got.sequence, r.got.epoch)
<1>1. /\ pos' = r.pos /\ section' = 0 /\ left' = 0 /\ out' = h
      /\ UNCHANGED <<document, fault, stream, beyond, result, trip>>
  BY DEF Continue
<1>2. /\ document.what = "snapshot" /\ document.what \notin Messages /\ result = "reading"
  BY DEF Deserializing, Messages
<1>3. IsStream /\ Typed /\ left = 0 /\ Damaged /\ Gathered /\ Returned /\ Second /\ Placed
  BY DEF CodecInvariant, Typed
<1>4. r.pos \in Nat /\ r.pos > 0 /\ r.got.sequence \in Nat /\ r.got.epoch \in Nat
  BY <1>3, HeaderIsRead
<1>5. IsOut(out)
  BY <1>2, <1>3 DEF Gathered
<1>6. /\ IsOut(h) /\ h.sequence = r.got.sequence /\ h.epoch = r.got.epoch
      /\ \A k \in 1 .. 5 : h[Lists[k]] = out[Lists[k]]
  BY <1>4, <1>5, HeaderOutIs
<1> HIDE DEF h
<1>7. Typed'
  BY <1>1, <1>2, <1>3, <1>4 DEF Typed, IsStream
<1>8. Damaged'
  BY <1>1, <1>3 DEF Damaged, Agrees
<1>9. Answered'
  BY <1>1, <1>2 DEF Answered
<1>10. Gathered'
  BY <1>1, <1>2, <1>3, <1>6 DEF Gathered
<1>11. IsSnapshot(s) /\ Written(document) = serialize(s)
  BY <1>3, SnapshotWritten
<1>12. Placed'
  <2>1. ASSUME fault # "overwritten" PROVE r.pos = Edge(s)[3]
    <3>1. Agrees(serialize(s))
      BY <1>3, <1>11, <2>1 DEF Damaged
    <3> QED
      BY <1>3, <1>11, <3>1, HeaderIsPlaced
  <2> QED
    BY <1>1, <2>1 DEF Placed
<1>13. Returned'
  <2>1. \A k \in 1 .. 5 : Done(k)' = Done(k)
    BY <1>1, <1>3 DEF Done
  <2>2. ASSUME fault = "none" PROVE h.sequence = s.sequence /\ h.epoch = s.epoch
    <3>1. stream = serialize(s)
      BY <1>3, <1>11, <2>2 DEF Damaged
    <3> QED
      BY <1>3, <1>6, <1>11, <3>1, HeaderComesBack
  <2> QED
    BY <1>1, <1>2, <1>3, <1>6, <2>1, <2>2 DEF Returned
<1>14. Second'
  BY <1>1, <1>3 DEF Second
<1> QED
  BY <1>7, <1>8, <1>9, <1>10, <1>12, <1>13, <1>14 DEF CodecInvariant

\* The invariant is preserved by deserialize's magic, sequence and epoch.
LEMMA HeaderPreserves ==
    ASSUME CodecInvariant, ReadHeader
    PROVE  CodecInvariant'
<1> DEFINE r == Decode(HeaderFields, 0)
           m == Decode(MagicFields, 0)
           s == document.value
           wrong == m.error = "OK" /\ m.got.magic # Magic
           h == IF r.error = "OK" THEN HeaderOut(r.got.sequence, r.got.epoch) ELSE out
<1>1. /\ Deserializing /\ section = 0 /\ pos = 0
      /\ IF wrong THEN Ends("PROTOCOL_MALFORMED") ELSE Continue(r, 0, 0, h)
  BY DEF ReadHeader, HeaderFields, MagicFields, HeaderOut
<1>2. IsStream /\ Typed
  BY DEF CodecInvariant, Typed
<1>3. ASSUME fault = "none"
      PROVE  ~wrong /\ (r.error # "OK" => /\ r.error = "PROTOCOL_OVERFLOW"
                                          /\ Len(stream) > StringWindow)
  <2>1. stream = serialize(s) /\ IsSnapshot(s)
    BY <1>1, <1>2, <1>3, SnapshotWritten DEF CodecInvariant, Damaged
  <2> QED
    BY <1>2, <2>1, HeaderComesBack
<1>4. r.error \in ReadCodes
  BY <1>2, HeaderIsRead
<1>5. CASE wrong
  <2>1. Refusal("PROTOCOL_MALFORMED")
    BY <1>3, <1>5 DEF Refusal, Codes
  <2> QED
    BY <1>1, <1>5, <2>1, RefusalPreserves
<1>6. CASE ~wrong /\ r.error # "OK"
  <2>1. Ends(r.error)
    BY <1>1, <1>6 DEF Continue
  <2>2. Refusal(r.error)
    BY <1>3, <1>4, <1>6, CodeIsRefusal DEF Refusal
  <2> QED
    BY <1>1, <2>1, <2>2, RefusalPreserves
<1>7. CASE ~wrong /\ r.error = "OK"
  <2>1. Continue(r, 0, 0, HeaderOut(r.got.sequence, r.got.epoch))
    BY <1>1, <1>7
  <2> QED
    BY <1>1, <1>7, <2>1, HeaderPassed
<1> QED
  BY <1>5, <1>6, <1>7

\* The count of the list that comes next.
LEMMA CountIsNext ==
    ASSUME CodecInvariant, Deserializing, pos > 0, left = 0, section < 5, fault # "overwritten"
    PROVE  LET s == document.value
               k == section + 1
               n == Len(s[Lists[k]])
           IN  /\ k \in 1 .. 5 /\ n \in 0 .. MaxCount /\ pos + 1 = Spot(s, k)[0]
               /\ pos + 1 <= Len(stream) => stream[pos + 1] = n
               /\ fault = "none" => pos + 1 <= Len(stream)
<1> DEFINE s == document.value
           k == section + 1
           n == Len(s[Lists[k]])
<1>1. IsStream /\ Typed /\ Placed /\ Damaged /\ pos \in Nat /\ section \in 0 .. 5
  BY DEF CodecInvariant, Typed
<1>2. IsSnapshot(s) /\ Written(document) = serialize(s)
  BY <1>1, SnapshotWritten
<1>3. k \in 1 .. 5 /\ 2 + k = 3 + section
  BY <1>1
<1>4. pos = Edge(s)[2 + k]
  BY <1>1, <1>3, ListEnds
<1>5. n \in 0 .. MaxCount /\ SpotsHold(s, k)
  BY <1>2, <1>3, SpotOf, SnapshotLists DEF IsListOf
<1>6. HoldsAt(serialize(s), pos, <<n>>) /\ Spot(s, k)[0] = pos + 1
  BY <1>4, <1>5 DEF SpotsHold
<1>7. Agrees(serialize(s)) /\ (fault = "none" => stream = serialize(s))
  BY <1>1, <1>2 DEF Damaged
<1>8. pos + 1 <= Len(stream) => stream[pos + 1] = n
  BY <1>1, <1>6, <1>7, CountComesBack
<1>9. fault = "none" => pos + 1 <= Len(stream)
  <2> DEFINE u == <<n>>
  <2>1. Len(u) = 1
    OBVIOUS
  <2> HIDE DEF u
  <2> QED
    BY <1>6, <1>7, <2>1 DEF HoldsAt, u
<1> QED
  BY <1>3, <1>5, <1>6, <1>8, <1>9

\* A count that is accepted preserves the invariant.
LEMMA CountPassed ==
    ASSUME CodecInvariant, Deserializing, pos > 0, left = 0, section < 5,
           NEW r, r = Decode(CountFields, pos), r.error = "OK", r.got.count <= MaxCount,
           Continue(r, section + 1, r.got.count, out)
    PROVE  CodecInvariant'
<1> DEFINE s == document.value
           k == section + 1
           n == r.got.count
<1>1. /\ pos' = r.pos /\ section' = k /\ left' = n /\ out' = out
      /\ UNCHANGED <<document, fault, stream, beyond, result, trip>>
  BY DEF Continue
<1>2. document.what = "snapshot" /\ document.what \notin Messages /\ result = "reading"
  BY DEF Deserializing, Messages
<1>3. /\ IsStream /\ Typed /\ Damaged /\ Gathered /\ Returned /\ Second /\ Placed
      /\ pos \in Nat /\ section \in 0 .. 5
  BY DEF CodecInvariant, Typed
<1>4. r.pos = pos + 1 /\ pos + 1 <= Len(stream) /\ n = stream[pos + 1] /\ n \in Nat
  BY <1>3, CountIsRead
<1>5. k \in 1 .. 5 /\ n \in 0 .. MaxCount /\ MaxCount \in Nat
  BY <1>3, <1>4, CodecAssumption
<1>6. fault # "overwritten" => n = Len(s[Lists[k]]) /\ pos + 1 = Spot(s, k)[0]
  BY <1>4, CountIsNext
<1> HIDE DEF n
<1>7. Typed'
  BY <1>1, <1>2, <1>3, <1>4, <1>5 DEF Typed, IsStream
<1>8. Damaged'
  BY <1>1, <1>3 DEF Damaged, Agrees
<1>9. Answered'
  BY <1>1, <1>2 DEF Answered
<1>10. Gathered'
  <2>1. IsOut(out)
    BY <1>2, <1>3 DEF Gathered
  <2>2. ASSUME NEW j \in 1 .. 5
        PROVE  /\ IsBuilt(j, out[Lists[j]])
               /\ j = k => Len(out[Lists[j]]) + n <= MaxCount
               /\ j > k => out[Lists[j]] = <<>>
    <3>1. IsBuilt(j, out[Lists[j]]) /\ (j > section => out[Lists[j]] = <<>>)
      BY <1>2, <1>3 DEF Gathered
    <3>2. j >= k => out[Lists[j]] = <<>>
      BY <1>3, <3>1
    <3>3. Len(<<>>) = 0
      OBVIOUS
    <3> QED
      BY <1>3, <1>5, <3>1, <3>2, <3>3
  <2>3. pos' > 0
    BY <1>1, <1>3, <1>4
  <2> QED
    BY <1>1, <1>2, <2>1, <2>2, <2>3 DEF Gathered
<1>11. Placed'
  <2>1. fault # "overwritten" =>
           n <= Len(s[Lists[k]]) /\ r.pos = Spot(s, k)[Len(s[Lists[k]]) - n]
    BY <1>4, <1>5, <1>6
  <2>2. k # 0
    BY <1>5
  <2> QED
    BY <1>1, <2>1, <2>2 DEF Placed
<1>12. Returned'
  <2>1. ASSUME fault = "none", NEW j \in 1 .. 5 PROVE Done(j)' = Done(j)
    <3>1. n = Len(s[Lists[k]]) /\ n \in Nat
      BY <1>5, <1>6, <2>1
    <3>2. Len(s[Lists[j]]) \in Nat
      <4>1. IsSnapshot(s)
        BY <1>3, SnapshotWritten
      <4> QED
        BY <4>1, SnapshotLists, CodecAssumption DEF IsListOf
    <3>3. CASE j < section
      BY <1>1, <1>3, <3>3 DEF Done
    <3>4. CASE j = section
      BY <1>1, <1>3, <3>2, <3>4 DEF Done
    <3>5. CASE j = k
      BY <1>1, <1>3, <3>1, <3>5 DEF Done
    <3>6. CASE j > k
      BY <1>1, <1>3, <3>6 DEF Done
    <3> QED
      BY <1>3, <3>3, <3>4, <3>5, <3>6
  <2> QED
    BY <1>1, <1>2, <1>3, <1>4, <2>1 DEF Returned
<1>13. Second'
  BY <1>1, <1>3 DEF Second
<1> QED
  BY <1>7, <1>8, <1>9, <1>10, <1>11, <1>12, <1>13 DEF CodecInvariant

\* The invariant is preserved by deserialize's five counts and their limit.
LEMMA CountPreserves ==
    ASSUME CodecInvariant, ReadCount
    PROVE  CodecInvariant'
<1> DEFINE r == Decode(CountFields, pos)
           n == IF r.error = "OK" THEN r.got.count ELSE 0
<1>1. /\ Deserializing /\ pos > 0 /\ left = 0 /\ section < 5
      /\ IF r.error = "OK" /\ r.got.count > MaxCount THEN Ends("PROTOCOL_OVERFLOW")
         ELSE Continue(r, section + 1, n, out)
  BY ListNames DEF ReadCount, CountFields
<1>2. IsStream /\ Typed /\ pos \in Nat /\ MaxCount \in Nat
  BY CodecAssumption DEF CodecInvariant, Typed
<1>3. \/ r.error = "TRUNCATED" /\ pos + 1 > Len(stream)
      \/ /\ r.error = "OK" /\ r.pos = pos + 1 /\ pos + 1 <= Len(stream)
         /\ r.got.count = stream[pos + 1] /\ r.got.count \in Nat
  BY <1>2, CountIsRead
<1>4. ASSUME fault = "none"
      PROVE  r.error = "OK" /\ r.got.count <= MaxCount
  <2>1. pos + 1 <= Len(stream) /\ stream[pos + 1] \in 0 .. MaxCount
    BY <1>1, <1>4, CountIsNext
  <2>2. Len(stream) \in Nat
    BY <1>2 DEF IsStream
  <2> QED
    BY <1>2, <1>3, <2>1, <2>2
<1> HIDE DEF r
<1>5. CASE r.error = "OK" /\ r.got.count > MaxCount
  <2>1. fault # "none"
    BY <1>2, <1>3, <1>4, <1>5
  <2>2. Refusal("PROTOCOL_OVERFLOW")
    BY <2>1 DEF Refusal, Codes
  <2> QED
    BY <1>1, <1>5, <2>2, RefusalPreserves
<1>6. CASE r.error # "OK"
  <2>1. r.error = "TRUNCATED" /\ fault # "none"
    BY <1>3, <1>4, <1>6
  <2>2. Ends("TRUNCATED")
    BY <1>1, <1>6, <2>1 DEF Continue
  <2>3. Refusal("TRUNCATED")
    BY <2>1 DEF Refusal, Codes
  <2> QED
    BY <1>1, <2>2, <2>3, RefusalPreserves
<1>7. CASE r.error = "OK" /\ ~(r.got.count > MaxCount)
  <2>1. r.got.count <= MaxCount
    BY <1>2, <1>3, <1>7
  <2>2. Continue(r, section + 1, r.got.count, out)
    BY <1>1, <1>7
  <2> QED
    BY <1>1, <1>7, <2>1, <2>2, CountPassed DEF r
<1> QED
  BY <1>5, <1>6, <1>7

-----------------------------------------------------------------------------
(* The elements preserve the invariant *)

\* What Append does to a list.
LEMMA AppendIs ==
    ASSUME NEW l, Len(l) \in Nat, l = [i \in 1 .. Len(l) |-> l[i]], NEW x
    PROVE  /\ Len(Append(l, x)) = Len(l) + 1
           /\ Append(l, x) = [i \in 1 .. Len(l) + 1 |-> Append(l, x)[i]]
           /\ \A i \in 1 .. Len(l) : Append(l, x)[i] = l[i]
           /\ Append(l, x)[Len(l) + 1] = x
<1> DEFINE S == {l[i] : i \in 1 .. Len(l)} \cup {x}
           n == Len(l)
<1>1. l \in Seq(S) /\ x \in S
  OBVIOUS
<1> HIDE DEF S
<1>2. Append(l, x) \in Seq(S) /\ Len(Append(l, x)) = n + 1
  BY <1>1
<1>3. Append(l, x) = [i \in 1 .. n + 1 |-> Append(l, x)[i]]
  <2>1. \A m \in Seq(S) : m = [i \in 1 .. Len(m) |-> m[i]]
    OBVIOUS
  <2> QED
    BY <1>2, <2>1
<1>4. (\A i \in 1 .. n : Append(l, x)[i] = l[i]) /\ Append(l, x)[n + 1] = x
  BY <1>1
<1> QED
  BY <1>2, <1>3, <1>4

\* A list stays one that deserialize could have built when an element with a new id is
\* appended.
LEMMA BuiltGrows ==
    ASSUME NEW k \in 1 .. 5, NEW l, IsBuilt(k, l), Len(l) + 1 <= MaxCount,
           NEW x, IsElement(k, x), KeptElement(k, x) = x,
           k < 5 => ~\E i \in DOMAIN l : l[i].id = x.id
    PROVE  IsBuilt(k, Append(l, x))
<1> DEFINE m == Append(l, x)
           n == Len(l)
<1>1. /\ n \in Nat /\ l = [i \in 1 .. n |-> l[i]] /\ DOMAIN l = 1 .. n
      /\ \A i \in 1 .. n : IsElement(k, l[i]) /\ KeptElement(k, l[i]) = l[i]
      /\ k < 5 => Distinct(l)
  BY CodecAssumption DEF IsBuilt, IsListOf
<1>2. /\ Len(m) = n + 1 /\ m = [i \in 1 .. n + 1 |-> m[i]]
      /\ (\A i \in 1 .. n : m[i] = l[i]) /\ m[n + 1] = x
  BY <1>1, AppendIs
<1>3. n + 1 <= MaxCount
  OBVIOUS
<1> HIDE DEF m, n
<1>4. \A i \in 1 .. n + 1 : i \in 1 .. n \/ i = n + 1
  BY <1>1
<1>5. DOMAIN m = 1 .. n + 1
  BY <1>2
<1>6. \A i \in 1 .. n + 1 : IsElement(k, m[i]) /\ KeptElement(k, m[i]) = m[i]
  BY <1>1, <1>2, <1>4
<1>7. ASSUME k < 5, NEW i \in DOMAIN m, NEW j \in DOMAIN m, m[i].id = m[j].id
      PROVE  i = j
  <2>1. CASE i \in 1 .. n /\ j \in 1 .. n
    BY <1>1, <1>2, <1>7, <2>1 DEF Distinct
  <2>2. CASE i = n + 1 /\ j \in 1 .. n
    BY <1>1, <1>2, <1>7, <2>2
  <2>3. CASE i \in 1 .. n /\ j = n + 1
    BY <1>1, <1>2, <1>7, <2>3
  <2> QED
    BY <1>4, <1>5, <2>1, <2>2, <2>3
<1>8. n + 1 \in 0 .. MaxCount
  BY <1>1, <1>3, CodecAssumption
<1> QED
  BY <1>2, <1>6, <1>7, <1>8 DEF IsBuilt, IsListOf, Distinct, m

\* h is what was decoded, with l for list k.
OutWith(h, k, l) ==
    /\ IsOut(h) /\ h.sequence = out.sequence /\ h.epoch = out.epoch
    /\ \A j \in 1 .. 5 : h[Lists[j]] = IF j = k THEN l ELSE out[Lists[j]]

\* Storing one list changes nothing else of what was decoded.
LEMMA ListOutIs ==
    ASSUME IsOut(out), NEW k \in 1 .. 5, NEW l, NEW h, h = [out EXCEPT ![Lists[k]] = l]
    PROVE  OutWith(h, k, l)
<1> DEFINE D == DOMAIN Nothing
           y == Lists[k]
<1>1. out = [z \in D |-> out[z]] /\ out.sequence \in Nat /\ out.epoch \in Nat
  BY DEF IsOut
<1>2. /\ y \in D /\ "sequence" \in D /\ "epoch" \in D /\ y # "sequence" /\ y # "epoch"
      /\ \A j \in 1 .. 5 : Lists[j] \in D /\ (Lists[j] = y => j = k)
  BY NothingHas
<1> HIDE DEF D, y
<1>3. h = [z \in D |-> IF z = y THEN l ELSE out[z]]
  BY <1>1, <1>2 DEF y
<1>4. h = [z \in D |-> h[z]] /\ h.sequence = out.sequence /\ h.epoch = out.epoch
  BY <1>2, <1>3
<1>5. \A j \in 1 .. 5 : h[Lists[j]] = IF j = k THEN l ELSE out[Lists[j]]
  BY <1>2, <1>3 DEF y
<1> QED
  BY <1>1, <1>4, <1>5 DEF OutWith, IsOut, D

\* The element that comes next.
NextIs(s, k, i) ==
    /\ k \in 1 .. 5 /\ i \in 1 .. Len(s[Lists[k]])
    /\ IsElement(k, s[Lists[k]][i])
    /\ HoldsAt(serialize(s), pos, Coded(k, s[Lists[k]][i]))
    /\ Spot(s, k)[i] = pos + Len(Coded(k, s[Lists[k]][i]))

\* Unless a unit was overwritten, the next element to read is one the writer wrote here.
LEMMA ElementIsNext ==
    ASSUME CodecInvariant, Deserializing, left > 0, fault # "overwritten"
    PROVE  /\ left <= Len(document.value[Lists[section]])
           /\ Len(document.value[Lists[section]]) \in Nat
           /\ NextIs(document.value, section, Len(document.value[Lists[section]]) - left + 1)
<1> DEFINE s == document.value
           k == section
           n == Len(s[Lists[k]])
           i == n - left + 1
<1>1. IsStream /\ Typed /\ Placed /\ pos \in Nat /\ k \in 1 .. 5 /\ left \in Nat
  BY CodecAssumption DEF CodecInvariant, Typed
<1>2. IsSnapshot(s)
  BY <1>1, SnapshotWritten
<1>3. SpotsHold(s, k) /\ IsListOf(k, s[Lists[k]])
  BY <1>1, <1>2, SpotOf, SnapshotLists
<1>4. n \in Nat /\ \A j \in 1 .. n : IsElement(k, s[Lists[k]][j])
  BY <1>3, CodecAssumption DEF IsListOf
<1>5. left <= n /\ pos = Spot(s, k)[n - left]
  BY <1>1, ReaderIsAt
<1> HIDE DEF n, k
<1>6. i \in 1 .. n /\ i - 1 = n - left
  BY <1>1, <1>4, <1>5
<1> HIDE DEF i
<1>7. /\ Spot(s, k)[i] = Spot(s, k)[i - 1] + Len(Coded(k, s[Lists[k]][i]))
      /\ HoldsAt(serialize(s), Spot(s, k)[i - 1], Coded(k, s[Lists[k]][i]))
  BY <1>3, <1>6 DEF SpotsHold, n
<1>8. NextIs(s, k, i)
  BY <1>1, <1>4, <1>5, <1>6, <1>7 DEF NextIs, n
<1> QED
  BY <1>4, <1>5, <1>8 DEF n, k, i

\* An element that is read from an undamaged stream is the one that was written.
LEMMA ElementReturns ==
    ASSUME CodecInvariant, Deserializing, left > 0, fault = "none", NEW i,
           NextIs(document.value, section, i), NEW r, r = Decode(ListFields(section), pos)
    PROVE  \/ /\ r.error = "OK"
              /\ Made(section, r.got)
                   = KeptElement(section, document.value[Lists[section]][i])
           \/ r.error = "PROTOCOL_OVERFLOW" /\ Len(stream) > StringWindow
<1> DEFINE k == section
           x == document.value[Lists[k]][i]
<1>1. IsStream /\ pos \in Nat /\ Typed
  BY DEF CodecInvariant, Typed
<1>2. stream = serialize(document.value)
  BY <1>1, SnapshotWritten DEF CodecInvariant, Damaged
<1>3. k \in 1 .. 5 /\ IsElement(k, x) /\ HoldsAt(stream, pos, Coded(k, x))
  BY <1>2 DEF NextIs
<1> HIDE DEF x, k
<1>4. \/ r.error = "OK" /\ r.pos = pos + Len(Coded(k, x)) /\ Made(k, r.got) = KeptElement(k, x)
      \/ r.error = "PROTOCOL_OVERFLOW" /\ Len(stream) > StringWindow
  BY <1>1, <1>3, ElementComesBack DEF k
<1> QED
  BY <1>4 DEF x, k

\* An element that is accepted preserves the invariant.
LEMMA ElementPassed ==
    ASSUME CodecInvariant, Deserializing, left > 0,
           NEW r, r = Decode(ListFields(section), pos), r.error = "OK",
           NEW x, x = Made(section, r.got),
           section < 5 => ~\E i \in DOMAIN out[Lists[section]] : out[Lists[section]][i].id = x.id,
           Continue(r, section, left - 1,
                    [out EXCEPT ![Lists[section]] = Append(out[Lists[section]], x)])
    PROVE  CodecInvariant'
<1> DEFINE s == document.value
           k == section
           l == out[Lists[k]]
           h == [out EXCEPT ![Lists[k]] = Append(l, x)]
<1>1. /\ pos' = r.pos /\ section' = section /\ left' = left - 1 /\ out' = h
      /\ UNCHANGED <<document, fault, stream, beyond, result, trip>>
  BY DEF Continue
<1>2. document.what = "snapshot" /\ document.what \notin Messages /\ result = "reading"
  BY DEF Deserializing, Messages
<1>3. /\ IsStream /\ Typed /\ Damaged /\ Gathered /\ Returned /\ Second /\ Placed
      /\ pos \in Nat /\ k \in 1 .. 5 /\ left \in 0 .. MaxCount /\ MaxCount \in Nat
  BY CodecAssumption DEF CodecInvariant, Typed
<1>4. r.pos \in Nat /\ pos < r.pos /\ IsElement(k, x) /\ KeptElement(k, x) = x
  BY <1>3, ElementIsRead
<1>5. IsBuilt(k, l) /\ Len(l) + left <= MaxCount /\ IsOut(out)
  BY <1>2, <1>3 DEF Gathered
<1>6. l = [i \in 1 .. Len(l) |-> l[i]] /\ Len(l) \in Nat
  BY <1>3, <1>5 DEF IsBuilt, IsListOf
<1>7. IsBuilt(k, Append(l, x))
  <2>1. Len(l) + 1 <= MaxCount
    BY <1>3, <1>5, <1>6
  <2> QED
    BY <1>3, <1>4, <1>5, <2>1, BuiltGrows
<1>8. /\ IsOut(h) /\ h.sequence = out.sequence /\ h.epoch = out.epoch
      /\ \A j \in 1 .. 5 : h[Lists[j]] = IF j = k THEN Append(l, x) ELSE out[Lists[j]]
  <2> DEFINE m == Append(l, x)
  <2>1. h = [out EXCEPT ![Lists[k]] = m]
    OBVIOUS
  <2> HIDE DEF m, h, l, k
  <2>2. OutWith(h, k, m)
    BY <1>3, <1>5, <2>1, ListOutIs, Zenon
  <2> QED
    BY <2>2 DEF OutWith, m
<1>9. /\ Len(Append(l, x)) = Len(l) + 1
      /\ (\A i \in 1 .. Len(l) : Append(l, x)[i] = l[i]) /\ Append(l, x)[Len(l) + 1] = x
  BY <1>6, AppendIs
<1> HIDE DEF h
<1>10. Typed'
  <2>1. left - 1 \in 0 .. MaxCount /\ section # 0
    BY <1>3
  <2> QED
    BY <1>1, <1>2, <1>3, <1>4, <2>1 DEF Typed, IsStream
<1>11. Damaged'
  BY <1>1, <1>3 DEF Damaged, Agrees
<1>12. Answered'
  BY <1>1, <1>2 DEF Answered
<1>13. Gathered'
  <2>1. ASSUME NEW j \in 1 .. 5
        PROVE  /\ IsBuilt(j, h[Lists[j]])
               /\ j = k => Len(h[Lists[j]]) + (left - 1) <= MaxCount
               /\ j > k => h[Lists[j]] = <<>>
    <3>1. CASE j = k
      <4>1. h[Lists[j]] = Append(l, x) /\ IsBuilt(j, Append(l, x))
        BY <1>3, <1>7, <1>8, <3>1
      <4>2. Len(Append(l, x)) + (left - 1) <= MaxCount
        <5> HIDE DEF l
        <5> QED
          BY <1>3, <1>5, <1>6, <1>9
      <4> QED
        BY <3>1, <4>1, <4>2
    <3>2. CASE j # k
      BY <1>2, <1>3, <1>8, <3>2 DEF Gathered
    <3> QED
      BY <3>1, <3>2
  <2>2. pos' > 0
    BY <1>1, <1>3, <1>4
  <2> QED
    BY <1>1, <1>2, <1>8, <2>1, <2>2 DEF Gathered
<1> DEFINE n == Len(s[Lists[k]])
           i == n - left + 1
<1>14. ASSUME fault # "overwritten"
       PROVE  left <= n /\ n \in Nat /\ NextIs(s, k, i)
  BY <1>14, ElementIsNext
<1>15. Placed'
  <2>1. ASSUME fault # "overwritten"
        PROVE  left - 1 <= n /\ r.pos = Spot(s, k)[n - (left - 1)]
    <3>1. n - (left - 1) = i /\ left - 1 <= n
      BY <1>3, <1>14, <2>1
    <3>2. Agrees(serialize(s))
      BY <1>3, <2>1, SnapshotWritten DEF Damaged
    <3> DEFINE y == s[Lists[k]][i]
    <3>3. /\ IsElement(k, y) /\ HoldsAt(serialize(s), pos, Coded(k, y))
          /\ Spot(s, k)[i] = pos + Len(Coded(k, y))
      BY <1>14, <2>1 DEF NextIs
    <3> HIDE DEF y, i, n
    <3>4. r.pos = pos + Len(Coded(k, y))
      BY <1>3, <3>2, <3>3, ElementIsPlaced
    <3> QED
      BY <3>1, <3>3, <3>4
  <2>2. k # 0
    BY <1>3
  <2> QED
    BY <1>1, <2>1, <2>2 DEF Placed
<1>16. Returned'
  <2> SUFFICES ASSUME fault = "none"
               PROVE  /\ h.sequence = s.sequence /\ h.epoch = s.epoch
                      /\ \A j \in 1 .. 5 :
                            /\ Len(h[Lists[j]]) = Done(j)'
                            /\ \A m \in 1 .. Done(j)' : h[Lists[j]][m] = KeptElement(j, s[Lists[j]][m])
    BY <1>1, <1>2 DEF Returned
  <2>1. out.sequence = s.sequence /\ out.epoch = s.epoch
    <3>1. pos > 0
      BY <1>2, <1>3 DEF Gathered
    <3> QED
      BY <1>2, <1>3, <3>1 DEF Returned
  <2>2. \A j \in 1 .. 5 : /\ Len(out[Lists[j]]) = Done(j)
                          /\ \A m \in 1 .. Done(j) : out[Lists[j]][m] = KeptElement(j, s[Lists[j]][m])
    BY <1>2, <1>3 DEF Returned
  <2>3. left <= n /\ n \in Nat /\ NextIs(s, k, i)
    BY <1>14
  <2>4. x = KeptElement(k, s[Lists[k]][i])
    <3>1. ~(r.error = "PROTOCOL_OVERFLOW")
      OBVIOUS
    <3> HIDE DEF i
    <3> QED
      BY <2>3, <3>1, ElementReturns
  <2>5. ASSUME NEW j \in 1 .. 5
        PROVE  /\ Len(h[Lists[j]]) = Done(j)'
               /\ \A m \in 1 .. Done(j)' : h[Lists[j]][m] = KeptElement(j, s[Lists[j]][m])
    <3>1. CASE j = k
      <4>1. Done(j) = n - left /\ Done(j)' = n - (left - 1)
        BY <1>1, <1>3, <3>1 DEF Done
      <4>2. Len(l) = n - left /\ \A m \in 1 .. n - left : l[m] = KeptElement(k, s[Lists[k]][m])
        BY <2>2, <3>1, <4>1
      <4>3. n - (left - 1) = Len(l) + 1 /\ i = Len(l) + 1
        BY <1>3, <2>3, <4>2
      <4>4. h[Lists[j]] = Append(l, x)
        BY <1>8, <3>1
      <4>5. \A m \in 1 .. Len(l) + 1 : m \in 1 .. Len(l) \/ m = Len(l) + 1
        BY <1>6
      <4> HIDE DEF i, n, l
      <4> QED
        BY <1>9, <2>4, <3>1, <4>1, <4>2, <4>3, <4>4, <4>5
    <3>2. CASE j # k
      <4>1. Done(j)' = Done(j)
        BY <1>1, <3>2 DEF Done
      <4> QED
        BY <1>8, <2>2, <3>2, <4>1
    <3> QED
      BY <3>1, <3>2
  <2> QED
    BY <1>8, <2>1, <2>5
<1>17. Second'
  BY <1>1, <1>3 DEF Second
<1> QED
  BY <1>10, <1>11, <1>12, <1>13, <1>15, <1>16, <1>17 DEF CodecInvariant

\* Two elements with one identity were not written, but for nodes.
LEMMA DuplicateIsNode ==
    ASSUME CodecInvariant, Deserializing, left > 0, section < 5, fault = "none",
           NEW r, r = Decode(ListFields(section), pos), r.error = "OK",
           NEW x, x = Made(section, r.got),
           NEW j \in DOMAIN out[Lists[section]], out[Lists[section]][j].id = x.id
    PROVE  Len(document.value.nodes) > 1
<1> DEFINE s == document.value
           k == section
           l == s[Lists[k]]
           n == Len(l)
           i == n - left + 1
<1>1. /\ document.what = "snapshot" /\ Typed /\ Gathered /\ Returned /\ k \in 1 .. 4
      /\ left \in Nat
  BY CodecAssumption DEF CodecInvariant, Typed, Deserializing
<1>2. left <= n /\ n \in Nat /\ NextIs(s, k, i)
  BY ElementIsNext
<1>3. x = KeptElement(k, l[i])
  <2>1. ~(r.error = "PROTOCOL_OVERFLOW")
    OBVIOUS
  <2> HIDE DEF i
  <2> QED
    BY <1>2, <2>1, ElementReturns
<1>4. Done(k) = n - left
  BY <1>1 DEF Done
<1>5. /\ Len(out[Lists[k]]) = n - left
      /\ \A m \in 1 .. n - left : out[Lists[k]][m] = KeptElement(k, l[m])
  <2>1. /\ Len(out[Lists[k]]) = Done(k)
        /\ \A m \in 1 .. Done(k) : out[Lists[k]][m] = KeptElement(k, l[m])
    <3>1. k \in 1 .. 5
      BY <1>1
    <3> QED
      BY <1>1, <3>1 DEF Returned
  <2> HIDE DEF n, l
  <2> QED
    BY <1>4, <2>1
<1>6. DOMAIN out[Lists[k]] = 1 .. n - left
  <2>1. IsListOf(k, out[Lists[k]])
    <3>1. k \in 1 .. 5
      BY <1>1
    <3> QED
      BY <1>1, <3>1 DEF Gathered, IsBuilt
  <2>2. DOMAIN out[Lists[k]] = 1 .. Len(out[Lists[k]])
    BY <2>1 DEF IsListOf
  <2> QED
    BY <1>5, <2>2
<1>7. /\ j \in 1 .. n - left /\ j \in 1 .. n /\ i \in 1 .. n /\ j # i /\ n > 1
  <2>1. j \in 1 .. n - left
    BY <1>6
  <2> HIDE DEF n
  <2> QED
    BY <1>1, <1>2, <2>1
<1>8. KeptElement(k, l[j]).id = KeptElement(k, l[i]).id
  BY <1>3, <1>5, <1>7
<1>9. IsSnapshot(s)
  BY <1>1, SnapshotWritten
<1>10. IsListOf(k, l) /\ (k # 1 => Distinct(l))
  BY <1>1, <1>9, SnapshotLists
<1> HIDE DEF l, i, n
<1>11. IsElement(k, l[i]) /\ IsElement(k, l[j])
  BY <1>7, <1>10 DEF IsListOf, n
<1>12. CASE k = 1
  BY <1>7, <1>12, ListNames DEF n, l
<1>13. CASE k # 1
  <2>1. l[j].id = l[i].id
    BY <1>1, <1>8, <1>11, <1>13, KeptId
  <2>2. DOMAIN l = 1 .. n
    BY <1>10 DEF IsListOf, n
  <2> QED
    BY <1>7, <1>10, <1>13, <2>1, <2>2 DEF Distinct
<1> QED
  BY <1>12, <1>13

\* One pass through a loop of deserialize.
ElementStep ==
    LET r == Decode(ListFields(section), pos)
        x == Made(section, r.got)
        l == out[Lists[section]]
        known == section < 5 /\ \E i \in DOMAIN l : l[i].id = x.id
    IN  /\ Deserializing /\ left > 0
        /\ IF r.error = "OK" /\ known THEN Ends("DUPLICATE_IDENTITY")
           ELSE Continue(r, section, left - 1,
                         IF r.error = "OK" THEN [out EXCEPT ![Lists[section]] = Append(l, x)]
                         ELSE out)

\* The five loops of deserialize take the same step, each in its own list.
LEMMA ElementActions ==
    ASSUME CodecInvariant,
           DecodeNode \/ DecodePath \/ DecodeMeasurement \/ DecodeReservation \/ ReadPolicy
    PROVE  ElementStep
<1>1. left > 0 /\ Deserializing
  BY DEF DecodeNode, DecodePath, DecodeMeasurement, DecodeReservation, ReadPolicy, DecodeElement
<1>2. section \in {1, 2, 3, 4, 5}
  BY <1>1, CodecAssumption DEF CodecInvariant, Typed
<1>3. CASE DecodeNode
  <2>1. section = 1
    BY <1>2, <1>3, ListNames DEF DecodeNode, DecodeElement
  <2> QED
    BY <1>3, <2>1, ListNames
    DEF DecodeNode, DecodeElement, IsKnown, ElementStep, ListFields, Made
<1>4. CASE DecodePath
  <2>1. section = 2
    BY <1>2, <1>4, ListNames DEF DecodePath, DecodeElement
  <2> QED
    BY <1>4, <2>1, ListNames
    DEF DecodePath, DecodeElement, IsKnown, ElementStep, ListFields, Made
<1>5. CASE DecodeMeasurement
  <2>1. section = 3
    BY <1>2, <1>5, ListNames DEF DecodeMeasurement, DecodeElement
  <2> QED
    BY <1>5, <2>1, ListNames
    DEF DecodeMeasurement, DecodeElement, IsKnown, ElementStep, ListFields, Made
<1>6. CASE DecodeReservation
  <2>1. section = 4
    BY <1>2, <1>6, ListNames DEF DecodeReservation, DecodeElement
  <2> QED
    BY <1>6, <2>1, ListNames
    DEF DecodeReservation, DecodeElement, IsKnown, ElementStep, ListFields, Made
<1>7. CASE ReadPolicy
  <2>1. section = 5
    BY <1>2, <1>7, ListNames DEF ReadPolicy
  <2> QED
    <3> DEFINE r == Decode(PolicyFields, pos)
               h == IF r.error = "OK" THEN [out EXCEPT !.policies = Append(@, r.got.policy)] ELSE out
    <3>1. Deserializing /\ left > 0 /\ Continue(r, 5, left - 1, h)
      BY <1>7, <2>1 DEF ReadPolicy, PolicyFields
    <3>2. /\ ListFields(section) = PolicyFields /\ Lists[section] = "policies"
          /\ Made(section, r.got) = r.got.policy
      BY <2>1, ListNames DEF ListFields, Made
    <3>3. h = IF r.error = "OK" THEN [out EXCEPT !["policies"] = Append(out["policies"], r.got.policy)]
              ELSE out
      OBVIOUS
    <3>4. ~(section < 5)
      BY <2>1
    <3> HIDE DEF r, h
    <3> QED
      BY <2>1, <3>1, <3>2, <3>3, <3>4 DEF ElementStep, r
<1> QED
  BY <1>3, <1>4, <1>5, <1>6, <1>7

\* Reading an element preserves the invariant, accepted or not.
LEMMA ElementPreserves ==
    ASSUME CodecInvariant, ElementStep
    PROVE  CodecInvariant'
<1> DEFINE r == Decode(ListFields(section), pos)
           x == Made(section, r.got)
           l == out[Lists[section]]
           known == section < 5 /\ \E i \in DOMAIN l : l[i].id = x.id
           h == [out EXCEPT ![Lists[section]] = Append(l, x)]
<1>1. /\ Deserializing /\ left > 0
      /\ IF r.error = "OK" /\ known THEN Ends("DUPLICATE_IDENTITY")
         ELSE Continue(r, section, left - 1, IF r.error = "OK" THEN h ELSE out)
  BY DEF ElementStep
<1>2. IsStream /\ pos \in Nat /\ section \in 1 .. 5
  BY <1>1, CodecAssumption DEF CodecInvariant, Typed
<1>3. r.error \in ReadCodes
  BY <1>2, ElementIsRead
<1>4. CASE r.error # "OK"
  <2>1. Ends(r.error)
    BY <1>1, <1>4 DEF Continue
  <2>2. ASSUME fault = "none"
        PROVE  r.error = "PROTOCOL_OVERFLOW" /\ Len(stream) > StringWindow
    <3> DEFINE i == Len(document.value[Lists[section]]) - left + 1
    <3>1. NextIs(document.value, section, i)
      BY <1>1, <2>2, ElementIsNext
    <3> HIDE DEF i
    <3> QED
      BY <1>1, <1>4, <2>2, <3>1, ElementReturns
  <2>3. Refusal(r.error)
    BY <1>3, <1>4, <2>2, CodeIsRefusal DEF Refusal
  <2> QED
    BY <1>1, <2>1, <2>3, RefusalPreserves
<1>5. CASE r.error = "OK" /\ known
  <2>1. fault = "none" => Len(document.value.nodes) > 1
    BY <1>1, <1>5, DuplicateIsNode
  <2>2. Refusal("DUPLICATE_IDENTITY")
    BY <2>1 DEF Refusal, Codes
  <2> QED
    BY <1>1, <1>5, <2>2, RefusalPreserves
<1>6. CASE r.error = "OK" /\ ~known
  <2>1. Continue(r, section, left - 1, h)
    BY <1>1, <1>6
  <2>2. section < 5 => ~\E i \in DOMAIN l : l[i].id = x.id
    BY <1>6
  <2> QED
    BY <1>1, <1>6, <2>1, <2>2, ElementPassed
<1> QED
  BY <1>4, <1>5, <1>6

-----------------------------------------------------------------------------
(* Saving again *)

\* What deserialize returns can be saved again.
LEMMA OutIsSnapshot ==
    ASSUME IsOut(out), \A k \in 1 .. 5 : IsBuilt(k, out[Lists[k]])
    PROVE  IsSnapshot(out) /\ Len(out.nodes) <= 1
<1>1. \A k \in 1 .. 5 : LET l == out[Lists[k]] IN
         /\ l = [i \in 1 .. Len(l) |-> l[i]] /\ Len(l) \in 0 .. MaxCount
         /\ DOMAIN l = 1 .. Len(l)
         /\ \A i \in DOMAIN l : IsElement(k, l[i]) /\ KeptElement(k, l[i]) = l[i]
         /\ k < 5 => Distinct(l)
  BY DEF IsBuilt, IsListOf
<1>2. /\ 1 \in 1 .. 5 /\ 2 \in 1 .. 5 /\ 3 \in 1 .. 5 /\ 4 \in 1 .. 5 /\ 5 \in 1 .. 5
      /\ out.nodes = out[Lists[1]] /\ out.paths = out[Lists[2]] /\ out.measurements = out[Lists[3]]
      /\ out.reservations = out[Lists[4]] /\ out.policies = out[Lists[5]]
  BY ListNames
<1>3. /\ \A i \in DOMAIN out.nodes : IsNode(out.nodes[i]) /\ KeptElement(1, out.nodes[i]) = out.nodes[i]
      /\ Distinct(out.nodes)
  BY <1>1, <1>2, ListNames DEF IsElement
<1>4. (\A i \in DOMAIN out.paths : IsPath(out.paths[i])) /\ Distinct(out.paths)
  BY <1>1, <1>2, ListNames DEF IsElement
<1>5. /\ \A i \in DOMAIN out.measurements : IsMeasurement(out.measurements[i])
      /\ Distinct(out.measurements)
  <2> DEFINE l == out[Lists[3]]
  <2>1. (\A i \in DOMAIN l : IsElement(3, l[i])) /\ Distinct(l)
    BY <1>1, <1>2
  <2>2. \A i \in DOMAIN l : IsMeasurement(l[i])
    BY <2>1 DEF IsElement
  <2> QED
    BY <1>2, <2>1, <2>2
<1>6. /\ \A i \in DOMAIN out.reservations : IsReservation(out.reservations[i])
      /\ Distinct(out.reservations)
  BY <1>1, <1>2, ListNames DEF IsElement
<1>7. \A i \in DOMAIN out.policies : out.policies[i] \in Nat
  BY <1>1, <1>2, ListNames DEF IsElement
<1>8. IsSnapshot(out)
  BY <1>1, <1>3, <1>4, <1>5, <1>6, <1>7, ListNames DEF IsSnapshot, IsOut
<1>9. Len(out.nodes) <= 1
  <2> DEFINE l == out.nodes
  <2>1. Len(l) \in Nat /\ DOMAIN l = 1 .. Len(l)
    BY <1>1, <1>2, ListNames, CodecAssumption
  <2>2. \A i \in DOMAIN l : l[i].id = 0
    <3> SUFFICES ASSUME NEW i \in DOMAIN l PROVE l[i].id = 0
      OBVIOUS
    <3>1. IsElement(1, l[i]) /\ KeptElement(1, l[i]) = l[i] /\ 1 \in 1 .. 4
      BY <1>3 DEF IsElement
    <3>2. KeptElement(1, l[i]).id = IF 1 = 1 THEN 0 ELSE l[i].id
      BY <3>1, KeptId
    <3> QED
      BY <3>1, <3>2
  <2>3. Distinct(l)
    BY <1>3
  <2> HIDE DEF l
  <2>4. ASSUME Len(l) > 1 PROVE FALSE
    <3>1. 1 \in DOMAIN l /\ 2 \in DOMAIN l
      BY <2>1, <2>4
    <3>2. l[1].id = l[2].id
      BY <2>2, <3>1
    <3> QED
      BY <2>3, <3>1, <3>2 DEF Distinct
  <2> QED
    BY <2>1, <2>4 DEF l
<1> QED
  BY <1>8, <1>9

\* The invariant is preserved by the second trip, which saves what was loaded.
LEMMA SavePreserves ==
    ASSUME CodecInvariant, SaveAgain
    PROVE  CodecInvariant'
<1>1. /\ document.what = "snapshot" /\ document' = [document EXCEPT !.value = out]
      /\ trip' = 2 /\ fault' = "none" /\ stream' = serialize(out) /\ pos' = 0 /\ section' = 0
      /\ left' = 0 /\ out' = Nothing /\ result' = "reading" /\ beyond' = beyond
  BY DEF SaveAgain
<1>2. Typed /\ Gathered /\ beyond \in Nat /\ MaxCount \in Nat
  BY CodecAssumption DEF CodecInvariant, Typed, IsStream
<1>3. IsOut(out) /\ \A k \in 1 .. 5 : IsBuilt(k, out[Lists[k]])
  BY <1>1, <1>2 DEF Gathered
<1>4. IsSnapshot(out) /\ Len(out.nodes) <= 1
  BY <1>3, OutIsSnapshot
<1>5. document' = [what |-> "snapshot", value |-> out]
  BY <1>1, <1>2 DEF Typed, IsDocument
<1>6. document'.what = "snapshot" /\ document'.value = out
  BY <1>5
<1>7. IsDocument(document')
  BY <1>4, <1>5, <1>6 DEF IsDocument
<1>8. stream' \in Seq(Nat)
  BY <1>1, <1>4, EdgeOf
<1>9. Typed'
  BY <1>1, <1>2, <1>6, <1>7, <1>8 DEF Typed, IsStream, Codes, Faults
<1>10. Damaged'
  <2>1. Written(document') = stream'
    BY <1>1, <1>6 DEF Written
  <2>2. Agrees(Written(document))'
    BY <1>8, <2>1 DEF Agrees
  <2> QED
    BY <1>1, <2>1, <2>2 DEF Damaged
<1>11. Answered'
  BY <1>1 DEF Answered, RoundTrip, DamageIsRefused
<1>12. \A k \in 1 .. 5 : Nothing[Lists[k]] = <<>>
  <2>1. \A k \in 1 .. 5 : k \in {1, 2, 3, 4, 5}
    OBVIOUS
  <2> QED
    BY <2>1, ListNames DEF Nothing
<1>13. Gathered'
  <2>1. IsOut(Nothing)
    BY DEF IsOut, Nothing
  <2>2. \A k \in 1 .. 5 : IsBuilt(k, <<>>)
    BY EmptyIsBuilt
  <2> QED
    BY <1>1, <1>2, <1>12, <2>1, <2>2 DEF Gathered
<1>14. Placed'
  BY <1>1 DEF Placed
<1>15. Returned'
  <2>1. \A k \in 1 .. 5 : Done(k)' = 0
    BY <1>1 DEF Done
  <2> QED
    BY <1>1, <1>12, <2>1 DEF Returned
<1>16. Second'
  BY <1>1, <1>3, <1>4, <1>6 DEF Second
<1> QED
  BY <1>9, <1>10, <1>11, <1>13, <1>14, <1>15, <1>16 DEF CodecInvariant

-----------------------------------------------------------------------------
\* Every step preserves the invariant.
LEMMA CodecStep ==
    ASSUME CodecInvariant, [Next]_vars
    PROVE  CodecInvariant'
<1>1. IsStream /\ IsDocument(document) /\ Damaged /\ fault \in {"none", "cut", "extra", "overwritten"}
  BY DEF CodecInvariant, Typed, Faults
<1>2. CASE ReadHeader
  BY <1>2, HeaderPreserves
<1>3. CASE ReadCount
  BY <1>3, CountPreserves
<1>4. CASE DecodeNode \/ DecodePath \/ DecodeMeasurement \/ DecodeReservation \/ ReadPolicy
  BY <1>4, ElementActions, ElementPreserves
<1>5. CASE RequireEnd
  BY <1>5, EndPreserves
<1>6. CASE read_register
  BY <1>1, <1>6, RegisterStep, MessagePreserves
<1>7. CASE read_release
  BY <1>1, <1>7, ReleaseStep, MessagePreserves
<1>8. CASE read_ack
  BY <1>1, <1>8, AckStep, MessagePreserves
<1>9. CASE ReadMeasurement
  BY <1>1, <1>9, MeasurementStep, MessagePreserves
<1>10. CASE ReadReserve
  BY <1>1, <1>10, ReserveStep, MessagePreserves
<1>11. CASE SaveAgain
  BY <1>11, SavePreserves
<1>12. CASE UNCHANGED vars
  <2>1. UNCHANGED <<document, fault, stream, beyond, pos, section, left, out, result, trip>>
    BY <1>12 DEF vars
  <2>2. Typed'
    BY <2>1 DEF CodecInvariant, Typed, IsStream
  <2>3. Damaged'
    BY <2>1 DEF CodecInvariant, Damaged, Agrees
  <2>4. Answered'
    BY <2>1 DEF CodecInvariant, Answered, RoundTrip, DamageIsRefused, TooLong
  <2>5. Gathered' /\ Placed'
    BY <2>1 DEF CodecInvariant, Gathered, Placed
  <2>6. Returned'
    <3>1. \A k \in 1 .. 5 : Done(k)' = Done(k)
      BY <2>1 DEF Done
    <3> QED
      BY <2>1, <3>1 DEF CodecInvariant, Returned, TooLong
  <2>7. Second'
    BY <2>1 DEF CodecInvariant, Second
  <2> QED
    BY <2>2, <2>3, <2>4, <2>5, <2>6, <2>7 DEF CodecInvariant
<1> QED
  BY <1>2, <1>3, <1>4, <1>5, <1>6, <1>7, <1>8, <1>9, <1>10, <1>11, <1>12 DEF Next

-----------------------------------------------------------------------------
(* The semantic digest *)

\* What semantic_digest reads of a node survives the format.
LEMMA NodeHashKept ==
    ASSUME NEW n, IsNode(n)
    PROVE  NodeHashed(KeptNode(n)) = NodeHashed(n)
<1> DEFINE m == KeptNode(n)
<1>1. n = [x \in Names(NodeFields) \cup {"id"} |-> n[x]]
  BY DEF IsNode, Fits
<1>2. /\ m.bdf = n.bdf /\ m.kind = n.kind /\ m.generation = n.generation
      /\ m.provenance = n.provenance /\ m.parent = n.parent /\ m.vendor = n.vendor
      /\ m.device = n.device /\ m.class_name = n.class_name
  BY DEF KeptNode
<1> HIDE DEF m
<1>3. NodeHashed(m) = NodeHashed(n)
  BY <1>2 DEF NodeHashed
<1> QED
  BY <1>3 DEF m

\* What semantic_digest reads of a path survives the format.
LEMMA PathHashKept ==
    ASSUME NEW p, IsPath(p)
    PROVE  PathHashed(KeptPath(p)) = PathHashed(p)
<1> DEFINE m == KeptPath(p)
<1>1. /\ m.id = p.id /\ m.generation = p.generation /\ m.source = p.source
      /\ m.destination = p.destination /\ m.class = p.class /\ m.locality = p.locality
      /\ m.freshness = p.freshness /\ m.theoretical = p.theoretical /\ m.measured = p.measured
  BY DEF KeptPath
<1> HIDE DEF m
<1>2. PathHashed(m) = PathHashed(p)
  BY <1>1 DEF PathHashed
<1> QED
  BY <1>2 DEF m

\* What semantic_digest reads of a measurement survives the format.
LEMMA MeasurementHashKept ==
    ASSUME NEW q, IsMeasurement(q)
    PROVE  MeasurementHashed(KeptMeasurement(q)) = MeasurementHashed(q)
<1> DEFINE m == KeptMeasurement(q)
<1>1. /\ m.id = q.id /\ m.source = q.source /\ m.destination = q.destination
      /\ m.class = q.class /\ m.bytes = q.bytes /\ m.duration = q.duration
  BY DEF KeptMeasurement
<1> HIDE DEF m
<1>2. throughput(m) = throughput(q)
  BY <1>1 DEF throughput
<1>3. MeasurementHashed(m) = MeasurementHashed(q)
  BY <1>1, <1>2 DEF MeasurementHashed
<1> QED
  BY <1>3 DEF m

\* List k as it is kept.
KeptList(s, k) == [i \in DOMAIN s[Lists[k]] |-> KeptElement(k, s[Lists[k]][i])]

\* semantic_digest does not depend on anything the format loses.
LEMMA DigestKept ==
    ASSUME NEW s, IsSnapshot(s), NEW o, o.sequence = s.sequence, o.epoch = s.epoch,
           o.nodes = KeptList(s, 1), o.paths = KeptList(s, 2), o.measurements = KeptList(s, 3)
    PROVE  semantic_digest(o) = semantic_digest(s)
<1>1. Each(o.nodes, NodeHashed) = Each(s.nodes, NodeHashed)
  <2>1. o.nodes = [i \in DOMAIN s.nodes |-> KeptNode(s.nodes[i])]
    BY ListNames DEF KeptList, KeptElement
  <2>2. \A i \in DOMAIN s.nodes : NodeHashed(KeptNode(s.nodes[i])) = NodeHashed(s.nodes[i])
    BY NodeHashKept DEF IsSnapshot
  <2> QED
    BY <2>1, <2>2 DEF Each
<1>2. Each(o.paths, PathHashed) = Each(s.paths, PathHashed)
  <2>1. o.paths = [i \in DOMAIN s.paths |-> KeptPath(s.paths[i])]
    BY ListNames DEF KeptList, KeptElement
  <2>2. \A i \in DOMAIN s.paths : PathHashed(KeptPath(s.paths[i])) = PathHashed(s.paths[i])
    BY PathHashKept DEF IsSnapshot
  <2> QED
    BY <2>1, <2>2 DEF Each
<1>3. Each(o.measurements, MeasurementHashed) = Each(s.measurements, MeasurementHashed)
  <2>1. o.measurements = [i \in DOMAIN s.measurements |-> KeptMeasurement(s.measurements[i])]
    BY ListNames DEF KeptList, KeptElement
  <2>2. \A i \in DOMAIN s.measurements :
           MeasurementHashed(KeptMeasurement(s.measurements[i])) = MeasurementHashed(s.measurements[i])
    BY MeasurementHashKept DEF IsSnapshot
  <2> QED
    BY <2>1, <2>2 DEF Each
<1> QED
  BY <1>1, <1>2, <1>3 DEF semantic_digest

-----------------------------------------------------------------------------
(* What the invariant says of a snapshot that was accepted *)

\* The fields of a snapshot.
LEMMA SnapshotHas ==
    DOMAIN Nothing = {"sequence", "epoch", "nodes", "paths", "measurements", "reservations",
                      "policies"}
  BY DEF Nothing

\* Two snapshots are the same if their parts are.
LEMMA SameSnapshot ==
    ASSUME NEW o, NEW s, IsOut(o), On(DOMAIN Nothing, s),
           o.sequence = s.sequence, o.epoch = s.epoch,
           \A k \in 1 .. 5 : o[Lists[k]] = s[Lists[k]]
    PROVE  o = s
<1>1. \A x \in DOMAIN Nothing : o[x] = s[x]
  <2>1. /\ o["nodes"] = s["nodes"] /\ o["paths"] = s["paths"]
        /\ o["measurements"] = s["measurements"] /\ o["reservations"] = s["reservations"]
        /\ o["policies"] = s["policies"]
    <3>1. 1 \in 1 .. 5 /\ 2 \in 1 .. 5 /\ 3 \in 1 .. 5 /\ 4 \in 1 .. 5 /\ 5 \in 1 .. 5
      OBVIOUS
    <3> QED
      BY <3>1, ListNames
  <2> QED
    BY <2>1, SnapshotHas
<1> DEFINE D == DOMAIN Nothing
<1>2. o = [x \in D |-> o[x]] /\ s = [x \in D |-> s[x]]
  BY DEF IsOut, On
<1> HIDE DEF D
<1> QED
  BY <1>1, <1>2 DEF D

\* What an undamaged stream is accepted as: each list is what the format keeps of it.
LEMMA AcceptedLists ==
    ASSUME CodecInvariant, document.what = "snapshot", fault = "none", result = "OK"
    PROVE  /\ IsSnapshot(document.value) /\ IsOut(out)
           /\ out.sequence = document.value.sequence /\ out.epoch = document.value.epoch
           /\ \A k \in 1 .. 5 : out[Lists[k]] = KeptList(document.value, k)
<1> DEFINE s == document.value
<1>1. /\ Typed /\ Gathered /\ Returned /\ section = 5 /\ left = 0 /\ pos > 0 /\ IsOut(out)
  BY DEF CodecInvariant, Gathered
<1>2. IsSnapshot(s)
  BY <1>1 DEF Typed, IsDocument
<1>3. out.sequence = s.sequence /\ out.epoch = s.epoch
  BY <1>1 DEF Returned
<1>4. ASSUME NEW k \in 1 .. 5 PROVE out[Lists[k]] = KeptList(s, k)
  <2> DEFINE l == out[Lists[k]]
             w == s[Lists[k]]
             n == Len(w)
  <2>1. IsListOf(k, l) /\ IsListOf(k, w)
    BY <1>1, <1>2, SnapshotLists DEF Gathered, IsBuilt
  <2>2. n \in Nat /\ DOMAIN w = 1 .. n /\ l = [i \in 1 .. Len(l) |-> l[i]]
    BY <2>1, CodecAssumption DEF IsListOf
  <2>3. Done(k) = n
    <3>1. k < 5 \/ k = 5
      OBVIOUS
    <3> QED
      BY <1>1, <2>2, <3>1 DEF Done
  <2>4. Len(l) = n /\ \A i \in 1 .. n : l[i] = KeptElement(k, w[i])
    BY <1>1, <2>3 DEF Returned
  <2> HIDE DEF l, w, n
  <2>5. l = [i \in 1 .. n |-> KeptElement(k, w[i])]
    BY <2>2, <2>4
  <2> QED
    BY <2>2, <2>5 DEF KeptList, l, w
<1> QED
  BY <1>1, <1>2, <1>3, <1>4

\* What is kept of a snapshot, as a record of its parts.
LEMMA KeptIs ==
    ASSUME NEW d, d.what = "snapshot", IsSnapshot(d.value)
    PROVE  /\ On(DOMAIN Nothing, Kept(d))
           /\ Kept(d).sequence = d.value.sequence /\ Kept(d).epoch = d.value.epoch
           /\ \A k \in 1 .. 5 : Kept(d)[Lists[k]] = KeptList(d.value, k)
<1> DEFINE s == d.value
           D == DOMAIN Nothing
           a == Each(s.nodes, KeptNode)
           b == Each(s.paths, KeptPath)
           c == Each(s.measurements, KeptMeasurement)
           e == Each(s.reservations, KeptReservation)
           t == Kept(d)
<1>1. s = [x \in D |-> s[x]]
  BY DEF IsSnapshot
<1>2. /\ a = KeptList(s, 1) /\ b = KeptList(s, 2) /\ c = KeptList(s, 3) /\ e = KeptList(s, 4)
  BY ListNames DEF Each, KeptList, KeptElement
<1>3. s.policies = KeptList(s, 5)
  <2>1. IsListOf(5, s[Lists[5]])
    <3>1. 5 \in 1 .. 5
      OBVIOUS
    <3> QED
      BY <3>1, SnapshotLists
  <2> DEFINE w == s[Lists[5]]
  <2>2. w = [i \in DOMAIN w |-> w[i]]
    BY <2>1 DEF IsListOf
  <2>3. s.policies = w
    BY ListNames
  <2>4. KeptList(s, 5) = [i \in DOMAIN w |-> w[i]]
    BY DEF KeptList, KeptElement
  <2> QED
    BY <2>2, <2>3, <2>4
<1>4. t = [s EXCEPT !.nodes = a, !.paths = b, !.measurements = c, !.reservations = e]
  <2>1. t = [s EXCEPT !.nodes = Each(@, KeptNode), !.paths = Each(@, KeptPath),
                      !.measurements = Each(@, KeptMeasurement),
                      !.reservations = Each(@, KeptReservation)]
    BY DEF Kept
  <2> QED
    BY <1>1, <2>1, SnapshotHas DEF Each
<1> HIDE DEF a, b, c, e, t, s
<1>5. /\ t = [x \in D |-> t[x]] /\ t.sequence = s.sequence /\ t.epoch = s.epoch
      /\ t.nodes = a /\ t.paths = b /\ t.measurements = c /\ t.reservations = e
      /\ t.policies = s.policies
  <2>1. D = {"sequence", "epoch", "nodes", "paths", "measurements", "reservations", "policies"}
    BY SnapshotHas
  <2> HIDE DEF D
  <2> QED
    BY <1>1, <1>4, <2>1
<1>6. \A k \in 1 .. 5 : k \in {1, 2, 3, 4, 5}
  OBVIOUS
<1>7. \A k \in 1 .. 5 : t[Lists[k]] = KeptList(s, k)
  BY <1>2, <1>3, <1>5, <1>6, ListNames
<1> QED
  BY <1>5, <1>7 DEF On, s, t

\* A value an enum field can hold is below the field's size.
LEMMA KindBelow ==
    ASSUME NEW f, NEW x, f.kind = "enum", f.size \in Nat, FieldHolds(f, x)
    PROVE  x < f.size
  BY DEF FieldHolds

\* The same for a field of a record.
LEMMA EnumBelow ==
    ASSUME NEW fields, NEW i \in DOMAIN fields, NEW v, HoldsFields(fields, v),
           fields[i].kind = "enum", fields[i].size \in Nat
    PROVE  v[fields[i].name] < fields[i].size
  BY KindBelow DEF HoldsFields

\* A node's address satisfies valid(), its provenance is one of the enum's.
LEMMA NodeInRange ==
    ASSUME NEW n, IsNode(n)
    PROVE  B!valid(n.bdf) /\ n.provenance < Provenances
<1>1. HoldsFields(NodeFields, n)
  BY DEF IsNode, Fits, HoldsFields
<1>2. /\ 1 \in DOMAIN NodeFields /\ NodeFields[1].kind = "bdf"
      /\ 4 \in DOMAIN NodeFields /\ NodeFields[4].kind = "enum" /\ NodeFields[4].size = Provenances
  BY DEF NodeFields, Field, U
<1>3. n["bdf"] \in B!ValidAddress
  <2>1. FieldHolds(NodeFields[1], n["bdf"])
    BY <1>1, <1>2, NodeFieldNames DEF HoldsFields
  <2> QED
    BY <1>2, <2>1 DEF FieldHolds
<1>4. B!valid(n.bdf)
  BY <1>3 DEF B!ValidAddress, B!valid
<1>5. Provenances \in Nat
  BY DEF Provenances
<1>6. n["provenance"] < Provenances
  BY <1>1, <1>2, <1>5, EnumBelow, NodeFieldNames
<1> QED
  BY <1>4, <1>6

\* The enums of a path are in their ranges.
LEMMA PathInRange ==
    ASSUME NEW p, IsPath(p)
    PROVE  /\ p.class < PathClasses /\ p.locality < Localities
           /\ p.freshness < Freshnesses /\ p.contention < Contentions
<1>1. HoldsFields(PathFields, p)
  BY DEF IsPath, Fits, HoldsFields
<1>2. /\ 5 \in DOMAIN PathFields /\ PathFields[5].kind = "enum" /\ PathFields[5].size = PathClasses
      /\ 8 \in DOMAIN PathFields /\ PathFields[8].kind = "enum" /\ PathFields[8].size = Localities
      /\ 11 \in DOMAIN PathFields /\ PathFields[11].kind = "enum"
      /\ PathFields[11].size = Freshnesses
      /\ 13 \in DOMAIN PathFields /\ PathFields[13].kind = "enum"
      /\ PathFields[13].size = Contentions
  BY DEF PathFields, Field, U
<1>3. PathClasses \in Nat /\ Localities \in Nat /\ Freshnesses \in Nat /\ Contentions \in Nat
  BY DEF PathClasses, Localities, Freshnesses, Contentions
<1>4. p["class"] < PathClasses
  BY <1>1, <1>2, <1>3, EnumBelow, PathFieldNames
<1>5. p["locality"] < Localities
  BY <1>1, <1>2, <1>3, EnumBelow, PathFieldNames
<1>6. p["freshness"] < Freshnesses
  BY <1>1, <1>2, <1>3, EnumBelow, PathFieldNames
<1>7. p["contention"] < Contentions
  BY <1>1, <1>2, <1>3, EnumBelow, PathFieldNames
<1> QED
  BY <1>4, <1>5, <1>6, <1>7

\* The enums of a measurement are in their ranges.
LEMMA MeasurementInRange ==
    ASSUME NEW m, IsMeasurement(m)
    PROVE  m.class < TransferClasses /\ m.engine < Engines /\ m.provenance < Provenances
<1>1. HoldsFields(MeasurementFields, m)
  BY DEF IsMeasurement, Fits, HoldsFields
<1>2. /\ 5 \in DOMAIN MeasurementFields /\ MeasurementFields[5].kind = "enum"
      /\ MeasurementFields[5].size = TransferClasses
      /\ 6 \in DOMAIN MeasurementFields /\ MeasurementFields[6].kind = "enum"
      /\ MeasurementFields[6].size = Engines
      /\ 11 \in DOMAIN MeasurementFields /\ MeasurementFields[11].kind = "enum"
      /\ MeasurementFields[11].size = Provenances
  BY DEF MeasurementFields, Field, U
<1>3. TransferClasses \in Nat /\ Engines \in Nat /\ Provenances \in Nat
  BY DEF TransferClasses, Engines, Provenances
<1>4. m["class"] < TransferClasses
  BY <1>1, <1>2, <1>3, EnumBelow, MeasurementFieldNames
<1>5. m["engine"] < Engines
  BY <1>1, <1>2, <1>3, EnumBelow, MeasurementFieldNames
<1>6. m["provenance"] < Provenances
  BY <1>1, <1>2, <1>3, EnumBelow, MeasurementFieldNames
<1> QED
  BY <1>4, <1>5, <1>6

-----------------------------------------------------------------------------
(* The properties follow from the invariant *)

\* The invariant has the type invariant in it.
LEMMA InvariantTypes ==
    ASSUME CodecInvariant
    PROVE  TypeOK
  BY ListNames DEF CodecInvariant, Typed, IsStream, Gathered, TypeOK

\* From Returned: an undamaged stream gives back what the format keeps, with the same
\* digest.
LEMMA InvariantRoundTrip ==
    ASSUME CodecInvariant
    PROVE  RoundTrip
<1> SUFFICES ASSUME fault = "none", result # "reading"
             PROVE  RoundTrip
  BY DEF RoundTrip
<1>1. CASE document.what # "snapshot"
  <2>1. document.what \in Messages
    BY <1>1 DEF CodecInvariant, Typed, IsDocument, Messages
  <2> QED
    BY <2>1 DEF CodecInvariant, Answered
<1>2. CASE document.what = "snapshot" /\ result # "OK"
  BY <1>2 DEF CodecInvariant, Returned, RoundTrip
<1>3. CASE document.what = "snapshot" /\ result = "OK"
  <2> DEFINE s == document.value
             t == Kept(document)
  <2>1. /\ IsSnapshot(s) /\ IsOut(out) /\ out.sequence = s.sequence /\ out.epoch = s.epoch
        /\ \A k \in 1 .. 5 : out[Lists[k]] = KeptList(s, k)
    BY <1>3, AcceptedLists
  <2>2. /\ On(DOMAIN Nothing, t) /\ t.sequence = s.sequence /\ t.epoch = s.epoch
        /\ \A k \in 1 .. 5 : t[Lists[k]] = KeptList(s, k)
    BY <1>3, <2>1, KeptIs
  <2> HIDE DEF t
  <2>3. out = t
    <3>1. \A k \in 1 .. 5 : out[Lists[k]] = t[Lists[k]]
      BY <2>1, <2>2
    <3> QED
      BY <2>1, <2>2, <3>1, SameSnapshot
  <2>4. semantic_digest(out) = semantic_digest(s)
    <3>1. /\ out.nodes = KeptList(s, 1) /\ out.paths = KeptList(s, 2)
          /\ out.measurements = KeptList(s, 3)
      <4>1. 1 \in 1 .. 5 /\ 2 \in 1 .. 5 /\ 3 \in 1 .. 5
        OBVIOUS
      <4> QED
        BY <2>1, <4>1, ListNames
    <3> QED
      BY <2>1, <3>1, DigestKept
  <2> QED
    BY <1>3, <2>3, <2>4 DEF RoundTrip, t
<1> QED
  BY <1>1, <1>2, <1>3

\* From Placed: an accepted stream ends where the writer ended, so one cut or extended
\* is refused.
LEMMA InvariantRefuses ==
    ASSUME CodecInvariant
    PROVE  DamageIsRefused
<1>1. CASE document.what # "snapshot"
  <2>1. document.what \in Messages
    BY <1>1 DEF CodecInvariant, Typed, IsDocument, Messages
  <2> QED
    BY <2>1 DEF CodecInvariant, Answered
<1>2. CASE document.what = "snapshot"
  <2>1. ASSUME fault \in {"cut", "extra"}, result = "OK" PROVE FALSE
    <3> DEFINE s == document.value
               n == Len(s[Lists[5]])
    <3>1. /\ Typed /\ Damaged /\ Placed /\ section = 5 /\ left = 0 /\ pos = Len(stream)
          /\ fault # "overwritten"
      BY <1>2, <2>1 DEF CodecInvariant, Gathered
    <3>2. IsSnapshot(s) /\ Written(document) = serialize(s) /\ 5 \in 1 .. 5
      BY <1>2, <3>1 DEF Typed, IsDocument, Written
    <3>3. SpotsHold(s, 5) /\ n \in Nat
      BY <3>2, SpotOf, SnapshotLists, CodecAssumption DEF IsListOf
    <3>4. pos = Spot(s, 5)[n]
      <4>1. pos = Spot(s, section)[Len(s[Lists[section]]) - left]
        BY <1>2, <2>1, <3>1 DEF Placed
      <4> QED
        BY <3>1, <3>3, <4>1
    <3>5. Spot(s, 5)[n] = Edge(s)[8]
      BY <3>3 DEF SpotsHold
    <3>6. Edge(s)[8] = Len(serialize(s)) /\ serialize(s) \in Seq(Nat)
      BY <3>2, EdgeOf
    <3>7. Len(stream) = Len(serialize(s)) /\ Len(serialize(s)) \in Nat
      BY <3>1, <3>4, <3>5, <3>6
    <3> QED
      BY <2>1, <3>1, <3>2, <3>7 DEF Damaged
  <2> QED
    BY <2>1 DEF DamageIsRefused
<1> QED
  BY <1>1, <1>2

\* From Gathered: what is accepted has valid addresses, enums in range and no id twice.
LEMMA InvariantWellFormed ==
    ASSUME CodecInvariant
    PROVE  AcceptedIsWellFormed
<1> SUFFICES ASSUME document.what = "snapshot", result = "OK"
             PROVE  AcceptedIsWellFormed
  BY DEF AcceptedIsWellFormed
<1>1. /\ IsOut(out) /\ pos = Len(stream)
      /\ \A k \in 1 .. 5 : IsBuilt(k, out[Lists[k]])
  BY DEF CodecInvariant, Gathered
<1>2. IsSnapshot(out)
  BY <1>1, OutIsSnapshot
<1>3. \A i \in DOMAIN out.nodes : B!valid(out.nodes[i].bdf)
  BY <1>2, NodeInRange DEF IsSnapshot
<1>4. \A i \in DOMAIN out.nodes : out.nodes[i].provenance < Provenances
  BY <1>2, NodeInRange DEF IsSnapshot
<1>5. \A i \in DOMAIN out.paths :
         /\ out.paths[i].class < PathClasses /\ out.paths[i].locality < Localities
         /\ out.paths[i].freshness < Freshnesses /\ out.paths[i].contention < Contentions
  BY <1>2, PathInRange DEF IsSnapshot
<1>6. \A i \in DOMAIN out.measurements :
         /\ out.measurements[i].class < TransferClasses /\ out.measurements[i].engine < Engines
         /\ out.measurements[i].provenance < Provenances
  BY <1>2, MeasurementInRange DEF IsSnapshot
<1>7. Distinct(out.nodes)
  <2>1. 1 \in 1 .. 5 /\ out.nodes = out[Lists[1]]
    BY ListNames
  <2> QED
    BY <1>1, <2>1 DEF IsBuilt
<1>8. Distinct(out.paths) /\ Distinct(out.measurements) /\ Distinct(out.reservations)
  BY <1>2 DEF IsSnapshot
<1> QED
  BY <1>1, <1>3, <1>4, <1>5, <1>6, <1>7, <1>8 DEF AcceptedIsWellFormed, Within

\* From Second and Returned: what was already read once has nothing left to lose.
LEMMA InvariantExact ==
    ASSUME CodecInvariant
    PROVE  SecondTripIsExact
<1> SUFFICES ASSUME trip = 2, result # "reading", ~TooLong
             PROVE  result = "OK" /\ out = document.value
  BY DEF SecondTripIsExact
<1> DEFINE s == document.value
<1>1. /\ fault = "none" /\ document.what = "snapshot" /\ Len(s.nodes) <= 1
      /\ \A k \in 1 .. 5 : IsBuilt(k, s[Lists[k]])
  BY DEF CodecInvariant, Second
<1>2. IsSnapshot(s)
  BY <1>1 DEF CodecInvariant, Typed, IsDocument
<1>3. result = "OK"
  <2>1. Len(s.nodes) \in Nat
    <3>1. 1 \in 1 .. 5 /\ s.nodes = s[Lists[1]]
      BY ListNames
    <3> QED
      BY <1>1, <3>1, CodecAssumption DEF IsBuilt, IsListOf
  <2> HIDE DEF s
  <2>2. ~(Len(s.nodes) > 1)
    BY <1>1, <2>1
  <2> QED
    BY <1>1, <2>2 DEF CodecInvariant, Returned, s
<1>4. /\ IsOut(out) /\ out.sequence = s.sequence /\ out.epoch = s.epoch
      /\ \A k \in 1 .. 5 : out[Lists[k]] = KeptList(s, k)
  BY <1>1, <1>3, AcceptedLists
<1>5. ASSUME NEW k \in 1 .. 5 PROVE KeptList(s, k) = s[Lists[k]]
  <2> DEFINE l == s[Lists[k]]
  <2>1. /\ l = [i \in 1 .. Len(l) |-> l[i]] /\ DOMAIN l = 1 .. Len(l)
        /\ \A i \in 1 .. Len(l) : KeptElement(k, l[i]) = l[i]
    BY <1>1 DEF IsBuilt, IsListOf
  <2> HIDE DEF l
  <2>2. [i \in DOMAIN l |-> KeptElement(k, l[i])] = l
    BY <2>1
  <2>3. KeptList(s, k) = [i \in DOMAIN l |-> KeptElement(k, l[i])]
    BY DEF KeptList, l
  <2> QED
    BY <2>2, <2>3 DEF l
<1>6. On(DOMAIN Nothing, s)
  BY <1>2 DEF IsSnapshot, On
<1> HIDE DEF s
<1>7. out = s
  BY <1>4, <1>5, <1>6, SameSnapshot
<1> QED
  BY <1>3, <1>7 DEF s

-----------------------------------------------------------------------------
\* The inductive invariant: the reader, section by section, is where the writer was and
\* has what the writer wrote (persist::serialize and deserialize, and the readers and
\* writers of the other payloads).
THEOREM CodecInvariance == Spec => []CodecInvariant
<1>1. Init => CodecInvariant
  BY CodecInit
<1>2. CodecInvariant /\ [Next]_vars => CodecInvariant'
  BY CodecStep
<1> QED
  BY <1>1, <1>2, PTL DEF Spec

\* The variables of the model keep their types: the reader never leaves its stream's
\* positions, sections and codes.
THEOREM CodecTypes == Spec => []TypeOK
  BY CodecInvariance, InvariantTypes, PTL

\* deserialize returns, of what serialize wrote, all that the format keeps, with the
\* same semantic_digest, and the readers of the other payloads the message; a second
\* node and a text beyond max_string_ are the only refusals. For every document the
\* format can hold, not only the ones the run enumerates.
THEOREM WhatIsWrittenComesBack == Spec => []RoundTrip
  BY CodecInvariance, InvariantRoundTrip, PTL

\* A snapshot, REGISTER, RELEASE or ACK that was cut short or has something behind it is
\* never accepted: the bounds of Reader and require_end together leave no prefix and no
\* extension that decodes, although Reader::string runs past the end. A RESERVE that was
\* cut short is refused too; one with something behind it, and a damaged MEASUREMENT, are
\* not, for handle_frame does not ask for the end of either.
THEOREM DamagedStreamsAreRefused == Spec => []DamageIsRefused
  BY CodecInvariance, InvariantRefuses, PTL

\* What deserialize accepts, from damaged streams too, has valid addresses, no id twice
\* in any of its lists, and in range the eight enums it asks valid() about: provenance of
\* nodes, class, locality, freshness and contention of paths, transfer class, engine and
\* provenance of measurements. Kinds of nodes, link generations and the two provenances
\* of paths are not among them.
THEOREM AcceptedSnapshotsAreWellFormed == Spec => []AcceptedIsWellFormed
  BY CodecInvariance, InvariantWellFormed, PTL

\* Saving what was loaded and loading it again changes nothing: what encode_path and
\* decode_measurement lose, they lose the first time.
THEOREM LossesDoNotAddUp == Spec => []SecondTripIsExact
  BY CodecInvariance, InvariantExact, PTL
=============================================================================
