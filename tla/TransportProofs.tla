--------------------------- MODULE TransportProofs --------------------------
(***************************************************************************)
(* The bytes of a connection implement the channel of FrameChannel, for    *)
(* any frames, payloads, pieces and window, with damage, close, death,     *)
(* reset and stop anywhere.                                                *)
(*                                                                         *)
(* None of the properties is inductive: they depend on which bytes are     *)
(* under way.  StreamInv says that, until read_frame goes astray, those    *)
(* collected, in flight and not sent yet, in a row, are the frames written *)
(* and not read, laid end to end, but for one damaged byte.  What the      *)
(* reader collects is then the next frame with one wrong byte at most.     *)
(* The checksum is injective, so what decode accepts of it has the payload *)
(* that was written, and its length.                                       *)
(***************************************************************************)
EXTENDS Transport, SequenceTheorems, WellFoundedInduction, TLAPS

LessThan == {mn \in Nat \X Nat : mn[1] < mn[2]}

\* A set of numbers that is not empty has a least element.
LEMMA LeastNumber ==
    ASSUME NEW ns \in SUBSET Nat, ns # {}
    PROVE  \E n \in ns : \A m \in ns : n <= m
<1>1. IsWellFoundedOn(LessThan, Nat)
  <2>1. LessThan = OpToRel(<, Nat)
    BY Zenon DEF LessThan, OpToRel
  <2> QED
    BY <2>1, NatLessThanWellFounded, Zenon
<1>2. PICK n \in ns : \A m \in ns : ~(<<m, n>> \in LessThan)
  BY <1>1, WFMin, Zenon
<1>3. \A m \in ns : ~(m < n)
  BY <1>2 DEF LessThan
<1> QED
  BY <1>3

\* Induction over the numbers, for the set of those for which a claim holds.
LEMMA Induction ==
    ASSUME NEW ns \in SUBSET Nat, 0 \in ns, \A n \in Nat : n \in ns => n + 1 \in ns
    PROVE  ns = Nat
<1> SUFFICES ASSUME Nat \ ns # {} PROVE FALSE
  OBVIOUS
<1>1. PICK n \in Nat \ ns : \A k \in Nat \ ns : n <= k
  BY LeastNumber
<1>2. n # 0 /\ n - 1 \in Nat
  BY <1>1
<1>3. n - 1 \in ns
  BY <1>1, <1>2
<1>4. (n - 1) + 1 \in ns
  BY <1>2, <1>3
<1> QED
  BY <1>1, <1>2, <1>4

-----------------------------------------------------------------------------
(* The checksum *)

\* g holds the checksums of the first n units of p.
Sums(p, g, n) ==
    /\ g = [i \in 0 .. n |-> g[i]]
    /\ g[0] = 0
    /\ \A i \in 1 .. n : g[i] = Rolled(g[i - 1], p[i])

\* The loop of crc32 can be run over any number of units.
LEMMA SumsExist ==
    ASSUME NEW p
    PROVE  \A n \in Nat : \E g : Sums(p, g, n)
<1> DEFINE Z == {k \in Nat : \E g : Sums(p, g, k)}
<1>1. 0 \in Z
  <2> DEFINE g == [i \in 0 .. 0 |-> 0]
  <2>1. Sums(p, g, 0)
    BY DEF Sums
  <2> QED
    BY <2>1
<1>2. ASSUME NEW k \in Nat, k \in Z PROVE k + 1 \in Z
  <2>1. PICK g : Sums(p, g, k)
    BY <1>2
  <2> DEFINE h == [i \in 0 .. (k + 1) |-> IF i = k + 1 THEN Rolled(g[k], p[k + 1]) ELSE g[i]]
  <2>2. h[0] = 0
    BY <2>1 DEF Sums
  <2>3. ASSUME NEW i \in 1 .. (k + 1) PROVE h[i] = Rolled(h[i - 1], p[i])
    <3>1. CASE i = k + 1
      BY <3>1, <2>1 DEF Sums
    <3>2. CASE i # k + 1
      <4>1. i \in 1 .. k /\ i \in 0 .. (k + 1) /\ i - 1 \in 0 .. (k + 1) /\ i - 1 # k + 1
        BY <3>2
      <4>2. h[i] = g[i] /\ h[i - 1] = g[i - 1]
        BY <4>1
      <4>3. g[i] = Rolled(g[i - 1], p[i])
        BY <2>1, <4>1 DEF Sums
      <4> QED
        BY <4>2, <4>3
    <3> QED
      BY <3>1, <3>2
  <2>4. Sums(p, h, k + 1)
    BY <2>2, <2>3 DEF Sums
  <2> QED
    BY <2>4
<1> HIDE DEF Z
<1>3. Z = Nat
  <2>1. Z \in SUBSET Nat
    BY DEF Z
  <2> QED
    BY <1>1, <1>2, <2>1, Induction
<1> QED
  BY <1>3 DEF Z

\* and gives the same each time.
LEMMA SumsUnique ==
    ASSUME NEW p, NEW g, NEW h, NEW n \in Nat, NEW k \in Nat,
           Sums(p, g, n), Sums(p, h, k), n <= k
    PROVE  \A i \in 0 .. n : g[i] = h[i]
<1> DEFINE Z == {i \in Nat : i <= n => g[i] = h[i]}
<1>1. 0 \in Z
  BY DEF Sums
<1>2. ASSUME NEW i \in Nat, i \in Z PROVE i + 1 \in Z
  <2> SUFFICES ASSUME i + 1 <= n PROVE g[i + 1] = h[i + 1]
    OBVIOUS
  <2>1. i + 1 \in 1 .. n /\ i + 1 \in 1 .. k /\ (i + 1) - 1 = i
    OBVIOUS
  <2>2. g[i + 1] = Rolled(g[i], p[i + 1]) /\ h[i + 1] = Rolled(h[i], p[i + 1])
    BY <2>1 DEF Sums
  <2> QED
    BY <1>2, <2>2
<1> HIDE DEF Z
<1>3. Z = Nat
  <2>1. Z \in SUBSET Nat
    BY DEF Z
  <2> QED
    BY <1>1, <1>2, <2>1, Induction
<1> QED
  BY <1>3 DEF Z

\* crc holds the sums of p, however many.
AllSums(p, crc) ==
    /\ crc[0] = 0
    /\ \A n \in Nat : crc[n + 1] = Rolled(crc[n], p[n + 1])

\* The checksum of a payload is the last sum of the loop.
LEMMA CrcInSums ==
    ASSUME NEW p
    PROVE  \E crc : AllSums(p, crc) /\ Crc(p) = crc[Len(p)]
<1> DEFINE G(n) == CHOOSE g : Sums(p, g, n)
           f == [n \in Nat |-> G(n)[n]]
<1>1. \A n \in Nat : Sums(p, G(n), n)
  BY SumsExist, Zenon
<1> HIDE DEF G
<1>2. ASSUME NEW n \in Nat, n # 0 PROVE f[n] = Rolled(f[n - 1], p[n])
  <2>1. n - 1 \in Nat /\ n \in 1 .. n /\ n - 1 <= n /\ n - 1 \in 0 .. (n - 1)
    BY <1>2
  <2>2. G(n)[n] = Rolled(G(n)[n - 1], p[n])
    BY <1>1, <2>1 DEF Sums
  <2>3. G(n - 1)[n - 1] = G(n)[n - 1]
    BY <1>1, <2>1, SumsUnique
  <2> QED
    BY <2>1, <2>2, <2>3
<1>3. f[0] = 0
  BY <1>1 DEF Sums
<1>4. f = [n \in Nat |-> IF n = 0 THEN 0 ELSE Rolled(f[n - 1], p[n])]
  BY <1>2, <1>3
<1> DEFINE crc == CHOOSE u : u = [n \in Nat |-> IF n = 0 THEN 0 ELSE Rolled(u[n - 1], p[n])]
<1>5. crc = [n \in Nat |-> IF n = 0 THEN 0 ELSE Rolled(crc[n - 1], p[n])]
  <2> HIDE DEF f
  <2> QED
    BY <1>4, Zenon
<1>6. Crc(p) = crc[Len(p)]
  BY Zenon DEF Crc
<1> HIDE DEF crc
<1>7. crc[0] = 0
  BY <1>5
<1>8. \A n \in Nat : crc[n + 1] = Rolled(crc[n], p[n + 1])
  <2> SUFFICES ASSUME NEW n \in Nat PROVE crc[n + 1] = Rolled(crc[n], p[n + 1])
    OBVIOUS
  <2>1. n + 1 \in Nat /\ n + 1 # 0 /\ (n + 1) - 1 = n
    OBVIOUS
  <2> QED
    BY <1>5, <2>1
<1> QED
  BY <1>6, <1>7, <1>8 DEF AllSums

\* A step of the checksum gives away what it was made of.
LEMMA RolledIsPerfect ==
    ASSUME NEW c \in Nat, NEW u \in Nat, NEW d \in Nat, NEW v \in Nat, Rolled(c, u) = Rolled(d, v)
    PROVE  c = d /\ u = v
<1> DEFINE s == c + u
           t == d + v
<1>1. s \in Nat /\ t \in Nat /\ u <= s /\ v <= t
  OBVIOUS
<1>2. s * s + u = t * t + v
  BY DEF Rolled
<1>3. \A x, y \in Nat : x < y => x * x + x < y * y
  <2> SUFFICES ASSUME NEW x \in Nat, NEW y \in Nat, x < y PROVE x * x + x < y * y
    OBVIOUS
  <2>1. (x + 1) * (x + 1) <= y * y
    OBVIOUS
  <2>2. (x + 1) * (x + 1) = x * x + x + x + 1
    OBVIOUS
  <2> QED
    BY <2>1, <2>2
<1> HIDE DEF s, t
<1>4. s * s \in Nat /\ t * t \in Nat
  BY <1>1
<1>5. ~(s < t) /\ ~(t < s)
  BY <1>1, <1>2, <1>3, <1>4
<1>6. s = t /\ u = v
  BY <1>1, <1>2, <1>4, <1>5
<1> QED
  BY <1>6 DEF s, t

\* The sums of a sequence of numbers are numbers, none of them zero but the first.
LEMMA SumsAreNumbers ==
    ASSUME NEW p \in Seq(Nat), NEW crc, AllSums(p, crc)
    PROVE  \A n \in 0 .. Len(p) : crc[n] \in Nat /\ (n # 0 => crc[n] # 0)
<1> DEFINE Z == {n \in Nat : n <= Len(p) => crc[n] \in Nat /\ (n # 0 => crc[n] # 0)}
<1>1. 0 \in Z
  BY DEF AllSums
<1>2. ASSUME NEW n \in Nat, n \in Z PROVE n + 1 \in Z
  <2> SUFFICES ASSUME n + 1 <= Len(p) PROVE crc[n + 1] \in Nat /\ crc[n + 1] # 0
    OBVIOUS
  <2>1. crc[n] \in Nat /\ p[n + 1] \in Nat
    BY <1>2
  <2>3. crc[n + 1] = Rolled(crc[n], p[n + 1])
    BY DEF AllSums
  <2>2. \A c, u \in Nat : Rolled(c, u) \in Nat /\ Rolled(c, u) # 0
    <3> SUFFICES ASSUME NEW c \in Nat, NEW u \in Nat PROVE Rolled(c, u) \in Nat /\ Rolled(c, u) # 0
      OBVIOUS
    <3>1. (c + u) * (c + u) \in Nat
      OBVIOUS
    <3> QED
      BY <3>1 DEF Rolled
  <2> QED
    BY <2>1, <2>2, <2>3
<1> HIDE DEF Z
<1>3. Z = Nat
  <2>1. Z \in SUBSET Nat
    BY DEF Z
  <2> QED
    BY <1>1, <1>2, <2>1, Induction
<1> QED
  BY <1>3 DEF Z

\* If m units of p and n of q have the same sum, they are the same units.
Agree(p, a, q, b, m) ==
    \A n \in 0 .. Len(q) : a[m] = b[n] => m = n /\ \A i \in 1 .. m : p[i] = q[i]

\* The sums of two sequences agree only where the units do.
LEMMA SumsAgree ==
    ASSUME NEW p \in Seq(Nat), NEW a, AllSums(p, a), NEW q \in Seq(Nat), NEW b, AllSums(q, b)
    PROVE  \A m \in 0 .. Len(p) : Agree(p, a, q, b, m)
<1>1. \A n \in 0 .. Len(p) : a[n] \in Nat /\ (n # 0 => a[n] # 0)
  BY SumsAreNumbers
<1>2. \A n \in 0 .. Len(q) : b[n] \in Nat /\ (n # 0 => b[n] # 0)
  BY SumsAreNumbers
<1>3. a[0] = 0 /\ b[0] = 0
  BY DEF AllSums
<1> DEFINE Z == {m \in Nat : m <= Len(p) => Agree(p, a, q, b, m)}
<1>4. 0 \in Z
  BY <1>2, <1>3 DEF Agree
<1>5. ASSUME NEW m \in Nat, m \in Z PROVE m + 1 \in Z
  <2> SUFFICES ASSUME m + 1 <= Len(p) PROVE Agree(p, a, q, b, m + 1)
    OBVIOUS
  <2>1. m \in 0 .. Len(p) /\ m + 1 \in 0 .. Len(p) /\ m + 1 \in 1 .. Len(p) /\ m + 1 # 0
    OBVIOUS
  <2>2. Agree(p, a, q, b, m)
    BY <1>5, <2>1
  <2> SUFFICES ASSUME NEW n \in 0 .. Len(q), a[m + 1] = b[n]
               PROVE  m + 1 = n /\ \A i \in 1 .. (m + 1) : p[i] = q[i]
    BY DEF Agree
  <2>3. n # 0
    BY <1>1, <1>3, <2>1
  <2>4. n - 1 \in 0 .. Len(q) /\ n - 1 \in Nat /\ (n - 1) + 1 = n /\ n \in 1 .. Len(q)
    BY <2>3
  <2>5. a[m + 1] = Rolled(a[m], p[m + 1])
    BY DEF AllSums
  <2>6. b[n] = Rolled(b[n - 1], q[n])
    BY <2>4 DEF AllSums
  <2>7. p[m + 1] \in Nat /\ q[n] \in Nat
    BY <2>1, <2>4
  <2>8. a[m] \in Nat /\ b[n - 1] \in Nat
    BY <1>1, <1>2, <2>1, <2>4
  <2>9. a[m] = b[n - 1] /\ p[m + 1] = q[n]
    <3>1. Rolled(a[m], p[m + 1]) = Rolled(b[n - 1], q[n])
      BY <2>5, <2>6
    <3> DEFINE c == a[m]
               u == p[m + 1]
               d == b[n - 1]
               v == q[n]
    <3>2. c \in Nat /\ u \in Nat /\ d \in Nat /\ v \in Nat /\ Rolled(c, u) = Rolled(d, v)
      BY <2>7, <2>8, <3>1
    <3> HIDE DEF c, u, d, v
    <3>3. c = d /\ u = v
      BY <3>2, RolledIsPerfect
    <3> QED
      BY <3>3 DEF c, u, d, v
  <2>10. m = n - 1 /\ \A i \in 1 .. m : p[i] = q[i]
    BY <2>2, <2>4, <2>9 DEF Agree
  <2>11. m + 1 = n
    BY <2>4, <2>10
  <2>12. ASSUME NEW i \in 1 .. (m + 1) PROVE p[i] = q[i]
    <3>1. i \in 1 .. m \/ i = m + 1
      OBVIOUS
    <3> QED
      BY <2>9, <2>10, <2>11, <3>1
  <2> QED
    BY <2>11, <2>12
<1> HIDE DEF Z
<1>6. Z = Nat
  <2>1. Z \in SUBSET Nat
    BY DEF Z
  <2> QED
    BY <1>4, <1>5, <2>1, Induction
<1> QED
  BY <1>6 DEF Z

\* The checksum of a payload is a number, and no other sequence of numbers has it:
\* what passes the test in decode is the payload that was encoded.
LEMMA CrcIsPerfect ==
    ASSUME NEW p \in Seq(Nat)
    PROVE  /\ Crc(p) \in Nat
           /\ \A q \in Seq(Nat) : Crc(p) = Crc(q) => p = q
<1>1. PICK a : AllSums(p, a) /\ Crc(p) = a[Len(p)]
  BY CrcInSums
<1>2. \A n \in 0 .. Len(p) : a[n] \in Nat
  BY <1>1, SumsAreNumbers
<1>3. ASSUME NEW q \in Seq(Nat), Crc(p) = Crc(q) PROVE p = q
  <2>1. PICK b : AllSums(q, b) /\ Crc(q) = b[Len(q)]
    BY CrcInSums
  <2>2. Len(p) \in 0 .. Len(p) /\ Len(q) \in 0 .. Len(q)
    OBVIOUS
  <2>3. Agree(p, a, q, b, Len(p))
    BY <1>1, <2>1, <2>2, SumsAgree
  <2>4. a[Len(p)] = b[Len(q)]
    BY <1>1, <1>3, <2>1
  <2>5. Len(p) = Len(q) /\ \A i \in 1 .. Len(p) : p[i] = q[i]
    BY <2>2, <2>3, <2>4 DEF Agree
  <2> QED
    BY <2>5, SeqEqual
<1>4. Len(p) \in 0 .. Len(p)
  OBVIOUS
<1> QED
  BY <1>1, <1>2, <1>3, <1>4

-----------------------------------------------------------------------------
(* Frames as bytes *)

\* The number of bytes of frame f.
Size(f) == HeaderSize + Len(f.payload)

\* A frame is never empty.
LEMMA SizeOfFrame ==
    ASSUME NEW f \in Frame
    PROVE  Len(f.payload) \in Nat /\ Size(f) \in Nat /\ Size(f) >= HeaderSize
<1>1. f \in [kind: Kinds, payload: Seq(Nat)]
  BY TransportAssumption
<1>2. Len(f.payload) \in Nat
  BY <1>1
<1> QED
  BY <1>2 DEF Size, HeaderSize

\* The bytes of a frame: a header of four fields and the payload (encode).
LEMMA EncodedFrame ==
    ASSUME NEW f \in Frame
    PROVE  /\ f.kind \in Kinds /\ f.payload \in Seq(Nat) /\ Len(f.payload) \in Nat
           /\ f = [kind |-> f.kind, payload |-> f.payload]
           /\ encode(f) \in Seq(Nat) /\ Len(encode(f)) = Size(f)
           /\ encode(f)[1] = Magic /\ encode(f)[2] = f.kind
           /\ encode(f)[3] = Len(f.payload) /\ encode(f)[4] = Crc(f.payload)
           /\ \A i \in 1 .. Len(f.payload) : encode(f)[HeaderSize + i] = f.payload[i]
<1> DEFINE header == <<Magic, f.kind, Len(f.payload), Crc(f.payload)>>
<1>1. f \in [kind: Kinds, payload: Seq(Nat)] /\ Magic \in Nat
  BY TransportAssumption
<1>2. /\ f.kind \in Kinds /\ f.payload \in Seq(Nat) /\ Len(f.payload) \in Nat
      /\ f = [kind |-> f.kind, payload |-> f.payload]
  BY <1>1
<1>3. Crc(f.payload) \in Nat
  BY <1>2, CrcIsPerfect
<1>4. header \in Seq(Nat) /\ Len(header) = HeaderSize
  BY <1>1, <1>2, <1>3 DEF HeaderSize, Kinds
<1>5. /\ header[1] = Magic /\ header[2] = f.kind /\ header[3] = Len(f.payload)
      /\ header[4] = Crc(f.payload)
  OBVIOUS
<1>6. encode(f) = header \o f.payload
  BY DEF encode
<1> HIDE DEF header
<1>7. /\ encode(f) \in Seq(Nat) /\ Len(encode(f)) = Size(f)
      /\ \A i \in 1 .. Size(f) :
            encode(f)[i] = IF i <= HeaderSize THEN header[i] ELSE f.payload[i - HeaderSize]
  <2> DEFINE load == f.payload
  <2>1. load \in Seq(Nat)
    BY <1>2
  <2> HIDE DEF load
  <2>2. /\ header \o load \in Seq(Nat) /\ Len(header \o load) = Len(header) + Len(load)
        /\ \A i \in 1 .. Len(header) + Len(load) :
              (header \o load)[i] = IF i <= Len(header) THEN header[i] ELSE load[i - Len(header)]
    BY <1>4, <2>1, ConcatProperties
  <2> QED
    BY <1>4, <1>6, <2>2 DEF Size, load
<1>8. /\ encode(f)[1] = Magic /\ encode(f)[2] = f.kind /\ encode(f)[3] = Len(f.payload)
      /\ encode(f)[4] = Crc(f.payload)
  <2>1. \A i \in {1, 2, 3, 4} : i \in 1 .. Size(f) /\ i <= HeaderSize
    BY <1>2 DEF Size, HeaderSize
  <2>2. \A i \in {1, 2, 3, 4} : encode(f)[i] = header[i]
    BY <1>7, <2>1
  <2> QED
    BY <1>5, <2>2
<1>9. \A i \in 1 .. Len(f.payload) : encode(f)[HeaderSize + i] = f.payload[i]
  <2> SUFFICES ASSUME NEW i \in 1 .. Len(f.payload)
               PROVE  encode(f)[HeaderSize + i] = f.payload[i]
    OBVIOUS
  <2>1. /\ HeaderSize + i \in 1 .. Size(f) /\ ~(HeaderSize + i <= HeaderSize)
        /\ (HeaderSize + i) - HeaderSize = i
    BY <1>2 DEF HeaderSize, Size
  <2> QED
    BY <1>7, <2>1
<1> QED
  BY <1>2, <1>7, <1>8, <1>9

\* end[k] is where the k-th of the frames ends when they are written one after
\* the other.
Laid(end, frames) ==
    /\ end \in [0 .. Len(frames) -> Nat]
    /\ end[0] = 0
    /\ \A k \in 1 .. Len(frames) : end[k] = end[k - 1] + Size(frames[k])

\* Later frames end later.
LEMMA EndsGrow ==
    ASSUME NEW frames \in Seq(Frame), NEW end, Laid(end, frames),
           NEW j \in 0 .. Len(frames), NEW k \in 0 .. Len(frames), j <= k
    PROVE  end[j] <= end[k] /\ (j < k => end[j] < end[k])
<1> DEFINE Z == {n \in Nat : j + n <= Len(frames) =>
                               end[j] <= end[j + n] /\ (n # 0 => end[j] < end[j + n])}
<1>1. \A i \in 0 .. Len(frames) : end[i] \in Nat
  BY DEF Laid
<1>2. 0 \in Z
  BY <1>1
<1>3. ASSUME NEW n \in Nat, n \in Z PROVE n + 1 \in Z
  <2> SUFFICES ASSUME j + (n + 1) <= Len(frames) PROVE end[j] < end[j + (n + 1)]
    BY <1>1
  <2>1. j + (n + 1) \in 1 .. Len(frames) /\ (j + (n + 1)) - 1 = j + n /\ j + n \in 0 .. Len(frames)
    OBVIOUS
  <2>2. frames[j + (n + 1)] \in Frame
    BY <2>1
  <2>3. Size(frames[j + (n + 1)]) \in Nat \ {0}
    BY <2>2, SizeOfFrame DEF HeaderSize
  <2>4. end[j + (n + 1)] = end[j + n] + Size(frames[j + (n + 1)])
    BY <2>1 DEF Laid
  <2>5. end[j] <= end[j + n]
    BY <1>3, <2>1
  <2> QED
    BY <1>1, <2>1, <2>3, <2>4, <2>5
<1> HIDE DEF Z
<1>4. Z = Nat
  <2>1. Z \in SUBSET Nat
    BY DEF Z
  <2> QED
    BY <1>2, <1>3, <2>1, Induction
<1>5. k - j \in Z /\ j + (k - j) = k
  BY <1>4
<1> QED
  BY <1>5 DEF Z

-----------------------------------------------------------------------------
(* The stream *)

\* What may stand where the i-th byte of f was written: that byte, or anything if
\* it is the damaged one.
Right(f, i, byte, damaged) == damaged \/ byte = encode(f)[i]

\* The i-th byte of f, the a-th written, stands where it should if it is there.
Stands(a, skipped, bad, bytes, f, i) ==
    skipped < a /\ a <= skipped + Len(bytes) => Right(f, i, bytes[a - skipped], a = bad)

\* bytes are what follows the first skipped ones of the frames, as far as it
\* goes, but for the one at bad.
Holds(end, skipped, bad, bytes, frames) ==
    /\ skipped \in Nat /\ bad \in Nat /\ bad <= end[Len(frames)] /\ bytes \in Seq(Nat)
    /\ skipped + Len(bytes) <= end[Len(frames)]
    /\ \A k \in 1 .. Len(frames) : \A i \in 1 .. Size(frames[k]) :
          Stands(end[k - 1] + i, skipped, bad, bytes, frames[k], i)

\* What the parts of the definition are.
LEMMA HoldsTypes ==
    ASSUME NEW frames \in Seq(Frame), NEW end, Laid(end, frames), NEW skipped, NEW bad, NEW bytes,
           Holds(end, skipped, bad, bytes, frames)
    PROVE  /\ skipped \in Nat /\ bad \in Nat /\ bytes \in Seq(Nat) /\ Len(bytes) \in Nat
           /\ end[Len(frames)] \in Nat /\ skipped + Len(bytes) <= end[Len(frames)]
<1>1. skipped \in Nat /\ bad \in Nat /\ bytes \in Seq(Nat)
      /\ skipped + Len(bytes) <= end[Len(frames)]
  BY DEF Holds
<1>2. Len(bytes) \in Nat
  BY <1>1
<1>3. end[Len(frames)] \in Nat
  BY DEF Laid
<1> QED
  BY <1>1, <1>2, <1>3

\* Bytes can be taken from the front.
LEMMA FrontTaken ==
    ASSUME NEW frames \in Seq(Frame), NEW end, Laid(end, frames), NEW skipped, NEW bad, NEW bytes,
           Holds(end, skipped, bad, bytes, frames), NEW n \in 0 .. Len(bytes)
    PROVE  /\ Holds(end, skipped + n, bad, SubSeq(bytes, n + 1, Len(bytes)), frames)
           /\ (skipped + n) + Len(SubSeq(bytes, n + 1, Len(bytes))) = skipped + Len(bytes)
<1> DEFINE rest == SubSeq(bytes, n + 1, Len(bytes))
<1>1. /\ skipped \in Nat /\ bad \in Nat /\ bytes \in Seq(Nat) /\ Len(bytes) \in Nat
      /\ bad <= end[Len(frames)] /\ skipped + Len(bytes) <= end[Len(frames)]
  BY DEF Holds
<1>2. /\ rest \in Seq(Nat) /\ Len(rest) = Len(bytes) - n
      /\ \A j \in 1 .. Len(bytes) - n : rest[j] = bytes[n + j]
  <2>1. n + 1 \in Int /\ Len(bytes) \in Int /\ \A j \in n + 1 .. Len(bytes) : bytes[j] \in Nat
    BY <1>1
  <2>2. /\ rest \in Seq(Nat)
        /\ Len(rest) = IF n + 1 <= Len(bytes) THEN Len(bytes) - (n + 1) + 1 ELSE 0
        /\ \A j \in 1 .. Len(bytes) - (n + 1) + 1 : rest[j] = bytes[(n + 1) + j - 1]
    BY <2>1, SubSeqProperties
  <2> HIDE DEF rest
  <2> QED
    BY <1>1, <2>2
<1> HIDE DEF rest
<1>3. ASSUME NEW k \in 1 .. Len(frames), NEW i \in 1 .. Size(frames[k])
      PROVE  Stands(end[k - 1] + i, skipped + n, bad, rest, frames[k], i)
  <2> DEFINE a == end[k - 1] + i
  <2>1. k - 1 \in 0 .. Len(frames)
    OBVIOUS
  <2>2. a \in Nat
    BY <2>1, SMTT(30) DEF Laid
  <2>3. Stands(a, skipped, bad, bytes, frames[k], i)
    BY DEF Holds
  <2> HIDE DEF a
  <2>4. ASSUME skipped + n < a, a <= (skipped + n) + Len(rest)
        PROVE  Right(frames[k], i, rest[a - (skipped + n)], a = bad)
    <3>1. a - (skipped + n) \in 1 .. Len(bytes) - n /\ n + (a - (skipped + n)) = a - skipped
      BY <1>1, <1>2, <2>2, <2>4
    <3>2. rest[a - (skipped + n)] = bytes[a - skipped]
      BY <1>2, <3>1
    <3>3. skipped < a /\ a <= skipped + Len(bytes)
      BY <1>1, <1>2, <2>2, <2>4
    <3> QED
      BY <2>3, <3>2, <3>3 DEF Stands
  <2>5. Stands(a, skipped + n, bad, rest, frames[k], i)
    BY <2>4 DEF Stands
  <2> QED
    BY <2>5 DEF a
<1>4. skipped + n \in Nat /\ (skipped + n) + Len(rest) = skipped + Len(bytes)
  BY <1>1, <1>2
<1>5. Holds(end, skipped + n, bad, rest, frames)
  BY <1>1, <1>2, <1>3, <1>4 DEF Holds
<1> QED
  BY <1>4, <1>5 DEF rest

\* Bytes can be lost at the back.
LEMMA BackLost ==
    ASSUME NEW frames \in Seq(Frame), NEW end, Laid(end, frames), NEW skipped, NEW bad, NEW bytes,
           Holds(end, skipped, bad, bytes, frames), NEW n \in 0 .. Len(bytes)
    PROVE  Holds(end, skipped, bad, SubSeq(bytes, 1, n), frames)
<1> DEFINE fewer == SubSeq(bytes, 1, n)
<1>1. /\ skipped \in Nat /\ bad \in Nat /\ bytes \in Seq(Nat) /\ Len(bytes) \in Nat
      /\ bad <= end[Len(frames)] /\ skipped + Len(bytes) <= end[Len(frames)]
  BY DEF Holds
<1>2. end[Len(frames)] \in Nat
  BY DEF Laid
<1>3. /\ fewer \in Seq(Nat) /\ Len(fewer) = n
      /\ \A j \in 1 .. n : fewer[j] = bytes[j]
  <2>1. 1 \in Int /\ n \in Int /\ \A j \in 1 .. n : bytes[j] \in Nat
    BY <1>1
  <2>2. /\ fewer \in Seq(Nat)
        /\ Len(fewer) = IF 1 <= n THEN n - 1 + 1 ELSE 0
        /\ \A j \in 1 .. n - 1 + 1 : fewer[j] = bytes[1 + j - 1]
    BY <2>1, SubSeqProperties
  <2> HIDE DEF fewer
  <2> QED
    BY <1>1, <2>2
<1> HIDE DEF fewer
<1>4. ASSUME NEW k \in 1 .. Len(frames), NEW i \in 1 .. Size(frames[k])
      PROVE  Stands(end[k - 1] + i, skipped, bad, fewer, frames[k], i)
  <2> DEFINE a == end[k - 1] + i
  <2>1. k - 1 \in 0 .. Len(frames)
    OBVIOUS
  <2>2. a \in Nat
    BY <2>1 DEF Laid
  <2>3. Stands(a, skipped, bad, bytes, frames[k], i)
    BY DEF Holds
  <2> HIDE DEF a
  <2>4. ASSUME skipped < a, a <= skipped + Len(fewer)
        PROVE  Right(frames[k], i, fewer[a - skipped], a = bad)
    <3>1. a - skipped \in 1 .. Len(fewer) /\ a <= skipped + Len(bytes)
      BY <1>1, <1>3, <2>2, <2>4
    <3>2. fewer[a - skipped] = bytes[a - skipped]
      BY <1>3, <3>1
    <3> QED
      BY <2>3, <2>4, <3>1, <3>2 DEF Stands
  <2>5. Stands(a, skipped, bad, fewer, frames[k], i)
    BY <2>4 DEF Stands
  <2> QED
    BY <2>5 DEF a
<1>5. skipped + Len(fewer) <= end[Len(frames)]
  BY <1>1, <1>2, <1>3
<1>6. Holds(end, skipped, bad, fewer, frames)
  BY <1>1, <1>4, <1>5, <1>3 DEF Holds
<1> QED
  BY <1>6 DEF fewer

\* One byte can be damaged.
LEMMA OneDamaged ==
    ASSUME NEW frames \in Seq(Frame), NEW end, Laid(end, frames), NEW skipped, NEW bytes,
           Holds(end, skipped, 0, bytes, frames), NEW j \in 1 .. Len(bytes), NEW v \in Garbage
    PROVE  Holds(end, skipped, skipped + j, [bytes EXCEPT ![j] = v], frames)
<1> DEFINE new == [bytes EXCEPT ![j] = v]
<1>1. /\ skipped \in Nat /\ bytes \in Seq(Nat) /\ Len(bytes) \in Nat
      /\ skipped + Len(bytes) <= end[Len(frames)]
  BY DEF Holds
<1>2. end[Len(frames)] \in Nat
  BY DEF Laid
<1>3. v \in Nat
  BY TransportAssumption
<1>4. /\ new \in Seq(Nat) /\ Len(new) = Len(bytes)
      /\ \A x \in 1 .. Len(bytes) : new[x] = IF x = j THEN v ELSE bytes[x]
  BY <1>1, <1>3, ExceptSeq
<1> HIDE DEF new
<1>5. ASSUME NEW k \in 1 .. Len(frames), NEW i \in 1 .. Size(frames[k])
      PROVE  Stands(end[k - 1] + i, skipped, skipped + j, new, frames[k], i)
  <2> DEFINE a == end[k - 1] + i
             f == frames[k]
  <2>1. k - 1 \in 0 .. Len(frames) /\ f \in Frame
    OBVIOUS
  <2>2. a \in Nat /\ a # 0
    <3>1. end[k - 1] \in Nat
      BY <2>1 DEF Laid
    <3>2. Size(f) \in Nat /\ i \in 1 .. Size(f)
      BY <2>1, SizeOfFrame
    <3> QED
      BY <3>1, <3>2
  <2>3. Stands(a, skipped, 0, bytes, f, i)
    BY DEF Holds
  <2> HIDE DEF a, f
  <2>4. ASSUME skipped < a, a <= skipped + Len(new)
        PROVE  Right(f, i, new[a - skipped], a = skipped + j)
    <3>1. a - skipped \in 1 .. Len(bytes)
      BY <1>1, <1>4, <2>2, <2>4
    <3>2. bytes[a - skipped] = encode(f)[i]
      BY <1>4, <2>2, <2>3, <2>4 DEF Stands, Right
    <3>3. CASE a = skipped + j
      BY <3>3 DEF Right
    <3>4. CASE a # skipped + j
      <4>1. a - skipped # j
        BY <1>1, <2>2, <3>4
      <4>2. new[a - skipped] = bytes[a - skipped]
        BY <1>4, <3>1, <4>1
      <4> QED
        BY <3>2, <3>4, <4>2 DEF Right
    <3> QED
      BY <3>3, <3>4
  <2>5. Stands(a, skipped, skipped + j, new, f, i)
    BY <2>4 DEF Stands
  <2> QED
    BY <2>5 DEF a, f
<1>6. skipped + j \in Nat /\ skipped + j <= end[Len(frames)]
  BY <1>1, <1>2
<1>7. Holds(end, skipped, skipped + j, new, frames)
  BY <1>1, <1>4, <1>5, <1>6 DEF Holds
<1> QED
  BY <1>7 DEF new

\* A damaged byte that was taken from the front is of no account any more.
LEMMA Healed ==
    ASSUME NEW frames \in Seq(Frame), NEW end, Laid(end, frames), NEW skipped, NEW bad, NEW bytes,
           Holds(end, skipped, bad, bytes, frames), bad <= skipped
    PROVE  Holds(end, skipped, 0, bytes, frames)
<1>1. /\ skipped \in Nat /\ bad \in Nat /\ bytes \in Seq(Nat)
      /\ skipped + Len(bytes) <= end[Len(frames)] /\ 0 <= end[Len(frames)]
  <2>1. end[Len(frames)] \in Nat
    BY DEF Laid
  <2> QED
    BY <2>1 DEF Holds
<1>2. ASSUME NEW k \in 1 .. Len(frames), NEW i \in 1 .. Size(frames[k])
      PROVE  Stands(end[k - 1] + i, skipped, 0, bytes, frames[k], i)
  <2> DEFINE a == end[k - 1] + i
  <2>1. k - 1 \in 0 .. Len(frames)
    OBVIOUS
  <2>2. a \in Nat
    BY <2>1 DEF Laid
  <2>3. Stands(a, skipped, bad, bytes, frames[k], i)
    BY DEF Holds
  <2> HIDE DEF a
  <2>4. skipped < a => a # bad
    BY <1>1, <2>2
  <2>5. Stands(a, skipped, 0, bytes, frames[k], i)
    BY <2>3, <2>4 DEF Stands, Right
  <2> QED
    BY <2>5 DEF a
<1> QED
  BY <1>1, <1>2 DEF Holds

\* Where the frames end when one more is written.
Extended(end, frames, f) ==
    [k \in 0 .. Len(frames) + 1 |->
        IF k = Len(frames) + 1 THEN end[Len(frames)] + Size(f) ELSE end[k]]

\* The frames before it end where they did.
LEMMA LaidOneMore ==
    ASSUME NEW frames \in Seq(Frame), NEW end, Laid(end, frames), NEW f \in Frame
    PROVE  /\ Laid(Extended(end, frames, f), Append(frames, f))
           /\ \A k \in 0 .. Len(frames) : Extended(end, frames, f)[k] = end[k]
           /\ Extended(end, frames, f)[Len(frames) + 1] = end[Len(frames)] + Size(f)
<1> DEFINE more == Append(frames, f)
           new == Extended(end, frames, f)
<1>1. /\ more \in Seq(Frame) /\ Len(more) = Len(frames) + 1 /\ more[Len(frames) + 1] = f
      /\ \A k \in 1 .. Len(frames) : more[k] = frames[k]
  BY AppendProperties
<1>2. Len(frames) \in Nat /\ Size(f) \in Nat
  BY SizeOfFrame
<1>3. /\ end \in [0 .. Len(frames) -> Nat] /\ end[0] = 0
      /\ \A k \in 1 .. Len(frames) : end[k] = end[k - 1] + Size(frames[k])
  BY DEF Laid
<1>4. new = [k \in 0 .. Len(frames) + 1 |->
                IF k = Len(frames) + 1 THEN end[Len(frames)] + Size(f) ELSE end[k]]
  BY DEF Extended
<1> HIDE DEF new, more
<1>5. /\ \A k \in 0 .. Len(frames) : new[k] = end[k] /\ new[k] \in Nat
      /\ new[Len(frames) + 1] = end[Len(frames)] + Size(f)
      /\ new[Len(frames) + 1] \in Nat
  <2>1. ASSUME NEW k \in 0 .. Len(frames) PROVE new[k] = end[k] /\ new[k] \in Nat
    <3>1. k \in 0 .. Len(frames) + 1 /\ k # Len(frames) + 1
      BY <1>2
    <3> QED
      BY <1>3, <1>4, <3>1
  <2>2. Len(frames) + 1 \in 0 .. Len(frames) + 1 /\ end[Len(frames)] \in Nat
    BY <1>2, <1>3
  <2>3. new[Len(frames) + 1] = end[Len(frames)] + Size(f)
    BY <1>4, <2>2
  <2> QED
    BY <1>2, <2>1, <2>2, <2>3
<1>6. new \in [0 .. Len(frames) + 1 -> Nat]
  <2>1. ASSUME NEW k \in 0 .. Len(frames) + 1
        PROVE  (IF k = Len(frames) + 1 THEN end[Len(frames)] + Size(f) ELSE end[k]) \in Nat
    BY <1>2, <1>3
  <2> QED
    BY <1>4, <2>1
<1>7. ASSUME NEW k \in 1 .. Len(frames) + 1 PROVE new[k] = new[k - 1] + Size(more[k])
  <2>1. CASE k = Len(frames) + 1
    BY <1>1, <1>2, <1>5, <2>1
  <2>2. CASE k # Len(frames) + 1
    <3>1. k \in 1 .. Len(frames) /\ k \in 0 .. Len(frames) /\ k - 1 \in 0 .. Len(frames)
      BY <1>2, <2>2
    <3>2. new[k] = end[k] /\ new[k - 1] = end[k - 1] /\ more[k] = frames[k]
      BY <1>1, <1>5, <3>1
    <3>3. end[k] = end[k - 1] + Size(frames[k])
      BY <1>3, <3>1
    <3> QED
      BY <3>2, <3>3
  <2> QED
    BY <2>1, <2>2
<1>8. new[0] = 0
  BY <1>2, <1>3, <1>5
<1>9. Laid(new, more)
  BY <1>1, <1>6, <1>7, <1>8 DEF Laid
<1> QED
  BY <1>5, <1>9 DEF new, more

\* If nothing has been lost at the back, the bytes of a new frame go there.
LEMMA BackWritten ==
    ASSUME NEW frames \in Seq(Frame), NEW end, Laid(end, frames), NEW skipped, NEW bad, NEW bytes,
           Holds(end, skipped, bad, bytes, frames), skipped + Len(bytes) = end[Len(frames)],
           NEW f \in Frame
    PROVE  Holds(Extended(end, frames, f), skipped, bad, bytes \o encode(f), Append(frames, f))
<1> DEFINE more == Append(frames, f)
           new == Extended(end, frames, f)
           tail == encode(f)
           all == bytes \o tail
           len == Len(frames)
<1>1. /\ skipped \in Nat /\ bad \in Nat /\ bytes \in Seq(Nat) /\ Len(bytes) \in Nat
      /\ bad <= end[len] /\ end[len] \in Nat /\ len \in Nat
  BY DEF Holds, Laid
<1>2. /\ \A k \in 0 .. len : new[k] = end[k]
      /\ new[len + 1] = end[len] + Size(f)
  BY LaidOneMore
<1>3. /\ Len(more) = len + 1 /\ more[len + 1] = f
      /\ \A k \in 1 .. len : more[k] = frames[k]
  BY AppendProperties
<1>4. tail \in Seq(Nat) /\ Len(tail) = Size(f) /\ Size(f) \in Nat
  BY EncodedFrame, SizeOfFrame
<1> HIDE DEF tail
<1>5. /\ all \in Seq(Nat) /\ Len(all) = Len(bytes) + Size(f)
      /\ \A j \in 1 .. Len(bytes) + Size(f) :
            all[j] = IF j <= Len(bytes) THEN bytes[j] ELSE tail[j - Len(bytes)]
  <2>1. /\ all \in Seq(Nat) /\ Len(all) = Len(bytes) + Len(tail)
        /\ \A j \in 1 .. Len(bytes) + Len(tail) :
              all[j] = IF j <= Len(bytes) THEN bytes[j] ELSE tail[j - Len(bytes)]
    BY <1>1, <1>4, ConcatProperties
  <2> HIDE DEF all
  <2> QED
    BY <1>4, <2>1
<1> HIDE DEF all, new, more
<1>6. ASSUME NEW k \in 1 .. len + 1, NEW i \in 1 .. Size(more[k])
      PROVE  Stands(new[k - 1] + i, skipped, bad, all, more[k], i)
  <2>1. k - 1 \in 0 .. len /\ new[k - 1] = end[k - 1]
    BY <1>1, <1>2
  <2>2. end[k - 1] \in Nat
    BY <2>1 DEF Laid
  <2> DEFINE a == end[k - 1] + i
  <2>3. a \in Nat
    BY <2>2
  <2>4. CASE k # len + 1
    <3>1. k \in 1 .. len /\ k \in 0 .. len /\ more[k] = frames[k] /\ i \in 1 .. Size(frames[k])
      BY <1>1, <1>3, <2>4
    <3>2. Stands(a, skipped, bad, bytes, frames[k], i)
      BY <3>1 DEF Holds
    <3>3. frames[k] \in Frame
      BY <3>1
    <3>4. a <= end[k] /\ end[k] \in Nat
      <4>1. Size(frames[k]) \in Nat
        BY <3>3, SizeOfFrame
      <4>2. end[k] = end[k - 1] + Size(frames[k])
        BY <3>1 DEF Laid
      <4> QED
        BY <2>2, <3>1, <4>1, <4>2
    <3>5. end[k] <= end[len]
      <4>1. len \in 0 .. len /\ k <= len
        BY <1>1, <3>1
      <4> QED
        BY <3>1, <4>1, EndsGrow
    <3> HIDE DEF a
    <3>6. ASSUME skipped < a, a <= skipped + Len(all)
          PROVE  Right(frames[k], i, all[a - skipped], a = bad)
      <4>1. a <= skipped + Len(bytes)
        BY <1>1, <2>3, <3>4, <3>5
      <4>2. a - skipped \in 1 .. Len(bytes) + Size(f) /\ a - skipped <= Len(bytes)
        BY <1>1, <1>4, <2>3, <3>6, <4>1
      <4>3. all[a - skipped] = bytes[a - skipped]
        BY <1>5, <4>2
      <4> QED
        BY <3>2, <3>6, <4>1, <4>3 DEF Stands
    <3>7. Stands(a, skipped, bad, all, frames[k], i)
      BY <3>6 DEF Stands
    <3> QED
      BY <2>1, <3>1, <3>7 DEF a
  <2>5. CASE k = len + 1
    <3>1. more[k] = f /\ end[k - 1] = end[len] /\ i \in 1 .. Size(f)
      BY <1>1, <1>3, <2>5
    <3>2. a > end[len] /\ a = end[len] + i
      BY <1>1, <3>1
    <3> HIDE DEF a
    <3>3. a # bad
      BY <1>1, <2>3, <3>2
    <3>4. a = (skipped + Len(bytes)) + i
      BY <3>2
    <3>5. /\ a - skipped \in 1 .. Len(bytes) + Size(f) /\ ~(a - skipped <= Len(bytes))
          /\ (a - skipped) - Len(bytes) = i
      <4>1. \A x, y, z \in Nat : \A j \in 1 .. z :
               /\ ((x + y) + j) - x \in 1 .. y + z /\ ~(((x + y) + j) - x <= y)
               /\ (((x + y) + j) - x) - y = j
        OBVIOUS
      <4> QED
        BY <1>1, <1>4, <3>1, <3>4, <4>1, SMTT(30)
    <3>6. all[a - skipped] = tail[i]
      BY <1>5, <3>5
    <3>7. Right(f, i, all[a - skipped], a = bad)
      BY <3>3, <3>6 DEF Right, tail
    <3>8. Stands(a, skipped, bad, all, f, i)
      BY <3>7 DEF Stands
    <3> QED
      BY <2>1, <3>1, <3>8 DEF a
  <2> QED
    BY <2>4, <2>5
<1>7. bad <= new[len + 1] /\ skipped + Len(all) <= new[len + 1]
  BY <1>1, <1>2, <1>4, <1>5
<1>8. Holds(new, skipped, bad, all, more)
  BY <1>1, <1>3, <1>5, <1>6, <1>7 DEF Holds
<1> QED
  BY <1>8 DEF all, new, more, tail

\* Where the stream stands at the beginning of a frame, its bytes are in front.
LEMMA AlignedByte ==
    ASSUME NEW frames \in Seq(Frame), NEW end, Laid(end, frames), NEW skipped, NEW bad, NEW bytes,
           Holds(end, skipped, bad, bytes, frames),
           NEW k \in 1 .. Len(frames), skipped = end[k - 1],
           NEW j \in 1 .. Size(frames[k]), j <= Len(bytes)
    PROVE  Right(frames[k], j, bytes[j], skipped + j = bad)
<1>1. Stands(skipped + j, skipped, bad, bytes, frames[k], j)
  BY DEF Holds
<1>2. skipped \in Nat /\ bytes \in Seq(Nat)
  BY DEF Holds
<1>3. Len(bytes) \in Nat
  BY <1>2
<1>4. skipped < skipped + j /\ skipped + j <= skipped + Len(bytes) /\ (skipped + j) - skipped = j
  BY <1>2, <1>3
<1> QED
  BY <1>1, <1>4 DEF Stands

\* The fields of a header are among any four bytes or more.
LEMMA FieldsFit ==
    ASSUME NEW size \in Nat, size >= 4
    PROVE  \A i \in {1, 2, 3, 4} : i \in 1 .. size /\ i <= size
  OBVIOUS

\* What is taken from the front of the bytes.
LEMMA FrontBytes ==
    ASSUME NEW bytes \in Seq(Nat), NEW n \in HeaderSize .. Len(bytes)
    PROVE  LET buf == SubSeq(bytes, 1, n) IN
           /\ buf \in Seq(Nat) /\ Len(buf) = n
           /\ \A j \in 1 .. n : buf[j] = bytes[j]
           /\ Payload(buf) \in Seq(Nat) /\ Len(Payload(buf)) = n - HeaderSize
           /\ \A j \in 1 .. n - HeaderSize : Payload(buf)[j] = bytes[HeaderSize + j]
<1> DEFINE buf == SubSeq(bytes, 1, n)
           load == Payload(buf)
<1>0. Len(bytes) \in Nat /\ n \in Nat /\ n >= HeaderSize /\ n <= Len(bytes)
  BY DEF HeaderSize
<1>1. /\ buf \in Seq(Nat) /\ Len(buf) = n
      /\ \A j \in 1 .. n : buf[j] = bytes[j]
  <2>1. 1 \in Int /\ n \in Int /\ \A j \in 1 .. n : bytes[j] \in Nat
    BY <1>0
  <2>2. /\ buf \in Seq(Nat)
        /\ Len(buf) = IF 1 <= n THEN n - 1 + 1 ELSE 0
        /\ \A j \in 1 .. n - 1 + 1 : buf[j] = bytes[1 + j - 1]
    BY <2>1, SubSeqProperties
  <2> HIDE DEF buf
  <2> QED
    BY <1>0, <2>2
<1> HIDE DEF buf
<1>2. /\ load \in Seq(Nat) /\ Len(load) = n - HeaderSize
      /\ \A j \in 1 .. n - HeaderSize : load[j] = buf[HeaderSize + j]
  <2>1. 5 \in Int /\ n \in Int /\ \A j \in 5 .. n : buf[j] \in Nat
    BY <1>0, <1>1
  <2>2. load = SubSeq(buf, 5, n)
    BY <1>1 DEF Payload, HeaderSize
  <2> HIDE DEF load
  <2>3. /\ load \in Seq(Nat)
        /\ Len(load) = IF 5 <= n THEN n - 5 + 1 ELSE 0
        /\ \A j \in 1 .. n - 5 + 1 : load[j] = buf[5 + j - 1]
    BY <2>1, <2>2, SubSeqProperties
  <2> QED
    BY <1>0, <2>3 DEF HeaderSize
<1> HIDE DEF load
<1>3. ASSUME NEW j \in 1 .. n - HeaderSize PROVE load[j] = bytes[HeaderSize + j]
  <2>1. HeaderSize + j \in 1 .. n
    BY <1>0 DEF HeaderSize
  <2> QED
    BY <1>1, <1>2, <2>1
<1> QED
  BY <1>1, <1>2, <1>3 DEF buf, load

\* The n bytes in front have kind and payload for one of f.
Kept(bytes, n, f) ==
    /\ bytes[2] \in Kinds /\ bytes[3] = Len(f.payload)
    /\ Payload(SubSeq(bytes, 1, n)) = f.payload

\* What decode accepts where a frame begins has the payload of that frame, and so
\* its length.
LEMMA PayloadKept ==
    ASSUME NEW frames \in Seq(Frame), NEW end, Laid(end, frames), NEW skipped, NEW bad, NEW bytes,
           Holds(end, skipped, bad, bytes, frames), NEW n \in HeaderSize .. Len(bytes),
           n = HeaderSize + bytes[3], decode(SubSeq(bytes, 1, n)) = "OK",
           NEW k \in 1 .. Len(frames), skipped = end[k - 1]
    PROVE  Kept(bytes, n, frames[k])
<1> DEFINE buf == SubSeq(bytes, 1, n)
           load == Payload(buf)
<1>1. /\ skipped \in Nat /\ bad \in Nat /\ bytes \in Seq(Nat) /\ Len(bytes) \in Nat
      /\ n \in Nat /\ n >= 4 /\ n <= Len(bytes)
  <2>1. skipped \in Nat /\ bad \in Nat /\ bytes \in Seq(Nat) /\ Len(bytes) \in Nat
    BY HoldsTypes
  <2>2. n \in Nat /\ n >= 4 /\ n <= Len(bytes)
    BY <2>1 DEF HeaderSize
  <2> QED
    BY <2>1, <2>2
<1>2. /\ Len(buf) = n /\ \A j \in 1 .. n : buf[j] = bytes[j]
      /\ load \in Seq(Nat) /\ Len(load) = n - HeaderSize
      /\ \A j \in 1 .. n - HeaderSize : load[j] = bytes[HeaderSize + j]
  BY <1>1, FrontBytes
<1>3. bytes[2] \in Kinds /\ bytes[4] = Crc(load)
  <2>1. buf[2] \in Kinds /\ buf[4] = Crc(load)
    BY DEF decode
  <2>2. 2 \in 1 .. n /\ 4 \in 1 .. n
    BY <1>1
  <2> HIDE DEF buf, load
  <2> QED
    BY <1>2, <2>1, <2>2
<1> HIDE DEF buf, load
<1> DEFINE f == frames[k]
<1>6. f \in Frame
  OBVIOUS
<1>7. /\ f.payload \in Seq(Nat) /\ Len(f.payload) \in Nat
      /\ encode(f)[3] = Len(f.payload) /\ encode(f)[4] = Crc(f.payload)
      /\ \A j \in 1 .. Len(f.payload) : encode(f)[HeaderSize + j] = f.payload[j]
      /\ Size(f) = HeaderSize + Len(f.payload) /\ Size(f) \in Nat /\ Size(f) >= 4
  <2>1. /\ f.payload \in Seq(Nat) /\ Len(f.payload) \in Nat
        /\ encode(f)[3] = Len(f.payload) /\ encode(f)[4] = Crc(f.payload)
        /\ \A j \in 1 .. Len(f.payload) : encode(f)[HeaderSize + j] = f.payload[j]
    BY <1>6, EncodedFrame
  <2> QED
    BY <2>1 DEF Size, HeaderSize
<1>8. ASSUME NEW j \in 1 .. Size(f), j <= n PROVE Right(f, j, bytes[j], skipped + j = bad)
  <2>1. j <= Len(bytes)
    BY <1>1, <1>7, <1>8
  <2> QED
    BY <2>1, AlignedByte
<1>9. load = f.payload
  <2>1. CASE bad # skipped + 4
    <3>0. 4 \in 1 .. Size(f) /\ 4 <= n
      BY <1>1, <1>7, FieldsFit
    <3>1. Right(f, 4, bytes[4], skipped + 4 = bad)
      BY <1>8, <3>0
    <3>2. bytes[4] = Crc(f.payload)
      BY <1>7, <2>1, <3>1 DEF Right
    <3> DEFINE p == f.payload
    <3>3. p \in Seq(Nat) /\ Crc(load) = Crc(p)
      BY <1>3, <1>7, <3>2
    <3> HIDE DEF p
    <3>4. load = p
      BY <1>2, <3>3, CrcIsPerfect
    <3> QED
      BY <3>4 DEF p
  <2>2. CASE bad = skipped + 4
    <3>0. 3 \in 1 .. Size(f) /\ 3 <= n
      BY <1>1, <1>7, FieldsFit
    <3>1. Right(f, 3, bytes[3], skipped + 3 = bad)
      BY <1>8, <3>0
    <3>2. skipped + 3 # bad
      BY <1>1, <2>2
    <3>3. bytes[3] = Len(f.payload)
      BY <1>7, <3>1, <3>2 DEF Right
    <3>4. n = Size(f) /\ Len(load) = Len(f.payload)
      BY <1>2, <1>7, <3>3 DEF HeaderSize
    <3>5. ASSUME NEW j \in 1 .. Len(f.payload) PROVE load[j] = f.payload[j]
      <4>1. HeaderSize + j \in 1 .. Size(f) /\ HeaderSize + j <= n /\ j \in 1 .. n - HeaderSize
        BY <1>7, <3>4, SMTT(30) DEF HeaderSize
      <4>2. skipped + (HeaderSize + j) # bad
        BY <1>1, <2>2 DEF HeaderSize
      <4>3. Right(f, HeaderSize + j, bytes[HeaderSize + j], skipped + (HeaderSize + j) = bad)
        BY <1>8, <4>1
      <4>4. bytes[HeaderSize + j] = encode(f)[HeaderSize + j]
        BY <4>2, <4>3 DEF Right
      <4> QED
        BY <1>2, <1>7, <4>1, <4>4
    <3> DEFINE p == f.payload
    <3>6. p \in Seq(Nat) /\ Len(load) = Len(p) /\ \A j \in 1 .. Len(load) : load[j] = p[j]
      BY <1>7, <3>4, <3>5
    <3> HIDE DEF p
    <3>7. load = p
      BY <1>2, <3>6, SeqEqual
    <3> QED
      BY <3>7 DEF p
  <2> QED
    BY <2>1, <2>2
<1>10. bytes[3] = Len(f.payload)
  <2>0. 3 \in 1 .. Len(bytes)
    BY <1>1
  <2>1. bytes[3] \in Nat
    BY <1>1, <2>0, ElementOfSeq
  <2>2. Len(load) = bytes[3]
    BY <1>2, <2>1 DEF HeaderSize
  <2> QED
    BY <1>9, <2>2
<1> QED
  BY <1>3, <1>9, <1>10 DEF load, buf, Kept

\* No byte of a frame that lies behind the ones skipped is the one at bad.
Unhurt(skipped, bad, f) == \A i \in 1 .. Size(f) : skipped + i # bad

\* buf is taken for frame f.
IsFrame(buf, f) == decode(buf) = "OK" /\ f = [kind |-> buf[2], payload |-> Payload(buf)]

\* Where the stream stands at the beginning of a frame that was not damaged, that
\* frame is announced, and decode accepts it once it is whole.
LEMMA FrontFrame ==
    ASSUME NEW frames \in Seq(Frame), NEW end, Laid(end, frames), NEW skipped, NEW bad, NEW bytes,
           Holds(end, skipped, bad, bytes, frames),
           NEW j \in 0 .. Len(frames), skipped = end[j], Len(bytes) >= HeaderSize,
           j < Len(frames) => Unhurt(skipped, bad, frames[j + 1])
    PROVE  /\ j + 1 \in 1 .. Len(frames)
           /\ bytes[3] = Len(frames[j + 1].payload)
           /\ end[j + 1] = skipped + (HeaderSize + bytes[3])
           /\ HeaderSize + bytes[3] <= Len(bytes) =>
                 IsFrame(SubSeq(bytes, 1, HeaderSize + bytes[3]), frames[j + 1])
<1>1. /\ skipped \in Nat /\ bytes \in Seq(Nat) /\ Len(bytes) \in Nat /\ Len(bytes) >= 4
      /\ skipped + Len(bytes) <= end[Len(frames)] /\ end[Len(frames)] \in Nat
  BY HoldsTypes DEF HeaderSize
<1>2. j # Len(frames)
  BY <1>1
<1>3. j + 1 \in 1 .. Len(frames) /\ (j + 1) - 1 = j
  BY <1>2
<1> DEFINE f == frames[j + 1]
<1>4. f \in Frame
  BY <1>3
<1>5. /\ f = [kind |-> f.kind, payload |-> f.payload]
      /\ f.kind \in Kinds /\ f.payload \in Seq(Nat) /\ Len(f.payload) \in Nat
      /\ encode(f)[1] = Magic /\ encode(f)[2] = f.kind
      /\ encode(f)[3] = Len(f.payload) /\ encode(f)[4] = Crc(f.payload)
      /\ \A i \in 1 .. Len(f.payload) : encode(f)[HeaderSize + i] = f.payload[i]
  BY <1>4, EncodedFrame
<1>6. Size(f) = HeaderSize + Len(f.payload) /\ Size(f) \in Nat /\ Size(f) >= 4
  BY <1>5 DEF Size, HeaderSize
<1>7. end[j + 1] = end[j] + Size(f)
  BY <1>3 DEF Laid
<1>8. ASSUME NEW i \in 1 .. Size(f), i <= Len(bytes) PROVE bytes[i] = encode(f)[i]
  <2>1. Right(f, i, bytes[i], skipped + i = bad)
    BY <1>3, <1>8, AlignedByte
  <2>2. skipped + i # bad
    BY <1>3 DEF Unhurt
  <2> QED
    BY <2>1, <2>2 DEF Right
<1>9. /\ bytes[1] = Magic /\ bytes[2] = f.kind /\ bytes[3] = Len(f.payload)
      /\ bytes[4] = Crc(f.payload)
  <2>1. \A i \in {1, 2, 3, 4} : i \in 1 .. Size(f) /\ i <= Len(bytes)
    BY <1>1, <1>6, FieldsFit
  <2>2. \A i \in {1, 2, 3, 4} : bytes[i] = encode(f)[i]
    BY <1>8, <2>1
  <2> QED
    BY <1>5, <2>2
<1>10. ASSUME HeaderSize + bytes[3] <= Len(bytes)
       PROVE  IsFrame(SubSeq(bytes, 1, HeaderSize + bytes[3]), f)
  <2> DEFINE n == HeaderSize + bytes[3]
             buf == SubSeq(bytes, 1, n)
             load == Payload(buf)
             p == f.payload
  <2>1. n \in HeaderSize .. Len(bytes) /\ n = Size(f) /\ n \in Nat /\ n >= 4
    BY <1>1, <1>5, <1>6, <1>9, <1>10 DEF HeaderSize
  <2> HIDE DEF n
  <2>2. /\ Len(buf) = n /\ \A i \in 1 .. n : buf[i] = bytes[i]
        /\ load \in Seq(Nat) /\ Len(load) = n - HeaderSize
        /\ \A i \in 1 .. n - HeaderSize : load[i] = bytes[HeaderSize + i]
    BY <1>1, <2>1, FrontBytes
  <2> HIDE DEF buf, load
  <2>3. ASSUME NEW i \in 1 .. Len(load) PROVE load[i] = p[i]
    <3>1. /\ HeaderSize + i \in 1 .. Size(f) /\ HeaderSize + i <= Len(bytes)
          /\ i \in 1 .. n - HeaderSize /\ i \in 1 .. Len(f.payload)
      <4>1. Len(load) = n - 4 /\ n = 4 + Len(f.payload) /\ n <= Len(bytes) /\ Size(f) = n
        BY <1>6, <2>1, <2>2 DEF HeaderSize
      <4>2. \A x, y \in Nat : \A m \in 1 .. x : 4 + x <= y =>
               /\ 4 + m \in 1 .. 4 + x /\ 4 + m <= y /\ m \in 1 .. (4 + x) - 4
        OBVIOUS
      <4>3. i \in 1 .. Len(f.payload)
        <5>1. \A x \in Nat : (4 + x) - 4 = x
          OBVIOUS
        <5>2. Len(load) = Len(f.payload)
          BY <1>5, <4>1, <5>1
        <5> QED
          BY <5>2
      <4>4. 4 + Len(f.payload) <= Len(bytes)
        BY <4>1
      <4>5. /\ 4 + i \in 1 .. 4 + Len(f.payload) /\ 4 + i <= Len(bytes)
            /\ i \in 1 .. (4 + Len(f.payload)) - 4
        BY <1>1, <1>5, <4>2, <4>3, <4>4
      <4> QED
        BY <4>1, <4>3, <4>5 DEF HeaderSize
    <3>2. bytes[HeaderSize + i] = encode(f)[HeaderSize + i]
      BY <1>8, <3>1
    <3> QED
      BY <1>5, <2>2, <3>1, <3>2
  <2>4. p \in Seq(Nat) /\ Len(load) = Len(p)
    BY <1>5, <1>6, <2>1, <2>2 DEF HeaderSize
  <2>5. load = p
    <3> HIDE DEF p
    <3> QED
      BY <2>2, <2>3, <2>4, SeqEqual
  <2>6. buf[1] = Magic /\ buf[2] = f.kind /\ f.kind \in Kinds /\ buf[4] = Crc(load)
    BY <1>5, <1>9, <2>1, <2>2, <2>5
  <2>7. decode(buf) = "OK"
    BY <2>6 DEF decode, load
  <2>8. f = [kind |-> buf[2], payload |-> load]
    BY <1>5, <2>5, <2>6
  <2>9. IsFrame(buf, f)
    BY <2>7, <2>8 DEF IsFrame, load
  <2> QED
    BY <2>9 DEF buf, n
<1> QED
  BY <1>3, <1>6, <1>7, <1>9, <1>10

-----------------------------------------------------------------------------
(* Bytes change place *)

\* Three pieces in a row.
Row(s, t, u) == (s \o t) \o u

\* One piece after another.
Join(s, t) == s \o t

\* How the pieces are grouped does not matter.
LEMMA Associative ==
    ASSUME NEW s \in Seq(Nat), NEW t \in Seq(Nat), NEW u \in Seq(Nat)
    PROVE  Join(Join(s, t), u) = Join(s, Join(t, u))
<1>1. (s \o t) \o u = s \o (t \o u)
  BY ConcatAssociative, SMTT(30)
<1> QED
  BY <1>1 DEF Join

\* Two sequences in a row.
LEMMA Joined ==
    ASSUME NEW s \in Seq(Nat), NEW t \in Seq(Nat)
    PROVE  /\ s \o t \in Seq(Nat) /\ Len(s \o t) = Len(s) + Len(t)
           /\ \A i \in 1 .. Len(s) + Len(t) :
                 (s \o t)[i] = IF i <= Len(s) THEN s[i] ELSE t[i - Len(s)]
  BY ConcatProperties

\* all is s, then t, then u.
InRow(s, t, u, all) ==
    /\ Len(s) \in Nat /\ Len(t) \in Nat /\ Len(u) \in Nat
    /\ all \in Seq(Nat) /\ Len(all) = Len(s) + Len(t) + Len(u)
    /\ \A i \in 1 .. Len(s) : all[i] = s[i]
    /\ \A i \in 1 .. Len(t) : all[Len(s) + i] = t[i]
    /\ \A i \in 1 .. Len(u) : all[Len(s) + Len(t) + i] = u[i]

\* What stands where in a row of three.
LEMMA RowParts ==
    ASSUME NEW s \in Seq(Nat), NEW t \in Seq(Nat), NEW u \in Seq(Nat)
    PROVE  InRow(s, t, u, Row(s, t, u))
<1> DEFINE st == s \o t
           all == st \o u
<1>0. Len(s) \in Nat /\ Len(t) \in Nat /\ Len(u) \in Nat
  OBVIOUS
<1>1. /\ st \in Seq(Nat) /\ Len(st) = Len(s) + Len(t)
      /\ \A i \in 1 .. Len(s) + Len(t) : st[i] = IF i <= Len(s) THEN s[i] ELSE t[i - Len(s)]
  BY ConcatProperties
<1> HIDE DEF st
<1>2. /\ all \in Seq(Nat) /\ Len(all) = Len(st) + Len(u)
      /\ \A i \in 1 .. Len(st) + Len(u) : all[i] = IF i <= Len(st) THEN st[i] ELSE u[i - Len(st)]
  <2>1. st \in Seq(Nat)
    BY <1>1
  <2> QED
    BY <2>1, Joined
<1> HIDE DEF all
<1>3. ASSUME NEW i \in 1 .. Len(s) PROVE all[i] = s[i]
  <2>1. i \in 1 .. Len(s) + Len(t) /\ i \in 1 .. Len(st) + Len(u) /\ i <= Len(st) /\ i <= Len(s)
    BY <1>0, <1>1
  <2> QED
    BY <1>1, <1>2, <2>1
<1>4. ASSUME NEW i \in 1 .. Len(t) PROVE all[Len(s) + i] = t[i]
  <2>1. /\ Len(s) + i \in 1 .. Len(s) + Len(t) /\ Len(s) + i \in 1 .. Len(st) + Len(u)
        /\ Len(s) + i <= Len(st) /\ ~(Len(s) + i <= Len(s)) /\ (Len(s) + i) - Len(s) = i
    BY <1>0, <1>1, SMTT(30)
  <2> QED
    BY <1>1, <1>2, <2>1
<1>5. ASSUME NEW i \in 1 .. Len(u) PROVE all[Len(s) + Len(t) + i] = u[i]
  <2>1. /\ Len(st) + i \in 1 .. Len(st) + Len(u)
        /\ ~(Len(st) + i <= Len(st)) /\ (Len(st) + i) - Len(st) = i
    BY <1>0, <1>1
  <2>2. all[Len(st) + i] = u[i]
    BY <1>2, <2>1
  <2> QED
    BY <1>1, <2>2
<1>6. Len(all) = Len(s) + Len(t) + Len(u)
  BY <1>1, <1>2
<1>7. all = Row(s, t, u)
  BY DEF all, st, Row
<1> QED
  BY <1>0, <1>2, <1>3, <1>4, <1>5, <1>6, <1>7 DEF InRow

\* A number up to the sum of three lies within one of them.
LEMMA WithinOneOf ==
    ASSUME NEW a \in Nat, NEW b \in Nat, NEW c \in Nat, NEW i \in 1 .. a + b + c
    PROVE  \/ i \in 1 .. a
           \/ \E j \in 1 .. b : i = a + j
           \/ \E j \in 1 .. c : i = a + b + j
<1>1. CASE i <= a
  BY <1>1
<1>2. CASE a < i /\ i <= a + b
  <2>1. i - a \in 1 .. b /\ i = a + (i - a)
    BY <1>2
  <2> QED
    BY <2>1
<1>3. CASE a + b < i
  <2>1. i - (a + b) \in 1 .. c /\ i = a + b + (i - (a + b))
    BY <1>3
  <2> QED
    BY <2>1
<1> QED
  BY <1>1, <1>2, <1>3

\* What a piece of a sequence is.
LEMMA PieceOf ==
    ASSUME NEW s \in Seq(Nat), NEW m \in 0 .. Len(s), NEW n \in m .. Len(s)
    PROVE  /\ SubSeq(s, m + 1, n) \in Seq(Nat) /\ Len(SubSeq(s, m + 1, n)) = n - m
           /\ \A j \in 1 .. n - m : SubSeq(s, m + 1, n)[j] = s[m + j]
<1> DEFINE piece == SubSeq(s, m + 1, n)
<1>1. m \in Nat /\ n \in Nat /\ m <= n /\ n <= Len(s) /\ Len(s) \in Nat
  OBVIOUS
<1> DEFINE m1 == m + 1
<1>2. m1 \in Int /\ n \in Int /\ \A j \in m1 .. n : s[j] \in Nat
  BY <1>1
<1> HIDE DEF m1
<1>3. /\ piece \in Seq(Nat)
      /\ Len(piece) = IF m1 <= n THEN n - m1 + 1 ELSE 0
      /\ \A j \in 1 .. n - m1 + 1 : piece[j] = s[m1 + j - 1]
  <2>1. piece = SubSeq(s, m1, n)
    BY DEF m1
  <2> HIDE DEF piece
  <2> QED
    BY <1>2, <2>1, SubSeqProperties, SMTT(30)
<1> HIDE DEF piece
<1>4. Len(piece) = n - m /\ \A j \in 1 .. n - m : piece[j] = s[m + j]
  BY <1>1, <1>3 DEF m1
<1> QED
  BY <1>3, <1>4 DEF piece

\* The pieces s and t make up x when they are put together.
LEMMA CutInTwo ==
    ASSUME NEW x \in Seq(Nat), NEW n \in 0 .. Len(x)
    PROVE  /\ SubSeq(x, 1, n) \in Seq(Nat) /\ Len(SubSeq(x, 1, n)) = n
           /\ SubSeq(x, n + 1, Len(x)) \in Seq(Nat) /\ Len(SubSeq(x, n + 1, Len(x))) = Len(x) - n
           /\ SubSeq(x, 1, n) \o SubSeq(x, n + 1, Len(x)) = x
<1>0. Len(x) \in Nat /\ n \in Nat /\ n <= Len(x)
  OBVIOUS
<1>1. SubSeq(x, 1, n) \in Seq(Nat) /\ Len(SubSeq(x, 1, n)) = n
  <2>1. 0 \in 0 .. Len(x) /\ n \in 0 .. Len(x) /\ 0 + 1 = 1 /\ n - 0 = n
    BY <1>0
  <2>2. SubSeq(x, 0 + 1, n) \in Seq(Nat) /\ Len(SubSeq(x, 0 + 1, n)) = n - 0
    BY <2>1, PieceOf
  <2> QED
    BY <2>1, <2>2
<1>2. SubSeq(x, n + 1, Len(x)) \in Seq(Nat) /\ Len(SubSeq(x, n + 1, Len(x))) = Len(x) - n
  <2>1. Len(x) \in n .. Len(x)
    BY <1>0
  <2> QED
    BY <2>1, PieceOf
<1>3. SubSeq(x, 1, n) \o SubSeq(x, n + 1, Len(x)) = SubSeq(x, 1, Len(x))
  <2>1. 1 \in 1 .. Len(x) + 1 /\ n \in 1 - 1 .. Len(x) /\ Len(x) \in n .. Len(x)
    BY <1>0
  <2> QED
    BY <2>1, ConcatAdjacentSubSeq
<1> QED
  BY <1>1, <1>2, <1>3, SubSeqFull

\* send: bytes that go from the writer to the wire stay where they are in the stream.
LEMMA SendMoves ==
    ASSUME NEW s \in Seq(Nat), NEW t \in Seq(Nat), NEW u \in Seq(Nat), NEW n \in 0 .. Len(u)
    PROVE  Row(s, t \o SubSeq(u, 1, n), SubSeq(u, n + 1, Len(u))) = Row(s, t, u)
<1> DEFINE p == SubSeq(u, 1, n)
           q == SubSeq(u, n + 1, Len(u))
<1>1. p \in Seq(Nat) /\ q \in Seq(Nat) /\ Join(p, q) = u
  BY CutInTwo DEF Join
<1> HIDE DEF p, q
<1>2. Join(s, t) \in Seq(Nat)
  BY Joined DEF Join
<1>3. Join(Join(s, t), p) = Join(s, Join(t, p))
  BY <1>1, Associative, SMT
<1>4. Join(Join(Join(s, t), p), q) = Join(Join(s, t), Join(p, q))
  BY <1>1, <1>2, Associative, SMT
<1>5. Join(Join(s, Join(t, p)), q) = Join(Join(s, t), u)
  BY <1>1, <1>3, <1>4, Zenon
<1> QED
  BY <1>5 DEF p, q, Row, Join

\* recv: so do bytes that go from the wire to the reader.
LEMMA RecvMoves ==
    ASSUME NEW s \in Seq(Nat), NEW t \in Seq(Nat), NEW u \in Seq(Nat), NEW n \in 0 .. Len(t)
    PROVE  Row(s \o SubSeq(t, 1, n), SubSeq(t, n + 1, Len(t)), u) = Row(s, t, u)
<1> DEFINE p == SubSeq(t, 1, n)
           q == SubSeq(t, n + 1, Len(t))
<1>1. p \in Seq(Nat) /\ q \in Seq(Nat) /\ Join(p, q) = t
  BY CutInTwo DEF Join
<1> HIDE DEF p, q
<1>2. Join(Join(s, p), q) = Join(s, t)
  BY <1>1, Associative, SMT
<1> QED
  BY <1>2 DEF p, q, Row, Join

\* The first piece, and what is left without it.
LEMMA RowFront ==
    ASSUME NEW s \in Seq(Nat), NEW t \in Seq(Nat), NEW u \in Seq(Nat)
    PROVE  /\ SubSeq(Row(s, t, u), 1, Len(s)) = s
           /\ SubSeq(Row(s, t, u), Len(s) + 1, Len(Row(s, t, u))) = Row(<<>>, t, u)
           /\ Len(s) \in 0 .. Len(Row(s, t, u))
<1> DEFINE all == Row(s, t, u)
           p == SubSeq(all, 1, Len(s))
           q == SubSeq(all, Len(s) + 1, Len(all))
<1>1. /\ Len(s) \in Nat /\ Len(t) \in Nat /\ Len(u) \in Nat
      /\ all \in Seq(Nat) /\ Len(all) = Len(s) + Len(t) + Len(u)
      /\ \A i \in 1 .. Len(s) : all[i] = s[i]
  BY RowParts DEF InRow
<1>2. all = s \o (t \o u)
  <2>1. Join(Join(s, t), u) = Join(s, Join(t, u))
    BY Associative, SMT
  <2> QED
    BY <2>1 DEF Row, Join
<1>3. t \o u \in Seq(Nat) /\ Row(<<>>, t, u) = t \o u
  BY ConcatProperties, ConcatEmptySeq DEF Row
<1> HIDE DEF all
<1>4. Len(s) \in 0 .. Len(all)
  BY <1>1
<1>5. /\ p \in Seq(Nat) /\ Len(p) = Len(s)
      /\ q \in Seq(Nat) /\ p \o q = all
  BY <1>1, <1>4, CutInTwo
<1>6. ASSUME NEW i \in 1 .. Len(s) PROVE p[i] = s[i]
  <2>1. 0 \in 0 .. Len(all) /\ Len(s) \in 0 .. Len(all) /\ 0 + 1 = 1 /\ Len(s) - 0 = Len(s)
    BY <1>1, <1>4
  <2>2. \A j \in 1 .. Len(s) - 0 : SubSeq(all, 0 + 1, Len(s))[j] = all[0 + j]
    BY <1>1, <2>1, PieceOf
  <2>3. p[i] = all[0 + i] /\ 0 + i = i
    BY <2>1, <2>2
  <2> QED
    BY <1>1, <2>3
<1> HIDE DEF p, q
<1>7. p = s
  BY <1>5, <1>6, SeqEqual
<1>8. q = t \o u
  <2> DEFINE tu == t \o u
  <2>1. s \o q = s \o tu
    BY <1>2, <1>5, <1>7
  <2>2. q \in Seq(Nat) /\ tu \in Seq(Nat)
    BY <1>3, <1>5
  <2> HIDE DEF tu
  <2>3. q = tu
    BY <2>1, <2>2, ConcatSimplifications
  <2> QED
    BY <2>3 DEF tu
<1> QED
  BY <1>3, <1>4, <1>7, <1>8 DEF p, q, all

\* Die: what stands after the first or the second piece is lost.
LEMMA RowLost ==
    ASSUME NEW s \in Seq(Nat), NEW t \in Seq(Nat), NEW u \in Seq(Nat)
    PROVE  /\ Len(s) + Len(t) \in 0 .. Len(Row(s, t, u)) /\ Len(s) \in 0 .. Len(Row(s, t, u))
           /\ SubSeq(Row(s, t, u), 1, Len(s) + Len(t)) = Row(s, t, <<>>)
           /\ SubSeq(Row(s, t, u), 1, Len(s)) = Row(s, <<>>, <<>>)
<1> DEFINE st == s \o t
<1>1. Len(s) \in Nat /\ Len(t) \in Nat /\ Len(u) \in Nat
  OBVIOUS
<1>2. st \in Seq(Nat) /\ Len(st) = Len(s) + Len(t)
  BY Joined
<1>3. s \o <<>> = s /\ st \o <<>> = st /\ <<>> \in Seq(Nat) /\ <<>> \o u = u
  <2> HIDE DEF st
  <2> QED
    BY <1>2, ConcatEmptySeq
<1>4. Row(s, t, u) = Row(st, <<>>, u)
  BY <1>3 DEF Row
<1>5. SubSeq(Row(st, <<>>, u), 1, Len(st)) = st
  <2> HIDE DEF st
  <2> QED
    BY <1>2, <1>3, RowFront, ZenonT(40)
<1>6. Row(s, t, <<>>) = st /\ Row(s, <<>>, <<>>) = s
  BY <1>3 DEF Row
<1>7. SubSeq(Row(s, t, u), 1, Len(s)) = s
  BY RowFront
<1>8. Len(Row(s, t, u)) = Len(s) + Len(t) + Len(u)
  BY RowParts DEF InRow
<1>9. Len(s) + Len(t) \in 0 .. Len(Row(s, t, u)) /\ Len(s) \in 0 .. Len(Row(s, t, u))
  BY <1>1, <1>8
<1> HIDE DEF st
<1> QED
  BY <1>2, <1>4, <1>5, <1>6, <1>7, <1>9

\* Damage: to change a byte on the wire is to change it in the stream.
LEMMA RowDamaged ==
    ASSUME NEW s \in Seq(Nat), NEW t \in Seq(Nat), NEW u \in Seq(Nat),
           NEW i \in 1 .. Len(t), NEW v \in Nat
    PROVE  /\ [t EXCEPT ![i] = v] \in Seq(Nat) /\ Len([t EXCEPT ![i] = v]) = Len(t)
           /\ Len(s) + i \in 1 .. Len(Row(s, t, u)) /\ Row(s, t, u)[Len(s) + i] = t[i]
           /\ Row(s, [t EXCEPT ![i] = v], u) = [Row(s, t, u) EXCEPT ![Len(s) + i] = v]
<1> DEFINE w == [t EXCEPT ![i] = v]
           all == Row(s, t, u)
           p == Row(s, w, u)
           q == [all EXCEPT ![Len(s) + i] = v]
<1>1. /\ w \in Seq(Nat) /\ Len(w) = Len(t)
      /\ \A j \in 1 .. Len(t) : w[j] = IF j = i THEN v ELSE t[j]
  BY ExceptSeq
<1> HIDE DEF w
<1>2. /\ Len(s) \in Nat /\ Len(t) \in Nat /\ Len(u) \in Nat
      /\ all \in Seq(Nat) /\ Len(all) = Len(s) + Len(t) + Len(u)
      /\ \A j \in 1 .. Len(s) : all[j] = s[j]
      /\ \A j \in 1 .. Len(t) : all[Len(s) + j] = t[j]
      /\ \A j \in 1 .. Len(u) : all[Len(s) + Len(t) + j] = u[j]
  BY RowParts DEF InRow
<1>3. /\ p \in Seq(Nat) /\ Len(p) = Len(s) + Len(t) + Len(u)
      /\ \A j \in 1 .. Len(s) : p[j] = s[j]
      /\ \A j \in 1 .. Len(t) : p[Len(s) + j] = w[j]
      /\ \A j \in 1 .. Len(u) : p[Len(s) + Len(t) + j] = u[j]
  <2>1. w \in Seq(Nat) /\ Len(w) = Len(t)
    BY <1>1
  <2>2. /\ p \in Seq(Nat) /\ Len(p) = Len(s) + Len(w) + Len(u)
        /\ \A j \in 1 .. Len(s) : p[j] = s[j]
        /\ \A j \in 1 .. Len(w) : p[Len(s) + j] = w[j]
        /\ \A j \in 1 .. Len(u) : p[Len(s) + Len(w) + j] = u[j]
    <3>1. InRow(s, w, u, p)
      BY <2>1, RowParts
    <3> HIDE DEF p
    <3> QED
      BY <3>1 DEF InRow
  <2> HIDE DEF p
  <2> QED
    BY <2>1, <2>2
<1> HIDE DEF all, p
<1>4. Len(s) + i \in 1 .. Len(all) /\ all[Len(s) + i] = t[i]
  BY <1>2, SMTT(30)
<1>5. /\ q \in Seq(Nat) /\ Len(q) = Len(all)
      /\ \A x \in 1 .. Len(all) : q[x] = IF x = Len(s) + i THEN v ELSE all[x]
  <2> DEFINE at == Len(s) + i
  <2>1. at \in 1 .. Len(all) /\ all \in Seq(Nat)
    BY <1>2, <1>4
  <2> HIDE DEF at
  <2>2. /\ [all EXCEPT ![at] = v] \in Seq(Nat) /\ Len([all EXCEPT ![at] = v]) = Len(all)
        /\ \A x \in 1 .. Len(all) : [all EXCEPT ![at] = v][x] = IF x = at THEN v ELSE all[x]
    BY <2>1, ExceptSeq
  <2> QED
    BY <2>2 DEF at
<1> HIDE DEF q
<1>6. ASSUME NEW x \in 1 .. Len(p) PROVE p[x] = q[x]
  <2>1. x \in 1 .. Len(all) /\ x \in 1 .. Len(s) + Len(t) + Len(u)
    BY <1>2, <1>3
  <2>2. q[x] = IF x = Len(s) + i THEN v ELSE all[x]
    BY <1>5, <2>1
  <2>3. CASE x \in 1 .. Len(s)
    <3>1. x # Len(s) + i
      BY <1>2, <2>3
    <3> QED
      BY <1>2, <1>3, <2>2, <2>3, <3>1
  <2>4. CASE \E j \in 1 .. Len(t) : x = Len(s) + j
    <3>1. PICK j \in 1 .. Len(t) : x = Len(s) + j
      BY <2>4
    <3>2. p[x] = w[j] /\ all[x] = t[j]
      <4>1. p[Len(s) + j] = w[j] /\ all[Len(s) + j] = t[j]
        BY <1>2, <1>3
      <4> QED
        BY <3>1, <4>1
    <3>3. x = Len(s) + i <=> j = i
      <4>1. \A a, b, c \in Nat : a + b = a + c <=> b = c
        OBVIOUS
      <4>2. Len(s) \in Nat /\ i \in Nat /\ j \in Nat
        BY <1>2
      <4> QED
        BY <3>1, <4>1, <4>2, Zenon
    <3> QED
      BY <1>1, <2>2, <3>2, <3>3
  <2>5. CASE \E j \in 1 .. Len(u) : x = Len(s) + Len(t) + j
    <3>1. PICK j \in 1 .. Len(u) : x = Len(s) + Len(t) + j
      BY <2>5
    <3>2. p[x] = u[j] /\ all[x] = u[j]
      BY <1>2, <1>3, <3>1
    <3>3. x # Len(s) + i
      BY <1>2, <3>1
    <3> QED
      BY <2>2, <3>2, <3>3
  <2>6. \/ x \in 1 .. Len(s)
        \/ \E j \in 1 .. Len(t) : x = Len(s) + j
        \/ \E j \in 1 .. Len(u) : x = Len(s) + Len(t) + j
    <3> DEFINE a == Len(s)
               b == Len(t)
               c == Len(u)
    <3>1. a \in Nat /\ b \in Nat /\ c \in Nat /\ x \in 1 .. a + b + c
      BY <1>2, <2>1
    <3> HIDE DEF a, b, c
    <3>2. x \in 1 .. a \/ (\E j \in 1 .. b : x = a + j) \/ (\E j \in 1 .. c : x = a + b + j)
      BY <3>1, WithinOneOf
    <3> QED
      BY <3>2 DEF a, b, c
  <2> QED
    BY <2>3, <2>4, <2>5, <2>6
<1>7. p = q
  BY <1>2, <1>3, <1>5, <1>6, SeqEqual
<1> QED
  BY <1>1, <1>4, <1>7 DEF w, all, p, q

-----------------------------------------------------------------------------
(* What the steps do to the stream *)

\* The bytes are those behind the frames read (or none, after a reset), nothing is
\* missing at the back as long as the writer lives or has closed, and where nothing
\* is wrong no byte is damaged.
InPlace(end, skipped, bad, bytes, frames, read, writer, ok) ==
    /\ Laid(end, frames) /\ Holds(end, skipped, bad, bytes, frames)
    /\ skipped = end[read] \/ (Len(bytes) = 0 /\ writer = "rst")
    /\ writer \in {"open", "fin"} => skipped + Len(bytes) = end[Len(frames)]
    /\ ok => bad = 0

\* WriteFrame
LEMMA PlaceWritten ==
    ASSUME NEW frames \in Seq(Frame), NEW read \in 0 .. Len(frames), NEW end, NEW skipped, NEW bad,
           NEW bytes, NEW ok \in BOOLEAN, NEW f \in Frame,
           InPlace(end, skipped, bad, bytes, frames, read, "open", ok)
    PROVE  InPlace(Extended(end, frames, f), skipped, bad, bytes \o encode(f), Append(frames, f),
                   read, "open", ok)
<1> DEFINE new == Extended(end, frames, f)
           more == Append(frames, f)
           tail == encode(f)
           all == bytes \o tail
<1>1. /\ Laid(end, frames) /\ Holds(end, skipped, bad, bytes, frames) /\ skipped = end[read]
      /\ skipped + Len(bytes) = end[Len(frames)]
      /\ ok => bad = 0
  BY DEF InPlace
<1>2. Laid(new, more) /\ new[read] = end[read] /\ new[Len(frames) + 1] = end[Len(frames)] + Size(f)
  BY <1>1, LaidOneMore
<1>3. Holds(new, skipped, bad, all, more)
  BY <1>1, BackWritten
<1>4. skipped \in Nat /\ bytes \in Seq(Nat) /\ Len(bytes) \in Nat
  BY <1>1, HoldsTypes
<1>5. tail \in Seq(Nat) /\ Len(tail) = Size(f) /\ Size(f) \in Nat
  BY EncodedFrame, SizeOfFrame
<1>6. Len(more) = Len(frames) + 1
  OBVIOUS
<1> HIDE DEF tail
<1>7. Len(all) = Len(bytes) + Size(f)
  BY <1>4, <1>5, Joined
<1> HIDE DEF all, new, more
<1>8. skipped + Len(all) = new[Len(more)]
  <2>1. skipped + (Len(bytes) + Size(f)) = (skipped + Len(bytes)) + Size(f)
    BY <1>4, <1>5
  <2> QED
    BY <1>1, <1>2, <1>6, <1>7, <2>1
<1>9. InPlace(new, skipped, bad, all, more, read, "open", ok)
  BY <1>1, <1>2, <1>3, <1>8 DEF InPlace
<1> QED
  BY <1>9 DEF new, more, all, tail

\* Die
LEMMA PlaceLost ==
    ASSUME NEW frames \in Seq(Frame), NEW read \in 0 .. Len(frames), NEW end, NEW skipped, NEW bad,
           NEW bytes, NEW ok \in BOOLEAN,
           InPlace(end, skipped, bad, bytes, frames, read, "open", ok),
           NEW n \in 0 .. Len(bytes), NEW writer \in {"dead", "rst"}
    PROVE  InPlace(end, skipped, bad, SubSeq(bytes, 1, n), frames, read, writer, ok)
<1>1. /\ Laid(end, frames) /\ Holds(end, skipped, bad, bytes, frames) /\ skipped = end[read]
      /\ ok => bad = 0
  BY DEF InPlace
<1>2. Holds(end, skipped, bad, SubSeq(bytes, 1, n), frames)
  BY <1>1, BackLost
<1> QED
  BY <1>1, <1>2 DEF InPlace

\* Damage
LEMMA PlaceDamaged ==
    ASSUME NEW frames \in Seq(Frame), NEW read \in 0 .. Len(frames), NEW end, NEW skipped, NEW bad,
           NEW bytes, NEW writer, InPlace(end, skipped, bad, bytes, frames, read, writer, TRUE),
           NEW j \in 1 .. Len(bytes), NEW v \in Garbage
    PROVE  InPlace(end, skipped, skipped + j, [bytes EXCEPT ![j] = v], frames, read, writer, FALSE)
<1> DEFINE new == [bytes EXCEPT ![j] = v]
<1>1. /\ Laid(end, frames) /\ Holds(end, skipped, 0, bytes, frames)
      /\ skipped = end[read] \/ (Len(bytes) = 0 /\ writer = "rst")
      /\ writer \in {"open", "fin"} => skipped + Len(bytes) = end[Len(frames)]
  BY DEF InPlace
<1>2. Holds(end, skipped, skipped + j, new, frames)
  BY <1>1, OneDamaged
<1>3. bytes \in Seq(Nat) /\ v \in Nat
  BY <1>1, HoldsTypes, TransportAssumption
<1>4. Len(new) = Len(bytes)
  BY <1>3, ExceptSeq
<1> HIDE DEF new
<1>5. InPlace(end, skipped, skipped + j, new, frames, read, writer, FALSE)
  BY <1>1, <1>2, <1>4 DEF InPlace
<1> QED
  BY <1>5 DEF new

\* After a reset read_frame gives up what it has collected: everything is gone.
LEMMA PlaceGivenUp ==
    ASSUME NEW frames \in Seq(Frame), NEW read \in 0 .. Len(frames), NEW end, NEW skipped, NEW bad,
           NEW bytes, NEW ok \in BOOLEAN,
           InPlace(end, skipped, bad, bytes, frames, read, "rst", ok)
    PROVE  InPlace(end, skipped + Len(bytes), bad, <<>>, frames, read, "rst", ok)
<1> DEFINE n == Len(bytes)
           rest == SubSeq(bytes, n + 1, Len(bytes))
<1>1. /\ Laid(end, frames) /\ Holds(end, skipped, bad, bytes, frames) /\ (ok => bad = 0)
  BY DEF InPlace
<1>2. bytes \in Seq(Nat) /\ n \in Nat /\ n \in 0 .. Len(bytes)
  BY <1>1, HoldsTypes
<1>3. Holds(end, skipped + n, bad, rest, frames)
  <2> HIDE DEF n
  <2> QED
    BY <1>1, <1>2, FrontTaken
<1>4. rest = <<>>
  BY <1>2
<1>5. Len(<<>>) = 0
  OBVIOUS
<1> QED
  BY <1>1, <1>3, <1>4, <1>5 DEF InPlace

\* read_frame is done with a frame of the announced length.  If it did not take it
\* for what it is, the damaged byte was in it, and nothing is wrong behind it.
LEMMA PlaceRead ==
    ASSUME NEW frames \in Seq(Frame), NEW read \in 0 .. Len(frames), read < Len(frames),
           NEW end, NEW skipped, NEW bad, NEW bytes, NEW ok \in BOOLEAN, NEW writer,
           InPlace(end, skipped, bad, bytes, frames, read, writer, ok),
           NEW n \in HeaderSize .. Len(bytes), n = HeaderSize + bytes[3],
           bytes[3] = Len(frames[read + 1].payload), NEW ok2 \in BOOLEAN,
           ok2 = (ok \/ ~IsFrame(SubSeq(bytes, 1, n), frames[read + 1]))
    PROVE  \E bad2 : InPlace(end, skipped + n, bad2, SubSeq(bytes, n + 1, Len(bytes)), frames,
                             read + 1, writer, ok2)
<1> DEFINE rest == SubSeq(bytes, n + 1, Len(bytes))
           f == frames[read + 1]
<1>1. /\ Laid(end, frames) /\ Holds(end, skipped, bad, bytes, frames)
      /\ skipped = end[read] \/ (Len(bytes) = 0 /\ writer = "rst")
      /\ writer \in {"open", "fin"} => skipped + Len(bytes) = end[Len(frames)]
      /\ ok => bad = 0
  BY DEF InPlace
<1>2. skipped \in Nat /\ bad \in Nat /\ bytes \in Seq(Nat) /\ Len(bytes) \in Nat
  BY <1>1, HoldsTypes
<1>3. /\ n \in Nat /\ n >= 4 /\ n <= Len(bytes) /\ n \in 0 .. Len(bytes)
      /\ Len(bytes) >= HeaderSize
  BY <1>2 DEF HeaderSize
<1>4. skipped = end[read]
  BY <1>1, <1>3
<1>5. read + 1 \in 1 .. Len(frames) /\ (read + 1) - 1 = read /\ f \in Frame
  OBVIOUS
<1>6. Size(f) = n /\ end[read + 1] = skipped + n
  BY <1>1, <1>4, <1>5 DEF Laid, Size
<1>7. /\ Holds(end, skipped + n, bad, rest, frames)
      /\ (skipped + n) + Len(rest) = skipped + Len(bytes)
  BY <1>1, <1>3, FrontTaken
<1> HIDE DEF rest
<1>8. CASE ok2 => bad = 0
  BY <1>1, <1>6, <1>7, <1>8 DEF InPlace, rest
<1>9. CASE ~IsFrame(SubSeq(bytes, 1, n), f)
  <2>1. ~Unhurt(skipped, bad, f)
    BY <1>1, <1>3, <1>4, <1>9, FrontFrame
  <2>2. bad <= skipped + n
    BY <1>2, <1>3, <1>6, <2>1 DEF Unhurt
  <2>3. Holds(end, skipped + n, 0, rest, frames)
    BY <1>1, <1>7, <2>2, Healed
  <2>4. InPlace(end, skipped + n, 0, rest, frames, read + 1, writer, ok2)
    BY <1>1, <1>6, <1>7, <2>3 DEF InPlace
  <2> QED
    BY <2>4 DEF rest
<1> QED
  BY <1>1, <1>8, <1>9

-----------------------------------------------------------------------------
(* The invariant *)

\* All bytes on their way: collected, in flight, not sent yet.
Bytes == Row(reader.buf, wire, out)

\* What the variables hold.
ShapeInv ==
    /\ out \in Seq(Nat) /\ wire \in Seq(Nat) /\ Len(wire) <= Window
    /\ peer \in {"open", "fin", "dead", "rst"}
    /\ reader \in [at: {"header", "payload", "ended"}, buf: Seq(Nat)]
    /\ stop \in BOOLEAN /\ spoilt \in BOOLEAN /\ astray \in BOOLEAN /\ sound \in BOOLEAN
    /\ sent \in Seq(Frame) /\ last \in 0 .. Len(sent)
    /\ delivered \in Seq([kind: Nat, payload: Seq(Nat)])

\* What read_frame has collected, and who may have ended.
ReaderInv ==
    /\ reader.at = "header" => Len(reader.buf) < HeaderSize
    /\ reader.at = "payload" =>
          /\ HeaderSize <= Len(reader.buf) /\ reader.buf[3] <= MaxPayload
          /\ Len(reader.buf) < HeaderSize + reader.buf[3]
    /\ reader.at = "ended" => reader.buf = <<>>
    /\ peer # "open" => out = <<>>
    /\ reader.at = "ended" /\ ~stop => peer \in {"fin", "dead"}

\* Where the bytes on their way belong.
StreamInv ==
    reader.at # "ended" /\ ~astray =>
        \E end, skipped, bad : InPlace(end, skipped, bad, Bytes, sent, last, peer, ~spoilt)

\* What has been read while nothing was wrong.
SoundInv ==
    /\ sound => ~spoilt
    /\ sound /\ ~astray => delivered = SubSeq(sent, 1, last)

\* The inductive invariant.
TransportInv == ShapeInv /\ ReaderInv /\ StreamInv /\ SoundInv /\ CloseLosesNothing

\* A new connection holds no bytes.
LEMMA InitInv ==
    ASSUME Init
    PROVE  TransportInv
<1>1. /\ out = <<>> /\ wire = <<>> /\ peer = "open"
      /\ reader = [at |-> "header", buf |-> <<>>] /\ stop = FALSE
      /\ sent = <<>> /\ delivered = <<>> /\ last = 0
      /\ spoilt = FALSE /\ astray = FALSE /\ sound = TRUE
  BY DEF Init, At
<1>2. /\ <<>> \in Seq(Nat) /\ <<>> \in Seq(Frame) /\ Len(<<>>) = 0
      /\ <<>> \in Seq([kind: Nat, payload: Seq(Nat)])
  OBVIOUS
<1>3. ShapeInv
  <2>1. Window \in Nat
    BY TransportAssumption
  <2>2. 0 <= Window /\ 0 \in 0 .. 0
    BY <2>1
  <2> QED
    BY <1>1, <1>2, <2>2 DEF ShapeInv
<1>4. ReaderInv
  BY <1>1, <1>2 DEF ReaderInv, HeaderSize
<1>5. StreamInv
  <2> DEFINE end == [k \in 0 .. 0 |-> 0]
  <2>1. Bytes = <<>>
    BY <1>1 DEF Bytes, Row
  <2>2. Laid(end, sent)
    BY <1>1, <1>2 DEF Laid
  <2>3. end[0] = 0
    OBVIOUS
  <2> HIDE DEF end
  <2>4. Holds(end, 0, 0, Bytes, sent)
    BY <1>1, <1>2, <2>1, <2>3 DEF Holds
  <2>5. InPlace(end, 0, 0, Bytes, sent, last, peer, ~spoilt)
    BY <1>1, <1>2, <2>1, <2>2, <2>3, <2>4 DEF InPlace
  <2> QED
    BY <2>5 DEF StreamInv
<1>6. SoundInv
  <2>1. SubSeq(sent, 1, last) = <<>>
    BY <1>1, SubSeqEmpty
  <2> QED
    BY <1>1, <1>2, <2>1 DEF SoundInv
<1>7. CloseLosesNothing
  BY <1>1 DEF CloseLosesNothing
<1> QED
  BY <1>3, <1>4, <1>5, <1>6, <1>7 DEF TransportInv

\* write_frame: the new frame goes behind everything written before.
LEMMA WriteFrameInv ==
    ASSUME TransportInv, NEW f \in Frame, WriteFrame(f)
    PROVE  TransportInv'
<1>1. ShapeInv /\ ReaderInv /\ StreamInv /\ SoundInv /\ CloseLosesNothing
  BY DEF TransportInv
<1>2. /\ peer = "open" /\ out = <<>> /\ out' = encode(f) /\ sent' = Append(sent, f)
      /\ wire' = wire /\ peer' = peer /\ reader' = reader /\ stop' = stop
      /\ delivered' = delivered /\ last' = last
      /\ spoilt' = spoilt /\ astray' = astray /\ sound' = sound
  BY DEF WriteFrame
<1>3. /\ sent' \in Seq(Frame) /\ Len(sent') = Len(sent) + 1 /\ sent'[Len(sent) + 1] = f
      /\ \A k \in 1 .. Len(sent) : sent'[k] = sent[k]
      /\ Len(sent) \in Nat /\ last \in 0 .. Len(sent)
  BY <1>1, <1>2, AppendProperties DEF ShapeInv
<1>4. encode(f) \in Seq(Nat)
  BY EncodedFrame
<1>6. ShapeInv'
  BY <1>1, <1>2, <1>3, <1>4 DEF ShapeInv
<1>7. ReaderInv'
  BY <1>1, <1>2 DEF ReaderInv
<1>8. StreamInv'
  <2> SUFFICES ASSUME reader.at # "ended", ~astray
               PROVE  \E end, skipped, bad :
                         InPlace(end, skipped, bad, Bytes', sent', last', peer', ~spoilt)
    BY <1>2 DEF StreamInv
  <2>1. PICK end, skipped, bad : InPlace(end, skipped, bad, Bytes, sent, last, "open", ~spoilt)
    BY <1>1, <1>2 DEF StreamInv
  <2>2. InPlace(Extended(end, sent, f), skipped, bad, Bytes \o encode(f), Append(sent, f), last,
                "open", ~spoilt)
    <3>1. sent \in Seq(Frame) /\ last \in 0 .. Len(sent)
      BY <1>1 DEF ShapeInv
    <3> DEFINE ok == ~spoilt
    <3>2. ok \in BOOLEAN /\ InPlace(end, skipped, bad, Bytes, sent, last, "open", ok)
      BY <2>1
    <3> HIDE DEF ok
    <3>3. InPlace(Extended(end, sent, f), skipped, bad, Bytes \o encode(f), Append(sent, f), last,
                  "open", ok)
      BY <3>1, <3>2, PlaceWritten
    <3> QED
      BY <3>3 DEF ok
  <2>3. Bytes' = Bytes \o encode(f)
    <3>1. reader.buf \o wire \in Seq(Nat)
      BY <1>1, Joined DEF ShapeInv
    <3>2. (reader.buf \o wire) \o <<>> = reader.buf \o wire
      BY <3>1, ConcatEmptySeq
    <3> QED
      BY <1>2, <3>2 DEF Bytes, Row
  <2> QED
    BY <1>2, <2>2, <2>3
<1>9. SoundInv'
  <2>1. SubSeq(sent', 1, last) = SubSeq(sent, 1, last)
    <3>1. last \in Nat /\ last <= Len(sent)
      BY <1>3
    <3>2. \A k \in 1 .. last : sent'[k] = sent[k]
      BY <1>3, <3>1
    <3> QED
      BY <1>1, <1>3, <3>1, <3>2 DEF ShapeInv
  <2> QED
    BY <1>1, <1>2, <2>1 DEF SoundInv
<1>10. CloseLosesNothing'
  BY <1>2 DEF CloseLosesNothing
<1> QED
  BY <1>6, <1>7, <1>8, <1>9, <1>10 DEF TransportInv

\* send takes some of the bytes: none changes its place in the stream.
LEMMA SendSomeInv ==
    ASSUME TransportInv, SendSome
    PROVE  TransportInv'
<1>1. ShapeInv /\ ReaderInv /\ StreamInv /\ SoundInv /\ CloseLosesNothing
  BY DEF TransportInv
<1>2. /\ peer = "open" /\ reader.at # "ended"
      /\ peer' = peer /\ reader' = reader /\ stop' = stop /\ sent' = sent
      /\ delivered' = delivered /\ last' = last
      /\ spoilt' = spoilt /\ astray' = astray /\ sound' = sound
  BY DEF told, SendSome
<1>3. PICK n \in 1 .. Len(out) :
         /\ Len(wire) + n <= Window
         /\ wire' = wire \o SubSeq(out, 1, n)
         /\ out' = SubSeq(out, n + 1, Len(out))
  BY DEF SendSome
<1>4. n \in 0 .. Len(out) /\ out \in Seq(Nat) /\ wire \in Seq(Nat) /\ reader.buf \in Seq(Nat)
  BY <1>1 DEF ShapeInv
<1>5. /\ SubSeq(out, 1, n) \in Seq(Nat) /\ Len(SubSeq(out, 1, n)) = n
      /\ SubSeq(out, n + 1, Len(out)) \in Seq(Nat)
  BY <1>4, CutInTwo
<1>6. wire' \in Seq(Nat) /\ Len(wire') <= Window /\ out' \in Seq(Nat)
  <2> DEFINE piece == SubSeq(out, 1, n)
  <2>1. piece \in Seq(Nat) /\ Len(piece) = n /\ wire' = wire \o piece
    BY <1>3, <1>5
  <2> HIDE DEF piece
  <2>2. wire' \in Seq(Nat) /\ Len(wire') = Len(wire) + n
    BY <1>4, <2>1, Joined
  <2> QED
    BY <1>3, <1>5, <2>2
<1>7. ShapeInv'
  BY <1>1, <1>2, <1>6 DEF ShapeInv
<1>8. ReaderInv'
  BY <1>1, <1>2 DEF ReaderInv
<1>9. Bytes' = Bytes
  BY <1>2, <1>3, <1>4, SendMoves DEF Bytes
<1>10. StreamInv'
  BY <1>1, <1>2, <1>9 DEF StreamInv
<1>11. SoundInv' /\ CloseLosesNothing'
  BY <1>1, <1>2 DEF SoundInv, CloseLosesNothing
<1> QED
  BY <1>7, <1>8, <1>10, <1>11 DEF TransportInv

\* The writer dies: the stream loses its end.
LEMMA DieInv ==
    ASSUME TransportInv, Die
    PROVE  TransportInv'
<1>1. ShapeInv /\ ReaderInv /\ StreamInv /\ SoundInv /\ CloseLosesNothing
  BY DEF TransportInv
<1>2. /\ peer = "open" /\ out' = <<>> /\ peer' \in {"dead", "rst"} /\ wire' \in {wire, <<>>}
      /\ reader' = reader /\ stop' = stop /\ sent' = sent
      /\ delivered' = delivered /\ last' = last
      /\ spoilt' = spoilt /\ astray' = astray /\ sound' = sound
  BY DEF told, Die
<1>3. /\ out \in Seq(Nat) /\ wire \in Seq(Nat) /\ reader.buf \in Seq(Nat) /\ sent \in Seq(Frame)
      /\ last \in 0 .. Len(sent) /\ (~spoilt) \in BOOLEAN
      /\ <<>> \in Seq(Nat) /\ Len(<<>>) = 0 /\ Len(wire) \in Nat /\ Window \in Nat
  BY <1>1, TransportAssumption DEF ShapeInv
<1>4. ShapeInv'
  <2>1. wire' \in Seq(Nat) /\ Len(wire') <= Window
    <3>1. CASE wire' = wire
      BY <1>1, <3>1 DEF ShapeInv
    <3>2. CASE wire' = <<>>
      BY <1>3, <3>2
    <3> QED
      BY <1>2, <3>1, <3>2
  <2>2. peer' \in {"open", "fin", "dead", "rst"}
    BY <1>2
  <2> QED
    BY <1>1, <1>2, <1>3, <2>1, <2>2 DEF ShapeInv
<1>5. ReaderInv'
  BY <1>1, <1>2 DEF ReaderInv
<1>6. \E n \in 0 .. Len(Bytes) : Bytes' = SubSeq(Bytes, 1, n)
  <2> DEFINE b == reader.buf
  <2>1. /\ Len(b) + Len(wire) \in 0 .. Len(Row(b, wire, out))
        /\ Len(b) \in 0 .. Len(Row(b, wire, out))
        /\ SubSeq(Row(b, wire, out), 1, Len(b) + Len(wire)) = Row(b, wire, <<>>)
        /\ SubSeq(Row(b, wire, out), 1, Len(b)) = Row(b, <<>>, <<>>)
    BY <1>3, RowLost
  <2>2. Bytes = Row(b, wire, out) /\ Bytes' = Row(b, wire', <<>>)
    BY <1>2 DEF Bytes
  <2> HIDE DEF b
  <2> QED
    BY <1>2, <2>1, <2>2
<1>7. StreamInv'
  <2> SUFFICES ASSUME reader.at # "ended", ~astray
               PROVE  \E end, skipped, bad :
                         InPlace(end, skipped, bad, Bytes', sent, last, peer', ~spoilt)
    BY <1>2 DEF StreamInv
  <2>1. PICK end, skipped, bad : InPlace(end, skipped, bad, Bytes, sent, last, "open", ~spoilt)
    BY <1>1, <1>2 DEF StreamInv
  <2>2. PICK n \in 0 .. Len(Bytes) : Bytes' = SubSeq(Bytes, 1, n)
    BY <1>6
  <2>3. InPlace(end, skipped, bad, SubSeq(Bytes, 1, n), sent, last, peer', ~spoilt)
    BY <1>2, <1>3, <2>1, PlaceLost
  <2> QED
    BY <2>2, <2>3
<1>8. SoundInv'
  BY <1>1, <1>2 DEF SoundInv
<1>9. CloseLosesNothing'
  BY <1>2 DEF CloseLosesNothing
<1> QED
  BY <1>4, <1>5, <1>7, <1>8, <1>9 DEF TransportInv

\* One byte is damaged.
LEMMA DamageInv ==
    ASSUME TransportInv, Damage
    PROVE  TransportInv'
<1>1. ShapeInv /\ ReaderInv /\ StreamInv /\ SoundInv /\ CloseLosesNothing
  BY DEF TransportInv
<1>2. /\ ~spoilt /\ spoilt' = TRUE /\ sound' = FALSE /\ astray' = astray
      /\ out' = out /\ peer' = peer /\ reader' = reader /\ stop' = stop /\ sent' = sent
      /\ delivered' = delivered /\ last' = last
  BY DEF Damage
<1>3. PICK i \in DOMAIN wire, v \in Garbage :
         wire' = [wire EXCEPT ![i] = v]
  BY DEF Damage
<1>4. /\ out \in Seq(Nat) /\ wire \in Seq(Nat) /\ reader.buf \in Seq(Nat) /\ sent \in Seq(Frame)
      /\ last \in 0 .. Len(sent) /\ i \in 1 .. Len(wire) /\ v \in Nat
  BY <1>1, TransportAssumption DEF ShapeInv
<1>5. /\ wire' \in Seq(Nat) /\ Len(wire') = Len(wire)
      /\ Len(reader.buf) + i \in 1 .. Len(Bytes) /\ Bytes[Len(reader.buf) + i] = wire[i]
      /\ Bytes' = [Bytes EXCEPT ![Len(reader.buf) + i] = v]
  <2> DEFINE b == reader.buf
             w == [wire EXCEPT ![i] = v]
  <2>0. b \in Seq(Nat)
    BY <1>4
  <2> HIDE DEF b
  <2>1. /\ w \in Seq(Nat) /\ Len(w) = Len(wire)
        /\ Len(b) + i \in 1 .. Len(Row(b, wire, out)) /\ Row(b, wire, out)[Len(b) + i] = wire[i]
        /\ Row(b, w, out) = [Row(b, wire, out) EXCEPT ![Len(b) + i] = v]
    BY <1>4, <2>0, RowDamaged, SMTT(30)
  <2>2. Bytes = Row(b, wire, out) /\ Bytes' = Row(b, w, out) /\ wire' = w
    BY <1>2, <1>3 DEF Bytes, b
  <2> HIDE DEF w
  <2>3. Bytes' = [Bytes EXCEPT ![Len(b) + i] = v]
    BY <2>1, <2>2
  <2> QED
    BY <2>1, <2>2, <2>3 DEF b
<1>6. ShapeInv'
  BY <1>1, <1>2, <1>5 DEF ShapeInv
<1>7. ReaderInv'
  BY <1>1, <1>2 DEF ReaderInv
<1>8. StreamInv'
  <2> SUFFICES ASSUME reader.at # "ended", ~astray
               PROVE  \E end, skipped, bad :
                         InPlace(end, skipped, bad, Bytes', sent, last, peer, FALSE)
    BY <1>2 DEF StreamInv
  <2>0. ~spoilt = TRUE
    BY <1>1, <1>2 DEF ShapeInv
  <2>1. PICK end, skipped, bad : InPlace(end, skipped, bad, Bytes, sent, last, peer, TRUE)
    BY <1>1, <2>0 DEF StreamInv
  <2> DEFINE j == Len(reader.buf) + i
  <2>2. j \in 1 .. Len(Bytes) /\ Bytes' = [Bytes EXCEPT ![j] = v]
    BY <1>3, <1>5
  <2> HIDE DEF j
  <2>3. InPlace(end, skipped, skipped + j, [Bytes EXCEPT ![j] = v], sent, last, peer, FALSE)
    BY <1>4, <2>1, <2>2, PlaceDamaged
  <2> QED
    BY <2>2, <2>3
<1>9. SoundInv' /\ CloseLosesNothing'
  BY <1>1, <1>2 DEF SoundInv, CloseLosesNothing
<1> QED
  BY <1>6, <1>7, <1>8, <1>9 DEF TransportInv

\* The writer closes when everything is handed to send.
LEMMA CloseInv ==
    ASSUME TransportInv, Close
    PROVE  TransportInv'
<1>1. ShapeInv /\ ReaderInv /\ StreamInv /\ SoundInv /\ CloseLosesNothing
  BY DEF TransportInv
<1>2. /\ peer = "open" /\ out = <<>> /\ peer' = "fin" /\ out' = out /\ wire' = wire
      /\ reader' = reader /\ stop' = stop /\ sent' = sent
      /\ delivered' = delivered /\ last' = last
      /\ spoilt' = spoilt /\ astray' = astray /\ sound' = sound
  BY DEF told, Close
<1>3. ShapeInv'
  BY <1>1, <1>2 DEF ShapeInv
<1>4. ReaderInv'
  BY <1>1, <1>2 DEF ReaderInv
<1>5. StreamInv'
  <2> SUFFICES ASSUME reader.at # "ended", ~astray
               PROVE  \E end, skipped, bad :
                         InPlace(end, skipped, bad, Bytes, sent, last, "fin", ~spoilt)
    BY <1>2 DEF StreamInv, Bytes
  <2>1. PICK end, skipped, bad : InPlace(end, skipped, bad, Bytes, sent, last, "open", ~spoilt)
    BY <1>1, <1>2 DEF StreamInv
  <2>2. InPlace(end, skipped, bad, Bytes, sent, last, "fin", ~spoilt)
    BY <2>1 DEF InPlace
  <2> QED
    BY <2>2
<1>6. SoundInv'
  BY <1>1, <1>2 DEF SoundInv
<1>7. CloseLosesNothing'
  BY <1>1, <1>2 DEF CloseLosesNothing, ReaderInv
<1> QED
  BY <1>3, <1>4, <1>5, <1>6, <1>7 DEF TransportInv

\* Nobody reads any more.
LEMMA SendFailsInv ==
    ASSUME TransportInv, SendFails
    PROVE  TransportInv'
<1>1. ShapeInv /\ ReaderInv /\ StreamInv /\ SoundInv /\ CloseLosesNothing
  BY DEF TransportInv
<1>2. /\ reader.at = "ended" /\ out' = <<>> /\ wire' = wire /\ peer' = peer
      /\ reader' = reader /\ stop' = stop /\ sent' = sent
      /\ delivered' = delivered /\ last' = last
      /\ spoilt' = spoilt /\ astray' = astray /\ sound' = sound
  BY DEF told, SendFails
<1>3. <<>> \in Seq(Nat)
  OBVIOUS
<1>4. ShapeInv'
  BY <1>1, <1>2, <1>3 DEF ShapeInv
<1>5. ReaderInv' /\ StreamInv'
  BY <1>1, <1>2 DEF ReaderInv, StreamInv
<1>6. SoundInv' /\ CloseLosesNothing'
  BY <1>1, <1>2 DEF SoundInv, CloseLosesNothing
<1> QED
  BY <1>4, <1>5, <1>6 DEF TransportInv

\* stop_ is set.
LEMMA RequestStopInv ==
    ASSUME TransportInv, RequestStop
    PROVE  TransportInv'
<1>1. ShapeInv /\ ReaderInv /\ StreamInv /\ SoundInv /\ CloseLosesNothing
  BY DEF TransportInv
<1>2. /\ stop' = TRUE /\ out' = out /\ wire' = wire /\ peer' = peer
      /\ reader' = reader /\ sent' = sent
      /\ delivered' = delivered /\ last' = last
      /\ spoilt' = spoilt /\ astray' = astray /\ sound' = sound
  BY DEF told, RequestStop
<1>3. ShapeInv' /\ ReaderInv' /\ SoundInv' /\ CloseLosesNothing'
  BY <1>1, <1>2 DEF ShapeInv, ReaderInv, SoundInv, CloseLosesNothing
<1>4. StreamInv'
  BY <1>1, <1>2 DEF StreamInv, Bytes
<1> QED
  BY <1>3, <1>4 DEF TransportInv

\* While no byte is damaged, none of any frame is.
LEMMA Unhurt0 ==
    ASSUME NEW skipped \in Nat, NEW f
    PROVE  Unhurt(skipped, 0, f)
  BY DEF Unhurt

\* After an orderly close nothing is left behind: a frame that has begun has
\* arrived in full, so read_frame has returned it.
LEMMA NothingLeft ==
    ASSUME TransportInv, reader.at # "ended", wire = <<>>, peer = "fin", ~astray, ~spoilt
    PROVE  last = Len(sent) /\ (sound => delivered = sent)
<1>1. ShapeInv /\ ReaderInv /\ StreamInv /\ SoundInv
  BY DEF TransportInv
<1> DEFINE b == reader.buf
<1>2. /\ b \in Seq(Nat) /\ Len(b) \in Nat /\ sent \in Seq(Frame) /\ last \in 0 .. Len(sent)
      /\ ~spoilt = TRUE /\ Len(sent) \in Nat /\ <<>> \in Seq(Nat)
  BY <1>1 DEF ShapeInv
<1>3. Bytes = b
  <2>1. out = <<>>
    BY <1>1 DEF ReaderInv
  <2>2. b \o <<>> = b
    BY <1>2, ConcatEmptySeq
  <2> QED
    BY <2>1, <2>2 DEF Bytes, Row
<1>4. PICK end, skipped, bad : InPlace(end, skipped, bad, Bytes, sent, last, "fin", TRUE)
  BY <1>1, <1>2 DEF StreamInv
<1>5. /\ Laid(end, sent) /\ Holds(end, skipped, bad, b, sent) /\ skipped = end[last]
      /\ skipped + Len(b) = end[Len(sent)]
  BY <1>3, <1>4 DEF InPlace
<1>6. /\ skipped \in Nat /\ \A k \in 0 .. Len(sent) : end[k] \in Nat
  BY <1>2, <1>5 DEF Laid, Holds
<1>7. Len(b) < HeaderSize
  <2> SUFFICES ASSUME HeaderSize <= Len(b) PROVE FALSE
    BY <1>2 DEF HeaderSize
  <2>1. Len(Bytes) >= HeaderSize
    BY <1>2, <1>3 DEF HeaderSize
  <2>2. last + 1 \in 1 .. Len(sent) /\ end[last + 1] = skipped + (HeaderSize + Bytes[3])
    <3>1. sent \in Seq(Frame) /\ last \in 0 .. Len(sent) /\ Laid(end, sent)
          /\ Holds(end, skipped, 0, b, sent) /\ skipped = end[last] /\ Len(b) >= HeaderSize
      BY <1>2, <1>5, <2>1, <1>4, <1>3 DEF InPlace
    <3>0. last < Len(sent) => Unhurt(skipped, 0, sent[last + 1])
      BY <1>6, Unhurt0
    <3> HIDE DEF b
    <3>2. last + 1 \in 1 .. Len(sent)
      BY <3>0, <3>1, FrontFrame
    <3>3. end[last + 1] = skipped + (HeaderSize + b[3])
      BY <3>0, <3>1, FrontFrame
    <3> QED
      BY <1>3, <3>2, <3>3
  <2>3. reader.at = "payload"
    BY <1>1, <1>2 DEF ReaderInv, ShapeInv, HeaderSize
  <2>4. Len(b) < HeaderSize + b[3]
    BY <1>1, <2>3 DEF ReaderInv
  <2>5. b[3] \in Nat
    BY <1>2, ElementOfSeq DEF HeaderSize
  <2>6. end[last + 1] <= end[Len(sent)]
    <3>1. last + 1 \in 0 .. Len(sent) /\ Len(sent) \in 0 .. Len(sent) /\ last + 1 <= Len(sent)
      BY <1>2, <2>2
    <3> QED
      BY <1>2, <1>5, <3>1, EndsGrow
  <2>7. skipped + (HeaderSize + b[3]) <= skipped + Len(b)
    BY <1>3, <1>5, <2>2, <2>6
  <2> HIDE DEF b
  <2> QED
    BY <1>2, <1>6, <2>4, <2>5, <2>7 DEF HeaderSize
<1>8. last = Len(sent)
  <2> SUFFICES ASSUME last # Len(sent) PROVE FALSE
    OBVIOUS
  <2>1. last + 1 \in 1 .. Len(sent) /\ last + 1 \in 0 .. Len(sent) /\ (last + 1) - 1 = last
    BY <1>2
  <2>2. end[last + 1] <= end[Len(sent)]
    <3>1. Len(sent) \in 0 .. Len(sent) /\ last + 1 <= Len(sent)
      BY <1>2, <2>1
    <3> QED
      BY <1>2, <1>5, <2>1, <3>1, EndsGrow
  <2>3. sent[last + 1] \in Frame
    BY <1>2, <2>1
  <2>4. Size(sent[last + 1]) \in Nat /\ Size(sent[last + 1]) >= HeaderSize
    BY <2>3, SizeOfFrame
  <2>5. end[last + 1] = end[last] + Size(sent[last + 1])
    BY <1>5, <2>1 DEF Laid
  <2>6. skipped + Size(sent[last + 1]) <= skipped + Len(b)
    BY <1>5, <2>2, <2>5
  <2> HIDE DEF b
  <2> QED
    BY <1>2, <1>6, <1>7, <2>4, <2>6 DEF HeaderSize
<1> QED
  BY <1>1, <1>2, <1>8, SubSeqFull DEF SoundInv

\* recv returns 0: nothing more will come.
LEMMA PeerLostInv ==
    ASSUME TransportInv, PeerLost
    PROVE  TransportInv'
<1>1. ShapeInv /\ ReaderInv /\ StreamInv /\ SoundInv /\ CloseLosesNothing
  BY DEF TransportInv
<1>2. /\ reader.at # "ended" /\ wire = <<>> /\ peer \in {"fin", "dead"}
      /\ reader' = [at |-> "ended", buf |-> <<>>]
      /\ out' = out /\ wire' = wire /\ peer' = peer /\ stop' = stop /\ sent' = sent
      /\ delivered' = delivered /\ last' = last
      /\ spoilt' = spoilt /\ astray' = astray /\ sound' = sound
  BY DEF told, PeerLost, At
<1>3. <<>> \in Seq(Nat)
  OBVIOUS
<1>4. ShapeInv'
  BY <1>1, <1>2, <1>3 DEF ShapeInv
<1>5. ReaderInv'
  BY <1>1, <1>2 DEF ReaderInv
<1>6. StreamInv'
  BY <1>2 DEF StreamInv
<1>7. SoundInv'
  BY <1>1, <1>2 DEF SoundInv
<1>8. peer = "fin" /\ ~astray /\ ~spoilt => last = Len(sent) /\ (sound => delivered = sent)
  BY <1>2, NothingLeft
<1>9. CloseLosesNothing'
  BY <1>2, <1>8 DEF CloseLosesNothing
<1> QED
  BY <1>4, <1>5, <1>6, <1>7, <1>9 DEF TransportInv

\* The bytes that are neither collected nor lost are where they were.
Placed(bytes, read, ok) ==
    \E end, skipped, bad : InPlace(end, skipped, bad, bytes, sent, read, peer, ok)

\* read_frame returns and the reader turns to the next header.
LEMMA TurnInv ==
    ASSUME TransportInv, reader.at # "ended", NEW w \in Seq(Nat), Len(w) <= Window,
           wire' = w, reader' = NextFrame, UNCHANGED <<out, peer, stop, sent, sound>>,
           last' \in 0 .. Len(sent), spoilt' \in BOOLEAN, astray' \in BOOLEAN,
           delivered' \in Seq([kind: Nat, payload: Seq(Nat)]),
           ~astray' => Placed(Row(<<>>, w, out), last', ~spoilt'),
           SoundInv'
    PROVE  TransportInv'
<1>1. ShapeInv /\ ReaderInv
  BY DEF TransportInv
<1>2. out' = out /\ peer' = peer /\ stop' = stop /\ sent' = sent /\ sound' = sound
  OBVIOUS
<1>3. <<>> \in Seq(Nat) /\ Len(<<>>) = 0
  OBVIOUS
<1>4. \/ stop /\ reader' = [at |-> "ended", buf |-> <<>>]
      \/ ~stop /\ reader' = [at |-> "header", buf |-> <<>>]
  BY <1>1 DEF NextFrame, At, ShapeInv
<1>5. ShapeInv'
  <2>1. reader' \in [at: {"header", "payload", "ended"}, buf: Seq(Nat)]
    <3>1. CASE reader' = [at |-> "ended", buf |-> <<>>]
      BY <1>3, <3>1
    <3>2. CASE reader' = [at |-> "header", buf |-> <<>>]
      BY <1>3, <3>2
    <3> QED
      BY <1>4, <3>1, <3>2
  <2>2. wire' \in Seq(Nat) /\ Len(wire') <= Window
    OBVIOUS
  <2> QED
    BY <1>1, <1>2, <2>1, <2>2 DEF ShapeInv
<1>6. ReaderInv'
  BY <1>1, <1>2, <1>3, <1>4 DEF ReaderInv, HeaderSize
<1>7. StreamInv'
  <2> SUFFICES ASSUME ~astray'
               PROVE  \E end, skipped, bad :
                         InPlace(end, skipped, bad, Bytes', sent, last', peer, ~spoilt')
    BY <1>2 DEF StreamInv
  <2>1. Bytes' = Row(<<>>, w, out)
    BY <1>2, <1>4 DEF Bytes
  <2>2. Placed(Row(<<>>, w, out), last', ~spoilt')
    OBVIOUS
  <2> QED
    BY <2>1, <2>2 DEF Placed
<1>8. CloseLosesNothing'
  BY <1>2, <1>4 DEF CloseLosesNothing
<1> QED
  BY <1>5, <1>6, <1>7, <1>8 DEF TransportInv

\* recv fails after a reset: what was collected is given up.
LEMMA RecvFailsInv ==
    ASSUME TransportInv, RecvFails
    PROVE  TransportInv'
<1>1. ShapeInv /\ ReaderInv /\ StreamInv /\ SoundInv
  BY DEF TransportInv
<1>2. /\ reader.at # "ended" /\ wire = <<>> /\ peer = "rst" /\ reader' = NextFrame /\ wire' = wire
      /\ UNCHANGED <<out, peer, stop, sent, sound>>
      /\ delivered' = delivered /\ last' = last /\ spoilt' = spoilt /\ astray' = astray
  BY DEF RecvFails, told
<1>3. /\ reader.buf \in Seq(Nat) /\ <<>> \in Seq(Nat) /\ Len(<<>>) <= Window /\ out = <<>>
      /\ sent \in Seq(Frame) /\ last \in 0 .. Len(sent)
      /\ spoilt \in BOOLEAN /\ astray \in BOOLEAN
      /\ delivered \in Seq([kind: Nat, payload: Seq(Nat)])
  BY <1>1, <1>2 DEF ShapeInv, ReaderInv
<1>4. Row(<<>>, <<>>, out) = <<>>
  BY <1>3 DEF Row
<1>5. ASSUME ~astray PROVE Placed(<<>>, last, ~spoilt)
  <2>1. PICK end, skipped, bad : InPlace(end, skipped, bad, Bytes, sent, last, "rst", ~spoilt)
    BY <1>1, <1>2, <1>5 DEF StreamInv
  <2> DEFINE ok == ~spoilt
  <2>2. ok \in BOOLEAN /\ InPlace(end, skipped, bad, Bytes, sent, last, "rst", ok)
    BY <2>1
  <2> HIDE DEF ok
  <2>3. InPlace(end, skipped + Len(Bytes), bad, <<>>, sent, last, "rst", ok)
    BY <1>3, <2>2, PlaceGivenUp
  <2>4. InPlace(end, skipped + Len(Bytes), bad, <<>>, sent, last, peer, ~spoilt)
    BY <1>2, <2>3 DEF ok
  <2> QED
    BY <2>4 DEF Placed
<1>6. SoundInv'
  BY <1>1, <1>2 DEF SoundInv
<1>7. ~astray' => Placed(Row(<<>>, <<>>, out), last', ~spoilt')
  BY <1>2, <1>4, <1>5
<1>8. /\ last' \in 0 .. Len(sent) /\ spoilt' \in BOOLEAN /\ astray' \in BOOLEAN
      /\ delivered' \in Seq([kind: Nat, payload: Seq(Nat)])
      /\ wire' = <<>>
  BY <1>2, <1>3
<1> QED
  BY <1>2, <1>3, <1>6, <1>7, <1>8, TurnInv

\* Until the reader goes astray, the header in front is that of the next frame; where
\* nothing is wrong it is announced, and recognised once it is whole.
LEMMA FrontOfStream ==
    ASSUME TransportInv, reader.at # "ended", ~astray, HeaderSize <= Len(Bytes)
    PROVE  /\ last < Len(sent)
           /\ ~spoilt =>
                 /\ Bytes[3] = Len(sent[last + 1].payload)
                 /\ HeaderSize + Bytes[3] <= Len(Bytes) =>
                       IsFrame(SubSeq(Bytes, 1, HeaderSize + Bytes[3]), sent[last + 1])
<1>1. ShapeInv /\ StreamInv
  BY DEF TransportInv
<1>2. sent \in Seq(Frame) /\ last \in 0 .. Len(sent) /\ Len(sent) \in Nat
  BY <1>1 DEF ShapeInv
<1>3. PICK end, skipped, bad : InPlace(end, skipped, bad, Bytes, sent, last, peer, ~spoilt)
  BY <1>1 DEF StreamInv
<1> DEFINE b == Bytes
<1>4. /\ Laid(end, sent) /\ Holds(end, skipped, bad, b, sent)
      /\ skipped = end[last] \/ Len(b) = 0
      /\ ~spoilt => bad = 0
  BY <1>3 DEF InPlace
<1>5. /\ skipped \in Nat /\ Len(b) \in Nat /\ skipped + Len(b) <= end[Len(sent)]
      /\ end[Len(sent)] \in Nat
  BY <1>2, <1>4, HoldsTypes
<1>6. skipped = end[last] /\ Len(b) >= HeaderSize /\ Len(b) >= 4
  BY <1>4, <1>5 DEF HeaderSize
<1> HIDE DEF b
<1>7. last # Len(sent)
  BY <1>5, <1>6
<1>8. ASSUME ~spoilt
      PROVE  /\ b[3] = Len(sent[last + 1].payload)
             /\ HeaderSize + b[3] <= Len(b) =>
                   IsFrame(SubSeq(b, 1, HeaderSize + b[3]), sent[last + 1])
  <2>1. last < Len(sent) => Unhurt(skipped, bad, sent[last + 1])
    BY <1>4, <1>5, <1>8, Unhurt0
  <2>2. b[3] = Len(sent[last + 1].payload)
    BY <1>2, <1>4, <1>6, <2>1, FrontFrame
  <2>3. HeaderSize + b[3] <= Len(b) => IsFrame(SubSeq(b, 1, HeaderSize + b[3]), sent[last + 1])
    BY <1>2, <1>4, <1>6, <2>1, FrontFrame
  <2> QED
    BY <2>2, <2>3
<1> QED
  BY <1>2, <1>7, <1>8 DEF b

\* What is accepted until then has the payload of the next frame, and its length.
LEMMA AcceptedPayload ==
    ASSUME TransportInv, reader.at # "ended", ~astray, NEW n \in HeaderSize .. Len(Bytes),
           n = HeaderSize + Bytes[3], decode(SubSeq(Bytes, 1, n)) = "OK"
    PROVE  /\ Bytes[2] \in Kinds /\ Bytes[3] = Len(sent[last + 1].payload)
           /\ Payload(SubSeq(Bytes, 1, n)) = sent[last + 1].payload
<1>1. ShapeInv /\ StreamInv
  BY DEF TransportInv
<1>2. sent \in Seq(Frame) /\ last \in 0 .. Len(sent) /\ Len(sent) \in Nat
  BY <1>1 DEF ShapeInv
<1>3. PICK end, skipped, bad : InPlace(end, skipped, bad, Bytes, sent, last, peer, ~spoilt)
  BY <1>1 DEF StreamInv
<1>4. /\ Laid(end, sent) /\ Holds(end, skipped, bad, Bytes, sent)
      /\ skipped = end[last] \/ Len(Bytes) = 0
  BY <1>3 DEF InPlace
<1>5. Len(Bytes) \in Nat
  BY <1>2, <1>4, HoldsTypes
<1>6. skipped = end[last] /\ HeaderSize <= Len(Bytes)
  BY <1>4, <1>5 DEF HeaderSize
<1>7. last < Len(sent)
  BY <1>6, FrontOfStream
<1> DEFINE k == last + 1
<1>8. k \in 1 .. Len(sent) /\ k - 1 = last
  BY <1>2, <1>7
<1> HIDE DEF k
<1>9. skipped = end[k - 1]
  BY <1>6, <1>8
<1> DEFINE b == Bytes
<1>10. /\ Laid(end, sent) /\ Holds(end, skipped, bad, b, sent) /\ n \in HeaderSize .. Len(b)
       /\ n = HeaderSize + b[3] /\ decode(SubSeq(b, 1, n)) = "OK"
  BY <1>4
<1> HIDE DEF b
<1>11. /\ b[2] \in Kinds /\ b[3] = Len(sent[k].payload)
       /\ Payload(SubSeq(b, 1, n)) = sent[k].payload
  <2> DEFINE frames == sent
  <2>1. frames \in Seq(Frame) /\ k \in 1 .. Len(frames) /\ Laid(end, frames)
        /\ Holds(end, skipped, bad, b, frames)
    BY <1>2, <1>8, <1>10
  <2> HIDE DEF frames
  <2>2. Kept(b, n, frames[k])
    BY <1>9, <1>10, <2>1, PayloadKept
  <2> QED
    BY <2>2 DEF Kept, frames
<1> QED
  BY <1>11 DEF b, k

\* The reader has b and w is left on the wire: nothing is out of place, and what
\* was asked of recv was no more than the rest of the frame.
Collected(b, w) ==
    /\ b \in Seq(Nat) /\ w \in Seq(Nat) /\ Len(w) <= Window
    /\ Row(b, w, out) = Bytes
    /\ HeaderSize <= Len(b) => Len(b) <= HeaderSize + b[3]

\* recv never returns more than the rest of the frame.
LEMMA ReceiveCollects ==
    ASSUME TransportInv, NEW n \in 1 .. Len(wire), n <= Wanted
    PROVE  /\ reader.at # "ended"
           /\ Collected(reader.buf \o SubSeq(wire, 1, n), SubSeq(wire, n + 1, Len(wire)))
<1>1. ShapeInv /\ ReaderInv
  BY DEF TransportInv
<1> DEFINE s == reader.buf
           p == SubSeq(wire, 1, n)
           w == SubSeq(wire, n + 1, Len(wire))
           b == s \o p
<1>2. /\ s \in Seq(Nat) /\ wire \in Seq(Nat) /\ out \in Seq(Nat) /\ Len(wire) \in Nat
      /\ Len(s) \in Nat /\ Len(wire) <= Window /\ n \in 0 .. Len(wire) /\ Window \in Nat
      /\ reader.at \in {"header", "payload", "ended"}
  BY <1>1, TransportAssumption DEF ShapeInv
<1>3. reader.at # "ended"
  BY DEF Wanted
<1>4. p \in Seq(Nat) /\ Len(p) = n /\ w \in Seq(Nat) /\ Len(w) = Len(wire) - n
  BY <1>2, CutInTwo
<1>5. Row(b, w, out) = Bytes
  BY <1>2, RecvMoves DEF Bytes
<1> HIDE DEF p, w
<1>6. /\ b \in Seq(Nat) /\ Len(b) = Len(s) + n
      /\ \A i \in 1 .. Len(s) + n : b[i] = IF i <= Len(s) THEN s[i] ELSE p[i - Len(s)]
  <2> HIDE DEF s
  <2> QED
    BY <1>2, <1>4, Joined
<1>7. Len(w) <= Window
  BY <1>2, <1>4
<1>8. ASSUME HeaderSize <= Len(b) PROVE Len(b) <= HeaderSize + b[3]
  <2>1. CASE reader.at = "header"
    <3>1. n <= HeaderSize - Len(s)
      BY <2>1 DEF Wanted
    <3> HIDE DEF b, s
    <3>2. Len(b) = HeaderSize
      BY <1>2, <1>6, <1>8, <3>1 DEF HeaderSize
    <3>3. b[3] \in Nat
      <4>1. b \in Seq(Nat)
        BY <1>6
      <4>2. 3 \in 1 .. Len(b)
        BY <3>2 DEF HeaderSize
      <4> QED
        BY <4>1, <4>2
    <3> QED
      BY <3>2, <3>3 DEF HeaderSize
  <2>2. CASE reader.at = "payload"
    <3>1. n <= HeaderSize + s[3] - Len(s)
      BY <2>2 DEF Wanted
    <3>2. HeaderSize <= Len(s)
      BY <1>1, <2>2 DEF ReaderInv
    <3>3. s[3] \in Nat
      <4>1. s \in Seq(Nat) /\ 3 \in 1 .. Len(s)
        BY <1>2, <3>2 DEF HeaderSize
      <4> HIDE DEF s
      <4> QED
        BY <4>1
    <3> HIDE DEF b, s
    <3>4. b[3] = s[3]
      <4>1. 3 \in 1 .. Len(s) + n /\ 3 <= Len(s)
        BY <1>2, <3>2 DEF HeaderSize
      <4> QED
        BY <1>6, <4>1
    <3>5. \A x, y, z \in Nat : z <= 4 + x - y => y + z <= 4 + x
      OBVIOUS
    <3>6. n \in Nat /\ n <= 4 + s[3] - Len(s)
      BY <1>2, <3>1 DEF HeaderSize
    <3>7. Len(s) + n <= 4 + s[3]
      BY <1>2, <3>3, <3>5, <3>6
    <3> QED
      BY <1>6, <3>4, <3>7 DEF HeaderSize
  <2> QED
    BY <1>2, <1>3, <2>1, <2>2
<1>9. Collected(b, w)
  BY <1>4, <1>5, <1>6, <1>7, <1>8 DEF Collected
<1> QED
  BY <1>3, <1>9 DEF w, p

\* What the bytes collected are of the stream.
LEMMA CollectedFront ==
    ASSUME TransportInv, NEW b, NEW w, Collected(b, w)
    PROVE  /\ Len(b) \in Nat /\ Len(b) \in 0 .. Len(Bytes) /\ Len(Bytes) \in Nat
           /\ \A i \in 1 .. Len(b) : Bytes[i] = b[i]
           /\ SubSeq(Bytes, 1, Len(b)) = b
           /\ SubSeq(Bytes, Len(b) + 1, Len(Bytes)) = Row(<<>>, w, out)
<1>1. out \in Seq(Nat)
  BY DEF TransportInv, ShapeInv
<1>2. b \in Seq(Nat) /\ w \in Seq(Nat) /\ Row(b, w, out) = Bytes
  BY DEF Collected
<1>3. InRow(b, w, out, Row(b, w, out))
  BY <1>1, <1>2, RowParts
<1>4. /\ SubSeq(Row(b, w, out), 1, Len(b)) = b
      /\ SubSeq(Row(b, w, out), Len(b) + 1, Len(Row(b, w, out))) = Row(<<>>, w, out)
      /\ Len(b) \in 0 .. Len(Row(b, w, out))
  BY <1>1, <1>2, RowFront
<1>5. InRow(b, w, out, Bytes)
  BY <1>2, <1>3
<1>6. /\ Len(b) \in Nat /\ \A i \in 1 .. Len(b) : Bytes[i] = b[i]
      /\ Bytes \in Seq(Nat)
  BY <1>5 DEF InRow
<1>7. Len(Bytes) \in Nat
  BY <1>6
<1> QED
  BY <1>2, <1>4, <1>6, <1>7

\* The reader waits for more.
LEMMA WaitInv ==
    ASSUME TransportInv, reader.at # "ended", NEW b, NEW w, Collected(b, w),
           NEW place \in {"header", "payload"},
           place = "header" => Len(b) < HeaderSize,
           place = "payload" => /\ HeaderSize <= Len(b) /\ b[3] <= MaxPayload
                                /\ Len(b) < HeaderSize + b[3],
           wire' = w, reader' = At(place, b), UNCHANGED <<out, peer, stop, told>>
    PROVE  TransportInv'
<1>1. ShapeInv /\ ReaderInv /\ StreamInv /\ SoundInv /\ CloseLosesNothing
  BY DEF TransportInv
<1>2. /\ out' = out /\ peer' = peer /\ stop' = stop /\ sent' = sent
      /\ delivered' = delivered /\ last' = last
      /\ spoilt' = spoilt /\ astray' = astray /\ sound' = sound
  BY DEF told
<1>3. b \in Seq(Nat) /\ w \in Seq(Nat) /\ Len(w) <= Window /\ Row(b, w, out) = Bytes
  BY DEF Collected
<1>4. reader' = [at |-> place, buf |-> b]
  BY DEF At
<1>5. reader' \in [at: {"header", "payload", "ended"}, buf: Seq(Nat)]
  BY <1>3, <1>4
<1>6. ShapeInv'
  BY <1>1, <1>2, <1>3, <1>5 DEF ShapeInv
<1>7. reader'.at = place /\ reader'.buf = b
  BY <1>4
<1>8. ReaderInv'
  BY <1>1, <1>2, <1>7 DEF ReaderInv
<1>9. Bytes' = Bytes
  BY <1>2, <1>3, <1>7 DEF Bytes
<1>10. StreamInv'
  BY <1>1, <1>2, <1>9 DEF StreamInv
<1>11. SoundInv'
  BY <1>1, <1>2 DEF SoundInv
<1>12. CloseLosesNothing'
  BY <1>7 DEF CloseLosesNothing
<1> QED
  BY <1>6, <1>8, <1>10, <1>11, <1>12 DEF TransportInv

\* read_frame returns the next frame,
ReadsNext ==
    /\ ~astray /\ last < Len(sent) /\ last' = last + 1
    /\ delivered' = Append(delivered, sent[last + 1])
    /\ UNCHANGED <<spoilt, astray>>

\* or it is damaged and refused, or returned with another kind,
MisreadsNext ==
    /\ ~astray /\ last < Len(sent) /\ last' = last + 1
    /\ \/ delivered' = delivered
       \/ \E k \in Kinds : delivered' = Append(delivered, [sent[last + 1] EXCEPT !.kind = k])
    /\ spoilt /\ spoilt' = FALSE /\ UNCHANGED astray

\* or it is too large or its length is damaged,
LosesWay ==
    /\ ~astray /\ last < Len(sent)
    /\ spoilt \/ Len(sent[last + 1].payload) > MaxPayload
    /\ astray' = TRUE
    /\ UNCHANGED <<last, delivered, spoilt>>

\* or that has happened before.
Wanders ==
    /\ astray
    /\ Len(delivered') = Len(delivered) + 1 /\ SubSeq(delivered', 1, Len(delivered)) = delivered
    /\ UNCHANGED <<last, spoilt, astray>>

Outcome ==
    \/ UNCHANGED <<last, delivered, spoilt, astray>>
    \/ ReadsNext \/ MisreadsNext \/ LosesWay \/ Wanders

\* A frame is complete: it has the announced length.
LEMMA CompleteNext ==
    ASSUME TransportInv, reader.at # "ended", NEW b, NEW w, Collected(b, w), HeaderSize <= Len(b),
           Len(b) = HeaderSize + b[3], Announced(b), Complete(b),
           wire' = w, UNCHANGED <<out, peer, stop, sent, sound>>
    PROVE  /\ ReadsNext \/ MisreadsNext
           /\ Placed(Row(<<>>, w, out), last', ~spoilt')
           /\ SoundInv'
<1>1. ShapeInv /\ StreamInv /\ SoundInv
  BY DEF TransportInv
<1>2. /\ sent \in Seq(Frame) /\ last \in 0 .. Len(sent) /\ Len(sent) \in Nat
      /\ spoilt \in BOOLEAN /\ sound \in BOOLEAN
  BY <1>1 DEF ShapeInv
<1>3. /\ Len(b) \in Nat /\ Len(b) \in 0 .. Len(Bytes) /\ Len(Bytes) \in Nat
      /\ \A i \in 1 .. Len(b) : Bytes[i] = b[i]
      /\ SubSeq(Bytes, 1, Len(b)) = b
      /\ SubSeq(Bytes, Len(b) + 1, Len(Bytes)) = Row(<<>>, w, out)
  BY CollectedFront
<1> DEFINE n == Len(b)
           f == [kind |-> b[2], payload |-> Payload(b)]
           r == sent[last + 1]
           returned == decode(b) = "OK"
<1>4. ~astray /\ last < Len(sent) /\ b[3] = Len(r.payload)
  BY DEF Announced
<1>5. last + 1 \in 1 .. Len(sent) /\ r \in Frame
  BY <1>2, <1>4
<1>6. /\ n \in HeaderSize .. Len(Bytes) /\ n = HeaderSize + Bytes[3] /\ Bytes[2] = b[2]
      /\ Bytes[3] = b[3] /\ SubSeq(Bytes, 1, n) = b /\ HeaderSize <= Len(Bytes)
      /\ HeaderSize + Bytes[3] <= Len(Bytes)
  <2>1. 2 \in 1 .. Len(b) /\ 3 \in 1 .. Len(b)
    BY <1>3 DEF HeaderSize
  <2>2. n \in HeaderSize .. Len(Bytes) /\ HeaderSize <= Len(Bytes)
    BY <1>3 DEF HeaderSize
  <2>3. n = HeaderSize + Bytes[3] /\ n <= Len(Bytes)
    BY <1>3, <2>1
  <2> QED
    BY <1>3, <2>1, <2>2, <2>3
<1>7. /\ delivered' = IF returned THEN Append(delivered, f) ELSE delivered
      /\ last' = last + 1 /\ astray' = astray
      /\ spoilt' = (spoilt /\ returned /\ f = r)
  BY DEF Complete
<1>8. IsFrame(b, r) <=> returned /\ f = r
  BY DEF IsFrame
<1>9. ~spoilt => IsFrame(b, r)
  BY <1>4, <1>6, FrontOfStream
<1>10. ReadsNext \/ MisreadsNext
  <2>1. CASE IsFrame(b, r)
    <3>1. delivered' = Append(delivered, r) /\ spoilt' = spoilt
      BY <1>2, <1>7, <1>8, <2>1
    <3> QED
      BY <1>4, <1>7, <3>1 DEF ReadsNext
  <2>2. CASE ~IsFrame(b, r)
    <3>1. spoilt /\ spoilt' = FALSE
      BY <1>2, <1>7, <1>8, <1>9, <2>2
    <3>2. CASE ~returned
      BY <1>4, <1>7, <3>1, <3>2 DEF MisreadsNext
    <3>3. CASE returned
      <4>1. decode(SubSeq(Bytes, 1, n)) = "OK"
        BY <1>6, <3>3
      <4>2. Bytes[2] \in Kinds /\ Payload(SubSeq(Bytes, 1, n)) = r.payload
        <5> HIDE DEF n
        <5> QED
          BY <1>4, <1>6, <4>1, AcceptedPayload
      <4>3. b[2] \in Kinds /\ Payload(b) = r.payload
        BY <1>6, <4>2
      <4>4. r = [kind |-> r.kind, payload |-> r.payload]
        BY <1>5, EncodedFrame
      <4>5. f = [r EXCEPT !.kind = b[2]]
        BY <4>3, <4>4
      <4>6. delivered' = Append(delivered, [sent[last + 1] EXCEPT !.kind = b[2]])
        BY <1>7, <3>3, <4>5
      <4> QED
        BY <1>4, <1>7, <3>1, <4>3, <4>6 DEF MisreadsNext
    <3> QED
      BY <3>2, <3>3
  <2> QED
    BY <2>1, <2>2
<1>11. Placed(Row(<<>>, w, out), last', ~spoilt')
  <2>1. PICK end, skipped, bad : InPlace(end, skipped, bad, Bytes, sent, last, peer, ~spoilt)
    BY <1>1, <1>4 DEF StreamInv
  <2> DEFINE ok == ~spoilt
             ok2 == ~spoilt'
             all == Bytes
             m == last
  <2>2. /\ ok \in BOOLEAN /\ ok2 \in BOOLEAN
        /\ ok2 = (ok \/ ~IsFrame(SubSeq(all, 1, n), sent[m + 1]))
    BY <1>2, <1>6, <1>7, <1>8
  <2>3. /\ m \in 0 .. Len(sent) /\ m < Len(sent)
        /\ InPlace(end, skipped, bad, all, sent, m, peer, ok)
        /\ n \in HeaderSize .. Len(all) /\ n = HeaderSize + all[3]
        /\ all[3] = Len(sent[m + 1].payload)
    BY <1>2, <1>4, <1>6, <2>1
  <2> HIDE DEF ok, ok2, n, all, m
  <2>4. \E bad2 : InPlace(end, skipped + n, bad2, SubSeq(all, n + 1, Len(all)), sent, m + 1,
                          peer, ok2)
    BY <1>2, <2>2, <2>3, PlaceRead
  <2>5. SubSeq(all, n + 1, Len(all)) = Row(<<>>, w, out)
    BY <1>3 DEF n, all
  <2>6. PICK bad2 : InPlace(end, skipped + n, bad2, Row(<<>>, w, out), sent, m + 1, peer, ok2)
    BY <2>4, <2>5
  <2>7. Placed(Row(<<>>, w, out), m + 1, ok2)
    BY <2>6 DEF Placed
  <2> QED
    BY <1>7, <2>7 DEF m, ok2
<1>12. SoundInv'
  <2>1. sound => ~spoilt /\ ~spoilt' /\ IsFrame(b, r)
    BY <1>1, <1>7, <1>9 DEF SoundInv
  <2>2. ASSUME sound PROVE delivered' = SubSeq(sent, 1, last + 1)
    <3>1. delivered = SubSeq(sent, 1, last)
      BY <1>1, <1>4, <2>2 DEF SoundInv
    <3>2. delivered' = Append(delivered, r)
      BY <1>7, <1>8, <2>1, <2>2
    <3>3. Append(SubSeq(sent, 1, last), sent[last + 1]) = SubSeq(sent, 1, last + 1)
      BY <1>2, <1>5
    <3> QED
      BY <3>1, <3>2, <3>3
  <2> QED
    BY <1>7, <2>1, <2>2 DEF SoundInv
<1> QED
  BY <1>10, <1>11, <1>12

\* read_frame is done with what it has collected, whatever it was.
LEMMA CompleteInv ==
    ASSUME TransportInv, reader.at # "ended", NEW b, NEW w, Collected(b, w), HeaderSize <= Len(b),
           Len(b) = HeaderSize + b[3], Complete(b),
           wire' = w, UNCHANGED <<out, peer, stop, sent, sound>>
    PROVE  TransportInv' /\ Outcome
<1>1. ShapeInv /\ StreamInv /\ SoundInv
  BY DEF TransportInv
<1>2. /\ sent \in Seq(Frame) /\ last \in 0 .. Len(sent) /\ Len(sent) \in Nat
      /\ spoilt \in BOOLEAN /\ astray \in BOOLEAN
      /\ delivered \in Seq([kind: Nat, payload: Seq(Nat)])
  BY <1>1 DEF ShapeInv
<1>3. b \in Seq(Nat) /\ w \in Seq(Nat) /\ Len(w) <= Window
  BY DEF Collected
<1>4. /\ Len(b) \in Nat /\ Len(b) \in 0 .. Len(Bytes) /\ Len(Bytes) \in Nat
      /\ \A i \in 1 .. Len(b) : Bytes[i] = b[i]
      /\ SubSeq(Bytes, 1, Len(b)) = b
  BY CollectedFront
<1> DEFINE n == Len(b)
           f == [kind |-> b[2], payload |-> Payload(b)]
           returned == decode(b) = "OK"
<1>5. 2 \in 1 .. Len(b) /\ 3 \in 1 .. Len(b) /\ HeaderSize <= Len(Bytes)
  BY <1>4 DEF HeaderSize
<1>6. /\ reader' = NextFrame
      /\ delivered' = IF returned THEN Append(delivered, f) ELSE delivered
      /\ ~Announced(b) => astray' = TRUE /\ last' = last /\ spoilt' = spoilt
  BY DEF Complete
<1>7. f \in [kind: Nat, payload: Seq(Nat)]
  <2>1. b[2] \in Nat
    BY <1>3, <1>5, ElementOfSeq
  <2>2. Payload(b) \in Seq(Nat)
    <3>1. n \in HeaderSize .. Len(b)
      BY <1>4 DEF HeaderSize
    <3>2. SubSeq(b, 1, n) = b
      BY <1>3, SubSeqFull
    <3> HIDE DEF n
    <3>3. Payload(SubSeq(b, 1, n)) \in Seq(Nat)
      BY <1>3, <3>1, FrontBytes
    <3> QED
      BY <3>2, <3>3
  <2> QED
    BY <2>1, <2>2
<1>8. delivered' \in Seq([kind: Nat, payload: Seq(Nat)])
  <2> DEFINE A == [kind: Nat, payload: Seq(Nat)]
             g == delivered
  <2>1. g \in Seq(A) /\ f \in A /\ delivered' \in {Append(g, f), g}
    BY <1>2, <1>6, <1>7
  <2> HIDE DEF A, f, g
  <2>2. Append(g, f) \in Seq(A)
    BY <2>1, AppendProperties
  <2>3. delivered' \in Seq(A)
    BY <2>1, <2>2
  <2> QED
    BY <2>3 DEF A
<1>9. CASE Announced(b)
  <2>1. /\ ReadsNext \/ MisreadsNext
        /\ Placed(Row(<<>>, w, out), last', ~spoilt')
        /\ SoundInv'
    BY <1>9, CompleteNext
  <2>2. last' \in 0 .. Len(sent) /\ spoilt' \in BOOLEAN /\ astray' \in BOOLEAN
    <3>1. /\ last < Len(sent) /\ last' = last + 1 /\ astray' = astray
          /\ spoilt' = spoilt \/ spoilt' = FALSE
      BY <2>1 DEF ReadsNext, MisreadsNext
    <3>2. last + 1 \in 0 .. Len(sent)
      BY <1>2, <3>1
    <3> QED
      BY <1>2, <3>1, <3>2
  <2>3. TransportInv'
    BY <1>3, <1>6, <1>8, <2>1, <2>2, TurnInv
  <2> QED
    BY <2>1, <2>3 DEF Outcome
<1>10. CASE ~Announced(b)
  <2>1. SoundInv'
    BY <1>1, <1>6, <1>10 DEF SoundInv
  <2>2. TransportInv'
    BY <1>2, <1>3, <1>6, <1>8, <1>10, <2>1, TurnInv
  <2>3. CASE astray
    <3>1. CASE ~returned
      BY <1>6, <1>10, <2>2, <2>3, <3>1, <1>2 DEF Outcome
    <3>2. CASE returned
      <4> DEFINE A == [kind: Nat, payload: Seq(Nat)]
                 g == delivered
      <4>1. delivered' = Append(g, f) /\ g \in Seq(A) /\ f \in A
        BY <1>2, <1>6, <1>7, <3>2
      <4> HIDE DEF A, f, g
      <4>2. Len(Append(g, f)) = Len(g) + 1 /\ SubSeq(Append(g, f), 1, Len(g)) = g
        <5>1. Len(g) \in Nat
          BY <4>1
        <5> QED
          BY <4>1, <5>1
      <4>3. Wanders
        BY <1>2, <1>6, <1>10, <2>3, <4>1, <4>2 DEF Wanders, g
      <4> QED
        BY <2>2, <4>3 DEF Outcome
    <3> QED
      BY <3>1, <3>2
  <2>4. CASE ~astray
    <3>1. last < Len(sent) /\ (~spoilt => Bytes[3] = Len(sent[last + 1].payload))
      BY <1>5, <2>4, FrontOfStream
    <3>2. Bytes[3] = b[3] /\ b[3] # Len(sent[last + 1].payload)
      BY <1>4, <1>5, <1>10, <2>4, <3>1 DEF Announced
    <3>3. spoilt
      BY <3>1, <3>2
    <3>4. ~returned
      <4> SUFFICES ASSUME returned PROVE FALSE
        OBVIOUS
      <4>1. n \in HeaderSize .. Len(Bytes) /\ n = HeaderSize + Bytes[3]
        BY <1>4, <3>2 DEF HeaderSize
      <4>2. decode(SubSeq(Bytes, 1, n)) = "OK"
        BY <1>4
      <4> HIDE DEF n
      <4>3. Bytes[3] = Len(sent[last + 1].payload)
        BY <2>4, <4>1, <4>2, AcceptedPayload
      <4> QED
        BY <3>2, <4>3
    <3>5. LosesWay
      BY <1>6, <1>10, <2>4, <3>1, <3>3, <3>4 DEF LosesWay
    <3> QED
      BY <2>2, <3>5 DEF Outcome
  <2> QED
    BY <2>2, <2>3, <2>4
<1> QED
  BY <1>9, <1>10

\* The announced length is refused, and the reader goes on behind the header.
LEMMA OversizeInv ==
    ASSUME TransportInv, reader.at # "ended", NEW b, NEW w, Collected(b, w), HeaderSize <= Len(b),
           b[3] > MaxPayload, reader' = NextFrame, astray' = TRUE,
           wire' = w, UNCHANGED <<out, peer, stop, sent, sound, delivered, last, spoilt>>
    PROVE  TransportInv' /\ Outcome
<1>1. ShapeInv /\ SoundInv
  BY DEF TransportInv
<1>2. /\ sent \in Seq(Frame) /\ last \in 0 .. Len(sent) /\ spoilt \in BOOLEAN /\ astray \in BOOLEAN
      /\ delivered \in Seq([kind: Nat, payload: Seq(Nat)])
  BY <1>1 DEF ShapeInv
<1>3. b \in Seq(Nat) /\ w \in Seq(Nat) /\ Len(w) <= Window
  BY DEF Collected
<1>4. SoundInv'
  BY <1>1 DEF SoundInv
<1>5. TransportInv'
  BY <1>2, <1>3, <1>4, TurnInv
<1>6. CASE astray
  BY <1>2, <1>5, <1>6 DEF Outcome
<1>7. CASE ~astray
  <2>1. /\ Len(b) \in Nat /\ Len(b) \in 0 .. Len(Bytes) /\ Len(Bytes) \in Nat
        /\ \A i \in 1 .. Len(b) : Bytes[i] = b[i]
    BY CollectedFront
  <2>2. 3 \in 1 .. Len(b) /\ HeaderSize <= Len(Bytes)
    BY <2>1 DEF HeaderSize
  <2>3. last < Len(sent) /\ (~spoilt => b[3] = Len(sent[last + 1].payload))
    BY <1>7, <2>1, <2>2, FrontOfStream
  <2>4. LosesWay
    BY <1>7, <2>3 DEF LosesWay
  <2> QED
    BY <1>5, <2>4 DEF Outcome
<1> QED
  BY <1>5, <1>6, <1>7

\* recv returns some bytes, one case for each outcome of read_frame.
LEMMA ReceiveInv ==
    ASSUME TransportInv, Receive
    PROVE  TransportInv' /\ Outcome
<1>1. PICK n \in 1 .. Len(wire) :
         /\ n <= Wanted
         /\ wire' = SubSeq(wire, n + 1, Len(wire))
         /\ Collect(reader.buf \o SubSeq(wire, 1, n))
  BY DEF Receive
<1>2. UNCHANGED <<out, peer, stop, sent, sound>>
  BY DEF Receive
<1> DEFINE b == reader.buf \o SubSeq(wire, 1, n)
           w == SubSeq(wire, n + 1, Len(wire))
<1>3. reader.at # "ended" /\ Collected(b, w)
  BY <1>1, ReceiveCollects
<1>4. wire' = w /\ Collect(b)
  BY <1>1
<1> HIDE DEF b, w
<1>5. /\ b \in Seq(Nat) /\ HeaderSize <= Len(b) => Len(b) <= HeaderSize + b[3]
  BY <1>3 DEF Collected
<1>6. /\ Len(b) \in Nat /\ b \in Seq(Nat) /\ MaxPayload \in Nat
  BY <1>3, CollectedFront, TransportAssumption DEF Collected
<1>7. CASE Len(b) < HeaderSize
  <2>1. reader' = At("header", b) /\ Keep
    BY <1>4, <1>7 DEF Collect
  <2> DEFINE place == "header"
  <2>2. /\ place \in {"header", "payload"} /\ reader' = At(place, b)
        /\ (place = "header" => Len(b) < HeaderSize)
        /\ (place = "payload" => /\ HeaderSize <= Len(b) /\ b[3] <= MaxPayload
                                 /\ Len(b) < HeaderSize + b[3])
    BY <1>7, <2>1
  <2>3. UNCHANGED <<out, peer, stop, told>>
    BY <1>2, <2>1 DEF Keep, told
  <2> HIDE DEF place
  <2>4. TransportInv'
    BY <1>3, <1>4, <2>2, <2>3, WaitInv
  <2>5. Outcome
    BY <2>1 DEF Keep, Outcome
  <2> QED
    BY <2>4, <2>5
<1>8. CASE ~(Len(b) < HeaderSize)
  <2>0. HeaderSize <= Len(b)
    BY <1>6, <1>8 DEF HeaderSize
  <2>1. b[3] \in Nat
    <3>1. 3 \in 1 .. Len(b)
      BY <1>6, <2>0 DEF HeaderSize
    <3> QED
      BY <1>6, <3>1, ElementOfSeq
  <2>2. CASE b[3] > MaxPayload
    <3>1. reader' = NextFrame /\ astray' = TRUE /\ UNCHANGED <<delivered, last, spoilt>>
      BY <1>4, <1>8, <2>2 DEF Collect
    <3> QED
      BY <1>2, <1>3, <1>4, <2>0, <2>2, <3>1, OversizeInv
  <2>3. CASE ~(b[3] > MaxPayload) /\ Len(b) < HeaderSize + b[3]
    <3>1. reader' = At("payload", b) /\ Keep
      BY <1>4, <1>8, <2>3 DEF Collect
    <3> DEFINE place == "payload"
    <3>2. /\ place \in {"header", "payload"} /\ reader' = At(place, b)
          /\ (place = "header" => Len(b) < HeaderSize)
          /\ (place = "payload" => /\ HeaderSize <= Len(b) /\ b[3] <= MaxPayload
                                   /\ Len(b) < HeaderSize + b[3])
      BY <1>6, <2>0, <2>1, <2>3, <3>1
    <3>3. UNCHANGED <<out, peer, stop, told>>
      BY <1>2, <3>1 DEF Keep, told
    <3> HIDE DEF place
    <3>4. TransportInv'
      BY <1>3, <1>4, <3>2, <3>3, WaitInv
    <3>5. Outcome
      BY <3>1 DEF Keep, Outcome
    <3> QED
      BY <3>4, <3>5
  <2>4. CASE ~(b[3] > MaxPayload) /\ ~(Len(b) < HeaderSize + b[3])
    <3>1. Complete(b)
      BY <1>4, <1>8, <2>4 DEF Collect
    <3>2. Len(b) = HeaderSize + b[3]
      BY <1>5, <1>6, <2>0, <2>1, <2>4 DEF HeaderSize
    <3> QED
      BY <1>2, <1>3, <1>4, <2>0, <3>1, <3>2, CompleteInv
  <2> QED
    BY <2>2, <2>3, <2>4
<1> QED
  BY <1>7, <1>8

\* Every step keeps the invariant.
LEMMA StepInv ==
    ASSUME TransportInv, [Next]_vars
    PROVE  TransportInv'
<1>1. CASE \E f \in Frame : WriteFrame(f)
  BY <1>1, WriteFrameInv
<1>2. CASE SendSome
  BY <1>2, SendSomeInv
<1>3. CASE SendFails
  BY <1>3, SendFailsInv
<1>4. CASE Close
  BY <1>4, CloseInv
<1>5. CASE Die
  BY <1>5, DieInv
<1>6. CASE Damage
  BY <1>6, DamageInv
<1>7. CASE Receive
  BY <1>7, ReceiveInv
<1>8. CASE PeerLost
  BY <1>8, PeerLostInv
<1>9. CASE RecvFails
  BY <1>9, RecvFailsInv
<1>10. CASE RequestStop
  BY <1>10, RequestStopInv
<1>11. CASE UNCHANGED vars
  BY <1>11 DEF vars, told, TransportInv, ShapeInv, ReaderInv, StreamInv, SoundInv, CloseLosesNothing,
               Bytes
<1> QED
  BY <1>1, <1>2, <1>3, <1>4, <1>5, <1>6, <1>7, <1>8, <1>9, <1>10, <1>11 DEF Next, ReadStep

-----------------------------------------------------------------------------
(* The theorems *)

\* Whatever happens to the pieces, the writer and the bytes, until read_frame goes
\* astray the stream is the frames written behind those read, but for the byte that
\* was damaged.
THEOREM TransportInvHolds == Spec => []TransportInv
<1>1. Init => TransportInv
  BY InitInv
<1>2. TransportInv /\ [Next]_vars => TransportInv'
  BY StepInv
<1> QED
  BY <1>1, <1>2, PTL DEF Spec

\* Types; read_frame never collects more than the greatest frame it accepts.
THEOREM TransportTypeCorrect == Spec => []TypeOK
<1>1. TransportInv => TypeOK
  <2> SUFFICES ASSUME TransportInv PROVE TypeOK
    OBVIOUS
  <2>1. ShapeInv /\ ReaderInv
    BY DEF TransportInv
  <2>2. MaxPayload \in Nat
    BY TransportAssumption
  <2> DEFINE b == reader.buf
  <2>3. b \in Seq(Nat) /\ Len(b) \in Nat /\ reader.at \in {"header", "payload", "ended"}
    BY <2>1 DEF ShapeInv
  <2>4. Len(b) < HeaderSize + MaxPayload
    <3>1. CASE reader.at = "header"
      BY <2>1, <2>2, <2>3, <3>1 DEF ReaderInv, HeaderSize
    <3>2. CASE reader.at = "payload"
      <4>1. /\ HeaderSize <= Len(b) /\ b[3] <= MaxPayload /\ Len(b) < HeaderSize + b[3]
        BY <2>1, <3>2 DEF ReaderInv
      <4>2. 3 \in 1 .. Len(b)
        BY <2>3, <4>1 DEF HeaderSize
      <4> HIDE DEF b
      <4>3. b[3] \in Nat
        BY <2>3, <4>2
      <4> QED
        BY <2>2, <2>3, <4>1, <4>3 DEF HeaderSize
    <3>3. CASE reader.at = "ended"
      <4>1. b = <<>> /\ Len(<<>>) = 0
        BY <2>1, <3>3 DEF ReaderInv
      <4> QED
        BY <2>2, <4>1 DEF HeaderSize
    <3> QED
      BY <2>3, <3>1, <3>2, <3>3
  <2> QED
    BY <2>1, <2>3, <2>4 DEF TypeOK, ShapeInv
<1> QED
  BY <1>1, TransportInvHolds, PTL

\* When the reading thread ends because the writer closed its end, every frame
\* has been read as it was written, unless read_frame has gone astray or a byte was
\* damaged.
THEOREM CloseLosesNothingAlways == Spec => []CloseLosesNothing
<1>1. TransportInv => CloseLosesNothing
  BY DEF TransportInv
<1> QED
  BY <1>1, TransportInvHolds, PTL

-----------------------------------------------------------------------------
(* The connection is a queue of frames *)

\* The frames written and not read.
Queue == SubSeq(sent, last + 1, Len(sent))

\* What is written and not read yet.
LEMMA QueueParts ==
    ASSUME NEW frames \in Seq(Frame), NEW n \in 0 .. Len(frames)
    PROVE  LET q == SubSeq(frames, n + 1, Len(frames)) IN
           /\ q \in Seq(Frame) /\ Len(q) = Len(frames) - n
           /\ \A i \in 1 .. Len(frames) - n : q[i] = frames[n + i]
<1> DEFINE q == SubSeq(frames, n + 1, Len(frames))
           m == n + 1
           len == Len(frames)
<1>1. len \in Nat /\ n \in Nat /\ n <= len
  OBVIOUS
<1>2. m \in Int /\ len \in Int /\ \A i \in m .. len : frames[i] \in Frame
  BY <1>1
<1>3. q = SubSeq(frames, m, len)
  OBVIOUS
<1> HIDE DEF m, len, q
<1>4. /\ q \in Seq(Frame) /\ Len(q) = IF m <= len THEN len - m + 1 ELSE 0
      /\ \A i \in 1 .. len - m + 1 : q[i] = frames[m + i - 1]
  BY <1>2, <1>3, SubSeqProperties
<1>5. /\ Len(q) = len - n
      /\ \A i \in 1 .. len - n : q[i] = frames[n + i]
  BY <1>1, <1>4 DEF m
<1> QED
  BY <1>4, <1>5 DEF q, len

\* WriteFrame puts a frame at the end of the queue.
LEMMA QueuePut ==
    ASSUME NEW frames \in Seq(Frame), NEW n \in 0 .. Len(frames), NEW f \in Frame
    PROVE  SubSeq(Append(frames, f), n + 1, Len(Append(frames, f)))
              = Append(SubSeq(frames, n + 1, Len(frames)), f)
<1> DEFINE more == Append(frames, f)
           p == SubSeq(more, n + 1, Len(more))
           q == SubSeq(frames, n + 1, Len(frames))
           r == Append(q, f)
<1>1. /\ more \in Seq(Frame) /\ Len(more) = Len(frames) + 1 /\ more[Len(frames) + 1] = f
      /\ \A k \in 1 .. Len(frames) : more[k] = frames[k]
  BY AppendProperties
<1>2. Len(frames) \in Nat /\ n \in Nat /\ n <= Len(frames)
  OBVIOUS
<1> HIDE DEF more
<1>3. n \in 0 .. Len(more)
  BY <1>1, <1>2
<1>4. /\ p \in Seq(Frame) /\ Len(p) = Len(more) - n
      /\ \A i \in 1 .. Len(more) - n : p[i] = more[n + i]
  BY <1>1, <1>3, QueueParts
<1>5. /\ q \in Seq(Frame) /\ Len(q) = Len(frames) - n
      /\ \A i \in 1 .. Len(frames) - n : q[i] = frames[n + i]
  BY QueueParts
<1> HIDE DEF p, q
<1>6. /\ r \in Seq(Frame) /\ Len(r) = Len(q) + 1 /\ r[Len(q) + 1] = f
      /\ \A i \in 1 .. Len(q) : r[i] = q[i]
  BY <1>5, AppendProperties
<1> HIDE DEF r
<1>7. Len(p) = Len(r)
  BY <1>1, <1>2, <1>4, <1>5, <1>6
<1>8. ASSUME NEW i \in 1 .. Len(p) PROVE p[i] = r[i]
  <2>1. p[i] = more[n + i]
    BY <1>4
  <2>2. CASE i = Len(q) + 1
    <3>1. n + i = Len(frames) + 1
      BY <1>2, <1>5, <2>2
    <3> QED
      BY <1>1, <1>6, <2>1, <2>2, <3>1
  <2>3. CASE i # Len(q) + 1
    <3>1. i \in 1 .. Len(frames) - n /\ i \in 1 .. Len(q) /\ n + i \in 1 .. Len(frames)
      <4>1. \A x, y \in Nat : \A z \in 1 .. (x + 1) - y : y <= x /\ z # (x - y) + 1 =>
               z \in 1 .. x - y /\ y + z \in 1 .. x
        OBVIOUS
      <4>2. i \in 1 .. (Len(frames) + 1) - n /\ i # (Len(frames) - n) + 1
        BY <1>1, <1>4, <1>5, <2>3
      <4>3. i \in 1 .. Len(frames) - n /\ n + i \in 1 .. Len(frames)
        BY <1>2, <4>1, <4>2
      <4> QED
        BY <1>5, <4>3
    <3> QED
      BY <1>1, <1>5, <1>6, <2>1, <3>1
  <2> QED
    BY <2>2, <2>3
<1>9. p = r
  BY <1>4, <1>6, <1>7, <1>8, SeqEqual
<1> QED
  BY <1>9 DEF p, q, r, more

\* The next frame is the head of the queue.
LEMMA QueueHead ==
    ASSUME NEW frames \in Seq(Frame), NEW n \in 0 .. Len(frames), n < Len(frames)
    PROVE  LET q == SubSeq(frames, n + 1, Len(frames)) IN
           /\ q # <<>> /\ Head(q) = frames[n + 1]
           /\ Tail(q) = SubSeq(frames, (n + 1) + 1, Len(frames))
<1> DEFINE q == SubSeq(frames, n + 1, Len(frames))
           r == SubSeq(frames, (n + 1) + 1, Len(frames))
<1>1. n + 1 \in 0 .. Len(frames) /\ Len(frames) \in Nat /\ n \in Nat /\ 1 \in 1 .. Len(frames) - n
  OBVIOUS
<1>2. /\ q \in Seq(Frame) /\ Len(q) = Len(frames) - n
      /\ \A i \in 1 .. Len(frames) - n : q[i] = frames[n + i]
  BY QueueParts
<1>3. /\ r \in Seq(Frame) /\ Len(r) = Len(frames) - (n + 1)
      /\ \A i \in 1 .. Len(frames) - (n + 1) : r[i] = frames[(n + 1) + i]
  BY <1>1, QueueParts
<1> HIDE DEF q, r
<1>4. q # <<>> /\ Head(q) = frames[n + 1]
  <2>1. Len(q) # 0 /\ q[1] = frames[n + 1]
    BY <1>1, <1>2
  <2> QED
    BY <1>2, <2>1
<1>5. /\ Tail(q) \in Seq(Frame) /\ Len(Tail(q)) = Len(q) - 1
      /\ \A i \in 1 .. Len(q) - 1 : Tail(q)[i] = q[i + 1]
  BY <1>2, <1>4, HeadTailProperties
<1>6. Len(Tail(q)) = Len(r)
  BY <1>1, <1>2, <1>3, <1>5
<1>7. ASSUME NEW i \in 1 .. Len(r) PROVE Tail(q)[i] = r[i]
  <2>1. /\ i \in 1 .. Len(q) - 1 /\ i + 1 \in 1 .. Len(frames) - n
        /\ i \in 1 .. Len(frames) - (n + 1) /\ n + (i + 1) = (n + 1) + i
    BY <1>1, <1>2, <1>3, <1>5, <1>6
  <2> QED
    BY <1>2, <1>3, <1>5, <2>1
<1>8. Tail(q) = r
  BY <1>3, <1>5, <1>6, <1>7, SeqEqual
<1> QED
  BY <1>4, <1>8 DEF q, r

\* Every step is one of the channel, or changes nothing there.
LEMMA StepRefines ==
    ASSUME TransportInv, [Next]_vars
    PROVE  [Channel!Next]_<<Queue, delivered, spoilt, astray>>
<1>1. ShapeInv
  BY DEF TransportInv
<1>2. sent \in Seq(Frame) /\ last \in 0 .. Len(sent) /\ Len(sent) \in Nat
  BY <1>1 DEF ShapeInv
<1>3. ASSUME UNCHANGED <<sent, last, delivered, spoilt, astray>>
      PROVE  UNCHANGED <<Queue, delivered, spoilt, astray>>
  BY <1>3 DEF Queue
<1>4. ASSUME NEW f \in Frame, WriteFrame(f) PROVE Channel!Next
  <2>1. /\ sent' = Append(sent, f) /\ last' = last
        /\ UNCHANGED <<delivered, spoilt, astray>>
    BY <1>4 DEF WriteFrame
  <2>2. Queue' = Append(Queue, f)
    BY <1>2, <2>1, QueuePut DEF Queue
  <2>3. Channel!Put(f)
    BY <2>1, <2>2 DEF Channel!Put, Queue
  <2> QED
    BY <2>3 DEF Channel!Next
<1>5. ASSUME Damage PROVE Channel!Next
  <2>1. ~spoilt /\ spoilt' = TRUE /\ UNCHANGED <<sent, last, delivered, astray>>
    BY <1>5 DEF Damage
  <2>2. Queue' = Queue
    BY <2>1 DEF Queue
  <2>3. Channel!Spoil
    BY <2>1, <2>2 DEF Channel!Spoil, Queue
  <2> QED
    BY <2>3 DEF Channel!Next
<1>6. ASSUME last < Len(sent)
      PROVE  Queue # <<>> /\ Head(Queue) = sent[last + 1]
  BY <1>2, <1>6, QueueHead DEF Queue
<1>7. ASSUME last < Len(sent), sent' = sent, last' = last + 1
      PROVE  Queue' = Tail(Queue)
  <2>1. Queue' = SubSeq(sent, (last + 1) + 1, Len(sent))
    BY <1>7 DEF Queue
  <2> QED
    BY <1>2, <1>7, <2>1, QueueHead DEF Queue
<1>8. ASSUME Receive PROVE Channel!Next \/ UNCHANGED <<Queue, delivered, spoilt, astray>>
  <2>1. sent' = sent
    BY <1>8 DEF Receive
  <2>2. Outcome
    BY <1>8, ReceiveInv
  <2>3. CASE UNCHANGED <<last, delivered, spoilt, astray>>
    BY <1>3, <2>1, <2>3
  <2>4. CASE ReadsNext
    <3>1. /\ ~astray /\ Queue # <<>> /\ delivered' = Append(delivered, Head(Queue))
          /\ Queue' = Tail(Queue) /\ UNCHANGED <<spoilt, astray>>
      BY <1>6, <1>7, <2>1, <2>4 DEF ReadsNext
    <3>2. Channel!Get
      BY <3>1 DEF Channel!Get, Queue
    <3> QED
      BY <3>2 DEF Channel!Next
  <2>5. CASE MisreadsNext
    <3>1. /\ ~astray /\ Queue # <<>> /\ spoilt
          /\ \/ delivered' = delivered
             \/ \E k \in Kinds : delivered' = Append(delivered, [Head(Queue) EXCEPT !.kind = k])
          /\ Queue' = Tail(Queue) /\ spoilt' = FALSE /\ UNCHANGED astray
      BY <1>6, <1>7, <2>1, <2>5 DEF MisreadsNext
    <3>2. Channel!Misread
      BY <3>1 DEF Channel!Misread, Queue
    <3> QED
      BY <3>2 DEF Channel!Next
  <2>6. CASE LosesWay
    <3>1. /\ ~astray /\ Queue # <<>> /\ (spoilt \/ Len(Head(Queue).payload) > MaxPayload)
          /\ astray' = TRUE /\ UNCHANGED <<last, delivered, spoilt>>
      BY <1>6, <2>6 DEF LosesWay
    <3>2. Queue' = Queue
      BY <2>1, <3>1 DEF Queue
    <3>3. Channel!GoAstray
      BY <3>1, <3>2 DEF Channel!GoAstray, Queue
    <3> QED
      BY <3>3 DEF Channel!Next
  <2>7. CASE Wanders
    <3>1. Queue' = Queue
      BY <2>1, <2>7 DEF Queue, Wanders
    <3>2. Channel!Stray
      BY <2>7, <3>1 DEF Channel!Stray, Queue, Wanders
    <3> QED
      BY <3>2 DEF Channel!Next
  <2> QED
    BY <2>2, <2>3, <2>4, <2>5, <2>6, <2>7 DEF Outcome
<1>9. ASSUME SendSome \/ SendFails \/ Close \/ Die \/ PeerLost \/ RecvFails \/ RequestStop
             \/ UNCHANGED vars
      PROVE  UNCHANGED <<sent, last, delivered, spoilt, astray>>
  BY <1>9 DEF SendSome, SendFails, Close, Die, PeerLost, RecvFails, RequestStop, vars, told
<1> QED
  BY <1>3, <1>4, <1>5, <1>8, <1>9 DEF Next, ReadStep

\* However the bytes are cut into pieces or lost with the writer, read_frame returns
\* the frames write_frame was given, in their order and none left out, but for one
\* that is refused or gets another kind for each byte that is damaged.  That ends
\* when read_frame takes up the stream behind the header of a frame too large, or
\* with a wrong length: the bytes implement FrameChannel.
THEOREM ConnectionIsQueue == Spec => ImplementsChannel
<1>1. Init => Channel!Init
  <2> SUFFICES ASSUME Init PROVE Channel!Init
    OBVIOUS
  <2>1. sent = <<>> /\ delivered = <<>> /\ last = 0 /\ spoilt = FALSE /\ astray = FALSE
    BY DEF Init
  <2>2. SubSeq(sent, last + 1, Len(sent)) = <<>>
    BY <2>1
  <2> QED
    BY <2>1, <2>2 DEF Channel!Init
<1>2. TransportInv /\ [Next]_vars =>
         [Channel!Next]_<<SubSeq(sent, last + 1, Len(sent)), delivered, spoilt, astray>>
  BY StepRefines DEF Queue
<1> QED
  BY <1>1, <1>2, TransportInvHolds, PTL DEF Spec, ImplementsChannel, Channel!Spec
=============================================================================
