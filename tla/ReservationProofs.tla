------------------------- MODULE ReservationProofs --------------------------
EXTENDS Reservations, FiniteSetTheorems, TLAPS

(* What the proofs need of the counters' arithmetic. *)

LEMMA ModFacts ==
    ASSUME NEW w \in Nat \ {0}, NEW n \in Nat
    PROVE  /\ n % w \in 0 .. (w - 1)
           /\ n = w * (n \div w) + (n % w)
           /\ n \div w \in Nat
  OBVIOUS

LEMMA ModOfMultiple ==
    ASSUME NEW w \in Nat \ {0}, NEW u \in Nat, u < w, NEW k \in Nat
    PROVE  (u + w * k) % w = u
  OBVIOUS

LEMMA ModSmall ==
    ASSUME NEW w \in Nat \ {0}, NEW n \in Nat, n < w
    PROVE  n % w = n
  OBVIOUS

LEMMA ModMinus ==
    ASSUME NEW w \in Nat \ {0}, NEW n \in Nat, NEW m \in Nat, m <= n % w
    PROVE  (n - m) % w = (n % w) - m
  OBVIOUS

\* Adding to the wrapped counter wraps as adding to the sum does.
LEMMA ModPlus ==
    ASSUME NEW w \in Nat \ {0}, NEW n \in Nat, NEW m \in Nat, m < w
    PROVE  ((n % w) + m) % w = (n + m) % w
  <1> DEFINE q == n \div w
             u == n % w
  <1>1. u \in 0 .. (w - 1) /\ n = w * q + u /\ q \in Nat
    BY ModFacts
  <1>2. u \in Nat /\ u < w
    BY <1>1
  <1> HIDE DEF q, u
  <1>3. CASE u + m < w
    <2>1. u + m \in Nat
      BY <1>2
    <2>2. ((u + m) + w * q) % w = u + m
      BY <1>1, <1>3, <2>1, ModOfMultiple
    <2>3. (u + m) % w = u + m
      BY <1>3, <2>1, ModSmall
    <2>4. (u + m) + w * q = n + m
      BY <1>1
    <2>5. QED
      BY <2>2, <2>3, <2>4 DEF u
  <1>4. CASE u + m >= w
    <2> DEFINE v == u + m - w
               k == q + 1
    <2>1. v \in Nat /\ v < w /\ k \in Nat
      BY <1>1, <1>2, <1>4
    <2>2. v + w * 1 = u + m
      BY <1>2
    <2>3. w * k = w * q + w
      BY <1>1
    <2>4. v + w * k = n + m
      BY <1>1, <1>2, <2>3
    <2> HIDE DEF v, k
    <2>5. (v + w * k) % w = v
      BY <2>1, ModOfMultiple
    <2>6. (v + w * 1) % w = v
      BY <2>1, ModOfMultiple
    <2>7. QED
      BY <2>2, <2>4, <2>5, <2>6 DEF u
  <1>5. QED
    BY <1>2, <1>3, <1>4 DEF u

LEMMA ByteRange ==
    /\ Word \in Nat /\ Word \in Nat \ {0}
    /\ \A b \in Bytes : b \in Nat /\ b < Word
    /\ \A c \in Capacity : c \in Nat /\ c < Word
  BY ReservationsAssumption

LEMMA UnitCount ==
    ASSUME NEW x, NEW n \in Nat
    PROVE  /\ IsFiniteSet({x} \X (1 .. n))
           /\ Cardinality({x} \X (1 .. n)) = n
  <1>1. IsFiniteSet({x}) /\ Cardinality({x}) = 1
    BY FS_Singleton
  <1>2. IsFiniteSet(1 .. n) /\ Cardinality(1 .. n) = n
    BY FS_Interval
  <1>3. /\ IsFiniteSet({x} \X (1 .. n))
        /\ Cardinality({x} \X (1 .. n)) = Cardinality({x}) * Cardinality(1 .. n)
    BY <1>1, <1>2, FS_Product, Zenon
  <1>4. 1 * n = n
    OBVIOUS
  <1>5. QED
    BY <1>1, <1>2, <1>3, <1>4, Zenon

LEMMA DisjointUnion ==
    ASSUME NEW S, NEW T, IsFiniteSet(S), IsFiniteSet(T), S \cap T = {}
    PROVE  /\ IsFiniteSet(S \cup T)
           /\ Cardinality(S \cup T) = Cardinality(S) + Cardinality(T)
  <1>1. Cardinality(S) \in Nat /\ Cardinality(T) \in Nat
    BY FS_CardinalityType
  <1>2. Cardinality(S \cap T) = 0
    BY FS_EmptySet
  <1>3. /\ IsFiniteSet(S \cup T)
        /\ Cardinality(S \cup T) = Cardinality(S) + Cardinality(T) - Cardinality(S \cap T)
    BY FS_Union, Zenon
  <1>4. QED
    BY <1>1, <1>2, <1>3

LEMMA UnitsFinite ==
    ASSUME TypeOK, NEW p
    PROVE  /\ IsFiniteSet(ActiveUnits(p))
           /\ ActiveBytes(p) \in Nat
  <1>1. IsFiniteSet(ActiveOn(p))
    BY ReservationsAssumption, FS_Subset DEF ActiveOn, TypeOK
  <1>2. IsFiniteSet(1 .. Word)
    BY ReservationsAssumption, FS_Interval
  <1>3. IsFiniteSet(ActiveOn(p) \X (1 .. Word))
    BY <1>1, <1>2, FS_Product
  <1>4. ActiveUnits(p) \subseteq ActiveOn(p) \X (1 .. Word)
    BY DEF ActiveUnits
  <1>5. IsFiniteSet(ActiveUnits(p))
    BY <1>3, <1>4, FS_Subset
  <1>6. QED
    BY <1>5, FS_CardinalityType DEF ActiveBytes

\* Every path's sum is a number, before and after a step.
SumsAreNumbers == \A p \in PathId : ActiveBytes(p) \in Nat

LEMMA SumsTyped == TypeOK => SumsAreNumbers
  BY UnitsFinite DEF SumsAreNumbers

LEMMA SumsTypedNext == TypeOK' => SumsAreNumbers'
  BY SumsTyped, PTL

LEMMA ReserveKeepsInv ==
    ASSUME LedgerInv, NEW id \in ReservationId, NEW req \in Request,
           ReserveOK(id, req)
    PROVE  LedgerInv'
  <1> DEFINE q == req.path
             n == req.bytes
             r == MarkActive(req)
  <1>1. id \notin DOMAIN reservations /\ ~WouldOvercommit(q, n)
    BY DEF ReserveOK, ReserveResult
  <1>2. /\ reservations' = Put(reservations, id, r)
        /\ active_by_path' = Put(active_by_path, q, Add(Used(q), n))
        /\ per_path_bytes' = per_path_bytes
    BY DEF ReserveOK
  <1>3. q \in PathId /\ n \in Bytes /\ n \in Nat /\ n < Word /\ Word \in Nat
    <2>1. q \in PathId /\ n \in Bytes
      BY DEF Request
    <2>2. QED
      BY <2>1, ByteRange
  <1>4. Used(q) \in Nat /\ Used(q) < Word
    BY ReservationsAssumption DEF LedgerInv, TypeOK, Used
  <1>7. TypeOK'
    <2>1. r \in Reservation
      BY DEF MarkActive, Request, Reservation
    <2>2. Add(Used(q), n) \in 0 .. (Word - 1)
      BY <1>3, <1>4, ReservationsAssumption DEF Add
    <2>3. QED
      BY <1>2, <1>3, <2>1, <2>2 DEF TypeOK, LedgerInv, Put
  <1>8. FlagsExclusive'
    BY <1>2 DEF LedgerInv, FlagsExclusive, Put, MarkActive
  <1>10. AccountingCloses'
    <2> SUFFICES ASSUME NEW p \in PathId PROVE Used(p)' = ActiveBytes(p)' % Word
      BY DEF AccountingCloses
    <2>0. Used(p) = ActiveBytes(p) % Word
      BY DEF LedgerInv, AccountingCloses
    <2>1. CASE p = q
      <3>1. Used(p)' = (Used(p) + n) % Word
        BY <1>2, <2>1 DEF Used, Put, Add
      <3>2. ActiveOn(p)' = ActiveOn(p) \cup {id}
        BY <1>1, <1>2, <2>1 DEF ActiveOn, Put, MarkActive, Active
      <3>3. ActiveUnits(p)' = ActiveUnits(p) \cup ({id} \X (1 .. n))
        <4>1. \A x \in ActiveOn(p) : reservations'[x] = reservations[x]
          BY <1>1, <1>2 DEF ActiveOn, Put
        <4>2. reservations'[id].bytes = n
          BY <1>2 DEF Put, MarkActive
        <4>3. id \notin ActiveOn(p)
          BY <1>1 DEF ActiveOn
        <4>4. (1 .. n) = {k \in 1 .. Word : k <= n}
          BY <1>3, ReservationsAssumption
        <4>5. QED
          BY <3>2, <4>1, <4>2, <4>3, <4>4 DEF ActiveUnits
      <3>4. ActiveUnits(p) \cap ({id} \X (1 .. n)) = {}
        BY <1>1 DEF ActiveUnits, ActiveOn
      <3>5. IsFiniteSet(ActiveUnits(p)) /\ ActiveBytes(p) \in Nat
        BY UnitsFinite DEF LedgerInv
      <3>6. Cardinality(ActiveUnits(p) \cup ({id} \X (1 .. n))) =
              Cardinality(ActiveUnits(p)) + n
        <4>1. /\ IsFiniteSet({id} \X (1 .. n))
              /\ Cardinality({id} \X (1 .. n)) = n
          BY <1>3, UnitCount
        <4>2. QED
          BY <3>4, <3>5, <4>1, DisjointUnion
      <3>7. ActiveBytes(p)' = ActiveBytes(p) + n
        BY <3>3, <3>6 DEF ActiveBytes
      <3>8. ((ActiveBytes(p) % Word) + n) % Word = (ActiveBytes(p) + n) % Word
        BY <1>3, <3>5, ByteRange, ModPlus
      <3>9. QED
        BY <2>0, <3>1, <3>7, <3>8
    <2>2. CASE p # q
      <3>1. Used(p)' = Used(p)
        BY <1>2, <2>2 DEF Used, Put
      <3>2. ActiveOn(p)' = ActiveOn(p)
        BY <1>1, <1>2, <2>2 DEF ActiveOn, Put, MarkActive, Active
      <3>3. \A x \in ActiveOn(p) : reservations'[x] = reservations[x]
        BY <1>1, <1>2 DEF ActiveOn, Put
      <3>4. ActiveUnits(p)' = ActiveUnits(p)
        BY <3>2, <3>3 DEF ActiveUnits
      <3>5. QED
        BY <2>0, <3>1, <3>4 DEF ActiveBytes
    <2>3. QED
      BY <2>1, <2>2
  <1>11. LedgerClosesToZero'
    BY <1>1, <1>2 DEF LedgerInv, LedgerClosesToZero, ActiveOn, Put, MarkActive, Active
  <1>12. QED
    BY <1>7, <1>8, <1>10, <1>11 DEF LedgerInv

\* What an accepted release knows about the reservation it gives back.
LEMMA ReleaseFacts ==
    ASSUME LedgerInv, NEW id, NEW b, NEW g, NEW e, ReleaseOK(id, b, g, e)
    PROVE  LET r == reservations[id] IN
           /\ id \in DOMAIN reservations
           /\ r \in Reservation
           /\ Active(r)
           /\ Used(r.path) >= r.bytes
           /\ Used(r.path) \in Nat
           /\ r.bytes \in Nat /\ r.bytes < Word
  <1> DEFINE r == reservations[id]
  <1>1. id \in DOMAIN reservations /\ Active(r) /\ ~(Used(r.path) < r.bytes)
    BY DEF ReleaseOK, ReleaseResult
  <1>2. r \in Reservation
    BY <1>1 DEF LedgerInv, TypeOK
  <1>3. r.bytes \in Nat /\ r.bytes < Word
    BY <1>2, ByteRange DEF Reservation
  <1>4. Used(r.path) \in Nat
    BY ReservationsAssumption DEF LedgerInv, TypeOK, Used
  <1>5. QED
    BY <1>1, <1>2, <1>3, <1>4

LEMMA ReleaseKeepsInv ==
    ASSUME LedgerInv, NEW id, NEW b, NEW g, NEW e, ReleaseOK(id, b, g, e)
    PROVE  LedgerInv'
  <1> DEFINE r == reservations[id]
             q == r.path
             n == r.bytes
             rem == Used(q) - n
  <1>1. /\ id \in DOMAIN reservations
        /\ r \in Reservation
        /\ Active(r)
        /\ Used(q) >= n
        /\ Used(q) \in Nat
        /\ n \in Nat /\ n < Word
    BY ReleaseFacts
  <1>2. /\ reservations' = Put(reservations, id, MarkReleased(r))
        /\ per_path_bytes' = per_path_bytes
        /\ active_by_path' = IF rem = 0 THEN Erase(active_by_path, q)
                                        ELSE Put(active_by_path, q, rem)
    BY DEF ReleaseOK, LedgerWithout
  <1>3. q \in PathId /\ rem \in Nat /\ rem <= Used(q)
    BY <1>1 DEF Reservation
  <1>4. rem # 0 => q \in DOMAIN active_by_path /\ active_by_path[q] = Used(q)
    BY <1>1, <1>3 DEF Used
  <1>5. TypeOK'
    <2>1. MarkReleased(r) \in Reservation
      BY <1>1 DEF MarkReleased, Reservation
    <2>2. rem # 0 => rem \in 0 .. (Word - 1)
      <3>1. rem # 0 => Used(q) < Word
        BY <1>4, ReservationsAssumption DEF LedgerInv, TypeOK
      <3>2. QED
        BY <3>1, <1>1, <1>3, ReservationsAssumption
    <2>3. DOMAIN reservations' = DOMAIN reservations
      BY <1>1, <1>2 DEF Put
    <2>4. reservations' \in [DOMAIN reservations' -> Reservation]
      BY <1>1, <1>2, <2>1, <2>3 DEF LedgerInv, TypeOK, Put
    <2>5. /\ DOMAIN active_by_path' \subseteq PathId
          /\ active_by_path' \in [DOMAIN active_by_path' -> 0 .. (Word - 1)]
      BY <1>2, <1>3, <2>2 DEF LedgerInv, TypeOK, Put, Erase
    <2>6. QED
      BY <1>2, <2>3, <2>4, <2>5 DEF LedgerInv, TypeOK
  <1>6. FlagsExclusive'
    <2>1. MarkReleased(r).active = FALSE /\ MarkReleased(r).released = TRUE
      BY <1>1 DEF MarkReleased, Reservation
    <2>2. QED
      BY <1>1, <1>2, <2>1 DEF LedgerInv, FlagsExclusive, Put
  <1>8. \A p : ActiveOn(p)' = ActiveOn(p) \ {id}
    <2>1. ~Active(MarkReleased(r))
      BY <1>1 DEF MarkReleased, Active, Reservation
    <2>2. QED
      BY <1>1, <1>2, <2>1 DEF ActiveOn, Put
  <1>9. \A p : \A x \in ActiveOn(p)' : reservations'[x] = reservations[x]
    BY <1>2, <1>8 DEF ActiveOn, Put
  <1>10. AccountingCloses'
    <2> SUFFICES ASSUME NEW p \in PathId PROVE Used(p)' = ActiveBytes(p)' % Word
      BY DEF AccountingCloses
    <2>0. Used(p) = ActiveBytes(p) % Word
      BY DEF LedgerInv, AccountingCloses
    <2>1. CASE p = q
      <3>1. Used(p)' = Used(p) - n
        BY <1>2, <1>3, <2>1 DEF Used, Put, Erase
      <3>2. id \in ActiveOn(p)
        BY <1>1, <2>1 DEF ActiveOn
      <3>3. ActiveUnits(p) = ActiveUnits(p)' \cup ({id} \X (1 .. n))
        <4>1. (1 .. n) = {k \in 1 .. Word : k <= n}
          BY <1>1, ReservationsAssumption
        <4>2. ActiveUnits(p)' = {u \in (ActiveOn(p) \ {id}) \X (1 .. Word) :
                                    u[2] <= reservations[u[1]].bytes}
          BY <1>8, <1>9 DEF ActiveUnits
        <4>3. QED
          BY <3>2, <4>1, <4>2 DEF ActiveUnits
      <3>4. ActiveUnits(p)' \cap ({id} \X (1 .. n)) = {}
        BY <1>8 DEF ActiveUnits
      <3>5. IsFiniteSet(ActiveUnits(p))
        BY UnitsFinite DEF LedgerInv
      <3>6. /\ IsFiniteSet(ActiveUnits(p)')
            /\ Cardinality(ActiveUnits(p)') \in Nat
        BY <3>3, <3>5, FS_Subset, FS_CardinalityType
      <3>7. Cardinality(ActiveUnits(p)) = Cardinality(ActiveUnits(p)') + n
        <4>1. /\ IsFiniteSet({id} \X (1 .. n))
              /\ Cardinality({id} \X (1 .. n)) = n
          BY <1>1, UnitCount
        <4>2. QED
          BY <3>3, <3>4, <3>6, <4>1, DisjointUnion
      <3>8. ActiveBytes(p) \in Nat /\ ActiveBytes(p)' = ActiveBytes(p) - n
        BY <1>1, <3>6, <3>7 DEF ActiveBytes
      <3>9. (ActiveBytes(p) - n) % Word = (ActiveBytes(p) % Word) - n
        BY <1>1, <2>0, <2>1, <3>8, ByteRange, ModMinus
      <3>10. QED
        BY <2>0, <3>1, <3>8, <3>9
    <2>2. CASE p # q
      <3>1. Used(p)' = Used(p)
        BY <1>2, <2>2 DEF Used, Put, Erase
      <3>2. ActiveOn(p)' = ActiveOn(p)
        BY <1>8, <2>2 DEF ActiveOn
      <3>3. ActiveUnits(p)' = ActiveUnits(p)
        BY <1>9, <3>2 DEF ActiveUnits
      <3>4. QED
        BY <2>0, <3>1, <3>3 DEF ActiveBytes
    <2>3. QED
      BY <2>1, <2>2
  <1>11. LedgerClosesToZero'
    <2> SUFFICES ASSUME NEW p \in DOMAIN active_by_path', ActiveOn(p)' = {}
                 PROVE  FALSE
      BY DEF LedgerClosesToZero
    <2>1. p \in DOMAIN active_by_path
      BY <1>2, <1>4 DEF Put, Erase
    <2>2. ActiveOn(p) # {}
      BY <2>1 DEF LedgerInv, LedgerClosesToZero
    <2>3. p = q
      BY <2>2, <1>8 DEF ActiveOn
    <2>4. ActiveUnits(p)' = {}
      BY DEF ActiveUnits
    <2>5. Used(p)' = 0
      <3>1. ActiveBytes(p)' = 0 /\ 0 % Word = 0
        BY <2>4, FS_EmptySet, ByteRange, ModSmall DEF ActiveBytes
      <3>2. QED
        BY <1>3, <1>10, <2>3, <3>1 DEF AccountingCloses
    <2>6. rem = 0
      BY <2>3, <2>5, <1>2 DEF Used, Put
    <2>7. QED
      BY <2>3, <2>6, <1>2 DEF Erase
  <1>12. QED
    BY <1>5, <1>6, <1>10, <1>11 DEF LedgerInv

LEMMA SetLimitsKeepsInv ==
    ASSUME LedgerInv, NEW c \in Capacity, SetLimits(c)
    PROVE  LedgerInv'
  BY DEF LedgerInv, SetLimits, TypeOK, FlagsExclusive, AccountingCloses,
         LedgerClosesToZero, Used, ActiveBytes, ActiveUnits, ActiveOn

LEMMA InitInv == Init => LedgerInv
  <1> SUFFICES ASSUME Init PROVE LedgerInv
    OBVIOUS
  <1>1. DOMAIN reservations = {} /\ DOMAIN active_by_path = {}
    BY DEF Init
  <1>2. TypeOK /\ FlagsExclusive /\ LedgerClosesToZero
    BY <1>1 DEF Init, TypeOK, FlagsExclusive, LedgerClosesToZero
  <1>3. \A p \in PathId : ActiveUnits(p) = {}
    BY <1>1 DEF ActiveUnits, ActiveOn
  <1>4. AccountingCloses
    <2>1. 0 % Word = 0
      BY ByteRange, ModSmall
    <2>2. QED
      BY <1>1, <1>3, <2>1, FS_EmptySet DEF AccountingCloses, Used, ActiveBytes
  <1>5. QED
    BY <1>2, <1>4 DEF LedgerInv

LEMMA StutterKeepsInv == LedgerInv /\ UNCHANGED vars => LedgerInv'
  BY DEF vars, LedgerInv, TypeOK, FlagsExclusive, AccountingCloses,
         LedgerClosesToZero, Used, ActiveBytes, ActiveUnits, ActiveOn

LEMMA NextKeepsInv ==
    ASSUME LedgerInv, [Next]_vars
    PROVE  LedgerInv'
  <1>1. ASSUME NEW id \in ReservationId, NEW req \in Request, Reserve(id, req)
        PROVE  LedgerInv'
    BY <1>1, ReserveKeepsInv, StutterKeepsInv DEF Reserve, ReserveRejected
  <1>2. ASSUME NEW id \in ReservationId, NEW b \in Boot, NEW g \in Generation,
               NEW e \in Epoch, Release(id, b, g, e)
        PROVE  LedgerInv'
    BY <1>2, ReleaseKeepsInv, StutterKeepsInv DEF Release, ReleaseRejected
  <1>3. ASSUME NEW c \in Capacity, SetLimits(c)
        PROVE  LedgerInv'
    BY <1>3, SetLimitsKeepsInv
  <1>4. CASE UNCHANGED vars
    BY <1>4, StutterKeepsInv
  <1>5. QED
    BY <1>1, <1>2, <1>3, <1>4 DEF Next

\* For every set of identities, paths, authorities, sizes and ceilings, the
\* inductive invariant holds throughout, also after a sum has wrapped.
THEOREM LedgerInvariant == Spec => []LedgerInv
  <1>1. LedgerInv /\ [Next]_vars => LedgerInv'
    BY NextKeepsInv
  <1>2. QED
    BY InitInv, <1>1, PTL DEF Spec

\* The counter release and reserve maintain step by step is, in every reachable
\* state and for every path, the sum validate_accounting recomputes, whatever
\* sizes callers ask for.
THEOREM AccountingClosesAlways == Spec => []AccountingCloses
  <1>1. LedgerInv => AccountingCloses
    BY DEF LedgerInv
  <1>2. QED
    BY <1>1, LedgerInvariant, PTL

\* Releasing everything empties the ledger: no entry outlives its reservations.
THEOREM LedgerClosesToZeroAlways == Spec => []LedgerClosesToZero
  <1>1. LedgerInv => LedgerClosesToZero
    BY DEF LedgerInv
  <1>2. QED
    BY <1>1, LedgerInvariant, PTL

\* The bytes of one active reservation are among those of its path, and its
\* counter covers them while it has not wrapped.
LEMMA HeldBytes ==
    ASSUME LedgerInv, NEW id \in DOMAIN reservations, Active(reservations[id])
    PROVE  /\ reservations[id].bytes \in Nat
           /\ Used(reservations[id].path) \in Nat
           /\ ActiveBytes(reservations[id].path) < Word =>
                  reservations[id].bytes <= Used(reservations[id].path)
  <1> DEFINE r == reservations[id]
             p == r.path
             n == r.bytes
  <1>1. r \in Reservation
    BY DEF LedgerInv, TypeOK
  <1>2. p \in PathId /\ n \in Nat /\ n < Word
    BY <1>1, ByteRange DEF Reservation
  <1>3. {id} \X (1 .. n) \subseteq ActiveUnits(p)
    BY <1>2, ByteRange DEF ActiveUnits, ActiveOn
  <1>4. IsFiniteSet(ActiveUnits(p)) /\ ActiveBytes(p) \in Nat
    BY UnitsFinite DEF LedgerInv
  <1>5. Cardinality({id} \X (1 .. n)) <= Cardinality(ActiveUnits(p))
    BY <1>3, <1>4, FS_Subset
  <1>6. Cardinality({id} \X (1 .. n)) = n
    BY <1>2, UnitCount
  <1>7. Used(p) = ActiveBytes(p) % Word
    BY <1>2 DEF LedgerInv, AccountingCloses
  <1>8. ActiveBytes(p) < Word => ActiveBytes(p) % Word = ActiveBytes(p)
    BY <1>4, ByteRange, ModSmall
  <1>9. Used(p) \in Nat
    BY ReservationsAssumption DEF LedgerInv, TypeOK, Used
  <1>10. QED
    BY <1>2, <1>4, <1>5, <1>6, <1>7, <1>8, <1>9 DEF ActiveBytes

LEMMA InvGivesVerdict == LedgerInv => ReleaseVerdict
  <1> SUFFICES ASSUME LedgerInv, NEW id \in DOMAIN reservations, NEW b \in Boot,
                      NEW g \in Generation, NEW e \in Epoch
               PROVE  LET r == reservations[id]
                          holds == Active(r) /\ r.boot = b /\ r.generation = g /\ r.epoch = e
                          answer == ReleaseResult(id, b, g, e)
                      IN  /\ answer = "OK" => holds
                          /\ holds /\ ActiveBytes(r.path) < Word => answer = "OK"
                          /\ holds => answer \in {"OK", "ACCOUNTING_DRIFT"}
                          /\ answer # "DOUBLE_RELEASE"
    BY DEF ReleaseVerdict
  <1> DEFINE r == reservations[id]
  <1>1. r \in Reservation
    BY DEF LedgerInv, TypeOK
  <1>2. Active(r) <=> ~r.released
    BY <1>1 DEF LedgerInv, FlagsExclusive, Active, Reservation
  <1>3. Active(r) /\ ActiveBytes(r.path) < Word => ~(Used(r.path) < r.bytes)
    BY HeldBytes
  <1>4. QED
    BY <1>2, <1>3 DEF ReleaseResult

\* Only the holder of an active reservation releases it; it can, unless the
\* counter of its path has wrapped, and the double-release branch is dead code.
THEOREM ReleaseVerdictAlways == Spec => []ReleaseVerdict
  BY InvGivesVerdict, LedgerInvariant, PTL

\* A granted request stays within the ceiling unless the sum no longer fits.
LEMMA GrantWithinLimit ==
    ASSUME LedgerInv, LedgerInv', NEW id \in ReservationId, NEW req \in Request,
           ReserveOK(id, req), NEW p \in PathId, ActiveBytes(p)' < Word,
           ActiveBytes(p)' > ActiveBytes(p)
    PROVE  ActiveBytes(p)' <= per_path_bytes
  <1>1. /\ active_by_path' =
              Put(active_by_path, req.path, Add(Used(req.path), req.bytes))
        /\ ~(Add(Used(req.path), req.bytes) > per_path_bytes)
    BY DEF ReserveOK, ReserveResult, WouldOvercommit
  <1>2. ActiveBytes(p) \in Nat /\ ActiveBytes(p)' \in Nat
    BY SumsTyped, SumsTypedNext DEF SumsAreNumbers, LedgerInv
  <1>3. Used(p) = ActiveBytes(p) % Word /\ Used(p)' = ActiveBytes(p)' % Word
    BY DEF LedgerInv, AccountingCloses
  <1>4. ActiveBytes(p) % Word = ActiveBytes(p) /\ ActiveBytes(p)' % Word = ActiveBytes(p)'
    BY <1>2, ByteRange, ModSmall
  <1>5. p = req.path
    <2>1. p # req.path => Used(p)' = Used(p)
      BY <1>1 DEF Used, Put
    <2>2. QED
      BY <1>2, <1>3, <1>4, <2>1
  <1>6. Used(p)' = Add(Used(p), req.bytes)
    BY <1>1, <1>5 DEF Used, Put
  <1>7. per_path_bytes \in Nat
    BY ByteRange DEF LedgerInv, TypeOK
  <1>8. QED
    BY <1>1, <1>2, <1>3, <1>4, <1>5, <1>6, <1>7

\* A step that makes no entry of the ledger's sum grow cannot grow past anything.
LEMMA ReleaseShrinks ==
    ASSUME LedgerInv, NEW id, NEW b, NEW g, NEW e, ReleaseOK(id, b, g, e), NEW p
    PROVE  ActiveBytes(p)' <= ActiveBytes(p)
  <1>1. id \in DOMAIN reservations
    BY DEF ReleaseOK, ReleaseResult
  <1>2. reservations' = Put(reservations, id, MarkReleased(reservations[id]))
    BY DEF ReleaseOK
  <1>3. ActiveOn(p)' \subseteq ActiveOn(p) \ {id}
    <2>1. reservations[id] \in Reservation
      BY <1>1 DEF LedgerInv, TypeOK
    <2>2. ~Active(MarkReleased(reservations[id]))
      BY <2>1 DEF MarkReleased, Active, Reservation
    <2>3. QED
      BY <1>1, <1>2, <2>2 DEF ActiveOn, Put
  <1>4. ActiveUnits(p)' \subseteq ActiveUnits(p)
    <2>1. \A x \in ActiveOn(p)' : x \in ActiveOn(p) /\ reservations'[x] = reservations[x]
      BY <1>2, <1>3 DEF ActiveOn, Put
    <2>2. QED
      BY <2>1 DEF ActiveUnits
  <1>5. IsFiniteSet(ActiveUnits(p))
    BY UnitsFinite DEF LedgerInv
  <1>6. QED
    BY <1>4, <1>5, FS_Subset DEF ActiveBytes

\* The bytes really held on a path grow past the ceiling in force only by a
\* grant whose sum no longer fits the counter, for any sizes and any ceilings.
THEOREM OvercommitsOnlyByWrappingAlways == Spec => OvercommitsOnlyByWrapping
  <1> DEFINE Within == \A p \in PathId :
                 ActiveBytes(p)' > ActiveBytes(p) =>
                     ActiveBytes(p)' <= per_path_bytes \/ ActiveBytes(p)' >= Word
  <1>1. ASSUME LedgerInv, LedgerInv', [Next]_vars
        PROVE  [Within]_vars
    <2> SUFFICES ASSUME Next, NEW p \in PathId, ActiveBytes(p)' > ActiveBytes(p),
                        ~(ActiveBytes(p)' >= Word)
                 PROVE  ActiveBytes(p)' <= per_path_bytes
      BY <1>1
    <2>0. ActiveBytes(p) \in Nat /\ ActiveBytes(p)' \in Nat /\ ActiveBytes(p)' < Word
      <3>1. ActiveBytes(p) \in Nat /\ ActiveBytes(p)' \in Nat
        BY <1>1, SumsTyped, SumsTypedNext DEF SumsAreNumbers, LedgerInv
      <3>2. QED
        BY <3>1, ByteRange
    <2>1. ASSUME NEW id \in ReservationId, NEW req \in Request, Reserve(id, req)
          PROVE  ActiveBytes(p)' <= per_path_bytes
      <3>1. CASE ReserveOK(id, req)
        BY <1>1, <2>0, <3>1, GrantWithinLimit
      <3>2. CASE ReserveRejected(id, req)
        BY <2>0, <3>2 DEF ReserveRejected, vars, ActiveBytes, ActiveUnits, ActiveOn
      <3>3. QED
        BY <2>1, <3>1, <3>2 DEF Reserve
    <2>2. ASSUME NEW id \in ReservationId, NEW b \in Boot, NEW g \in Generation,
                 NEW e \in Epoch, Release(id, b, g, e)
          PROVE  ActiveBytes(p)' <= per_path_bytes
      <3>1. CASE ReleaseOK(id, b, g, e)
        BY <1>1, <2>0, <3>1, ReleaseShrinks
      <3>2. CASE ReleaseRejected(id, b, g, e)
        BY <2>0, <3>2 DEF ReleaseRejected, vars, ActiveBytes, ActiveUnits, ActiveOn
      <3>3. QED
        BY <2>2, <3>1, <3>2 DEF Release
    <2>3. ASSUME NEW c \in Capacity, SetLimits(c)
          PROVE  ActiveBytes(p)' <= per_path_bytes
      BY <2>0, <2>3 DEF SetLimits, ActiveBytes, ActiveUnits, ActiveOn
    <2>4. QED
      BY <2>1, <2>2, <2>3 DEF Next
  <1>2. QED
    BY <1>1, LedgerInvariant, PTL DEF Spec, OvercommitsOnlyByWrapping

\* A reservation's identity is never reused and a release is final, whatever
\* the sizes.
THEOREM IdentityIsSpentAlways == Spec => IdentityIsSpent
  <1>1. ASSUME [Next]_vars
        PROVE  [\A id \in DOMAIN reservations : Lasting(id)]_vars
    <2> SUFFICES ASSUME Next, NEW x \in DOMAIN reservations
                 PROVE  Lasting(x)
      BY <1>1
    <2>1. ASSUME NEW id \in ReservationId, NEW req \in Request, Reserve(id, req)
          PROVE  Lasting(x)
      BY <2>1 DEF Reserve, ReserveOK, ReserveResult, ReserveRejected, Put, Lasting, vars
    <2>2. ASSUME NEW id \in ReservationId, NEW b \in Boot, NEW g \in Generation,
                 NEW e \in Epoch, Release(id, b, g, e)
          PROVE  Lasting(x)
      <3>1. CASE ReleaseOK(id, b, g, e)
        <4>1. /\ id \in DOMAIN reservations
              /\ Active(reservations[id])
              /\ reservations' = Put(reservations, id, MarkReleased(reservations[id]))
          BY <3>1 DEF ReleaseOK, ReleaseResult
        <4>2. QED
          BY <4>1, Zenon DEF Put, Lasting
      <3>2. CASE ReleaseRejected(id, b, g, e)
        BY <3>2 DEF ReleaseRejected, Lasting, vars
      <3>3. QED
        BY <2>2, <3>1, <3>2 DEF Release
    <2>3. ASSUME NEW c \in Capacity, SetLimits(c)
          PROVE  Lasting(x)
      BY <2>3 DEF SetLimits, Lasting
    <2>4. QED
      BY <2>1, <2>2, <2>3 DEF Next
  <1>2. QED
    BY <1>1, PTL DEF Spec, IdentityIsSpent

\* The maps of reserve and release hold well-formed entries and their counters
\* fit the word, also where a sum wraps around: release never stores a
\* difference below zero.
THEOREM RegistryTypeCorrect == Spec => []TypeOK
  <1>1. Init => TypeOK
    BY DEF Init, TypeOK
  <1>2. TypeOK /\ [Next]_vars => TypeOK'
    <2> SUFFICES ASSUME TypeOK, [Next]_vars PROVE TypeOK'
      OBVIOUS
    <2> USE ByteRange
    <2>0. \A p : Used(p) \in 0 .. (Word - 1)
      BY ReservationsAssumption DEF TypeOK, Used
    <2>1. ASSUME NEW id \in ReservationId, NEW req \in Request, ReserveOK(id, req)
          PROVE  TypeOK'
      <3>1. MarkActive(req) \in Reservation /\ req.path \in PathId /\ req.bytes \in Nat
        BY DEF Request, MarkActive, Reservation
      <3>2. Add(Used(req.path), req.bytes) \in 0 .. (Word - 1)
        BY <2>0, <3>1, ReservationsAssumption DEF Add
      <3> QED
        BY <2>1, <3>1, <3>2 DEF ReserveOK, Put, TypeOK
    <2>2. ASSUME NEW id, NEW b, NEW g, NEW e, ReleaseOK(id, b, g, e)
          PROVE  TypeOK'
      <3> DEFINE r == reservations[id]
      <3>1. id \in DOMAIN reservations /\ ~(Used(r.path) < r.bytes)
        BY <2>2 DEF ReleaseOK, ReleaseResult
      <3>2. r \in Reservation /\ MarkReleased(r) \in Reservation /\ r.path \in PathId /\ r.bytes \in Nat
        BY <3>1 DEF TypeOK, Reservation, MarkReleased
      <3>3. Used(r.path) - r.bytes \in 0 .. (Word - 1)
        BY <2>0, <3>1, <3>2
      <3>4. /\ DOMAIN active_by_path' \subseteq PathId
            /\ active_by_path' \in [DOMAIN active_by_path' -> 0 .. (Word - 1)]
        BY <2>2, <3>2, <3>3 DEF ReleaseOK, LedgerWithout, Erase, Put, TypeOK
      <3>5. /\ DOMAIN reservations' \subseteq ReservationId
            /\ reservations' \in [DOMAIN reservations' -> Reservation]
        BY <2>2, <3>1, <3>2 DEF ReleaseOK, Put, TypeOK
      <3> QED
        BY <2>2, <3>4, <3>5 DEF ReleaseOK, TypeOK
    <2>3. ASSUME NEW c \in Capacity, SetLimits(c)
          PROVE  TypeOK'
      BY <2>3 DEF SetLimits, TypeOK
    <2>4. CASE UNCHANGED vars
      BY <2>4 DEF vars, TypeOK
    <2> QED
      BY <2>1, <2>2, <2>3, <2>4
      DEF Next, Reserve, ReserveRejected, Release, ReleaseRejected
  <1> QED
    BY <1>1, <1>2, PTL DEF Spec
=============================================================================
