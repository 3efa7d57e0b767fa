---------------------------- MODULE Reservations ----------------------------
(***************************************************************************)
(* ReservationRegistry (include/pciefabric/reservation.hpp): the ledger of *)
(* path reservations.  Every public operation holds the registry's mutex   *)
(* from its first to its last statement, so each one is a single action.   *)
(*                                                                         *)
(* A reservation keeps the fields the registry reads: path, bytes, the     *)
(* authority it was made under (boot, generation, epoch) and the two flags *)
(* active_ and released_.  Byte counts are std::uint64_t; Word stands for  *)
(* 2^64 and additions wrap at it.                                          *)
(***************************************************************************)
EXTENDS Integers, FiniteSets

CONSTANTS
    ReservationId,   \* identities a caller may choose
    PathId,
    Boot,            \* WorkerBootId values
    Generation,      \* ReservationGeneration values
    Epoch,           \* CoordinatorEpoch values
    Bytes,           \* request sizes
    Capacity,        \* values of ReservationLimits::per_path_bytes
    Word             \* number of values of the byte counters

ASSUME ReservationsAssumption ==
    /\ IsFiniteSet(ReservationId)
    /\ Word \in Nat \ {0}
    /\ Bytes \subseteq 0 .. (Word - 1)
    /\ Capacity \subseteq 0 .. (Word - 1)

VARIABLES
    reservations,    \* std::map<ReservationId, Reservation> reservations_
    active_by_path,  \* std::map<PathId, uint64_t> active_by_path_
    per_path_bytes   \* limits_.per_path_bytes

vars == <<reservations, active_by_path, per_path_bytes>>

Request == [path: PathId, bytes: Bytes, boot: Boot, generation: Generation, epoch: Epoch]

Reservation ==
    [path: PathId, bytes: Bytes, boot: Boot, generation: Generation,
     epoch: Epoch, active: BOOLEAN, released: BOOLEAN]

\* A map with key k set to v, and with key k erased.
Put(map, k, v) == [x \in DOMAIN map \cup {k} |-> IF x = k THEN v ELSE map[x]]

Erase(map, k) == [x \in DOMAIN map \ {k} |-> map[x]]

Add(a, b) == (a + b) % Word

Active(r) == r.active /\ ~r.released

\* What the path's ledger entry says; a missing entry reads as zero.
Used(p) == IF p \in DOMAIN active_by_path THEN active_by_path[p] ELSE 0

-----------------------------------------------------------------------------
(* Reserve *)

MutantWouldOvercommit(p, bytes) == Used(p) > per_path_bytes

WouldOvercommit(p, bytes) == Add(Used(p), bytes) > per_path_bytes

MutantReserveResult(id, req) ==
    IF WouldOvercommit(req.path, req.bytes) THEN "OVERCOMMIT" ELSE "OK"

\* The checks of reserve, in the order the code makes them.
ReserveResult(id, req) ==
    IF id \in DOMAIN reservations THEN "ALREADY_EXISTS"
    ELSE IF WouldOvercommit(req.path, req.bytes) THEN "OVERCOMMIT"
    ELSE "OK"

MarkActive(req) ==
    [path |-> req.path, bytes |-> req.bytes, boot |-> req.boot,
     generation |-> req.generation, epoch |-> req.epoch,
     active |-> TRUE, released |-> FALSE]

MutantReserveOK(id, req) ==
    /\ ReserveResult(id, req) = "OK"
    /\ reservations' = Put(reservations, id, MarkActive(req))
    /\ active_by_path' = Put(active_by_path, req.path, req.bytes)
    /\ UNCHANGED per_path_bytes

ReserveOK(id, req) ==
    /\ ReserveResult(id, req) = "OK"
    /\ reservations' = Put(reservations, id, MarkActive(req))
    /\ active_by_path' = Put(active_by_path, req.path, Add(Used(req.path), req.bytes))
    /\ UNCHANGED per_path_bytes

ReserveRejected(id, req) ==
    /\ ReserveResult(id, req) # "OK"
    /\ UNCHANGED vars

Reserve(id, req) == ReserveOK(id, req) \/ ReserveRejected(id, req)

-----------------------------------------------------------------------------
(* Release *)

MutantReleaseResult(id, boot, generation, epoch) ==
    LET r == reservations[id] IN
    IF id \notin DOMAIN reservations THEN "NOT_FOUND"
    ELSE IF r.boot # boot THEN "STALE_BOOT"
    ELSE IF r.generation # generation THEN "STALE_AUTHORITY"
    ELSE IF Used(r.path) < r.bytes THEN "ACCOUNTING_DRIFT"
    ELSE "OK"

\* The checks of release, in the order the code makes them.
ReleaseResult(id, boot, generation, epoch) ==
    LET r == reservations[id] IN
    IF id \notin DOMAIN reservations THEN "NOT_FOUND"
    ELSE IF r.released THEN "DUPLICATE_RELEASE"
    ELSE IF r.boot # boot THEN "STALE_BOOT"
    ELSE IF r.generation # generation THEN "STALE_AUTHORITY"
    ELSE IF r.epoch # epoch THEN "STALE_EPOCH"
    ELSE IF ~Active(r) THEN "DOUBLE_RELEASE"
    ELSE IF Used(r.path) < r.bytes THEN "ACCOUNTING_DRIFT"
    ELSE "OK"

MarkReleased(r) == [r EXCEPT !.active = FALSE, !.released = TRUE]

\* The ledger after r's bytes are given back: an entry that reaches zero goes.
MutantLedgerWithout(r) == Put(active_by_path, r.path, Used(r.path) - r.bytes)

MutantLedgerSwapped(r) == Put(active_by_path, r.path, r.bytes - Used(r.path))

LedgerWithout(r) ==
    LET remaining == Used(r.path) - r.bytes IN
    IF remaining = 0 THEN Erase(active_by_path, r.path)
    ELSE Put(active_by_path, r.path, remaining)

ReleaseOK(id, boot, generation, epoch) ==
    /\ ReleaseResult(id, boot, generation, epoch) = "OK"
    /\ active_by_path' = LedgerWithout(reservations[id])
    /\ reservations' = Put(reservations, id, MarkReleased(reservations[id]))
    /\ UNCHANGED per_path_bytes

ReleaseRejected(id, boot, generation, epoch) ==
    /\ ReleaseResult(id, boot, generation, epoch) # "OK"
    /\ UNCHANGED vars

Release(id, boot, generation, epoch) ==
    \/ ReleaseOK(id, boot, generation, epoch)
    \/ ReleaseRejected(id, boot, generation, epoch)

-----------------------------------------------------------------------------
\* set_limits replaces the ceiling unconditionally, also below what is in use.
SetLimits(c) ==
    /\ per_path_bytes' = c
    /\ UNCHANGED <<reservations, active_by_path>>

Init ==
    /\ reservations = [id \in {} |-> 0]
    /\ active_by_path = [p \in {} |-> 0]
    /\ per_path_bytes \in Capacity

Next ==
    \/ \E id \in ReservationId, req \in Request : Reserve(id, req)
    \/ \E id \in ReservationId, b \in Boot, g \in Generation, e \in Epoch :
          Release(id, b, g, e)
    \/ \E c \in Capacity : SetLimits(c)

Spec == Init /\ [][Next]_vars

-----------------------------------------------------------------------------
(* Properties *)

\* Every map holds well-formed entries; the byte counters fit their word.
TypeOK ==
    /\ DOMAIN reservations \subseteq ReservationId
    /\ reservations \in [DOMAIN reservations -> Reservation]
    /\ DOMAIN active_by_path \subseteq PathId
    /\ active_by_path \in [DOMAIN active_by_path -> 0 .. (Word - 1)]
    /\ per_path_bytes \in Capacity

ActiveOn(p) == {id \in DOMAIN reservations :
                    Active(reservations[id]) /\ reservations[id].path = p}

\* The bytes of the active reservations on p, one element for each byte: its
\* cardinality is the sum of their sizes.  validate_accounting adds them in
\* std::uint64_t, so its sum is this one modulo Word.
ActiveUnits(p) == {u \in ActiveOn(p) \X (1 .. Word) : u[2] <= reservations[u[1]].bytes}

ActiveBytes(p) == Cardinality(ActiveUnits(p))

\* validate_accounting, for every path and not only for those with an entry:
\* the counter kept by reserve and release is the sum of the active reservations,
\* also when requests so large were granted that both have wrapped.
AccountingCloses == \A p \in PathId : Used(p) = ActiveBytes(p) % Word

\* "Closes to exactly zero": a path has a ledger entry only while some active
\* reservation is on it, so when all are released the ledger is empty.
LedgerClosesToZero == \A p \in DOMAIN active_by_path : ActiveOn(p) # {}

\* What release answers in any reachable state.  Only the holder of an active
\* reservation succeeds, and it does unless the counter of its path has wrapped;
\* then the answer may be ACCOUNTING_DRIFT.  DOUBLE_RELEASE is never given.
ReleaseVerdict ==
    \A id \in DOMAIN reservations, b \in Boot, g \in Generation, e \in Epoch :
        LET r == reservations[id]
            holds == Active(r) /\ r.boot = b /\ r.generation = g /\ r.epoch = e
            answer == ReleaseResult(id, b, g, e)
        IN  /\ answer = "OK" => holds
            /\ holds /\ ActiveBytes(r.path) < Word => answer = "OK"
            /\ holds => answer \in {"OK", "ACCOUNTING_DRIFT"}
            /\ answer # "DOUBLE_RELEASE"

\* "A reservation never overcommits beyond configured hard policy"
\* (reservation.hpp:2): whenever the bytes really held on a path grow, they end
\* up within the ceiling in force.
GrowsWithinLimit ==
    [][\A p \in PathId :
          ActiveBytes(p)' > ActiveBytes(p) => ActiveBytes(p)' <= per_path_bytes]_vars

\* What reserve does keep to: the bytes held on a path grow past the ceiling only
\* when their sum no longer fits the counter (set_limits may put the ceiling below
\* what is held, which is no growth).
OvercommitsOnlyByWrapping ==
    [][\A p \in PathId :
          ActiveBytes(p)' > ActiveBytes(p) =>
              ActiveBytes(p)' <= per_path_bytes \/ ActiveBytes(p)' >= Word]_vars

\* An identity is spent for good: its reservation is never dropped, never
\* rewritten by another request and, once released, never active again.
Lasting(id) ==
    /\ id \in DOMAIN reservations'
    /\ \/ reservations'[id] = reservations[id]
       \/ /\ Active(reservations[id])
          /\ reservations'[id] = MarkReleased(reservations[id])

IdentityIsSpent == [][\A id \in DOMAIN reservations : Lasting(id)]_vars

-----------------------------------------------------------------------------
\* A stored reservation is either active or released.
FlagsExclusive == \A id \in DOMAIN reservations :
                      reservations[id].active = ~reservations[id].released

\* The inductive invariant behind the theorems.
LedgerInv ==
    /\ TypeOK
    /\ FlagsExclusive
    /\ AccountingCloses
    /\ LedgerClosesToZero
=============================================================================
