----------------------------- MODULE Selection ------------------------------
(***************************************************************************)
(* PathSelector (include/pciefabric/selection.hpp): the comparator of      *)
(* paths and the decision made with it, as operators without state.        *)
(*                                                                         *)
(* A candidate is a record with the fields the comparator reads.  Doubles  *)
(* are natural numbers: only their order matters, and no path carries a    *)
(* NaN.  An absent measurement or envelope is None and ranks as zero.      *)
(* std::stable_sort is replaced by the order itself; the theorems of       *)
(* SelectionProofs say that the order leaves the sort no choice.           *)
(***************************************************************************)
EXTENDS Integers

CONSTANT None

Locality == {"SAME_ENDPOINT", "SAME_SWITCH", "SAME_ROOT_COMPLEX", "SAME_NUMA_DOMAIN",
             "SAME_HOST_REMOTE_ROOT", "CROSS_NUMA", "UNKNOWN", "SYNTHETIC"}

Contention == {"UNKNOWN", "IDLE", "LOW", "MODERATE", "HIGH", "SATURATED"}

Freshness == {"CURRENT", "AGING", "STALE", "REVALIDATION_REQUIRED", "INVALID"}

locality_rank(l) ==
    CASE l = "SAME_ENDPOINT" -> 0
      [] l = "SAME_SWITCH" -> 1
      [] l = "SAME_ROOT_COMPLEX" -> 2
      [] l = "SAME_NUMA_DOMAIN" -> 3
      [] l = "SAME_HOST_REMOTE_ROOT" -> 4
      [] l = "CROSS_NUMA" -> 5
      [] l = "UNKNOWN" -> 6
      [] l = "SYNTHETIC" -> 7

\* An unknown contention ranks as a moderate one.
contention_rank(c) ==
    CASE c = "IDLE" -> 0
      [] c = "LOW" -> 1
      [] c \in {"MODERATE", "UNKNOWN"} -> 2
      [] c = "HIGH" -> 3
      [] c = "SATURATED" -> 4

\* freshness_rank <= 1.
Fresh(p) == p.freshness \in {"CURRENT", "AGING"}

Authorised(p, req) == p.epoch = req.epoch /\ p.boot = req.boot

Capable(p, req) == req.capabilities \subseteq p.capabilities

Rate(x) == IF x = None THEN 0 ELSE x

-----------------------------------------------------------------------------
(* Order *)

Admissible(p, req) == Fresh(p) /\ Authorised(p, req)

\* compare_components(a, b, req) < 0: the first component that differs decides.
\* Paths nobody may use are ordered by their ids alone.
Precedes(a, b, req) ==
    IF Admissible(a, req) # Admissible(b, req) THEN Admissible(a, req)
    ELSE IF ~Admissible(a, req) THEN a.id < b.id
    ELSE IF Capable(a, req) # Capable(b, req) THEN Capable(a, req)
    ELSE IF locality_rank(a.locality) # locality_rank(b.locality)
         THEN locality_rank(a.locality) < locality_rank(b.locality)
    ELSE IF Rate(a.measured) # Rate(b.measured) THEN Rate(a.measured) > Rate(b.measured)
    ELSE IF Rate(a.theoretical) # Rate(b.theoretical)
         THEN Rate(a.theoretical) > Rate(b.theoretical)
    ELSE IF contention_rank(a.contention) # contention_rank(b.contention)
         THEN contention_rank(a.contention) < contention_rank(b.contention)
    ELSE IF a.confidence # b.confidence THEN a.confidence > b.confidence
    ELSE IF a.source # b.source THEN a.source < b.source
    ELSE IF a.destination # b.destination THEN a.destination < b.destination
    ELSE a.id < b.id

-----------------------------------------------------------------------------
(* Decision *)

\* The candidates that pass every test of select, and the ones put off because
\* they are saturated.
Usable(candidates, req) ==
    {p \in candidates : Authorised(p, req) /\ Capable(p, req) /\ Fresh(p)}

Deferred(candidates, req) == {p \in Usable(candidates, req) : p.contention = "SATURATED"}

Pool(candidates, req) == Usable(candidates, req) \ Deferred(candidates, req)

\* The front of the sorted pool.
Best(pool, req) == CHOOSE p \in pool : \A q \in pool \ {p} : Precedes(p, q, req)

Penalised(p) ==
    \/ p.contention \in {"MODERATE", "HIGH"}
    \/ p.locality \in {"CROSS_NUMA", "SAME_HOST_REMOTE_ROOT"}

Ids(ps) == {p.id : p \in ps}

\* A candidate with the right authority and capabilities that is not fresh.
Unfresh(candidates, req) ==
    {p \in candidates : Authorised(p, req) /\ Capable(p, req) /\ ~Fresh(p)}

\* select: paths without authority or capability are listed as eliminated only
\* when some other path is chosen.
Select(candidates, req) ==
    LET pool == Pool(candidates, req)
        deferred == Deferred(candidates, req)
        best == Best(pool, req)
    IN  IF pool # {}
        THEN [decision |-> IF Penalised(best) THEN "USE_PATH_WITH_PENALTY" ELSE "USE_PATH",
              selected |-> best.id,
              alternatives |-> Ids((pool \ {best}) \cup deferred),
              eliminated |-> Ids(candidates \ Usable(candidates, req))]
        ELSE [decision |-> IF deferred = {} THEN "REJECT" ELSE "DEFER",
              selected |-> None,
              alternatives |-> Ids(deferred),
              eliminated |-> Ids(Unfresh(candidates, req))]
=============================================================================
