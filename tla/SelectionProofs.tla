--------------------------- MODULE SelectionProofs --------------------------
(***************************************************************************)
(* The comparator of paths is a strict total order on paths with distinct  *)
(* ids, for every request.  std::stable_sort may therefore be called with  *)
(* it, the order of its input does not matter, and the decision is a       *)
(* function of the set of candidates.                                      *)
(***************************************************************************)
EXTENDS Selection, FiniteSetTheorems, WellFoundedInduction, TLAPS

\* Any path and any request, with no bound on the numbers in them.
Candidate ==
    [id: Nat, source: Nat, destination: Nat, locality: Locality, contention: Contention,
     freshness: Freshness, epoch: Nat, boot: Nat, capabilities: SUBSET STRING,
     measured: Nat \cup {None}, theoretical: Nat \cup {None}, confidence: Nat]

Request == [epoch: Nat, boot: Nat, capabilities: SUBSET STRING]

-----------------------------------------------------------------------------
\* The ranks and rates the comparator compares are numbers (locality_rank,
\* contention_rank, and the zero that stands for an absent rate).
LEMMA Ranks ==
    ASSUME NEW p \in Candidate
    PROVE  /\ locality_rank(p.locality) \in Int
           /\ contention_rank(p.contention) \in Int
           /\ Rate(p.measured) \in Int
           /\ Rate(p.theoretical) \in Int
           /\ p.confidence \in Int
           /\ p.source \in Int
           /\ p.destination \in Int
           /\ p.id \in Int
<1>1. locality_rank(p.locality) \in Int
  BY DEF Candidate, Locality, locality_rank
<1>2. contention_rank(p.contention) \in Int
  BY DEF Candidate, Contention, contention_rank
<1>3. Rate(p.measured) \in Int /\ Rate(p.theoretical) \in Int
  BY DEF Candidate, Rate
<1> QED
  BY <1>1, <1>2, <1>3 DEF Candidate

\* Of two paths with distinct ids exactly one precedes the other
\* (compare_components), so no two paths ever tie.
THEOREM PrecedesIsTotal ==
    ASSUME NEW req, NEW a \in Candidate, NEW b \in Candidate, a.id # b.id
    PROVE  Precedes(a, b, req) <=> ~Precedes(b, a, req)
<1>1. Admissible(a, req) \in BOOLEAN /\ Admissible(b, req) \in BOOLEAN
  BY DEF Admissible, Fresh, Authorised
<1>2. Capable(a, req) \in BOOLEAN /\ Capable(b, req) \in BOOLEAN
  BY DEF Capable
<1> QED
  BY <1>1, <1>2, Ranks, Z3 DEF Precedes

\* No path precedes itself (compare_components).
THEOREM PrecedesIsIrreflexive ==
    ASSUME NEW req, NEW a \in Candidate
    PROVE  ~Precedes(a, a, req)
  BY Ranks DEF Precedes

\* The comparator is transitive (compare_components), the part of a strict weak
\* order that std::stable_sort needs and that a chain of tests easily loses.
THEOREM PrecedesIsTransitive ==
    ASSUME NEW req, NEW a \in Candidate, NEW b \in Candidate, NEW c \in Candidate,
           Precedes(a, b, req), Precedes(b, c, req)
    PROVE  Precedes(a, c, req)
<1>1. /\ Admissible(a, req) \in BOOLEAN /\ Admissible(b, req) \in BOOLEAN
      /\ Admissible(c, req) \in BOOLEAN
  BY DEF Admissible, Fresh, Authorised
<1>2. /\ Capable(a, req) \in BOOLEAN /\ Capable(b, req) \in BOOLEAN
      /\ Capable(c, req) \in BOOLEAN
  BY DEF Capable
<1> QED
  BY <1>1, <1>2, Ranks, Z3 DEF Precedes

-----------------------------------------------------------------------------
\* Path ids are keys of std::map, so no two candidates share one.
DistinctIds(ps) == \A p, q \in ps : p.id = q.id => p = q

\* p is in front of every other path of the pool.
IsFirst(p, pool, req) == p \in pool /\ \A q \in pool \ {p} : Precedes(p, q, req)

\* At most one path can be in front of all others, so what the sort puts there
\* does not depend on the order in which the candidates came (PathSelector::select).
THEOREM FirstIsUnique ==
    ASSUME NEW req, NEW pool \in SUBSET Candidate, DistinctIds(pool),
           NEW p \in pool, IsFirst(p, pool, req)
    PROVE  Best(pool, req) = p
<1> DEFINE best == Best(pool, req)
<1>1. best \in pool /\ \A q \in pool \ {best} : Precedes(best, q, req)
  BY DEF IsFirst, Best
<1>2. ASSUME best # p  PROVE FALSE
  <2>1. Precedes(best, p, req) /\ Precedes(p, best, req)
    BY <1>1, <1>2 DEF IsFirst
  <2>2. best.id # p.id /\ best \in Candidate /\ p \in Candidate
    BY <1>1, <1>2 DEF DistinctIds
  <2> QED
    BY <2>1, <2>2, PrecedesIsTotal
<1> QED
  BY <1>2

-----------------------------------------------------------------------------
(* A pool that is not empty has a first path.  Instead of an induction over the *)
(* pool: the path with the fewest paths in front of it has none.                *)

LessThan == {mn \in Nat \X Nat : mn[1] < mn[2]}

\* A set of numbers that is not empty has a least element.
LEMMA LeastNumber ==
    ASSUME NEW ns \in SUBSET Nat, ns # {}
    PROVE  \E n \in ns : \A m \in ns : n <= m
<1>1. IsWellFoundedOn(LessThan, Nat)
  <2>1. LessThan = OpToRel(<, Nat)
    BY Zenon DEF LessThan, OpToRel
  <2> QED
    BY <2>1, NatLessThanWellFounded, Zenon
<1>2. PICK n \in ns : \A m \in ns : ~(<<m, n>> \in LessThan)
  BY <1>1, WFMin, Zenon
<1>3. \A m \in ns : ~(m < n)
  BY <1>2 DEF LessThan
<1> QED
  BY <1>3

Ahead(p, pool, req) == {q \in pool : Precedes(q, p, req)}

\* Of a path and one ahead of it, the latter has fewer ahead of it
\* (compare_components).
LEMMA FewerAhead ==
    ASSUME NEW req, NEW pool \in SUBSET Candidate, IsFiniteSet(pool),
           NEW p \in pool, NEW q \in Ahead(p, pool, req)
    PROVE  /\ Cardinality(Ahead(q, pool, req)) \in Nat
           /\ Cardinality(Ahead(p, pool, req)) \in Nat
           /\ Cardinality(Ahead(q, pool, req)) < Cardinality(Ahead(p, pool, req))
<1>1. q \in pool /\ q \in Candidate /\ p \in Candidate /\ Precedes(q, p, req)
  BY DEF Ahead
<1>2. Ahead(q, pool, req) \subseteq Ahead(p, pool, req)
  BY <1>1, PrecedesIsTransitive DEF Ahead
<1>3. q \notin Ahead(q, pool, req)
  BY <1>1, PrecedesIsIrreflexive DEF Ahead
<1>4. Ahead(q, pool, req) # Ahead(p, pool, req)
  BY <1>3
<1>5. IsFiniteSet(Ahead(p, pool, req)) /\ IsFiniteSet(Ahead(q, pool, req))
  BY FS_Subset DEF Ahead
<1> QED
  BY <1>2, <1>4, <1>5, FS_Subset, FS_CardinalityType

\* A finite pool that is not empty has a first path, so the front of the sorted
\* pool is what Best says (PathSelector::select).
THEOREM FirstExists ==
    ASSUME NEW req, NEW pool \in SUBSET Candidate, IsFiniteSet(pool), pool # {},
           DistinctIds(pool)
    PROVE  \E p \in pool : IsFirst(p, pool, req)
<1> DEFINE count(p) == Cardinality(Ahead(p, pool, req))
           counts == {count(p) : p \in pool}
<1>1. \A p \in pool : count(p) \in Nat
  <2> SUFFICES ASSUME NEW p \in pool PROVE count(p) \in Nat
    OBVIOUS
  <2>1. IsFiniteSet(Ahead(p, pool, req))
    BY FS_Subset DEF Ahead
  <2> QED
    BY <2>1, FS_CardinalityType
<1>2. counts \in SUBSET Nat /\ counts # {}
  BY <1>1
<1>3. PICK n \in counts : \A m \in counts : n <= m
  <2> HIDE DEF counts
  <2> QED  BY <1>2, LeastNumber
<1>4. PICK p \in pool : n = count(p)
  BY <1>3
<1>5. \A q \in pool : ~Precedes(q, p, req)
  <2> SUFFICES ASSUME NEW q \in pool, Precedes(q, p, req) PROVE FALSE
    OBVIOUS
  <2>1. q \in Ahead(p, pool, req)
    BY DEF Ahead
  <2>2. count(q) \in Nat /\ count(p) \in Nat /\ count(q) < count(p)
    BY <2>1, FewerAhead
  <2>3. count(p) <= count(q)
    BY <1>3, <1>4
  <2> QED
    BY <2>2, <2>3
<1>6. \A q \in pool \ {p} : Precedes(p, q, req)
  <2> SUFFICES ASSUME NEW q \in pool \ {p} PROVE Precedes(p, q, req)
    OBVIOUS
  <2>1. p.id # q.id /\ p \in Candidate /\ q \in Candidate
    BY DEF DistinctIds
  <2> QED
    BY <1>5, <2>1, PrecedesIsTotal
<1> QED
  BY <1>6 DEF IsFirst

\* When some path is used, it is the first of the pool, and the decision gives
\* every candidate exactly one part: the selected one, an alternative or
\* eliminated (PathSelector::select).
THEOREM DecisionAccountsForAll ==
    ASSUME NEW req, NEW cs \in SUBSET Candidate, IsFiniteSet(cs), DistinctIds(cs),
           Pool(cs, req) # {}
    PROVE  LET d == Select(cs, req) IN
           /\ \E p \in Pool(cs, req) : IsFirst(p, Pool(cs, req), req) /\ d.selected = p.id
           /\ Ids(cs) = {d.selected} \cup d.alternatives \cup d.eliminated
           /\ d.selected \notin d.alternatives \cup d.eliminated
           /\ d.alternatives \cap d.eliminated = {}
<1> DEFINE pool == Pool(cs, req)
           deferred == Deferred(cs, req)
           usable == Usable(cs, req)
           d == Select(cs, req)
<1>1. /\ pool \subseteq usable /\ deferred \subseteq usable /\ usable \subseteq cs
      /\ pool \cap deferred = {} /\ pool \cup deferred = usable
  BY DEF Pool, Deferred, Usable
<1>2. pool \in SUBSET Candidate /\ DistinctIds(pool) /\ IsFiniteSet(pool)
  BY <1>1, FS_Subset DEF DistinctIds
<1>3. PICK p \in pool : IsFirst(p, pool, req)
  BY <1>2, FirstExists
<1>4. Best(pool, req) = p
  BY <1>2, <1>3, FirstIsUnique
<1>5. /\ d.selected = p.id
      /\ d.alternatives = Ids((pool \ {p}) \cup deferred)
      /\ d.eliminated = Ids(cs \ usable)
  BY <1>4 DEF Select
<1>6. cs = {p} \cup ((pool \ {p}) \cup deferred) \cup (cs \ usable)
  BY <1>1
<1>7. Ids(cs) = {d.selected} \cup d.alternatives \cup d.eliminated
  BY <1>5, <1>6 DEF Ids
<1>8. d.selected \notin d.alternatives \cup d.eliminated
  BY <1>1, <1>5 DEF Ids, DistinctIds
<1>9. d.alternatives \cap d.eliminated = {}
  BY <1>1, <1>5 DEF Ids, DistinctIds
<1> QED
  BY <1>3, <1>5, <1>7, <1>8, <1>9
=============================================================================
