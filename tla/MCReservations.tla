--------------------------- MODULE MCReservations ---------------------------
(* The registry with small sets of identities, paths and authorities.      *)
EXTENDS Reservations, TLC

CONSTANTS r1, r2, r3, p1, p2, b1, b2

MCIds == {r1, r2, r3}
MCPaths == {p1, p2}
MCBoots == {b1, b2}
MCEpochs == {0, 1}
MCGenerations == {1}

\* Sizes around the two ceilings, with the empty request and the greatest.
MCBytes == {0, 1, 3, 7}
MCCapacity == {2, 4}

\* Identities, paths and boots are only ever compared for equality.
MCSymmetry == Permutations(MCIds) \cup Permutations(MCPaths) \cup Permutations(MCBoots)
=============================================================================
