----------------------------- MODULE MCTopology -----------------------------
(* Hierarchies of three nodes.                                             *)
EXTENDS Topology, TLC

CONSTANTS b1, b2, b3

MCBdf == {b1, b2, b3}
MCValidBdf == {b1, b2}

\* Endpoints have a kind that is none of DeviceClass: a caller casts any number to
\* one, and nothing but validate() tells it from an ACCELERATOR.
MCAddedKind == {"INVALID"}
MCEndpointKind == {"ACCELERATOR"}

\* Addresses are only compared for equality and tested for validity.
MCSymmetry == Permutations(MCValidBdf)
=============================================================================
