--------------------------- MODULE MCCoordinator ----------------------------
(* Two workers and their threads, on small sets of identities.             *)
EXTENDS Coordinator

CONSTANTS r1, p1, m1, n1, n2

MCReservationId == {r1}
MCPathId == {p1}
MCNodeId == {n1, n2}
MCOneNode == {n1}
MCMeasurementId == {m1}

\* What the applications and the coordinator's owner do in each run.
MCSafetyOps == {"REGISTER", "RESERVE", "RELEASE", "PATH_SNAPSHOT", "MEASUREMENT", "RESTART",
                "ADVANCE_EPOCH", "REVALIDATE_ALL"}
MCLifecycleOps == {"REGISTER", "INVENTORY", "PATH_SNAPSHOT", "MEASUREMENT", "HEARTBEAT",
                   "REVALIDATE", "RESERVE", "RELEASE", "CLOSE", "RESTART", "STOP", "EARLY_CALLS"}
MCInventoryOps == {"REGISTER", "INVENTORY"}
MCFencedOps == {"REGISTER", "PATH_SNAPSHOT", "RESERVE", "RESTART"}
=============================================================================
