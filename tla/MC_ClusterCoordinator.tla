------------------------- MODULE MC_ClusterCoordinator -------------------------
(* Model values and bounds for checking ClusterCoordinator.                *)
EXTENDS ClusterCoordinator

CONSTANTS c1, c2, hb, nothread, r1

MCCallers == {c1, c2}
=============================================================================
