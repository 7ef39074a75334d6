------------------------- MODULE MCClusterOwnership -------------------------
\* Instances of ClusterOwnership for TLC.
EXTENDS ClusterOwnership, TLC

Processes2 == Permutations(Instances)
=============================================================================
