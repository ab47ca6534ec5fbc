------------------------- MODULE MCReplicatedPolicy -------------------------
EXTENDS ReplicatedPolicy, TLC
Perms == Permutations(Contents)
=============================================================================
