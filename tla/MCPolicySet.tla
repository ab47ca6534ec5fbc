---------------------------- MODULE MCPolicySet ----------------------------
(***************************************************************************)
(* The PolicySets of PolicySet.cfg.  Nothing tells the clusters apart; the *)
(* policies are told apart by their order in the list.                     *)
(***************************************************************************)
EXTENDS PolicySet

CONSTANTS p1, p2

MCLists == {<<>>, <<p1, p2>>}
ClusterSymmetry == Permutations(Clusters)

=============================================================================
