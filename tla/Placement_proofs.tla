--------------------------- MODULE Placement_proofs ---------------------------
(***************************************************************************)
(* Proofs about the placement computations, for any number of clusters,    *)
(* bindings, PolicySets and placements.  They hold in every state, whatever*)
(* the inputs are, so no invariant is needed; RootPolicy_proofs states them*)
(* of the specification.                                                   *)
(***************************************************************************)
EXTENDS Placement, FiniteSetTheorems, TLAPS

(* A list of the cache names every existing binding.                        *)
LEMMA OrdersCover ==
    ASSUME NEW order \in Orders, NEW n \in Existing
    PROVE  \E i \in DOMAIN order : order[i] = n
  <1> DEFINE D == 1 .. Cardinality(Existing)
  <1>1. IsFiniteSet(Existing) /\ Cardinality(Existing) \in Nat
    BY FiniteAssumption, FS_Subset, FS_CardinalityType DEF Existing
  <1>2. Cardinality(D) = Cardinality(Existing)
    BY <1>1, FS_Interval
  <1>3. order \in [D -> Existing] /\ \A i, j \in D : i # j => order[i] # order[j]
    BY DEF Orders, SetToSeqs
  <1>4. order \in Injection(D, Existing)
    BY <1>3 DEF Injection, IsInjective
  <1>5. order \in Surjection(D, Existing)
    BY <1>1, <1>2, <1>4, FS_Injection
  <1> QED BY <1>3, <1>5 DEF Surjection

(* A cluster in the decisions of a binding of the policy belongs to the      *)
(* binding in the DecisionSet.                                               *)
LEMMA InDecisionSet ==
    ASSUME NEW n \in Existing, NEW c, IsSingleClusterInDecisions(binding[n], c)
    PROVE  n \in DecisionSet(c)
  BY DEF IsSingleClusterInDecisions, DecisionSet, PolicyPlacementDecisions, IsBound

(* singleClusterDecision and GetClusterDecisions agree on placed clusters.   *)
LEMMA ReplicasDecided == ReplicatedIsDecided
  <1> SUFFICES ASSUME NEW c \in Clusters, SingleClusterDecision(c) # "none"
               PROVE  c \in DecidedClusters
    BY DEF ReplicatedIsDecided
  <1>1. PICK n \in Unrestricted : IsSingleClusterInDecisions(binding[n], c)
    BY DEF SingleClusterDecision
  <1>2. n \in DecisionSet(c)
    BY <1>1, InDecisionSet DEF Unrestricted
  <1> QED BY <1>2 DEF DecidedClusters

(* A restricted binding that decides a cluster on which the policy is placed  *)
(* is reported, whatever the order of the list.                              *)
LEMMA OverlapReported ==
    ASSUME NEW order \in Orders, NEW c, Placed(c), NEW r \in Restricted, r \in DecisionSet(c)
    PROVE  r \in ReportedRestricted(order)
  <1>1. PICK n \in Unrestricted : IsSingleClusterInDecisions(binding[n], c)
    BY DEF Placed, SingleClusterDecision
  <1>2. c \in PolicyPlacementDecisions(n) /\ c \in PolicyPlacementDecisions(r)
    BY <1>1, InDecisionSet DEF Unrestricted, DecisionSet
  <1>3. PICK i \in DOMAIN order : order[i] = r
    BY OrdersCover DEF Restricted
  <1>4. FoundInDecisions(order, i)
    BY <1>2, <1>3 DEF FoundInDecisions
  <1> QED BY <1>3, <1>4 DEF ReportedRestricted

(* A binding that decides the cluster, is reported and excludes it nowhere,  *)
(* places the policy there.                                                  *)
LEMMA UnexcludedPlaces ==
    ASSUME NEW order \in Orders, NEW c,
           NEW n \in Unrestricted \cup ReportedRestricted(order),
           n \in DecisionSet(c), n \notin Excluding(order, c)
    PROVE  n \in Placing(c)
  <1>1. /\ HasValidPlacementRef(binding[n]) /\ c \in GetDecisions(binding[n])
        /\ PolicySubjects(binding[n]) # {} /\ n \in Existing
    BY DEF DecisionSet, PolicyPlacementDecisions, GetDecisions, IsBound
  <1>2. PICK s \in PolicySubjects(binding[n]) : TRUE
    BY <1>1
  <1>3. CASE s = Direct
    BY <1>1, <1>2, <1>3 DEF IsSingleClusterInDecisions, Placing
  <1>4. CASE s # Direct
    <2> DEFINE p == [binding |-> n, subject |-> s, exclusions |-> ExcludedClustersForPolicy(s)]
    <2>1. p \in PolicyPlacements(n)
      BY <1>1, <1>2, <1>4 DEF PolicyPlacements
    <2>2. p \in ClusterPlacements(order)
      BY <2>1 DEF ClusterPlacements
    <2>3. c \notin p.exclusions
      BY <2>2 DEF Excluding
    <2> QED BY <1>1, <1>2, <2>3 DEF IsSingleClusterInDecisions, Placing
  <1> QED BY <1>3, <1>4

(* computeRemainingBindings reports, on placed clusters, bindings that place.*)
LEMMA RemainingExplained == RemainingExplains
  <1> SUFFICES ASSUME NEW c \in Clusters, NEW order \in Orders
               PROVE  /\ Placed(c) => RemainingBindings(Excluding(order, c), c) \subseteq Placing(c)
                      /\ ~Placed(c) => RemainingBindings(Excluding(order, c), c) \subseteq Restricted
                      /\ RemainingBindings(Excluding(order, c), c) = {} /\ Excluding(order, c) # {} =>
                           (Placing(c) \cap Unrestricted) \subseteq Excluding(order, c)
    BY DEF RemainingExplains
  <1>1. RemainingBindings(Excluding(order, c), c) \subseteq DecisionSet(c) \ Excluding(order, c)
    BY DEF RemainingBindings
  <1>2. DecisionSet(c) \subseteq Unrestricted \cup Restricted
    BY DEF DecisionSet, Unrestricted, Restricted
  <1>3. ASSUME Placed(c), NEW n \in RemainingBindings(Excluding(order, c), c) PROVE n \in Placing(c)
    <2>1. n \in Unrestricted \cup ReportedRestricted(order)
      BY <1>1, <1>2, <1>3, OverlapReported
    <2> QED BY <1>1, <2>1, UnexcludedPlaces
  <1>4. ASSUME ~Placed(c), NEW n \in RemainingBindings(Excluding(order, c), c) PROVE n \in Restricted
    <2>1. CASE n \in Unrestricted
      <3>1. n \in Placing(c)
        BY <1>1, <2>1, UnexcludedPlaces
      <3>2. Placed(c)
        BY <2>1, <3>1 DEF Placed, Placing, SingleClusterDecision
      <3> QED BY <1>4, <3>2
    <2> QED BY <1>1, <1>2, <2>1
  <1>5. ASSUME Excluding(order, c) # {}, NEW n \in Placing(c) \cap Unrestricted,
               n \notin Excluding(order, c)
        PROVE  RemainingBindings(Excluding(order, c), c) # {}
    <2>1. n \in DecisionSet(c)
      BY InDecisionSet DEF Placing
    <2> QED BY <1>5, <2>1 DEF RemainingBindings
  <1> QED BY <1>3, <1>4, <1>5

(* The remaining bindings of a placed cluster and the order of the list.     *)
LEMMA RemainingOrder == RemainingStable
  <1> SUFFICES ASSUME NEW c \in Clusters, Placed(c),
                      \A r \in Restricted : (\E p \in PolicyPlacements(r) : c \in p.exclusions)
                                               => r \in DecisionSet(c),
                      NEW one \in Orders, NEW other \in Orders
               PROVE  RemainingBindings(Excluding(one, c), c) = RemainingBindings(Excluding(other, c), c)
    BY DEF RemainingStable
  <1>1. ASSUME NEW o1 \in Orders, NEW o2 \in Orders PROVE Excluding(o1, c) \subseteq Excluding(o2, c)
    <2> SUFFICES ASSUME NEW n \in Excluding(o1, c) PROVE n \in Excluding(o2, c)
      OBVIOUS
    <2>1. PICK p \in ClusterPlacements(o1) : c \in p.exclusions /\ n = p.binding
      BY DEF Excluding
    <2>2. PICK m \in Unrestricted \cup ReportedRestricted(o1) : p \in PolicyPlacements(m)
      BY <2>1 DEF ClusterPlacements
    <2>3. m \in Unrestricted \cup ReportedRestricted(o2)
      <3>1. ReportedRestricted(o1) \subseteq Restricted
        BY DEF ReportedRestricted
      <3>2. CASE m \in Restricted
        BY <2>1, <2>2, <3>2, OverlapReported
      <3> QED BY <2>2, <3>1, <3>2
    <2>4. p \in ClusterPlacements(o2)
      BY <2>2, <2>3 DEF ClusterPlacements
    <2> QED BY <2>1, <2>4 DEF Excluding
  <1>2. Excluding(one, c) = Excluding(other, c)
    BY <1>1
  <1> QED BY <1>2 DEF RemainingBindings

(* The edits of users, of the placement controller and those the webhook     *)
(* admits keep the types of the inputs.                                      *)
LEMMA EditKeepsTypes ==
    ASSUME PlacementTypeOK, EditInputs
    PROVE  PlacementTypeOK'
  <1>1. ASSUME NEW n \in Bindings, EditBinding(n) PROVE PlacementTypeOK'
    BY <1>1 DEF EditBinding, PlacementTypeOK
  <1>2. ASSUME NEW s \in Sets, EditSet(s) PROVE PlacementTypeOK'
    BY <1>2 DEF EditSet, PlacementTypeOK
  <1>3. ASSUME NEW r \in Refs, EditDecisions(r) PROVE PlacementTypeOK'
    BY <1>3 DEF EditDecisions, PlacementTypeOK
  <1> QED BY <1>1, <1>2, <1>3 DEF EditInputs

=============================================================================
