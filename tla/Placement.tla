------------------------------ MODULE Placement ------------------------------
(***************************************************************************)
(* Which clusters a root policy is placed on, as the code computes it from *)
(* the cached PlacementBindings, PolicySets and placement decisions of the *)
(* policy's namespace.  Two pieces of code answer the question:            *)
(*   - singleClusterDecision, for the replicated-policy reconciler, about  *)
(*     one cluster;                                                        *)
(*   - GetClusterDecisions, for the root policy's status and for the       *)
(*     events sent to the replicated-policy reconciler, about all.         *)
(* The module fixes one root policy; a binding names it directly or names  *)
(* PolicySets that may list it.                                            *)
(***************************************************************************)
EXTENDS Integers, FiniteSets, Sequences, SequencesExt

CONSTANTS
    Clusters,    \* managed clusters
    Bindings,    \* names of PlacementBindings
    Sets,        \* names of PolicySets
    Refs,        \* names of Placements and PlacementRules
    Direct,      \* the subject that is the root policy itself
    BadRefs,     \* placementRefs of another kind or API group
    NoObj        \* an object that does not exist

ASSUME NamesAssumption == Direct \notin Sets /\ BadRefs \cap Refs = {}
ASSUME FiniteAssumption == IsFiniteSet(Bindings)

VARIABLES
    binding,     \* the PlacementBindings in the cache
    pset,        \* the PolicySets in the cache
    dec          \* the decisions of each Placement (or PlacementRule)

inputs == <<binding, pset, dec>>

Binding == [subjects : (SUBSET (Sets \cup {Direct})) \ {{}}, ref : Refs \cup BadRefs,
            restricted : BOOLEAN, enforce : BOOLEAN]

(* The webhook admits exclusions of listed policies only.                   *)
PolicySet == {s \in [listed : BOOLEAN, excluded : SUBSET Clusters] :
                s.listed \/ s.excluded = {}}

PlacementTypeOK ==
    /\ binding \in [Bindings -> Binding \cup {NoObj}]
    /\ pset \in [Sets -> PolicySet \cup {NoObj}]
    /\ dec \in [Refs -> SUBSET Clusters]

-----------------------------------------------------------------------------
IsPolicyInPolicySet(s) == pset[s] # NoObj /\ pset[s].listed
ExcludedClustersForPolicy(s) == IF pset[s] = NoObj THEN {} ELSE pset[s].excluded

HasValidPlacementRef(b) == b.ref \notin BadRefs

(* GetDecisions: an invalid reference and a missing placement decide nothing.*)
GetDecisions(b) == IF HasValidPlacementRef(b) THEN dec[b.ref] ELSE {}

(* The subjects of the binding that stand for the policy: GetPoliciesIn-     *)
(* PlacementBinding asks whether there is one, GetPolicyPlacementDecisions   *)
(* makes a placement of each.                                                *)
PolicySubjects(b) ==
    {s \in b.subjects : s = Direct \/ (s \in Sets /\ IsPolicyInPolicySet(s))}
IsBound(b) == PolicySubjects(b) # {}

(* isSingleClusterInDecisions: a subject that does not exclude the cluster.  *)
IsSingleClusterInDecisions(b, c) ==
    /\ HasValidPlacementRef(b)
    /\ \E s \in PolicySubjects(b) : s = Direct \/ c \notin ExcludedClustersForPolicy(s)
    /\ c \in GetDecisions(b)

Existing == {n \in Bindings : binding[n] # NoObj}
Unrestricted == {n \in Existing : ~binding[n].restricted}
Restricted   == {n \in Existing : binding[n].restricted}

(* singleClusterDecision: restricted bindings only add the override.         *)
SingleClusterDecision(c) ==
    LET found(names) == {n \in names : IsSingleClusterInDecisions(binding[n], c)}
        override(names) == \E n \in found(names) : binding[n].enforce
    IN  IF override(Unrestricted) THEN "enforce"
        ELSE IF found(Unrestricted) = {} THEN "none"
        ELSE IF override(Restricted) THEN "enforce"
        ELSE "inform"

-----------------------------------------------------------------------------
(* GetPolicyPlacementDecisions for one binding: the decisions are not        *)
(* filtered by the exclusions, the placements report them.                   *)
Bug_DirectOnly(n) ==
    IF Direct \in binding[n].subjects THEN GetDecisions(binding[n]) ELSE {}

PolicyPlacementDecisions(n) ==
    IF IsBound(binding[n]) THEN GetDecisions(binding[n]) ELSE {}

PolicyPlacements(n) ==
    LET b == binding[n] IN
    IF ~HasValidPlacementRef(b) THEN {}
    ELSE {[binding |-> n, subject |-> s,
           exclusions |-> IF s = Direct THEN {} ELSE ExcludedClustersForPolicy(s)] :
             s \in PolicySubjects(b)}

(* The DecisionSet of GetClusterDecisions: first the bindings that are not   *)
(* restricted, then the restricted ones, each adds itself to its clusters.   *)
DecisionSet(c) == {n \in Existing : c \in PolicyPlacementDecisions(n)}
DecidedClusters == {c \in Clusters : DecisionSet(c) # {}}

(* The placements of GetClusterDecisions.  The restricted bindings are       *)
(* visited in the order of the list, and each counts for the later ones.     *)
Bug_OnePass(order, i) ==
    \E j \in 1 .. (i - 1), c \in PolicyPlacementDecisions(order[i]) :
       c \in PolicyPlacementDecisions(order[j])

FoundInDecisions(order, i) ==
    \E c \in PolicyPlacementDecisions(order[i]) :
       \/ \E n \in Unrestricted : c \in PolicyPlacementDecisions(n)
       \/ \E j \in 1 .. (i - 1) : /\ order[j] \in Restricted
                                  /\ c \in PolicyPlacementDecisions(order[j])

ReportedRestricted(order) ==
    {order[i] : i \in {i \in DOMAIN order : order[i] \in Restricted /\ FoundInDecisions(order, i)}}

ClusterPlacements(order) ==
    UNION {PolicyPlacements(n) : n \in Unrestricted \cup ReportedRestricted(order)}

(* The bindings with a reported PolicySet that excludes the cluster.         *)
Excluding(order, c) == {p.binding : p \in {p \in ClusterPlacements(order) : c \in p.exclusions}}

(* computeRemainingBindings: the bindings of the cluster that are not among  *)
(* those whose PolicySet excludes it.                                        *)
Bug_KeepExcluding(excluding, c) ==
    IF excluding = {} THEN {} ELSE DecisionSet(c)

RemainingBindings(excluding, c) ==
    IF excluding = {} THEN {} ELSE DecisionSet(c) \ excluding

(* The orders in which the cache may list the bindings.                      *)
Orders == SetToSeqs(Existing)

-----------------------------------------------------------------------------
(* Users, the placement controller and the webhook change the inputs.        *)
EditBinding(n) ==
    /\ binding' \in {[binding EXCEPT ![n] = b] : b \in (Binding \cup {NoObj}) \ {binding[n]}}
    /\ UNCHANGED <<pset, dec>>

Bug_EditUnvalidated(s) ==
    /\ pset' \in {[pset EXCEPT ![s] = [listed |-> l, excluded |-> x]] :
                    l \in BOOLEAN, x \in SUBSET Clusters}
    /\ UNCHANGED <<binding, dec>>

EditSet(s) ==
    /\ pset' \in {[pset EXCEPT ![s] = p] : p \in (PolicySet \cup {NoObj}) \ {pset[s]}}
    /\ UNCHANGED <<binding, dec>>

EditDecisions(r) ==
    /\ dec' \in {[dec EXCEPT ![r] = d] : d \in (SUBSET Clusters) \ {dec[r]}}
    /\ UNCHANGED <<binding, pset>>

EditInputs == \/ \E n \in Bindings : EditBinding(n)
              \/ \E s \in Sets : EditSet(s)
              \/ \E r \in Refs : EditDecisions(r)

-----------------------------------------------------------------------------
(* singleClusterDecision, GetClusterDecisions: a cluster that is given a     *)
(* replica is also among the decided clusters, so it is in the root policy's *)
(* status and is sent events when the root policy changes.                   *)
ReplicatedIsDecided ==
    \A c \in Clusters : SingleClusterDecision(c) # "none" => c \in DecidedClusters

(* The bindings that would place the policy, the restricted ones included.   *)
Placing(c) == {n \in Existing : IsSingleClusterInDecisions(binding[n], c)}
Placed(c)  == SingleClusterDecision(c) # "none"

(* computeRemainingBindings: where the policy is placed, every binding that  *)
(* is reported as remaining, restricted or not, places it there; where it is *)
(* not placed only restricted bindings are reported, which place it nowhere  *)
(* on their own (although the comment on RemainingBinding, in                *)
(* policy_types.go, promises "still places the policy" of them too).  A      *)
(* placed cluster that a reported PolicySet excludes has a remaining         *)
(* binding, unless each of the unrestricted ones that place it is itself     *)
(* among the excluding ones (it has a second subject).                       *)
RemainingExplains ==
    \A c \in Clusters : \A excluding \in {Excluding(order, c) : order \in Orders} :
       LET remaining == RemainingBindings(excluding, c)
       IN  /\ remaining \subseteq (IF Placed(c) THEN Placing(c) ELSE Restricted)
           /\ remaining = {} /\ excluding # {} =>
                (Placing(c) \cap Unrestricted) \subseteq excluding

(* GetClusterDecisions and computeRemainingBindings: a restricted binding    *)
(* counts for the restricted ones that the cache happens to list after it,   *)
(* and yet the remaining bindings of a cluster on which the policy is placed *)
(* do not depend on the order of the list; except if a restricted binding    *)
(* whose placement does not select the cluster names a PolicySet that        *)
(* excludes it.                                                              *)
RemainingStable ==
    \A c \in Clusters :
       /\ Placed(c)
       /\ \A r \in Restricted : (\E p \in PolicyPlacements(r) : c \in p.exclusions)
                                 => r \in DecisionSet(c)
       => LET excludings == {Excluding(order, c) : order \in Orders}
          IN  \A one, other \in excludings :
                 RemainingBindings(one, c) = RemainingBindings(other, c)

=============================================================================
