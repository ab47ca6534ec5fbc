--------------------------- MODULE PolicySet_proofs ---------------------------
(***************************************************************************)
(* The status of a PolicySet at rest, for any policies, bindings, clusters  *)
(* and lists, lists that name a policy twice included.  On the types        *)
(* (TypeInv) rests SetInv: what a reconcile has gathered stays right while  *)
(* the set is not queued (GatherSound), and after the reconcile the status  *)
(* is made of something that is right (DoneSound).                          *)
(***************************************************************************)
EXTENDS PolicySet, SequenceLemmas, TLAPS

-----------------------------------------------------------------------------
(* Types.  A reconcile that is under way has its copies, and a policy to     *)
(* visit before the last step.                                               *)
LocalsOK ==
    /\ pc # "idle" => loc \in [spec : SetSpec, status : SetStatus] /\ acc \in Gathered
    /\ pc = "child" => todo # <<>>
    /\ pc = "patch" => todo = <<>>

TypeInv == SetTypeOK /\ LocalsOK

(* What the operators of the model return.                                   *)
LEMMA NewTypes == NoStatus \in SetStatus /\ NewAcc \in Gathered /\ NoPolicyStatus \in PolicyStatus
<1>1. NoExclusions \in Exclusions
  BY DEF NoExclusions, Exclusions
<1> QED
  BY <1>1 DEF NoStatus, SetStatus, NewAcc, Gathered, NoPolicyStatus, PolicyStatus, Reported

LEMMA RootStatusType ==
    ASSUME SetTypeOK, NEW p \in Policies, policy[p] # NoObj PROVE RootStatus(p) \in PolicyStatus
<1> DEFINE forSet == IF InSet(p) THEN {n \in PolicyBindings(p) : binding[n].forSet} ELSE {}
           excluded == IF forSet = {} THEN {} ELSE pset.excl[p]
           clusters == [c \in Clusters |->
               IF ~policy[p].disabled /\ \E n \in PolicyBindings(p) : c \in dec[n]
               THEN comp[p][c] ELSE NoObj]
<1>1. forSet \subseteq Bindings
  BY DEF PolicyBindings
<1>2. excluded \subseteq Clusters
  <2>1. InSet(p) => pset.excl[p] \subseteq Clusters
    BY DEF InSet, SetTypeOK, SetSpec, Exclusions
  <2> QED
    BY <2>1
<1>3. clusters \in [Clusters -> States \cup {NoObj}]
  BY DEF SetTypeOK
<1>4. RootStatus(p) = [placements |-> forSet, excluded |-> excluded, clusters |-> clusters]
  BY DEF RootStatus
<1> HIDE DEF forSet, excluded, clusters
<1> QED
  BY <1>1, <1>2, <1>3, <1>4 DEF PolicyStatus

LEMMA BuiltType ==
    ASSUME loc \in [spec : SetSpec, status : SetStatus], acc \in Gathered
    PROVE  BuiltStatus \in SetStatus
<1>1. loc.spec.excl \in Exclusions
  BY DEF SetSpec
<1>2. [pending |-> acc.pending, disabled |-> acc.disabled, unknown |-> acc.unknown,
       deleted |-> acc.deleted, excluded |-> loc.spec.excl # NoExclusions] \in Message
  BY DEF Message, Gathered
<1>3. acc.placements \subseteq Bindings /\ acc.compliance \in Reported
  BY DEF Gathered
<1>4. (IF ShowCompliance THEN acc.compliance ELSE "") \in Reported \cup {""}
  BY <1>3
<1> QED
  BY <1>1, <1>2, <1>3, <1>4, NewTypes DEF BuiltStatus, SetStatus

LEMMA PatchedType ==
    ASSUME status \in SetStatus, loc \in [spec : SetSpec, status : SetStatus], acc \in Gathered
    PROVE  /\ Patched \in SetStatus
           /\ loc.status = status => Patched = BuiltStatus
<1>1. BuiltStatus \in SetStatus /\ loc.status \in SetStatus
  BY BuiltType
<1> HIDE DEF BuiltStatus
<1> QED
  BY <1>1 DEF Patched, SetStatus

LEMMA DecisionsType ==
    ASSUME SetTypeOK, acc \in Gathered, NEW bs \in SUBSET Bindings
    PROVE  Decisions(bs) \in
               [Bindings -> [clusters : SUBSET Clusters, forSet : BOOLEAN] \cup {NoObj}]
<1> SUFFICES ASSUME NEW n \in Bindings
             PROVE  (IF n \in bs /\ acc.decisions[n] = NoObj /\ binding[n] # NoObj
                     THEN [clusters |-> dec[n], forSet |-> binding[n].forSet]
                     ELSE acc.decisions[n])
                    \in [clusters : SUBSET Clusters, forSet : BOOLEAN] \cup {NoObj}
  BY DEF Decisions
<1>1. acc.decisions[n] \in [clusters : SUBSET Clusters, forSet : BOOLEAN] \cup {NoObj}
  BY DEF Gathered
<1>2. dec[n] \in SUBSET Clusters /\ (binding[n] # NoObj => binding[n].forSet \in BOOLEAN)
  BY DEF SetTypeOK, Binding
<1> QED
  BY <1>1, <1>2

LEMMA AggregateType ==
    ASSUME SetTypeOK, acc \in Gathered, NEW p \in Policies, NEW bs \in SUBSET Bindings
    PROVE  Aggregate(p, bs) \in Gathered
<1> DEFINE state == ComplianceInRelevantClusters(policy[p].status.clusters,
                                                 RelevantClusters(p, bs))
           next  == [acc EXCEPT !.placements = bs, !.decisions = Decisions(bs)]
<1>1. next \in Gathered
  BY DecisionsType DEF Gathered
<1>2. state \in {"", "Pending", "Compliant", "NonCompliant"}
  BY DEF ComplianceInRelevantClusters
<1>3. Aggregate(p, bs) =
        CASE state = "" -> [next EXCEPT !.unknown = @ \cup {p}]
          [] state = "Pending" ->
               [next EXCEPT !.pending = @ \cup {p},
                            !.compliance = IF @ = "NonCompliant" THEN @ ELSE "Pending"]
          [] OTHER ->
               [next EXCEPT !.found = @ \cup {p},
                            !.compliance = IF state = "NonCompliant" THEN state ELSE @]
  BY DEF Aggregate
<1> HIDE DEF state, next
<1>4. [next EXCEPT !.unknown = @ \cup {p}] \in Gathered
  BY <1>1 DEF Gathered
<1>5. [next EXCEPT !.pending = @ \cup {p},
                   !.compliance = IF @ = "NonCompliant" THEN @ ELSE "Pending"] \in Gathered
  BY <1>1 DEF Gathered, Reported
<1>6. [next EXCEPT !.found = @ \cup {p},
                   !.compliance = IF state = "NonCompliant" THEN state ELSE @] \in Gathered
  BY <1>1 DEF Gathered, Reported
<1> QED
  BY <1>2, <1>3, <1>4, <1>5, <1>6

LEMMA InitTypeInv == SetInit => TypeInv
<1> SUFFICES ASSUME SetInit PROVE TypeInv
  OBVIOUS
<1>1. NoExclusions \in Exclusions /\ \A p \in Policies : NoExclusions[p] = {}
  BY DEF NoExclusions, Exclusions
<1>2. pset \in SetSpec
  <2>1. PICK l \in Lists : pset = [list |-> l, excl |-> NoExclusions]
    BY DEF SetInit
  <2> QED
    BY <1>1, <2>1 DEF SetSpec
<1>3. comp \in [Policies -> [Clusters -> States]]
  <2>1. PICK s \in States : comp = [p \in Policies |-> [c \in Clusters |-> s]]
    BY DEF SetInit
  <2> QED
    BY <2>1
<1>4. policy \in [Policies -> Policy \cup {NoObj}]
  <2> SUFFICES ASSUME NEW p \in Policies
               PROVE  [disabled |-> FALSE,
                       status |-> IF InSet(p)
                                  THEN [placements |-> Bindings, excluded |-> {},
                                        clusters |-> comp[p]]
                                  ELSE NoPolicyStatus] \in Policy
    BY DEF SetInit
  <2>1. comp[p] \in [Clusters -> States \cup {NoObj}]
    BY <1>3
  <2>2. [placements |-> Bindings, excluded |-> {}, clusters |-> comp[p]] \in PolicyStatus
    BY <2>1 DEF PolicyStatus
  <2> QED
    BY <2>2, NewTypes DEF Policy
<1>5. binding \in [Bindings -> Binding \cup {NoObj}] /\ dec \in [Bindings -> SUBSET Clusters]
  BY DEF SetInit, Binding
<1>6. /\ {status, cached} \subseteq SetStatus /\ stream \in Seq(SetStatus)
      /\ decEvents \subseteq Bindings /\ queued \in BOOLEAN /\ pc = "idle"
      /\ todo \in Seq(Policies) /\ loc = NoObj /\ acc = NoObj
      /\ outdated \in BOOLEAN /\ unseen \subseteq Policies
      /\ events \in 0 .. MaxEvents
  <2>1. {status, cached} \subseteq SetStatus
    BY NewTypes DEF SetInit
  <2>2. stream \in Seq(SetStatus) /\ todo \in Seq(Policies) /\ loc = NoObj /\ acc = NoObj
    BY DEF SetInit
  <2>3. decEvents \subseteq Bindings /\ unseen \subseteq Policies /\ pc = "idle"
        /\ events \in 0 .. MaxEvents
    BY SetBounds DEF SetInit
  <2>4. queued \in BOOLEAN /\ outdated \in BOOLEAN
    BY DEF SetInit
  <2> QED
    BY <2>1, <2>2, <2>3, <2>4
<1> QED
  BY <1>2, <1>3, <1>4, <1>5, <1>6 DEF TypeInv, SetTypeOK, LocalsOK

(* Steps of the reconcile.                                                   *)
LEMMA ReconcileTypeInv == ASSUME TypeInv, Reconcile PROVE TypeInv'
<1> USE DEF setInputs, statusVars, reconciler
<1>0. SetTypeOK /\ LocalsOK
  BY DEF TypeInv
<1>1. CASE Start
  <2>1. /\ pc = "idle" /\ queued' = FALSE
        /\ UNCHANGED <<setInputs, statusVars, decEvents, outdated, unseen, events>>
    BY <1>1 DEF Start
  <2>2. CASE pset = NoObj
    <3>1. UNCHANGED <<pc, todo, loc, acc>>
      BY <1>1, <2>2 DEF Start
    <3> QED
      BY <1>0, <2>1, <3>1 DEF TypeInv, SetTypeOK, LocalsOK
  <2>3. CASE pset # NoObj
    <3>1. /\ loc' = [spec |-> pset, status |-> cached] /\ acc' = NewAcc /\ todo' = pset.list
          /\ pc' = IF pset.list = <<>> THEN "patch" ELSE "child"
      BY <1>1, <2>3 DEF Start
    <3>2. pset \in SetSpec /\ cached \in SetStatus
      BY <1>0, <2>3 DEF SetTypeOK
    <3>3. pset.list \in Seq(Policies)
      BY <3>2, ListsAssumption DEF SetSpec
    <3>4. loc' \in [spec : SetSpec, status : SetStatus] /\ acc' \in Gathered
      BY <3>1, <3>2, NewTypes
    <3> QED
      BY <1>0, <2>1, <3>1, <3>3, <3>4 DEF TypeInv, SetTypeOK, LocalsOK
  <2> QED
    BY <2>2, <2>3
<1>2. CASE ProcessChild
  <2> DEFINE p == Head(todo)
             bs == acc.placements \cup policy[p].status.placements
  <2>1. /\ pc = "child" /\ todo' = Tail(todo) /\ unseen' \subseteq unseen
        /\ pc' = IF todo' = <<>> THEN "patch" ELSE "child"
        /\ UNCHANGED <<setInputs, statusVars, decEvents, queued, loc, outdated, events>>
    BY <1>2 DEF ProcessChild
  <2>2. p \in Policies /\ todo' \in Seq(Policies) /\ acc \in Gathered
        /\ loc \in [spec : SetSpec, status : SetStatus]
    BY <1>0, <2>1, ToSetTail DEF SetTypeOK, LocalsOK
  <2>3. policy[p] # NoObj => bs \in SUBSET Bindings
    BY <1>0, <2>2 DEF SetTypeOK, Policy, PolicyStatus, Gathered
  <2>4. acc' = CASE policy[p] = NoObj -> [acc EXCEPT !.deleted = @ \cup {p}]
                 [] policy[p] # NoObj /\ policy[p].disabled ->
                      [acc EXCEPT !.placements = bs, !.disabled = @ \cup {p}]
                 [] OTHER -> Aggregate(p, bs)
    BY <1>2 DEF ProcessChild
  <2> HIDE DEF p, bs
  <2>5. acc' \in Gathered
    <3>1. CASE policy[p] = NoObj
      BY <2>2, <2>4, <3>1 DEF Gathered
    <3>2. CASE policy[p] # NoObj /\ policy[p].disabled
      BY <2>2, <2>3, <2>4, <3>2 DEF Gathered
    <3>3. CASE policy[p] # NoObj /\ ~policy[p].disabled
      BY <1>0, <2>2, <2>3, <2>4, <3>3, AggregateType
    <3> QED
      BY <3>1, <3>2, <3>3
  <2> QED
    BY <1>0, <2>1, <2>2, <2>5 DEF TypeInv, SetTypeOK, LocalsOK
<1>3. CASE Patch
  <2>1. /\ pc = "patch" /\ pc' = "idle" /\ todo' = <<>> /\ loc' = NoObj /\ acc' = NoObj
        /\ outdated' = (loc.status # status)
        /\ UNCHANGED <<setInputs, decEvents, unseen>>
    BY <1>3 DEF Patch, Return
  <2>2. /\ queued' \in BOOLEAN /\ events' \in 0 .. MaxEvents
        /\ ApplyPatch \/ UNCHANGED statusVars
    <3>1. queued' \in BOOLEAN
      BY <1>0, <1>3 DEF Patch, PatchRetry, SetTypeOK
    <3>2. events' \in 0 .. MaxEvents
      BY <1>0, <1>3, SetBounds DEF Patch, Event, SetTypeOK
    <3> QED
      BY <1>3, <3>1, <3>2 DEF Patch
  <2>3. Patched \in SetStatus
    BY <1>0, <2>1, PatchedType DEF SetTypeOK, LocalsOK
  <2>4. {status', cached'} \subseteq SetStatus /\ stream' \in Seq(SetStatus)
    <3>1. CASE ApplyPatch
      <4>1. /\ status' = Patched /\ cached' = cached
            /\ stream' = IF Patched = status THEN stream ELSE Append(stream, Patched)
        BY <3>1 DEF ApplyPatch
      <4> HIDE DEF Patched
      <4> QED
        BY <1>0, <2>3, <4>1 DEF SetTypeOK
    <3>2. CASE UNCHANGED statusVars
      BY <1>0, <3>2 DEF SetTypeOK
    <3> QED
      BY <2>2, <3>1, <3>2
  <2> QED
    BY <1>0, <2>1, <2>2, <2>4 DEF TypeInv, SetTypeOK, LocalsOK
<1> QED
  BY <1>1, <1>2, <1>3 DEF Reconcile

LEMMA PolicyChangesType ==
    ASSUME SetTypeOK, NEW p \in Policies, NEW new \in Policy \cup {NoObj}, PolicyChanges(p, new)
    PROVE  /\ policy' \in [Policies -> Policy \cup {NoObj}]
           /\ queued' \in BOOLEAN /\ unseen' \subseteq Policies
<1>1. policy' = [policy EXCEPT ![p] = new] /\ unseen' \subseteq unseen \cup {p}
  BY DEF PolicyChanges
<1>2. queued' \in BOOLEAN
  BY DEF PolicyChanges
<1> QED
  BY <1>1, <1>2 DEF SetTypeOK

LEMMA NextTypeInv == TypeInv /\ [SetNext]_setVars => TypeInv'
<1> SUFFICES ASSUME TypeInv, [SetNext]_setVars PROVE TypeInv'
  OBVIOUS
<1> USE DEF setInputs, statusVars, reconciler
<1>0. SetTypeOK /\ LocalsOK
  BY DEF TypeInv
<1>e. Event => events' \in 0 .. MaxEvents
  BY <1>0, SetBounds DEF Event, SetTypeOK
<1>1. CASE Reconcile
  BY <1>1, ReconcileTypeInv
<1>2. CASE SeeStatus
  <2>1. Head(stream) \in SetStatus /\ Tail(stream) \in Seq(SetStatus)
    BY <1>0, <1>2, ToSetTail DEF SeeStatus, SetTypeOK
  <2> QED
    BY <1>0, <1>2, <2>1 DEF SeeStatus, TypeInv, SetTypeOK, LocalsOK
<1>3. ASSUME NEW n \in Bindings, PlacementDecisionMapper(n) PROVE TypeInv'
  <2>1. queued' \in BOOLEAN
    BY <1>3 DEF PlacementDecisionMapper
  <2> QED
    BY <1>0, <1>3, <2>1 DEF PlacementDecisionMapper, TypeInv, SetTypeOK, LocalsOK
<1>4. ASSUME NEW p \in Policies, RootStatusUpdate(p) PROVE TypeInv'
  <2>1. [policy[p] EXCEPT !.status = RootStatus(p)] \in Policy
    <3>1. policy[p] \in Policy /\ RootStatus(p) \in PolicyStatus
      BY <1>0, <1>4, RootStatusType DEF RootStatusUpdate, SetTypeOK
    <3> HIDE DEF RootStatus
    <3> QED
      BY <3>1 DEF Policy
  <2>2. /\ policy' \in [Policies -> Policy \cup {NoObj}]
        /\ queued' \in BOOLEAN /\ unseen' \subseteq Policies
    BY <1>0, <1>4, <2>1, PolicyChangesType DEF RootStatusUpdate
  <2> QED
    BY <1>0, <1>4, <2>2 DEF RootStatusUpdate, TypeInv, SetTypeOK, LocalsOK
<1>5. CASE EditSet
  <2>1. {status', cached'} \subseteq SetStatus /\ stream' \in Seq(SetStatus)
    <3>1. CASE NoObj \in {pset, pset'}
      BY <1>5, <3>1, NewTypes DEF EditSet
    <3>2. CASE NoObj \notin {pset, pset'}
      BY <1>0, <1>5, <3>2 DEF EditSet, SetTypeOK
    <3> QED
      BY <3>1, <3>2
  <2>2. /\ pset' \in SetSpec \cup {NoObj} /\ queued' = TRUE /\ events' \in 0 .. MaxEvents
        /\ UNCHANGED <<reconciler, policy, comp, binding, dec, decEvents, unseen>>
    BY <1>e, <1>5 DEF EditSet, Edit
  <2> QED
    BY <1>0, <2>1, <2>2 DEF TypeInv, SetTypeOK, LocalsOK
<1>6. ASSUME NEW p \in Policies, EditPolicy(p) PROVE TypeInv'
  <2>1. PICK new : PolicyChanges(p, new)
                   /\ new \in IF policy[p] = NoObj
                              THEN {[disabled |-> d, status |-> NoPolicyStatus] : d \in BOOLEAN}
                              ELSE {NoObj, [policy[p] EXCEPT !.disabled = ~@]}
    BY <1>6 DEF EditPolicy
  <2>2. new \in Policy \cup {NoObj}
    <3>1. CASE policy[p] = NoObj
      BY <2>1, <3>1, NewTypes DEF Policy
    <3>2. CASE policy[p] # NoObj
      <4>1. policy[p] \in Policy
        BY <1>0, <3>2 DEF SetTypeOK
      <4> QED
        BY <2>1, <3>2, <4>1 DEF Policy
    <3> QED
      BY <3>1, <3>2
  <2>3. /\ policy' \in [Policies -> Policy \cup {NoObj}]
        /\ queued' \in BOOLEAN /\ unseen' \subseteq Policies
    BY <1>0, <2>1, <2>2, PolicyChangesType
  <2>4. /\ events' \in 0 .. MaxEvents
        /\ UNCHANGED <<reconciler, pset, statusVars, comp, binding, dec, decEvents>>
    BY <1>e, <1>6 DEF EditPolicy, Edit
  <2> QED
    BY <1>0, <2>3, <2>4 DEF TypeInv, SetTypeOK, LocalsOK
<1>7. ASSUME NEW n \in Bindings, EditBinding(n) PROVE TypeInv'
  <2>1. PICK b \in Binding \cup {NoObj} :
          /\ binding' = [binding EXCEPT ![n] = b]
          /\ queued' = (queued \/ \E o \in {b, binding[n]} \ {NoObj} : o.forSet)
    BY <1>7 DEF EditBinding
  <2>2. binding' \in [Bindings -> Binding \cup {NoObj}] /\ queued' \in BOOLEAN
    BY <1>0, <2>1 DEF SetTypeOK
  <2>3. /\ events' \in 0 .. MaxEvents
        /\ UNCHANGED <<reconciler, pset, statusVars, policy, comp, dec, decEvents, unseen>>
    BY <1>e, <1>7 DEF EditBinding, Edit
  <2> QED
    BY <1>0, <2>2, <2>3 DEF TypeInv, SetTypeOK, LocalsOK
<1>8. ASSUME NEW n \in Bindings, EditDecisions(n) PROVE TypeInv'
  <2>1. dec' \in [Bindings -> SUBSET Clusters] /\ decEvents' \subseteq Bindings
    BY <1>0, <1>8 DEF EditDecisions, SetTypeOK
  <2>2. /\ events' \in 0 .. MaxEvents
        /\ UNCHANGED <<reconciler, pset, statusVars, policy, comp, binding, queued, unseen>>
    BY <1>e, <1>8 DEF EditDecisions, Edit
  <2> QED
    BY <1>0, <2>1, <2>2 DEF TypeInv, SetTypeOK, LocalsOK
<1>9. ASSUME NEW p \in Policies, NEW c \in Clusters, ReportCompliance(p, c) PROVE TypeInv'
  <2>1. comp' \in [Policies -> [Clusters -> States]]
    <3>1. PICK s \in States : comp' = [comp EXCEPT ![p][c] = s]
      BY <1>9 DEF ReportCompliance
    <3> QED
      BY <1>0, <3>1 DEF SetTypeOK
  <2>2. /\ events' \in 0 .. MaxEvents
        /\ UNCHANGED <<reconciler, pset, statusVars, policy, binding, dec, decEvents, queued,
                       unseen>>
    BY <1>e, <1>9 DEF ReportCompliance, Edit
  <2> QED
    BY <1>0, <2>1, <2>2 DEF TypeInv, SetTypeOK, LocalsOK
<1>10. CASE UNCHANGED setVars
  BY <1>0, <1>10 DEF setVars, TypeInv, SetTypeOK, LocalsOK
<1> QED
  BY <1>1, <1>2, <1>3, <1>4, <1>5, <1>6, <1>7, <1>8, <1>9, <1>10 DEF SetNext, Notify, WriteStatus

LEMMA SetTypeInv == PolicySetSpec => []TypeInv
BY InitTypeInv, NextTypeInv, PTL DEF PolicySetSpec

(* Every variable keeps its type; a status is only ever built from a complete *)
(* record of what a reconcile gathered, and a merge patch of one status into   *)
(* another is a status.                                                        *)
THEOREM SetTypeCorrect == PolicySetSpec => []SetTypeOK
<1>1. TypeInv => SetTypeOK
  BY DEF TypeInv
<1> QED
  BY <1>1, SetTypeInv, PTL

-----------------------------------------------------------------------------
(* What a reconcile has gathered is right.  It is stated for a record g of     *)
(* what was gathered, as after the reconcile only the status is left of it:    *)
(* DoneSound says that there is a sound g the status was built from.  All of it *)
(* holds as long as the set is not queued; a policy that changed without an    *)
(* event since it was visited is unseen.                                       *)

(* The bindings gathered name the set, and their decisions have been mapped.   *)
Steady(g) ==
    \A n \in g.placements : binding[n] # NoObj /\ binding[n].forSet /\ n \notin decEvents

(* The policy was found in this state on the clusters of some of the bindings   *)
(* gathered, its own among them.                                              *)
Fits(p, B, excl, state) ==
    ComplianceInRelevantClusters(policy[p].status.clusters,
                                 (UNION {dec[n] : n \in B}) \ excl[p]) = state

Saw(g, p, excl, state) ==
    /\ policy[p] # NoObj /\ ~policy[p].disabled
    /\ Steady(g) => \E B \in SUBSET g.placements :
                       policy[p].status.placements \subseteq B /\ Fits(p, B, excl, state)

(* Bindings come from policies that still name them, and decisions of bindings  *)
(* that name the set are as they were looked up.                               *)
BindingsSound(g) ==
    /\ \A n \in g.placements :
          \E q \in Policies : policy[q] # NoObj /\ n \in policy[q].status.placements
    /\ \A n \in Bindings :
          g.decisions[n] # NoObj /\ binding[n] # NoObj /\ binding[n].forSet /\ n \notin decEvents
          => g.decisions[n] = [clusters |-> dec[n], forSet |-> TRUE]

PolicySound(g, excl, p) ==
    /\ p \in g.deleted => policy[p] = NoObj
    /\ p \in g.disabled => policy[p] # NoObj /\ policy[p].disabled
    /\ p \in g.unknown => Saw(g, p, excl, "")
    /\ p \in g.pending => Saw(g, p, excl, "Pending")
    /\ p \in g.found => \/ Saw(g, p, excl, "Compliant")
                        \/ Saw(g, p, excl, "NonCompliant") /\ g.compliance = "NonCompliant"

ComplianceSound(g, excl) ==
    /\ g.compliance = "NonCompliant" =>
          \E p \in g.found : p \in unseen \/ Saw(g, p, excl, "NonCompliant")
    /\ g.pending # {} => g.compliance # "Compliant"
    /\ g.compliance = "Pending" => g.pending # {}

Sound(g, excl) ==
    /\ BindingsSound(g)
    /\ \A p \in Visited(g) \ unseen : PolicySound(g, excl, p)
    /\ ComplianceSound(g, excl)

Built(spec, g) ==
    IF spec.list = <<>> THEN NoStatus
    ELSE [placement |-> g.placements,
          compliant |-> IF g.unknown = {} /\ g.found \cup g.pending # {}
                        THEN g.compliance ELSE "",
          message |-> [pending |-> g.pending, disabled |-> g.disabled,
                       unknown |-> g.unknown, deleted |-> g.deleted,
                       excluded |-> spec.excl # NoExclusions],
          exclusions |-> spec.excl]

GatherSound ==
    pc # "idle" /\ ~queued =>
        /\ pset # NoObj /\ loc.spec = pset /\ Sound(acc, pset.excl)
        /\ ToSet(pset.list) = Visited(acc) \cup ToSet(todo)

DoneSound ==
    pc = "idle" /\ ~queued /\ pset # NoObj /\ ~outdated =>
        \E g \in Gathered : /\ status = Built(pset, g) /\ Sound(g, pset.excl)
                            /\ ToSet(pset.list) = Visited(g)

SetInv == GatherSound /\ DoneSound

LEMMA InitSetInv == SetInit => SetInv
BY DEF SetInit, SetInv, GatherSound, DoneSound

(* Steps of others that do not queue the set.  A policy that changes becomes    *)
(* unseen and names the bindings it named; no binding comes to name the set.    *)
LEMMA SoundKept ==
    ASSUME NEW g \in Gathered, NEW excl, Sound(g, excl), unseen \subseteq unseen',
           \A q \in Policies :
               \/ policy'[q] = policy[q]
               \/ /\ q \in unseen'
                  /\ policy[q] # NoObj /\ policy[q].status.placements # {} =>
                        /\ policy'[q] # NoObj
                        /\ policy'[q].status.placements = policy[q].status.placements,
           \A n \in Bindings :
               binding'[n] # NoObj /\ binding'[n].forSet /\ n \notin decEvents' =>
                   /\ binding[n] # NoObj /\ binding[n].forSet /\ n \notin decEvents
                   /\ dec'[n] = dec[n]
    PROVE  Sound(g, excl)'
<1>0. g.placements \subseteq Bindings /\ Visited(g) \subseteq Policies /\ g.found \subseteq Visited(g)
  BY DEF Gathered, Visited
<1>1. Steady(g)' => Steady(g) /\ \A n \in g.placements : dec'[n] = dec[n]
  BY <1>0 DEF Steady
<1>2. ASSUME NEW p, policy'[p] = policy[p], NEW st, Saw(g, p, excl, st)
      PROVE  Saw(g, p, excl, st)'
  <2> SUFFICES ASSUME Steady(g)'
               PROVE  \E B \in SUBSET g.placements :
                         policy'[p].status.placements \subseteq B /\ Fits(p, B, excl, st)'
    BY <1>2 DEF Saw
  <2>1. PICK B \in SUBSET g.placements :
           policy[p].status.placements \subseteq B /\ Fits(p, B, excl, st)
    BY <1>1, <1>2 DEF Saw
  <2>2. UNION {dec'[n] : n \in B} = UNION {dec[n] : n \in B}
    BY <1>1
  <2>3. Fits(p, B, excl, st)'
    BY <1>2, <2>1, <2>2 DEF Fits
  <2> QED
    BY <1>2, <2>1, <2>3
<1>3. BindingsSound(g)'
  <2>1. ASSUME NEW n \in g.placements
        PROVE  \E q \in Policies : policy'[q] # NoObj /\ n \in policy'[q].status.placements
    <3>1. PICK q \in Policies : policy[q] # NoObj /\ n \in policy[q].status.placements
      BY DEF Sound, BindingsSound
    <3>2. policy[q].status.placements # {}
      BY <3>1
    <3> QED
      BY <3>1, <3>2
  <2>2. ASSUME NEW n \in Bindings, g.decisions[n] # NoObj, binding'[n] # NoObj,
               binding'[n].forSet, n \notin decEvents'
        PROVE  g.decisions[n] = [clusters |-> dec'[n], forSet |-> TRUE]
    BY <2>2 DEF Sound, BindingsSound
  <2> QED
    BY <2>1, <2>2 DEF BindingsSound
<1>4. ASSUME NEW p \in Visited(g) \ unseen' PROVE PolicySound(g, excl, p)'
  <2>1. policy'[p] = policy[p] /\ PolicySound(g, excl, p)
    BY <1>0, <1>4 DEF Sound
  <2>2. \A st : Saw(g, p, excl, st) => Saw(g, p, excl, st)'
    BY <1>2, <2>1
  <2>3. /\ p \in g.deleted => policy'[p] = NoObj
        /\ p \in g.disabled => policy'[p] # NoObj /\ policy'[p].disabled
    BY <2>1 DEF PolicySound
  <2>4. /\ p \in g.unknown => Saw(g, p, excl, "")'
        /\ p \in g.pending => Saw(g, p, excl, "Pending")'
    BY <2>1, <2>2, Zenon DEF PolicySound
  <2>5. p \in g.found => \/ Saw(g, p, excl, "Compliant")'
                         \/ Saw(g, p, excl, "NonCompliant")' /\ g.compliance = "NonCompliant"
    BY <2>1, <2>2, Zenon DEF PolicySound
  <2> QED
    BY <2>3, <2>4, <2>5, Zenon DEF PolicySound
<1>5. ComplianceSound(g, excl)'
  <2>1. ASSUME g.compliance = "NonCompliant"
        PROVE  \E p \in g.found : p \in unseen' \/ Saw(g, p, excl, "NonCompliant")'
    <3>1. PICK p \in g.found : p \in unseen \/ Saw(g, p, excl, "NonCompliant")
      BY <2>1 DEF Sound, ComplianceSound
    <3>2. p \in unseen' \/ policy'[p] = policy[p]
      BY <1>0
    <3> QED
      BY <1>2, <3>1, <3>2
  <2> QED
    BY <2>1 DEF Sound, ComplianceSound
<1> QED
  BY <1>3, <1>4, <1>5 DEF Sound, Visited

LEMMA PolicyChangesKept ==
    ASSUME SetTypeOK, NEW p \in Policies, NEW new, PolicyChanges(p, new), ~queued',
           UNCHANGED <<binding, dec, decEvents>>, NEW g \in Gathered, NEW excl, Sound(g, excl)
    PROVE  Sound(g, excl)'
<1>1. /\ policy' = [policy EXCEPT ![p] = new]
      /\ ~(PolicyPasses(policy[p], new) /\ PolicyMapper(policy[p], new))
      /\ unseen' = unseen \cup {p}
  BY DEF PolicyChanges
<1>2. ASSUME policy[p] # NoObj, policy[p].status.placements # {}
      PROVE  new # NoObj /\ new.status.placements = policy[p].status.placements
  <2>1. PolicyMapper(policy[p], new)
    BY <1>2 DEF PolicyMapper
  <2> QED
    BY <1>1, <1>2, <2>1 DEF PolicyPasses
<1>3. \A q \in Policies :
          \/ policy'[q] = policy[q]
          \/ /\ q \in unseen'
             /\ policy[q] # NoObj /\ policy[q].status.placements # {} =>
                   /\ policy'[q] # NoObj
                   /\ policy'[q].status.placements = policy[q].status.placements
  BY <1>1, <1>2 DEF SetTypeOK
<1> QED
  BY <1>1, <1>3, SoundKept

(* Every step that is not one of the reconcile.                                *)
Foreign ==
    \/ Notify \/ WriteStatus \/ EditSet \/ \E p \in Policies : EditPolicy(p)
    \/ \E n \in Bindings : EditBinding(n) \/ EditDecisions(n)
    \/ \E p \in Policies, c \in Clusters : ReportCompliance(p, c)
    \/ UNCHANGED setVars

LEMMA ForeignKept ==
    ASSUME TypeInv, Foreign, ~queued', NEW g \in Gathered, NEW excl, Sound(g, excl)
    PROVE  Sound(g, excl)' /\ ~queued /\ UNCHANGED <<pset, status, reconciler>>
<1> USE DEF setInputs, statusVars, reconciler
<1>0. SetTypeOK
  BY DEF TypeInv
<1>1. CASE SeeStatus \/ UNCHANGED setVars
  <2>1. UNCHANGED <<policy, binding, dec, decEvents, unseen, queued, pset, status, reconciler>>
    BY <1>1 DEF SeeStatus, setVars
  <2> QED
    BY <2>1, SoundKept
<1>2. ASSUME NEW n \in Bindings, PlacementDecisionMapper(n)
      PROVE  Sound(g, excl)' /\ ~queued /\ UNCHANGED <<pset, status, reconciler>>
  <2>1. /\ decEvents' = decEvents \ {n} /\ ~queued
        /\ ~(binding[n] # NoObj /\ binding[n].forSet)
        /\ UNCHANGED <<policy, binding, dec, unseen, pset, status, reconciler>>
    BY <1>2 DEF PlacementDecisionMapper
  <2> QED
    BY <2>1, SoundKept
<1>3. ASSUME NEW p \in Policies, RootStatusUpdate(p)
      PROVE  Sound(g, excl)' /\ ~queued /\ UNCHANGED <<pset, status, reconciler>>
  <2>1. PICK new : PolicyChanges(p, new)
    BY <1>3 DEF RootStatusUpdate
  <2>2. UNCHANGED <<binding, dec, decEvents, pset, status, reconciler>>
    BY <1>3 DEF RootStatusUpdate
  <2> QED
    BY <1>0, <2>1, <2>2, PolicyChangesKept DEF PolicyChanges
<1>4. CASE EditSet
  BY <1>4 DEF EditSet
<1>5. ASSUME NEW p \in Policies, EditPolicy(p)
      PROVE  Sound(g, excl)' /\ ~queued /\ UNCHANGED <<pset, status, reconciler>>
  <2>1. PICK new : PolicyChanges(p, new)
    BY <1>5 DEF EditPolicy
  <2>2. UNCHANGED <<binding, dec, decEvents, pset, status, reconciler>>
    BY <1>5 DEF EditPolicy, Edit
  <2> QED
    BY <1>0, <2>1, <2>2, PolicyChangesKept DEF PolicyChanges
<1>6. ASSUME NEW n \in Bindings, EditBinding(n)
      PROVE  Sound(g, excl)' /\ ~queued /\ UNCHANGED <<pset, status, reconciler>>
  <2>1. PICK b : /\ binding' = [binding EXCEPT ![n] = b]
                 /\ queued' = (queued \/ \E o \in {b, binding[n]} \ {NoObj} : o.forSet)
    BY <1>6 DEF EditBinding
  <2>2. ~queued /\ ~(b # NoObj /\ b.forSet)
    BY <2>1
  <2>3. UNCHANGED <<policy, dec, decEvents, unseen, pset, status, reconciler>>
    BY <1>6 DEF EditBinding, Edit
  <2>4. \A m \in Bindings : binding'[m] # NoObj /\ binding'[m].forSet => binding'[m] = binding[m]
    BY <1>0, <2>1, <2>2 DEF SetTypeOK
  <2> QED
    BY <2>2, <2>3, <2>4, SoundKept
<1>7. ASSUME NEW n \in Bindings, EditDecisions(n)
      PROVE  Sound(g, excl)' /\ ~queued /\ UNCHANGED <<pset, status, reconciler>>
  <2>1. /\ \A m \in Bindings : m # n => dec'[m] = dec[m]
        /\ decEvents' = decEvents \cup {n}
        /\ UNCHANGED <<policy, binding, queued, unseen, pset, status, reconciler>>
    BY <1>0, <1>7 DEF EditDecisions, Edit, SetTypeOK
  <2> QED
    BY <2>1, SoundKept
<1>8. ASSUME NEW p \in Policies, NEW c \in Clusters, ReportCompliance(p, c)
      PROVE  Sound(g, excl)' /\ ~queued /\ UNCHANGED <<pset, status, reconciler>>
  <2>1. UNCHANGED <<policy, binding, dec, decEvents, unseen, queued, pset, status, reconciler>>
    BY <1>8 DEF ReportCompliance, Edit
  <2> QED
    BY <2>1, SoundKept
<1> QED
  BY <1>1, <1>2, <1>3, <1>4, <1>5, <1>6, <1>7, <1>8 DEF Foreign, Notify, WriteStatus

-----------------------------------------------------------------------------
(* One policy of the list.  What is gathered of p is added to what was         *)
(* gathered before, and what was gathered before is kept.                      *)
Adds(g, h, p, excl) ==
    /\ g.placements \subseteq h.placements /\ BindingsSound(h)
    /\ g.deleted \subseteq h.deleted   /\ h.deleted \subseteq g.deleted \cup {p}
    /\ g.disabled \subseteq h.disabled /\ h.disabled \subseteq g.disabled \cup {p}
    /\ g.unknown \subseteq h.unknown   /\ h.unknown \subseteq g.unknown \cup {p}
    /\ g.pending \subseteq h.pending   /\ h.pending \subseteq g.pending \cup {p}
    /\ g.found \subseteq h.found       /\ h.found \subseteq g.found \cup {p}
    /\ p \in Visited(h)
    /\ p \in h.deleted => p \in g.deleted \/ policy[p] = NoObj
    /\ p \in h.disabled => p \in g.disabled \/ (policy[p] # NoObj /\ policy[p].disabled)
    /\ p \in h.unknown => p \in g.unknown \/ Saw(h, p, excl, "")
    /\ p \in h.pending => p \in g.pending \/ Saw(h, p, excl, "Pending")
    /\ p \in h.found =>
          \/ p \in g.found \/ Saw(h, p, excl, "Compliant")
          \/ Saw(h, p, excl, "NonCompliant") /\ h.compliance = "NonCompliant"
    /\ g.compliance = "NonCompliant" => h.compliance = "NonCompliant"
    /\ h.compliance = "NonCompliant" =>
          g.compliance = "NonCompliant" \/ (p \in h.found /\ Saw(h, p, excl, "NonCompliant"))
    /\ h.compliance = "Compliant" => g.compliance = "Compliant" /\ h.pending = g.pending
    /\ h.compliance = "Pending" => g.compliance = "Pending" \/ p \in h.pending

LEMMA SawGrows ==
    ASSUME NEW g, NEW h, g.placements \subseteq h.placements, NEW p, NEW excl, NEW st,
           Saw(g, p, excl, st)
    PROVE  Saw(h, p, excl, st)
BY DEF Saw, Steady

LEMMA SoundGrows ==
    ASSUME NEW g \in Gathered, NEW h \in Gathered, NEW p \in Policies, NEW excl,
           Sound(g, excl), Adds(g, h, p, excl), unseen' = unseen \ ({p} \ Visited(g)),
           UNCHANGED <<policy, binding, dec, decEvents>>
    PROVE  Sound(h, excl)' /\ Visited(h) = Visited(g) \cup {p}
<1>0. Visited(h) = Visited(g) \cup {p} /\ g.found \subseteq Visited(g)
  BY DEF Adds, Visited
<1>1. \A q, st : Saw(g, q, excl, st) => Saw(h, q, excl, st)
  BY SawGrows DEF Adds
<1>2. ASSUME NEW q \in Visited(h) \ unseen' PROVE PolicySound(h, excl, q)
  <2>1. q \in Visited(g) => PolicySound(g, excl, q)
    BY <1>2 DEF Sound
  <2>2. q \in Visited(g) \/ q = p
    BY <1>0
  <2>3. /\ q \in g.deleted \/ q \in g.disabled \/ q \in g.unknown \/ q \in g.pending \/ q \in g.found
             => q \in Visited(g)
    BY DEF Visited
  <2>4. q \in h.deleted => policy[q] = NoObj
    <3>1. q \in h.deleted => q \in g.deleted \/ (q = p /\ policy[p] = NoObj)
      BY DEF Adds
    <3> QED
      BY <2>1, <2>3, <3>1 DEF PolicySound
  <2>5. q \in h.disabled => policy[q] # NoObj /\ policy[q].disabled
    <3>1. q \in h.disabled =>
             q \in g.disabled \/ (q = p /\ policy[p] # NoObj /\ policy[p].disabled)
      BY DEF Adds
    <3> QED
      BY <2>1, <2>3, <3>1 DEF PolicySound
  <2>6. q \in h.unknown => Saw(h, q, excl, "")
    <3>1. q \in h.unknown => q \in g.unknown \/ (q = p /\ Saw(h, p, excl, ""))
      BY DEF Adds
    <3>2. q \in g.unknown => Saw(g, q, excl, "")
      BY <2>1, <2>3 DEF PolicySound
    <3> QED
      BY <1>1, <3>1, <3>2
  <2>7. q \in h.pending => Saw(h, q, excl, "Pending")
    <3>1. q \in h.pending => q \in g.pending \/ (q = p /\ Saw(h, p, excl, "Pending"))
      BY DEF Adds
    <3>2. q \in g.pending => Saw(g, q, excl, "Pending")
      BY <2>1, <2>3 DEF PolicySound
    <3> QED
      BY <1>1, <3>1, <3>2
  <2>8. q \in h.found => \/ Saw(h, q, excl, "Compliant")
                         \/ Saw(h, q, excl, "NonCompliant") /\ h.compliance = "NonCompliant"
    <3>1. q \in h.found =>
             \/ q \in g.found
             \/ Saw(h, q, excl, "Compliant")
             \/ Saw(h, q, excl, "NonCompliant") /\ h.compliance = "NonCompliant"
      BY DEF Adds
    <3>2. q \in g.found => \/ Saw(g, q, excl, "Compliant")
                           \/ Saw(g, q, excl, "NonCompliant") /\ g.compliance = "NonCompliant"
      BY <2>1, <2>3 DEF PolicySound
    <3>3. g.compliance = "NonCompliant" => h.compliance = "NonCompliant"
      BY DEF Adds
    <3> QED
      BY <1>1, <3>1, <3>2, <3>3
  <2> QED
    BY <2>4, <2>5, <2>6, <2>7, <2>8 DEF PolicySound
<1>3. ASSUME h.compliance = "NonCompliant"
      PROVE  \E q \in h.found : q \in unseen' \/ Saw(h, q, excl, "NonCompliant")
  <2>1. CASE g.compliance = "NonCompliant"
    <3>1. PICK q \in g.found : q \in unseen \/ Saw(g, q, excl, "NonCompliant")
      BY <2>1 DEF Sound, ComplianceSound
    <3>2. q \in h.found /\ (q \in unseen => q \in unseen')
      BY <1>0 DEF Adds
    <3> QED
      BY <1>1, <3>1, <3>2
  <2>2. CASE g.compliance # "NonCompliant"
    BY <1>3, <2>2 DEF Adds
  <2> QED
    BY <2>1, <2>2
<1>4. /\ h.pending # {} => h.compliance # "Compliant"
      /\ h.compliance = "Pending" => h.pending # {}
  BY DEF Adds, Sound, ComplianceSound
<1>5. \A q, st : Saw(h, q, excl, st)' <=> Saw(h, q, excl, st)
  BY DEF Saw, Steady, Fits, ComplianceInRelevantClusters
<1>6. BindingsSound(h)'
  BY DEF Adds, BindingsSound
<1>7. ASSUME NEW q \in Visited(h) \ unseen' PROVE PolicySound(h, excl, q)'
  BY <1>2, <1>5 DEF PolicySound
<1>8. ComplianceSound(h, excl)'
  BY <1>3, <1>4, <1>5 DEF ComplianceSound
<1>9. Sound(h, excl)'
  BY <1>6, <1>7, <1>8 DEF Sound, Visited
<1> QED
  BY <1>0, <1>9

(* An enabled policy: the clusters looked at are those of the bindings, without *)
(* the ones excluded, when each of them names the set.                         *)
LEMMA AggregateAdds ==
    ASSUME SetTypeOK, acc \in Gathered, NEW excl, loc.spec.excl = excl, BindingsSound(acc),
           NEW p \in Policies, policy[p] # NoObj, ~policy[p].disabled,
           NEW bs \in SUBSET Bindings, bs = acc.placements \cup policy[p].status.placements,
           NEW h \in Gathered, h = Aggregate(p, bs)
    PROVE  Adds(acc, h, p, excl)
<1>1. PICK D : D = Decisions(bs)
  OBVIOUS
<1>2. PICK st : st = ComplianceInRelevantClusters(policy[p].status.clusters,
                                                  RelevantClusters(p, bs))
  OBVIOUS
<1>3. st \in {"", "Pending", "Compliant", "NonCompliant"}
  BY <1>2 DEF ComplianceInRelevantClusters
<1>4. PICK next : next = [acc EXCEPT !.placements = bs, !.decisions = D]
  OBVIOUS
<1>5. /\ next.placements = bs /\ next.decisions = D /\ next.deleted = acc.deleted
      /\ next.disabled = acc.disabled /\ next.unknown = acc.unknown
      /\ next.pending = acc.pending /\ next.found = acc.found
      /\ next.compliance = acc.compliance /\ next \in Gathered
  <2>1. D \in [Bindings -> [clusters : SUBSET Clusters, forSet : BOOLEAN] \cup {NoObj}]
    BY <1>1, DecisionsType
  <2> QED
    BY <1>4, <2>1 DEF Gathered
<1>6. h = CASE st = "" -> [next EXCEPT !.unknown = @ \cup {p}]
          [] st = "Pending" ->
               [next EXCEPT !.pending = @ \cup {p},
                            !.compliance = IF @ = "NonCompliant" THEN @ ELSE "Pending"]
          [] OTHER ->
               [next EXCEPT !.found = @ \cup {p},
                            !.compliance = IF st = "NonCompliant" THEN st ELSE @]
  BY <1>1, <1>2, <1>4 DEF Aggregate
<1>7. h.placements = bs /\ h.decisions = D /\ h.deleted = acc.deleted /\ h.disabled = acc.disabled
  <2>1. CASE st = ""
    BY <1>5, <1>6, <2>1 DEF Gathered
  <2>2. CASE st = "Pending"
    BY <1>5, <1>6, <2>2 DEF Gathered
  <2>3. CASE st # "" /\ st # "Pending"
    BY <1>5, <1>6, <2>3 DEF Gathered
  <2> QED
    BY <2>1, <2>2, <2>3
<1>8. ASSUME NEW n \in Bindings, D[n] # NoObj, binding[n] # NoObj, binding[n].forSet,
             n \notin decEvents
      PROVE  D[n] = [clusters |-> dec[n], forSet |-> TRUE]
  <2>1. D[n] = IF n \in bs /\ acc.decisions[n] = NoObj /\ binding[n] # NoObj
               THEN [clusters |-> dec[n], forSet |-> binding[n].forSet] ELSE acc.decisions[n]
    BY <1>1 DEF Decisions
  <2>2. binding[n].forSet = TRUE
    BY <1>8 DEF SetTypeOK, Binding
  <2> QED
    BY <1>8, <2>1, <2>2 DEF BindingsSound
<1>9. BindingsSound(h)
  BY <1>7, <1>8 DEF BindingsSound
<1>10. ASSUME Steady(h)
       PROVE  RelevantClusters(p, bs) = (UNION {dec[n] : n \in bs}) \ excl[p]
  <2>1. ASSUME NEW n \in bs
        PROVE  D[n] # NoObj /\ D[n] = [clusters |-> dec[n], forSet |-> TRUE]
    <3>1. binding[n] # NoObj /\ binding[n].forSet /\ n \notin decEvents /\ n \in Bindings
      BY <1>7, <1>10, <2>1 DEF Steady
    <3>2. acc.decisions[n] = NoObj => D[n] = [clusters |-> dec[n], forSet |-> binding[n].forSet]
      BY <1>1, <3>1 DEF Decisions
    <3>3. acc.decisions[n] # NoObj => D[n] = acc.decisions[n]
      BY <1>1, <3>1 DEF Decisions
    <3>4. [clusters |-> dec[n], forSet |-> binding[n].forSet]
            \in [clusters : SUBSET Clusters, forSet : BOOLEAN]
      BY <3>1 DEF SetTypeOK, Binding
    <3>5. D[n] # NoObj
      BY <3>2, <3>3, <3>4, NoObjAssumption
    <3> QED
      BY <1>8, <3>1, <3>5
  <2>2. {n \in bs : D[n] # NoObj} = bs
    BY <2>1
  <2>3. RelevantClusters(p, bs) =
            UNION {IF D[n].forSet THEN D[n].clusters \ excl[p] ELSE D[n].clusters : n \in bs}
    BY <1>1, <2>2 DEF RelevantClusters
  <2>4. \A n \in bs : (IF D[n].forSet THEN D[n].clusters \ excl[p] ELSE D[n].clusters)
                      = dec[n] \ excl[p]
    <3> SUFFICES ASSUME NEW n \in bs
                 PROVE  (IF D[n].forSet THEN D[n].clusters \ excl[p] ELSE D[n].clusters)
                        = dec[n] \ excl[p]
      OBVIOUS
    <3>0. D[n] = [clusters |-> dec[n], forSet |-> TRUE]
      BY <2>1
    <3>1. [clusters |-> dec[n], forSet |-> TRUE].forSet
          /\ [clusters |-> dec[n], forSet |-> TRUE].clusters = dec[n]
      OBVIOUS
    <3>2. D[n].forSet /\ D[n].clusters = dec[n]
      BY <3>0, <3>1, Zenon
    <3>3. (IF D[n].forSet THEN D[n].clusters \ excl[p] ELSE D[n].clusters)
          = D[n].clusters \ excl[p]
      BY <3>2, Zenon
    <3> QED
      BY <3>2, <3>3, Zenon
  <2>5. UNION {IF D[n].forSet THEN D[n].clusters \ excl[p] ELSE D[n].clusters : n \in bs}
        = UNION {dec[n] \ excl[p] : n \in bs}
    <3> DEFINE f(n) == IF D[n].forSet THEN D[n].clusters \ excl[p] ELSE D[n].clusters
    <3>1. \A n \in bs : f(n) = dec[n] \ excl[p]
      BY <2>4, Zenon
    <3> HIDE DEF f
    <3>2. UNION {f(n) : n \in bs} = UNION {dec[n] \ excl[p] : n \in bs}
      BY <3>1
    <3> QED
      BY <3>2, Zenon DEF f
  <2>6. UNION {dec[n] \ excl[p] : n \in bs} = (UNION {dec[n] : n \in bs}) \ excl[p]
    OBVIOUS
  <2> QED
    BY <2>3, <2>5, <2>6
<1>11. Saw(h, p, excl, st)
  <2> SUFFICES ASSUME Steady(h)
               PROVE  \E B \in SUBSET h.placements :
                         policy[p].status.placements \subseteq B /\ Fits(p, B, excl, st)
    BY DEF Saw
  <2>1. Fits(p, bs, excl, st)
    BY <1>2, <1>10 DEF Fits
  <2> QED
    BY <1>7, <2>1
<1>12. CASE st = ""
  <2>1. /\ h.unknown = acc.unknown \cup {p} /\ h.pending = acc.pending /\ h.found = acc.found
        /\ h.compliance = acc.compliance
    BY <1>5, <1>6, <1>12 DEF Gathered
  <2> QED
    BY <1>7, <1>9, <1>11, <1>12, <2>1 DEF Adds, Visited
<1>13. CASE st = "Pending"
  <2>1. /\ h.unknown = acc.unknown /\ h.pending = acc.pending \cup {p} /\ h.found = acc.found
        /\ h.compliance = IF acc.compliance = "NonCompliant" THEN "NonCompliant" ELSE "Pending"
    <3>1. h = [next EXCEPT !.pending = @ \cup {p},
                           !.compliance = IF @ = "NonCompliant" THEN @ ELSE "Pending"]
      BY <1>6, <1>13
    <3>2. PICK com : com = IF next.compliance = "NonCompliant" THEN next.compliance ELSE "Pending"
      OBVIOUS
    <3>3. h = [next EXCEPT !.pending = next.pending \cup {p}, !.compliance = com]
      BY <3>1, <3>2
    <3>4. /\ h.unknown = next.unknown /\ h.pending = next.pending \cup {p} /\ h.found = next.found
          /\ h.compliance = com
      BY <1>5, <3>3 DEF Gathered
    <3> QED
      BY <1>5, <3>2, <3>4
  <2> QED
    BY <1>7, <1>9, <1>11, <1>13, <2>1 DEF Adds, Visited
<1>14. CASE st \in {"Compliant", "NonCompliant"}
  <2>1. /\ h.unknown = acc.unknown /\ h.pending = acc.pending /\ h.found = acc.found \cup {p}
        /\ h.compliance = IF st = "NonCompliant" THEN "NonCompliant" ELSE acc.compliance
    BY <1>5, <1>6, <1>14 DEF Gathered
  <2>2. /\ p \in h.found => \/ p \in acc.found \/ Saw(h, p, excl, "Compliant")
                            \/ Saw(h, p, excl, "NonCompliant") /\ h.compliance = "NonCompliant"
        /\ h.compliance = "NonCompliant" =>
              acc.compliance = "NonCompliant" \/ (p \in h.found /\ Saw(h, p, excl, "NonCompliant"))
    BY <1>11, <1>14, <2>1
  <2> QED
    BY <1>7, <1>9, <2>1, <2>2 DEF Adds, Visited
<1> QED
  BY <1>3, <1>12, <1>13, <1>14

LEMMA ProcessChildKept ==
    ASSUME TypeInv, TypeInv', GatherSound, ProcessChild
    PROVE  GatherSound'
<1> SUFFICES ASSUME ~queued
             PROVE  /\ pset' # NoObj /\ loc'.spec = pset' /\ Sound(acc, pset.excl)'
                    /\ ToSet(pset.list)' = (Visited(acc) \cup ToSet(todo))'
  BY DEF GatherSound, ProcessChild
<1> USE DEF setInputs, statusVars
<1>1. /\ pc = "child" /\ todo' = Tail(todo) /\ unseen' = unseen \ ({Head(todo)} \ Visited(acc))
      /\ UNCHANGED <<pset, policy, binding, dec, decEvents, queued, loc>>
  BY DEF ProcessChild
<1>2. PICK p : p = Head(todo)
  OBVIOUS
<1>3. SetTypeOK /\ acc \in Gathered /\ acc' \in Gathered /\ p \in Policies
      /\ ToSet(todo) = {p} \cup ToSet(todo')
  <2>1. todo \in Seq(Policies) /\ todo # <<>> /\ SetTypeOK /\ acc \in Gathered
    BY <1>1 DEF TypeInv, SetTypeOK, LocalsOK
  <2>2. acc' \in Gathered
    BY DEF ProcessChild, TypeInv, LocalsOK
  <2> QED
    BY <1>1, <1>2, <2>1, <2>2, ToSetTail
<1>4. PICK excl : excl = pset.excl
  OBVIOUS
<1>40. PICK g \in Gathered : g = acc
  BY <1>3
<1>41. PICK h \in Gathered : h = acc'
  BY <1>3
<1>5. /\ pset # NoObj /\ loc.spec = pset /\ Sound(g, excl)
      /\ ToSet(pset.list) = Visited(g) \cup ToSet(todo)
  BY <1>1, <1>4, <1>40, <1>41 DEF GatherSound
<1>6. BindingsSound(g) /\ loc.spec.excl = excl
  BY <1>4, <1>40, <1>41, <1>5 DEF Sound
<1>7. Adds(g, h, p, excl)
  <2>1. PICK bs : bs = acc.placements \cup policy[p].status.placements
    OBVIOUS
  <2>2. h = CASE policy[p] = NoObj -> [acc EXCEPT !.deleted = @ \cup {p}]
              [] policy[p] # NoObj /\ policy[p].disabled ->
                      [acc EXCEPT !.placements = bs, !.disabled = @ \cup {p}]
              [] OTHER -> Aggregate(p, bs)
    BY <1>2, <1>4, <1>40, <1>41, <2>1 DEF ProcessChild
  <2>3. CASE policy[p] = NoObj
    <3>1. h = [g EXCEPT !.deleted = @ \cup {p}]
      BY <1>4, <1>40, <1>41, <2>2, <2>3
    <3>2. /\ h.placements = g.placements /\ h.decisions = g.decisions
          /\ h.deleted = g.deleted \cup {p} /\ h.disabled = g.disabled /\ h.unknown = g.unknown
          /\ h.pending = g.pending /\ h.found = g.found /\ h.compliance = g.compliance
      BY <3>1 DEF Gathered
    <3>3. BindingsSound(h)
      BY <1>6, <3>2 DEF BindingsSound
    <3> QED
      BY <2>3, <3>2, <3>3 DEF Adds, Visited
  <2>4. CASE policy[p] # NoObj /\ policy[p].disabled
    <3>1. h = [g EXCEPT !.placements = bs, !.disabled = @ \cup {p}]
      BY <1>4, <1>40, <1>41, <2>2, <2>4
    <3>2. /\ h.placements = bs /\ h.decisions = g.decisions
          /\ h.deleted = g.deleted /\ h.disabled = g.disabled \cup {p} /\ h.unknown = g.unknown
          /\ h.pending = g.pending /\ h.found = g.found /\ h.compliance = g.compliance
      BY <3>1 DEF Gathered
    <3>3. bs = g.placements \cup policy[p].status.placements
      BY <1>4, <1>40, <1>41, <2>1
    <3>4. BindingsSound(h)
      BY <1>3, <1>6, <2>4, <3>2, <3>3 DEF BindingsSound
    <3> QED
      BY <2>4, <3>2, <3>3, <3>4 DEF Adds, Visited
  <2>5. CASE policy[p] # NoObj /\ ~policy[p].disabled
    <3>1. bs \in SUBSET Bindings
      BY <1>3, <2>1, <2>5 DEF SetTypeOK, Policy, PolicyStatus, Gathered
    <3>2. h = Aggregate(p, bs)
      BY <2>2, <2>5
    <3>3. BindingsSound(acc)
      BY <1>4, <1>40, <1>41, <1>6
    <3>4. Adds(acc, h, p, excl)
      BY <1>3, <1>6, <2>1, <2>5, <3>1, <3>2, <3>3, AggregateAdds
    <3> QED
      BY <1>4, <1>40, <1>41, <3>4
  <2> QED
    BY <2>3, <2>4, <2>5
<1>8. Sound(h, excl)' /\ Visited(h) = Visited(g) \cup {p}
  BY <1>1, <1>2, <1>3, <1>4, <1>40, <1>41, <1>5, <1>7, SoundGrows
<1>9. Sound(acc, pset.excl)'
  <2>1. acc' = h /\ pset'.excl = excl
    BY <1>1, <1>4, <1>41
  <2> QED
    BY <1>8, <2>1
<1>10. ToSet(pset.list)' = (Visited(acc) \cup ToSet(todo))'
  BY <1>1, <1>3, <1>4, <1>40, <1>41, <1>5, <1>8
<1> QED
  BY <1>1, <1>5, <1>9, <1>10

-----------------------------------------------------------------------------
(* The invariant.                                                            *)
LEMMA NewAccSound ==
    ASSUME NEW excl
    PROVE  Sound(NewAcc, excl) /\ Visited(NewAcc) = {}
<1>1. Visited(NewAcc) = {}
  BY DEF NewAcc, Visited
<1>2. NewAcc.placements = {} /\ NewAcc.pending = {} /\ NewAcc.compliance = "Compliant"
      /\ \A n \in Bindings : NewAcc.decisions[n] = NoObj
  BY DEF NewAcc
<1>3. BindingsSound(NewAcc) /\ ComplianceSound(NewAcc, excl)
  BY <1>2 DEF BindingsSound, ComplianceSound
<1> QED
  BY <1>1, <1>3 DEF Sound

LEMMA StartKept == ASSUME TypeInv, Start PROVE SetInv'
<1> USE DEF setInputs, statusVars
<1>1. CASE pset = NoObj
  <2>1. pc' = "idle" /\ pset' = NoObj
    BY <1>1 DEF Start
  <2> QED
    BY <2>1 DEF SetInv, GatherSound, DoneSound
<1>2. CASE pset # NoObj
  <2>1. /\ loc' = [spec |-> pset, status |-> cached] /\ acc' = NewAcc /\ todo' = pset.list
        /\ pc' # "idle" /\ pset' = pset
    BY <1>2 DEF Start
  <2>2. pset' # NoObj /\ loc'.spec = pset'
    BY <1>2, <2>1
  <2>3. PICK excl : excl = pset'.excl
    OBVIOUS
  <2>4. Sound(NewAcc, excl)'
    BY NewAccSound, PTL
  <2>5. Sound(acc, pset.excl)'
    BY <2>1, <2>3, <2>4
  <2>6. ToSet(pset.list)' = Visited(acc)' \cup ToSet(todo)'
    BY <2>1, NewAccSound
  <2> QED
    BY <2>1, <2>2, <2>5, <2>6 DEF SetInv, GatherSound, DoneSound
<1> QED
  BY <1>1, <1>2

LEMMA PatchKept == ASSUME TypeInv, SetInv, Patch PROVE SetInv'
<1> USE DEF setInputs, statusVars
<1>1. /\ pc = "patch" /\ pc' = "idle" /\ outdated' = (loc.status # status)
      /\ UNCHANGED <<pset, policy, binding, dec, decEvents, unseen>>
  BY DEF Patch, Return
<1> SUFFICES ASSUME ~queued', pset # NoObj, loc.status = status
             PROVE  \E g \in Gathered : /\ status' = Built(pset, g) /\ Sound(g, pset.excl)'
                                        /\ ToSet(pset.list) = Visited(g)
  BY <1>1 DEF SetInv, GatherSound, DoneSound
<1>2. /\ loc \in [spec : SetSpec, status : SetStatus] /\ acc \in Gathered
      /\ status \in SetStatus /\ todo = <<>>
  BY <1>1 DEF TypeInv, LocalsOK, SetTypeOK
<1>3. ~queued /\ status' = BuiltStatus
  <2>1. CASE ~NeedsUpdate /\ UNCHANGED <<statusVars, queued, events>>
    BY <2>1 DEF NeedsUpdate
  <2>2. CASE NeedsUpdate /\ pset # NoObj /\ ApplyPatch /\ UNCHANGED <<queued, events>>
    <3>1. PICK b : b = BuiltStatus
      OBVIOUS
    <3>2. b \in SetStatus
      BY <1>2, <3>1, BuiltType
    <3>3. Patched = [f \in DOMAIN status |-> IF b[f] = status[f] THEN status[f] ELSE b[f]]
      BY <3>1 DEF Patched
    <3>4. DOMAIN b = DOMAIN status /\ b = [f \in DOMAIN b |-> b[f]]
      BY <1>2, <3>2 DEF SetStatus
    <3>5. Patched = b
      BY <3>3, <3>4
    <3> QED
      BY <2>2, <3>1, <3>5 DEF ApplyPatch
  <2>3. ~PatchRetry
    BY DEF PatchRetry
  <2> QED
    BY <2>1, <2>2, <2>3 DEF Patch
<1>4. loc.spec = pset /\ Sound(acc, pset.excl) /\ ToSet(pset.list) = Visited(acc)
  BY <1>1, <1>2, <1>3, ToSetEmpty DEF SetInv, GatherSound
<1>5. PICK g \in Gathered : g = acc
  BY <1>2
<1>6. PICK excl : excl = pset.excl
  OBVIOUS
<1>7. status' = Built(pset, g)
  BY <1>3, <1>4, <1>5 DEF Built, BuiltStatus, ShowCompliance
<1>8. Sound(g, excl)'
  <2>1. Sound(g, excl)
    BY <1>4, <1>5, <1>6
  <2> QED
    BY <1>1, <2>1, SoundKept
<1>9. pset'.excl = excl
  BY <1>1, <1>6
<1> QED
  BY <1>4, <1>5, <1>7, <1>8, <1>9

LEMMA ForeignSetInv == ASSUME TypeInv, SetInv, Foreign PROVE SetInv'
<1> SUFFICES ASSUME ~queued' PROVE SetInv'
  BY DEF SetInv, GatherSound, DoneSound
<1>1. ~queued /\ UNCHANGED <<pset, status, reconciler>>
  BY NewTypes, NewAccSound, ForeignKept
<1>2. PICK excl : excl = pset.excl /\ excl = pset'.excl
  BY <1>1
<1>3. GatherSound'
  <2> SUFFICES ASSUME pc # "idle"
               PROVE  /\ pset # NoObj /\ loc.spec = pset /\ Sound(acc, pset.excl)'
                      /\ ToSet(pset.list) = Visited(acc) \cup ToSet(todo)
    BY <1>1 DEF GatherSound, reconciler
  <2>1. /\ pset # NoObj /\ loc.spec = pset /\ Sound(acc, pset.excl)
        /\ ToSet(pset.list) = Visited(acc) \cup ToSet(todo)
    BY <1>1 DEF SetInv, GatherSound
  <2>2. PICK g \in Gathered : g = acc /\ g = acc'
    BY <1>1 DEF TypeInv, LocalsOK, reconciler
  <2>3. Sound(g, excl)
    BY <1>2, <2>1, <2>2
  <2>4. Sound(g, excl)'
    BY <2>3, ForeignKept
  <2>5. Sound(acc, pset.excl)'
    BY <1>2, <2>2, <2>4
  <2> QED
    BY <2>1, <2>5
<1>4. DoneSound'
  <2> SUFFICES ASSUME pc = "idle", pset # NoObj, ~outdated
               PROVE  \E g \in Gathered : /\ status = Built(pset, g) /\ Sound(g, pset.excl)'
                                          /\ ToSet(pset.list) = Visited(g)
    BY <1>1 DEF DoneSound, reconciler, Built, NoStatus, NoExclusions, Visited
  <2>1. PICK g \in Gathered : /\ status = Built(pset, g) /\ Sound(g, excl)
                              /\ ToSet(pset.list) = Visited(g)
    BY <1>1, <1>2 DEF SetInv, DoneSound
  <2>2. Sound(g, excl)'
    BY <2>1, ForeignKept
  <2> QED
    BY <1>2, <2>1, <2>2
<1> QED
  BY <1>3, <1>4 DEF SetInv

LEMMA NextSetInv == TypeInv /\ TypeInv' /\ SetInv /\ [SetNext]_setVars => SetInv'
<1> SUFFICES ASSUME TypeInv, TypeInv', SetInv, [SetNext]_setVars PROVE SetInv'
  OBVIOUS
<1>1. CASE Start
  BY <1>1, StartKept
<1>2. CASE ProcessChild
  <2>1. GatherSound'
    BY <1>2, ProcessChildKept DEF SetInv
  <2>2. pc' # "idle"
    BY <1>2 DEF ProcessChild
  <2> QED
    BY <2>1, <2>2 DEF SetInv, DoneSound
<1>3. CASE Patch
  BY <1>3, PatchKept
<1>4. CASE Foreign
  BY <1>4, ForeignSetInv
<1> QED
  BY <1>1, <1>2, <1>3, <1>4 DEF SetNext, Reconcile, Foreign

-----------------------------------------------------------------------------
(* At rest what was gathered is what the inputs say.                           *)
Worst(p) == ComplianceInRelevantClusters(comp[p], SetClusters(p))

LEMMA WorstIs ==
    ASSUME SetTypeOK, pset # NoObj, NEW p \in Policies
    PROVE  /\ ReportedFor(p) \subseteq Reported
           /\ Worst(p) = "" <=> ReportedFor(p) = {}
           /\ Worst(p) = "NonCompliant" <=> "NonCompliant" \in ReportedFor(p)
           /\ Worst(p) = "Pending" => "Pending" \in ReportedFor(p)
           /\ Worst(p) = "Compliant" => ReportedFor(p) = {"Compliant"}
           /\ Worst(p) \in Reported \cup {""}
<1>1. PICK S : S = {comp[p][c] : c \in SetClusters(p)}
  OBVIOUS
<1>2. SetClusters(p) \subseteq Clusters
  BY DEF SetTypeOK, SetClusters
<1>3. S \subseteq Reported \cup {""}
  BY <1>1, <1>2, StatesAssumption DEF SetTypeOK
<1>4. ReportedFor(p) = S \ {""}
  BY <1>1 DEF ReportedFor
<1>5. Worst(p) = IF "NonCompliant" \in S THEN "NonCompliant"
                 ELSE IF "Pending" \in S THEN "Pending"
                 ELSE IF "Compliant" \in S THEN "Compliant" ELSE ""
  BY <1>1 DEF Worst, ComplianceInRelevantClusters
<1>6. CASE "NonCompliant" \in S
  BY <1>3, <1>4, <1>5, <1>6 DEF Reported
<1>7. CASE "NonCompliant" \notin S /\ "Pending" \in S
  BY <1>3, <1>4, <1>5, <1>7 DEF Reported
<1>8. CASE "NonCompliant" \notin S /\ "Pending" \notin S /\ "Compliant" \in S
  BY <1>3, <1>4, <1>5, <1>8 DEF Reported
<1>9. CASE "NonCompliant" \notin S /\ "Pending" \notin S /\ "Compliant" \notin S
  BY <1>3, <1>4, <1>5, <1>9 DEF Reported
<1> QED
  BY <1>6, <1>7, <1>8, <1>9

LEMMA RestSaw ==
    ASSUME SetTypeOK, AtRest, pset # NoObj, NEW g \in Gathered, BindingsSound(g),
           NEW p \in Listed, p \in Policies, NEW st, Saw(g, p, pset.excl, st)
    PROVE  policy[p] # NoObj /\ ~policy[p].disabled /\ st = Worst(p)
<1>1. policy[p] # NoObj /\ ~policy[p].disabled
  BY DEF Saw
<1>2. PICK F : F = {n \in Bindings : binding[n] # NoObj /\ binding[n].forSet}
  OBVIOUS
<1>3. \A q \in Policies : policy[q] # NoObj => policy[q].status = RootStatus(q)
  BY DEF AtRest
<1>4. \A q \in Policies : RootStatus(q).placements \subseteq F
  BY <1>2 DEF RootStatus, PolicyBindings
<1>5. InSet(p) /\ RootStatus(p).placements = F /\ F \subseteq PolicyBindings(p)
  <2>1. InSet(p)
    BY DEF InSet, Listed
  <2>2. F \subseteq PolicyBindings(p) /\ F = {n \in PolicyBindings(p) : binding[n].forSet}
    BY <1>2, <2>1 DEF PolicyBindings
  <2> QED
    BY <2>1, <2>2 DEF RootStatus
<1>6. g.placements \subseteq F
  BY <1>3, <1>4 DEF BindingsSound
<1>7. Steady(g)
  BY <1>2, <1>6 DEF Steady, AtRest
<1>8. PICK B \in SUBSET g.placements :
          policy[p].status.placements \subseteq B /\ Fits(p, B, pset.excl, st)
  BY <1>7 DEF Saw
<1>9. B = F
  BY <1>1, <1>3, <1>5, <1>6, <1>8
<1>10. (UNION {dec[n] : n \in B}) \ pset.excl[p] = SetClusters(p)
  BY <1>2, <1>9 DEF SetClusters
<1>11. \A c \in SetClusters(p) : policy[p].status.clusters[c] = comp[p][c]
  <2> SUFFICES ASSUME NEW c \in SetClusters(p)
               PROVE  policy[p].status.clusters[c] = comp[p][c]
    OBVIOUS
  <2>1. PICK n \in F : c \in dec[n]
    BY <1>9, <1>10
  <2>2. c \in Clusters /\ n \in PolicyBindings(p)
    BY <1>2, <1>5, <2>1 DEF SetTypeOK
  <2>3. RootStatus(p).clusters[c] = comp[p][c]
    BY <1>1, <2>1, <2>2 DEF RootStatus
  <2> QED
    BY <1>1, <1>3, <2>3
<1>12. {policy[p].status.clusters[c] : c \in SetClusters(p)} = {comp[p][c] : c \in SetClusters(p)}
  BY <1>11
<1>13. st = ComplianceInRelevantClusters(policy[p].status.clusters, SetClusters(p))
  BY <1>8, <1>10 DEF Fits
<1>14. st = Worst(p)
  BY <1>12, <1>13 DEF Worst, ComplianceInRelevantClusters
<1> QED
  BY <1>1, <1>14

(* What a policy of the set that has no unseen change was found to be.          *)
LEMMA RestFound ==
    ASSUME SetTypeOK, AtRest, pset # NoObj, NEW g \in Gathered, Sound(g, pset.excl),
           NEW p \in Listed, p \in Policies, p \in Visited(g), p \notin unseen
    PROVE  /\ p \in g.deleted <=> policy[p] = NoObj
           /\ p \in g.disabled <=> policy[p] # NoObj /\ policy[p].disabled
           /\ p \in g.unknown <=> p \in Enabled /\ Worst(p) = ""
           /\ p \in g.pending <=> p \in Enabled /\ Worst(p) = "Pending"
           /\ p \in g.found <=> p \in Enabled /\ Worst(p) \in {"Compliant", "NonCompliant"}
           /\ p \in g.found /\ Worst(p) = "NonCompliant" => g.compliance = "NonCompliant"
<1>1. BindingsSound(g) /\ PolicySound(g, pset.excl, p)
  BY DEF Sound
<1>2. \A st : Saw(g, p, pset.excl, st) => policy[p] # NoObj /\ ~policy[p].disabled /\ st = Worst(p)
  BY <1>1, RestSaw
<1>3. p \in Enabled <=> policy[p] # NoObj /\ ~policy[p].disabled
  BY DEF Enabled
<1>4. /\ p \in g.deleted => policy[p] = NoObj
      /\ p \in g.disabled => policy[p] # NoObj /\ policy[p].disabled
  BY <1>1 DEF PolicySound
<1>5. /\ p \in g.unknown => p \in Enabled /\ Worst(p) = ""
      /\ p \in g.pending => p \in Enabled /\ Worst(p) = "Pending"
  BY <1>1, <1>2, <1>3 DEF PolicySound
<1>6. p \in g.found => /\ p \in Enabled
                       /\ \/ Worst(p) = "Compliant"
                          \/ Worst(p) = "NonCompliant" /\ g.compliance = "NonCompliant"
  BY <1>1, <1>2, <1>3 DEF PolicySound
<1>7. p \in g.deleted \/ p \in g.disabled \/ p \in g.unknown \/ p \in g.pending \/ p \in g.found
  BY DEF Visited
<1> QED
  BY <1>3, <1>4, <1>5, <1>6, <1>7

LEMMA RestMessage == TypeInv /\ SetInv => MessageUnlessUnseen
<1> SUFFICES ASSUME TypeInv, SetInv, AtRest, pset # NoObj, pset.list # <<>>, ~outdated,
                    NEW p \in Listed \ unseen
             PROVE  /\ status.message # NoObj
                    /\ p \in status.message.deleted  <=> policy[p] = NoObj
                    /\ p \in status.message.disabled <=> policy[p] # NoObj /\ policy[p].disabled
                    /\ p \in status.message.unknown  <=> p \in Enabled /\ ReportedFor(p) = {}
                    /\ p \in status.message.pending  <=>
                          /\ p \in Enabled /\ "Pending" \in ReportedFor(p)
                          /\ "NonCompliant" \notin ReportedFor(p)
  BY DEF MessageUnlessUnseen
<1>1. SetTypeOK
  BY DEF TypeInv
<1>2. PICK g \in Gathered : /\ status = Built(pset, g) /\ Sound(g, pset.excl)
                            /\ Listed = Visited(g)
  BY DEF SetInv, DoneSound, AtRest, Listed
<1>3. PICK m : m = [pending |-> g.pending, disabled |-> g.disabled,
                    unknown |-> g.unknown, deleted |-> g.deleted,
                    excluded |-> pset.excl # NoExclusions]
  OBVIOUS
<1>4. status.message = m
  BY <1>2, <1>3 DEF Built
<1>5. /\ m \in Message /\ m.deleted = g.deleted /\ m.disabled = g.disabled
      /\ m.unknown = g.unknown /\ m.pending = g.pending
  BY <1>3 DEF Message, Gathered
<1>6. m # NoObj
  BY <1>5, NoObjAssumption
<1>7. p \in Policies
  BY <1>2 DEF Visited, Gathered
<1>8. /\ p \in g.deleted <=> policy[p] = NoObj
      /\ p \in g.disabled <=> policy[p] # NoObj /\ policy[p].disabled
      /\ p \in g.unknown <=> p \in Enabled /\ Worst(p) = ""
      /\ p \in g.pending <=> p \in Enabled /\ Worst(p) = "Pending"
  BY <1>1, <1>2, <1>7, RestFound
<1>9. /\ Worst(p) = "" <=> ReportedFor(p) = {}
      /\ Worst(p) = "Pending" <=>
           "Pending" \in ReportedFor(p) /\ "NonCompliant" \notin ReportedFor(p)
  <2>1. /\ Worst(p) = "" <=> ReportedFor(p) = {}
        /\ Worst(p) = "NonCompliant" <=> "NonCompliant" \in ReportedFor(p)
        /\ Worst(p) = "Pending" => "Pending" \in ReportedFor(p)
        /\ Worst(p) = "Compliant" => ReportedFor(p) = {"Compliant"}
        /\ Worst(p) \in Reported \cup {""}
    BY <1>1, <1>7, WorstIs
  <2> QED
    BY <2>1 DEF Reported
<1> QED
  BY <1>4, <1>5, <1>6, <1>8, <1>9

LEMMA RestCompliance == TypeInv /\ SetInv => ComplianceUnlessOutdated
<1> SUFFICES ASSUME TypeInv, SetInv, AtRest, pset # NoObj, ~outdated, Listed \cap unseen = {}
             PROVE  status.compliant = Overall
  BY DEF ComplianceUnlessOutdated
<1>1. SetTypeOK
  BY DEF TypeInv
<1>2. PICK g \in Gathered : /\ status = Built(pset, g) /\ Sound(g, pset.excl)
                            /\ Listed = Visited(g)
  BY DEF SetInv, DoneSound, AtRest, Listed
<1>3. PICK all : all = UNION {ReportedFor(p) : p \in Enabled}
  OBVIOUS
<1>4. Overall = IF all = {} \/ \E p \in Enabled : ReportedFor(p) = {} THEN ""
                ELSE CHOOSE s \in all : \A t \in all :
                       s = t \/ s = "NonCompliant" \/ (s = "Pending" /\ t = "Compliant")
  BY <1>3 DEF Overall
<1>5. CASE pset.list = <<>>
  <2>1. Enabled = {}
    BY <1>5, ToSetEmpty DEF Enabled, Listed
  <2>2. all = {}
    BY <1>3, <2>1
  <2> QED
    BY <1>2, <1>4, <1>5, <2>2 DEF Built, NoStatus
<1>6. CASE pset.list # <<>>
  <2>1. Listed \subseteq Policies /\ Enabled \subseteq Listed
        /\ g.unknown \cup g.pending \cup g.found \subseteq Listed
    BY <1>2 DEF Visited, Gathered, Enabled
  <2>2. \A p \in Listed :
           /\ p \in g.unknown <=> p \in Enabled /\ Worst(p) = ""
           /\ p \in g.pending <=> p \in Enabled /\ Worst(p) = "Pending"
           /\ p \in g.found <=> p \in Enabled /\ Worst(p) \in {"Compliant", "NonCompliant"}
           /\ p \in g.found /\ Worst(p) = "NonCompliant" => g.compliance = "NonCompliant"
    BY <1>1, <1>2, <2>1, RestFound
  <2>3. \A p \in Listed :
           /\ ReportedFor(p) \subseteq Reported
           /\ Worst(p) = "" <=> ReportedFor(p) = {}
           /\ Worst(p) = "NonCompliant" <=> "NonCompliant" \in ReportedFor(p)
           /\ Worst(p) = "Pending" => "Pending" \in ReportedFor(p)
           /\ Worst(p) = "Compliant" => ReportedFor(p) = {"Compliant"}
           /\ Worst(p) \in Reported \cup {""}
    BY <1>1, <2>1, WorstIs
  <2>4. status.compliant = IF g.unknown = {} /\ g.found \cup g.pending # {}
                           THEN g.compliance ELSE ""
    BY <1>2, <1>6 DEF Built
  <2>5. CASE g.unknown # {}
    <3>1. \E p \in Enabled : ReportedFor(p) = {}
      BY <2>1, <2>2, <2>3, <2>5
    <3> QED
      BY <1>4, <2>4, <2>5, <3>1
  <2>6. CASE g.found \cup g.pending = {} /\ g.unknown = {}
    <3>1. Enabled = {}
      BY <2>1, <2>2, <2>3, <2>6 DEF Reported
    <3>2. all = {}
      BY <1>3, <3>1
    <3> QED
      BY <1>4, <2>4, <2>6, <3>2
  <2>7. CASE g.unknown = {} /\ g.found \cup g.pending # {}
    <3>1. \A p \in Enabled : ReportedFor(p) # {}
      BY <2>1, <2>2, <2>3, <2>7
    <3>2. PICK p0 \in Enabled : ReportedFor(p0) # {}
      BY <2>1, <2>2, <2>7, <3>1
    <3>3. all # {} /\ all \subseteq Reported
      BY <1>3, <2>1, <2>3, <3>2
    <3>4. Overall = CHOOSE s \in all : \A t \in all :
                       s = t \/ s = "NonCompliant" \/ (s = "Pending" /\ t = "Compliant")
      BY <1>4, <3>1, <3>3
    <3>5. CASE g.compliance = "NonCompliant"
      <4>1. PICK p \in g.found : p \in unseen \/ Saw(g, p, pset.excl, "NonCompliant")
        BY <1>2, <3>5 DEF Sound, ComplianceSound
      <4>2. p \in Listed /\ p \in Policies /\ p \in Enabled /\ p \notin unseen
        BY <2>1, <2>2
      <4>3. "NonCompliant" = Worst(p)
        BY <1>1, <1>2, <4>1, <4>2, RestSaw DEF Sound
      <4>4. "NonCompliant" \in all
        BY <1>3, <2>3, <4>2, <4>3
      <4>5. Overall = "NonCompliant"
        BY <3>4, <4>4
      <4> QED
        BY <2>4, <2>7, <3>5, <4>5
    <3>6. CASE g.compliance # "NonCompliant"
      <4>1. \A p \in Enabled : Worst(p) \in {"Pending", "Compliant"}
        BY <2>1, <2>2, <2>3, <2>7, <3>6 DEF Reported
      <4>2. "NonCompliant" \notin all
        BY <1>3, <2>1, <2>3, <4>1
      <4>3. CASE g.compliance = "Pending"
        <5>1. PICK p \in g.pending : TRUE
          BY <1>2, <4>3 DEF Sound, ComplianceSound
        <5>2. "Pending" \in all
          BY <1>3, <2>1, <2>2, <2>3, <5>1
        <5>3. Overall = "Pending"
          BY <3>3, <3>4, <4>2, <5>2 DEF Reported
        <5> QED
          BY <2>4, <2>7, <4>3, <5>3
      <4>4. CASE g.compliance = "Compliant"
        <5>1. g.pending = {}
          BY <1>2, <4>4 DEF Sound, ComplianceSound
        <5>2. \A p \in Enabled : ReportedFor(p) = {"Compliant"}
          BY <2>1, <2>2, <2>3, <4>1, <5>1
        <5>3. all = {"Compliant"}
          BY <1>3, <3>2, <5>2
        <5>4. Overall = "Compliant"
          BY <3>4, <5>3
        <5> QED
          BY <2>4, <2>7, <4>4, <5>4
      <4> QED
        BY <3>6, <4>3, <4>4 DEF Gathered, Reported
    <3> QED
      BY <3>5, <3>6
  <2> QED
    BY <2>5, <2>6, <2>7
<1> QED
  BY <1>5, <1>6

LEMMA SetSetInv == PolicySetSpec => [](TypeInv /\ SetInv)
<1>1. SetInit => SetInv
  BY InitSetInv
<1>2. TypeInv /\ TypeInv' /\ SetInv /\ [SetNext]_setVars => SetInv'
  BY NextSetInv
<1> QED
  BY <1>1, <1>2, SetTypeInv, PTL DEF PolicySetSpec

(* processPolicySet: at rest the compliance of the PolicySet is the worst state  *)
(* its enabled policies report on the clusters it places them on, and none while *)
(* one of them reports nothing, whatever changed while the reconcile read the    *)
(* policies one by one; unless the patch was compared with an old status or a    *)
(* policy of the list changed without an event.                                  *)
THEOREM SetComplianceCorrect == PolicySetSpec => []ComplianceUnlessOutdated
<1>1. TypeInv /\ SetInv => ComplianceUnlessOutdated
  BY RestCompliance
<1> QED
  BY <1>1, SetSetInv, PTL

(* processPolicySet, getStatusMessage: at rest the status message names exactly  *)
(* the deleted, the disabled, the silent and the pending policies, of the        *)
(* policies that did not change without an event; unless the last reconcile      *)
(* compared with an old status of the set.                                       *)
THEOREM SetMessageCorrect == PolicySetSpec => []MessageUnlessUnseen
<1>1. TypeInv /\ SetInv => MessageUnlessUnseen
  BY RestMessage
<1> QED
  BY <1>1, SetSetInv, PTL
=============================================================================
