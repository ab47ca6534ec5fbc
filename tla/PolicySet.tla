------------------------------ MODULE PolicySet ------------------------------
(***************************************************************************)
(* The status of one PolicySet.  The policy-set controller puts it together*)
(* from the status of the policies in the set, the PlacementBindings named *)
(* there and their decisions, all read from caches while they change.  The *)
(* status of a policy is written by the root policy controllers (one step  *)
(* here, RootPolicy has the detail) from the same inputs.                  *)
(***************************************************************************)
EXTENDS Integers, Sequences, FiniteSets, SequencesExt

CONSTANTS
    Policies,     \* names of policies
    Clusters,     \* managed clusters
    Bindings,     \* names of PlacementBindings, each with a Placement of its own
    Lists,        \* values of spec.policies
    States,       \* compliance states a replicated policy may report
    NoObj,        \* an object that does not exist
    MaxEvents     \* bound: changes by users and managed clusters, and failures

Reported == {"Compliant", "NonCompliant", "Pending"}

ASSUME StatesAssumption == States \subseteq Reported \cup {""}
ASSUME ListsAssumption == Lists \subseteq Seq(Policies)
ASSUME SetBounds == MaxEvents \in Nat

VARIABLES
    pset,         \* the spec of the PolicySet in the cache
    status,       \* its status at the API server
    stream,       \* versions of the status the informer has not delivered
    cached,       \* its status in the cache
    policy,       \* the policies in the cache
    comp,         \* what each replicated policy reports
    binding,      \* the PlacementBindings in the cache
    dec,          \* the decisions of the Placement of each binding
    decEvents,    \* bindings whose Placement has an event to be mapped
    queued,       \* the PolicySet is in the queue
    pc, todo,     \* step of the reconcile, policies it has still to visit
    loc, acc,     \* its copy of the PolicySet and what it has gathered
    outdated,     \* history: the last reconcile compared with an old status
    unseen,       \* history: policies that changed without an event since the set was read
    events        \* changes and failures so far

setVars == <<pset, status, stream, cached, policy, comp, binding, dec, decEvents, queued,
             pc, todo, loc, acc, outdated, unseen, events>>
setInputs  == <<pset, policy, comp, binding, dec>>
statusVars == <<status, stream, cached>>
reconciler == <<pc, todo, loc, acc, outdated>>

Exclusions == [Policies -> SUBSET Clusters]
(* The webhook admits exclusions of listed policies only.                    *)
SetSpec == {s \in [list : Lists, excl : Exclusions] :
              \A p \in Policies : s.excl[p] # {} => p \in ToSet(s.list)}
(* status.placement of a policy, for this PolicySet, with the exclusions it  *)
(* reports, and status.status.                                               *)
PolicyStatus == [placements : SUBSET Bindings, excluded : SUBSET Clusters,
                 clusters : [Clusters -> States \cup {NoObj}]]
Policy  == [disabled : BOOLEAN, status : PolicyStatus]
Binding == [forSet : BOOLEAN, direct : BOOLEAN]
Message == [pending : SUBSET Policies, disabled : SUBSET Policies, unknown : SUBSET Policies,
            deleted : SUBSET Policies, excluded : BOOLEAN]
SetStatus == [placement : SUBSET Bindings, compliant : Reported \cup {""},
              message : Message \cup {NoObj}, exclusions : Exclusions]
Gathered == [pending : SUBSET Policies, disabled : SUBSET Policies, unknown : SUBSET Policies,
             deleted : SUBSET Policies, found : SUBSET Policies,
             compliance : Reported, placements : SUBSET Bindings,
             decisions : [Bindings -> [clusters : SUBSET Clusters, forSet : BOOLEAN] \cup {NoObj}]]

ASSUME NoObjAssumption == NoObj \notin Message \cup [clusters : SUBSET Clusters, forSet : BOOLEAN]

SetTypeOK ==
    /\ pset \in SetSpec \cup {NoObj}
    /\ {status, cached} \subseteq SetStatus /\ stream \in Seq(SetStatus)
    /\ policy \in [Policies -> Policy \cup {NoObj}]
    /\ comp \in [Policies -> [Clusters -> States]]
    /\ binding \in [Bindings -> Binding \cup {NoObj}]
    /\ dec \in [Bindings -> SUBSET Clusters] /\ decEvents \subseteq Bindings
    /\ queued \in BOOLEAN /\ pc \in {"idle", "child", "patch"} /\ todo \in Seq(Policies)
    /\ loc \in [spec : SetSpec, status : SetStatus] \cup {NoObj}
    /\ acc \in Gathered \cup {NoObj}
    /\ outdated \in BOOLEAN /\ unseen \subseteq Policies
    /\ events \in 0 .. MaxEvents

-----------------------------------------------------------------------------
NoExclusions == [p \in Policies |-> {}]
NoStatus  == [placement |-> {}, compliant |-> "", message |-> NoObj, exclusions |-> NoExclusions]
NoPolicyStatus == [placements |-> {}, excluded |-> {}, clusters |-> [c \in Clusters |-> NoObj]]
Bug_NewAcc == [pending |-> {}, disabled |-> {}, unknown |-> {}, deleted |-> {}, found |-> {},
               compliance |-> "", placements |-> {}, decisions |-> [n \in Bindings |-> NoObj]]
NewAcc == [pending |-> {}, disabled |-> {}, unknown |-> {}, deleted |-> {}, found |-> {},
           compliance |-> "Compliant", placements |-> {}, decisions |-> [n \in Bindings |-> NoObj]]

(* RootStatusUpdate: the bindings that name the set, if it lists the policy, *)
(* and the state of every decided cluster, none if the policy is disabled.   *)
InSet(p) == pset # NoObj /\ p \in ToSet(pset.list)
PolicyBindings(p) ==
    {n \in Bindings : binding[n] # NoObj /\ (binding[n].direct \/ (binding[n].forSet /\ InSet(p)))}
RootStatus(p) ==
    LET forSet == IF InSet(p) THEN {n \in PolicyBindings(p) : binding[n].forSet} ELSE {} IN
    [placements |-> forSet,
     excluded |-> IF forSet = {} THEN {} ELSE pset.excl[p],
     clusters |-> [c \in Clusters |->
        IF ~policy[p].disabled /\ \E n \in PolicyBindings(p) : c \in dec[n]
        THEN comp[p][c] ELSE NoObj]]

-----------------------------------------------------------------------------
(* The events.  Each handler maps the old and the new object.                *)

PolicyMapper(old, new) ==
    \E o \in {old, new} \ {NoObj} : o.status.placements # {}
PolicyPasses(old, new) ==
    old = NoObj \/ new = NoObj \/ old.status # new.status

PolicyChanges(p, new) ==
    LET hit == PolicyPasses(policy[p], new) /\ PolicyMapper(policy[p], new)
    IN  /\ policy' = [policy EXCEPT ![p] = new]
        /\ queued' = (queued \/ hit)
        /\ unseen' = IF hit THEN unseen ELSE unseen \cup {p}

RootStatusUpdate(p) ==
    /\ policy[p] # NoObj /\ policy[p].status # RootStatus(p)
    /\ PolicyChanges(p, [policy[p] EXCEPT !.status = RootStatus(p)])
    /\ UNCHANGED <<pset, statusVars, comp, binding, dec, decEvents, reconciler, events>>

(* placementDecisionMapper and placementRuleMapper ask the cache which       *)
(* bindings refer to the placement.                                          *)
PlacementDecisionMapper(n) ==
    /\ n \in decEvents
    /\ decEvents' = decEvents \ {n}
    /\ queued' = (queued \/ (binding[n] # NoObj /\ binding[n].forSet))
    /\ UNCHANGED <<setInputs, statusVars, reconciler, unseen, events>>

(* The informer delivers a status; the predicate looks at the spec only.     *)
SeeStatus ==
    /\ stream # <<>>
    /\ cached' = Head(stream) /\ stream' = Tail(stream)
    /\ UNCHANGED <<setInputs, status, decEvents, queued, reconciler, unseen, events>>

-----------------------------------------------------------------------------
(* Edits.                                                                    *)
Event == events < MaxEvents /\ events' = events + 1
Edit  == Event /\ UNCHANGED reconciler

(* A PolicySet that is created again has no status.                          *)
EditSet ==
    /\ Edit
    /\ pset' \in (SetSpec \cup {NoObj}) \ {pset}
    /\ queued' = TRUE
    /\ IF NoObj \in {pset, pset'}
       THEN status' = NoStatus /\ cached' = NoStatus /\ stream' = <<>>
       ELSE UNCHANGED statusVars
    /\ UNCHANGED <<policy, comp, binding, dec, decEvents, unseen>>

EditPolicy(p) ==
    /\ Edit
    /\ LET new == IF policy[p] = NoObj
                  THEN {[disabled |-> d, status |-> NoPolicyStatus] : d \in BOOLEAN}
                  ELSE {NoObj, [policy[p] EXCEPT !.disabled = ~@]}
       IN  \E o \in new : PolicyChanges(p, o)
    /\ UNCHANGED <<pset, statusVars, comp, binding, dec, decEvents>>

EditBinding(n) ==
    /\ Edit
    /\ \E b \in ({b \in Binding : b.forSet \/ b.direct} \cup {NoObj}) \ {binding[n]} :
          /\ binding' = [binding EXCEPT ![n] = b]
          /\ queued' = (queued \/ \E o \in {b, binding[n]} \ {NoObj} : o.forSet)
    /\ UNCHANGED <<pset, statusVars, policy, comp, dec, decEvents, unseen>>

EditDecisions(n) ==
    /\ Edit
    /\ dec' \in {[dec EXCEPT ![n] = d] : d \in (SUBSET Clusters) \ {dec[n]}}
    /\ decEvents' = decEvents \cup {n}
    /\ UNCHANGED <<pset, statusVars, policy, comp, binding, queued, unseen>>

ReportCompliance(p, c) ==
    /\ Edit
    /\ comp' \in {[comp EXCEPT ![p][c] = s] : s \in States \ {comp[p][c]}}
    /\ UNCHANGED <<pset, statusVars, policy, binding, dec, decEvents, queued, unseen>>

-----------------------------------------------------------------------------
(* Reconcile.                                                                *)

Start ==
    /\ pc = "idle" /\ queued
    /\ queued' = FALSE
    /\ IF pset = NoObj THEN UNCHANGED <<pc, todo, loc, acc>>
       ELSE /\ loc' = [spec |-> pset, status |-> cached]
            /\ acc' = NewAcc /\ todo' = pset.list
            /\ pc' = IF pset.list = <<>> THEN "patch" ELSE "child"
    /\ UNCHANGED <<setInputs, statusVars, decEvents, outdated, unseen, events>>

(* complianceInRelevantClusters                                              *)
Bug_AllClusters(st, relevant) ==
    LET found == {st[c] : c \in Clusters} IN
    IF "NonCompliant" \in found THEN "NonCompliant"
    ELSE IF "Pending" \in found THEN "Pending"
    ELSE IF "Compliant" \in found THEN "Compliant" ELSE ""

ComplianceInRelevantClusters(st, relevant) ==
    LET found == {st[c] : c \in relevant} IN
    IF "NonCompliant" \in found THEN "NonCompliant"
    ELSE IF "Pending" \in found THEN "Pending"
    ELSE IF "Compliant" \in found THEN "Compliant" ELSE ""

(* decisionsByPb: looked up for the first policy that needs them.  A binding *)
(* that is gone is skipped and looked up again for the next policy.          *)
Decisions(bs) ==
    [n \in Bindings |->
       IF n \in bs /\ acc.decisions[n] = NoObj /\ binding[n] # NoObj
       THEN [clusters |-> dec[n], forSet |-> binding[n].forSet] ELSE acc.decisions[n]]

RelevantClusters(p, bs) ==
    UNION {IF Decisions(bs)[n].forSet THEN Decisions(bs)[n].clusters \ loc.spec.excl[p]
           ELSE Decisions(bs)[n].clusters : n \in {n \in bs : Decisions(bs)[n] # NoObj}}

(* One policy of the list.  placementsByBinding grows from policy to policy. *)
Aggregate(p, bs) ==
    LET state == ComplianceInRelevantClusters(policy[p].status.clusters, RelevantClusters(p, bs))
        next  == [acc EXCEPT !.placements = bs, !.decisions = Decisions(bs)]
    IN  CASE state = "" -> [next EXCEPT !.unknown = @ \cup {p}]
          [] state = "Pending" ->
               [next EXCEPT !.pending = @ \cup {p},
                            !.compliance = IF @ = "NonCompliant" THEN @ ELSE "Pending"]
          [] OTHER ->
               [next EXCEPT !.found = @ \cup {p},
                            !.compliance = IF state = "NonCompliant" THEN state ELSE @]

(* History: a list may name a policy twice, and what changed in between stays *)
(* unseen, as both findings are in the message.                              *)
Visited(g) == g.pending \cup g.disabled \cup g.unknown \cup g.deleted \cup g.found

ProcessChild ==
    /\ pc = "child"
    /\ LET p  == Head(todo)
           bs == acc.placements \cup policy[p].status.placements
       IN  acc' = CASE policy[p] = NoObj -> [acc EXCEPT !.deleted = @ \cup {p}]
                    [] policy[p] # NoObj /\ policy[p].disabled ->
                         [acc EXCEPT !.placements = bs, !.disabled = @ \cup {p}]
                    [] OTHER -> Aggregate(p, bs)
    /\ todo' = Tail(todo) /\ unseen' = unseen \ ({Head(todo)} \ Visited(acc))
    /\ pc' = IF todo' = <<>> THEN "patch" ELSE "child"
    /\ UNCHANGED <<setInputs, statusVars, decEvents, queued, loc, outdated, events>>

ShowCompliance == acc.unknown = {} /\ acc.found \cup acc.pending # {}

BuiltStatus ==
    IF loc.spec.list = <<>> THEN NoStatus
    ELSE [placement |-> acc.placements,
          compliant |-> IF ShowCompliance THEN acc.compliance ELSE "",
          message |-> [pending |-> acc.pending, disabled |-> acc.disabled,
                       unknown |-> acc.unknown, deleted |-> acc.deleted,
                       excluded |-> loc.spec.excl # NoExclusions],
          exclusions |-> loc.spec.excl]

(* A merge patch: the fields that differ from the copy the reconcile read,   *)
(* whatever the others are by now.                                           *)
Patched ==
    [f \in DOMAIN status |-> IF BuiltStatus[f] = loc.status[f] THEN status[f] ELSE BuiltStatus[f]]
ApplyPatch ==
    /\ status' = Patched
    /\ stream' = IF Patched = status THEN stream ELSE Append(stream, Patched)
    /\ UNCHANGED cached

Return == pc' = "idle" /\ todo' = <<>> /\ loc' = NoObj /\ acc' = NoObj

NeedsUpdate == BuiltStatus # loc.status

Bug_PatchRetry == UNCHANGED queued
PatchRetry == queued' = TRUE

Patch ==
    /\ pc = "patch" /\ Return
    /\ \/ ~NeedsUpdate /\ UNCHANGED <<statusVars, queued, events>>
       \/ NeedsUpdate /\ pset # NoObj /\ ApplyPatch /\ UNCHANGED <<queued, events>>
       \/ NeedsUpdate /\ pset = NoObj /\ PatchRetry /\ UNCHANGED <<statusVars, events>>
       \/ /\ NeedsUpdate /\ pset # NoObj /\ Event /\ PatchRetry
          /\ ApplyPatch \/ UNCHANGED statusVars
    /\ outdated' = (loc.status # status)
    /\ UNCHANGED <<setInputs, decEvents, unseen>>

-----------------------------------------------------------------------------
(* The controller starts; the policies have their status, the set has none.  *)
(* No policy starts out non-compliant: a report makes it so.                 *)
SetInit ==
    /\ pset \in [list : Lists, excl : {NoExclusions}]
    /\ status = NoStatus /\ cached = NoStatus /\ stream = <<>>
    /\ comp \in {[p \in Policies |-> [c \in Clusters |-> s]] : s \in States \ {"NonCompliant"}}
    /\ binding = [n \in Bindings |-> [forSet |-> TRUE, direct |-> FALSE]]
    /\ dec = [n \in Bindings |-> Clusters] /\ decEvents = {}
    /\ policy = [p \in Policies |->
          [disabled |-> FALSE,
           status |-> IF InSet(p)
                      THEN [placements |-> Bindings, excluded |-> {}, clusters |-> comp[p]]
                      ELSE NoPolicyStatus]]
    /\ queued = TRUE /\ pc = "idle" /\ todo = <<>> /\ loc = NoObj /\ acc = NoObj
    /\ outdated = FALSE /\ unseen = {}
    /\ events = 0

Reconcile == Start \/ ProcessChild \/ Patch
Notify == SeeStatus \/ \E n \in Bindings : PlacementDecisionMapper(n)
WriteStatus == \E p \in Policies : RootStatusUpdate(p)

SetNext ==
    \/ Reconcile \/ Notify \/ WriteStatus
    \/ EditSet \/ \E p \in Policies : EditPolicy(p)
    \/ \E n \in Bindings : EditBinding(n) \/ EditDecisions(n)
    \/ \E p \in Policies, c \in Clusters : ReportCompliance(p, c)

PolicySetSpec == SetInit /\ [][SetNext]_setVars

-----------------------------------------------------------------------------
AtRest ==
    /\ stream = <<>> /\ decEvents = {} /\ ~queued /\ pc = "idle"
    /\ \A p \in Policies : policy[p] = NoObj \/ policy[p].status = RootStatus(p)

(* What the status should say, from the inputs themselves.                   *)
SetClusters(p) ==
    LET named == {n \in Bindings : binding[n] # NoObj /\ binding[n].forSet}
    IN  (UNION {dec[n] : n \in named}) \ pset.excl[p]
ReportedFor(p) == {comp[p][c] : c \in SetClusters(p)} \ {""}
Listed  == ToSet(pset.list)
Enabled == {p \in Listed : policy[p] # NoObj /\ ~policy[p].disabled}
Overall ==
    LET all == UNION {ReportedFor(p) : p \in Enabled} IN
    IF all = {} \/ \E p \in Enabled : ReportedFor(p) = {} THEN ""
    ELSE CHOOSE s \in all : \A t \in all :
           s = t \/ s = "NonCompliant" \/ (s = "Pending" /\ t = "Compliant")

(* processPolicySet: at rest the compliance of the set is the worst state    *)
(* its enabled policies report on the clusters the set places them on, and   *)
(* none while one of them reports nothing; unless the last reconcile         *)
(* compared with an old status of the set or a policy changed without an     *)
(* event for the set.                                                        *)
ComplianceUnlessOutdated ==
    AtRest /\ pset # NoObj /\ ~outdated /\ Listed \cap unseen = {} => status.compliant = Overall

(* processPolicySet, getStatusMessage, policyMapper: at rest the lists of    *)
(* deleted, disabled, silent and pending policies are right too, for every   *)
(* policy that did not change without an event for the set; unless the last  *)
(* reconcile compared with an old status of the set.                         *)
MessageUnlessUnseen ==
    AtRest /\ pset # NoObj /\ pset.list # <<>> /\ ~outdated =>
      \A p \in Listed \ unseen :
        /\ status.message # NoObj
        /\ p \in status.message.deleted  <=> policy[p] = NoObj
        /\ p \in status.message.disabled <=> policy[p] # NoObj /\ policy[p].disabled
        /\ p \in status.message.unknown  <=> p \in Enabled /\ ReportedFor(p) = {}
        /\ p \in status.message.pending  <=>
              p \in Enabled /\ "Pending" \in ReportedFor(p) /\ "NonCompliant" \notin ReportedFor(p)

=============================================================================
