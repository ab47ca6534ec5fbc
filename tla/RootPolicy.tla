----------------------------- MODULE RootPolicy -----------------------------
(***************************************************************************)
(* From a change of the root policy, a PlacementBinding, a PolicySet or a  *)
(* placement decision to the replicated policies, for one root policy.     *)
(*                                                                         *)
(* The informers update the caches (the variables of Placement, and root)  *)
(* and hand each event to every controller that watches the kind, each     *)
(* through a buffer of its own (chan):                                     *)
(*   - the root-policy-spec controller sees root policies and PolicySets;  *)
(*   - the root-policy-status controller sees bindings, decisions and      *)
(*     status updates of policies;                                         *)
(*   - the replicated-policy controller sees bindings and decisions, and   *)
(*     is sent events by the root-policy-spec controller.                  *)
(* The first two share RootPolicyLocks and write the root policy's status. *)
(* A reconcile of the replicated-policy controller is one step here, taken *)
(* once its cache has caught up; ReplicatedPolicy has the detail.          *)
(***************************************************************************)
EXTENDS Placement

CONSTANTS
    Specs,       \* the specs an enabled root policy may have
    MaxEdits,    \* bound: changes made by users and by the placement controller
    MaxErrors    \* bound: status updates that fail for no visible reason

ASSUME SpecsAssumption == Specs \cap {"gone", "disabled", "none"} = {}
ASSUME RootBoundsAssumption == MaxEdits \in Nat /\ MaxErrors \in Nat

VARIABLES
    root,          \* the cached root policy: "gone", "disabled", or its spec
    chan,          \* events on their way to a controller's handlers
    rootQ, statQ,  \* is the root policy queued for the spec / status controller?
    repQ,          \* the clusters whose replicated policy is queued
    replicas,      \* the replicated policies at the API server
    listed,        \* the clusters whose replicated policy is in the cache
    status,        \* the clusters in the root policy's status, at the API server
    cachedStatus,  \* and in the cache
    lock,          \* who holds the root policy's lock
    inst, orig,    \* the holder's copies of the root policy and of its status
    gap,           \* history: one of the gaps named below was met
    edits, errors  \* changes and failures left

controlVars == <<rootQ, statQ, repQ>>
lockVars    == <<lock, inst, orig>>
vars == <<inputs, root, chan, rootQ, statQ, repQ, replicas, listed,
          status, cachedStatus, lock, inst, orig, gap, edits, errors>>

Channels == {"rootSpec", "setSpec", "bindRep", "decRep", "bindStat", "decStat"}
Nobody == "nobody"
NoReplica == [spec |-> "none", action |-> "none"]

(* What a replicated policy is built from.                                  *)
Replica == [spec : Specs, action : {"inform", "enforce"}]

Desired(c) == IF root \in Specs /\ SingleClusterDecision(c) # "none"
              THEN [spec |-> root, action |-> SingleClusterDecision(c)]
              ELSE NoReplica

(* RootStatusUpdate: the per-cluster status lists the decided clusters, none *)
(* if the policy is disabled.                                                *)
StatusOf(r) == IF r \in Specs THEN DecidedClusters ELSE {}

Replicated == {c \in Clusters : replicas[c] # NoReplica}

-----------------------------------------------------------------------------
(* A converged system over some inputs.                                     *)
RootInit ==
    /\ binding \in [Bindings -> Binding \cup {NoObj}]
    /\ pset \in [Sets -> PolicySet \cup {NoObj}]
    /\ dec \in [Refs -> SUBSET Clusters]
    /\ root \in Specs \cup {"gone", "disabled"}
    /\ chan = [k \in Channels |-> <<>>]
    /\ rootQ = FALSE /\ statQ = FALSE /\ repQ = {}
    /\ replicas = [c \in Clusters |-> Desired(c)]
    /\ listed = Replicated
    /\ status = StatusOf(root) /\ cachedStatus = status
    /\ lock = Nobody /\ inst = "gone" /\ orig = {}
    /\ gap = FALSE
    /\ edits = MaxEdits /\ errors = MaxErrors

-----------------------------------------------------------------------------
(* Edits.  An event carries the old and the new object.                     *)

Send(kinds, e) ==
    chan' = [k \in Channels |-> IF k \in kinds THEN Append(chan[k], e) ELSE chan[k]]

Edit == /\ edits > 0
        /\ edits' = edits - 1
        /\ UNCHANGED <<controlVars, replicas, listed, lockVars, errors>>

(* The handlers of bindings and decisions work out who is affected from the  *)
(* caches as they are when the event is handled.  A change that overtakes an *)
(* event of another kind on its way to them is noted.                        *)
Overtaken(kinds) == \E k \in kinds : chan[k] # <<>>

BindingEdited(n) ==
    /\ Edit
    /\ EditBinding(n)
    /\ Send({"bindRep", "bindStat"}, [old |-> binding[n], new |-> binding'[n]])
    /\ gap' = (gap \/ Overtaken({"decRep"}))
    /\ UNCHANGED <<root, status, cachedStatus>>

DecisionsEdited(r) ==
    /\ Edit
    /\ EditDecisions(r)
    /\ Send({"decRep", "decStat"}, [ref |-> r, old |-> dec[r], new |-> dec'[r]])
    /\ gap' = (gap \/ Overtaken({"bindRep"}))
    /\ UNCHANGED <<root, status, cachedStatus>>

SetEdited(s) ==
    /\ Edit
    /\ EditSet(s)
    /\ Send({"setSpec"}, [old |-> pset[s], new |-> pset'[s]])
    /\ UNCHANGED <<root, gap, status, cachedStatus>>

(* A root policy that is created again starts without a status.              *)
RootEdited ==
    /\ Edit
    /\ root' \in (Specs \cup {"gone", "disabled"}) \ {root}
    /\ IF root' = "gone" THEN status' = {} /\ cachedStatus' = {}
                        ELSE UNCHANGED <<status, cachedStatus>>
    /\ Send({"rootSpec"}, "root")
    /\ UNCHANGED <<inputs, gap>>

Edits == \/ \E n \in Bindings : BindingEdited(n)
         \/ \E r \in Refs : DecisionsEdited(r)
         \/ \E s \in Sets : SetEdited(s)
         \/ RootEdited

-----------------------------------------------------------------------------
(* Event handlers.                                                          *)

Deliver(k) == /\ chan[k] # <<>>
              /\ chan' = [chan EXCEPT ![k] = Tail(@)]

HandlerFrame == UNCHANGED <<inputs, root, replicas, listed, status, cachedStatus,
                            lockVars, edits, errors>>

(* GetRepPoliciesInPlacementBinding.                                         *)
RepPoliciesInPlacementBinding(b) ==
    IF b # NoObj /\ IsBound(b) THEN GetDecisions(b) ELSE {}

(* GetAffectedObjs on lists without duplicates.                              *)
Bug_OnlyAdded(old, new) == new \ old
AffectedObjs(old, new) == (old \ new) \cup (new \ old)

(* handlerForBinding: Create maps the new binding; Delete takes every managed*)
(* cluster; Update takes what appears or disappears, or everything if the    *)
(* override or the filter changed.                                           *)
BindingRequests(e) ==
    LET old == RepPoliciesInPlacementBinding(e.old)
        new == RepPoliciesInPlacementBinding(e.new)
    IN  IF e.new = NoObj THEN (IF IsBound(e.old) THEN Clusters ELSE {})
        ELSE IF e.old = NoObj THEN new
        ELSE IF e.old.enforce # e.new.enforce \/ e.old.restricted # e.new.restricted
             THEN old \cup new
        ELSE AffectedObjs(old, new)

(* The comparison is blind to exclusions: a cluster bound before and after   *)
(* is not affected even if only one of the two bindings excludes it.         *)
ExclusionBlind(e) ==
    /\ e.old # NoObj /\ e.new # NoObj
    /\ \E c \in Clusters \ BindingRequests(e) :
         IsSingleClusterInDecisions(e.old, c) # IsSingleClusterInDecisions(e.new, c)

HandlerForBinding ==
    /\ Deliver("bindRep")
    /\ repQ' = repQ \cup BindingRequests(Head(chan["bindRep"]))
    /\ gap' = (gap \/ ExclusionBlind(Head(chan["bindRep"])))
    /\ UNCHANGED <<rootQ, statQ>>
    /\ HandlerFrame

(* GetRootPolicyRequests: the policy is bound by a binding to the placement. *)
BoundTo(r) == \E n \in Existing : binding[n].ref = r /\ IsBound(binding[n])

(* handlerForDecision and handlerForRule.                                    *)
HandlerForDecision ==
    /\ Deliver("decRep")
    /\ LET e == Head(chan["decRep"]) IN
         repQ' = IF BoundTo(e.ref) THEN repQ \cup AffectedObjs(e.old, e.new) ELSE repQ
    /\ UNCHANGED <<rootQ, statQ, gap>>
    /\ HandlerFrame

(* mapBindingToPolicies is applied to the old and to the new binding.        *)
Bug_OnlyNew(e) == {e.new} \ {NoObj}
MappedBindings(e) == {e.old, e.new} \ {NoObj}

MapBindingToPolicies ==
    /\ Deliver("bindStat")
    /\ LET e == Head(chan["bindStat"]) IN
         statQ' = (statQ \/ \E b \in MappedBindings(e) : IsBound(b))
    /\ UNCHANGED <<rootQ, repQ, gap>>
    /\ HandlerFrame

MapDecisionToPolicies ==
    /\ Deliver("decStat")
    /\ statQ' = (statQ \/ BoundTo(Head(chan["decStat"]).ref))
    /\ UNCHANGED <<rootQ, repQ, gap>>
    /\ HandlerFrame

(* EnqueueRequestsFromPolicySet: every listed policy, on updates those of    *)
(* getPolicySetDiffs.                                                        *)
Lists(s) == s # NoObj /\ s.listed
PolicySetDiffs(old, new) ==
    old.listed # new.listed \/ old.excluded # new.excluded

HandlerForPolicySet ==
    /\ Deliver("setSpec")
    /\ LET e == Head(chan["setSpec"]) IN
         rootQ' = (rootQ \/ IF e.old # NoObj /\ e.new # NoObj
                            THEN PolicySetDiffs(e.old, e.new)
                            ELSE Lists(e.old) \/ Lists(e.new))
    /\ UNCHANGED <<statQ, repQ, gap>>
    /\ HandlerFrame

HandlerForRoot ==
    /\ Deliver("rootSpec")
    /\ rootQ' = TRUE
    /\ UNCHANGED <<statQ, repQ, gap>>
    /\ HandlerFrame

(* The cache learns of a status update; policyStatusPredicate lets it pass.  *)
StatusInformer ==
    /\ cachedStatus # status
    /\ cachedStatus' = status
    /\ statQ' = TRUE
    /\ UNCHANGED <<inputs, root, chan, rootQ, repQ, replicas, listed, status,
                   lockVars, gap, edits, errors>>

(* A managed cluster reports the compliance of its replicated policy.        *)
ReplicaStatus ==
    /\ listed # {} /\ ~statQ
    /\ statQ' = TRUE
    /\ UNCHANGED <<inputs, root, chan, rootQ, repQ, replicas, listed, status,
                   cachedStatus, lockVars, gap, edits, errors>>

(* The cache learns of a created or deleted replicated policy; the event is  *)
(* the controller's own and is skipped.                                      *)
ReplicaInformer ==
    /\ listed # Replicated
    /\ listed' = Replicated
    /\ UNCHANGED <<inputs, root, chan, controlVars, replicas, status,
                   cachedStatus, lockVars, gap, edits, errors>>

Handlers == \/ HandlerForBinding \/ HandlerForDecision \/ HandlerForPolicySet
            \/ HandlerForRoot \/ MapBindingToPolicies \/ MapDecisionToPolicies
            \/ StatusInformer \/ ReplicaInformer

-----------------------------------------------------------------------------
(* Reconcilers.                                                             *)

Bug_NoUnlock == UNCHANGED lockVars
Unlock == lock' = Nobody /\ inst' = "gone" /\ orig' = {}

(* The root-policy-spec reconciler finds the replicated policies to remove   *)
(* in the cache if the root policy is gone, in its cached status if it is    *)
(* enabled, in both if it is disabled.  One that was just created may be in  *)
(* neither, and the status controller may have dropped its cluster already.  *)
Unnamed ==
    ~(Replicated \subseteq repQ \cup StatusOf(root) \cup (IF root \in Specs THEN {} ELSE listed)
                                   \cup (IF root = "gone" THEN {} ELSE cachedStatus))

(* RootPolicyReconciler.Reconcile: the lock, the root policy from the cache, *)
(* and updateExistingReplicas if it is gone or disabled.                     *)
RootReconcile ==
    /\ rootQ /\ lock = Nobody
    /\ rootQ' = FALSE
    /\ repQ' = IF root \in Specs THEN repQ ELSE repQ \cup listed
    /\ IF root = "gone"
       THEN UNCHANGED lockVars
       ELSE lock' = "spec" /\ inst' = root /\ orig' = cachedStatus
    /\ gap' = (gap \/ Unnamed)
    /\ UNCHANGED <<inputs, root, chan, statQ, replicas, listed, status,
                   cachedStatus, edits, errors>>

(* RootStatusUpdate: the policy is read again, the copy at hand serves if it *)
(* is gone; the status is written unless the one read is right.              *)
Refreshed == IF root = "gone" THEN orig ELSE cachedStatus
Writable  == root # "gone" /\ cachedStatus = status

StatusUpdated(new) ==
    /\ IF Refreshed = new THEN UNCHANGED status ELSE Writable /\ status' = new
    /\ UNCHANGED errors

(* The write fails if the policy read is not the live one, and may fail for  *)
(* other reasons, even after it was made.                                    *)
StatusUpdateFails(new) ==
    /\ Refreshed # new
    /\ \/ ~Writable /\ UNCHANGED <<status, errors>>
       \/ /\ Writable /\ errors > 0
          /\ status' \in {status, new}
          /\ errors' = errors - 1

(* handleRootPolicy: the status, then an event for each decided cluster and, *)
(* by cleanUpOrphanedRplPolicies, for those only the original status has.    *)
HandleRootPolicy ==
    /\ lock = "spec"
    /\ StatusUpdated(StatusOf(inst))
    /\ repQ' = repQ \cup StatusOf(inst) \cup (orig \ StatusOf(inst))
    /\ Unlock
    /\ UNCHANGED <<inputs, root, chan, rootQ, statQ, replicas, listed,
                   cachedStatus, gap, edits>>

(* The status could not be written: the request is retried.                  *)
HandleRootPolicyFails ==
    /\ lock = "spec"
    /\ StatusUpdateFails(StatusOf(inst))
    /\ rootQ' = TRUE
    /\ Unlock
    /\ UNCHANGED <<inputs, root, chan, statQ, repQ, replicas, listed,
                   cachedStatus, gap, edits>>

(* RootPolicyStatusReconciler.Reconcile.                                     *)
StatusReconcile ==
    /\ statQ /\ lock = Nobody
    /\ statQ' = FALSE
    /\ IF root = "gone"
       THEN UNCHANGED lockVars
       ELSE lock' = "status" /\ inst' = root /\ orig' = cachedStatus
    /\ UNCHANGED <<inputs, root, chan, rootQ, repQ, replicas, listed, status,
                   cachedStatus, gap, edits, errors>>

StatusUpdate ==
    /\ lock = "status"
    /\ \/ StatusUpdated(StatusOf(inst)) /\ UNCHANGED statQ
       \/ StatusUpdateFails(StatusOf(inst)) /\ statQ' = TRUE
    /\ Unlock
    /\ UNCHANGED <<inputs, root, chan, rootQ, repQ, replicas, listed,
                   cachedStatus, gap, edits>>

(* The replicated-policy reconciler.                                         *)
ReplicatedReconcile ==
    /\ \E c \in repQ :
         /\ (c \in listed) = (replicas[c] # NoReplica)
         /\ repQ' = repQ \ {c}
         /\ replicas' = [replicas EXCEPT ![c] = Desired(c)]
    /\ UNCHANGED <<inputs, root, chan, rootQ, statQ, listed, status,
                   cachedStatus, lockVars, gap, edits, errors>>

Reconcilers == \/ RootReconcile \/ HandleRootPolicy \/ HandleRootPolicyFails
               \/ StatusReconcile \/ StatusUpdate \/ ReplicatedReconcile

-----------------------------------------------------------------------------
Settled ==
    /\ \A k \in Channels : chan[k] = <<>>
    /\ ~rootQ /\ ~statQ /\ repQ = {} /\ lock = Nobody
    /\ cachedStatus = status /\ listed = Replicated

(* Resting is not a deadlock.                                               *)
AtRest == Settled /\ UNCHANGED vars

RootNext == Edits \/ ReplicaStatus \/ Handlers \/ Reconcilers \/ AtRest

(* Every handler and worker is a goroutine that keeps running; a mutex is    *)
(* not denied to a waiting goroutine forever.                                *)
RootFairness ==
    /\ WF_vars(HandlerForBinding) /\ WF_vars(HandlerForDecision)
    /\ WF_vars(HandlerForPolicySet) /\ WF_vars(HandlerForRoot)
    /\ WF_vars(MapBindingToPolicies) /\ WF_vars(MapDecisionToPolicies)
    /\ WF_vars(StatusInformer) /\ WF_vars(ReplicaInformer)
    /\ SF_vars(RootReconcile) /\ SF_vars(StatusReconcile)
    /\ WF_vars(HandleRootPolicy \/ HandleRootPolicyFails) /\ WF_vars(StatusUpdate)
    /\ WF_vars(ReplicatedReconcile)

RootSpec == RootInit /\ [][RootNext]_vars /\ RootFairness

-----------------------------------------------------------------------------
(* Every variable has its type, and locals are reset when the lock is free.  *)
RootTypeOK ==
    /\ PlacementTypeOK
    /\ root \in Specs \cup {"gone", "disabled"}
    /\ DOMAIN chan = Channels
    /\ rootQ \in BOOLEAN /\ statQ \in BOOLEAN /\ repQ \subseteq Clusters
    /\ replicas \in [Clusters -> Replica \cup {NoReplica}]
    /\ listed \subseteq Clusters
    /\ status \subseteq Clusters /\ cachedStatus \subseteq Clusters
    /\ lock \in {Nobody, "spec", "status"}
    /\ inst \in Specs \cup {"gone", "disabled"} /\ orig \subseteq Clusters
    /\ lock = Nobody => inst = "gone" /\ orig = {}
    /\ gap \in BOOLEAN /\ edits \in 0 .. MaxEdits /\ errors \in 0 .. MaxErrors

(* The three controllers together: when everything has settled, exactly the  *)
(* clusters the inputs place the policy on have a replicated policy, built   *)
(* from the present root policy and override, whatever was edited in which   *)
(* order; the exceptions are the gaps Overtaken, ExclusionBlind and Unnamed. *)
ReplicasUnlessGap ==
    Settled /\ ~gap => \A c \in Clusters : replicas[c] = Desired(c)

(* RootStatusUpdate and its two callers: when everything has settled, the    *)
(* root policy's status lists the decided clusters, without exception.       *)
StatusCorrect == Settled /\ root # "gone" => status = StatusOf(root)

(* The controllers always settle again: no conflict between the two writers  *)
(* of the status, no retry and no event of their own goes on forever.        *)
AlwaysSettles == <>[][~ReplicaStatus]_vars => []<>Settled

(* handlerForBinding.Update, "Update only targeted(modified) objects": every *)
(* cluster the policy gains or loses through the update is queued.           *)
UpdateTargetsModified ==
    chan["bindRep"] # <<>> =>
        LET e == Head(chan["bindRep"]) IN
          e.old # NoObj /\ e.new # NoObj =>
             \A c \in Clusters :
                IsSingleClusterInDecisions(e.old, c) # IsSingleClusterInDecisions(e.new, c)
                  => c \in BindingRequests(e)

=============================================================================
