--------------------------- MODULE RootPolicy_proofs ---------------------------
(***************************************************************************)
(* The replicated policies and the status of a root policy once everything  *)
(* has settled, for any number of clusters, bindings, PolicySets, placements,*)
(* edits and failures.  The invariant says who is going to put right what is *)
(* not: an event on its way to a handler that will queue the right           *)
(* reconcile, given the inputs as they are by now; a queue; or a reconcile.  *)
(***************************************************************************)
EXTENDS RootPolicy, Placement_proofs, SequenceLemmas, TLAPS

-----------------------------------------------------------------------------
(* Types, with those of the events.                                          *)
BindingEvent  == [old : Binding \cup {NoObj}, new : Binding \cup {NoObj}]
DecisionEvent == [ref : Refs, old : SUBSET Clusters, new : SUBSET Clusters]
SetEvent      == [old : PolicySet \cup {NoObj}, new : PolicySet \cup {NoObj}]

ChannelsOK ==
    /\ chan["bindRep"] \in Seq(BindingEvent) /\ chan["bindStat"] \in Seq(BindingEvent)
    /\ chan["decRep"] \in Seq(DecisionEvent) /\ chan["decStat"] \in Seq(DecisionEvent)
    /\ chan["setSpec"] \in Seq(SetEvent)     /\ chan["rootSpec"] \in Seq({"root"})

TypeInv == RootTypeOK /\ ChannelsOK

LEMMA StatusType == ASSUME NEW r PROVE StatusOf(r) \subseteq Clusters
BY DEF StatusOf, DecidedClusters

LEMMA DesiredType ==
    ASSUME NEW c
    PROVE  Desired(c) \in Replica \cup {NoReplica}
<1>1. SingleClusterDecision(c) \in {"none", "enforce", "inform"}
  BY DEF SingleClusterDecision
<1> QED
  BY <1>1 DEF Desired, Replica

LEMMA RequestsType ==
    ASSUME PlacementTypeOK, NEW e \in BindingEvent
    PROVE  BindingRequests(e) \subseteq Clusters
<1>1. \A b \in Binding \cup {NoObj} : RepPoliciesInPlacementBinding(b) \subseteq Clusters
  BY DEF PlacementTypeOK, RepPoliciesInPlacementBinding, GetDecisions, HasValidPlacementRef, Binding
<1>2. e.old \in Binding \cup {NoObj} /\ e.new \in Binding \cup {NoObj}
  BY DEF BindingEvent
<1> QED
  BY <1>1, <1>2 DEF BindingRequests, AffectedObjs

(* A channel gives up its first event or takes a new one.                    *)
LEMMA DeliverChannels ==
    ASSUME TypeInv, NEW k \in Channels, Deliver(k)
    PROVE  /\ ChannelsOK' /\ DOMAIN chan' = Channels /\ chan'[k] = Tail(chan[k])
           /\ \A j \in Channels : j # k => chan'[j] = chan[j]
           /\ chan[k] # <<>>
<1>1. /\ chan'[k] = Tail(chan[k]) /\ DOMAIN chan' = Channels /\ chan[k] # <<>>
      /\ \A j \in Channels : j # k => chan'[j] = chan[j]
  BY DEF Deliver, TypeInv, RootTypeOK
<1>2. \A S : chan[k] \in Seq(S) => chan'[k] \in Seq(S)
  BY <1>1, ToSetTail
<1>3. \A j \in Channels : \A S : chan[j] \in Seq(S) => chan'[j] \in Seq(S)
  BY <1>1, <1>2
<1> QED
  BY <1>1, <1>3 DEF TypeInv, ChannelsOK, Channels

LEMMA SendChannels ==
    ASSUME TypeInv, NEW kinds \in SUBSET Channels, NEW e, Send(kinds, e),
           "bindRep" \in kinds \/ "bindStat" \in kinds => e \in BindingEvent,
           "decRep" \in kinds \/ "decStat" \in kinds => e \in DecisionEvent,
           "setSpec" \in kinds => e \in SetEvent,
           "rootSpec" \in kinds => e = "root"
    PROVE  /\ ChannelsOK' /\ DOMAIN chan' = Channels
           /\ \A k \in kinds : ToSet(chan'[k]) = ToSet(chan[k]) \cup {e} /\ chan'[k] # <<>>
           /\ \A k \in Channels \ kinds : chan'[k] = chan[k]
<1>1. /\ DOMAIN chan' = Channels /\ \A k \in kinds : chan'[k] = Append(chan[k], e)
      /\ \A k \in Channels \ kinds : chan'[k] = chan[k]
  BY DEF Send
<1>2. ASSUME NEW k \in Channels, NEW S, chan[k] \in Seq(S), k \in kinds => e \in S
      PROVE  /\ chan'[k] \in Seq(S)
             /\ k \in kinds => ToSet(chan'[k]) = ToSet(chan[k]) \cup {e} /\ chan'[k] # <<>>
  <2>1. CASE k \in kinds
    <3>1. e \in S /\ chan[k] \in Seq(S) /\ chan'[k] = Append(chan[k], e)
      BY <1>1, <1>2, <2>1
    <3>2. PICK q \in Seq(S) : q = chan[k]
      BY <3>1
    <3>3. ToSet(Append(q, e)) = ToSet(q) \cup {e} /\ Append(q, e) \in Seq(S) /\ Append(q, e) # <<>>
      BY <3>1, ToSetAppend
    <3> QED
      BY <3>1, <3>2, <3>3
  <2>2. CASE k \notin kinds
    BY <1>1, <1>2, <2>2
  <2> QED
    BY <2>1, <2>2
<1>3. chan'["bindRep"] \in Seq(BindingEvent) /\ ("bindRep" \in kinds =>
         ToSet(chan'["bindRep"]) = ToSet(chan["bindRep"]) \cup {e} /\ chan'["bindRep"] # <<>>)
  BY <1>2 DEF TypeInv, ChannelsOK, Channels
<1>4. chan'["bindStat"] \in Seq(BindingEvent) /\ ("bindStat" \in kinds =>
         ToSet(chan'["bindStat"]) = ToSet(chan["bindStat"]) \cup {e} /\ chan'["bindStat"] # <<>>)
  BY <1>2 DEF TypeInv, ChannelsOK, Channels
<1>5. chan'["decRep"] \in Seq(DecisionEvent) /\ ("decRep" \in kinds =>
         ToSet(chan'["decRep"]) = ToSet(chan["decRep"]) \cup {e} /\ chan'["decRep"] # <<>>)
  BY <1>2 DEF TypeInv, ChannelsOK, Channels
<1>6. chan'["decStat"] \in Seq(DecisionEvent) /\ ("decStat" \in kinds =>
         ToSet(chan'["decStat"]) = ToSet(chan["decStat"]) \cup {e} /\ chan'["decStat"] # <<>>)
  BY <1>2 DEF TypeInv, ChannelsOK, Channels
<1>7. chan'["setSpec"] \in Seq(SetEvent) /\ ("setSpec" \in kinds =>
         ToSet(chan'["setSpec"]) = ToSet(chan["setSpec"]) \cup {e} /\ chan'["setSpec"] # <<>>)
  BY <1>2 DEF TypeInv, ChannelsOK, Channels
<1>8. chan'["rootSpec"] \in Seq({"root"}) /\ ("rootSpec" \in kinds =>
         ToSet(chan'["rootSpec"]) = ToSet(chan["rootSpec"]) \cup {e} /\ chan'["rootSpec"] # <<>>)
  BY <1>2 DEF TypeInv, ChannelsOK, Channels
<1>9. ChannelsOK'
  BY <1>3, <1>4, <1>5, <1>6, <1>7, <1>8 DEF ChannelsOK
<1>10. \A k \in kinds : ToSet(chan'[k]) = ToSet(chan[k]) \cup {e} /\ chan'[k] # <<>>
  BY <1>3, <1>4, <1>5, <1>6, <1>7, <1>8 DEF Channels
<1> QED
  BY <1>1, <1>9, <1>10

(* The events of the edits.                                                  *)
LEMMA BindingSent ==
    ASSUME TypeInv, NEW n \in Bindings, BindingEdited(n), NEW e,
           e = [old |-> binding[n], new |-> binding'[n]]
    PROVE  /\ e \in BindingEvent /\ ChannelsOK' /\ DOMAIN chan' = Channels
           /\ \A k \in {"bindRep", "bindStat"} : ToSet(chan'[k]) = ToSet(chan[k]) \cup {e}
           /\ \A k \in Channels \ {"bindRep", "bindStat"} : chan'[k] = chan[k]
           /\ binding' = [binding EXCEPT ![n] = e.new] /\ e.old = binding[n]
           /\ e.new = binding'[n] /\ UNCHANGED <<pset, dec>>
<1>1. binding \in [Bindings -> Binding \cup {NoObj}]
  BY DEF TypeInv, RootTypeOK, PlacementTypeOK
<1>2. PICK b \in Binding \cup {NoObj} : binding' = [binding EXCEPT ![n] = b]
  BY DEF BindingEdited, EditBinding
<1>3. e = [old |-> binding[n], new |-> b] /\ b = binding'[n]
  BY <1>1, <1>2
<1>4. e \in BindingEvent /\ e.old = binding[n] /\ e.new = b
  BY <1>1, <1>3 DEF BindingEvent
<1>5. {"bindRep", "bindStat"} \in SUBSET Channels /\ Send({"bindRep", "bindStat"}, e)
  BY DEF BindingEdited, Channels
<1>6. UNCHANGED <<pset, dec>>
  BY DEF BindingEdited, EditBinding
<1> QED
  BY <1>2, <1>3, <1>4, <1>5, <1>6, SendChannels

LEMMA DecisionsSent ==
    ASSUME TypeInv, NEW r \in Refs, DecisionsEdited(r), NEW e,
           e = [ref |-> r, old |-> dec[r], new |-> dec'[r]]
    PROVE  /\ e \in DecisionEvent /\ ChannelsOK' /\ DOMAIN chan' = Channels
           /\ \A k \in {"decRep", "decStat"} : ToSet(chan'[k]) = ToSet(chan[k]) \cup {e}
           /\ \A k \in Channels \ {"decRep", "decStat"} : chan'[k] = chan[k]
           /\ dec' = [dec EXCEPT ![r] = e.new] /\ e.old = dec[r] /\ e.ref = r
           /\ e.new = dec'[r] /\ UNCHANGED <<pset, binding>>
<1>1. dec \in [Refs -> SUBSET Clusters]
  BY DEF TypeInv, RootTypeOK, PlacementTypeOK
<1>2. PICK d \in SUBSET Clusters : dec' = [dec EXCEPT ![r] = d]
  BY DEF DecisionsEdited, EditDecisions
<1>3. e = [ref |-> r, old |-> dec[r], new |-> d] /\ d = dec'[r]
  BY <1>1, <1>2
<1>4. e \in DecisionEvent /\ e.old = dec[r] /\ e.new = d /\ e.ref = r
  BY <1>1, <1>3 DEF DecisionEvent
<1>5. {"decRep", "decStat"} \in SUBSET Channels /\ Send({"decRep", "decStat"}, e)
  BY DEF DecisionsEdited, Channels
<1>6. UNCHANGED <<pset, binding>>
  BY DEF DecisionsEdited, EditDecisions
<1> QED
  BY <1>2, <1>3, <1>4, <1>5, <1>6, SendChannels

LEMMA SetSent ==
    ASSUME TypeInv, NEW s \in Sets, SetEdited(s), NEW e,
           e = [old |-> pset[s], new |-> pset'[s]]
    PROVE  /\ e \in SetEvent /\ ChannelsOK' /\ DOMAIN chan' = Channels
           /\ ToSet(chan'["setSpec"]) = ToSet(chan["setSpec"]) \cup {e}
           /\ \A k \in Channels \ {"setSpec"} : chan'[k] = chan[k]
           /\ pset' = [pset EXCEPT ![s] = e.new] /\ e.old = pset[s]
           /\ e.new = pset'[s] /\ UNCHANGED <<binding, dec>>
<1>1. pset \in [Sets -> PolicySet \cup {NoObj}]
  BY DEF TypeInv, RootTypeOK, PlacementTypeOK
<1>2. PICK p \in PolicySet \cup {NoObj} : pset' = [pset EXCEPT ![s] = p]
  BY DEF SetEdited, EditSet
<1>3. e = [old |-> pset[s], new |-> p] /\ p = pset'[s]
  BY <1>1, <1>2
<1>4. e \in SetEvent /\ e.old = pset[s] /\ e.new = p
  BY <1>1, <1>3 DEF SetEvent
<1>5. {"setSpec"} \in SUBSET Channels /\ Send({"setSpec"}, e)
  BY DEF SetEdited, Channels
<1>6. UNCHANGED <<binding, dec>>
  BY DEF SetEdited, EditSet
<1> QED
  BY <1>2, <1>3, <1>4, <1>5, <1>6, SendChannels

LEMMA RootSent ==
    ASSUME TypeInv, RootEdited
    PROVE  /\ ChannelsOK' /\ DOMAIN chan' = Channels /\ chan'["rootSpec"] # <<>>
           /\ \A k \in Channels \ {"rootSpec"} : chan'[k] = chan[k]
<1>1. {"rootSpec"} \in SUBSET Channels /\ Send({"rootSpec"}, "root")
  BY DEF RootEdited, Channels
<1> QED
  BY <1>1, SendChannels

LEMMA InitTypeInv == RootInit => TypeInv
<1> SUFFICES ASSUME RootInit PROVE TypeInv
  OBVIOUS
<1>1. PlacementTypeOK /\ root \in Specs \cup {"gone", "disabled"}
  BY DEF RootInit, PlacementTypeOK
<1>2. DOMAIN chan = Channels /\ ChannelsOK
  BY DEF RootInit, Channels, ChannelsOK
<1>3. replicas \in [Clusters -> Replica \cup {NoReplica}]
  BY DesiredType DEF RootInit
<1>4. listed \subseteq Clusters /\ repQ \subseteq Clusters /\ orig \subseteq Clusters
  BY DEF RootInit, Replicated
<1>5. status \subseteq Clusters /\ cachedStatus \subseteq Clusters
  BY StatusType DEF RootInit
<1>6. /\ lock = Nobody /\ inst = "gone" /\ orig = {}
      /\ edits \in 0 .. MaxEdits /\ errors \in 0 .. MaxErrors
  BY RootBoundsAssumption DEF RootInit
<1>7. rootQ \in BOOLEAN /\ statQ \in BOOLEAN /\ gap \in BOOLEAN
  BY DEF RootInit
<1> QED
  BY <1>1, <1>2, <1>3, <1>4, <1>5, <1>6, <1>7 DEF TypeInv, RootTypeOK

LEMMA EditsTypeInv == ASSUME TypeInv, Edits PROVE TypeInv'
<1> USE DEF controlVars, lockVars, inputs
<1>0. PlacementTypeOK /\ edits \in 0 .. MaxEdits /\ status \subseteq Clusters
      /\ cachedStatus \subseteq Clusters /\ gap \in BOOLEAN
  BY DEF TypeInv, RootTypeOK
<1>1. ASSUME Edit PROVE /\ edits' \in 0 .. MaxEdits
                        /\ UNCHANGED <<rootQ, statQ, repQ, replicas, listed, lock, inst, orig, errors>>
  BY <1>0, <1>1, RootBoundsAssumption DEF Edit
<1>2. ASSUME NEW n \in Bindings, BindingEdited(n) PROVE TypeInv'
  <2>1. ChannelsOK' /\ DOMAIN chan' = Channels
    BY <1>2, BindingSent
  <2>2. PlacementTypeOK'
    BY <1>0, <1>2, EditKeepsTypes DEF BindingEdited, EditInputs
  <2>3. Edit /\ gap' \in BOOLEAN /\ UNCHANGED <<root, status, cachedStatus>>
    BY <1>2 DEF BindingEdited
  <2> QED
    BY <1>1, <2>1, <2>2, <2>3 DEF TypeInv, RootTypeOK
<1>3. ASSUME NEW r \in Refs, DecisionsEdited(r) PROVE TypeInv'
  <2>1. ChannelsOK' /\ DOMAIN chan' = Channels
    BY <1>3, DecisionsSent
  <2>2. PlacementTypeOK'
    BY <1>0, <1>3, EditKeepsTypes DEF DecisionsEdited, EditInputs
  <2>3. Edit /\ gap' \in BOOLEAN /\ UNCHANGED <<root, status, cachedStatus>>
    BY <1>3 DEF DecisionsEdited
  <2> QED
    BY <1>1, <2>1, <2>2, <2>3 DEF TypeInv, RootTypeOK
<1>4. ASSUME NEW s \in Sets, SetEdited(s) PROVE TypeInv'
  <2>1. ChannelsOK' /\ DOMAIN chan' = Channels
    BY <1>4, SetSent
  <2>2. PlacementTypeOK'
    BY <1>0, <1>4, EditKeepsTypes DEF SetEdited, EditInputs
  <2>3. Edit /\ gap' \in BOOLEAN /\ UNCHANGED <<root, status, cachedStatus>>
    BY <1>0, <1>4 DEF SetEdited
  <2> QED
    BY <1>1, <2>1, <2>2, <2>3 DEF TypeInv, RootTypeOK
<1>5. ASSUME RootEdited PROVE TypeInv'
  <2>1. ChannelsOK' /\ DOMAIN chan' = Channels
    BY <1>5, RootSent
  <2>2. PlacementTypeOK'
    BY <1>0, <1>5 DEF RootEdited, PlacementTypeOK
  <2>3. /\ Edit /\ gap' = gap /\ root' \in Specs \cup {"gone", "disabled"}
        /\ status' \subseteq Clusters /\ cachedStatus' \subseteq Clusters
    BY <1>0, <1>5 DEF RootEdited
  <2> QED
    BY <1>1, <2>1, <2>2, <2>3 DEF TypeInv, RootTypeOK
<1> QED
  BY <1>2, <1>3, <1>4, <1>5 DEF Edits

LEMMA HandlersTypeInv == ASSUME TypeInv, Handlers \/ ReplicaStatus PROVE TypeInv'
<1> USE DEF controlVars, lockVars, inputs
<1>0. /\ PlacementTypeOK /\ rootQ \in BOOLEAN /\ statQ \in BOOLEAN /\ gap \in BOOLEAN
      /\ repQ \subseteq Clusters
  BY DEF TypeInv, RootTypeOK
<1>1. ASSUME HandlerFrame, NEW k \in Channels, Deliver(k), rootQ' \in BOOLEAN, statQ' \in BOOLEAN,
             repQ' \subseteq Clusters, gap' \in BOOLEAN
      PROVE  TypeInv'
  <2>1. ChannelsOK' /\ DOMAIN chan' = Channels
    BY <1>1, DeliverChannels
  <2>2. PlacementTypeOK'
    BY <1>0, <1>1 DEF HandlerFrame, PlacementTypeOK
  <2> QED
    BY <1>1, <2>1, <2>2 DEF TypeInv, RootTypeOK, HandlerFrame
<1>2. \A k \in Channels : \A S : chan[k] \in Seq(S) /\ chan[k] # <<>> => Head(chan[k]) \in S
  BY ToSetTail
<1>3. CASE HandlerForBinding
  <2>1. HandlerFrame /\ Deliver("bindRep") /\ gap' \in BOOLEAN /\ UNCHANGED <<rootQ, statQ>>
    BY <1>3 DEF HandlerForBinding
  <2>2. PICK e : e = Head(chan["bindRep"])
    OBVIOUS
  <2>3. e \in BindingEvent
    BY <1>2, <2>1, <2>2 DEF Deliver, TypeInv, ChannelsOK, Channels
  <2>4. repQ' = repQ \cup BindingRequests(e)
    BY <1>3, <2>2 DEF HandlerForBinding
  <2>5. repQ' \subseteq Clusters
    BY <1>0, <2>3, <2>4, RequestsType
  <2> QED
    BY <1>0, <1>1, <2>1, <2>5 DEF Channels
<1>4. CASE HandlerForDecision
  <2>1. HandlerFrame /\ Deliver("decRep") /\ UNCHANGED <<rootQ, statQ, gap>>
    BY <1>4 DEF HandlerForDecision
  <2>2. PICK e : e = Head(chan["decRep"])
    OBVIOUS
  <2>3. e \in DecisionEvent
    BY <1>2, <2>1, <2>2 DEF Deliver, TypeInv, ChannelsOK, Channels
  <2>4. repQ' \subseteq repQ \cup AffectedObjs(e.old, e.new)
    BY <1>4, <2>2 DEF HandlerForDecision
  <2>5. repQ' \subseteq Clusters
    BY <1>0, <2>3, <2>4 DEF AffectedObjs, DecisionEvent
  <2> QED
    BY <1>0, <1>1, <2>1, <2>5 DEF Channels
<1>5. CASE HandlerForPolicySet
  <2>1. HandlerFrame /\ Deliver("setSpec") /\ UNCHANGED <<repQ, statQ, gap>> /\ rootQ' \in BOOLEAN
    BY <1>5 DEF HandlerForPolicySet
  <2> QED
    BY <1>0, <1>1, <2>1 DEF Channels
<1>6. CASE HandlerForRoot
  <2>1. HandlerFrame /\ Deliver("rootSpec") /\ UNCHANGED <<repQ, statQ, gap>> /\ rootQ' \in BOOLEAN
    BY <1>6 DEF HandlerForRoot
  <2> QED
    BY <1>0, <1>1, <2>1 DEF Channels
<1>7. CASE MapBindingToPolicies
  <2>1. HandlerFrame /\ Deliver("bindStat") /\ UNCHANGED <<repQ, rootQ, gap>> /\ statQ' \in BOOLEAN
    BY <1>7 DEF MapBindingToPolicies
  <2> QED
    BY <1>0, <1>1, <2>1 DEF Channels
<1>8. CASE MapDecisionToPolicies
  <2>1. HandlerFrame /\ Deliver("decStat") /\ UNCHANGED <<repQ, rootQ, gap>> /\ statQ' \in BOOLEAN
    BY <1>8 DEF MapDecisionToPolicies
  <2> QED
    BY <1>0, <1>1, <2>1 DEF Channels
<1>9. CASE StatusInformer
  BY <1>9 DEF StatusInformer, TypeInv, RootTypeOK, PlacementTypeOK, ChannelsOK
<1>10. CASE ReplicaInformer
  BY <1>10 DEF ReplicaInformer, Replicated, TypeInv, RootTypeOK, PlacementTypeOK, ChannelsOK
<1>11. CASE ReplicaStatus
  BY <1>11 DEF ReplicaStatus, TypeInv, RootTypeOK, PlacementTypeOK, ChannelsOK
<1> QED
  BY <1>3, <1>4, <1>5, <1>6, <1>7, <1>8, <1>9, <1>10, <1>11 DEF Handlers

LEMMA ReconcilersTypeInv == ASSUME TypeInv, Reconcilers PROVE TypeInv'
<1> USE DEF controlVars, lockVars, inputs
<1>0. RootTypeOK /\ ChannelsOK /\ PlacementTypeOK
  BY DEF TypeInv, RootTypeOK
<1>1. ASSUME UNCHANGED <<inputs, root, chan>> PROVE PlacementTypeOK' /\ ChannelsOK' /\ UNCHANGED <<root, chan>>
  BY <1>0, <1>1 DEF PlacementTypeOK, ChannelsOK
<1>2. ASSUME NEW new \in SUBSET Clusters, StatusUpdated(new) \/ StatusUpdateFails(new)
      PROVE  status' \subseteq Clusters /\ errors' \in 0 .. MaxErrors
  <2>1. errors \in 0 .. MaxErrors /\ status \subseteq Clusters
    BY <1>0 DEF RootTypeOK
  <2>2. CASE StatusUpdated(new)
    BY <2>1, <2>2 DEF StatusUpdated
  <2>3. CASE StatusUpdateFails(new)
    <3>1. status' \subseteq Clusters
      BY <2>1, <2>3 DEF StatusUpdateFails
    <3>2. errors' = errors \/ (errors > 0 /\ errors' = errors - 1)
      BY <2>3 DEF StatusUpdateFails
    <3>3. errors' \in 0 .. MaxErrors
      BY <2>1, <3>2, RootBoundsAssumption
    <3> QED
      BY <3>1, <3>3
  <2> QED
    BY <1>2, <2>2, <2>3
<1>3. ASSUME Unlock PROVE lock' = Nobody /\ inst' = "gone" /\ orig' = {}
  BY <1>3 DEF Unlock
<1>4. CASE RootReconcile
  <2>1. /\ UNCHANGED <<inputs, root, chan>>
        /\ UNCHANGED <<statQ, replicas, listed, status, cachedStatus, edits, errors>>
    BY <1>4 DEF RootReconcile
  <2>2. rootQ' \in BOOLEAN /\ gap' \in BOOLEAN
    BY <1>4 DEF RootReconcile
  <2>3. repQ' \subseteq Clusters
    BY <1>0, <1>4 DEF RootReconcile, RootTypeOK
  <2>4. /\ lock' \in {Nobody, "spec", "status"}
        /\ inst' \in Specs \cup {"gone", "disabled"} /\ orig' \subseteq Clusters
        /\ lock' = Nobody => inst' = "gone" /\ orig' = {}
    BY <1>0, <1>4 DEF RootReconcile, RootTypeOK, Nobody
  <2> QED
    BY <1>0, <1>1, <2>1, <2>2, <2>3, <2>4 DEF TypeInv, RootTypeOK
<1>5. CASE HandleRootPolicy
  <2>1. /\ UNCHANGED <<inputs, root, chan>>
        /\ UNCHANGED <<rootQ, statQ, replicas, listed, cachedStatus, gap, edits>>
    BY <1>5 DEF HandleRootPolicy
  <2>2. repQ' \subseteq Clusters
    BY <1>0, <1>5, StatusType DEF HandleRootPolicy, RootTypeOK
  <2>3. status' \subseteq Clusters /\ errors' \in 0 .. MaxErrors
    BY <1>2, <1>5, StatusType DEF HandleRootPolicy
  <2>4. lock' = Nobody /\ inst' = "gone" /\ orig' = {}
    BY <1>3, <1>5 DEF HandleRootPolicy
  <2> QED
    BY <1>0, <1>1, <2>1, <2>2, <2>3, <2>4 DEF TypeInv, RootTypeOK
<1>6. CASE HandleRootPolicyFails
  <2>1. /\ UNCHANGED <<inputs, root, chan>> /\ rootQ' \in BOOLEAN
        /\ UNCHANGED <<repQ, statQ, replicas, listed, cachedStatus, gap, edits>>
    BY <1>6 DEF HandleRootPolicyFails
  <2>3. status' \subseteq Clusters /\ errors' \in 0 .. MaxErrors
    BY <1>2, <1>6, StatusType DEF HandleRootPolicyFails
  <2>4. lock' = Nobody /\ inst' = "gone" /\ orig' = {}
    BY <1>3, <1>6 DEF HandleRootPolicyFails
  <2> QED
    BY <1>0, <1>1, <2>1, <2>3, <2>4 DEF TypeInv, RootTypeOK
<1>7. CASE StatusReconcile
  <2>1. /\ UNCHANGED <<inputs, root, chan>> /\ statQ' \in BOOLEAN
        /\ UNCHANGED <<rootQ, repQ, replicas, listed, status, cachedStatus, gap, edits, errors>>
    BY <1>7 DEF StatusReconcile
  <2>2. /\ lock' \in {Nobody, "spec", "status"}
        /\ inst' \in Specs \cup {"gone", "disabled"} /\ orig' \subseteq Clusters
        /\ lock' = Nobody => inst' = "gone" /\ orig' = {}
    BY <1>0, <1>7 DEF StatusReconcile, RootTypeOK, Nobody
  <2> QED
    BY <1>0, <1>1, <2>1, <2>2 DEF TypeInv, RootTypeOK
<1>8. CASE StatusUpdate
  <2>1. /\ UNCHANGED <<inputs, root, chan>>
        /\ UNCHANGED <<rootQ, repQ, replicas, listed, cachedStatus, gap, edits>>
    BY <1>8 DEF StatusUpdate
  <2>2. statQ' \in BOOLEAN
    BY <1>0, <1>8 DEF StatusUpdate, RootTypeOK
  <2>3. status' \subseteq Clusters /\ errors' \in 0 .. MaxErrors
    BY <1>2, <1>8, StatusType DEF StatusUpdate
  <2>4. lock' = Nobody /\ inst' = "gone" /\ orig' = {}
    BY <1>3, <1>8 DEF StatusUpdate
  <2> QED
    BY <1>0, <1>1, <2>1, <2>2, <2>3, <2>4 DEF TypeInv, RootTypeOK
<1>9. CASE ReplicatedReconcile
  <2>1. /\ UNCHANGED <<inputs, root, chan>>
        /\ UNCHANGED <<rootQ, statQ, listed, status, cachedStatus, lock, inst, orig, gap, edits, errors>>
    BY <1>9 DEF ReplicatedReconcile
  <2>2. PICK c \in repQ : repQ' = repQ \ {c} /\ replicas' = [replicas EXCEPT ![c] = Desired(c)]
    BY <1>9 DEF ReplicatedReconcile
  <2>3. repQ' \subseteq Clusters /\ replicas' \in [Clusters -> Replica \cup {NoReplica}]
    BY <1>0, <2>2, DesiredType DEF RootTypeOK
  <2> QED
    BY <1>0, <1>1, <2>1, <2>3 DEF TypeInv, RootTypeOK
<1> QED
  BY <1>4, <1>5, <1>6, <1>7, <1>8, <1>9 DEF Reconcilers

LEMMA NextTypeInv == TypeInv /\ [RootNext]_vars => TypeInv'
<1> SUFFICES ASSUME TypeInv, [RootNext]_vars PROVE TypeInv'
  OBVIOUS
<1>1. CASE UNCHANGED vars
  BY <1>1 DEF vars, inputs, TypeInv, RootTypeOK, PlacementTypeOK, ChannelsOK
<1> QED
  BY <1>1, EditsTypeInv, HandlersTypeInv, ReconcilersTypeInv DEF RootNext, AtRest

LEMMA RootTypeInv == RootSpec => []TypeInv
<1>1. RootInit => TypeInv
  BY InitTypeInv
<1>2. TypeInv /\ [RootNext]_vars => TypeInv'
  BY NextTypeInv
<1> QED
  BY <1>1, <1>2, PTL DEF RootSpec

(* RootPolicyReconciler and RootPolicyStatusReconciler: the inputs, queues and  *)
(* statuses have their types whatever interleaves, and a reconcile that does    *)
(* not hold the root policy's lock keeps no copy of it.                         *)
THEOREM RootTypeCorrect == RootSpec => []RootTypeOK
<1>1. TypeInv => RootTypeOK
  BY DEF TypeInv
<1> QED
  BY <1>1, RootTypeInv, PTL

-----------------------------------------------------------------------------
(* Who will put things right.  The handlers look at the inputs as they are     *)
(* when they run, so an event on its way counts by what its handler would do    *)
(* now; an edit that changes this is an event that counts itself.               *)

Events(k) == ToSet(chan[k])

(* The spec controller will reconcile because of the root policy or of a set.  *)
RootSoon == rootQ \/ chan["rootSpec"] # <<>>
SetQueues(e) ==
    IF e.old # NoObj /\ e.new # NoObj THEN PolicySetDiffs(e.old, e.new)
    ELSE Lists(e.old) \/ Lists(e.new)
SetSoon == \E e \in Events("setSpec") : SetQueues(e)

(* The status controller will.                                                *)
StatusSoon ==
    \/ statQ \/ cachedStatus # status
    \/ \E e \in Events("bindStat") : \E b \in MappedBindings(e) : IsBound(b)
    \/ \E e \in Events("decStat") : BoundTo(e.ref)

(* The replicated-policy controller will, for cluster c.                      *)
BindingSoon(c) ==
    \E e \in Events("bindRep") : c \in BindingRequests(e) \/ ExclusionBlind(e)
DecisionSoon(c) ==
    \E e \in Events("decRep") : BoundTo(e.ref) /\ c \in AffectedObjs(e.old, e.new)
ReplicaSoon(c) ==
    \/ c \in repQ \/ BindingSoon(c) \/ DecisionSoon(c)
    \/ lock = "spec" /\ c \in StatusOf(inst) \cup orig

(* The copy a reconcile works on is the root policy or will be looked at again.*)
CopySound == lock # Nobody /\ ~RootSoon => inst = root

StatusSound ==
    root # "gone" /\ lock = Nobody /\ ~RootSoon /\ ~SetSoon /\ ~StatusSoon
    => status = StatusOf(root)

ReplicasSound ==
    ~gap /\ ~RootSoon /\ ~SetSoon =>
        \A c \in Clusters : ReplicaSoon(c) \/ replicas[c] = Desired(c)

SoundInv == CopySound /\ StatusSound /\ ReplicasSound

LEMMA InitSoundInv == RootInit => SoundInv
<1> SUFFICES ASSUME RootInit PROVE SoundInv
  OBVIOUS
<1>1. CopySound /\ StatusSound
  BY DEF RootInit, CopySound, StatusSound
<1>2. \A c \in Clusters : replicas[c] = Desired(c)
  BY DEF RootInit
<1> QED
  BY <1>1, <1>2 DEF SoundInv, ReplicasSound

(* What the computations depend on.                                           *)
SetsKept ==
    \A s \in Sets : /\ IsPolicyInPolicySet(s)' <=> IsPolicyInPolicySet(s)
                    /\ ExcludedClustersForPolicy(s)' = ExcludedClustersForPolicy(s)

LEMMA SubjectsKept ==
    ASSUME SetsKept
    PROVE  \A b : PolicySubjects(b)' = PolicySubjects(b) /\ (IsBound(b)' <=> IsBound(b))
<1>1. \A b : PolicySubjects(b)' = PolicySubjects(b)
  BY DEF SetsKept, PolicySubjects
<1> QED
  BY <1>1 DEF IsBound

LEMMA RequestsKept ==
    ASSUME SetsKept, UNCHANGED dec
    PROVE  /\ \A b : GetDecisions(b)' = GetDecisions(b)
           /\ \A b, c : IsSingleClusterInDecisions(b, c)' <=> IsSingleClusterInDecisions(b, c)
           /\ \A e : BindingRequests(e)' = BindingRequests(e)
           /\ \A e : ExclusionBlind(e)' <=> ExclusionBlind(e)
<1>1. \A b : GetDecisions(b)' = GetDecisions(b)
  BY DEF GetDecisions, HasValidPlacementRef
<1>2. \A b : PolicySubjects(b)' = PolicySubjects(b) /\ (IsBound(b)' <=> IsBound(b))
  BY SubjectsKept
<1>3. ASSUME NEW b, NEW c
      PROVE  IsSingleClusterInDecisions(b, c)' <=> IsSingleClusterInDecisions(b, c)
  <2>1. \A s \in PolicySubjects(b) : s # Direct => s \in Sets
    BY DEF PolicySubjects
  <2>2. (\E s \in PolicySubjects(b)' : s = Direct \/ c \notin ExcludedClustersForPolicy(s)')
        <=> (\E s \in PolicySubjects(b) : s = Direct \/ c \notin ExcludedClustersForPolicy(s))
    BY <1>2, <2>1 DEF SetsKept
  <2> QED
    BY <1>1, <2>2 DEF IsSingleClusterInDecisions, HasValidPlacementRef
<1>4. \A b : RepPoliciesInPlacementBinding(b)' = RepPoliciesInPlacementBinding(b)
  BY <1>1, <1>2 DEF RepPoliciesInPlacementBinding
<1>5. \A e : BindingRequests(e)' = BindingRequests(e)
  BY <1>2, <1>4 DEF BindingRequests, AffectedObjs
<1>6. \A e : ExclusionBlind(e)' <=> ExclusionBlind(e)
  BY <1>3, <1>5 DEF ExclusionBlind
<1> QED
  BY <1>1, <1>3, <1>5, <1>6

LEMMA PlacementKept ==
    ASSUME SetsKept, UNCHANGED <<binding, dec>>
    PROVE  /\ \A r : BoundTo(r)' <=> BoundTo(r)
           /\ DecidedClusters' = DecidedClusters
           /\ \A c : SingleClusterDecision(c)' = SingleClusterDecision(c)
           /\ \A r : StatusOf(r)' = StatusOf(r)
<1>1. \A b : IsBound(b)' <=> IsBound(b)
  BY SubjectsKept
<1>2. /\ \A b : GetDecisions(b)' = GetDecisions(b)
      /\ \A b, c : IsSingleClusterInDecisions(b, c)' <=> IsSingleClusterInDecisions(b, c)
  BY RequestsKept
<1>3. Existing' = Existing /\ Unrestricted' = Unrestricted /\ Restricted' = Restricted
  BY DEF Existing, Unrestricted, Restricted
<1>4. \A n : IsBound(binding[n])' <=> IsBound(binding[n])
  BY <1>1 DEF IsBound, PolicySubjects
<1>5. \A n : GetDecisions(binding[n])' = GetDecisions(binding[n])
  BY <1>2 DEF GetDecisions, HasValidPlacementRef
<1>6. \A r : BoundTo(r)' <=> BoundTo(r)
  BY <1>3, <1>4 DEF BoundTo
<1>7. \A n : PolicyPlacementDecisions(n)' = PolicyPlacementDecisions(n)
  BY <1>4, <1>5 DEF PolicyPlacementDecisions
<1>8. DecidedClusters' = DecidedClusters
  BY <1>3, <1>7 DEF DecidedClusters, DecisionSet
<1>9. \A n, c : IsSingleClusterInDecisions(binding[n], c)' <=> IsSingleClusterInDecisions(binding[n], c)
  BY <1>2 DEF IsSingleClusterInDecisions, PolicySubjects, GetDecisions, HasValidPlacementRef
<1>10. \A c : SingleClusterDecision(c)' = SingleClusterDecision(c)
  BY <1>3, <1>9 DEF SingleClusterDecision
<1> QED
  BY <1>6, <1>8, <1>10 DEF StatusOf

(* What an edit of a binding changes, its event is about.                      *)
LEMMA NewBinding ==
    ASSUME NEW n, NEW b, b = binding'[n]
    PROVE  /\ IsBound(binding[n])' <=> IsBound(b)'
           /\ GetDecisions(binding[n])' = GetDecisions(b)'
           /\ \A c : IsSingleClusterInDecisions(binding[n], c)' <=> IsSingleClusterInDecisions(b, c)'
BY DEF IsBound, IsSingleClusterInDecisions, PolicySubjects, GetDecisions, HasValidPlacementRef

LEMMA BindingRequestsEnough ==
    ASSUME NEW e, NEW c \in Clusters, c \notin BindingRequests(e), ~ExclusionBlind(e)
    PROVE  /\ e.new # NoObj /\ IsSingleClusterInDecisions(e.new, c)
                <=> e.old # NoObj /\ IsSingleClusterInDecisions(e.old, c)
           /\ e.old # NoObj /\ IsSingleClusterInDecisions(e.old, c)
                => e.old.enforce = e.new.enforce /\ e.old.restricted = e.new.restricted
<1>1. \A b : b # NoObj /\ IsSingleClusterInDecisions(b, c) =>
                 IsBound(b) /\ c \in RepPoliciesInPlacementBinding(b)
  BY DEF IsSingleClusterInDecisions, RepPoliciesInPlacementBinding, IsBound
<1>2. CASE e.new = NoObj
  BY <1>1, <1>2 DEF BindingRequests
<1>3. CASE e.new # NoObj /\ e.old = NoObj
  BY <1>1, <1>3 DEF BindingRequests
<1>4. CASE e.new # NoObj /\ e.old # NoObj
  <2>1. IsSingleClusterInDecisions(e.old, c) <=> IsSingleClusterInDecisions(e.new, c)
    BY <1>4 DEF ExclusionBlind, IsSingleClusterInDecisions
  <2>2. ASSUME IsSingleClusterInDecisions(e.old, c)
        PROVE  e.old.enforce = e.new.enforce /\ e.old.restricted = e.new.restricted
    BY <1>1, <1>4, <2>2 DEF BindingRequests
  <2> QED
    BY <1>4, <2>1, <2>2
<1> QED
  BY <1>2, <1>3, <1>4

LEMMA BindingEditKept ==
    ASSUME TypeInv, NEW n \in Bindings, NEW e, UNCHANGED <<pset, dec>>,
           binding' = [binding EXCEPT ![n] = e.new], e.old = binding[n]
    PROVE  /\ \A c \in Clusters : c \notin BindingRequests(e) /\ ~ExclusionBlind(e)
                 => SingleClusterDecision(c)' = SingleClusterDecision(c)
           /\ \A c \in DecidedClusters : c \notin BindingRequests(e) => c \in DecidedClusters'
           /\ (\A b \in MappedBindings(e) : ~IsBound(b)) =>
                 DecidedClusters' = DecidedClusters /\ \A r : BoundTo(r)' <=> BoundTo(r)
<1>1. binding'[n] = e.new /\ \A m \in Bindings : m # n => binding'[m] = binding[m]
  BY DEF TypeInv, RootTypeOK, PlacementTypeOK
<1>2. SetsKept
  BY DEF SetsKept, IsPolicyInPolicySet, ExcludedClustersForPolicy
<1>3. /\ \A b : IsBound(b)' <=> IsBound(b)
      /\ \A b : GetDecisions(b)' = GetDecisions(b)
      /\ \A b, c : IsSingleClusterInDecisions(b, c)' <=> IsSingleClusterInDecisions(b, c)
  BY <1>2, SubjectsKept, RequestsKept
<1>4. /\ IsBound(binding[n])' <=> IsBound(e.new)
      /\ GetDecisions(binding[n])' = GetDecisions(e.new)
      /\ \A c : IsSingleClusterInDecisions(binding[n], c)' <=> IsSingleClusterInDecisions(e.new, c)
  <2>1. PICK b : b = e.new /\ b = binding'[n]
    BY <1>1
  <2> QED
    BY <1>3, <2>1, NewBinding
<1>5. ASSUME NEW m \in Bindings, m # n
      PROVE  /\ IsBound(binding[m])' <=> IsBound(binding[m])
             /\ GetDecisions(binding[m])' = GetDecisions(binding[m])
             /\ \A c : IsSingleClusterInDecisions(binding[m], c)'
                       <=> IsSingleClusterInDecisions(binding[m], c)
  <2>1. PICK b : b = binding[m] /\ b = binding'[m]
    BY <1>1, <1>5
  <2> QED
    BY <1>3, <2>1, NewBinding
<1>6. ASSUME NEW c \in Clusters, c \notin BindingRequests(e), ~ExclusionBlind(e)
      PROVE  SingleClusterDecision(c)' = SingleClusterDecision(c)
  <2> DEFINE FU == {m \in Unrestricted : IsSingleClusterInDecisions(binding[m], c)}
             FR == {m \in Restricted : IsSingleClusterInDecisions(binding[m], c)}
  <2>1. ASSUME NEW m \in Bindings
        PROVE  /\ (binding[m] # NoObj /\ IsSingleClusterInDecisions(binding[m], c))'
                  <=> binding[m] # NoObj /\ IsSingleClusterInDecisions(binding[m], c)
               /\ binding[m] # NoObj /\ IsSingleClusterInDecisions(binding[m], c) =>
                     /\ binding'[m].enforce = binding[m].enforce
                     /\ binding'[m].restricted = binding[m].restricted
    <3>1. CASE m = n
      BY <1>1, <1>4, <1>6, <3>1, BindingRequestsEnough
    <3>2. CASE m # n
      BY <1>1, <1>5, <3>2
    <3> QED
      BY <3>1, <3>2
  <2>2. FU' = FU /\ FR' = FR
    BY <2>1 DEF Unrestricted, Restricted, Existing
  <2>3. \A m \in FU \cup FR : binding'[m].enforce = binding[m].enforce
    BY <2>1 DEF Unrestricted, Restricted, Existing
  <2>4. SingleClusterDecision(c) = IF \E m \in FU : binding[m].enforce THEN "enforce"
                                   ELSE IF FU = {} THEN "none"
                                   ELSE IF \E m \in FR : binding[m].enforce THEN "enforce"
                                   ELSE "inform"
    BY DEF SingleClusterDecision
  <2>5. SingleClusterDecision(c)' = IF \E m \in FU' : binding'[m].enforce THEN "enforce"
                                   ELSE IF FU' = {} THEN "none"
                                   ELSE IF \E m \in FR' : binding'[m].enforce THEN "enforce"
                                   ELSE "inform"
    BY DEF SingleClusterDecision
  <2> HIDE DEF FU, FR
  <2> QED
    BY <2>2, <2>3, <2>4, <2>5
<1>7. ASSUME NEW c \in DecidedClusters, c \notin BindingRequests(e)
      PROVE  c \in DecidedClusters'
  <2>1. PICK m \in Existing : c \in PolicyPlacementDecisions(m)
    BY DEF DecidedClusters, DecisionSet
  <2>2. m \in Bindings /\ binding[m] # NoObj /\ IsBound(binding[m]) /\ c \in GetDecisions(binding[m])
        /\ c \in Clusters
    BY <2>1 DEF Existing, PolicyPlacementDecisions, DecidedClusters
  <2>3. binding'[m] # NoObj /\ IsBound(binding[m])' /\ c \in GetDecisions(binding[m])'
    <3>1. CASE m # n
      BY <1>1, <1>5, <2>2, <3>1
    <3>2. CASE m = n
      <4>1. c \in RepPoliciesInPlacementBinding(e.old) /\ e.old # NoObj /\ IsBound(e.old)
        BY <2>2, <3>2 DEF RepPoliciesInPlacementBinding
      <4>2. e.new # NoObj /\ c \in RepPoliciesInPlacementBinding(e.new)
        BY <1>7, <2>2, <4>1 DEF BindingRequests, AffectedObjs
      <4> QED
        BY <1>1, <1>4, <3>2, <4>2 DEF RepPoliciesInPlacementBinding
    <3> QED
      BY <3>1, <3>2
  <2>4. m \in Existing' /\ c \in PolicyPlacementDecisions(m)'
    BY <2>2, <2>3 DEF Existing, PolicyPlacementDecisions
  <2> QED
    BY <2>2, <2>4 DEF DecidedClusters, DecisionSet
<1>8. ASSUME \A b \in MappedBindings(e) : ~IsBound(b)
      PROVE  DecidedClusters' = DecidedClusters /\ \A r : BoundTo(r)' <=> BoundTo(r)
  <2>1. ASSUME NEW m \in Bindings
        PROVE  /\ (binding[m] # NoObj /\ IsBound(binding[m]))'
                     <=> binding[m] # NoObj /\ IsBound(binding[m])
               /\ binding[m] # NoObj /\ IsBound(binding[m]) =>
                     /\ binding'[m].ref = binding[m].ref
                     /\ GetDecisions(binding[m])' = GetDecisions(binding[m])
    <3>1. CASE m # n
      BY <1>1, <1>5, <3>1
    <3>2. CASE m = n
      BY <1>1, <1>4, <1>8, <3>2 DEF MappedBindings
    <3> QED
      BY <3>1, <3>2
  <2>2. \A r : BoundTo(r)' <=> BoundTo(r)
    BY <2>1 DEF BoundTo, Existing
  <2>3. \A c : DecisionSet(c)' = DecisionSet(c)
    BY <2>1 DEF DecisionSet, PolicyPlacementDecisions, Existing
  <2>4. DecidedClusters' = DecidedClusters
    BY <2>3 DEF DecidedClusters
  <2> QED
    BY <2>2, <2>4
<1> QED
  BY <1>6, <1>7, <1>8

(* The same for an edit of decisions.                                         *)
LEMMA DecisionsEditKept ==
    ASSUME TypeInv, NEW r \in Refs, NEW e, UNCHANGED <<pset, binding>>,
           dec' = [dec EXCEPT ![r] = e.new], e.old = dec[r], e.ref = r
    PROVE  /\ \A q : BoundTo(q)' <=> BoundTo(q)
           /\ \A c \in Clusters : ~(BoundTo(r) /\ c \in AffectedObjs(e.old, e.new)) =>
                 /\ SingleClusterDecision(c)' = SingleClusterDecision(c)
                 /\ c \in DecidedClusters' <=> c \in DecidedClusters
<1>1. dec'[r] = e.new /\ \A q \in Refs : q # r => dec'[q] = dec[q]
  BY DEF TypeInv, RootTypeOK, PlacementTypeOK
<1>2. SetsKept
  BY DEF SetsKept, IsPolicyInPolicySet, ExcludedClustersForPolicy
<1>3. Existing' = Existing /\ Unrestricted' = Unrestricted /\ Restricted' = Restricted
  BY DEF Existing, Unrestricted, Restricted
<1>4. \A m : IsBound(binding[m])' <=> IsBound(binding[m])
  BY <1>2, SubjectsKept DEF IsBound, PolicySubjects
<1>5. \A q : BoundTo(q)' <=> BoundTo(q)
  BY <1>3, <1>4 DEF BoundTo
<1>6. ASSUME NEW c \in Clusters, ~(BoundTo(r) /\ c \in AffectedObjs(e.old, e.new)),
             NEW m \in Existing, IsBound(binding[m])
      PROVE  c \in GetDecisions(binding[m])' <=> c \in GetDecisions(binding[m])
  <2>1. CASE ~HasValidPlacementRef(binding[m])
    BY <2>1 DEF GetDecisions, HasValidPlacementRef
  <2>2. CASE HasValidPlacementRef(binding[m])
    <3>1. binding[m].ref \in Refs
      BY <2>2 DEF HasValidPlacementRef, TypeInv, RootTypeOK, PlacementTypeOK, Existing, Binding
    <3>2. GetDecisions(binding[m])' = dec'[binding[m].ref]
          /\ GetDecisions(binding[m]) = dec[binding[m].ref]
      BY <2>2 DEF GetDecisions, HasValidPlacementRef
    <3>3. CASE binding[m].ref = r
      <4>1. BoundTo(r)
        BY <1>6, <3>3 DEF BoundTo
      <4> QED
        BY <1>1, <1>6, <3>2, <3>3, <4>1 DEF AffectedObjs
    <3>4. CASE binding[m].ref # r
      BY <1>1, <3>1, <3>2, <3>4
    <3> QED
      BY <3>3, <3>4
  <2> QED
    BY <2>1, <2>2
<1>7. ASSUME NEW c \in Clusters, ~(BoundTo(r) /\ c \in AffectedObjs(e.old, e.new))
      PROVE  /\ SingleClusterDecision(c)' = SingleClusterDecision(c)
             /\ c \in DecidedClusters' <=> c \in DecidedClusters
  <2>1. ASSUME NEW m \in Existing
        PROVE  /\ c \in PolicyPlacementDecisions(m)' <=> c \in PolicyPlacementDecisions(m)
               /\ IsSingleClusterInDecisions(binding[m], c)'
                     <=> IsSingleClusterInDecisions(binding[m], c)
    <3>1. CASE IsBound(binding[m])
      <4>1. c \in GetDecisions(binding[m])' <=> c \in GetDecisions(binding[m])
        BY <1>6, <1>7, <3>1
      <4>2. c \in PolicyPlacementDecisions(m)' <=> c \in PolicyPlacementDecisions(m)
        BY <1>4, <4>1 DEF PolicyPlacementDecisions
      <4>3. IsSingleClusterInDecisions(binding[m], c)' <=> IsSingleClusterInDecisions(binding[m], c)
        BY <4>1 DEF IsSingleClusterInDecisions, HasValidPlacementRef, PolicySubjects,
                    IsPolicyInPolicySet, ExcludedClustersForPolicy
      <4> QED
        BY <4>2, <4>3
    <3>2. CASE ~IsBound(binding[m])
      <4>1. ~IsBound(binding[m])'
        BY <1>4, <3>2
      <4> QED
        BY <3>2, <4>1 DEF PolicyPlacementDecisions, IsSingleClusterInDecisions, IsBound
    <3> QED
      BY <3>1, <3>2
  <2>2. DecisionSet(c)' = DecisionSet(c)
    BY <1>3, <2>1 DEF DecisionSet
  <2>3. c \in DecidedClusters' <=> c \in DecidedClusters
    BY <2>2 DEF DecidedClusters
  <2>4. SingleClusterDecision(c)' = SingleClusterDecision(c)
    <3>1. {m \in Unrestricted : IsSingleClusterInDecisions(binding[m], c)}'
            = {m \in Unrestricted : IsSingleClusterInDecisions(binding[m], c)}
      BY <1>3, <2>1 DEF Unrestricted
    <3>2. {m \in Restricted : IsSingleClusterInDecisions(binding[m], c)}'
            = {m \in Restricted : IsSingleClusterInDecisions(binding[m], c)}
      BY <1>3, <2>1 DEF Restricted
    <3> QED
      BY <3>1, <3>2 DEF SingleClusterDecision
  <2> QED
    BY <2>3, <2>4
<1> QED
  BY <1>5, <1>7

(* A set whose event queues nothing is to the policy what it was.               *)
LEMMA SetEditKept ==
    ASSUME TypeInv, NEW s \in Sets, NEW e \in SetEvent, ~SetQueues(e),
           pset' = [pset EXCEPT ![s] = e.new], e.old = pset[s]
    PROVE  SetsKept
<1>1. pset'[s] = e.new /\ \A q \in Sets : q # s => pset'[q] = pset[q]
  BY DEF TypeInv, RootTypeOK, PlacementTypeOK
<1>2. /\ e.old \in PolicySet \cup {NoObj} /\ e.new \in PolicySet \cup {NoObj}
  BY DEF SetEvent
<1>3. CASE e.old # NoObj /\ e.new # NoObj
  <2>1. e.old.listed = e.new.listed /\ e.old.excluded = e.new.excluded
    BY <1>3 DEF SetQueues, PolicySetDiffs
  <2> QED
    BY <1>1, <1>3, <2>1 DEF SetsKept, IsPolicyInPolicySet, ExcludedClustersForPolicy
<1>4. CASE ~(e.old # NoObj /\ e.new # NoObj)
  <2>1. ~Lists(e.old) /\ ~Lists(e.new)
    BY <1>4 DEF SetQueues
  <2>2. \A x \in PolicySet \cup {NoObj} : ~Lists(x) => x = NoObj \/ (~x.listed /\ x.excluded = {})
    BY DEF Lists, PolicySet
  <2>3. /\ e.old = NoObj \/ (~e.old.listed /\ e.old.excluded = {})
        /\ e.new = NoObj \/ (~e.new.listed /\ e.new.excluded = {})
    BY <1>2, <2>1, <2>2
  <2>4. /\ ~IsPolicyInPolicySet(s)' /\ ~IsPolicyInPolicySet(s)
        /\ ExcludedClustersForPolicy(s)' = {} /\ ExcludedClustersForPolicy(s) = {}
    BY <1>1, <2>3 DEF IsPolicyInPolicySet, ExcludedClustersForPolicy
  <2> QED
    BY <1>1, <2>4 DEF SetsKept, IsPolicyInPolicySet, ExcludedClustersForPolicy
<1> QED
  BY <1>3, <1>4

(* Steps that leave the placement and what the controllers wrote as it is, and  *)
(* hand on what is to come.                                                   *)
LEMMA StepKept ==
    ASSUME TypeInv, SoundInv, SetsKept,
           UNCHANGED <<binding, dec, root, lock, inst, orig, status, replicas>>,
           RootSoon => RootSoon', SetSoon => SetSoon' \/ RootSoon', StatusSoon => StatusSoon',
           gap => gap',
           \A c \in Clusters : ReplicaSoon(c) => ReplicaSoon(c)' \/ gap'
    PROVE  SoundInv'
<1>1. /\ \A c : SingleClusterDecision(c)' = SingleClusterDecision(c)
      /\ \A r : StatusOf(r)' = StatusOf(r)
  BY PlacementKept
<1>2. \A c : Desired(c)' = Desired(c)
  BY <1>1 DEF Desired
<1>3. CopySound'
  BY DEF SoundInv, CopySound
<1>4. StatusSound'
  <2> SUFFICES ASSUME root # "gone", lock = Nobody, ~RootSoon', ~SetSoon', ~StatusSoon'
               PROVE  status' = StatusOf(root)'
    BY DEF StatusSound
  <2>1. PICK r : r = root /\ r = root'
    OBVIOUS
  <2>2. status = StatusOf(r)
    BY <2>1 DEF SoundInv, StatusSound
  <2>3. StatusOf(r)' = StatusOf(root)'
    BY <2>1 DEF StatusOf
  <2> QED
    BY <1>1, <2>2, <2>3
<1>5. ReplicasSound'
  BY <1>2 DEF SoundInv, ReplicasSound
<1> QED
  BY <1>3, <1>4, <1>5 DEF SoundInv

LEMMA SameInputs == ASSUME UNCHANGED inputs PROVE SetsKept /\ UNCHANGED <<binding, pset, dec>>
BY DEF SetsKept, inputs, IsPolicyInPolicySet, ExcludedClustersForPolicy

LEMMA StatusOfCopy == ASSUME SetsKept, UNCHANGED <<binding, dec, inst>>
                      PROVE  StatusOf(inst)' = StatusOf(inst)
<1>1. PICK r : r = inst /\ r = inst'
  OBVIOUS
<1>2. StatusOf(r)' = StatusOf(r)
  BY PlacementKept
<1> QED
  BY <1>1, <1>2 DEF StatusOf

(* Edits.                                                                    *)
LEMMA BindingEditedSound ==
    ASSUME TypeInv, SoundInv, NEW n \in Bindings, BindingEdited(n)
    PROVE  SoundInv'
<1>1. PICK e : e = [old |-> binding[n], new |-> binding'[n]]
  OBVIOUS
<1>2. /\ \A k \in {"bindRep", "bindStat"} : Events(k)' = Events(k) \cup {e}
      /\ \A k \in Channels \ {"bindRep", "bindStat"} : chan'[k] = chan[k]
      /\ binding' = [binding EXCEPT ![n] = e.new] /\ e.old = binding[n]
      /\ UNCHANGED <<pset, dec>>
  BY <1>1, BindingSent DEF Events
<1>3. /\ UNCHANGED <<rootQ, statQ, repQ, replicas, lock, inst, orig, root, status, cachedStatus>>
      /\ gap' = (gap \/ Overtaken({"decRep"}))
  BY DEF BindingEdited, Edit, controlVars, lockVars
<1>4. SetsKept
  BY <1>2 DEF SetsKept, IsPolicyInPolicySet, ExcludedClustersForPolicy
<1>5. /\ \A b : IsBound(b)' <=> IsBound(b)
      /\ \A x : BindingRequests(x)' = BindingRequests(x)
      /\ \A x : ExclusionBlind(x)' <=> ExclusionBlind(x)
  BY <1>2, <1>4, SubjectsKept, RequestsKept
<1>6. /\ \A c \in Clusters : c \notin BindingRequests(e) /\ ~ExclusionBlind(e)
            => SingleClusterDecision(c)' = SingleClusterDecision(c)
      /\ \A c \in DecidedClusters : c \notin BindingRequests(e) => c \in DecidedClusters'
      /\ (\A b \in MappedBindings(e) : ~IsBound(b)) =>
            DecidedClusters' = DecidedClusters /\ \A r : BoundTo(r)' <=> BoundTo(r)
  BY <1>2, BindingEditKept
<1>7. /\ chan'["rootSpec"] = chan["rootSpec"] /\ Events("setSpec")' = Events("setSpec")
      /\ Events("decStat")' = Events("decStat") /\ chan'["decRep"] = chan["decRep"]
      /\ Events("bindRep")' = Events("bindRep") \cup {e}
      /\ Events("bindStat")' = Events("bindStat") \cup {e}
  BY <1>2 DEF Events, Channels
<1>8. (RootSoon' <=> RootSoon) /\ (SetSoon' <=> SetSoon)
  BY <1>3, <1>7 DEF RootSoon, SetSoon, SetQueues, PolicySetDiffs, Lists
<1>9. CopySound'
  BY <1>3, <1>8 DEF SoundInv, CopySound
<1>10. StatusSound'
  <2> SUFFICES ASSUME root # "gone", lock = Nobody, ~RootSoon, ~SetSoon, ~StatusSoon'
               PROVE  status = StatusOf(root)'
    BY <1>3, <1>8 DEF StatusSound
  <2>1. /\ ~statQ /\ cachedStatus = status
        /\ \A x \in Events("bindStat") \cup {e} : \A b \in MappedBindings(x) : ~IsBound(b)
        /\ \A x \in Events("decStat") : ~BoundTo(x.ref)'
    BY <1>3, <1>5, <1>7 DEF StatusSoon, MappedBindings
  <2>2. DecidedClusters' = DecidedClusters /\ \A r : BoundTo(r)' <=> BoundTo(r)
    BY <1>6, <2>1
  <2>3. ~StatusSoon
    BY <2>1, <2>2 DEF StatusSoon
  <2>4. status = StatusOf(root)
    BY <2>3 DEF SoundInv, StatusSound
  <2> QED
    BY <1>3, <2>2, <2>4 DEF StatusOf
<1>11. ReplicasSound'
  <2> SUFFICES ASSUME ~gap', ~RootSoon, ~SetSoon, NEW c \in Clusters, ~ReplicaSoon(c)'
               PROVE  replicas[c] = Desired(c)'
    BY <1>3, <1>8 DEF ReplicasSound
  <2>1. ~gap /\ chan["decRep"] = <<>>
    BY <1>3 DEF Overtaken
  <2>2. /\ c \notin repQ /\ ~(lock = "spec" /\ c \in StatusOf(inst)' \cup orig)
        /\ \A x \in Events("bindRep") \cup {e} : c \notin BindingRequests(x) /\ ~ExclusionBlind(x)
    BY <1>3, <1>5, <1>7 DEF ReplicaSoon, BindingSoon
  <2>3. ~DecisionSoon(c) /\ ~BindingSoon(c)
    BY <2>1, <2>2, ToSetEmpty DEF DecisionSoon, BindingSoon, Events
  <2>4. c \in StatusOf(inst) => c \in StatusOf(inst)'
    BY <1>3, <1>6, <2>2 DEF StatusOf
  <2>5. replicas[c] = Desired(c)
    BY <2>1, <2>2, <2>3, <2>4 DEF SoundInv, ReplicasSound, ReplicaSoon
  <2>6. SingleClusterDecision(c)' = SingleClusterDecision(c)
    BY <1>6, <2>2
  <2> QED
    BY <1>3, <2>5, <2>6 DEF Desired
<1> QED
  BY <1>9, <1>10, <1>11 DEF SoundInv

LEMMA DecisionsEditedSound ==
    ASSUME TypeInv, SoundInv, NEW r \in Refs, DecisionsEdited(r)
    PROVE  SoundInv'
<1>1. PICK e : e = [ref |-> r, old |-> dec[r], new |-> dec'[r]]
  OBVIOUS
<1>2. /\ \A k \in {"decRep", "decStat"} : Events(k)' = Events(k) \cup {e}
      /\ \A k \in Channels \ {"decRep", "decStat"} : chan'[k] = chan[k]
      /\ dec' = [dec EXCEPT ![r] = e.new] /\ e.old = dec[r] /\ e.ref = r
      /\ UNCHANGED <<pset, binding>>
  BY <1>1, DecisionsSent DEF Events
<1>3. /\ UNCHANGED <<rootQ, statQ, repQ, replicas, lock, inst, orig, root, status, cachedStatus>>
      /\ gap' = (gap \/ Overtaken({"bindRep"}))
  BY DEF DecisionsEdited, Edit, controlVars, lockVars
<1>4. SetsKept
  BY <1>2 DEF SetsKept, IsPolicyInPolicySet, ExcludedClustersForPolicy
<1>5. \A b : IsBound(b)' <=> IsBound(b)
  BY <1>4, SubjectsKept
<1>6. /\ \A q : BoundTo(q)' <=> BoundTo(q)
      /\ \A c \in Clusters : ~(BoundTo(r) /\ c \in AffectedObjs(e.old, e.new)) =>
            /\ SingleClusterDecision(c)' = SingleClusterDecision(c)
            /\ c \in DecidedClusters' <=> c \in DecidedClusters
  BY <1>2, DecisionsEditKept
<1>7. /\ chan'["rootSpec"] = chan["rootSpec"] /\ Events("setSpec")' = Events("setSpec")
      /\ Events("bindStat")' = Events("bindStat") /\ chan'["bindRep"] = chan["bindRep"]
      /\ Events("decRep")' = Events("decRep") \cup {e}
      /\ Events("decStat")' = Events("decStat") \cup {e}
  BY <1>2 DEF Events, Channels
<1>8. (RootSoon' <=> RootSoon) /\ (SetSoon' <=> SetSoon)
  BY <1>3, <1>7 DEF RootSoon, SetSoon, SetQueues, PolicySetDiffs, Lists
<1>9. CopySound'
  BY <1>3, <1>8 DEF SoundInv, CopySound
<1>10. StatusSound'
  <2> SUFFICES ASSUME root # "gone", lock = Nobody, ~RootSoon, ~SetSoon, ~StatusSoon'
               PROVE  status = StatusOf(root)'
    BY <1>3, <1>8 DEF StatusSound
  <2>1. /\ ~statQ /\ cachedStatus = status
        /\ \A x \in Events("bindStat") : \A b \in MappedBindings(x) : ~IsBound(b)
        /\ \A x \in Events("decStat") \cup {e} : ~BoundTo(x.ref)
    BY <1>3, <1>5, <1>6, <1>7 DEF StatusSoon, MappedBindings
  <2>2. ~BoundTo(r)
    BY <1>2, <2>1
  <2>3. DecidedClusters' = DecidedClusters
    <3>1. DecidedClusters \subseteq Clusters /\ DecidedClusters' \subseteq Clusters
      BY DEF DecidedClusters
    <3> QED
      BY <1>6, <2>2, <3>1
  <2>4. ~StatusSoon
    BY <2>1 DEF StatusSoon
  <2>5. status = StatusOf(root)
    BY <2>4 DEF SoundInv, StatusSound
  <2> QED
    BY <1>3, <2>3, <2>5 DEF StatusOf
<1>11. ReplicasSound'
  <2> SUFFICES ASSUME ~gap', ~RootSoon, ~SetSoon, NEW c \in Clusters, ~ReplicaSoon(c)'
               PROVE  replicas[c] = Desired(c)'
    BY <1>3, <1>8 DEF ReplicasSound
  <2>1. ~gap /\ chan["bindRep"] = <<>>
    BY <1>3 DEF Overtaken
  <2>2. /\ c \notin repQ /\ ~(lock = "spec" /\ c \in StatusOf(inst)' \cup orig)
        /\ \A x \in Events("decRep") \cup {e} : ~(BoundTo(x.ref) /\ c \in AffectedObjs(x.old, x.new))
    BY <1>3, <1>6, <1>7 DEF ReplicaSoon, DecisionSoon, AffectedObjs
  <2>3. ~DecisionSoon(c) /\ ~BindingSoon(c)
    BY <2>1, <2>2, ToSetEmpty DEF DecisionSoon, BindingSoon, Events
  <2>4. ~(BoundTo(r) /\ c \in AffectedObjs(e.old, e.new))
    BY <1>2, <2>2
  <2>5. c \in StatusOf(inst) => c \in StatusOf(inst)'
    BY <1>3, <1>6, <2>4 DEF StatusOf
  <2>6. replicas[c] = Desired(c)
    BY <2>1, <2>2, <2>3, <2>5 DEF SoundInv, ReplicasSound, ReplicaSoon
  <2>7. SingleClusterDecision(c)' = SingleClusterDecision(c)
    BY <1>6, <2>4
  <2> QED
    BY <1>3, <2>6, <2>7 DEF Desired
<1> QED
  BY <1>9, <1>10, <1>11 DEF SoundInv

LEMMA SetEditedSound ==
    ASSUME TypeInv, SoundInv, NEW s \in Sets, SetEdited(s)
    PROVE  SoundInv'
<1>1. PICK e : e = [old |-> pset[s], new |-> pset'[s]]
  OBVIOUS
<1>2. /\ e \in SetEvent /\ Events("setSpec")' = Events("setSpec") \cup {e}
      /\ \A k \in Channels \ {"setSpec"} : chan'[k] = chan[k]
      /\ pset' = [pset EXCEPT ![s] = e.new] /\ e.old = pset[s]
      /\ UNCHANGED <<binding, dec>>
  BY <1>1, SetSent DEF Events
<1>3. UNCHANGED <<rootQ, statQ, repQ, replicas, lock, inst, orig, root, status, cachedStatus, gap>>
  BY DEF SetEdited, Edit, controlVars, lockVars
<1>4. RootSoon' <=> RootSoon
  BY <1>2, <1>3 DEF RootSoon, Channels
<1>5. CASE SetQueues(e)
  <2>1. SetSoon'
    BY <1>2, <1>5 DEF SetSoon, SetQueues, PolicySetDiffs, Lists
  <2>2. CopySound'
    BY <1>3, <1>4 DEF SoundInv, CopySound
  <2> QED
    BY <2>1, <2>2 DEF SoundInv, StatusSound, ReplicasSound
<1>6. CASE ~SetQueues(e)
  <2>1. SetsKept
    BY <1>2, <1>6, SetEditKept
  <2>2. SetSoon => SetSoon'
    BY <1>2 DEF SetSoon, SetQueues, PolicySetDiffs, Lists
  <2>3. /\ \A b : IsBound(b)' <=> IsBound(b)
        /\ \A x : BindingRequests(x)' = BindingRequests(x)
        /\ \A x : ExclusionBlind(x)' <=> ExclusionBlind(x)
        /\ \A q : BoundTo(q)' <=> BoundTo(q)
    BY <1>2, <2>1, SubjectsKept, RequestsKept, PlacementKept
  <2>4. \A k \in {"bindStat", "decStat", "bindRep", "decRep"} : Events(k)' = Events(k)
    BY <1>2 DEF Events, Channels
  <2>5. StatusSoon => StatusSoon'
    BY <1>3, <2>3, <2>4 DEF StatusSoon, MappedBindings
  <2>6. StatusOf(inst)' = StatusOf(inst)
    BY <1>2, <1>3, <2>1, StatusOfCopy
  <2>7. \A c : BindingSoon(c)' <=> BindingSoon(c)
    BY <2>3, <2>4 DEF BindingSoon
  <2>8. \A c : DecisionSoon(c)' <=> DecisionSoon(c)
    BY <2>3, <2>4 DEF DecisionSoon, AffectedObjs
  <2>9. \A c : ReplicaSoon(c) => ReplicaSoon(c)'
    BY <1>3, <2>6, <2>7, <2>8 DEF ReplicaSoon
  <2> QED
    BY <1>2, <1>3, <1>4, <2>1, <2>2, <2>5, <2>9, StepKept
<1> QED
  BY <1>5, <1>6

LEMMA RootEditedSound == ASSUME TypeInv, SoundInv, RootEdited PROVE SoundInv'
<1>1. chan'["rootSpec"] # <<>>
  BY RootSent
<1>2. RootSoon'
  BY <1>1 DEF RootSoon
<1> QED
  BY <1>2 DEF SoundInv, CopySound, StatusSound, ReplicasSound


(* What a step that leaves the inputs as they are keeps.                       *)
LEMMA InputsKept ==
    ASSUME UNCHANGED <<inputs, root>>
    PROVE  /\ SetsKept /\ UNCHANGED <<binding, pset, dec>>
           /\ \A b : IsBound(b)' <=> IsBound(b)
           /\ \A x : BindingRequests(x)' = BindingRequests(x)
           /\ \A x : ExclusionBlind(x)' <=> ExclusionBlind(x)
           /\ \A r : BoundTo(r)' <=> BoundTo(r)
           /\ \A r : StatusOf(r)' = StatusOf(r)
           /\ \A c : Desired(c)' = Desired(c)
<1>1. SetsKept /\ UNCHANGED <<binding, pset, dec>> /\ UNCHANGED root
  BY SameInputs
<1>2. /\ \A r : BoundTo(r)' <=> BoundTo(r)
      /\ \A c : SingleClusterDecision(c)' = SingleClusterDecision(c)
      /\ \A r : StatusOf(r)' = StatusOf(r)
  BY <1>1, PlacementKept
<1>3. \A c : Desired(c)' = Desired(c)
  BY <1>1, <1>2 DEF Desired
<1> QED
  BY <1>1, <1>2, <1>3, SubjectsKept, RequestsKept

(* Events that stay where they are count as before.                            *)
LEMMA EventsKept ==
    ASSUME UNCHANGED <<inputs, root, chan>>
    PROVE  /\ \A c : BindingSoon(c)' <=> BindingSoon(c)
           /\ \A c : DecisionSoon(c)' <=> DecisionSoon(c)
           /\ SetSoon' <=> SetSoon
           /\ cachedStatus' = cachedStatus /\ status' = status /\ StatusSoon => statQ \/ StatusSoon'
<1>1. \A k : Events(k)' = Events(k)
  BY DEF Events
<1>2. /\ \A c : BindingSoon(c)' <=> BindingSoon(c)
      /\ \A c : DecisionSoon(c)' <=> DecisionSoon(c)
  BY <1>1, InputsKept DEF BindingSoon, DecisionSoon, AffectedObjs
<1>3. SetSoon' <=> SetSoon
  BY <1>1 DEF SetSoon, SetQueues, PolicySetDiffs, Lists
<1>4. cachedStatus' = cachedStatus /\ status' = status /\ StatusSoon => statQ \/ StatusSoon'
  BY <1>1, InputsKept DEF StatusSoon, MappedBindings
<1> QED
  BY <1>2, <1>3, <1>4

(* A handler takes one event and queues what the event counted for.            *)
LEMMA TakenEvent ==
    ASSUME TypeInv, NEW k \in Channels, Deliver(k)
    PROVE  /\ Events(k) = {Head(chan[k])} \cup Events(k)'
           /\ \A j \in Channels : j # k => chan'[j] = chan[j] /\ Events(j)' = Events(j)
<1>1. /\ chan'[k] = Tail(chan[k]) /\ chan[k] # <<>>
      /\ \A j \in Channels : j # k => chan'[j] = chan[j]
  BY DeliverChannels
<1>2. \E S : chan[k] \in Seq(S)
  BY DEF TypeInv, ChannelsOK, Channels
<1>3. PICK S : chan[k] \in Seq(S)
  BY <1>2
<1>4. ToSet(chan[k]) = {Head(chan[k])} \cup ToSet(Tail(chan[k]))
  BY <1>1, <1>3, ToSetTail
<1> QED
  BY <1>1, <1>4 DEF Events

LEMMA HandlersSound == ASSUME TypeInv, SoundInv, Handlers \/ ReplicaStatus PROVE SoundInv'
<1> USE DEF lockVars, controlVars
<1>1. ASSUME HandlerFrame
      PROVE  /\ UNCHANGED <<inputs, root>>
             /\ UNCHANGED <<binding, dec, root, lock, inst, orig, status, cachedStatus, replicas>>
  BY <1>1 DEF HandlerFrame, inputs
<1>2. ASSUME UNCHANGED <<inputs, root, lock, inst, orig>>,
             repQ \subseteq repQ',
             NEW c, BindingSoon(c) => BindingSoon(c)' \/ c \in repQ' \/ gap',
             DecisionSoon(c) => DecisionSoon(c)' \/ c \in repQ'
      PROVE  ReplicaSoon(c) => ReplicaSoon(c)' \/ gap'
  <2>1. StatusOf(inst)' = StatusOf(inst)
    BY <1>2, InputsKept, StatusOfCopy
  <2> QED
    BY <1>2, <2>1 DEF ReplicaSoon
<1>3. CASE HandlerForBinding
  <2>1. HandlerFrame /\ Deliver("bindRep") /\ UNCHANGED <<rootQ, statQ>>
    BY <1>3 DEF HandlerForBinding
  <2>2. PICK e : e = Head(chan["bindRep"])
    OBVIOUS
  <2>3. repQ' = repQ \cup BindingRequests(e) /\ gap' = (gap \/ ExclusionBlind(e))
    BY <1>3, <2>2 DEF HandlerForBinding
  <2>4. /\ Events("bindRep") = {e} \cup Events("bindRep")' /\ chan'["rootSpec"] = chan["rootSpec"]
        /\ \A k \in {"setSpec", "decRep", "bindStat", "decStat"} : Events(k)' = Events(k)
    BY <2>1, <2>2, TakenEvent DEF Channels
  <2>5. \A c : BindingSoon(c) => BindingSoon(c)' \/ c \in repQ' \/ gap'
    BY <1>1, <2>1, <2>3, <2>4, InputsKept DEF BindingSoon
  <2>6. \A c : DecisionSoon(c) => DecisionSoon(c)'
    BY <1>1, <2>1, <2>4, InputsKept DEF DecisionSoon, AffectedObjs
  <2>7. \A c : ReplicaSoon(c) => ReplicaSoon(c)' \/ gap'
    BY <1>1, <1>2, <2>1, <2>3, <2>5, <2>6
  <2>8. StatusSoon => StatusSoon'
    BY <1>1, <2>1, <2>4, InputsKept DEF StatusSoon, MappedBindings
  <2>9. (RootSoon => RootSoon') /\ (SetSoon => SetSoon')
    BY <2>1, <2>4 DEF RootSoon, SetSoon, SetQueues, PolicySetDiffs, Lists
  <2> QED
    BY <1>1, <2>1, <2>3, <2>7, <2>8, <2>9, InputsKept, StepKept
<1>4. CASE HandlerForDecision
  <2>1. HandlerFrame /\ Deliver("decRep") /\ UNCHANGED <<rootQ, statQ, gap>>
    BY <1>4 DEF HandlerForDecision
  <2>2. PICK e : e = Head(chan["decRep"])
    OBVIOUS
  <2>3. repQ' = IF BoundTo(e.ref) THEN repQ \cup AffectedObjs(e.old, e.new) ELSE repQ
    BY <1>4, <2>2 DEF HandlerForDecision
  <2>4. /\ Events("decRep") = {e} \cup Events("decRep")' /\ chan'["rootSpec"] = chan["rootSpec"]
        /\ \A k \in {"setSpec", "bindRep", "bindStat", "decStat"} : Events(k)' = Events(k)
    BY <2>1, <2>2, TakenEvent DEF Channels
  <2>5. \A c : BindingSoon(c) => BindingSoon(c)'
    BY <1>1, <2>1, <2>4, InputsKept DEF BindingSoon
  <2>6. \A c : DecisionSoon(c) => DecisionSoon(c)' \/ c \in repQ'
    BY <1>1, <2>1, <2>3, <2>4, InputsKept DEF DecisionSoon, AffectedObjs
  <2>7. \A c : ReplicaSoon(c) => ReplicaSoon(c)' \/ gap'
    BY <1>1, <1>2, <2>1, <2>3, <2>5, <2>6
  <2>8. StatusSoon => StatusSoon'
    BY <1>1, <2>1, <2>4, InputsKept DEF StatusSoon, MappedBindings
  <2>9. (RootSoon => RootSoon') /\ (SetSoon => SetSoon')
    BY <2>1, <2>4 DEF RootSoon, SetSoon, SetQueues, PolicySetDiffs, Lists
  <2> QED
    BY <1>1, <2>1, <2>7, <2>8, <2>9, InputsKept, StepKept
<1>5. ASSUME HandlerFrame, UNCHANGED <<statQ, repQ, gap>>, NEW k \in {"setSpec", "rootSpec"}, Deliver(k),
             RootSoon => RootSoon', SetSoon => SetSoon' \/ RootSoon'
      PROVE  SoundInv'
  <2>1. \A j \in {"bindRep", "decRep", "bindStat", "decStat"} : Events(j)' = Events(j)
    BY <1>5, TakenEvent DEF Channels
  <2>2. /\ \A c : BindingSoon(c) => BindingSoon(c)'
        /\ \A c : DecisionSoon(c) => DecisionSoon(c)'
    BY <1>1, <1>5, <2>1, InputsKept DEF BindingSoon, DecisionSoon, AffectedObjs
  <2>3. \A c : ReplicaSoon(c) => ReplicaSoon(c)' \/ gap'
    BY <1>1, <1>2, <1>5, <2>2
  <2>4. StatusSoon => StatusSoon'
    BY <1>1, <1>5, <2>1, InputsKept DEF StatusSoon, MappedBindings
  <2> QED
    BY <1>1, <1>5, <2>3, <2>4, InputsKept, StepKept
<1>6. CASE HandlerForPolicySet
  <2>1. HandlerFrame /\ Deliver("setSpec") /\ UNCHANGED <<statQ, repQ, gap>>
    BY <1>6 DEF HandlerForPolicySet
  <2>2. PICK e : e = Head(chan["setSpec"])
    OBVIOUS
  <2>3. rootQ' = (rootQ \/ SetQueues(e))
    BY <1>6, <2>2 DEF HandlerForPolicySet, SetQueues
  <2>4. Events("setSpec") = {e} \cup Events("setSpec")' /\ chan'["rootSpec"] = chan["rootSpec"]
    BY <2>1, <2>2, TakenEvent DEF Channels
  <2>5. RootSoon => RootSoon'
    BY <2>3, <2>4 DEF RootSoon
  <2>6. SetSoon => SetSoon' \/ RootSoon'
    BY <2>3, <2>4 DEF RootSoon, SetSoon, SetQueues, PolicySetDiffs, Lists
  <2> QED
    BY <1>5, <2>1, <2>5, <2>6
<1>7. CASE HandlerForRoot
  <2>1. HandlerFrame /\ Deliver("rootSpec") /\ UNCHANGED <<statQ, repQ, gap>> /\ rootQ'
    BY <1>7 DEF HandlerForRoot
  <2>2. RootSoon'
    BY <2>1 DEF RootSoon
  <2> QED
    BY <1>5, <2>1, <2>2
<1>8. ASSUME HandlerFrame, UNCHANGED <<rootQ, repQ, gap>>, NEW k \in {"bindStat", "decStat"}, Deliver(k),
             StatusSoon => StatusSoon'
      PROVE  SoundInv'
  <2>1. /\ \A j \in {"bindRep", "decRep", "setSpec"} : Events(j)' = Events(j)
        /\ chan'["rootSpec"] = chan["rootSpec"]
    BY <1>8, TakenEvent DEF Channels
  <2>2. /\ \A c : BindingSoon(c) => BindingSoon(c)'
        /\ \A c : DecisionSoon(c) => DecisionSoon(c)'
    BY <1>1, <1>8, <2>1, InputsKept DEF BindingSoon, DecisionSoon, AffectedObjs
  <2>3. \A c : ReplicaSoon(c) => ReplicaSoon(c)' \/ gap'
    BY <1>1, <1>2, <1>8, <2>2
  <2>4. (RootSoon => RootSoon') /\ (SetSoon => SetSoon')
    BY <1>8, <2>1 DEF RootSoon, SetSoon, SetQueues, PolicySetDiffs, Lists
  <2> QED
    BY <1>1, <1>8, <2>3, <2>4, InputsKept, StepKept
<1>9. CASE MapBindingToPolicies
  <2>1. HandlerFrame /\ Deliver("bindStat") /\ UNCHANGED <<rootQ, repQ, gap>>
    BY <1>9 DEF MapBindingToPolicies
  <2>2. PICK e : e = Head(chan["bindStat"])
    OBVIOUS
  <2>3. statQ' = (statQ \/ \E b \in MappedBindings(e) : IsBound(b))
    BY <1>9, <2>2 DEF MapBindingToPolicies
  <2>4. Events("bindStat") = {e} \cup Events("bindStat")' /\ Events("decStat")' = Events("decStat")
    BY <2>1, <2>2, TakenEvent DEF Channels
  <2>5. StatusSoon => StatusSoon'
    BY <1>1, <2>1, <2>3, <2>4, InputsKept DEF StatusSoon, MappedBindings
  <2> QED
    BY <1>8, <2>1, <2>5
<1>10. CASE MapDecisionToPolicies
  <2>1. HandlerFrame /\ Deliver("decStat") /\ UNCHANGED <<rootQ, repQ, gap>>
    BY <1>10 DEF MapDecisionToPolicies
  <2>2. PICK e : e = Head(chan["decStat"])
    OBVIOUS
  <2>3. statQ' = (statQ \/ BoundTo(e.ref))
    BY <1>10, <2>2 DEF MapDecisionToPolicies
  <2>4. Events("decStat") = {e} \cup Events("decStat")' /\ Events("bindStat")' = Events("bindStat")
    BY <2>1, <2>2, TakenEvent DEF Channels
  <2>5. StatusSoon => StatusSoon'
    BY <1>1, <2>1, <2>3, <2>4, InputsKept DEF StatusSoon, MappedBindings
  <2> QED
    BY <1>8, <2>1, <2>5
<1>11. ASSUME UNCHANGED <<inputs, root, chan, rootQ, repQ, replicas, status, lock, inst, orig, gap>>,
              StatusSoon => StatusSoon'
       PROVE  SoundInv'
  <2>1. /\ \A c : BindingSoon(c) => BindingSoon(c)'
        /\ \A c : DecisionSoon(c) => DecisionSoon(c)'
        /\ SetSoon => SetSoon'
    BY <1>11, EventsKept
  <2>2. RootSoon => RootSoon'
    BY <1>11 DEF RootSoon
  <2>3. \A c : ReplicaSoon(c) => ReplicaSoon(c)' \/ gap'
    BY <1>2, <1>11, <2>1
  <2> QED
    BY <1>11, <2>1, <2>2, <2>3, InputsKept, StepKept
<1>12. CASE StatusInformer
  BY <1>11, <1>12 DEF StatusInformer, StatusSoon
<1>13. CASE ReplicaStatus
  BY <1>11, <1>13 DEF ReplicaStatus, StatusSoon
<1>14. CASE ReplicaInformer
  <2>1. /\ UNCHANGED <<inputs, root>> /\ UNCHANGED chan
        /\ UNCHANGED <<rootQ, statQ, repQ, replicas, status, cachedStatus, lock, inst, orig, gap>>
    BY <1>14 DEF ReplicaInformer
  <2>2. StatusSoon => StatusSoon'
    BY <2>1, EventsKept DEF StatusSoon
  <2> QED
    BY <1>11, <2>1, <2>2
<1> QED
  BY <1>3, <1>4, <1>6, <1>7, <1>9, <1>10, <1>12, <1>13, <1>14 DEF Handlers

(* Reconcilers.                                                               *)

(* A status that was written, or found right, is right for the copy at hand.   *)
LEMMA UpdatedStatus ==
    ASSUME root # "gone", NEW new, StatusUpdated(new), cachedStatus = status'
    PROVE  status' = new
BY DEF StatusUpdated, Refreshed

(* The spec reconciler names every replica that has to change.                 *)
LEMMA RootReconcileSound == ASSUME TypeInv, SoundInv, RootReconcile PROVE SoundInv'
<1>1. /\ UNCHANGED <<inputs, root, chan>> /\ UNCHANGED <<replicas, root>>
      /\ lock = Nobody /\ gap' = (gap \/ Unnamed)
      /\ repQ' = IF root \in Specs THEN repQ ELSE repQ \cup listed
      /\ IF root = "gone" THEN lock' = lock
                          ELSE lock' = "spec" /\ inst' = root /\ orig' = cachedStatus
  BY DEF RootReconcile, lockVars
<1>2. CopySound'
  BY <1>1 DEF CopySound
<1>3. StatusSound'
  BY <1>1 DEF StatusSound, Nobody
<1>4. ReplicasSound'
  <2> SUFFICES ASSUME NEW c \in Clusters, ~gap', ~ReplicaSoon(c)'
               PROVE  replicas[c] = Desired(c)
    BY <1>1, InputsKept DEF ReplicasSound
  <2>1. c \notin repQ' /\ (lock' = "spec" => c \notin StatusOf(inst)' /\ c \notin orig')
    BY DEF ReplicaSoon
  <2>2. root # "gone" => c \notin StatusOf(root) /\ c \notin cachedStatus
    <3>1. SUFFICES ASSUME root # "gone" PROVE c \notin StatusOf(root) /\ c \notin cachedStatus
      OBVIOUS
    <3>2. PICK r : r = root /\ r = inst'
      BY <1>1, <3>1
    <3>3. StatusOf(inst)' = StatusOf(r)' /\ StatusOf(r)' = StatusOf(r)
      BY <1>1, <3>2, InputsKept DEF StatusOf
    <3> QED
      BY <1>1, <2>1, <3>1, <3>2, <3>3
  <2>3. root = "gone" => StatusOf(root) = {}
    BY SpecsAssumption DEF StatusOf
  <2>4. c \notin Replicated
    BY <1>1, <2>1, <2>2, <2>3 DEF Unnamed
  <2>5. replicas[c] = NoReplica
    BY <2>4 DEF Replicated
  <2>6. root \in Specs => SingleClusterDecision(c) = "none"
    <3>1. SUFFICES ASSUME root \in Specs PROVE c \notin DecidedClusters
      BY ReplicasDecided DEF ReplicatedIsDecided
    <3> QED
      BY <2>2, <3>1, SpecsAssumption DEF StatusOf
  <2> QED
    BY <2>5, <2>6 DEF Desired
<1> QED
  BY <1>2, <1>3, <1>4 DEF SoundInv

LEMMA HandleRootPolicySound ==
    ASSUME TypeInv, SoundInv, HandleRootPolicy \/ HandleRootPolicyFails
    PROVE  SoundInv'
<1>1. CASE HandleRootPolicy
  <2>1. /\ UNCHANGED <<inputs, root, chan>> /\ UNCHANGED <<root, rootQ, replicas, cachedStatus, gap>>
        /\ lock = "spec" /\ lock' = Nobody /\ StatusUpdated(StatusOf(inst))
        /\ repQ' = repQ \cup StatusOf(inst) \cup (orig \ StatusOf(inst))
    BY <1>1 DEF HandleRootPolicy, Unlock
  <2>2. (RootSoon' <=> RootSoon) /\ (SetSoon' <=> SetSoon)
    BY <2>1, EventsKept DEF RootSoon
  <2>3. CopySound'
    BY <2>1 DEF CopySound
  <2>4. StatusSound'
    <3> SUFFICES ASSUME root # "gone", ~RootSoon, ~StatusSoon' PROVE status' = StatusOf(root)'
      BY <2>1, <2>2 DEF StatusSound
    <3>1. PICK r : r = root /\ r = inst
      BY <2>1 DEF SoundInv, CopySound, Nobody
    <3>2. StatusOf(inst) = StatusOf(r) /\ StatusOf(r)' = StatusOf(r) /\ StatusOf(root)' = StatusOf(r)'
      BY <2>1, <3>1, InputsKept DEF StatusOf
    <3>3. status' = StatusOf(inst)
      BY <2>1, UpdatedStatus DEF StatusSoon
    <3> QED
      BY <3>2, <3>3
  <2>5. ReplicasSound'
    <3> SUFFICES ASSUME NEW c \in Clusters, ~gap, ~RootSoon, ~SetSoon, ~ReplicaSoon(c)'
                 PROVE  replicas[c] = Desired(c)
      BY <2>1, <2>2, InputsKept DEF ReplicasSound
    <3>1. ~ReplicaSoon(c)
      BY <2>1, EventsKept DEF ReplicaSoon
    <3> QED
      BY <3>1 DEF SoundInv, ReplicasSound
  <2> QED
    BY <2>3, <2>4, <2>5 DEF SoundInv
<1>2. CASE HandleRootPolicyFails
  <2>1. rootQ' /\ lock' = Nobody
    BY <1>2 DEF HandleRootPolicyFails, Unlock
  <2>2. RootSoon'
    BY <2>1 DEF RootSoon
  <2> QED
    BY <2>2 DEF SoundInv, CopySound, StatusSound, ReplicasSound
<1> QED
  BY <1>1, <1>2

LEMMA StatusReconcileSound == ASSUME TypeInv, SoundInv, StatusReconcile PROVE SoundInv'
<1>1. /\ UNCHANGED <<inputs, root, chan>> /\ UNCHANGED <<root, rootQ, repQ, replicas, gap>>
      /\ lock = Nobody
      /\ IF root = "gone" THEN lock' = lock ELSE lock' = "status" /\ inst' = root
  BY DEF StatusReconcile, lockVars
<1>2. (RootSoon' <=> RootSoon) /\ (SetSoon' <=> SetSoon)
  BY <1>1, EventsKept DEF RootSoon
<1>3. CopySound' /\ StatusSound'
  BY <1>1 DEF CopySound, StatusSound, Nobody
<1>4. \A c : ReplicaSoon(c) => ReplicaSoon(c)'
  BY <1>1, EventsKept DEF ReplicaSoon, Nobody
<1>5. ReplicasSound'
  BY <1>1, <1>2, <1>4, InputsKept DEF SoundInv, ReplicasSound
<1> QED
  BY <1>3, <1>5 DEF SoundInv

LEMMA StatusUpdateSound == ASSUME TypeInv, SoundInv, StatusUpdate PROVE SoundInv'
<1>1. /\ UNCHANGED <<inputs, root, chan>>
      /\ UNCHANGED <<root, rootQ, repQ, replicas, cachedStatus, gap>>
      /\ lock = "status" /\ lock' = Nobody /\ (StatusUpdated(StatusOf(inst)) \/ statQ')
  BY DEF StatusUpdate, Unlock
<1>2. (RootSoon' <=> RootSoon) /\ (SetSoon' <=> SetSoon)
  BY <1>1, EventsKept DEF RootSoon
<1>3. CopySound'
  BY <1>1 DEF CopySound
<1>4. StatusSound'
  <2> SUFFICES ASSUME root # "gone", ~RootSoon, ~StatusSoon' PROVE status' = StatusOf(root)'
    BY <1>1, <1>2 DEF StatusSound
  <2>1. PICK r : r = root /\ r = inst
    BY <1>1 DEF SoundInv, CopySound, Nobody
  <2>2. StatusOf(inst) = StatusOf(r) /\ StatusOf(r)' = StatusOf(r) /\ StatusOf(root)' = StatusOf(r)'
    BY <1>1, <2>1, InputsKept DEF StatusOf
  <2>3. StatusUpdated(StatusOf(inst)) /\ cachedStatus = status'
    BY <1>1 DEF StatusSoon
  <2> QED
    BY <2>2, <2>3, UpdatedStatus
<1>5. \A c : ReplicaSoon(c) => ReplicaSoon(c)'
  BY <1>1, EventsKept DEF ReplicaSoon
<1>6. ReplicasSound'
  BY <1>1, <1>2, <1>5, InputsKept DEF SoundInv, ReplicasSound
<1> QED
  BY <1>3, <1>4, <1>6 DEF SoundInv

LEMMA ReplicatedReconcileSound == ASSUME TypeInv, SoundInv, ReplicatedReconcile PROVE SoundInv'
<1>1. /\ UNCHANGED <<inputs, root, chan>>
      /\ UNCHANGED <<root, rootQ, statQ, status, cachedStatus, lock, inst, orig, gap>>
  BY DEF ReplicatedReconcile, lockVars
<1>2. PICK c \in repQ : repQ' = repQ \ {c} /\ replicas' = [replicas EXCEPT ![c] = Desired(c)]
  BY DEF ReplicatedReconcile
<1>3. /\ c \in Clusters => replicas'[c] = Desired(c)
      /\ \A d \in Clusters : d # c => replicas'[d] = replicas[d]
  BY <1>2 DEF TypeInv, RootTypeOK
<1>4. (RootSoon' <=> RootSoon) /\ (SetSoon' <=> SetSoon) /\ (StatusSoon => StatusSoon')
  BY <1>1, EventsKept DEF RootSoon, StatusSoon
<1>5. CopySound'
  BY <1>1, <1>4 DEF SoundInv, CopySound
<1>6. StatusOf(inst)' = StatusOf(inst) /\ StatusOf(root)' = StatusOf(root)
  BY <1>1, InputsKept, StatusOfCopy DEF StatusOf
<1>7. StatusSound'
  BY <1>1, <1>4, <1>6 DEF SoundInv, StatusSound
<1>8. \A d : d # c /\ ReplicaSoon(d) => ReplicaSoon(d)'
  BY <1>1, <1>2, <1>6, EventsKept DEF ReplicaSoon
<1>9. ReplicasSound'
  BY <1>1, <1>3, <1>4, <1>8, InputsKept DEF SoundInv, ReplicasSound
<1> QED
  BY <1>5, <1>7, <1>9 DEF SoundInv

LEMMA NextSoundInv == TypeInv /\ SoundInv /\ [RootNext]_vars => SoundInv'
<1> SUFFICES ASSUME TypeInv, SoundInv, [RootNext]_vars PROVE SoundInv'
  OBVIOUS
<1>1. CASE Edits
  BY <1>1, BindingEditedSound, DecisionsEditedSound, SetEditedSound, RootEditedSound DEF Edits
<1>2. CASE Handlers \/ ReplicaStatus
  BY <1>2, HandlersSound
<1>3. CASE Reconcilers
  BY <1>3, RootReconcileSound, HandleRootPolicySound, StatusReconcileSound, StatusUpdateSound,
     ReplicatedReconcileSound DEF Reconcilers
<1>4. CASE UNCHANGED vars
  <2>1. /\ UNCHANGED <<inputs, root, chan>>
        /\ UNCHANGED <<binding, dec, root, rootQ, statQ, repQ, replicas, status, cachedStatus, lock,
                       inst, orig, gap>>
    BY <1>4 DEF vars, inputs
  <2>2. StatusOf(inst)' = StatusOf(inst)
    BY <2>1, InputsKept, StatusOfCopy
  <2>3. \A c : ReplicaSoon(c) => ReplicaSoon(c)'
    BY <2>1, <2>2, EventsKept DEF ReplicaSoon
  <2>4. (RootSoon => RootSoon') /\ (SetSoon => SetSoon') /\ (StatusSoon => StatusSoon')
    BY <2>1, EventsKept DEF RootSoon, StatusSoon
  <2> QED
    BY <2>1, <2>3, <2>4, InputsKept, StepKept
<1> QED
  BY <1>1, <1>2, <1>3, <1>4 DEF RootNext, AtRest

LEMMA RootSoundInv == RootSpec => []SoundInv
<1>1. RootInit => SoundInv
  BY InitSoundInv
<1>2. TypeInv /\ SoundInv /\ [RootNext]_vars => SoundInv'
  BY NextSoundInv
<1> QED
  BY <1>1, <1>2, RootTypeInv, PTL DEF RootSpec

-----------------------------------------------------------------------------
(* Once everything has settled nobody is to come.                             *)
LEMMA NobodyToCome ==
    ASSUME Settled
    PROVE  ~RootSoon /\ ~SetSoon /\ ~StatusSoon /\ \A c : ~ReplicaSoon(c)
<1>1. \A k \in Channels : Events(k) = {}
  BY ToSetEmpty DEF Settled, Events
<1>2. ~RootSoon /\ ~SetSoon
  BY <1>1 DEF Settled, RootSoon, SetSoon, Channels
<1>3. ~StatusSoon
  BY <1>1 DEF Settled, StatusSoon, Channels
<1>4. \A c : ~ReplicaSoon(c)
  BY <1>1 DEF Settled, ReplicaSoon, BindingSoon, DecisionSoon, Channels, Nobody
<1> QED
  BY <1>2, <1>3, <1>4

(* RootStatusUpdate, called by handleRootPolicy and by the status reconciler:  *)
(* whatever is edited while they run, and however often their writes fail or   *)
(* conflict, the root policy's status lists the decided clusters once all      *)
(* events are handled and all queues are empty.                                *)
THEOREM StatusIsCorrect == RootSpec => []StatusCorrect
<1>1. SoundInv => StatusCorrect
  BY NobodyToCome DEF SoundInv, StatusSound, StatusCorrect, Settled
<1> QED
  BY <1>1, RootSoundInv, PTL

(* handlerForBinding, handlerForDecision, EnqueueRequestsFromPolicySet, the    *)
(* spec reconciler and the replicated-policy reconciler: once all events are   *)
(* handled and all queues are empty, every cluster has the replicated policy   *)
(* that singleClusterDecision asks for, unless one of the named gaps was met.  *)
THEOREM ReplicasAreDesired == RootSpec => []ReplicasUnlessGap
<1>1. SoundInv => ReplicasUnlessGap
  BY NobodyToCome DEF SoundInv, ReplicasSound, ReplicasUnlessGap
<1> QED
  BY <1>1, RootSoundInv, PTL

-----------------------------------------------------------------------------
(* A cluster to which singleClusterDecision gives a replica is among the       *)
(* clusters GetClusterDecisions reports in the root policy's status and sends  *)
(* events to, whatever the inputs are.                                         *)
THEOREM PlacedIsDecided == RootSpec => []ReplicatedIsDecided
  BY ReplicasDecided, PTL

(* computeRemainingBindings, for every order in which the cache lists the      *)
(* bindings: where the policy is placed, the remaining bindings, restricted or *)
(* not, place it there, and there is one if an unrestricted binding that does  *)
(* not itself exclude the cluster keeps the policy; where it is not placed     *)
(* nothing but restricted bindings is reported.                                *)
THEOREM RemainingAreExplained == RootSpec => []RemainingExplains
  BY RemainingExplained, PTL

(* GetClusterDecisions: the remaining bindings of a cluster on which the       *)
(* policy is placed do not depend on the order in which the restricted         *)
(* bindings are visited, unless one of them excludes a cluster that its        *)
(* placement does not select.                                                  *)
THEOREM OrderDoesNotMatter == RootSpec => []RemainingStable
  BY RemainingOrder, PTL

================================================================================
