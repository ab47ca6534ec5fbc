------------------------ MODULE EncryptionKeys_proofs ------------------------
(***************************************************************************)
(* What holds of the encryption key of a cluster for any number of         *)
(* policies, edits, failures and restarts.  The invariant comes in three   *)
(* layers: types (TypeInv), the copies of the Secret that are on their way *)
(* (SecretInv), and the key each policy has obtained (PolicyInv).  The     *)
(* second layer is what makes the Secret a key ring (KeyRing); the third   *)
(* is what the two claims about the replicas at rest follow from.          *)
(***************************************************************************)
EXTENDS EncryptionKeys, FiniteSetTheorems, SequenceTheorems, TLAPS

(* A reconcile that has begun has a copy of the Secret; a time to requeue is *)
(* computed from a stamp that could be parsed; a replica is written with     *)
(* something read from a Secret.                                             *)
LocalsOK ==
    /\ pc # "idle" => loc \in Secret
    /\ pc \in {"rotate", "repair"} => loc.stamp \in Nat
    /\ pc \in {"list", "patch"} => loc.disabled \/ loc.stamp \in Nat
    /\ \A p \in Policies : ppc[p] = "write" => got[p] \in Keys \cup {Bad}

TypeInv == KeysTypeOK /\ LocalsOK

(* A version on its way was stored in the past, and is the one stored if it  *)
(* carries its resourceVersion.                                              *)
Past(s) ==
    s # NoSecret =>
        /\ s.ver <= version
        /\ s.key \in Keys => s.key <= version
        /\ api # NoSecret /\ s.ver = api.ver => s = api

VersionSound ==
    /\ Past(api) /\ Past(cached)
    /\ \A i \in 1 .. Len(stream) : Past(stream[i])

(* The informer ends with the version stored.                                *)
CacheSound ==
    /\ stream = <<>> => cached = api
    /\ stream # <<>> => stream[Len(stream)] = api

(* The copy an Update would not find in conflict was made of the version     *)
(* stored.                                                                   *)
CopySound ==
    pc \in {"rotate", "repair"} =>
        /\ loc.ver <= version
        /\ api # NoSecret /\ api.ver = loc.ver =>
             /\ ~api.disabled
             /\ pc = "rotate" => loc = [api EXCEPT !.prev = IF api.key = Bad THEN Empty ELSE api.key,
                                                   !.stamp = loc.stamp]
             /\ pc = "repair" => api.prev = Bad /\ loc = [api EXCEPT !.prev = Empty]

(* A version with a key that is neither of the two stored is followed by one *)
(* with the previous key.                                                    *)
TwoKeys == api # NoSecret /\ api.key # Bad /\ api.prev \in Keys
PrevAfter(j) == \E i \in 1 .. Len(stream) : i > j /\ StoredKey(stream[i]) = api.prev
SeenSound ==
    TwoKeys =>
        /\ StoredKey(cached) \in {api.key, api.prev} \/ PrevAfter(0)
        /\ \A j \in 1 .. Len(stream) :
              StoredKey(stream[j]) \in {api.key, api.prev} \/ PrevAfter(j)

SecretInv == VersionSound /\ CacheSound /\ CopySound /\ SeenSound

(* A policy the controllers know of is placed; a replica was written with a  *)
(* key the policy obtained, and with the last of them unless a reconcile is  *)
(* due or on its way.                                                        *)
Handled(p) == queued[p] \/ ppc[p] = "create"
GotSound(p) ==
    /\ got[p] # Empty \/ ppc[p] # "idle" \/ queued[p] \/ listed[p] \/ p \in todo => p \in placed
    /\ got[p] = Empty => replica[p] = NoReplica
    /\ got[p] # Empty => Handled(p) \/ ppc[p] = "write" \/ replica[p] = got[p]
    /\ got[p] \in Keys => got[p] <= version

(* The key k is being announced to p.                                        *)
Announced(p, k) == (pc = "list" \/ (pc = "patch" /\ p \in todo)) /\ loc.key = k

(* k passed p by, or p will be reconciled.                                   *)
Excused(p, k) == Handled(p) \/ k \in missed[p] \cup unmoved[p] \/ Announced(p, k)

(* p has the key stored, or is excused, or the controller will announce the  *)
(* key because the rotation is disabled.                                     *)
CurrentSound(p) ==
    api # NoSecret /\ api.key # Bad =>
        \/ got[p] \in {Empty, api.key}
        \/ Excused(p, api.key)
        \/ api.disabled /\ (stream # <<>> \/ secretQueued)

(* The same of the key before it, without the last excuse.                   *)
PreviousSound(p) ==
    TwoKeys => got[p] \in {Empty, api.key, api.prev} \/ Excused(p, api.prev)

Claims(p) == GotSound(p) /\ CurrentSound(p) /\ PreviousSound(p)

PolicyInv == \A p \in Policies : Claims(p)

-----------------------------------------------------------------------------
(* Types.                                                                   *)

LEMMA StoreFields ==
    ASSUME TypeInv, NEW s \in Secret, Store(s)
    PROVE  /\ api' \in Secret /\ api' # NoSecret /\ api'.ver = version + 1
           /\ api'.data = s.data /\ api'.key = s.key /\ api'.prev = s.prev
           /\ api'.stamp = s.stamp /\ api'.disabled = s.disabled
<1>1. api' = [s EXCEPT !.ver = version + 1]
  BY SecretAssumption DEF Store, Stored
<1>2. version + 1 \in Nat
  BY DEF TypeInv, KeysTypeOK
<1>3. api' \in Secret
  BY <1>1, <1>2 DEF Secret
<1> QED
  BY <1>1, <1>3, SecretAssumption DEF Secret

LEMMA StoreType ==
    ASSUME TypeInv, NEW s \in Secret \cup {NoSecret}, Store(s)
    PROVE  /\ api' \in Secret \cup {NoSecret} /\ version' \in Nat
           /\ stream' \in Seq(Secret \cup {NoSecret})
<1>1. version \in Nat /\ stream \in Seq(Secret \cup {NoSecret})
  BY DEF TypeInv, KeysTypeOK
<1>2. api' \in Secret \cup {NoSecret}
  BY <1>1 DEF Store, Stored, Secret
<1> QED
  BY <1>1, <1>2 DEF Store

LEMMA PassedByType ==
    ASSUME NEW m \in [Policies -> SUBSET Keys], NEW ps, NEW k
    PROVE  PassedBy(m, ps, k) \in [Policies -> SUBSET Keys]
BY DEF PassedBy

LEMMA NewKeyType == TypeInv => NewKey \in Keys
BY DEF TypeInv, KeysTypeOK, NewKey, Keys

LEMMA UpdatedType ==
    ASSUME TypeInv, pc \in {"rotate", "repair"} PROVE Updated \in Secret /\ Updated.stamp \in Nat
<1>1. loc \in Secret /\ loc.stamp \in Nat /\ NewKey \in Keys
  BY NewKeyType DEF TypeInv, LocalsOK
<1> QED
  BY <1>1 DEF Updated, Secret

LEMMA KeysInitType == KeysInit => TypeInv
<1> SUFFICES ASSUME KeysInit PROVE TypeInv
  OBVIOUS
<1>1. placed \subseteq Policies
  BY PoliciesAssumption DEF KeysInit
<1>2. Cardinality(placed) \in 0 .. MaxEvents
  <2>1. IsFiniteSet(Policies)
    BY PoliciesAssumption
  <2>2. Cardinality(placed) <= Cardinality(Policies) /\ IsFiniteSet(placed)
    BY <1>1, <2>1, FS_Subset
  <2>3. Cardinality(placed) \in Nat /\ Cardinality(Policies) \in Nat
    BY <2>1, <2>2, FS_CardinalityType
  <2> QED
    BY <2>2, <2>3, EncryptionBounds
<1>3. KeysTypeOK
  <2>1. stream \in Seq(Secret \cup {NoSecret})
    BY DEF KeysInit
  <2>2. queued \in [Policies -> BOOLEAN] /\ listed \in [Policies -> BOOLEAN]
    BY DEF KeysInit
  <2>3. events \in 0 .. MaxEvents /\ now \in 0 .. MaxTime
    BY <1>2, EncryptionBounds DEF KeysInit
  <2> QED
    BY <1>1, <2>1, <2>2, <2>3 DEF KeysInit, KeysTypeOK
<1>4. LocalsOK
  BY DEF KeysInit, LocalsOK
<1> QED
  BY <1>3, <1>4 DEF TypeInv

LEMMA EventType == TypeInv /\ (Event \/ NoEvent) => events' \in 0 .. MaxEvents
BY EncryptionBounds DEF TypeInv, KeysTypeOK, Event, NoEvent

LEMMA RequeueType ==
    ASSUME TypeInv, NEW t \in Nat, RequeueAt(t) PROVE wake' \in Nat
BY DEF TypeInv, KeysTypeOK, RequeueAt

(* The reconcile of the encryption-keys controller.                          *)
LEMMA RotationType ==
    ASSUME TypeInv, RotationStep PROVE TypeInv'
<1> USE DEF TypeInv
<1>1. CASE ReconcileGone
  BY <1>1, EventType DEF ReconcileGone, Take, KeysTypeOK, LocalsOK, keyVars
<1>2. CASE ReconcileNoData
  BY <1>2, EventType DEF ReconcileNoData, Take, KeysTypeOK, LocalsOK
<1>3. CASE ReconcileDisabled
  BY <1>3, EventType DEF ReconcileDisabled, Take, KeysTypeOK, LocalsOK
<1>4. CASE ReconcileNotDue
  <2>1. cached \in Secret /\ cached.stamp \in Nat /\ Period \in Nat
    BY <1>4, PeriodAssumption
    DEF ReconcileNotDue, KeysTypeOK, Rotatable, Due, Secret
  <2>2. CASE cached.prev = Bad
    <3>1. loc' \in Secret /\ loc'.stamp = cached.stamp /\ pc' = "repair" /\ wake' = wake
      BY <1>4, <2>1, <2>2 DEF ReconcileNotDue, Secret
    <3> QED
      BY <1>4, <2>1, <3>1, EventType DEF ReconcileNotDue, Take, KeysTypeOK, LocalsOK
  <2>3. CASE cached.prev # Bad
    <3>1. wake' \in Nat
      BY <1>4, <2>1, <2>3, RequeueType DEF ReconcileNotDue
    <3> QED
      BY <1>4, <2>3, <3>1, EventType DEF ReconcileNotDue, Take, KeysTypeOK, LocalsOK
  <2> QED
    BY <2>2, <2>3
<1>5. CASE ReconcileRotate
  <2>1. cached \in Secret /\ now \in Nat
    BY <1>5, EncryptionBounds DEF ReconcileRotate, KeysTypeOK
  <2>2. loc' \in Secret /\ loc'.stamp \in Nat
    BY <1>5, <2>1 DEF ReconcileRotate, Rotated, Secret
  <2> QED
    BY <1>5, <2>2, EventType DEF ReconcileRotate, Take, KeysTypeOK, LocalsOK
<1>6. CASE UpdateOK
  <2>1. Updated \in Secret /\ loc.stamp + Period \in Nat /\ Updated.stamp \in Nat
    BY <1>6, UpdatedType, PeriodAssumption DEF UpdateOK, LocalsOK
  <2>2. /\ api' \in Secret /\ version' \in Nat /\ stream' \in Seq(Secret \cup {NoSecret})
        /\ api'.stamp \in Nat
    BY <1>6, <2>1, StoreFields, StoreType DEF UpdateOK
  <2>3. wake' \in Nat
    BY <1>6, <2>1, RequeueType DEF UpdateOK, KeysTypeOK
  <2> QED
    BY <1>6, <2>2, <2>3, EventType DEF UpdateOK, AfterUpdate, KeysTypeOK, LocalsOK
<1>7. CASE UpdateFails
  <2>1. /\ api' \in Secret \cup {NoSecret} /\ version' \in Nat
        /\ stream' \in Seq(Secret \cup {NoSecret})
    BY <1>7, UpdatedType, StoreType DEF UpdateFails, KeysTypeOK
  <2>2. missed' \in [Policies -> SUBSET Keys]
    BY <1>7, PassedByType DEF UpdateFails, KeysTypeOK
  <2>3. events' \in 0 .. MaxEvents
    BY <1>7, EventType DEF UpdateFails
  <2> QED
    BY <1>7, <2>1, <2>2, <2>3 DEF UpdateFails, AfterUpdate, KeysTypeOK, LocalsOK
<1>8. CASE ListOK \/ ListFails
  <2>1. PICK found \in SUBSET Policies : Trigger(found) /\ pc = "list"
    BY <1>8 DEF ListOK, ListFails
  <2>2. missed' \in [Policies -> SUBSET Keys]
    BY <2>1, PassedByType DEF Trigger, KeysTypeOK
  <2> QED
    BY <1>8, <2>1, <2>2, EventType DEF ListOK, ListFails, Trigger, KeysTypeOK, LocalsOK, secretVars
<1>9. CASE \E p \in Policies : PatchOK(p)
  <2>1. PICK p \in Policies : PatchOK(p)
    BY <1>9
  <2>2. unmoved' \in [Policies -> SUBSET Keys]
    BY <2>1, PassedByType DEF PatchOK, KeysTypeOK
  <2>3. mark' \in [Policies -> Nat \cup {NoStamp, Unset}]
    BY <2>1 DEF PatchOK, KeysTypeOK, LocalsOK, Secret
  <2> QED
    BY <2>1, <2>2, <2>3, EventType DEF PatchOK, KeysTypeOK, LocalsOK, secretVars
<1>10. CASE \E p \in Policies : PatchFails(p)
  <2>1. PICK p \in Policies : PatchFails(p)
    BY <1>10
  <2>2. missed' \in [Policies -> SUBSET Keys]
    BY <2>1, PassedByType DEF PatchFails, KeysTypeOK
  <2> QED
    BY <2>1, <2>2, EventType DEF PatchFails, KeysTypeOK, LocalsOK, secretVars
<1>11. CASE TriggerDone
  <2>1. wake' \in Nat
    BY <1>11, RequeueType, PeriodAssumption DEF TriggerDone, KeysTypeOK, LocalsOK
  <2> QED
    BY <1>11, <2>1, EventType DEF TriggerDone, KeysTypeOK, LocalsOK, secretVars, policyVars
<1> QED
  BY <1>1, <1>2, <1>3, <1>4, <1>5, <1>6, <1>7, <1>8, <1>9, <1>10, <1>11
  DEF RotationStep, Update

(* The reconcile of a replicated policy.                                     *)
LEMMA ObtainType ==
    ASSUME TypeInv, NEW p \in Policies, cached # NoSecret, ObtainKey(p, cached.key)
    PROVE  /\ cached.key \in Keys \cup {Bad}
           /\ got' \in [Policies -> Keys \cup {Bad, Empty}]
           /\ missed' \in [Policies -> SUBSET Keys] /\ unmoved' \in [Policies -> SUBSET Keys]
<1>1. cached.key \in Keys \cup {Bad}
  BY DEF TypeInv, KeysTypeOK, Secret
<1> QED
  BY <1>1 DEF TypeInv, KeysTypeOK, ObtainKey

LEMMA PolicyType ==
    ASSUME TypeInv, NEW p \in Policies, PolicyStep(p) \/ SeeReplica(p) \/ PlacePolicy(p)
    PROVE  TypeInv'
<1> USE DEF TypeInv
<1>1. CASE GetKey(p)
  <2>1. CASE cached = NoSecret
    BY <1>1, <2>1, EventType DEF GetKey, KeysTypeOK, LocalsOK, secretVars, keyVars
  <2>2. CASE cached # NoSecret
    BY <1>1, <2>2, EventType, ObtainType
    DEF GetKey, ObtainKey, KeysTypeOK, LocalsOK, secretVars, keyVars
  <2> QED
    BY <2>1, <2>2
<1>2. CASE CreateKey(p)
  <2>1. NewKey \in Keys /\ now \in Nat
    BY NewKeyType, EncryptionBounds DEF KeysTypeOK
  <2>2. /\ api' \in Secret \cup {NoSecret} /\ version' \in Nat
        /\ stream' \in Seq(Secret \cup {NoSecret})
    <3>1. [data |-> TRUE, key |-> NewKey, prev |-> Empty, stamp |-> now,
           disabled |-> FALSE, ver |-> 0] \in Secret
      BY <2>1 DEF Secret
    <3> QED
      BY <1>2, <3>1, StoreType DEF CreateKey
  <2>3. PassedBy(missed, Policies, NewKey) \in [Policies -> SUBSET Keys]
    BY PassedByType DEF KeysTypeOK
  <2>4. events' \in 0 .. MaxEvents
    BY <1>2, EventType DEF CreateKey
  <2>5. /\ missed' \in [Policies -> SUBSET Keys] /\ unmoved' \in [Policies -> SUBSET Keys]
        /\ got' \in [Policies -> Keys \cup {Bad, Empty}]
        /\ queued' \in [Policies -> BOOLEAN]
    <3>1. /\ unmoved' = unmoved \/ unmoved' = [unmoved EXCEPT ![p] = {}]
          /\ got' = got \/ got' = [got EXCEPT ![p] = NewKey]
          /\ queued' = queued \/ queued' = [queued EXCEPT ![p] = TRUE]
      BY <1>2 DEF CreateKey, Requeue
    <3>2. missed' \in [Policies -> SUBSET Keys]
      <4>1. \/ missed' = PassedBy(missed, Policies, NewKey)
            \/ missed' = [PassedBy(missed, Policies, NewKey) EXCEPT ![p] = {}]
        BY <1>2 DEF CreateKey
      <4> QED
        BY <4>1, <2>3
    <3> QED
      BY <2>1, <3>1, <3>2 DEF KeysTypeOK
  <2>6. /\ ppc' \in [Policies -> {"idle", "create", "write"}]
        /\ \A q \in Policies : ppc'[q] = "write" => got'[q] \in Keys \cup {Bad}
    BY <1>2, <2>1 DEF CreateKey, Requeue, KeysTypeOK, LocalsOK
  <2> QED
    BY <1>2, <2>2, <2>4, <2>5, <2>6 DEF CreateKey, KeysTypeOK, LocalsOK, keyVars
<1>3. CASE AlreadyExists(p)
  <2>1. CASE cached = NoSecret
    BY <1>3, <2>1, EventType
    DEF AlreadyExists, Requeue, KeysTypeOK, LocalsOK, secretVars, keyVars
  <2>2. CASE cached # NoSecret
    BY <1>3, <2>2, EventType, ObtainType
    DEF AlreadyExists, ObtainKey, KeysTypeOK, LocalsOK, secretVars, keyVars
  <2> QED
    BY <2>1, <2>2
<1>4. CASE CreateFails(p)
  BY <1>4, EventType DEF CreateFails, Requeue, KeysTypeOK, LocalsOK, secretVars, keyVars
<1>5. CASE WriteReplica(p)
  <2>1. replica' \in [Policies -> Keys \cup {Bad, NoReplica}]
    BY <1>5 DEF WriteReplica, KeysTypeOK, LocalsOK
  <2> QED
    BY <1>5, <2>1, EventType
    DEF WriteReplica, Requeue, KeysTypeOK, LocalsOK, secretVars, keyVars
<1>6. CASE SeeReplica(p)
  BY <1>6, EventType DEF SeeReplica, KeysTypeOK, LocalsOK, secretVars, keyVars
<1>7. CASE PlacePolicy(p)
  BY <1>7, EventType DEF PlacePolicy, KeysTypeOK, LocalsOK, secretVars, keyVars
<1> QED
  BY <1>1, <1>2, <1>3, <1>4, <1>5, <1>6, <1>7 DEF PolicyStep

(* What an edit stores.                                                      *)
LEMMA EditedType ==
    ASSUME TypeInv, api # NoSecret, NEW s \in EditedSecrets
    PROVE  /\ s \in Secret
           /\ \/ s.key = Bad /\ s.prev \in {api.prev, Empty}
              \/ s.key = api.key /\ s.prev \in {api.prev, Bad}
<1>1. api \in Secret
  BY DEF TypeInv, KeysTypeOK
<1> QED
  BY <1>1 DEF EditedSecrets, Secret

(* Informers, the clock, the timer and users.                                *)
Surroundings == SeeSecret \/ Tick \/ Timer \/ EditSecret \/ ReplaceKey \/ DeleteSecret \/ Restart

LEMMA SurroundingsType ==
    ASSUME TypeInv, Surroundings PROVE TypeInv'
<1> USE DEF TypeInv
<1>1. CASE SeeSecret
  <2>1. Head(stream) \in Secret \cup {NoSecret} /\ Tail(stream) \in Seq(Secret \cup {NoSecret})
    BY <1>1 DEF SeeSecret, KeysTypeOK
  <2> QED
    BY <1>1, <2>1, EventType DEF SeeSecret, KeysTypeOK, LocalsOK, policyVars
<1>2. CASE Tick
  BY <1>2, EventType, EncryptionBounds
  DEF Tick, KeysTypeOK, LocalsOK, secretVars, keyVars, policyVars
<1>3. CASE Timer
  BY <1>3, EventType DEF Timer, KeysTypeOK, LocalsOK, secretVars, policyVars
<1>4. CASE EditSecret
  <2>1. PICK s \in EditedSecrets \ {api} :
          /\ Store(s)
          /\ missed' = IF api.disabled /\ ~s.disabled THEN PassedBy(missed, Policies, s.key)
                       ELSE missed
    BY <1>4 DEF EditSecret
  <2>2. s \in Secret
    BY <1>4, <2>1, EditedType DEF EditSecret
  <2>3. missed' \in [Policies -> SUBSET Keys]
    BY <2>1, PassedByType DEF KeysTypeOK
  <2> QED
    BY <1>4, <2>1, <2>2, <2>3, StoreType, EventType
    DEF EditSecret, KeysTypeOK, LocalsOK, keyVars, policyVars
<1>5. CASE ReplaceKey
  <2>1. api \in Secret /\ NewKey \in Keys /\ now \in Nat
    BY <1>5, NewKeyType, EncryptionBounds DEF ReplaceKey, KeysTypeOK
  <2>2. PICK t \in {api.stamp, now} :
          Store([api EXCEPT !.prev = IF api.key = Bad THEN Empty ELSE api.key,
                            !.key = NewKey, !.data = TRUE, !.stamp = t])
    BY <1>5 DEF ReplaceKey
  <2>3. [api EXCEPT !.prev = IF api.key = Bad THEN Empty ELSE api.key,
                    !.key = NewKey, !.data = TRUE, !.stamp = t] \in Secret
    BY <2>1, <2>2 DEF Secret
  <2>4. missed' \in [Policies -> SUBSET Keys]
    BY <1>5, PassedByType DEF ReplaceKey, KeysTypeOK
  <2> QED
    BY <1>5, <2>2, <2>3, <2>4, StoreType, EventType
    DEF ReplaceKey, KeysTypeOK, LocalsOK, keyVars, policyVars
<1>6. CASE DeleteSecret
  BY <1>6, StoreType, EventType DEF DeleteSecret, KeysTypeOK, LocalsOK, keyVars, policyVars
<1>7. CASE Restart
  <2>1. stream' \in Seq(Secret \cup {NoSecret})
    BY <1>7 DEF Restart
  <2> QED
    BY <1>7, <2>1, EventType DEF Restart, RestartQueue, KeysTypeOK, LocalsOK
<1> QED
  BY <1>1, <1>2, <1>3, <1>4, <1>5, <1>6, <1>7 DEF Surroundings

LEMMA KeysNextSplit ==
    KeysNext <=> \/ RotationStep
                 \/ \E p \in Policies : PolicyStep(p) \/ SeeReplica(p) \/ PlacePolicy(p)
                 \/ Surroundings
BY DEF KeysNext, Surroundings

LEMMA TypeInvariant == KeysSpec => []TypeInv
<1>1. TypeInv /\ [KeysNext]_keysVars => TypeInv'
  <2> SUFFICES ASSUME TypeInv, [KeysNext]_keysVars PROVE TypeInv'
    OBVIOUS
  <2>1. CASE RotationStep
    BY <2>1, RotationType
  <2>2. CASE \E p \in Policies : PolicyStep(p) \/ SeeReplica(p) \/ PlacePolicy(p)
    BY <2>2, PolicyType
  <2>3. CASE Surroundings
    BY <2>3, SurroundingsType
  <2>4. CASE UNCHANGED keysVars
    BY <2>4 DEF TypeInv, KeysTypeOK, LocalsOK, keysVars, secretVars
  <2> QED
    BY <2>1, <2>2, <2>3, <2>4, KeysNextSplit
<1> QED
  BY <1>1, KeysInitType, PTL DEF KeysSpec

(* KeysTypeOK, for every set of policies and all bounds: the copies of the   *)
(* Secret, the steps of the two controllers and the keys of the replicas     *)
(* keep their types; no requeue is computed from a stamp that is none.       *)
THEOREM KeysTypeCorrect == KeysSpec => []KeysTypeOK
<1>1. TypeInv => KeysTypeOK
  BY DEF TypeInv
<1> QED
  BY <1>1, TypeInvariant, PTL

-----------------------------------------------------------------------------
(* The copies of the Secret on their way.                                    *)

LEMMA KeysInitSecret == KeysInit => SecretInv
<1> SUFFICES ASSUME KeysInit PROVE SecretInv
  OBVIOUS
<1>1. VersionSound /\ CacheSound
  BY DEF KeysInit, VersionSound, Past, CacheSound
<1>2. CopySound /\ SeenSound
  BY DEF KeysInit, CopySound, SeenSound, TwoKeys
<1> QED
  BY <1>1, <1>2 DEF SecretInv

LEMMA StoreStream ==
    ASSUME TypeInv, NEW s \in Secret \cup {NoSecret}, Store(s)
    PROVE  /\ Len(stream) \in Nat /\ Len(stream') = Len(stream) + 1 /\ stream' # <<>>
           /\ \A i \in 1 .. Len(stream) : stream'[i] = stream[i] /\ stream[i] \in Secret \cup {NoSecret}
           /\ stream'[Len(stream')] = api'
<1>1. stream \in Seq(Secret \cup {NoSecret}) /\ stream' = Append(stream, api')
  BY DEF TypeInv, KeysTypeOK, Store
<1>2. api' \in Secret \cup {NoSecret}
  BY StoreType
<1> QED
  BY <1>1, <1>2

(* A version that is stored leaves the earlier ones behind.                  *)
LEMMA StoreVersions ==
    ASSUME TypeInv, VersionSound, NEW s \in Secret \cup {NoSecret}, Store(s), cached' = cached,
           s # NoSecret /\ s.key \in Keys => s.key <= version + 1
    PROVE  VersionSound' /\ CacheSound'
<1>1. version \in Nat /\ version' = version + 1
  BY DEF Store, TypeInv, KeysTypeOK
<1>2. Past(api)'
  <2>1. CASE s = NoSecret
    BY <2>1 DEF Store, Past
  <2>2. CASE s # NoSecret
    BY <1>1, <2>2, StoreFields DEF Past
  <2> QED
    BY <2>1, <2>2
<1>3. ASSUME NEW c \in Secret \cup {NoSecret}, Past(c)
      PROVE  /\ c # NoSecret => c.ver <= version' /\ (c.key \in Keys => c.key <= version')
             /\ c # NoSecret /\ api' # NoSecret => c.ver # api'.ver
  <2>1. c # NoSecret => c.ver \in Nat /\ c.ver <= version /\ (c.key \in Keys => c.key <= version)
    BY <1>3 DEF Past, Secret
  <2>2. api' # NoSecret => api'.ver = version + 1
    BY StoreFields DEF Store
  <2> QED
    BY <1>1, <2>1, <2>2 DEF Keys
<1>4. cached \in Secret \cup {NoSecret}
  BY DEF TypeInv, KeysTypeOK
<1>5. Past(cached)'
  BY <1>3, <1>4 DEF VersionSound, Past
<1>6. ASSUME NEW i \in 1 .. Len(stream') PROVE Past(stream[i])'
  <2>1. CASE i \in 1 .. Len(stream)
    <3>1. stream'[i] = stream[i] /\ stream[i] \in Secret \cup {NoSecret} /\ Past(stream[i])
      BY <2>1, StoreStream DEF VersionSound
    <3> QED
      BY <1>3, <3>1 DEF Past
  <2>2. CASE i \notin 1 .. Len(stream)
    <3>1. stream'[i] = api'
      BY <2>2, StoreStream
    <3> QED
      BY <1>2, <3>1 DEF Past
  <2> QED
    BY <2>1, <2>2
<1>7. CacheSound'
  BY StoreStream DEF CacheSound
<1> QED
  BY <1>2, <1>5, <1>6, <1>7 DEF VersionSound

(* A version that keeps both keys.                                           *)
LEMMA StoreSameKeys ==
    ASSUME TypeInv, SeenSound, NEW s \in Secret, Store(s), cached' = cached,
           api # NoSecret, s.key = api.key, s.prev = api.prev
    PROVE  SeenSound'
<1> SUFFICES ASSUME TwoKeys' PROVE
        /\ StoredKey(cached)' \in {api'.key, api'.prev} \/ PrevAfter(0)'
        /\ \A j \in 1 .. Len(stream') :
              StoredKey(stream[j])' \in {api'.key, api'.prev} \/ PrevAfter(j)'
  BY DEF SeenSound
<1>1. TwoKeys /\ api'.key = api.key /\ api'.prev = api.prev /\ api' # NoSecret
  BY StoreFields DEF TwoKeys
<1>2. ASSUME NEW j \in 0 .. Len(stream), PrevAfter(j) PROVE PrevAfter(j)'
  BY <1>1, <1>2, StoreStream DEF PrevAfter, StoredKey
<1>3. StoredKey(cached)' \in {api'.key, api'.prev} \/ PrevAfter(0)'
  BY <1>1, <1>2, StoreStream DEF SeenSound, StoredKey
<1>4. ASSUME NEW j \in 1 .. Len(stream')
      PROVE  StoredKey(stream[j])' \in {api'.key, api'.prev} \/ PrevAfter(j)'
  <2>1. CASE j \in 1 .. Len(stream)
    BY <1>1, <1>2, <2>1, StoreStream DEF SeenSound, StoredKey
  <2>2. CASE j \notin 1 .. Len(stream)
    BY <1>1, <2>2, StoreStream DEF StoredKey
  <2> QED
    BY <2>1, <2>2
<1> QED
  BY <1>3, <1>4

(* A version whose previous key is the key that was stored.                  *)
LEMMA StoreNextKey ==
    ASSUME TypeInv, CacheSound, NEW s \in Secret, Store(s), cached' = cached,
           api # NoSecret, s.prev \in Keys => s.prev = api.key
    PROVE  SeenSound'
<1> SUFFICES ASSUME TwoKeys' PROVE
        /\ StoredKey(cached)' \in {api'.key, api'.prev} \/ PrevAfter(0)'
        /\ \A j \in 1 .. Len(stream') :
              StoredKey(stream[j])' \in {api'.key, api'.prev} \/ PrevAfter(j)'
  BY DEF SeenSound
<1>1. api'.prev = api.key /\ api' # NoSecret
  BY StoreFields DEF TwoKeys
<1>2. CASE stream = <<>>
  BY <1>1, <1>2, StoreStream DEF CacheSound, StoredKey
<1>3. CASE stream # <<>>
  <2>1. Len(stream) \in 1 .. Len(stream') /\ Len(stream) \in 1 .. Len(stream)
    BY <1>3, StoreStream DEF TypeInv, KeysTypeOK
  <2>2. StoredKey(stream'[Len(stream)]) = api'.prev
    BY <1>1, <1>3, <2>1, StoreStream DEF CacheSound, StoredKey
  <2>3. \A j \in 0 .. Len(stream) : j < Len(stream) => PrevAfter(j)'
    BY <2>1, <2>2 DEF PrevAfter
  <2>4. ASSUME NEW j \in 1 .. Len(stream')
        PROVE  StoredKey(stream[j])' \in {api'.key, api'.prev} \/ PrevAfter(j)'
    <3>1. j < Len(stream) \/ j = Len(stream) \/ j = Len(stream')
      BY StoreStream
    <3> QED
      BY <1>1, <2>2, <2>3, <3>1, StoreStream DEF StoredKey
  <2> QED
    BY <2>1, <2>3, <2>4
<1> QED
  BY <1>2, <1>3

(* A copy made before is in conflict with the version that is stored.        *)
LEMMA StoreConflicts ==
    ASSUME TypeInv, CopySound, NEW s \in Secret \cup {NoSecret}, Store(s), UNCHANGED <<pc, loc>>
    PROVE  CopySound'
<1>1. version \in Nat /\ version' = version + 1
  BY DEF Store, TypeInv, KeysTypeOK
<1>2. api' # NoSecret => api'.ver = version + 1
  BY StoreFields DEF Store
<1>3. pc \in {"rotate", "repair"} => loc.ver \in Nat
  BY DEF TypeInv, LocalsOK, Secret
<1> QED
  BY <1>1, <1>2, <1>3 DEF CopySound

(* What an Update that is not in conflict stores: the rotation keeps the key *)
(* stored, the repair only removes the bad previous key.                     *)
LEMMA UpdatedFields ==
    ASSUME TypeInv, SecretInv, pc \in {"rotate", "repair"}, ~Conflict
    PROVE  /\ api \in Secret /\ api # NoSecret /\ Updated \in Secret
           /\ ~api.disabled /\ ~Updated.disabled
           /\ pc = "rotate" => /\ Updated.key = NewKey
                               /\ Updated.prev = IF api.key = Bad THEN Empty ELSE api.key
           /\ pc = "repair" => /\ Updated.key = api.key /\ Updated.prev = Empty
                               /\ api.prev = Bad
<1>1. api \in Secret /\ api # NoSecret /\ api.ver = loc.ver /\ Updated \in Secret /\ loc \in Secret
  BY UpdatedType DEF Conflict, TypeInv, KeysTypeOK, LocalsOK
<1>2. ~api.disabled
  BY <1>1 DEF SecretInv, CopySound
<1>3. CASE pc = "rotate"
  <2>1. loc = [api EXCEPT !.prev = IF api.key = Bad THEN Empty ELSE api.key, !.stamp = loc.stamp]
    BY <1>1, <1>3 DEF SecretInv, CopySound
  <2>2. loc.prev = (IF api.key = Bad THEN Empty ELSE api.key) /\ loc.disabled = api.disabled
    BY <1>1, <2>1 DEF Secret
  <2>3. Updated.key = NewKey /\ Updated.prev = loc.prev /\ Updated.disabled = loc.disabled
    BY <1>1, <1>3 DEF Updated, Secret
  <2> QED
    BY <1>1, <1>2, <1>3, <2>2, <2>3
<1>4. CASE pc = "repair"
  <2>1. api.prev = Bad /\ loc = [api EXCEPT !.prev = Empty] /\ Updated = loc
    BY <1>1, <1>4 DEF SecretInv, CopySound, Updated
  <2> QED
    BY <1>1, <1>2, <1>4, <2>1 DEF Secret
<1> QED
  BY <1>3, <1>4

LEMMA UpdateSecret ==
    ASSUME TypeInv, SecretInv, pc \in {"rotate", "repair"}, ~Conflict, Store(Updated),
           cached' = cached, pc' \notin {"rotate", "repair"}
    PROVE  SecretInv'
<1>1. Updated \in Secret /\ (Updated.key \in Keys => Updated.key <= version + 1)
  <2>1. version \in Nat /\ (api.key \in Keys => api.key <= version)
    BY UpdatedFields DEF SecretInv, VersionSound, Past, TypeInv, KeysTypeOK
  <2> QED
    BY <2>1, UpdatedFields DEF NewKey, Keys
<1>2. VersionSound' /\ CacheSound'
  BY <1>1, StoreVersions DEF SecretInv
<1>3. SeenSound'
  <2>1. api # NoSecret /\ (Updated.prev \in Keys => Updated.prev = api.key)
    BY UpdatedFields, KeyAssumption DEF Keys
  <2> QED
    BY <1>1, <2>1, StoreNextKey DEF SecretInv
<1>4. CopySound'
  BY DEF CopySound
<1> QED
  BY <1>2, <1>3, <1>4 DEF SecretInv

(* Steps that leave the Secret and what is known of it alone.                *)
LEMMA SecretElsewhere ==
    ASSUME SecretInv, UNCHANGED <<api, stream, cached, version>>,
           UNCHANGED <<pc, loc>> \/ pc' \notin {"rotate", "repair"}
    PROVE  SecretInv'
BY DEF SecretInv, VersionSound, Past, CacheSound, CopySound, SeenSound, TwoKeys, PrevAfter

LEMMA RotationSecret ==
    ASSUME TypeInv, SecretInv, RotationStep PROVE SecretInv'
<1>1. CASE ReconcileGone \/ ReconcileNoData \/ ReconcileDisabled
  BY <1>1, SecretElsewhere DEF ReconcileGone, ReconcileNoData, ReconcileDisabled, Take
<1>2. CASE ReconcileNotDue
  <2>1. UNCHANGED <<api, stream, cached, version>> /\ cached \in Secret /\ pc = "idle"
    BY <1>2 DEF ReconcileNotDue, Take, TypeInv, KeysTypeOK
  <2>2. CASE cached.prev = Bad
    <3>1. pc' = "repair" /\ loc' = [cached EXCEPT !.prev = Empty] /\ ~cached.disabled
      BY <1>2, <2>2 DEF ReconcileNotDue
    <3>2. cached.ver <= version /\ (api # NoSecret /\ api.ver = cached.ver => cached = api)
      BY <2>1, SecretAssumption DEF SecretInv, VersionSound, Past
    <3>3. loc'.ver = cached.ver
      BY <2>1, <3>1 DEF Secret
    <3>4. CopySound'
      BY <2>1, <2>2, <3>1, <3>2, <3>3 DEF CopySound
    <3> QED
      BY <2>1, <3>4
      DEF SecretInv, VersionSound, Past, CacheSound, SeenSound, TwoKeys, PrevAfter
  <2>3. CASE cached.prev # Bad
    BY <1>2, <2>1, <2>3, SecretElsewhere DEF ReconcileNotDue
  <2> QED
    BY <2>2, <2>3
<1>3. CASE ReconcileRotate
  <2>1. UNCHANGED <<api, stream, cached, version>> /\ cached \in Secret /\ pc' = "rotate"
    BY <1>3 DEF ReconcileRotate, Take, TypeInv, KeysTypeOK
  <2>2. loc' = [cached EXCEPT !.prev = IF cached.key = Bad THEN Empty ELSE cached.key, !.stamp = now]
        /\ ~cached.disabled
    BY <1>3 DEF ReconcileRotate, Rotated
  <2>3. cached.ver <= version /\ (api # NoSecret /\ api.ver = cached.ver => cached = api)
    BY <2>1, SecretAssumption DEF SecretInv, VersionSound, Past
  <2>4. loc'.ver = cached.ver /\ loc'.stamp = now
    BY <2>1, <2>2 DEF Secret
  <2>5. CopySound'
    BY <2>1, <2>2, <2>3, <2>4 DEF CopySound
  <2> QED
    BY <2>1, <2>5
    DEF SecretInv, VersionSound, Past, CacheSound, SeenSound, TwoKeys, PrevAfter
<1>4. CASE UpdateOK
  <2>1. pc' \notin {"rotate", "repair"}
    BY <1>4 DEF UpdateOK
  <2> QED
    BY <1>4, <2>1, UpdateSecret DEF UpdateOK, AfterUpdate
<1>5. CASE UpdateFails
  <2>1. CASE ~Conflict /\ Store(Updated)
    BY <1>5, <2>1, UpdateSecret DEF UpdateFails, AfterUpdate
  <2>2. CASE UNCHANGED <<api, stream, version>>
    BY <1>5, <2>2, SecretElsewhere DEF UpdateFails, AfterUpdate
  <2> QED
    BY <1>5, <2>1, <2>2 DEF UpdateFails
<1>6. CASE ListOK \/ ListFails
  BY <1>6, SecretElsewhere DEF ListOK, ListFails, Trigger, secretVars
<1>7. CASE \E p \in Policies : PatchOK(p) \/ PatchFails(p)
  BY <1>7, SecretElsewhere DEF PatchOK, PatchFails, secretVars
<1>8. CASE TriggerDone
  BY <1>8, SecretElsewhere DEF TriggerDone, secretVars
<1> QED
  BY <1>1, <1>2, <1>3, <1>4, <1>5, <1>6, <1>7, <1>8 DEF RotationStep, Update

LEMMA PolicySecret ==
    ASSUME TypeInv, SecretInv, NEW p \in Policies,
           PolicyStep(p) \/ SeeReplica(p) \/ PlacePolicy(p)
    PROVE  SecretInv'
<1>1. CASE CreateKey(p)
  <2> DEFINE s == [data |-> TRUE, key |-> NewKey, prev |-> Empty, stamp |-> now,
                   disabled |-> FALSE, ver |-> 0]
  <2>1. s \in Secret /\ Store(s) /\ UNCHANGED <<cached, pc, loc>>
    <3>1. NewKey \in Keys /\ now \in Nat
      BY NewKeyType, EncryptionBounds DEF TypeInv, KeysTypeOK
    <3> QED
      BY <1>1, <3>1 DEF CreateKey, Secret, keyVars
  <2>2. version \in Nat /\ s.key <= version + 1
    BY DEF TypeInv, KeysTypeOK, NewKey
  <2>3. s.prev \notin Keys
    BY KeyAssumption DEF Keys
  <2> HIDE DEF s
  <2>4. VersionSound' /\ CacheSound' /\ CopySound'
    BY <2>1, <2>2, StoreVersions, StoreConflicts DEF SecretInv
  <2>5. SeenSound'
    BY <2>1, <2>3, StoreFields DEF SeenSound, TwoKeys
  <2> QED
    BY <2>4, <2>5 DEF SecretInv
<1>2. CASE GetKey(p) \/ AlreadyExists(p) \/ CreateFails(p)
  BY <1>2, SecretElsewhere DEF GetKey, AlreadyExists, CreateFails, secretVars, keyVars
<1>3. CASE WriteReplica(p) \/ SeeReplica(p) \/ PlacePolicy(p)
  BY <1>3, SecretElsewhere DEF WriteReplica, SeeReplica, PlacePolicy, secretVars, keyVars
<1> QED
  BY <1>1, <1>2, <1>3 DEF PolicyStep

(* What ReplaceKey stores.                                                   *)
LEMMA ReplaceFields ==
    ASSUME TypeInv, ReplaceKey
    PROVE  \E s \in Secret :
              /\ Store(s) /\ s.key = NewKey /\ s.disabled = api.disabled
              /\ s.prev = IF api.key = Bad THEN Empty ELSE api.key
<1>1. api \in Secret /\ NewKey \in Keys /\ now \in Nat
  BY NewKeyType, EncryptionBounds DEF ReplaceKey, TypeInv, KeysTypeOK
<1>2. PICK t \in {api.stamp, now} :
        Store([api EXCEPT !.prev = IF api.key = Bad THEN Empty ELSE api.key,
                          !.key = NewKey, !.data = TRUE, !.stamp = t])
  BY DEF ReplaceKey
<1> DEFINE s == [api EXCEPT !.prev = IF api.key = Bad THEN Empty ELSE api.key,
                            !.key = NewKey, !.data = TRUE, !.stamp = t]
<1>3. /\ s \in Secret /\ s.key = NewKey /\ s.disabled = api.disabled
      /\ s.prev = IF api.key = Bad THEN Empty ELSE api.key
  BY <1>1, <1>2 DEF Secret
<1> HIDE DEF s
<1>4. Store(s)
  BY <1>2 DEF s
<1> QED
  BY <1>3, <1>4

LEMMA SurroundingsSecret ==
    ASSUME TypeInv, SecretInv, Surroundings PROVE SecretInv'
<1>0. version \in Nat /\ (api # NoSecret /\ api.key \in Keys => api.key <= version)
  BY DEF SecretInv, VersionSound, Past, TypeInv, KeysTypeOK
<1>1. CASE SeeSecret
  <2>1. /\ stream \in Seq(Secret \cup {NoSecret}) /\ stream # <<>>
        /\ cached' = Head(stream) /\ stream' = Tail(stream)
        /\ UNCHANGED <<api, version, pc, loc>>
    BY <1>1 DEF SeeSecret, TypeInv, KeysTypeOK
  <2>2. /\ Len(stream) \in Nat \ {0} /\ Len(stream') = Len(stream) - 1
        /\ cached' = stream[1]
        /\ \A i \in 1 .. Len(stream') : stream'[i] = stream[i + 1]
    BY <2>1
  <2>3. VersionSound'
    BY <2>1, <2>2 DEF SecretInv, VersionSound, Past
  <2>4. CacheSound'
    <3>1. CASE Len(stream) = 1
      <4>1. stream' = <<>>
        BY <2>1, <2>2, <3>1
      <4> QED
        BY <2>1, <2>2, <3>1, <4>1 DEF SecretInv, CacheSound
    <3>2. CASE Len(stream) # 1
      <4>1. Len(stream') \in 1 .. Len(stream') /\ stream'[Len(stream')] = stream[Len(stream)]
        BY <2>2, <3>2
      <4>2. stream' # <<>>
        BY <2>2, <3>2
      <4> QED
        BY <2>1, <4>1, <4>2 DEF SecretInv, CacheSound
    <3> QED
      BY <3>1, <3>2
  <2>5. CopySound'
    BY <2>1 DEF SecretInv, CopySound
  <2>6. SeenSound'
    <3> SUFFICES ASSUME TwoKeys PROVE
            /\ StoredKey(cached') \in {api.key, api.prev} \/ PrevAfter(0)'
            /\ \A j \in 1 .. Len(stream') :
                  StoredKey(stream'[j]) \in {api.key, api.prev} \/ PrevAfter(j)'
      BY <2>1 DEF SeenSound, TwoKeys, StoredKey
    <3>1. ASSUME NEW j \in 1 .. Len(stream), PrevAfter(j) PROVE PrevAfter(j - 1)'
      <4>1. PICK i \in 1 .. Len(stream) : i > j /\ StoredKey(stream[i]) = api.prev
        BY <3>1 DEF PrevAfter
      <4>2. i - 1 \in 1 .. Len(stream') /\ stream'[i - 1] = stream[i] /\ i - 1 > j - 1
        BY <2>2, <4>1
      <4> QED
        BY <2>1, <4>1, <4>2 DEF PrevAfter, StoredKey
    <3>2. StoredKey(stream[1]) \in {api.key, api.prev} \/ PrevAfter(1)
      BY <2>2 DEF SecretInv, SeenSound
    <3>3. ASSUME NEW j \in 1 .. Len(stream')
          PROVE  StoredKey(stream'[j]) \in {api.key, api.prev} \/ PrevAfter(j)'
      <4>1. j + 1 \in 1 .. Len(stream) /\ stream'[j] = stream[j + 1] /\ (j + 1) - 1 = j
        BY <2>2
      <4>2. StoredKey(stream[j + 1]) \in {api.key, api.prev} \/ PrevAfter(j + 1)
        BY <4>1 DEF SecretInv, SeenSound
      <4> QED
        BY <3>1, <4>1, <4>2
    <3> QED
      BY <2>2, <3>1, <3>2, <3>3
  <2> QED
    BY <2>3, <2>4, <2>5, <2>6 DEF SecretInv
<1>2. CASE Tick \/ Timer
  BY <1>2, SecretElsewhere DEF Tick, Timer, secretVars, keyVars
<1>3. CASE EditSecret
  <2>1. PICK s \in EditedSecrets : Store(s)
    BY <1>3 DEF EditSecret
  <2>2. /\ s \in Secret /\ api # NoSecret /\ UNCHANGED <<cached, pc, loc>>
        /\ \/ s.key = Bad /\ s.prev \in {api.prev, Empty}
           \/ s.key = api.key /\ s.prev \in {api.prev, Bad}
    BY <1>3, <2>1, EditedType DEF EditSecret, keyVars
  <2>3. Bad \notin Keys
    BY KeyAssumption DEF Keys
  <2>4. s.key \in Keys => s.key <= version + 1
    BY <1>0, <2>2, <2>3 DEF Keys
  <2>5. VersionSound' /\ CacheSound' /\ CopySound'
    BY <2>1, <2>2, <2>4, StoreVersions, StoreConflicts DEF SecretInv
  <2>6. SeenSound'
    <3>1. CASE s.key = api.key /\ s.prev = api.prev
      BY <2>1, <2>2, <3>1, StoreSameKeys DEF SecretInv
    <3>2. CASE s.key = Bad \/ s.prev = Bad
      BY <2>1, <2>2, <2>3, <3>2, StoreFields DEF SeenSound, TwoKeys
    <3> QED
      BY <2>2, <3>1, <3>2
  <2> QED
    BY <2>5, <2>6 DEF SecretInv
<1>4. CASE ReplaceKey
  <2>1. PICK s \in Secret : /\ Store(s) /\ s.key = NewKey
                            /\ s.prev = IF api.key = Bad THEN Empty ELSE api.key
    BY <1>4, ReplaceFields
  <2>2. api # NoSecret /\ UNCHANGED <<cached, pc, loc>>
    BY <1>4 DEF ReplaceKey, keyVars
  <2>3. s.key <= version + 1 /\ (s.prev \in Keys => s.prev = api.key)
    BY <1>0, <2>1, KeyAssumption DEF NewKey, Keys
  <2>4. VersionSound' /\ CacheSound' /\ CopySound'
    BY <2>1, <2>2, <2>3, StoreVersions, StoreConflicts DEF SecretInv
  <2>5. SeenSound'
    BY <2>1, <2>2, <2>3, StoreNextKey DEF SecretInv
  <2> QED
    BY <2>4, <2>5 DEF SecretInv
<1>5. CASE DeleteSecret
  <2>1. Store(NoSecret) /\ UNCHANGED <<cached, pc, loc>> /\ api' = NoSecret
    BY <1>5 DEF DeleteSecret, keyVars, Store
  <2>2. VersionSound' /\ CacheSound' /\ CopySound'
    BY <2>1, StoreVersions, StoreConflicts DEF SecretInv
  <2> QED
    BY <2>1, <2>2 DEF SecretInv, SeenSound, TwoKeys
<1>6. CASE Restart
  <2>1. cached' = api /\ api' = api /\ stream' = <<>> /\ version' = version /\ pc' = "idle"
    BY <1>6 DEF Restart
  <2>2. VersionSound' /\ CacheSound'
    BY <2>1 DEF SecretInv, VersionSound, Past, CacheSound
  <2>3. CopySound' /\ SeenSound'
    BY <2>1 DEF CopySound, SeenSound, TwoKeys, StoredKey
  <2> QED
    BY <2>2, <2>3 DEF SecretInv
<1> QED
  BY <1>1, <1>2, <1>3, <1>4, <1>5, <1>6 DEF Surroundings

LEMMA SecretInvariant == KeysSpec => []SecretInv
<1>1. TypeInv /\ SecretInv /\ [KeysNext]_keysVars => SecretInv'
  <2> SUFFICES ASSUME TypeInv, SecretInv, [KeysNext]_keysVars PROVE SecretInv'
    OBVIOUS
  <2>1. CASE RotationStep
    BY <2>1, RotationSecret
  <2>2. CASE \E p \in Policies : PolicyStep(p) \/ SeeReplica(p) \/ PlacePolicy(p)
    BY <2>2, PolicySecret
  <2>3. CASE Surroundings
    BY <2>3, SurroundingsSecret
  <2>4. CASE UNCHANGED keysVars
    BY <2>4, SecretElsewhere DEF keysVars, secretVars
  <2> QED
    BY <2>1, <2>2, <2>3, <2>4, KeysNextSplit
<1> QED
  BY <1>1, KeysInitSecret, TypeInvariant, PTL DEF KeysSpec

-----------------------------------------------------------------------------
(* The key ring.                                                             *)

(* An Update that is not in conflict is a rotation or a repair of the ring.  *)
LEMMA UpdateIsRingStep ==
    ASSUME TypeInv, SecretInv, pc \in {"rotate", "repair"}, ~Conflict, Store(Updated)
    PROVE  Ring!RingNext
<1>1. api' # NoSecret /\ api'.key = Updated.key /\ api'.prev = Updated.prev
  BY UpdatedFields, StoreFields
<1>2. api # NoSecret /\ api.key \in Keys \cup {Bad}
  BY UpdatedFields DEF Secret
<1>3. version \in Nat /\ version' = version + 1
  BY DEF Store, TypeInv, KeysTypeOK
<1>4. CASE pc = "rotate"
  <2>1. Ring!Rotate
    BY <1>1, <1>2, <1>3, <1>4, UpdatedFields, KeyAssumption
    DEF Ring!Rotate, Ring!Fresh, Ring!Key, NewKey, Keys
  <2> QED
    BY <2>1 DEF Ring!RingNext
<1>5. CASE pc = "repair"
  <2>1. Ring!Repair
    BY <1>1, <1>2, <1>3, <1>5, UpdatedFields DEF Ring!Repair, Ring!Later
  <2> QED
    BY <2>1 DEF Ring!RingNext
<1> QED
  BY <1>4, <1>5

LEMMA RingStep ==
    ASSUME TypeInv, SecretInv, [KeysNext]_keysVars PROVE [Ring!RingNext]_(Ring!ring)
<1>0. version \in Nat /\ (api # NoSecret => api \in Secret)
  BY DEF TypeInv, KeysTypeOK
<1>1. CASE UNCHANGED <<api, version>>
  BY <1>1 DEF Ring!ring
<1>2. CASE Update
  <2>1. CASE ~Conflict /\ Store(Updated)
    BY <1>2, <2>1, UpdateIsRingStep DEF Update, UpdateOK, UpdateFails
  <2>2. CASE UNCHANGED <<api, version>>
    BY <1>1, <2>2
  <2> QED
    BY <1>2, <2>1, <2>2 DEF Update, UpdateOK, UpdateFails
<1>3. ASSUME NEW p \in Policies, CreateKey(p) PROVE Ring!RingNext
  <2> DEFINE s == [data |-> TRUE, key |-> NewKey, prev |-> Empty, stamp |-> now,
                   disabled |-> FALSE, ver |-> 0]
  <2>1. api = NoSecret /\ Store(s) /\ s.key = NewKey /\ s.prev = Empty
    BY <1>3 DEF CreateKey
  <2>2. s \in Secret
    BY NewKeyType, EncryptionBounds DEF TypeInv, KeysTypeOK, Secret
  <2> HIDE DEF s
  <2>3. version' = version + 1 /\ api' # NoSecret /\ api'.key = NewKey /\ api'.prev = Empty
    BY <2>1, <2>2, StoreFields DEF Store
  <2>4. Ring!Create
    BY <1>0, <2>1, <2>3 DEF Ring!Create, Ring!Fresh, Ring!Key, NewKey
  <2> QED
    BY <2>4 DEF Ring!RingNext
<1>4. CASE EditSecret
  <2>1. PICK s \in EditedSecrets : Store(s)
    BY <1>4 DEF EditSecret
  <2>2. /\ s \in Secret /\ api # NoSecret
        /\ \/ s.key = Bad /\ s.prev \in {api.prev, Empty}
           \/ s.key = api.key /\ s.prev \in {api.prev, Bad}
    BY <1>4, <2>1, EditedType DEF EditSecret
  <2>3. version' = version + 1 /\ api' # NoSecret /\ api'.key = s.key /\ api'.prev = s.prev
    BY <2>1, <2>2, StoreFields DEF Store
  <2>4. api.key # Empty
    BY <1>0, <2>2, KeyAssumption DEF Secret, Keys
  <2>5. Ring!Damage \/ Ring!Touch
    BY <1>0, <2>2, <2>3, <2>4 DEF Ring!Damage, Ring!Touch, Ring!Later
  <2> QED
    BY <2>5 DEF Ring!RingNext
<1>5. CASE ReplaceKey
  <2>1. PICK s \in Secret : /\ Store(s) /\ s.key = NewKey
                            /\ s.prev = IF api.key = Bad THEN Empty ELSE api.key
    BY <1>5, ReplaceFields
  <2>2. api # NoSecret
    BY <1>5 DEF ReplaceKey
  <2>3. version' = version + 1 /\ api' # NoSecret /\ api'.key = NewKey /\ api'.prev = s.prev
    BY <2>1, StoreFields DEF Store
  <2>4. api.key # Empty
    BY <1>0, <2>2, KeyAssumption DEF Secret, Keys
  <2>5. Ring!Rotate
    BY <1>0, <2>1, <2>2, <2>3, <2>4 DEF Ring!Rotate, Ring!Fresh, Ring!Key, NewKey
  <2> QED
    BY <2>5 DEF Ring!RingNext
<1>6. CASE DeleteSecret
  <2>1. version' = version + 1 /\ api' = NoSecret
    BY <1>6 DEF DeleteSecret, Store
  <2>2. Ring!Delete
    BY <1>0, <2>1 DEF Ring!Delete, Ring!Later
  <2> QED
    BY <2>2 DEF Ring!RingNext
<1>7. CASE RotationStep /\ ~Update
  BY <1>1, <1>7
  DEF RotationStep, ReconcileGone, ReconcileNoData, ReconcileDisabled, ReconcileNotDue,
      ReconcileRotate, Take, ListOK, ListFails, Trigger, PatchOK, PatchFails, TriggerDone,
      secretVars
<1>8. ASSUME NEW p \in Policies, PolicyStep(p) \/ SeeReplica(p) \/ PlacePolicy(p), ~CreateKey(p)
      PROVE  UNCHANGED <<api, version>>
  BY <1>8 DEF PolicyStep, GetKey, AlreadyExists, CreateFails, WriteReplica, SeeReplica,
              PlacePolicy, secretVars
<1>9. CASE SeeSecret \/ Tick \/ Timer \/ Restart
  BY <1>1, <1>9 DEF SeeSecret, Tick, Timer, Restart, secretVars
<1>10. CASE UNCHANGED keysVars
  BY <1>1, <1>10 DEF keysVars, secretVars
<1> QED
  BY <1>1, <1>2, <1>3, <1>4, <1>5, <1>6, <1>7, <1>8, <1>9, <1>10, KeysNextSplit
  DEF Surroundings

(* ImplementsKeyRing: rotateKey, getEncryptionKey and the Reconcile of the   *)
(* encryption-keys controller, with their caches that lag, conflicts, lost   *)
(* answers and restarts, take only steps of the key ring.                    *)
THEOREM KeyRingRefined == KeysSpec => ImplementsKeyRing
<1>1. KeysInit => Ring!RingInit
  BY DEF KeysInit, Ring!RingInit
<1>2. TypeInv /\ SecretInv /\ [KeysNext]_keysVars => [Ring!RingNext]_(Ring!ring)
  BY RingStep
<1> QED
  BY <1>1, <1>2, TypeInvariant, SecretInvariant, PTL
  DEF KeysSpec, ImplementsKeyRing, Ring!RingSpec

-----------------------------------------------------------------------------
(* The key each policy has obtained.                                         *)

LEMMA KeysInitPolicy == KeysInit => PolicyInv
<1> SUFFICES ASSUME KeysInit, NEW p \in Policies PROVE Claims(p)
  BY DEF PolicyInv
<1>1. GotSound(p)
  BY KeyAssumption DEF KeysInit, GotSound, Handled, Keys
<1>2. CurrentSound(p) /\ PreviousSound(p)
  BY DEF KeysInit, CurrentSound, PreviousSound, TwoKeys
<1> QED
  BY <1>1, <1>2 DEF Claims

(* A key that passes the policies by is missed by those without it.          *)
LEMMA PassedByMissed ==
    ASSUME NEW m \in [Policies -> SUBSET Keys], NEW ps, NEW k \in Keys, NEW p \in Policies, p \in ps
    PROVE  got[p] \in {k, Empty} \/ k \in PassedBy(m, ps, k)[p]
BY DEF PassedBy

LEMMA PassedByGrows ==
    ASSUME NEW m \in [Policies -> SUBSET Keys], NEW ps, NEW k, NEW p \in Policies
    PROVE  m[p] \subseteq PassedBy(m, ps, k)[p]
BY DEF PassedBy

(* A step that leaves the Secret and the key of p alone keeps the claims     *)
(* about p if it does not end an announcement that p needs.                  *)
LEMMA ClaimsElsewhere ==
    ASSUME TypeInv, NEW p \in Policies, Claims(p),
           UNCHANGED <<api, version>>, placed \subseteq placed',
           ppc'[p] = ppc[p], got'[p] = got[p], replica'[p] = replica[p],
           queued[p] => queued'[p], queued'[p] \/ listed'[p] \/ p \in todo' => p \in placed',
           missed[p] \subseteq missed'[p], unmoved[p] \subseteq unmoved'[p],
           \A k \in Keys : Announced(p, k) =>
               \/ Announced(p, k)' \/ queued'[p] \/ got[p] \in {Empty, k}
               \/ k \in missed'[p] \cup unmoved'[p],
           api # NoSecret /\ api.disabled /\ (stream # <<>> \/ secretQueued) =>
               (stream' # <<>> \/ secretQueued') \/ Announced(p, api.key)'
    PROVE  Claims(p)'
<1>1. GotSound(p)'
  BY DEF Claims, GotSound, Handled
<1>2. CurrentSound(p)'
  <2> SUFFICES ASSUME api # NoSecret, api.key # Bad
               PROVE  \/ got[p] \in {Empty, api.key}
                      \/ Excused(p, api.key)'
                      \/ api.disabled /\ (stream' # <<>> \/ secretQueued')
    BY DEF CurrentSound, Excused, Announced
  <2>1. api.key \in Keys
    BY DEF TypeInv, KeysTypeOK, Secret
  <2>2. CASE Excused(p, api.key)
    BY <2>1, <2>2 DEF Excused, Handled
  <2>3. CASE api.disabled /\ (stream # <<>> \/ secretQueued)
    BY <2>3 DEF Excused
  <2> QED
    BY <2>2, <2>3 DEF Claims, CurrentSound
<1>3. PreviousSound(p)'
  <2> SUFFICES ASSUME TwoKeys
               PROVE  \/ got[p] \in {Empty, api.key, api.prev}
                      \/ Excused(p, api.prev)'
    BY DEF PreviousSound, TwoKeys, Excused, Announced
  <2>1. api.prev \in Keys
    BY DEF TwoKeys
  <2>2. CASE Excused(p, api.prev)
    BY <2>1, <2>2 DEF Excused, Handled
  <2> QED
    BY <2>2 DEF Claims, PreviousSound
<1> QED
  BY <1>1, <1>2, <1>3 DEF Claims

(* A version is stored: p has its key, is excused, or will be told because   *)
(* the rotation is disabled, and it has the previous key or is excused.      *)
LEMMA ClaimsStored ==
    ASSUME TypeInv, NEW p \in Policies, Claims(p), NEW s \in Secret, Store(s),
           placed' = placed, queued'[p] = queued[p], ppc'[p] = ppc[p], got'[p] = got[p],
           replica'[p] = replica[p], listed'[p] = listed[p], todo' = todo,
           s.key # Bad => got[p] \in {Empty, s.key} \/ Excused(p, s.key)' \/ s.disabled,
           s.key # Bad /\ s.prev \in Keys =>
               got[p] \in {Empty, s.key, s.prev} \/ Excused(p, s.prev)'
    PROVE  Claims(p)'
<1>1. GotSound(p)'
  <2>1. version \in Nat /\ version' = version + 1
    BY DEF Store, TypeInv, KeysTypeOK
  <2> QED
    BY <2>1 DEF Claims, GotSound, Handled, Keys
<1>2. /\ api' # NoSecret /\ api'.key = s.key /\ api'.prev = s.prev /\ api'.disabled = s.disabled
      /\ stream' # <<>>
  BY StoreFields, StoreStream
<1>3. CurrentSound(p)'
  BY <1>2 DEF CurrentSound, Excused, Announced, Handled
<1>4. PreviousSound(p)'
  BY <1>2 DEF PreviousSound, TwoKeys, Excused, Announced, Handled
<1> QED
  BY <1>1, <1>3, <1>4 DEF Claims

(* A policy that is queued, or on its way to a new Secret, is excused from   *)
(* everything.                                                               *)
LEMMA ClaimsHandled ==
    ASSUME NEW p \in Policies, Handled(p)', p \in placed',
           got'[p] = Empty => replica'[p] = NoReplica,
           got'[p] \in Keys => got'[p] <= version'
    PROVE  Claims(p)'
BY DEF Claims, GotSound, CurrentSound, PreviousSound, Excused

(* A policy that reads the Secret of the cache has its key, and missed those *)
(* that are on their way.                                                    *)
LEMMA ClaimsObtained ==
    ASSUME TypeInv, SecretInv, NEW p \in Policies, p \in placed', cached # NoSecret,
           ObtainKey(p, cached.key), ppc'[p] = "write", UNCHANGED <<api, stream, version>>
    PROVE  Claims(p)'
<1>1. /\ got'[p] = cached.key /\ cached.key \in Keys \cup {Bad} /\ cached.key # Empty
      /\ missed'[p] = {StoredKey(x) : x \in ToSet(stream)} \cap (Keys \ {cached.key})
  BY KeyAssumption DEF ObtainKey, TypeInv, KeysTypeOK, Secret, Keys
<1>2. cached.key \in Keys => cached.key <= version
  BY DEF SecretInv, VersionSound, Past
<1>3. GotSound(p)'
  BY <1>1, <1>2 DEF GotSound
<1>4. ASSUME NEW i \in 1 .. Len(stream), StoredKey(stream[i]) \in Keys
      PROVE  StoredKey(stream[i]) \in {got'[p]} \cup missed'[p]
  <2>1. stream[i] \in ToSet(stream)
    BY DEF ToSet
  <2> QED
    BY <1>1, <1>4, <2>1
<1>5. CurrentSound(p)'
  <2> SUFFICES ASSUME api # NoSecret, api.key # Bad
               PROVE  api.key \in {got'[p]} \cup missed'[p]
    BY DEF CurrentSound, Excused
  <2>1. api.key \in Keys
    BY DEF TypeInv, KeysTypeOK, Secret
  <2>2. CASE stream = <<>>
    BY <1>1, <2>2 DEF SecretInv, CacheSound
  <2>3. CASE stream # <<>>
    <3>1. Len(stream) \in 1 .. Len(stream)
      BY <2>3 DEF TypeInv, KeysTypeOK
    <3>2. StoredKey(stream[Len(stream)]) = api.key
      BY <2>3 DEF SecretInv, CacheSound, StoredKey
    <3> QED
      BY <1>4, <2>1, <3>1, <3>2
  <2> QED
    BY <2>2, <2>3
<1>6. PreviousSound(p)'
  <2> SUFFICES ASSUME TwoKeys
               PROVE  got'[p] \in {api.key, api.prev} \/ api.prev \in missed'[p]
    BY DEF PreviousSound, TwoKeys, Excused
  <2>1. api.prev \in Keys
    BY DEF TwoKeys
  <2>2. CASE StoredKey(cached) \in {api.key, api.prev}
    BY <1>1, <2>2 DEF StoredKey
  <2>3. CASE PrevAfter(0)
    BY <1>4, <2>1, <2>3 DEF PrevAfter
  <2> QED
    BY <2>2, <2>3 DEF SecretInv, SeenSound
<1> QED
  BY <1>3, <1>5, <1>6 DEF Claims

LEMMA RotationPolicies ==
    ASSUME TypeInv, SecretInv, PolicyInv, RotationStep PROVE PolicyInv'
<1> SUFFICES ASSUME NEW p \in Policies PROVE Claims(p)'
  BY DEF PolicyInv
<1>0. Claims(p) /\ missed \in [Policies -> SUBSET Keys] /\ unmoved \in [Policies -> SUBSET Keys]
  BY DEF PolicyInv, TypeInv, KeysTypeOK
<1>1. CASE ReconcileGone \/ ReconcileNoData \/ ReconcileDisabled \/ ReconcileNotDue
           \/ ReconcileRotate
  <2>1. /\ pc = "idle"
        /\ UNCHANGED <<api, stream, version, placed, queued, ppc, got, replica, listed, todo,
                       missed, unmoved>>
    BY <1>1 DEF ReconcileGone, ReconcileNoData, ReconcileDisabled, ReconcileNotDue,
                ReconcileRotate, Take
  <2>2. api # NoSecret /\ api.disabled /\ (stream # <<>> \/ secretQueued) =>
            stream' # <<>> \/ secretQueued' \/ Announced(p, api.key)'
    <3>1. CASE stream # <<>>
      BY <2>1, <3>1
    <3>2. CASE stream = <<>> /\ api # NoSecret /\ api.disabled
      <4>1. cached = api
        BY <3>2 DEF SecretInv, CacheSound
      <4>2. ReconcileDisabled
        BY <1>1, <3>2, <4>1
        DEF ReconcileGone, ReconcileNoData, ReconcileNotDue, ReconcileRotate
      <4> QED
        BY <2>1, <4>1, <4>2 DEF ReconcileDisabled, Announced
    <3> QED
      BY <3>1, <3>2
  <2>3. \A k \in Keys : ~Announced(p, k)
    BY <2>1 DEF Announced
  <2>4. queued'[p] \/ listed'[p] \/ p \in todo' => p \in placed'
    BY <1>0, <2>1 DEF Claims, GotSound
  <2> QED
    BY <1>0, <2>1, <2>2, <2>3, <2>4, ClaimsElsewhere
<1>2. ASSUME pc \in {"rotate", "repair"}, ~Conflict, Store(Updated), AfterUpdate,
             \/ missed' = missed /\ (pc = "rotate" => pc' = "list" /\ loc' = api')
             \/ missed' = PassedBy(missed, Policies, Updated.key)
      PROVE  Claims(p)'
  <2>1. PICK s \in Secret : s = Updated
    BY <1>2, UpdatedFields
  <2>2. UNCHANGED <<placed, queued, ppc, got, replica, listed, todo, unmoved>>
    BY <1>2 DEF AfterUpdate
  <2>3. missed[p] \subseteq missed'[p]
    BY <1>0, <1>2, PassedByGrows
  <2>4. /\ api # NoSecret /\ api \in Secret /\ ~api.disabled
        /\ \A k : ~Announced(p, k)
    BY <1>2, UpdatedFields DEF Announced
  <2>5. api.key # Bad =>
            got[p] \in {Empty, api.key} \/ Handled(p) \/ api.key \in missed[p] \cup unmoved[p]
    BY <1>0, <2>4 DEF Claims, CurrentSound, Excused
  <2>6. s.key # Bad => got[p] \in {Empty, s.key} \/ Excused(p, s.key)'
    <3>1. CASE pc' = "list" /\ loc' = api'
      <4>1. loc'.key = s.key
        BY <1>2, <2>1, <3>1, StoreFields
      <4> QED
        BY <3>1, <4>1 DEF Excused, Announced
    <3>2. CASE missed' = PassedBy(missed, Policies, s.key) /\ s.key # Bad
      <4>1. s.key \in Keys
        BY <3>2 DEF Secret
      <4> QED
        BY <1>0, <3>2, <4>1, PassedByMissed DEF Excused
    <3>3. CASE pc = "repair"
      <4>1. s.key = api.key
        BY <1>2, <2>1, <3>3, UpdatedFields
      <4> QED
        BY <2>2, <2>3, <2>5, <4>1 DEF Excused, Handled
    <3> QED
      BY <1>2, <2>1, <3>1, <3>2, <3>3
  <2>7. s.key # Bad /\ s.prev \in Keys =>
            got[p] \in {Empty, s.key, s.prev} \/ Excused(p, s.prev)'
    <3>1. s.prev \in Keys => api.key # Bad /\ s.prev = api.key
      BY <1>2, <2>1, UpdatedFields, KeyAssumption DEF Keys
    <3> QED
      BY <2>2, <2>3, <2>5, <3>1 DEF Excused, Handled
  <2> QED
    BY <1>0, <1>2, <2>1, <2>2, <2>6, <2>7, ClaimsStored
<1>3. CASE UpdateOK
  BY <1>2, <1>3 DEF UpdateOK
<1>4. CASE UpdateFails
  <2>1. CASE ~Conflict /\ Store(Updated) /\ missed' = PassedBy(missed, Policies, Updated.key)
    BY <1>2, <1>4, <2>1 DEF UpdateFails
  <2>2. CASE UNCHANGED <<api, stream, version, missed>>
    <3>1. /\ UNCHANGED <<placed, queued, ppc, got, replica, listed, todo, unmoved>>
          /\ secretQueued' /\ \A k \in Keys : ~Announced(p, k)
      BY <1>4 DEF UpdateFails, AfterUpdate, Announced
    <3>2. queued'[p] \/ listed'[p] \/ p \in todo' => p \in placed'
      BY <1>0, <3>1 DEF Claims, GotSound
    <3> QED
      BY <1>0, <2>2, <3>1, <3>2, ClaimsElsewhere
  <2> QED
    BY <1>4, <2>1, <2>2 DEF UpdateFails
<1>5. CASE ListOK \/ ListFails
  <2>1. PICK found \in SUBSET Policies : Trigger(found) /\ (p \in found => listed[p])
    BY <1>5 DEF ListOK, ListFails
  <2>2. /\ UNCHANGED <<api, stream, version, secretQueued, loc, placed, queued, ppc, got, replica,
                       listed, unmoved>>
        /\ todo' = found /\ pc' = "patch"
        /\ missed' = PassedBy(missed, Policies \ found, loc.key)
    BY <2>1 DEF Trigger, secretVars
  <2>3. missed[p] \subseteq missed'[p]
    BY <1>0, <2>2, PassedByGrows
  <2>4. ASSUME NEW k \in Keys, Announced(p, k)
        PROVE  Announced(p, k)' \/ got[p] \in {Empty, k} \/ k \in missed'[p]
    <3>1. loc.key = k
      BY <2>4 DEF Announced
    <3>2. CASE p \in found
      BY <2>2, <3>1, <3>2 DEF Announced
    <3>3. CASE p \notin found
      BY <1>0, <2>2, <3>1, <3>3, PassedByMissed
    <3> QED
      BY <3>2, <3>3
  <2>5. queued'[p] \/ listed'[p] \/ p \in todo' => p \in placed'
    BY <1>0, <2>1, <2>2 DEF Claims, GotSound
  <2> QED
    BY <1>0, <2>2, <2>3, <2>4, <2>5, ClaimsElsewhere
<1>6. ASSUME NEW q \in Policies, PatchOK(q) PROVE Claims(p)'
  <2>1. /\ UNCHANGED <<api, stream, version, secretQueued, pc, loc, placed, ppc, got, replica,
                       listed, missed>>
        /\ pc = "patch" /\ q \in todo /\ todo' = todo \ {q}
        /\ queued' = [queued EXCEPT ![q] = @ \/ mark[q] # loc.stamp]
        /\ unmoved' = IF mark[q] = loc.stamp THEN PassedBy(unmoved, {q}, loc.key) ELSE unmoved
    BY <1>6 DEF PatchOK, secretVars
  <2>2. unmoved[p] \subseteq unmoved'[p]
    BY <1>0, <2>1, PassedByGrows
  <2>3. queued \in [Policies -> BOOLEAN] /\ q \in placed
    BY <2>1 DEF PolicyInv, Claims, GotSound, TypeInv, KeysTypeOK
  <2>4. ASSUME NEW k \in Keys, Announced(p, k)
        PROVE  Announced(p, k)' \/ queued'[p] \/ got[p] \in {Empty, k} \/ k \in unmoved'[p]
    <3>1. loc.key = k
      BY <2>4 DEF Announced
    <3>2. CASE p # q
      BY <2>1, <2>4, <3>2 DEF Announced
    <3>3. CASE p = q /\ mark[q] # loc.stamp
      BY <2>1, <2>3, <3>3
    <3>4. CASE p = q /\ mark[q] = loc.stamp
      BY <1>0, <2>1, <3>1, <3>4, PassedByMissed
    <3> QED
      BY <3>2, <3>3, <3>4
  <2>5. (queued[p] => queued'[p]) /\ (queued'[p] \/ listed'[p] \/ p \in todo' => p \in placed')
    BY <1>0, <2>1, <2>3 DEF Claims, GotSound
  <2> QED
    BY <1>0, <2>1, <2>2, <2>4, <2>5, ClaimsElsewhere
<1>7. ASSUME NEW q \in Policies, PatchFails(q) PROVE Claims(p)'
  <2>1. /\ UNCHANGED <<api, stream, version, secretQueued, pc, loc, placed, queued, ppc, got,
                       replica, listed, unmoved>>
        /\ pc = "patch" /\ q \in todo /\ todo' = todo \ {q}
        /\ missed' = PassedBy(missed, {q}, loc.key)
    BY <1>7 DEF PatchFails, secretVars
  <2>2. missed[p] \subseteq missed'[p]
    BY <1>0, <2>1, PassedByGrows
  <2>3. ASSUME NEW k \in Keys, Announced(p, k)
        PROVE  Announced(p, k)' \/ got[p] \in {Empty, k} \/ k \in missed'[p]
    <3>1. loc.key = k
      BY <2>3 DEF Announced
    <3>2. CASE p # q
      BY <2>1, <2>3, <3>2 DEF Announced
    <3>3. CASE p = q
      BY <1>0, <2>1, <3>1, <3>3, PassedByMissed
    <3> QED
      BY <3>2, <3>3
  <2>4. queued'[p] \/ listed'[p] \/ p \in todo' => p \in placed'
    BY <1>0, <2>1 DEF Claims, GotSound
  <2> QED
    BY <1>0, <2>1, <2>2, <2>3, <2>4, ClaimsElsewhere
<1>8. CASE TriggerDone
  <2>1. /\ UNCHANGED <<api, stream, version, secretQueued, placed, queued, ppc, got, replica,
                       listed, todo, missed, unmoved>>
        /\ \A k \in Keys : ~Announced(p, k)
    BY <1>8 DEF TriggerDone, Announced, secretVars, policyVars
  <2>2. queued'[p] \/ listed'[p] \/ p \in todo' => p \in placed'
    BY <1>0, <2>1 DEF Claims, GotSound
  <2> QED
    BY <1>0, <2>1, <2>2, ClaimsElsewhere
<1> QED
  BY <1>1, <1>3, <1>4, <1>5, <1>6, <1>7, <1>8 DEF RotationStep, Update

LEMMA PolicyPolicies ==
    ASSUME TypeInv, SecretInv, PolicyInv, NEW q \in Policies,
           PolicyStep(q) \/ SeeReplica(q) \/ PlacePolicy(q)
    PROVE  PolicyInv'
<1> SUFFICES ASSUME NEW p \in Policies PROVE Claims(p)'
  BY DEF PolicyInv
<1>0. /\ Claims(p)
      /\ missed \in [Policies -> SUBSET Keys] /\ unmoved \in [Policies -> SUBSET Keys]
      /\ queued \in [Policies -> BOOLEAN] /\ listed \in [Policies -> BOOLEAN]
      /\ ppc \in [Policies -> {"idle", "create", "write"}]
      /\ got \in [Policies -> Keys \cup {Bad, Empty}]
      /\ replica \in [Policies -> Keys \cup {Bad, NoReplica}]
  BY DEF PolicyInv, TypeInv, KeysTypeOK
<1>1. ASSUME UNCHANGED <<api, stream, version, secretQueued, pc, loc, todo, placed>>,
             queued'[p] = queued[p], ppc'[p] = ppc[p], got'[p] = got[p],
             replica'[p] = replica[p], missed'[p] = missed[p], unmoved'[p] = unmoved[p],
             listed'[p] => p \in placed
      PROVE  Claims(p)'
  <2>1. \A k \in Keys : Announced(p, k) => Announced(p, k)'
    BY <1>1 DEF Announced
  <2>2. queued'[p] \/ listed'[p] \/ p \in todo' => p \in placed'
    BY <1>0, <1>1 DEF Claims, GotSound
  <2> QED
    BY <1>0, <1>1, <2>1, <2>2, ClaimsElsewhere
<1>2. CASE GetKey(q)
  <2>1. /\ UNCHANGED <<api, stream, version, secretQueued, pc, loc, todo, placed, replica, listed>>
        /\ queued' = [queued EXCEPT ![q] = FALSE] /\ queued[q]
    BY <1>2 DEF GetKey, secretVars, keyVars
  <2>2. CASE p # q
    <3>1. /\ ppc'[p] = ppc[p] /\ got'[p] = got[p]
          /\ missed'[p] = missed[p] /\ unmoved'[p] = unmoved[p]
      BY <1>0, <1>2, <2>2 DEF GetKey, ObtainKey
    <3> QED
      BY <1>0, <1>1, <2>1, <2>2, <3>1 DEF Claims, GotSound
  <2>3. CASE p = q /\ cached = NoSecret
    BY <1>0, <1>2, <2>1, <2>3, ClaimsHandled DEF GetKey, Handled, Claims, GotSound
  <2>4. CASE p = q /\ cached # NoSecret
    BY <1>0, <1>2, <2>1, <2>4, ClaimsObtained DEF GetKey, Claims, GotSound
  <2> QED
    BY <2>2, <2>3, <2>4
<1>3. CASE CreateKey(q)
  <2>1. PICK s \in Secret : Store(s) /\ s.key = NewKey /\ s.prev = Empty
    <3> DEFINE new == [data |-> TRUE, key |-> NewKey, prev |-> Empty, stamp |-> now,
                       disabled |-> FALSE, ver |-> 0]
    <3>1. new \in Secret /\ new.key = NewKey /\ new.prev = Empty
      BY NewKeyType, EncryptionBounds DEF TypeInv, KeysTypeOK, Secret
    <3>2. Store(new)
      BY <1>3 DEF CreateKey
    <3> HIDE DEF new
    <3> QED
      BY <3>1, <3>2
  <2>2. /\ NewKey \in Keys /\ s.prev \notin Keys /\ s.key # Bad
        /\ ppc[q] = "create" /\ UNCHANGED <<pc, loc, todo, placed, replica, listed>>
    BY <1>3, <2>1, NewKeyType, KeyAssumption DEF CreateKey, keyVars, Keys
  <2>3. version \in Nat /\ version' = version + 1 /\ NewKey = version'
    BY <2>1 DEF Store, TypeInv, KeysTypeOK, NewKey
  <2>4. CASE p # q
    <3>1. UNCHANGED <<queued[p], ppc[p], got[p], unmoved[p]>>
      BY <1>0, <1>3, <2>4 DEF CreateKey, Requeue
    <3>2. missed'[p] = PassedBy(missed, Policies, NewKey)[p]
      <4>1. PassedBy(missed, Policies, NewKey) \in [Policies -> SUBSET Keys]
        BY <1>0, PassedByType
      <4> QED
        BY <1>3, <2>4, <4>1 DEF CreateKey
    <3>3. got[p] \in {Empty, s.key} \/ Excused(p, s.key)'
      BY <1>0, <2>1, <2>2, <3>2, PassedByMissed DEF Excused
    <3> QED
      BY <1>0, <2>1, <2>2, <3>1, <3>3, ClaimsStored
  <2>5. CASE p = q /\ ppc' = [ppc EXCEPT ![q] = "write"] /\ got' = [got EXCEPT ![q] = NewKey]
    <3>1. api' # NoSecret /\ api'.key = NewKey /\ api'.prev \notin Keys
      BY <2>1, <2>2, StoreFields
    <3>2. got'[p] = NewKey /\ ppc'[p] = "write" /\ p \in placed'
      BY <1>0, <2>2, <2>5 DEF Claims, GotSound
    <3>3. NewKey # Empty /\ NewKey <= version'
      BY <2>2, <2>3, KeyAssumption DEF Keys
    <3>4. GotSound(p)'
      BY <3>2, <3>3 DEF GotSound
    <3> QED
      BY <3>1, <3>2, <3>4 DEF Claims, CurrentSound, PreviousSound, TwoKeys
  <2>6. CASE p = q /\ Requeue(q) /\ got' = got
    <3>1. queued'[p] /\ got'[p] = got[p] /\ p \in placed'
      BY <1>0, <2>2, <2>6 DEF Requeue, Claims, GotSound
    <3>2. got'[p] \in Keys => got'[p] <= version'
      BY <1>0, <2>3, <3>1 DEF Claims, GotSound, Keys
    <3> QED
      BY <1>0, <2>2, <3>1, <3>2, ClaimsHandled DEF Handled, Claims, GotSound
  <2> QED
    BY <1>3, <2>4, <2>5, <2>6 DEF CreateKey
<1>4. CASE AlreadyExists(q)
  <2>1. /\ UNCHANGED <<api, stream, version, secretQueued, pc, loc, todo, placed, replica, listed>>
        /\ ppc[q] = "create"
    BY <1>4 DEF AlreadyExists, secretVars, keyVars
  <2>2. CASE p # q
    <3>1. /\ ppc'[p] = ppc[p] /\ got'[p] = got[p] /\ queued'[p] = queued[p]
          /\ missed'[p] = missed[p] /\ unmoved'[p] = unmoved[p]
      BY <1>0, <1>4, <2>2 DEF AlreadyExists, Requeue, ObtainKey
    <3> QED
      BY <1>0, <1>1, <2>1, <3>1 DEF Claims, GotSound
  <2>3. CASE p = q /\ cached = NoSecret
    BY <1>0, <1>4, <2>1, <2>3, ClaimsHandled
    DEF AlreadyExists, Requeue, Handled, Claims, GotSound
  <2>4. CASE p = q /\ cached # NoSecret
    BY <1>0, <1>4, <2>1, <2>4, ClaimsObtained DEF AlreadyExists, Claims, GotSound
  <2> QED
    BY <2>2, <2>3, <2>4
<1>5. CASE CreateFails(q)
  <2>1. /\ UNCHANGED <<api, stream, version, secretQueued, pc, loc, todo, placed, got, replica,
                       listed, missed, unmoved>>
        /\ ppc[q] = "create" /\ ppc' = [ppc EXCEPT ![q] = "idle"]
        /\ queued' = [queued EXCEPT ![q] = TRUE]
    BY <1>5 DEF CreateFails, Requeue, secretVars, keyVars
  <2>2. CASE p # q
    BY <1>0, <1>1, <2>1, <2>2 DEF Claims, GotSound
  <2>3. CASE p = q
    BY <1>0, <2>1, <2>3, ClaimsHandled DEF Handled, Claims, GotSound
  <2> QED
    BY <2>2, <2>3
<1>6. CASE WriteReplica(q)
  <2>1. /\ UNCHANGED <<api, stream, version, secretQueued, pc, loc, todo, placed, got, listed,
                       missed, unmoved>>
        /\ ppc[q] = "write" /\ ppc' = [ppc EXCEPT ![q] = "idle"]
        /\ got[q] \in Keys \cup {Bad} /\ got[q] # Empty
    BY <1>6, KeyAssumption DEF WriteReplica, Requeue, TypeInv, LocalsOK, secretVars, keyVars, Keys
  <2>2. CASE p # q
    <3>1. queued'[p] = queued[p] /\ replica'[p] = replica[p]
      BY <1>0, <1>6, <2>2 DEF WriteReplica, Requeue
    <3> QED
      BY <1>0, <1>1, <2>1, <2>2, <3>1 DEF Claims, GotSound
  <2>3. CASE p = q /\ queued' = queued /\ replica' = [replica EXCEPT ![q] = got[q]]
    <3>1. GotSound(p)'
      BY <1>0, <2>1, <2>3 DEF Claims, GotSound
    <3>2. CurrentSound(p)'
      BY <1>0, <2>1, <2>3 DEF Claims, CurrentSound, Excused, Handled, Announced
    <3>3. PreviousSound(p)'
      BY <1>0, <2>1, <2>3 DEF Claims, PreviousSound, TwoKeys, Excused, Handled, Announced
    <3> QED
      BY <3>1, <3>2, <3>3 DEF Claims
  <2>4. CASE p = q /\ queued' = [queued EXCEPT ![q] = TRUE]
    BY <1>0, <2>1, <2>4, ClaimsHandled DEF Handled, Claims, GotSound
  <2> QED
    BY <1>6, <2>2, <2>3, <2>4 DEF WriteReplica, Requeue
<1>7. CASE SeeReplica(q)
  <2>1. /\ UNCHANGED <<api, stream, version, secretQueued, pc, loc, todo, placed, queued, ppc, got,
                       replica, missed, unmoved>>
        /\ replica[q] # NoReplica /\ listed' = [listed EXCEPT ![q] = TRUE]
    BY <1>7 DEF SeeReplica, secretVars, keyVars
  <2>2. listed'[p] => p \in placed
    BY <1>0, <2>1 DEF Claims, GotSound
  <2> QED
    BY <1>1, <2>1, <2>2
<1>8. CASE PlacePolicy(q)
  <2>1. /\ UNCHANGED <<api, stream, version, secretQueued, pc, loc, todo, ppc, got, replica, listed,
                       missed, unmoved>>
        /\ placed' = placed \cup {q} /\ queued' = [queued EXCEPT ![q] = TRUE]
    BY <1>8 DEF PlacePolicy, secretVars, keyVars
  <2>2. \A k \in Keys : Announced(p, k) => Announced(p, k)'
    BY <2>1 DEF Announced
  <2>3. (queued[p] => queued'[p]) /\ (queued'[p] \/ listed'[p] \/ p \in todo' => p \in placed')
    BY <1>0, <2>1 DEF Claims, GotSound
  <2> QED
    BY <1>0, <2>1, <2>2, <2>3, ClaimsElsewhere
<1> QED
  BY <1>2, <1>3, <1>4, <1>5, <1>6, <1>7, <1>8 DEF PolicyStep

LEMMA SurroundingsPolicies ==
    ASSUME TypeInv, SecretInv, PolicyInv, Surroundings PROVE PolicyInv'
<1> SUFFICES ASSUME NEW p \in Policies PROVE Claims(p)'
  BY DEF PolicyInv
<1>0. Claims(p) /\ missed \in [Policies -> SUBSET Keys] /\ unmoved \in [Policies -> SUBSET Keys]
  BY DEF PolicyInv, TypeInv, KeysTypeOK
<1>1. CASE SeeSecret \/ Tick \/ Timer
  <2>1. /\ UNCHANGED <<api, version, pc, loc, todo, placed, queued, ppc, got, replica, listed,
                       missed, unmoved>>
        /\ secretQueued' \/ UNCHANGED <<stream, secretQueued>>
    BY <1>1 DEF SeeSecret, Tick, Timer, secretVars, keyVars, policyVars
  <2>2. \A k \in Keys : Announced(p, k) => Announced(p, k)'
    BY <2>1 DEF Announced
  <2>3. queued'[p] \/ listed'[p] \/ p \in todo' => p \in placed'
    BY <1>0, <2>1 DEF Claims, GotSound
  <2> QED
    BY <1>0, <2>1, <2>2, <2>3, ClaimsElsewhere
<1>2. CASE EditSecret
  <2>1. PICK s \in EditedSecrets :
          /\ Store(s)
          /\ missed' = IF api.disabled /\ ~s.disabled THEN PassedBy(missed, Policies, s.key)
                       ELSE missed
    BY <1>2 DEF EditSecret
  <2>2. /\ s \in Secret /\ api # NoSecret
        /\ \/ s.key = Bad /\ s.prev \in {api.prev, Empty}
           \/ s.key = api.key /\ s.prev \in {api.prev, Bad}
    BY <1>2, <2>1, EditedType DEF EditSecret
  <2>3. UNCHANGED <<pc, loc, todo, placed, queued, ppc, got, replica, listed, unmoved>>
    BY <1>2 DEF EditSecret, keyVars, policyVars
  <2>4. missed[p] \subseteq missed'[p]
    BY <1>0, <2>1, PassedByGrows
  <2>5. \A k : Excused(p, k) => Excused(p, k)'
    BY <2>3, <2>4 DEF Excused, Handled, Announced
  <2>6. s.key # Bad => got[p] \in {Empty, s.key} \/ Excused(p, s.key)' \/ s.disabled
    <3> SUFFICES ASSUME s.key # Bad, ~s.disabled
                 PROVE  got[p] \in {Empty, s.key} \/ Excused(p, s.key)'
      OBVIOUS
    <3>1. s.key = api.key /\ s.key \in Keys
      BY <2>2 DEF Secret
    <3>2. CASE api.disabled
      BY <1>0, <2>1, <3>1, <3>2, PassedByMissed DEF Excused
    <3>3. CASE ~api.disabled
      BY <1>0, <2>2, <2>5, <3>1, <3>3 DEF Claims, CurrentSound
    <3> QED
      BY <3>2, <3>3
  <2>7. s.key # Bad /\ s.prev \in Keys =>
            got[p] \in {Empty, s.key, s.prev} \/ Excused(p, s.prev)'
    <3>1. s.key # Bad /\ s.prev \in Keys => s.key = api.key /\ s.prev = api.prev
      BY <2>2, KeyAssumption DEF Keys
    <3> QED
      BY <1>0, <2>2, <2>5, <3>1 DEF Claims, PreviousSound, TwoKeys
  <2> QED
    BY <1>0, <2>1, <2>2, <2>3, <2>6, <2>7, ClaimsStored
<1>3. CASE ReplaceKey
  <2>1. PICK s \in Secret : /\ Store(s) /\ s.key = NewKey /\ s.disabled = api.disabled
                            /\ s.prev = IF api.key = Bad THEN Empty ELSE api.key
    BY <1>3, ReplaceFields
  <2>2. /\ UNCHANGED <<pc, loc, todo, placed, queued, ppc, got, replica, listed, unmoved>>
        /\ api # NoSecret
        /\ missed' = PassedBy(missed, Policies, IF api.disabled THEN api.key ELSE NewKey)
    BY <1>3 DEF ReplaceKey, keyVars, policyVars
  <2>3. missed[p] \subseteq missed'[p]
    BY <1>0, <2>2, PassedByGrows
  <2>4. \A k : Excused(p, k) => Excused(p, k)'
    BY <2>2, <2>3 DEF Excused, Handled, Announced
  <2>5. got[p] \in {Empty, s.key} \/ Excused(p, s.key)' \/ s.disabled
    BY <1>0, <2>1, <2>2, NewKeyType, PassedByMissed DEF Excused
  <2>6. s.prev \in Keys => got[p] \in {Empty, s.key, s.prev} \/ Excused(p, s.prev)'
    <3> SUFFICES ASSUME s.prev \in Keys
                 PROVE  got[p] \in {Empty, s.prev} \/ Excused(p, s.prev)'
      OBVIOUS
    <3>1. s.prev = api.key /\ api.key # Bad
      BY <2>1, KeyAssumption DEF Keys
    <3>2. CASE api.disabled
      BY <1>0, <2>2, <3>1, <3>2, PassedByMissed DEF Excused
    <3>3. CASE ~api.disabled
      BY <1>0, <2>2, <2>4, <3>1, <3>3 DEF Claims, CurrentSound
    <3> QED
      BY <3>2, <3>3
  <2> QED
    BY <1>0, <2>1, <2>2, <2>5, <2>6, ClaimsStored
<1>4. CASE DeleteSecret
  <2>1. /\ api' = NoSecret /\ version' = version + 1 /\ version \in Nat
        /\ UNCHANGED <<todo, placed, queued, ppc, got, replica, listed>>
    BY <1>4 DEF DeleteSecret, Store, keyVars, policyVars, TypeInv, KeysTypeOK
  <2>2. GotSound(p)'
    BY <1>0, <2>1 DEF Claims, GotSound, Handled, Keys
  <2> QED
    BY <2>1, <2>2 DEF Claims, CurrentSound, PreviousSound, TwoKeys
<1>5. CASE Restart
  <2>1. /\ UNCHANGED <<api, version, placed, got, replica>>
        /\ todo' = {} /\ ppc' = [q \in Policies |-> "idle"]
        /\ queued' = [q \in Policies |-> q \in placed]
        /\ listed' = [q \in Policies |-> replica[q] # NoReplica]
    BY <1>5 DEF Restart, RestartQueue
  <2>2. CASE p \in placed
    BY <1>0, <2>1, <2>2, ClaimsHandled DEF Handled, Claims, GotSound
  <2>3. CASE p \notin placed
    <3>1. got[p] = Empty /\ replica[p] = NoReplica
      BY <1>0, <2>3 DEF Claims, GotSound
    <3>2. GotSound(p)'
      BY <1>0, <2>1, <2>3, <3>1 DEF Claims, GotSound
    <3> QED
      BY <2>1, <3>1, <3>2 DEF Claims, CurrentSound, PreviousSound
  <2> QED
    BY <2>2, <2>3
<1> QED
  BY <1>1, <1>2, <1>3, <1>4, <1>5 DEF Surroundings

LEMMA PolicyInvariant == KeysSpec => []PolicyInv
<1>1. TypeInv /\ SecretInv /\ PolicyInv /\ [KeysNext]_keysVars => PolicyInv'
  <2> SUFFICES ASSUME TypeInv, SecretInv, PolicyInv, [KeysNext]_keysVars PROVE PolicyInv'
    OBVIOUS
  <2>1. CASE RotationStep
    BY <2>1, RotationPolicies
  <2>2. CASE \E p \in Policies : PolicyStep(p) \/ SeeReplica(p) \/ PlacePolicy(p)
    BY <2>2, PolicyPolicies
  <2>3. CASE Surroundings
    BY <2>3, SurroundingsPolicies
  <2>4. CASE UNCHANGED keysVars
    BY <2>4 DEF keysVars, secretVars, PolicyInv, Claims, GotSound, CurrentSound, PreviousSound,
                TwoKeys, Excused, Handled, Announced
  <2> QED
    BY <2>1, <2>2, <2>3, <2>4, KeysNextSplit
<1> QED
  BY <1>1, KeysInitPolicy, TypeInvariant, SecretInvariant, PTL DEF KeysSpec

(* At rest nobody is handled and nothing is announced.                       *)
LEMMA AtRestKeys ==
    ASSUME TypeInv, PolicyInv, AtRest, NEW p \in Encrypted
    PROVE  /\ p \in Policies /\ replica[p] = got[p] /\ got[p] # Empty
           /\ \A k : Excused(p, k) => k \in missed[p] \cup unmoved[p]
<1>1. p \in Policies /\ replica[p] # NoReplica /\ Claims(p)
  BY DEF Encrypted, PolicyInv
<1>2. ppc[p] = "idle" /\ ~queued[p] /\ pc = "idle"
  BY <1>1 DEF AtRest
<1>3. got[p] # Empty /\ replica[p] = got[p]
  BY <1>1, <1>2 DEF Claims, GotSound, Handled
<1> QED
  BY <1>1, <1>2, <1>3 DEF Excused, Handled, Announced

(* CurrentUnlessMissed, for every set of policies and all bounds: whatever   *)
(* the order of rotations, triggers, reconciles, edits, failures and         *)
(* restarts, a replica at rest has the key of the Secret, or just that key   *)
(* passed its policy by.                                                     *)
THEOREM ReplicasCurrent == KeysSpec => []CurrentUnlessMissed
<1>1. TypeInv /\ PolicyInv => CurrentUnlessMissed
  <2> SUFFICES ASSUME TypeInv, PolicyInv, AtRest, api # NoSecret, api.key # Bad, NEW p \in Encrypted
               PROVE  replica[p] = api.key \/ api.key \in missed[p] \cup unmoved[p]
    BY DEF CurrentUnlessMissed
  <2>1. stream = <<>> /\ ~secretQueued
    BY DEF AtRest
  <2>2. CurrentSound(p)
    BY AtRestKeys DEF PolicyInv, Claims
  <2> QED
    BY <2>1, <2>2, AtRestKeys DEF CurrentSound
<1> QED
  BY <1>1, TypeInvariant, PolicyInvariant, PTL

(* DecryptableAfterOneMiss, for every set of policies and all bounds: at     *)
(* rest a replica was encrypted with a key of the Secret, or each key of the *)
(* Secret passed its policy by.                                              *)
THEOREM ReplicasDecryptable == KeysSpec => []DecryptableAfterOneMiss
<1>1. TypeInv /\ PolicyInv => DecryptableAfterOneMiss
  <2> SUFFICES ASSUME TypeInv, PolicyInv, AtRest, api # NoSecret, api.key # Bad, NEW p \in Encrypted
               PROVE  \/ replica[p] \in {api.key, api.prev}
                      \/ {api.key, api.prev} \cap Keys \subseteq missed[p] \cup unmoved[p]
    BY DEF DecryptableAfterOneMiss
  <2>1. stream = <<>> /\ ~secretQueued
    BY DEF AtRest
  <2>2. CurrentSound(p) /\ PreviousSound(p)
    BY AtRestKeys DEF PolicyInv, Claims
  <2>3. replica[p] = api.key \/ api.key \in missed[p] \cup unmoved[p]
    BY <2>1, <2>2, AtRestKeys DEF CurrentSound
  <2>4. CASE api.prev \in Keys
    BY <2>2, <2>3, <2>4, AtRestKeys DEF PreviousSound, TwoKeys
  <2>5. CASE api.prev \notin Keys
    BY <2>3, <2>5
  <2> QED
    BY <2>4, <2>5
<1> QED
  BY <1>1, TypeInvariant, PolicyInvariant, PTL

=============================================================================
